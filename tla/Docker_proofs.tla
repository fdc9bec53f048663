---------------------------- MODULE Docker_proofs ----------------------------
(***************************************************************************)
(* Theorems about the Docker side.  Containers, for any number of          *)
(* containers and networks and whatever their labels say: an answer is     *)
(* whole, two passes over a Docker that did not change answer alike, and   *)
(* the events asked for are enough.  EngineAPI, for any number of calls    *)
(* and any daemon: a good version is kept, and one retry is enough.        *)
(***************************************************************************)
EXTENDS Containers, EngineAPI, SequenceTheorems, WellFoundedInduction, TLAPS

(* Where a container may be on the networks there are. *)
Places == UNION {[some -> Addresses] : some \in SUBSET Names}

(* What Of(c, answer) may be for a container on these networks. *)
Choices(c, on) == SelectNetwork(Networks(on), Label[c].network)

-----------------------------------------------------------------------------
(* Lemmas about the operators. *)

LEMMA NatBelow == IsWellFoundedOn({ss \in Nat \X Nat : ss[1] < ss[2]}, Nat)
  BY NatLessThanWellFounded, Zenon DEF OpToRel

LEMMA LeastIndex ==
  ASSUME NEW T, T \subseteq Nat, T # {}
  PROVE  \E i \in T : \A j \in T : i <= j
<1> DEFINE below == {ss \in Nat \X Nat : ss[1] < ss[2]}
<1>1. IsWellFoundedOn(below, Nat)
  BY NatBelow
<1>2. \A i, j \in Nat : ~(i <= j) => <<j, i>> \in below
  OBVIOUS
<1> HIDE DEF below
<1>3. PICK i \in T : \A j \in T : ~(<<j, i>> \in below)
  BY <1>1, WFMin
<1> QED
  BY <1>2, <1>3

LEMMA RankIs ==
  ASSUME NEW d, \E i \in DOMAIN preference : preference[i] = d
  PROVE  Rank(d) \in 1 .. 4 /\ preference[Rank(d)] = d
<1>1. DOMAIN preference = 1 .. 4
  BY DEF preference
<1>2. Rank(d) \in DOMAIN preference /\ preference[Rank(d)] = d
  BY DEF Rank
<1> QED
  BY <1>1, <1>2

(* The rules of a label are its own and then those of its published ports. *)
LEMMA FoundIs ==
  ASSUME NEW c \in Ids
  PROVE  LET rules == Label[c].rules
             published == Label[c].published
             found == Found(Label[c])
         IN /\ found \in Seq([slot: Nat, port: Nat])
            /\ Len(rules) \in Nat /\ Len(published) \in Nat
            /\ DOMAIN rules = 1 .. Len(rules) /\ DOMAIN published = 1 .. Len(published)
            /\ DOMAIN found = 1 .. Len(rules) + Len(published)
            /\ \A i \in DOMAIN rules : found[i] = rules[i]
            /\ \A i \in DOMAIN published :
                 found[Len(rules) + i] = Rule(published[i], published[i])
            /\ \A i \in DOMAIN found :
                 IF i <= Len(rules) THEN found[i] = rules[i]
                 ELSE /\ i - Len(rules) \in DOMAIN published
                      /\ found[i] = Rule(published[i - Len(rules)], published[i - Len(rules)])
<1> DEFINE rules == Label[c].rules
           published == Label[c].published
           inferred == [i \in DOMAIN published |-> Rule(published[i], published[i])]
           R == [slot: Nat, port: Nat]
<1>1. rules \in Seq(R) /\ published \in Seq(Nat)
  BY ContainerAssumption
<1>2. /\ Len(rules) \in Nat /\ Len(published) \in Nat
      /\ DOMAIN rules = 1 .. Len(rules) /\ DOMAIN published = 1 .. Len(published)
      /\ \A i \in DOMAIN published : published[i] \in Nat
  BY <1>1
<1>3. inferred \in [1 .. Len(published) -> R]
  BY <1>2 DEF Rule
<1>7. \A i \in DOMAIN published : inferred[i] = Rule(published[i], published[i])
  BY DEF inferred
<1>8. Found(Label[c]) = rules \o inferred
  BY DEF Found, inferred
<1> HIDE DEF inferred, rules, published, R
<1>4. inferred \in Seq(R) /\ Len(inferred) = Len(published)
  BY <1>2, <1>3
<1>5. /\ rules \o inferred \in Seq(R)
      /\ Len(rules \o inferred) = Len(rules) + Len(published)
      /\ \A i \in 1 .. Len(rules) + Len(published) :
           (rules \o inferred)[i] = IF i <= Len(rules) THEN rules[i] ELSE inferred[i - Len(rules)]
  <2>1. /\ rules \o inferred \in Seq(R)
        /\ Len(rules \o inferred) = Len(rules) + Len(inferred)
        /\ \A i \in 1 .. Len(rules) + Len(inferred) :
             (rules \o inferred)[i] =
               IF i <= Len(rules) THEN rules[i] ELSE inferred[i - Len(rules)]
    BY <1>1, <1>4, ConcatProperties, Zenon
  <2> QED
    BY <2>1, <1>4, Zenon
<1>6. DOMAIN (rules \o inferred) = 1 .. Len(rules) + Len(published)
  BY <1>5
<1>9. \A i \in DOMAIN published :
        Len(rules) + i \in 1 .. Len(rules) + Len(published) /\ ~(Len(rules) + i <= Len(rules))
        /\ (Len(rules) + i) - Len(rules) = i
  BY <1>2
<1>10. \A i \in 1 .. Len(rules) + Len(published) :
         ~(i <= Len(rules)) => i - Len(rules) \in DOMAIN published
  BY <1>2
<1>11. \A i \in DOMAIN rules : i \in 1 .. Len(rules) + Len(published) /\ i <= Len(rules)
  BY <1>2
<1> QED
  BY <1>2, <1>5, <1>6, <1>7, <1>8, <1>9, <1>10, <1>11 DEF rules, published, R
(* Of what a label says, each slot is asked for once, and what is written   *)
(* down goes before what was inferred from a published port.               *)
LEMMA CollapseIs ==
  ASSUME NEW c \in Ids
  PROVE  LET label == Label[c]
             rules == Collapse(Found(label))
             written == {label.rules[i].slot : i \in DOMAIN label.rules}
             slots == written \cup {label.published[i] : i \in DOMAIN label.published}
         IN /\ {rule.slot : rule \in rules} = slots
            /\ \A r, s \in rules : r.slot = s.slot => r = s
            /\ \A rule \in rules :
                 IF rule.slot \in written
                 THEN \E i \in DOMAIN label.rules : label.rules[i] = rule
                 ELSE rule.port = rule.slot
<1> DEFINE label == Label[c]
           found == Found(label)
           rules == Collapse(found)
           written == {label.rules[i].slot : i \in DOMAIN label.rules}
           slots == written \cup {label.published[i] : i \in DOMAIN label.published}
           first(i) == \A k \in 1 .. i - 1 : found[k].slot # found[i].slot
           own == Len(label.rules)
           all == own + Len(label.published)
<1>1. /\ own \in Nat /\ Len(label.published) \in Nat /\ all \in Nat
      /\ DOMAIN label.rules = 1 .. own /\ DOMAIN label.published = 1 .. Len(label.published)
      /\ DOMAIN found = 1 .. all
      /\ \A i \in DOMAIN label.rules : found[i] = label.rules[i] /\ i \in DOMAIN found
      /\ \A i \in DOMAIN label.published :
           found[own + i].slot = label.published[i] /\ own + i \in DOMAIN found
      /\ \A i \in DOMAIN found :
           IF i <= own THEN found[i] = label.rules[i] /\ i \in DOMAIN label.rules
           ELSE /\ found[i].port = found[i].slot
                /\ \E j \in DOMAIN label.published : found[i].slot = label.published[j]
  <2>1. /\ own \in Nat /\ Len(label.published) \in Nat
        /\ DOMAIN label.rules = 1 .. own /\ DOMAIN label.published = 1 .. Len(label.published)
        /\ DOMAIN found = 1 .. all
        /\ \A i \in DOMAIN label.rules : found[i] = label.rules[i]
        /\ \A i \in DOMAIN label.published :
             found[own + i] = Rule(label.published[i], label.published[i])
        /\ \A i \in DOMAIN found :
             IF i <= own THEN found[i] = label.rules[i]
             ELSE /\ i - own \in DOMAIN label.published
                  /\ found[i] = Rule(label.published[i - own], label.published[i - own])
    BY FoundIs
  <2>2. \A p : Rule(p, p).slot = p /\ Rule(p, p).port = p
    BY DEF Rule
  <2> HIDE DEF label, found, own
  <2> QED
    BY <2>1, <2>2
<1>2. rules = {found[i] : i \in {j \in DOMAIN found : first(j)}}
  BY DEF Collapse
<1> HIDE DEF label, found, rules, own, all
<1>3. \A i \in DOMAIN found : \E j \in DOMAIN found :
        first(j) /\ found[j].slot = found[i].slot /\ j <= i
  <2> SUFFICES ASSUME NEW i \in DOMAIN found
               PROVE  \E j \in DOMAIN found :
                        first(j) /\ found[j].slot = found[i].slot /\ j <= i
    OBVIOUS
  <2> DEFINE same == {j \in DOMAIN found : found[j].slot = found[i].slot}
  <2>1. same \subseteq Nat /\ i \in same
    BY <1>1
  <2>2. PICK j \in same : \A k \in same : j <= k
    BY <2>1, LeastIndex
  <2>3. j \in DOMAIN found /\ j \in Nat /\ found[j].slot = found[i].slot /\ j <= i
    BY <2>1, <2>2
  <2>4. first(j)
    <3> SUFFICES ASSUME NEW k \in 1 .. j - 1, found[k].slot = found[j].slot PROVE FALSE
      OBVIOUS
    <3>1. k \in DOMAIN found /\ ~(j <= k)
      BY <2>3, <1>1
    <3>2. k \in same
      BY <2>3, <3>1
    <3> QED
      BY <2>2, <3>1, <3>2
  <2> QED
    BY <2>3, <2>4
<1>4. \A i, j \in DOMAIN found :
        first(i) /\ first(j) /\ found[i].slot = found[j].slot => i = j
  <2> SUFFICES ASSUME NEW i \in DOMAIN found, NEW j \in DOMAIN found,
                      first(i), first(j), found[i].slot = found[j].slot
               PROVE  i = j
    OBVIOUS
  <2>1. i \in 1 .. all /\ j \in 1 .. all
    BY <1>1
  <2>2. ~(i < j)
    BY <2>1, i \in 1 .. j - 1 \/ ~(i < j)
  <2>3. ~(j < i)
    BY <2>1, j \in 1 .. i - 1 \/ ~(j < i)
  <2> QED
    BY <2>1, <2>2, <2>3
<1>5. \A rule \in rules : rule.slot \in slots
  BY <1>1, <1>2
<1>6. \A slot \in slots : \E rule \in rules : rule.slot = slot
  <2> SUFFICES ASSUME NEW slot \in slots PROVE \E i \in DOMAIN found : found[i].slot = slot
    BY <1>2, <1>3
  <2>1. CASE slot \in written
    BY <1>1, <2>1
  <2>2. CASE \E i \in DOMAIN label.published : slot = label.published[i]
    BY <1>1, <2>2
  <2> QED
    BY <2>1, <2>2
<1>7. {rule.slot : rule \in rules} = slots
  BY <1>5, <1>6, Zenon
<1>8. \A r, s \in rules : r.slot = s.slot => r = s
  BY <1>2, <1>4
<1>9. \A rule \in rules :
        IF rule.slot \in written
        THEN \E i \in DOMAIN label.rules : label.rules[i] = rule
        ELSE rule.port = rule.slot
  <2> SUFFICES ASSUME NEW i \in DOMAIN found, first(i)
               PROVE  IF found[i].slot \in written
                      THEN \E k \in DOMAIN label.rules : label.rules[k] = found[i]
                      ELSE found[i].port = found[i].slot
    BY <1>2
  <2>1. CASE i <= own
    BY <1>1, <2>1
  <2>2. CASE ~(i <= own)
    <3>1. found[i].port = found[i].slot
      BY <1>1, <2>2
    <3>2. found[i].slot \notin written
      <4> SUFFICES ASSUME NEW k \in DOMAIN label.rules, label.rules[k].slot = found[i].slot
                   PROVE  FALSE
        OBVIOUS
      <4>1. k \in 1 .. i - 1 /\ found[k].slot = found[i].slot
        BY <1>1, <2>2
      <4> QED
        BY <4>1
    <3> QED
      BY <3>1, <3>2
  <2> QED
    BY <2>1, <2>2
<1> QED
  BY <1>7, <1>8, <1>9 DEF label, found, rules

(* What a container on networks that exist may be reached on is what the    *)
(* documents say is best.                                                  *)
LEMMA SelectIsBest ==
  ASSUME NEW c \in Ids, DOMAIN links[c] \subseteq Existing
  PROVE  Choices(c, links[c]) =
           {[name |-> n, driver |-> drivers[n], address |-> links[c][n]] :
              n \in {m \in Names : BestNetwork(c, m)}}
<1> DEFINE entry(n) == [name |-> n, driver |-> drivers[n], address |-> links[c][n]]
           networks == Networks(links[c])
<1>1. networks = {entry(n) : n \in DOMAIN links[c]}
  BY DEF Networks, Driver, Existing
<1>2. Supported(networks) = {entry(n) : n \in Reachable(c)}
  BY <1>1 DEF Supported, Reachable
<1> HIDE DEF networks
<1>3. \A n \in Reachable(c) :
        /\ n \in Names /\ n \in Nat
        /\ Rank(drivers[n]) \in 1 .. 4 /\ preference[Rank(drivers[n])] = drivers[n]
  BY RankIs, ContainerAssumption DEF Reachable, Existing
<1>4. \A n, m \in Reachable(c) :
        ~Before(entry(m), entry(n)) <=>
          (Rank(drivers[n]) < Rank(drivers[m]) \/ (drivers[n] = drivers[m] /\ n <= m))
  BY <1>3 DEF Before
<1>5. \A n : BestNetwork(c, n) => n \in Reachable(c)
  BY DEF BestNetwork
<1>6. CASE Label[c].network # NoName
  <2>1. Choices(c, links[c]) = {n \in Supported(networks) : n.name = Label[c].network}
    BY <1>6 DEF Choices, SelectNetwork, networks
  <2>2. \A n : BestNetwork(c, n) <=> n = Label[c].network /\ n \in Reachable(c)
    BY <1>6 DEF BestNetwork
  <2> QED
    BY <1>2, <1>3, <2>1, <2>2
<1>7. CASE Label[c].network = NoName
  <2>1. Choices(c, links[c]) =
          {n \in Supported(networks) : \A other \in Supported(networks) : ~Before(other, n)}
    BY <1>7 DEF Choices, SelectNetwork, networks
  <2>2. Choices(c, links[c]) =
          {entry(n) : n \in {m \in Reachable(c) :
                               \A k \in Reachable(c) : ~Before(entry(k), entry(m))}}
    <3>1. \A n \in Supported(networks) :
            (\A other \in Supported(networks) : ~Before(other, n)) <=>
            (\A k \in Reachable(c) : ~Before(entry(k), n))
      BY <1>2
    <3> HIDE DEF entry
    <3> QED
      BY <1>2, <2>1, <3>1
  <2>3. \A n \in Reachable(c) :
          BestNetwork(c, n) <=> \A k \in Reachable(c) : ~Before(entry(k), entry(n))
    BY <1>4, <1>7 DEF BestNetwork
  <2>4. {m \in Names : BestNetwork(c, m)} =
          {m \in Reachable(c) : \A k \in Reachable(c) : ~Before(entry(k), entry(m))}
    BY <1>3, <1>5, <2>3
  <2> QED
    BY <2>2, <2>4
<1> QED
  BY <1>6, <1>7

(* There is one best network at most. *)
LEMMA OneBest ==
  ASSUME NEW c \in Ids, DOMAIN links[c] \subseteq Existing,
         NEW n, BestNetwork(c, n), NEW m, BestNetwork(c, m)
  PROVE  n = m
<1>1. n \in Reachable(c) /\ m \in Reachable(c)
  BY DEF BestNetwork
<1>2. /\ n \in Nat /\ Rank(drivers[n]) \in 1 .. 4
      /\ m \in Nat /\ Rank(drivers[m]) \in 1 .. 4
  BY <1>1, RankIs, ContainerAssumption DEF Reachable, Existing
<1> QED
  BY <1>1, <1>2 DEF BestNetwork
(* An answer is made container by container: from each that was listed and  *)
(* has a network that will do, what its label says, on one such network.    *)
LEMMA ResolveEach ==
  ASSUME NEW listed, NEW forwards \in Resolve(listed)
  PROVE  /\ \A f \in forwards : f.owner \in DOMAIN listed
         /\ \A c \in DOMAIN listed :
              IF Choices(c, listed[c]) = {} THEN Of(c, forwards) = {}
              ELSE \E network \in Choices(c, listed[c]) : Of(c, forwards) = Forwards(c, network)
<1> DEFINE choices == [c \in DOMAIN listed |-> Choices(c, listed[c])]
           served == {c \in DOMAIN listed : choices[c] # {}}
<1>1. PICK chosen \in [served -> UNION {choices[c] : c \in served}] :
        /\ \A c \in served : chosen[c] \in choices[c]
        /\ forwards = UNION {Forwards(c, chosen[c]) : c \in served}
  BY DEF Resolve, Choices
<1> HIDE DEF choices
<1>2. \A c : \A f \in Forwards(c, chosen[c]) : f.owner = c
  BY DEF Forwards
<1>3. \A f \in forwards : f.owner \in served /\ f \in Forwards(f.owner, chosen[f.owner])
  <2> SUFFICES ASSUME NEW f \in forwards
               PROVE  f.owner \in served /\ f \in Forwards(f.owner, chosen[f.owner])
    OBVIOUS
  <2>1. PICK c \in served : f \in Forwards(c, chosen[c])
    BY <1>1
  <2> QED
    BY <1>2, <2>1
<1>4. \A f \in forwards : f.owner \in DOMAIN listed
  BY <1>3
<1>5. \A c \in served : Of(c, forwards) = Forwards(c, chosen[c])
  <2> SUFFICES ASSUME NEW c \in served PROVE Of(c, forwards) = Forwards(c, chosen[c])
    OBVIOUS
  <2>1. Forwards(c, chosen[c]) \subseteq forwards
    BY <1>1
  <2>2. \A f \in Forwards(c, chosen[c]) : f \in Of(c, forwards)
    BY <1>2, <2>1 DEF Of
  <2>3. \A f \in Of(c, forwards) : f \in Forwards(c, chosen[c])
    BY <1>3 DEF Of
  <2> QED
    BY <2>2, <2>3, Zenon
<1>6. \A c \in DOMAIN listed : c \notin served => Of(c, forwards) = {}
  BY <1>2, <1>3 DEF Of
<1> QED
  BY <1>1, <1>4, <1>5, <1>6 DEF choices

(* Of a container whose networks exist, an answer that has it listed as it  *)
(* is now has all it asks for, at the network it is best reached on.        *)
LEMMA ListedIsWhole ==
  ASSUME NEW listed, NEW forwards \in Resolve(listed), NEW c \in Ids,
         c \in running, DOMAIN links[c] \subseteq Existing,
         c \in DOMAIN listed, listed[c] = links[c]
  PROVE  IsWhole(c, Of(c, forwards))
<1> DEFINE label == Label[c]
           written == {label.rules[i].slot : i \in DOMAIN label.rules}
           slots == written \cup {label.published[i] : i \in DOMAIN label.published}
           best == {n \in Names : BestNetwork(c, n)}
           entry(n) == [name |-> n, driver |-> drivers[n], address |-> links[c][n]]
<1>1. Choices(c, listed[c]) = {entry(n) : n \in best}
  BY SelectIsBest
<1> HIDE DEF best
<1>2. CASE best = {}
  <2>1. Of(c, forwards) = {}
    BY <1>1, <1>2, ResolveEach
  <2>2. ReachedAt(c) = {}
    BY <1>2 DEF ReachedAt, best
  <2> QED
    BY <2>1, <2>2 DEF IsWhole
<1>3. CASE best # {}
  <2> DEFINE mine == Of(c, forwards)
  <2>1. PICK n \in best : mine = Forwards(c, entry(n))
    <3>1. Choices(c, listed[c]) # {}
      BY <1>1, <1>3
    <3>2. PICK network \in Choices(c, listed[c]) : mine = Forwards(c, network)
      BY <3>1, ResolveEach
    <3> QED
      BY <1>1, <3>2
  <2> HIDE DEF mine
  <2>2. mine = {[owner |-> c, rule |-> rule, to |-> DescribeTarget(entry(n))] :
                  rule \in Collapse(Found(label))}
    BY <2>1 DEF Forwards
  <2>3. /\ {rule.slot : rule \in Collapse(Found(label))} = slots
        /\ \A r, s \in Collapse(Found(label)) : r.slot = s.slot => r = s
        /\ \A rule \in Collapse(Found(label)) :
             IF rule.slot \in written
             THEN \E i \in DOMAIN label.rules : label.rules[i] = rule
             ELSE rule.port = rule.slot
    BY CollapseIs
  <2>4. DescribeTarget(entry(n)).client =
          IF drivers[n] \in OnTheLAN THEN links[c][n] ELSE HostAddress
    BY DEF DescribeTarget
  <2> HIDE DEF label, written, slots, entry
  <2>5. {f.rule.slot : f \in mine} = slots
    <3>1. \A f \in mine : f.rule \in Collapse(Found(label))
      BY <2>2
    <3>2. \A rule \in Collapse(Found(label)) : \E f \in mine : f.rule = rule
      <4> SUFFICES ASSUME NEW rule \in Collapse(Found(label)) PROVE \E f \in mine : f.rule = rule
        OBVIOUS
      <4> DEFINE f == [owner |-> c, rule |-> rule, to |-> DescribeTarget(entry(n))]
      <4>1. f \in mine /\ f.rule = rule
        BY <2>2
      <4> QED
        BY <4>1
    <3>3. \A f \in mine : f.rule.slot \in slots
      BY <2>3, <3>1
    <3>4. \A slot \in slots : \E f \in mine : f.rule.slot = slot
      <4> SUFFICES ASSUME NEW slot \in slots PROVE \E f \in mine : f.rule.slot = slot
        OBVIOUS
      <4>1. PICK rule \in Collapse(Found(label)) : rule.slot = slot
        BY <2>3
      <4> QED
        BY <4>1, <3>2
    <3> QED
      BY <3>3, <3>4, Zenon
  <2>6. \A f, g \in mine : f.rule.slot = g.rule.slot => f = g
    BY <2>2, <2>3
  <2>7. \A f \in mine :
          IF f.rule.slot \in written
          THEN \E i \in DOMAIN label.rules : label.rules[i] = f.rule
          ELSE f.rule.port = f.rule.slot
    BY <2>2, <2>3
  <2>8. \A f \in mine : f.to.client \in ReachedAt(c)
    BY <2>1, <2>2, <2>4 DEF ReachedAt, best
  <2>9. ReachedAt(c) # {}
    BY <2>1 DEF ReachedAt, best
  <2> QED
    BY <2>5, <2>6, <2>7, <2>8, <2>9, Zenon DEF IsWhole, mine, label, written, slots
<1> QED
  BY <1>2, <1>3

(* Two answers made from one listing of containers whose networks exist are *)
(* the same.                                                               *)
LEMMA OneAnswer ==
  ASSUME \A c \in Ids : DOMAIN links[c] \subseteq Existing, running \subseteq Ids,
         NEW a \in Resolve([c \in running |-> links[c]]),
         NEW b \in Resolve([c \in running |-> links[c]])
  PROVE  a = b
<1> DEFINE listed == [c \in running |-> links[c]]
<1>1. /\ \A f \in a : f.owner \in DOMAIN listed
      /\ \A f \in b : f.owner \in DOMAIN listed
  BY ResolveEach
<1>2. \A c \in running : Of(c, a) = Of(c, b)
  <2> SUFFICES ASSUME NEW c \in running PROVE Of(c, a) = Of(c, b)
    OBVIOUS
  <2> DEFINE entry(n) == [name |-> n, driver |-> drivers[n], address |-> links[c][n]]
             best == {n \in Names : BestNetwork(c, n)}
  <2>1. Choices(c, listed[c]) = {entry(n) : n \in best}
    BY SelectIsBest
  <2>2. \A n, m \in best : n = m
    BY OneBest
  <2> HIDE DEF best, entry
  <2>3. \A n, m \in Choices(c, listed[c]) : n = m
    BY <2>1, <2>2
  <2>4. /\ IF Choices(c, listed[c]) = {} THEN Of(c, a) = {}
           ELSE \E network \in Choices(c, listed[c]) : Of(c, a) = Forwards(c, network)
        /\ IF Choices(c, listed[c]) = {} THEN Of(c, b) = {}
           ELSE \E network \in Choices(c, listed[c]) : Of(c, b) = Forwards(c, network)
    <3> c \in DOMAIN listed
      OBVIOUS
    <3> HIDE DEF listed
    <3> QED
      BY ResolveEach DEF listed
  <2> QED
    BY <2>3, <2>4
<1> QED
  BY <1>1, <1>2 DEF Of
-----------------------------------------------------------------------------
(* Type correctness, and where containers and what was listed of them are. *)

(* Every variable has its type, and a container that is not running is on   *)
(* no network.                                                             *)
TypeOK ==
  /\ drivers \in [Names -> Drivers \cup {"none"}] /\ running \subseteq Ids
  /\ DOMAIN links = Ids
  /\ \A c \in Ids : DOMAIN links[c] \subseteq Existing /\ (c \notin running => links[c] = Alone)
  /\ asked \in BOOLEAN /\ listing \in BOOLEAN
  /\ DOMAIN raw \subseteq Ids /\ (~listing => raw = NoneListed)
  /\ \A f \in answer : f.owner \in Ids /\ f.to.client \in Addresses \cup {HostAddress}
  /\ missed \in BOOLEAN /\ rewired \subseteq Ids /\ quiet \in 0 .. 2

Placed ==
  /\ links \in [Ids -> Places]
  /\ DOMAIN raw \subseteq Ids
  /\ \A c \in DOMAIN raw : raw[c] \in Places

LEMMA TypedAndPlaced == Spec => [](TypeOK /\ Placed)
<1>1. Alone \in Places /\ DOMAIN Alone = {}
  <2>1. DOMAIN Alone = {} /\ Alone \in [{} -> Addresses]
    BY DEF Alone
  <2> QED
    BY <2>1 DEF Places
<1>2. \A on \in Places : DOMAIN on \subseteq Names /\ \A n \in DOMAIN on : on[n] \in Addresses
  BY DEF Places
<1>3. DOMAIN NoneListed = {}
  BY DEF NoneListed
<1>4. Init => TypeOK /\ Placed
  <2> SUFFICES ASSUME Init PROVE TypeOK /\ Placed
    OBVIOUS
  <2>1. /\ DOMAIN links = Ids /\ links \in [Ids -> Places]
        /\ \A c \in Ids : DOMAIN links[c] \subseteq Existing /\ links[c] = Alone
    BY <1>1 DEF Init
  <2>2. listing = FALSE /\ raw = NoneListed /\ DOMAIN raw = {}
    BY <1>3 DEF Init
  <2>3. Placed
    BY <2>1, <2>2 DEF Placed
  <2>4. \A f \in answer : f.owner \in Ids /\ f.to.client \in Addresses \cup {HostAddress}
    BY DEF Init
  <2>5. missed = FALSE /\ rewired = {} /\ quiet = 0
    BY DEF Init
  <2>6. missed \in BOOLEAN
    BY <2>5
  <2>7. rewired \subseteq Ids /\ quiet \in 0 .. 2
    BY <2>5
  <2>8. asked \in BOOLEAN /\ drivers \in [Names -> Drivers \cup {"none"}] /\ running \subseteq Ids
    BY DEF Init
  <2>9. listing \in BOOLEAN /\ (~listing => raw = NoneListed)
    BY <2>2
  <2> QED
    BY <2>1, <2>2, <2>3, <2>4, <2>6, <2>7, <2>8, <2>9 DEF TypeOK
<1>5. TypeOK /\ Placed /\ [Next]_vars => (TypeOK /\ Placed)'
  <2> SUFFICES ASSUME TypeOK, Placed, [Next]_vars
               PROVE  TypeOK' /\ Placed'
    OBVIOUS
  <2> USE DEF TypeOK, Placed
  <2>1. ASSUME NEW c \in Ids, Start(c) PROVE TypeOK' /\ Placed'
    <3>1. PICK on \in UNION {[some -> Addresses] : some \in SUBSET Existing} :
            links' = [links EXCEPT ![c] = on]
      BY <2>1 DEF Start
    <3>2. on \in Places /\ DOMAIN on \subseteq Existing
      BY DEF Places, Existing
    <3>3. Existing' = Existing
      BY <2>1 DEF Start, Existing
    <3>4. asked' \in BOOLEAN
      BY <2>1 DEF Start, Announces
    <3> QED
      BY <2>1, <3>1, <3>2, <3>3, <3>4 DEF Start
  <2>2. ASSUME NEW c \in Ids, Stop(c) PROVE TypeOK' /\ Placed'
    <3>1. Existing' = Existing
      BY <2>2 DEF Stop, Existing
    <3>2. asked' \in BOOLEAN
      BY <2>2 DEF Stop, Announces
    <3> QED
      BY <2>2, <3>1, <3>2, <1>1 DEF Stop
  <2>3. ASSUME NEW c \in Ids, NEW n \in Names, Connect(c, n) PROVE TypeOK' /\ Placed'
    <3> DEFINE on(a) == [m \in DOMAIN links[c] \cup {n} |-> IF m = n THEN a ELSE links[c][m]]
    <3>1. PICK a \in Addresses : links' = [links EXCEPT ![c] = on(a)]
      BY <2>3 DEF Connect
    <3>2. DOMAIN on(a) \subseteq Existing
      BY <2>3 DEF Connect
    <3>3. on(a) \in [DOMAIN on(a) -> Addresses] /\ DOMAIN on(a) \subseteq Names
      BY <3>2, <1>2 DEF Existing
    <3>4. on(a) \in Places
      BY <3>3 DEF Places
    <3>5. Existing' = Existing
      BY <2>3 DEF Connect, Rewire, Existing
    <3> HIDE DEF on
    <3> QED
      BY <2>3, <3>1, <3>2, <3>4, <3>5 DEF Connect, Rewire, source
  <2>4. ASSUME NEW c \in Ids, NEW n \in Names, Disconnect(c, n) PROVE TypeOK' /\ Placed'
    <3> DEFINE on == [m \in DOMAIN links[c] \ {n} |-> links[c][m]]
    <3>1. links' = [links EXCEPT ![c] = on]
      BY <2>4 DEF Disconnect
    <3>2. DOMAIN on \subseteq Existing
      OBVIOUS
    <3>3. on \in [DOMAIN on -> Addresses] /\ DOMAIN on \subseteq Names
      BY <1>2, <3>2 DEF Existing
    <3>4. on \in Places
      BY <3>3 DEF Places
    <3>5. Existing' = Existing
      BY <2>4 DEF Disconnect, Rewire, Existing
    <3>6. c \in running
      BY <2>4, <1>1 DEF Disconnect
    <3> HIDE DEF on
    <3> QED
      BY <2>4, <3>1, <3>2, <3>4, <3>5, <3>6 DEF Disconnect, Rewire, source
  <2>5. ASSUME NEW n \in Names, Create(n) PROVE TypeOK' /\ Placed'
    <3>1. PICK driver \in Drivers : drivers' = [drivers EXCEPT ![n] = driver]
      BY <2>5 DEF Create
    <3>2. Existing \subseteq Existing'
      BY <3>1, ContainerAssumption DEF Existing
    <3> QED
      BY <2>5, <3>1, <3>2 DEF Create, source
  <2>6. ASSUME NEW n \in Names, Remove(n) PROVE TypeOK' /\ Placed'
    <3>1. Existing' = Existing \ {n}
      BY <2>6 DEF Remove, Existing
    <3>2. \A c \in Ids : n \notin DOMAIN links[c]
      BY <2>6, <1>1 DEF Remove
    <3> QED
      BY <2>6, <3>1, <3>2 DEF Remove, source
  <2>7. ASSUME Tick PROVE TypeOK' /\ Placed'
    BY <2>7 DEF Tick, docker, history, Existing
  <2>8. ASSUME ListContainers PROVE TypeOK' /\ Placed'
    <3>1. /\ DOMAIN raw' = running
          /\ \A c \in running : raw'[c] = links[c]
      BY <2>8 DEF ListContainers
    <3>2. Existing' = Existing
      BY <2>8 DEF ListContainers, docker, Existing
    <3>3. listing' = TRUE /\ missed' = FALSE /\ rewired' = {} /\ quiet' \in 0 .. 2
      BY <2>8 DEF ListContainers
    <3>4. Placed'
      BY <2>8, <3>1 DEF ListContainers, docker
    <3> QED
      BY <2>8, <3>1, <3>2, <3>3, <3>4 DEF ListContainers, docker
  <2>9. ASSUME ListNetworks PROVE TypeOK' /\ Placed'
    <3>1. Existing' = Existing
      BY <2>9 DEF ListNetworks, docker, Existing
    <3>2. \A c \in DOMAIN raw : \A network \in Choices(c, raw[c]) :
            network.address \in Addresses
      BY <1>2 DEF Choices, SelectNetwork, Supported, Networks
    <3>3. \A f \in answer' : f.owner \in Ids /\ f.to.client \in Addresses \cup {HostAddress}
      <4> SUFFICES ASSUME NEW f \in answer'
                   PROVE  f.owner \in Ids /\ f.to.client \in Addresses \cup {HostAddress}
        OBVIOUS
      <4>1. answer' \in Resolve(raw)
        BY <2>9 DEF ListNetworks
      <4>2. f.owner \in DOMAIN raw /\ f \in Of(f.owner, answer')
        BY <4>1, ResolveEach DEF Of
      <4>3. PICK network \in Choices(f.owner, raw[f.owner]) : f \in Forwards(f.owner, network)
        BY <4>1, <4>2, ResolveEach
      <4>4. f.to = DescribeTarget(network)
        BY <4>3 DEF Forwards
      <4> QED
        BY <3>2, <4>2, <4>4 DEF DescribeTarget
    <3> QED
      BY <2>9, <3>1, <3>3, <1>3 DEF ListNetworks, docker, history
  <2>10. ASSUME Fail PROVE TypeOK' /\ Placed'
    <3>1. /\ listing' = FALSE /\ missed' = TRUE /\ quiet' = 0
          /\ raw' = NoneListed /\ asked' \in BOOLEAN
          /\ UNCHANGED <<drivers, running, links, answer, rewired>> /\ Existing' = Existing
      BY <2>10 DEF Fail, docker, Existing
    <3>2. Placed'
      BY <3>1, <1>3
    <3>3. \A f \in answer' : f.owner \in Ids /\ f.to.client \in Addresses \cup {HostAddress}
      BY <3>1
    <3>4. missed' \in BOOLEAN /\ rewired' \subseteq Ids /\ quiet' \in 0 .. 2
      BY <3>1
    <3>5. asked' \in BOOLEAN /\ listing' \in BOOLEAN /\ (~listing' => raw' = NoneListed)
      BY <3>1
    <3>6. \A c \in Ids :
            DOMAIN links'[c] \subseteq Existing' /\ (c \notin running' => links'[c] = Alone)
      BY <3>1
    <3>7. drivers' \in [Names -> Drivers \cup {"none"}] /\ running' \subseteq Ids
          /\ DOMAIN links' = Ids
      BY <3>1
    <3> QED
      BY <3>2, <3>3, <3>4, <3>5, <3>6, <3>7
  <2>11. CASE UNCHANGED vars
    BY <2>11 DEF vars, docker, source, history, Existing
  <2> QED
    BY <2>1, <2>2, <2>3, <2>4, <2>5, <2>6, <2>7, <2>8, <2>9, <2>10, <2>11
    DEF Next, Docker, Source
<1> QED
  BY <1>4, <1>5, PTL DEF Spec
(* Every variable of Containers keeps its type, and a container that is not *)
(* running is on no network.                                               *)
LEMMA TypeCorrect == Spec => []TypeOK
  BY TypedAndPlaced, PTL

-----------------------------------------------------------------------------
(* Whole answers. *)

(* Source.Desired never returns a partial list: an answer has what each     *)
(* container asks for that is still as the first request listed it,        *)
(* whatever happened to the others and to networks between the two.        *)
THEOREM AnswersAreWhole == Spec => WholeAnswer
<1>1. TypeOK /\ [Next]_vars =>
        (ListNetworks => \A c \in Ids : Unmoved(c) => IsWhole(c, Of(c, answer')))
  <2> SUFFICES ASSUME TypeOK, ListNetworks, NEW c \in Ids, Unmoved(c)
               PROVE  IsWhole(c, Of(c, answer'))
    OBVIOUS
  <2>1. answer' \in Resolve(raw)
    BY DEF ListNetworks
  <2>2. /\ c \in running /\ DOMAIN links[c] \subseteq Existing
        /\ c \in DOMAIN raw /\ raw[c] = links[c]
    BY DEF Unmoved, TypeOK
  <2> QED
    BY <2>1, <2>2, ListedIsWhole
<1> QED
  BY <1>1, TypeCorrect, PTL DEF WholeAnswer, Spec

-----------------------------------------------------------------------------
(* The same answer twice. *)

Now == [c \in running |-> links[c]]

(* Once a pass has listed with no change since, what it listed is what      *)
(* there is now, and so is what it answers.                                *)
ListedNow ==
  quiet # 0 => /\ listing => raw = Now
               /\ quiet = 2 \/ ~listing => answer \in Resolve(Now)

LEMMA ResolveStays ==
  ASSUME UNCHANGED drivers, NEW listed
  PROVE  Resolve(listed)' = Resolve(listed)
<1> DEFINE choices == [c \in DOMAIN listed |-> SelectNetwork(Networks(listed[c]), Label[c].network)]
           answers(chs) ==
             LET served == {c \in DOMAIN listed : chs[c] # {}}
             IN {UNION {Forwards(c, chosen[c]) : c \in served} :
                   chosen \in {f \in [served -> UNION {chs[c] : c \in served}] :
                                 \A c \in served : f[c] \in chs[c]}}
<1>1. \A on : Networks(on)' = Networks(on)
  BY DEF Networks, Driver
<1>2. choices' = choices
  BY <1>1
<1>3. Resolve(listed) = answers(choices) /\ Resolve(listed)' = answers(choices')
  BY DEF Resolve
<1> HIDE DEF choices, answers
<1> QED
  BY <1>2, <1>3

LEMMA StaysListedNow ==
  Spec => []ListedNow
<1>1. Init => ListedNow
  BY DEF Init, ListedNow
<1>2. TypeOK /\ ListedNow /\ [Next]_vars => ListedNow'
  <2> SUFFICES ASSUME TypeOK, ListedNow, [Next]_vars PROVE ListedNow'
    OBVIOUS
  <2>1. ASSUME NEW c \in Ids, Start(c) PROVE ListedNow'
    BY <2>1 DEF Start, ListedNow
  <2>2. ASSUME NEW c \in Ids, Stop(c) PROVE ListedNow'
    BY <2>2 DEF Stop, ListedNow
  <2>3. ASSUME NEW c \in Ids, NEW n \in Names, Connect(c, n) \/ Disconnect(c, n) PROVE ListedNow'
    BY <2>3 DEF Connect, Disconnect, Rewire, ListedNow
  <2>4. ASSUME NEW n \in Names, Create(n) \/ Remove(n) PROVE ListedNow'
    BY <2>4 DEF Create, Remove, ListedNow
  <2>5. ASSUME UNCHANGED docker
        PROVE  Now' = Now /\ \A a : a \in Resolve(Now)' <=> a \in Resolve(Now)
    <3>1. Now' = Now
      BY <2>5 DEF Now, docker
    <3>2. \A l : Resolve(l)' = Resolve(l)
      BY <2>5, ResolveStays DEF docker
    <3> QED
      BY <3>1, <3>2
  <2>6. ASSUME Tick PROVE ListedNow'
    BY <2>6, <2>5 DEF Tick, history, ListedNow
  <2>7. ASSUME ListContainers PROVE ListedNow'
    <3>1. raw' = Now' /\ answer' = answer /\ listing' = TRUE /\ listing = FALSE
      BY <2>7, <2>5 DEF ListContainers, Now, TypeOK
    <3>2. quiet' = 2 => quiet # 0
      BY <2>7 DEF ListContainers
    <3>3. quiet' = 2 => answer' \in Resolve(Now)'
      BY <2>7, <2>5, <3>1, <3>2 DEF ListContainers, ListedNow
    <3> QED
      BY <3>1, <3>3 DEF ListedNow
  <2>8. ASSUME ListNetworks PROVE ListedNow'
    <3>1. answer' \in Resolve(raw) /\ listing /\ listing' = FALSE /\ quiet' = quiet
      BY <2>8 DEF ListNetworks, history
    <3>2. quiet' # 0 => answer' \in Resolve(Now)'
      BY <2>8, <2>5, <3>1 DEF ListNetworks, ListedNow
    <3> QED
      BY <3>1, <3>2 DEF ListedNow
  <2>9. ASSUME Fail PROVE ListedNow'
    BY <2>9 DEF Fail, ListedNow
  <2>10. CASE UNCHANGED vars
    BY <2>10, <2>5 DEF vars, source, history, ListedNow
  <2> QED
    BY <2>1, <2>2, <2>3, <2>4, <2>6, <2>7, <2>8, <2>9, <2>10 DEF Next, Docker, Source
<1> QED
  BY <1>1, <1>2, TypeCorrect, PTL DEF Spec

(* selectNetwork's choice is stable: two passes over a Docker that did not  *)
(* change answer alike, whatever order it lists networks in.               *)
THEOREM ChoicesAreStable == Spec => SameAnswer
<1>1. TypeOK /\ ListedNow /\ [Next]_vars => (ListNetworks /\ quiet = 2 => answer' = answer)
  <2> SUFFICES ASSUME TypeOK, ListedNow, ListNetworks, quiet = 2 PROVE answer' = answer
    OBVIOUS
  <2>1. answer' \in Resolve(Now) /\ answer \in Resolve(Now)
    BY DEF ListNetworks, ListedNow
  <2> QED
    BY <2>1, OneAnswer DEF Now, TypeOK
<1> QED
  BY <1>1, TypeCorrect, StaysListedNow, PTL DEF SameAnswer, Spec
-----------------------------------------------------------------------------
(* Events are enough. *)

(* While nothing is asked for, what a pass under way has listed of the      *)
(* containers that keep their networks is as it is now.                    *)
ListedAsNow ==
  listing /\ ~asked =>
    \A c \in Ids \ rewired :
      /\ c \in DOMAIN raw <=> c \in running
      /\ c \in running => raw[c] = links[c]

(* What a container is to have depends on whether it runs, on its networks  *)
(* and on their drivers.                                                   *)
LEMMA StaysWhole ==
  ASSUME NEW c \in Ids, c \in running <=> c \in running', links'[c] = links[c],
         \A n \in DOMAIN links[c] : drivers'[n] = drivers[n],
         NEW forwards, IsWhole(c, forwards)
  PROVE  IsWhole(c, forwards)'
<1>1. Reachable(c)' = Reachable(c) /\ Reachable(c) \subseteq DOMAIN links[c]
  BY DEF Reachable
<1>2. \A n \in Reachable(c) : drivers'[n] = drivers[n]
  BY <1>1
<1> DEFINE best == {n \in Names : BestNetwork(c, n)}
<1>3. best' = best
  BY <1>1, <1>2 DEF BestNetwork
<1>4. best \subseteq DOMAIN links[c]
  BY <1>1 DEF BestNetwork
<1>5. ReachedAt(c) = {IF drivers[n] \in OnTheLAN THEN links[c][n] ELSE HostAddress : n \in best}
  BY DEF ReachedAt
<1>6. ReachedAt(c)' =
        {IF drivers'[n] \in OnTheLAN THEN links'[c][n] ELSE HostAddress : n \in best'}
  BY DEF ReachedAt
<1> HIDE DEF best
<1>7. ReachedAt(c)' = ReachedAt(c)
  BY <1>3, <1>4, <1>5, <1>6
<1> QED
  BY <1>7 DEF IsWhole

(* Once each event has been acted on, the answer is what the running        *)
(* containers ask for now, but for those put on or taken off a network     *)
(* while running: Docker.Events and a pass for each are enough for the      *)
(* others.                                                                 *)
THEOREM EventsSuffice == Spec => []UpToDate
<1>1. Init => ListedAsNow /\ UpToDate
  BY DEF Init, ListedAsNow, UpToDate, Settled
<1>2. TypeOK /\ ListedAsNow /\ UpToDate /\ [Next]_vars => (ListedAsNow /\ UpToDate)'
  <2> SUFFICES ASSUME TypeOK, ListedAsNow, UpToDate, [Next]_vars
               PROVE  ListedAsNow' /\ UpToDate'
    OBVIOUS
  <2>1. ASSUME NEW c \in Ids, Start(c) \/ Stop(c) PROVE ListedAsNow' /\ UpToDate'
    <3>1. asked'
      BY <2>1 DEF Start, Stop, Announces, Listened
    <3> QED
      BY <3>1 DEF ListedAsNow, UpToDate, Settled
  (* A step that changes neither containers but c nor what is known of them. *)
  <2>2. ASSUME UNCHANGED <<running, source, missed>>, rewired \subseteq rewired',
               \A c \in Ids \ rewired' : links'[c] = links[c],
               \A c \in Ids \ rewired' : \A n \in DOMAIN links[c] : drivers'[n] = drivers[n]
        PROVE  ListedAsNow' /\ UpToDate'
    <3>1. ListedAsNow'
      BY <2>2 DEF ListedAsNow, source
    <3>2. UpToDate'
      <4> SUFFICES ASSUME Settled', NEW c \in Ids \ rewired'
                   PROVE  IsWhole(c, Of(c, answer))'
        BY DEF UpToDate
      <4>1. Settled /\ c \in Ids \ rewired /\ answer' = answer /\ (c \in running <=> c \in running')
        BY <2>2 DEF Settled, source
      <4>2. IsWhole(c, Of(c, answer))
        BY <4>1 DEF UpToDate
      <4>3. IsWhole(c, Of(c, answer))'
        BY <2>2, <4>1, <4>2, StaysWhole
      <4> QED
        BY <4>1, <4>3
    <3> QED
      BY <3>1, <3>2
  <2>3. ASSUME NEW c \in Ids, NEW n \in Names, Connect(c, n) \/ Disconnect(c, n)
        PROVE  ListedAsNow' /\ UpToDate'
    <3>1. \A d \in Ids \ {c} : links'[d] = links[d]
      BY <2>3 DEF Connect, Disconnect, TypeOK
    <3>2. UNCHANGED <<drivers, running, source, missed>> /\ rewired' = rewired \cup {c}
      BY <2>3 DEF Connect, Disconnect, Rewire
    <3> QED
      BY <3>1, <3>2, <2>2
  <2>4. ASSUME NEW n \in Names, Create(n) \/ Remove(n) PROVE ListedAsNow' /\ UpToDate'
    <3>1. \A c \in Ids : n \notin DOMAIN links[c]
      <4>1. CASE Create(n)
        BY <4>1 DEF Create, TypeOK
      <4>2. CASE Remove(n)
        <5>1. DOMAIN Alone = {}
          BY DEF Alone
        <5> QED
          BY <4>2, <5>1 DEF Remove, TypeOK
      <4> QED
        BY <2>4, <4>1, <4>2
    <3>2. UNCHANGED <<running, links, source, missed, rewired>>
      BY <2>4 DEF Create, Remove
    <3>3. \A m \in Names \ {n} : drivers'[m] = drivers[m]
      BY <2>4 DEF Create, Remove, TypeOK
    <3>4. \A c \in Ids : \A m \in DOMAIN links[c] : drivers'[m] = drivers[m]
      BY <3>1, <3>3 DEF TypeOK, Existing
    <3> QED
      BY <3>2, <3>4, <2>2
  <2>5. ASSUME Tick PROVE ListedAsNow' /\ UpToDate'
    BY <2>5 DEF Tick, ListedAsNow, UpToDate, Settled
  <2>6. ASSUME ListContainers PROVE ListedAsNow' /\ UpToDate'
    <3>1. /\ listing' = TRUE /\ raw' = [c \in running |-> links[c]]
          /\ running' = running /\ links' = links
      BY <2>6 DEF ListContainers, docker
    <3>2. ListedAsNow'
      BY <3>1 DEF ListedAsNow
    <3> QED
      BY <3>1, <3>2 DEF UpToDate, Settled
  <2>7. ASSUME ListNetworks PROVE ListedAsNow' /\ UpToDate'
    <3>1. /\ listing = TRUE /\ listing' = FALSE /\ answer' \in Resolve(raw)
          /\ UNCHANGED <<drivers, running, links, asked, rewired>>
      BY <2>7 DEF ListNetworks, docker, history, TypeOK
    <3>2. ListedAsNow'
      BY <3>1 DEF ListedAsNow
    <3>3. UpToDate'
      <4> SUFFICES ASSUME ~asked, NEW c \in Ids \ rewired
                   PROVE  IsWhole(c, Of(c, answer))'
        BY <3>1 DEF UpToDate, Settled
      <4>1. (c \in DOMAIN raw <=> c \in running) /\ (c \in running => raw[c] = links[c])
        BY <3>1 DEF ListedAsNow
      <4>2. CASE c \in running
        <5>1. IsWhole(c, Of(c, answer'))
          BY <3>1, <4>1, <4>2, ListedIsWhole DEF TypeOK
        <5> QED
          BY <3>1, <5>1, StaysWhole
      <4>3. CASE c \notin running
        <5>1. Of(c, answer') = {}
          BY <3>1, <4>1, <4>3, ResolveEach DEF Of
        <5>2. c \notin running'
          BY <3>1, <4>3
        <5> QED
          BY <5>1, <5>2 DEF IsWhole
      <4> QED
        BY <4>2, <4>3
    <3> QED
      BY <3>2, <3>3
  <2>8. ASSUME Fail PROVE ListedAsNow' /\ UpToDate'
    BY <2>8 DEF Fail, ListedAsNow, UpToDate, Settled
  <2>9. CASE UNCHANGED vars
    BY <2>9, <2>2 DEF vars, docker, history
  <2> QED
    BY <2>1, <2>3, <2>4, <2>5, <2>6, <2>7, <2>8, <2>9 DEF Next, Docker, Source
<1> QED
  BY <1>1, <1>2, TypeCorrect, PTL DEF Spec
-----------------------------------------------------------------------------
(***************************************************************************)
(* EngineAPI.  OneRetryIsEnough is not inductive: that the retry is        *)
(* accepted depends on what other calls may have left in the cache.        *)
(* Undisturbed says what an undisturbed call can find there at each stage. *)
(* It starts from the moment the call first got a version: it held the     *)
(* lock then, so no answer of /version from before the call is still on    *)
(* its way.                                                                *)
(***************************************************************************)

(* The version chosen is one the daemon takes, wherever the client's own   *)
(* ceiling is.                                                             *)
LEMMA ChosenIsTaken ==
  ASSUME NEW o \in Offers
  PROVE  Choose(o) \in Nat \ {NoVersion} /\ Takes(o, Choose(o))
<1>1. /\ o.newest \in Nat \ {0} /\ o.oldest \in Nat /\ o.oldest <= o.newest
      /\ NewestAPI \in Nat \ {0}
  BY EngineAssumption DEF NoVersion
<1> QED
  BY <1>1 DEF Choose, Takes, NoVersion

(* Every variable keeps its type: offers, versions and the places of calls,*)
(* and the lock is held only by a call that asks.                          *)
THEOREM EngineTypeCorrect == EngineSpec => []EngineTypeOK
<1>1. EngineInit => EngineTypeOK
  BY EngineAssumption DEF EngineInit, EngineTypeOK, NoVersion
<1>2. EngineTypeOK /\ [EngineNext]_engineVars => EngineTypeOK'
  <2> SUFFICES ASSUME EngineTypeOK, [EngineNext]_engineVars
               PROVE  EngineTypeOK'
    OBVIOUS
  <2> USE DEF EngineTypeOK, past, calls, client, At, Goes
  <2>1. CASE UNCHANGED engineVars
    BY <2>1 DEF engineVars
  <2>2. CASE Upgrade
    BY <2>2 DEF Upgrade
  <2>3. ASSUME NEW c \in Calls, Call(c)
        PROVE  EngineTypeOK'
    BY <2>3, EngineAssumption DEF Call
  <2>4. ASSUME NEW c \in Calls, UseCached(c)
        PROVE  EngineTypeOK'
    BY <2>4, EngineAssumption DEF UseCached, Speaks
  <2>5. ASSUME NEW c \in Calls, Negotiate(c)
        PROVE  EngineTypeOK'
    BY <2>5, EngineAssumption DEF Negotiate
  <2>6. ASSUME NEW c \in Calls, Forget(c)
        PROVE  EngineTypeOK'
    BY <2>6, EngineAssumption DEF Forget, NoVersion
  <2>7. ASSUME NEW c \in Calls, Hear(c)
        PROVE  EngineTypeOK'
    BY <2>7, EngineAssumption DEF Hear
  <2>8. ASSUME NEW c \in Calls, Keep(c)
        PROVE  EngineTypeOK'
    <3>1. Choose(heard) \in Nat
      BY <2>8, ChosenIsTaken DEF Keep
    <3> QED
      BY <2>8, <3>1, EngineAssumption DEF Keep, Speaks, Release
  <2>9. ASSUME NEW c \in Calls, CannotSay(c)
        PROVE  EngineTypeOK'
    BY <2>9, EngineAssumption DEF CannotSay, Speaks, Release
  <2>10. ASSUME NEW c \in Calls, GivesUp(c)
         PROVE  EngineTypeOK'
    BY <2>10, EngineAssumption DEF GivesUp, Ends, Release, NoVersion
  <2>11. ASSUME NEW c \in Calls, Returns(c)
         PROVE  EngineTypeOK'
    BY <2>11, EngineAssumption DEF Returns, Ends, NoVersion
  <2>12. ASSUME NEW c \in Calls, Refused(c)
         PROVE  EngineTypeOK'
    BY <2>12, EngineAssumption DEF Refused
  <2> QED
    BY <2>1, <2>2, <2>3, <2>4, <2>5, <2>6, <2>7, <2>8, <2>9, <2>10, <2>11, <2>12
       DEF EngineNext, Locks, Holds, Sends
<1> QED
  BY <1>1, <1>2, PTL DEF EngineSpec

-----------------------------------------------------------------------------
(* Past its first version: what the lock was needed for is behind it. *)
Begun == {"sending", "refused", "reasking", "resending", "rejected"}

Undisturbed(c) ==
  /\ pc[c] \in Begun => heard \in {NoOffer, offer}
  /\ pc[c] \in {"sending", "refused"} =>
       cached \in {NoVersion, version[c], Choose(offer)}
  /\ pc[c] = "reasking" => cached \in {NoVersion, Choose(offer)}
  /\ pc[c] = "resending" => version[c] = Choose(offer)
  /\ pc[c] # "rejected"

(* What a call was refused in is still refused, unless the daemon moved. *)
RefusedInVain ==
  \A c \in Calls : pc[c] = "refused" /\ ~moved[c] => ~Takes(offer, version[c])

(* moved is kept of refused calls, and is later than disturbed. *)
MovedIsDisturbed ==
  \A c \in Calls : moved[c] => disturbed[c] /\ pc[c] = "refused"

IInv ==
  /\ EngineTypeOK
  /\ \A c \in Calls : ~disturbed[c] => Undisturbed(c)
  /\ RefusedInVain /\ MovedIsDisturbed

LEMMA InitIInv == EngineInit => IInv
BY EngineAssumption DEF EngineInit, IInv, EngineTypeOK, Undisturbed, RefusedInVain,
   MovedIsDisturbed, Begun, NoVersion

(* The daemon changes, or the world stands still. *)
LEMMA UpgradeKeepsIInv ==
  ASSUME IInv, EngineTypeOK', Upgrade \/ UNCHANGED engineVars
  PROVE  IInv'
<1>1. CASE Upgrade
  <2>1. MovedIsDisturbed' /\ RefusedInVain'
    BY <1>1 DEF Upgrade, IInv, EngineTypeOK, MovedIsDisturbed, RefusedInVain, calls
  <2>2. \A c \in Calls : ~disturbed'[c] => Undisturbed(c)'
    BY <1>1 DEF Upgrade, IInv, EngineTypeOK, Undisturbed, Begun, calls, client
  <2> QED
    BY <2>1, <2>2 DEF IInv
<1>2. CASE UNCHANGED engineVars
  BY <1>2 DEF engineVars, past, calls, client, IInv, Undisturbed, RefusedInVain,
     MovedIsDisturbed, Takes, Choose
<1> QED
  BY <1>1, <1>2

(* A call's own step.  d is the one that moves, c any undisturbed call. *)
LEMMA CallKeepsIInv ==
  ASSUME IInv, EngineTypeOK', NEW d \in Calls,
         Call(d) \/ Locks(d) \/ Holds(d) \/ Sends(d)
  PROVE  IInv'
<1> USE DEF EngineTypeOK, past, calls, client, At, Goes
<1>1. MovedIsDisturbed'
  BY DEF IInv, MovedIsDisturbed, Call, Locks, UseCached, Negotiate, Forget, Holds,
     Hear, Keep, CannotSay, GivesUp, Sends, Returns, Refused, Speaks, Ends, Release
<1>2. RefusedInVain'
  BY DEF IInv, RefusedInVain, Call, Locks, UseCached, Negotiate, Forget, Holds,
     Hear, Keep, CannotSay, GivesUp, Sends, Returns, Refused, Speaks, Ends, Release
<1>3. ASSUME NEW c \in Calls, ~disturbed'[c]
      PROVE  Undisturbed(c)'
  <2> DEFINE SoFar == ~disturbed[c] => Undisturbed(c)
  <2>1. SoFar /\ RefusedInVain /\ MovedIsDisturbed
    BY DEF IInv
  <2> USE DEF Undisturbed, Begun
  <2>2. CASE Call(d)
    BY <1>3, <2>1, <2>2 DEF IInv, Call
  <2>3. CASE UseCached(d)
    BY <1>3, <2>1, <2>3, EngineAssumption DEF IInv, UseCached, Speaks
  <2>4. CASE Negotiate(d)
    BY <1>3, <2>1, <2>4 DEF IInv, Negotiate
  <2>5. CASE Forget(d)
    <3>1. pc[d] = "refused" /\ ~disturbed[d] => ~Takes(offer, version[d])
      BY <2>1 DEF RefusedInVain, MovedIsDisturbed
    <3> QED
      BY <1>3, <2>1, <2>5, <3>1 DEF IInv, Forget
  <2>6. CASE Hear(d)
    BY <1>3, <2>1, <2>6 DEF IInv, Hear
  <2>7. CASE Keep(d)
    BY <1>3, <2>1, <2>7 DEF IInv, Keep, Speaks, Release
  <2>8. CASE CannotSay(d)
    BY <1>3, <2>1, <2>8 DEF IInv, CannotSay, Speaks, Release
  <2>9. CASE GivesUp(d)
    BY <1>3, <2>1, <2>9 DEF IInv, GivesUp, Ends, Release
  <2>10. CASE Returns(d)
    BY <1>3, <2>1, <2>10 DEF IInv, Returns, Ends
  <2>11. CASE Refused(d)
    <3>1. Takes(offer, Choose(offer))
      BY ChosenIsTaken DEF IInv
    <3> QED
      BY <1>3, <2>1, <2>11, <3>1 DEF IInv, Refused
  <2> QED
    BY <2>2, <2>3, <2>4, <2>5, <2>6, <2>7, <2>8, <2>9, <2>10, <2>11
       DEF Locks, Holds, Sends
<1> QED
  BY <1>1, <1>2, <1>3 DEF IInv

LEMMA IInvHolds == EngineSpec => []IInv
<1>1. IInv /\ EngineTypeOK' /\ [EngineNext]_engineVars => IInv'
  BY UpgradeKeepsIInv, CallKeepsIInv DEF EngineNext
<1> QED
  BY InitIInv, EngineTypeCorrect, <1>1, PTL DEF EngineSpec

(* A call fails for its version only if the daemon changed, or could not   *)
(* say its versions, while the call was being made: Client.do's one retry  *)
(* is enough, however many other calls share the cache.                    *)
THEOREM OneRetrySuffices == EngineSpec => []OneRetryIsEnough
<1>1. IInv => OneRetryIsEnough
  BY DEF IInv, OneRetryIsEnough, Undisturbed, At
<1> QED
  BY IInvHolds, <1>1, PTL

(* Client.forget never drops a version that the daemon accepts, unless the *)
(* daemon moved between the refusal and the forgetting.                    *)
THEOREM OneNegotiationEach == EngineSpec => GoodVersionIsKept
<1>1. ASSUME IInv, [EngineNext]_engineVars, NEW c \in Calls,
             pc[c] = "refused", pc'[c] = "reasking", ~moved[c], Takes(offer, cached)
      PROVE  cached' = cached
  <2>1. cached # version[c]
    BY <1>1 DEF IInv, RefusedInVain
  <2>2. CASE Forget(c)
    BY <2>1, <2>2 DEF Forget
  <2>3. CASE ~Forget(c)
    BY <1>1, <2>3 DEF IInv, EngineTypeOK, EngineNext, engineVars, calls, client, past, At, Goes,
       Upgrade, Call, Locks, UseCached, Negotiate, Forget, Holds, Hear, Keep, CannotSay,
       GivesUp, Sends, Returns, Refused, Speaks, Ends, Release
  <2> QED
    BY <2>2, <2>3
<1>2. IInv /\ [EngineNext]_engineVars =>
        [\A c \in Calls :
           /\ pc[c] = "refused" /\ pc'[c] = "reasking"
           /\ ~moved[c] /\ Takes(offer, cached)
           => cached' = cached]_engineVars
  BY <1>1
<1> QED
  BY IInvHolds, <1>2, PTL DEF EngineSpec, GoodVersionIsKept
==============================================================================
