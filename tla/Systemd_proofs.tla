---------------------------- MODULE Systemd_proofs ----------------------------
(* What is proved of the systemd source: of its passes as UnitPass has them *)
(* (what is read is current, and what is declared is what is forwarded) and *)
(* of its events as UnitEvents has them, for any units and files and any    *)
(* number of signals on their way.                                         *)
EXTENDS UnitEvents, UnitPass, SequenceTheorems, WellFoundedInduction, TLAPS

-----------------------------------------------------------------------------
(* Induction over the numbers, said of a set of them.                       *)

(* Every set of numbers has a least one, and so what holds of none and of   *)
(* one more holds of all.                                                  *)
LEMMA NatBelow == IsWellFoundedOn({ss \in Nat \X Nat : ss[1] < ss[2]}, Nat)
  BY NatLessThanWellFounded, Zenon DEF OpToRel

LEMMA EveryNumber ==
  ASSUME NEW T, 0 \in T, \A n \in Nat : n \in T => n + 1 \in T
  PROVE  \A n \in Nat : n \in T
<1> DEFINE below == {ss \in Nat \X Nat : ss[1] < ss[2]}
           rest == Nat \ T
<1>1. IsWellFoundedOn(below, Nat)
  BY NatBelow
<1>2. \A n \in Nat \ {0} : <<n - 1, n>> \in below
  OBVIOUS
<1>3. \A n \in rest : n - 1 \in rest /\ n # 0
  OBVIOUS
<1>4. rest \subseteq Nat
  OBVIOUS
<1> HIDE DEF below
<1>5. ASSUME rest # {} PROVE FALSE
  <2>1. PICK n \in rest : \A j \in rest : <<j, n>> \notin below
    BY <1>1, <1>4, <1>5, WFMin
  <2> QED
    BY <2>1, <1>2, <1>3, <1>4
<1> QED
  BY <1>5

(* The largest of the first numbers. *)
LEMMA LargestIs ==
  ASSUME NEW n \in Nat, NEW s \in SUBSET (1 .. n), n \in s
  PROVE  Max(s) = n
<1>1. \A y \in s : y \in Int /\ n >= y
  OBVIOUS
<1>2. \A x \in s : (\A y \in s : x >= y) => x = n
  BY <1>1
<1> QED
  BY <1>1, <1>2 DEF Max

(* A fold of n elements is a function of the sets of those still to be      *)
(* folded in, and there is one.                                            *)
LEMMA FoldExists ==
  ASSUME NEW n \in Nat, NEW T, NEW base \in T, NEW step \in [T \X (1 .. n) -> T]
  PROVE  \E g \in [SUBSET (1 .. n) -> T] :
           \A s \in SUBSET (1 .. n) :
             /\ g[s] = IF s = {} THEN base ELSE step[<<g[s \ {Max(s)}], Max(s)>>]
             /\ s # {} => Max(s) \in s
<1> DEFINE Value(g, s) == IF s = {} THEN base ELSE step[<<g[s \ {Max(s)}], Max(s)>>]
           Folds(g, m) == \A s \in SUBSET (1 .. m) : g[s] = Value(g, s) /\ (s # {} => Max(s) \in s)
           Some(m) == \E g \in [SUBSET (1 .. m) -> T] : Folds(g, m)
           done == {m \in Nat : m <= n => Some(m)}
<1>1. 0 \in done
  <2> DEFINE g == [s \in {{}} |-> base]
  <2>1. SUBSET (1 .. 0) = {{}}
    OBVIOUS
  <2>2. g \in [SUBSET (1 .. 0) -> T] /\ Folds(g, 0)
    BY <2>1
  <2> HIDE DEF g, Folds
  <2>3. Some(0)
    BY <2>2
  <2> HIDE DEF Some
  <2> QED
    BY <2>3
<1>2. ASSUME NEW m \in Nat, m \in done, m + 1 <= n
      PROVE  Some(m + 1)
  <2>0. Some(m)
    <3> HIDE DEF Some
    <3> QED
      BY <1>2
  <2>1. PICK g \in [SUBSET (1 .. m) -> T] : Folds(g, m)
    BY <2>0
  <2> DEFINE h == [s \in SUBSET (1 .. m + 1) |->
                     IF m + 1 \in s THEN step[<<g[s \ {m + 1}], m + 1>>] ELSE g[s]]
  <2>2. ASSUME NEW s \in SUBSET (1 .. m + 1), m + 1 \in s
        PROVE  h[s] = Value(h, s) /\ h[s] \in T /\ (s # {} => Max(s) \in s)
    <3>1. Max(s) = m + 1
      BY <2>2, LargestIs
    <3>2. s \ {m + 1} \in SUBSET (1 .. m) /\ s \ {m + 1} \in SUBSET (1 .. m + 1)
      OBVIOUS
    <3>3. h[s \ {m + 1}] = g[s \ {m + 1}] /\ g[s \ {m + 1}] \in T
      BY <3>2
    <3>4. h[s] = step[<<g[s \ {m + 1}], m + 1>>]
      BY <2>2
    <3>5. <<g[s \ {m + 1}], m + 1>> \in T \X (1 .. n)
      BY <3>3, <1>2
    <3> HIDE DEF h
    <3> QED
      BY <3>1, <3>3, <3>4, <3>5, <2>2
  <2>3. ASSUME NEW s \in SUBSET (1 .. m + 1), m + 1 \notin s
        PROVE  h[s] = Value(h, s) /\ h[s] \in T /\ (s # {} => Max(s) \in s)
    <3>1. \A x \in s : x \in 1 .. m
      BY <2>3
    <3>2. s \in SUBSET (1 .. m) /\ s \ {Max(s)} \in SUBSET (1 .. m)
      BY <3>1, Zenon
    <3>3. \A t \in SUBSET (1 .. m) : h[t] = g[t]
      OBVIOUS
    <3>4. g[s] = Value(g, s) /\ g[s] \in T /\ (s # {} => Max(s) \in s)
      BY <2>1, <3>2
    <3> HIDE DEF h
    <3>5. h[s] = g[s] /\ h[s \ {Max(s)}] = g[s \ {Max(s)}]
      BY <3>2, <3>3
    <3> QED
      BY <3>4, <3>5
  <2>4. h \in [SUBSET (1 .. m + 1) -> T]
    <3>1. \A s \in SUBSET (1 .. m + 1) : h[s] \in T
      BY <2>2, <2>3
    <3>2. h = [s \in SUBSET (1 .. m + 1) |-> h[s]]
      OBVIOUS
    <3> HIDE DEF h
    <3> QED
      BY <3>1, <3>2
  <2> HIDE DEF h
  <2>5. Folds(h, m + 1)
    BY <2>2, <2>3
  <2> HIDE DEF Folds
  <2> QED
    BY <2>4, <2>5
<1>3. Some(n)
  <2> HIDE DEF Some
  <2>1. \A m \in Nat : m \in done => m + 1 \in done
    BY <1>2
  <2>2. n \in done
    <3> HIDE DEF done
    <3> QED
      BY <1>1, <2>1, EveryNumber
  <2> QED
    BY <2>2
<1> QED
  BY <1>3

(* What has the fold's value for the first none, one, two ... of n has it   *)
(* for each number of the first.                                           *)
Folding(iter, n, T, base, step) ==
  /\ n \in Nat /\ base \in T /\ step \in [T \X (1 .. n) -> T]
  /\ iter[{}] = base
  /\ \A k \in 1 .. n :
       iter[1 .. k - 1] \in T => iter[1 .. k] = step[<<iter[1 .. k - 1], k>>]

FoldedUpTo(f, iter, n, T, base, step) ==
  /\ f \in [0 .. n -> T] /\ f[0] = base /\ f[n] = iter[1 .. n]
  /\ \A k \in 1 .. n : f[k] = step[<<f[k - 1], k>>]

LEMMA FoldPrefixes ==
  ASSUME NEW n, NEW T, NEW base, NEW step, NEW iter, Folding(iter, n, T, base, step)
  PROVE  \E f : FoldedUpTo(f, iter, n, T, base, step)
<1>0. /\ n \in Nat /\ base \in T /\ step \in [T \X (1 .. n) -> T]
      /\ iter[{}] = base
      /\ \A k \in 1 .. n :
           iter[1 .. k - 1] \in T => iter[1 .. k] = step[<<iter[1 .. k - 1], k>>]
  BY DEF Folding
<1> DEFINE right == {k \in Nat : k <= n => iter[1 .. k] \in T}
           f == [k \in 0 .. n |-> iter[1 .. k]]
<1>1. 1 .. 0 = {}
  OBVIOUS
<1>2. 0 \in right
  BY <1>0, <1>1
<1>3. ASSUME NEW k \in Nat, k \in right PROVE k + 1 \in right
  <2> SUFFICES ASSUME k + 1 <= n PROVE iter[1 .. k + 1] \in T
    OBVIOUS
  <2>0. k <= n
    BY <1>0
  <2>1. iter[1 .. k] \in T
    BY <1>3, <2>0
  <2>2. k + 1 \in 1 .. n /\ (k + 1) - 1 = k
    BY <1>0
  <2>3. iter[1 .. k + 1] = step[<<iter[1 .. k], k + 1>>]
    BY <1>0, <2>1, <2>2
  <2>4. <<iter[1 .. k], k + 1>> \in T \X (1 .. n)
    BY <2>1, <2>2
  <2> QED
    BY <1>0, <2>3, <2>4
<1>4. \A k \in Nat : k \in right
  <2> HIDE DEF right
  <2> QED
    BY <1>2, <1>3, EveryNumber
<1>5. \A k \in 0 .. n : iter[1 .. k] \in T
  BY <1>0, <1>4
<1>6. f \in [0 .. n -> T]
  BY <1>5
<1>7. f[0] = base /\ f[n] = iter[1 .. n]
  BY <1>0, <1>1
<1>8. ASSUME NEW k \in 1 .. n PROVE f[k] = step[<<f[k - 1], k>>]
  <2>1. k - 1 \in 0 .. n /\ k \in 0 .. n
    BY <1>0
  <2>2. f[k] = iter[1 .. k] /\ f[k - 1] = iter[1 .. k - 1]
    BY <2>1
  <2> QED
    BY <1>0, <1>5, <2>1, <2>2
<1> HIDE DEF f
<1> QED
  BY <1>6, <1>7, <1>8 DEF FoldedUpTo

(* Sequences one after another are a sequence of the same elements. *)
LEMMA FlattenOK ==
  ASSUME NEW S, NEW seqs \in Seq(Seq(S))
  PROVE  FlattenSeq(seqs) \in Seq(S)
<1> DEFINE n == Len(seqs)
           Value(f, i) == IF i = 1 THEN seqs[i] ELSE f[i - 1] \o seqs[i]
           Flat(f, m) == \A i \in 1 .. m : f[i] = Value(f, i)
           Some(m) == \E f \in [1 .. m -> Seq(S)] : Flat(f, m)
           done == {m \in Nat : m <= n => Some(m)}
<1>1. Some(0)
  <2> DEFINE none == [i \in 1 .. 0 |-> <<>>]
  <2>1. none \in [1 .. 0 -> Seq(S)]
    OBVIOUS
  <2>2. Flat(none, 0)
    OBVIOUS
  <2> HIDE DEF none, Flat
  <2> QED
    BY <2>1, <2>2
<1>2. ASSUME NEW m \in Nat, m \in done, m + 1 <= n
      PROVE  Some(m + 1)
  <2>0. Some(m)
    <3> HIDE DEF Some
    <3> QED
      BY <1>2
  <2>1. PICK f \in [1 .. m -> Seq(S)] : Flat(f, m)
    BY <2>0
  <2>2. seqs[m + 1] \in Seq(S)
    BY <1>2
  <2> DEFINE h == [i \in 1 .. m + 1 |-> IF i = m + 1 THEN Value(f, i) ELSE f[i]]
  <2>3. Value(f, m + 1) \in Seq(S)
    <3>1. CASE m = 0
      BY <3>1, <2>2
    <3>2. CASE m # 0
      <4>1. f[m] \in Seq(S) /\ (m + 1) - 1 = m
        BY <3>2
      <4>2. f[m] \o seqs[m + 1] \in Seq(S)
        BY <4>1, <2>2
      <4> QED
        BY <3>2, <4>1, <4>2
    <3> QED
      BY <3>1, <3>2
  <2>4. h \in [1 .. m + 1 -> Seq(S)]
    BY <2>3
  <2>5. ASSUME NEW i \in 1 .. m + 1 PROVE h[i] = Value(h, i)
    <3>1. CASE i = m + 1
      BY <3>1
    <3>2. CASE i # m + 1
      <4>1. i \in 1 .. m /\ h[i] = f[i] /\ (i # 1 => h[i - 1] = f[i - 1])
        BY <3>2
      <4> HIDE DEF h
      <4> QED
        BY <4>1, <2>1
    <3> QED
      BY <3>1, <3>2
  <2> HIDE DEF h
  <2>6. Flat(h, m + 1)
    BY <2>5
  <2> HIDE DEF Flat
  <2> QED
    BY <2>4, <2>6
<1>3. Some(n)
  <2> HIDE DEF Some
  <2>1. 0 \in done /\ \A m \in Nat : m \in done => m + 1 \in done
    BY <1>1, <1>2
  <2>2. n \in done
    <3> HIDE DEF done
    <3> QED
      BY <2>1, EveryNumber
  <2> QED
    BY <2>2
<1>4. PICK f \in [1 .. n -> Seq(S)] : Flat(f, n)
  BY <1>3
<1>5. CASE n = 0
  BY <1>5 DEF FlattenSeq
<1>6. CASE n # 0
  <2> DEFINE flatten == CHOOSE g : g = [i \in 1 .. n |-> Value(g, i)]
  <2>1. f = [i \in 1 .. n |-> Value(f, i)]
    BY <1>4
  <2>2. flatten = [i \in 1 .. n |-> Value(flatten, i)]
    <3> HIDE DEF Value
    <3> QED
      BY <2>1
  <2>3. FlattenSeq(seqs) = flatten[n]
    BY <1>6 DEF FlattenSeq
  <2> HIDE DEF flatten
  <2> DEFINE right == {i \in Nat : i \in 1 .. n => flatten[i] \in Seq(S)}
  <2>4. ASSUME NEW i \in Nat, i \in right PROVE i + 1 \in right
    <3> SUFFICES ASSUME i + 1 \in 1 .. n PROVE flatten[i + 1] \in Seq(S)
      OBVIOUS
    <3>1. seqs[i + 1] \in Seq(S) /\ (i + 1) - 1 = i
      OBVIOUS
    <3>2. CASE i = 0
      BY <3>1, <3>2, <2>2
    <3>3. CASE i # 0
      <4>1. flatten[i] \in Seq(S)
        BY <2>4, <3>3
      <4>2. flatten[i + 1] = flatten[i] \o seqs[i + 1]
        <5>1. i + 1 # 1 /\ i + 1 \in 1 .. n
          BY <3>3
        <5>2. flatten[i + 1] = Value(flatten, i + 1)
          BY <2>2, <5>1
        <5> QED
          BY <5>1, <5>2, <3>1
      <4> QED
        BY <4>1, <4>2, <3>1
    <3> QED
      BY <3>2, <3>3
  <2>5. \A i \in Nat : i \in right
    <3>1. 0 \in right
      OBVIOUS
    <3> HIDE DEF right
    <3> QED
      BY <3>1, <2>4, EveryNumber
  <2> QED
    BY <2>3, <2>5, <1>6
<1> QED
  BY <1>5, <1>6

-----------------------------------------------------------------------------
(* UnitPass: sequences picked from others. *)

(* A sequence is what another has at some places, in order. *)
Enumerates(e, n, places) ==
  /\ e \in [1 .. n -> Nat] /\ places = {e[a] : a \in 1 .. n}
  /\ \A a, b \in 1 .. n : a < b => e[a] < e[b]

(* The places where it has what is to be kept. *)
Those(places, from, keep) == {k \in places : from[k] \in keep}

Picks(seq, places, from) ==
  \E e : Enumerates(e, Len(seq), places) /\ \A a \in 1 .. Len(seq) : seq[a] = from[e[a]]

(* Nothing is picked, or one more, after all before. *)
LEMMA PickNone == \A from : Picks(<<>>, {}, from)
<1> TAKE from
<1> DEFINE e == [a \in 1 .. 0 |-> a]
<1>1. Enumerates(e, Len(<<>>), {})
  BY DEF Enumerates
<1> HIDE DEF e
<1> QED
  BY <1>1 DEF Picks

LEMMA PickNext ==
  ASSUME NEW S, NEW seq \in Seq(S), NEW places, NEW from, Picks(seq, places, from),
         NEW k \in Nat, \A j \in places : j < k, from[k] \in S
  PROVE  Picks(Append(seq, from[k]), places \cup {k}, from)
<1> DEFINE n == Len(seq)
           longer == Append(seq, from[k])
<1>1. PICK e : Enumerates(e, n, places) /\ \A a \in 1 .. n : seq[a] = from[e[a]]
  BY DEF Picks
<1> DEFINE f == [a \in 1 .. n + 1 |-> IF a = n + 1 THEN k ELSE e[a]]
<1>2. Len(longer) = n + 1 /\ longer[n + 1] = from[k] /\ \A a \in 1 .. n : longer[a] = seq[a]
  OBVIOUS
<1>3. \A a \in 1 .. n : e[a] \in Nat /\ e[a] \in places
  BY <1>1 DEF Enumerates
<1>4. f \in [1 .. n + 1 -> Nat]
  BY <1>3
<1>5. f[n + 1] = k /\ \A a \in 1 .. n : f[a] = e[a]
  OBVIOUS
<1> HIDE DEF f
<1>6. \A a, b \in 1 .. n + 1 : a < b => f[a] < f[b]
  <2> SUFFICES ASSUME NEW a \in 1 .. n + 1, NEW b \in 1 .. n + 1, a < b PROVE f[a] < f[b]
    OBVIOUS
  <2>1. a \in 1 .. n /\ f[a] = e[a] /\ e[a] < k
    BY <1>3, <1>5
  <2>2. CASE b = n + 1
    BY <2>1, <2>2, <1>5
  <2>3. CASE b # n + 1
    BY <2>1, <2>3, <1>5, <1>1 DEF Enumerates
  <2> QED
    BY <2>2, <2>3
<1>7. {f[a] : a \in 1 .. n + 1} = places \cup {k}
  <2>1. 1 .. n + 1 = (1 .. n) \cup {n + 1}
    OBVIOUS
  <2>2. {f[a] : a \in 1 .. n} = places
    BY <1>1, <1>5 DEF Enumerates
  <2> QED
    BY <2>1, <2>2, <1>5
<1>8. Enumerates(f, n + 1, places \cup {k})
  BY <1>4, <1>6, <1>7 DEF Enumerates
<1>9. \A a \in 1 .. n + 1 : longer[a] = from[f[a]]
  BY <1>1, <1>2, <1>5
<1> HIDE DEF longer
<1> QED
  BY <1>2, <1>8, <1>9 DEF Picks

(* What is picked from what was picked is picked from where that was. *)
LEMMA PickTwice ==
  ASSUME NEW first, NEW places, NEW from, Picks(first, places, from), Len(first) \in Nat,
         NEW second, NEW keep, Picks(second, Those(1 .. Len(first), first, keep), first),
         Len(second) \in Nat
  PROVE  Picks(second, Those(places, from, keep), from)
<1> USE DEF Those
<1> DEFINE chosen == Those(1 .. Len(first), first, keep)
           n == Len(first)
           m == Len(second)
<1>1. PICK e : Enumerates(e, n, places) /\ \A a \in 1 .. n : first[a] = from[e[a]]
  BY DEF Picks
<1>2. PICK d : Enumerates(d, m, chosen) /\ \A b \in 1 .. m : second[b] = first[d[b]]
  BY DEF Picks
<1>3. \A b \in 1 .. m : d[b] \in 1 .. n /\ first[d[b]] \in keep
  BY <1>2 DEF Enumerates
<1>4. \A a \in 1 .. n : e[a] \in Nat /\ e[a] \in places
  BY <1>1 DEF Enumerates
<1> DEFINE f == [b \in 1 .. m |-> e[d[b]]]
<1>5. f \in [1 .. m -> Nat]
  BY <1>3, <1>4
<1>6. \A b, c \in 1 .. m : b < c => f[b] < f[c]
  <2>1. \A b, c \in 1 .. m : b < c => d[b] < d[c]
    BY <1>2 DEF Enumerates
  <2>2. \A b, c \in 1 .. n : b < c => e[b] < e[c]
    BY <1>1 DEF Enumerates
  <2> QED
    BY <2>1, <2>2, <1>3
<1>7. {k \in places : from[k] \in keep} = {f[b] : b \in 1 .. m}
  <2>1. ASSUME NEW k \in places, from[k] \in keep PROVE \E b \in 1 .. m : f[b] = k
    <3>1. PICK a \in 1 .. n : k = e[a]
      BY <1>1 DEF Enumerates
    <3>2. a \in chosen
      BY <3>1, <2>1, <1>1
    <3>3. PICK b \in 1 .. m : a = d[b]
      BY <3>2, <1>2 DEF Enumerates
    <3> QED
      BY <3>1, <3>3
  <2>2. ASSUME NEW b \in 1 .. m PROVE f[b] \in places /\ from[f[b]] \in keep
    BY <1>1, <1>3, <1>4
  <2> HIDE DEF f
  <2> QED
    BY <2>1, <2>2
<1>8. Enumerates(f, m, {k \in places : from[k] \in keep})
  BY <1>5, <1>6, <1>7, Zenon DEF Enumerates
<1>9. \A b \in 1 .. m : second[b] = from[f[b]]
  BY <1>1, <1>2, <1>3
<1> HIDE DEF f
<1> QED
  BY <1>8, <1>9 DEF Picks

(* Sift keeps what it is to keep, in order. *)
LEMMA SiftIs ==
  ASSUME NEW S, NEW seq \in Seq(S), NEW keep
  PROVE  /\ Sift(seq, keep) \in Seq(S)
         /\ Picks(Sift(seq, keep), Those(1 .. Len(seq), seq, keep), seq)
<1> DEFINE n == Len(seq)
           T == Seq(S)
           Kept(kept, x) == IF x \in keep THEN Append(kept, x) ELSE kept
           step == [z \in T \X (1 .. n) |-> Kept(z[1], seq[z[2]])]
           iter == CHOOSE g : g = [s \in SUBSET (1 .. n) |->
                     IF s = {} THEN <<>> ELSE Kept(g[s \ {Max(s)}], seq[Max(s)])]
<1>1. /\ n \in Nat /\ DOMAIN seq = 1 .. n /\ <<>> \in T
      /\ \A k \in 1 .. n : seq[k] \in S
  OBVIOUS
<1>2. \A kept \in T, x \in S : Kept(kept, x) \in T
  OBVIOUS
<1>3. \A kept \in T, k \in 1 .. n : step[<<kept, k>>] = Kept(kept, seq[k])
  OBVIOUS
<1>4. step \in [T \X (1 .. n) -> T]
  BY <1>1, <1>2
<1>5. Sift(seq, keep) = iter[1 .. n]
  BY <1>1 DEF Sift, FoldLeft, MapThenFoldSet
<1>6. \E f : FoldedUpTo(f, iter, n, T, <<>>, step)
  <2> HIDE DEF step, Kept, n, T
  <2>1. PICK g \in [SUBSET (1 .. n) -> T] :
          \A s \in SUBSET (1 .. n) :
            /\ g[s] = IF s = {} THEN <<>> ELSE step[<<g[s \ {Max(s)}], Max(s)>>]
            /\ s # {} => Max(s) \in s
    BY <1>1, <1>4, FoldExists
  <2>2. ASSUME NEW s \in SUBSET (1 .. n)
        PROVE  g[s] = IF s = {} THEN <<>> ELSE Kept(g[s \ {Max(s)}], seq[Max(s)])
    BY <2>1, <1>3
  <2>3. g = [s \in SUBSET (1 .. n) |->
               IF s = {} THEN <<>> ELSE Kept(g[s \ {Max(s)}], seq[Max(s)])]
    BY <2>2
  <2>4. iter = [s \in SUBSET (1 .. n) |->
                  IF s = {} THEN <<>> ELSE Kept(iter[s \ {Max(s)}], seq[Max(s)])]
    BY <2>3
  <2> HIDE DEF iter
  <2>5. iter[{}] = <<>>
    BY <2>4
  <2>6. ASSUME NEW k \in 1 .. n, iter[1 .. k - 1] \in T
        PROVE  iter[1 .. k] = step[<<iter[1 .. k - 1], k>>]
    <3>1. k \in Nat /\ k \in 1 .. k /\ 1 .. k \in SUBSET (1 .. n) /\ 1 .. k # {}
          /\ (1 .. k) \ {k} = 1 .. k - 1
      BY <1>1
    <3>2. Max(1 .. k) = k
      BY <3>1, LargestIs
    <3>3. iter[1 .. k] = Kept(iter[1 .. k - 1], seq[k])
      BY <2>4, <3>1, <3>2
    <3> QED
      BY <3>3, <2>6, <1>3
  <2>7. Folding(iter, n, T, <<>>, step)
    BY <1>1, <1>4, <2>5, <2>6 DEF Folding
  <2> QED
    BY <2>7, FoldPrefixes
<1> HIDE DEF iter
<1>7. PICK f : FoldedUpTo(f, iter, n, T, <<>>, step)
  BY <1>6
<1>8. /\ f \in [0 .. n -> T] /\ f[0] = <<>> /\ f[n] = iter[1 .. n]
      /\ \A k \in 1 .. n : f[k] = step[<<f[k - 1], k>>]
  BY <1>7 DEF FoldedUpTo
<1> DEFINE places(k) == {j \in 1 .. k : seq[j] \in keep}
           right == {k \in Nat : k <= n => Picks(f[k], places(k), seq)}
<1>9. ASSUME NEW k \in Nat, k \in right PROVE k + 1 \in right
  <2> SUFFICES ASSUME k + 1 <= n PROVE Picks(f[k + 1], places(k + 1), seq)
    OBVIOUS
  <2>1. k \in 0 .. n /\ k + 1 \in 1 .. n /\ (k + 1) - 1 = k /\ f[k] \in T
    BY <1>1, <1>8
  <2>2. f[k + 1] = Kept(f[k], seq[k + 1]) /\ seq[k + 1] \in S
    <3> HIDE DEF step, Kept
    <3>1. f[k + 1] = step[<<f[k], k + 1>>]
      BY <2>1, <1>8
    <3> QED
      BY <2>1, <3>1, <1>1, <1>3
  <2>3. Picks(f[k], places(k), seq)
    BY <1>9, <2>1
  <2>4. CASE seq[k + 1] \in keep
    <3>1. places(k + 1) = places(k) \cup {k + 1}
      BY <2>4
    <3>2. \A j \in places(k) : j < k + 1
      OBVIOUS
    <3>3. f[k + 1] = Append(f[k], seq[k + 1])
      BY <2>2, <2>4
    <3> HIDE DEF places
    <3>4. Picks(Append(f[k], seq[k + 1]), places(k) \cup {k + 1}, seq)
      <4> HIDE DEF T
      <4>1. f[k] \in Seq(S) /\ k + 1 \in Nat
        BY <2>1 DEF T
      <4> QED
        BY <2>2, <2>3, <3>2, <4>1, PickNext
    <3> QED
      BY <3>1, <3>3, <3>4
  <2>5. CASE seq[k + 1] \notin keep
    <3>1. places(k + 1) = places(k)
      BY <2>5
    <3> QED
      BY <2>2, <2>3, <2>5, <3>1
  <2> QED
    BY <2>4, <2>5
<1>10. n \in right
  <2>1. 0 \in right
    <3>1. places(0) = {}
      OBVIOUS
    <3> QED
      BY <3>1, <1>8, PickNone
  <2> HIDE DEF right
  <2> QED
    BY <2>1, <1>1, <1>9, EveryNumber
<1>11. Sift(seq, keep) = f[n] /\ f[n] \in T
  BY <1>1, <1>5, <1>8
<1> QED
  BY <1>1, <1>10, <1>11 DEF Those

-----------------------------------------------------------------------------
(* UnitPass: what a unit forwards. *)

Terms == RuleTerms \cup {Published}
AnAssignment == [section : Sections, value : Terms \cup {Reset}]

(* The assignments among the first k that count: for the unit, no reset     *)
(* themselves, and none for the unit after.                                *)
Counting(all, k) ==
  {i \in 1 .. k : /\ all[i].section # "other" /\ all[i].value # Reset
                  /\ \A j \in i .. k : ~(all[j].section # "other" /\ all[j].value = Reset)}

ValuesOf(all) == [i \in 1 .. Len(all) |-> all[i].value]

(* A declaration has the values that count, in order. *)
LEMMA DeclarationIs ==
  ASSUME NEW unit, NEW seq, seq = Assignments(unit), seq \in Seq(AnAssignment)
  PROVE  /\ Declaration(unit) \in Seq(Terms)
         /\ Picks(Declaration(unit), Counting(seq, Len(seq)), ValuesOf(seq))
<1> DEFINE n == Len(seq)
           S == AnAssignment
           T == Seq(Terms)
           step == [z \in T \X (1 .. n) |-> Applied(z[1], seq[z[2]])]
           iter == CHOOSE g : g = [s \in SUBSET (1 .. n) |->
                     IF s = {} THEN <<>> ELSE Applied(g[s \ {Max(s)}], seq[Max(s)])]
<1>1. /\ n \in Nat /\ DOMAIN seq = 1 .. n /\ <<>> \in T
      /\ \A k \in 1 .. n : seq[k] \in S
  OBVIOUS
<1>2. \A kept \in T, x \in S : Applied(kept, x) \in T
  BY DEF Applied, AnAssignment
<1>3. \A kept \in T, k \in 1 .. n : step[<<kept, k>>] = Applied(kept, seq[k])
  OBVIOUS
<1>4. step \in [T \X (1 .. n) -> T]
  BY <1>1, <1>2
<1>5. Declaration(unit) = iter[1 .. n]
  BY <1>1 DEF Declaration, FoldLeft, MapThenFoldSet
<1>6. \E f : FoldedUpTo(f, iter, n, T, <<>>, step)
  <2> HIDE DEF step, n, T
  <2>1. PICK g \in [SUBSET (1 .. n) -> T] :
          \A s \in SUBSET (1 .. n) :
            /\ g[s] = IF s = {} THEN <<>> ELSE step[<<g[s \ {Max(s)}], Max(s)>>]
            /\ s # {} => Max(s) \in s
    BY <1>1, <1>4, FoldExists
  <2>2. ASSUME NEW s \in SUBSET (1 .. n)
        PROVE  g[s] = IF s = {} THEN <<>> ELSE Applied(g[s \ {Max(s)}], seq[Max(s)])
    BY <2>1, <1>3
  <2>3. g = [s \in SUBSET (1 .. n) |->
               IF s = {} THEN <<>> ELSE Applied(g[s \ {Max(s)}], seq[Max(s)])]
    BY <2>2
  <2>4. iter = [s \in SUBSET (1 .. n) |->
                  IF s = {} THEN <<>> ELSE Applied(iter[s \ {Max(s)}], seq[Max(s)])]
    BY <2>3
  <2> HIDE DEF iter
  <2>5. iter[{}] = <<>>
    BY <2>4
  <2>6. ASSUME NEW k \in 1 .. n, iter[1 .. k - 1] \in T
        PROVE  iter[1 .. k] = step[<<iter[1 .. k - 1], k>>]
    <3>1. k \in Nat /\ k \in 1 .. k /\ 1 .. k \in SUBSET (1 .. n) /\ 1 .. k # {}
          /\ (1 .. k) \ {k} = 1 .. k - 1
      BY <1>1
    <3>2. Max(1 .. k) = k
      BY <3>1, LargestIs
    <3>3. iter[1 .. k] = Applied(iter[1 .. k - 1], seq[k])
      BY <2>4, <3>1, <3>2
    <3> QED
      BY <3>3, <2>6, <1>3
  <2>7. Folding(iter, n, T, <<>>, step)
    BY <1>1, <1>4, <2>5, <2>6 DEF Folding
  <2> QED
    BY <2>7, FoldPrefixes
<1> HIDE DEF iter
<1>7. PICK f : FoldedUpTo(f, iter, n, T, <<>>, step)
  BY <1>6
<1>8. /\ f \in [0 .. n -> T] /\ f[0] = <<>> /\ f[n] = iter[1 .. n]
      /\ \A k \in 1 .. n : f[k] = step[<<f[k - 1], k>>]
  BY <1>7 DEF FoldedUpTo
<1> DEFINE right == {k \in Nat : k <= n => Picks(f[k], Counting(seq, k), ValuesOf(seq))}
<1>9. ASSUME NEW k \in Nat, k \in right PROVE k + 1 \in right
  <2> SUFFICES ASSUME k + 1 <= n PROVE Picks(f[k + 1], Counting(seq, k + 1), ValuesOf(seq))
    OBVIOUS
  <2> DEFINE next == seq[k + 1]
  <2>1. k \in 0 .. n /\ k + 1 \in 1 .. n /\ (k + 1) - 1 = k /\ f[k] \in T
    BY <1>1, <1>8
  <2>2. f[k + 1] = Applied(f[k], next) /\ next \in S
    <3> HIDE DEF step
    <3>1. f[k + 1] = step[<<f[k], k + 1>>]
      BY <2>1, <1>8
    <3> QED
      BY <2>1, <3>1, <1>1, <1>3
  <2>3. Picks(f[k], Counting(seq, k), ValuesOf(seq))
    BY <1>9, <2>1
  <2>4. CASE next.section = "other"
    <3>1. Counting(seq, k + 1) = Counting(seq, k)
      <4>1. ASSUME NEW i PROVE i \in Counting(seq, k) => i \in Counting(seq, k + 1)
        BY <2>4 DEF Counting
      <4>2. ASSUME NEW i PROVE i \in Counting(seq, k + 1) => i \in Counting(seq, k)
        BY <2>4 DEF Counting
      <4> QED
        BY <4>1, <4>2
    <3> QED
      BY <2>2, <2>3, <2>4, <3>1 DEF Applied
  <2>5. CASE next.section # "other" /\ next.value = Reset
    <3>1. Counting(seq, k + 1) = {}
      BY <2>5 DEF Counting
    <3>2. f[k + 1] = <<>>
      BY <2>2, <2>5 DEF Applied
    <3> QED
      BY <3>1, <3>2, PickNone
  <2>6. CASE next.section # "other" /\ next.value # Reset
    <3>1. Counting(seq, k + 1) = Counting(seq, k) \cup {k + 1}
      <4>1. ASSUME NEW i PROVE i \in Counting(seq, k) => i \in Counting(seq, k + 1)
        BY <2>6 DEF Counting
      <4>2. k + 1 \in Counting(seq, k + 1)
        BY <2>6 DEF Counting
      <4>3. ASSUME NEW i PROVE i \in Counting(seq, k + 1) /\ i # k + 1 => i \in Counting(seq, k)
        BY <2>6 DEF Counting
      <4> QED
        BY <4>1, <4>2, <4>3
    <3>2. \A j \in Counting(seq, k) : j < k + 1
      BY DEF Counting
    <3>3. f[k + 1] = Append(f[k], ValuesOf(seq)[k + 1])
      BY <2>1, <2>2, <2>6 DEF Applied, ValuesOf
    <3>4. ValuesOf(seq)[k + 1] \in Terms
      BY <2>1, <2>2, <2>6 DEF ValuesOf, AnAssignment
    <3> HIDE DEF T
    <3>5. f[k] \in Seq(Terms) /\ k + 1 \in Nat
      BY <2>1 DEF T
    <3>6. Picks(Append(f[k], ValuesOf(seq)[k + 1]), Counting(seq, k) \cup {k + 1}, ValuesOf(seq))
      BY <2>3, <3>2, <3>4, <3>5, PickNext
    <3> QED
      BY <3>1, <3>3, <3>6
  <2> QED
    BY <2>4, <2>5, <2>6
<1>10. n \in right
  <2>1. 0 \in right
    <3>1. Counting(seq, 0) = {}
      BY DEF Counting
    <3> QED
      BY <3>1, <1>8, PickNone
  <2> HIDE DEF right
  <2> QED
    BY <2>1, <1>1, <1>9, EveryNumber
<1>11. Declaration(unit) = f[n] /\ f[n] \in T
  BY <1>1, <1>5, <1>8
<1> QED
  BY <1>1, <1>10, <1>11

(* What a sequence has with one more element. *)
LEMMA OneMoreInSet ==
  ASSUME NEW S, NEW seq \in Seq(S), NEW x \in S
  PROVE  ToSet(Append(seq, x)) = ToSet(seq) \cup {x}
<1> DEFINE longer == Append(seq, x)
<1>1. /\ DOMAIN longer = (DOMAIN seq) \cup {Len(seq) + 1}
      /\ longer[Len(seq) + 1] = x /\ \A i \in DOMAIN seq : longer[i] = seq[i]
  OBVIOUS
<1> HIDE DEF longer
<1>2. ToSet(longer) = ToSet(seq) \cup {x}
  BY <1>1 DEF ToSet
<1> QED
  BY <1>2 DEF longer

(* Of rules for one slot the first is kept, and of no other. *)
FirstOf(seq, j) == \A i \in 1 .. Len(seq) : i < j => seq[i].slot # seq[j].slot

LEMMA CollapseIs ==
  ASSUME NEW seq \in Seq(RuleTerms)
  PROVE  ToSet(Collapse(seq)) = {seq[j] : j \in {j \in 1 .. Len(seq) : FirstOf(seq, j)}}
         /\ \A j \in 1 .. Len(seq) : \E x \in ToSet(Collapse(seq)) : x.slot = seq[j].slot
<1> DEFINE n == Len(seq)
           S == RuleTerms
           T == Seq(RuleTerms)
           step == [z \in T \X (1 .. n) |-> KeepFirst(z[1], seq[z[2]])]
           iter == CHOOSE g : g = [s \in SUBSET (1 .. n) |->
                     IF s = {} THEN <<>> ELSE KeepFirst(g[s \ {Max(s)}], seq[Max(s)])]
<1>1. /\ n \in Nat /\ DOMAIN seq = 1 .. n /\ <<>> \in T
      /\ \A k \in 1 .. n : seq[k] \in S
  OBVIOUS
<1>2. \A kept \in T, x \in S : KeepFirst(kept, x) \in T
  BY DEF KeepFirst
<1>3. \A kept \in T, k \in 1 .. n : step[<<kept, k>>] = KeepFirst(kept, seq[k])
  OBVIOUS
<1>4. step \in [T \X (1 .. n) -> T]
  BY <1>1, <1>2
<1>5. Collapse(seq) = iter[1 .. n]
  BY <1>1 DEF Collapse, FoldLeft, MapThenFoldSet
<1>6. \E f : FoldedUpTo(f, iter, n, T, <<>>, step)
  <2> HIDE DEF step, n, T
  <2>1. PICK g \in [SUBSET (1 .. n) -> T] :
          \A s \in SUBSET (1 .. n) :
            /\ g[s] = IF s = {} THEN <<>> ELSE step[<<g[s \ {Max(s)}], Max(s)>>]
            /\ s # {} => Max(s) \in s
    BY <1>1, <1>4, FoldExists
  <2>2. ASSUME NEW s \in SUBSET (1 .. n)
        PROVE  g[s] = IF s = {} THEN <<>> ELSE KeepFirst(g[s \ {Max(s)}], seq[Max(s)])
    BY <2>1, <1>3
  <2>3. g = [s \in SUBSET (1 .. n) |->
               IF s = {} THEN <<>> ELSE KeepFirst(g[s \ {Max(s)}], seq[Max(s)])]
    BY <2>2
  <2>4. iter = [s \in SUBSET (1 .. n) |->
                  IF s = {} THEN <<>> ELSE KeepFirst(iter[s \ {Max(s)}], seq[Max(s)])]
    BY <2>3
  <2> HIDE DEF iter
  <2>5. iter[{}] = <<>>
    BY <2>4
  <2>6. ASSUME NEW k \in 1 .. n, iter[1 .. k - 1] \in T
        PROVE  iter[1 .. k] = step[<<iter[1 .. k - 1], k>>]
    <3>1. k \in Nat /\ k \in 1 .. k /\ 1 .. k \in SUBSET (1 .. n) /\ 1 .. k # {}
          /\ (1 .. k) \ {k} = 1 .. k - 1
      BY <1>1
    <3>2. Max(1 .. k) = k
      BY <3>1, LargestIs
    <3>3. iter[1 .. k] = KeepFirst(iter[1 .. k - 1], seq[k])
      BY <2>4, <3>1, <3>2
    <3> QED
      BY <3>3, <2>6, <1>3
  <2>7. Folding(iter, n, T, <<>>, step)
    BY <1>1, <1>4, <2>5, <2>6 DEF Folding
  <2> QED
    BY <2>7, FoldPrefixes
<1> HIDE DEF iter
<1>7. PICK f : FoldedUpTo(f, iter, n, T, <<>>, step)
  BY <1>6
<1>8. /\ f \in [0 .. n -> T] /\ f[0] = <<>> /\ f[n] = iter[1 .. n]
      /\ \A k \in 1 .. n : f[k] = step[<<f[k - 1], k>>]
  BY <1>7 DEF FoldedUpTo
<1> DEFINE Has(k) ==
             /\ \A x \in ToSet(f[k]) : \E j \in 1 .. k : FirstOf(seq, j) /\ seq[j] = x
             /\ \A j \in 1 .. k : /\ FirstOf(seq, j) => seq[j] \in ToSet(f[k])
                                  /\ \E x \in ToSet(f[k]) : x.slot = seq[j].slot
           right == {k \in Nat : k <= n => Has(k)}
<1>9. ASSUME NEW k \in Nat, k \in right PROVE k + 1 \in right
  <2> SUFFICES ASSUME k + 1 <= n PROVE Has(k + 1)
    OBVIOUS
  <2> DEFINE next == seq[k + 1]
  <2>1. k \in 0 .. n /\ k + 1 \in 1 .. n /\ (k + 1) - 1 = k /\ f[k] \in T
    <3> HIDE DEF T, step
    <3>1. k \in 0 .. n /\ k + 1 \in 1 .. n /\ (k + 1) - 1 = k
      BY <1>1
    <3> QED
      BY <3>1, <1>8
  <2>2. f[k + 1] = KeepFirst(f[k], next) /\ next \in S
    <3> HIDE DEF step
    <3>1. f[k + 1] = step[<<f[k], k + 1>>]
      BY <2>1, <1>8
    <3> QED
      BY <2>1, <3>1, <1>1, <1>3
  <2>3. Has(k)
    <3> HIDE DEF Has
    <3> QED
      BY <1>9, <2>1
  <2>4. 1 .. k + 1 = (1 .. k) \cup {k + 1}
    OBVIOUS
  <2>5. CASE \E i \in DOMAIN f[k] : f[k][i].slot = next.slot
    <3>1. f[k + 1] = f[k]
      BY <2>2, <2>5 DEF KeepFirst
    <3>2. PICK x \in ToSet(f[k]) : x.slot = next.slot
      BY <2>5 DEF ToSet
    <3>3. PICK j \in 1 .. k : seq[j] = x
      BY <2>3, <3>2
    <3>4. ~FirstOf(seq, k + 1)
      BY <3>2, <3>3, <1>1 DEF FirstOf
    <3> QED
      BY <2>3, <2>4, <3>1, <3>2, <3>4
  <2>6. CASE \A i \in DOMAIN f[k] : f[k][i].slot # next.slot
    <3>1. f[k + 1] = Append(f[k], next)
      BY <2>2, <2>6 DEF KeepFirst
    <3>2. ToSet(f[k + 1]) = ToSet(f[k]) \cup {next}
      BY <2>1, <2>2, <3>1, OneMoreInSet
    <3>3. \A x \in ToSet(f[k]) : x.slot # next.slot
      BY <2>6 DEF ToSet
    <3>4. FirstOf(seq, k + 1)
      <4> SUFFICES ASSUME NEW i \in 1 .. n, i < k + 1 PROVE seq[i].slot # next.slot
        BY DEF FirstOf
      <4>1. i \in 1 .. k
        OBVIOUS
      <4> QED
        BY <4>1, <2>3, <3>3
    <3> QED
      BY <2>3, <2>4, <3>2, <3>4
  <2> QED
    BY <2>5, <2>6
<1>10. Has(n)
  <2>1. 0 \in right
    BY <1>8 DEF ToSet
  <2>2. n \in right
    <3> HIDE DEF right
    <3> QED
      BY <2>1, <1>1, <1>9, EveryNumber
  <2> QED
    BY <2>2, <1>1
<1>11. Collapse(seq) = f[n]
  BY <1>1, <1>5, <1>8
<1> QED
  BY <1>1, <1>10, <1>11

ToBeRead == [unit : ListedUnits, path : Paths]

(* What there is to read: a path of a listed unit each. *)
LEMMA ToReadOK == ToRead \in Seq(ToBeRead)
<1> DEFINE of(i) == [j \in DOMAIN Files[Listed[i]] |->
                       [unit |-> Listed[i], path |-> Files[Listed[i]][j]]]
           seqs == [i \in DOMAIN Listed |-> of(i)]
<1>1. Listed \in Seq(ListedUnits)
  BY UnitPassAssumption
<1>2. ASSUME NEW i \in DOMAIN Listed PROVE of(i) \in Seq(ToBeRead)
  <2>1. Listed[i] \in ListedUnits
    BY <1>1, <1>2
  <2>2. Files[Listed[i]] \in Seq(Paths)
    BY <2>1, UnitPassAssumption
  <2>3. ASSUME NEW j \in DOMAIN Files[Listed[i]]
        PROVE  [unit |-> Listed[i], path |-> Files[Listed[i]][j]] \in ToBeRead
    BY <2>1, <2>2 DEF ToBeRead
  <2>4. DOMAIN Files[Listed[i]] = 1 .. Len(Files[Listed[i]]) /\ Len(Files[Listed[i]]) \in Nat
    BY <2>2
  <2> QED
    BY <2>3, <2>4
<1>3. seqs \in Seq(Seq(ToBeRead))
  <2>1. DOMAIN Listed = 1 .. Len(Listed) /\ Len(Listed) \in Nat
    BY <1>1
  <2> HIDE DEF of
  <2> QED
    BY <1>2, <2>1
<1> HIDE DEF seqs
<1>4. FlattenSeq(seqs) \in Seq(ToBeRead)
  BY <1>3, FlattenOK
<1> QED
  BY <1>4 DEF ToRead, seqs

(* Once all is read, each unit's assignments are assignments. *)
LEMMA AssignmentsOK ==
  ASSUME texts \in Seq(Texts \cup {<<>>}), Len(texts) = Len(ToRead), NEW unit
  PROVE  Assignments(unit) \in Seq(AnAssignment)
<1> DEFINE of(i) == IF ToRead[i].unit = unit THEN texts[i] ELSE <<>>
           seqs == [i \in DOMAIN ToRead |-> of(i)]
<1>1. DOMAIN ToRead = 1 .. Len(ToRead) /\ Len(ToRead) \in Nat
  BY ToReadOK
<1>2. Texts \cup {<<>>} \subseteq Seq(AnAssignment)
  <2>1. RuleTerms \cup {Published, Reset} = Terms \cup {Reset}
    BY DEF Terms
  <2>2. Texts \subseteq Seq(AnAssignment)
    BY <2>1, UnitPassAssumption, Zenon DEF AnAssignment
  <2>3. <<>> \in Seq(AnAssignment)
    OBVIOUS
  <2> QED
    BY <2>2, <2>3
<1>3. ASSUME NEW i \in DOMAIN ToRead PROVE of(i) \in Seq(AnAssignment)
  <2>1. texts[i] \in Texts \cup {<<>>}
    BY <1>1
  <2> QED
    BY <2>1, <1>2
<1> HIDE DEF of
<1>4. seqs \in Seq(Seq(AnAssignment))
  BY <1>1, <1>3
<1> HIDE DEF seqs
<1>5. FlattenSeq(seqs) \in Seq(AnAssignment)
  BY <1>4, FlattenOK
<1> QED
  BY <1>5 DEF Assignments, seqs, of

(* What a unit listens on goes to the port it listens at. *)
LEMMA ListeningIs ==
  ASSUME NEW unit
  PROVE  /\ Listening(unit) \in Seq(RuleTerms)
         /\ \A i \in 1 .. Len(Listening(unit)) : Listening(unit)[i].port = Listening(unit)[i].slot
<1> DEFINE keep == {s \in ToSet(Sockets) : s.unit \in Triggers[unit] /\ s.forwardable}
           own == Sift(Sockets, keep)
<1>1. Sockets \in Seq(ToSet(Sockets)) /\ \A s \in ToSet(Sockets) : s.slot \in Nat
  BY UnitPassAssumption
<1>2. own \in Seq(ToSet(Sockets))
  BY <1>1, SiftIs
<1>3. Listening(unit) = [i \in DOMAIN own |-> [slot |-> own[i].slot, port |-> own[i].slot]]
  BY DEF Listening
<1> HIDE DEF own
<1>4. DOMAIN own = 1 .. Len(own) /\ Len(own) \in Nat
  BY <1>2
<1>5. ASSUME NEW i \in DOMAIN own
      PROVE  [slot |-> own[i].slot, port |-> own[i].slot] \in RuleTerms
  BY <1>1, <1>2, <1>4 DEF RuleTerms
<1>6. Listening(unit) \in Seq(RuleTerms)
  BY <1>3, <1>4, <1>5
<1>7. \A i \in DOMAIN own : Listening(unit)[i].port = Listening(unit)[i].slot
  BY <1>3
<1>8. Len(Listening(unit)) = Len(own)
  BY <1>3, <1>4, <1>6
<1> QED
  BY <1>4, <1>6, <1>7, <1>8

(* What the elements of a picked sequence are, and which is before which. *)
Points(e, seq, places, from) ==
  /\ \A a \in 1 .. Len(seq) : e[a] \in places /\ e[a] \in Nat /\ seq[a] = from[e[a]]
  /\ \A k \in places : \E a \in 1 .. Len(seq) : k = e[a]
  /\ \A a, b \in 1 .. Len(seq) : a < b <=> e[a] < e[b]

LEMMA Picked ==
  ASSUME NEW seq, NEW places, NEW from, Picks(seq, places, from), Len(seq) \in Nat
  PROVE  \E e : Points(e, seq, places, from)
<1>1. PICK e : Enumerates(e, Len(seq), places)
                 /\ \A a \in 1 .. Len(seq) : seq[a] = from[e[a]]
  BY DEF Picks
<1>2. \A a \in 1 .. Len(seq) : e[a] \in places /\ e[a] \in Nat
  BY <1>1 DEF Enumerates
<1>3. \A k \in places : \E a \in 1 .. Len(seq) : k = e[a]
  BY <1>1 DEF Enumerates
<1>4. \A a, b \in 1 .. Len(seq) : a < b <=> e[a] < e[b]
  <2> SUFFICES ASSUME NEW a \in 1 .. Len(seq), NEW b \in 1 .. Len(seq)
               PROVE  a < b <=> e[a] < e[b]
    OBVIOUS
  <2>1. a < b => e[a] < e[b]
    BY <1>1 DEF Enumerates
  <2>2. b < a => e[b] < e[a]
    BY <1>1 DEF Enumerates
  <2>3. a = b \/ a < b \/ b < a
    OBVIOUS
  <2> QED
    BY <2>1, <2>2, <2>3, <1>2
<1> QED
  BY <1>1, <1>2, <1>3, <1>4 DEF Points

(* What ForwardsWhatIsDeclared says of a unit. *)
Forwarded(u, cgroups) ==
  LET all == Assignments(u)
      In(i) == all[i].section # "other"
      counts == {i \in DOMAIN all : /\ In(i) /\ all[i].value # Reset
                                    /\ \A j \in i .. Len(all) : ~(In(j) /\ all[j].value = Reset)}
      rules == {i \in counts : all[i].value # Published}
      First(i) == \A j \in rules : j < i => all[j].value.slot # all[i].value.slot
      listened == IF cgroups /\ \E i \in counts : all[i].value = Published
                  THEN ToSet(Listening(u)) ELSE {}
  IN ToSet(Rules(u, cgroups)) =
       {all[i].value : i \in {i \in rules : First(i)}}
       \cup {l \in listened : \A i \in rules : all[i].value.slot # l.slot}

(* It holds of every unit, whatever its files hold: what its declaration    *)
(* picks is what counts, and what is kept of it is the first for its slot. *)
LEMMA ForwardedIs ==
  ASSUME NEW u, NEW cgroups \in BOOLEAN, Assignments(u) \in Seq(AnAssignment)
  PROVE  Forwarded(u, cgroups)
<1> DEFINE all == Assignments(u)
           In(i) == all[i].section # "other"
           counts == {i \in DOMAIN all :
                        /\ In(i) /\ all[i].value # Reset
                        /\ \A j \in i .. Len(all) : ~(In(j) /\ all[j].value = Reset)}
           rules == {i \in counts : all[i].value # Published}
           First(i) == \A j \in rules : j < i => all[j].value.slot # all[i].value.slot
           firsts == {i \in rules : First(i)}
           listened == IF cgroups /\ \E i \in counts : all[i].value = Published
                       THEN ToSet(Listening(u)) ELSE {}
<1>1. DOMAIN all = 1 .. Len(all)
  OBVIOUS
<1> HIDE DEF all
<1>2. all = Assignments(u) /\ all \in Seq(AnAssignment)
  BY DEF all
<1>3. counts = Counting(all, Len(all))
  BY <1>1, Zenon DEF Counting
<1> HIDE DEF counts
<1>4. rules = {i \in counts : all[i].value # Published}
  OBVIOUS
<1> HIDE DEF rules
<1>5. firsts = {i \in rules : \A j \in rules : j < i => all[j].value.slot # all[i].value.slot}
  OBVIOUS
<1> HIDE DEF firsts
<1>6. listened = IF cgroups /\ \E i \in counts : all[i].value = Published
                 THEN ToSet(Listening(u)) ELSE {}
  OBVIOUS
<1> HIDE DEF listened
<1> DEFINE terms == Declaration(u)
           values == ValuesOf(all)
           own == Sift(terms, RuleTerms)
           more == IF cgroups /\ Published \in ToSet(terms) THEN Listening(u) ELSE <<>>
           both == own \o more
           n == Len(own)
<1>7. /\ terms \in Seq(Terms) /\ Picks(terms, counts, values)
  BY <1>2, <1>3, DeclarationIs
<1>8. \A i \in counts : i \in 1 .. Len(all) /\ values[i] = all[i].value /\ values[i] \in Terms
  <2> SUFFICES ASSUME NEW i \in counts
               PROVE  i \in 1 .. Len(all) /\ values[i] = all[i].value /\ values[i] \in Terms
    OBVIOUS
  <2>1. i \in 1 .. Len(all) /\ all[i].value # Reset
    BY <1>3 DEF Counting
  <2>2. all[i] \in AnAssignment
    BY <1>2, <2>1
  <2> QED
    BY <2>1, <2>2 DEF AnAssignment, ValuesOf
<1>9. Rules(u, cgroups) = Collapse(both)
  BY DEF Rules
<1> HIDE DEF terms, values
<1>10. own \in Seq(Terms) /\ Picks(own, Those(1 .. Len(terms), terms, RuleTerms), terms)
  BY <1>7, SiftIs
<1>11. Len(terms) \in Nat /\ n \in Nat
  BY <1>7, <1>10
<1> HIDE DEF own
<1>12. Picks(own, Those(counts, values, RuleTerms), values)
  BY <1>7, <1>10, <1>11, PickTwice
<1>13. Those(counts, values, RuleTerms) = rules
  <2>1. \A x \in Terms : x \in RuleTerms <=> x # Published
    BY UnitPassAssumption DEF Terms
  <2> QED
    BY <1>4, <1>8, <2>1 DEF Those
<1>14. PICK e : Points(e, own, rules, values)
  BY <1>11, <1>12, <1>13, Picked
<1>15. /\ \A a \in 1 .. n : e[a] \in rules /\ e[a] \in Nat /\ own[a] = values[e[a]]
       /\ \A k \in rules : \E a \in 1 .. n : k = e[a]
       /\ \A a, b \in 1 .. n : a < b <=> e[a] < e[b]
  BY <1>14 DEF Points
<1>16. \A a \in 1 .. n : e[a] \in rules /\ own[a] = all[e[a]].value /\ own[a] \in RuleTerms
  BY <1>8, <1>13, <1>15 DEF Those
<1>17. own \in Seq(RuleTerms)
  BY <1>10, <1>11, <1>16
<1>18. Published \in ToSet(terms) <=> \E i \in counts : all[i].value = Published
  <2>1. PICK d : Points(d, terms, counts, values)
    BY <1>7, <1>11, Picked
  <2>2. /\ \A a \in 1 .. Len(terms) : d[a] \in counts /\ terms[a] = values[d[a]]
        /\ \A k \in counts : \E a \in 1 .. Len(terms) : k = d[a]
    BY <2>1 DEF Points
  <2>3. DOMAIN terms = 1 .. Len(terms)
    BY <1>7
  <2>4. \A a \in 1 .. Len(terms) : d[a] \in counts /\ terms[a] = all[d[a]].value
    BY <1>8, <2>2
  <2>5. ASSUME NEW i \in counts PROVE \E a \in 1 .. Len(terms) : terms[a] = all[i].value
    BY <2>2, <2>4
  <2> QED
    BY <2>3, <2>4, <2>5 DEF ToSet
<1>19. more \in Seq(RuleTerms) /\ ToSet(more) = listened
       /\ \A i \in 1 .. Len(more) : more[i].port = more[i].slot
  <2>1. CASE cgroups /\ Published \in ToSet(terms)
    BY <1>6, <2>1, <1>18, ListeningIs
  <2>2. CASE ~(cgroups /\ Published \in ToSet(terms))
    BY <1>6, <2>2, <1>18 DEF ToSet
  <2> QED
    BY <2>1, <2>2
<1> HIDE DEF more
<1>20. /\ both \in Seq(RuleTerms) /\ Len(both) = n + Len(more) /\ Len(more) \in Nat
       /\ \A a \in 1 .. n : both[a] = own[a]
       /\ \A a \in 1 .. Len(more) : both[n + a] = more[a]
  BY <1>17, <1>19
<1>21. \A a \in 1 .. Len(both) : a \in 1 .. n \/ \E b \in 1 .. Len(more) : a = n + b
  <2> SUFFICES ASSUME NEW a \in 1 .. Len(both), a \notin 1 .. n
               PROVE  \E b \in 1 .. Len(more) : a = n + b
    OBVIOUS
  <2>1. a - n \in 1 .. Len(more) /\ a = n + (a - n)
    BY <1>11, <1>20
  <2> QED
    BY <2>1
<1> HIDE DEF both
<1>22. /\ ToSet(Collapse(both)) = {both[j] : j \in {j \in 1 .. Len(both) : FirstOf(both, j)}}
       /\ \A j \in 1 .. Len(both) : \E x \in ToSet(Collapse(both)) : x.slot = both[j].slot
  BY <1>20, CollapseIs
<1>23. \A l \in listened :
         l \in RuleTerms /\ l.port = l.slot /\ \E b \in 1 .. Len(more) : l = more[b]
  <2>1. DOMAIN more = 1 .. Len(more)
    BY <1>19
  <2> QED
    BY <1>19, <2>1 DEF ToSet
<1>24. \A b \in 1 .. Len(more) : more[b] \in listened
  <2>1. DOMAIN more = 1 .. Len(more)
    BY <1>19
  <2> QED
    BY <1>19, <2>1 DEF ToSet
(* Each rule that comes of it is one of those ... *)
<1>25. ASSUME NEW j \in 1 .. Len(both), FirstOf(both, j)
       PROVE  \/ \E i \in firsts : both[j] = all[i].value
              \/ both[j] \in listened /\ \A i \in rules : all[i].value.slot # both[j].slot
  <2>1. CASE j \in 1 .. n
    <3>1. e[j] \in rules /\ both[j] = all[e[j]].value
      BY <2>1, <1>16, <1>20
    <3>2. ASSUME NEW i \in rules, i < e[j] PROVE all[i].value.slot # all[e[j]].value.slot
      <4>1. PICK a \in 1 .. n : i = e[a]
        BY <1>15
      <4>2. a < j /\ a \in 1 .. Len(both) /\ both[a] = all[i].value
        BY <4>1, <3>2, <2>1, <1>11, <1>15, <1>16, <1>20
      <4> QED
        BY <4>2, <3>1, <1>25 DEF FirstOf
    <3> QED
      BY <1>5, <3>1, <3>2
  <2>2. CASE \E b \in 1 .. Len(more) : j = n + b
    <3>1. PICK b \in 1 .. Len(more) : j = n + b
      BY <2>2
    <3>2. both[j] \in listened
      BY <3>1, <1>20, <1>24
    <3>3. ASSUME NEW i \in rules PROVE all[i].value.slot # both[j].slot
      <4>1. PICK a \in 1 .. n : i = e[a]
        BY <1>15
      <4>2. a < j /\ a \in 1 .. Len(both) /\ both[a] = all[i].value
        BY <4>1, <3>1, <1>11, <1>16, <1>20
      <4> QED
        BY <4>2, <1>25 DEF FirstOf
    <3> QED
      BY <3>2, <3>3
  <2> QED
    BY <2>1, <2>2, <1>21
(* ... and each of those is one that comes of it. *)
<1>26. ASSUME NEW i \in firsts PROVE all[i].value \in ToSet(Collapse(both))
  <2>1. i \in rules /\ \A k \in rules : k < i => all[k].value.slot # all[i].value.slot
    BY <1>5
  <2>2. PICK a \in 1 .. n : i = e[a]
    BY <2>1, <1>15
  <2>3. a \in 1 .. Len(both) /\ both[a] = all[i].value
    BY <2>2, <1>11, <1>16, <1>20
  <2>4. FirstOf(both, a)
    <3> SUFFICES ASSUME NEW c \in 1 .. Len(both), c < a PROVE both[c].slot # both[a].slot
      BY DEF FirstOf
    <3>1. c \in 1 .. n
      BY <1>11, <1>20
    <3>2. e[c] \in rules /\ e[c] < i /\ both[c] = all[e[c]].value
      BY <3>1, <2>2, <1>15, <1>16, <1>20
    <3> QED
      BY <3>2, <2>1, <2>3
  <2> QED
    BY <2>3, <2>4, <1>22
<1>27. ASSUME NEW l \in listened, \A i \in rules : all[i].value.slot # l.slot
       PROVE  l \in ToSet(Collapse(both))
  <2>1. PICK b \in 1 .. Len(more) : l = more[b]
    BY <1>23
  <2>2. n + b \in 1 .. Len(both) /\ both[n + b] = l
    BY <2>1, <1>11, <1>20
  <2>3. PICK x \in ToSet(Collapse(both)) : x.slot = l.slot
    BY <2>2, <1>22
  <2>4. PICK j \in 1 .. Len(both) : both[j] = x
    BY <1>22
  <2>5. j \notin 1 .. n
    BY <2>3, <2>4, <1>16, <1>20, <1>27
  <2>6. PICK c \in 1 .. Len(more) : j = n + c
    BY <2>5, <1>21
  <2>7. x = more[c] /\ x \in listened /\ x \in RuleTerms /\ x.port = x.slot
    BY <2>4, <2>6, <1>20, <1>23, <1>24
  <2>8. l \in RuleTerms /\ l.port = l.slot
    BY <1>23
  <2>9. x = l
    BY <2>3, <2>7, <2>8 DEF RuleTerms
  <2> QED
    BY <2>9
<1>28. \A x \in ToSet(Collapse(both)) :
         \/ \E i \in firsts : x = all[i].value
         \/ x \in listened /\ \A i \in rules : all[i].value.slot # x.slot
  <2> TAKE x \in ToSet(Collapse(both))
  <2>1. PICK j \in 1 .. Len(both) : FirstOf(both, j) /\ both[j] = x
    BY <1>22
  <2> QED
    BY <2>1, <1>25
<1> HIDE DEF own
<1>29. ToSet(Rules(u, cgroups)) =
        {all[i].value : i \in firsts}
        \cup {l \in listened : \A i \in rules : all[i].value.slot # l.slot}
  BY <1>9, <1>26, <1>27, <1>28
<1> QED
  BY <1>29, Zenon DEF Forwarded, firsts, listened, rules, counts, all

-----------------------------------------------------------------------------
(* UnitPass: the steps. *)

Held == Texts \cup {<<>>}
Versions == [stamp : Nat, text : Held]

PassTypeOK ==
  /\ disk \in [Paths -> Versions] /\ aside \in [Paths -> Versions] /\ stamps \in Nat
  /\ pc \in {"idle", "asking", "reading"}
  /\ questions \in 0 .. Len(Listed) /\ pending \subseteq ListedUnits /\ failed \in BOOLEAN
  /\ statted \in 0 .. stamps /\ texts \in Seq(Held) /\ Len(texts) <= Len(ToRead)
  /\ cache \in [Paths -> Versions]
  /\ during \in [Paths -> SUBSET Held] /\ raced \subseteq Paths /\ fooled \subseteq Paths

(* No stamp is above the last one, and only no file has none. *)
Stamped(version) == version.stamp <= stamps /\ (version.stamp = 0 => version = NoFile)
AllStamped == \A p \in Paths : Stamped(disk[p]) /\ Stamped(aside[p]) /\ Stamped(cache[p])

BetweenPasses == pc # "reading" => texts = <<>> /\ statted = 0

Noticed == pc # "idle" => \A p \in Paths : disk[p].text \in during[p]

(* The version set aside has not the stamp of the one in its place. *)
SetAside == \A p \in Paths : aside[p].stamp = disk[p].stamp => disk[p].stamp = 0

(* A path that was cached with another text than its stamp's is not cached *)
(* under the stamp it has; the others are cached with the text of either    *)
(* version that has the stamp.                                             *)
CachedFor ==
  \A p \in Paths \ fooled :
    /\ p \in raced => cache[p].stamp # disk[p].stamp /\ cache[p].stamp # 0
    /\ p \notin raced =>
         \A v \in {disk[p], aside[p]} :
           cache[p].stamp = v.stamp /\ v.stamp # 0 => cache[p].text = v.text

PassInv ==
  /\ PassTypeOK /\ AllStamped /\ BetweenPasses /\ Noticed /\ SetAside /\ CachedFor
  /\ ReadsAreCurrent

LEMMA NoFileOK == NoFile \in Versions /\ NoFile.stamp = 0 /\ NoFile.text = <<>>
  BY DEF NoFile, Versions, Held

LEMMA LengthOK == Len(ToRead) \in Nat /\ \A i \in 1 .. Len(ToRead) : ToRead[i].path \in Paths
<1>1. ToRead \in Seq(ToBeRead)
  BY ToReadOK
<1>2. Len(ToRead) \in Nat /\ \A i \in 1 .. Len(ToRead) : ToRead[i] \in ToBeRead
  BY <1>1
<1>3. \A x \in ToBeRead : x.path \in Paths
  BY DEF ToBeRead
<1> QED
  BY <1>2, <1>3

LEMMA CurrentOK ==
  ASSUME PassInv, IsReading
  PROVE  /\ Current \in Paths /\ ToRead[Len(texts) + 1].path = Current
         /\ Len(texts) \in Nat /\ Len(texts) + 1 <= Len(ToRead)
<1>1. texts \in Seq(Held) /\ Len(texts) < Len(ToRead)
  BY DEF PassInv, PassTypeOK, IsReading
<1>2. Len(texts) \in Nat /\ Len(texts) + 1 \in 1 .. Len(ToRead)
  BY <1>1, LengthOK
<1> QED
  BY <1>2, LengthOK DEF Current

(* All of it holds before the first pass ... *)
LEMMA PassInitOK == PassInit => PassInv
<1> SUFFICES ASSUME PassInit PROVE PassInv
  OBVIOUS
<1>1. PassTypeOK
  <2>1. Len(Listed) \in Nat
    BY UnitPassAssumption
  <2>2. texts \in Seq(Held) /\ Len(texts) = 0
    BY DEF PassInit
  <2>3. Len(texts) <= Len(ToRead) /\ statted \in 0 .. stamps /\ questions \in 0 .. Len(Listed)
    BY <2>1, <2>2, LengthOK DEF PassInit
  <2>4. disk \in [Paths -> Versions] /\ aside \in [Paths -> Versions]
        /\ cache \in [Paths -> Versions]
    BY NoFileOK DEF PassInit
  <2> QED
    BY <2>2, <2>3, <2>4 DEF PassInit, PassTypeOK
<1>2. AllStamped
  BY NoFileOK DEF PassInit, AllStamped, Stamped
<1>3. BetweenPasses /\ Noticed /\ SetAside /\ CachedFor /\ ReadsAreCurrent
  BY NoFileOK DEF PassInit, BetweenPasses, Noticed, SetAside, CachedFor, ReadsAreCurrent
<1> QED
  BY <1>1, <1>2, <1>3 DEF PassInv

(* ... and after each step: a pass begins, asks ... *)
LEMMA BeginOK ==
  ASSUME PassInv, Begin
  PROVE  PassInv'
<1> USE DEF PassInv
<1>1. PassTypeOK'
  <2>1. \A p \in Paths : {disk[p].text} \subseteq Held
    BY DEF PassTypeOK, Versions
  <2> QED
    BY <2>1 DEF PassTypeOK, Begin, onDisk, asking, reading
<1>2. AllStamped' /\ SetAside' /\ CachedFor'
  BY DEF AllStamped, Stamped, SetAside, CachedFor, Begin, onDisk, reading
<1>3. BetweenPasses' /\ Noticed' /\ ReadsAreCurrent'
  BY DEF BetweenPasses, Noticed, ReadsAreCurrent, Begin, onDisk, reading
<1> QED
  BY <1>1, <1>2, <1>3

AsksOrKnows ==
  Ask \/ UnitsKnown \/ \E u \in ListedUnits, ok \in BOOLEAN : Answered(u, ok)

LEMMA AskingOK ==
  ASSUME PassInv, AsksOrKnows
  PROVE  PassInv'
<1> USE DEF PassInv
<1>1. Len(Listed) \in Nat /\ \A i \in 1 .. Len(Listed) : Listed[i] \in ListedUnits
  BY UnitPassAssumption
<1>2. UNCHANGED <<onDisk, reading, past>>
  BY DEF AsksOrKnows, Ask, UnitsKnown, Answered
<1>3. pc \in {"asking", pc} /\ pc' \in {pc, "reading"} /\ (pc = "reading" => pc' = "reading")
      /\ (pc = "idle" => pc' = pc)
  BY DEF AsksOrKnows, Ask, UnitsKnown, AllAnswered, Answered
<1>4. questions' \in 0 .. Len(Listed) /\ pending' \subseteq ListedUnits /\ failed' \in BOOLEAN
  <2>1. questions \in 0 .. Len(Listed) /\ pending \subseteq ListedUnits /\ failed \in BOOLEAN
    BY DEF PassTypeOK
  <2>2. CASE Ask
    BY <2>1, <2>2, <1>1 DEF Ask
  <2>3. CASE UnitsKnown
    BY <2>1, <2>3 DEF UnitsKnown, asking
  <2>4. ASSUME NEW u \in ListedUnits, NEW ok \in BOOLEAN, Answered(u, ok)
        PROVE  /\ questions' \in 0 .. Len(Listed)
               /\ pending' \subseteq ListedUnits /\ failed' \in BOOLEAN
    BY <2>1, <2>4 DEF Answered
  <2> QED
    BY <2>2, <2>3, <2>4 DEF AsksOrKnows
<1>5. PassTypeOK'
  BY <1>2, <1>3, <1>4 DEF PassTypeOK, onDisk, reading, past
<1>6. AllStamped' /\ SetAside' /\ CachedFor'
  BY <1>2 DEF AllStamped, Stamped, SetAside, CachedFor, onDisk, reading, past
<1>7. BetweenPasses' /\ Noticed' /\ ReadsAreCurrent'
  BY <1>2, <1>3 DEF BetweenPasses, Noticed, ReadsAreCurrent, onDisk, reading, past
<1> QED
  BY <1>5, <1>6, <1>7

(* ... and is over. *)
Ends == Over /\ UNCHANGED <<onDisk, cache, raced, fooled>>

LEMMA OverOK ==
  ASSUME PassInv, Ends
  PROVE  PassInv'
<1> USE DEF PassInv, Ends
<1>1. PassTypeOK'
  <2>1. Len(Listed) \in Nat
    BY UnitPassAssumption
  <2>2. texts' \in Seq(Held) /\ Len(texts') = 0
    BY DEF Over
  <2>3. Len(texts') <= Len(ToRead) /\ statted' \in 0 .. stamps' /\ questions' \in 0 .. Len(Listed)
    BY <2>1, <2>2, LengthOK DEF PassTypeOK, Over, onDisk
  <2> QED
    BY <2>2, <2>3 DEF PassTypeOK, Over, onDisk
<1>2. AllStamped' /\ SetAside' /\ CachedFor'
  BY DEF AllStamped, Stamped, SetAside, CachedFor, onDisk
<1>3. BetweenPasses' /\ Noticed' /\ ReadsAreCurrent'
  BY DEF BetweenPasses, Noticed, ReadsAreCurrent, Over
<1> QED
  BY <1>1, <1>2, <1>3

(* A file's text is taken: it is what the file held at some moment of the   *)
(* pass, but for a file that fooled it.                                    *)
LEMMA TakeOK ==
  ASSUME PassInv, IsReading, NEW text \in Held, Take(text),
         UNCHANGED <<pc, during, fooled, stamps>>,
         Current \in fooled \/ text \in during[Current]
  PROVE  /\ texts' \in Seq(Held) /\ Len(texts') <= Len(ToRead) /\ statted' \in 0 .. stamps'
         /\ ReadsAreCurrent' /\ BetweenPasses'
<1> DEFINE n == Len(texts)
<1>1. texts \in Seq(Held) /\ stamps \in Nat /\ ReadsAreCurrent
  BY DEF PassInv, PassTypeOK
<1>2. /\ texts' \in Seq(Held) /\ Len(texts') = n + 1 /\ n \in Nat
      /\ texts'[n + 1] = text /\ \A i \in 1 .. n : texts'[i] = texts[i]
  BY <1>1 DEF Take
<1>3. ReadsAreCurrent'
  <2>1. ASSUME NEW i \in 1 .. n + 1
        PROVE  ToRead[i].path \in fooled \/ texts'[i] \in during[ToRead[i].path]
    <3>1. CASE i = n + 1
      BY <3>1, <1>2, CurrentOK
    <3>2. CASE i # n + 1
      BY <3>2, <1>1, <1>2 DEF ReadsAreCurrent
    <3> QED
      BY <3>1, <3>2
  <2>2. DOMAIN texts' = 1 .. n + 1
    BY <1>2
  <2> QED
    BY <2>1, <2>2 DEF ReadsAreCurrent
<1>4. statted' \in 0 .. stamps'
  BY <1>1 DEF Take
<1>5. BetweenPasses'
  BY DEF BetweenPasses, IsReading
<1>6. Len(texts') <= Len(ToRead)
  BY <1>2, CurrentOK
<1> QED
  BY <1>2, <1>3, <1>4, <1>5, <1>6

(* A file is not there; its text is cached under its stamp; it is not. *)
LEMMA ForgetOK ==
  ASSUME PassInv, IsReading, disk[Current] = NoFile, Forget,
         UNCHANGED <<onDisk, pc, asking, during, fooled>>
  PROVE  PassInv'
<1> USE DEF PassInv
<1>1. Current \in Paths /\ <<>> \in Held
  BY CurrentOK DEF Held
<1>2. <<>> \in during[Current]
  BY <1>1, NoFileOK DEF Noticed, IsReading
<1>3. /\ texts' \in Seq(Held) /\ Len(texts') <= Len(ToRead) /\ statted' \in 0 .. stamps'
      /\ ReadsAreCurrent' /\ BetweenPasses'
  BY <1>1, <1>2, TakeOK DEF Forget, onDisk
<1>4. cache' = [cache EXCEPT ![Current] = NoFile] /\ raced' = raced \ {Current}
  BY DEF Forget
<1>5. PassTypeOK'
  BY <1>1, <1>3, <1>4, NoFileOK DEF PassTypeOK, onDisk, asking
<1>6. \A p \in Paths : cache'[p] = IF p = Current THEN NoFile ELSE cache[p]
  BY <1>4 DEF PassTypeOK
<1>7. AllStamped' /\ SetAside' /\ Noticed'
  BY <1>6, NoFileOK DEF AllStamped, Stamped, SetAside, Noticed, onDisk
<1>8. CachedFor'
  BY <1>4, <1>6, NoFileOK DEF CachedFor, onDisk
<1> QED
  BY <1>3, <1>5, <1>7, <1>8

LEMMA HitOK ==
  ASSUME PassInv, Hit
  PROVE  PassInv'
<1> USE DEF PassInv
<1>1. /\ Current \in Paths /\ IsReading /\ cache[Current].stamp = disk[Current].stamp
      /\ disk[Current] # NoFile /\ Take(cache[Current].text)
      /\ UNCHANGED <<onDisk, pc, asking, cache, past>>
  BY CurrentOK DEF Hit, Same
<1>2. cache[Current].text \in Held
  BY <1>1 DEF PassTypeOK, Versions
<1>3. disk[Current].stamp # 0 /\ disk[Current].text \in during[Current]
  BY <1>1 DEF AllStamped, Stamped, Noticed, IsReading
<1>4. Current \in fooled \/ cache[Current].text \in during[Current]
  <2>1. Current \notin fooled => Current \notin raced
    BY <1>1 DEF CachedFor
  <2> QED
    BY <1>1, <1>3, <2>1 DEF CachedFor
<1>5. /\ texts' \in Seq(Held) /\ Len(texts') <= Len(ToRead) /\ statted' \in 0 .. stamps'
      /\ ReadsAreCurrent' /\ BetweenPasses'
  BY <1>1, <1>2, <1>4, TakeOK DEF onDisk, past
<1>6. PassTypeOK'
  BY <1>1, <1>5 DEF PassTypeOK, onDisk, asking, past
<1>7. AllStamped' /\ SetAside' /\ Noticed' /\ CachedFor'
  BY <1>1 DEF AllStamped, Stamped, SetAside, Noticed, CachedFor, onDisk, past
<1> QED
  BY <1>5, <1>6, <1>7

LEMMA MissOK ==
  ASSUME PassInv, Miss
  PROVE  PassInv'
<1> USE DEF PassInv
<1>1. /\ Current \in Paths /\ IsReading /\ statted' = disk[Current].stamp
      /\ UNCHANGED <<onDisk, pc, asking, texts, cache, past>>
  BY CurrentOK DEF Miss
<1>2. statted' \in 0 .. stamps'
  BY <1>1 DEF PassTypeOK, AllStamped, Stamped, Versions, onDisk
<1>3. PassTypeOK'
  BY <1>1, <1>2 DEF PassTypeOK, onDisk, asking, past
<1>4. AllStamped' /\ SetAside' /\ Noticed' /\ CachedFor'
  BY <1>1 DEF AllStamped, Stamped, SetAside, Noticed, CachedFor, onDisk, past
<1>5. BetweenPasses' /\ ReadsAreCurrent'
  BY <1>1 DEF BetweenPasses, ReadsAreCurrent, IsReading, past
<1> QED
  BY <1>3, <1>4, <1>5

(* The text is read after the stamp was looked at: when that is the stamp   *)
(* no longer, the path is raced.                                           *)
LEMMA ReadOK ==
  ASSUME PassInv, Read
  PROVE  PassInv'
<1> USE DEF PassInv
<1> DEFINE file == disk[Current]
           entry == [stamp |-> statted, text |-> file.text]
<1>1. /\ Current \in Paths /\ IsReading /\ statted # 0 /\ file # NoFile
      /\ Take(file.text) /\ cache' = [cache EXCEPT ![Current] = entry]
      /\ raced' = IF statted = file.stamp THEN raced \ {Current} ELSE raced \cup {Current}
      /\ UNCHANGED <<onDisk, pc, asking, during, fooled>>
  BY CurrentOK DEF Read
<1>2. file \in Versions /\ file.text \in Held /\ file.text \in during[Current]
  BY <1>1 DEF PassTypeOK, Versions, Noticed, IsReading
<1>3. entry \in Versions /\ statted \in Nat /\ statted <= stamps
  BY <1>2 DEF PassTypeOK, Versions
<1>4. /\ texts' \in Seq(Held) /\ Len(texts') <= Len(ToRead) /\ statted' \in 0 .. stamps'
      /\ ReadsAreCurrent' /\ BetweenPasses'
  BY <1>1, <1>2, TakeOK DEF onDisk
<1>5. PassTypeOK'
  BY <1>1, <1>3, <1>4 DEF PassTypeOK, onDisk, asking
<1>6. \A p \in Paths : cache'[p] = IF p = Current THEN entry ELSE cache[p]
  BY <1>1 DEF PassTypeOK
<1>7. AllStamped' /\ SetAside' /\ Noticed'
  BY <1>1, <1>3, <1>6 DEF AllStamped, Stamped, SetAside, Noticed, onDisk
<1>8. CachedFor'
  <2> SUFFICES ASSUME NEW p \in Paths \ fooled
               PROVE  /\ p \in raced' => cache'[p].stamp # disk[p].stamp /\ cache'[p].stamp # 0
                      /\ p \notin raced' =>
                           \A v \in {disk[p], aside[p]} :
                             cache'[p].stamp = v.stamp /\ v.stamp # 0 => cache'[p].text = v.text
    BY <1>1 DEF CachedFor, onDisk
  <2>1. CASE p # Current
    BY <2>1, <1>1, <1>6 DEF CachedFor
  <2>2. CASE p = Current
    <3>1. cache'[p].stamp = statted /\ cache'[p].text = file.text
      BY <2>2, <1>6
    <3>2. CASE statted = file.stamp
      BY <2>2, <3>1, <3>2, <1>1 DEF SetAside
    <3>3. CASE statted # file.stamp
      BY <2>2, <3>1, <3>3, <1>1
    <3> QED
      BY <3>2, <3>3
  <2> QED
    BY <2>1, <2>2
<1> QED
  BY <1>4, <1>5, <1>7, <1>8

(* A file changes: what it now holds is what it has held in the pass too.   *)
(* What is new has a new stamp, and what fooled the cache is set down.      *)
Turns(p, file, old) ==
  /\ Becomes(p, file) /\ aside' = [aside EXCEPT ![p] = old]
  /\ stamps' \in {stamps, stamps + 1} /\ fooled' \in {fooled, fooled \cup {p}}
  /\ \A v \in {file, old} : v.stamp <= stamps' /\ (v.stamp = 0 => v = NoFile)
  /\ old.stamp = file.stamp => file.stamp = 0
  /\ p \notin fooled' =>
       /\ \A v \in {file, old} : v.stamp = 0 \/ v.stamp > stamps \/ v \in {disk[p], aside[p]}
       /\ p \in raced => file.stamp = 0 \/ file.stamp > stamps

LEMMA BecomesOK ==
  ASSUME PassInv, NEW p \in Paths, NEW file \in Versions, NEW old \in Versions,
         Turns(p, file, old)
  PROVE  PassInv'
<1> USE DEF PassInv, Turns
<1>1. /\ \A q \in Paths : /\ disk'[q] = IF q = p THEN file ELSE disk[q]
                          /\ aside'[q] = IF q = p THEN old ELSE aside[q]
      /\ cache' = cache /\ raced' = raced /\ pc' = pc /\ texts' = texts /\ statted' = statted
  BY DEF PassTypeOK, Becomes, reading
<1>2. during' \in [Paths -> SUBSET Held] /\ \A q \in Paths : during[q] \subseteq during'[q]
  <2>1. file.text \in Held
    BY DEF Versions
  <2>2. CASE pc = "idle"
    BY <2>2 DEF PassTypeOK, Becomes
  <2>3. CASE pc # "idle"
    <3>1. during' = [during EXCEPT ![p] = @ \cup {file.text}]
      BY <2>3 DEF Becomes
    <3>2. during[p] \cup {file.text} \subseteq Held
      BY <2>1 DEF PassTypeOK
    <3> QED
      BY <3>1, <3>2 DEF PassTypeOK
  <2> QED
    BY <2>2, <2>3
<1>3. stamps \in Nat /\ stamps' \in Nat /\ stamps <= stamps' /\ fooled \subseteq fooled'
  BY DEF PassTypeOK
<1>4. PassTypeOK'
  <2>1. disk' \in [Paths -> Versions] /\ aside' \in [Paths -> Versions] /\ fooled' \subseteq Paths
    BY DEF PassTypeOK, Becomes
  <2>2. statted' \in 0 .. stamps'
    BY <1>1, <1>3 DEF PassTypeOK
  <2> QED
    BY <1>1, <1>2, <1>3, <2>1, <2>2 DEF PassTypeOK, Becomes, asking, reading
<1>5. AllStamped'
  <2> SUFFICES ASSUME NEW q \in Paths
               PROVE  \A v \in {disk'[q], aside'[q], cache[q]} :
                        v.stamp <= stamps' /\ (v.stamp = 0 => v = NoFile)
    BY <1>1 DEF AllStamped, Stamped
  <2>1. \A v \in {disk[q], aside[q], cache[q]} :
          v.stamp \in Nat /\ v.stamp <= stamps /\ (v.stamp = 0 => v = NoFile)
    BY DEF AllStamped, Stamped, PassTypeOK, Versions
  <2>2. \A v \in {disk[q], aside[q], cache[q]} : v.stamp <= stamps'
    BY <2>1, <1>3
  <2> QED
    BY <1>1, <2>1, <2>2
<1>6. BetweenPasses' /\ SetAside'
  BY <1>1 DEF BetweenPasses, SetAside
<1>7. Noticed'
  <2> SUFFICES ASSUME pc # "idle", NEW q \in Paths PROVE disk'[q].text \in during'[q]
    BY <1>1 DEF Noticed
  <2>1. CASE q = p
    BY <2>1, <1>1 DEF Becomes, PassTypeOK
  <2>2. CASE q # p
    BY <2>2, <1>1, <1>2 DEF Noticed
  <2> QED
    BY <2>1, <2>2
<1>8. ReadsAreCurrent'
  <2> SUFFICES ASSUME NEW i \in DOMAIN texts
               PROVE  ToRead[i].path \in fooled' \/ texts[i] \in during'[ToRead[i].path]
    BY <1>1 DEF ReadsAreCurrent
  <2>1. i \in 1 .. Len(ToRead)
    BY LengthOK DEF PassTypeOK
  <2> QED
    BY <2>1, <1>2, <1>3, LengthOK DEF ReadsAreCurrent
<1>9. CachedFor'
  <2> SUFFICES ASSUME NEW q \in Paths \ fooled'
               PROVE  /\ q \in raced => cache[q].stamp # disk'[q].stamp /\ cache[q].stamp # 0
                      /\ q \notin raced =>
                           \A v \in {disk'[q], aside'[q]} :
                             cache[q].stamp = v.stamp /\ v.stamp # 0 => cache[q].text = v.text
    BY <1>1 DEF CachedFor
  <2>1. q \notin fooled
    BY <1>3
  <2>2. CASE q # p
    BY <2>1, <2>2, <1>1 DEF CachedFor
  <2>3. CASE q = p
    <3>1. cache[p].stamp \in Nat /\ cache[p].stamp <= stamps /\ stamps \in Nat
          /\ file.stamp \in Nat /\ old.stamp \in Nat
      BY DEF AllStamped, Stamped, PassTypeOK, Versions
    <3>2. p \in raced => cache[p].stamp # file.stamp /\ cache[p].stamp # 0
      BY <2>1, <2>3, <3>1 DEF CachedFor
    <3>3. ASSUME p \notin raced, NEW v \in {file, old}, cache[p].stamp = v.stamp, v.stamp # 0
          PROVE  cache[p].text = v.text
      <4>1. v \in {disk[p], aside[p]}
        BY <2>3, <3>1, <3>3
      <4> QED
        BY <4>1, <2>1, <2>3, <3>3 DEF CachedFor
    <3> QED
      BY <2>3, <3>2, <3>3, <1>1
  <2> QED
    BY <2>2, <2>3
<1> QED
  BY <1>4, <1>5, <1>6, <1>7, <1>8, <1>9

LEMMA ChangeOK ==
  ASSUME PassInv, NEW p \in Paths, Change(p)
  PROVE  PassInv'
<1> USE DEF PassInv
<1>1. /\ disk[p] \in Versions /\ aside[p] \in Versions /\ stamps \in Nat
      /\ \A v \in {disk[p], aside[p]} : v.stamp \in Nat /\ v.stamp <= stamps
                                        /\ (v.stamp = 0 => v = NoFile)
  BY DEF AllStamped, Stamped, PassTypeOK, Versions
<1>2. CASE Delete(p)
  <2>1. aside' = [aside EXCEPT ![p] = disk[p]] /\ stamps' = stamps /\ fooled' = fooled
        /\ Becomes(p, NoFile) /\ disk[p] # NoFile
    BY <1>2 DEF Delete
  <2> QED
    <3>1. Turns(p, NoFile, disk[p])
      BY <2>1, <1>1, NoFileOK DEF Turns
    <3> QED
      BY <3>1, <1>1, NoFileOK, BecomesOK
<1>3. CASE Restore(p)
  <2>1. aside' = [aside EXCEPT ![p] = disk[p]] /\ stamps' = stamps
        /\ Becomes(p, aside[p]) /\ aside[p] # NoFile
        /\ fooled' = IF p \in raced THEN fooled \cup {p} ELSE fooled
    BY <1>3 DEF Restore
  <2>2. disk[p].stamp # aside[p].stamp
    BY <1>1, <2>1 DEF SetAside
  <2>3. /\ stamps' \in {stamps, stamps + 1} /\ fooled' \in {fooled, fooled \cup {p}}
        /\ p \notin fooled' => p \notin raced
    BY <2>1
  <2>4. \A v \in {aside[p], disk[p]} : v.stamp <= stamps' /\ (v.stamp = 0 => v = NoFile)
    BY <1>1, <2>1
  <2> QED
    <3>1. Turns(p, aside[p], disk[p])
      BY <2>1, <2>2, <2>3, <2>4 DEF Turns
    <3> QED
      BY <3>1, <1>1, BecomesOK
<1>4. ASSUME NEW t \in Texts, Replace(p, t) PROVE PassInv'
  <2> DEFINE file == [stamp |-> stamps + 1, text |-> t]
  <2>1. aside' = [aside EXCEPT ![p] = disk[p]] /\ stamps' = stamps + 1 /\ fooled' = fooled
        /\ Becomes(p, file)
    BY <1>4 DEF Replace
  <2>2. file \in Versions /\ file.stamp = stamps + 1
    BY <1>1 DEF Versions, Held
  <2> HIDE DEF file
  <2> QED
    <3>1. Turns(p, file, disk[p])
      BY <2>1, <2>2, <1>1 DEF Turns
    <3> QED
      BY <3>1, <2>2, <1>1, BecomesOK
<1>5. ASSUME NEW t \in Texts, UnseenEdit(p, t) PROVE PassInv'
  <2> DEFINE file == [disk[p] EXCEPT !.text = t]
  <2>1. aside' = aside /\ stamps' = stamps /\ fooled' = fooled \cup {p}
        /\ Becomes(p, file) /\ disk[p] # NoFile
    BY <1>5 DEF UnseenEdit
  <2>2. file \in Versions /\ file.stamp = disk[p].stamp /\ aside' = [aside EXCEPT ![p] = aside[p]]
    BY <1>1, <2>1 DEF Versions, Held, PassTypeOK
  <2>3. aside[p].stamp # file.stamp /\ file.stamp # 0
    BY <1>1, <2>1, <2>2 DEF SetAside
  <2> HIDE DEF file
  <2>4. /\ stamps' \in {stamps, stamps + 1} /\ fooled' \in {fooled, fooled \cup {p}}
        /\ p \in fooled'
    BY <2>1
  <2>5. \A v \in {file, aside[p]} : v.stamp <= stamps' /\ (v.stamp = 0 => v = NoFile)
    BY <1>1, <2>1, <2>2, <2>3
  <2> QED
    <3>1. Turns(p, file, aside[p])
      BY <2>1, <2>2, <2>3, <2>4, <2>5 DEF Turns
    <3> QED
      BY <3>1, <2>2, <1>1, BecomesOK
<1> QED
  BY <1>2, <1>3, <1>4, <1>5 DEF Change

LEMMA PassStepOK == PassInv /\ [PassNext]_passVars => PassInv'
<1> SUFFICES ASSUME PassInv, [PassNext]_passVars PROVE PassInv'
  OBVIOUS
<1>1. CASE Begin
  BY <1>1, BeginOK
<1>2. CASE AskUnits
  BY <1>2, AskingOK, OverOK DEF AskUnits, AsksOrKnows, UnitsFail, Ends
<1>3. CASE ReadFiles
  BY <1>3, ForgetOK, HitOK, MissOK, ReadOK, OverOK
     DEF ReadFiles, Missing, MissingByNow, Finish, Ends
<1>4. CASE Fault
  BY <1>4, AskingOK, OverOK DEF Fault, AsksOrKnows, Unreadable, Ends
<1>5. CASE \E p \in Paths : Change(p)
  BY <1>5, ChangeOK
<1>6. CASE UNCHANGED passVars
  BY <1>6 DEF passVars, PassInv, PassTypeOK, AllStamped, Stamped, BetweenPasses, Noticed, SetAside,
              CachedFor, ReadsAreCurrent, onDisk, asking, reading, past
<1> QED
  BY <1>1, <1>2, <1>3, <1>4, <1>5, <1>6 DEF PassNext

(* The types of a pass's state, for any units, files and texts. *)
THEOREM PassTypeCorrect == PassSpec => []PassTypeOK
<1>1. PassInv => PassTypeOK
  BY DEF PassInv
<1> QED
  BY <1>1, PassInitOK, PassStepOK, PTL DEF PassSpec

(* Each file's text that a pass goes by is one the file held while it ran,   *)
(* however the file is edited, replaced, deleted and put back around the    *)
(* stat, the read and the cache's entry - but for one whose stamp lied.     *)
THEOREM FilesReadAreCurrent == PassSpec => []ReadsAreCurrent
<1>1. PassInv => ReadsAreCurrent
  BY DEF PassInv
<1> QED
  BY <1>1, PassInitOK, PassStepOK, PTL DEF PassSpec

(* Whatever the files hold, the rules of a unit are those of the            *)
(* assignments that count, the first of each slot, and what it listens on   *)
(* where it may and no rule has the slot: folding the assignments, sifting  *)
(* the terms and collapsing the rules comes to just that.                   *)
THEOREM DeclaredIsForwarded == PassSpec => []ForwardsWhatIsDeclared
<1>1. PassTypeOK => ForwardsWhatIsDeclared
  <2> SUFFICES ASSUME PassTypeOK, AllRead PROVE ForwardsWhatIsDeclared
    BY Zenon DEF ForwardsWhatIsDeclared
  <2>1. ASSUME NEW u \in ListedUnits PROVE Assignments(u) \in Seq(AnAssignment)
    BY AssignmentsOK DEF PassTypeOK, AllRead, Held
  <2>2. ASSUME NEW u \in ListedUnits, NEW cgroups \in BOOLEAN PROVE Forwarded(u, cgroups)
    BY <2>1, ForwardedIs
  <2> QED
    BY <2>2, Zenon DEF ForwardsWhatIsDeclared, Forwarded
<1> QED
  BY <1>1, PassTypeCorrect, PTL

-----------------------------------------------------------------------------
(* UnitEvents. *)

UnitSignals == {Unit(u, s) : u \in Units, s \in States}
ReloadSignals == {Reload(b) : b \in BOOLEAN}
Signals == UnitSignals \cup ReloadSignals

LEMMA Reloads == \A starting \in BOOLEAN : Reload(starting) \in Signals
<1> TAKE starting \in BOOLEAN
<1>1. Reload(starting) \in ReloadSignals
  BY Zenon DEF ReloadSignals
<1> QED
  BY <1>1, Zenon DEF Signals

(* What a stream carries is a sequence of signals after one more is sent... *)
LEMMA Sending ==
  ASSUME signals \in Seq(Signals), missed \in BOOLEAN, NEW signal \in Signals,
         Sends(signal), ~open => signals = <<>>
  PROVE  /\ signals' \in Seq(Signals) /\ missed' \in BOOLEAN
         /\ ~open => signals' = <<>>
<1>1. CASE open
  BY <1>1 DEF Sends
<1>2. CASE ~open
  BY <1>2 DEF Sends
<1> QED
  BY <1>1, <1>2

(* ... and after the first has been heard.                                 *)
LEMMA Hearing ==
  ASSUME signals \in Seq(Signals), NEW signal, Hears(signal)
  PROVE  signals' \in Seq(Signals) /\ open
  BY DEF Hears

(* Systemd's part, the stream's and the passes', as TypeOK has them. *)
SystemdOK ==
  /\ state \in [Units -> States] /\ files \in [Units -> {0, 1}] /\ target \in {0, 1}
  /\ reloading \in BOOLEAN
  /\ ~reloading => \A u \in Units : files[u] = target

StreamOK ==
  /\ open \in BOOLEAN /\ holding \in BOOLEAN
  /\ signals \in Seq(Signals)
  /\ heard \in [Units -> States \cup {Unheard}]
  /\ missed \in BOOLEAN /\ blurred \subseteq Units
  /\ ~open => signals = <<>>

PassOK ==
  /\ asked \in BOOLEAN /\ listed.units \subseteq Units
  /\ DOMAIN read \subseteq Units /\ declaring \subseteq Declares
  /\ forwarded \subseteq declaring

LEMMA TheParts == SystemdOK /\ StreamOK /\ PassOK => TypeOK
  BY UnitAssumption DEF SystemdOK, StreamOK, PassOK, TypeOK, Signals, UnitSignals,
                          ReloadSignals

LEMMA InitOK == Init => SystemdOK /\ StreamOK /\ PassOK
<1> SUFFICES ASSUME Init PROVE SystemdOK /\ StreamOK /\ PassOK
  OBVIOUS
<1>1. SystemdOK
  BY DEF Init, SystemdOK
<1>2. StreamOK
  <2>1. signals = <<>> /\ signals \in Seq(Signals)
    BY DEF Init
  <2>2. heard \in [Units -> States \cup {Unheard}]
    BY DEF Init
  <2>3. open \in BOOLEAN /\ holding \in BOOLEAN /\ missed \in BOOLEAN /\ blurred \subseteq Units
    BY Zenon DEF Init
  <2> QED
    BY <2>1, <2>2, <2>3 DEF StreamOK
<1>3. PassOK
  BY DEF Init, PassOK, NoPass
<1> QED
  BY <1>1, <1>2, <1>3

(* Systemd's own steps ... *)
LEMMA SystemdSteps ==
  ASSUME SystemdOK, StreamOK, PassOK, Systemd
  PROVE  SystemdOK' /\ StreamOK' /\ PassOK'
<1> USE DEF SystemdOK
<1>1. CASE ReloadStarts
  <2>1. Reload(TRUE) \in Signals
    BY Reloads, Zenon
  <2>2. SystemdOK'
    BY <1>1 DEF ReloadStarts
  <2>3. StreamOK'
    BY <1>1, <2>1, Sending DEF ReloadStarts, StreamOK
  <2> QED
    BY <1>1, <2>2, <2>3 DEF ReloadStarts, pass, PassOK
<1>2. CASE ReloadEnds
  <2>1. Reload(FALSE) \in Signals
    BY Reloads, Zenon
  <2>2. SystemdOK'
    BY <1>2 DEF ReloadEnds
  <2>3. StreamOK'
    BY <1>2, <2>1, Sending DEF ReloadEnds, StreamOK
  <2> QED
    BY <1>2, <2>2, <2>3 DEF ReloadEnds, pass, PassOK
<1>3. ASSUME NEW u \in Units, Move(u)
      PROVE  SystemdOK' /\ StreamOK' /\ PassOK'
  <2>1. state' \in [Units -> States]
    BY <1>3 DEF Move
  <2>2. Unit(u, state'[u]) \in Signals
    BY <2>1 DEF Signals, UnitSignals
  <2>3. StreamOK'
    BY <1>3, <2>2, Sending DEF Move, StreamOK
  <2> QED
    BY <1>3, <2>1, <2>3 DEF Move, pass, PassOK
<1>4. ASSUME NEW u \in Units, Repeat(u)
      PROVE  SystemdOK' /\ StreamOK' /\ PassOK'
  <2>1. Unit(u, state[u]) \in Signals
    BY DEF Signals, UnitSignals
  <2>2. StreamOK'
    BY <1>4, <2>1, Sending DEF Repeat, StreamOK
  <2> QED
    BY <1>4, <2>2 DEF Repeat, systemd, pass, PassOK
<1>5. ASSUME NEW u \in Units, ReloadsUnit(u)
      PROVE  SystemdOK' /\ StreamOK' /\ PassOK'
  BY <1>5 DEF ReloadsUnit, stream, pass, history, StreamOK, PassOK
<1> QED
  BY <1>1, <1>2, <1>3, <1>4, <1>5 DEF Systemd

(* ... the stream's ... *)
LEMMA StreamSteps ==
  ASSUME SystemdOK, StreamOK, PassOK, WatchOpens \/ WatchEnds \/ Hear
  PROVE  SystemdOK' /\ StreamOK' /\ PassOK'
<1> USE DEF StreamOK
<1>1. CASE WatchOpens
  BY <1>1 DEF WatchOpens, systemd, pass, SystemdOK, PassOK
<1>2. CASE WatchEnds
  <2>1. missed' \in BOOLEAN
    BY <1>2, Zenon DEF WatchEnds
  <2>2. signals' = <<>> /\ signals' \in Seq(Signals) /\ open' = FALSE
    BY <1>2 DEF WatchEnds
  <2> QED
    BY <1>2, <2>1, <2>2 DEF WatchEnds, systemd, pass, SystemdOK, PassOK
<1>3. ASSUME NEW starting \in BOOLEAN, HearReload(starting)
      PROVE  SystemdOK' /\ StreamOK' /\ PassOK'
  <2>1. signals' \in Seq(Signals) /\ open
    BY <1>3, Hearing DEF HearReload
  <2> QED
    BY <1>3, <2>1 DEF HearReload, Asks, systemd, history, SystemdOK, PassOK
<1>4. ASSUME NEW u \in Units, NEW s \in States, HearWhileHolding(u, s)
      PROVE  SystemdOK' /\ StreamOK' /\ PassOK'
  <2>1. signals' \in Seq(Signals) /\ open
    BY <1>4, Hearing DEF HearWhileHolding
  <2> QED
    BY <1>4, <2>1 DEF HearWhileHolding, systemd, pass, SystemdOK, PassOK
<1>5. ASSUME NEW u \in Units, NEW s \in States, HearAgain(u, s)
      PROVE  SystemdOK' /\ StreamOK' /\ PassOK'
  <2>1. signals' \in Seq(Signals) /\ open
    BY <1>5, Hearing DEF HearAgain
  <2> QED
    BY <1>5, <2>1 DEF HearAgain, systemd, pass, history, SystemdOK, PassOK
<1>6. ASSUME NEW u \in Units, NEW s \in States, HearMove(u, s)
      PROVE  SystemdOK' /\ StreamOK' /\ PassOK'
  <2>1. signals' \in Seq(Signals) /\ open
    BY <1>6, Hearing DEF HearMove
  <2> QED
    BY <1>6, <2>1 DEF HearMove, Asks, Worth, systemd, SystemdOK, PassOK
<1> QED
  BY <1>1, <1>2, <1>3, <1>4, <1>5, <1>6 DEF Hear

(* ... and the passes'. *)
LEMMA PassSteps ==
  ASSUME SystemdOK, StreamOK, PassOK, Tick \/ PassLists \/ PassReads \/ PassFails
  PROVE  SystemdOK' /\ StreamOK' /\ PassOK'
<1> USE DEF PassOK, systemd, stream, SystemdOK, StreamOK
<1>1. CASE Tick
  BY <1>1 DEF Tick, Asks, history
<1>2. CASE PassLists
  BY <1>2 DEF PassLists, Running
<1>3. CASE PassReads
  BY <1>3, UnitAssumption DEF PassReads, Declare, NoPass
<1>4. CASE PassFails
  BY <1>4, UnitAssumption DEF PassFails, Declare, NoPass
<1> QED
  BY <1>1, <1>2, <1>3, <1>4

LEMMA Invariance == Spec => [](SystemdOK /\ StreamOK /\ PassOK)
<1>1. SystemdOK /\ StreamOK /\ PassOK /\ UNCHANGED vars
        => SystemdOK' /\ StreamOK' /\ PassOK'
  BY DEF vars, systemd, stream, pass, history, SystemdOK, StreamOK, PassOK
<1>2. SystemdOK /\ StreamOK /\ PassOK /\ [Next]_vars
        => SystemdOK' /\ StreamOK' /\ PassOK'
  BY <1>1, SystemdSteps, StreamSteps, PassSteps DEF Next
<1> QED
  BY <1>2, InitOK, PTL DEF Spec

(* Every variable keeps its type, only an open stream carries signals, and *)
(* outside a reload every unit's files are as they were last loaded.       *)
THEOREM TypeCorrect == Spec => []TypeOK
  BY Invariance, TheParts, PTL

(* The stop of a unit whose forwards some pass had in its answer is logged, *)
(* since declaring never forgets a unit that was forwarded.                *)
THEOREM EveryStopIsLogged == Spec => StopsAreLogged
<1>1. PassOK => \A u \in forwarded : open /\ heard[u] \notin {"inactive", Unheard}
                                      /\ heard'[u] = "inactive" => Logs(u, "inactive")
  BY DEF PassOK, Logs, settled
<1> QED
  BY <1>1, Invariance, PTL DEF StopsAreLogged

-----------------------------------------------------------------------------
(* What a settled source knows. Each thing that can still set it right is   *)
(* on its way: the news of a unit whose state is not the one the last pass  *)
(* went by, and the end of a reload whose files no pass has read.          *)

Says(i, u, s) == i \in DOMAIN signals /\ signals[i] = Unit(u, s)

(* A signal that Events will take for a move. *)
News(u) == \E i \in DOMAIN signals : \E s \in States \ {heard[u]} : Says(i, u, s)

(* Whether the pass under way, or the last there was, has the unit running. *)
Known(u) == IF listed.busy THEN u \in listed.units ELSE u \in DOMAIN read

(* What the bus says last of a unit is how it is. *)
LastWord ==
  \A i \in DOMAIN signals, u \in Units, s \in States :
    Says(i, u, s) /\ s # state[u] => \E j \in DOMAIN signals : j > i /\ Says(j, u, state[u])

HeardOrSaid ==
  \A u \in Units :
    open /\ u \notin blurred /\ heard[u] # Unheard /\ heard[u] # state[u] => News(u)

ListedOrSaid ==
  \A u \in Units :
    ~missed /\ ~asked /\ (open => u \notin blurred) /\ ~(u \in Running <=> Known(u)) => News(u)

ReadOrSaid ==
  ~missed /\ ~asked /\ ~reloading /\ ~listed.busy =>
    \/ \E i \in DOMAIN signals : signals[i] = Reload(FALSE)
    \/ \A u \in DOMAIN read : read[u] = files[u]

OK == SystemdOK /\ StreamOK /\ PassOK

LEMMA Distinct ==
  /\ \A u, v, s, t : Unit(u, s) = Unit(v, t) => u = v /\ s = t
  /\ \A u, s, b : Unit(u, s) # Reload(b)
<1>1. \A u, v, s, t : Unit(u, s) = Unit(v, t) => u = v /\ s = t
  <2> TAKE u, v, s, t
  <2> HAVE Unit(u, s) = Unit(v, t)
  <2>1. Unit(u, s).unit = u /\ Unit(v, t).unit = v /\ Unit(u, s).state = s /\ Unit(v, t).state = t
    BY DEF Unit
  <2> QED
    BY <2>1
<1>2. \A u, s, b : Unit(u, s) # Reload(b)
  <2> TAKE u, s, b
  <2>1. "unit" \in DOMAIN Unit(u, s) /\ "unit" \notin DOMAIN Reload(b)
    BY DEF Unit, Reload
  <2> QED
    BY <2>1
<1> QED
  BY <1>1, <1>2

(* The places of what is still to be heard when one more is sent ... *)
LEMMA Sent ==
  ASSUME signals \in Seq(Signals), NEW signal \in Signals, open, Sends(signal)
  PROVE  /\ DOMAIN signals' = DOMAIN signals \cup {Len(signals) + 1}
         /\ \A i \in DOMAIN signals : signals'[i] = signals[i] /\ Len(signals) + 1 > i
         /\ signals'[Len(signals) + 1] = signal
         /\ missed' = missed
<1>1. signals' = Append(signals, signal) /\ missed' = missed
  BY DEF Sends
<1> QED
  BY <1>1

(* ... and when the first has been heard. *)
LEMMA FirstHeard ==
  ASSUME signals \in Seq(Signals), NEW signal, Hears(signal)
  PROVE  /\ 1 \in DOMAIN signals /\ signals[1] = signal
         /\ \A i \in DOMAIN signals' : i + 1 \in DOMAIN signals /\ signals'[i] = signals[i + 1]
         /\ \A i \in DOMAIN signals :
              i \in Nat /\ (i # 1 => i - 1 \in DOMAIN signals' /\ signals'[i - 1] = signals[i])
         /\ DOMAIN signals' \subseteq Nat
<1>1. signals # <<>> /\ signals' = Tail(signals) /\ Head(signals) = signal
  BY DEF Hears
<1>2. Len(signals) \in Nat \ {0}
  BY <1>1
<1>3. Len(signals') = Len(signals) - 1 /\ DOMAIN signals' = 1 .. (Len(signals) - 1)
  BY <1>1, <1>2
<1>4. \A i \in DOMAIN signals' : signals'[i] = signals[i + 1]
  BY <1>1, <1>2, <1>3
<1> QED
  BY <1>1, <1>2, <1>3, <1>4

(* Systemd's steps, but for the loading of files, are a signal each: it is  *)
(* the state a unit has now, and a unit whose state changes has one.        *)
SaysSo(signal) ==
  /\ Sends(signal) /\ state' \in [Units -> States]
  /\ \A u \in Units : state'[u] = state[u] \/ signal = Unit(u, state'[u])
  /\ \A u \in Units, s \in States : signal = Unit(u, s) => s = state'[u]
  /\ ~reloading' => ~reloading \/ signal = Reload(FALSE)
  /\ UNCHANGED <<files, open, heard, pass, blurred>>

LEMMA SystemdSays ==
  ASSUME OK, Systemd
  PROVE  \/ \E signal \in Signals : SaysSo(signal)
         \/ reloading /\ UNCHANGED <<state, reloading, stream, pass, history>>
<1> USE DEF OK, SystemdOK
<1>1. CASE ReloadStarts
  <2>1. SaysSo(Reload(TRUE))
    BY <1>1, Distinct DEF ReloadStarts, SaysSo
  <2> QED
    BY <2>1, Reloads, Zenon
<1>2. CASE ReloadEnds
  <2>1. SaysSo(Reload(FALSE))
    BY <1>2, Distinct DEF ReloadEnds, SaysSo
  <2> QED
    BY <2>1, Reloads, Zenon
<1>3. ASSUME NEW u \in Units, Move(u)
      PROVE  \E signal \in Signals : SaysSo(signal)
  <2>1. PICK s \in States : state' = [state EXCEPT ![u] = s]
    BY <1>3 DEF Move
  <2>2. state'[u] = s /\ \A v \in Units : v # u => state'[v] = state[v]
    BY <2>1
  <2>3. /\ Sends(Unit(u, s)) /\ state' \in [Units -> States]
        /\ UNCHANGED <<files, reloading, open, heard, pass, blurred>>
    BY <1>3, <2>1, <2>2 DEF Move
  <2>4. \A v \in Units, t \in States : Unit(u, s) = Unit(v, t) => t = state'[v]
    BY <2>2, Distinct
  <2>5. SaysSo(Unit(u, s))
    BY <2>2, <2>3, <2>4 DEF SaysSo
  <2> QED
    BY <2>5 DEF Signals, UnitSignals
<1>4. ASSUME NEW u \in Units, Repeat(u)
      PROVE  \E signal \in Signals : SaysSo(signal)
  <2>1. SaysSo(Unit(u, state[u]))
    BY <1>4, Distinct DEF Repeat, SaysSo, systemd
  <2> QED
    BY <2>1 DEF Signals, UnitSignals
<1>5. ASSUME NEW u \in Units, ReloadsUnit(u)
      PROVE  reloading /\ UNCHANGED <<state, reloading, stream, pass, history>>
  BY <1>5 DEF ReloadsUnit
<1> QED
  BY <1>1, <1>2, <1>3, <1>4, <1>5 DEF Systemd

(* What Events makes of a signal, for each unit: it is the unit's news, or  *)
(* the unit is blurred, or it says nothing that was not heard.              *)
MakesOf(signal, u) ==
  \/ signal = Unit(u, heard'[u]) /\ asked'
  \/ u \in blurred' /\ heard'[u] = heard[u]
  \/ /\ u \notin blurred /\ heard'[u] = heard[u]
     /\ \A s \in States : signal = Unit(u, s) => s = heard[u]

HearsIt(signal) ==
  /\ Hears(signal)
  /\ \A u \in Units : MakesOf(signal, u)
  /\ heard' \in [Units -> States \cup {Unheard}]
  /\ asked => asked'
  /\ signal = Reload(FALSE) => asked'
  /\ UNCHANGED <<systemd, open, listed, read, missed>>

LEMMA HearingIs ==
  ASSUME OK, Hear
  PROVE  \E signal \in Signals : HearsIt(signal)
<1> USE DEF OK, StreamOK, PassOK
<1>1. ASSUME NEW starting \in BOOLEAN, HearReload(starting)
      PROVE  \E signal \in Signals : HearsIt(signal)
  <2>1. \A u \in Units : MakesOf(Reload(starting), u)
    BY <1>1, Distinct DEF HearReload, MakesOf, history
  <2>2. Reload(starting) = Reload(FALSE) => starting = FALSE
    <3>1. Reload(starting).reload = starting /\ Reload(FALSE).reload = FALSE
      BY DEF Reload
    <3> QED
      BY <3>1
  <2>3. HearsIt(Reload(starting))
    BY <1>1, <2>1, <2>2 DEF HearReload, HearsIt, Asks, history
  <2> QED
    BY <2>3, Reloads, Zenon
<1>2. ASSUME NEW u \in Units, NEW s \in States, HearWhileHolding(u, s)
      PROVE  HearsIt(Unit(u, s))
  <2>1. \A v \in Units : MakesOf(Unit(u, s), v)
    BY <1>2, Distinct DEF HearWhileHolding, MakesOf
  <2> QED
    BY <1>2, <2>1, Distinct DEF HearWhileHolding, HearsIt, pass
<1>3. ASSUME NEW u \in Units, NEW s \in States, HearAgain(u, s)
      PROVE  HearsIt(Unit(u, s))
  <2>1. \A v \in Units : MakesOf(Unit(u, s), v)
    BY <1>3, Distinct DEF HearAgain, MakesOf, history
  <2> QED
    BY <1>3, <2>1, Distinct DEF HearAgain, HearsIt, pass, history
<1>4. ASSUME NEW u \in Units, NEW s \in States, HearMove(u, s)
      PROVE  HearsIt(Unit(u, s))
  <2>1. \A v \in Units : MakesOf(Unit(u, s), v)
    <3> TAKE v \in Units
    <3>1. CASE v = u
      BY <1>4, <3>1 DEF HearMove, MakesOf, Asks, Worth
    <3>2. CASE v # u
      BY <1>4, <3>2, Distinct DEF HearMove, MakesOf
    <3> QED
      BY <3>1, <3>2
  <2> QED
    BY <1>4, <2>1, Distinct DEF HearMove, HearsIt, Asks, Worth
<1>5. \A u \in Units, s \in States : Unit(u, s) \in Signals
  BY DEF Signals, UnitSignals
<1> QED
  BY <1>1, <1>2, <1>3, <1>4, <1>5 DEF Hear

LEMMA LastWordStep ==
  ASSUME OK, LastWord, [Next]_vars
  PROVE  LastWord'
<1> USE DEF OK, StreamOK
<1>1. ASSUME NEW signal \in Signals, SaysSo(signal)
      PROVE  LastWord'
  <2>1. CASE ~open
    <3>1. signals' = <<>>
      BY <1>1, <2>1 DEF SaysSo, Sends
    <3> QED
      BY <3>1 DEF LastWord
  <2>2. CASE open
    <3>1. /\ DOMAIN signals' = DOMAIN signals \cup {Len(signals) + 1}
          /\ \A i \in DOMAIN signals : signals'[i] = signals[i] /\ Len(signals) + 1 > i
          /\ signals'[Len(signals) + 1] = signal
      BY <1>1, <2>2, Sent DEF SaysSo
    <3> SUFFICES ASSUME NEW i \in DOMAIN signals', NEW u \in Units, NEW s \in States,
                        Says(i, u, s)', s # state'[u]
                 PROVE  \E j \in DOMAIN signals' : j > i /\ Says(j, u, state[u])'
      BY DEF LastWord
    <3>2. i \in DOMAIN signals
      BY <1>1, <3>1 DEF SaysSo, Says
    <3>3. CASE signal = Unit(u, state'[u])
      BY <3>1, <3>2, <3>3 DEF Says
    <3>4. CASE state'[u] = state[u]
      <4>1. Says(i, u, s)
        BY <3>1, <3>2 DEF Says
      <4>2. PICK j \in DOMAIN signals : j > i /\ Says(j, u, state[u])
        BY <3>2, <3>4, <4>1 DEF LastWord
      <4> QED
        BY <3>1, <3>4, <4>2 DEF Says
    <3> QED
      BY <1>1, <3>3, <3>4 DEF SaysSo
  <2> QED
    BY <2>1, <2>2
<1>2. ASSUME NEW signal \in Signals, Hears(signal), state' = state
      PROVE  LastWord'
  <2>1. /\ \A i \in DOMAIN signals' : i + 1 \in DOMAIN signals /\ signals'[i] = signals[i + 1]
        /\ \A i \in DOMAIN signals :
             i \in Nat /\ (i # 1 => i - 1 \in DOMAIN signals' /\ signals'[i - 1] = signals[i])
        /\ DOMAIN signals' \subseteq Nat
    BY <1>2, FirstHeard
  <2> SUFFICES ASSUME NEW i \in DOMAIN signals', NEW u \in Units, NEW s \in States,
                      Says(i, u, s)', s # state[u]
               PROVE  \E j \in DOMAIN signals' : j > i /\ Says(j, u, state[u])'
    BY <1>2 DEF LastWord
  <2>2. Says(i + 1, u, s)
    BY <2>1 DEF Says
  <2>3. PICK j \in DOMAIN signals : j > i + 1 /\ Says(j, u, state[u])
    BY <2>1, <2>2 DEF LastWord
  <2>4. j - 1 \in DOMAIN signals' /\ j - 1 > i /\ signals'[j - 1] = signals[j]
    BY <2>1, <2>3
  <2> QED
    BY <1>2, <2>3, <2>4 DEF Says
<1>3. CASE signals' = signals /\ state' = state
  BY <1>3 DEF LastWord, Says
<1>4. CASE signals' = <<>>
  BY <1>4 DEF LastWord
<1>5. CASE Systemd
  BY <1>1, <1>3, <1>5, SystemdSays DEF stream
<1>6. CASE Hear
  BY <1>2, <1>6, HearingIs DEF HearsIt, systemd
<1>7. CASE WatchOpens \/ Tick \/ PassLists \/ PassReads \/ PassFails \/ UNCHANGED vars
  BY <1>3, <1>7 DEF WatchOpens, Tick, PassLists, PassReads, PassFails, vars, systemd, stream
<1>8. CASE WatchEnds
  BY <1>4, <1>8 DEF WatchEnds
<1> QED
  BY <1>5, <1>6, <1>7, <1>8 DEF Next

LEMMA HeardStep ==
  ASSUME OK, LastWord, HeardOrSaid, [Next]_vars
  PROVE  HeardOrSaid'
<1> USE DEF OK, StreamOK
<1>1. ASSUME NEW signal \in Signals, SaysSo(signal)
      PROVE  HeardOrSaid'
  <2> SUFFICES ASSUME NEW u \in Units, open', u \notin blurred', heard'[u] # Unheard,
                      heard'[u] # state'[u]
               PROVE  News(u)'
    BY DEF HeardOrSaid
  <2>1. open /\ heard' = heard /\ u \notin blurred /\ state'[u] \in States
    BY <1>1 DEF SaysSo
  <2>2. /\ DOMAIN signals' = DOMAIN signals \cup {Len(signals) + 1}
        /\ \A i \in DOMAIN signals : signals'[i] = signals[i]
        /\ signals'[Len(signals) + 1] = signal
    BY <1>1, <2>1, Sent DEF SaysSo
  <2>3. CASE signal = Unit(u, state'[u])
    BY <2>1, <2>2, <2>3 DEF News, Says
  <2>4. CASE state'[u] = state[u]
    <3>1. News(u)
      BY <2>1, <2>4 DEF HeardOrSaid
    <3> QED
      BY <2>1, <2>2, <3>1 DEF News, Says
  <2> QED
    BY <1>1, <2>3, <2>4 DEF SaysSo
<1>2. ASSUME NEW signal \in Signals, HearsIt(signal)
      PROVE  HeardOrSaid'
  <2> SUFFICES ASSUME NEW u \in Units, open', u \notin blurred', heard'[u] # Unheard,
                      heard'[u] # state[u]
               PROVE  News(u)'
    BY <1>2 DEF HeardOrSaid, HearsIt, systemd
  <2>1. /\ 1 \in DOMAIN signals /\ signals[1] = signal
        /\ \A i \in DOMAIN signals :
             i \in Nat /\ (i # 1 => i - 1 \in DOMAIN signals' /\ signals'[i - 1] = signals[i])
    BY <1>2, FirstHeard DEF HearsIt
  <2>2. CASE signal = Unit(u, heard'[u])
    <3>1. heard'[u] \in States
      BY <1>2, UnitAssumption DEF HearsIt
    <3>2. PICK j \in DOMAIN signals : j > 1 /\ Says(j, u, state[u])
      BY <2>1, <2>2, <3>1 DEF LastWord, Says
    <3> QED
      BY <2>1, <3>2 DEF News, Says, SystemdOK
  <2>3. CASE /\ u \notin blurred /\ heard'[u] = heard[u]
             /\ \A s \in States : signal = Unit(u, s) => s = heard[u]
    <3>1. News(u)
      BY <1>2, <2>3 DEF HeardOrSaid, HearsIt
    <3>2. PICK i \in DOMAIN signals, s \in States \ {heard[u]} : Says(i, u, s)
      BY <3>1 DEF News
    <3>3. i # 1
      BY <2>1, <2>3, <3>2 DEF Says
    <3> QED
      BY <2>1, <2>3, <3>2, <3>3 DEF News, Says
  <2> QED
    BY <1>2, <2>2, <2>3 DEF HearsIt, MakesOf
<1>3. CASE UNCHANGED <<state, signals, open, heard, blurred>>
  BY <1>3 DEF HeardOrSaid, News, Says
<1>4. CASE WatchOpens
  BY <1>4 DEF WatchOpens, HeardOrSaid
<1>5. CASE WatchEnds
  BY <1>5 DEF WatchEnds, HeardOrSaid
<1>6. CASE Systemd
  BY <1>1, <1>3, <1>6, SystemdSays DEF stream, history
<1>7. CASE Hear
  BY <1>2, <1>7, HearingIs
<1>8. CASE Tick \/ PassLists \/ PassReads \/ PassFails \/ UNCHANGED vars
  BY <1>3, <1>8 DEF Tick, PassLists, PassReads, PassFails, vars, systemd, stream, history
<1> QED
  BY <1>4, <1>5, <1>6, <1>7, <1>8 DEF Next

LEMMA ListedStep ==
  ASSUME OK, HeardOrSaid, ListedOrSaid, [Next]_vars
  PROVE  ListedOrSaid'
<1> USE DEF OK, StreamOK, PassOK
<1>1. ASSUME NEW signal \in Signals, SaysSo(signal)
      PROVE  ListedOrSaid'
  <2> SUFFICES ASSUME NEW u \in Units, ~missed', ~asked', open' => u \notin blurred',
                      ~(u \in Running <=> Known(u))'
               PROVE  News(u)'
    BY DEF ListedOrSaid
  <2>1. /\ open /\ u \notin blurred /\ ~missed /\ ~asked /\ heard' = heard
        /\ Known(u)' = Known(u) /\ state'[u] \in States
    BY <1>1 DEF SaysSo, Sends, pass, Known
  <2>2. /\ DOMAIN signals' = DOMAIN signals \cup {Len(signals) + 1}
        /\ \A i \in DOMAIN signals : signals'[i] = signals[i]
        /\ signals'[Len(signals) + 1] = signal
    BY <1>1, <2>1, Sent DEF SaysSo
  <2>3. News(u) => News(u)'
    BY <2>1, <2>2 DEF News, Says
  <2>4. CASE state'[u] = state[u]
    BY <2>1, <2>3, <2>4 DEF ListedOrSaid, Running
  <2>5. CASE signal = Unit(u, state'[u]) /\ state'[u] # heard[u]
    BY <2>1, <2>2, <2>5 DEF News, Says
  <2>6. CASE state'[u] # state[u] /\ state'[u] = heard[u]
    <3>1. News(u)
      BY <2>1, <2>6, UnitAssumption DEF HeardOrSaid
    <3> QED
      BY <2>3, <3>1
  <2> QED
    BY <1>1, <2>4, <2>5, <2>6 DEF SaysSo
<1>2. ASSUME NEW signal \in Signals, HearsIt(signal)
      PROVE  ListedOrSaid'
  <2> SUFFICES ASSUME NEW u \in Units, ~missed', ~asked', open' => u \notin blurred',
                      ~(u \in Running <=> Known(u))'
               PROVE  News(u)'
    BY DEF ListedOrSaid
  <2>1. /\ 1 \in DOMAIN signals /\ signals[1] = signal
        /\ \A i \in DOMAIN signals :
             i \in Nat /\ (i # 1 => i - 1 \in DOMAIN signals' /\ signals'[i - 1] = signals[i])
    BY <1>2, FirstHeard DEF HearsIt
  <2>2. /\ open' /\ u \notin blurred /\ heard'[u] = heard[u]
        /\ \A s \in States : signal = Unit(u, s) => s = heard[u]
    BY <1>2 DEF HearsIt, MakesOf, Hears
  <2>3. News(u)
    BY <1>2, <2>2 DEF HearsIt, ListedOrSaid, Known, Running, systemd
  <2>4. PICK i \in DOMAIN signals, s \in States \ {heard[u]} : Says(i, u, s)
    BY <2>3 DEF News
  <2>5. i # 1
    BY <2>1, <2>2, <2>4 DEF Says
  <2> QED
    BY <2>1, <2>2, <2>4, <2>5 DEF News, Says
<1>3. CASE WatchOpens
  <2>1. /\ ~open /\ signals = <<>> /\ signals' = <<>>
        /\ UNCHANGED <<missed, asked, state, listed, read>>
    BY <1>3 DEF WatchOpens, systemd, pass
  <2> QED
    BY <2>1 DEF ListedOrSaid, News, Known, Running
<1>4. CASE WatchEnds
  <2>1. /\ signals' = <<>> /\ UNCHANGED <<asked, state, listed, read>>
        /\ ~missed' => ~missed /\ signals = <<>> /\ blurred = {}
    BY <1>4 DEF WatchEnds, systemd, pass
  <2> QED
    BY <2>1 DEF ListedOrSaid, News, Known, Running
<1>5. CASE UNCHANGED <<state, signals, open, heard, blurred, missed, asked, listed, read>>
  BY <1>5 DEF ListedOrSaid, News, Says, Known, Running
<1>6. CASE asked' \/ missed'
  BY <1>6 DEF ListedOrSaid
<1>7. CASE PassLists
  <2>1. Running' = Running /\ listed' = [busy |-> TRUE, units |-> Running]
    BY <1>7 DEF PassLists, systemd, Running
  <2> QED
    BY <2>1 DEF ListedOrSaid, Known
<1>8. CASE PassReads
  <2>1. /\ UNCHANGED <<state, signals, open, heard, blurred, missed, asked>>
        /\ listed.busy /\ ~listed'.busy /\ DOMAIN read' = listed.units
    BY <1>8 DEF PassReads, systemd, stream, NoPass
  <2> QED
    BY <2>1 DEF ListedOrSaid, News, Says, Known, Running
<1>9. CASE Systemd
  BY <1>1, <1>5, <1>9, SystemdSays DEF stream, pass, history
<1>10. CASE Hear
  BY <1>2, <1>10, HearingIs
<1>11. CASE Tick \/ PassFails \/ UNCHANGED vars
  BY <1>5, <1>6, <1>11 DEF Tick, Asks, PassFails, vars, systemd, stream, pass, history
<1> QED
  BY <1>3, <1>4, <1>7, <1>8, <1>9, <1>10, <1>11 DEF Next

LEMMA ReadStep ==
  ASSUME OK, ReadOrSaid, [Next]_vars
  PROVE  ReadOrSaid'
<1> USE DEF OK, StreamOK, PassOK
<1>1. ASSUME NEW signal \in Signals, SaysSo(signal)
      PROVE  ReadOrSaid'
  <2> SUFFICES ASSUME ~missed', ~asked', ~reloading', ~listed'.busy
               PROVE  \/ \E i \in DOMAIN signals' : signals'[i] = Reload(FALSE)
                      \/ \A u \in DOMAIN read' : read'[u] = files'[u]
    BY DEF ReadOrSaid
  <2>1. /\ open /\ ~missed /\ ~asked /\ ~listed.busy /\ UNCHANGED <<files, read>>
        /\ ~reloading \/ signal = Reload(FALSE)
    BY <1>1 DEF SaysSo, Sends, pass
  <2>2. /\ DOMAIN signals' = DOMAIN signals \cup {Len(signals) + 1}
        /\ \A i \in DOMAIN signals : signals'[i] = signals[i]
        /\ signals'[Len(signals) + 1] = signal
    BY <1>1, <2>1, Sent DEF SaysSo
  <2> QED
    BY <2>1, <2>2 DEF ReadOrSaid
<1>2. ASSUME NEW signal \in Signals, HearsIt(signal)
      PROVE  ReadOrSaid'
  <2>1. CASE signal = Reload(FALSE)
    BY <1>2, <2>1 DEF HearsIt, ReadOrSaid
  <2>2. CASE signal # Reload(FALSE)
    <3>1. /\ 1 \in DOMAIN signals /\ signals[1] = signal
          /\ \A i \in DOMAIN signals :
               i \in Nat /\ (i # 1 => i - 1 \in DOMAIN signals' /\ signals'[i - 1] = signals[i])
      BY <1>2, FirstHeard DEF HearsIt
    <3>2. (\E i \in DOMAIN signals : signals[i] = Reload(FALSE))
            => \E i \in DOMAIN signals' : signals'[i] = Reload(FALSE)
      BY <2>2, <3>1
    <3>3. UNCHANGED <<files, reloading, read, listed, missed>> /\ (asked => asked')
      BY <1>2 DEF HearsIt, systemd
    <3> QED
      BY <3>2, <3>3 DEF ReadOrSaid
  <2> QED
    BY <2>1, <2>2
<1>3. CASE WatchEnds
  <2>1. /\ UNCHANGED <<files, reloading, read, listed, asked>>
        /\ ~missed' => ~missed /\ signals = <<>>
    BY <1>3 DEF WatchEnds, systemd, pass
  <2>2. signals = <<>> => DOMAIN signals = {}
    OBVIOUS
  <2> QED
    BY <2>1, <2>2 DEF ReadOrSaid
<1>4. CASE UNCHANGED <<files, reloading, signals, missed, asked, listed, read>>
  BY <1>4 DEF ReadOrSaid
<1>5. CASE reloading' \/ asked' \/ missed'
  BY <1>5 DEF ReadOrSaid
<1>6. CASE PassLists
  BY <1>6 DEF PassLists, ReadOrSaid
<1>7. CASE PassReads
  <2>1. read' = [u \in listed.units |-> files[u]] /\ files' = files
    BY <1>7 DEF PassReads, systemd
  <2> QED
    BY <2>1 DEF ReadOrSaid
<1>8. CASE Systemd
  BY <1>1, <1>5, <1>8, SystemdSays
<1>9. CASE Hear
  BY <1>2, <1>9, HearingIs
<1>10. CASE WatchOpens \/ Tick \/ PassFails \/ UNCHANGED vars
  BY <1>4, <1>5, <1>10 DEF WatchOpens, Tick, Asks, PassFails, vars, systemd, stream, pass, history
<1> QED
  BY <1>3, <1>6, <1>7, <1>8, <1>9, <1>10 DEF Next

(* Whatever is amiss is on its way to be put right. *)
OnItsWay == LastWord /\ HeardOrSaid /\ ListedOrSaid /\ ReadOrSaid

LEMMA OnItsWayInvariant == Spec => [](OK /\ OnItsWay)
<1>1. Init => OnItsWay
  <2> SUFFICES ASSUME Init PROVE OnItsWay
    OBVIOUS
  <2>1. signals = <<>> /\ ~open /\ asked /\ DOMAIN signals = {}
    BY DEF Init
  <2> QED
    BY <2>1 DEF OnItsWay, LastWord, HeardOrSaid, ListedOrSaid, ReadOrSaid
<1>2. OK /\ OnItsWay /\ [Next]_vars => OnItsWay'
  BY LastWordStep, HeardStep, ListedStep, ReadStep DEF OnItsWay
<1> QED
  BY <1>1, <1>2, Invariance, PTL DEF Spec, OK

(* When every signal has been heard and acted on, the last pass had the     *)
(* right units running and read the files they have now, but for units that *)
(* moved while a reload was being waited out.                               *)
THEOREM EventsAreEnough == Spec => []UpToDate
<1>1. OK /\ OnItsWay => UpToDate
  <2> SUFFICES ASSUME OK, OnItsWay, Settled, NEW u \in Units \ blurred
               PROVE  /\ u \in Running <=> u \in DOMAIN read
                      /\ u \in Running => read[u] = files[u]
    BY DEF UpToDate
  <2>1. DOMAIN signals = {}
    BY DEF Settled
  <2>2. u \in Running <=> u \in DOMAIN read
    BY <2>1 DEF Settled, OnItsWay, ListedOrSaid, Known, News
  <2> QED
    BY <2>1, <2>2 DEF Settled, OnItsWay, ReadOrSaid
<1> QED
  BY <1>1, OnItsWayInvariant, PTL

(* Once a reload is done and its end has been heard and acted on, the files *)
(* it loaded have been read for every running unit the last pass had, those *)
(* that moved during the reload among them.                                *)
THEOREM ReloadsAreRead == Spec => []ReloadIsRead
<1>1. OK /\ OnItsWay => ReloadIsRead
  <2> SUFFICES ASSUME OK, OnItsWay, Settled PROVE ReloadIsRead
    BY DEF ReloadIsRead
  <2>1. DOMAIN signals = {}
    BY DEF Settled
  <2> QED
    BY <2>1 DEF Settled, OnItsWay, ReadOrSaid, ReloadIsRead
<1> QED
  BY <1>1, OnItsWayInvariant, PTL
===============================================================================
