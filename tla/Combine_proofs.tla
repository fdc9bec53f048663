--------------------------- MODULE Combine_proofs ----------------------------
(***************************************************************************)
(* Module Combine for any number of sources and whatever they want.        *)
(*                                                                         *)
(* The claims of Desired are a loop; Merged is its invariant.  Events      *)
(* implements the safety part of module SourceContract, so a combination   *)
(* of sources can stand wherever the daemon expects one.                   *)
(***************************************************************************)
EXTENDS Combine, TLAPS

LEMMA SourcesAreNumbers == Sources \subseteq Nat /\ None \notin Sources /\ 1 \in 1..(N + 1)
BY CombineAssumption DEF Sources, None

LEMMA NumbersBelow ==
  ASSUME NEW b \in Sources, NEW j \in 1..(b - 1)
  PROVE  j \in Sources /\ ~(b <= j)
BY CombineAssumption DEF Sources

(* What a good answer's forwards are. *)
LEMMA ForwardsTyped ==
  ASSUME NEW i \in Sources, answers \in [Sources -> Answers \cup {Failed}],
         answers[i] # Failed
  PROVE  Forwards(i) \subseteq [source : Sources, place : Nat, slot : Slots]
<1>1. answers[i] \in Seq(Slots)
  BY CombineAssumption
<1>2. DOMAIN answers[i] \subseteq Nat /\ \A k \in DOMAIN answers[i] : answers[i][k] \in Slots
  BY <1>1
<1> QED
  BY <1>2 DEF Forwards

-----------------------------------------------------------------------------
(* What Desired's variables are, and what they hold once all have answered.*)
PassOK ==
  /\ phase \in {"idle", "asking", "merging", "answered", "failed"}
  /\ asking \subseteq Sources /\ answers \in [Sources -> Answers \cup {Failed}]
  /\ at \in 1..(N + 1) /\ claimed \in [Slots -> Sources \cup {None}]
  /\ desired \subseteq [source : Sources, place : Nat, slot : Slots]
  /\ blamed \in Sources \cup {None}

EventsOK ==
  /\ main \in {"returned", "waiting", "stopping"}
  /\ stream \in [Sources -> {"returned", "watching", "locking", "notifying"}]
  /\ ended \in Nat /\ inner \in BOOLEAN /\ done \in BOOLEAN
  /\ main = "returned" => \A i \in Sources : stream[i] = "returned"
  /\ \A i, j \in Sources : stream[i] = "notifying" /\ stream[j] = "notifying" => i = j

Kept(i) == {f \in Forwards(i) : \A j \in 1..(i - 1) : f.slot \notin Asks(j)}

(* The loop's invariant: the sources before the next one have been dealt   *)
(* with, and the claims are for all they asked, kept or not.               *)
Merged ==
  /\ phase \in {"merging", "answered"} =>
       /\ \A i \in Sources : answers[i] # Failed
       /\ \A s \in Slots : claimed[s] # None <=> \E j \in 1..(at - 1) : s \in Asks(j)
       /\ desired = UNION {Kept(i) : i \in 1..(at - 1)}
  /\ phase = "answered" => at = N + 1
  /\ phase = "asking" => at = 1 /\ desired = {} /\ claimed = [s \in Slots |-> None]

PassInv == PassOK /\ Merged /\ OneFailureFailsAll

(* Merging a source's answer keeps its forwards for slots nobody before it *)
(* asked for, and nothing else.                                            *)
LEMMA MergeKeepsMerged ==
  ASSUME PassOK, Merged, Merge
  PROVE  Merged' /\ PassOK'
<1> USE DEF Merge, events
<1>1. /\ at \in Sources /\ at \in Nat /\ at' = at + 1 /\ phase = "merging"
      /\ answers' = answers /\ phase' = phase
      /\ \A i \in Sources : answers[i] # Failed
  BY CombineAssumption DEF PassOK, Merged, Sources
<1>2. \A s \in Slots : claimed[s] # None <=> \E j \in 1..(at - 1) : s \in Asks(j)
  BY <1>1 DEF Merged
<1>3. Forwards(at) \subseteq [source : Sources, place : Nat, slot : Slots]
  BY <1>1, ForwardsTyped DEF PassOK
<1>4. Mine(at) = Kept(at)
  BY <1>2, <1>3 DEF Mine, Kept
<1>5. desired' = UNION {Kept(i) : i \in 1..at}
  <2>1. 1..at = 1..(at - 1) \cup {at}
    BY <1>1, CombineAssumption DEF Sources
  <2> QED
    BY <1>1, <1>4, <2>1 DEF Merged
<1>6. \A i \in Sources : Kept(i)' = Kept(i)
  BY <1>1 DEF Kept, Forwards, Asks
<1>7. ASSUME NEW s \in Slots
      PROVE  claimed'[s] # None <=> \E j \in 1..at : s \in Asks(j)
  <2>1. s \in Asks(at) <=> \E f \in Forwards(at) : f.slot = s
    <3>1. ASSUME NEW k \in DOMAIN answers[at]
          PROVE  [source |-> at, place |-> k, slot |-> answers[at][k]] \in Forwards(at)
      BY DEF Forwards
    <3>2. s \in Asks(at) => \E k \in DOMAIN answers[at] : answers[at][k] = s
      BY DEF Asks
    <3>3. \A f \in Forwards(at) : f.slot \in Asks(at)
      BY DEF Asks, Forwards
    <3> QED
      BY <3>1, <3>2, <3>3
  <2>2. claimed'[s] # None <=> claimed[s] # None \/ \E f \in Mine(at) : f.slot = s
    BY <1>1, SourcesAreNumbers DEF Claim
  <2>3. claimed'[s] # None <=> claimed[s] # None \/ s \in Asks(at)
    BY <2>1, <2>2 DEF Mine
  <2>4. 1..at = 1..(at - 1) \cup {at}
    BY <1>1, CombineAssumption DEF Sources
  <2> QED
    BY <1>2, <2>3, <2>4
<1>8. \A j : Asks(j)' = Asks(j)
  BY <1>1 DEF Asks
<1>9. 1..(at' - 1) = 1..at /\ 1..at \subseteq Sources
  BY <1>1, CombineAssumption DEF Sources
<1>10. PassOK'
  <2>1. at' \in 1..(N + 1)
    BY <1>1, CombineAssumption DEF Sources
  <2>2. claimed' \in [Slots -> Sources \cup {None}]
    BY <1>1 DEF Claim, PassOK
  <2>3. desired' \subseteq [source : Sources, place : Nat, slot : Slots]
    BY <1>3 DEF Mine, PassOK
  <2> QED
    BY <1>1, <2>1, <2>2, <2>3 DEF PassOK
<1>11. Merged'
  <2>1. desired' = UNION {Kept(i)' : i \in 1..(at' - 1)}
    BY <1>5, <1>6, <1>9
  <2>2. \A s \in Slots : claimed'[s] # None <=> \E j \in 1..(at' - 1) : s \in Asks(j)'
    BY <1>7, <1>8, <1>9
  <2> QED
    BY <1>1, <2>1, <2>2 DEF Merged
<1> QED
  BY <1>10, <1>11

LEMMA InitPassInv == Init => PassInv
BY CombineAssumption, SourcesAreNumbers
   DEF Init, PassInv, PassOK, Merged, OneFailureFailsAll, None

LEMMA StepPassInv ==
  ASSUME PassInv, [Next]_vars
  PROVE  PassInv'
<1> USE DEF PassInv
<1>1. CASE Ask
  BY <1>1, CombineAssumption, SourcesAreNumbers
     DEF Ask, PassOK, Merged, OneFailureFailsAll, None
<1>2. ASSUME NEW i \in Sources, Answer(i)
      PROVE  PassInv'
  BY <1>2 DEF Answer, PassOK, Merged, OneFailureFailsAll
<1>3. CASE Collect
  <2>1. PassOK' /\ OneFailureFailsAll'
    <3>1. CASE Failures = {}
      BY <1>3, <3>1 DEF Collect, Failures, PassOK, OneFailureFailsAll
    <3>2. CASE Failures # {}
      <4>1. /\ blamed' \in Sources /\ answers[blamed'] = Failed
            /\ \A j \in Sources : answers[j] = Failed => blamed' <= j
            /\ answers' = answers /\ phase' = "failed"
        BY <1>3, <3>2 DEF Collect, Blame, Failures
      <4>2. \A j \in 1..(blamed' - 1) : j \in Sources /\ ~(blamed' <= j)
        BY <4>1, NumbersBelow
      <4> QED
        BY <1>3, <4>1, <4>2 DEF Collect, PassOK, OneFailureFailsAll
    <3> QED
      BY <3>1, <3>2
  <2>2. Merged'
    <3>1. CASE Failures = {}
      <4>1. /\ phase' = "merging" /\ at' = 1 /\ 1..(at' - 1) = {} /\ desired' = {}
            /\ \A s \in Slots : claimed'[s] = None
            /\ \A i \in Sources : answers'[i] # Failed
        BY <1>3, <3>1 DEF Collect, Failures, Merged
      <4> QED
        BY <4>1 DEF Merged
    <3>2. CASE Failures # {}
      BY <1>3, <3>2 DEF Collect, Merged
    <3> QED
      BY <3>1, <3>2
  <2> QED
    BY <2>1, <2>2
<1>4. CASE Merge
  <2>1. OneFailureFailsAll'
    BY <1>4 DEF Merge, OneFailureFailsAll
  <2> QED
    BY <1>4, <2>1, MergeKeepsMerged
<1>5. CASE Reply
  <2>1. at = N + 1
    BY <1>5, CombineAssumption DEF Reply, PassOK, Sources
  <2> QED
    BY <1>5, <2>1 DEF Reply, PassOK, Merged, OneFailureFailsAll, Kept, Forwards, Asks
<1>6. CASE UNCHANGED pass
  BY <1>6 DEF pass, PassOK, Merged, OneFailureFailsAll, Kept, Forwards, Asks
<1>7. Events \/ UNCHANGED vars => UNCHANGED pass
  BY DEF Events, Open, First, Return, Cancel, Stream, Reports, Notify, Notified,
     SourceReturns, vars
<1> QED
  BY <1>1, <1>2, <1>3, <1>4, <1>5, <1>6, <1>7 DEF Next, Pass

LEMMA PassInvHolds == Spec => []PassInv
BY InitPassInv, StepPassInv, PTL DEF Spec

(* Whichever order the sources answer in, a forward is kept exactly when   *)
(* no source named earlier asks for its slot.                              *)
THEOREM TheFirstNamedWins == Spec => []FirstNamedWins
<1>1. PassInv => FirstNamedWins
  <2>1. Merged /\ phase = "answered" => desired = UNION {Kept(i) : i \in Sources}
    BY CombineAssumption DEF Merged, Sources
  <2> QED
    BY <2>1 DEF PassInv, FirstNamedWins, Kept
<1> QED
  BY <1>1, PassInvHolds, PTL

(* An answer is never partial, and of several failures the first named is  *)
(* the one returned.                                                       *)
THEOREM AnAnswerIsWhole == Spec => []OneFailureFailsAll
<1>1. PassInv => OneFailureFailsAll
  BY DEF PassInv
<1> QED
  BY <1>1, PassInvHolds, PTL

-----------------------------------------------------------------------------
LEMMA EventsInvHolds == Spec => []EventsOK
<1>1. Init => EventsOK
  <2> SUFFICES ASSUME Init PROVE EventsOK
    OBVIOUS
  <2>1. ended \in Nat /\ inner \in BOOLEAN /\ done \in BOOLEAN
    BY DEF Init
  <2> QED
    BY <2>1 DEF Init, EventsOK
<1>2. EventsOK /\ [Next]_vars => EventsOK'
  <2> SUFFICES ASSUME EventsOK, [Next]_vars
               PROVE  EventsOK'
    OBVIOUS
  <2> USE DEF EventsOK
  <2>1. CASE Pass \/ UNCHANGED vars
    BY <2>1 DEF Pass, Ask, Answer, Collect, Merge, Reply, vars, events
  <2>2. CASE Open \/ First \/ Return \/ Cancel
    <3>1. ended' \in Nat
      BY <2>2 DEF Open, First, Return, Cancel
    <3>2. inner' \in BOOLEAN /\ done' \in BOOLEAN
      BY <2>2 DEF Open, First, Return, Cancel
    <3>3. /\ main' \in {"returned", "waiting", "stopping"}
          /\ stream' \in [Sources -> {"returned", "watching", "locking", "notifying"}]
          /\ main' = "returned" => \A i \in Sources : stream'[i] = "returned"
          /\ \A i, j \in Sources :
               stream'[i] = "notifying" /\ stream'[j] = "notifying" => i = j
      BY <2>2 DEF Open, First, Return, Cancel
    <3> QED
      BY <3>1, <3>2, <3>3
  <2>3. ASSUME NEW i \in Sources, Stream(i)
        PROVE  EventsOK'
    BY <2>3 DEF Stream, Reports, Notify, Notified, SourceReturns
  <2> QED
    BY <2>1, <2>2, <2>3 DEF Next, Events
<1> QED
  BY <1>1, <1>2, PTL DEF Spec

(* Every variable keeps its type, and Events has only returned once every  *)
(* source's has.                                                           *)
THEOREM TypeCorrect == Spec => []TypeOK
<1>1. PassInv /\ EventsOK => TypeOK
  BY DEF PassInv, PassOK, EventsOK, TypeOK
<1> QED
  BY <1>1, PassInvHolds, EventsInvHolds, PTL

(* Any combination of sources is a source: it notifies one thing at a time *)
(* and nothing once it has returned.                                       *)
THEOREM ACombinationIsASource == Spec => Contract!Spec
<1> USE DEF EventsOK, Stage, Contract!vars
<1>1. Init => Contract!Init
  BY DEF Init, Contract!Init
<1>2. EventsOK /\ EventsOK' /\ [Next]_vars => [Contract!Next]_(Contract!vars)
  <2> SUFFICES ASSUME EventsOK, EventsOK', [Next]_vars
               PROVE  [Contract!Next]_(Contract!vars)
    OBVIOUS
  <2>1. CASE Pass \/ UNCHANGED vars
    BY <2>1 DEF Pass, Ask, Answer, Collect, Merge, Reply, vars, events
  <2>2. CASE Open
    BY <2>2 DEF Open, Contract!Next, Contract!Open
  <2>3. CASE First
    BY <2>3 DEF First
  <2>4. CASE Return
    BY <2>4 DEF Return, Contract!Next, Contract!Return
  <2>5. CASE Cancel
    BY <2>5 DEF Cancel, Contract!Next, Contract!Cancel
  <2>6. ASSUME NEW i \in Sources, Reports(i) \/ SourceReturns(i)
        PROVE  [Contract!Next]_(Contract!vars)
    BY <2>6 DEF Reports, SourceReturns
  <2>7. ASSUME NEW i \in Sources, Notify(i)
        PROVE  [Contract!Next]_(Contract!vars)
    BY <2>7 DEF Notify, Contract!Next, Contract!Notify
  <2>8. ASSUME NEW i \in Sources, Notified(i)
        PROVE  [Contract!Next]_(Contract!vars)
    BY <2>8 DEF Notified, Contract!Next, Contract!Notified
  <2> QED
    BY <2>1, <2>2, <2>3, <2>4, <2>5, <2>6, <2>7, <2>8 DEF Next, Events, Stream
<1> QED
  BY <1>1, <1>2, EventsInvHolds, PTL DEF Spec, Contract!Spec
==============================================================================
