------------------------------- MODULE Combine -------------------------------
(***************************************************************************)
(* Several sources as one (internal/source): Combine.  The daemon calls    *)
(* Desired for a pass while its Events is open, each from a goroutine of   *)
(* its own, and each asks every source at once.                            *)
(*                                                                         *)
(* Of a forward only the slot matters here; its place in its source's      *)
(* answer keeps two forwards for one slot apart.                           *)
(***************************************************************************)
EXTENDS Naturals, Sequences

CONSTANTS
  N,        \* how many sources there are, in the order they were named
  Slots,
  Answers,  \* what a source may want: sequences of slots
  Failed    \* that it could not be asked

Sources == 1..N
None == 0

ASSUME CombineAssumption ==
  /\ N \in Nat /\ N >= 2
  /\ Answers \subseteq Seq(Slots) /\ Failed \notin Answers /\ Answers # {}

VARIABLES
  phase,    \* of Desired: "idle", "asking", "merging", "answered" or "failed"
  asking,   \* the sources that have not answered yet
  answers,  \* what each answered
  at,       \* the source whose answer is merged next
  claimed,  \* the source that claimed each slot, or None
  desired,  \* the forwards kept so far
  blamed,   \* the source whose failure is returned
  \* Events.
  main,     \* its caller: "returned", "waiting" or "stopping"
  stream,   \* each source's: "returned", "watching", "locking" or "notifying"
  ended,    \* how many have sent what they returned with
  inner,    \* whether the context they share is done
  done      \* whether the caller's is

pass == <<phase, asking, answers, at, claimed, desired, blamed>>
events == <<main, stream, ended, inner>>
vars == <<pass, events, done>>

-----------------------------------------------------------------------------
(* Desired: every source is asked at once ... *)
Ask ==
  /\ phase \in {"idle", "answered", "failed"}
  /\ phase' = "asking" /\ asking' = Sources
  /\ answers' = [i \in Sources |-> Failed]
  /\ at' = 1 /\ claimed' = [s \in Slots |-> None] /\ desired' = {} /\ blamed' = None
  /\ UNCHANGED <<events, done>>

(* ... and they answer in any order, or fail. *)
Answer(i) ==
  /\ phase = "asking" /\ i \in asking
  /\ asking' = asking \ {i}
  /\ answers' \in {[answers EXCEPT ![i] = answer] : answer \in Answers \cup {Failed}}
  /\ UNCHANGED <<phase, at, claimed, desired, blamed, events, done>>

Failures == {i \in Sources : answers[i] = Failed}

(* Wrong: whichever failure comes to hand is returned. *)
Blame_Any == blamed' \in Failures

(* The first named to fail, whichever was quicker. *)
Blame == blamed' \in {i \in Failures : \A j \in Failures : i <= j}

(* wg.Wait: one failure is the failure of all. *)
Collect ==
  /\ phase = "asking" /\ asking = {}
  /\ IF Failures = {} THEN phase' = "merging" /\ UNCHANGED blamed
     ELSE phase' = "failed" /\ Blame
  /\ UNCHANGED <<asking, answers, at, claimed, desired, events, done>>

Forwards(i) ==
  {[source |-> i, place |-> k, slot |-> answers[i][k]] : k \in DOMAIN answers[i]}

(* What is kept of a source's forwards: those for slots nobody claimed. *)
Mine(i) == {f \in Forwards(i) : claimed[f.slot] = None}

(* Wrong: the latest source to ask for a slot holds the claim to it, and a  *)
(* claim only counts against the next source.                              *)
Claim_Latest(i) ==
  claimed' = [s \in Slots |-> IF \E f \in Mine(i) : f.slot = s THEN i ELSE None]

Claim(i) ==
  claimed' = [s \in Slots |-> IF \E f \in Mine(i) : f.slot = s THEN i ELSE claimed[s]]

(* One source's answer, claimed once all of it has been read. *)
Merge ==
  /\ phase = "merging" /\ at \in Sources
  /\ desired' = desired \cup Mine(at)
  /\ Claim(at)
  /\ at' = at + 1
  /\ UNCHANGED <<phase, asking, answers, blamed, events, done>>

Reply ==
  /\ phase = "merging" /\ at \notin Sources
  /\ phase' = "answered"
  /\ UNCHANGED <<asking, answers, at, claimed, desired, blamed, events, done>>

-----------------------------------------------------------------------------
(* Events: a goroutine for each source, and one notification at a time. *)
Open ==
  /\ main = "returned" /\ ~done
  /\ main' = "waiting" /\ ended' = 0 /\ inner' = FALSE
  /\ stream' = [i \in Sources |-> "watching"]
  /\ UNCHANGED <<pass, done>>

Reports(i) ==
  /\ stream[i] = "watching"
  /\ stream' = [stream EXCEPT ![i] = "locking"]
  /\ UNCHANGED <<pass, main, ended, inner, done>>

(* Wrong: notify is called from every goroutine. *)
Notify_Unlocked(i) ==
  /\ stream[i] = "locking"
  /\ stream' = [stream EXCEPT ![i] = "notifying"]
  /\ UNCHANGED <<pass, main, ended, inner, done>>

(* serial: its mutex is held while notify runs. *)
Notify(i) ==
  /\ stream[i] = "locking"
  /\ \A j \in Sources : stream[j] # "notifying"
  /\ stream' = [stream EXCEPT ![i] = "notifying"]
  /\ UNCHANGED <<pass, main, ended, inner, done>>

Notified(i) ==
  /\ stream[i] = "notifying"
  /\ stream' = [stream EXCEPT ![i] = "watching"]
  /\ UNCHANGED <<pass, main, ended, inner, done>>

(* Wrong: a channel with room for one, and only one receiver. *)
SourceReturns_OneRoom(i) ==
  /\ stream[i] = "watching" /\ ended = 0
  /\ stream' = [stream EXCEPT ![i] = "returned"]
  /\ ended' = ended + 1
  /\ UNCHANGED <<pass, main, inner, done>>

(* A source returns when its stream drops or the context is done.  The     *)
(* channel has room for what each of them returns.                         *)
SourceReturns(i) ==
  /\ stream[i] = "watching"
  /\ stream' = [stream EXCEPT ![i] = "returned"]
  /\ ended' = ended + 1
  /\ UNCHANGED <<pass, main, inner, done>>

(* The first to return stops the rest ... *)
First ==
  /\ main = "waiting" /\ ended > 0
  /\ main' = "stopping" /\ inner' = TRUE
  /\ UNCHANGED <<pass, stream, ended, done>>

(* ... and is returned once all have. *)
Return ==
  /\ main = "stopping" /\ \A i \in Sources : stream[i] = "returned"
  /\ main' = "returned"
  /\ UNCHANGED <<pass, stream, ended, inner, done>>

(* The daemon's context is done, and with it the one the sources share. *)
Cancel ==
  /\ ~done
  /\ done' = TRUE /\ inner' = TRUE
  /\ UNCHANGED <<pass, main, stream, ended>>

-----------------------------------------------------------------------------
Init ==
  /\ phase = "idle" /\ asking = {} /\ answers = [i \in Sources |-> Failed]
  /\ at = 1 /\ claimed = [s \in Slots |-> None] /\ desired = {} /\ blamed = None
  /\ main = "returned" /\ stream = [i \in Sources |-> "returned"]
  /\ ended = 0 /\ inner = FALSE /\ done = FALSE

Pass == Ask \/ (\E i \in Sources : Answer(i)) \/ Collect \/ Merge \/ Reply
Stream(i) == Reports(i) \/ Notify(i) \/ Notified(i) \/ SourceReturns(i)
Events == Open \/ First \/ Return \/ Cancel \/ \E i \in Sources : Stream(i)

Next == Pass \/ Events

Spec == Init /\ [][Next]_vars

(* Each source keeps module SourceContract's promise itself: its events    *)
(* cannot put off for ever the return it owes a context that is done.      *)
FairSpec ==
  /\ Spec
  /\ WF_vars(First) /\ WF_vars(Return)
  /\ \A i \in Sources : /\ SF_vars(Notify(i)) /\ WF_vars(Notified(i))
                        /\ SF_vars(inner /\ SourceReturns(i))

-----------------------------------------------------------------------------
(* Properties. *)

Asks(i) == {answers[i][k] : k \in DOMAIN answers[i]}

(* Every variable has its type, and Events has only returned once every    *)
(* source's has.                                                           *)
TypeOK ==
  /\ phase \in {"idle", "asking", "merging", "answered", "failed"}
  /\ asking \subseteq Sources /\ answers \in [Sources -> Answers \cup {Failed}]
  /\ at \in 1..(N + 1) /\ claimed \in [Slots -> Sources \cup {None}]
  /\ desired \subseteq [source : Sources, place : Nat, slot : Slots]
  /\ blamed \in Sources \cup {None}
  /\ main \in {"returned", "waiting", "stopping"}
  /\ stream \in [Sources -> {"returned", "watching", "locking", "notifying"}]
  /\ ended \in Nat /\ inner \in BOOLEAN /\ done \in BOOLEAN
  /\ main = "returned" => \A i \in Sources : stream[i] = "returned"

(* "The first source named keeps it": a forward is kept exactly when no    *)
(* source named earlier asks for its slot, even one whose own claim was    *)
(* lost to another still, and whichever answered first.  Two forwards of   *)
(* one source for one slot are both kept, or neither.                      *)
FirstNamedWins ==
  phase = "answered" =>
    desired = UNION {{f \in Forwards(i) : \A j \in 1..(i - 1) : f.slot \notin Asks(j)} :
                       i \in Sources}

(* Desired fails if any source fails - an answer is never partial - and    *)
(* with the same failure whichever source was quicker.                     *)
OneFailureFailsAll ==
  /\ phase \in {"merging", "answered"} => \A i \in Sources : answers[i] # Failed
  /\ phase = "failed" => /\ blamed \in Sources /\ answers[blamed] = Failed
                         /\ \A j \in 1..(blamed - 1) : answers[j] # Failed

(* Several sources are a source: module SourceContract, which knows no      *)
(* "overlapping".                                                          *)
Stage ==
  IF main = "returned" THEN "returned"
  ELSE IF \E i, j \in Sources :
            i # j /\ stream[i] = "notifying" /\ stream[j] = "notifying"
       THEN "overlapping"
  ELSE IF \E i \in Sources : stream[i] = "notifying" THEN "notifying"
  ELSE "watching"

Contract == INSTANCE SourceContract WITH events <- Stage

IsASource == Contract!FairSpec
==============================================================================
