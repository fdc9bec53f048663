------------------------------ MODULE OnDemand -------------------------------
(***************************************************************************)
(* What Daemon.Run promises those who ask it for passes, whatever          *)
(* goroutines and channels it is made of: passes never overlap, each       *)
(* request is answered by a pass that reads the source after it was made,  *)
(* any number of requests may share one pass, and once Run has returned    *)
(* there are no more.                                                      *)
(***************************************************************************)
VARIABLES
  asked,   \* a pass was asked for and none has read the source since
  pass,    \* "none", "unread" or "read": the pass in flight
  run      \* "open", "returned" or "dead"

vars == <<asked, pass, run>>

Ask == run = "open" /\ asked' = TRUE /\ UNCHANGED <<pass, run>>

Begin ==
  /\ run = "open" /\ pass = "none"
  /\ pass' = "unread"
  /\ UNCHANGED <<asked, run>>

(* A source that cannot be read ends the pass; the next request retries. *)
Read ==
  /\ run = "open" /\ pass = "unread"
  /\ pass' \in {"read", "none"}
  /\ asked' = FALSE
  /\ UNCHANGED run

End ==
  /\ run = "open" /\ pass = "read"
  /\ pass' = "none"
  /\ UNCHANGED <<asked, run>>

Return ==
  /\ run = "open" /\ pass = "none"
  /\ run' = "returned"
  /\ UNCHANGED <<asked, pass>>

(* The process is killed, with a pass in flight or not. *)
Die ==
  /\ run # "dead"
  /\ run' = "dead" /\ pass' = "none"
  /\ UNCHANGED asked

Init == asked = FALSE /\ pass \in {"none", "unread"} /\ run = "open"
Next == Ask \/ Begin \/ Read \/ End \/ Return \/ Die

Spec == Init /\ [][Next]_vars
FairSpec == Spec /\ WF_vars(asked /\ Begin) /\ WF_vars(Read) /\ WF_vars(End)
==============================================================================
