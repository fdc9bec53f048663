--------------------------- MODULE SourceContract ----------------------------
(***************************************************************************)
(* What Events of source.Source promises the daemon that calls it, again   *)
(* and again: one notification at a time, none once it has returned, and a *)
(* return once ctx is done.  It may return earlier, when a stream drops.   *)
(***************************************************************************)
VARIABLES
  events,  \* "returned", "watching" or "notifying"
  done     \* ctx is done

vars == <<events, done>>

Open == ~done /\ events = "returned" /\ events' = "watching" /\ UNCHANGED done
Notify == events = "watching" /\ events' = "notifying" /\ UNCHANGED done
Notified == events = "notifying" /\ events' = "watching" /\ UNCHANGED done
Return == events = "watching" /\ events' = "returned" /\ UNCHANGED done
Cancel == ~done /\ done' = TRUE /\ UNCHANGED events

Init == events = "returned" /\ done = FALSE
Next == Open \/ Notify \/ Notified \/ Return \/ Cancel

Spec == Init /\ [][Next]_vars
FairSpec == Spec /\ WF_vars(Notified) /\ SF_vars(done /\ Return)
==============================================================================
