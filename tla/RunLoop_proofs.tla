--------------------------- MODULE RunLoop_proofs ----------------------------
(***************************************************************************)
(* What TLC checks of RunLoop on its one instance, proved of it: the       *)
(* safety properties, and that Run implements OnDemand as far as safety    *)
(* goes.  The module is finite but for CleanupOnExit, so what the proofs   *)
(* add is the argument: which invariant each property rests on.            *)
(***************************************************************************)
EXTENDS RunLoop, TLAPS

(* After Run both goroutines are gone: what NothingAfterReturn rests on,   *)
(* and why it is safe to clean up.                                         *)
Quiet == main \in {"cleaning", "exited"} => worker = "ended" /\ ticker = "ended"

RunInv == Places /\ OneAtATime /\ Quiet

LEMMA InitRunInv == Init => RunInv
  BY DEF Init, RunInv, Places, OneAtATime, Quiet, Alive, InPass

LEMMA NextRunInv == RunInv /\ [Next]_vars => RunInv'
<1> SUFFICES ASSUME RunInv, [Next]_vars PROVE RunInv'
  OBVIOUS
<1> USE CleanupAssumption DEF RunInv, Places, OneAtATime, Quiet, Alive, InPass, Over
<1>1. CASE UNCHANGED vars
  BY <1>1 DEF vars, control
<1>2. CASE Main
  <2>1. ASSUME NEW ok \in BOOLEAN, FirstPassReads(ok) PROVE RunInv'
    BY <2>1 DEF FirstPassReads, SourceRead
  <2>2. CASE FirstPassEnds
    BY <2>2 DEF FirstPassEnds
  <2>3. CASE StartGoroutines
    BY <2>3 DEF StartGoroutines
  <2>4. CASE TellReady
    BY <2>4 DEF TellReady
  <2>5. CASE OpenStream
    BY <2>5 DEF OpenStream
  <2>6. CASE BackoffEnds
    BY <2>6 DEF BackoffEnds
  <2>7. CASE LoopEnds
    BY <2>7 DEF LoopEnds
  <2>8. CASE Return
    BY <2>8 DEF Return
  <2>9. CASE CleanupEnds
    BY <2>9 DEF CleanupEnds
  <2>10. QED
    BY <1>2, <2>1, <2>2, <2>3, <2>4, <2>5, <2>6, <2>7, <2>8, <2>9 DEF Main
<1>3. CASE Worker
  <2>1. CASE WorkerTakes
    BY <2>1 DEF WorkerTakes
  <2>2. CASE WorkerEndsPass
    BY <2>2 DEF WorkerEndsPass
  <2>3. CASE WorkerReturns
    BY <2>3 DEF WorkerReturns
  <2>4. ASSUME NEW ok \in BOOLEAN, WorkerReads(ok) PROVE RunInv'
    BY <2>4 DEF WorkerReads, SourceRead
  <2>5. QED
    BY <1>3, <2>1, <2>2, <2>3, <2>4 DEF Worker
<1>4. CASE Ticker
  <2>1. CASE Tick
    BY <2>1 DEF Tick, Request
  <2>2. CASE TickerReturns
    BY <2>2 DEF TickerReturns
  <2>3. QED
    BY <1>4, <2>1, <2>2 DEF Ticker
<1>5. CASE Stream
  <2>1. CASE StreamOpens
    BY <2>1 DEF StreamOpens
  <2>2. CASE Notify
    BY <2>2 DEF Notify, Request
  <2>3. CASE StreamEnds
    BY <2>3 DEF StreamEnds
  <2>4. QED
    BY <1>5, <2>1, <2>2, <2>3 DEF Stream
<1>6. CASE Interrupted
  BY <1>6 DEF Interrupted
<1>7. CASE Cancel
  BY <1>7 DEF Cancel
<1>8. CASE Killed
  BY <1>8 DEF Killed
<1>9. CASE Change
  BY <1>9 DEF Change
<1>10. QED
  BY <1>1, <1>2, <1>3, <1>4, <1>5, <1>6, <1>7, <1>8, <1>9 DEF Next

LEMMA RunInvHolds == Spec => []RunInv
  BY InitRunInv, NextRunInv, PTL DEF Spec

LEMMA NextSwitches == Switches /\ [Next]_vars => Switches'
<1> SUFFICES ASSUME Switches, [Next]_vars PROVE Switches'
  OBVIOUS
<1> USE DEF Switches
<1>1. CASE UNCHANGED vars
  BY Zenon, <1>1 DEF vars, control
<1>2. CASE Main
  <2>1. ASSUME NEW ok \in BOOLEAN, FirstPassReads(ok) PROVE Switches'
    BY Zenon, <2>1 DEF FirstPassReads, SourceRead
  <2>2. CASE FirstPassEnds
    BY Zenon, <2>2 DEF FirstPassEnds
  <2>3. CASE StartGoroutines
    BY Zenon, <2>3 DEF StartGoroutines
  <2>4. CASE TellReady
    BY Zenon, <2>4 DEF TellReady
  <2>5. CASE OpenStream
    BY Zenon, <2>5 DEF OpenStream
  <2>6. CASE BackoffEnds
    BY Zenon, <2>6 DEF BackoffEnds
  <2>7. CASE LoopEnds
    BY Zenon, <2>7 DEF LoopEnds
  <2>8. CASE Return
    BY Zenon, <2>8 DEF Return
  <2>9. CASE CleanupEnds
    BY Zenon, <2>9 DEF CleanupEnds
  <2>10. QED
    BY <1>2, <2>1, <2>2, <2>3, <2>4, <2>5, <2>6, <2>7, <2>8, <2>9 DEF Main
<1>3. CASE Worker
  <2>1. CASE WorkerTakes
    BY Zenon, <2>1 DEF WorkerTakes
  <2>2. CASE WorkerEndsPass
    BY Zenon, <2>2 DEF WorkerEndsPass
  <2>3. CASE WorkerReturns
    BY Zenon, <2>3 DEF WorkerReturns
  <2>4. ASSUME NEW ok \in BOOLEAN, WorkerReads(ok) PROVE Switches'
    BY Zenon, <2>4 DEF WorkerReads, SourceRead
  <2>5. QED
    BY <1>3, <2>1, <2>2, <2>3, <2>4 DEF Worker
<1>4. CASE Ticker
  <2>1. CASE Tick
    BY Zenon, <2>1 DEF Tick, Request
  <2>2. CASE TickerReturns
    BY Zenon, <2>2 DEF TickerReturns
  <2>3. QED
    BY <1>4, <2>1, <2>2 DEF Ticker
<1>5. CASE Stream
  <2>1. CASE StreamOpens
    BY Zenon, <2>1 DEF StreamOpens
  <2>2. CASE Notify
    BY Zenon, <2>2 DEF Notify, Request
  <2>3. CASE StreamEnds
    BY Zenon, <2>3 DEF StreamEnds
  <2>4. QED
    BY <1>5, <2>1, <2>2, <2>3 DEF Stream
<1>6. CASE Interrupted
  BY Zenon, <1>6 DEF Interrupted
<1>7. CASE Cancel
  BY Zenon, <1>7 DEF Cancel
<1>8. CASE Killed
  BY Zenon, <1>8 DEF Killed
<1>9. CASE Change
  BY Zenon, <1>9 DEF Change
<1>10. QED
  BY <1>1, <1>2, <1>3, <1>4, <1>5, <1>6, <1>7, <1>8, <1>9 DEF Next

(* Every variable of the loop keeps its type. *)
THEOREM TypeCorrect == Spec => []TypeOK
<1>1. Init => Switches
  BY DEF Init, Switches
<1>2. RunInv /\ Switches => TypeOK
  BY DEF RunInv, TypeOK
<1>3. QED
  BY <1>1, <1>2, RunInvHolds, NextSwitches, PTL DEF Spec

(* Passes never overlap, and a cleanup comes after the last of them. *)
THEOREM NeverTwoPasses == Spec => []OneAtATime
<1>1. RunInv => OneAtATime
  BY DEF RunInv
<1>2. QED
  BY RunInvHolds, <1>1, PTL

LEMMA NextNoLostRequest ==
  Places /\ NoLostRequest /\ [Next]_vars => NoLostRequest'
<1> SUFFICES ASSUME Places, NoLostRequest, [Next]_vars PROVE NoLostRequest'
  OBVIOUS
<1> USE DEF Places, NoLostRequest
<1>1. CASE UNCHANGED vars
  BY <1>1 DEF vars, control
<1>2. CASE Main
  <2>1. ASSUME NEW ok \in BOOLEAN, FirstPassReads(ok) PROVE NoLostRequest'
    BY <2>1 DEF FirstPassReads, SourceRead
  <2>2. CASE FirstPassEnds
    BY <2>2 DEF FirstPassEnds
  <2>3. CASE StartGoroutines
    BY <2>3 DEF StartGoroutines
  <2>4. CASE TellReady
    BY <2>4 DEF TellReady
  <2>5. CASE OpenStream
    BY <2>5 DEF OpenStream
  <2>6. CASE BackoffEnds
    BY <2>6 DEF BackoffEnds
  <2>7. CASE LoopEnds
    BY <2>7 DEF LoopEnds
  <2>8. CASE Return
    BY <2>8 DEF Return
  <2>9. CASE CleanupEnds
    BY <2>9 DEF CleanupEnds
  <2>10. QED
    BY <1>2, <2>1, <2>2, <2>3, <2>4, <2>5, <2>6, <2>7, <2>8, <2>9 DEF Main
<1>3. CASE Worker
  <2>1. CASE WorkerTakes
    BY <2>1 DEF WorkerTakes
  <2>2. CASE WorkerEndsPass
    BY <2>2 DEF WorkerEndsPass
  <2>3. CASE WorkerReturns
    BY <2>3 DEF WorkerReturns
  <2>4. ASSUME NEW ok \in BOOLEAN, WorkerReads(ok) PROVE NoLostRequest'
    BY <2>4 DEF WorkerReads, SourceRead
  <2>5. QED
    BY <1>3, <2>1, <2>2, <2>3, <2>4 DEF Worker
<1>4. CASE Ticker
  <2>1. CASE Tick
    BY <2>1 DEF Tick, Request
  <2>2. CASE TickerReturns
    BY <2>2 DEF TickerReturns
  <2>3. QED
    BY <1>4, <2>1, <2>2 DEF Ticker
<1>5. CASE Stream
  <2>1. CASE StreamOpens
    BY <2>1 DEF StreamOpens
  <2>2. CASE Notify
    BY <2>2 DEF Notify, Request
  <2>3. CASE StreamEnds
    BY <2>3 DEF StreamEnds
  <2>4. QED
    BY <1>5, <2>1, <2>2, <2>3 DEF Stream
<1>6. CASE Interrupted
  BY <1>6 DEF Interrupted
<1>7. CASE Cancel
  BY <1>7 DEF Cancel
<1>8. CASE Killed
  BY <1>8 DEF Killed
<1>9. CASE Change
  BY <1>9 DEF Change
<1>10. QED
    BY <1>1, <1>2, <1>3, <1>4, <1>5, <1>6, <1>7, <1>8, <1>9 DEF Next

(* A request is not lost by being coalesced with the one already waiting.  *)
(* The types are all it rests on: whoever empties the channel is about to  *)
(* read, and the first pass is over before the worker starts.              *)
THEOREM NoRequestIsLost == Spec => []NoLostRequest
<1>1. Init => NoLostRequest
  BY DEF Init, NoLostRequest
<1>2. RunInv => Places
  BY DEF RunInv
<1>3. QED
  BY <1>1, <1>2, RunInvHolds, NextNoLostRequest, PTL DEF Spec

(* Once Run has returned no goroutine of its ever moves again: nothing     *)
(* writes to the gateway behind a cleanup.                                 *)
THEOREM NothingRunsOn == Spec => NothingAfterReturn
<1>1. RunInv /\ [Next]_vars =>
        [(main \in {"cleaning", "exited"}) => UNCHANGED <<worker, ticker>>]_vars
  <2> SUFFICES ASSUME RunInv, Next, main \in {"cleaning", "exited"}
               PROVE  UNCHANGED <<worker, ticker>>
    OBVIOUS
  <2>1. worker = "ended" /\ ticker = "ended" /\ stream = "closed"
    BY DEF RunInv, Places, Quiet
  <2>2. CASE Main
    BY <2>2 DEF Main, FirstPassReads, FirstPassEnds, StartGoroutines, TellReady,
                OpenStream, BackoffEnds, LoopEnds, Return, CleanupEnds
  <2>3. CASE Worker \/ Ticker
    BY <2>1, <2>3 DEF Worker, WorkerTakes, WorkerReads, WorkerEndsPass, WorkerReturns,
                      Ticker, Tick, TickerReturns
  <2>4. CASE Stream
    BY <2>1, <2>4 DEF Stream, StreamOpens, Notify, StreamEnds
  <2>5. CASE Interrupted \/ Cancel \/ Killed \/ Change
    BY <2>5 DEF Interrupted, Cancel, Killed, Change
  <2>6. QED
    BY <2>2, <2>3, <2>4, <2>5 DEF Next
<1>2. QED
  BY RunInvHolds, <1>1, PTL DEF Spec, NothingAfterReturn

-----------------------------------------------------------------------------
(* The refinement.  Each step of the loop is a step of OnDemand or leaves  *)
(* what OnDemand speaks of alone.                                          *)

LEMMA InitRefines == Init => Promise!Init
  BY DEF Init, Promise!Init, PassInFlight, Standing, Alive

LEMMA StepRefines == RunInv /\ [Next]_vars => [Promise!Next]_(Promise!vars)
<1> SUFFICES ASSUME RunInv, [Next]_vars PROVE [Promise!Next]_(Promise!vars)
  OBVIOUS
<1> USE DEF RunInv, Places, Quiet, PassInFlight, Standing, Alive, Promise!vars
<1>1. CASE UNCHANGED vars
  BY <1>1 DEF vars, control
<1>2. CASE Main
  <2>1. ASSUME NEW ok \in BOOLEAN, FirstPassReads(ok)
        PROVE  [Promise!Next]_(Promise!vars)
    BY <2>1 DEF FirstPassReads, SourceRead, Over, Promise!Read, Promise!Next
  <2>2. CASE FirstPassEnds
    BY <2>2 DEF FirstPassEnds, Over, Promise!End, Promise!Next
  <2>3. CASE StartGoroutines
    BY <2>3 DEF StartGoroutines, Over
  <2>4. CASE TellReady
    BY <2>4 DEF TellReady, Over
  <2>5. CASE OpenStream
    BY <2>5 DEF OpenStream, Over
  <2>6. CASE BackoffEnds
    BY <2>6 DEF BackoffEnds, Over
  <2>7. CASE LoopEnds
    BY <2>7 DEF LoopEnds, Over
  <2>8. CASE Return
    BY <2>8 DEF Return, Over, Promise!Return, Promise!Next
  <2>9. CASE CleanupEnds
    BY <2>9 DEF CleanupEnds, Over
  <2>10. QED
    BY <1>2, <2>1, <2>2, <2>3, <2>4, <2>5, <2>6, <2>7, <2>8, <2>9 DEF Main
<1>3. CASE Worker
  <2>1. CASE WorkerTakes
    BY <2>1 DEF WorkerTakes, Over, Promise!Begin, Promise!Next
  <2>2. ASSUME NEW ok \in BOOLEAN, WorkerReads(ok)
        PROVE  [Promise!Next]_(Promise!vars)
    BY <2>2 DEF WorkerReads, SourceRead, Over, Promise!Read, Promise!Next
  <2>3. CASE WorkerEndsPass
    BY <2>3 DEF WorkerEndsPass, Over, Promise!End, Promise!Next
  <2>4. CASE WorkerReturns
    BY <2>4 DEF WorkerReturns, Over
  <2>5. QED
    BY <1>3, <2>1, <2>2, <2>3, <2>4 DEF Worker
<1>4. CASE Ticker
  <2>1. CASE Tick
    BY <2>1 DEF Tick, Request, Over, Promise!Ask, Promise!Next
  <2>2. CASE TickerReturns
    BY <2>2 DEF TickerReturns, Over
  <2>3. QED
    BY <1>4, <2>1, <2>2 DEF Ticker
<1>5. CASE Stream
  <2>1. CASE StreamOpens
    BY <2>1 DEF StreamOpens, Over
  <2>2. CASE Notify
    BY <2>2 DEF Notify, Request, Over, Promise!Ask, Promise!Next
  <2>3. CASE StreamEnds
    BY <2>3 DEF StreamEnds, Over
  <2>4. QED
    BY <1>5, <2>1, <2>2, <2>3 DEF Stream
<1>6. CASE Interrupted
  BY <1>6 DEF Interrupted, Over
<1>7. CASE Cancel
  BY <1>7 DEF Cancel, Over
<1>8. CASE Killed
  BY <1>8 DEF Killed, Over, Promise!Die, Promise!Next
<1>9. CASE Change
  BY <1>9 DEF Change, Over
<1>10. QED
  BY <1>1, <1>2, <1>3, <1>4, <1>5, <1>6, <1>7, <1>8, <1>9 DEF Next

(* Run implements module OnDemand as far as safety goes: passes that never *)
(* overlap, each answering every request made before it read the source,   *)
(* and none once Run has returned.  Module OnDemand's fairness, that each  *)
(* request is answered at last, is TLC's (KeepsPromise).                   *)
THEOREM Refinement == Spec => Promise!Spec
<1>1. Init => Promise!Init
  BY InitRefines
<1>2. RunInv /\ [Next]_vars => [Promise!Next]_(Promise!vars)
  BY StepRefines
<1>3. QED
  BY <1>1, <1>2, RunInvHolds, PTL DEF Spec, Promise!Spec
==============================================================================
