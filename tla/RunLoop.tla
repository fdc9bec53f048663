------------------------------ MODULE RunLoop --------------------------------
(***************************************************************************)
(* Daemon.Run, and cli.run around it: when passes happen.  One goroutine   *)
(* follows the source's event stream, one ticks, and both only ask for a   *)
(* pass, through a channel with room for one request; a third takes the    *)
(* requests and makes the passes.  The first pass comes before any of      *)
(* them, a signal cancels them, and a cleanup may follow.                  *)
(*                                                                         *)
(* What a pass does is module Daemon's subject.  Here it is two steps,     *)
(* reading the source and everything after, because a change is only sure  *)
(* to be acted on by a pass that read the source after it.                 *)
(***************************************************************************)
EXTENDS Naturals

CONSTANT CleanupOnExit  \* the option, when this is not a dry run

ASSUME CleanupAssumption == CleanupOnExit \in BOOLEAN

VARIABLES
  main,       \* where the goroutine that called Run is
  worker,     \* the goroutine that makes the passes
  ticker,     \* the goroutine that keeps the interval
  requested,  \* whether the channel holds its one request
  signal,     \* "none", or "released": caught, and the handler released
  cancelled,  \* whether ctx is done
  stream,     \* the source's events: "closed", "opening" or "open"
  pending,    \* an event is on the open stream and not yet notified
  ready,      \* whether Ready has been told
  \* History: none of it is held by the program.
  outdated,   \* something changed that no pass has read since
  owed        \* a pass was asked for and none has read the source since

control == <<main, worker, ticker, requested, signal, cancelled, stream, pending, ready>>
vars == <<control, outdated, owed>>

InPass == {"reading", "writing"}
Over == main \in {"exited", "killed"}

(* Go runs a goroutine until the process dies. *)
Alive == main # "killed"

-----------------------------------------------------------------------------
(* Wrong: a channel without room drops what is asked during a pass. *)
Request_NoRoom == requested' = (requested \/ worker = "waiting") /\ owed' = TRUE

(* request: asked of a full channel, it changes nothing. *)
Request == requested' = TRUE /\ owed' = TRUE

(* What reading the source, well or badly, settles. *)
SourceRead(ok) ==
  /\ owed' = FALSE
  /\ outdated' = (outdated /\ ~ok)

(* The first pass, made by the caller of Run before anything is watched. *)
FirstPassReads(ok) ==
  /\ main = "reading"
  /\ SourceRead(ok)
  /\ main' = IF ok THEN "writing" ELSE "starting"
  /\ UNCHANGED <<worker, ticker, requested, signal, cancelled, stream, pending, ready>>

FirstPassEnds ==
  /\ main = "writing"
  /\ main' = "starting"
  /\ UNCHANGED <<worker, ticker, requested, signal, cancelled, stream, pending,
                 ready, outdated, owed>>

(* wg.Go, twice. *)
StartGoroutines ==
  /\ main = "starting"
  /\ main' = "telling"
  /\ worker' = "waiting" /\ ticker' = "sleeping"
  /\ UNCHANGED <<requested, signal, cancelled, stream, pending, ready, outdated,
                 owed>>

TellReady ==
  /\ main = "telling"
  /\ main' = "looping"
  /\ ready' = TRUE
  /\ UNCHANGED <<worker, ticker, requested, signal, cancelled, stream, pending,
                 outdated, owed>>

-----------------------------------------------------------------------------
(* The worker: select between ctx.Done and a request, at random when both  *)
(* are ready, so a pass may still begin after the cancellation.            *)
WorkerTakes ==
  /\ Alive /\ worker = "waiting" /\ requested
  /\ worker' = "reading"
  /\ requested' = FALSE
  /\ UNCHANGED <<main, ticker, signal, cancelled, stream, pending, ready, outdated,
                 owed>>

(* Wrong: a pass that fails is fatal. *)
WorkerReads_GivesUp(ok) ==
  /\ Alive /\ worker = "reading"
  /\ SourceRead(ok)
  /\ worker' = IF ok THEN "writing" ELSE "ended"
  /\ UNCHANGED <<main, ticker, requested, signal, cancelled, stream, pending, ready>>

WorkerReads(ok) ==
  /\ Alive /\ worker = "reading"
  /\ SourceRead(ok)
  /\ worker' = IF ok THEN "writing" ELSE "waiting"
  /\ UNCHANGED <<main, ticker, requested, signal, cancelled, stream, pending, ready>>

(* Wrong: the requests that came during a pass are taken to be met by it. *)
WorkerEndsPass_Drains ==
  /\ Alive /\ worker = "writing"
  /\ worker' = "waiting" /\ requested' = FALSE
  /\ UNCHANGED <<main, ticker, signal, cancelled, stream, pending, ready, outdated,
                 owed>>

WorkerEndsPass ==
  /\ Alive /\ worker = "writing"
  /\ worker' = "waiting"
  /\ UNCHANGED <<main, ticker, requested, signal, cancelled, stream, pending, ready,
                 outdated, owed>>

WorkerReturns ==
  /\ Alive /\ worker = "waiting" /\ cancelled
  /\ worker' = "ended"
  /\ UNCHANGED <<main, ticker, requested, signal, cancelled, stream, pending, ready,
                 outdated, owed>>

(* The ticker: the interval may also run out just as ctx is cancelled. *)
Tick ==
  /\ Alive /\ ticker = "sleeping"
  /\ Request
  /\ UNCHANGED <<main, worker, ticker, signal, cancelled, stream, pending, ready,
                 outdated>>

(* Wrong: the interval is slept out whatever becomes of ctx. *)
TickerReturns_Never == FALSE

TickerReturns ==
  /\ Alive /\ ticker = "sleeping" /\ cancelled
  /\ ticker' = "ended"
  /\ UNCHANGED <<main, worker, requested, signal, cancelled, stream, pending, ready,
                 outdated, owed>>

-----------------------------------------------------------------------------
(* The loop that follows the events. *)
OpenStream ==
  /\ main = "looping" /\ ~cancelled
  /\ main' = "following"
  /\ stream' = "opening"
  /\ UNCHANGED <<worker, ticker, requested, signal, cancelled, pending, ready,
                 outdated, owed>>

StreamOpens ==
  /\ stream = "opening" /\ Alive
  /\ stream' = "open"
  /\ UNCHANGED <<main, worker, ticker, requested, signal, cancelled, pending, ready,
                 outdated, owed>>

Notify ==
  /\ stream = "open" /\ pending /\ Alive
  /\ pending' = FALSE
  /\ Request
  /\ UNCHANGED <<main, worker, ticker, signal, cancelled, stream, ready, outdated>>

(* Events returns: the stream dropped, or ctx was cancelled.  What was on   *)
(* it is lost.                                                             *)
StreamEnds ==
  /\ main = "following"
  /\ main' = IF cancelled THEN "waiting" ELSE "backoff"
  /\ stream' = "closed" /\ pending' = FALSE
  /\ UNCHANGED <<worker, ticker, requested, signal, cancelled, ready, outdated, owed>>

BackoffEnds ==
  /\ main = "backoff"
  /\ main' = "looping"
  /\ UNCHANGED <<worker, ticker, requested, signal, cancelled, stream, pending, ready,
                 outdated, owed>>

LoopEnds ==
  /\ main = "looping" /\ cancelled
  /\ main' = "waiting"
  /\ UNCHANGED <<worker, ticker, requested, signal, cancelled, stream, pending, ready,
                 outdated, owed>>

(* Wrong: the goroutines are not waited for. *)
Return_NoWait ==
  /\ main = "waiting"
  /\ main' = IF CleanupOnExit THEN "cleaning" ELSE "exited"
  /\ UNCHANGED <<worker, ticker, requested, signal, cancelled, stream, pending, ready,
                 outdated, owed>>

(* wg.Wait, deferred: Run returns. *)
Return ==
  /\ main = "waiting" /\ worker = "ended" /\ ticker = "ended"
  /\ main' = IF CleanupOnExit THEN "cleaning" ELSE "exited"
  /\ UNCHANGED <<worker, ticker, requested, signal, cancelled, stream, pending, ready,
                 outdated, owed>>

CleanupEnds ==
  /\ main = "cleaning"
  /\ main' = "exited"
  /\ UNCHANGED <<worker, ticker, requested, signal, cancelled, stream, pending, ready,
                 outdated, owed>>

-----------------------------------------------------------------------------
(* untilInterrupted, and the world. *)

(* The first signal: the handler is released and Stopping is told ... *)
Interrupted ==
  /\ signal = "none" /\ ~Over
  /\ signal' = "released"
  /\ UNCHANGED <<main, worker, ticker, requested, cancelled, stream, pending, ready,
                 outdated, owed>>

(* ... and only then is ctx cancelled. *)
Cancel ==
  /\ signal = "released" /\ ~cancelled /\ Alive
  /\ cancelled' = TRUE
  /\ UNCHANGED <<main, worker, ticker, requested, signal, stream, pending, ready,
                 outdated, owed>>

(* A second signal meets no handler. *)
Killed ==
  /\ signal = "released" /\ ~Over
  /\ main' = "killed"
  /\ stream' = "closed" /\ pending' = FALSE
  /\ UNCHANGED <<worker, ticker, requested, signal, cancelled, ready, outdated, owed>>

(* Something the source would report changes.  An open stream carries it,  *)
(* most of the time.                                                       *)
Change ==
  /\ ~Over
  /\ outdated' = TRUE
  /\ UNCHANGED pending \/ (stream = "open" /\ pending' = TRUE)
  /\ UNCHANGED <<main, worker, ticker, requested, signal, cancelled, stream, ready,
                 owed>>

-----------------------------------------------------------------------------
Init ==
  /\ main = "reading" /\ worker = "none" /\ ticker = "none"
  /\ requested = FALSE /\ signal = "none" /\ cancelled = FALSE
  /\ stream = "closed" /\ pending = FALSE /\ ready = FALSE
  /\ outdated = TRUE /\ owed = FALSE

Main == \/ \E ok \in BOOLEAN : FirstPassReads(ok)
        \/ FirstPassEnds \/ StartGoroutines \/ TellReady
        \/ OpenStream \/ BackoffEnds \/ LoopEnds \/ Return \/ CleanupEnds
Worker == \/ WorkerTakes \/ WorkerEndsPass \/ WorkerReturns
          \/ \E ok \in BOOLEAN : WorkerReads(ok)
Ticker == Tick \/ TickerReturns
Stream == StreamOpens \/ Notify \/ StreamEnds

Next == Main \/ Worker \/ Ticker \/ Stream \/ Interrupted \/ Cancel \/ Killed \/ Change

Spec == Init /\ [][Next]_vars

(* Every goroutine is scheduled and every wait is bounded: requests by     *)
(* timeouts, Events by ctx, the select by its random choice.  A source     *)
(* that keeps being read is read well at last.  The interval may be so     *)
(* long that it never runs out.                                            *)
Scheduling ==
  /\ WF_vars(Main)
  /\ WF_vars(WorkerTakes) /\ WF_vars(WorkerEndsPass) /\ SF_vars(WorkerReturns)
  /\ WF_vars(\E ok \in BOOLEAN : WorkerReads(ok)) /\ SF_vars(WorkerReads(TRUE))
  /\ SF_vars(TickerReturns)
  /\ WF_vars(Notify) /\ WF_vars(cancelled /\ StreamEnds)
  /\ WF_vars(Cancel)

FairSpec == Spec /\ Scheduling

-----------------------------------------------------------------------------
(* Properties. *)

Switches ==
  /\ requested \in BOOLEAN /\ cancelled \in BOOLEAN /\ pending \in BOOLEAN
  /\ ready \in BOOLEAN /\ outdated \in BOOLEAN /\ owed \in BOOLEAN

Places ==
  /\ main \in {"reading", "writing", "starting", "telling", "looping", "following",
               "backoff", "waiting", "cleaning", "exited", "killed"}
  /\ worker \in {"none", "waiting", "reading", "writing", "ended"}
  /\ ticker \in {"none", "sleeping", "ended"}
  /\ signal \in {"none", "released"}
  /\ stream \in {"closed", "opening", "open"}
  /\ main \in {"reading", "writing", "starting"} => worker = "none" /\ ticker = "none"
  /\ stream # "closed" => main = "following"
  /\ pending => stream = "open"

TypeOK == Switches /\ Places

(* A pass that was asked for is still to come: a request that finds the    *)
(* channel full, or that arrives while a pass is past its reading, is not  *)
(* lost by being coalesced.                                                *)
NoLostRequest ==
  owed => requested \/ worker = "reading"

(* Passes never overlap, and the cleanup comes after the last of them.  *)
OneAtATime ==
  Alive =>
    /\ main \in InPass => worker = "none"
    /\ main \in {"cleaning", "exited"} => worker = "ended"

(* Run has returned only once the pass in flight has finished, and then no *)
(* pass ever begins: nothing writes to the gateway behind a cleanup.       *)
NothingAfterReturn ==
  [][(main \in {"cleaning", "exited"}) => UNCHANGED <<worker, ticker>>]_vars

(* As long as the interval keeps running out, each change is read by some  *)
(* later pass, even one that came while no stream was open, that its       *)
(* stream lost, or whose pass failed.                                      *)
EveryChangeIsRead ==
  WF_vars(Tick) => (outdated ~> (~outdated \/ signal = "released"))

(* A caught signal ends the process, the pass in flight and the cleanup    *)
(* done.                                                                   *)
Stops == signal = "released" ~> Over

(* The loop as its users see it: module OnDemand.  Requests are answered   *)
(* even if the interval never runs out.                                    *)
PassInFlight ==
  IF Alive /\ "reading" \in {main, worker} THEN "unread"
  ELSE IF Alive /\ "writing" \in {main, worker} THEN "read"
  ELSE "none"

Standing ==
  IF main = "killed" THEN "dead"
  ELSE IF main \in {"cleaning", "exited"} THEN "returned" ELSE "open"

Promise == INSTANCE OnDemand WITH asked <- owed, pass <- PassInFlight, run <- Standing

KeepsPromise == Promise!FairSpec
==============================================================================
