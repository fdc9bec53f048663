-------------------------------- MODULE Helper --------------------------------
(***************************************************************************)
(* A request made from inside a container's network (internal/docker):     *)
(* ViaContainer runs a helper container that performs it, RunInNetworkOf    *)
(* creates it, starts it, reads what it prints, waits for its status and   *)
(* removes it, each an order to Docker that may be late, refused, carried  *)
(* out without an answer, or carried out after the program stopped         *)
(* waiting.  A Portical makes one such call at a time.                     *)
(***************************************************************************)
EXTENDS Naturals, FiniteSets

CONSTANTS MaxCalls,  \* the bound on how many calls are made
          Faults     \* what may go wrong: see FaultKinds

FaultKinds == {"refused", "answer_lost", "silent", "crash", "unreachable", "killed"}

ASSUME HelperAssumption == MaxCalls \in Nat \ {0} /\ Faults \subseteq FaultKinds

Calls == 1 .. MaxCalls
Ops == {"create", "start", "wait", "remove"}

VARIABLES
  call,       \* how many calls have been made; the last is under way unless idle
  pc,         \* "idle", "logs", or the order whose answer is awaited
  answer,     \* what Docker answered it: "none" yet, "ok" or "refused"
  output,     \* what was read of the helper's output
  \* Docker.
  orders,     \* what it was asked to do and has not done
  helper,     \* each call's helper container: see HelperStates
  printed,    \* what each has printed
  collected,  \* whether Docker has collected it
  \* History.
  astray,     \* what nobody can see to any more: "created" when it was not
              \* heard that the helper was, "running" when not that it is gone,
              \* or its removal was refused
  trouble,    \* something failed in the call under way
  result      \* what the last call returned

docker == <<orders, helper, printed, collected>>
program == <<call, pc, answer, output, result>>
vars == <<program, docker, astray, trouble>>

(* "asked" is one that has sent its request to the gateway. *)
HelperStates == {"none", "created", "running", "asked", "exited", "failed", "gone"}
Outputs == {"nothing", "response", "relay_failed"}
Ended(c) == helper[c] \in {"exited", "failed"}

Order(op) == [op |-> op, call |-> call]

(* The next order is sent, and its answer awaited. *)
Send(op) == pc' = op /\ answer' = "none" /\ orders' = orders \cup {Order(op)}

Return(what) == pc' = "idle" /\ answer' = "none" /\ result' = what /\ UNCHANGED orders

-----------------------------------------------------------------------------
(* RunInNetworkOf and ViaContainer. *)

Create ==
  /\ pc = "idle" /\ call < MaxCalls
  /\ call' = call + 1 /\ output' = "nothing" /\ trouble' = FALSE
  /\ pc' = "create" /\ answer' = "none"
  /\ orders' = orders \cup {[op |-> "create", call |-> call + 1]}
  /\ UNCHANGED <<helper, printed, collected, astray, result>>

CreateRefused ==
  /\ pc = "create" /\ answer = "refused"
  /\ Return("failed")
  /\ UNCHANGED <<call, output, helper, printed, collected, astray, trouble>>

(* From here on the removal is deferred. *)
Start ==
  /\ pc = "create" /\ answer = "ok"
  /\ Send("start")
  /\ UNCHANGED <<call, output, result, helper, printed, collected, astray, trouble>>

(* Wrong: a helper that did not start is nothing to remove. *)
Fails_NeverStarted ==
  /\ IF pc = "start" THEN Return("failed") ELSE Send("remove") /\ result' = "failed"
  /\ UNCHANGED <<call, output, helper, printed, collected, astray>>

(* The call has failed, and returns once the helper is removed. *)
Fails ==
  /\ Send("remove") /\ result' = "failed"
  /\ UNCHANGED <<call, output, helper, printed, collected, astray>>

StartRefused == pc = "start" /\ answer = "refused" /\ Fails /\ UNCHANGED trouble

Follow ==
  /\ pc = "start" /\ answer = "ok"
  /\ pc' = "logs" /\ answer' = "none"
  /\ UNCHANGED <<call, output, result, docker, astray, trouble>>

(* Wrong: what has been collected by the time the process ends is read. *)
ReadAll_AtExit ==
  /\ pc = "logs" /\ Ended(call)
  /\ output' = IF collected[call] THEN printed[call] ELSE "nothing"
  /\ Send("wait")
  /\ UNCHANGED <<call, result, helper, printed, collected, astray, trouble>>

(* With follow=1 the response is open until the process has ended and all  *)
(* it printed is collected.                                                *)
ReadAll ==
  /\ pc = "logs" /\ Ended(call) /\ collected[call]
  /\ output' = printed[call]
  /\ Send("wait")
  /\ UNCHANGED <<call, result, helper, printed, collected, astray, trouble>>

(* The helper exited with a status other than 0. *)
WaitedInVain == pc = "wait" /\ answer = "refused" /\ Fails /\ UNCHANGED trouble

(* ParseRelayOutput, of what will be returned once the helper is removed. *)
Waited ==
  /\ pc = "wait" /\ answer = "ok"
  /\ Send("remove")
  /\ result' = IF output = "nothing" THEN "failed" ELSE output
  /\ UNCHANGED <<call, output, helper, printed, collected, astray, trouble>>

(* What answers the removal, if not nothing, is of no interest. *)
Removed ==
  /\ pc = "remove" /\ answer # "none"
  /\ Return(result)
  /\ UNCHANGED <<call, output, helper, printed, collected, astray, trouble>>

Client ==
  \/ CreateRefused \/ Start \/ StartRefused \/ Follow
  \/ ReadAll \/ Waited \/ WaitedInVain \/ Removed

(* Wrong: the output is read for as long as it takes. *)
Bounded_NotLogs == {"create", "start", "wait", "remove"}

(* What has a timeout: each order RequestTimeout, and all but the removal   *)
(* RelayRequestTimeout together.                                           *)
Bounded == {"create", "start", "logs", "wait", "remove"}

(* Docker is silent for too long, or the connection to it breaks. *)
GiveUp ==
  /\ pc \in Bounded /\ answer = "none" /\ "silent" \in Faults
  /\ trouble' = TRUE
  /\ \/ /\ pc = "create" /\ Return("failed")
        /\ astray' = [astray EXCEPT ![call] = "created"]
        /\ UNCHANGED <<call, output, helper, printed, collected>>
     \/ /\ pc \in {"start", "logs", "wait"}
        /\ Fails
     \/ /\ pc = "remove" /\ Return(result)
        /\ astray' = [astray EXCEPT ![call] = "running"]
        /\ UNCHANGED <<call, output, helper, printed, collected>>

(* The process is killed, and the next one knows nothing of its helpers. *)
Killed ==
  /\ pc # "idle" /\ "killed" \in Faults
  /\ Return("failed") /\ trouble' = TRUE
  /\ astray' = [astray EXCEPT ![call] = IF pc = "create" THEN "created" ELSE "running"]
  /\ UNCHANGED <<call, output, helper, printed, collected>>

-----------------------------------------------------------------------------
(* Docker, which is external. *)

Becomes(c, state) == helper' = [helper EXCEPT ![c] = state]

(* Docker has dealt with an order, and answers it unless nobody waits any  *)
(* more or the answer is lost.                                             *)
Answers(o, what) ==
  /\ orders' = orders \ {o}
  /\ \/ o = Order(pc) /\ answer' = what /\ trouble' = (trouble \/ what = "refused")
     \/ o = Order(pc) /\ "answer_lost" \in Faults /\ answer' = answer /\ trouble' = TRUE
     \/ o # Order(pc) /\ UNCHANGED <<answer, trouble>>
  /\ UNCHANGED <<call, pc, output, result, printed, collected>>

Refuses(o) ==
  /\ "refused" \in Faults /\ Answers(o, "refused") /\ UNCHANGED helper
  /\ astray' = IF o.op = "remove" THEN [astray EXCEPT ![o.call] = "running"] ELSE astray

Does(o, state) ==
  Becomes(o.call, state) /\ Answers(o, "ok") /\ UNCHANGED astray

Creates(c) ==
  \E o \in orders : /\ o = [op |-> "create", call |-> c]
                    /\ Does(o, "created") \/ Refuses(o)

(* A container that is gone cannot be started; one whose network's owner   *)
(* has stopped need not.                                                   *)
Starts(c) ==
  \E o \in orders : /\ o = [op |-> "start", call |-> c]
                    /\ \/ helper[c] = "created" /\ Does(o, "running")
                       \/ /\ helper[c] = "gone" /\ Answers(o, "refused")
                          /\ UNCHANGED <<helper, astray>>
                       \/ Refuses(o)

WaitsFor(c) ==
  \E o \in orders : /\ o = [op |-> "wait", call |-> c]
                    /\ Ended(c) \/ helper[c] = "gone"
                    /\ Answers(o, IF helper[c] = "exited" THEN "ok" ELSE "refused")
                    /\ UNCHANGED <<helper, astray>>

(* Wrong: removing without force, which a running container refuses. *)
Removes_Unforced(c) ==
  \E o \in orders : /\ o = [op |-> "remove", call |-> c]
                    /\ IF helper[c] \in {"running", "asked"}
                       THEN Answers(o, "refused") /\ UNCHANGED <<helper, astray>>
                       ELSE Does(o, "gone")

(* With force=1 a running container is killed first. *)
Removes(c) ==
  \E o \in orders : /\ o = [op |-> "remove", call |-> c]
                    /\ Does(o, "gone") \/ Refuses(o)

Collects(c) ==
  /\ helper[c] # "gone" /\ printed[c] # "nothing" /\ ~collected[c]
  /\ collected' = [collected EXCEPT ![c] = TRUE]
  /\ UNCHANGED <<program, orders, helper, printed, astray, trouble>>

-----------------------------------------------------------------------------
(* RunRelay, in the helper. *)

AsksGateway(c) ==
  /\ helper[c] = "running" /\ printed[c] = "nothing" /\ Becomes(c, "asked")
  /\ UNCHANGED <<program, orders, printed, collected, astray, trouble>>

Prints(c, what) ==
  /\ printed' = [printed EXCEPT ![c] = what] /\ Becomes(c, "running")
  /\ trouble' = (trouble \/ (c = call /\ what = "relay_failed"))
  /\ UNCHANGED <<program, orders, collected, astray>>

Relays(c) == helper[c] = "asked" /\ printed[c] = "nothing" /\ Prints(c, "response")

(* The gateway could not be reached, or did not answer in RelayTimeout. *)
RelayFails(c) ==
  /\ helper[c] \in {"running", "asked"} /\ printed[c] = "nothing"
  /\ "unreachable" \in Faults /\ Prints(c, "relay_failed")

Exits(c) ==
  /\ helper[c] = "running" /\ printed[c] # "nothing" /\ Becomes(c, "exited")
  /\ UNCHANGED <<program, orders, printed, collected, astray, trouble>>

(* It is killed, or its image is not one that relays. *)
Crashes(c) ==
  /\ helper[c] \in {"running", "asked"} /\ "crash" \in Faults
  /\ Becomes(c, "failed") /\ trouble' = (trouble \/ c = call)
  /\ collected' = [collected EXCEPT ![c] = TRUE]
  /\ UNCHANGED <<program, orders, printed, astray>>

-----------------------------------------------------------------------------
Init ==
  /\ call = 0 /\ pc = "idle" /\ answer = "none" /\ output = "nothing"
  /\ orders = {} /\ helper = [c \in Calls |-> "none"]
  /\ printed = [c \in Calls |-> "nothing"] /\ collected = [c \in Calls |-> FALSE]
  /\ astray = [c \in Calls |-> "no"] /\ trouble = FALSE /\ result = "none"

(* No more calls are made: the bound on them is reached. *)
BoundReached == pc = "idle" /\ call = MaxCalls /\ UNCHANGED vars

Next ==
  \/ BoundReached \/ Create \/ Client \/ GiveUp \/ Killed
  \/ \E c \in Calls :
       \/ Creates(c) \/ Starts(c) \/ WaitsFor(c) \/ Removes(c) \/ Collects(c)
       \/ AsksGateway(c) \/ Relays(c) \/ RelayFails(c) \/ Exits(c) \/ Crashes(c)

Spec == Init /\ [][Next]_vars

(* Timeouts run out; of Docker nothing is assumed. *)
FairSpec == Spec /\ WF_vars(Client) /\ WF_vars(GiveUp)

-----------------------------------------------------------------------------
(* Properties. *)

(* Every variable has its type. *)
TypeOK ==
  /\ call \in 0 .. MaxCalls /\ pc \in Bounded \cup {"idle"}
  /\ answer \in {"none", "ok", "refused"} /\ output \in Outputs
  /\ orders \subseteq [op: Ops, call: Calls]
  /\ helper \in [Calls -> HelperStates] /\ printed \in [Calls -> Outputs]
  /\ collected \in [Calls -> BOOLEAN] /\ trouble \in BOOLEAN
  /\ astray \in [Calls -> {"no", "created", "running"}]
  /\ result \in {"none", "failed"} \cup Outputs

(* No helper outlives its call, however it failed, except one whose        *)
(* creation was not heard of, or whose removal was not, or was refused.    *)
NothingLeftBehind ==
  pc = "idle" => \A c \in Calls : helper[c] \in {"none", "gone"} \/ astray[c] # "no"

(* The gateway is asked nothing by a call that has returned, unless the    *)
(* removal of its helper came to nothing: what Daemon takes a request      *)
(* for, carried out before the next or never.  A helper whose creation was  *)
(* not heard of may be left, but never asks.                               *)
NothingIsAskedLate ==
  [][\A c \in Calls : helper[c] # "asked" /\ helper'[c] = "asked" =>
       (c = call /\ pc # "idle") \/ astray[c] = "running"]_vars

(* A call fails only because something failed: that the process ends, its  *)
(* output is collected and its status is known in any order is no reason.  *)
FailsForAReason == pc = "idle" /\ result = "failed" => trouble

(* Whatever Docker does or leaves undone, a call ends, and so the pass does. *)
CallsEnd == pc # "idle" ~> pc = "idle"
==============================================================================
