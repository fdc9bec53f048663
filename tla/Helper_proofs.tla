---------------------------- MODULE Helper_proofs -----------------------------
(* What is proved of Helper, for any number of calls and any faults. *)
EXTENDS Helper, TLAPS

LEMMA CallsAreNumbers == Calls \subseteq Nat /\ \A c \in Calls : c <= MaxCalls
  BY HelperAssumption DEF Calls

(* The program's part of TypeOK; an answer awaited is one of a call made. *)
ProgramOK ==
  /\ call \in 0 .. MaxCalls /\ pc \in Bounded \cup {"idle"}
  /\ answer \in {"none", "ok", "refused"} /\ output \in Outputs
  /\ result \in {"none", "failed"} \cup Outputs
  /\ pc # "idle" => call \in Calls

DockerOK ==
  /\ orders \subseteq [op: Ops, call: Calls]
  /\ helper \in [Calls -> HelperStates] /\ printed \in [Calls -> Outputs]
  /\ collected \in [Calls -> BOOLEAN]

HistoryOK ==
  /\ trouble \in BOOLEAN
  /\ astray \in [Calls -> {"no", "created", "running"}]

AllOK == ProgramOK /\ DockerOK /\ HistoryOK

LEMMA Sending ==
  ASSUME AllOK, NEW op \in {"start", "wait", "remove"}, Send(op), pc # "idle"
  PROVE  /\ pc' \in Bounded \cup {"idle"} /\ answer' \in {"none", "ok", "refused"}
         /\ orders' \subseteq [op: Ops, call: Calls]
<1>1. Order(op) \in [op: Ops, call: Calls]
  BY DEF AllOK, ProgramOK, Order, Ops
<1> QED
  BY <1>1 DEF AllOK, DockerOK, Send, Bounded

LEMMA ClientSteps ==
  ASSUME AllOK, Create \/ Client
  PROVE  AllOK'
<1> USE DEF AllOK
<1>1. CASE Create
  <2>1. call + 1 \in Calls
    BY <1>1, HelperAssumption DEF Create, ProgramOK, Calls
  <2>2. [op |-> "create", call |-> call + 1] \in [op: Ops, call: Calls]
    BY <2>1 DEF Ops
  <2>3. ProgramOK'
    BY <1>1, <2>1, HelperAssumption DEF Create, ProgramOK, Bounded, Outputs, Calls
  <2>4. DockerOK'
    BY <1>1, <2>2 DEF Create, DockerOK
  <2>5. HistoryOK'
    BY <1>1, Zenon DEF Create, HistoryOK
  <2> QED
    BY <2>3, <2>4, <2>5
<1>2. CASE CreateRefused \/ Follow \/ Removed
  <2>1. ProgramOK'
    BY <1>2 DEF CreateRefused, Follow, Removed, Return, ProgramOK, docker, Bounded, Outputs
  <2>2. DockerOK' /\ HistoryOK'
    BY <1>2 DEF CreateRefused, Follow, Removed, Return, DockerOK, HistoryOK, docker
  <2> QED
    BY <2>1, <2>2
<1>3. CASE Start \/ StartRefused \/ ReadAll \/ WaitedInVain \/ Waited
  <2>1. pc # "idle" /\ \E op \in {"start", "wait", "remove"} : Send(op)
    BY <1>3 DEF Start, StartRefused, ReadAll, WaitedInVain, Waited, Fails
  <2>2. /\ pc' \in Bounded \cup {"idle"} /\ answer' \in {"none", "ok", "refused"}
        /\ orders' \subseteq [op: Ops, call: Calls]
    BY <2>1, Sending
  <2>3. call' = call /\ UNCHANGED <<helper, printed, collected, astray, trouble>>
    BY <1>3 DEF Start, StartRefused, ReadAll, WaitedInVain, Waited, Fails
  <2>4. output' \in Outputs /\ result' \in {"none", "failed"} \cup Outputs
    BY <1>3, <2>1 DEF Start, StartRefused, ReadAll, WaitedInVain, Waited, Fails,
                      ProgramOK, DockerOK
  <2> QED
    BY <2>1, <2>2, <2>3, <2>4 DEF ProgramOK, DockerOK, HistoryOK
<1> QED
  BY <1>1, <1>2, <1>3 DEF Client

LEMMA FaultSteps ==
  ASSUME AllOK, GiveUp \/ Killed
  PROVE  AllOK'
<1> USE DEF AllOK
<1>1. call \in Calls /\ call' = call
  BY DEF GiveUp, Killed, Fails, ProgramOK, Bounded
<1>2. HistoryOK'
  <2>1. trouble' \in BOOLEAN
    BY Zenon DEF GiveUp, Killed
  <2>2. \/ astray' = astray
        \/ astray' = [astray EXCEPT ![call] = "created"]
        \/ astray' = [astray EXCEPT ![call] = "running"]
    BY DEF GiveUp, Killed, Fails
  <2> QED
    BY <1>1, <2>1, <2>2 DEF HistoryOK
<1>3. UNCHANGED <<output, helper, printed, collected>>
  BY DEF GiveUp, Killed, Fails
<1>4. /\ pc' \in Bounded \cup {"idle"} /\ answer' \in {"none", "ok", "refused"}
      /\ orders' \subseteq [op: Ops, call: Calls]
      /\ result' \in {"none", "failed"} \cup Outputs
  <2>1. CASE \E what \in {result, "failed"} : Return(what)
    BY <2>1 DEF Return, ProgramOK, DockerOK, Outputs, Bounded
  <2>2. CASE Fails /\ pc # "idle"
    BY <2>2, Sending DEF Fails
  <2> QED
    BY <2>1, <2>2 DEF GiveUp, Killed, Bounded
<1> QED
  BY <1>1, <1>2, <1>3, <1>4 DEF ProgramOK, DockerOK

LEMMA Answering ==
  ASSUME AllOK, NEW o \in orders, NEW what \in {"ok", "refused"}, Answers(o, what)
  PROVE  /\ ProgramOK' /\ trouble' \in BOOLEAN /\ orders' \subseteq [op: Ops, call: Calls]
         /\ UNCHANGED <<printed, collected>>
<1>1. trouble' \in BOOLEAN
  BY DEF Answers, AllOK, HistoryOK
<1>2. ProgramOK'
  BY DEF Answers, AllOK, ProgramOK, Bounded
<1> QED
  BY <1>1, <1>2 DEF Answers, AllOK, DockerOK

LEMMA DockerSteps ==
  ASSUME AllOK, NEW c \in Calls, Creates(c) \/ Starts(c) \/ WaitsFor(c) \/ Removes(c)
  PROVE  AllOK'
<1>1. PICK o \in orders, what \in {"ok", "refused"} :
        /\ Answers(o, what)
        /\ helper' \in {helper} \cup {[helper EXCEPT ![o.call] = s] : s \in HelperStates}
        /\ astray' \in {astray, [astray EXCEPT ![o.call] = "running"]}
  BY DEF Creates, Starts, WaitsFor, Removes, Does, Refuses, Becomes, HelperStates
<1>2. o.call \in Calls
  BY <1>1 DEF AllOK, DockerOK
<1>3. /\ ProgramOK' /\ trouble' \in BOOLEAN /\ orders' \subseteq [op: Ops, call: Calls]
      /\ UNCHANGED <<printed, collected>>
  BY <1>1, Answering
<1> QED
  BY <1>1, <1>2, <1>3 DEF AllOK, DockerOK, HistoryOK

LEMMA HelperSteps ==
  ASSUME AllOK, NEW c \in Calls,
         Collects(c) \/ AsksGateway(c) \/ Relays(c) \/ RelayFails(c) \/ Exits(c) \/ Crashes(c)
  PROVE  AllOK'
<1>1. ProgramOK' /\ UNCHANGED <<orders, astray>>
  BY DEF AllOK, ProgramOK, Bounded, program, Collects, AsksGateway, Relays, RelayFails,
         Exits, Crashes, Prints
<1>2. trouble' \in BOOLEAN
  BY DEF AllOK, HistoryOK, Collects, AsksGateway, Relays, RelayFails, Exits, Crashes, Prints
<1>3. helper' \in [Calls -> HelperStates]
  BY DEF AllOK, DockerOK, Collects, AsksGateway, Relays, RelayFails, Exits, Crashes, Prints,
         Becomes, HelperStates
<1>4. printed' \in [Calls -> Outputs]
  BY DEF AllOK, DockerOK, Collects, AsksGateway, Relays, RelayFails, Exits, Crashes, Prints,
         Outputs
<1>5. collected' \in [Calls -> BOOLEAN]
  BY DEF AllOK, DockerOK, Collects, AsksGateway, Relays, RelayFails, Exits, Crashes, Prints
<1> QED
  BY <1>1, <1>2, <1>3, <1>4, <1>5 DEF AllOK, DockerOK, HistoryOK

(* What has become of a call's helper.  A call that is over, whose helper   *)
(* is not astray, has had it removed or had its creation refused; one not  *)
(* heard to be created is never started.                                   *)
Sent(op, c) == [op |-> op, call |-> c] \in orders
Past(c) == c < call \/ (c = call /\ pc = "idle")

Untouched(c) == helper[c] = "none" /\ astray[c] = "no" /\ \A op \in Ops : ~Sent(op, c)
NeverStarted(c) ==
  helper[c] \in {"none", "created"} /\ ~Sent("start", c) /\ ~Sent("remove", c)

LifeOK(c) ==
  /\ c > call => Untouched(c)
  /\ Sent("create", c) => helper[c] = "none" /\ ~Sent("remove", c)
  /\ astray[c] = "created" => Past(c) /\ NeverStarted(c)
  /\ Past(c) /\ astray[c] = "no" => helper[c] \in {"none", "gone"} /\ ~Sent("create", c)
  /\ c = call /\ pc = "create" =>
       /\ NeverStarted(c) /\ astray[c] = "no"
       /\ answer # "none" => ~Sent("create", c)
       /\ answer = "refused" => helper[c] = "none"
  /\ c = call /\ pc \in {"start", "logs", "wait", "remove"} => ~Sent("create", c)
  /\ c = call /\ pc = "remove" /\ answer # "none" /\ astray[c] = "no" => helper[c] = "gone"

LivesOK == \A c \in Calls : LifeOK(c)

LEMMA ClientLives ==
  ASSUME AllOK, LivesOK, Create \/ Client
  PROVE  LivesOK'
<1> SUFFICES ASSUME NEW c \in Calls PROVE LifeOK(c)'
  BY DEF LivesOK
<1> c \in Nat /\ call \in Nat /\ LifeOK(c)
  BY CallsAreNumbers DEF LivesOK, AllOK, ProgramOK
<1> USE DEF LifeOK, Untouched, NeverStarted, Past, Sent
<1>1. CASE Create
  BY <1>1 DEF Create, Ops
<1>2. CASE CreateRefused \/ Removed
  BY <1>2 DEF CreateRefused, Removed, Return, Ops
<1>3. CASE Start
  BY <1>3 DEF Start, Send, Order, Ops
<1>4. CASE Follow
  BY <1>4 DEF Follow, docker, Ops
<1>5. CASE StartRefused \/ WaitedInVain \/ Waited
  BY <1>5 DEF StartRefused, WaitedInVain, Waited, Fails, Send, Order, Ops
<1>6. CASE ReadAll
  BY <1>6 DEF ReadAll, Send, Order, Ops
<1> QED
  BY <1>1, <1>2, <1>3, <1>4, <1>5, <1>6 DEF Client

LEMMA FaultLives ==
  ASSUME AllOK, LivesOK, GiveUp \/ Killed
  PROVE  LivesOK'
<1> SUFFICES ASSUME NEW c \in Calls PROVE LifeOK(c)'
  BY DEF LivesOK
<1> c \in Nat /\ call \in Calls /\ call \in Nat /\ LifeOK(c)
  BY CallsAreNumbers DEF LivesOK, AllOK, ProgramOK, GiveUp, Killed, Bounded
<1> astray \in [Calls -> {"no", "created", "running"}]
  BY DEF AllOK, HistoryOK
<1> USE DEF LifeOK, Untouched, NeverStarted, Past, Sent
<1>1. CASE GiveUp /\ pc \in {"create", "remove"}
  BY <1>1 DEF GiveUp, Return, Ops
<1>2. CASE GiveUp /\ pc \in {"start", "logs", "wait"}
  BY <1>2 DEF GiveUp, Fails, Send, Order, Ops
<1>3. CASE Killed
  BY <1>3 DEF Killed, Return, Ops, AllOK, ProgramOK, Bounded
<1> QED
  BY <1>1, <1>2, <1>3 DEF GiveUp, Bounded

(* Docker carries out an order of call d: of other calls nothing changes.   *)
LEMMA DockerLives ==
  ASSUME AllOK, LivesOK, NEW d \in Calls,
         Creates(d) \/ Starts(d) \/ WaitsFor(d) \/ Removes(d)
  PROVE  LivesOK'
<1> SUFFICES ASSUME NEW c \in Calls PROVE LifeOK(c)'
  BY DEF LivesOK
<1> /\ c \in Nat /\ d \in Nat /\ call \in Nat /\ LifeOK(c)
    /\ helper \in [Calls -> HelperStates] /\ astray \in [Calls -> {"no", "created", "running"}]
    /\ orders \subseteq [op: Ops, call: Calls]
  BY CallsAreNumbers DEF LivesOK, AllOK, ProgramOK, DockerOK, HistoryOK
<1> USE DEF LifeOK, Untouched, NeverStarted, Past, Sent
<1>1. CASE Creates(d)
  <2>1. PICK o \in orders : /\ o = [op |-> "create", call |-> d]
                            /\ Does(o, "created") \/ Refuses(o)
    BY <1>1 DEF Creates
  <2>2. orders' = orders \ {o} /\ UNCHANGED <<call, pc>>
    BY <2>1 DEF Does, Refuses, Answers
  <2>3. ~Sent("create", d)' /\ helper[d] = "none"
    BY <2>1, <2>2 DEF LivesOK
  <2>4. \A op \in Ops, e \in Calls : Sent(op, e)' => Sent(op, e)
    BY <2>2
  <2>5. CASE c = d
    BY <2>1, <2>2, <2>3, <2>4, <2>5 DEF Does, Refuses, Answers, Becomes, Order, Ops
  <2>6. CASE c # d
    BY <2>1, <2>2, <2>4, <2>6 DEF Does, Refuses, Answers, Becomes, Order, Ops
  <2> QED
    BY <2>5, <2>6
<1>2. CASE Starts(d)
  BY <1>2 DEF Starts, Does, Refuses, Answers, Becomes, Order, Ops
<1>3. CASE WaitsFor(d)
  BY <1>3 DEF WaitsFor, Answers, Order, Ops
<1>4. CASE Removes(d)
  <2>1. PICK o \in orders : /\ o = [op |-> "remove", call |-> d]
                            /\ Does(o, "gone") \/ Refuses(o)
    BY <1>4 DEF Removes
  <2>2. orders' = orders \ {o} /\ UNCHANGED <<call, pc>>
    BY <2>1 DEF Does, Refuses, Answers
  <2>3. LifeOK(d) /\ Sent("remove", d) /\ ~Sent("remove", d)'
    BY <2>1, <2>2 DEF LivesOK
  <2>4. \A op \in Ops, e \in Calls : Sent(op, e)' => Sent(op, e)
    BY <2>2
  <2>5. CASE c = d
    BY <2>1, <2>2, <2>3, <2>4, <2>5 DEF Does, Refuses, Answers, Becomes, Order, Ops
  <2>6. CASE c # d
    BY <2>1, <2>2, <2>4, <2>6 DEF Does, Refuses, Answers, Becomes, Order, Ops
  <2> QED
    BY <2>5, <2>6
<1> QED
  BY <1>1, <1>2, <1>3, <1>4

LEMMA HelperLives ==
  ASSUME AllOK, LivesOK, NEW d \in Calls,
         Collects(d) \/ AsksGateway(d) \/ Relays(d) \/ RelayFails(d) \/ Exits(d) \/ Crashes(d)
  PROVE  LivesOK'
<1> SUFFICES ASSUME NEW c \in Calls PROVE LifeOK(c)'
  BY DEF LivesOK
<1> LifeOK(c) /\ helper \in [Calls -> HelperStates]
  BY DEF LivesOK, AllOK, DockerOK
<1>1. UNCHANGED <<call, pc, answer, orders, astray>>
  BY DEF program, Collects, AsksGateway, Relays, RelayFails, Exits, Crashes, Prints
<1>2. \/ helper' = helper
      \/ /\ helper[d] \in {"running", "asked"}
         /\ \E s \in {"running", "asked", "exited", "failed"} : helper' = [helper EXCEPT ![d] = s]
  BY DEF Collects, AsksGateway, Relays, RelayFails, Exits, Crashes, Prints, Becomes
<1>3. CASE helper[c] = helper'[c]
  BY <1>1, <1>3 DEF LifeOK, Untouched, NeverStarted, Past, Sent
<1>4. CASE helper[c] # helper'[c]
  <2>1. c = d /\ helper[c] \in {"running", "asked"}
    BY <1>2, <1>4
  <2> QED
    BY <1>1, <2>1 DEF LifeOK, Untouched, NeverStarted, Past, Sent
<1> QED
  BY <1>3, <1>4

LEMMA Invariance == Spec => [](AllOK /\ LivesOK)
<1>1. Init => AllOK
  <2> SUFFICES ASSUME Init PROVE AllOK
    OBVIOUS
  <2>1. ProgramOK
    BY HelperAssumption DEF Init, ProgramOK, Outputs, Bounded
  <2>2. DockerOK
    BY DEF Init, DockerOK, Outputs, HelperStates
  <2>3. HistoryOK
    <3>1. trouble \in BOOLEAN
      BY Zenon DEF Init
    <3> QED
      BY <3>1 DEF Init, HistoryOK
  <2> QED
    BY <2>1, <2>2, <2>3 DEF AllOK
<1>2. Init => LivesOK
  BY CallsAreNumbers DEF Init, LivesOK, LifeOK, Untouched, NeverStarted, Past, Sent, Calls
<1>3. AllOK /\ LivesOK /\ UNCHANGED vars => AllOK' /\ LivesOK'
  BY DEF vars, program, docker, AllOK, ProgramOK, DockerOK, HistoryOK, Bounded,
         LivesOK, LifeOK, Untouched, NeverStarted, Past, Sent
<1>4. AllOK /\ LivesOK /\ [Next]_vars => AllOK' /\ LivesOK'
  BY <1>3, ClientSteps, FaultSteps, DockerSteps, HelperSteps,
     ClientLives, FaultLives, DockerLives, HelperLives DEF Next, BoundReached
<1> QED
  BY <1>1, <1>2, <1>4, PTL DEF Spec

(* Every variable keeps its type, and an answer is only awaited in a call. *)
THEOREM TypeCorrect == Spec => []TypeOK
<1>1. AllOK => TypeOK
  BY DEF AllOK, ProgramOK, DockerOK, HistoryOK, TypeOK
<1> QED
  BY <1>1, Invariance, PTL

(* No helper outlives its call but one that went astray, for any number of *)
(* calls, whatever Docker leaves undone or does too late.                  *)
THEOREM NoHelperIsForgotten == Spec => []NothingLeftBehind
<1>1. AllOK /\ LivesOK => NothingLeftBehind
  BY CallsAreNumbers DEF AllOK, ProgramOK, DockerOK, LivesOK, LifeOK, Untouched, Past,
                         NothingLeftBehind, HistoryOK
<1> QED
  BY <1>1, Invariance, PTL

(* No request reaches the gateway once its call has returned, unless the   *)
(* removal of its helper came to nothing.                                  *)
THEOREM NoLateRequests == Spec => NothingIsAskedLate
<1>1. ASSUME AllOK, LivesOK, NEW c \in Calls, helper[c] # "asked", helper'[c] = "asked",
             [Next]_vars
      PROVE  (c = call /\ pc # "idle") \/ astray[c] = "running"
  <2>1. helper[c] = "running"
    BY <1>1 DEF Next, vars, docker, program, BoundReached, Create, Client, CreateRefused, Start,
                StartRefused, Follow, ReadAll, Waited, WaitedInVain, Removed, Fails, GiveUp,
                Killed, Creates, Starts, WaitsFor, Removes, Does, Refuses, Becomes, Collects,
                AsksGateway, Relays, RelayFails, Exits, Crashes, Prints, AllOK, DockerOK
  <2>2. LifeOK(c) /\ c \in Nat /\ call \in Nat /\ astray[c] \in {"no", "created", "running"}
    BY <1>1, CallsAreNumbers DEF LivesOK, AllOK, ProgramOK, HistoryOK
  <2> QED
    BY <2>1, <2>2 DEF LifeOK, Untouched, NeverStarted, Past
<1>2. AllOK /\ LivesOK /\ [Next]_vars =>
        \A c \in Calls : helper[c] # "asked" /\ helper'[c] = "asked" =>
                         (c = call /\ pc # "idle") \/ astray[c] = "running"
  BY <1>1
<1> QED
  BY <1>2, Invariance, PTL DEF NothingIsAskedLate, Spec

(* Why a call may fail: an order was refused, or the helper was killed, or  *)
(* it printed nothing, which one that exits by itself never does.          *)
Reasons ==
  /\ pc \in {"idle", "remove"} /\ result = "failed" => trouble
  /\ answer = "refused" => trouble
  /\ pc = "wait" /\ output = "nothing" => trouble
  /\ call \in Calls => (helper[call] = "failed" => trouble)
  /\ \A c \in Calls : helper[c] = "exited" => printed[c] # "nothing"

LEMMA ClientReasons ==
  ASSUME AllOK, LivesOK, Reasons, Create \/ Client \/ GiveUp \/ Killed
  PROVE  Reasons'
<1> USE DEF Reasons
<1>1. UNCHANGED <<helper, printed>>
  BY DEF Create, Client, CreateRefused, Start, StartRefused, Follow, ReadAll, Waited,
         WaitedInVain, Removed, Fails, GiveUp, Killed, docker
<1>2. CASE Create
  <2>1. call + 1 \in Calls => helper[call + 1] = "none"
    BY CallsAreNumbers DEF LivesOK, LifeOK, Untouched, AllOK, ProgramOK
  <2> QED
    BY <1>1, <1>2, <2>1 DEF Create
<1>3. CASE CreateRefused \/ Start \/ StartRefused \/ Follow \/ WaitedInVain \/ Waited \/ Removed
  BY <1>1, <1>3 DEF CreateRefused, Start, StartRefused, Follow, WaitedInVain, Waited, Removed,
                    Fails, Send, Return, AllOK, ProgramOK, Outputs
<1>4. CASE ReadAll
  BY <1>1, <1>4 DEF ReadAll, Send, Ended, AllOK, ProgramOK
<1>5. CASE GiveUp \/ Killed
  BY <1>1, <1>5 DEF GiveUp, Killed, Fails, Send, Return
<1> QED
  BY <1>2, <1>3, <1>4, <1>5 DEF Client

LEMMA DockerReasons ==
  ASSUME AllOK, Reasons, NEW c \in Calls,
         Creates(c) \/ Starts(c) \/ WaitsFor(c) \/ Removes(c)
  PROVE  Reasons'
<1>1. PICK o \in orders, what \in {"ok", "refused"} :
        /\ Answers(o, what)
        /\ \/ helper' = helper
           \/ \E s \in {"created", "running", "gone"} : helper' = [helper EXCEPT ![o.call] = s]
  BY DEF Creates, Starts, WaitsFor, Removes, Does, Refuses, Becomes
<1>2. \A d \in Calls : helper'[d] = helper[d] \/ helper'[d] \in {"created", "running", "gone"}
  BY <1>1 DEF AllOK, DockerOK
<1>3. UNCHANGED <<call, pc, output, result, printed>>
  BY <1>1 DEF Answers
<1>4. trouble => trouble'
  BY <1>1, Zenon DEF Answers
<1>5. answer' = "refused" => answer = "refused" \/ trouble'
  BY <1>1, Zenon DEF Answers
<1> QED
  BY <1>2, <1>3, <1>4, <1>5 DEF Reasons

LEMMA HelperReasons ==
  ASSUME AllOK, Reasons, NEW c \in Calls,
         Collects(c) \/ AsksGateway(c) \/ Relays(c) \/ RelayFails(c) \/ Exits(c) \/ Crashes(c)
  PROVE  Reasons'
<1>1. UNCHANGED program
  BY DEF Collects, AsksGateway, Relays, RelayFails, Exits, Crashes, Prints
<1>2. trouble => trouble'
  BY Zenon DEF Collects, AsksGateway, Relays, RelayFails, Exits, Crashes, Prints
<1>3. \A d \in Calls : helper'[d] = "failed" => helper[d] = "failed" \/ (Crashes(c) /\ d = c)
  BY DEF Collects, AsksGateway, Relays, RelayFails, Exits, Crashes, Prints, Becomes,
         AllOK, DockerOK
<1>4. \A d \in Calls : printed[d] # "nothing" => printed'[d] # "nothing"
  BY DEF Collects, AsksGateway, Relays, RelayFails, Exits, Crashes, Prints, AllOK, DockerOK
<1>5. \A d \in Calls : helper'[d] = "exited" => helper[d] = "exited" \/ printed[d] # "nothing"
  BY DEF Collects, AsksGateway, Relays, RelayFails, Exits, Crashes, Prints, Becomes,
         AllOK, DockerOK
<1>6. Crashes(c) /\ c = call => trouble'
  BY DEF Crashes
<1> QED
  BY <1>1, <1>2, <1>3, <1>4, <1>5, <1>6 DEF Reasons, program

(* A call fails only because something failed in it, however the end of its *)
(* helper, the collecting of its output and the answers come about.        *)
THEOREM NoFailureWithoutReason == Spec => []FailsForAReason
<1>1. Init => Reasons
  BY DEF Init, Reasons
<1>2. AllOK /\ LivesOK /\ Reasons /\ [Next]_vars => Reasons'
  <2>1. Reasons /\ UNCHANGED vars => Reasons'
    BY DEF Reasons, vars, program, docker
  <2> QED
    BY <2>1, ClientReasons, DockerReasons, HelperReasons DEF Next, BoundReached
<1>3. Reasons => FailsForAReason
  BY DEF Reasons, FailsForAReason
<1> QED
  BY <1>1, <1>2, <1>3, Invariance, PTL DEF Spec
==============================================================================
