----------------------------- MODULE Hosts_proofs -----------------------------
(***************************************************************************)
(* Proofs about Hosts: two Porticals that share a gateway, for every       *)
(* network, gateway, pair of sources and pair of flags.                    *)
(*                                                                         *)
(* Each of the two is a Daemon to which the other, like any other tool, is *)
(* no more than somebody who writes to the table (TwoThatShare).  What      *)
(* Daemon_proofs shows of such a Daemon then holds of this host's as it    *)
(* stands, and of the other's through the instance Other.                  *)
(***************************************************************************)
EXTENDS Hosts, Daemon_proofs

(* What is proved of a Daemon, with the other host's state and constants.  *)
Other == INSTANCE Daemon_proofs WITH
           HostAddress <- OtherAddress, Answers <- OtherAnswers, Options <- OtherOptions,
           want <- owant, flags <- oflags, pc <- opc, cleaning <- ocleaning,
           desired <- odesired, todo <- otodo, leftovers <- oleftovers,
           written <- owritten, tally <- otally, steady <- osteady, mine <- omine,
           emptied <- oemptied, noticed <- onoticed

-----------------------------------------------------------------------------
(* The instance is of the module the program is an instance of. *)

LEMMA OtherAssumption ==
  /\ OtherAddress \in Addresses \cup {NoAddress}
  /\ OtherAnswers \subseteq Seq(Other!Forwards) /\ OtherAnswers # {}
  /\ Tables \subseteq SUBSET Other!Mappings /\ \A rows \in Tables : Other!OneRowEach(rows)
  /\ Others \subseteq Other!Mappings
  /\ OtherOptions # {}
  /\ OtherOptions \subseteq [manageAll: BOOLEAN, force: BOOLEAN, steal: BOOLEAN,
                             dryRun: BOOLEAN]
  /\ Quirks \subseteq Other!QuirkKinds /\ Refused \subseteq Slots
  /\ Faults \subseteq Other!FaultKinds
  BY DaemonAssumption, HostsAssumption
  DEF Forwards, Other!Forwards, Mappings, Other!Mappings, OneRowEach, Other!OneRowEach,
      Identity, Other!Identity, Leases, Other!Leases, QuirkKinds, Other!QuirkKinds,
      FaultKinds, Other!FaultKinds

LEMMA OtherIsTheInstance ==
  /\ O!Init <=> Other!Init
  /\ O!Step <=> Other!Step
  /\ O!Restart <=> Other!Restart
  /\ O!ReadFails <=> Other!ReadFails
  /\ O!Cleanup <=> Other!Cleanup
  /\ O!Stop <=> Other!Stop
  /\ O!WantChanges <=> Other!WantChanges
  /\ O!OthersChange <=> Other!OthersChange
  /\ O!Reboot <=> Other!Reboot
  /\ O!LeaseAges <=> Other!LeaseAges
  /\ O!LeaseExpires <=> Other!LeaseExpires
  /\ O!Settle <=> Other!Settle
<1> USE DEF O!inputs, Other!inputs, O!program, Other!program, O!history, Other!history,
            O!Counted, Other!Counted, O!NoTally, Other!NoTally, O!Count, Other!Count,
            O!ToSet, Other!ToSet, O!action, Other!action, O!Applying, Other!Applying,
            O!Done, Other!Done, O!EndPass, Other!EndPass,
            O!Identity, Other!Identity, O!IsOurs, Other!IsOurs,
            O!Expiring, Other!Expiring,
            O!RowsAt, Other!RowsAt, O!Without, Other!Without,
            O!Outcomes, Other!Outcomes, O!InternalClient, Other!InternalClient,
            O!Writing, Other!Writing, O!TableChanges, Other!TableChanges
<1>1. O!Begin <=> Other!Begin
  BY DEF O!Begin, Other!Begin
<1>2. O!ReadDesired <=> Other!ReadDesired
  BY DEF O!ReadDesired, Other!ReadDesired
<1>3. O!List <=> Other!List
  BY DEF O!List, Other!List, O!Existing, Other!Existing,
         O!ForwardActions, Other!ForwardActions, O!ForForward, Other!ForForward,
         O!KindOf, Other!KindOf, O!NotToTouch, Other!NotToTouch, O!Managed, Other!Managed,
         O!Mismatch, Other!Mismatch, O!Refresh, Other!Refresh,
         O!LeftoverActions, Other!LeftoverActions, O!Wanted, Other!Wanted,
         O!ReconcileOptions, Other!ReconcileOptions,
         O!ManagedAddresses, Other!ManagedAddresses
<1>4. O!ApplyQuietly <=> Other!ApplyQuietly
  BY DEF O!ApplyQuietly, Other!ApplyQuietly, O!QuietCount, Other!QuietCount
<1>5. O!RemoveToMove <=> Other!RemoveToMove
  BY DEF O!RemoveToMove, Other!RemoveToMove
<1>6. O!WriteNowhere <=> Other!WriteNowhere
  BY DEF O!WriteNowhere, Other!WriteNowhere
<1>7. O!Write <=> Other!Write
  BY DEF O!Write, Other!Write, O!NewMapping, Other!NewMapping, O!Requester, Other!Requester,
         O!Accepts, Other!Accepts, O!Remember, Other!Remember
<1>8. O!ApplyLeftover <=> Other!ApplyLeftover
  BY DEF O!ApplyLeftover, Other!ApplyLeftover
<1>9. O!Finish <=> Other!Finish
  BY DEF O!Finish, Other!Finish
<1>10. O!Step <=> Other!Step
  BY <1>1, <1>2, <1>3, <1>4, <1>5, <1>6, <1>7, <1>8, <1>9 DEF O!Step, Other!Step
<1>11. /\ O!Restart <=> Other!Restart
       /\ O!ReadFails <=> Other!ReadFails
       /\ O!Cleanup <=> Other!Cleanup
       /\ O!Stop <=> Other!Stop
  BY DEF O!Restart, Other!Restart, O!ReadFails, Other!ReadFails, O!Cleanup, Other!Cleanup,
         O!Stop, Other!Stop, O!MayStop, Other!MayStop
<1>12. /\ O!WantChanges <=> Other!WantChanges
       /\ O!OthersChange <=> Other!OthersChange
       /\ O!Reboot <=> Other!Reboot
       /\ O!LeaseAges <=> Other!LeaseAges
       /\ O!LeaseExpires <=> Other!LeaseExpires
       /\ O!Settle <=> Other!Settle
  BY DEF O!WantChanges, Other!WantChanges, O!OthersChange, Other!OthersChange,
         O!Reboot, Other!Reboot, O!LeaseAges, Other!LeaseAges,
         O!LeaseExpires, Other!LeaseExpires, O!Settle, Other!Settle
<1>13. O!Init <=> Other!Init
  BY DEF O!Init, Other!Init
<1>14. QED
  BY <1>10, <1>11, <1>12, <1>13

LEMMA OneTable == (TableOK <=> Other!TableOK) /\ (TableOK' <=> Other!TableOK')
  BY DEF TableOK, Other!TableOK, Mappings, Other!Mappings, OneRowEach, Other!OneRowEach,
         Identity, Other!Identity, Leases, Other!Leases

-----------------------------------------------------------------------------
(* Each is, to the other, somebody who writes to the table. *)

LEMMA ThisSteps ==
  ASSUME TypeOK, ThisStep \/ ThisRestart \/ ThisHost
  PROVE  /\ Next /\ Other!Meddled
         /\ UNCHANGED other /\ Lists("this", pc = "listing", pc')
<1>1. /\ Step \/ Restart \/ ReadFails \/ Cleanup \/ Stop \/ WantChanges
      /\ omine' = StillIts(omine)
      /\ UNCHANGED other /\ Lists("this", pc = "listing", pc')
  BY DEF ThisStep, ThisRestart, ThisHost, ThisMoves
<1>2. Next
  BY <1>1 DEF Next, World
<1>3. calm' = calm
  BY <1>1 DEF Step, Begin, ReadDesired, List, ApplyQuietly, RemoveToMove, WriteNowhere, Write,
              ApplyLeftover, Finish, Restart, ReadFails, Cleanup, Stop, WantChanges
<1>4. Other!TableOK'
  BY <1>2, NextTable, OneTable
<1>5. Other!TableChanges(table')
  BY <1>1, <1>3 DEF Other!TableChanges, Other!program, Other!Identity, Identity, StillIts, other
<1>6. QED
  BY <1>1, <1>2, <1>4, <1>5 DEF Other!Meddled

LEMMA OtherSteps ==
  ASSUME Other!TypeOK, OtherStep \/ OtherRestart \/ OtherHost
  PROVE  /\ Other!Next /\ Meddled
         /\ UNCHANGED this /\ Lists("other", opc = "listing", opc')
<1>1. /\ \/ Other!Step \/ Other!Restart \/ Other!ReadFails \/ Other!Cleanup
         \/ Other!Stop \/ Other!WantChanges
      /\ mine' = StillIts(mine)
      /\ UNCHANGED this /\ Lists("other", opc = "listing", opc')
  BY OtherIsTheInstance DEF OtherStep, OtherRestart, OtherHost, OtherMoves
<1>2. Other!Next
  BY <1>1 DEF Other!Next, Other!World
<1>3. calm' = calm
  BY <1>1 DEF Other!Step, Other!Begin, Other!ReadDesired, Other!List, Other!ApplyQuietly,
              Other!RemoveToMove, Other!WriteNowhere, Other!Write, Other!ApplyLeftover,
              Other!Finish, Other!Restart, Other!ReadFails, Other!Cleanup, Other!Stop,
              Other!WantChanges
<1>4. TableOK'
  BY <1>2, Other!NextTable, OneTable, OtherAssumption, NoAddressAssumption
<1>5. TableChanges(table')
  BY <1>1, <1>3 DEF TableChanges, StillIts, this
<1>6. QED
  BY <1>1, <1>2, <1>4, <1>5 DEF Meddled

LEMMA GatewaySteps ==
  ASSUME Gateway
  PROVE  /\ Next /\ Other!Next
         /\ UNCHANGED <<program, Other!program, listed>>
<1>1. \/ OthersChange /\ Other!OthersChange
      \/ Reboot /\ Other!Reboot
      \/ LeaseAges /\ Other!LeaseAges
      \/ LeaseExpires /\ Other!LeaseExpires
      \/ Settle /\ Other!Settle
  BY OtherIsTheInstance DEF Gateway
<1>2. Next /\ Other!Next
  BY <1>1 DEF Next, World, Other!Next, Other!World
<1>3. UNCHANGED <<program, Other!program>>
  BY <1>1 DEF OthersChange, Reboot, LeaseAges, LeaseExpires, Settle, TableChanges,
              Other!OthersChange, Other!Reboot, Other!LeaseAges, Other!LeaseExpires,
              Other!Settle, Other!TableChanges
<1>4. QED
  BY <1>2, <1>3 DEF Gateway

LEMMA NoStep ==
  ASSUME UNCHANGED hosts
  PROVE  UNCHANGED <<vars, Other!vars, listed>>
<1>1. UNCHANGED <<vars, other, omine, listed>>
  BY DEF hosts
<1>2. QED
  BY <1>1 DEF vars, other, Other!vars, Other!program, Other!history

(* A step of the two is one of each, which shares its gateway. *)
LEMMA StepsOfBoth ==
  ASSUME TypeOK, Other!TypeOK, [HostsNext]_hosts
  PROVE  [SharedNext]_vars /\ [Other!SharedNext]_(Other!vars)
<1>1. CASE UNCHANGED hosts
  BY <1>1, NoStep
<1>2. CASE HostsNext
  BY <1>2, ThisSteps, OtherSteps, GatewaySteps DEF HostsNext, SharedNext, Other!SharedNext
<1>3. QED
  BY <1>1, <1>2

LEMMA TypesOfBoth == HostsSpec => [](TypeOK /\ Other!TypeOK)
<1>1. HostsInit => TypeOK /\ Other!TypeOK
  BY InitTypes, Other!InitTypes, OtherIsTheInstance, OtherAssumption, NoAddressAssumption
  DEF HostsInit
<1>2. TypeOK /\ Other!TypeOK /\ [HostsNext]_hosts => TypeOK' /\ Other!TypeOK'
  BY StepsOfBoth, SharedTypes, Other!SharedTypes, OtherAssumption, NoAddressAssumption
<1>3. QED
  BY <1>1, <1>2, PTL DEF HostsSpec

(* Two Porticals on one gateway, neither of which is told of the other:     *)
(* each behaves as it would alone, on a gateway whose rows others may       *)
(* change at any time.                                                      *)
THEOREM TwoThatShare == HostsSpec => SharedSpec /\ Other!SharedSpec
<1>1. HostsInit => Init /\ Other!Init
  BY OtherIsTheInstance DEF HostsInit
<1>2. TypeOK /\ Other!TypeOK /\ [HostsNext]_hosts
        => [SharedNext]_vars /\ [Other!SharedNext]_(Other!vars)
  BY StepsOfBoth
<1>3. QED
  BY <1>1, <1>2, TypesOfBoth, PTL DEF HostsSpec, SharedSpec, Other!SharedSpec

(* Of what a Daemon that shares its gateway does for certain. *)

(* Each of the two stays entitled to remove the rows it put on the gateway  *)
(* and that are still its own, whatever the other does and whatever fails,  *)
(* as long as no answer is lost.                                            *)
THEOREM BothRemember ==
  ASSUME "reply_lost" \notin Faults
  PROVE  HostsSpec => []WrittenRemembered /\ []Other!WrittenRemembered
<1>1. SharedSpec => []WrittenRemembered
  BY SharedRemembered
<1>2. Other!SharedSpec => []Other!WrittenRemembered
  BY Other!SharedRemembered, OtherAssumption, NoAddressAssumption
<1>3. QED
  BY <1>1, <1>2, TwoThatShare, PTL

(* Neither leaves a row down that it took down to move it, though the other *)
(* may fill the slot in between: on a gateway that has no reason to refuse   *)
(* the row then, when requests are answered and nothing kills either.       *)
THEOREM BothCompleteTheirMoves ==
  ASSUME Answered, "crash" \notin Faults, "refuse_to_move" \notin Quirks,
         Obliging, Other!Obliging
  PROVE  HostsSpec => MovesCompleted /\ Other!MovesCompleted
<1>1. SharedSpec => MovesCompleted
  BY SharedMoves
<1>2. Other!Answered
  BY DEF Answered, Other!Answered
<1>3. Other!SharedSpec => Other!MovesCompleted
  BY <1>2, Other!SharedMoves, OtherAssumption, NoAddressAssumption
<1>4. QED
  BY <1>1, <1>3, TwoThatShare, PTL

(* What either put on the gateway is gone when its cleanup has run to its   *)
(* end, but for the slots the other has taken meanwhile, as long as every    *)
(* request is served and answered.                                          *)
THEOREM BothCleanUp ==
  ASSUME Answered
  PROVE  HostsSpec => CleanupTakesOurs /\ Other!CleanupTakesOurs
<1>1. SharedSpec => CleanupTakesOurs
  BY SharedCleanup
<1>2. Other!Answered
  BY DEF Answered, Other!Answered
<1>3. Other!SharedSpec => Other!CleanupTakesOurs
  BY <1>2, Other!SharedCleanup, OtherAssumption, NoAddressAssumption
<1>4. QED
  BY <1>1, <1>3, TwoThatShare, PTL

-----------------------------------------------------------------------------
(* What either listed as someone else's it leaves alone. *)

ListedOK == listed \in [{"this", "other"} -> SUBSET Mappings]

(* Where rows of other tools are taken over, none names a RemoteHost. *)
Steals == \E options \in Options \cup OtherOptions : options.steal
NoRemotes == Steals => \A m \in table : ~m.remote

AsEachListed ==
  /\ ListedOK /\ NoRemotes
  /\ ClearAsListed(listed["this"]) /\ Other!ClearAsListed(listed["other"])

LEMMA ListsType ==
  ASSUME TypeOK, ListedOK, NEW host \in {"this", "other"}, NEW lists \in BOOLEAN, NEW at,
         Lists(host, lists, at)
  PROVE  /\ ListedOK'
         /\ \A h \in {"this", "other"} : h # host => listed'[h] = listed[h]
         /\ lists => listed'[host] = table
         /\ ~lists /\ at \in {"applying", "adding"} => listed'[host] = listed[host]
<1>1. table \subseteq Mappings
  BY DEF TypeOK, TableOK
<1>2. QED
  BY <1>1 DEF Lists, ListedOK

LEMMA NextListed ==
  ASSUME TypeOK, Other!TypeOK, ListedOK, [HostsNext]_hosts
  PROVE  /\ ListedOK'
         /\ pc' \in {"applying", "adding"} =>
              listed'["this"] = IF pc = "listing" THEN table ELSE listed["this"]
         /\ opc' \in {"applying", "adding"} =>
              listed'["other"] = IF opc = "listing" THEN table ELSE listed["other"]
<1>1. CASE ThisStep \/ ThisRestart \/ ThisHost
  <2>1. UNCHANGED opc /\ Lists("this", pc = "listing", pc')
    BY <1>1, ThisSteps DEF other
  <2>2. QED
    BY <2>1, ListsType
<1>2. CASE OtherStep \/ OtherRestart \/ OtherHost
  <2>1. UNCHANGED pc /\ Lists("other", opc = "listing", opc')
    BY <1>2, OtherSteps DEF this, program
  <2>2. QED
    BY <2>1, ListsType
<1>3. CASE Gateway \/ UNCHANGED hosts
  <2>1. UNCHANGED <<pc, opc, listed>>
    BY <1>3, GatewaySteps, NoStep DEF program, Other!program, vars, Other!vars
  <2>2. QED
    BY <2>1 DEF ListedOK
<1>4. QED
  BY <1>1, <1>2, <1>3 DEF HostsNext

LEMMA NextHostsRemotes ==
  ASSUME TypeOK, Other!TypeOK, NoRemotes, [HostsNext]_hosts,
         Steals => \A m \in Others : ~m.remote
  PROVE  NoRemotes'
<1> SUFFICES ASSUME Steals PROVE \A m \in table' : ~m.remote
  BY DEF NoRemotes
<1>1. CASE [Next]_vars
  BY <1>1, NextRemotes DEF NoRemotes
<1>2. CASE [Other!Next]_(Other!vars)
  BY <1>2, Other!NextRemotes, OtherAssumption, NoAddressAssumption DEF NoRemotes
<1>3. QED
  BY <1>1, <1>2, ThisSteps, OtherSteps, GatewaySteps, NoStep DEF HostsNext

LEMMA NextAsEachListed ==
  ASSUME TypeOK, Other!TypeOK, AsEachListed, [HostsNext]_hosts,
         Steals => \A m \in Others : ~m.remote
  PROVE  AsEachListed'
<1>1. ListedOK' /\ NoRemotes'
  BY NextListed, NextHostsRemotes DEF AsEachListed
<1>2. NoStealRemote /\ Other!NoStealRemote
  BY DEF AsEachListed, NoRemotes, Steals, NoStealRemote, Other!NoStealRemote
<1>3. [SharedNext]_vars /\ [Other!SharedNext]_(Other!vars)
  BY StepsOfBoth
<1>4. ClearAsListed(listed["this"])'
  <2>1. pc' \in {"applying", "adding"} =>
          listed'["this"] = IF pc = "listing" THEN table ELSE listed["this"]
    BY NextListed DEF AsEachListed
  <2>2. QED
    BY <1>2, <1>3, <2>1, SharedListing DEF AsEachListed
<1>5. Other!ClearAsListed(listed["other"])'
  <2>1. opc' \in {"applying", "adding"} =>
          listed'["other"] = IF opc = "listing" THEN table ELSE listed["other"]
    BY NextListed DEF AsEachListed
  <2>2. QED
    BY <1>2, <1>3, <2>1, Other!SharedListing, OtherAssumption, NoAddressAssumption
    DEF AsEachListed
<1>6. QED
  BY <1>1, <1>4, <1>5 DEF AsEachListed

(* Neither Portical changes a row that its pass listed as someone else's,   *)
(* though the other, and other programs, change the table between its       *)
(* listing and each of its requests, and whatever fails.  Where --steal is   *)
(* given, rows that name a RemoteHost must stay out of it: the listing may   *)
(* show such a row of another tool for a slot the other Portical holds.     *)
THEOREM NeitherIsRobbed ==
  ASSUME \/ \A options \in Options \cup OtherOptions : ~options.steal
         \/ \A m \in Others \cup UNION Tables : ~m.remote
  PROVE  HostsSpec => NeitherTakesTheOthers
<1> DEFINE Inv == TypeOK /\ Other!TypeOK /\ AsEachListed
           Spares ==
             /\ program' # program =>
                  \A m \in listed["this"] \cap table : Foreign(m, desired) => m \in table'
             /\ O!program' # O!program =>
                  \A m \in listed["other"] \cap table :
                    O!Foreign(m, odesired) => m \in table'
<1>1. HostsInit => Inv
  <2> SUFFICES ASSUME HostsInit PROVE Inv
    OBVIOUS
  <2>1. Init /\ Other!Init /\ listed = [host \in {"this", "other"} |-> {}]
    BY OtherIsTheInstance DEF HostsInit
  <2>2. TypeOK /\ Other!TypeOK
    BY <2>1, InitTypes, Other!InitTypes, OtherAssumption, NoAddressAssumption
  <2>3. ListedOK
    BY <2>1 DEF ListedOK
  <2>4. NoRemotes
    BY <2>1 DEF NoRemotes, Steals, Init
  <2>5. ClearAsListed(listed["this"]) /\ Other!ClearAsListed(listed["other"])
    BY <2>1 DEF Init, ClearAsListed, Other!Init, Other!ClearAsListed
  <2>6. QED
    BY <2>2, <2>3, <2>4, <2>5 DEF AsEachListed
<1>2. Inv /\ [HostsNext]_hosts => Inv'
  <2> SUFFICES ASSUME Inv, [HostsNext]_hosts PROVE Inv'
    OBVIOUS
  <2>1. Steals => \A m \in Others : ~m.remote
    BY DEF Steals
  <2>2. AsEachListed'
    BY <2>1, NextAsEachListed
  <2>3. TypeOK' /\ Other!TypeOK'
    BY StepsOfBoth, SharedTypes, Other!SharedTypes, OtherAssumption, NoAddressAssumption
  <2>4. QED
    BY <2>2, <2>3
<1>3. Inv /\ [HostsNext]_hosts => Spares
  <2> SUFFICES ASSUME Inv, [HostsNext]_hosts PROVE Spares
    OBVIOUS
  <2>1. [SharedNext]_vars /\ [Other!SharedNext]_(Other!vars)
    BY StepsOfBoth
  <2>2. program' # program =>
          \A m \in listed["this"] \cap table : Foreign(m, desired) => m \in table'
    BY <2>1, SharedSpares DEF AsEachListed
  <2>3. Other!program' # Other!program =>
          \A m \in listed["other"] \cap table :
            Other!Foreign(m, odesired) => m \in table'
    BY <2>1, Other!SharedSpares, OtherAssumption, NoAddressAssumption DEF AsEachListed
  <2>4. O!program = Other!program /\ O!program' = Other!program'
    BY DEF O!program, Other!program
  <2>5. \A m : O!Foreign(m, odesired) <=> Other!Foreign(m, odesired)
    BY DEF O!Foreign, Other!Foreign, O!IsOurs, Other!IsOurs, O!ToSet, Other!ToSet,
           O!ManagedAddresses, Other!ManagedAddresses
  <2>6. QED
    BY <2>2, <2>3, <2>4, <2>5
<1>4. Inv /\ [HostsNext]_hosts => [Spares]_hosts
  BY <1>3
<1>5. QED
  BY <1>1, <1>2, <1>4, PTL DEF HostsSpec, NeitherTakesTheOthers
==============================================================================
