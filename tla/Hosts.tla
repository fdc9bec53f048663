-------------------------------- MODULE Hosts ---------------------------------
(***************************************************************************)
(* Two Porticals on one gateway, as on two hosts of one LAN, and the other *)
(* programs that write to it.  Nothing tells either of them of the other:  *)
(* all they share is the table, where a row says only that some Portical   *)
(* wrote it and which address it points at.  This host's Portical is       *)
(* module Daemon as it stands; the other is an instance of it with state,  *)
(* source, address and flags of its own.                                   *)
(***************************************************************************)
EXTENDS Daemon

CONSTANTS
  OtherAddress,   \* the other host's address, NoAddress if it finds none
  OtherAnswers,   \* what the other host's source may want
  OtherOptions    \* the flags the other Portical may be run with

ASSUME HostsAssumption ==
  /\ OtherAddress \in Addresses \cup {NoAddress}
  /\ OtherAnswers \subseteq Seq(Forwards) /\ OtherAnswers # {}
  /\ OtherOptions # {}
  /\ OtherOptions \subseteq [manageAll: BOOLEAN, force: BOOLEAN, steal: BOOLEAN,
                             dryRun: BOOLEAN]

VARIABLES
  owant, oflags, opc, ocleaning, odesired, otodo, oleftovers, owritten, otally,
  osteady, omine, oemptied, onoticed,
  listed          \* history: the rows each pass in flight was worked out from

other == <<owant, oflags, opc, ocleaning, odesired, otodo, oleftovers, owritten,
           otally, osteady, oemptied, onoticed>>
this == <<want, program, steady, emptied, noticed>>
hosts == <<vars, other, omine, listed>>

O == INSTANCE Daemon WITH
       HostAddress <- OtherAddress, Answers <- OtherAnswers, Options <- OtherOptions,
       want <- owant, flags <- oflags, pc <- opc, cleaning <- ocleaning,
       desired <- odesired, todo <- otodo, leftovers <- oleftovers,
       written <- owritten, tally <- otally, steady <- osteady, mine <- omine,
       emptied <- oemptied, noticed <- onoticed

-----------------------------------------------------------------------------
(* The slots, of those a Portical filled, whose row it is still. *)
StillIts(slots) ==
  {s \in slots : \E m \in table \cap table' : Identity(m) = s /\ ~m.remote}

(* A pass that is working on the table keeps in mind what it listed. *)
Lists(host, lists, at) ==
  listed' = IF lists THEN [listed EXCEPT ![host] = table]
            ELSE IF at \in {"idle", "stopped"} THEN [listed EXCEPT ![host] = {}]
            ELSE listed

(* What one Portical does: the other is not told. *)
ThisMoves(act) ==
  /\ act
  /\ omine' = StillIts(omine)
  /\ Lists("this", pc = "listing", pc')
  /\ UNCHANGED other

OtherMoves(act) ==
  /\ act
  /\ mine' = StillIts(mine)
  /\ Lists("other", opc = "listing", opc')
  /\ UNCHANGED this

ThisStep == ThisMoves(Step)
OtherStep == OtherMoves(O!Step)

ThisRestart == ThisMoves(Restart)
OtherRestart == OtherMoves(O!Restart)

(* What happens to one host alone: its containers, its process. *)
ThisHost == ThisMoves(ReadFails \/ Cleanup \/ Stop \/ WantChanges)
OtherHost == OtherMoves(O!ReadFails \/ O!Cleanup \/ O!Stop \/ O!WantChanges)

(* What happens to the gateway's table happens to both. *)
Gateway ==
  /\ \/ OthersChange /\ O!OthersChange
     \/ Reboot /\ O!Reboot
     \/ LeaseAges /\ O!LeaseAges
     \/ LeaseExpires /\ O!LeaseExpires
     \/ Settle /\ O!Settle
  /\ UNCHANGED listed

HostsInit == Init /\ O!Init /\ listed = [host \in {"this", "other"} |-> {}]

HostsNext ==
  \/ ThisStep \/ ThisRestart \/ ThisHost
  \/ OtherStep \/ OtherRestart \/ OtherHost
  \/ Gateway

(* Each host is as Daemon's fairness has it. *)
HostsSpec ==
  /\ HostsInit /\ [][HostsNext]_hosts
  /\ WF_hosts(ThisStep) /\ WF_hosts(ThisRestart)
  /\ WF_hosts(OtherStep) /\ WF_hosts(OtherRestart)

-----------------------------------------------------------------------------
(* Neither Portical changes a row that its pass listed as someone else's,  *)
(* whatever the other and the other programs do to the table meanwhile.    *)
NeitherTakesTheOthers ==
  [][/\ program' # program =>
          \A m \in listed["this"] \cap table : Foreign(m, desired) => m \in table'
     /\ O!program' # O!program =>
          \A m \in listed["other"] \cap table : O!Foreign(m, odesired) => m \in table']_hosts

(* Once the world has settled the two come to terms: each has *)
(* in place what it wants, but for the slots where the other was first,    *)
(* and nothing it no longer wants.                                         *)
BothConverge ==
  calm ~> [](InPlace /\ O!InPlace)

(* Where the rows of a slot point. *)
Holders(slot) == {<<m.client, m.port>> : m \in RowsAt(slot)}

(* And the two stop taking slots from each other. *)
HoldersSettle ==
  <>[][calm => \A s \in Slots : Holders(s)' = Holders(s)]_hosts
==============================================================================
