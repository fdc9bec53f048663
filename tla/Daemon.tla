------------------------------- MODULE Daemon --------------------------------
(***************************************************************************)
(* internal/daemon: one Portical bringing a gateway's table of mappings    *)
(* into line with what its source wants, pass after pass, while containers *)
(* come and go, other programs write to the same table, leases run down    *)
(* and requests fail.                                                      *)
(*                                                                         *)
(* A pass reads the source, then the gateway, then makes one request at a  *)
(* time; each of those is a step, so the world can change between any two  *)
(* of them.  Only the walk of the table is a single step here.  When       *)
(* passes happen is module RunLoop's subject: here one may begin whenever  *)
(* none is running, which is what the daemon's mutex enforces.             *)
(***************************************************************************)
EXTENDS Reconcile

CONSTANTS
  HostAddress,    \* this host's address on the LAN, NoAddress if not found
  Answers,        \* what the source may want: sequences of forwards
  Tables,         \* the tables the gateway may start with
  Others,         \* the rows other programs write to the gateway
  Options,        \* the flags Portical may be run with
  Quirks,         \* how this gateway misbehaves, from fakes.Quirks
  Refused,        \* the slots this gateway never accepts a mapping for
  Faults          \* what goes wrong until the world settles

FaultKinds == {"tool", "reboot", "crash", "unserved", "reply_lost"}
QuirkKinds == {"secure_mode", "refuse_to_move", "lease_limit"}

(* The gateway keys its table on the slot and the RemoteHost. *)
OneRowEach(rows) ==
  \A m, n \in rows : Identity(m) = Identity(n) /\ m.remote = n.remote => m = n

ASSUME DaemonAssumption ==
  /\ HostAddress \in Addresses \cup {NoAddress}
  /\ Answers \subseteq Seq(Forwards) /\ Answers # {}
  /\ Tables \subseteq SUBSET Mappings /\ \A rows \in Tables : OneRowEach(rows)
  /\ Others \subseteq Mappings
  /\ Options # {}
  /\ Options \subseteq [manageAll: BOOLEAN, force: BOOLEAN, steal: BOOLEAN,
                   dryRun: BOOLEAN]
  /\ Quirks \subseteq QuirkKinds /\ Refused \subseteq Slots
  /\ Faults \subseteq FaultKinds

VARIABLES
  table,      \* the gateway's mappings
  want,       \* what the source would answer now
  flags,      \* Daemon.options: the flags of this run
  pc,         \* where the pass in flight is, or "idle", or "stopped"
  cleaning,   \* whether that pass is Cleanup rather than Once
  desired,    \* the forwards the pass read
  todo,       \* its actions on forwards still to apply, in order
  leftovers,  \* its actions on rows nothing asks for, still to apply
  written,    \* Daemon.written
  tally,      \* Daemon.tally
  \* The rest is history and environment, which the program does not hold.
  calm,       \* the world has settled: nothing but leases changes any more
  steady,     \* forwards wanted at every moment since the pass began
  mine,       \* slots holding a row put there since the program started
  emptied,    \* slots the pass took down to move and has not put back
  noticed     \* rows the last listing found close to expiry

inputs == <<want, flags>>
program == <<flags, pc, cleaning, desired, todo, leftovers, written, tally>>
history == <<steady, mine, emptied, noticed>>
vars == <<table, want, program, calm, history>>

Counted == {"forwarded", "conflicts", "failed"}
NoTally == [field \in Counted |-> 0]
Count(field) == [tally EXCEPT ![field] = @ + 1]
ToSet(seq) == {seq[i] : i \in DOMAIN seq}

-----------------------------------------------------------------------------
(* The gateway, external to the program, as internal/fakes models it.  A   *)
(* row is found by its identity among those that name no RemoteHost.       *)

RowsAt(slot) == {m \in table : Identity(m) = slot /\ ~m.remote}
Without(slot) == table \ RowsAt(slot)

(* Whether the gateway accepts an AddPortMapping from this requester. *)
Accepts(requester, mapping) ==
  /\ Identity(mapping) \notin Refused
  /\ "secure_mode" \in Quirks => mapping.client = requester
  /\ "refuse_to_move" \in Quirks =>
       \A m \in RowsAt(Identity(mapping)) :
          m.client = mapping.client /\ m.port = mapping.port

(* A request the gateway would accept is served and answered; or never     *)
(* served; or served with the answer lost.  A request not answered within  *)
(* RequestTimeout is one of the last two.                                  *)
Outcomes(accepted) ==
  {outcome \in {"done", "unserved", "reply_lost"} :
     /\ outcome = "done" => accepted
     /\ outcome = "reply_lost" => accepted /\ ~calm /\ "reply_lost" \in Faults
     /\ outcome = "unserved" => ~accepted \/ (~calm /\ "unserved" \in Faults)}

-----------------------------------------------------------------------------
(* Daemon.Once: the lock is taken, the tally reset, the source asked. *)
Begin ==
  /\ pc = "idle"
  /\ pc' = "reading"
  /\ cleaning' = FALSE
  /\ tally' = NoTally
  /\ steady' = ToSet(want)
  /\ UNCHANGED <<table, inputs, desired, todo, leftovers, written, calm, mine,
                 emptied, noticed>>

ReadDesired ==
  /\ pc = "reading"
  /\ desired' = want
  /\ pc' = "listing"
  /\ UNCHANGED <<table, inputs, cleaning, todo, leftovers, written, tally, calm,
                 history>>

(* The pass is over, however it ended. *)
EndPass ==
  /\ pc' = IF cleaning THEN "stopped" ELSE "idle"
  /\ desired' = <<>>
  /\ steady' = {}
  /\ emptied' = {}

(* Wrong: a source that cannot be read is taken to want nothing. *)
ReadFails_WantsNothing ==
  /\ pc = "reading"
  /\ ~calm /\ "unserved" \in Faults
  /\ desired' = <<>> /\ pc' = "listing"
  /\ UNCHANGED <<table, inputs, cleaning, todo, leftovers, written, tally, calm,
                 history>>

(* The source or the gateway could not be read: the pass is abandoned. *)
ReadFails ==
  /\ pc \in {"reading", "listing"}
  /\ ~calm /\ "unserved" \in Faults
  /\ EndPass
  /\ UNCHANGED <<table, inputs, cleaning, todo, leftovers, written, tally, calm,
                 mine, noticed>>

(* Wrong: what was written earlier in the run is forgotten. *)
ManagedAddresses_ThisPass(forwards) ==
  IF flags.manageAll THEN Addresses
  ELSE ({HostAddress} \cup {f.client : f \in ToSet(forwards)}) \ {NoAddress}

(* Daemon.reconcileOptions *)
ManagedAddresses(forwards) ==
  IF flags.manageAll THEN Addresses
  ELSE (written \cup {HostAddress} \cup {f.client : f \in ToSet(forwards)})
         \ {NoAddress}

ReconcileOptions(forwards) ==
  [force |-> flags.force /\ ~cleaning, steal |-> flags.steal /\ ~cleaning,
   managed |-> ManagedAddresses(forwards)]

(* The gateway's table is read and the actions are worked out. *)
List ==
  /\ pc = "listing"
  /\ \E existing \in Existing(table) :
       todo' = ForwardActions(desired, existing, ReconcileOptions(desired))
  /\ leftovers' = LeftoverActions(desired, table, ReconcileOptions(desired))
  /\ noticed' = {m \in table : Expiring(m)}
  /\ pc' = "applying"
  /\ UNCHANGED <<table, inputs, cleaning, desired, written, tally, calm, steady,
                 mine, emptied>>

-----------------------------------------------------------------------------
(* Daemon.apply, one request at a time. *)

action == Head(todo)

(* Wrong: one rule the gateway refuses ends the pass. *)
Done_OrGiveUp(counts) ==
  /\ todo' = IF counts["failed"] > tally["failed"] THEN <<>> ELSE Tail(todo)
  /\ pc' = "applying"
  /\ tally' = counts

(* The action at the head is dealt with, and this is what it counts as. *)
Done(counts) ==
  /\ todo' = Tail(todo)
  /\ pc' = "applying"
  /\ tally' = counts

Applying(kinds) == pc = "applying" /\ todo # <<>> /\ action.kind \in kinds

(* Wrong: everything that did not fail counts as forwarded. *)
QuietCount_AllForwarded(kind) == Count("forwarded")

(* What an action counts as when no request is made for it.  A lease left  *)
(* to run down is still forwarding, for now.                               *)
QuietCount(kind) ==
  IF kind \in {"keep", "renew"} THEN Count("forwarded")
  ELSE IF kind = "conflict" THEN Count("conflicts")
  ELSE tally

(* Keep and Conflict, and anything a dry run would have written. *)
ApplyQuietly ==
  /\ \/ Applying({"keep", "conflict"})
     \/ Applying({"add", "renew", "replace"}) /\ flags.dryRun
  /\ Done(QuietCount(action.kind))
  /\ UNCHANGED <<table, inputs, cleaning, desired, leftovers, written, calm, history>>

(* The requester the gateway sees: Daemon.gatewayFor.  A container's own    *)
(* address is the one Docker gives for it, if it gives any.                 *)
Requester(forward) ==
  IF forward.target = "container" THEN forward.client ELSE HostAddress

(* Daemon.write for a Replace deletes the row first. *)
RemoveToMove ==
  /\ Applying({"replace"}) /\ ~flags.dryRun
  /\ LET slot == Identity(action.forward) IN
     \E outcome \in Outcomes(TRUE) :
       /\ table' = IF outcome = "unserved" THEN table ELSE Without(slot)
       /\ IF outcome = "unserved" THEN UNCHANGED <<mine, emptied>>
          ELSE /\ mine' = mine \ {slot}
               /\ emptied' = IF RowsAt(slot) = {} THEN emptied ELSE emptied \cup {slot}
       /\ IF outcome = "done"
          THEN pc' = "adding" /\ UNCHANGED <<todo, tally>>
          ELSE Done(Count("failed"))
  /\ UNCHANGED <<inputs, cleaning, desired, leftovers, written, calm, steady, noticed>>

(* Whether the next thing to do is to write action's row. *)
Writing == (Applying({"add", "renew"}) /\ ~flags.dryRun) \/ pc = "adding"

InternalClient(forward) ==
  IF forward.client = NoAddress THEN HostAddress ELSE forward.client

(* Daemon.write when neither the forward nor the daemon knows an address. *)
WriteNowhere ==
  /\ Writing
  /\ InternalClient(action.forward) = NoAddress
  /\ Done(Count("failed"))
  /\ UNCHANGED <<table, inputs, cleaning, desired, leftovers, written, calm, history>>

(* The row AddPortMapping asks for, with the lease this gateway grants. *)
NewMapping(forward) ==
  [slot |-> Identity(forward), port |-> forward.port,
   client |-> InternalClient(forward), ours |-> TRUE, remote |-> FALSE,
   lease |-> IF "lease_limit" \in Quirks THEN "long" ELSE "forever"]

(* Wrong: nothing is remembered. *)
Remember_Nothing(client) == UNCHANGED written

(* The address just written to stays this instance's to clean up after. *)
Remember(client) == written' = written \cup {client}

(* Daemon.write from AddPortMapping on. *)
Write ==
  /\ Writing
  /\ InternalClient(action.forward) # NoAddress
  /\ LET new == NewMapping(action.forward) IN
     \E outcome \in Outcomes(Accepts(Requester(action.forward), new)) :
       /\ IF outcome = "unserved" THEN UNCHANGED <<table, mine, emptied, noticed>>
          ELSE /\ table' = Without(new.slot) \cup {new}
               /\ mine' = mine \cup {new.slot}
               /\ emptied' = emptied \ {new.slot}
               /\ noticed' = noticed \ RowsAt(new.slot)
       /\ IF outcome = "done"
          THEN Remember(new.client) /\ Done(Count("forwarded"))
          ELSE UNCHANGED written /\ Done(Count("failed"))
  /\ UNCHANGED <<inputs, cleaning, desired, leftovers, calm, steady>>

(* Remove and Orphan, once every forward has been dealt with. *)
ApplyLeftover ==
  /\ pc = "applying" /\ todo = <<>>
  /\ \E rest \in leftovers :
       /\ leftovers' = leftovers \ {rest}
       /\ IF rest.kind = "orphan" \/ flags.dryRun
          THEN UNCHANGED <<table, tally, mine>>
          ELSE LET slot == Identity(rest.mapping) IN
               \E outcome \in Outcomes(TRUE) :
                 /\ IF outcome = "unserved" THEN UNCHANGED <<table, mine>>
                    ELSE table' = Without(slot) /\ mine' = mine \ {slot}
                 /\ tally' = IF outcome = "done" THEN tally ELSE Count("failed")
  /\ UNCHANGED <<inputs, pc, cleaning, desired, todo, written, calm, steady, emptied,
                 noticed>>

Finish ==
  /\ pc = "applying" /\ todo = <<>> /\ leftovers = {}
  /\ EndPass
  /\ UNCHANGED <<table, inputs, cleaning, todo, leftovers, written, tally, calm, mine,
                 noticed>>

Step == \/ Begin \/ ReadDesired \/ List \/ ApplyQuietly \/ RemoveToMove
        \/ WriteNowhere \/ Write \/ ApplyLeftover \/ Finish

-----------------------------------------------------------------------------
(* The process: cli.run. *)

(* Daemon.Cleanup, after Run has returned: --cleanup-on-exit. *)
Cleanup ==
  /\ pc = "idle" /\ ~calm /\ ~flags.dryRun
  /\ pc' = "listing"
  /\ cleaning' = TRUE
  /\ UNCHANGED <<table, inputs, desired, todo, leftovers, written, tally, calm, history>>

(* Wrong: a pass is abandoned when the process is asked to stop. *)
MayStop_MidPass == pc # "stopped"

(* Run returns between passes; a crash can come anywhere. *)
MayStop == pc = "idle" \/ (pc # "stopped" /\ "crash" \in Faults)

(* The process ends. *)
Stop ==
  /\ ~calm /\ MayStop
  /\ pc' = "stopped"
  /\ desired' = <<>> /\ todo' = <<>> /\ leftovers' = {} /\ steady' = {} /\ emptied' = {}
  /\ UNCHANGED <<table, inputs, cleaning, written, tally, calm, mine, noticed>>

(* A new process, perhaps with other flags, which remembers nothing of the *)
(* last one: daemon.New.                                                   *)
Restart ==
  /\ pc = "stopped"
  /\ pc' = "idle"
  /\ flags' \in Options
  /\ cleaning' = FALSE
  /\ written' = {} /\ tally' = NoTally /\ mine' = {}
  /\ UNCHANGED <<table, want, desired, todo, leftovers, calm, steady, emptied, noticed>>

-----------------------------------------------------------------------------
(* The world around the program. *)

(* A container or unit starts, stops or is relabelled. *)
WantChanges ==
  /\ ~calm
  /\ want' \in Answers \ {want}
  /\ steady' = steady \cap ToSet(want')
  /\ UNCHANGED <<table, program, calm, mine, emptied, noticed>>

(* The rows of changed slots are no longer ones the program put there. *)
TableChanges(rows) ==
  /\ table' = rows
  /\ mine' = {s \in mine : \E m \in rows \cap table : Identity(m) = s /\ ~m.remote}
  /\ UNCHANGED <<want, program, calm, steady, emptied, noticed>>

(* Another tool, or another host's Portical, writes or removes a row. *)
OthersChange ==
  /\ ~calm /\ "tool" \in Faults
  /\ \E m \in Others :
       \/ TableChanges({n \in table : Identity(n) # Identity(m) \/ n.remote # m.remote}
                         \cup {m})
       \/ TableChanges(table \ {m})

(* The gateway restarts and forgets its mappings. *)
Reboot == ~calm /\ "reboot" \in Faults /\ TableChanges({})

(* A finite lease runs down, and then out.  Once the world is calm a row   *)
(* is still there when a pass that listed it as expiring has ended:        *)
(* Interval is seconds where RenewWithin is hours.                         *)
LeaseAges ==
  \E m \in table :
    /\ m.lease = "long"
    /\ table' = (table \ {m}) \cup {[m EXCEPT !.lease = "short"]}
    /\ UNCHANGED <<want, program, calm, history>>

LeaseExpires ==
  \E m \in table :
    /\ m.lease = "short"
    /\ calm => m \in noticed /\ pc = "idle"
    /\ TableChanges(table \ {m})

Settle ==
  /\ ~calm /\ pc \in {"idle", "stopped"}
  /\ calm' = TRUE
  /\ UNCHANGED <<table, want, program, history>>

World == \/ WantChanges \/ OthersChange \/ Reboot \/ LeaseAges \/ LeaseExpires

-----------------------------------------------------------------------------
Init ==
  /\ table \in Tables
  /\ want \in Answers /\ flags \in Options
  /\ pc = "idle" /\ cleaning = FALSE
  /\ desired = <<>> /\ todo = <<>> /\ leftovers = {}
  /\ written = {} /\ tally = NoTally
  /\ calm = FALSE
  /\ steady = {} /\ mine = {} /\ emptied = {} /\ noticed = {}

Next == Step \/ ReadFails \/ Cleanup \/ Stop \/ Restart \/ World \/ Settle

Spec == Init /\ [][Next]_vars

(* The interval keeps asking for passes, every request is bounded by a     *)
(* timeout, and a supervisor restarts the process.                         *)
FairSpec == Spec /\ WF_vars(Step) /\ WF_vars(Restart)

-----------------------------------------------------------------------------
(* Properties. *)

(* The gateway holds one row per slot and RemoteHost. *)
TableOK == table \subseteq Mappings /\ OneRowEach(table)

(* A row is only about to be put back for a move that took it down. *)
TodoOK ==
  /\ todo \in Seq([kind : {"add", "replace", "renew", "keep", "conflict"},
                   forward : Forwards])
  /\ pc = "adding" => todo # <<>> /\ action.kind = "replace"

PassOK ==
  /\ flags \in Options
  /\ pc \in {"idle", "reading", "listing", "applying", "adding", "stopped"}
  /\ cleaning \in BOOLEAN
  /\ desired \in Answers \cup {<<>>}
  /\ leftovers \subseteq [kind : {"remove", "orphan"}, mapping : Mappings]
  /\ written \subseteq Addresses
  /\ tally \in [Counted -> Nat]

WorldOK ==
  /\ want \in Answers /\ calm \in BOOLEAN
  /\ steady \subseteq Forwards /\ noticed \subseteq Mappings
  /\ mine \subseteq Slots /\ emptied \subseteq Slots

(* Every variable has its type. *)
TypeOK == TableOK /\ TodoOK /\ PassOK /\ WorldOK

(* The gateway forwards what this forward asks for, on Portical's account. *)
Serves(forward) ==
  \E m \in RowsAt(Identity(forward)) :
    /\ IsOurs(m) /\ m.port = forward.port
    /\ forward.client \in {m.client, NoAddress}

(* A row this Portical has no business with: another tool's (unless told   *)
(* to steal), or a Portical's that points where this one sends nothing.    *)
Foreign(mapping, forwards) ==
  IF IsOurs(mapping) THEN mapping.client \notin ManagedAddresses(forwards)
  ELSE ~flags.steal

(* "Anything already correct is left alone" (README): whatever fails, and  *)
(* whatever else changes, no step of a pass takes a forward out of service *)
(* that was wanted all the time the pass was running.  A renewal must not  *)
(* delete, a failed read must not be taken for an empty answer, and a      *)
(* removal must not follow from anything but the whole answer.             *)
ServedStaysServed ==
  [][program' # program =>
       \A f \in steady : Serves(f) => Serves(f)']_vars

(* No step of the program changes a row that is another tool's, or that    *)
(* another Portical wrote: what it listed as foreign is not written over,  *)
(* moved, renewed or removed, in a pass or in a cleanup.                   *)
OthersUntouched ==
  [][program' # program =>
       \A m \in table : Foreign(m, desired) => m \in table']_vars

(* Every row put on the gateway since the program started points at an     *)
(* address the program remembers, so that it stays entitled to remove it   *)
(* when whatever asked for it has gone.                                    *)
WrittenRemembered ==
  \A s \in mine : \A m \in RowsAt(s) : m.client \in written

(* A pass never ends, and the process never stops, with a row taken down   *)
(* to move it and not put back.                                            *)
MovesCompleted ==
  [][pc # "idle" /\ pc' \in {"idle", "stopped"} => emptied = {}]_vars

(* When a cleanup has run to its end nothing this run wrote is left.       *)
CleanupTakesOurs == [][cleaning /\ Finish => mine = {}]_vars

(* The status sent after an undisturbed pass never counts more forwards    *)
(* than the gateway then has in place.                                     *)
StatusNeverOverstates ==
  [][Finish /\ calm /\ ~cleaning =>
       tally["forwarded"] <=
         Cardinality({Identity(f) : f \in {f \in ToSet(desired) : Serves(f)}})]_vars

(* What is wanted and possible is in place, and nothing this Portical put  *)
(* there is in place that is not wanted.                                   *)
InPlace ==
  /\ \A f \in ToSet(want) :
       \/ Identity(f) \in Refused \/ InternalClient(f) = NoAddress
       \/ \E m \in table : Identity(m) = Identity(f) /\ Foreign(m, want)
       \/ Serves(f)
  /\ \A m \in table : IsOurs(m) /\ m.client \in written \cup {HostAddress} =>
                        Identity(m) \in Wanted(want)

(* Once the world has settled the gateway comes into line with the source, *)
(* whatever happened before and whichever rules the gateway refuses, and   *)
(* stays in line though leases keep running down.  A dry run puts nothing  *)
(* in place.                                                               *)
Converges == calm ~> [](flags.dryRun \/ InPlace)

(* And from some moment on no pass takes a working row down any more: the   *)
(* deletion churn of issue #6 does not come back by another way.           *)
NoChurn == calm ~> [](pc # "adding")
==============================================================================
