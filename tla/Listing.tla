------------------------------- MODULE Listing -------------------------------
(***************************************************************************)
(* Client.Mappings (internal/upnp): the gateway's table read one row a     *)
(* request, by index, while other programs add, change and remove rows and *)
(* leases run out, and what a pass decides from what it read.  Module      *)
(* Daemon takes a listing for one step; this one says what that leaves     *)
(* out.                                                                    *)
(*                                                                         *)
(* The program's index, from 0, is one less than the place in rows.        *)
(***************************************************************************)
EXTENDS Reconcile, SequencesExt

CONSTANTS
  Rows,         \* the rows the gateway may hold
  MaxRows,      \* the bound on how many it holds at once
  Unreadable,   \* a row of a protocol, or with ports, that toMapping drops
  MaxMappings,  \* upnp.MaxMappings, the most indexes a walk asks for
  Options,      \* the reconcile.Options a pass may decide with
  Endless,      \* whether the gateway may never end its table, fakes.Quirks
  Faults        \* what may go wrong with a request: see FaultKinds

FaultKinds == {"ends_early", "fails"}

(* The gateway holds a row for each slot and RemoteHost. *)
Clash(m, n) ==
  m # Unreadable /\ n # Unreadable /\ Identity(m) = Identity(n) /\ m.remote = n.remote
OneRowEach(table) ==
  \A i, j \in DOMAIN table : i # j => table[i] # table[j] /\ ~Clash(table[i], table[j])

ASSUME ListingAssumption ==
  /\ Rows \subseteq Mappings \cup {Unreadable} /\ Unreadable \notin Mappings
  /\ MaxRows \in Nat /\ MaxMappings \in Nat \ {0}
  /\ Options \subseteq [force: BOOLEAN, steal: BOOLEAN, managed: SUBSET Addresses]
  /\ Endless \subseteq BOOLEAN /\ Endless # {} /\ Faults \subseteq FaultKinds

VARIABLES
  rows,      \* the gateway's table, in the order of its indexes
  endless,   \* whether it answers an index past the end with its last row
  pc,        \* "idle", "walking", or "read" when the listing is complete
  index,     \* the next index to ask for
  found,     \* the mappings read so far
  \* History, of the walk under way.
  standing,  \* the rows there at every moment of it
  held,      \* for each slot, the rows it held at some moment of it
  free,      \* the slots that held none at some moment of it
  passed,    \* the rows it passed over: each moved below the index as a row
             \* there went, or was left when the table seemed to end
  moved      \* the table changed by more than rows added yet to be read

gateway == <<rows, endless>>
walk == <<pc, index, found>>
history == <<standing, held, free, passed, moved>>
vars == <<gateway, walk, history>>

(* The mappings toMapping makes of a table. *)
Readable(table) == ToSet(table) \ {Unreadable}
At(table, slot) == {m \in Readable(table) : Identity(m) = slot}
FreeIn(table) == {s \in Slots : At(table, s) = {}}

-----------------------------------------------------------------------------
(* Client.Mappings. *)

Begin ==
  /\ pc = "idle"
  /\ pc' = "walking" /\ index' = 0 /\ found' = <<>>
  /\ standing' = ToSet(rows)
  /\ held' = [s \in Slots |-> At(rows, s)] /\ free' = FreeIn(rows)
  /\ passed' = {} /\ moved' = FALSE
  /\ UNCHANGED gateway

(* The row the gateway answers an index with, 0 when it has none there. *)
Answered ==
  IF index < Len(rows) THEN index + 1 ELSE IF endless THEN Len(rows) ELSE 0

(* A row that toMapping can read is kept. *)
Keep(listing, row) == IF row = Unreadable THEN listing ELSE Append(listing, row)

(* Wrong: the bound is on the rows found. *)
ReadRow_BoundByFound ==
  /\ pc = "walking" /\ Len(found) < MaxMappings /\ Answered # 0
  /\ found' = Keep(found, rows[Answered])
  /\ index' = IF index < Len(rows) THEN index + 1 ELSE index
  /\ UNCHANGED <<gateway, pc, history>>

(* Wrong: indexes are taken to start at 1. *)
ReadRow_FromOne ==
  /\ pc = "walking" /\ index < MaxMappings /\ Answered # 0
  /\ found' = IF index = 0 THEN found ELSE Keep(found, rows[Answered])
  /\ index' = index + 1
  /\ UNCHANGED <<gateway, pc, history>>

(* The next index is answered with a row. *)
ReadRow ==
  /\ pc = "walking" /\ index < MaxMappings /\ Answered # 0
  /\ found' = Keep(found, rows[Answered])
  /\ index' = index + 1
  /\ UNCHANGED <<gateway, pc, history>>

(* The walk is over, and what it found is the listing. *)
Complete ==
  /\ pc' = "read"
  /\ passed' = passed \cup {rows[i] : i \in index + 1 .. Len(rows)}
  /\ UNCHANGED <<gateway, index, found, standing, held, free, moved>>

(* One of endsTheTable, past the last row ... *)
EndOfTable == pc = "walking" /\ index < MaxMappings /\ Answered = 0 /\ Complete

(* ... or before it: to Client.Mappings a request that failed for once with *)
(* 501 or 402 is the same.                                                  *)
EndsEarly ==
  pc = "walking" /\ index < MaxMappings /\ "ends_early" \in Faults /\ Complete

LimitReached == pc = "walking" /\ index = MaxMappings /\ Complete

(* Wrong: any failure ends the table. *)
Fails_AsTheEnd ==
  /\ pc = "walking" /\ index < MaxMappings /\ "fails" \in Faults
  /\ pc' = "read"
  /\ UNCHANGED <<gateway, index, found, history>>

(* There is no listing any more, and nothing to remember of the walk. *)
Over ==
  /\ pc' = "idle" /\ index' = 0 /\ found' = <<>>
  /\ standing' = {} /\ held' = [s \in Slots |-> {}] /\ free' = {}
  /\ passed' = {} /\ moved' = FALSE
  /\ UNCHANGED gateway

(* Any other failure fails the listing, and the pass. *)
Fails == pc = "walking" /\ index < MaxMappings /\ "fails" \in Faults /\ Over

(* The pass has decided, and goes on as module Daemon says. *)
Decided == pc = "read" /\ Over

(* What goes well, and what need not ever happen. *)
Walk == ReadRow \/ EndOfTable \/ LimitReached
Fault == EndsEarly \/ Fails

(* Wrong: rows of others are not worth looking up. *)
LookedUp_Ours(listing, slot) ==
  {i \in DOMAIN listing : Identity(listing[i]) = slot /\ IsOurs(listing[i])}

LookedUp(listing, slot) == {i \in DOMAIN listing : Identity(listing[i]) = slot}

(* Reconcile's map of what exists: the last row listed for an identity. *)
LastListed(listing) ==
  [s \in {t \in Slots : LookedUp(listing, t) # {}} |->
     listing[CHOOSE i \in LookedUp(listing, s) : \A j \in LookedUp(listing, s) : j <= i]]

(* What the pass decides to do for a forward. *)
Decision(forward, options) == ForForward(forward, LastListed(found), options).kind

-----------------------------------------------------------------------------
(* The table, which is external to the program: other programs write, this *)
(* Portical's rows and others' run out.  Where a new row comes in the order *)
(* is the gateway's affair.                                                *)

(* The table becomes this, a row of it is passed over, and all that happens *)
(* may be that a row was added where the walk has yet to come.  Between the *)
(* listing and its use the table may as well stand still.                   *)
Becomes(table, over, added) ==
  /\ pc # "read" /\ OneRowEach(table)
  /\ rows' = table
  /\ IF pc = "idle" THEN UNCHANGED history
     ELSE /\ standing' = standing \cap ToSet(table)
          /\ held' = [s \in Slots |-> held[s] \cup At(table, s)]
          /\ free' = free \cup FreeIn(table)
          /\ passed' = passed \cup over
          /\ moved' = (moved \/ ~added)
  /\ UNCHANGED <<endless, walk>>

(* A row is added. *)
Insert(m, i) ==
  /\ Len(rows) < MaxRows
  /\ Becomes(InsertAt(rows, i, m), {}, i = Len(rows) + 1 /\ i > index)

(* A row is written over, where it is. *)
Overwrite(m, i) == Becomes(ReplaceAt(rows, i, m), {}, FALSE)

(* A row is deleted, or its lease runs out: those after it move up. *)
Delete(i) ==
  Becomes(RemoveAt(rows, i),
          IF i <= index /\ index < Len(rows) THEN {rows[index + 1]} ELSE {},
          FALSE)

Others ==
  \/ \E m \in Rows, i \in 1 .. Len(rows) + 1 : Insert(m, i)
  \/ \E m \in Rows, i \in DOMAIN rows : m # rows[i] /\ Overwrite(m, i)
  \/ \E i \in DOMAIN rows : Delete(i)

-----------------------------------------------------------------------------
Init ==
  /\ rows = <<>> /\ endless \in Endless
  /\ pc = "idle" /\ index = 0 /\ found = <<>>
  /\ standing = {} /\ held = [s \in Slots |-> {}] /\ free = {}
  /\ passed = {} /\ moved = FALSE

Next == Begin \/ Walk \/ Fault \/ Decided \/ Others

Spec == Init /\ [][Next]_vars

(* Each request has a timeout; what other programs do is up to them. *)
FairSpec == Spec /\ WF_vars(Walk)

-----------------------------------------------------------------------------
(* Properties. *)

(* Rows toMapping drops have no slot. *)
SlotsPassed == {Identity(m) : m \in passed \ {Unreadable}}

TakesTurns(slot) == \E m, n \in held[slot] : m.remote # n.remote

(* A row that was there all through the walk is in the listing, whatever    *)
(* was added, changed or removed meanwhile, except for one row for each     *)
(* removed before the index, and those behind what seemed the end.          *)
StandingRowsAreRead ==
  pc = "read" => standing \ (passed \cup {Unreadable}) \subseteq ToSet(found)

(* No two rows of a table are the same: a listing in its order has none     *)
(* twice.                                                                  *)
InOrder(listing, table) ==
  \A j, k \in DOMAIN listing :
    j < k => \E p, q \in DOMAIN table : p < q /\ listing[j] = table[p] /\ listing[k] = table[q]

(* A walk during which rows were only added ahead of it reads the table as  *)
(* it is when the walk ends: the one step that Daemon takes it for.  (Of a   *)
(* table that never ends, the last row again and again.)                    *)
ReadsOneMoment ==
  [][pc = "walking" /\ pc' = "read" /\ ~moved /\ passed' = {} =>
       /\ ToSet(found') = Readable(rows)
       /\ ~endless => InOrder(found', rows)]_vars

(* A listing may mix moments, but what is decided for a forward is what     *)
(* the table called for at one moment of the walk, as if that slot by       *)
(* itself had been read in one step - unless a row for it was passed over,  *)
(* or rows for two RemoteHosts took turns in it.                            *)
EachDecisionWasDue ==
  pc = "read" =>
    \A f \in Forwards, options \in Options :
      \/ Identity(f) \in SlotsPassed \/ TakesTurns(Identity(f))
      \/ Decision(f, options) = "add" /\ Identity(f) \in free
      \/ \E m \in held[Identity(f)] : Decision(f, options) = KindOf(f, m, options)

(* A walk ends, even of a table that never does or that grows as it is      *)
(* read.                                                                    *)
WalkEnds == pc = "walking" ~> pc # "walking"
==============================================================================
