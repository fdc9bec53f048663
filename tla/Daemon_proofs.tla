---------------------------- MODULE Daemon_proofs -----------------------------
(***************************************************************************)
(* Proofs about Daemon, for every network, source, gateway and option: its *)
(* types, what it remembers, whose rows it changes, the moves it carries   *)
(* through, what a cleanup takes, the service it does not interrupt, the   *)
(* status it does not overstate and what it puts in place and keeps there, *)
(* in this order.  Some of it is proved of a Daemon that shares its gateway *)
(* with whoever writes whatever to it (SharedSpec), for module Hosts_proofs *)
(* to use of two of them.                                                  *)
(***************************************************************************)
EXTENDS Daemon, SequenceTheorems, FiniteSetTheorems, TLAPS

-----------------------------------------------------------------------------
(* What the constants and the types give. *)

LEMMA ElementsOfSeq ==
  ASSUME NEW S, NEW seq \in Seq(S)
  PROVE  /\ DOMAIN seq = 1 .. Len(seq) /\ Len(seq) \in Nat
         /\ \A i \in DOMAIN seq : seq[i] \in S
         /\ ToSet(seq) \subseteq S
<1>1. DOMAIN seq = 1 .. Len(seq) /\ Len(seq) \in Nat
  BY LenProperties
<1>2. \A i \in DOMAIN seq : seq[i] \in S
  BY <1>1, ElementOfSeq
<1>3. QED
  BY <1>1, <1>2 DEF ToSet

LEMMA ForwardsOfAnswers ==
  ASSUME NEW forwards \in Answers \cup {<<>>}
  PROVE  forwards \in Seq(Forwards) /\ ToSet(forwards) \subseteq Forwards
<1>1. Answers \subseteq Seq(Forwards)
  BY DaemonAssumption
<1>2. forwards \in Seq(Forwards)
  BY <1>1, EmptySeq
<1>3. QED
  BY <1>2, ElementsOfSeq

LEMMA ManagedAreAddresses ==
  ASSUME written \subseteq Addresses, NEW forwards \in Seq(Forwards)
  PROVE  ManagedAddresses(forwards) \subseteq Addresses
<1>1. \A f \in ToSet(forwards) : f.client \in Addresses \cup {NoAddress}
  <2>1. ToSet(forwards) \subseteq Forwards
    BY ElementsOfSeq
  <2>2. QED
    BY <2>1 DEF Forwards
<1>2. HostAddress \in Addresses \cup {NoAddress}
  BY DaemonAssumption
<1>3. QED
  BY <1>1, <1>2 DEF ManagedAddresses

(* Fewer rows are still one for each slot and RemoteHost ... *)
LEMMA FewerRows ==
  ASSUME TableOK, NEW rows \in SUBSET table
  PROVE  rows \subseteq Mappings /\ OneRowEach(rows)
  BY DEF TableOK, OneRowEach

(* ... and so they are with a slot's row exchanged for another. *)
LEMMA RowExchanged ==
  ASSUME TableOK, NEW new \in Mappings, ~new.remote
  PROVE  LET rows == Without(Identity(new)) \cup {new} IN
         rows \subseteq Mappings /\ OneRowEach(rows)
<1> DEFINE rows == Without(Identity(new)) \cup {new}
<1>1. rows \subseteq Mappings
  BY DEF TableOK, Without
<1>2. ASSUME NEW m \in rows, NEW n \in rows,
             Identity(m) = Identity(n), m.remote = n.remote
      PROVE  m = n
  <2>1. \A row \in Without(Identity(new)) :
          Identity(row) = Identity(new) => row.remote
    BY DEF Without, RowsAt
  <2>2. CASE m = new \/ n = new
    BY <1>2, <2>1, <2>2
  <2>3. CASE m \in table /\ n \in table
    BY <1>2, <2>3 DEF TableOK, OneRowEach
  <2>4. QED
    BY <2>2, <2>3 DEF Without
<1>3. QED
  BY <1>1, <1>2 DEF OneRowEach

(* What Reconcile returns for forwards is a sequence of actions on them. *)
LEMMA ForwardActionsType ==
  ASSUME NEW forwards \in Seq(Forwards), NEW existing, NEW options
  PROVE  ForwardActions(forwards, existing, options) \in
           Seq([kind : {"add", "replace", "renew", "keep", "conflict"},
                forward : Forwards])
<1> DEFINE Kinds == {"add", "replace", "renew", "keep", "conflict"}
<1>1. ASSUME NEW i \in DOMAIN forwards
      PROVE  ForForward(forwards[i], existing, options) \in
               [kind : Kinds, forward : Forwards]
  <2>1. \A mapping : KindOf(forwards[i], mapping, options) \in Kinds
    BY DEF KindOf, Refresh
  <2>2. QED
    BY <2>1 DEF ForForward
<1>2. DOMAIN forwards = 1 .. Len(forwards) /\ Len(forwards) \in Nat
  BY ElementsOfSeq
<1>3. QED
  BY <1>1, <1>2, SeqDef DEF ForwardActions

LEMMA LeftoverActionsType ==
  ASSUME NEW rows \in SUBSET Mappings, NEW forwards, NEW options
  PROVE  LeftoverActions(forwards, rows, options) \subseteq
           [kind : {"remove", "orphan"}, mapping : Mappings]
  BY DEF LeftoverActions

(* The row AddPortMapping asks for is a row of Portical's. *)
LEMMA NewMappingType ==
  ASSUME NEW forward \in Forwards, InternalClient(forward) # NoAddress
  PROVE  /\ NewMapping(forward) \in Mappings
         /\ IsOurs(NewMapping(forward)) /\ ~NewMapping(forward).remote
         /\ Identity(NewMapping(forward)) = Identity(forward)
         /\ NewMapping(forward).client = InternalClient(forward)
         /\ InternalClient(forward) \in Addresses
<1>1. InternalClient(forward) \in Addresses
  BY DaemonAssumption DEF InternalClient, Forwards
<1>2. QED
  BY <1>1 DEF NewMapping, Mappings, Forwards, Leases, Identity, IsOurs

-----------------------------------------------------------------------------
(* Types: one lemma for each part of TypeOK. *)

LEMMA InitTypes == Init => TypeOK
<1> SUFFICES ASSUME Init PROVE TypeOK
  OBVIOUS
<1>1. TableOK
  BY DaemonAssumption DEF Init, TableOK
<1>2. TodoOK
  BY EmptySeq DEF Init, TodoOK
<1>3. tally \in [Counted -> Nat]
  BY DEF Init, NoTally
<1>4. PassOK /\ WorldOK
  BY <1>3 DEF Init, PassOK, WorldOK
<1>5. QED
  BY <1>1, <1>2, <1>4 DEF TypeOK

(* The steps of a pass that ask the gateway for something, and what becomes *)
(* of its table.                                                            *)
LEMMA WriteTable ==
  ASSUME TypeOK, Write
  PROVE  /\ action \in [kind : {"add", "replace", "renew", "keep", "conflict"},
                        forward : Forwards]
         /\ InternalClient(action.forward) # NoAddress
         /\ \/ table' = table
            \/ table' = Without(Identity(action.forward))
                          \cup {NewMapping(action.forward)}
<1>1. todo # <<>>
  BY DEF Write, Writing, Applying, TypeOK, TodoOK
<1>2. action \in [kind : {"add", "replace", "renew", "keep", "conflict"},
                  forward : Forwards]
  BY <1>1, HeadTailProperties DEF TypeOK, TodoOK, action
<1>3. action.forward \in Forwards /\ InternalClient(action.forward) # NoAddress
  BY <1>2 DEF Write
<1>4. NewMapping(action.forward).slot = Identity(action.forward)
  BY DEF NewMapping
<1>5. QED
  BY <1>2, <1>3, <1>4 DEF Write

LEMMA StepTable ==
  ASSUME TypeOK, Step
  PROVE  TableOK'
<1>1. CASE Write
  <2>1. CASE table' = table
    BY <2>1 DEF TypeOK, TableOK
  <2>2. CASE table' = Without(Identity(action.forward))
                        \cup {NewMapping(action.forward)}
    <3> DEFINE new == NewMapping(action.forward)
    <3>1. new \in Mappings /\ ~new.remote /\ Identity(new) = Identity(action.forward)
      BY <1>1, WriteTable, NewMappingType
    <3>2. QED
      BY <2>2, <3>1, RowExchanged DEF TypeOK, TableOK
  <2>3. QED
    BY <1>1, <2>1, <2>2, WriteTable
<1>2. CASE RemoveToMove
  <2>1. table' \in SUBSET table
    BY <1>2 DEF RemoveToMove, Without
  <2>2. QED
    BY <2>1, FewerRows DEF TypeOK, TableOK
<1>3. CASE ApplyLeftover
  <2>1. table' \in SUBSET table
    BY <1>3 DEF ApplyLeftover, Without
  <2>2. QED
    BY <2>1, FewerRows DEF TypeOK, TableOK
<1>4. CASE ~(Write \/ RemoveToMove \/ ApplyLeftover)
  <2>1. table' = table
    BY <1>4 DEF Step, Begin, ReadDesired, List, ApplyQuietly, WriteNowhere, Finish
  <2>2. QED
    BY <2>1 DEF TypeOK, TableOK
<1>5. QED
  BY <1>1, <1>2, <1>3, <1>4

LEMMA WorldTable ==
  ASSUME TypeOK, World
  PROVE  TableOK'
<1>1. CASE WantChanges
  BY <1>1 DEF WantChanges, TypeOK, TableOK
<1>2. CASE OthersChange
  <2>1. PICK m \in Others :
          \/ TableChanges({n \in table : Identity(n) # Identity(m)
                                           \/ n.remote # m.remote} \cup {m})
          \/ TableChanges(table \ {m})
    BY <1>2 DEF OthersChange
  <2>2. CASE TableChanges(table \ {m})
    <3>1. table' \in SUBSET table
      BY <2>2 DEF TableChanges
    <3>2. QED
      BY <3>1, FewerRows DEF TypeOK, TableOK
  <2>3. CASE TableChanges({n \in table : Identity(n) # Identity(m)
                                           \/ n.remote # m.remote} \cup {m})
    <3>1. m \in Mappings
      BY DaemonAssumption
    <3>2. QED
      BY <2>3, <3>1 DEF TableChanges, TypeOK, TableOK, OneRowEach
  <2>4. QED
    BY <2>1, <2>2, <2>3
<1>3. CASE Reboot \/ LeaseExpires
  <2>1. table' \in SUBSET table
    BY <1>3 DEF Reboot, LeaseExpires, TableChanges
  <2>2. QED
    BY <2>1, FewerRows DEF TypeOK, TableOK
<1>4. CASE LeaseAges
  <2>1. PICK m \in table :
          table' = (table \ {m}) \cup {[m EXCEPT !.lease = "short"]}
    BY <1>4 DEF LeaseAges
  <2> DEFINE aged == [m EXCEPT !.lease = "short"]
  <2>2. m \in Mappings
    BY DEF TypeOK, TableOK
  <2>3. aged \in Mappings /\ aged.slot = m.slot /\ aged.remote = m.remote
    BY <2>2 DEF Mappings, Leases
  <2>4. table' \subseteq Mappings
    BY <2>1, <2>3 DEF TypeOK, TableOK
  <2>5. \A n \in table : n.slot = m.slot /\ n.remote = m.remote => n = m
    BY DEF TypeOK, TableOK, OneRowEach, Identity
  <2>6. ASSUME NEW n \in table', NEW o \in table',
               Identity(n) = Identity(o), n.remote = o.remote
        PROVE  n = o
    <3>1. CASE n \in table /\ o \in table
      BY <2>6, <3>1 DEF TypeOK, TableOK, OneRowEach
    <3>2. CASE n = aged \/ o = aged
      BY <2>1, <2>3, <2>5, <2>6, <3>2 DEF Identity
    <3>3. QED
      BY <2>1, <3>1, <3>2
  <2>7. QED
    BY <2>4, <2>6 DEF TableOK, OneRowEach
<1>5. QED
  BY <1>1, <1>2, <1>3, <1>4 DEF World

LEMMA NextTable == TypeOK /\ [Next]_vars => TableOK'
<1> SUFFICES ASSUME TypeOK, [Next]_vars PROVE TableOK'
  OBVIOUS
<1>1. CASE UNCHANGED vars \/ ReadFails \/ Cleanup \/ Stop \/ Restart \/ Settle
  BY <1>1 DEF vars, ReadFails, Cleanup, Stop, Restart, Settle, TypeOK, TableOK
<1>2. QED
  BY <1>1, StepTable, WorldTable DEF Next

LEMMA DoneTodo ==
  ASSUME TypeOK, todo # <<>>, NEW counts, Done(counts)
  PROVE  TodoOK'
<1>1. Tail(todo) \in Seq([kind : {"add", "replace", "renew", "keep", "conflict"},
                          forward : Forwards])
  BY HeadTailProperties DEF TypeOK, TodoOK
<1>2. QED
  BY <1>1 DEF Done, TodoOK

LEMMA NextTodo == TypeOK /\ [Next]_vars => TodoOK'
<1> SUFFICES ASSUME TypeOK, [Next]_vars PROVE TodoOK'
  OBVIOUS
<1>1. CASE UNCHANGED vars
  BY <1>1 DEF vars, program, TypeOK, TodoOK, action
<1>2. CASE Step
  <2>1. CASE Begin \/ ReadDesired \/ ApplyLeftover \/ Finish
    BY <2>1 DEF Begin, ReadDesired, ApplyLeftover, Finish, EndPass, TypeOK, TodoOK
  <2>2. CASE List
    <3>1. PICK existing \in Existing(table) :
            todo' = ForwardActions(desired, existing, ReconcileOptions(desired))
      BY <2>2 DEF List
    <3>2. desired \in Seq(Forwards)
      BY ForwardsOfAnswers DEF TypeOK, PassOK
    <3>3. QED
      BY <2>2, <3>1, <3>2, ForwardActionsType DEF List, TodoOK
  <2>3. CASE ApplyQuietly
    BY <2>3, DoneTodo DEF ApplyQuietly, Applying
  <2>4. CASE RemoveToMove
    <3>1. todo # <<>> /\ action.kind = "replace"
      BY <2>4 DEF RemoveToMove, Applying
    <3>2. CASE UNCHANGED todo
      BY <3>1, <3>2 DEF TypeOK, TodoOK, action
    <3>3. CASE Done(Count("failed"))
      BY <3>1, <3>3, DoneTodo
    <3>4. QED
      BY <2>4, <3>2, <3>3 DEF RemoveToMove
  <2>5. CASE WriteNowhere
    <3>1. todo # <<>>
      BY <2>5 DEF WriteNowhere, Writing, Applying, TypeOK, TodoOK
    <3>2. QED
      BY <2>5, <3>1, DoneTodo DEF WriteNowhere
  <2>6. CASE Write
    <3>1. todo # <<>>
      BY <2>6 DEF Write, Writing, Applying, TypeOK, TodoOK
    <3>2. \E counts : Done(counts)
      BY <2>6 DEF Write
    <3>3. QED
      BY <3>1, <3>2, DoneTodo
  <2>7. QED
    BY <1>2, <2>1, <2>2, <2>3, <2>4, <2>5, <2>6 DEF Step
<1>3. CASE ReadFails \/ Cleanup \/ Restart \/ Settle
  BY <1>3 DEF ReadFails, EndPass, Cleanup, Restart, Settle, program, TypeOK, TodoOK,
              action
<1>4. CASE Stop
  BY <1>4, EmptySeq DEF Stop, TodoOK
<1>5. CASE World
  BY <1>5 DEF World, WantChanges, OthersChange, Reboot, LeaseAges, LeaseExpires,
              TableChanges, program, TypeOK, TodoOK, action
<1>6. QED
  BY <1>1, <1>2, <1>3, <1>4, <1>5 DEF Next

LEMMA CountType ==
  ASSUME tally \in [Counted -> Nat], NEW field \in Counted
  PROVE  Count(field) \in [Counted -> Nat]
  BY DEF Count

LEMMA NextPass == TypeOK /\ [Next]_vars => PassOK'
<1> SUFFICES ASSUME TypeOK, [Next]_vars PROVE PassOK'
  OBVIOUS
<1> USE DEF TypeOK, PassOK
<1>1. Count("forwarded") \in [Counted -> Nat] /\ Count("conflicts") \in [Counted -> Nat]
        /\ Count("failed") \in [Counted -> Nat]
  BY CountType DEF Counted
<1>2. NoTally \in [Counted -> Nat]
  BY DEF NoTally
<1>3. CASE UNCHANGED vars
  BY <1>3 DEF vars, program
<1>4. CASE Begin \/ ReadDesired \/ Finish
  BY <1>2, <1>4 DEF Begin, ReadDesired, Finish, EndPass, inputs, WorldOK
<1>5. CASE List
  <2>1. leftovers' \subseteq [kind : {"remove", "orphan"}, mapping : Mappings]
    BY <1>5, LeftoverActionsType DEF List, TableOK
  <2>2. QED
    BY <1>5, <2>1 DEF List, inputs
<1>6. CASE ApplyQuietly \/ WriteNowhere
  BY <1>1, <1>6 DEF ApplyQuietly, WriteNowhere, QuietCount, Done, inputs
<1>7. CASE RemoveToMove
  <2>1. \/ pc' = "adding" /\ UNCHANGED tally
        \/ pc' = "applying" /\ tally' = Count("failed")
    BY <1>7 DEF RemoveToMove, Done
  <2>2. UNCHANGED <<inputs, cleaning, desired, leftovers, written>>
    BY <1>7 DEF RemoveToMove
  <2>3. QED
    BY <1>1, <2>1, <2>2 DEF inputs
<1>8. CASE Write
  <2>1. written' \subseteq Addresses
    BY <1>8, WriteTable, NewMappingType DEF Write, Remember
  <2>2. pc' = "applying" /\ tally' \in [Counted -> Nat]
    BY <1>1, <1>8 DEF Write, Done
  <2>3. UNCHANGED <<inputs, cleaning, desired, leftovers>>
    BY <1>8 DEF Write
  <2>4. QED
    BY <2>1, <2>2, <2>3 DEF inputs
<1>9. CASE ApplyLeftover
  <2>1. leftovers' \subseteq leftovers /\ (tally' = tally \/ tally' = Count("failed"))
    BY <1>9 DEF ApplyLeftover
  <2>2. UNCHANGED <<inputs, pc, cleaning, desired, written>>
    BY <1>9 DEF ApplyLeftover
  <2>3. QED
    BY <1>1, <2>1, <2>2 DEF inputs
<1>10. CASE ReadFails \/ Cleanup \/ Stop \/ Restart \/ Settle
  BY <1>2, <1>10 DEF ReadFails, EndPass, Cleanup, Stop, Restart, Settle, program, inputs
<1>11. CASE World
  BY <1>11 DEF World, WantChanges, OthersChange, Reboot, LeaseAges, LeaseExpires,
               TableChanges, program
<1>12. QED
  BY <1>3, <1>4, <1>5, <1>6, <1>7, <1>8, <1>9, <1>10, <1>11 DEF Next, Step

LEMMA NextWorld == TypeOK /\ [Next]_vars => WorldOK'
<1> SUFFICES ASSUME TypeOK, [Next]_vars PROVE WorldOK'
  OBVIOUS
<1> USE DEF TypeOK, WorldOK
<1>1. CASE UNCHANGED vars
  BY <1>1 DEF vars, history
<1>2. CASE Begin
  <2>1. ToSet(want) \subseteq Forwards
    BY ForwardsOfAnswers
  <2>2. QED
    BY <1>2, <2>1 DEF Begin, inputs
<1>3. CASE ReadDesired \/ ApplyQuietly \/ WriteNowhere \/ Finish
  BY <1>3 DEF ReadDesired, ApplyQuietly, WriteNowhere, Finish, EndPass, inputs, history
<1>4. CASE List
  BY <1>4 DEF List, inputs, TableOK
<1>5. CASE RemoveToMove
  <2>1. action \in [kind : {"add", "replace", "renew", "keep", "conflict"},
                    forward : Forwards]
    BY <1>5, HeadTailProperties DEF RemoveToMove, Applying, TodoOK, action
  <2>2. Identity(action.forward) \in Slots
    BY <2>1 DEF Forwards, Identity
  <2>3. mine' \subseteq Slots /\ emptied' \subseteq Slots
    BY <1>5, <2>2 DEF RemoveToMove
  <2>4. QED
    BY <1>5, <2>3 DEF RemoveToMove, inputs
<1>6. CASE Write
  <2>1. NewMapping(action.forward).slot \in Slots
    BY <1>6, WriteTable, NewMappingType DEF Mappings
  <2>2. mine' \subseteq Slots /\ emptied' \subseteq Slots /\ noticed' \subseteq noticed
    BY <1>6, <2>1 DEF Write
  <2>3. QED
    BY <1>6, <2>2 DEF Write, inputs
<1>7. CASE ApplyLeftover
  <2>1. mine' \subseteq mine
    BY <1>7 DEF ApplyLeftover
  <2>2. QED
    BY <1>7, <2>1 DEF ApplyLeftover, inputs
<1>8. CASE ReadFails \/ Cleanup \/ Stop \/ Restart \/ Settle
  BY <1>8 DEF ReadFails, EndPass, Cleanup, Stop, Restart, Settle, inputs, history
<1>9. CASE World
  BY <1>9 DEF World, WantChanges, OthersChange, Reboot, LeaseAges, LeaseExpires,
              TableChanges, history
<1>10. QED
  BY <1>1, <1>2, <1>3, <1>4, <1>5, <1>6, <1>7, <1>8, <1>9 DEF Next, Step

LEMMA NextTypes == TypeOK /\ [Next]_vars => TypeOK'
  BY NextTable, NextTodo, NextPass, NextWorld DEF TypeOK

(* Type correctness: in particular the program never puts two rows on one  *)
(* slot, nor a row that names no address.                                  *)
THEOREM TypeCorrect == Spec => []TypeOK
<1>1. QED
  BY NextTypes, InitTypes, PTL DEF Spec

(* Somebody else writes to the table: all there is to say of it is that the *)
(* gateway keeps one row for each slot and RemoteHost.                      *)
Meddled == TableChanges(table') /\ TableOK'

(* A Daemon on a gateway where this happens at any time. *)
SharedNext == Next \/ Meddled
SharedSpec == Init /\ [][SharedNext]_vars

LEMMA MeddledKeeps ==
  ASSUME Meddled
  PROVE  /\ UNCHANGED <<want, program, calm, steady, emptied, noticed>>
         /\ mine' \subseteq mine
  BY DEF Meddled, TableChanges

LEMMA SharedTypes == TypeOK /\ [SharedNext]_vars => TypeOK'
<1>1. ASSUME TypeOK, Meddled PROVE TypeOK'
  <2>1. TableOK'
    BY <1>1 DEF Meddled
  <2>2. TodoOK' /\ PassOK' /\ WorldOK'
    BY <1>1, MeddledKeeps DEF program, TypeOK, TodoOK, PassOK, WorldOK, action
  <2>3. QED
    BY <2>1, <2>2 DEF TypeOK
<1>2. QED
  BY <1>1, NextTypes DEF SharedNext

LEMMA SharedTypeCorrect == SharedSpec => []TypeOK
<1>1. QED
  BY SharedTypes, InitTypes, PTL DEF SharedSpec

LEMMA AloneIsShared == Spec => SharedSpec
<1>1. [Next]_vars => [SharedNext]_vars
  BY DEF SharedNext
<1>2. QED
  BY <1>1, PTL DEF Spec, SharedSpec

-----------------------------------------------------------------------------
(* Rows of other owners.  What a pass is about to write over or remove was  *)
(* not foreign when it listed the table, and nothing but other programs can *)
(* make it so before the pass gets there.                                   *)

Clear(slot) == \A m \in RowsAt(slot) : ~Foreign(m, desired)

AsListed ==
  /\ pc \in {"idle", "reading", "listing", "stopped"} => todo = <<>> /\ leftovers = {}
  /\ \A task \in ToSet(todo) :
       /\ task.forward \in ToSet(desired)
       /\ task.kind \in {"add", "renew", "replace"} => Clear(Identity(task.forward))
  /\ \A rest \in leftovers : rest.kind = "remove" => Clear(Identity(rest.mapping))

(* Where rows of other tools are taken over, none names a RemoteHost. *)
NoStealRemote == (\E options \in Options : options.steal) => \A m \in table : ~m.remote

LEMMA HeadAndTail ==
  ASSUME NEW S, NEW seq \in Seq(S), seq # <<>>
  PROVE  Head(seq) \in ToSet(seq) /\ ToSet(Tail(seq)) \subseteq ToSet(seq)
<1>1. Len(seq) \in Nat \ {0} /\ DOMAIN seq = 1 .. Len(seq)
  BY EmptySeq, LenProperties
<1>2. Head(seq) = seq[1]
  BY <1>1
<1>3. /\ Tail(seq) \in Seq(S) /\ Len(Tail(seq)) = Len(seq) - 1
      /\ \A i \in 1 .. Len(Tail(seq)) : Tail(seq)[i] = seq[i + 1]
  BY HeadTailProperties
<1>4. DOMAIN Tail(seq) = 1 .. Len(Tail(seq))
  BY <1>3, LenProperties
<1>5. QED
  BY <1>1, <1>2, <1>3, <1>4 DEF ToSet

LEMMA NothingIn ==  ToSet(<<>>) = {}
  BY DEF ToSet

(* What is clear stays clear. *)
LEMMA ClearKept ==
  ASSUME TypeOK, desired' = desired, flags' = flags, written \subseteq written',
         NEW slot, Clear(slot),
         \A m \in RowsAt(slot)' :
            \/ \E n \in RowsAt(slot) : m.ours = n.ours /\ m.client = n.client
            \/ IsOurs(m) /\ m.client \in ManagedAddresses(desired)'
  PROVE  Clear(slot)'
<1>1. ManagedAddresses(desired) \subseteq ManagedAddresses(desired)'
  BY DEF ManagedAddresses
<1>2. \A m \in RowsAt(slot)' : ~Foreign(m, desired)'
  BY <1>1 DEF Clear, Foreign, IsOurs
<1>3. QED
  BY <1>2 DEF Clear

LEMMA WriteKeepsClear ==
  ASSUME TypeOK, AsListed, Write, NEW slot, Clear(slot)
  PROVE  Clear(slot)'
<1> DEFINE new == NewMapping(action.forward)
<1>1. todo # <<>>
  BY DEF Write, Writing, Applying, TypeOK, TodoOK
<1>2. action.forward \in ToSet(desired)
  BY <1>1, HeadAndTail DEF AsListed, TypeOK, TodoOK, action
<1>3. IsOurs(new) /\ new.client = InternalClient(action.forward)
        /\ new.client \in Addresses /\ new.client # NoAddress
  BY WriteTable, NewMappingType, NoAddressAssumption
<1>4. new.client \in ManagedAddresses(desired)
  BY <1>2, <1>3 DEF ManagedAddresses, InternalClient
<1>5. written \subseteq written' /\ UNCHANGED <<desired, flags>>
  BY DEF Write, Remember, inputs
<1>6. new.client \in ManagedAddresses(desired)'
  BY <1>4, <1>5 DEF ManagedAddresses
<1>7. \A m \in RowsAt(slot)' : m \in RowsAt(slot) \/ m = new
  BY WriteTable DEF RowsAt, Without
<1>8. QED
  BY <1>3, <1>5, <1>6, <1>7, ClearKept

LEMMA OtherStepsKeepClear ==
  ASSUME TypeOK, ApplyQuietly \/ RemoveToMove \/ WriteNowhere \/ ApplyLeftover,
         NEW slot, Clear(slot)
  PROVE  Clear(slot)'
<1>1. table' \subseteq table /\ written' = written /\ UNCHANGED <<desired, flags>>
  BY DEF ApplyQuietly, RemoveToMove, WriteNowhere, ApplyLeftover, Without, inputs
<1>2. \A m \in RowsAt(slot)' : m \in RowsAt(slot)
  BY <1>1 DEF RowsAt
<1>3. QED
  BY <1>1, <1>2, ClearKept

LEMMA WorldKeepsClear ==
  ASSUME TypeOK, "tool" \notin Faults, World, NEW slot, Clear(slot)
  PROVE  Clear(slot)'
<1>1. written' = written /\ UNCHANGED <<desired, flags>>
  BY DEF World, WantChanges, OthersChange, Reboot, LeaseAges, LeaseExpires,
         TableChanges, program
<1>2. CASE LeaseAges
  <2>1. PICK m \in table :
          table' = (table \ {m}) \cup {[m EXCEPT !.lease = "short"]}
    BY <1>2 DEF LeaseAges
  <2> DEFINE aged == [m EXCEPT !.lease = "short"]
  <2>2. aged.slot = m.slot /\ aged.remote = m.remote /\ aged.ours = m.ours
          /\ aged.client = m.client
    BY DEF TypeOK, TableOK, Mappings
  <2>3. \A n \in RowsAt(slot)' : n \in RowsAt(slot) \/ (n = aged /\ m \in RowsAt(slot))
    BY <2>1, <2>2 DEF RowsAt, Identity
  <2>4. QED
    BY <1>1, <2>2, <2>3, ClearKept
<1>3. CASE ~LeaseAges
  <2>1. table' \subseteq table
    BY <1>3 DEF World, WantChanges, OthersChange, Reboot, LeaseExpires, TableChanges
  <2>2. \A m \in RowsAt(slot)' : m \in RowsAt(slot)
    BY <2>1 DEF RowsAt
  <2>3. QED
    BY <1>1, <2>2, ClearKept
<1>4. QED
  BY <1>2, <1>3

(* What Reconcile decides to write over or to remove is not foreign. *)
LEMMA ListedRight ==
  ASSUME TypeOK, NoStealRemote, List
  PROVE  AsListed'
<1> DEFINE options == ReconcileOptions(desired)
<1>1. PICK existing \in Existing(table) :
        todo' = ForwardActions(desired, existing, options)
  BY DEF List
<1>2. /\ pc' = "applying" /\ desired' = desired
      /\ UNCHANGED <<table, written, flags>>
      /\ leftovers' = LeftoverActions(desired, table, options)
  BY DEF List, inputs
<1>3. \A m : Foreign(m, desired)' = Foreign(m, desired)
  BY <1>2 DEF Foreign, ManagedAddresses
<1>4. \A slot : Clear(slot)' <=> Clear(slot)
  BY <1>2, <1>3 DEF Clear, RowsAt
<1>5. \A m \in table : Foreign(m, desired) => NotToTouch(m, options)
  BY DEF Foreign, NotToTouch, Managed, ReconcileOptions
<1>6. \A s \in DOMAIN existing : existing[s] \in table /\ Identity(existing[s]) = s
  BY DEF Existing
<1>7. DOMAIN existing = {Identity(m) : m \in table}
  BY DEF Existing
<1>8. ASSUME NEW row \in table, ~row.remote, ~Foreign(row, desired)
      PROVE  Clear(Identity(row))
  <2>1. \A m \in RowsAt(Identity(row)) : m = row
    BY <1>8 DEF RowsAt, TypeOK, TableOK, OneRowEach, Mappings
  <2>2. QED
    BY <1>8, <2>1 DEF Clear
<1>9. ASSUME NEW forward \in ToSet(desired),
             ForForward(forward, existing, options).kind \in {"add", "renew", "replace"}
      PROVE  Clear(Identity(forward))
  <2>1. CASE Identity(forward) \notin DOMAIN existing
    BY <1>7, <2>1 DEF Clear, RowsAt
  <2>2. CASE Identity(forward) \in DOMAIN existing
    <3> DEFINE row == existing[Identity(forward)]
    <3>1. row \in table /\ row \in Mappings /\ Identity(row) = Identity(forward)
      BY <1>6, <2>2 DEF TypeOK, TableOK
    <3>2. ~NotToTouch(row, options)
      BY <1>9, <2>2 DEF ForForward, KindOf
    <3>3. ~Foreign(row, desired)
      BY <1>5, <3>1, <3>2
    <3>4. CASE IsOurs(row)
      BY <1>8, <3>1, <3>3, <3>4 DEF IsOurs, Mappings
    <3>5. CASE ~IsOurs(row)
      <4>1. flags \in Options /\ flags.steal
        BY <3>2, <3>5 DEF NotToTouch, ReconcileOptions, TypeOK, PassOK
      <4>2. QED
        BY <1>8, <3>1, <3>3, <4>1 DEF NoStealRemote
    <3>6. QED
      BY <3>4, <3>5
  <2>3. QED
    BY <2>1, <2>2
<1>10. \A task \in ToSet(todo') :
         /\ task.forward \in ToSet(desired)
         /\ task.kind \in {"add", "renew", "replace"} => Clear(Identity(task.forward))
  <2>1. \A task \in ToSet(todo') : \E forward \in ToSet(desired) :
          task = ForForward(forward, existing, options) /\ task.forward = forward
    BY <1>1 DEF ForwardActions, ForForward, ToSet
  <2>2. QED
    BY <1>9, <2>1
<1>11. \A rest \in leftovers' : rest.kind = "remove" => Clear(Identity(rest.mapping))
  <2> SUFFICES ASSUME NEW rest \in leftovers', rest.kind = "remove"
               PROVE  Clear(Identity(rest.mapping))
    OBVIOUS
  <2>1. rest.mapping \in table /\ Managed(rest.mapping, options)
    BY <1>2 DEF LeftoverActions
  <2>2. IsOurs(rest.mapping) /\ ~rest.mapping.remote
    BY <2>1 DEF Managed, IsOurs, Mappings, TypeOK, TableOK
  <2>3. ~Foreign(rest.mapping, desired)
    BY <2>1, <2>2 DEF Foreign, Managed, ReconcileOptions
  <2>4. QED
    BY <1>8, <2>1, <2>2, <2>3
<1>12. QED
  BY <1>2, <1>4, <1>10, <1>11 DEF AsListed

(* What a pass listed: of these rows, whatever others do to the table, it   *)
(* spares for good those that were foreign.                                 *)
ClearIn(rows, slot) ==
  \A m \in rows : Identity(m) = slot /\ ~m.remote => ~Foreign(m, desired)

ClearAsListed(rows) ==
  pc \in {"applying", "adding"} =>
    /\ \A task \in ToSet(todo) : task.kind \in {"add", "renew", "replace"} =>
                                   ClearIn(rows, Identity(task.forward))
    /\ \A rest \in leftovers : rest.kind = "remove" => ClearIn(rows, Identity(rest.mapping))

LEMMA ListedClear ==
  ASSUME TypeOK, NoStealRemote, List
  PROVE  pc' = "applying" => ClearAsListed(table)'
<1>1. AsListed'
  BY ListedRight
<1>2. \A slot : Clear(slot)' => ClearIn(table, slot)'
  BY DEF Clear, ClearIn, RowsAt
<1>3. QED
  BY <1>1, <1>2 DEF AsListed, ClearAsListed

LEMMA ClearInKept ==
  ASSUME NEW rows, NEW slot, ClearIn(rows, slot),
         desired' = desired, flags' = flags, written \subseteq written'
  PROVE  \A m \in rows : Identity(m) = slot /\ ~m.remote => ~Foreign(m, desired)'
<1>1. ManagedAddresses(desired) \subseteq ManagedAddresses(desired)'
  BY DEF ManagedAddresses
<1>2. QED
  BY <1>1 DEF ClearIn, Foreign

LEMMA NextAsListed ==
  ASSUME "tool" \notin Faults, TypeOK, NoStealRemote, AsListed, [Next]_vars
  PROVE  AsListed'
<1>1. CASE UNCHANGED vars \/ Settle
  <2>1. UNCHANGED <<table, program>>
    BY <1>1 DEF vars, Settle
  <2>2. QED
    BY <2>1 DEF AsListed, Clear, RowsAt, Foreign, ManagedAddresses, program
<1>2. CASE List
  BY <1>2, ListedRight
<1>3. CASE Begin \/ ReadDesired \/ Finish \/ ReadFails \/ Cleanup \/ Stop \/ Restart
  <2>1. todo' = <<>> /\ leftovers' = {}
    BY <1>3 DEF Begin, ReadDesired, Finish, ReadFails, Cleanup, Stop, Restart, AsListed
  <2>2. QED
    BY <2>1, NothingIn DEF AsListed
<1>4. CASE ApplyQuietly \/ RemoveToMove \/ WriteNowhere \/ Write
  <2>1. todo # <<>>
    BY <1>4 DEF ApplyQuietly, RemoveToMove, WriteNowhere, Write, Writing, Applying,
                TypeOK, TodoOK
  <2>2. todo' = todo \/ todo' = Tail(todo)
    BY <1>4 DEF ApplyQuietly, RemoveToMove, WriteNowhere, Write, Done
  <2>3. ToSet(todo') \subseteq ToSet(todo)
    BY <2>1, <2>2, HeadAndTail DEF TypeOK, TodoOK
  <2>4. desired' = desired /\ leftovers' = leftovers /\ pc' \in {"applying", "adding"}
    BY <1>4 DEF ApplyQuietly, RemoveToMove, WriteNowhere, Write, Done
  <2>5. \A slot : Clear(slot) => Clear(slot)'
    BY <1>4, WriteKeepsClear, OtherStepsKeepClear
  <2>6. QED
    BY <2>3, <2>4, <2>5 DEF AsListed
<1>5. CASE ApplyLeftover
  <2>1. /\ leftovers' \subseteq leftovers /\ desired' = desired
        /\ todo' = todo /\ pc' = pc /\ pc = "applying"
    BY <1>5 DEF ApplyLeftover
  <2>2. \A slot : Clear(slot) => Clear(slot)'
    BY <1>5, OtherStepsKeepClear
  <2>3. QED
    BY <2>1, <2>2 DEF AsListed
<1>6. CASE World
  <2>1. UNCHANGED program
    BY <1>6 DEF World, WantChanges, OthersChange, Reboot, LeaseAges, LeaseExpires,
                TableChanges
  <2>2. \A slot : Clear(slot) => Clear(slot)'
    BY <1>6, WorldKeepsClear
  <2>3. QED
    BY <2>1, <2>2 DEF AsListed, program
<1>7. QED
  BY <1>1, <1>2, <1>3, <1>4, <1>5, <1>6 DEF Next, Step

LEMMA NextRemotes ==
  ASSUME TypeOK, [Next]_vars, \A m \in table : ~m.remote,
         "tool" \notin Faults \/ \A m \in Others : ~m.remote
  PROVE  \A m \in table' : ~m.remote
<1>1. CASE Write
  <2>1. ~NewMapping(action.forward).remote
    BY <1>1, WriteTable, NewMappingType
  <2>2. QED
    BY <1>1, <2>1, WriteTable DEF Without
<1>2. CASE LeaseAges
  <2>1. PICK m \in table :
          table' = (table \ {m}) \cup {[m EXCEPT !.lease = "short"]}
    BY <1>2 DEF LeaseAges
  <2>2. [m EXCEPT !.lease = "short"].remote = m.remote
    BY DEF TypeOK, TableOK, Mappings
  <2>3. QED
    BY <2>1, <2>2
<1>3. CASE OthersChange
  BY <1>3 DEF OthersChange, TableChanges
<1>4. CASE ~Write /\ ~LeaseAges /\ ~OthersChange
  <2>1. table' \subseteq table
    BY <1>4 DEF Next, Step, Begin, ReadDesired, List, ApplyQuietly, RemoveToMove,
                WriteNowhere, ApplyLeftover, Finish, ReadFails, Cleanup, Stop, Restart,
                World, WantChanges, Reboot, LeaseExpires, TableChanges, Settle, Without, vars
  <2>2. QED
    BY <2>1
<1>5. QED
  BY <1>1, <1>2, <1>3, <1>4

LEMMA NextNoStealRemote ==
  ASSUME "tool" \notin Faults, TypeOK, NoStealRemote, [Next]_vars
  PROVE  NoStealRemote'
  BY NextRemotes DEF NoStealRemote

(* What a pass keeps in mind of the rows it listed until it is over. *)
LEMMA SharedClearAsListed ==
  ASSUME TypeOK, [SharedNext]_vars, ~List, NEW rows, ClearAsListed(rows),
         pc' \in {"applying", "adding"}
  PROVE  ClearAsListed(rows)'
<1>1. /\ pc \in {"applying", "adding"} /\ UNCHANGED <<desired, flags>>
      /\ written \subseteq written' /\ leftovers' \subseteq leftovers
      /\ ToSet(todo') \subseteq ToSet(todo)
  <2>1. CASE UNCHANGED vars \/ Settle \/ World \/ Meddled
    <3>1. UNCHANGED program
      BY <2>1, MeddledKeeps DEF vars, Settle, World, WantChanges, OthersChange, Reboot,
                                LeaseAges, LeaseExpires, TableChanges
    <3>2. QED
      BY <3>1 DEF program
  <2>2. CASE ApplyQuietly \/ RemoveToMove \/ WriteNowhere \/ Write
    <3>1. todo # <<>> /\ todo' \in {todo, Tail(todo)}
      BY <2>2 DEF ApplyQuietly, RemoveToMove, WriteNowhere, Write, Writing, Applying, Done,
                  TypeOK, TodoOK
    <3>2. ToSet(todo') \subseteq ToSet(todo)
      BY <3>1, HeadAndTail DEF TypeOK, TodoOK
    <3>3. /\ pc \in {"applying", "adding"} /\ UNCHANGED <<desired, flags, leftovers>>
          /\ written \subseteq written'
      BY <2>2 DEF ApplyQuietly, RemoveToMove, WriteNowhere, Write, Writing, Applying,
                  Remember, inputs
    <3>4. QED
      BY <3>2, <3>3
  <2>3. CASE ApplyLeftover
    BY <2>3 DEF ApplyLeftover, inputs
  <2>4. CASE Begin \/ ReadDesired \/ Finish \/ ReadFails \/ Cleanup \/ Stop \/ Restart
    BY <2>4 DEF Begin, ReadDesired, Finish, ReadFails, EndPass, Cleanup, Stop, Restart
  <2>5. QED
    BY <2>1, <2>2, <2>3, <2>4 DEF SharedNext, Next, Step
<1>2. \A slot : ClearIn(rows, slot) =>
        \A m \in rows : Identity(m) = slot /\ ~m.remote => ~Foreign(m, desired)'
  BY <1>1, ClearInKept
<1>3. QED
  BY <1>1, <1>2 DEF ClearAsListed, ClearIn

LEMMA SharedSpares ==
  ASSUME TypeOK, [SharedNext]_vars, program' # program, NEW rows, ClearAsListed(rows),
         NEW m \in rows, m \in table, Foreign(m, desired)
  PROVE  m \in table'
<1>1. CASE RemoveToMove
  <2>1. todo # <<>> /\ action.kind = "replace" /\ pc = "applying"
    BY <1>1 DEF RemoveToMove, Applying
  <2>2. ClearIn(rows, Identity(action.forward))
    BY <2>1, HeadAndTail DEF ClearAsListed, TypeOK, TodoOK, action
  <2>3. m \notin RowsAt(Identity(action.forward))
    BY <2>2 DEF ClearIn, RowsAt
  <2>4. QED
    BY <1>1, <2>3 DEF RemoveToMove, Without
<1>2. CASE Write
  <2>1. todo # <<>> /\ action.kind \in {"add", "renew", "replace"}
          /\ pc \in {"applying", "adding"}
    BY <1>2 DEF Write, Writing, Applying, TypeOK, TodoOK
  <2>2. ClearIn(rows, Identity(action.forward))
    BY <2>1, HeadAndTail DEF ClearAsListed, TypeOK, TodoOK, action
  <2>3. m \notin RowsAt(Identity(action.forward))
    BY <2>2 DEF ClearIn, RowsAt
  <2>4. QED
    BY <1>2, <2>3, WriteTable DEF Without
<1>3. CASE ApplyLeftover
  <2>1. PICK rest \in leftovers :
          \/ table' = table
          \/ rest.kind = "remove" /\ table' = Without(Identity(rest.mapping))
    BY <1>3 DEF ApplyLeftover, TypeOK, PassOK
  <2>2. CASE rest.kind = "remove" /\ table' = Without(Identity(rest.mapping))
    <3>1. m \notin RowsAt(Identity(rest.mapping))
      BY <1>3, <2>2 DEF ApplyLeftover, ClearAsListed, ClearIn, RowsAt
    <3>2. QED
      BY <2>2, <3>1 DEF Without
  <2>3. QED
    BY <2>1, <2>2
<1>4. CASE World \/ Settle \/ Meddled \/ UNCHANGED vars
  BY <1>4, MeddledKeeps DEF World, WantChanges, OthersChange, Reboot, LeaseAges,
                            LeaseExpires, TableChanges, Settle, vars
<1>5. CASE \/ Begin \/ ReadDesired \/ List \/ ApplyQuietly \/ WriteNowhere \/ Finish
           \/ ReadFails \/ Cleanup \/ Stop \/ Restart
  BY <1>5 DEF Begin, ReadDesired, List, ApplyQuietly, WriteNowhere, Finish, ReadFails,
              Cleanup, Stop, Restart
<1>6. QED
  BY <1>1, <1>2, <1>3, <1>4, <1>5 DEF SharedNext, Next, Step

(* One pass after another: rows is what the last one listed, later is what  *)
(* this one has.                                                            *)
LEMMA SharedListing ==
  ASSUME TypeOK, NoStealRemote, [SharedNext]_vars, NEW rows, ClearAsListed(rows),
         NEW later,
         pc' \in {"applying", "adding"} => later = IF pc = "listing" THEN table ELSE rows
  PROVE  ClearAsListed(later)'
<1>1. CASE pc' \notin {"applying", "adding"}
  BY <1>1 DEF ClearAsListed
<1>2. CASE List
  <2>1. pc = "listing" /\ pc' = "applying" /\ table' = table
    BY <1>2 DEF List
  <2>2. ClearAsListed(table)'
    BY <1>2, <2>1, ListedClear
  <2>3. later = table'
    BY <2>1
  <2>4. QED
    BY <2>2, <2>3 DEF ClearAsListed, ClearIn
<1>3. CASE ~List /\ pc' \in {"applying", "adding"}
  <2>1. pc # "listing"
    BY <1>3, MeddledKeeps
    DEF SharedNext, Next, Step, Begin, ReadDesired, ApplyQuietly, RemoveToMove, WriteNowhere,
        Write, Writing, Applying, ApplyLeftover, Finish, EndPass, ReadFails, Cleanup, Stop,
        Restart, Settle, World, WantChanges, OthersChange, Reboot, LeaseAges, LeaseExpires,
        TableChanges, program, vars
  <2>2. later = rows
    BY <1>3, <2>1
  <2>3. QED
    BY <1>3, <2>2, SharedClearAsListed
<1>4. QED
  BY <1>1, <1>2, <1>3

LEMMA StepSparesOthers ==
  ASSUME TypeOK, AsListed, [Next]_vars, program' # program,
         NEW m \in table, Foreign(m, desired)
  PROVE  m \in table'
<1>1. ClearAsListed(table)
  BY DEF AsListed, ClearAsListed, Clear, ClearIn, RowsAt
<1>2. QED
  BY <1>1, SharedSpares DEF SharedNext

(* "Mappings belonging to other tools are never touched" (README), nor are  *)
(* another Portical's, whatever fails and however leases and reboots change *)
(* the table: as long as no other program writes to it while Portical runs, *)
(* and no row that --steal may take over names a RemoteHost.                *)
THEOREM OthersAreLeftAlone ==
  ASSUME "tool" \notin Faults,
         \/ \A options \in Options : ~options.steal
         \/ \A rows \in Tables : \A m \in rows : ~m.remote
  PROVE  Spec => OthersUntouched
<1> DEFINE Inv == TypeOK /\ NoStealRemote /\ AsListed
<1>1. Init => Inv
  <2> SUFFICES ASSUME Init PROVE NoStealRemote /\ AsListed
    BY InitTypes
  <2>1. NoStealRemote
    BY DEF Init, NoStealRemote
  <2>2. AsListed
    BY NothingIn DEF Init, AsListed
  <2>3. QED
    BY <2>1, <2>2
<1>2. Inv /\ TypeOK' /\ [Next]_vars => Inv'
  BY NextAsListed, NextNoStealRemote
<1>3. Inv /\ [Next]_vars =>
        [program' # program =>
           \A m \in table : Foreign(m, desired) => m \in table']_vars
  BY StepSparesOthers
<1>4. QED
  BY <1>1, <1>2, <1>3, TypeCorrect, PTL DEF Spec, OthersUntouched

-----------------------------------------------------------------------------
(* What was written is remembered. *)

LEMMA TableChangesRemembered ==
  ASSUME TypeOK', WrittenRemembered, NEW rows, TableChanges(rows)
  PROVE  WrittenRemembered'
<1> SUFFICES ASSUME NEW s \in mine', NEW m \in RowsAt(s)'
             PROVE  m.client \in written'
  BY DEF WrittenRemembered
<1>1. s \in mine /\ written' = written /\ table' = rows
  BY DEF TableChanges, program
<1>2. PICK n \in rows \cap table : Identity(n) = s /\ ~n.remote
  BY DEF TableChanges
<1>3. m = n
  BY <1>1, <1>2 DEF RowsAt, TypeOK, TableOK, OneRowEach, Mappings
<1>4. n \in RowsAt(s)
  BY <1>2 DEF RowsAt
<1>5. QED
  BY <1>1, <1>3, <1>4 DEF WrittenRemembered

LEMMA WriteRemembered ==
  ASSUME "reply_lost" \notin Faults, TypeOK, WrittenRemembered, Write
  PROVE  WrittenRemembered'
<1> DEFINE new == NewMapping(action.forward)
<1>1. \/ UNCHANGED <<table, mine, written>>
      \/ /\ table' = Without(new.slot) \cup {new}
         /\ mine' = mine \cup {new.slot}
         /\ written' = written \cup {new.client}
  BY DEF Write, Outcomes, Remember
<1>2. CASE UNCHANGED <<table, mine, written>>
  BY <1>2 DEF WrittenRemembered, RowsAt
<1>3. CASE /\ table' = Without(new.slot) \cup {new}
           /\ mine' = mine \cup {new.slot}
           /\ written' = written \cup {new.client}
  <2> SUFFICES ASSUME NEW s \in mine', NEW m \in RowsAt(s)'
               PROVE  m.client \in written'
    BY DEF WrittenRemembered
  <2>1. CASE m = new
    BY <1>3, <2>1
  <2>2. CASE m # new
    <3>1. m \in RowsAt(s) /\ m \notin RowsAt(new.slot)
      BY <1>3, <2>2 DEF RowsAt, Without
    <3>2. s \in mine
      BY <1>3, <3>1
    <3>3. QED
      BY <1>3, <3>1, <3>2 DEF WrittenRemembered
  <2>3. QED
    BY <2>1, <2>2
<1>4. QED
  BY <1>1, <1>2, <1>3

LEMMA RemovalRemembered ==
  ASSUME TypeOK, WrittenRemembered, RemoveToMove \/ ApplyLeftover
  PROVE  WrittenRemembered'
<1>1. written' = written
  BY DEF RemoveToMove, ApplyLeftover
<1>2. \/ UNCHANGED <<table, mine>>
      \/ \E slot : table' = Without(slot) /\ mine' = mine \ {slot}
  BY DEF RemoveToMove, ApplyLeftover
<1>3. QED
  BY <1>1, <1>2 DEF WrittenRemembered, RowsAt, Without

LEMMA NextRemembered ==
  ASSUME "reply_lost" \notin Faults, TypeOK, TypeOK', WrittenRemembered, [Next]_vars
  PROVE  WrittenRemembered'
<1>1. CASE OthersChange \/ Reboot \/ LeaseExpires
  BY <1>1, TableChangesRemembered DEF OthersChange, Reboot, LeaseExpires
<1>2. CASE LeaseAges
  <2>1. PICK m \in table :
          table' = (table \ {m}) \cup {[m EXCEPT !.lease = "short"]}
    BY <1>2 DEF LeaseAges
  <2> DEFINE aged == [m EXCEPT !.lease = "short"]
  <2>2. aged.slot = m.slot /\ aged.remote = m.remote /\ aged.client = m.client
    BY DEF TypeOK, TableOK, Mappings
  <2>3. \A s : \A n \in RowsAt(s)' : \E o \in RowsAt(s) : n.client = o.client
    BY <2>1, <2>2 DEF RowsAt, Identity
  <2>4. UNCHANGED <<mine, written>>
    BY <1>2 DEF LeaseAges, program, history
  <2>5. QED
    BY <2>3, <2>4 DEF WrittenRemembered
<1>3. CASE Restart
  BY <1>3 DEF Restart, WrittenRemembered
<1>4. CASE \/ UNCHANGED vars \/ Begin \/ ReadDesired \/ List \/ ApplyQuietly
           \/ WriteNowhere \/ Finish \/ ReadFails \/ Cleanup \/ Stop \/ WantChanges
           \/ Settle
  <2>1. UNCHANGED <<table, mine, written>>
    BY <1>4 DEF vars, program, history, Begin, ReadDesired, List, ApplyQuietly,
                WriteNowhere, Finish, ReadFails, Cleanup, Stop, WantChanges, Settle
  <2>2. QED
    BY <2>1 DEF WrittenRemembered, RowsAt
<1>5. QED
  BY <1>1, <1>2, <1>3, <1>4, WriteRemembered, RemovalRemembered
  DEF Next, Step, World

LEMMA SharedRemembered ==
  ASSUME "reply_lost" \notin Faults
  PROVE  SharedSpec => []WrittenRemembered
<1>1. Init => WrittenRemembered
  BY DEF Init, WrittenRemembered
<1>2. TypeOK /\ TypeOK' /\ WrittenRemembered /\ [SharedNext]_vars => WrittenRemembered'
  BY NextRemembered, TableChangesRemembered DEF SharedNext, Meddled
<1>3. QED
  BY <1>1, <1>2, SharedTypeCorrect, PTL DEF SharedSpec

(* "Everything written this run, so a container that stops while we are up  *)
(* is still cleaned up": it holds of a gateway whose answers are not lost,  *)
(* whatever else fails and whoever else writes to the table.  Where one is   *)
(* lost the row is there and its address is not remembered.                 *)
THEOREM WhatIsWrittenIsRemembered ==
  ASSUME "reply_lost" \notin Faults
  PROVE  Spec => []WrittenRemembered
<1>1. QED
  BY SharedRemembered, AloneIsShared, PTL

-----------------------------------------------------------------------------
(* A row taken down to move it is put back. *)

(* At most one row is down, and it is the one about to be put back. *)
MoveInHand ==
  /\ emptied # {} => pc = "adding" /\ emptied = {Identity(action.forward)}
  /\ "refuse_to_move" \in Quirks /\ pc = "adding" =>
       RowsAt(Identity(action.forward)) = {}

(* What is still to do is for forwards the pass read. *)
TodoWanted ==
  /\ pc \in {"idle", "reading", "listing", "stopped"} => todo = <<>>
  /\ \A task \in ToSet(todo) : task.forward \in ToSet(desired)

(* A gateway that has no reason to refuse what this source asks for: it     *)
(* knows where each forward leads, takes its slot, and may be asked for it  *)
(* by whoever does; and where it will not move a row, nobody else puts one   *)
(* where one was just deleted.                                              *)
Obliging ==
  /\ \A forwards \in Answers : \A f \in ToSet(forwards) :
       /\ InternalClient(f) # NoAddress /\ Identity(f) \notin Refused
       /\ "secure_mode" \in Quirks => InternalClient(f) = Requester(f)
  /\ "refuse_to_move" \notin Quirks \/ "tool" \notin Faults

(* Every request is served and answered. *)
Answered == Faults \cap {"unserved", "reply_lost"} = {}

LEMMA AllServed ==
  ASSUME Answered, NEW accepted, NEW outcome \in Outcomes(accepted)
  PROVE  /\ outcome \in {"done", "unserved"}
         /\ accepted => outcome = "done"
         /\ outcome = "done" => accepted
<1>1. outcome \in {"done", "unserved"}
  BY Zenon DEF Answered, Outcomes
<1>2. accepted => outcome = "done"
  BY Zenon DEF Answered, Outcomes
<1>3. outcome = "done" => accepted
  BY Zenon DEF Outcomes
<1> QED
  BY <1>1, <1>2, <1>3

LEMMA NextTodoWanted ==
  ASSUME TypeOK, TodoWanted, [Next]_vars
  PROVE  TodoWanted'
<1>1. CASE UNCHANGED vars \/ Settle \/ World \/ ApplyLeftover
  <2>1. UNCHANGED <<pc, todo, desired>>
    BY <1>1 DEF vars, program, Settle, World, WantChanges, OthersChange, Reboot, LeaseAges,
                LeaseExpires, TableChanges, ApplyLeftover
  <2> QED
    BY <2>1 DEF TodoWanted
<1>2. CASE Begin \/ ReadDesired \/ Finish \/ ReadFails \/ Cleanup \/ Stop \/ Restart
  <2>1. todo' = <<>>
    BY <1>2 DEF Begin, ReadDesired, Finish, ReadFails, Cleanup, Stop, Restart, TodoWanted
  <2> QED
    BY <2>1, NothingIn DEF TodoWanted
<1>3. CASE List
  <2>1. PICK existing \in Existing(table) :
          todo' = ForwardActions(desired, existing, ReconcileOptions(desired))
    BY <1>3 DEF List
  <2>2. \A task \in ToSet(todo') : task.forward \in ToSet(desired)
    BY <2>1 DEF ForwardActions, ForForward, ToSet
  <2> QED
    BY <1>3, <2>2 DEF List, TodoWanted
<1>4. CASE ApplyQuietly \/ RemoveToMove \/ WriteNowhere \/ Write
  <2>1. todo # <<>> /\ todo' \in {todo, Tail(todo)}
    BY <1>4 DEF ApplyQuietly, RemoveToMove, WriteNowhere, Write, Writing, Applying, Done,
                TypeOK, TodoOK
  <2>2. ToSet(todo') \subseteq ToSet(todo)
    BY <2>1, HeadAndTail DEF TypeOK, TodoOK
  <2>3. desired' = desired /\ pc' \in {"applying", "adding"}
    BY <1>4 DEF ApplyQuietly, RemoveToMove, WriteNowhere, Write, Done
  <2> QED
    BY <2>2, <2>3 DEF TodoWanted
<1> QED
  BY <1>1, <1>2, <1>3, <1>4 DEF Next, Step

LEMMA WritePutsBack ==
  ASSUME Answered, Obliging, TypeOK, TodoWanted, MoveInHand, Write, pc = "adding"
  PROVE  emptied' = {}
<1> DEFINE forward == action.forward
           new == NewMapping(forward)
<1>1. todo # <<>> /\ action.kind = "replace"
  BY DEF TypeOK, TodoOK
<1>2. forward \in ToSet(desired)
  BY <1>1, HeadAndTail DEF TodoWanted, TypeOK, TodoOK, action
<1>3. desired \in Answers
  BY <1>2, NothingIn DEF TypeOK, PassOK
<1>4. forward \in Forwards
  BY <1>2, <1>3, ForwardsOfAnswers
<1>5. Identity(new) = Identity(forward) /\ new.client = InternalClient(forward)
        /\ new.slot = Identity(forward)
  BY DEF NewMapping, Identity
<1>6. /\ Identity(forward) \notin Refused
      /\ "secure_mode" \in Quirks => InternalClient(forward) = Requester(forward)
  BY <1>2, <1>3 DEF Obliging
<1>7. "refuse_to_move" \in Quirks => RowsAt(Identity(forward)) = {}
  BY DEF Obliging, MoveInHand
<1>8. Accepts(Requester(forward), new)
  BY <1>5, <1>6, <1>7 DEF Accepts
<1>9. PICK outcome \in Outcomes(Accepts(Requester(forward), new)) :
        outcome # "unserved" => emptied' = emptied \ {new.slot}
  BY DEF Write
<1>10. outcome = "done"
  BY <1>8, <1>9, AllServed
<1> QED
  BY <1>5, <1>9, <1>10 DEF MoveInHand

LEMMA NextMoveInHand ==
  ASSUME Answered, "crash" \notin Faults, Obliging, TypeOK, TodoWanted, MoveInHand, [Next]_vars
  PROVE  MoveInHand'
<1>1. CASE RemoveToMove
  <2>1. PICK outcome \in Outcomes(TRUE) :
          /\ outcome # "unserved" =>
               /\ table' = Without(Identity(action.forward))
               /\ emptied' = IF RowsAt(Identity(action.forward)) = {} THEN emptied
                             ELSE emptied \cup {Identity(action.forward)}
          /\ outcome = "done" => pc' = "adding" /\ UNCHANGED todo
    BY <1>1 DEF RemoveToMove
  <2>2. outcome = "done"
    BY AllServed
  <2>3. emptied = {}
    BY <1>1 DEF RemoveToMove, Applying, MoveInHand
  <2>4. action' = action
    BY <2>1, <2>2 DEF action
  <2> QED
    BY <2>1, <2>2, <2>3, <2>4 DEF MoveInHand, RowsAt, Without
<1>2. CASE Write
  <2>1. pc' = "applying"
    BY <1>2 DEF Write, Done
  <2>2. CASE pc = "adding"
    BY <1>2, <2>1, <2>2, WritePutsBack DEF MoveInHand
  <2>3. CASE pc # "adding"
    <3>1. emptied' = {}
      BY <1>2, <2>3 DEF Write, MoveInHand
    <3> QED
      BY <2>1, <3>1 DEF MoveInHand
  <2> QED
    BY <2>2, <2>3
<1>3. CASE WriteNowhere
  <2>1. pc # "adding"
    <3> SUFFICES ASSUME pc = "adding" PROVE FALSE
      OBVIOUS
    <3>1. todo # <<>>
      BY DEF TypeOK, TodoOK
    <3>2. action.forward \in ToSet(desired)
      BY <3>1, HeadAndTail DEF TodoWanted, TypeOK, TodoOK, action
    <3>3. desired \in Answers
      BY <3>2, NothingIn DEF TypeOK, PassOK
    <3> QED
      BY <1>3, <3>2, <3>3 DEF WriteNowhere, Obliging
  <2>2. emptied' = emptied /\ pc' = "applying"
    BY <1>3 DEF WriteNowhere, Done, history
  <2> QED
    BY <2>1, <2>2 DEF MoveInHand
<1>4. CASE ApplyQuietly \/ ApplyLeftover \/ List \/ ReadDesired \/ Begin \/ Cleanup \/ Restart
  <2>1. pc # "adding" /\ pc' # "adding" /\ emptied' = emptied
    BY <1>4 DEF ApplyQuietly, ApplyLeftover, List, ReadDesired, Begin, Cleanup, Restart,
                Applying, Done, history
  <2> QED
    BY <2>1 DEF MoveInHand
<1>5. CASE Finish \/ ReadFails \/ Stop
  <2>1. emptied' = {} /\ pc' \in {"idle", "stopped"}
    BY <1>5 DEF Finish, ReadFails, Stop, EndPass
  <2> QED
    BY <2>1 DEF MoveInHand
<1>6. CASE UNCHANGED vars \/ Settle \/ World
  <2>1. UNCHANGED <<pc, todo, emptied>>
    BY <1>6 DEF vars, program, history, Settle, World, WantChanges, OthersChange, Reboot,
                LeaseAges, LeaseExpires, TableChanges
  <2>2. action' = action
    BY <2>1 DEF action
  <2>3. ASSUME "refuse_to_move" \in Quirks, NEW s, RowsAt(s) = {} PROVE RowsAt(s)' = {}
    <3> "tool" \notin Faults
      BY <2>3 DEF Obliging
    <3>1. CASE LeaseAges
      <4>1. PICK m \in table :
              table' = (table \ {m}) \cup {[m EXCEPT !.lease = "short"]}
        BY <3>1 DEF LeaseAges
      <4>2. [m EXCEPT !.lease = "short"].slot = m.slot
              /\ [m EXCEPT !.lease = "short"].remote = m.remote
        BY DEF TypeOK, TableOK, Mappings
      <4> QED
        BY <2>3, <4>1, <4>2 DEF RowsAt, Identity
    <3>2. CASE ~LeaseAges
      <4>1. table' \subseteq table
        BY <1>6, <2>3, <3>2 DEF World, WantChanges, OthersChange, Reboot, LeaseExpires,
                                TableChanges, Settle, vars
      <4> QED
        BY <2>3, <4>1 DEF RowsAt
    <3> QED
      BY <3>1, <3>2
  <2> QED
    BY <2>1, <2>2, <2>3 DEF MoveInHand
<1> QED
  BY <1>1, <1>2, <1>3, <1>4, <1>5, <1>6 DEF Next, Step

LEMMA MeddledMoves ==
  ASSUME "refuse_to_move" \notin Quirks, TodoWanted, MoveInHand, Meddled
  PROVE  TodoWanted' /\ MoveInHand'
  BY MeddledKeeps DEF TodoWanted, MoveInHand, program, action

(* Nothing ends between the two requests of a move. *)
LEMMA NothingEndsAMove ==
  ASSUME "crash" \notin Faults, TypeOK, MoveInHand, [SharedNext]_vars,
         pc # "idle", pc' \in {"idle", "stopped"}
  PROVE  emptied = {}
<1> SUFFICES ASSUME pc = "adding"
             PROVE  pc' \notin {"idle", "stopped"}
  BY DEF MoveInHand
<1>1. SharedNext => Write \/ WriteNowhere \/ World \/ Meddled
  BY DEF SharedNext, Next, Step, Begin, ReadDesired, List, ApplyQuietly, RemoveToMove,
         ApplyLeftover, Finish, ReadFails, Cleanup, Stop, MayStop, Restart, Settle, Applying
<1>2. CASE Write \/ WriteNowhere
  BY <1>2 DEF Write, WriteNowhere, Done
<1>3. CASE World \/ Meddled \/ UNCHANGED vars
  BY <1>3, MeddledKeeps DEF World, WantChanges, OthersChange, Reboot, LeaseAges,
                            LeaseExpires, TableChanges, program, vars
<1> QED
  BY <1>1, <1>2, <1>3

LEMMA NothingInHand == Init => TodoWanted /\ MoveInHand
  BY NothingIn DEF Init, TodoWanted, MoveInHand

LEMMA SharedMoves ==
  ASSUME Answered, "crash" \notin Faults, Obliging, "refuse_to_move" \notin Quirks
  PROVE  SharedSpec => MovesCompleted
<1>1. TypeOK /\ TodoWanted /\ MoveInHand /\ [SharedNext]_vars => TodoWanted' /\ MoveInHand'
  BY NextTodoWanted, NextMoveInHand, MeddledMoves DEF SharedNext
<1>2. MoveInHand /\ TypeOK /\ [SharedNext]_vars =>
        (pc # "idle" /\ pc' \in {"idle", "stopped"} => emptied = {})
  BY NothingEndsAMove
<1> QED
  BY <1>1, <1>2, NothingInHand, SharedTypeCorrect, PTL DEF SharedSpec, MovesCompleted

(* A row that was taken down to move it has been put back when the pass     *)
(* ends and when the process stops, whatever other programs, leases and     *)
(* containers do between the two requests: on a gateway that has no reason   *)
(* to refuse the row, when requests are answered and nothing kills the      *)
(* process.                                                                 *)
THEOREM EveryMoveIsCompleted ==
  ASSUME Answered, "crash" \notin Faults, Obliging
  PROVE  Spec => MovesCompleted
<1>1. TypeOK /\ TodoWanted /\ MoveInHand /\ [Next]_vars => TodoWanted' /\ MoveInHand'
  BY NextTodoWanted, NextMoveInHand
<1>2. MoveInHand /\ TypeOK /\ [Next]_vars =>
        (pc # "idle" /\ pc' \in {"idle", "stopped"} => emptied = {})
  BY NothingEndsAMove DEF SharedNext
<1> QED
  BY <1>1, <1>2, NothingInHand, TypeCorrect, PTL DEF Spec, MovesCompleted

-----------------------------------------------------------------------------
(* A cleanup takes down what this run put on the gateway. *)

(* A cleanup wants nothing, and is never a dry run. *)
CleaningOK ==
  /\ pc \in {"idle", "stopped"} => desired = <<>> /\ todo = <<>>
  /\ pc \in {"reading", "listing"} => todo = <<>>
  /\ cleaning => pc \in {"listing", "applying", "stopped"}
  /\ cleaning /\ pc # "stopped" => desired = <<>> /\ todo = <<>> /\ ~flags.dryRun

(* Each slot this run filled holds a row of Portical's it remembers. *)
MineIsOurs == \A s \in mine : \E m \in RowsAt(s) : IsOurs(m) /\ m.client \in written

(* Whatever of that a cleanup has listed it has still to remove. *)
ToClean ==
  cleaning /\ pc = "applying" =>
    \A s \in mine : \E rest \in leftovers :
      rest.kind = "remove" /\ Identity(rest.mapping) = s

LEMMA NextCleaningOK ==
  ASSUME TypeOK, CleaningOK, [Next]_vars
  PROVE  CleaningOK'
<1> USE DEF CleaningOK
<1>1. CASE UNCHANGED vars \/ Settle \/ World
  <2>1. UNCHANGED program
    BY <1>1 DEF vars, Settle, World, WantChanges, OthersChange, Reboot, LeaseAges,
                LeaseExpires, TableChanges
  <2> QED
    BY <2>1 DEF program
<1>2. CASE ApplyQuietly \/ RemoveToMove \/ WriteNowhere \/ Write
  <2>1. todo # <<>> /\ pc \in {"applying", "adding"} /\ pc' \in {"applying", "adding"}
          /\ cleaning' = cleaning
    BY <1>2 DEF ApplyQuietly, RemoveToMove, WriteNowhere, Write, Writing, Applying, Done,
                TypeOK, TodoOK
  <2> QED
    BY <2>1
<1>3. CASE Begin \/ ReadDesired \/ Cleanup \/ Restart
  BY <1>3 DEF Begin, ReadDesired, Cleanup, Restart, inputs
<1>4. CASE Finish \/ ReadFails
  BY <1>4 DEF Finish, ReadFails, EndPass, inputs
<1>5. CASE Stop
  BY <1>5 DEF Stop, inputs
<1>6. CASE List
  <2>1. cleaning => todo' = <<>>
    BY <1>6 DEF List, ForwardActions
  <2> QED
    BY <1>6, <2>1 DEF List, inputs
<1>7. CASE ApplyLeftover
  BY <1>7 DEF ApplyLeftover, inputs
<1> QED
  BY <1>1, <1>2, <1>3, <1>4, <1>5, <1>6, <1>7 DEF Next, Step

LEMMA TableChangesMine ==
  ASSUME TypeOK, MineIsOurs, NEW rows, TableChanges(rows)
  PROVE  MineIsOurs'
<1> SUFFICES ASSUME NEW s \in mine' PROVE \E m \in RowsAt(s)' : IsOurs(m) /\ m.client \in written'
  BY DEF MineIsOurs
<1>1. s \in mine /\ written' = written /\ table' = rows
  BY DEF TableChanges, program
<1>2. PICK n \in rows \cap table : Identity(n) = s /\ ~n.remote
  BY DEF TableChanges
<1>3. PICK m \in RowsAt(s) : IsOurs(m) /\ m.client \in written
  BY <1>1 DEF MineIsOurs
<1>4. m = n
  BY <1>2, <1>3 DEF RowsAt, TypeOK, TableOK, OneRowEach, Mappings
<1> QED
  BY <1>1, <1>2, <1>3, <1>4 DEF RowsAt

LEMMA NextMineIsOurs ==
  ASSUME "reply_lost" \notin Faults, TypeOK, MineIsOurs, [Next]_vars
  PROVE  MineIsOurs'
<1>1. CASE OthersChange \/ Reboot \/ LeaseExpires
  BY <1>1, TableChangesMine DEF OthersChange, Reboot, LeaseExpires
<1>2. CASE LeaseAges
  <2>1. PICK m \in table :
          table' = (table \ {m}) \cup {[m EXCEPT !.lease = "short"]}
    BY <1>2 DEF LeaseAges
  <2> DEFINE aged == [m EXCEPT !.lease = "short"]
  <2>2. aged.slot = m.slot /\ aged.remote = m.remote /\ aged.client = m.client
          /\ aged.ours = m.ours
    BY DEF TypeOK, TableOK, Mappings
  <2>3. \A s : \A n \in RowsAt(s) : \E o \in RowsAt(s)' : n.client = o.client /\ n.ours = o.ours
    BY <2>1, <2>2 DEF RowsAt, Identity
  <2>4. UNCHANGED <<mine, written>>
    BY <1>2 DEF LeaseAges, program, history
  <2> QED
    BY <2>3, <2>4 DEF MineIsOurs, IsOurs
<1>3. CASE Restart
  BY <1>3 DEF Restart, MineIsOurs
<1>4. CASE RemoveToMove \/ ApplyLeftover
  <2>1. written' = written
    BY <1>4 DEF RemoveToMove, ApplyLeftover
  <2>2. \/ UNCHANGED <<table, mine>>
        \/ \E slot : table' = Without(slot) /\ mine' = mine \ {slot}
    BY <1>4 DEF RemoveToMove, ApplyLeftover
  <2>3. ASSUME NEW slot, table' = Without(slot), NEW s, s # slot PROVE RowsAt(s)' = RowsAt(s)
    BY <2>3 DEF RowsAt, Without
  <2>4. CASE UNCHANGED <<table, mine>>
    BY <2>1, <2>4 DEF MineIsOurs, RowsAt
  <2>5. ASSUME NEW slot, table' = Without(slot), mine' = mine \ {slot} PROVE MineIsOurs'
    BY <2>1, <2>3, <2>5 DEF MineIsOurs
  <2> QED
    BY <2>2, <2>4, <2>5
<1>5. CASE Write
  <2> DEFINE new == NewMapping(action.forward)
  <2>1. \/ UNCHANGED <<table, mine, written>>
        \/ /\ table' = Without(new.slot) \cup {new}
           /\ mine' = mine \cup {new.slot}
           /\ written' = written \cup {new.client}
    BY <1>5 DEF Write, Outcomes, Remember
  <2>2. IsOurs(new) /\ ~new.remote
    BY DEF NewMapping, IsOurs
  <2>3. CASE UNCHANGED <<table, mine, written>>
    BY <2>3 DEF MineIsOurs, RowsAt
  <2>4. CASE /\ table' = Without(new.slot) \cup {new}
             /\ mine' = mine \cup {new.slot}
             /\ written' = written \cup {new.client}
    <3> SUFFICES ASSUME NEW s \in mine'
                 PROVE  \E m \in RowsAt(s)' : IsOurs(m) /\ m.client \in written'
      BY DEF MineIsOurs
    <3>1. CASE s = new.slot
      <4>1. new \in RowsAt(s)'
        BY <2>2, <2>4, <3>1 DEF RowsAt, Identity
      <4> QED
        BY <2>2, <2>4, <4>1
    <3>2. CASE s # new.slot
      <4>1. PICK m \in RowsAt(s) : IsOurs(m) /\ m.client \in written
        BY <2>4, <3>2 DEF MineIsOurs
      <4>2. m \in RowsAt(s)'
        BY <2>4, <3>2 DEF RowsAt, Without
      <4> QED
        BY <2>4, <4>1, <4>2
    <3> QED
      BY <3>1, <3>2
  <2> QED
    BY <2>1, <2>3, <2>4
<1>6. CASE \/ UNCHANGED vars \/ Begin \/ ReadDesired \/ List \/ ApplyQuietly
           \/ WriteNowhere \/ Finish \/ ReadFails \/ Cleanup \/ Stop \/ WantChanges
           \/ Settle
  <2>1. UNCHANGED <<table, mine, written>>
    BY <1>6 DEF vars, program, history, Begin, ReadDesired, List, ApplyQuietly,
                WriteNowhere, Finish, ReadFails, Cleanup, Stop, WantChanges, Settle
  <2> QED
    BY <2>1 DEF MineIsOurs, RowsAt
<1> QED
  BY <1>1, <1>2, <1>3, <1>4, <1>5, <1>6 DEF Next, Step, World

LEMMA NextToClean ==
  ASSUME Answered, TypeOK, CleaningOK, MineIsOurs, ToClean, [Next]_vars
  PROVE  ToClean'
<1>1. CASE List
  <2> SUFFICES ASSUME cleaning, NEW s \in mine
               PROVE  \E rest \in leftovers' : rest.kind = "remove" /\ Identity(rest.mapping) = s
    BY <1>1 DEF List, ToClean
  <2>1. desired = <<>>
    BY <1>1 DEF List, CleaningOK
  <2>2. PICK m \in RowsAt(s) : IsOurs(m) /\ m.client \in written
    BY DEF MineIsOurs
  <2>3. m \in table /\ Identity(m) = s /\ m.client \in Addresses
    BY <2>2 DEF RowsAt, TypeOK, PassOK
  <2>4. m.client \in ManagedAddresses(desired)
    BY <2>2, <2>3, NoAddressAssumption DEF ManagedAddresses
  <2>5. Managed(m, ReconcileOptions(desired))
    BY <2>2, <2>4 DEF Managed, ReconcileOptions
  <2>6. Identity(m) \notin Wanted(desired)
    BY <2>1 DEF Wanted
  <2>7. [kind |-> "remove", mapping |-> m]
          \in LeftoverActions(desired, table, ReconcileOptions(desired))
    BY <2>2, <2>3, <2>5, <2>6 DEF LeftoverActions
  <2> QED
    BY <1>1, <2>3, <2>7 DEF List
<1>2. CASE ApplyLeftover
  <2> SUFFICES ASSUME cleaning, NEW s \in mine'
               PROVE  \E rest \in leftovers' : rest.kind = "remove" /\ Identity(rest.mapping) = s
    BY <1>2 DEF ApplyLeftover, ToClean
  <2>1. ~flags.dryRun /\ pc = "applying"
    BY <1>2 DEF ApplyLeftover, CleaningOK
  <2>2. PICK rest \in leftovers :
          /\ leftovers' = leftovers \ {rest}
          /\ IF rest.kind = "orphan" THEN mine' = mine
             ELSE \E outcome \in Outcomes(TRUE) :
                    outcome # "unserved" => mine' = mine \ {Identity(rest.mapping)}
    BY <1>2, <2>1 DEF ApplyLeftover
  <2>3. IF rest.kind = "orphan" THEN mine' = mine ELSE mine' = mine \ {Identity(rest.mapping)}
    BY <2>2, AllServed
  <2>4. PICK other \in leftovers : other.kind = "remove" /\ Identity(other.mapping) = s
    BY <2>1, <2>3 DEF ToClean
  <2>5. other # rest
    BY <2>3, <2>4
  <2> QED
    BY <2>2, <2>4, <2>5
<1>3. CASE ApplyQuietly \/ RemoveToMove \/ WriteNowhere \/ Write
  <2>1. todo # <<>> /\ pc \in {"applying", "adding"} /\ cleaning' = cleaning
    BY <1>3 DEF ApplyQuietly, RemoveToMove, WriteNowhere, Write, Writing, Applying, Done,
                TypeOK, TodoOK
  <2> QED
    BY <2>1 DEF ToClean, CleaningOK
<1>4. CASE Begin \/ ReadDesired \/ Finish \/ ReadFails \/ Cleanup \/ Stop \/ Restart
  BY <1>4 DEF Begin, ReadDesired, Finish, ReadFails, EndPass, Cleanup, Stop, Restart, ToClean
<1>5. CASE UNCHANGED vars \/ Settle \/ World
  <2>1. UNCHANGED <<pc, cleaning, leftovers>> /\ mine' \subseteq mine
    BY <1>5 DEF vars, program, history, Settle, World, WantChanges, OthersChange, Reboot,
                LeaseAges, LeaseExpires, TableChanges
  <2> QED
    BY <2>1 DEF ToClean
<1> QED
  BY <1>1, <1>2, <1>3, <1>4, <1>5 DEF Next, Step

LEMMA MeddledCleanup ==
  ASSUME TypeOK, CleaningOK, MineIsOurs, ToClean, Meddled
  PROVE  CleaningOK' /\ MineIsOurs' /\ ToClean'
<1>1. MineIsOurs'
  BY TableChangesMine DEF Meddled
<1>2. CleaningOK' /\ ToClean'
  BY MeddledKeeps DEF CleaningOK, ToClean, program
<1> QED
  BY <1>1, <1>2

LEMMA SharedCleanup ==
  ASSUME Answered
  PROVE  SharedSpec => CleanupTakesOurs
<1> DEFINE Inv == CleaningOK /\ MineIsOurs /\ ToClean
<1>1. Init => Inv
  BY DEF Init, CleaningOK, MineIsOurs, ToClean
<1>2. "reply_lost" \notin Faults
  BY DEF Answered
<1>3. TypeOK /\ Inv /\ [SharedNext]_vars => Inv'
  BY <1>2, NextCleaningOK, NextMineIsOurs, NextToClean, MeddledCleanup DEF SharedNext
<1>4. Inv => (cleaning /\ Finish => mine = {})
  BY DEF Finish, ToClean
<1> QED
  BY <1>1, <1>3, <1>4, SharedTypeCorrect, PTL DEF SharedSpec, CleanupTakesOurs

(* When a cleanup has run to its end nothing that this run wrote is left on *)
(* the gateway, however many passes, changes of the source and other        *)
(* programs' writes there were before it and during it, as long as every     *)
(* request is served and answered.                                          *)
THEOREM CleanupIsComplete ==
  ASSUME Answered
  PROVE  Spec => CleanupTakesOurs
<1> QED
  BY SharedCleanup, AloneIsShared, PTL

-----------------------------------------------------------------------------
(* A forward that is wanted all through a pass stays in service. *)


(* No two forwards of one sequence share a slot. *)
OnePerSlot(forwards) ==
  \A i, j \in DOMAIN forwards : Identity(forwards[i]) = Identity(forwards[j]) => i = j

(* What is steady belongs to a pass of Once, which has it among what it    *)
(* wants.                                                                  *)
SteadyWanted ==
  /\ steady \subseteq ToSet(want)
  /\ pc \in {"idle", "stopped"} \/ cleaning => steady = {}
  /\ pc \in {"listing", "applying", "adding"} => steady \subseteq ToSet(desired)

(* There is one task at most for a slot.                                   *)
OneTaskEach ==
  \A i, j \in DOMAIN todo : Identity(todo[i].forward) = Identity(todo[j].forward) => i = j

(* A row is only moved when it does not serve, and only removed where      *)
(* nothing is wanted.                                                      *)
MovesAreNeeded ==
  /\ OneTaskEach
  /\ \A task \in ToSet(todo) : task.kind = "replace" => ~Serves(task.forward)
  /\ \A rest \in leftovers :
       rest.kind = "remove" => Identity(rest.mapping) \notin Wanted(desired)

(* Only the row of its own slot decides whether a forward is served. *)
LEMMA ServesByRows ==
  ASSUME NEW forward, RowsAt(Identity(forward))' = RowsAt(Identity(forward))
  PROVE  Serves(forward)' <=> Serves(forward)
  BY DEF Serves

LEMMA NotServedStays ==
  ASSUME NEW forward, ~Serves(forward),
         \A m \in RowsAt(Identity(forward))' : \E n \in RowsAt(Identity(forward)) :
            m.ours = n.ours /\ m.client = n.client /\ m.port = n.port
  PROVE  ~Serves(forward)'
  BY DEF Serves, IsOurs, Mismatch

(* Taking a slot's rows out, or putting another there, changes no other. *)
LEMMA OtherSlots ==
  ASSUME NEW s, NEW t, s # t,
         \/ table' = Without(s)
         \/ \E new : Identity(new) = s /\ table' = Without(s) \cup {new}
  PROVE  RowsAt(t)' = RowsAt(t)
  BY DEF RowsAt, Without

LEMMA WantedOnce ==
  ASSUME NEW forwards \in Seq(Forwards), OnePerSlot(forwards),
         NEW f \in ToSet(forwards), NEW g \in ToSet(forwards),
         Identity(f) = Identity(g)
  PROVE  f = g
  BY DEF OnePerSlot, ToSet

-----------------------------------------------------------------------------
LEMMA NextSteadyWanted ==
  ASSUME TypeOK, SteadyWanted, [Next]_vars
  PROVE  SteadyWanted'
<1> USE DEF SteadyWanted
<1>1. CASE UNCHANGED vars \/ Settle
  BY <1>1 DEF vars, program, history, Settle
<1>2. CASE Begin
  BY <1>2 DEF Begin, inputs
<1>3. CASE ReadDesired
  BY <1>3 DEF ReadDesired, history, inputs
<1>4. CASE List \/ ApplyLeftover
  <2>1. pc' \in {"applying"} /\ pc \in {"listing", "applying"}
    BY <1>4 DEF List, ApplyLeftover
  <2>2. UNCHANGED <<want, cleaning, desired, steady>>
    BY <1>4 DEF List, ApplyLeftover, inputs
  <2>3. QED
    BY <2>1, <2>2
<1>5. CASE ApplyQuietly \/ WriteNowhere \/ RemoveToMove \/ Write
  <2>1. pc \in {"applying", "adding"} /\ pc' \in {"applying", "adding"}
    BY <1>5 DEF ApplyQuietly, WriteNowhere, RemoveToMove, Write, Writing, Applying, Done
  <2>2. UNCHANGED <<want, cleaning, desired, steady>>
    BY <1>5 DEF ApplyQuietly, WriteNowhere, RemoveToMove, Write, inputs, history
  <2>3. QED
    BY <2>1, <2>2
<1>6. CASE Finish \/ ReadFails
  BY <1>6 DEF Finish, ReadFails, EndPass, inputs
<1>7. CASE Cleanup \/ Stop \/ Restart
  BY <1>7 DEF Cleanup, Stop, Restart, inputs, history
<1>8. CASE WantChanges
  BY <1>8 DEF WantChanges, program
<1>9. CASE OthersChange \/ Reboot \/ LeaseAges \/ LeaseExpires
  BY <1>9 DEF OthersChange, Reboot, LeaseAges, LeaseExpires, TableChanges, program,
              history
<1>10. QED
  BY <1>1, <1>2, <1>3, <1>4, <1>5, <1>6, <1>7, <1>8, <1>9 DEF Next, Step, World

-----------------------------------------------------------------------------
LEMMA ListNeedsMoves ==
  ASSUME TypeOK, NoStealRemote, OnePerSlot(desired), List
  PROVE  MovesAreNeeded'
<1> DEFINE options == ReconcileOptions(desired)
<1>1. PICK existing \in Existing(table) :
        todo' = ForwardActions(desired, existing, options)
  BY DEF List
<1>2. /\ desired' = desired /\ UNCHANGED table
      /\ leftovers' = LeftoverActions(desired, table, options)
  BY DEF List
<1>3. \A s \in DOMAIN existing : existing[s] \in table /\ Identity(existing[s]) = s
  BY DEF Existing
<1>4. \A forward : Serves(forward)' <=> Serves(forward)
  BY <1>2 DEF Serves, RowsAt
<1>5. ASSUME NEW forward, ForForward(forward, existing, options).kind = "replace"
      PROVE  ~Serves(forward)
  <2> DEFINE row == existing[Identity(forward)]
  <2>1. Identity(forward) \in DOMAIN existing /\ KindOf(forward, row, options) = "replace"
    BY <1>5 DEF ForForward
  <2>2. row \in table /\ row \in Mappings /\ Identity(row) = Identity(forward)
    BY <1>3, <2>1 DEF TypeOK, TableOK
  <2>3. \/ ~IsOurs(row) /\ options.steal
        \/ IsOurs(row) /\ Mismatch(forward, row)
    BY <2>1 DEF KindOf, Managed, Refresh
  <2>4. ~row.remote
    <3>1. CASE IsOurs(row)
      BY <2>2, <3>1 DEF IsOurs, Mappings
    <3>2. CASE ~IsOurs(row)
      <4>1. flags \in Options /\ flags.steal
        BY <2>3, <3>2 DEF ReconcileOptions, TypeOK, PassOK
      <4>2. QED
        BY <2>2, <4>1 DEF NoStealRemote
    <3>3. QED
      BY <3>1, <3>2
  <2>5. \A m \in RowsAt(Identity(forward)) : m = row
    BY <2>2, <2>4 DEF RowsAt, TypeOK, TableOK, OneRowEach, Mappings
  <2>6. QED
    BY <2>3, <2>5 DEF Serves, Mismatch
<1>6. \A i, j \in DOMAIN todo' :
        Identity(todo'[i].forward) = Identity(todo'[j].forward) => i = j
  BY <1>1 DEF ForwardActions, ForForward, OnePerSlot
<1>7. \A task \in ToSet(todo') : task.kind = "replace" => ~Serves(task.forward)
  <2>1. \A task \in ToSet(todo') : \E forward :
          task = ForForward(forward, existing, options) /\ task.forward = forward
    BY <1>1 DEF ForwardActions, ForForward, ToSet
  <2>2. QED
    BY <1>5, <2>1
<1>8. \A rest \in leftovers' : Identity(rest.mapping) \notin Wanted(desired)
  BY <1>2 DEF LeftoverActions
<1>9. QED
  BY <1>2, <1>4, <1>6, <1>7, <1>8 DEF MovesAreNeeded, OneTaskEach

(* The head of todo is dealt with: what is left is for other slots. *)
LEMMA TailForOthers ==
  ASSUME TypeOK, OneTaskEach, todo # <<>>
  PROVE  /\ \A i, j \in DOMAIN Tail(todo) :
              Identity(Tail(todo)[i].forward) = Identity(Tail(todo)[j].forward) => i = j
         /\ \A task \in ToSet(Tail(todo)) :
              task \in ToSet(todo) /\ Identity(task.forward) # Identity(action.forward)
<1> DEFINE S == [kind : {"add", "replace", "renew", "keep", "conflict"},
                 forward : Forwards]
<1>1. todo \in Seq(S)
  BY DEF TypeOK, TodoOK
<1>2. Len(todo) \in Nat \ {0} /\ DOMAIN todo = 1 .. Len(todo)
  BY <1>1, EmptySeq, LenProperties
<1>3. /\ Tail(todo) \in Seq(S) /\ Len(Tail(todo)) = Len(todo) - 1
      /\ \A i \in 1 .. Len(Tail(todo)) : Tail(todo)[i] = todo[i + 1]
  BY <1>1, HeadTailProperties
<1>4. DOMAIN Tail(todo) = 1 .. Len(Tail(todo))
  BY <1>3, LenProperties
<1>5. action = todo[1]
  BY <1>1, <1>2 DEF action
<1>6. QED
  BY <1>2, <1>3, <1>4, <1>5 DEF OneTaskEach, ToSet

LEMMA WorldServes ==
  ASSUME TypeOK, "tool" \notin Faults, World, NEW forward, ~Serves(forward)
  PROVE  ~Serves(forward)'
<1>1. CASE LeaseAges
  <2>1. PICK m \in table :
          table' = (table \ {m}) \cup {[m EXCEPT !.lease = "short"]}
    BY <1>1 DEF LeaseAges
  <2> DEFINE aged == [m EXCEPT !.lease = "short"]
  <2>2. aged.slot = m.slot /\ aged.remote = m.remote /\ aged.ours = m.ours
          /\ aged.client = m.client /\ aged.port = m.port
    BY DEF TypeOK, TableOK, Mappings
  <2>3. \A n \in RowsAt(Identity(forward))' :
          n \in RowsAt(Identity(forward)) \/ (n = aged /\ m \in RowsAt(Identity(forward)))
    BY <2>1, <2>2 DEF RowsAt, Identity
  <2>4. QED
    BY <2>2, <2>3, NotServedStays
<1>2. CASE ~LeaseAges
  <2>1. table' \subseteq table
    BY <1>2 DEF World, WantChanges, OthersChange, Reboot, LeaseExpires, TableChanges
  <2>2. \A m \in RowsAt(Identity(forward))' : m \in RowsAt(Identity(forward))
    BY <2>1 DEF RowsAt
  <2>3. QED
    BY <2>2, NotServedStays
<1>3. QED
  BY <1>1, <1>2

LEMMA NextMovesAreNeeded ==
  ASSUME TypeOK, NoStealRemote, AsListed, "tool" \notin Faults, OnePerSlot(desired),
         MovesAreNeeded, [Next]_vars
  PROVE  MovesAreNeeded'
<1>1. CASE UNCHANGED vars \/ Settle
  <2>1. UNCHANGED <<table, todo, leftovers, desired>>
    BY <1>1 DEF vars, program, Settle
  <2>2. QED
    BY <2>1 DEF MovesAreNeeded, OneTaskEach, Serves, RowsAt
<1>2. CASE List
  BY <1>2, ListNeedsMoves
<1>3. CASE Begin \/ ReadDesired \/ Finish \/ ReadFails \/ Cleanup \/ Stop \/ Restart
  <2>1. todo' = <<>> /\ leftovers' = {}
    BY <1>3 DEF Begin, ReadDesired, Finish, ReadFails, Cleanup, Stop, Restart, AsListed
  <2>2. QED
    BY <2>1, NothingIn DEF MovesAreNeeded, OneTaskEach
<1>4. CASE ApplyQuietly \/ WriteNowhere \/ Write
  <2>1. todo # <<>> /\ todo' = Tail(todo)
    BY <1>4 DEF ApplyQuietly, WriteNowhere, Write, Writing, Applying, Done, TypeOK,
                TodoOK
  <2>2. desired' = desired /\ leftovers' = leftovers
    BY <1>4 DEF ApplyQuietly, WriteNowhere, Write
  <2>3. \A slot : slot # Identity(action.forward) => RowsAt(slot)' = RowsAt(slot)
    <3>1. CASE UNCHANGED table
      BY <3>1 DEF RowsAt
    <3>2. CASE table' # table
      <4>1. Write
        BY <1>4, <3>2 DEF ApplyQuietly, WriteNowhere
      <4>2. /\ table' = Without(Identity(action.forward))
                          \cup {NewMapping(action.forward)}
            /\ Identity(NewMapping(action.forward)) = Identity(action.forward)
        BY <3>2, <4>1, WriteTable, NewMappingType
      <4>3. QED
        BY <4>2, OtherSlots
    <3>3. QED
      BY <3>1, <3>2
  <2>4. \A task \in ToSet(todo') : task.kind = "replace" => ~Serves(task.forward)'
    BY <2>1, <2>3, TailForOthers, ServesByRows DEF MovesAreNeeded, OneTaskEach
  <2>5. QED
    BY <2>1, <2>2, <2>4, TailForOthers DEF MovesAreNeeded, OneTaskEach
<1>5. CASE RemoveToMove
  <2>1. todo # <<>> /\ (todo' = todo \/ todo' = Tail(todo))
    BY <1>5 DEF RemoveToMove, Applying, Done
  <2>2. desired' = desired /\ leftovers' = leftovers /\ table' \subseteq table
    BY <1>5 DEF RemoveToMove, Without
  <2>3. \A forward : ~Serves(forward) => ~Serves(forward)'
    BY <2>2, NotServedStays DEF RowsAt
  <2>4. QED
    BY <2>1, <2>2, <2>3, TailForOthers DEF MovesAreNeeded, OneTaskEach
<1>6. CASE ApplyLeftover
  <2>1. UNCHANGED <<todo, desired>> /\ leftovers' \subseteq leftovers
          /\ table' \subseteq table
    BY <1>6 DEF ApplyLeftover, Without
  <2>2. \A forward : ~Serves(forward) => ~Serves(forward)'
    BY <2>1, NotServedStays DEF RowsAt
  <2>3. QED
    BY <2>1, <2>2 DEF MovesAreNeeded, OneTaskEach
<1>7. CASE World
  <2>1. UNCHANGED <<todo, desired, leftovers>>
    BY <1>7 DEF World, WantChanges, OthersChange, Reboot, LeaseAges, LeaseExpires,
                TableChanges, program
  <2>2. QED
    BY <1>7, <2>1, WorldServes DEF MovesAreNeeded, OneTaskEach
<1>8. QED
  BY <1>1, <1>2, <1>3, <1>4, <1>5, <1>6, <1>7 DEF Next, Step

(* The row Write puts there serves the forward it is for. *)
LEMMA WriteServes ==
  ASSUME TypeOK, Write, NEW forward, forward = action.forward,
         table' = Without(Identity(forward)) \cup {NewMapping(forward)}
  PROVE  Serves(forward)'
<1> DEFINE new == NewMapping(action.forward)
<1>1. new \in RowsAt(Identity(forward))'
  <2>1. new \in table' /\ ~new.remote /\ Identity(new) = Identity(forward)
    BY WriteTable, NewMappingType
  <2>2. QED
    BY <2>1 DEF RowsAt
<1>2. IsOurs(new) /\ ~Mismatch(forward, new)
  BY WriteTable, NewMappingType DEF NewMapping, InternalClient, Mismatch
<1>3. QED
  BY <1>1, <1>2 DEF Serves, Mismatch

LEMMA StepKeepsService ==
  ASSUME TypeOK, AsListed, OnePerSlot(desired), SteadyWanted, MovesAreNeeded,
         [Next]_vars, program' # program,
         NEW f \in steady, Serves(f)
  PROVE  Serves(f)'
<1>1. desired \in Seq(Forwards)
  BY ForwardsOfAnswers DEF TypeOK, PassOK
<1>2. CASE RemoveToMove \/ Write
  <2>1. todo # <<>> /\ pc \in {"applying", "adding"}
    BY <1>2 DEF RemoveToMove, Write, Writing, Applying, TypeOK, TodoOK
  <2>2. f \in ToSet(desired) /\ action.forward \in ToSet(desired)
    BY <2>1, HeadAndTail DEF SteadyWanted, AsListed, TypeOK, TodoOK, action
  <2>3. CASE f = action.forward
    <3>1. CASE RemoveToMove
      <4>1. action \in ToSet(todo) /\ action.kind = "replace"
        BY <2>1, <3>1, HeadAndTail DEF RemoveToMove, Applying, TypeOK, TodoOK, action
      <4>2. QED
        BY <2>3, <4>1 DEF MovesAreNeeded, OneTaskEach
    <3>2. CASE Write
      <4>1. CASE table' = table
        BY <4>1, ServesByRows DEF RowsAt
      <4>2. QED
        BY <2>3, <3>2, <4>1, WriteTable, WriteServes
    <3>3. QED
      BY <1>2, <3>1, <3>2
  <2>4. CASE f # action.forward
    <3>1. Identity(f) # Identity(action.forward)
      BY <1>1, <2>2, <2>4, WantedOnce
    <3>2. CASE table' = table
      BY <3>2, ServesByRows DEF RowsAt
    <3>3. CASE RemoveToMove /\ table' # table
      <4>1. table' = Without(Identity(action.forward))
        BY <3>3 DEF RemoveToMove
      <4>2. QED
        BY <3>1, <4>1, OtherSlots, ServesByRows
    <3>4. CASE Write /\ table' # table
      <4>1. /\ table' = Without(Identity(action.forward))
                          \cup {NewMapping(action.forward)}
            /\ Identity(NewMapping(action.forward)) = Identity(action.forward)
        BY <3>4, WriteTable, NewMappingType
      <4>2. QED
        BY <3>1, <4>1, OtherSlots, ServesByRows
    <3>5. QED
      BY <1>2, <3>2, <3>3, <3>4
  <2>5. QED
    BY <2>3, <2>4
<1>3. CASE ApplyLeftover
  <2>1. PICK rest \in leftovers :
          \/ table' = table
          \/ rest.kind = "remove" /\ table' = Without(Identity(rest.mapping))
    BY <1>3 DEF ApplyLeftover, TypeOK, PassOK
  <2>2. f \in ToSet(desired)
    BY <1>3 DEF ApplyLeftover, SteadyWanted
  <2>3. Identity(f) \in Wanted(desired)
    BY <2>2 DEF Wanted, ToSet
  <2>4. CASE rest.kind = "remove" /\ table' = Without(Identity(rest.mapping))
    <3>1. Identity(rest.mapping) # Identity(f)
      BY <2>3, <2>4 DEF MovesAreNeeded, OneTaskEach
    <3>2. QED
      BY <2>4, <3>1, OtherSlots, ServesByRows
  <2>5. CASE table' = table
    BY <2>5, ServesByRows DEF RowsAt
  <2>6. QED
    BY <2>1, <2>4, <2>5
<1>4. CASE World \/ Settle \/ UNCHANGED vars
  BY <1>4 DEF World, WantChanges, OthersChange, Reboot, LeaseAges, LeaseExpires,
              TableChanges, Settle, vars
<1>5. CASE \/ Begin \/ ReadDesired \/ List \/ ApplyQuietly \/ WriteNowhere \/ Finish
           \/ ReadFails \/ Cleanup \/ Stop \/ Restart
  <2>1. table' = table
    BY <1>5 DEF Begin, ReadDesired, List, ApplyQuietly, WriteNowhere, Finish,
                ReadFails, Cleanup, Stop, Restart
  <2>2. QED
    BY <2>1, ServesByRows DEF RowsAt
<1>6. QED
  BY <1>2, <1>3, <1>4, <1>5 DEF Next, Step

(* "Anything already correct is left alone" (README): whatever fails, no    *)
(* step of Portical's takes a forward out of service that was wanted all    *)
(* the time the pass was running.  It takes a source that asks once for     *)
(* each slot (the run "churn" shows one that does not), no other program    *)
(* writing while Portical runs, and no row with a RemoteHost where --steal  *)
(* may take rows over.                                                      *)
THEOREM ServiceIsNotInterrupted ==
  ASSUME "tool" \notin Faults,
         \A forwards \in Answers : OnePerSlot(forwards),
         \/ \A options \in Options : ~options.steal
         \/ \A rows \in Tables : \A m \in rows : ~m.remote
  PROVE  Spec => ServedStaysServed
<1> DEFINE Inv == NoStealRemote /\ AsListed /\ SteadyWanted /\ MovesAreNeeded
<1>1. Init => Inv
  <2> SUFFICES ASSUME Init PROVE Inv
    OBVIOUS
  <2>1. NoStealRemote
    BY DEF Init, NoStealRemote
  <2>2. AsListed /\ MovesAreNeeded
    BY NothingIn DEF Init, AsListed, MovesAreNeeded, OneTaskEach
  <2>3. SteadyWanted
    BY DEF Init, SteadyWanted
  <2>4. QED
    BY <2>1, <2>2, <2>3
<1>2. TypeOK => OnePerSlot(desired)
  BY DEF TypeOK, PassOK, OnePerSlot
<1>3. TypeOK /\ Inv /\ [Next]_vars => Inv'
  BY <1>2, NextAsListed, NextNoStealRemote, NextSteadyWanted, NextMovesAreNeeded
<1>4. TypeOK /\ Inv /\ [Next]_vars =>
        [program' # program => \A f \in steady : Serves(f) => Serves(f)']_vars
  BY <1>2, StepKeepsService
<1>5. QED
  BY <1>1, <1>3, <1>4, TypeCorrect, PTL DEF Spec, ServedStaysServed

-----------------------------------------------------------------------------
(* The status never counts more than there is.  Once the world is calm only *)
(* leases change the table besides the pass, which counts a forward when it  *)
(* has dealt with it and its row is there.                                  *)

Dealt ==
  {f \in ToSet(desired) : \A task \in ToSet(todo) : Identity(task.forward) # Identity(f)}
ServedSlots == {Identity(f) : f \in {f \in Dealt : Serves(f)}}

(* Rows are only removed where nothing is wanted. *)
LeftoversUnwanted ==
  /\ pc \in {"idle", "reading", "listing", "stopped"} => leftovers = {}
  /\ \A rest \in leftovers :
       rest.kind = "remove" => Identity(rest.mapping) \notin Wanted(desired)

(* A pass that counts: of Once, in a world that is calm. *)
Counting == calm /\ ~cleaning /\ pc \in {"applying", "adding"}

TallyOK ==
  /\ calm /\ ~cleaning /\ pc \in {"reading", "listing"} => tally["forwarded"] = 0
  /\ Counting =>
       /\ \A task \in ToSet(todo) : task.kind \in {"keep", "renew"} => Serves(task.forward)
       /\ tally["forwarded"] <= Cardinality(ServedSlots)

LEMMA WantedIsFinite ==
  ASSUME NEW forwards \in Seq(Forwards)
  PROVE  IsFiniteSet(Wanted(forwards))
<1> DEFINE n == Len(forwards)
           f == [i \in 1 .. n |-> Identity(forwards[i])]
<1>1. n \in Nat /\ DOMAIN forwards = 1 .. n
  BY ElementsOfSeq
<1>2. f \in Surjection(1 .. n, Wanted(forwards))
  BY <1>1 DEF Surjection, Wanted
<1>3. IsFiniteSet(1 .. n)
  BY <1>1, FS_Interval
<1> HIDE DEF f
<1> QED
  BY <1>2, <1>3, FS_Surjection

LEMMA ServedSlotsFinite ==
  ASSUME TypeOK
  PROVE  IsFiniteSet(ServedSlots) /\ Cardinality(ServedSlots) \in Nat
<1>1. desired \in Seq(Forwards)
  BY ForwardsOfAnswers DEF TypeOK, PassOK
<1>2. ServedSlots \subseteq Wanted(desired)
  BY DEF ServedSlots, Dealt, Wanted, ToSet
<1>3. IsFiniteSet(Wanted(desired))
  BY <1>1, WantedIsFinite
<1> QED
  BY <1>2, <1>3, FS_Subset, FS_CardinalityType

LEMMA MoreServed ==
  ASSUME TypeOK', ServedSlots \subseteq ServedSlots'
  PROVE  Cardinality(ServedSlots) <= Cardinality(ServedSlots')
<1>1. IsFiniteSet(ServedSlots)'
  BY ServedSlotsFinite, PTL
<1> QED
  BY <1>1, FS_Subset

LEMMA OneMoreServed ==
  ASSUME TypeOK, TypeOK', ServedSlots \subseteq ServedSlots',
         NEW s \in ServedSlots', s \notin ServedSlots
  PROVE  Cardinality(ServedSlots) + 1 <= Cardinality(ServedSlots')
<1>1. IsFiniteSet(ServedSlots)'
  BY ServedSlotsFinite, PTL
<1>2. IsFiniteSet(ServedSlots)
  BY ServedSlotsFinite
<1>3. Cardinality(ServedSlots \cup {s}) = Cardinality(ServedSlots) + 1
  BY <1>2, FS_AddElement
<1>4. ServedSlots \cup {s} \subseteq ServedSlots'
  OBVIOUS
<1> QED
  BY <1>1, <1>3, <1>4, FS_Subset

LEMMA NextLeftoversUnwanted ==
  ASSUME TypeOK, LeftoversUnwanted, [Next]_vars
  PROVE  LeftoversUnwanted'
<1> USE DEF LeftoversUnwanted
<1>1. CASE \/ UNCHANGED vars \/ Settle \/ World \/ ApplyQuietly \/ RemoveToMove \/ WriteNowhere
           \/ Write
  <2>1. UNCHANGED <<leftovers, desired>> /\ (pc' = pc \/ pc' \in {"applying", "adding"})
    BY <1>1 DEF vars, program, Settle, World, WantChanges, OthersChange, Reboot, LeaseAges,
                LeaseExpires, TableChanges, ApplyQuietly, RemoveToMove, WriteNowhere, Write, Done
  <2> QED
    BY <2>1
<1>2. CASE Begin \/ ReadDesired \/ Finish \/ ReadFails \/ Cleanup \/ Stop \/ Restart
  <2>1. leftovers' = {}
    BY <1>2 DEF Begin, ReadDesired, Finish, ReadFails, Cleanup, Stop, Restart
  <2> QED
    BY <2>1
<1>3. CASE List
  BY <1>3 DEF List, LeftoverActions
<1>4. CASE ApplyLeftover
  BY <1>4 DEF ApplyLeftover
<1> QED
  BY <1>1, <1>2, <1>3, <1>4 DEF Next, Step

LEMMA NextOneTaskEach ==
  ASSUME TypeOK, TodoWanted, OneTaskEach, OnePerSlot(desired), [Next]_vars
  PROVE  OneTaskEach'
<1>1. CASE UNCHANGED vars \/ Settle \/ World \/ ApplyLeftover
  <2>1. UNCHANGED todo
    BY <1>1 DEF vars, program, Settle, World, WantChanges, OthersChange, Reboot, LeaseAges,
                LeaseExpires, TableChanges, ApplyLeftover
  <2> QED
    BY <2>1 DEF OneTaskEach
<1>2. CASE Begin \/ ReadDesired \/ Finish \/ ReadFails \/ Cleanup \/ Stop \/ Restart
  <2>1. todo' = <<>>
    BY <1>2 DEF Begin, ReadDesired, Finish, ReadFails, Cleanup, Stop, Restart, TodoWanted
  <2> QED
    BY <2>1 DEF OneTaskEach
<1>3. CASE List
  BY <1>3 DEF List, ForwardActions, ForForward, OnePerSlot, OneTaskEach
<1>4. CASE ApplyQuietly \/ RemoveToMove \/ WriteNowhere \/ Write
  <2>1. todo # <<>> /\ todo' \in {todo, Tail(todo)}
    BY <1>4 DEF ApplyQuietly, RemoveToMove, WriteNowhere, Write, Writing, Applying, Done,
                TypeOK, TodoOK
  <2> QED
    BY <2>1, TailForOthers DEF OneTaskEach
<1> QED
  BY <1>1, <1>2, <1>3, <1>4 DEF Next, Step

(* A row that is kept, or renewed in place, serves the forward it is for. *)
LEMMA KeptServes ==
  ASSUME TypeOK, List
  PROVE  \A task \in ToSet(todo') : task.kind \in {"keep", "renew"} => Serves(task.forward)
<1>1. PICK existing \in Existing(table) :
        todo' = ForwardActions(desired, existing, ReconcileOptions(desired))
  BY DEF List
<1> DEFINE options == ReconcileOptions(desired)
<1>2. ASSUME NEW forward, ForForward(forward, existing, options).kind \in {"keep", "renew"}
      PROVE  Serves(forward)
  <2> DEFINE row == existing[Identity(forward)]
  <2>1. Identity(forward) \in DOMAIN existing
          /\ KindOf(forward, row, options) \in {"keep", "renew"}
    BY <1>2 DEF ForForward
  <2>2. row \in table /\ row \in Mappings /\ Identity(row) = Identity(forward)
    BY <2>1 DEF Existing, TypeOK, TableOK
  <2>3. IsOurs(row) /\ ~Mismatch(forward, row)
    BY <2>1 DEF KindOf, NotToTouch
  <2>4. row \in RowsAt(Identity(forward))
    BY <2>2, <2>3 DEF RowsAt, IsOurs, Mappings
  <2> QED
    BY <2>3, <2>4 DEF Serves, Mismatch
<1>3. \A task \in ToSet(todo') : \E forward :
        task = ForForward(forward, existing, options) /\ task.forward = forward
  BY <1>1 DEF ForwardActions, ForForward, ToSet
<1> QED
  BY <1>2, <1>3

(* The head of todo is dealt with, or still is to be: of the others nothing *)
(* that served stops.                                                       *)
LEMMA HeadDealtWith ==
  ASSUME TypeOK, OneTaskEach, todo # <<>>, todo' \in {todo, Tail(todo)}, desired' = desired,
         \A slot : slot # Identity(action.forward) => RowsAt(slot)' = RowsAt(slot)
  PROVE  /\ ServedSlots \subseteq ServedSlots'
         /\ Identity(action.forward) \notin ServedSlots
         /\ todo' = Tail(todo) =>
              \A task \in ToSet(todo') :
                task \in ToSet(todo) /\ (Serves(task.forward) => Serves(task.forward)')
<1>1. action \in ToSet(todo) /\ ToSet(Tail(todo)) \subseteq ToSet(todo)
  BY HeadAndTail DEF TypeOK, TodoOK, action
<1>2. \A f \in Dealt : Identity(f) # Identity(action.forward)
  BY <1>1 DEF Dealt
<1>3. \A f \in Dealt : f \in Dealt' /\ (Serves(f) => Serves(f)')
  <2> TAKE f \in Dealt
  <2>1. f \in Dealt'
    BY <1>1 DEF Dealt
  <2>2. Serves(f)' <=> Serves(f)
    BY <1>2, ServesByRows
  <2> QED
    BY <2>1, <2>2
<1>4. ASSUME todo' = Tail(todo), NEW task \in ToSet(todo')
      PROVE  task \in ToSet(todo) /\ (Serves(task.forward) => Serves(task.forward)')
  <2>1. task \in ToSet(todo) /\ Identity(task.forward) # Identity(action.forward)
    BY <1>4, TailForOthers
  <2>2. Serves(task.forward)' <=> Serves(task.forward)
    BY <2>1, ServesByRows
  <2> QED
    BY <2>1, <2>2
<1> QED
  BY <1>2, <1>3, <1>4 DEF ServedSlots

LEMMA NewlyServed ==
  ASSUME TypeOK, OneTaskEach, TodoWanted, todo # <<>>, todo' = Tail(todo), desired' = desired,
         NEW forward, forward = action.forward, Serves(forward)'
  PROVE  Identity(forward) \in ServedSlots'
<1>1. forward \in ToSet(desired)
  BY HeadAndTail DEF TodoWanted, TypeOK, TodoOK, action
<1>2. \A task \in ToSet(todo') : Identity(task.forward) # Identity(forward)
  BY TailForOthers
<1>3. forward \in Dealt'
  BY <1>1, <1>2 DEF Dealt
<1> QED
  BY <1>3 DEF ServedSlots

LEMMA NextTallyOK ==
  ASSUME TypeOK, TypeOK', TodoWanted, OneTaskEach, LeftoversUnwanted, TallyOK, [Next]_vars
  PROVE  TallyOK'
<1>1. Cardinality(ServedSlots) \in Nat /\ Cardinality(ServedSlots') \in Nat
  <2>1. (IsFiniteSet(ServedSlots) /\ Cardinality(ServedSlots) \in Nat)'
    BY ServedSlotsFinite, PTL
  <2> QED
    BY <2>1, ServedSlotsFinite
<1>2. tally \in [Counted -> Nat] /\ "forwarded" \in Counted
  BY DEF TypeOK, PassOK, Counted
<1>3. /\ Count("forwarded")["forwarded"] = tally["forwarded"] + 1
      /\ \A field \in {"conflicts", "failed"} : Count(field)["forwarded"] = tally["forwarded"]
  BY <1>2 DEF Count, Counted
<1>4. ASSUME UNCHANGED <<calm, cleaning, desired>>, pc' \in {"applying", "adding"},
             pc \in {"applying", "adding"},
             todo # <<>>, todo' \in {todo, Tail(todo)},
             \A slot : slot # Identity(action.forward) => RowsAt(slot)' = RowsAt(slot),
             \/ tally'["forwarded"] = tally["forwarded"]
             \/ /\ tally'["forwarded"] = tally["forwarded"] + 1
                /\ todo' = Tail(todo)
                /\ Counting => \E forward : forward = action.forward /\ Serves(forward)',
             todo' = todo => \A task \in ToSet(todo) : task.kind \in {"keep", "renew"} =>
                                 (Serves(task.forward) => Serves(task.forward)')
      PROVE  TallyOK'
  <2> SUFFICES ASSUME Counting
               PROVE  /\ \A task \in ToSet(todo') :
                           task.kind \in {"keep", "renew"} => Serves(task.forward)'
                      /\ tally'["forwarded"] <= Cardinality(ServedSlots)'
    BY <1>4 DEF TallyOK, Counting
  <2>1. \A task \in ToSet(todo') : task.kind \in {"keep", "renew"} => Serves(task.forward)'
    BY <1>4, HeadDealtWith DEF TallyOK
  <2>2. ServedSlots \subseteq ServedSlots'
    BY <1>4, HeadDealtWith
  <2>3. CASE tally'["forwarded"] = tally["forwarded"]
    BY <1>1, <1>2, <2>1, <2>2, <2>3, MoreServed DEF TallyOK
  <2>4. CASE tally'["forwarded"] = tally["forwarded"] + 1 /\ todo' = Tail(todo)
    <3>1. PICK forward : forward = action.forward /\ Serves(forward)'
      BY <1>4, <2>4, <1>2
    <3>2. Identity(forward) \in ServedSlots' /\ Identity(forward) \notin ServedSlots
      BY <1>4, <2>4, <3>1, NewlyServed, HeadDealtWith
    <3>3. Cardinality(ServedSlots) + 1 <= Cardinality(ServedSlots')
      BY <2>2, <3>2, OneMoreServed
    <3> QED
      BY <1>1, <1>2, <2>1, <2>4, <3>3 DEF TallyOK
  <2> QED
    BY <1>4, <2>3, <2>4
<1>5. CASE ApplyQuietly
  <2>1. /\ pc = "applying" /\ todo # <<>> /\ Done(QuietCount(action.kind))
        /\ UNCHANGED <<table, calm, cleaning, desired>>
        /\ action.kind \in {"keep", "conflict", "add", "renew", "replace"}
    BY <1>5 DEF ApplyQuietly, Applying
  <2>2. \A slot : RowsAt(slot)' = RowsAt(slot)
    BY <2>1 DEF RowsAt
  <2>3. CASE action.kind \in {"keep", "renew"}
    <3>1. tally'["forwarded"] = tally["forwarded"] + 1
      BY <1>3, <2>1, <2>3 DEF QuietCount, Done
    <3>2. Counting => Serves(action.forward)
      BY <2>1, <2>3, HeadAndTail DEF TallyOK, TypeOK, TodoOK, action
    <3>3. Counting => \E forward : forward = action.forward /\ Serves(forward)'
      BY <2>2, <3>2, ServesByRows
    <3> QED
      BY <1>4, <2>1, <2>2, <3>1, <3>3, ServesByRows DEF Done
  <2>4. CASE action.kind \notin {"keep", "renew"}
    <3>1. tally'["forwarded"] = tally["forwarded"]
      BY <1>3, <2>1, <2>4 DEF QuietCount, Done
    <3> QED
      BY <1>4, <2>1, <2>2, <3>1, ServesByRows DEF Done
  <2> QED
    BY <2>3, <2>4
<1>6. CASE RemoveToMove
  <2>1. /\ pc = "applying" /\ todo # <<>> /\ action.kind = "replace"
        /\ UNCHANGED <<calm, cleaning, desired>>
        /\ table' = table \/ table' = Without(Identity(action.forward))
    BY <1>6 DEF RemoveToMove, Applying
  <2>2. \/ pc' = "adding" /\ UNCHANGED <<todo, tally>>
        \/ Done(Count("failed"))
    BY <1>6 DEF RemoveToMove
  <2>3. \A slot : slot # Identity(action.forward) => RowsAt(slot)' = RowsAt(slot)
    BY <2>1, OtherSlots DEF RowsAt
  <2>4. todo' = todo => \A task \in ToSet(todo) : task.kind \in {"keep", "renew"} =>
                            (Serves(task.forward) => Serves(task.forward)')
    <3> SUFFICES ASSUME NEW task \in ToSet(todo), task.kind \in {"keep", "renew"}
                 PROVE  Identity(task.forward) # Identity(action.forward)
      BY <2>3, ServesByRows
    <3>1. action \in ToSet(todo) /\ action # task
      BY <2>1, HeadAndTail DEF TypeOK, TodoOK, action
    <3> QED
      BY <3>1 DEF OneTaskEach, ToSet
  <2>5. tally'["forwarded"] = tally["forwarded"] /\ todo' \in {todo, Tail(todo)}
          /\ pc' \in {"applying", "adding"}
    BY <1>3, <2>2 DEF Done
  <2> QED
    BY <1>4, <2>1, <2>3, <2>4, <2>5
<1>7. CASE WriteNowhere
  <2>1. /\ pc \in {"applying", "adding"} /\ todo # <<>> /\ Done(Count("failed"))
        /\ UNCHANGED <<table, calm, cleaning, desired>>
    BY <1>7 DEF WriteNowhere, Writing, Applying, TypeOK, TodoOK
  <2>2. \A slot : RowsAt(slot)' = RowsAt(slot)
    BY <2>1 DEF RowsAt
  <2> QED
    BY <1>3, <1>4, <2>1, <2>2, ServesByRows DEF Done
<1>8. CASE Write
  <2> DEFINE now == Without(Identity(action.forward)) \cup {NewMapping(action.forward)}
  <2>1. /\ pc \in {"applying", "adding"} /\ todo # <<>>
        /\ UNCHANGED <<calm, cleaning, desired>>
        /\ \/ Done(Count("failed"))
           \/ Done(Count("forwarded")) /\ table' = now
    BY <1>8 DEF Write, Writing, Applying, TypeOK, TodoOK, NewMapping
  <2>2. \A slot : slot # Identity(action.forward) => RowsAt(slot)' = RowsAt(slot)
    <3>1. Identity(NewMapping(action.forward)) = Identity(action.forward)
      BY DEF NewMapping, Identity
    <3>2. CASE table' = table
      BY <3>2 DEF RowsAt
    <3>3. CASE table' = now
      BY <3>1, <3>3, OtherSlots
    <3> QED
      BY <1>8, <3>2, <3>3, WriteTable
  <2>3. CASE Done(Count("failed"))
    BY <1>3, <1>4, <2>1, <2>2, <2>3, HeadDealtWith DEF Done
  <2>4. CASE Done(Count("forwarded")) /\ table' = now
    <3>1. PICK forward : forward = action.forward
      OBVIOUS
    <3>2. Serves(forward)'
      BY <1>8, <2>4, <3>1, WriteServes
    <3> QED
      BY <1>3, <1>4, <2>1, <2>2, <2>4, <3>1, <3>2, HeadDealtWith DEF Done
  <2> QED
    BY <2>1, <2>3, <2>4
<1>9. CASE ApplyLeftover
  <2>1. /\ UNCHANGED <<pc, calm, cleaning, desired, todo>> /\ pc = "applying"
        /\ tally'["forwarded"] = tally["forwarded"]
    BY <1>3, <1>9 DEF ApplyLeftover
  <2>2. PICK rest \in leftovers :
          \/ table' = table
          \/ rest.kind = "remove" /\ table' = Without(Identity(rest.mapping))
    BY <1>9 DEF ApplyLeftover, TypeOK, PassOK
  <2>3. ASSUME NEW f \in ToSet(desired) PROVE Serves(f)' <=> Serves(f)
    <3>1. Identity(f) \in Wanted(desired)
      BY DEF Wanted, ToSet
    <3>2. RowsAt(Identity(f))' = RowsAt(Identity(f))
      BY <2>2, <3>1, OtherSlots DEF RowsAt, LeftoversUnwanted
    <3> QED
      BY <3>2, ServesByRows
  <2>4. ServedSlots \subseteq ServedSlots'
    BY <2>1, <2>3 DEF ServedSlots, Dealt
  <2>5. Cardinality(ServedSlots) <= Cardinality(ServedSlots')
    BY <2>4, MoreServed
  <2>6. \A task \in ToSet(todo') : Serves(task.forward) => Serves(task.forward)'
    BY <2>1, <2>3 DEF TodoWanted
  <2> QED
    BY <1>1, <1>2, <2>1, <2>5, <2>6 DEF TallyOK, Counting
<1>10. CASE List
  <2>1. /\ pc = "listing" /\ pc' = "applying"
        /\ UNCHANGED <<table, calm, cleaning, desired, tally>>
    BY <1>10 DEF List
  <2>2. \A forward : Serves(forward)' <=> Serves(forward)
    BY <2>1 DEF Serves, RowsAt
  <2>3. \A task \in ToSet(todo') : task.kind \in {"keep", "renew"} => Serves(task.forward)'
    BY <1>10, <2>2, KeptServes
  <2> QED
    BY <1>1, <2>1, <2>3 DEF TallyOK, Counting
<1>11. CASE Begin
  <2>1. pc' = "reading" /\ tally'["forwarded"] = 0
    BY <1>2, <1>11 DEF Begin, NoTally
  <2> QED
    BY <2>1 DEF TallyOK, Counting
<1>12. CASE ReadDesired
  BY <1>12 DEF ReadDesired, TallyOK, Counting
<1>13. CASE Finish \/ ReadFails \/ Cleanup \/ Stop \/ Restart \/ Settle
  <2>1. pc' \in {"idle", "stopped"} \/ cleaning'
    BY <1>13 DEF Finish, ReadFails, EndPass, Cleanup, Stop, Restart, Settle, program
  <2> QED
    BY <2>1 DEF TallyOK, Counting
<1>14. CASE World
  <2>1. UNCHANGED <<pc, calm, cleaning, desired, todo, tally>>
    BY <1>14 DEF World, WantChanges, OthersChange, Reboot, LeaseAges, LeaseExpires,
                 TableChanges, program
  <2>2. CASE ~calm \/ pc = "idle"
    BY <2>1, <2>2 DEF TallyOK, Counting
  <2>3. CASE LeaseAges
    <3>1. PICK m \in table :
            table' = (table \ {m}) \cup {[m EXCEPT !.lease = "short"]}
      BY <2>3 DEF LeaseAges
    <3> DEFINE aged == [m EXCEPT !.lease = "short"]
    <3>2. aged.slot = m.slot /\ aged.remote = m.remote /\ aged.ours = m.ours
            /\ aged.client = m.client /\ aged.port = m.port
      BY DEF TypeOK, TableOK, Mappings
    <3>3. ASSUME NEW f, Serves(f) PROVE Serves(f)'
      <4>1. PICK n \in RowsAt(Identity(f)) :
              IsOurs(n) /\ n.port = f.port /\ f.client \in {n.client, NoAddress}
        BY <3>3 DEF Serves
      <4>2. CASE n = m
        <5>1. aged \in RowsAt(Identity(f))'
          BY <3>1, <3>2, <4>1, <4>2 DEF RowsAt, Identity
        <5> QED
          BY <3>2, <4>1, <4>2, <5>1 DEF Serves, IsOurs
      <4>3. CASE n # m
        <5>1. n \in RowsAt(Identity(f))'
          BY <3>1, <4>1, <4>3 DEF RowsAt
        <5> QED
          BY <4>1, <5>1 DEF Serves
      <4> QED
        BY <4>2, <4>3
    <3>4. ServedSlots \subseteq ServedSlots'
      BY <2>1, <3>3 DEF ServedSlots, Dealt
    <3>5. Cardinality(ServedSlots) <= Cardinality(ServedSlots')
      BY <3>4, MoreServed
    <3> QED
      BY <1>1, <1>2, <2>1, <3>3, <3>5 DEF TallyOK, Counting
  <2> QED
    BY <1>14, <2>2, <2>3 DEF World, WantChanges, OthersChange, Reboot, LeaseExpires,
                TypeOK, WorldOK
<1>15. CASE UNCHANGED vars
  <2>1. UNCHANGED <<table, pc, calm, cleaning, desired, todo, tally>>
    BY <1>15 DEF vars, program
  <2> QED
    BY <2>1 DEF TallyOK, Counting, ServedSlots, Dealt, Serves, RowsAt
<1> QED
  BY <1>5, <1>6, <1>7, <1>8, <1>9, <1>10, <1>11, <1>12, <1>13, <1>14, <1>15 DEF Next, Step

(* The status of a pass that nothing disturbed does not count more forwards *)
(* than the gateway then has in place: each it counts as forwarded has a    *)
(* row of its own, whatever the gateway refused and the flags, for a source  *)
(* that asks once for each slot.                                            *)
THEOREM StatusIsNotOverstated ==
  ASSUME \A forwards \in Answers : OnePerSlot(forwards)
  PROVE  Spec => StatusNeverOverstates
<1> DEFINE Inv == TodoWanted /\ OneTaskEach /\ LeftoversUnwanted /\ TallyOK
<1>1. Init => Inv
  BY NothingIn DEF Init, TodoWanted, OneTaskEach, LeftoversUnwanted, TallyOK, Counting
<1>2. TypeOK => OnePerSlot(desired)
  BY DEF TypeOK, PassOK, OnePerSlot
<1>3. TypeOK /\ TypeOK' /\ Inv /\ [Next]_vars => Inv'
  BY <1>2, NextTodoWanted, NextOneTaskEach, NextLeftoversUnwanted, NextTallyOK
<1>4. Inv => (Finish /\ calm /\ ~cleaning =>
         tally["forwarded"] <=
           Cardinality({Identity(f) : f \in {f \in ToSet(desired) : Serves(f)}}))
  <2> SUFFICES ASSUME Inv, Finish, calm, ~cleaning
               PROVE  tally["forwarded"] <=
                        Cardinality({Identity(f) : f \in {f \in ToSet(desired) : Serves(f)}})
    OBVIOUS
  <2>1. Dealt = ToSet(desired)
    BY NothingIn DEF Finish, Dealt
  <2>2. ServedSlots = {Identity(f) : f \in {f \in ToSet(desired) : Serves(f)}}
    BY <2>1 DEF ServedSlots
  <2>3. tally["forwarded"] <= Cardinality(ServedSlots)
    BY DEF Finish, TallyOK, Counting
  <2> QED
    BY <2>2, <2>3
<1> QED
  BY <1>1, <1>3, <1>4, TypeCorrect, PTL DEF Spec, StatusNeverOverstates

-----------------------------------------------------------------------------
(* Passes that nothing disturbs.  Once the world is calm such a pass, when it *)
(* is not a dry run, puts in place what was asked for and takes away what   *)
(* was not, and what it has put in place stays there.                      *)

Undisturbed == calm /\ ~cleaning /\ pc # "stopped"
Settling == Undisturbed /\ ~flags.dryRun
Placing == Settling /\ pc \in {"applying", "adding"}

(* The gateway will never have a row for this forward. *)
Hopeless(forward) ==
  \/ Identity(forward) \in Refused \/ InternalClient(forward) = NoAddress
  \/ "secure_mode" \in Quirks /\ InternalClient(forward) # Requester(forward)

(* All a pass can do for a forward has been done. *)
Settled(forward) ==
  \/ Serves(forward)
  \/ Hopeless(forward) /\ RowsAt(Identity(forward)) = {}
  \/ \E m \in table : Identity(m) = Identity(forward) /\ Foreign(m, want)

(* A row this Portical answers for where nothing is wanted. *)
Stray(mapping) ==
  /\ IsOurs(mapping) /\ mapping.client \in ManagedAddresses(want)
  /\ Identity(mapping) \notin Wanted(want)

(* What the tasks still to do presume of their slots. *)
TasksAsListed ==
  /\ \A task \in ToSet(todo) :
       /\ task.kind \in {"keep", "renew", "conflict"} => Settled(task.forward)
       /\ task.kind = "add" => RowsAt(Identity(task.forward)) = {}
  /\ pc = "adding" => RowsAt(Identity(action.forward)) = {}

ReadsWhatIsWanted ==
  Undisturbed /\ pc \in {"listing", "applying", "adding"} => desired = want

PassInHand ==
  Placing =>
    /\ TasksAsListed
    /\ \A f \in Dealt : Settled(f)
    /\ \A m \in table : Stray(m) =>
         \E rest \in leftovers : rest.kind = "remove" /\ Identity(rest.mapping) = Identity(m)

(* Rows of other slots decide nothing about a forward. *)
LEMMA SettledByRows ==
  ASSUME NEW forward, Settled(forward),
         \A m : Identity(m) = Identity(forward) => (m \in table' <=> m \in table),
         \A m : Foreign(m, want)' <=> Foreign(m, want)
  PROVE  Settled(forward)'
<1>1. RowsAt(Identity(forward))' = RowsAt(Identity(forward))
  BY DEF RowsAt
<1> QED
  BY <1>1 DEF Settled, Serves, Hopeless, InternalClient, Requester

(* In a calm world what a pass writes was its own to write from the start, *)
(* and nobody changes their mind.                                          *)
LEMMA CalmSteps ==
  ASSUME TypeOK, TodoWanted, ReadsWhatIsWanted, Undisturbed, [Next]_vars
  PROVE  /\ Undisturbed' /\ UNCHANGED <<want, flags>>
         /\ ManagedAddresses(want)' = ManagedAddresses(want)
         /\ \A m : Foreign(m, want)' <=> Foreign(m, want)
<1> USE DEF Undisturbed
<1>1. Undisturbed' /\ UNCHANGED <<want, flags>>
  <2>0. /\ calm \in BOOLEAN /\ cleaning \in BOOLEAN
        /\ pc \in {"idle", "reading", "listing", "applying", "adding", "stopped"}
    BY DEF TypeOK, PassOK, WorldOK
  <2>1. ~Cleanup /\ ~Stop /\ ~Restart /\ ~ReadFails /\ ~WantChanges /\ ~OthersChange
          /\ ~Reboot /\ ~Settle
    BY DEF Cleanup, Stop, Restart, ReadFails, WantChanges, OthersChange, Reboot, Settle
  <2>2. UNCHANGED <<want, flags, calm, cleaning>> /\ pc' # "stopped"
    <3>1. CASE Begin \/ Finish
      BY <2>0, <3>1 DEF Begin, Finish, EndPass, inputs
    <3>2. CASE ReadDesired \/ List \/ ApplyLeftover
      BY <3>2 DEF ReadDesired, List, ApplyLeftover, inputs
    <3>3. CASE ApplyQuietly \/ RemoveToMove \/ WriteNowhere \/ Write
      BY <3>3 DEF ApplyQuietly, RemoveToMove, WriteNowhere, Write, Done, inputs
    <3>4. CASE LeaseAges \/ LeaseExpires \/ UNCHANGED vars
      BY <3>4 DEF LeaseAges, LeaseExpires, TableChanges, vars, program
    <3> QED
      BY <2>1, <3>1, <3>2, <3>3, <3>4 DEF Next, Step, World
  <2> QED
    BY <2>2
<1>2. CASE ~Write
  <2>1. written' = written
    BY <1>1, <1>2 DEF Next, Step, World, Begin, ReadDesired, List, ApplyQuietly, RemoveToMove,
           WriteNowhere, ApplyLeftover, Finish, ReadFails, Cleanup, Stop, Restart, Settle,
           WantChanges, OthersChange, Reboot, LeaseAges, LeaseExpires, TableChanges, vars,
           program
  <2> QED
    BY <1>1, <2>1 DEF ManagedAddresses, Foreign
<1>3. CASE Write
  <2>1. pc \in {"applying", "adding"} /\ todo # <<>>
    BY <1>3 DEF Write, Writing, Applying, TypeOK, TodoOK
  <2>2. action.forward \in ToSet(want)
    BY <2>1, HeadAndTail DEF TodoWanted, TypeOK, TodoOK, action, ReadsWhatIsWanted
  <2>3. \/ written' = written
        \/ written' = written \cup {InternalClient(action.forward)}
    BY <1>3 DEF Write, Remember, NewMapping
  <2>4. InternalClient(action.forward) \in {HostAddress, action.forward.client}
    BY DEF InternalClient
  <2>5. ManagedAddresses(want)' = ManagedAddresses(want)
    BY <1>1, <2>2, <2>3, <2>4 DEF ManagedAddresses
  <2> QED
    BY <1>1, <2>5 DEF Foreign
<1> QED
  BY <1>1, <1>2, <1>3

LEMMA NextReadsWhatIsWanted ==
  ASSUME TypeOK, TodoWanted, ReadsWhatIsWanted, [Next]_vars
  PROVE  ReadsWhatIsWanted'
<1> USE DEF ReadsWhatIsWanted, Undisturbed
<1>1. CASE Begin \/ Finish \/ ReadFails \/ Cleanup \/ Stop \/ Restart
  <2>1. pc' \in {"idle", "reading", "stopped"} \/ cleaning'
    BY <1>1 DEF Begin, Finish, ReadFails, EndPass, Cleanup, Stop, Restart
  <2> QED
    BY <2>1
<1>2. CASE ReadDesired
  BY <1>2 DEF ReadDesired, inputs
<1>3. CASE List \/ ApplyLeftover
  BY <1>3 DEF List, ApplyLeftover, inputs
<1>4. CASE ApplyQuietly \/ RemoveToMove \/ WriteNowhere \/ Write
  <2>1. pc \in {"applying", "adding"} /\ UNCHANGED <<want, desired, calm, cleaning>>
    BY <1>4 DEF ApplyQuietly, RemoveToMove, WriteNowhere, Write, Writing, Applying, inputs
  <2> QED
    BY <2>1
<1>5. CASE Settle
  BY <1>5 DEF Settle, program
<1>6. CASE World \/ UNCHANGED vars
  <2>1. UNCHANGED <<pc, cleaning, desired, calm>> /\ (~calm \/ want' = want)
    BY <1>6 DEF World, WantChanges, OthersChange, Reboot, LeaseAges, LeaseExpires, TableChanges,
                vars, program
  <2> QED
    BY <2>1
<1> QED
  BY <1>1, <1>2, <1>3, <1>4, <1>5, <1>6 DEF Next, Step

(* Every task is the first or one of the rest. *)
LEMMA HeadOrTail ==
  ASSUME NEW S, NEW seq \in Seq(S), seq # <<>>
  PROVE  ToSet(seq) \subseteq {Head(seq)} \cup ToSet(Tail(seq))
<1>1. Len(seq) \in Nat \ {0} /\ DOMAIN seq = 1 .. Len(seq)
  BY EmptySeq, LenProperties
<1>2. Head(seq) = seq[1]
  BY <1>1
<1>3. /\ Tail(seq) \in Seq(S) /\ Len(Tail(seq)) = Len(seq) - 1
      /\ \A i \in 1 .. Len(Tail(seq)) : Tail(seq)[i] = seq[i + 1]
  BY HeadTailProperties
<1>4. DOMAIN Tail(seq) = 1 .. Len(Tail(seq))
  BY <1>3, LenProperties
<1>5. ASSUME NEW i \in DOMAIN seq, i # 1
      PROVE  seq[i] \in ToSet(Tail(seq))
  <2>1. i - 1 \in 1 .. Len(Tail(seq)) /\ (i - 1) + 1 = i
    BY <1>1, <1>3, <1>5
  <2>2. Tail(seq)[i - 1] = seq[i]
    BY <1>3, <2>1
  <2> QED
    BY <1>4, <2>1, <2>2 DEF ToSet
<1> QED
  BY <1>2, <1>5 DEF ToSet

(* A step that deals with the task at the head, or takes its row down, and  *)
(* touches no other slot.                                                  *)
LEMMA HeadPlaced ==
  ASSUME TypeOK, OnePerSlot(desired), OneTaskEach, TodoWanted, ReadsWhatIsWanted, PassInHand,
         Placing, [Next]_vars, todo # <<>>, UNCHANGED <<desired, leftovers>>,
         NEW forward, forward = action.forward,
         \A m : Identity(m) # Identity(forward) => (m \in table' <=> m \in table),
         \/ todo' = Tail(todo) /\ pc' = "applying" /\ Settled(forward)'
         \/ todo' = todo /\ action.kind = "replace" /\ RowsAt(Identity(forward))' = {}
  PROVE  PassInHand'
<1>1. /\ action \in ToSet(todo) /\ ToSet(Tail(todo)) \subseteq ToSet(todo)
      /\ ToSet(todo) \subseteq {action} \cup ToSet(Tail(todo))
      /\ forward \in ToSet(desired)
  BY HeadAndTail, HeadOrTail DEF TodoWanted, TypeOK, TodoOK, action
<1>2. /\ desired = want /\ UNCHANGED want
      /\ ManagedAddresses(want)' = ManagedAddresses(want)
      /\ \A m : Foreign(m, want)' <=> Foreign(m, want)
  BY CalmSteps DEF ReadsWhatIsWanted, Placing, Settling
<1>3. \A s : s # Identity(forward) => RowsAt(s)' = RowsAt(s)
  BY DEF RowsAt
<1>4. \A f : Identity(f) # Identity(forward) /\ Settled(f) => Settled(f)'
  BY <1>2, SettledByRows
<1>5. \A task \in ToSet(todo') :
        /\ task \in ToSet(todo)
        /\ (task = action /\ todo' = todo) \/ Identity(task.forward) # Identity(forward)
  <2>1. CASE todo' = Tail(todo)
    BY <2>1, TailForOthers
  <2>2. CASE todo' = todo
    BY <1>1, <2>2 DEF OneTaskEach, ToSet
  <2> QED
    BY <2>1, <2>2
<1>6. TasksAsListed'
  <2>1. \A task \in ToSet(todo') :
          /\ task.kind \in {"keep", "renew", "conflict"} => Settled(task.forward)'
          /\ task.kind = "add" => RowsAt(Identity(task.forward))' = {}
    <3> TAKE task \in ToSet(todo')
    <3>1. CASE task = action /\ todo' = todo
      BY <3>1
    <3>2. CASE Identity(task.forward) # Identity(forward)
      BY <1>3, <1>4, <1>5, <3>2 DEF PassInHand, TasksAsListed
    <3> QED
      BY <1>5, <3>1, <3>2
  <2>2. pc' = "adding" => RowsAt(Identity(action.forward))' = {}
    BY DEF action
  <2> QED
    BY <2>1, <2>2 DEF TasksAsListed
<1>7. \A f \in Dealt' : Settled(f)'
  <2> TAKE f \in Dealt'
  <2>1. CASE Identity(f) # Identity(forward)
    <3>1. f \in Dealt
      BY <1>1, <2>1 DEF Dealt
    <3> QED
      BY <1>4, <2>1, <3>1 DEF PassInHand
  <2>2. CASE Identity(f) = Identity(forward)
    <3>1. todo' = Tail(todo)
      BY <1>1, <2>2 DEF Dealt
    <3>2. desired \in Seq(Forwards)
      BY ForwardsOfAnswers DEF TypeOK, PassOK
    <3>3. f = forward
      BY <1>1, <2>2, <3>2, WantedOnce DEF Dealt
    <3> QED
      BY <3>1, <3>3
  <2> QED
    BY <2>1, <2>2
<1>8. \A m \in table' : Stray(m)' =>
        \E rest \in leftovers' : rest.kind = "remove" /\ Identity(rest.mapping) = Identity(m)
  BY <1>1, <1>2 DEF PassInHand, Stray, Wanted, ToSet
<1> QED
  BY <1>6, <1>7, <1>8 DEF PassInHand

LEMMA CalmOutcomes ==
  ASSUME calm, NEW accepted, NEW outcome \in Outcomes(accepted)
  PROVE  outcome \in {"done", "unserved"} /\ (accepted => outcome = "done")
<1>1. outcome \in {"done", "unserved"}
  BY Zenon DEF Outcomes
<1>2. accepted => outcome = "done"
  BY Zenon DEF Outcomes
<1> QED
  BY <1>1, <1>2

LEMMA ListPlaces ==
  ASSUME TypeOK, TodoWanted, ReadsWhatIsWanted, Placing', List
  PROVE  PassInHand'
<1> DEFINE options == ReconcileOptions(desired)
<1>1. PICK existing \in Existing(table) : todo' = ForwardActions(desired, existing, options)
  BY DEF List
<1>2. /\ pc = "listing" /\ pc' = "applying" /\ UNCHANGED table
      /\ leftovers' = LeftoverActions(desired, table, options)
  BY DEF List
<1>3. /\ desired = want /\ ~cleaning /\ UNCHANGED <<want, flags, desired>>
      /\ ManagedAddresses(want)' = ManagedAddresses(want)
      /\ \A m : Foreign(m, want)' <=> Foreign(m, want)
  <2>1. UNCHANGED <<want, flags, desired, cleaning, calm, written>>
    BY DEF List, inputs
  <2>2. Undisturbed /\ ~cleaning
    BY <1>2, <2>1 DEF Placing, Settling, Undisturbed
  <2> QED
    BY <1>2, <2>1, <2>2 DEF ReadsWhatIsWanted, Foreign, ManagedAddresses
<1>4. \A forward : Settled(forward)' <=> Settled(forward)
  BY <1>2, <1>3 DEF Settled, Hopeless, Serves, RowsAt, InternalClient, Requester
<1>5. \A task \in ToSet(todo') : \E forward :
        task = ForForward(forward, existing, options) /\ task.forward = forward
  BY <1>1 DEF ForwardActions, ForForward, ToSet
<1>6. ASSUME NEW forward, ForForward(forward, existing, options).kind = "conflict"
      PROVE  Settled(forward)
  <2> DEFINE row == existing[Identity(forward)]
  <2>1. Identity(forward) \in DOMAIN existing /\ KindOf(forward, row, options) = "conflict"
    BY <1>6 DEF ForForward
  <2>2. row \in table /\ Identity(row) = Identity(forward)
    BY <2>1 DEF Existing
  <2>3. NotToTouch(row, options)
    BY <2>1 DEF KindOf, Refresh
  <2>4. Foreign(row, want)
    BY <1>3, <2>3 DEF Foreign, NotToTouch, Managed, ReconcileOptions
  <2> QED
    BY <2>2, <2>4 DEF Settled
<1>7. ASSUME NEW forward, ForForward(forward, existing, options).kind = "add"
      PROVE  RowsAt(Identity(forward)) = {}
  <2>1. Identity(forward) \notin DOMAIN existing
    BY <1>7 DEF ForForward, KindOf, Refresh
  <2>2. DOMAIN existing = {Identity(m) : m \in table}
    BY DEF Existing
  <2> QED
    BY <2>1, <2>2 DEF RowsAt
<1>8. TasksAsListed'
  <2>1. \A task \in ToSet(todo') :
          /\ task.kind \in {"keep", "renew", "conflict"} => Settled(task.forward)
          /\ task.kind = "add" => RowsAt(Identity(task.forward)) = {}
    BY <1>5, <1>6, <1>7, KeptServes DEF Settled
  <2> QED
    BY <1>2, <1>4, <2>1 DEF TasksAsListed, RowsAt
<1>9. Dealt' = {}
  <2>1. \A f \in ToSet(desired) : \E task \in ToSet(todo') : task.forward = f
    BY <1>1 DEF ForwardActions, ForForward, ToSet
  <2> QED
    BY <1>3, <2>1 DEF Dealt
<1>10. ASSUME NEW m \in table, Stray(m)'
       PROVE  \E rest \in leftovers' :
                rest.kind = "remove" /\ Identity(rest.mapping) = Identity(m)
  <2>1. Stray(m) /\ Managed(m, options)
    BY <1>3, <1>10 DEF Stray, Managed, ReconcileOptions
  <2>2. [kind |-> "remove", mapping |-> m] \in leftovers'
    BY <1>2, <1>3, <2>1 DEF LeftoverActions, Stray
  <2> QED
    BY <2>2
<1> QED
  BY <1>2, <1>8, <1>9, <1>10 DEF PassInHand

LEMMA WritePlaces ==
  ASSUME TypeOK, OnePerSlot(desired), OneTaskEach, TodoWanted, ReadsWhatIsWanted, PassInHand,
         Placing, Write
  PROVE  PassInHand'
<1>1. PICK forward : forward = action.forward
  OBVIOUS
<1> DEFINE new == NewMapping(forward)
<1>2. PICK outcome \in Outcomes(Accepts(Requester(forward), new)) :
        /\ table' = IF outcome = "unserved" THEN table ELSE Without(new.slot) \cup {new}
        /\ todo' = Tail(todo) /\ pc' = "applying"
  BY <1>1 DEF Write, Done
<1>3. /\ todo # <<>> /\ UNCHANGED <<desired, leftovers>>
      /\ pc = "adding" \/ action.kind \in {"add", "renew"}
  BY DEF Write, Writing, Applying, TypeOK, TodoOK
<1>4. [Next]_vars
  BY DEF Next, Step
<1>5. new.slot = Identity(forward) /\ Identity(new) = Identity(forward)
  BY DEF NewMapping, Identity
<1>6. \A m : Identity(m) # Identity(forward) => (m \in table' <=> m \in table)
  BY <1>2, <1>5 DEF Without, RowsAt
<1>7. CASE outcome # "unserved"
  <2>1. Settled(forward)'
    BY <1>1, <1>2, <1>5, <1>7, WriteServes DEF Settled
  <2> QED
    BY <1>1, <1>2, <1>3, <1>4, <1>6, <2>1, HeadPlaced
<1>8. CASE outcome = "unserved"
  <2>1. ~Accepts(Requester(forward), new)
    BY <1>2, <1>8, CalmOutcomes DEF Placing, Settling, Undisturbed
  <2>2. new.client = InternalClient(forward)
    BY DEF NewMapping
  <2>3. Settled(forward)
    <3>1. CASE RowsAt(Identity(forward)) # {}
      BY <1>1, <1>3, <3>1, HeadAndTail DEF PassInHand, TasksAsListed, TypeOK, TodoOK, action
    <3>2. CASE RowsAt(Identity(forward)) = {}
      BY <1>5, <2>1, <2>2, <3>2 DEF Accepts, Settled, Hopeless
    <3> QED
      BY <3>1, <3>2
  <2>4. table' = table /\ \A m : Foreign(m, want)' <=> Foreign(m, want)
    BY <1>2, <1>4, <1>8, CalmSteps DEF Placing, Settling
  <2>5. Settled(forward)'
    BY <2>3, <2>4, SettledByRows
  <2> QED
    BY <1>1, <1>2, <1>3, <1>4, <1>6, <2>5, HeadPlaced
<1> QED
  BY <1>7, <1>8

LEMMA LeftoverPlaces ==
  ASSUME TypeOK, TodoWanted, LeftoversUnwanted, ReadsWhatIsWanted, PassInHand, Placing,
         ApplyLeftover
  PROVE  PassInHand'
<1>1. PICK rest \in leftovers :
        /\ leftovers' = leftovers \ {rest}
        /\ \/ table' = table /\ (rest.kind = "orphan" \/ flags.dryRun)
           \/ /\ rest.kind # "orphan" /\ ~flags.dryRun
              /\ \E outcome \in Outcomes(TRUE) :
                   table' = IF outcome = "unserved" THEN table
                            ELSE Without(Identity(rest.mapping))
  BY DEF ApplyLeftover
<1>2. UNCHANGED <<pc, todo, desired>> /\ pc = "applying" /\ todo = <<>>
  BY DEF ApplyLeftover
<1>3. /\ desired = want /\ UNCHANGED want
      /\ ManagedAddresses(want)' = ManagedAddresses(want)
      /\ \A m : Foreign(m, want)' <=> Foreign(m, want)
  BY CalmSteps DEF ReadsWhatIsWanted, Placing, Settling, Next, Step
<1>4. \/ table' = table /\ rest.kind = "orphan"
      \/ rest.kind = "remove" /\ table' = Without(Identity(rest.mapping))
  <2>1. rest.kind \in {"remove", "orphan"}
    BY <1>1 DEF TypeOK, PassOK
  <2> QED
    BY <1>1, <2>1, CalmOutcomes DEF Placing, Settling, Undisturbed
<1>5. TasksAsListed'
  BY <1>2, NothingIn DEF TasksAsListed
<1>6. \A f \in Dealt' : Settled(f)'
  <2> TAKE f \in Dealt'
  <2>1. f \in ToSet(desired) /\ f \in Dealt
    BY <1>2, <1>3 DEF Dealt
  <2>2. Identity(f) \in Wanted(desired)
    BY <2>1 DEF Wanted, ToSet
  <2>3. \A m : Identity(m) = Identity(f) => (m \in table' <=> m \in table)
    BY <1>4, <2>2 DEF Without, RowsAt, LeftoversUnwanted
  <2> QED
    BY <1>3, <2>1, <2>3, SettledByRows DEF PassInHand
<1>7. ASSUME NEW m \in table', Stray(m)'
      PROVE  \E other \in leftovers' :
               other.kind = "remove" /\ Identity(other.mapping) = Identity(m)
  <2>1. m \in table /\ Stray(m)
    BY <1>3, <1>4, <1>7 DEF Without, Stray
  <2>2. PICK other \in leftovers :
          other.kind = "remove" /\ Identity(other.mapping) = Identity(m)
    BY <2>1 DEF PassInHand
  <2>3. other # rest
    BY <1>4, <1>7, <2>1, <2>2 DEF Without, RowsAt, Stray, IsOurs, TypeOK, TableOK, Mappings
  <2> QED
    BY <1>1, <2>2, <2>3
<1> QED
  BY <1>5, <1>6, <1>7 DEF PassInHand

(* A lease that gets older changes nothing else about its row. *)
Alike(m, n) ==
  /\ Identity(m) = Identity(n) /\ m.remote = n.remote /\ IsOurs(m) = IsOurs(n)
  /\ m.client = n.client /\ m.port = n.port

LEMMA AgeingIsAlike ==
  ASSUME TypeOK, LeaseAges
  PROVE  /\ \A m \in table : \E n \in table' : Alike(n, m)
         /\ \A n \in table' : \E m \in table : Alike(n, m)
         /\ \A m \in table : m.lease = "short" => m \in table'
<1>1. PICK m \in table :
        m.lease = "long" /\ table' = (table \ {m}) \cup {[m EXCEPT !.lease = "short"]}
  BY DEF LeaseAges
<1> DEFINE aged == [m EXCEPT !.lease = "short"]
<1>2. Alike(aged, m)
  BY DEF TypeOK, TableOK, Mappings, Alike, Identity, IsOurs
<1>3. \A n : Alike(n, n)
  BY DEF Alike
<1>4. table' = (table \ {m}) \cup {aged}
  BY <1>1
<1>5. \A n \in table : n.lease = "short" => n # m
  BY <1>1
<1> HIDE DEF aged
<1>6. \A n \in table : \E new \in table' : Alike(new, n)
  BY <1>2, <1>3, <1>4
<1>7. \A new \in table' : \E n \in table : Alike(new, n)
  BY <1>2, <1>3, <1>4
<1> QED
  BY <1>4, <1>5, <1>6, <1>7

LEMMA AgeingPlaces ==
  ASSUME TypeOK, TodoWanted, ReadsWhatIsWanted, PassInHand, Placing, LeaseAges
  PROVE  PassInHand'
<1>1. UNCHANGED <<pc, todo, leftovers, desired, want>>
  BY DEF LeaseAges, program
<1>2. /\ ManagedAddresses(want)' = ManagedAddresses(want)
      /\ \A m : Foreign(m, want)' <=> Foreign(m, want)
  BY CalmSteps DEF Placing, Settling, Next, World
<1>3. \A f : Settled(f) => Settled(f)'
  <2> TAKE f
  <2>1. Serves(f) => Serves(f)'
    BY AgeingIsAlike DEF Alike, Serves, RowsAt
  <2>2. RowsAt(Identity(f)) = {} => RowsAt(Identity(f))' = {}
    BY AgeingIsAlike DEF Alike, RowsAt
  <2>3. \A m, n : Alike(n, m) /\ Foreign(m, want) => Foreign(n, want)'
    BY <1>2 DEF Alike, Foreign
  <2>4. ASSUME NEW m \in table, Identity(m) = Identity(f), Foreign(m, want)
        PROVE  \E n \in table' : Identity(n) = Identity(f) /\ Foreign(n, want)'
    <3>1. PICK n \in table' : Alike(n, m)
      BY AgeingIsAlike
    <3> QED
      BY <2>3, <2>4, <3>1 DEF Alike
  <2> QED
    BY <2>1, <2>2, <2>4 DEF Settled, Hopeless, InternalClient, Requester
<1>4. \A s : RowsAt(s) = {} => RowsAt(s)' = {}
  BY AgeingIsAlike DEF Alike, RowsAt
<1>5. TasksAsListed'
  BY <1>1, <1>3, <1>4 DEF PassInHand, TasksAsListed, action
<1>6. \A f \in Dealt' : Settled(f)'
  BY <1>1, <1>3 DEF PassInHand, Dealt
<1>7. ASSUME NEW n \in table', Stray(n)'
      PROVE  \E rest \in leftovers' :
               rest.kind = "remove" /\ Identity(rest.mapping) = Identity(n)
  <2>1. PICK m \in table : Alike(n, m)
    BY AgeingIsAlike
  <2>2. Stray(m) /\ Identity(m) = Identity(n)
    BY <1>1, <1>2, <1>7, <2>1 DEF Stray, Alike
  <2> QED
    BY <1>1, <2>2 DEF PassInHand
<1> QED
  BY <1>5, <1>6, <1>7 DEF PassInHand

LEMMA NextPassInHand ==
  ASSUME TypeOK, OnePerSlot(desired), OneTaskEach, TodoWanted, LeftoversUnwanted,
         ReadsWhatIsWanted, PassInHand, [Next]_vars
  PROVE  PassInHand'
<1>1. PICK forward : forward = action.forward
  OBVIOUS
<1>2. ASSUME Placing, todo # <<>>, UNCHANGED <<table, desired, leftovers>>,
             todo' = Tail(todo), pc' = "applying", Settled(forward)
      PROVE  PassInHand'
  <2>1. Settled(forward)'
    BY <1>2, CalmSteps, SettledByRows DEF Placing, Settling
  <2> QED
    BY <1>1, <1>2, <2>1, HeadPlaced
<1>3. ASSUME Placing, ApplyQuietly
      PROVE  PassInHand'
  <2>1. /\ todo # <<>> /\ UNCHANGED <<table, desired, leftovers>>
        /\ todo' = Tail(todo) /\ pc' = "applying"
        /\ action.kind \in {"keep", "conflict"}
    BY <1>3 DEF ApplyQuietly, Applying, Done, Placing, Settling
  <2>2. Settled(forward)
    BY <1>1, <1>3, <2>1, HeadAndTail DEF PassInHand, TasksAsListed, TypeOK, TodoOK, action
  <2> QED
    BY <1>2, <1>3, <2>1, <2>2
<1>4. ASSUME Placing, WriteNowhere
      PROVE  PassInHand'
  <2>1. /\ todo # <<>> /\ UNCHANGED <<table, desired, leftovers>>
        /\ todo' = Tail(todo) /\ pc' = "applying"
        /\ pc = "adding" \/ action.kind \in {"add", "renew"}
        /\ InternalClient(action.forward) = NoAddress
    BY <1>4 DEF WriteNowhere, Writing, Applying, Done, TypeOK, TodoOK
  <2>2. CASE action.kind = "renew" /\ pc # "adding"
    BY <1>1, <1>2, <1>4, <2>1, <2>2, HeadAndTail
       DEF PassInHand, TasksAsListed, TypeOK, TodoOK, action
  <2>3. CASE action.kind = "add" \/ pc = "adding"
    <3>1. RowsAt(Identity(forward)) = {}
      BY <1>1, <1>4, <2>1, <2>3, HeadAndTail
         DEF PassInHand, TasksAsListed, TypeOK, TodoOK, action
    <3>2. Settled(forward)
      BY <1>1, <2>1, <3>1 DEF Settled, Hopeless
    <3> QED
      BY <1>2, <1>4, <2>1, <3>2
  <2> QED
    BY <2>1, <2>2, <2>3
<1>5. ASSUME Placing, RemoveToMove
      PROVE  PassInHand'
  <2>1. todo # <<>> /\ UNCHANGED <<desired, leftovers>> /\ action.kind = "replace"
    BY <1>5 DEF RemoveToMove, Applying
  <2>2. table' = Without(Identity(forward)) /\ todo' = todo
    BY <1>1, <1>5, CalmOutcomes DEF RemoveToMove, Placing, Settling, Undisturbed
  <2>3. /\ \A m : Identity(m) # Identity(forward) => (m \in table' <=> m \in table)
        /\ RowsAt(Identity(forward))' = {}
    BY <2>2 DEF Without, RowsAt
  <2> QED
    BY <1>1, <1>5, <2>1, <2>2, <2>3, HeadPlaced
<1>6. CASE List
  BY <1>6, ListPlaces DEF PassInHand
<1>7. ASSUME Placing, Write \/ ApplyLeftover \/ LeaseAges
      PROVE  PassInHand'
  BY <1>7, WritePlaces, LeftoverPlaces, AgeingPlaces
<1>8. CASE UNCHANGED vars
  <2>1. UNCHANGED <<table, want, flags, pc, cleaning, desired, todo, leftovers, written, calm>>
    BY <1>8 DEF vars, program
  <2> QED
    BY <2>1 DEF PassInHand, Placing, Settling, Undisturbed, TasksAsListed, Dealt, Settled,
                Serves, Hopeless, Foreign, RowsAt, Stray, ManagedAddresses, InternalClient,
                Requester, action
<1>9. CASE Begin \/ ReadDesired \/ Finish \/ ReadFails \/ Cleanup \/ Stop \/ Restart
  BY <1>9 DEF Begin, ReadDesired, Finish, ReadFails, EndPass, Cleanup, Stop, Restart, PassInHand,
              Placing
<1>10. CASE Settle
  BY <1>10 DEF Settle, PassInHand, Placing, program
<1>11. CASE WantChanges \/ OthersChange \/ Reboot \/ LeaseExpires
  <2>1. UNCHANGED <<pc, calm>> /\ (~calm \/ pc = "idle")
    BY <1>11 DEF WantChanges, OthersChange, Reboot, LeaseExpires, TableChanges, program,
                 TypeOK, WorldOK
  <2> QED
    BY <2>1 DEF PassInHand, Placing, Settling, Undisturbed
<1>12. CASE ~Placing /\ (ApplyQuietly \/ RemoveToMove \/ WriteNowhere \/ Write \/ ApplyLeftover
                        \/ LeaseAges)
  <2>1. UNCHANGED <<flags, calm, cleaning>>
    BY <1>12 DEF ApplyQuietly, RemoveToMove, WriteNowhere, Write, ApplyLeftover, LeaseAges,
                 inputs, program
  <2>2. pc \in {"applying", "adding"} \/ pc' = pc
    BY <1>12 DEF ApplyQuietly, RemoveToMove, WriteNowhere, Write, Writing, Applying,
                 ApplyLeftover, LeaseAges, program
  <2> QED
    BY <1>12, <2>1, <2>2 DEF PassInHand, Placing, Settling, Undisturbed
<1> QED
  BY <1>3, <1>4, <1>5, <1>6, <1>7, <1>8, <1>9, <1>10, <1>11, <1>12 DEF Next, Step, World

(* When an undisturbed pass finishes, what is wanted and possible is in     *)
(* place, and nothing of this Portical's that is not wanted.               *)
PutsInPlace == [][Finish /\ Settling => InPlace]_vars

PassInvariant ==
  TodoWanted /\ OneTaskEach /\ LeftoversUnwanted /\ ReadsWhatIsWanted /\ PassInHand

LEMMA PassInvariantHolds ==
  ASSUME \A forwards \in Answers : OnePerSlot(forwards)
  PROVE  Spec => []PassInvariant
<1>1. Init => PassInvariant
  BY NothingIn DEF Init, PassInvariant, TodoWanted, OneTaskEach, LeftoversUnwanted,
                   ReadsWhatIsWanted, PassInHand, Placing
<1>2. TypeOK => OnePerSlot(desired)
  BY DEF TypeOK, PassOK, OnePerSlot
<1>3. TypeOK /\ PassInvariant /\ [Next]_vars => PassInvariant'
  BY <1>2, NextTodoWanted, NextOneTaskEach, NextLeftoversUnwanted, NextReadsWhatIsWanted,
     NextPassInHand DEF PassInvariant
<1> QED
  BY <1>1, <1>3, TypeCorrect, PTL DEF Spec

(* What a pass finds when it finishes. *)
LEMMA FinishedPass ==
  ASSUME TypeOK, PassInvariant, Finish, Settling
  PROVE  /\ desired = want /\ todo = <<>> /\ UNCHANGED <<table, want, todo>>
         /\ \A f \in ToSet(want) : Settled(f)
         /\ \A m \in table : ~Stray(m)
<1>1. /\ Placing /\ todo = <<>> /\ leftovers = {}
      /\ UNCHANGED <<table, want, todo>>
  BY DEF Finish, Placing, inputs
<1>2. desired = want
  BY <1>1 DEF PassInvariant, ReadsWhatIsWanted, Placing, Settling
<1>3. Dealt = ToSet(want)
  BY <1>1, <1>2, NothingIn DEF Dealt
<1> QED
  BY <1>1, <1>2, <1>3 DEF PassInvariant, PassInHand

(* One undisturbed pass is enough to bring the gateway into line, whatever  *)
(* state the settled world left it in, for a source that asks once for each *)
(* slot.  Where the gateway looks at who asks (secure mode), each forward   *)
(* must be asked for from the address it leads to.                         *)
THEOREM APassPutsInPlace ==
  ASSUME \A forwards \in Answers : OnePerSlot(forwards),
         "secure_mode" \in Quirks =>
           \A forwards \in Answers : \A f \in ToSet(forwards) :
              InternalClient(f) \in {Requester(f), NoAddress}
  PROVE  Spec => PutsInPlace
<1>1. TypeOK /\ PassInvariant => (Finish /\ Settling => InPlace)
  <2> SUFFICES ASSUME TypeOK, PassInvariant, Finish, Settling
               PROVE  InPlace
    OBVIOUS
  <2>1. ASSUME NEW f \in ToSet(want)
        PROVE  \/ Identity(f) \in Refused \/ InternalClient(f) = NoAddress
               \/ \E m \in table : Identity(m) = Identity(f) /\ Foreign(m, want)
               \/ Serves(f)
    <3>1. want \in Answers
      BY DEF TypeOK, WorldOK
    <3> QED
      BY <2>1, <3>1, FinishedPass DEF Settled, Hopeless
  <2>2. ASSUME NEW m \in table, IsOurs(m), m.client \in written \cup {HostAddress}
        PROVE  Identity(m) \in Wanted(want)
    <3>1. m.client \in Addresses /\ m.client # NoAddress
      BY NoAddressAssumption DEF TypeOK, TableOK, Mappings
    <3>2. m.client \in ManagedAddresses(want)
      BY <2>2, <3>1 DEF ManagedAddresses
    <3> QED
      BY <2>2, <3>2, FinishedPass DEF Stray
  <2> QED
    BY <2>1, <2>2 DEF InPlace
<1> QED
  BY <1>1, PassInvariantHolds, TypeCorrect, PTL DEF PutsInPlace

-----------------------------------------------------------------------------
(* After such a pass no other ever takes a row down to move it.            *)

NothingRemote == \A m \in table : ~m.remote

(* No row has to be moved for this forward. *)
Unmovable(forward) ==
  Serves(forward) \/ \A m \in RowsAt(Identity(forward)) : Foreign(m, want)

AtRest ==
  /\ Undisturbed /\ pc # "adding"
  /\ \A f \in ToSet(want) : Unmovable(f)
  /\ \A task \in ToSet(todo) : task.kind # "replace"

(* An undisturbed pass leaves nothing to move when it finishes, and from    *)
(* there on no pass takes a row down: the safety half of NoChurn.          *)
MovesAreOver ==
  /\ [][Finish /\ Settling => AtRest']_vars
  /\ [](AtRest => [](pc # "adding"))

LEMMA RestedListing ==
  ASSUME TypeOK, NothingRemote, AtRest, desired = want, List
  PROVE  \A task \in ToSet(todo') : task.kind # "replace"
<1> DEFINE options == ReconcileOptions(desired)
<1>1. PICK existing \in Existing(table) : todo' = ForwardActions(desired, existing, options)
  BY DEF List
<1>2. \A task \in ToSet(todo') : \E forward \in ToSet(want) :
        task = ForForward(forward, existing, options)
  BY <1>1 DEF ForwardActions, ForForward, ToSet
<1>3. ASSUME NEW forward \in ToSet(want),
             ForForward(forward, existing, options).kind = "replace"
      PROVE  FALSE
  <2> DEFINE row == existing[Identity(forward)]
  <2>1. Identity(forward) \in DOMAIN existing /\ KindOf(forward, row, options) = "replace"
    BY <1>3 DEF ForForward
  <2>2. row \in table /\ row \in Mappings /\ Identity(row) = Identity(forward)
    BY <2>1 DEF Existing, TypeOK, TableOK
  <2>3. /\ ~NotToTouch(row, options)
        /\ ~IsOurs(row) \/ Mismatch(forward, row)
    BY <2>1 DEF KindOf, Managed, Refresh
  <2>4. row \in RowsAt(Identity(forward)) /\ \A m \in RowsAt(Identity(forward)) : m = row
    BY <2>2 DEF RowsAt, NothingRemote, TypeOK, TableOK, OneRowEach, Mappings
  <2>5. ~Foreign(row, want)
    BY <2>3 DEF Foreign, NotToTouch, Managed, ReconcileOptions
  <2>6. ~Serves(forward)
    BY <2>3, <2>4 DEF Serves, Mismatch
  <2> QED
    BY <2>4, <2>5, <2>6 DEF AtRest, Unmovable
<1> QED
  BY <1>2, <1>3

LEMMA UnmovableByRows ==
  ASSUME NEW forward, Unmovable(forward),
         RowsAt(Identity(forward))' = RowsAt(Identity(forward)),
         \A m : Foreign(m, want)' <=> Foreign(m, want)
  PROVE  Unmovable(forward)'
  BY DEF Unmovable, Serves

LEMMA NextUnmovable ==
  ASSUME TypeOK, OnePerSlot(want), TodoWanted, LeftoversUnwanted, ReadsWhatIsWanted, AtRest,
         [Next]_vars, NEW f \in ToSet(want)
  PROVE  Unmovable(f)'
<1>1. Unmovable(f) /\ \A m : Foreign(m, want)' <=> Foreign(m, want)
  BY CalmSteps DEF AtRest
<1>2. CASE UNCHANGED table
  BY <1>1, <1>2, UnmovableByRows DEF RowsAt
<1>3. CASE Write
  <2>1. PICK forward : forward = action.forward
    OBVIOUS
  <2>2. forward \in ToSet(want)
    <3>1. pc \in {"applying", "adding"} /\ todo # <<>>
      BY <1>3 DEF Write, Writing, Applying, TypeOK, TodoOK
    <3> QED
      BY <2>1, <3>1, HeadAndTail
         DEF TodoWanted, TypeOK, TodoOK, action, ReadsWhatIsWanted, AtRest
  <2>3. CASE Identity(f) # Identity(forward)
    <3>1. RowsAt(Identity(f))' = RowsAt(Identity(f))
      BY <1>3, <2>1, <2>3, WriteTable DEF RowsAt, Without, NewMapping, Identity
    <3> QED
      BY <1>1, <3>1, UnmovableByRows
  <2>4. CASE Identity(f) = Identity(forward) /\ ~UNCHANGED table
    <3>1. want \in Seq(Forwards)
      BY ForwardsOfAnswers DEF TypeOK, WorldOK
    <3>2. f = forward
      BY <2>2, <2>4, <3>1, WantedOnce
    <3>3. Serves(f)'
      BY <1>3, <2>1, <2>4, <3>2, WriteTable, WriteServes
    <3> QED
      BY <3>3 DEF Unmovable
  <2> QED
    BY <1>2, <2>3, <2>4
<1>4. CASE ApplyLeftover
  <2>1. desired = want /\ Identity(f) \in Wanted(want)
    BY <1>4 DEF ApplyLeftover, ReadsWhatIsWanted, AtRest, Wanted, ToSet
  <2>2. PICK rest \in leftovers :
          \/ table' = table
          \/ rest.kind = "remove" /\ table' = Without(Identity(rest.mapping))
    BY <1>4 DEF ApplyLeftover, TypeOK, PassOK
  <2>3. RowsAt(Identity(f))' = RowsAt(Identity(f))
    BY <2>1, <2>2, OtherSlots DEF RowsAt, LeftoversUnwanted
  <2> QED
    BY <1>1, <2>3, UnmovableByRows
<1>5. CASE LeaseAges
  <2>1. Serves(f) => Serves(f)'
    BY <1>5, AgeingIsAlike DEF Alike, Serves, RowsAt
  <2>2. \A m, n : Alike(n, m) /\ Foreign(m, want) => Foreign(n, want)'
    <3>1. \A m, n : Alike(n, m) /\ Foreign(m, want) => Foreign(n, want)
      BY DEF Alike, Foreign
    <3> QED
      BY <1>1, <3>1
  <2>3. ASSUME \A m \in RowsAt(Identity(f)) : Foreign(m, want)
        PROVE  \A n \in RowsAt(Identity(f))' : Foreign(n, want)'
    <3> TAKE n \in RowsAt(Identity(f))'
    <3>1. PICK m \in table : Alike(n, m)
      BY <1>5, AgeingIsAlike DEF RowsAt
    <3>2. m \in RowsAt(Identity(f))
      BY <3>1 DEF Alike, RowsAt
    <3> QED
      BY <2>2, <2>3, <3>1, <3>2
  <2> QED
    BY <1>1, <2>1, <2>3 DEF Unmovable
<1>6. CASE LeaseExpires
  <2>1. PICK m \in table : table' = table \ {m}
    BY <1>6 DEF LeaseExpires, TableChanges
  <2>2. \A n \in RowsAt(Identity(f))' : n \in RowsAt(Identity(f)) /\ n # m
    BY <2>1 DEF RowsAt
  <2>3. CASE \A n \in RowsAt(Identity(f)) : Foreign(n, want)
    BY <1>1, <2>2, <2>3 DEF Unmovable
  <2>4. CASE Serves(f)
    <3>1. PICK n \in RowsAt(Identity(f)) :
            IsOurs(n) /\ n.port = f.port /\ f.client \in {n.client, NoAddress}
      BY <2>4 DEF Serves
    <3>2. CASE n = m
      <4>1. RowsAt(Identity(f))' = {}
        BY <2>2, <3>1, <3>2 DEF RowsAt, TypeOK, TableOK, OneRowEach, Mappings
      <4> QED
        BY <4>1 DEF Unmovable
    <3>3. CASE n # m
      BY <2>1, <3>1, <3>3 DEF Unmovable, Serves, RowsAt
    <3> QED
      BY <3>2, <3>3
  <2> QED
    BY <1>1, <2>3, <2>4 DEF Unmovable
<1>7. ~RemoveToMove
  BY HeadAndTail DEF RemoveToMove, Applying, AtRest, TypeOK, TodoOK, action
<1>8. ~OthersChange /\ ~Reboot
  BY DEF OthersChange, Reboot, AtRest, Undisturbed
<1>9. UNCHANGED table \/ Write \/ ApplyLeftover \/ LeaseAges \/ LeaseExpires
  BY <1>7, <1>8 DEF Next, Step, World, Begin, ReadDesired, List, ApplyQuietly, WriteNowhere,
        Finish, ReadFails, Cleanup, Stop, Restart, Settle, WantChanges, vars
<1> QED
  BY <1>2, <1>3, <1>4, <1>5, <1>6, <1>9

LEMMA NextAtRest ==
  ASSUME TypeOK, OnePerSlot(want), TodoWanted, LeftoversUnwanted, ReadsWhatIsWanted,
         NothingRemote, AtRest, [Next]_vars
  PROVE  AtRest'
<1>1. Undisturbed' /\ UNCHANGED want
  BY CalmSteps DEF AtRest
<1>2. \A f \in ToSet(want) : Unmovable(f)'
  BY NextUnmovable
<1>3. ~RemoveToMove /\ ~Stop /\ ~Restart
  BY HeadAndTail DEF RemoveToMove, Applying, Stop, Restart, AtRest, Undisturbed, TypeOK, TodoOK,
                     action
<1>4. pc' # "adding"
  BY <1>3 DEF Next, Step, World, Begin, ReadDesired, List, ApplyQuietly, WriteNowhere, Write, Done,
        ApplyLeftover, Finish, EndPass, ReadFails, Cleanup, Settle, WantChanges, OthersChange,
        Reboot, LeaseAges, LeaseExpires, TableChanges, program, vars, AtRest
<1>5. \A task \in ToSet(todo') : task.kind # "replace"
  <2>1. CASE List
    BY <2>1, RestedListing DEF AtRest, ReadsWhatIsWanted, List
  <2>2. CASE ~List
    <3>1. todo' = todo \/ (todo # <<>> /\ todo' = Tail(todo))
      BY <1>3, <2>2
         DEF Next, Step, World, Begin, ReadDesired, ApplyQuietly, WriteNowhere, Write, Writing,
             Applying, Done, ApplyLeftover, Finish, ReadFails, Cleanup, Settle, WantChanges,
             OthersChange, Reboot, LeaseAges, LeaseExpires, TableChanges, program, vars,
             TypeOK, TodoOK
    <3> QED
      BY <3>1, HeadAndTail DEF AtRest, TypeOK, TodoOK
  <2> QED
    BY <2>1, <2>2
<1> QED
  BY <1>1, <1>2, <1>4, <1>5 DEF AtRest

(* One undisturbed pass is enough to put an end to moving rows, for a source *)
(* that asks once for each slot (MCDaemon_churn shows what happens if not), *)
(* on a gateway where no row names a RemoteHost.                           *)
THEOREM MovesComeToAnEnd ==
  ASSUME \A forwards \in Answers : OnePerSlot(forwards),
         \A rows \in Tables : \A m \in rows : ~m.remote,
         "tool" \notin Faults \/ \A m \in Others : ~m.remote
  PROVE  Spec => MovesAreOver
<1>1. Init => NothingRemote
  BY DEF Init, NothingRemote
<1>2. TypeOK /\ NothingRemote /\ [Next]_vars => NothingRemote'
  BY NextRemotes DEF NothingRemote
<1>3. TypeOK => OnePerSlot(want)
  BY DEF TypeOK, WorldOK
<1>4. TypeOK /\ PassInvariant /\ NothingRemote /\ AtRest /\ [Next]_vars => AtRest'
  BY <1>3, NextAtRest DEF PassInvariant
<1>5. TypeOK /\ PassInvariant /\ NothingRemote => (Finish /\ Settling => AtRest')
  <2> SUFFICES ASSUME TypeOK, PassInvariant, NothingRemote, Finish, Settling
               PROVE  AtRest'
    OBVIOUS
  <2>1. /\ UNCHANGED <<table, want, todo>> /\ todo = <<>> /\ \A f \in ToSet(want) : Settled(f)
    BY FinishedPass
  <2>2. Undisturbed' /\ \A m : Foreign(m, want)' <=> Foreign(m, want)
    BY CalmSteps DEF PassInvariant, Settling, Next, Step
  <2>3. ASSUME NEW f \in ToSet(want)
        PROVE  Unmovable(f)
    <3>1. CASE \E m \in table : Identity(m) = Identity(f) /\ Foreign(m, want)
      BY <3>1 DEF Unmovable, RowsAt, NothingRemote, TypeOK, TableOK, OneRowEach, Mappings
    <3> QED
      BY <2>1, <3>1 DEF Settled, Unmovable
  <2>4. \A f \in ToSet(want) : Unmovable(f)'
    BY <2>1, <2>2, <2>3, UnmovableByRows DEF RowsAt
  <2>5. pc' # "adding"
    BY DEF Finish, EndPass
  <2> QED
    BY <2>1, <2>2, <2>4, <2>5, NothingIn DEF AtRest
<1>6. AtRest => pc # "adding"
  BY DEF AtRest
<1> QED
  BY <1>1, <1>2, <1>4, <1>5, <1>6, PassInvariantHolds, TypeCorrect, PTL DEF Spec, MovesAreOver

-----------------------------------------------------------------------------
(* And what it has put in place stays there, though leases keep running     *)
(* down: a row is rewritten by the pass that finds it close to expiry, and  *)
(* a row that was not rewritten is not one that was found so.              *)

(* The gateway takes a row for this forward, whose address is known. *)
Placeable(forward) ==
  /\ forward.client # NoAddress /\ Identity(forward) \notin Refused
  /\ "secure_mode" \in Quirks => forward.client = Requester(forward)

KeptBy(mapping, forward) ==
  /\ IsOurs(mapping) /\ Identity(mapping) = Identity(forward)
  /\ mapping.port = forward.port /\ mapping.client = forward.client

(* Whatever row of its own was found close to expiry is about to be renewed. *)
Renewing(forward) ==
  \A m \in noticed : KeptBy(m, forward) =>
    /\ m \in table /\ pc \in {"applying", "adding"}
    /\ \E task \in ToSet(todo) : task.kind = "renew" /\ task.forward = forward

Held(forward) ==
  /\ Settling /\ forward \in ToSet(want) /\ Placeable(forward)
  /\ Serves(forward) /\ Renewing(forward)
  /\ \A task \in ToSet(todo) : task.forward = forward => task.kind \in {"keep", "renew"}

RenewalsInHand ==
  /\ \A m \in noticed : m.lease = "short"
  /\ Placing => \A f \in ToSet(want) : Placeable(f) => Renewing(f)

(* A forward that is in place when an undisturbed pass finishes is served   *)
(* from then on, for ever, if the gateway accepts it and its address is     *)
(* known: the safety half of Converges.                                    *)
PlacedForGood ==
  /\ [][Finish /\ Settling =>
          \A f \in ToSet(want) : Placeable(f) /\ Serves(f) => Held(f)']_vars
  /\ \A f \in Forwards : [](Held(f) => []Serves(f))

LEMMA ServedIsKept ==
  ASSUME TypeOK, NEW forward, forward.client # NoAddress
  PROVE  Serves(forward) <=> \E m \in table : KeptBy(m, forward)
  BY DEF Serves, KeptBy, RowsAt, TypeOK, TableOK, Mappings, IsOurs

LEMMA OneKeeps ==
  ASSUME TypeOK, NEW forward, NEW m \in table, KeptBy(m, forward)
  PROVE  m \in RowsAt(Identity(forward)) /\ \A n \in RowsAt(Identity(forward)) : n = m
  BY DEF KeptBy, RowsAt, TypeOK, TableOK, OneRowEach, Mappings, IsOurs

LEMMA NextNoticed ==
  ASSUME RenewalsInHand, [Next]_vars
  PROVE  /\ \A m \in noticed' : m.lease = "short"
         /\ ~List => noticed' \subseteq noticed
<1>1. CASE List
  BY <1>1 DEF List, Expiring
<1>2. CASE ~List
  <2>1. noticed' \subseteq noticed
    BY <1>2 DEF Next, Step, World, Begin, ReadDesired, ApplyQuietly, RemoveToMove, WriteNowhere,
          Write, ApplyLeftover, Finish, ReadFails, Cleanup, Stop, Restart, Settle, WantChanges,
          OthersChange, Reboot, LeaseAges, LeaseExpires, TableChanges, vars, history
  <2> QED
    BY <1>2, <2>1 DEF RenewalsInHand
<1> QED
  BY <1>1, <1>2

(* A listing finds the row that serves a forward, and keeps or renews it. *)
LEMMA ListRenews ==
  ASSUME TypeOK, NothingRemote, Undisturbed, desired = want, List,
         NEW f \in ToSet(want), Placeable(f)
  PROVE  /\ Renewing(f)'
         /\ Serves(f) => \A task \in ToSet(todo') :
              task.forward = f => task.kind \in {"keep", "renew"}
<1> DEFINE options == ReconcileOptions(desired)
<1>1. PICK existing \in Existing(table) : todo' = ForwardActions(desired, existing, options)
  BY DEF List
<1>2. /\ \A task \in ToSet(todo') : \E forward :
           task = ForForward(forward, existing, options) /\ task.forward = forward
      /\ ForForward(f, existing, options) \in ToSet(todo')
  BY <1>1 DEF ForwardActions, ForForward, ToSet
<1>3. ASSUME NEW m \in table, KeptBy(m, f)
      PROVE  /\ ForForward(f, existing, options).kind \in {"keep", "renew"}
             /\ Expiring(m) => ForForward(f, existing, options).kind = "renew"
  <2>1. Identity(f) \in DOMAIN existing
    BY <1>3 DEF Existing, KeptBy
  <2>2. existing[Identity(f)] = m
    <3>1. existing[Identity(f)] \in RowsAt(Identity(f))
      BY <2>1 DEF Existing, RowsAt, NothingRemote
    <3> QED
      BY <1>3, <3>1, OneKeeps
  <2>3. m.client \in options.managed
    <3>1. m.client = f.client /\ m.client \in Addresses /\ f.client # NoAddress
      BY <1>3 DEF KeptBy, TypeOK, TableOK, Mappings, Placeable
    <3> QED
      BY <3>1 DEF ReconcileOptions, ManagedAddresses
  <2>4. IsOurs(m) /\ ~Mismatch(f, m)
    BY <1>3 DEF KeptBy, Mismatch
  <2>5. KindOf(f, m, options) = Refresh(m, options)
    BY <2>3, <2>4 DEF KindOf, NotToTouch, Managed
  <2> QED
    BY <2>1, <2>2, <2>5 DEF ForForward, Refresh
<1>4. Renewing(f)'
  <2> SUFFICES ASSUME NEW m \in noticed', KeptBy(m, f)
               PROVE  /\ m \in table' /\ pc' \in {"applying", "adding"}
                      /\ \E task \in ToSet(todo') : task.kind = "renew" /\ task.forward = f
    BY DEF Renewing
  <2>1. m \in table /\ Expiring(m) /\ table' = table /\ pc' = "applying"
    BY DEF List
  <2>2. ForForward(f, existing, options).forward = f
    BY DEF ForForward
  <2> QED
    BY <1>2, <1>3, <2>1, <2>2
<1>5. ASSUME Serves(f), NEW task \in ToSet(todo'), task.forward = f
      PROVE  task.kind \in {"keep", "renew"}
  <2>1. task = ForForward(f, existing, options)
    BY <1>2, <1>5
  <2>2. PICK m \in table : KeptBy(m, f)
    BY <1>5, ServedIsKept DEF Placeable
  <2> QED
    BY <1>3, <2>1, <2>2
<1> QED
  BY <1>4, <1>5

(* The renewal itself is served. *)
LEMMA RenewalServed ==
  ASSUME TypeOK, Settling, Write, NEW f, f = action.forward, Placeable(f),
         NEW m \in table, KeptBy(m, f)
  PROVE  m \notin noticed'
<1> DEFINE new == NewMapping(f)
<1>1. PICK outcome \in Outcomes(Accepts(Requester(f), new)) :
        outcome # "unserved" => noticed' = noticed \ RowsAt(new.slot)
  BY DEF Write
<1>2. /\ new.slot = Identity(f) /\ Identity(new) = Identity(f) /\ new.port = f.port
      /\ new.client = f.client
  BY DEF NewMapping, Identity, InternalClient, Placeable
<1>3. Accepts(Requester(f), new)
  <2>1. \A n \in RowsAt(Identity(f)) : n.client = f.client /\ n.port = f.port
    BY OneKeeps DEF KeptBy
  <2> QED
    BY <1>2, <2>1 DEF Accepts, Placeable
<1>4. outcome = "done"
  BY <1>1, <1>3, CalmOutcomes DEF Settling, Undisturbed
<1> QED
  BY <1>1, <1>2, <1>4, OneKeeps

LEMMA RenewingGoesOn ==
  ASSUME TypeOK, OneTaskEach, ReadsWhatIsWanted, TodoWanted, RenewalsInHand, Settling,
         NEW f \in ToSet(want), Placeable(f), Renewing(f), [Next]_vars, ~List
  PROVE  Renewing(f)'
<1> SUFFICES ASSUME NEW m \in noticed', KeptBy(m, f)
             PROVE  /\ m \in table' /\ pc' \in {"applying", "adding"}
                    /\ \E task \in ToSet(todo') : task.kind = "renew" /\ task.forward = f
  BY DEF Renewing
<1>1. m \in noticed /\ m.lease = "short"
  BY NextNoticed DEF RenewalsInHand
<1>2. m \in table /\ pc \in {"applying", "adding"}
  BY <1>1 DEF Renewing
<1>3. PICK task \in ToSet(todo) : task.kind = "renew" /\ task.forward = f
  BY <1>1 DEF Renewing
<1>4. todo # <<>>
  BY <1>3, NothingIn
<1>5. CASE LeaseAges
  BY <1>1, <1>2, <1>3, <1>5, AgeingIsAlike DEF LeaseAges, program
<1>6. CASE ApplyQuietly \/ RemoveToMove \/ WriteNowhere \/ Write
  <2>1. /\ pc' \in {"applying", "adding"} /\ todo' \in {todo, Tail(todo)}
        /\ pc = "adding" => action.kind = "replace"
    BY <1>6 DEF ApplyQuietly, RemoveToMove, WriteNowhere, Write, Done, TypeOK, TodoOK
  <2>2. PICK forward : forward = action.forward
    OBVIOUS
  <2>3. action # task
    <3> SUFFICES ASSUME action = task PROVE FALSE
      OBVIOUS
    <3>1. ~ApplyQuietly /\ ~RemoveToMove
      BY <1>3 DEF ApplyQuietly, RemoveToMove, Applying, Settling
    <3>2. ~WriteNowhere
      BY <1>3 DEF WriteNowhere, InternalClient, Placeable
    <3> QED
      BY <1>2, <1>3, <1>6, <3>1, <3>2, RenewalServed
  <2>4. ToSet(todo) \subseteq {action} \cup ToSet(Tail(todo)) /\ action \in ToSet(todo)
    BY <1>4, HeadOrTail, HeadAndTail DEF TypeOK, TodoOK, action
  <2>5. task \in ToSet(todo')
    BY <1>3, <2>1, <2>3, <2>4
  <2>6. Identity(action.forward) # Identity(f)
    BY <1>3, <2>3, <2>4 DEF OneTaskEach, ToSet
  <2>7. \/ table' = table \/ table' = Without(Identity(forward))
        \/ table' = Without(Identity(forward)) \cup {NewMapping(forward)}
    BY <1>6, <2>2, WriteTable DEF ApplyQuietly, RemoveToMove, WriteNowhere
  <2>8. m \in table'
    BY <1>2, <2>2, <2>6, <2>7 DEF Without, RowsAt, KeptBy
  <2> QED
    BY <1>3, <2>1, <2>5, <2>8
<1>7. ~Begin /\ ~ReadDesired /\ ~ApplyLeftover /\ ~Finish
  BY <1>2, <1>4 DEF Begin, ReadDesired, ApplyLeftover, Finish
<1>8. ~ReadFails /\ ~Cleanup /\ ~Stop /\ ~Restart /\ ~Settle /\ ~WantChanges /\ ~OthersChange
        /\ ~Reboot
  BY DEF ReadFails, Cleanup, Stop, Restart, Settle, WantChanges, OthersChange, Reboot, Settling,
         Undisturbed
<1>9. ~LeaseExpires
  BY <1>2 DEF LeaseExpires, Settling, Undisturbed
<1>10. CASE UNCHANGED vars
  BY <1>2, <1>3, <1>10 DEF vars, program
<1> QED
  BY <1>5, <1>6, <1>7, <1>8, <1>9, <1>10 DEF Next, Step, World

(* A pass that applies what it decided went through the listing. *)
LEMMA PlacingGoesOn ==
  ASSUME TypeOK, Placing', [Next]_vars, ~List
  PROVE  Placing /\ want' = want
<1> USE DEF Placing, Settling, Undisturbed
<1>1. ~Begin /\ ~ReadDesired /\ ~Finish /\ ~ReadFails /\ ~Cleanup /\ ~Stop /\ ~Restart
  BY DEF Begin, ReadDesired, Finish, ReadFails, EndPass, Cleanup, Stop, Restart
<1>2. CASE Settle
  BY <1>2 DEF Settle, program
<1>3. CASE ApplyQuietly \/ RemoveToMove \/ WriteNowhere \/ Write \/ ApplyLeftover
  <2>1. UNCHANGED <<want, flags, calm, cleaning>>
    BY <1>3 DEF ApplyQuietly, RemoveToMove, WriteNowhere, Write, ApplyLeftover, inputs
  <2>2. pc \in {"applying", "adding"}
    BY <1>3 DEF ApplyQuietly, RemoveToMove, WriteNowhere, Write, Writing, Applying, ApplyLeftover
  <2> QED
    BY <2>1, <2>2
<1>4. CASE World \/ UNCHANGED vars
  <2>1. UNCHANGED <<pc, flags, calm, cleaning>> /\ (~calm \/ want' = want)
    BY <1>4 DEF World, WantChanges, OthersChange, Reboot, LeaseAges, LeaseExpires, TableChanges,
                program, vars
  <2> QED
    BY <2>1
<1> QED
  BY <1>1, <1>2, <1>3, <1>4 DEF Next, Step

LEMMA NextRenewalsInHand ==
  ASSUME TypeOK, NothingRemote, OneTaskEach, ReadsWhatIsWanted, TodoWanted, RenewalsInHand,
         [Next]_vars
  PROVE  RenewalsInHand'
<1> SUFFICES ASSUME Placing', NEW f \in ToSet(want'), Placeable(f)
             PROVE  Renewing(f)'
  <2>1. \A f : Placeable(f)' <=> Placeable(f)
    BY DEF Placeable, Requester
  <2> QED
    BY <2>1, NextNoticed DEF RenewalsInHand
<1>1. CASE List
  <2>1. /\ UNCHANGED <<want, flags, calm, cleaning, desired>> /\ pc = "listing"
    BY <1>1 DEF List, inputs
  <2>2. Undisturbed /\ desired = want
    BY <2>1 DEF Placing, Settling, Undisturbed, ReadsWhatIsWanted
  <2> QED
    BY <1>1, <2>1, <2>2, ListRenews
<1>2. CASE ~List
  <2>1. Placing /\ want' = want
    BY <1>2, PlacingGoesOn
  <2> QED
    BY <1>2, <2>1, RenewingGoesOn DEF RenewalsInHand, Placing
<1> QED
  BY <1>1, <1>2

LEMMA HeldServes ==
  ASSUME TypeOK, OnePerSlot(want), TodoWanted, LeftoversUnwanted, ReadsWhatIsWanted,
         NEW f, Held(f), [Next]_vars
  PROVE  Serves(f)'
<1>1. Serves(f) /\ f \in ToSet(want) /\ Undisturbed /\ f.client # NoAddress
  BY DEF Held, Settling, Placeable
<1>2. CASE UNCHANGED table
  BY <1>1, <1>2, ServesByRows DEF RowsAt
<1>3. CASE RemoveToMove \/ Write
  <2>1. PICK forward : forward = action.forward
    OBVIOUS
  <2>2. pc \in {"applying", "adding"} /\ todo # <<>>
    BY <1>3 DEF RemoveToMove, Write, Writing, Applying, TypeOK, TodoOK
  <2>3. action \in ToSet(todo) /\ forward \in ToSet(want)
    BY <1>1, <2>1, <2>2, HeadAndTail
       DEF TodoWanted, TypeOK, TodoOK, action, ReadsWhatIsWanted
  <2>4. CASE Identity(forward) # Identity(f)
    <3>1. \/ table' = table \/ table' = Without(Identity(forward))
          \/ table' = Without(Identity(forward)) \cup {NewMapping(forward)}
      BY <1>3, <2>1, WriteTable DEF RemoveToMove
    <3>2. RowsAt(Identity(f))' = RowsAt(Identity(f))
      BY <2>4, <3>1 DEF RowsAt, Without, NewMapping, Identity
    <3> QED
      BY <1>1, <3>2, ServesByRows
  <2>5. CASE Identity(forward) = Identity(f) /\ ~UNCHANGED table
    <3>1. want \in Seq(Forwards)
      BY ForwardsOfAnswers DEF TypeOK, WorldOK
    <3>2. f = forward
      BY <1>1, <2>3, <2>5, <3>1, WantedOnce
    <3>3. ~RemoveToMove
      BY <2>1, <2>3, <3>2 DEF Held, RemoveToMove, Applying
    <3> QED
      BY <1>3, <2>1, <2>5, <3>2, <3>3, WriteTable, WriteServes
  <2> QED
    BY <1>2, <2>4, <2>5
<1>4. CASE ApplyLeftover
  <2>1. desired = want /\ Identity(f) \in Wanted(want)
    BY <1>1, <1>4 DEF ApplyLeftover, ReadsWhatIsWanted, Wanted, ToSet
  <2>2. PICK rest \in leftovers :
          \/ table' = table
          \/ rest.kind = "remove" /\ table' = Without(Identity(rest.mapping))
    BY <1>4 DEF ApplyLeftover, TypeOK, PassOK
  <2>3. RowsAt(Identity(f))' = RowsAt(Identity(f))
    BY <2>1, <2>2, OtherSlots DEF RowsAt, LeftoversUnwanted
  <2> QED
    BY <1>1, <2>3, ServesByRows
<1>5. CASE LeaseAges
  BY <1>1, <1>5, AgeingIsAlike DEF Alike, Serves, RowsAt
<1>6. CASE LeaseExpires
  <2>1. PICK m \in noticed : pc = "idle" /\ table' = table \ {m}
    BY <1>1, <1>6 DEF LeaseExpires, TableChanges, Undisturbed
  <2>2. ~KeptBy(m, f)
    BY <2>1 DEF Held, Renewing
  <2>3. PICK n \in table : KeptBy(n, f)
    BY <1>1, ServedIsKept
  <2>4. n \in RowsAt(Identity(f))'
    BY <2>1, <2>2, <2>3, OneKeeps DEF RowsAt
  <2> QED
    BY <2>3, <2>4 DEF Serves, KeptBy
<1>7. ~OthersChange /\ ~Reboot
  BY <1>1 DEF OthersChange, Reboot, Undisturbed
<1>8. UNCHANGED table \/ RemoveToMove \/ Write \/ ApplyLeftover \/ LeaseAges \/ LeaseExpires
  BY <1>7 DEF Next, Step, World, Begin, ReadDesired, List, ApplyQuietly, WriteNowhere, Finish,
        ReadFails, Cleanup, Stop, Restart, Settle, WantChanges, vars
<1> QED
  BY <1>2, <1>3, <1>4, <1>5, <1>6, <1>8

LEMMA HeldGoesOn ==
  ASSUME TypeOK, OnePerSlot(want), PassInvariant, NothingRemote, RenewalsInHand, NEW f, Held(f),
         [Next]_vars
  PROVE  Held(f)'
<1>1. /\ Undisturbed /\ f \in ToSet(want) /\ Placeable(f) /\ Settling
      /\ TodoWanted /\ OneTaskEach /\ LeftoversUnwanted /\ ReadsWhatIsWanted
  BY DEF Held, Settling, PassInvariant
<1>2. Settling' /\ f \in ToSet(want') /\ Placeable(f)'
  BY <1>1, CalmSteps DEF Settling, Placeable, Requester
<1>3. Serves(f)'
  BY <1>1, HeldServes
<1>4. CASE List
  <2>1. desired = want
    BY <1>1, <1>4 DEF List, ReadsWhatIsWanted
  <2> QED
    BY <1>1, <1>2, <1>3, <1>4, <2>1, ListRenews DEF Held
<1>5. CASE ~List
  <2>1. Renewing(f)'
    BY <1>1, <1>5, RenewingGoesOn DEF Held
  <2>2. todo' \in {todo, <<>>} \/ (todo # <<>> /\ todo' = Tail(todo))
    BY <1>5
       DEF Next, Step, World, Begin, ReadDesired, ApplyQuietly, RemoveToMove, WriteNowhere, Write,
           Writing, Applying, Done, ApplyLeftover, Finish, ReadFails, Cleanup, Stop, Restart,
           Settle, WantChanges, OthersChange, Reboot, LeaseAges, LeaseExpires, TableChanges,
           program, vars, TypeOK, TodoOK
  <2>3. ToSet(todo') \subseteq ToSet(todo)
    BY <2>2, HeadAndTail, NothingIn DEF TypeOK, TodoOK
  <2> QED
    BY <1>2, <1>3, <2>1, <2>3 DEF Held
<1> QED
  BY <1>4, <1>5

(* Renewals come in time: no lease of a row that an undisturbed pass put or  *)
(* found in place ever runs out, and no later pass interrupts it, under the *)
(* same assumptions.                                                       *)
THEOREM WhatIsPlacedStays ==
  ASSUME \A forwards \in Answers : OnePerSlot(forwards),
         \A rows \in Tables : \A m \in rows : ~m.remote,
         "tool" \notin Faults \/ \A m \in Others : ~m.remote
  PROVE  Spec => PlacedForGood
<1> DEFINE Inv == PassInvariant /\ NothingRemote /\ RenewalsInHand
<1>1. Init => NothingRemote /\ RenewalsInHand
  BY DEF Init, NothingRemote, RenewalsInHand, Placing
<1>2. TypeOK => OnePerSlot(want)
  BY DEF TypeOK, WorldOK
<1>3. TypeOK /\ PassInvariant /\ NothingRemote /\ RenewalsInHand /\ [Next]_vars
        => NothingRemote' /\ RenewalsInHand'
  BY NextRemotes, NextRenewalsInHand DEF NothingRemote, PassInvariant
<1>4. TypeOK /\ Inv /\ Finish /\ Settling =>
        \A f \in ToSet(want) : Placeable(f) /\ Serves(f) => Held(f)'
  <2> SUFFICES ASSUME TypeOK, Inv, Finish, Settling,
                      NEW f \in ToSet(want), Placeable(f), Serves(f)
               PROVE  Held(f)'
    OBVIOUS
  <2>1. UNCHANGED <<table, want, todo, noticed>> /\ todo = <<>>
    BY FinishedPass DEF Finish
  <2>2. Settling'
    BY CalmSteps DEF PassInvariant, Settling, Next, Step
  <2>3. \A m \in noticed : ~KeptBy(m, f)
    BY <2>1, NothingIn DEF RenewalsInHand, Renewing, Placing, Finish
  <2>4. Serves(f)' /\ Placeable(f)' /\ Renewing(f)'
    BY <2>1, <2>3 DEF Serves, RowsAt, Placeable, Requester, Renewing
  <2> QED
    BY <2>1, <2>2, <2>4, NothingIn DEF Held
<1>5. ASSUME NEW f \in Forwards
      PROVE  Spec => [](Held(f) => []Serves(f))
  <2>1. TypeOK /\ Inv /\ Held(f) /\ [Next]_vars => Held(f)'
    BY <1>2, HeldGoesOn
  <2>2. Held(f) => Serves(f)
    BY DEF Held
  <2> QED
    BY <1>1, <1>3, <2>1, <2>2, PassInvariantHolds, TypeCorrect, PTL DEF Spec
<1>6. Spec => [][Finish /\ Settling =>
                  \A f \in ToSet(want) : Placeable(f) /\ Serves(f) => Held(f)']_vars
  BY <1>1, <1>3, <1>4, PassInvariantHolds, TypeCorrect, PTL DEF Spec
<1> QED
  BY <1>5, <1>6 DEF PlacedForGood
==============================================================================
