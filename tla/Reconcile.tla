------------------------------ MODULE Reconcile ------------------------------
(***************************************************************************)
(* What a pass decides (internal/reconcile) in the vocabulary it decides   *)
(* it in (internal/model): which action each wanted forward needs, and     *)
(* what becomes of the mappings nothing asks for.  Everything here is      *)
(* pure; module Daemon carries the decisions out.                          *)
(*                                                                         *)
(* A slot is a (protocol, external port) pair.  A description is reduced   *)
(* to whether it starts with "portical:", a lease to whether it never ends *)
(* ("forever"), ends beyond RenewWithin ("long") or within it ("short").   *)
(* The listing is a set of rows: its order is the gateway's own affair,    *)
(* and matters to the code in one place only (see Existing).               *)
(***************************************************************************)
EXTENDS Naturals, Sequences, FiniteSets

CONSTANTS Slots,      \* the external ports, each with its protocol
          Ports,      \* internal ports
          Addresses,  \* addresses on the LAN
          NoAddress   \* the address that could not be worked out, ""

ASSUME NoAddressAssumption == NoAddress \notin Addresses

(* model.Identity: RemoteHost plays no part in it. *)
Identity(rule) == rule.slot

(* model.DesiredForward; the address is NoAddress when it is unknown. *)
Forwards == [slot: Slots, port: Ports, target: {"host", "container"},
             client: Addresses \cup {NoAddress}]

Leases == {"forever", "long", "short"}

(* model.Mapping.  remote is whether the row names a RemoteHost, which no   *)
(* row of Portical's does.                                                 *)
Mappings ==
  {m \in [slot: Slots, port: Ports, client: Addresses, ours: BOOLEAN,
          lease: Leases, remote: BOOLEAN] : m.ours => ~m.remote}

IsOurs(mapping) == mapping.ours

-----------------------------------------------------------------------------
Wanted(desired) == {Identity(desired[i]) : i \in DOMAIN desired}

(* The map from identity to mapping Reconcile looks forwards up in.  Of two  *)
(* rows with one identity the one the gateway lists last is kept.            *)
Existing(rows) ==
  {existing \in [{Identity(m) : m \in rows} -> rows] :
     \A s \in DOMAIN existing : Identity(existing[s]) = s}

(* Wrong: a Portical's rows are every Portical's. *)
Managed_AnyPortical(mapping, options) == IsOurs(mapping)

(* A row this Portical may move, renew or remove.  options is               *)
(* reconcile.Options, whose ManagedAddresses of nil, "manage everything",  *)
(* is managed = Addresses here.                                            *)
Managed(mapping, options) ==
  IsOurs(mapping) /\ mapping.client \in options.managed

(* Wrong: an address that could not be worked out is compared all the same. *)
Mismatch_UnknownCompared(forward, mapping) ==
  mapping.port # forward.port \/ mapping.client # forward.client

Mismatch(forward, mapping) ==
  \/ mapping.port # forward.port
  \/ forward.client # NoAddress /\ mapping.client # forward.client

Expiring(mapping) == mapping.lease = "short"

-----------------------------------------------------------------------------
(* Wrong: the description alone decides ownership. *)
NotToTouch_AnyPortical(mapping, options) == ~IsOurs(mapping) /\ ~options.steal

(* A row Reconcile reports and leaves: another Portical's, or another     *)
(* tool's when not told to steal.                                          *)
NotToTouch(mapping, options) ==
  IF IsOurs(mapping) THEN ~Managed(mapping, options) ELSE ~options.steal

(* Wrong: a renewal deletes first. *)
Refresh_ByReplacing(mapping, options) ==
  IF options.force \/ Expiring(mapping) THEN "replace" ELSE "keep"

(* Wrong: leases are left to run out. *)
Refresh_Never(mapping, options) == IF options.force THEN "renew" ELSE "keep"

(* A row that points the right way is rewritten in place, if at all. *)
Refresh(mapping, options) ==
  IF options.force \/ Expiring(mapping) THEN "renew" ELSE "keep"

(* The action for one forward, given the row found for its identity. *)
KindOf(forward, mapping, options) ==
  IF NotToTouch(mapping, options) THEN "conflict"
  ELSE IF \/ ~IsOurs(mapping) /\ options.steal
          \/ Managed(mapping, options) /\ Mismatch(forward, mapping)
       THEN "replace"
  ELSE Refresh(mapping, options)

ForForward(forward, existing, options) ==
  [kind |-> IF Identity(forward) \notin DOMAIN existing THEN "add"
            ELSE KindOf(forward, existing[Identity(forward)], options),
   forward |-> forward]

(* The first half of Reconcile: one action for each forward, in its order. *)
ForwardActions(desired, existing, options) ==
  [i \in DOMAIN desired |-> ForForward(desired[i], existing, options)]

(* Wrong: any Portical's row that nothing asks for is removed. *)
LeftoverActions_AnyPortical(desired, rows, options) ==
  {[kind |-> "remove", mapping |-> m] :
     m \in {m \in rows : IsOurs(m) /\ Identity(m) \notin Wanted(desired)}}

(* The second half: every row of ours that nothing asks for. *)
LeftoverActions(desired, rows, options) ==
  {[kind |-> IF Managed(m, options) THEN "remove" ELSE "orphan", mapping |-> m] :
     m \in {m \in rows : IsOurs(m) /\ Identity(m) \notin Wanted(desired)}}
==============================================================================
