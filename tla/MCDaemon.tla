------------------------------ MODULE MCDaemon -------------------------------
(* Instances of Daemon small enough for TLC. *)
EXTENDS Daemon

F(slot, port, target, client) ==
  [slot |-> slot, port |-> port, target |-> target, client |-> client]
M(slot, port, client, ours, lease) ==
  [slot |-> slot, port |-> port, client |-> client, ours |-> ours,
   lease |-> lease, remote |-> FALSE]

(* Addresses: this host, a container of its own on the LAN, somewhere else. *)
MCAddresses == {"host", "macvlan", "elsewhere"}

(* Where this host's own address is not known only such a container has    *)
(* one.  Dns asks for a slot the gateway never accepts; Vague is a forward *)
(* whose address the source does not know, NoAddress.                      *)
Dns         == F("dns", 80, "container", "macvlan")
Lan         == F("web", 80, "container", "macvlan")
LanMoved    == F("web", 81, "container", "macvlan")
Game        == F("game", 80, "container", "macvlan")
Vague       == F("game", 80, "host", "nowhere")
HardAnswers == {<<>>, <<Dns, LanMoved, Game>>, <<Vague, Lan>>}

(* The table: empty, or with the row of an earlier run, about to expire. *)
OldRow     == M("web", 80, "macvlan", TRUE, "short")
HardTables == {{}, {OldRow}}

ToolRow   == M("web", 80, "host", FALSE, "forever")
FewOthers == {ToolRow}

(* The flags: none; none, or every one that takes rules over, or --dry-run. *)
Plain == [manageAll |-> FALSE, force |-> FALSE, steal |-> FALSE, dryRun |-> FALSE]
PlainOnly == {Plain}
AnyFlags == {Plain, [Plain EXCEPT !.dryRun = TRUE],
             [manageAll |-> TRUE, force |-> TRUE, steal |-> TRUE, dryRun |-> FALSE]}

(* Two containers on the host asking for one slot. *)
ClashingAnswers == {<<F("web", 80, "host", "host"), F("web", 81, "host", "host")>>}
EmptyTables == {{}}
==============================================================================
