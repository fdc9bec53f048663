------------------------------- MODULE MCHosts --------------------------------
(* Two hosts small enough for TLC. *)
EXTENDS Hosts

F(slot, port, target, client) ==
  [slot |-> slot, port |-> port, target |-> target, client |-> client]
M(slot, port, client, ours, lease) ==
  [slot |-> slot, port |-> port, client |-> client, ours |-> ours,
   lease |-> lease, remote |-> FALSE]

(* This host, a container of its own on the LAN, and the other host. *)
MCAddresses == {"host", "macvlan", "elsewhere"}

WebMoved == F("web", 81, "host", "host")
Game     == F("game", 80, "container", "macvlan")
WebToo   == F("web", 80, "host", "elsewhere")

MCAnswers == {<<WebMoved>>, <<Game>>}
MCOtherAnswers == {<<WebToo>>}

ToolRow == M("web", 80, "host", FALSE, "forever")
OldRow  == M("web", 80, "host", TRUE, "short")
MCOthers == {ToolRow}
MCTables == {{OldRow}}

Plain == [manageAll |-> FALSE, force |-> FALSE, steal |-> FALSE, dryRun |-> FALSE]
PlainOnly == {Plain}
==============================================================================
