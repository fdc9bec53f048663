------------------------------ MODULE MCListing ------------------------------
(* An instance of Listing small enough for TLC. *)
EXTENDS Listing

M(slot, port, client, ours) ==
  [slot |-> slot, port |-> port, client |-> client, ours |-> ours,
   lease |-> "forever", remote |-> FALSE]

MCRows == {M("web", 80, "host", TRUE), [M("web", 81, "host", FALSE) EXCEPT !.remote = TRUE],
           M("game", 80, "elsewhere", TRUE), Unreadable}

MCOptions == [force : {FALSE}, steal : BOOLEAN, managed : {{"host"}}]
==============================================================================
