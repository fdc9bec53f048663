----------------------------- MODULE MCEngineAPI -----------------------------
(* Three calls at once, and a client that asks for version 3 at most. *)
EXTENDS EngineAPI

(* A daemon older than the client, one whose newest is the client's, one   *)
(* with nothing below what the client asks for.                            *)
MCOffers == {[oldest |-> 0, newest |-> 2], [oldest |-> 2, newest |-> 3],
             [oldest |-> 4, newest |-> 5]}
==============================================================================
