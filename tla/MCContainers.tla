---------------------------- MODULE MCContainers -----------------------------
(* An instance of Containers small enough for TLC. *)
EXTENDS Containers

(* One container is left to choose its network, and writes a slot down that *)
(* it also publishes, twice; the other names its network, and has nothing  *)
(* but what it publishes.                                                  *)
MCLabel ==
  [free  |-> [network |-> NoName,
              rules |-> <<Rule(80, 8080), Rule(80, 8081)>>, published |-> <<80, 443>>],
   bound |-> [network |-> 2, rules |-> <<>>, published |-> <<25>>]]
==============================================================================
