------------------------------ MODULE MCUnitPass ------------------------------
(* An instance of UnitPass small enough for TLC: two instances of a template *)
(* that share their unit file, one of them with a drop-in and triggered by a *)
(* socket unit.                                                              *)
EXTENDS UnitPass

MCListed == <<"app@1", "app@2">>
MCFiles == [u \in {"app@1", "app@2"} |->
              IF u = "app@1" THEN <<"app@", "drop-in">> ELSE <<"app@">>]
MCTriggers == [u \in {"app@1", "app@2"} |-> IF u = "app@1" THEN {u, "app.socket"} ELSE {u}]

In(section, value) == [section |-> section, value |-> value]
To(port) == [slot |-> 80, port |-> port]

MCTexts == {<<In("Unit", To(80)), In("own", Published), In("other", Reset)>>,
            <<In("Unit", Reset), In("Unit", To(81)), In("other", Published)>>}

MCSockets == <<[unit |-> "app.socket", slot |-> 80, forwardable |-> TRUE],
               [unit |-> "app@1", slot |-> 90, forwardable |-> TRUE],
               [unit |-> "app@2", slot |-> 91, forwardable |-> FALSE]>>
==============================================================================
