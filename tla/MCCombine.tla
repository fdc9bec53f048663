------------------------------ MODULE MCCombine ------------------------------
(* Three sources and two slots; a source may ask for one slot twice. *)
EXTENDS Combine

MCAnswers == {<<"web">>, <<"game", "web">>, <<"game", "game">>}
==============================================================================
