------------------------------ MODULE MCSystem ------------------------------
(* Two servers, the program started twice; the keys are "0", which selects *)
(* in the menu, and Esc, which ends the program there, as Esc 0 does in    *)
(* session mode.                                                           *)
EXTENDS System

CONSTANTS s1, s2

MCDigit == [b \in {"0"} |-> 0]
MCExitSeqs == {<<"esc", "0">>}
MCTyped == {<<"0">>, <<"esc">>}
=============================================================================
