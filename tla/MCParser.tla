------------------------------- MODULE MCParser -------------------------------
(***************************************************************************)
(* An instance of Parser for TLC: entries over 1 000, so that each amount  *)
(* has a leading group that can come off, and no two sums alike.           *)
(***************************************************************************)
EXTENDS Parser

MCAmount  == <<1203, -2511, 4107, -8029>>
MCRest    == <<203, 511, 107, 29>>
MCBalance == [e \in Entries |-> CASE e = 1 -> 25770 [] e = 2 -> 24567
                                  [] e = 3 -> 27078 [] OTHER -> 22971]

ASSUME AmountsAssumption == NoCoincidence
=============================================================================
