------------------------------ MODULE MCCashflow ------------------------------
(***************************************************************************)
(* January begins on day 32, February on day 63, March on day 91.  The     *)
(* first statement ends with January; the second begins with February and  *)
(* intersects the third, which ends with it.  A row lies in the            *)
(* intersection; the third is still to be categorised.                     *)
(***************************************************************************)
EXTENDS Cashflow, TLC

MCMonthStarts == {1, 32, 63, 91}
MCStatements == 1 .. 3
MCFirst   == <<56, 63, 84>>
MCLast    == <<62, 86, 90>>

MCTxns == 1 .. 5
MCStatementOf == <<1, 1, 2, 2, 3>>
MCDay         == <<56, 62, 63, 85, 90>>
MCAmount      == <<40, -10, -50, -60, 30>>

MCSymmetry == Permutations(Runs)

===============================================================================
