----------------------------- MODULE MCDownstream -----------------------------
(***************************************************************************)
(* Instances of Downstream for TLC.  Transactions and costs are numbers.   *)
(***************************************************************************)
EXTENDS Downstream, TLC

Symmetric == Permutations(Runs)

PerTxn(a, b, c) == [t \in Txns |-> IF t = 1 THEN a ELSE IF t = 2 THEN b ELSE c]
OneCategory == [x \in Txns \cup Costs |-> "bills"]
MCExpected  == [c \in Costs |-> IF c = 11 THEN 100 ELSE 60]

(***************************************************************************)
(* Two statements.  In the first the order of the two costs decides who    *)
(* gets transaction 1, transaction 3 is left for a second match, and the   *)
(* safety buffer binds.  The second is the end of a month, has no payment, *)
(* and its surplus is an outlier.                                          *)
(***************************************************************************)
MCAmount      == PerTxn(75, 30, 20)
MCStatementOf == [t \in Txns |-> 1]
MCEndDay      == [s \in Statements |-> IF s = 1 THEN 21 ELSE 28]
MCMonthLength == [s \in Statements |-> 30]
MCSurplus     == [s \in Statements |-> IF s = 1 THEN 300 ELSE 1001]
MCClosing     == [s \in Statements |-> IF s = 1 THEN 5000 ELSE 6000]

\* One answer adds up to 100.2 percent, one to 110.
MCAnswers == {[etf |-> 501, term_deposit |-> 501, savings_account |-> 0],
              [etf |-> 600, term_deposit |-> 500, savings_account |-> 0]}
=============================================================================
