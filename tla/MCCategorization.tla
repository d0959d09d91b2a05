-------------------------- MODULE MCCategorization --------------------------
(***************************************************************************)
(* Instances of Categorization for TLC.                                    *)
(***************************************************************************)
EXTENDS Categorization, TLC

Symmetric == Permutations(Runs)

\* All transactions come from one counterparty.
OneKey == [t \in Txns |-> CHOOSE k \in Keys : TRUE]

\* Every transaction has a counterparty of its own.
OwnKey == [t \in Txns |-> t]
=============================================================================
