------------------------- MODULE MCStatementPipeline -------------------------
(***************************************************************************)
(* Instances of StatementPipeline for TLC.  Files are numbered in the      *)
(* order of their modifiedTime.                                            *)
(***************************************************************************)
EXTENDS StatementPipeline, TLC

Symmetric == Permutations(Runs)

ByFile(a, b, c) == [f \in Files |-> IF f = 1 THEN a ELSE IF f = 2 THEN b ELSE c]

MCModified == [f \in Files |-> f]
MCDistinct == [f \in Files |-> f]

(***************************************************************************)
(* Mixed: 1 is a sound statement, 2 prints a period that intersects that   *)
(* of 1 and its parse loses a row, 3 is a scan without a text layer.       *)
(***************************************************************************)
MixedScan  == ByFile("ok", "ok", "unreadable_pdf")
MixedFirst == ByFile(1, 3, 0)
MixedLast  == ByFile(3, 5, 0)
MixedParse == ByFile("full", "full", "none")
MixedNet   == ByFile(5, 5, 0)
MixedDelta == ByFile(5, 7, 0)

(***************************************************************************)
(* Bare: 1 is a sound statement, 2 intersects it and its bank's format has *)
(* no running balances, 3 has rows but no readable period.                 *)
(***************************************************************************)
BareScan  == ByFile("ok", "ok", "unparseable_period")
BareFirst == ByFile(1, 3, 0)
BareLast  == ByFile(3, 5, 0)
BareParse == ByFile("full", "bare", "full")
BareNet   == ByFile(5, 4, 2)
BareDelta == ByFile(5, 4, 2)
=============================================================================
