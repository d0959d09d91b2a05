---------------------------- MODULE StatementBook ----------------------------
(***************************************************************************)
(* What the statement half of the master graph promises if runs do not     *)
(* execute at the same time: a book of statements that each node changes   *)
(* in one indivisible step.                                                *)
(*                                                                         *)
(* There are no runs here, no snapshots, checkpoints, failures or restarts *)
(* and no Drive folder.  StatementPipeline implements this book, with all  *)
(* of those, as long as no two of its runs execute at once and none is     *)
(* resumed after another has executed in between.                          *)
(***************************************************************************)
EXTENDS Statements

VARIABLES
    status,  \* file -> status of its statement, "absent" without one
    copies,  \* file -> how many times its rows are stored
    mailed   \* files an alert has named

book == <<status, copies, mailed>>

WithStatus(S) == {f \in Files : status[f] \in S}

\* A pending statement is judged against those verified or processed before.
Admissible(f) ==
    /\ Scan[f] = "ok"
    /\ \A g \in WithStatus({"verified", "processed"}) \ {f} : ~Overlaps(f, g)

\* A verified statement is judged by all rows stored for it.
Balanced(f) == BalancesKnown(f, copies[f]) /\ Consistent(f, copies[f])

Init ==
    /\ status = [f \in Files |-> "absent"]
    /\ copies = [f \in Files |-> 0]
    /\ mailed = {}

\* ingestion
Register ==
    /\ \E new \in SUBSET WithStatus({"absent"}) :
        status' = [f \in Files |-> IF f \in new THEN "pending" ELSE status[f]]
    /\ UNCHANGED <<copies, mailed>>

\* verification_pre_check
Verify ==
    /\ status' = [f \in Files |->
                    IF status[f] # "pending" THEN status[f]
                    ELSE IF Admissible(f) THEN "verified" ELSE "failed"]
    /\ UNCHANGED <<copies, mailed>>

\* extraction
Extract ==
    /\ copies' = [f \in Files |-> IF status[f] = "verified" /\ Parse[f] # "none"
                                  THEN copies[f] + 1 ELSE copies[f]]
    /\ UNCHANGED <<status, mailed>>

\* verification_post_check
Settle ==
    /\ status' = [f \in Files |->
                    IF status[f] # "verified" THEN status[f]
                    ELSE IF Balanced(f) THEN "processed" ELSE "failed"]
    /\ UNCHANGED <<copies, mailed>>

\* What its check has failed or, if that commit was lost, would fail again.
Condemned(f) ==
    \/ status[f] = "failed"
    \/ status[f] = "pending"  /\ ~Admissible(f)
    \/ status[f] = "verified" /\ ~Balanced(f)

\* alert_immediate
Alert ==
    /\ \E named \in SUBSET {f \in Files : Condemned(f)} : mailed' = mailed \cup named
    /\ UNCHANGED <<status, copies>>

Next == Register \/ Verify \/ Extract \/ Settle \/ Alert

Spec == Init /\ [][Next]_book

=============================================================================
