------------------------------ MODULE RunRecord ------------------------------
(***************************************************************************)
(* What the run driver and the handlers of runs promise to an attentive    *)
(* client: every thread is one job, whose record changes in indivisible    *)
(* steps.                                                                  *)
(*                                                                         *)
(* There are no requests here and no background tasks.  RunLifecycle       *)
(* implements this record, with all of those, and with failures, lost      *)
(* connections and restarts, after which a job may stand still for good.   *)
(***************************************************************************)
EXTENDS Naturals

CONSTANT Threads

VARIABLES
    row,      \* thread -> RUNS.status, "absent" without a row
    summary,  \* threads with a row in CASHFLOW_SUMMARIES
    point,    \* thread -> where its latest checkpoint stands, "none" without one
    issued,   \* threads that have been triggered
    deleted   \* threads whose deletion was confirmed

record == <<row, summary, point, issued, deleted>>

\* How far the graph has come at each of its points.
Progress == [none |-> 0, before |-> 1, interrupted |-> 2, after |-> 3, tail |-> 4, end |-> 5]

Resting(t) == row[t] \in {"waiting_for_review", "completed", "failed"}

Init ==
    /\ row = [t \in Threads |-> "absent"]
    /\ summary = {}
    /\ point = [t \in Threads |-> "none"]
    /\ issued = {} /\ deleted = {}

Trigger(t) ==
    /\ t \notin issued
    /\ row' = [row EXCEPT ![t] = "running"]
    /\ issued' = issued \cup {t}
    /\ UNCHANGED <<summary, point, deleted>>

Resume(t) ==
    /\ Resting(t)
    /\ row' = [row EXCEPT ![t] = "running"]
    /\ UNCHANGED <<summary, point, issued, deleted>>

\* The checkpoint moves forward only, and past cashflow_calculation only when its
\* result is stored.
Advance(t) ==
    /\ row[t] = "running"
    /\ \E p \in DOMAIN Progress :
        /\ Progress[point[t]] < Progress[p]
        /\ p = "tail" => t \in summary
        /\ point' = [point EXCEPT ![t] = p]
    /\ UNCHANGED <<row, summary, issued, deleted>>

\* cashflow_calculation, again if its checkpoint was not stored.
Summarise(t) ==
    /\ row[t] = "running" /\ Progress[point[t]] < Progress["tail"]
    /\ summary' = summary \cup {t}
    /\ UNCHANGED <<row, point, issued, deleted>>

\* The status tells where the checkpoint stands.
Settle(t) ==
    /\ row[t] = "running"
    /\ \E s \in CASE point[t] = "end"         -> {"completed"}
                  [] point[t] = "interrupted" -> {"waiting_for_review", "failed"}
                  [] OTHER                    -> {"failed"} :
        row' = [row EXCEPT ![t] = s]
    /\ UNCHANGED <<summary, point, issued, deleted>>

\* First the checkpoints go, then the row with its summary.
Purge(t) ==
    /\ Resting(t)
    /\ point' = [point EXCEPT ![t] = "none"]
    /\ UNCHANGED <<row, summary, issued, deleted>>

Delete(t) ==
    /\ Resting(t) /\ point[t] = "none"
    /\ row' = [row EXCEPT ![t] = "absent"]
    /\ summary' = summary \ {t}
    /\ deleted' = deleted \cup {t}
    /\ UNCHANGED <<point, issued>>

Next == \E t \in Threads :
    \/ Trigger(t) \/ Resume(t) \/ Advance(t) \/ Summarise(t) \/ Settle(t)
    \/ Purge(t) \/ Delete(t)

Spec == Init /\ [][Next]_record

=============================================================================
