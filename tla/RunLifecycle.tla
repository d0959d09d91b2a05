----------------------------- MODULE RunLifecycle -----------------------------
(***************************************************************************)
(* The life of a run between the HTTP API, the background task that drives *)
(* the master graph, the RUNS table and the LangGraph checkpoints.         *)
(*                                                                         *)
(* POST /runs and POST /runs/{id}/resume commit RUNS.status = running and  *)
(* leave the work to a background task of the same request; the task       *)
(* (run_master_graph) marks the run again, opens a checkpointer, drives    *)
(* the graph and marks the outcome.  DELETE /runs/{id} reads the status,   *)
(* deletes the checkpoints over one connection and the row over another.   *)
(* Nothing locks a run: every request of a thread sees it through these    *)
(* two stores only.                                                        *)
(*                                                                         *)
(* The graph is reduced to what shows here: where the run stands with      *)
(* respect to the review and to cashflow_calculation, whose result refers  *)
(* to the row of RUNS.  The other modules model what the nodes do.         *)
(***************************************************************************)
EXTENDS Naturals

CONSTANTS
    Threads,     \* thread ids, one for each trigger
    Requests,    \* HTTP requests
    Client,      \* "attentive", "patient" or "free": see MaySend
    MaxFailures, \* bound: exceptions in nodes of the graph
    MaxOutages,  \* bound: losses of the database outside the graph
    MaxCrashes   \* bound: restarts of the backend process

ASSUME LifecycleBounds ==
    /\ Client \in {"attentive", "patient", "free"}
    /\ MaxFailures \in Nat /\ MaxOutages \in Nat /\ MaxCrashes \in Nat

VARIABLES
    \* Postgres
    row,      \* thread -> RUNS.status, "absent" without a row
    summary,  \* threads with a row in CASHFLOW_SUMMARIES
    point,    \* thread -> where its latest checkpoint stands, "none" without one
    \* clients
    issued,   \* threads that have been triggered
    deleted,  \* threads whose deletion was answered with 204
    \* requests and their background tasks
    kind,     \* request -> what it asks for
    thread,   \* request -> the thread it is about
    pc,       \* request -> how far its handler or background task is
    pos,      \* request -> where the graph stands that its task drives
    \* bounds
    failures, outages, crashes

store  == <<row, summary, point>>
client == <<issued, deleted>>
request == <<kind, thread, pc, pos>>
faults == <<failures, outages, crashes>>
vars   == <<row, summary, point, issued, deleted, kind, thread, pc, pos,
            failures, outages, crashes>>

Statuses == {"absent", "running", "waiting_for_review", "completed", "failed"}
Points   == {"none",
             "before",       \* before the review
             "interrupted",  \* at the interrupt() of human_review
             "after",        \* before cashflow_calculation
             "tail",         \* after it
             "end"}
Kinds    == {"trigger", "resume", "delete"}
Handling == {"accepted", "checked", "purged"}
Working  == {"queued", "opening", "driving", "raised", "returned"}
Pcs      == {"free", "done"} \cup Handling \cup Working

TypeOK ==
    /\ row \in [Threads -> Statuses]
    /\ summary \subseteq Threads
    /\ point \in [Threads -> Points]
    /\ issued \subseteq Threads /\ deleted \subseteq Threads
    /\ kind \in [Requests -> Kinds]
    /\ thread \in [Requests -> Threads]
    /\ pc \in [Requests -> Pcs]
    /\ pos \in [Requests -> Points]
    /\ failures \in 0..MaxFailures
    /\ outages \in 0..MaxOutages
    /\ crashes \in 0..MaxCrashes

Init ==
    /\ row = [t \in Threads |-> "absent"]
    /\ summary = {}
    /\ point = [t \in Threads |-> "none"]
    /\ issued = {} /\ deleted = {}
    /\ kind = [q \in Requests |-> "trigger"]
    /\ thread \in {[q \in Requests |-> t] : t \in Threads}
    /\ pc = [q \in Requests |-> "free"]
    /\ pos = [q \in Requests |-> "none"]
    /\ failures = 0 /\ outages = 0 /\ crashes = 0

-----------------------------------------------------------------------------
\* A patient client waits for the answer of one request about a thread before it
\* sends the next; an attentive one also resumes a run only if RUNS does not say
\* that it is running; a free one does neither.
MaySend(t) ==
    Client # "free" => \A q \in Requests : thread[q] = t => pc[q] \notin Handling

Sent(q, k, t, to) ==
    /\ pc[q] = "free"
    /\ kind' = [kind EXCEPT ![q] = k]
    /\ thread' = [thread EXCEPT ![q] = t]
    /\ pc' = [pc EXCEPT ![q] = to]
    /\ UNCHANGED <<pos, faults>>

Goes(q, to) ==
    /\ pc' = [pc EXCEPT ![q] = to]
    /\ UNCHANGED <<kind, thread>>

\* upsert_run_status, committed.
Upsert(t, s) == row' = [row EXCEPT ![t] = s]

(***************************************************************************)
(* The handlers.                                                           *)
(***************************************************************************)
TriggerRun(q, t) ==
    /\ t \notin issued
    /\ Sent(q, "trigger", t, "queued")
    /\ Upsert(t, "running")
    /\ issued' = issued \cup {t}
    /\ UNCHANGED <<summary, point, deleted>>

\* Whatever the status of the run is; an unknown thread is a 404.
AcceptResume(q, t) ==
    /\ row[t] # "absent"
    /\ MaySend(t)
    /\ Client = "attentive" => row[t] # "running"
    /\ Sent(q, "resume", t, "accepted")
    /\ Upsert(t, "running")
    /\ UNCHANGED <<summary, point, client>>

\* The answer needs the state of the graph; then the background task is due.
AnswerResume(q) ==
    /\ pc[q] = "accepted"
    /\ Goes(q, "queued")
    /\ UNCHANGED <<pos, store, client, faults>>

\* Mutant: a run in progress is not refused.
CheckDeleteAny(q, t) ==
    /\ row[t] # "absent"
    /\ MaySend(t)
    /\ Sent(q, "delete", t, "checked")
    /\ UNCHANGED <<store, client>>

\* 404 for an unknown thread, 409 for a running one.
CheckDelete(q, t) ==
    /\ row[t] \notin {"absent", "running"}
    /\ MaySend(t)
    /\ Sent(q, "delete", t, "checked")
    /\ UNCHANGED <<store, client>>

\* Mutant: the row is deleted and its checkpoints stay.
DeleteCheckpointsNot(q) ==
    /\ pc[q] = "checked"
    /\ Goes(q, "purged")
    /\ UNCHANGED <<row, summary, point, pos, client, faults>>

DeleteCheckpoints(q) ==
    /\ pc[q] = "checked"
    /\ point' = [point EXCEPT ![thread[q]] = "none"]
    /\ Goes(q, "purged")
    /\ UNCHANGED <<row, summary, pos, client, faults>>

\* The summary goes with the row (ON DELETE CASCADE).
DeleteRow(q) ==
    /\ pc[q] = "purged"
    /\ row' = [row EXCEPT ![thread[q]] = "absent"]
    /\ summary' = summary \ {thread[q]}
    /\ deleted' = deleted \cup {thread[q]}
    /\ Goes(q, "done")
    /\ UNCHANGED <<point, issued, pos, faults>>

(***************************************************************************)
(* run_master_graph, as the background task of request q.                  *)
(***************************************************************************)
MarkRunning(q) ==
    /\ pc[q] = "queued"
    /\ Upsert(thread[q], "running")
    /\ Goes(q, "opening")
    /\ UNCHANGED <<summary, point, pos, client, faults>>

\* A trigger starts from START; Command(resume=...) continues from the latest
\* checkpoint, and raises if there is none.
Invoke(q) ==
    /\ pc[q] = "opening"
    /\ pos' = [pos EXCEPT ![q] = IF kind[q] = "trigger" THEN "before"
                                 ELSE point[thread[q]]]
    /\ Goes(q, IF pos'[q] = "none" THEN "raised" ELSE "driving")
    /\ UNCHANGED <<store, client, faults>>

Drives(q, from, to) ==
    /\ pc[q] = "driving" /\ pos[q] = from
    /\ pos' = [pos EXCEPT ![q] = to]
    /\ UNCHANGED <<row, point, kind, thread, pc, client, faults>>

\* Everything up to categorization, with nothing to review or with the answer.
Categorise(q) ==
    /\ Drives(q, "before", "after") \/ Drives(q, "interrupted", "after")
    /\ UNCHANGED summary

\* A verification fails: the alert, and the end.
Alert(q) == Drives(q, "before", "end") /\ UNCHANGED summary

\* The summary refers to the row of the run.
Cashflow(q) ==
    /\ row[thread[q]] # "absent"
    /\ Drives(q, "after", "tail")
    /\ summary' = summary \cup {thread[q]}

Report(q) == Drives(q, "tail", "end") /\ UNCHANGED summary

\* ainvoke comes back: at an interrupt(), or at END.
Pause(q) ==
    /\ pc[q] = "driving" /\ pos[q] = "before"
    /\ pos' = [pos EXCEPT ![q] = "interrupted"]
    /\ point' = [point EXCEPT ![thread[q]] = "interrupted"]
    /\ Goes(q, "returned")
    /\ UNCHANGED <<row, summary, client, faults>>

Return(q) ==
    /\ pc[q] = "driving" /\ pos[q] = "end"
    /\ point' = [point EXCEPT ![thread[q]] = "end"]
    /\ Goes(q, "returned")
    /\ UNCHANGED <<row, summary, pos, client, faults>>

\* Checkpoints are stored while the next node runs.
SaveCheckpoint(q) ==
    /\ pc[q] = "driving"
    /\ point[thread[q]] # pos[q]
    /\ point' = [point EXCEPT ![thread[q]] = pos[q]]
    /\ UNCHANGED <<row, summary, request, client, faults>>

Raises(q) ==
    /\ point' = [point EXCEPT ![thread[q]] = pos[q]]
    /\ Goes(q, "raised")
    /\ UNCHANGED <<row, summary, pos, client>>

NodeFails(q) ==
    /\ pc[q] = "driving" /\ pos[q] # "end"
    /\ failures < MaxFailures
    /\ Raises(q)
    /\ failures' = failures + 1
    /\ UNCHANGED <<outages, crashes>>

\* The row the summary would refer to has been deleted.
CashflowRefused(q) ==
    /\ pc[q] = "driving" /\ pos[q] = "after"
    /\ row[thread[q]] = "absent"
    /\ Raises(q)
    /\ UNCHANGED faults

\* Mutant: the exception is re-raised without a mark.
MarkFailedNot(q) ==
    /\ pc[q] = "raised"
    /\ Goes(q, "done")
    /\ UNCHANGED <<row, summary, point, pos, client, faults>>

MarkFailed(q) ==
    /\ pc[q] = "raised"
    /\ Upsert(thread[q], "failed")
    /\ Goes(q, "done")
    /\ UNCHANGED <<summary, point, pos, client, faults>>

\* Mutant: a run that paused at an interrupt() counts as completed.
OutcomeCompleted(q) == "completed"

Outcome(q) == IF pos[q] = "interrupted" THEN "waiting_for_review" ELSE "completed"

\* Mutant: the outcome is not committed.
MarkOutcomeNot(q) ==
    /\ pc[q] = "returned"
    /\ Goes(q, "done")
    /\ UNCHANGED <<row, summary, point, pos, client, faults>>

MarkOutcome(q) ==
    /\ pc[q] = "returned"
    /\ Upsert(thread[q], Outcome(q))
    /\ Goes(q, "done")
    /\ UNCHANGED <<summary, point, pos, client, faults>>

-----------------------------------------------------------------------------
\* Postgres is out of reach in a handler or in run_master_graph outside the graph:
\* the request or its task ends there.
Outage(q) ==
    /\ pc[q] \in (Handling \cup Working) \ {"driving"}
    /\ outages < MaxOutages
    /\ Goes(q, "done")
    /\ outages' = outages + 1
    /\ UNCHANGED <<pos, store, client, failures, crashes>>

\* The backend restarts: handlers and background tasks are gone.
Crash ==
    /\ crashes < MaxCrashes
    /\ pc' = [q \in Requests |-> IF pc[q] = "free" THEN "free" ELSE "done"]
    /\ crashes' = crashes + 1
    /\ UNCHANGED <<kind, thread, pos, store, client, failures, outages>>

TaskStep(q) ==
    \/ AnswerResume(q) \/ DeleteCheckpoints(q) \/ DeleteRow(q)
    \/ MarkRunning(q) \/ Invoke(q)
    \/ Categorise(q) \/ Alert(q) \/ Cashflow(q) \/ Report(q)
    \/ Pause(q) \/ Return(q) \/ CashflowRefused(q)
    \/ MarkFailed(q) \/ MarkOutcome(q)

Next ==
    \/ \E q \in Requests :
        \/ \E t \in Threads : TriggerRun(q, t) \/ AcceptResume(q, t) \/ CheckDelete(q, t)
        \/ TaskStep(q)
        \/ SaveCheckpoint(q) \/ NodeFails(q) \/ Outage(q)
    \/ Crash

Spec == Init /\ [][Next]_vars

\* The event loop goes on with every handler and task; nobody has to send requests.
FairSpec == Spec /\ \A q \in Requests : WF_vars(TaskStep(q))

-----------------------------------------------------------------------------
(***************************************************************************)
(* Without outages and restarts, whatever clients send.                    *)
(***************************************************************************)

\* A run that RUNS calls running has a request or a background task that will mark
\* its outcome: the status is never left over, whichever tasks finish first.
RunningIsBacked ==
    \A t \in Threads : row[t] = "running" =>
        \E q \in Requests : thread[q] = t /\ pc[q] \in {"accepted"} \cup Working

\* So it does not stay running (under FairSpec).
RunningSettles == \A t \in Threads : row[t] = "running" ~> row[t] # "running"

(***************************************************************************)
(* For an attentive client.                                                *)
(***************************************************************************)

\* routes.py, lines 276-278: the row of a run is not deleted while a background
\* task may still write to it.
NoDeleteUnderTask ==
    [][\A t \in Threads : row[t] # "absent" /\ row'[t] = "absent" =>
        \A q \in Requests : thread[q] = t => pc[q] \notin {"accepted"} \cup Working]_vars

\* DeleteRunButton.tsx, line 55: a run whose deletion was confirmed is gone for good.
DeletedStaysDeleted == \A t \in deleted : row[t] = "absent"

\* Until an outage or a restart: if nothing is in progress on a run, a waiting one
\* stands at its review, a completed one has ended, and a failed one has a checkpoint
\* to continue from.
SettledIsTruthful ==
    outages = 0 /\ crashes = 0 => \A t \in Threads :
        (\A q \in Requests : thread[q] = t => pc[q] \in {"free", "done"}) =>
            /\ row[t] = "waiting_for_review" => point[t] = "interrupted"
            /\ row[t] = "completed" => point[t] = "end"
            /\ row[t] = "failed" => point[t] \notin {"none", "end"}

\* The handlers and tasks of all requests together act like one job for each thread: its
\* checkpoint moves forward, its status changes in the order of the job and tells where
\* the checkpoint stands, its summary is stored before the checkpoint says so, and its
\* deletion, in two steps, meets it at rest.
Record == INSTANCE RunRecord

ImplementsRecord == Record!Spec

=============================================================================
