-------------------------- MODULE StatementPipeline --------------------------
(***************************************************************************)
(* The statement half of the master graph: how a PDF on Google Drive       *)
(* becomes a row of STATEMENTS, how the row is verified, how its           *)
(* transactions are extracted and checked against its balances, and how a  *)
(* failure is reported.                                                    *)
(*                                                                         *)
(* A run is one thread of the master graph (graph/master.py).  Each of its *)
(* nodes opens one database session, reads, does slow work, writes and     *)
(* commits; READ COMMITTED isolation means that what was read may be       *)
(* overtaken before the commit.  A node is therefore two or three steps    *)
(* here: what it SELECTs, what it decides, and its commit.  No run owns a  *)
(* statement: every node selects its input anew, by status, from the       *)
(* shared table.                                                           *)
(*                                                                         *)
(* All of this happens in a subgraph that is compiled without a            *)
(* checkpointer and so inherits the one of the run (master.py, lines       *)
(* 187-192).  Its state is stored after each of its own nodes, the last    *)
(* included, before the session commits.  A resume therefore goes on       *)
(* inside the subgraph, with what was selected before the failure, while   *)
(* the rows of the failed transaction are gone.                            *)
(***************************************************************************)
EXTENDS Statements

CONSTANTS
    Runs,        \* thread ids, one for each trigger of the master graph
    Modified,    \* file -> its modifiedTime on Drive
    Moved,       \* files that may appear after files with a later modifiedTime
    OneAtATime,  \* TRUE: no run starts or resumes while another executes
    Attended,    \* TRUE: a run is not resumed once another has executed since it stopped
    MaxFailures, \* bound: node exceptions
    MaxCrashes   \* bound: restarts of the backend process

ASSUME DriveAssumption == Modified \in [Files -> Nat \ {0}] /\ Moved \subseteq Files

ASSUME BoundsAssumption ==
    /\ OneAtATime \in BOOLEAN /\ Attended \in BOOLEAN
    /\ MaxFailures \in Nat
    /\ MaxCrashes \in Nat

VARIABLES
    \* Google Drive
    drive,       \* the files in the folder
    \* Postgres
    cursor,      \* accounts.last_synced_at, 0 for NULL
    status,      \* file -> statements.status, "absent" without a row
    copies,      \* file -> how many times its rows are in transactions
    \* the mailbox
    alerted,     \* files an alert mail has named
    \* the runs
    mode,        \* run -> where its execution stands
    at,          \* run -> the node it executes or would execute next
    step,        \* run -> how far into that node it is
    found,       \* run -> the statements the node selected
    picked,      \* run -> those of them that passed the node's check
    alerts,      \* run -> alert_details of its graph state
    saved,       \* run -> the last step of its node that a stored checkpoint knows
    \* history
    forfeited,   \* files whose INSERT was rolled back behind persist_metadata
    \* bounds
    failures, crashes

db     == <<cursor, status, copies>>
world  == <<drive, alerted>>
local  == <<mode, at, step, found, picked, alerts, saved, forfeited>>
faults == <<failures, crashes>>
vars   == <<drive, cursor, status, copies, alerted, mode, at, step, found,
            picked, alerts, saved, forfeited, failures, crashes>>

Statuses == {"absent", "pending", "verified", "failed", "processed"}
Nodes    == {"ingestion", "verification_pre_check", "extraction",
             "verification_post_check", "categorization", "alert_immediate",
             "END"}
Checks   == {"verification_pre_check", "verification_post_check"}

\* "overtaken": stopped, and another run has been started or resumed since.
Modes    == {"new", "running", "paused", "stopped", "overtaken", "completed"}

\* "inserted" and "returned" are steps of a resumed subgraph only: it has its
\* update_sync_cursor or nothing left to do, and what it wrote before is lost.
Steps    == {"enter", "read", "judged", "inserted", "returned"}

TypeOK ==
    /\ drive \subseteq Files
    /\ cursor \in Nat
    /\ status \in [Files -> Statuses]
    /\ copies \in [Files -> Nat]
    /\ alerted \subseteq Files
    /\ mode \in [Runs -> Modes]
    /\ at \in [Runs -> Nodes]
    /\ step \in [Runs -> Steps]
    /\ found \in [Runs -> SUBSET Files]
    /\ picked \in [Runs -> SUBSET Files]
    /\ alerts \in [Runs -> SUBSET Files]
    /\ saved \in [Runs -> Steps]
    /\ forfeited \subseteq Files
    /\ failures \in 0..MaxFailures
    /\ crashes \in 0..MaxCrashes

Init ==
    /\ drive = {}
    /\ cursor = 0
    /\ status = [f \in Files |-> "absent"]
    /\ copies = [f \in Files |-> 0]
    /\ alerted = {}
    /\ mode = [r \in Runs |-> "new"]
    /\ at = [r \in Runs |-> "ingestion"]
    /\ step = [r \in Runs |-> "enter"]
    /\ found = [r \in Runs |-> {}]
    /\ picked = [r \in Runs |-> {}]
    /\ alerts = [r \in Runs |-> {}]
    /\ saved = [r \in Runs |-> "enter"]
    /\ forfeited = {}
    /\ failures = 0
    /\ crashes = 0

-----------------------------------------------------------------------------
(***************************************************************************)
(* Helpers.                                                                *)
(***************************************************************************)
WithStatus(S) == {f \in Files : status[f] \in S}

At(r, node, s) == mode[r] = "running" /\ at[r] = node /\ step[r] = s

CanExecute == OneAtATime => \A q \in Runs : mode[q] # "running"

\* The node has read: remember what it selected and go on to the next step.
Reads(r, selected, passed, s) ==
    /\ found' = [found EXCEPT ![r] = selected]
    /\ picked' = [picked EXCEPT ![r] = passed]
    /\ step' = [step EXCEPT ![r] = s]
    /\ UNCHANGED <<mode, at, alerts, saved, forfeited, world, db, faults>>

\* The edges of the master graph; a check without a failure goes on.
Route(r) ==
    CASE at[r] = "ingestion"  -> "verification_pre_check"
      [] at[r] = "extraction" -> "verification_post_check"
      [] at[r] = "verification_pre_check" /\ found[r] = picked[r]  -> "extraction"
      [] at[r] = "verification_post_check" /\ found[r] = picked[r] -> "categorization"
      [] at[r] \in Checks /\ found[r] # picked[r] -> "alert_immediate"
      [] OTHER -> "END"

\* _alert_details_from_results of the two checks.
Details(r) == IF at[r] \in Checks THEN found[r] \ picked[r] ELSE alerts[r]

\* The subgraph has ended, the session has committed, and the run enters the next
\* node.  A restart before the master's own checkpoint would return what the ended
\* subgraph has stored, so it brings the run here as well.
Leaves(r, details) ==
    /\ at' = [at EXCEPT ![r] = Route(r)]
    /\ alerts' = [alerts EXCEPT ![r] = details]
    /\ step' = [step EXCEPT ![r] = "enter"]
    /\ saved' = [saved EXCEPT ![r] = "enter"]
    /\ found' = [found EXCEPT ![r] = {}]
    /\ picked' = [picked EXCEPT ![r] = {}]
    /\ UNCHANGED <<mode, forfeited, faults>>

-----------------------------------------------------------------------------
(***************************************************************************)
(* External: files arriving on Drive.  An uploaded file has a later        *)
(* modifiedTime than every file already there; one that is moved into the  *)
(* folder, or uploaded with an old date, need not.                         *)
(***************************************************************************)
Upload(f) ==
    /\ f \notin drive
    /\ f \in Moved \/ \A g \in drive : Modified[g] < Modified[f]
    /\ drive' = drive \cup {f}
    /\ UNCHANGED <<alerted, db, local, faults>>

(***************************************************************************)
(* ingestion: list_new_files, dedupe_check + download, then                *)
(* persist_metadata + update_sync_cursor in the commit.                    *)
(***************************************************************************)
ListNewFiles(r) ==
    /\ At(r, "ingestion", "enter")
    /\ Reads(r, {f \in drive : Modified[f] > cursor}, {}, "read")

DedupeCheck(r) ==
    /\ At(r, "ingestion", "read")
    /\ Reads(r, found[r], found[r] \cap WithStatus({"absent"}), "judged")

\* The cursor becomes the latest modifiedTime of what was listed, if anything was.
UpdateSyncCursor(r) ==
    \/ found[r] = {} /\ UNCHANGED cursor
    \/ \E latest \in found[r] :
         /\ \A f \in found[r] : Modified[f] <= Modified[latest]
         /\ cursor' = Modified[latest]

\* Mutant: the cursor is moved although a listed file was never inserted.
PersistFilesSkippingOne(r) ==
    /\ At(r, "ingestion", "judged")
    /\ \E skip \in picked[r] : 
         status' = [f \in Files |-> IF f \in picked[r] \ {skip}
                                    THEN "pending" ELSE status[f]]
    /\ UpdateSyncCursor(r)
    /\ Leaves(r, Details(r))
    /\ UNCHANGED <<copies, world>>

\* The INSERT passes only if no run has inserted one of the files meanwhile.
PersistFiles(r) ==
    /\ At(r, "ingestion", "judged")
    /\ \A f \in picked[r] : status[f] = "absent"
    /\ status' = [f \in Files |-> IF f \in picked[r] THEN "pending" ELSE status[f]]
    /\ UpdateSyncCursor(r)
    /\ Leaves(r, Details(r))
    /\ UNCHANGED <<copies, world>>

\* A resume behind persist_metadata: the cursor moves, the INSERTs are not repeated.
MoveCursorOnly(r) ==
    /\ At(r, "ingestion", "inserted")
    /\ UpdateSyncCursor(r)
    /\ Leaves(r, Details(r))
    /\ UNCHANGED <<status, copies, world>>

(***************************************************************************)
(* verification pre-check: read_statement, check_duplicate, mark_result.   *)
(***************************************************************************)
ReadPending(r) ==
    /\ At(r, "verification_pre_check", "enter")
    /\ Reads(r, WithStatus({"pending"}),
                {f \in WithStatus({"pending"}) : Scan[f] = "ok"}, "read")

\* The rest of the batch is still pending in the table, so two statements of
\* one batch are never compared with each other.
CheckDuplicate(r) ==
    /\ At(r, "verification_pre_check", "read")
    /\ Reads(r, found[r],
                {f \in picked[r] :
                    \A g \in WithStatus({"verified", "processed"}) \ {f} :
                        ~Overlaps(f, g)}, "judged")

MarkVerified(r) ==
    /\ At(r, "verification_pre_check", "judged")
    /\ status' = [f \in Files |-> IF f \in picked[r] THEN "verified"
                                  ELSE IF f \in found[r] THEN "failed"
                                  ELSE status[f]]
    /\ Leaves(r, Details(r))
    /\ UNCHANGED <<cursor, copies, world>>

(***************************************************************************)
(* extraction: parse_statement, persist_transactions.                      *)
(***************************************************************************)
\* Mutant: statements already processed are parsed again.
ParseStatementsAgain(r) ==
    /\ At(r, "extraction", "enter")
    /\ Reads(r, WithStatus({"verified", "processed"}), {}, "judged")

ParseStatements(r) ==
    /\ At(r, "extraction", "enter")
    /\ Reads(r, WithStatus({"verified"}), {}, "judged")

\* Every parsed row is inserted, whether or not the statement has rows already.
PersistTransactions(r) ==
    /\ At(r, "extraction", "judged")
    /\ copies' = [f \in Files |-> IF f \in found[r] /\ Parse[f] # "none"
                                  THEN copies[f] + 1 ELSE copies[f]]
    /\ Leaves(r, Details(r))
    /\ UNCHANGED <<cursor, status, world>>

(***************************************************************************)
(* verification post-check: check_balance_consistency reads the statements *)
(* and then their sums one by one; mark_result writes the verdicts.        *)
(***************************************************************************)
\* Mutant: a balance that was never set counts as zero.
ReadVerifiedNullAsZero(r) ==
    /\ At(r, "verification_post_check", "enter")
    /\ Reads(r, WithStatus({"verified"}), WithStatus({"verified"}), "read")

\* Mutant: a statement without balances is silently skipped.
ReadVerifiedSkippingEmpty(r) ==
    /\ At(r, "verification_post_check", "enter")
    /\ LET known == {f \in WithStatus({"verified"}) : BalancesKnown(f, copies[f])} IN
        Reads(r, known, known, "read")

ReadVerified(r) ==
    /\ At(r, "verification_post_check", "enter")
    /\ Reads(r, WithStatus({"verified"}),
                {f \in WithStatus({"verified"}) : BalancesKnown(f, copies[f])},
                "read")

CheckBalance(r) ==
    /\ At(r, "verification_post_check", "read")
    /\ Reads(r, found[r], {f \in picked[r] : Consistent(f, copies[f])}, "judged")

\* Mutant: an inconsistent statement goes back to pending for another try.
MarkProcessedOrPending(r) ==
    /\ At(r, "verification_post_check", "judged")
    /\ status' = [f \in Files |-> IF f \in picked[r] THEN "processed"
                                  ELSE IF f \in found[r] THEN "pending"
                                  ELSE status[f]]
    /\ Leaves(r, Details(r))
    /\ UNCHANGED <<cursor, copies, world>>

\* Mutant: the failure reason is written where the status belongs.
MarkProcessedReason(r) ==
    /\ At(r, "verification_post_check", "judged")
    /\ status' = [f \in Files |-> IF f \in picked[r] THEN "processed"
                                  ELSE IF f \in found[r] THEN "balance_mismatch"
                                  ELSE status[f]]
    /\ Leaves(r, Details(r))
    /\ UNCHANGED <<cursor, copies, world>>

\* Mutant: failures are routed on, but left out of alert_details.
MarkProcessedWithoutDetails(r) ==
    /\ At(r, "verification_post_check", "judged")
    /\ status' = [f \in Files |-> IF f \in picked[r] THEN "processed"
                                  ELSE IF f \in found[r] THEN "failed"
                                  ELSE status[f]]
    /\ Leaves(r, {})
    /\ UNCHANGED <<cursor, copies, world>>

MarkProcessed(r) ==
    /\ At(r, "verification_post_check", "judged")
    /\ status' = [f \in Files |-> IF f \in picked[r] THEN "processed"
                                  ELSE IF f \in found[r] THEN "failed"
                                  ELSE status[f]]
    /\ Leaves(r, Details(r))
    /\ UNCHANGED <<cursor, copies, world>>

(***************************************************************************)
(* categorization, seen from the statements: it takes transactions that    *)
(* have no category and may pause the run for a review.  Which rows those  *)
(* are and what it writes into them is the subject of the categorization   *)
(* module; here the statements with rows stand for them.                   *)
(***************************************************************************)
RuleMatch(r) ==
    /\ At(r, "categorization", "enter")
    /\ Reads(r, {f \in Files : copies[f] > 0}, {}, "read")

\* human_review's interrupt() leaves the master graph with a checkpoint.
PauseForReview(r) ==
    /\ At(r, "categorization", "read")
    /\ found[r] # {}
    /\ mode' = [mode EXCEPT ![r] = "paused"]
    /\ saved' = [saved EXCEPT ![r] = "read"]
    /\ UNCHANGED <<at, step, found, picked, alerts, forfeited, world, db, faults>>

PersistCategories(r) ==
    /\ \/ At(r, "categorization", "read")
       \/ At(r, "categorization", "judged")
    /\ Leaves(r, Details(r))
    /\ UNCHANGED <<db, world>>

(***************************************************************************)
(* alert_immediate: one mail naming the statements of alert_details.       *)
(***************************************************************************)
SendAlert(r) ==
    /\ At(r, "alert_immediate", "enter")
    /\ alerted' = alerted \cup alerts[r]
    /\ Leaves(r, Details(r))
    /\ UNCHANGED <<drive, db>>

(***************************************************************************)
(* A resume after session.commit() has failed: the subgraph has ended, its *)
(* stored results are returned, and nothing is written.                    *)
(***************************************************************************)
ReturnsStored(r) ==
    /\ mode[r] = "running" /\ step[r] = "returned"
    /\ Leaves(r, Details(r))
    /\ UNCHANGED <<db, world>>

-----------------------------------------------------------------------------
(***************************************************************************)
(* The life of a run around its nodes.                                     *)
(***************************************************************************)
\* Run r executes from step s of its node on; whoever has stopped is overtaken.
Executes(r, s) ==
    /\ CanExecute
    /\ mode' = [q \in Runs |-> IF q = r THEN "running"
                              ELSE IF mode[q] = "stopped" THEN "overtaken"
                              ELSE mode[q]]
    /\ step' = [step EXCEPT ![r] = s]
    /\ UNCHANGED <<at, found, picked, alerts, saved, forfeited, world, db, faults>>

Trigger(r) == mode[r] = "new" /\ Executes(r, step[r])

\* POST /runs/{id}/resume on a run that waits for a review.
AnswerReview(r) == mode[r] = "paused" /\ Executes(r, "judged")

\* POST /runs/{id}/resume on a run that failed or was cut off.
Resume(r) ==
    /\ mode[r] = "stopped" \/ (mode[r] = "overtaken" /\ ~Attended)
    /\ Executes(r, step[r])

\* The checkpointer stores the state of the subgraph after a node of it, in a
\* transaction of its own and while the next node may already be running.
\* check_balance_consistency is one node: what it has read so far is not stored.
Storable(r) == ~At(r, "verification_post_check", "read")

SaveCheckpoint(r) ==
    /\ mode[r] = "running"
    /\ saved[r] # step[r] /\ Storable(r)
    /\ saved' = [saved EXCEPT ![r] = step[r]]
    /\ UNCHANGED <<mode, at, step, found, picked, alerts, forfeited, world, db, faults>>

\* ainvoke() has returned.
Finish(r) ==
    /\ At(r, "END", "enter")
    /\ mode' = [mode EXCEPT ![r] = "completed"]
    /\ UNCHANGED <<at, step, found, picked, alerts, saved, forfeited, world, db, faults>>

\* What a checkpoint of step s holds of the node's data.
FoundAt(r, s) == IF s = "enter" THEN {} ELSE found[r]
PickedAt(r, s) ==
    CASE s = "enter" -> {}
      [] s = "read" /\ at[r] = "verification_pre_check" -> {f \in found[r] : Scan[f] = "ok"}
      [] s = "read" /\ at[r] # "verification_pre_check" -> {}
      [] OTHER -> picked[r]

\* The node stops on the way to its commit, in the first of these steps that raises.
OnTheWay(r) ==
    CASE at[r] = "ingestion" /\ step[r] = "judged"   -> {"judged", "inserted", "returned"}
      [] at[r] = "ingestion" /\ step[r] = "inserted" -> {"inserted", "returned"}
      [] at[r] \in Checks \cup {"extraction"} /\ step[r] = "judged" -> {"judged", "returned"}
      [] ~Storable(r) -> {"enter"}
      [] OTHER -> {step[r]}

Forfeits(r, s) ==
    IF at[r] = "ingestion" /\ step[r] = "judged" /\ s = "inserted" THEN picked[r] ELSE {}

\* A node raises: rollback, RUNS.status = "failed".  Every checkpoint up to step s is
\* in the database when ainvoke() returns.
Stops(r, s) ==
    /\ mode' = [mode EXCEPT ![r] = "stopped"]
    /\ step' = [step EXCEPT ![r] = s]
    /\ saved' = [saved EXCEPT ![r] = s]
    /\ found' = [found EXCEPT ![r] = FoundAt(r, s)]
    /\ picked' = [picked EXCEPT ![r] = PickedAt(r, s)]
    /\ forfeited' = forfeited \cup Forfeits(r, s)
    /\ UNCHANGED <<at, alerts, world, db>>

\* The unique constraint refuses a file that another run inserted meanwhile, and
\* refuses it again whenever the run is resumed.
PersistConflict(r) ==
    /\ At(r, "ingestion", "judged")
    /\ \E f \in picked[r] : status[f] # "absent"
    /\ Stops(r, "judged")
    /\ UNCHANGED faults

\* Drive, Postgres, the parser, the model or the mail server raises.
NodeFails(r) ==
    /\ mode[r] = "running" /\ at[r] # "END"
    /\ failures < MaxFailures
    /\ \E s \in OnTheWay(r) : Stops(r, s)
    /\ failures' = failures + 1
    /\ UNCHANGED crashes

\* The backend process restarts: open transactions are gone, and a run that was
\* executing is back at its last stored checkpoint.  Nothing restarts it.
Crash ==
    /\ crashes < MaxCrashes
    /\ \E r \in Runs : mode[r] = "running"
    /\ \E back \in [Runs -> Steps] :
        /\ \A r \in Runs : IF mode[r] = "running" THEN back[r] \in {saved[r]} \cup OnTheWay(r)
                           ELSE back[r] = step[r]
        /\ mode' = [r \in Runs |-> IF mode[r] = "running" THEN "stopped" ELSE mode[r]]
        /\ step' = back
        /\ saved' = [r \in Runs |-> IF mode[r] = "running" THEN back[r] ELSE saved[r]]
        /\ found' = [r \in Runs |-> IF mode[r] = "running" THEN FoundAt(r, back[r]) ELSE found[r]]
        /\ picked' = [r \in Runs |-> IF mode[r] = "running" THEN PickedAt(r, back[r]) ELSE picked[r]]
        /\ forfeited' = forfeited \cup
               UNION {Forfeits(r, back[r]) : r \in {q \in Runs : mode[q] = "running"}}
    /\ crashes' = crashes + 1
    /\ UNCHANGED <<at, alerts, world, db, failures>>

-----------------------------------------------------------------------------
NodeStep(r) ==
    \/ ListNewFiles(r) \/ DedupeCheck(r) \/ PersistFiles(r) \/ PersistConflict(r)
    \/ MoveCursorOnly(r) \/ ReturnsStored(r)
    \/ ReadPending(r) \/ CheckDuplicate(r) \/ MarkVerified(r)
    \/ ParseStatements(r) \/ PersistTransactions(r)
    \/ ReadVerified(r) \/ CheckBalance(r) \/ MarkProcessed(r)
    \/ RuleMatch(r) \/ PauseForReview(r) \/ PersistCategories(r)
    \/ SendAlert(r) \/ Finish(r)

Next ==
    \/ \E f \in Files : Upload(f)
    \/ \E r \in Runs : \/ Trigger(r)
                      \/ NodeStep(r)
                      \/ SaveCheckpoint(r)
                      \/ AnswerReview(r)
                      \/ NodeFails(r)
                      \/ Resume(r)
    \/ Crash

Spec == Init /\ [][Next]_vars

(***************************************************************************)
(* Fairness: the event loop runs a started node to its end, and somebody   *)
(* triggers the runs (by hand today, a weekly cron is planned).  Nobody    *)
(* has to upload a file, answer a review or resume a run.                  *)
(***************************************************************************)
FairSpec ==
    /\ Spec
    /\ \A r \in Runs : WF_vars(NodeStep(r))
    /\ \A r \in Runs : WF_vars(Trigger(r))

-----------------------------------------------------------------------------
(***************************************************************************)
(* Properties of every interleaving.                                       *)
(***************************************************************************)

\* The sync cursor never passes a file that has no statement: whatever runs list,
\* conflict, fail, crash and resume, and whatever else is moved into the folder, a file
\* is skipped for good only if it appeared with an old modifiedTime itself, or if its
\* own INSERT was rolled back when the subgraph had gone on to update_sync_cursor.
CursorNeverSkips ==
    \A f \in drive \ (Moved \cup forfeited) :
        Modified[f] <= cursor => status[f] # "absent"

\* A processed statement has its rows and its balances in the database: neither
\* an empty parse nor a run that never extracted it can make it processed.
ProcessedHasRows ==
    \A f \in Files : status[f] = "processed" => BalancesKnown(f, copies[f])

\* A failed statement is in an alert mail, or a run that is not through will name it: it
\* stands before alert_immediate with the statement in its alert_details, or its check
\* has ended and stored the result.  Nodes may fail and the backend may restart at any
\* point, the one between the commit and the next checkpoint included.
Names(r) == IF at[r] = "alert_immediate" \/ step[r] = "returned" THEN Details(r) ELSE {}

FailureIsReported ==
    \A f \in Files : status[f] = "failed" =>
        f \in alerted \/ \E r \in Runs : mode[r] # "completed" /\ f \in Names(r)

(***************************************************************************)
(* Properties of one run at a time, as docs/11 describes the schedule, and *)
(* attended: a run that failed or was cut off is resumed before another    *)
(* one executes, or not at all.                                            *)
(***************************************************************************)

\* A processed statement still balances over all rows stored for it, also those
\* an interrupted run stored before: downstream sums can trust it.
ProcessedIsBalanced ==
    \A f \in Files : status[f] = "processed" =>
        BalancesKnown(f, copies[f]) /\ Consistent(f, copies[f])

\* Seen from the tables and the mailbox, every node is one indivisible step on the
\* book of statements, or none: a verdict is the one that the rows stored when it is
\* written call for, it is never taken back, and an alert names only statements that
\* are failed or whose check, made now, would fail them, across node failures, lost
\* commits, restarts and resumes in the middle of a subgraph.
Book == INSTANCE StatementBook WITH mailed <- alerted

ImplementsBook == Book!Spec

\* No statement becomes verified beside one verified or processed before it with
\* an intersecting period (a consequence of ImplementsBook).
NoLateOverlap ==
    [][\A f, g \in Files :
        /\ f # g /\ Overlaps(f, g)
        /\ status[f] # "verified" /\ status'[f] = "verified"
        => status[g] \notin {"verified", "processed"}]_vars

(***************************************************************************)
(* Liveness under FairSpec, without failures or crashes.                   *)
(***************************************************************************)

\* No statement is stranded: an ingested one gets its pre-check verdict, and a run
\* that enters extraction settles every statement verified by then, also those an
\* earlier run left behind when another statement of its batch failed.
NoneIsStranded ==
    \A f \in Files :
        /\ status[f] = "pending" ~> status[f] # "pending"
        /\ \A r \in Runs :
            At(r, "extraction", "enter") /\ status[f] = "verified"
                ~> status[f] \in {"processed", "failed"}

(***************************************************************************)
(* What the documents claim and the code does not keep (see the README).   *)
(***************************************************************************)

\* docs/01, lines 151-152: checksum and drive_file_id together prevent one
\* statement from being processed twice.  At least its rows are stored once.
ExtractedOnce == \A f \in Files : copies[f] <= 1

\* master.py, lines 61-62: _ingestion_node commits only if the whole subgraph succeeds.
\* So where the cursor has moved to, the listed files have their statements.
IngestedWhole == \A f \in drive \ Moved : Modified[f] <= cursor => status[f] # "absent"

=============================================================================
