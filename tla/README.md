# ai-finance-agent in TLA+

A TLA+ development for ai-finance-agent: a LangGraph pipeline, run by a FastAPI
backend, that reads bank statements from Google Drive, verifies them, extracts and
categorises their transactions, and mails reports. The modules model the code under
`src/backend/src/finance_agent`; TLC checks them on small instances, TLAPS proves the
safety properties for every value of the constants. Paths below are relative to
`src/backend/src/finance_agent` unless they start with `src/`.

| module | what it is |
| --- | --- |
| `Statements` | what the files of the Drive folder hold, and the two judgements on them (overlap, balance) |
| `StatementBook` | the abstract specification: a book of statements that each node changes in one step |
| `StatementPipeline` | the nodes ingestion, pre-check, extraction, post-check and the alert, over the life of a statement; implements `StatementBook` |
| `StatementPipelineProofs` | its theorems, the refinement among them |
| `Parser` | row by row from the words of a PDF to transactions, and what the balance check can tell about them |
| `ParserProofs` | its theorems |
| `Categorization` | the categorization subgraph: rules, model, review, learned rules, snapshots |
| `CategorizationProofs` | its theorems |
| `RunRecord` | the abstract specification: the record of runs, in which every thread has one job |
| `RunLifecycle` | the life of a run between HTTP handlers, background tasks, `RUNS` and checkpoints; implements `RunRecord` for an attentive client |
| `RunLifecycleProofs` | its theorems |
| `FixedCosts`, `Investment` | pure algorithms: the greedy match of payments to fixed costs; the arithmetic of a recommendation |
| `ReportTables` | the tables by which the nodes from fixed costs to email delivery communicate, and what they look up there |
| `ReportBook` | the abstract specification: each of these nodes acts on the tables in one step |
| `Downstream` | these nodes as they run, over the same tables; implements `ReportBook` if runs do not overlap |
| `DownstreamProofs` | its theorems |
| `Cashflow` | the figures of week and month, computed twice by every run, and the monthly comparison |
| `SumTheorems` | lemmas: sums over finite sets |
| `CashflowProofs` | its theorems |
| `MC...` | instances of the six for TLC; each `.cfg` is one run |

`tlc -config <run>.cfg MC<module>` repeats a run, `tlapm <module>Proofs.tla` the proofs.

## Inventory

| component | state it keeps | operations | interacts with |
| --- | --- | --- | --- |
| HTTP API (`api/routes.py`) | none; writes `RUNS` | trigger, resume, delete; GET of state, history, reviews, cash flow | starts background tasks, reads checkpoints |
| Run driver (`graph/runner.py`) | `RUNS.status` | mark running, drive the graph, mark the outcome | checkpointer, master graph |
| Master graph (`graph/master.py`) | `verification_ok`, `alert_details` in the checkpoint | ten nodes, two routes; one database session for each node | the subgraphs, Drive, SMTP |
| Checkpointer (LangGraph, Postgres) | one checkpoint for each step of a thread | put, get, delete a thread | run driver, API |
| Ingestion | `STATEMENTS`, `ACCOUNTS.last_synced_at` | list, dedupe, download, insert, move the cursor | Drive |
| Verification, before and after extraction | `STATEMENTS.status`, periods | read, compare periods, compare balances, mark | Drive, `TRANSACTIONS` |
| Extraction and parsers | `TRANSACTIONS`, balances | parse, insert | Drive |
| Categorization | category, source, confidence and review status of a transaction; `CATEGORY_RULES` | match rules, ask the model, gate, interrupt for review, store and learn | LLM, reviewer |
| Fixed costs, cash flow, investment, reporting | `matched_fixed_cost_id`, `CASHFLOW_SUMMARIES`, `INVESTMENT_RECOMMENDATIONS`, `REPORTS` | each selects the latest processed statement and works on it | each other, through tables only |
| Email delivery | `REPORTS.delivery_status` | render, send with retries, mark | SMTP |
| Frontend | what a page has loaded | trigger, review, delete | API |

What is hard about it:

* **Nothing owns anything.** Runs communicate through tables. A node selects its input
  by a status that other runs also change, and holds no lock between reading and writing.
* **Two commits for one step.** The checkpointer works over a connection of its own. A
  node's subgraph stores a checkpoint after each of its nodes, the last one included, and
  only then does the session commit what they have written. If that commit, or anything
  before it, fails, the tables go back to the start of the node and the checkpoints do not:
  a resume goes on behind the last of them, with what was read before the failure.
* **Pauses.** `human_review` interrupts a run for as long as the person likes; on resume
  the run writes back what it read before.
* **Requests that nothing serialises.** A resume is accepted in any status of the run and
  starts another background task.
* **Failures in a batch.** One bad statement ends the run for all the others in its batch.

What makes each part correct, and where the statement of it lives:

* statements: none is lost by the cursor (`CursorNeverSkips`); every node acts like one
  indivisible step on the book of statements (`ImplementsBook`: verdicts are final and each
  is the right one for the tables it is stored in), verdicts rest on evidence
  (`ProcessedHasRows`, `ProcessedIsBalanced`), are reached (`NoneIsStranded`) and, if they
  are bad, reported (`FailureIsReported`);
* parsing: a sound PDF becomes the entries it prints (`ReadAsPrinted`) and passes the
  check (`SoundPasses`); a misprinted one keeps its order (`OrderKept`), takes no number from
  the summary (`NothingFromSummary`), and what passes has no gap (`ConsistentIsGapless`);
* categories: what a person said stays and is learned (`ConfirmationStands`,
  `ConfirmedIsLearned`), nothing is unlearned (`CategorisedStays`), what claims to be sure
  is (`AutoIsConfident`), and every selected row is judged (`SelectedIsJudged`);
* runs: a status is backed by work and settles (`RunningIsBacked`, `RunningSettles`), says
  the truth afterwards (`SettledIsTruthful`), deletion meets no work and is final
  (`NoDeleteUnderTask`, `DeletedStaysDeleted`), and the handlers and tasks of a thread act
  like one job (`ImplementsRecord`);
* reports: each has a run that will mail it (`PendingHasCarrier`) and is settled
  (`PendingIsSettled`), sent means delivered (`SentWasMailed`), and once (`MailedOnce`);
  a run that nothing disturbs tells one story (`OneStory`), and a recommendation belongs to
  the report that shows it (`ShownIsAttached`); whatever failed or was restarted before, each
  node acts on the tables like one indivisible step, if runs are resumed in time
  (`ImplementsReportBook`);
* money: a fixed cost called missing is unpaid (`MissingIsUnpaid`), the closest payment is
  shown for it (`ClosestIsShown`); a proposal is covered by surplus and balance
  (`ProposalCovered`) and its parts add up (`AllocationAddsUp`); the surplus of a week or
  month leaves out no row and its categories add up (`EveryRowCounts`), months are made of
  weeks (`RollingFollowsWeeks`) and compare with the report that was sent
  (`ComparisonIsLastMonth`).

`PROJECT.json` lists the components with what is and is not modelled, every hazard at its
line, the source lines behind every definition, and for every property a mutant of the
code that breaks it.

## Common conventions

A run is identified with its `thread_id`. A node of a graph is one or more actions: what
it SELECTs, what it decides, and its commit. READ COMMITTED isolation makes other runs'
commits visible between them. What one node does within one transaction, with no read in
between, is one action.

LangGraph is modelled as the code uses it. Every subgraph is compiled without a checkpointer
and therefore inherits the one of the run (master.py:187-192 says it of categorization; it
holds of all of them). So:

* after each nested node a checkpoint is stored, while the next one already runs
  (`SaveCheckpoint` may come late, and a restart may come before it); when a subgraph ends or
  a node raises, the pending ones are stored first, and the session commits or rolls back
  afterwards;
* a resume (`Resume`) enters the node's function anew, with a new session, but its subgraph
  goes on at the nested node that has not been stored as finished, with the selections and
  results of those that have. `step` says where that is, `found`, `picked`, `items` or `mem`
  what is stored;
* what the finished nested nodes had written and the session had not committed is gone, and
  nobody writes it again. `"inserted"` is the step behind persist_metadata with its INSERTs
  lost, `"returned"` the one behind the end of a subgraph with its commit lost: the node then
  only returns what the subgraph has stored (`MoveCursorOnly`, `ReturnsStored`, and in
  Categorization `CommitFails`);
* a process restart (`Crash`) loses everything but tables and checkpoints; nothing restarts
  the runs, only a resume does.

The constant `Attended` says when runs are resumed. If it is TRUE, a run that failed or was cut
off is resumed before another run executes, or never: once another has executed, it is
*overtaken*. If it is FALSE, it may be resumed at any time, with whatever it selected before.
The code does not refuse that, and then cannot keep what it promises with `Attended`: a run that
failed at persist_transactions stores a second copy of a statement that another run has
processed since, one that failed at mark_result writes a verdict over a later one, and one
that failed at persist_report reports what is no longer current. With
`Attended = FALSE` in `pipeline_restart.cfg` and `downstream_alone.cfg`, TLC finds
`ImplementsBook`, `ProcessedIsBalanced` and `ImplementsReportBook` violated within seconds.

Data are abstracted to what the properties tell apart: a PDF is a set of constants (what
`read_statement` and the parser make of it, its period, its sums), a confidence is above
or below the threshold, a category is its name.

Assumptions:

* a file's `modifiedTime` does not change; files other than those of the constant `Moved`
  appear in the folder in its order, all different;
* there is one account, and the Drive folder is configured;
* `upsert_run_status` with its commit, and `resume_run`'s read with its commit, are atomic:
  their SELECT and UPDATE of one row are a few milliseconds apart;
* a resume of a run that failed does not answer a review: the value it carries is consumed
  by the first step after it;
* a resume of a run that was cut off before its first checkpoint fails (`Invoke` of
  `RunLifecycle`). `StatementPipeline` lets it begin at its first node, which is no more than
  what a run triggered then could do.

## StatementPipeline

**State.** `drive` is the folder; `cursor` is `accounts.last_synced_at`; `status` and
`copies` are the statements and how often their rows are stored; `alerted` is the mailbox. A
run has a `mode`, a node (`at`) and a `step` in it, what the node selected (`found`) and passed
(`picked`), its `alert_details` (`alerts`) and the last step that is stored (`saved`).
`forfeited` remembers the files whose INSERT was rolled back behind persist_metadata.

**Actions.** Each node is read, decide, commit: `ListNewFiles`, `DedupeCheck`,
`PersistFiles` (or `PersistConflict`, the unique key) for ingestion; `ReadPending`,
`CheckDuplicate`, `MarkVerified`; `ParseStatements`, `PersistTransactions`; `ReadVerified`,
`CheckBalance`, `MarkProcessed`; `RuleMatch`, `PauseForReview`, `AnswerReview`,
`PersistCategories` for the part of categorization that matters to statements;
`SendAlert`. A file of `Moved` may appear after files with a later `modifiedTime` (moved into
the folder); ingestion then never lists it, and `CursorNeverSkips` says that no other file
shares its fate, but for those in `forfeited`. Around them `Trigger`, `SaveCheckpoint`, `Finish`,
`NodeFails`, `Crash`, `Resume`; `MoveCursorOnly` and `ReturnsStored` are what is left to do in
some resumes. `Stops` puts a run at one of the steps where its exception may have come
(`OnTheWay`) and undoes nothing else, since a node writes only in its commit.

**Runs.** Three files, because a hazard involves a good statement, one that conflicts
with it and one that fails differently; two or three runs, because every hazard found
needs at most one run that fails and one that comes after.

| run | instance | shows |
| --- | --- | --- |
| `pipeline_restart` | *Mixed*, 3 runs, one at a time, 1 failure, 1 restart | attended runs implement `StatementBook`, processed statements balance over all stored rows, and no failed statement is forgotten between verdict and mail |
| `pipeline_overlap` | *Bare*, 2 fair runs interleaving, file 1 moved in late | the cursor, and what verdicts rest on, survive free interleaving; every ingested statement is judged, every verified one settled |
| `pipeline_reextract` | *Mixed*, 2 runs, 1 failure | violation of docs/01:151-152: rows stored twice |

The instance *Mixed* has a good statement, one with an overlapping period that loses a row
in parsing, and a scan without text; *Bare* has a format without running balances and a
file with rows but no readable period.

**The book.** `StatementBook` has the statuses, the copies of the rows and the mailbox, and
five indivisible steps: `Register`, `Verify` (judge all pending statements against what is
verified or processed), `Extract`, `Settle` (judge all verified statements by the rows stored)
and `Alert` (name statements that have failed, or whose check failed and would fail again:
the commit of a verdict may be lost behind its stored result, and the alert goes out all the
same). The pipeline maps `alerted` to `mailed` and commits to these steps; reads, checkpoints,
failures, restarts and resumes are stutters. What the book
rules out: a verdict from a snapshot that no longer holds, rows of a statement that was not
verified, a status that goes back, a mail about a statement that nothing is wrong with. A statement
that is verified beside an overlapping one (`NoLateOverlap`) is a consequence.

`OneAtATime` restricts a run to no other executing; docs/11:71-72 promise exactly
that of the schedule. `ProcessedIsBalanced` and `ImplementsBook` need it and `Attended`: with
runs that overlap, or are resumed late, two nodes judge the same statement. Paused runs do not
count as executing and are resumed with their old snapshots.

**Fairness.** `FairSpec` has weak fairness of every run's nodes (the event loop runs a
started coroutine on) and of triggers (the schedule). Nothing obliges anyone to upload,
answer or resume. The run of the liveness properties has no failures or restarts, because
nobody needs to resume a failed run.

## Parser

**State.** The PDF as far as it has been read: the entry whose rows are coming (`block`), what
it has yet to print (`due`), the `section` of the page; the parser's `current` transaction, the
finished `transactions`, their `sum`, and the `verdict` of finalising and of the balance check.

**Actions.** One step is one row (`cluster_words_into_rows`): a cell holds what its words stand
for, so that a transaction shows where its values came from. `EntryRow`,
`EntryRowWithoutAmount`, `NumbersRow`, `TextRow`, `PageRow` and `SummaryRow` are the rows a PDF
has according to the parser's tests and comments (external); `Reads` is what the parser makes
of each (`_reclaim_amount_from_opis`, `_is_non_transaction_row`, `_finalize`, the continuation
rules, or the generic line parser), `EndOfPdf` the last `_finalize`, `persist_transactions`'
balances and the check on them. Up to `MaxMisprints` rows have their words in another column,
or a title that reads like a footer.

| run | instance | shows |
| --- | --- | --- |
| `parser_misprints` | 4 entries, at most 2 misprinted rows; `NoCoincidence` holds of their amounts (`AmountsAssumption`) | all six properties |

Four entries have an oldest, a newest and two whose loss leaves a gap; two misprints can
damage two entries or one twice.

What the check cannot see: entries lost at either end, and the amount of the oldest
transaction, since the opening balance is derived from it (extraction/nodes.py:117-120); a
statement with one transaction always passes. `ConsistentIsGapless` therefore excludes the
ends and the oldest amount. Nor can it see misread numbers that happen to add up:
`NoCoincidence` says of the printed amounts and balances that no way of losing entries and
misreading amounts that the parser has (`Misreadings`: an amount is its own entry's number or
that of an older one) adds up to the change of the account. TLC evaluates it on the instance.
The entries' labels and details inside `opis` are not modelled.

## Categorization

**State.** `present`, `category`, `source`, `confidence`, `review` are the columns of
`TRANSACTIONS`; `rules` is `CATEGORY_RULES`. A run has `mode`, `node`, the `batch` it
selected, the `items` of its graph state, and, inside `persist_category`, the rows and
rules it has `read` and `known`.

**Actions.** `SelectUncategorised` and `MatchRules` (rule_match's two SELECTs), `LlmClassify`,
`ConfidenceGate`, `NothingToReview` or `Interrupt` and `AnswerReview` (human_review), `LookUp`
and `PersistCategory` (persist_category). An UPDATE sets only the columns whose value differs
from the one read (`Assigned`, SQLAlchemy's unit of work), so a stale read can leave a mixture
of columns; `RuleConflict` is the unique key of the rules. `CommitFails` is a commit lost behind
the stored end of the subgraph: the run goes on and nothing of it is in the tables. The model's
answers and the reviewer's decisions are arbitrary; decisions may leave items out and, where
`Names` is larger than `Categories`, name no category.

**Runs.** Two transactions and two runs: a property here is about one row written by two
runs, or one rule learned from two rows (`OneKey`), or not (`OwnKey`). One category where
only presence matters, two where a change must show.

| run | instance | shows |
| --- | --- | --- |
| `category_free` | runs interleave, 1 failure, 1 restart | a confirmed row has category and rule, no category is lost, and what was confirmed before a run started that run leaves alone |
| `category_paused` | fair, one executes at a time, any number paused, unknown names allowed | a stale snapshot never makes an unsure category look automatic; every selected row is judged or queued |
| `category_decision` | 1 run | violation of docs/06:59-64: the model's tentative category beats the person's correction |

`Overlap` says how far runs overlap. `AutoIsConfident` does not hold when nodes
of two runs interleave freely: both read the row, one stores a low-confidence suggestion
for review, the other an automatic one, and each UPDATE sets the columns that differ from
the common read. `ConfirmationStands` speaks, for any interleaving and with failures and
restarts, of the rows that were confirmed when a run started (the history variable
`settled`): a run that selected the row before it was confirmed may still overwrite it.

**Fairness.** As above, of a run's nodes and its start; nobody has to answer a review.

## RunLifecycle

**State.** `row` is `RUNS.status`, `summary` the rows of `CASHFLOW_SUMMARIES` (whose
foreign key refers to `RUNS`), `point` where the latest checkpoint of a thread stands. Each
request has a `kind`, a `thread`, a `pc` through its handler and its background task, and the
position `pos` of the graph that its task drives. `issued` and `deleted` remember what
clients were told.

**Actions.** `TriggerRun`; `AcceptResume`, `AnswerResume`; `CheckDelete`,
`DeleteCheckpoints`, `DeleteRow` (two connections, one await between each); the task:
`MarkRunning`, `Invoke`, the graph (`Categorise`, `Alert`, `Cashflow`, `Report`, `Pause`,
`Return`, `SaveCheckpoint`), `MarkFailed` or `MarkOutcome`. Failures: `NodeFails`;
`CashflowRefused`, the foreign key; `Outage`, Postgres out of reach outside the graph's
`try`; `Crash`.

The constant `Client` says what clients do: a *free* one sends anything at any time, a
*patient* one waits for each answer, an *attentive* one also resumes only a run that the
list does not show as running.

| run | instance | shows |
| --- | --- | --- |
| `runs_free` | 1 thread, 3 free fair requests, 1 failure | a running run always has something that will settle it, and settles |
| `runs_attentive` | 2 threads, 5 requests, failure, outage, restart | deletion meets no task and is final; until outage or restart a settled status agrees with the checkpoint; each thread implements the one job of `RunRecord` |

**The record.** `RunRecord` knows no requests and no tasks: a thread is triggered once, a
resting one may be resumed, a running one advances its checkpoint, stores its summary (before
its checkpoint passes cashflow_calculation) and settles with the status that its checkpoint
tells; a resting one may lose its checkpoints and then its row. What it rules out: a status
that does not agree with the checkpoint, checkpoints that move back or come back after the
deletion, a row or a summary that comes back, a deletion of what is not at rest. The handlers
and tasks of an attentive client implement it (`ImplementsRecord`), through failures, outages
and restarts, after which a job may stand still for good. The refinement mapping is the identity
on the tables; the requests are what it hides.

The stories need trigger, resume, delete and at most two more requests on one thread;
threads share nothing here, and two are used once to check that. `runs_free` has three
requests because a liveness property admits no symmetry; its invariant is proved.

`RunningIsBacked` and `RunningSettles` are stated without outages and restarts: after
either, a run may stay running for ever, which the code has no answer to (no start-up
scan) and no document denies. `SettledIsTruthful` is stated until the first of them, for an
attentive client: with two tasks the last one to finish decides the status.

**Fairness.** Weak fairness of each request's next step once it has been sent. A failure
is never obliged to happen, nor a request to be sent.

## Downstream

**State.** The tables, in `ReportTables`: `processed` (the statements that may be selected), `settings`,
`matched` (`transactions.matched_fixed_cost_id`), `summary` (a run's row of
`CASHFLOW_SUMMARIES`), `recs` and `reports`, sequences in the order of `created_at`. A report
has its `copies` in the mailbox. A run has `mode`, node (`at`), `step`, the node's local data
(`mem`) and the last step that is stored (`saved`). `disturbed` remembers the runs that met
another run, a new statement, a failure or a restart while they executed, `unsettled` the
reports whose verdict was rolled back behind handle_result.

**Actions.** `LoadFixedCosts`, `MatchTransactions`, `PersistReconciliation`;
`AggregateIncomeExpense`, `ApplyFixedCostsStatus`, `UpsertCashflowSummary`; `CheckSafetyBuffer`,
`AssessTrend` (with the proposal and the model's answer), `PersistRecommendation`;
`DetermineReportTypes`, `RenderReports`, `PersistReport`; `RenderFinalPayload`, then for every
mail `SmtpAccepts`, `SmtpRefuses` or `SmtpAnswerLost`, `SmtpDone` and `HandleResult`. `Arrive`
is the first half of some run that makes a statement processed, and overtakes whoever has
stopped. `Trigger`, `Resume`, `SaveCheckpoint`, `Finish`, `NodeFails`, `Crash`, `ReturnsStored`
as above. A resume of cashflow_calculation always repeats the upsert, which is not in the
subgraph, and one amid the mails sends them all again, because send_smtp is one nested node.

`FixedCosts` and `Investment` have no state. `Matches` is the set of all results of the
greedy match: the costs come in any order, and any of the closest payments may be taken,
since no SELECT has an ORDER BY. `Investment` counts in grosze and tenths of a percent; an
average is kept as a fraction until the code rounds it, half up by the column and half to
even by `quantize`.

| run | instance | shows |
| --- | --- | --- |
| `downstream_alone` | 2 runs, one at a time, 2 statements, 3 payments, 2 costs, 1 failure or restart | one story, the match, amounts, mails of runs that nothing disturbs; the carrier and the amounts for all runs; every node acts like a step of `ReportBook` |
| `downstream_overlap` | 2 fair runs interleaving, 1 statement, 1 lost answer of the mail server | sent and attached reports under free interleaving; every report is settled |

**The book.** `ReportBook` has the tables and nothing else. `Reconcile`, `Summarise`,
`Recommend` and `Report` act on what is current at that moment; `Deliver` brings a copy of a
report that waits for a verdict to the mailbox, `Settle` gives all that wait their verdict, and
calls sent only what has arrived. The nodes commit to these steps (`PersistReconciliation`,
`UpsertCashflowSummary`, `PersistRecommendation`, `PersistReport`, a mail that arrives,
`HandleResult`); whatever they read, judge, retry, checkpoint or forget in a failure is a
stutter. What the book rules out: a commit of what is no longer current, a page with another
recommendation than the latest without a report, a mail of a report whose verdict has fallen,
a verdict that is taken back, or one that some of the waiting reports do not get. What it
allows and a reader may not expect: after a lost commit a run goes on without a match, a
recommendation, a report or a verdict, and a report can arrive more than once. The refinement
needs `OneAtATime` and `Attended`: of two runs that overlap, one reports and mails what the
other has just changed, and a run resumed late stores what it read before others executed.
`PendingHasCarrier` needs neither, but speaks of no report in `unsettled`: such a report has no
run left that wrote it, and waits for whichever run mails the queue next.

Two runs are enough for one to leave something that the other finds: a report, a
recommendation without report, a payment matched already. In the first statement the order
of the costs decides who gets the payment of 75, a third payment is left for a second match,
and the buffer binds; the second ends a month, has no payments, and its surplus is an
outlier. Two answers of the model, one accepted at 100.2 percent and one refused, stand for
all, besides the equal split. Overlap without failures is a run of its own because both
together are too large, and its properties are proved with both.

**Fairness.** `FairSpec` has weak fairness of every run's nodes and of nothing else: nobody
has to trigger or resume, and the mail server may refuse every mail.

**Abstractions.** `settings` is present or absent for good, and a processed statement's
categories, surplus and closing balance do not change. Statements are numbered by `period_end`,
all different. Insert and commit of a recommendation are one action, so that its number is its
`created_at`. render_weekly's own cash-flow graph is one step, whose resume reads anew; it could
only have other figures if another run executed in between. Mails go out by number; their order
matters to nothing. A third of a percentage (33.33...) is an exact third. `Instruments` is not
empty: the code would divide by zero, and the seed script, which nothing else replaces, does not
check. `MaxInterruptions` bounds failures and restarts together; after the last one no
checkpoint is stored, because only a restart reads it.

## Cashflow

**State.** The tables: `processed` statements, `category` and `review` of a row. A run has a
point in its two nodes (`at`) and their local data (`mem`); `summary` is its row of
`CASHFLOW_SUMMARIES`, `reports` its weekly report together with the monthly one, if it got
one. Figures remember which statements were processed when they were read (`seen`).

**Actions.** `Aggregate`, `Roll` and `Upsert` for cashflow_calculation; `Determine`, `Recount`,
`Reroll`, `Compare` and `Persist` for reporting, which computes everything once more. Each is one
SELECT of the code with what follows from it; of several statements with the latest
`period_end` any may be selected. `Process` (mark_result) and `PersistCategory` are what other
nodes and other runs do in between; what they do and why is the subject of the modules above,
from which nothing is assumed but that the dates of a statement's rows lie in its period
(`PeriodAssumption`). Periods may intersect, since two overlapping statements of one batch both
pass verification. `CalendarAssumption` says that the calendar has a month before and after
every statement, and tables are finite (`CashflowAssumption`).

That a statement balances is no assumption and no claim here: `EveryRowCounts` says that the
surplus is the sum of the statement's rows. With `ProcessedBalanced` of the pipeline it is the
change of the balance, under the assumptions of that theorem.

| run | instance | shows |
| --- | --- | --- |
| `cashflow` | 2 runs, 3 statements around the end of January and February, 5 rows | the three properties, for figures stored and figures mailed |

The first statement ends on the last day of January; the second begins on the first of
February; the third ends on its last day and intersects the second. There are rows on first and
last days of months and statements and one in the intersection, income and expenses. Earlier
runs have categorised the first two statements, and each of them may be processed from the start
or become so while the runs compute; without a processed statement the nodes do nothing
(`NothingToDo`). The third is categorised and confirmed meanwhile. Two runs are needed because a
property compares figures of two. One category, besides none, is enough for sums.

`RollingFollowsWeeks` leaves aside the figures whose last day cuts another statement's period
(`CutsNone`): the month, read by date, then has some rows of that statement and not others.

A run that fails in one of these nodes is rolled back and stops where it is. Rows are whole
grosze; days are numbered through. The number of rows waiting for review, which the mail
shows, is left out.

Three things that follow from the code and that no property forbids: if a run processes two
statements at once, only the later one gets a weekly report, and the earlier one counts in the
rolling month only; the days of a month after its last period_end are in no monthly report of
that month, only in the next one's comparison (docs/11:74-77 speak of the first run after the
end of the month, reporting/nodes.py:77 of the days that remain); and if another run processes
a statement between determine_report_types and render_weekly, the monthly report is decided
for one statement and made for another.

## Proofs

| theorem | assumes | statement |
| --- | --- | --- |
| `StatementPipelineProofs!TypeCorrect` | | types |
| `CursorSafe` | | `CursorNeverSkips` (which excludes `forfeited`) |
| `ProcessedNeverEmpty` | | `ProcessedHasRows` |
| `Refinement` | `OneAtATime`, `Attended` | `ImplementsBook` |
| `ProcessedBalanced`, `OverlapRefused` | `OneAtATime`, `Attended` | `ProcessedIsBalanced`, `NoLateOverlap` |
| `FailureReported` | | `FailureIsReported`, with failures, lost commits and restarts |
| `CategorizationProofs!TypeCorrect` | | types |
| `AutoConfident` | `Overlap # "free"` | `AutoIsConfident` |
| `ConfirmedLearned` | decisions name categories | `ConfirmedIsLearned` |
| `CategoryStays` | | `CategorisedStays` |
| `ConfirmedForGood` | decisions name categories | `ConfirmationStands` |
| `RunLifecycleProofs!TypeCorrect` | | types |
| `RunningBacked` | no outages, no restarts | `RunningIsBacked` |
| `DeleteSafe`, `DeletedGone`, `StatusTrue` | an attentive client | `NoDeleteUnderTask`, `DeletedStaysDeleted`, `SettledIsTruthful` |
| `Refinement` | an attentive client | `ImplementsRecord` |
| `DownstreamProofs!TypeCorrect` | | types |
| `PendingCarried` | | `PendingHasCarrier` (which excludes `unsettled`) |
| `SentMailed`, `AttachedShown` | | `SentWasMailed`, `ShownIsAttached` |
| `ProposalSafe`, `AllocationSafe` | | `ProposalCovered`, `AllocationAddsUp` |
| `MailedAtMostOnce`, `ClosestShown` | no run disturbed (in the properties) | `MailedOnce`, `ClosestIsShown` |
| `StoryIsOne` | the run is not disturbed (in the property) | `OneStory` |
| `MissingUnpaid` | `Attended`; the run is not disturbed (in the property) | `MissingIsUnpaid` |
| `Refinement` | `OneAtATime`, `Attended` | `ImplementsReportBook` |
| `OneMonthEnd` | statements that end every seventh day | exactly one of a month counts as its end |
| `ParserProofs!TypeCorrect` | | types |
| `OrderIsKept`, `SummaryStaysOut` | | `OrderKept`, `NothingFromSummary`, whatever is misprinted |
| `ReadsAsPrinted`, `SoundStatementPasses` | no misprints (in the properties) | `ReadAsPrinted`, `SoundPasses` |
| `ConsistentHasNoGap` | `NoCoincidence` | `ConsistentIsGapless`, whatever is misprinted |
| `CashflowProofs!TypeCorrect` | | types; every amount is a sum over rows |
| `EveryRowHolds`, `RollingHolds`, `ComparisonHolds` | | `EveryRowCounts`, `RollingFollowsWeeks`, `ComparisonIsLastMonth` |

All of them rest on the assumptions about constants that their modules name; TLC evaluates
these on every instance.

None of the invariants is inductive alone.

* **Cursor.** What a run between listing and inserting has `found` is exactly the files
  beyond some cursor, so that everything not later than its latest file is in the table or
  among those to be inserted, whatever other runs do to the cursor meanwhile. A run that has
  only the cursor left to move has forfeited what it does not insert.
* **Verdicts of overlapping runs.** `found` and `picked` are claims about the table that
  other runs can only confirm: rows are never deleted, and what was read as known stays so.
* **One at a time, attended** (`SeqInv`). Only one run is executing or may still be resumed
  (`OneLive`), so what it selected, before a failure or after it, is still exactly what the
  table would give it, and what it passed is what the book would pass now (`Current`). So a
  commit is a step of the book; every other action leaves the book's variables alone, and a
  mail names only what its check has failed or, if that commit was lost, would fail again
  (`AlertsCurrent`).
* **Reports.** The results of a check are stored before its verdicts are committed, and the
  alert details that are made of them before the next node: so whatever stops the run, it
  still names what has failed (`Names`).
* **Categories.** An item is *sound*: it carries a category or asks for review, an
  automatic one a confident source. What `persist_category` has read is backed by the table
  (categories and rules are never taken away), which gives `ConfirmedLearned` and
  `CategoryStays` for free interleavings; and it is fresh if runs execute one at a time,
  which gives `AutoConfident`. For `ConfirmedForGood` (`Apart`): what had been confirmed when a
  run started has a category, nobody takes it away, so the run never selects the row.
* **Parsing.** The layout (`Layout`) says which rows may come next. Dates grow along
  `transactions` and `current` (`Ordered`); the first row of the summary closes the open
  transaction, so its numbers meet none (`Summaryless`); without misprints the transactions
  are the printed entries and their sum telescopes over the printed balances (`Sound`), which
  is why no induction over the data is needed.
* **Gapless statements.** A transaction's balance is its own entry's or was never read
  (`ParserProofs` shows which cells can get where), its amount its own entry's or that of an
  older entry whose date was lost in its block. So a parsed statement is one of the
  `Misreadings` over which `NoCoincidence` quantifies, and if it passes the check, it is the
  one without a gap.
* **Sums** (`SumTheorems`). The sum over a finite set is defined by recursion over it, which
  the provers cannot be asked to do an induction on. But a set that violates what is to be
  shown would have a smallest subset that does (`SmallestSubset`), and that one plus or minus
  one element is not a violation: so sums exist, do not depend on the order, and add up over
  disjoint sets and over the classes of a function (categories).
* **Figures.** Every figure remembers which statements were processed when it was read
  (`seen`), and is right for those (`FiguresRight`), whoever holds it: the run's memory
  (`MemRight`), the table (`SummaryRight`), a report (`ReportsRight`). What is processed or
  confirmed later changes no figure and no row of what was seen. The properties then compare
  sums over sets of rows: those of one statement more (`OneMoreWeek`), or of the same month
  seen twice.
* **Runs.** Each running row has a request that has not marked an outcome. For an
  attentive client, a thread has at most one request in a handler or task, and the row says
  running from its acceptance to its end (`OneRequest`); what that request leads to is what its
  checkpoint will show (`OnCourse`), so the status is true when it has settled.
* **The record.** Every action of a request maps to the step of the record its effect has
  (`RecordStep`). That needs of the request on duty that its task stands at or behind what
  the checkpoint says (`Progress`), that the summary is stored once it is past
  cashflow_calculation, and that a deletion under way finds the run at rest (`JobInv`); a
  thread's other requests touch nothing (`JobFrame`).
* **The book of reports** (`Solo`). Only one run executes, and it is up to date: what it has
  read is what the tables would give it now (`ReadIsCurrent`), what it has chosen, proposed
  or rendered is what they would let it choose (`JudgedIsCurrent`), and the mails it has in
  hand, sent or failed are all the reports that wait for a verdict (`HandlesPending`). A
  commit is then the step of the book (`ReconcileIsBookStep` and its neighbours). All this
  holds of a run that has stopped as well, until another one executes.
* **Carriers** (`Carrying`). The run that wrote a pending report has not reached the end; once
  it has read the queue, the report is in its outbox or among its results as long as it is
  pending. So it cannot leave the node without marking it, unless it only returns what it has
  stored: then the report is in `unsettled`.
* **Sent mails** (`Mailing`). What a run counts as sent has arrived, and copies are never
  taken back, so that marking it late is still true.
* **Recommendations** (`Attaching`). The recommendation that a run has rendered exists when
  the run stores its page. If two runs have rendered the same one, the later report takes it
  over, and it shows it as well.
* **Amounts** (`Proposing`). The fraction a run holds is covered by surplus and balance of
  the statement it was computed for, and rounding to the groszy does not lead beyond
  (`RoundedAverage`). There are three parts, so their sum needs no induction.
* **Mailed once** (`Once`). As long as nothing was disturbed, the one run that executes is the
  only one with mails in hand; a report that is in its outbox or pending has not arrived.
* **One story** (`Story`). An undisturbed run executes alone: what a node has read is still
  current (`UpToDate`), its summary is of the current statement, and the recommendation it has
  just made is the latest without a report (`OwnIsLatest`). What is told stays told, since rows
  do not change hands (`SameOrigins`, `SameSubjects`).
* **Missing payments** (`Paying`). What holds of every result of the greedy match, whatever the
  order of the costs (`GreedyMatch`), holds of the table afterwards: a cost without a
  transaction leaves none of its category unmatched (`Thorough`), and no plan that another run
  may still store claims one, because an overtaken run is not resumed.
* **Closest payments** (`Fresh`). The first run on a statement finds all its rows unmatched, so
  its matches are the closest; later runs only shrink the set of rows a cost could have.

One assumption is about the encoding and not the code: `NoneIsNoRow`, that NULL is neither a
row nor a proposal.

Only model-checked: the liveness properties (`NoneIsStranded`, `SelectedIsJudged`,
`RunningSettles`, `PendingIsSettled`), since TLAPS has no proof of them under fairness. Every
other property of a run that is expected to pass is a theorem. The type invariants of
`RunLifecycle` and `Downstream` are proved and not checked by TLC besides.

## Where the code and its documents disagree

Two runs end in the violation of what a document says, and both look like defects:

* `pipeline_reextract`: extraction is not idempotent. A run that fails between extraction
  and post-check leaves its statement verified, the next run stores the rows again, and the
  statement then fails its balance check.
* `category_decision`: a person's correction is ignored, and the wrong rule learned, when
  the model had suggested a category with low confidence.

Two more are stated in the modules, without a run of their own:

* `IngestedWhole` (master.py:61-62, `_ingestion_node` "commits only if the whole subgraph
  succeeds"), violated when it is the invariant of `pipeline_reextract.cfg`: a failure at
  update_sync_cursor rolls the INSERTs of persist_metadata back, the resume moves the cursor
  alone, and the files are never listed again. docs/11:63-65 say that the inheritance of the
  checkpointer concerns no subgraph without interrupt().
* `ReportsAreSettled` (docs/10:64-66), violated when it is an invariant of
  `downstream_alone.cfg`: the commit behind handle_result fails, the resume finds the subgraph
  ended and completes the run; the reports have been mailed, are still pending, and a later
  run mails them again.

A fifth can be reproduced with `Client = "patient"` in `runs_attentive.cfg`, which then
violates `NoDeleteUnderTask` (the comment at api/routes.py:275-278): a resume is accepted for a
run in progress, so a deletion can meet a task. That task then brings the row back when it
stores its outcome.

While modelling, more disagreements showed; the model behaves as the code does, and no
run is spent on them:

* one document uploaded twice and ingested in one batch is processed twice, since
  `check_duplicate` compares with statements already verified and nothing compares
  checksums (docs/01:151-152);
* rows of a statement that failed its balance check are categorised by the next run
  (docs/03:75-76);
* a run that is resumed after others have executed goes on with what it had selected before: it
  may store a second copy of a processed statement, take a verdict back, or report an older
  statement (`Attended = FALSE`, see the conventions);
* if the commit of a node fails behind the end of its subgraph, a resume goes on without what
  the node has written: matches, recommendations, reports, categories and a person's decisions
  are lost without a trace, except that categories are asked for again;
* an item left without a decision is stored with the model's tentative category
  (docs/06:57-59);
* a second run over the same statement matches another payment to a fixed cost that has
  one, and its report may show the later one, although docs/05:38-39 say the closest wins;
  `ClosestIsShown` therefore speaks of the first report on a statement;
* runs that overlap mail the same report twice, and the last to finish may mark as failed what
  was sent; `MailedOnce` speaks of undisturbed runs;
* a proposal of nothing is shown as one: the templates compare `surplus_amount` with `"0"`
  (docs/09), but the column reads back as `"0.00"`;
* a run with unsure items waits for its review as long as it takes (docs/11:130-134);
* rows that continue a transaction after a page break are dropped, because the repeated header
  has ended it, although docs/04 says that nothing is rejected;
* the answer to a resume carries the reviews as they were before the background task moved on
  (api/routes.py:228-241), so the review page offers answered ones again
  (`src/frontend/src/modules/runs/pages/ReviewQueuePage.tsx:69-74`), which its test, written
  against a mock, does not show; a second submission is accepted and changes nothing, or
  overwrites what the first decided;
* answers to two requests for the list of runs may arrive in the wrong order
  (`src/frontend/src/modules/runs/pages/RunsPage.tsx:63-67`), so a deleted run can reappear on
  the page.

## Not modelled

* GET endpoints and `schemas.py`, which only read; the LLM client and the settings, which keep
  no state; migrations and seed scripts, run by hand before the system starts. What they
  produce is in the constants.
* The frontend beyond the requests it sends. A page's state is a copy of the last answer; what
  can go wrong with it is listed above, and what a stale page then sends is covered by the
  free client of `RunLifecycle`. Graph view and charts render only.
* LangGraph's own store of checkpoints, beyond what a run finds there.
* Templates and wording of mails; the regular expressions of the parser beyond what they tell
  apart; the labels in a transaction's text.
* `.agents/skills` (vendored). `generate_weekly_thread_id` has no caller.

## Plan

1. Done: the modules above, the refinement of `StatementBook`, and the proofs listed.
2. Done: every safety property is proved, for `Cashflow` and the gapless statements with sums
   over arbitrary finite data.
3. Done: abstract specifications of the life of a run (`RunRecord`) and of reports
   (`ReportBook`), with their refinements proved.
4. An abstract specification of a transaction under review for `Categorization`. With runs
   that pause while others execute it can promise no more than `ConfirmedIsLearned`,
   `CategorisedStays` and `ConfirmationStands` do; it is worth writing if review and storing
   get a lock or a version of the row.
5. Chains of theorems across modules: `EveryRowHolds` and the pipeline's `ProcessedBalanced`
   together say that a week's surplus is the change of the balance; an instance of one module in
   the other would make that a theorem.
