------------------------------ MODULE Downstream ------------------------------
(***************************************************************************)
(* The second half of the master graph: fixed costs, cash flow, investment *)
(* analysis, reporting and email delivery.  None of these nodes is told    *)
(* what the run is about.  Each selects the "current" statement anew, the  *)
(* processed one with the latest period_end, and finds what earlier nodes  *)
(* did in the tables.  Several runs may stand anywhere in this chain, stop *)
(* there, and be resumed.                                                  *)
(*                                                                         *)
(* As in StatementPipeline, a node is what it reads, slow work, and one    *)
(* commit, in a subgraph whose own state is stored after each of its       *)
(* nodes, so that a resume goes on inside it with what was read before the *)
(* failure.  Where a subgraph has ended and the commit behind it failed,   *)
(* the resume only returns what it has stored.                             *)
(***************************************************************************)
EXTENDS ReportTables

CONSTANTS
    OneAtATime,   \* TRUE: no run starts or resumes while another executes
    Attended,     \* TRUE: a run is not resumed once another has executed since it stopped
    MaxInterruptions, \* bound: node exceptions and restarts of the backend process
    MaxLosses     \* bound: mails delivered although send() raised

ASSUME DownstreamBounds ==
    /\ OneAtATime \in BOOLEAN /\ Attended \in BOOLEAN
    /\ MaxInterruptions \in Nat /\ MaxLosses \in Nat

VARIABLES
    mode,        \* run -> where its execution stands
    at,          \* run -> the node it executes or would execute next
    step,        \* run -> how far into that node it is
    mem,         \* run -> local data of that node
    saved,       \* run -> the last step of its node that a stored checkpoint knows
    disturbed,   \* history: runs that did not execute alone and in one go
    unsettled,   \* history: reports whose verdict was rolled back behind handle_result
    interruptions, losses

faults == <<interruptions, losses>>
vars   == <<processed, settings, matched, summary, recs, reports, mode, at,
            step, mem, saved, disturbed, unsettled, interruptions, losses>>

Nodes == {"fixed_costs_reconciliation", "cashflow_calculation",
          "investment_analysis", "reporting", "email_delivery", "END"}

\* "overtaken": stopped, and another run has executed since.
Modes == {"new", "running", "stopped", "overtaken", "completed"}

\* "returned" is a step of a resumed subgraph only: it had ended, and its commit failed.
Steps == {"enter", "read", "judged", "returned"}
RETRY_ATTEMPTS == 3

\* state of a node: the statement it selected; a plan of matches or the statuses
\* shown; what may be invested; the statement and recommendation on the page;
\* the mails still to send, those sent and failed, and attempts at the one in hand
Mem == [current : Statements \cup {None},
        plan    : Plans,
        offer   : Offers \cup {None},
        covers  : Statements \cup {None},
        rec     : Nat,
        outbox  : SUBSET Nat,
        sent    : SUBSET Nat,
        failed  : SUBSET Nat,
        tries   : 0..(RETRY_ATTEMPTS - 1)]

Blank == [current |-> None, plan |-> NoMatch, offer |-> None,
          covers |-> None, rec |-> 0,
          outbox |-> {}, sent |-> {}, failed |-> {}, tries |-> 0]

TypeOK ==
    /\ processed \subseteq Statements
    /\ settings \in BOOLEAN
    /\ matched \in [Txns -> Costs \cup {None}]
    /\ summary \in [Runs -> Summaries \cup {None}]
    /\ recs \in Seq(Recommendations)
    /\ reports \in Seq(Reports)
    /\ mode \in [Runs -> Modes]
    /\ at \in [Runs -> Nodes]
    /\ step \in [Runs -> Steps]
    /\ mem \in [Runs -> Mem]
    /\ saved \in [Runs -> Steps]
    /\ disturbed \subseteq Runs
    /\ unsettled \subseteq Nat
    /\ interruptions \in 0..MaxInterruptions
    /\ losses \in 0..MaxLosses

Init ==
    /\ processed = {}
    /\ settings \in BOOLEAN
    /\ matched = [t \in Txns |-> None]
    /\ summary = [r \in Runs |-> None]
    /\ recs = <<>>
    /\ reports = <<>>
    /\ mode = [r \in Runs |-> "new"]
    /\ at = [r \in Runs |-> "fixed_costs_reconciliation"]
    /\ step = [r \in Runs |-> "enter"]
    /\ mem = [r \in Runs |-> Blank]
    /\ saved = [r \in Runs |-> "enter"]
    /\ disturbed = {} /\ unsettled = {}
    /\ interruptions = 0 /\ losses = 0

-----------------------------------------------------------------------------
(***************************************************************************)
(* Helpers.                                                                *)
(***************************************************************************)
At(r, node, s) == mode[r] = "running" /\ at[r] = node /\ step[r] = s

Running == {r \in Runs : mode[r] = "running"}

CanExecute == OneAtATime => Running = {}

Stays(r) == UNCHANGED <<mode, at, saved, disturbed, unsettled, faults>>

\* The node goes on to step s with local data m.
Goes(r, s, m) ==
    /\ step' = [step EXCEPT ![r] = s]
    /\ mem' = [mem EXCEPT ![r] = m]
    /\ Stays(r)

\* The subgraph has ended and the session has committed; the run enters `next`.
Leaves(r, next) ==
    /\ at' = [at EXCEPT ![r] = next]
    /\ step' = [step EXCEPT ![r] = "enter"]
    /\ saved' = [saved EXCEPT ![r] = "enter"]
    /\ mem' = [mem EXCEPT ![r] = Blank]
    /\ UNCHANGED <<mode, disturbed, unsettled, faults>>

\* Another run executes: whoever has stopped is overtaken.
Overtaken == [q \in Runs |-> IF mode[q] = "stopped" THEN "overtaken" ELSE mode[q]]

-----------------------------------------------------------------------------
(***************************************************************************)
(* External: the first half of some run makes a statement processed, not   *)
(* necessarily in the order of the periods.                                *)
(***************************************************************************)
Arrive(s) ==
    /\ s \notin processed
    /\ CanExecute
    /\ processed' = processed \cup {s}
    /\ mode' = Overtaken
    /\ disturbed' = disturbed \cup Running
    /\ UNCHANGED <<settings, matched, summary, recs, reports, at, step, mem,
                   saved, unsettled, faults>>

(***************************************************************************)
(* fixed_costs_reconciliation                                              *)
(***************************************************************************)
LoadFixedCosts(r) ==
    /\ At(r, "fixed_costs_reconciliation", "enter")
    /\ Goes(r, "read", [Blank EXCEPT !.current = Current])
    /\ UNCHANGED db

MatchTransactions(r) ==
    /\ At(r, "fixed_costs_reconciliation", "read")
    /\ LET s == mem[r].current
       IN \E plan \in Matches(IF s = None THEN {} ELSE Open(s)) :
            Goes(r, "judged", [mem[r] EXCEPT !.plan = plan])
    /\ UNCHANGED db

\* Mutant: only what is within the tolerance is stored.
PersistReconciliationOfMatched(r) ==
    /\ At(r, "fixed_costs_reconciliation", "judged")
    /\ LET stored == {c \in Costs : FixedCostStatus(c, mem[r].plan[c]) = "matched"}
       IN matched' = [t \in Txns |->
                        IF \E c \in stored : mem[r].plan[c] = t
                        THEN CHOOSE c \in stored : mem[r].plan[c] = t
                        ELSE matched[t]]
    /\ Leaves(r, "cashflow_calculation")
    /\ UNCHANGED <<processed, settings, summary, recs, reports>>

\* Sets the column of every chosen transaction, whatever another run has put there.
PersistReconciliation(r) ==
    /\ At(r, "fixed_costs_reconciliation", "judged")
    /\ matched' = [t \in Txns |->
                     IF \E c \in Costs : mem[r].plan[c] = t
                     THEN CHOOSE c \in Costs : mem[r].plan[c] = t
                     ELSE matched[t]]
    /\ Leaves(r, "cashflow_calculation")
    /\ UNCHANGED <<processed, settings, summary, recs, reports>>

(***************************************************************************)
(* cashflow_calculation: the node itself upserts what the subgraph has     *)
(* returned (_upsert_cashflow_summary), so a resume always does it again.  *)
(***************************************************************************)
AggregateIncomeExpense(r) ==
    /\ At(r, "cashflow_calculation", "enter")
    /\ Goes(r, "read", [Blank EXCEPT !.current = Current])
    /\ UNCHANGED db

ApplyFixedCostsStatus(r) ==
    /\ At(r, "cashflow_calculation", "read")
    /\ LET s == mem[r].current
       IN \E paid \in Statuses(IF s = None THEN {} ELSE RowsOf(s), matched) :
            Goes(r, "judged", [mem[r] EXCEPT !.plan = paid])
    /\ UNCHANGED db

UpsertCashflowSummary(r) ==
    /\ At(r, "cashflow_calculation", "judged")
    /\ summary' = [summary EXCEPT ![r] = [of |-> mem[r].current, paid |-> mem[r].plan]]
    /\ Leaves(r, "investment_analysis")
    /\ UNCHANGED <<processed, settings, matched, recs, reports>>

(***************************************************************************)
(* investment_analysis: check_safety_buffer; assess_trend, which reads the *)
(* statements again; generate_allocation_proposal and persist.             *)
(***************************************************************************)
CheckSafetyBuffer(r) ==
    /\ At(r, "investment_analysis", "enter")
    /\ Goes(r, "read", [Blank EXCEPT !.current = IF settings THEN Current ELSE None])
    /\ UNCHANGED db

AssessTrend(r) ==
    /\ At(r, "investment_analysis", "read")
    /\ LET s == mem[r].current IN
        \/ s = None /\ Goes(r, "judged", mem[r])
        \/ /\ s # None
           /\ Goes(r, "judged", [mem[r] EXCEPT
                    !.offer = Proposal(Surplus[s], Closing[s], Total, Periods)])
    /\ UNCHANGED db

PersistRecommendation(r) ==
    /\ At(r, "investment_analysis", "judged")
    /\ \/ mem[r].offer = None /\ UNCHANGED recs
       \/ /\ mem[r].offer # None
          /\ \E parts \in Allocations(mem[r].offer) :
                recs' = Append(recs,
                    [by     |-> r,
                     of     |-> mem[r].current,
                     amount |-> RoundHalfUp(mem[r].offer.num, mem[r].offer.den),
                     parts  |-> parts,
                     report |-> 0])
    /\ Leaves(r, "reporting")
    /\ UNCHANGED <<processed, settings, matched, summary, reports>>

(***************************************************************************)
(* reporting: determine_report_types; render_weekly, which computes the    *)
(* cash flow of what is current by then in a subgraph of its own, and      *)
(* render_monthly, in one step; persist.                                   *)
(***************************************************************************)
DetermineReportTypes(r) ==
    /\ At(r, "reporting", "enter")
    /\ Goes(r, "read", [Blank EXCEPT !.current = Current])
    /\ UNCHANGED db

RenderReports(r) ==
    /\ At(r, "reporting", "read")
    /\ \/ mem[r].current = None /\ Goes(r, "judged", mem[r])
       \/ /\ mem[r].current # None
          /\ \E paid \in Statuses(RowsOf(Current), matched) :
                Goes(r, "judged", [mem[r] EXCEPT !.covers = Current, !.plan = paid,
                                                 !.rec = LatestUnattached])
    /\ UNCHANGED db

Page(r, type) ==
    [by |-> r, type |-> type, of |-> mem[r].covers,
     paid |-> IF type = "weekly" THEN mem[r].plan ELSE NoMatch,
     rec |-> mem[r].rec, delivery |-> "pending", copies |-> 0]

\* Mutant: report_id is not filled in.
PersistReportUnattached(r) ==
    /\ At(r, "reporting", "judged")
    /\ \/ mem[r].covers = None /\ UNCHANGED reports
       \/ mem[r].covers # None /\ reports' = Append(reports, Page(r, "weekly"))
    /\ Leaves(r, "email_delivery")
    /\ UNCHANGED <<processed, settings, matched, summary, recs>>

PersistReport(r) ==
    /\ At(r, "reporting", "judged")
    /\ \/ mem[r].covers = None /\ UNCHANGED <<recs, reports>>
       \/ /\ mem[r].covers # None
          /\ reports' = reports \o
                (IF GenerateMonthly(EndDay[mem[r].current], MonthLength[mem[r].current])
                 THEN <<Page(r, "weekly"), Page(r, "monthly")>>
                 ELSE <<Page(r, "weekly")>>)
          /\ recs' = [k \in DOMAIN recs |->
                        IF k = mem[r].rec
                        THEN [recs[k] EXCEPT !.report = Len(reports) + 1]
                        ELSE recs[k]]
    /\ Leaves(r, "email_delivery")
    /\ UNCHANGED <<processed, settings, matched, summary>>

(***************************************************************************)
(* email_delivery: every pending report, whoever wrote it, up to three     *)
(* attempts each, and one commit for all results.  The order of the mails  *)
(* does not matter here; they go out by number.  send_smtp is one node: a  *)
(* restart amid the mails makes a resumed run send all of them again.      *)
(***************************************************************************)
\* Mutant: one row, the latest, instead of all.
RenderLatestPayload(r) ==
    /\ At(r, "email_delivery", "enter")
    /\ Goes(r, "read", [Blank EXCEPT !.outbox = {i \in Pending : \A j \in Pending : j <= i}])
    /\ UNCHANGED db

RenderFinalPayload(r) ==
    /\ At(r, "email_delivery", "enter")
    /\ Goes(r, "read", [Blank EXCEPT !.outbox = Pending])
    /\ UNCHANGED db

\* Mail i is in hand.
Sending(r, i) ==
    /\ At(r, "email_delivery", "read")
    /\ i \in mem[r].outbox
    /\ \A j \in mem[r].outbox : i <= j

Arrives(i) == reports' = [reports EXCEPT ![i].copies = @ + 1]

\* send() raised: another attempt, or the mail has failed.
Fails(m, i) ==
    IF m.tries + 1 < RETRY_ATTEMPTS THEN [m EXCEPT !.tries = @ + 1]
    ELSE [m EXCEPT !.tries = 0, !.outbox = @ \ {i}, !.failed = @ \cup {i}]

SmtpAccepts(r, i) ==
    /\ Sending(r, i)
    /\ Arrives(i)
    /\ Goes(r, "read", [mem[r] EXCEPT !.tries = 0, !.outbox = @ \ {i}, !.sent = @ \cup {i}])
    /\ UNCHANGED <<processed, settings, matched, summary, recs>>

SmtpRefuses(r, i) ==
    /\ Sending(r, i)
    /\ Goes(r, "read", Fails(mem[r], i))
    /\ UNCHANGED db

\* The server took the mail, but its answer did not come back.
SmtpAnswerLost(r, i) ==
    /\ Sending(r, i)
    /\ losses < MaxLosses
    /\ losses' = losses + 1
    /\ Arrives(i)
    /\ mem' = [mem EXCEPT ![r] = Fails(mem[r], i)]
    /\ UNCHANGED <<processed, settings, matched, summary, recs, mode, at, step, saved,
                   disturbed, unsettled, interruptions>>

\* The last result is in.
SmtpDone(r) ==
    /\ At(r, "email_delivery", "read")
    /\ mem[r].outbox = {}
    /\ Goes(r, "judged", mem[r])
    /\ UNCHANGED db

\* Mutant: whatever was tried counts as sent.
HandleEveryResult(r) ==
    /\ At(r, "email_delivery", "judged")
    /\ reports' = Marked(mem[r].sent \cup mem[r].failed, {})
    /\ Leaves(r, "END")
    /\ UNCHANGED <<processed, settings, matched, summary, recs>>

\* Mutant: success leaves no mark.
HandleFailures(r) ==
    /\ At(r, "email_delivery", "judged")
    /\ reports' = Marked({}, mem[r].failed)
    /\ Leaves(r, "END")
    /\ UNCHANGED <<processed, settings, matched, summary, recs>>

HandleResult(r) ==
    /\ At(r, "email_delivery", "judged")
    /\ reports' = Marked(mem[r].sent, mem[r].failed)
    /\ Leaves(r, "END")
    /\ UNCHANGED <<processed, settings, matched, summary, recs>>

(***************************************************************************)
(* A resume after session.commit() has failed: the subgraph has ended, its *)
(* stored results are returned, and nothing is written.                    *)
(***************************************************************************)
After == [n \in Nodes |->
            CASE n = "fixed_costs_reconciliation" -> "cashflow_calculation"
              [] n = "cashflow_calculation"       -> "investment_analysis"
              [] n = "investment_analysis"        -> "reporting"
              [] n = "reporting"                  -> "email_delivery"
              [] OTHER                            -> "END"]

ReturnsStored(r) ==
    /\ mode[r] = "running" /\ step[r] = "returned"
    /\ Leaves(r, After[at[r]])
    /\ UNCHANGED db

-----------------------------------------------------------------------------
(***************************************************************************)
(* The run and its checkpoints, as in StatementPipeline.                   *)
(***************************************************************************)

\* A run that executes beside others disturbs them, and they disturb it.
Executes(r) ==
    /\ CanExecute
    /\ mode' = [Overtaken EXCEPT ![r] = "running"]
    /\ disturbed' = IF Running = {} THEN disturbed ELSE disturbed \cup Running \cup {r}
    /\ UNCHANGED <<at, step, mem, saved, unsettled, db, faults>>

\* A run has come through categorization.
Trigger(r) == mode[r] = "new" /\ Executes(r)

\* POST /runs/{id}/resume
Resume(r) ==
    /\ mode[r] = "stopped" \/ (mode[r] = "overtaken" /\ ~Attended)
    /\ Executes(r)

\* Only a restart reads what this action writes: after the last one it is left out.
SaveCheckpoint(r) ==
    /\ mode[r] = "running"
    /\ interruptions < MaxInterruptions
    /\ saved[r] # step[r]
    /\ saved' = [saved EXCEPT ![r] = step[r]]
    /\ UNCHANGED <<mode, at, step, mem, disturbed, unsettled, db, faults>>

Finish(r) ==
    /\ At(r, "END", "enter")
    /\ mode' = [mode EXCEPT ![r] = "completed"]
    /\ UNCHANGED <<at, step, mem, saved, disturbed, unsettled, db, faults>>

\* What a checkpoint of step s holds of the node's data; no mail of an unfinished
\* send_smtp counts as sent.
MemAt(m, s) ==
    CASE s = "enter" -> Blank
      [] s = "read"  -> [Blank EXCEPT !.current = m.current,
                                      !.outbox = m.outbox \cup m.sent \cup m.failed]
      [] OTHER       -> m

\* Where the node is when it stops: at its step, or behind its last one with the commit lost.
OnTheWay(r) ==
    IF step[r] = "judged" /\ at[r] # "cashflow_calculation"
    THEN {"judged", "returned"} ELSE {step[r]}

\* The verdicts that are lost if the run stops at step s.
Forgotten(r, s) ==
    IF at[r] = "email_delivery" /\ step[r] = "judged" /\ s = "returned"
    THEN mem[r].sent \cup mem[r].failed ELSE {}

\* The runs in S stop, each at the step that `back` gives it, and their transactions
\* are rolled back.
Stop(S, back) ==
    /\ mode' = [r \in Runs |-> IF r \in S THEN "stopped" ELSE mode[r]]
    /\ step' = [r \in Runs |-> IF r \in S THEN back[r] ELSE step[r]]
    /\ saved' = [r \in Runs |-> IF r \in S THEN back[r] ELSE saved[r]]
    /\ mem' = [r \in Runs |-> IF r \in S THEN MemAt(mem[r], back[r]) ELSE mem[r]]
    /\ disturbed' = disturbed \cup S
    /\ unsettled' = unsettled \cup UNION {Forgotten(r, back[r]) : r \in S}
    /\ interruptions < MaxInterruptions
    /\ interruptions' = interruptions + 1
    /\ UNCHANGED <<at, db, losses>>

\* Postgres, the model's client or build_smtp_client raises, and every checkpoint up
\* to there is stored.
NodeFails(r) ==
    /\ mode[r] = "running" /\ at[r] # "END"
    /\ \E s \in OnTheWay(r) : Stop({r}, [q \in {r} |-> s])

\* The backend process restarts, and the last checkpoints may not be stored yet.
Crash ==
    /\ Running # {}
    /\ \E back \in [Running -> Steps] :
        /\ \A r \in Running : back[r] \in {saved[r]} \cup OnTheWay(r)
        /\ Stop(Running, back)

-----------------------------------------------------------------------------
NodeStep(r) ==
    \/ LoadFixedCosts(r) \/ MatchTransactions(r) \/ PersistReconciliation(r)
    \/ AggregateIncomeExpense(r) \/ ApplyFixedCostsStatus(r) \/ UpsertCashflowSummary(r)
    \/ CheckSafetyBuffer(r) \/ AssessTrend(r) \/ PersistRecommendation(r)
    \/ DetermineReportTypes(r) \/ RenderReports(r) \/ PersistReport(r)
    \/ RenderFinalPayload(r)
    \/ \E i \in mem[r].outbox : SmtpAccepts(r, i) \/ SmtpRefuses(r, i) \/ SmtpAnswerLost(r, i)
    \/ SmtpDone(r) \/ HandleResult(r) \/ ReturnsStored(r) \/ Finish(r)

Next ==
    \/ \E s \in Statements : Arrive(s)
    \/ \E r \in Runs : \/ Trigger(r) \/ Resume(r) \/ NodeStep(r)
                      \/ SaveCheckpoint(r) \/ NodeFails(r)
    \/ Crash

Spec == Init /\ [][Next]_vars

\* The event loop runs a started node to its end.  Nobody has to trigger or resume.
FairSpec == Spec /\ \A r \in Runs : WF_vars(NodeStep(r))

-----------------------------------------------------------------------------
(***************************************************************************)
(* Properties of every interleaving, with failures and restarts.           *)
(***************************************************************************)

\* A report that waits to be mailed has a run that will mail it or, after a failure or
\* a restart, will when it is resumed: the run that wrote it stands before its mails or
\* their verdict.  Only a verdict that was rolled back behind handle_result leaves a
\* report without one.
PendingHasCarrier ==
    \A i \in Pending \ unsettled :
        mode[reports[i].by] # "completed" /\ at[reports[i].by] # "END"

\* A report marked as sent has reached the mailbox, whatever another run that mailed
\* it as well has stored before or after.
SentWasMailed ==
    \A i \in DOMAIN reports : reports[i].delivery = "sent" => reports[i].copies > 0

\* A recommendation belongs to a weekly report that shows it, and no report shows one
\* that belongs to none: also when two runs put the same one on their pages.
ShownIsAttached ==
    /\ \A k \in DOMAIN recs :
        LET i == recs[k].report
        IN i # 0 => i \in DOMAIN reports /\ reports[i].type = "weekly" /\ reports[i].rec = k
    /\ \A i \in DOMAIN reports :
        LET k == reports[i].rec IN k # 0 => k \in DOMAIN recs /\ recs[k].report # 0

\* What is proposed is never more than the statement's surplus, and never cuts into
\* the safety buffer; nothing is proposed out of a deficit.
ProposalCovered ==
    \A k \in DOMAIN recs :
        LET s == recs[k].of
        IN /\ recs[k].amount >= 0
           /\ recs[k].amount > 0 => /\ recs[k].amount <= Surplus[s]
                                    /\ recs[k].amount + SafetyBuffer <= Closing[s]

\* The parts add up to the amount, within the half percent the model is allowed and
\* the rounding of each, and only available instruments get a part.
AllocationAddsUp ==
    \A k \in DOMAIN recs :
        LET gap == SumOf(recs[k].parts) - recs[k].amount
        IN /\ 200 * Abs(gap) <= recs[k].amount + 400
           /\ \A i \in INSTRUMENT_KEYS \ Instruments : recs[k].parts[i] = 0

(***************************************************************************)
(* Properties of a run that executes alone and in one go.                  *)
(***************************************************************************)

\* Its report, its cash-flow summary and the recommendation on the page are of one
\* statement, and the recommendation is its own, not one that an interrupted run left.
OneStory ==
    \A i \in DOMAIN reports :
        LET r == reports[i].by
            k == reports[i].rec
        IN r \notin disturbed =>
            /\ summary[r] # None /\ summary[r].of = reports[i].of
            /\ k # 0 => recs[k].by = r /\ recs[k].of = reports[i].of
            /\ settings => k # 0

\* A fixed cost that its weekly report calls missing is not paid by any transaction of
\* the statement: those of its category settle other costs.  This needs attended runs: an
\* overtaken one would store its old matches over those that the report is about.
MissingIsUnpaid ==
    \A i \in DOMAIN reports :
        /\ reports[i].by \notin disturbed /\ reports[i].type = "weekly"
        => \A c \in Costs :
            FixedCostStatus(c, reports[i].paid[c]) = "missing_payment" =>
                \A t \in RowsOf(reports[i].of) :
                    CategoryOf[t] = CategoryOf[c] => matched[t] \notin {None, c}

\* As long as no run is disturbed: the transaction that the first report on a statement
\* shows for a fixed cost is the closest of its category that settles no other cost.
ClosestIsShown ==
    disturbed = {} =>
        \A i \in DOMAIN reports :
            /\ reports[i].type = "weekly"
            /\ \A j \in 1..(i - 1) : reports[j].of # reports[i].of
            => \A c \in Costs :
                LET shown == reports[i].paid[c]
                IN shown # None =>
                    \A t \in RowsOf(reports[i].of) :
                        CategoryOf[t] = CategoryOf[c] /\ matched[t] \in {None, c}
                            => Distance(shown, c) <= Distance(t, c)

\* As long as no run is disturbed and no answer of the mail server is lost, a report
\* arrives at most once, and not at all if it is marked as failed.
MailedOnce ==
    disturbed = {} /\ losses = 0 =>
        \A i \in DOMAIN reports :
            /\ reports[i].copies <= 1
            /\ reports[i].delivery = "failed" => reports[i].copies = 0

(***************************************************************************)
(* One run at a time, and attended: a run that failed or was cut off is    *)
(* resumed before another one executes, or not at all.                     *)
(***************************************************************************)
Book == INSTANCE ReportBook

\* Every node acts on the tables like one indivisible step of the book, or not at all,
\* whatever failed or was restarted before: what it read is still true when it commits,
\* also in a resume in the middle of its subgraph, a report is mailed only while it waits
\* for a verdict, and the verdicts fall together and stay.
ImplementsReportBook == Book!Spec

(***************************************************************************)
(* Liveness under FairSpec.                                                *)
(***************************************************************************)

\* If no node fails and nothing restarts, the reports of a run are sent or marked as
\* failed, whatever the mail server does and other runs mail meanwhile.
PendingIsSettled ==
    \A r \in Runs :
        (\E i \in Pending : reports[i].by = r)
            ~> (\A i \in Pending : reports[i].by # r)

(***************************************************************************)
(* What the documents claim and the code does not keep (see the README).   *)
(***************************************************************************)

\* docs/10, lines 61-66: handle_result turns every result into sent or failed, and no
\* report is retried by a later run.  So a run that is through leaves none pending.
ReportsAreSettled ==
    \A i \in Pending : mode[reports[i].by] # "completed"

=============================================================================
