------------------------------- MODULE Cashflow -------------------------------
(***************************************************************************)
(* The figures of the reports: what a week and a calendar month added up   *)
(* to, where the money went by category, and the comparison with the month *)
(* before.                                                                 *)
(*                                                                         *)
(* A run computes them twice, in cashflow_calculation for its row of       *)
(* CASHFLOW_SUMMARIES and again in reporting for the mail, each time from  *)
(* the tables and in several SELECTs.  Meanwhile other runs process        *)
(* statements and categorise rows, and people confirm categories.          *)
(*                                                                         *)
(* Days are numbered through.  Periods may intersect: verification lets    *)
(* two overlapping statements of one batch pass (see StatementPipeline).   *)
(* What the fixed costs, the recommendation and the queue of mails do is   *)
(* the subject of Downstream.                                              *)
(***************************************************************************)
EXTENDS Integers, FiniteSets, FiniteSetsExt

CONSTANTS
    Runs,             \* thread ids
    Statements,       \* the statements
    First, Last,      \* statement -> its period
    Txns,             \* rows of TRANSACTIONS
    StatementOf,      \* row -> its statement
    Day,              \* row -> txn_date
    Amount,           \* row -> amount in grosze
    Categories,
    MonthStarts,      \* the first days of the calendar months
    Earlier,          \* statements that earlier runs have categorised
    None

ASSUME CashflowAssumption ==
    /\ None \notin Statements \cup Categories
    /\ First \in [Statements -> Nat] /\ Last \in [Statements -> Nat]
    /\ StatementOf \in [Txns -> Statements]
    /\ Day \in [Txns -> Nat] /\ Amount \in [Txns -> Int]
    /\ MonthStarts \subseteq Nat /\ Earlier \subseteq Statements
    /\ IsFiniteSet(Statements) /\ IsFiniteSet(Txns) /\ IsFiniteSet(Categories)

\* The calendar reaches from the month before a statement's last to the one after.
ASSUME CalendarAssumption ==
    \A s \in Statements : \E m, n, o \in MonthStarts : m < n /\ n <= Last[s] /\ Last[s] < o

\* The dates on a statement lie in its period.
ASSUME PeriodAssumption ==
    \A t \in Txns : Day[t] \in First[StatementOf[t]] .. Last[StatementOf[t]]

SumOf(T) == MapThenSumSet(LAMBDA t : Amount[t], T)

VARIABLES
    processed,  \* statements with status "processed"
    category,   \* row -> transactions.category_id
    review,     \* row -> transactions.review_status
    at,         \* run -> what it does next
    mem,        \* run -> local data of its node
    summary,    \* run -> its row of CASHFLOW_SUMMARIES
    reports     \* run -> its weekly report, and its monthly one if previous # None

vars == <<processed, category, review, at, mem, summary, reports>>

Points == {"aggregate", "rolling", "upsert", "types", "recount", "reroll",
           "compare", "persist", "END"}
ReviewStatuses == {"auto", "needs_review", "confirmed"}

Totals  == [income : Int, expense : Int]
Periods == [from : Nat, to : Nat, income : Int, expense : Int,
            breakdown : [Categories \cup {None} -> Int]]

\* Figures of a statement, and (history) what was processed when its month was read.
Figures == [of : Statements, week : Periods, month : Periods,
            seen : SUBSET Statements]

Reports == [figures : Figures, previous : Totals \cup {None},
            seen : SUBSET Statements]

Mem == [of : Statements \cup {None}, monthly : BOOLEAN,
        week : Periods \cup {None}, figures : Figures \cup {None},
        previous : Totals \cup {None}, seen : SUBSET Statements]

Blank == [of |-> None, monthly |-> FALSE, week |-> None, figures |-> None,
          previous |-> None, seen |-> {}]

TypeOK ==
    /\ processed \subseteq Statements
    /\ category \in [Txns -> Categories \cup {None}]
    /\ review \in [Txns -> ReviewStatuses]
    /\ at \in [Runs -> Points]
    /\ mem \in [Runs -> Mem]
    /\ summary \in [Runs -> Figures \cup {None}]
    /\ reports \in [Runs -> Reports \cup {None}]

\* Rows are categorised whatever the status of their statement, so its own run may
\* still have to process it.
Init ==
    /\ processed \in SUBSET Earlier
    /\ category \in [Txns -> Categories \cup {None}]
    /\ \A t \in Txns : category[t] = None <=> StatementOf[t] \notin Earlier
    /\ review = [t \in Txns |-> "auto"]
    /\ at = [r \in Runs |-> "aggregate"]
    /\ mem = [r \in Runs |-> Blank]
    /\ summary = [r \in Runs |-> None]
    /\ reports = [r \in Runs |-> None]

-----------------------------------------------------------------------------
(***************************************************************************)
(* Arithmetic.                                                             *)
(***************************************************************************)
\* compute_income_and_expense
IncomeAndExpense(T) ==
    [income  |-> SumOf({t \in T : Amount[t] > 0}),
     expense |-> SumOf({t \in T : Amount[t] <= 0})]

Surplus(p) == p.income + p.expense

\* Rows wait for a review with their tentative category, and count.
INCLUDED_REVIEW_STATUSES == {"auto", "confirmed", "needs_review"}

\* Mutant: rows that wait for a review are left out.
IncludedSettled(T) == {t \in T : review[t] \in {"auto", "confirmed"}}

Included(T) == {t \in T : review[t] \in INCLUDED_REVIEW_STATUSES}

\* Mutant: the breakdown loses the rows without a category.
BreakdownOfCategorised(T) ==
    [c \in Categories |-> SumOf({t \in T : category[t] = c})]

Breakdown(T) ==
    [c \in Categories \cup {None} |-> SumOf({t \in T : category[t] = c})]

\* A PeriodSummary of the rows T.
Period(from, to, T) ==
    [from      |-> from,
     to        |-> to,
     income    |-> IncomeAndExpense(T).income,
     expense   |-> IncomeAndExpense(T).expense,
     breakdown |-> Breakdown(T)]

(***************************************************************************)
(* The calendar.                                                           *)
(***************************************************************************)
MonthStart(day) == Max({m \in MonthStarts : m <= day})

NextMonth(day) == Min({m \in MonthStarts : m > day})

MONTH_END_WINDOW_DAYS == 7

\* days_in_month - period_end.day
EndsMonth(day) == NextMonth(day) - 1 - day < MONTH_END_WINDOW_DAYS

\* Mutant: the month before ends on the day this one starts.
PreviousMonthEndOff(day) == MonthStart(day)

PreviousMonthEnd(day) == MonthStart(day) - 1

-----------------------------------------------------------------------------
(***************************************************************************)
(* Queries.                                                                *)
(***************************************************************************)
\* _current_statement: any processed one with the latest period_end.
Latest == {s \in processed : \A z \in processed : Last[z] <= Last[s]}

\* Mutant: the last day of the range is left out.
RowsBefore(from, to) ==
    Included({t \in Txns : /\ StatementOf[t] \in processed
                           /\ from <= Day[t] /\ Day[t] < to})

\* Rows of processed statements by date.
RowsBetween(from, to) ==
    Included({t \in Txns : /\ StatementOf[t] \in processed
                           /\ from <= Day[t] /\ Day[t] <= to})

Week(s) == Period(First[s], Last[s], Included({t \in Txns : StatementOf[t] = s}))

Month(s) == Period(MonthStart(Last[s]), Last[s],
                   RowsBetween(MonthStart(Last[s]), Last[s]))

-----------------------------------------------------------------------------
(***************************************************************************)
(* The other nodes and people, seen from here.                             *)
(***************************************************************************)
\* mark_result of verification_post_check.
Process(s) ==
    /\ s \notin processed
    /\ processed' = processed \cup {s}
    /\ UNCHANGED <<category, review, at, mem, summary, reports>>

(***************************************************************************)
(* persist_category stores an item of a run: placed by a rule or a         *)
(* confident model, left open with or without a tentative category, or     *)
(* confirmed, maybe with a name that is no category.  An overlapping run   *)
(* may store its older item over another's (see Categorization), and rows  *)
(* are taken whatever the status of their statement; those of earlier      *)
(* runs have their category.                                               *)
(***************************************************************************)
PersistCategory(t) ==
    /\ StatementOf[t] \notin Earlier
    /\ \E c \in Categories \cup {None}, s \in ReviewStatuses :
        /\ s = "auto" => c # None
        /\ category' = IF c = None THEN category ELSE [category EXCEPT ![t] = c]
        /\ review' = [review EXCEPT ![t] = s]
    /\ UNCHANGED <<processed, at, mem, summary, reports>>

-----------------------------------------------------------------------------
(***************************************************************************)
(* The nodes of a run.  A node that fails or is cut off rolls back, and    *)
(* the run stays where it is; a resume goes on from there with what the    *)
(* nested nodes had stored.                                                *)
(***************************************************************************)
Goes(r, from, to) ==
    /\ at[r] = from
    /\ at' = [at EXCEPT ![r] = to]
    /\ UNCHANGED <<processed, category, review>>

Totalled(r) == [of |-> mem[r].of, week |-> mem[r].week,
                month |-> Month(mem[r].of), seen |-> processed]

\* _NO_OP_RESULT: no statement is processed yet.
NothingToDo(r, from, to) ==
    /\ processed = {}
    /\ Goes(r, from, to)
    /\ UNCHANGED <<mem, summary, reports>>

\* aggregate_income_expense, breakdown_by_category and compute_surplus: one SELECT.
TakeWeek(r, from, to) ==
    /\ Goes(r, from, to)
    /\ \E s \in Latest : mem' = [mem EXCEPT ![r].of = s, ![r].week = Week(s)]
    /\ UNCHANGED <<summary, reports>>

Aggregate(r) ==
    \/ NothingToDo(r, "aggregate", "types")
    \/ TakeWeek(r, "aggregate", "rolling")

\* compute_rolling_month reads again.
Roll(r) ==
    /\ Goes(r, "rolling", "upsert")
    /\ mem' = [mem EXCEPT ![r].figures = Totalled(r)]
    /\ UNCHANGED <<summary, reports>>

\* _upsert_cashflow_summary, repeated with the same figures if its commit fails.
Upsert(r) ==
    /\ Goes(r, "upsert", "types")
    /\ summary' = [summary EXCEPT ![r] = mem[r].figures]
    /\ mem' = [mem EXCEPT ![r] = Blank]
    /\ UNCHANGED reports

\* determine_report_types
Determine(r) ==
    \/ NothingToDo(r, "types", "END")
    \/ /\ Goes(r, "types", "recount")
       /\ \E s \in Latest : mem' = [mem EXCEPT ![r].monthly = EndsMonth(Last[s])]
       /\ UNCHANGED <<summary, reports>>

\* render_weekly: the cashflow graph once more, from its first node ...
Recount(r) == TakeWeek(r, "recount", "reroll")

\* ... to its last.
Reroll(r) ==
    /\ Goes(r, "reroll", IF mem[r].monthly THEN "compare" ELSE "persist")
    /\ mem' = [mem EXCEPT ![r].figures = Totalled(r)]
    /\ UNCHANGED <<summary, reports>>

\* render_monthly: the totals of the month before.
Compare(r) ==
    /\ Goes(r, "compare", "persist")
    /\ LET to == PreviousMonthEnd(mem[r].figures.month.from)
       IN  mem' = [mem EXCEPT
               ![r].previous = IncomeAndExpense(RowsBetween(MonthStart(to), to)),
               ![r].seen = processed]
    /\ UNCHANGED <<summary, reports>>

\* persist_report
Persist(r) ==
    /\ Goes(r, "persist", "END")
    /\ reports' = [reports EXCEPT ![r] =
           [figures |-> mem[r].figures, previous |-> mem[r].previous,
            seen |-> mem[r].seen]]
    /\ mem' = [mem EXCEPT ![r] = Blank]
    /\ UNCHANGED summary

Next ==
    \/ \E s \in Statements : Process(s)
    \/ \E t \in Txns : PersistCategory(t)
    \/ \E r \in Runs : \/ Aggregate(r) \/ Roll(r) \/ Upsert(r)
                       \/ Determine(r) \/ Recount(r) \/ Reroll(r)
                       \/ Compare(r) \/ Persist(r)

Spec == Init /\ [][Next]_vars

-----------------------------------------------------------------------------
(***************************************************************************)
(* Properties.                                                             *)
(***************************************************************************)
AllFigures ==
    {summary[r] : r \in {q \in Runs : summary[q] # None}}
      \cup {reports[r].figures : r \in {q \in Runs : reports[q] # None}}

MonthlyReports == {reports[r] : r \in {q \in Runs : /\ reports[q] # None
                                                    /\ reports[q].previous # None}}

SumOfBreakdown(p) == MapThenSumSet(LAMBDA c : p.breakdown[c], DOMAIN p.breakdown)

\* Statements with a day between two days.
Touching(from, to) == {s \in Statements : First[s] <= to /\ from <= Last[s]}

RowsSeen(A, from, to) ==
    {t \in Txns : StatementOf[t] \in A /\ from <= Day[t] /\ Day[t] <= to}

(***************************************************************************)
(* No money is lost: the surplus of a week, stored for the page or mailed, *)
(* is the sum of every row of its statement, and the surplus of the month  *)
(* that of every row dated in it of the statements then processed; the     *)
(* categories add up to the surplus of their period.  This holds whatever  *)
(* was being categorised or confirmed while the figures were computed      *)
(* (docs/07: a row that waits for review, or has no category, counts).     *)
(***************************************************************************)
EveryRowCounts ==
    \A f \in AllFigures :
        /\ Surplus(f.week) = SumOf({t \in Txns : StatementOf[t] = f.of})
        /\ Surplus(f.month) = SumOf(RowsSeen(f.seen, f.month.from, f.month.to))
        /\ SumOfBreakdown(f.week) = Surplus(f.week)
        /\ SumOfBreakdown(f.month) = Surplus(f.month)

(***************************************************************************)
(* The rolling month grows by whole weeks (docs/07): it equals the first   *)
(* week of its month, and figures that saw one statement more than other   *)
(* figures of the month, their own, exceed them by exactly their own week  *)
(* (compute_rolling_month and aggregate_income_expense read different      *)
(* rows, by date and by statement_id).  Weeks that begin in the month      *)
(* before are left aside, and so are figures whose last day cuts the       *)
(* period of another statement: one that was processed after the week was  *)
(* read, or whose period intersects it.                                    *)
(***************************************************************************)
SeenInMonth(f) == f.seen \cap Touching(f.month.from, f.month.to)

CutsNone(f) == \A s \in SeenInMonth(f) : Last[s] <= f.month.to

RollingFollowsWeeks ==
    \A g \in AllFigures, k \in {"income", "expense"} :
        (g.month.from <= First[g.of] /\ CutsNone(g)) =>
            /\ SeenInMonth(g) = {g.of} => g.month[k] = g.week[k]
            /\ \A f \in AllFigures :
                /\ f.month.from = g.month.from /\ g.of \notin f.seen /\ CutsNone(f)
                /\ SeenInMonth(g) = SeenInMonth(f) \cup {g.of}
                => g.month[k] = f.month[k] + g.week[k]

(***************************************************************************)
(* The comparison in a monthly report repeats what the monthly report of   *)
(* the month before said, if that one reached its month's last day and no  *)
(* statement of the month came in between (render_monthly computes the     *)
(* month anew).                                                            *)
(***************************************************************************)
ComparisonIsLastMonth ==
    \A a, b \in MonthlyReports :
        LET of == a.figures.month
            weeks == Touching(of.from, of.to)
        IN  (/\ of.to + 1 = b.figures.month.from
             /\ a.figures.seen \cap weeks = b.seen \cap weeks)
            => b.previous = [income |-> of.income, expense |-> of.expense]

=============================================================================
