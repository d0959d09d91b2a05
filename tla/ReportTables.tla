----------------------------- MODULE ReportTables -----------------------------
(***************************************************************************)
(* The tables by which the nodes from fixed costs to email delivery        *)
(* communicate, and what they look up in them.                             *)
(*                                                                         *)
(* Statements are numbered in the order of period_end.  Rows of REPORTS    *)
(* and INVESTMENT_RECOMMENDATIONS are numbered in the order of creation.   *)
(***************************************************************************)
EXTENDS FixedCosts, Investment, Sequences

CONSTANTS
    Runs,         \* thread ids
    Statements,   \* numbers of statements, by period_end
    EndDay,       \* statement -> day of the month of its period_end
    MonthLength,  \* statement -> days of that month
    StatementOf,  \* transaction -> its statement
    Surplus,      \* statement -> sum of the amounts of all its transactions
    Closing,      \* statement -> closing_balance
    Answers       \* allocations the model may come up with

ASSUME TablesAssumption ==
    /\ Statements \subseteq Nat
    /\ EndDay \in [Statements -> 1..31]
    /\ MonthLength \in [Statements -> 28..31]
    /\ None \notin Statements \cup Nat
    /\ StatementOf \in [Txns -> Statements]
    /\ Surplus \in [Statements -> Int]
    /\ Closing \in [Statements -> Int]
    /\ Answers \subseteq [INSTRUMENT_KEYS -> Int]

VARIABLES
    processed,   \* statements with status "processed"
    settings,    \* is there a row of INVESTMENT_SETTINGS?
    matched,     \* transaction -> transactions.matched_fixed_cost_id
    summary,     \* run -> its row of CASHFLOW_SUMMARIES
    recs,        \* INVESTMENT_RECOMMENDATIONS
    reports      \* REPORTS, and how many copies of each reached the mailbox

db == <<processed, settings, matched, summary, recs, reports>>

TREND_LOOKBACK_PERIODS == 4

Offers == [num : Int, den : 1..(TREND_LOOKBACK_PERIODS - 1)]

Summaries == [of : Statements \cup {None}, paid : Plans]

\* NULL is neither a row nor a proposal.
ASSUME NoneIsNoRow == None \notin Summaries /\ None \notin Offers

Recommendations == [by     : Runs,
                    of     : Statements,
                    amount : Int,
                    parts  : [INSTRUMENT_KEYS -> Int],
                    report : Nat]  \* report_id, 0 for NULL

Reports == [by       : Runs,
            type     : {"weekly", "monthly"},
            of       : Statements,
            paid     : Plans,
            rec      : Nat,        \* the recommendation it shows, 0 for none
            delivery : {"pending", "sent", "failed"},
            copies   : Nat]

-----------------------------------------------------------------------------
\* _current_statement: processed, latest period_end, or no row.
Latest(s) == \A u \in processed : u <= s

Current ==
    IF \E s \in processed : Latest(s) THEN CHOOSE s \in processed : Latest(s) ELSE None

RowsOf(s) == {t \in Txns : StatementOf[t] = s}
Open(s)   == {t \in RowsOf(s) : matched[t] = None}

\* The k-th latest processed statement after the first, and its surplus; assess_trend
\* takes rank 0 for the current one.
Ranked(k) == {s \in processed : Cardinality({u \in processed : u > s}) = k}
SurplusAt(k) == IF Ranked(k) = {} THEN 0 ELSE Surplus[CHOOSE s \in Ranked(k) : TRUE]
Total     == SurplusAt(1) + SurplusAt(2) + SurplusAt(3)
Periods   == (IF Ranked(1) = {} THEN 0 ELSE 1)
           + (IF Ranked(2) = {} THEN 0 ELSE 1)
           + (IF Ranked(3) = {} THEN 0 ELSE 1)

\* generate_allocation_proposal: what the model's answer or the equal split makes of p.
Allocations(p) == {EqualSplit(p)} \cup {Divided(p, a) : a \in {b \in Answers : Accepted(b)}}

MONTH_END_WINDOW_DAYS == 7

\* Is period_end in the last week of its month?
GenerateMonthly(day, length) == length - day < MONTH_END_WINDOW_DAYS

Unattached == {k \in DOMAIN recs : recs[k].report = 0}

\* Mutant: the one that has waited longest.
EarliestUnattached ==
    LET first == {k \in Unattached : \A j \in Unattached : k <= j}
    IN IF first = {} THEN 0 ELSE CHOOSE k \in first : TRUE

\* render_weekly's recommendation: the latest one no report has, or none.
LatestUnattached ==
    LET last == {k \in Unattached : \A j \in Unattached : j <= k}
    IN IF last = {} THEN 0 ELSE CHOOSE k \in last : TRUE

Pending == {i \in DOMAIN reports : reports[i].delivery = "pending"}

\* delivery_status of the reports in S becomes "sent", that of those in F "failed".
Marked(S, F) ==
    [i \in DOMAIN reports |->
        IF i \in S THEN [reports[i] EXCEPT !.delivery = "sent"]
        ELSE IF i \in F THEN [reports[i] EXCEPT !.delivery = "failed"]
        ELSE reports[i]]

=============================================================================
