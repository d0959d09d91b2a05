--------------------------- MODULE DownstreamProofs ---------------------------
(***************************************************************************)
(* Machine-checked proofs about Downstream, for any number of runs,        *)
(* statements, transactions and costs, failures and restarts included.     *)
(***************************************************************************)
EXTENDS Downstream, FiniteSetTheorems, SequenceTheorems, TLAPS

(***************************************************************************)
(* Lemmas about tables, amounts and the current statement.                 *)
(***************************************************************************)

\* An UPDATE of some rows leaves a table with the same row numbers.
LEMMA RowwiseUpdate ==
    ASSUME NEW S, NEW s \in Seq(S), NEW f \in [DOMAIN s -> S]
    PROVE  f \in Seq(S) /\ Len(f) = Len(s) /\ DOMAIN f = DOMAIN s
  <1>1. Len(s) \in Nat /\ DOMAIN s = 1..Len(s)
    BY LenProperties
  <1>2. f \in Seq(S)
    BY <1>1, SeqDef
  <1>3. Len(f) \in Nat /\ DOMAIN f = 1..Len(f)
    BY <1>2, LenProperties
  <1>4. QED
    BY <1>1, <1>2, <1>3

\* Decimal.quantize returns a whole number of grosze.
LEMMA RoundHalfEvenType ==
    ASSUME NEW num \in Int, NEW den \in Nat \ {0} PROVE RoundHalfEven(num, den) \in Int
  <1>1. num \div den \in Int /\ (num \div den) + 1 \in Int
    OBVIOUS
  <1>2. QED
    BY <1>1 DEF RoundHalfEven

\* So does a Numeric(14, 2) column.
LEMMA RoundHalfUpType ==
    ASSUME NEW p \in Offers PROVE RoundHalfUp(p.num, p.den) \in Int
  <1>1. p.num \in Int /\ p.den \in {1, 2, 3}
    BY DEF Offers, TREND_LOOKBACK_PERIODS
  <1>2. 2 * p.num + p.den \in Int /\ 2 * p.den \in Nat \ {0}
    BY <1>1
  <1>3. QED
    BY <1>2 DEF RoundHalfUp

LEMMA CountOfInstruments == CountOf(Instruments) \in 1..3
  <1>1. "etf" \in Instruments \/ "term_deposit" \in Instruments
            \/ "savings_account" \in Instruments
    BY SettingsAssumption DEF INSTRUMENT_KEYS
  <1> DEFINE a == IF "etf" \in Instruments THEN 1 ELSE 0
             b == IF "term_deposit" \in Instruments THEN 1 ELSE 0
             c == IF "savings_account" \in Instruments THEN 1 ELSE 0
  <1>2. a \in 0..1 /\ b \in 0..1 /\ c \in 0..1 /\ (a = 1 \/ b = 1 \/ c = 1)
    BY <1>1
  <1>3. CountOf(Instruments) = a + b + c
    BY DEF CountOf
  <1> HIDE DEF a, b, c
  <1>4. QED
    BY <1>2, <1>3

\* Both ways of dividing a proposal give every instrument a whole number.
LEMMA PartsType ==
    ASSUME NEW p \in Offers
    PROVE  /\ EqualSplit(p) \in [INSTRUMENT_KEYS -> Int]
           /\ \A a \in Answers : Divided(p, a) \in [INSTRUMENT_KEYS -> Int]
  <1>1. p.num \in Int /\ p.den \in {1, 2, 3}
    BY DEF Offers, TREND_LOOKBACK_PERIODS
  <1>2. p.den * CountOf(Instruments) \in Nat \ {0}
    BY <1>1, CountOfInstruments
  <1>3. EqualSplit(p) \in [INSTRUMENT_KEYS -> Int]
    BY <1>1, <1>2, RoundHalfEvenType DEF EqualSplit
  <1>4. ASSUME NEW a \in Answers, NEW k \in INSTRUMENT_KEYS
        PROVE  RoundHalfEven(p.num * Allowed(a)[k], p.den * 1000) \in Int
    <2>1. Allowed(a)[k] \in Int
      BY TablesAssumption DEF Allowed
    <2>2. p.num * Allowed(a)[k] \in Int /\ p.den * 1000 \in Nat \ {0}
      BY <1>1, <2>1
    <2>3. QED
      BY <2>2, RoundHalfEvenType
  <1>5. QED
    BY <1>3, <1>4 DEF Divided

LEMMA CurrentType == TypeOK => Current \in Statements \cup {None}
  <1> SUFFICES ASSUME TypeOK PROVE Current \in Statements \cup {None}
    OBVIOUS
  <1>1. CASE \E s \in processed : Latest(s)
    <2>1. (CHOOSE s \in processed : Latest(s)) \in processed
      BY <1>1
    <2>2. QED
      BY <1>1, <2>1 DEF Current, TypeOK
  <1>2. CASE ~ \E s \in processed : Latest(s)
    BY <1>2 DEF Current
  <1>3. QED
    BY <1>1, <1>2

\* The sum and the number of the surpluses before the current one.
LEMMA TrendType == TypeOK => Total \in Int /\ Periods \in 0..3
  <1> SUFFICES ASSUME TypeOK PROVE Total \in Int /\ Periods \in 0..3
    OBVIOUS
  <1>1. ASSUME NEW k \in 1..3 PROVE SurplusAt(k) \in Int
    <2> DEFINE u == CHOOSE s \in Ranked(k) : TRUE
    <2>1. Ranked(k) # {} => u \in Ranked(k)
      OBVIOUS
    <2>2. Ranked(k) \subseteq Statements
      BY DEF Ranked, TypeOK
    <2>3. SurplusAt(k) = IF Ranked(k) = {} THEN 0 ELSE Surplus[u]
      BY DEF SurplusAt
    <2>4. Ranked(k) # {} => Surplus[u] \in Int
      BY <2>1, <2>2, TablesAssumption
    <2>5. CASE Ranked(k) = {}
      BY <2>3, <2>5
    <2>6. CASE Ranked(k) # {}
      BY <2>3, <2>4, <2>6
    <2>7. QED
      BY <2>5, <2>6
  <1>2. Total \in Int
    BY <1>1 DEF Total
  <1>3. Periods \in 0..3
    BY DEF Periods
  <1>4. QED
    BY <1>2, <1>3

\* What assess_trend computes is a proposal.
LEMMA ProposalType ==
    ASSUME TypeOK, NEW s \in Statements
    PROVE  Proposal(Surplus[s], Closing[s], Total, Periods) \in Offers
  <1>1. Total \in Int /\ Periods \in 0..3
    BY TrendType
  <1>2. Surplus[s] \in Int /\ Closing[s] \in Int /\ SafetyBuffer \in Int
    BY TablesAssumption, SettingsAssumption
  <1>3. Investable(Surplus[s], Closing[s]) \in Int
    BY <1>2 DEF Investable, Smaller, Larger
  <1>4. QED
    BY <1>1, <1>3 DEF Proposal, IsAnomaly, Offers, TREND_LOOKBACK_PERIODS

\* ... and so does either of the two answers that are stored.
LEMMA AllocationsType ==
    ASSUME NEW p \in Offers, NEW parts \in Allocations(p)
    PROVE  parts \in [INSTRUMENT_KEYS -> Int]
  <1>1. CASE parts = EqualSplit(p)
    BY <1>1, PartsType, Zenon
  <1>2. CASE \E a \in {b \in Answers : Accepted(b)} : parts = Divided(p, a)
    <2>1. PICK a \in {b \in Answers : Accepted(b)} : parts = Divided(p, a)
      BY <1>2
    <2>2. a \in Answers
      OBVIOUS
    <2>3. QED
      BY <2>1, <2>2, PartsType, Zenon
  <1>3. QED
    BY <1>1, <1>2, Zenon DEF Allocations

LEMMA BlankType == Blank \in Mem
  BY DEF Blank, Mem, NoMatch, Plans, RETRY_ATTEMPTS

-----------------------------------------------------------------------------
(***************************************************************************)
(* Types.                                                                  *)
(***************************************************************************)
LEMMA InitTypeOK == Init => TypeOK
  <1> SUFFICES ASSUME Init PROVE TypeOK
    OBVIOUS
  <1>1. recs \in Seq(Recommendations) /\ reports \in Seq(Reports)
    BY DEF Init
  <1>2. QED
    BY <1>1, BlankType, TablesAssumption, DownstreamBounds DEF Init, TypeOK, Modes, Nodes, Steps

\* The four tables that nodes write.
Tables ==
    /\ matched \in [Txns -> Costs \cup {None}]
    /\ summary \in [Runs -> Summaries \cup {None}]
    /\ recs \in Seq(Recommendations)
    /\ reports \in Seq(Reports)

\* A proposal is always one for a statement.
OfferHasStatement ==
    \A r \in Runs : mem[r].offer # None => mem[r].current # None

\* The steps at which the last stored checkpoint of a node at step s may be.
Behind(s) ==
    CASE s = "enter"  -> {"enter"}
      [] s = "read"   -> {"enter", "read"}
      [] s = "judged" -> {"enter", "read", "judged"}
      [] OTHER        -> {"returned"}

\* Checkpoints never overtake a run.
Checkpointed == \A r \in Runs : saved[r] \in Behind(step[r])

Typed == TypeOK /\ OfferHasStatement /\ Checkpointed

\* A step within a node.
LEMMA GoesTyped ==
    ASSUME Typed, NEW r \in Runs, NEW s \in Steps, NEW m \in Mem, Goes(r, s, m),
           m.offer # None => m.current # None,
           Behind(step[r]) \subseteq Behind(s),
           Tables', UNCHANGED <<processed, settings>>
    PROVE  Typed'
  <1>1. TypeOK' /\ OfferHasStatement'
    BY DEF Typed, OfferHasStatement, Tables, TypeOK, Goes, Stays, faults
  <1>2. Checkpointed'
    BY DEF Typed, Checkpointed, TypeOK, Goes, Stays
  <1>3. QED
    BY <1>1, <1>2 DEF Typed

\* The last step of a node.
LEMMA LeavesTyped ==
    ASSUME Typed, NEW r \in Runs, NEW n \in Nodes, Leaves(r, n),
           Tables', UNCHANGED <<processed, settings>>
    PROVE  Typed'
  <1>1. Blank.offer = None
    BY DEF Blank
  <1>2. TypeOK' /\ OfferHasStatement'
    BY <1>1, BlankType DEF Typed, OfferHasStatement, Tables, TypeOK, Leaves, faults, Steps
  <1>3. Checkpointed'
    BY DEF Typed, Checkpointed, TypeOK, Leaves, Behind
  <1>4. QED
    BY <1>2, <1>3 DEF Typed

LEMMA ReconciliationTyped ==
    ASSUME Typed, NEW r \in Runs,
           LoadFixedCosts(r) \/ MatchTransactions(r) \/ PersistReconciliation(r)
    PROVE  Typed'
  <1>1. mem[r] \in Mem /\ Tables /\ (mem[r].offer # None => mem[r].current # None)
    BY DEF Typed, TypeOK, Tables, OfferHasStatement
  <1>2. CASE LoadFixedCosts(r)
    <2>1. [Blank EXCEPT !.current = Current] \in Mem
      BY BlankType, CurrentType DEF Mem, Typed
    <2>2. QED
      BY <1>1, <1>2, <2>1, GoesTyped DEF LoadFixedCosts, At, Behind, db, Steps, Tables, Blank
  <1>3. CASE MatchTransactions(r)
    <2>1. PICK open \in SUBSET Txns : \E plan \in Matches(open) :
              Goes(r, "judged", [mem[r] EXCEPT !.plan = plan])
      BY <1>3 DEF MatchTransactions, Open, RowsOf
    <2>2. PICK plan \in Matches(open) : Goes(r, "judged", [mem[r] EXCEPT !.plan = plan])
      BY <2>1
    <2>3. plan \in Plans
      BY DEF Matches, Plans
    <2> DEFINE m == [mem[r] EXCEPT !.plan = plan]
    <2>4. m \in Mem /\ m.offer = mem[r].offer /\ m.current = mem[r].current
      BY <1>1, <2>3 DEF Mem
    <2> HIDE DEF m
    <2>5. Goes(r, "judged", m)
      BY <2>2 DEF m
    <2>6. QED
      BY <1>1, <1>3, <2>4, <2>5, GoesTyped DEF MatchTransactions, At, Behind, db, Steps, Tables
  <1>4. CASE PersistReconciliation(r)
    <2>1. matched' \in [Txns -> Costs \cup {None}]
      BY <1>1, <1>4 DEF PersistReconciliation, Tables
    <2>2. QED
      BY <1>1, <1>4, <2>1, LeavesTyped DEF PersistReconciliation, Nodes, Tables
  <1>5. QED
    BY <1>2, <1>3, <1>4

LEMMA CashflowTyped ==
    ASSUME Typed, NEW r \in Runs,
           AggregateIncomeExpense(r) \/ ApplyFixedCostsStatus(r) \/ UpsertCashflowSummary(r)
    PROVE  Typed'
  <1>1. mem[r] \in Mem /\ Tables /\ (mem[r].offer # None => mem[r].current # None)
    BY DEF Typed, TypeOK, Tables, OfferHasStatement
  <1>2. CASE AggregateIncomeExpense(r)
    <2>1. [Blank EXCEPT !.current = Current] \in Mem
      BY BlankType, CurrentType DEF Mem, Typed
    <2>2. QED
      BY <1>1, <1>2, <2>1, GoesTyped
         DEF AggregateIncomeExpense, At, Behind, db, Steps, Tables, Blank
  <1>3. CASE ApplyFixedCostsStatus(r)
    <2>1. PICK paid \in Plans : Goes(r, "judged", [mem[r] EXCEPT !.plan = paid])
      BY <1>3 DEF ApplyFixedCostsStatus, Statuses
    <2> DEFINE m == [mem[r] EXCEPT !.plan = paid]
    <2>2. m \in Mem /\ m.offer = mem[r].offer /\ m.current = mem[r].current
      BY <1>1 DEF Mem
    <2> HIDE DEF m
    <2>3. Goes(r, "judged", m)
      BY <2>1 DEF m
    <2>4. QED
      BY <1>1, <1>3, <2>2, <2>3, GoesTyped
         DEF ApplyFixedCostsStatus, At, Behind, db, Steps, Tables
  <1>4. CASE UpsertCashflowSummary(r)
    <2>1. summary' \in [Runs -> Summaries \cup {None}]
      BY <1>1, <1>4 DEF UpsertCashflowSummary, Summaries, Mem, Tables
    <2>2. QED
      BY <1>1, <1>4, <2>1, LeavesTyped DEF UpsertCashflowSummary, Nodes, Tables
  <1>5. QED
    BY <1>2, <1>3, <1>4

LEMMA InvestmentTyped ==
    ASSUME Typed, NEW r \in Runs,
           CheckSafetyBuffer(r) \/ AssessTrend(r) \/ PersistRecommendation(r)
    PROVE  Typed'
  <1>1. mem[r] \in Mem /\ Tables /\ (mem[r].offer # None => mem[r].current # None)
    BY DEF Typed, TypeOK, Tables, OfferHasStatement
  <1>2. CASE CheckSafetyBuffer(r)
    <2> DEFINE c == IF settings THEN Current ELSE None
    <2>1. c \in Statements \cup {None}
      BY CurrentType DEF Typed
    <2>2. [Blank EXCEPT !.current = c] \in Mem
      BY <2>1, BlankType DEF Mem
    <2>3. QED
      BY <1>1, <1>2, <2>2, GoesTyped DEF CheckSafetyBuffer, At, Behind, db, Steps, Tables, Blank
  <1>3. CASE AssessTrend(r) /\ mem[r].current = None
    BY <1>1, <1>3, GoesTyped DEF AssessTrend, At, Behind, db, Steps, Tables
  <1>4. CASE AssessTrend(r) /\ mem[r].current # None
    <2> DEFINE s == mem[r].current
               p == Proposal(Surplus[s], Closing[s], Total, Periods)
    <2>1. p \in Offers
      BY <1>1, <1>4, ProposalType DEF Mem, Typed
    <2> DEFINE m == [mem[r] EXCEPT !.offer = p]
    <2>2. Goes(r, "judged", m)
      BY <1>4 DEF AssessTrend
    <2> HIDE DEF p
    <2>3. m \in Mem /\ m.current # None
      BY <1>1, <1>4, <2>1 DEF Mem
    <2> HIDE DEF m
    <2>4. QED
      BY <1>1, <1>4, <2>2, <2>3, GoesTyped DEF AssessTrend, At, Behind, db, Steps, Tables
  <1>5. CASE PersistRecommendation(r)
    <2>1. recs' \in Seq(Recommendations)
      <3>1. CASE mem[r].offer = None
        BY <1>1, <1>5, <3>1 DEF PersistRecommendation, Tables
      <3>2. CASE mem[r].offer # None
        <4>1. mem[r].offer \in Offers
          BY <1>1, <3>2 DEF Mem
        <4> DEFINE Row(parts) ==
                       [by |-> r, of |-> mem[r].current,
                        amount |-> RoundHalfUp(mem[r].offer.num, mem[r].offer.den),
                        parts |-> parts, report |-> 0]
        <4>0. PICK parts \in Allocations(mem[r].offer) : recs' = Append(recs, Row(parts))
          BY <1>5, <3>2 DEF PersistRecommendation
        <4> DEFINE row == Row(parts)
        <4>2. row \in Recommendations
          BY <1>1, <3>2, <4>1, RoundHalfUpType, AllocationsType
             DEF Recommendations, Mem, Typed, OfferHasStatement
        <4>3. QED
          <5>1. recs' = Append(recs, row)
            BY <4>0
          <5> HIDE DEF row
          <5>2. QED
            BY <1>1, <4>2, <5>1 DEF Tables
      <3>3. QED
        BY <3>1, <3>2
    <2>2. QED
      BY <1>1, <1>5, <2>1, LeavesTyped DEF PersistRecommendation, Nodes, Tables
  <1>6. QED
    BY <1>2, <1>3, <1>4, <1>5

\* The latest recommendation without a report, if there is one.
LEMMA LatestUnattachedIs ==
    ASSUME recs \in Seq(Recommendations)
    PROVE  LatestUnattached # 0 => LatestUnattached \in Unattached
  <1> DEFINE last == {k \in Unattached : \A j \in Unattached : j <= k}
             k0 == CHOOSE k \in last : TRUE
  <1>1. LatestUnattached = IF last = {} THEN 0 ELSE k0
    BY DEF LatestUnattached
  <1>2. last # {} => k0 \in last
    OBVIOUS
  <1>3. QED
    BY <1>1, <1>2

LEMMA LatestUnattachedType ==
    ASSUME recs \in Seq(Recommendations) PROVE LatestUnattached \in 0..Len(recs)
  <1>1. Len(recs) \in Nat /\ DOMAIN recs = 1..Len(recs)
    BY LenProperties
  <1>2. QED
    BY <1>1, LatestUnattachedIs DEF Unattached

LEMMA PageType ==
    ASSUME NEW r \in Runs, NEW type \in {"weekly", "monthly"}, mem[r] \in Mem,
           mem[r].covers # None
    PROVE  Page(r, type) \in Reports
  BY DEF Page, Reports, Mem, NoMatch, Plans

\* The pages that persist_report adds.
Pages(r) ==
    IF GenerateMonthly(EndDay[mem[r].current], MonthLength[mem[r].current])
    THEN <<Page(r, "weekly"), Page(r, "monthly")>> ELSE <<Page(r, "weekly")>>

\* INVESTMENT_RECOMMENDATIONS after persist_report.
Attached(r) ==
    [k \in DOMAIN recs |-> IF k = mem[r].rec
                            THEN [recs[k] EXCEPT !.report = Len(reports) + 1]
                            ELSE recs[k]]

LEMMA PersistReportEffect ==
    ASSUME NEW r \in Runs, PersistReport(r), mem[r] \in Mem, Tables, mem[r].covers # None
    PROVE  /\ Pages(r) \in Seq(Reports)
           /\ reports' = reports \o Pages(r) /\ reports' \in Seq(Reports)
           /\ recs' = Attached(r) /\ recs' \in Seq(Recommendations)
           /\ DOMAIN recs' = DOMAIN recs
  <1>1. Pages(r) \in Seq(Reports)
    <2>1. Page(r, "weekly") \in Reports /\ Page(r, "monthly") \in Reports
      BY PageType
    <2>2. QED
      BY <2>1 DEF Pages
  <1>2. reports' = reports \o Pages(r) /\ recs' = Attached(r)
    BY DEF PersistReport, Pages, Attached
  <1>3. reports' \in Seq(Reports)
    BY <1>1, <1>2, ConcatProperties DEF Tables
  <1>4. Attached(r) \in [DOMAIN recs -> Recommendations]
    <2>1. Len(reports) + 1 \in Nat
      BY DEF Tables
    <2>2. ASSUME NEW k \in DOMAIN recs PROVE recs[k] \in Recommendations
      BY <2>2, ElementOfSeq, LenProperties DEF Tables
    <2>3. QED
      BY <2>1, <2>2 DEF Attached, Recommendations
  <1>5. QED
    BY <1>1, <1>2, <1>3, <1>4, RowwiseUpdate DEF Tables

\* The rows of REPORTS after persist_report: those from before, and the pages of r.
LEMMA PersistReportRows ==
    ASSUME NEW r \in Runs, PersistReport(r), mem[r] \in Mem, Tables, mem[r].covers # None
    PROVE  /\ DOMAIN reports \subseteq DOMAIN reports'
           /\ \A i \in DOMAIN reports : reports'[i] = reports[i]
           /\ \A i \in DOMAIN reports' \ DOMAIN reports :
                 \E type \in {"weekly", "monthly"} : reports'[i] = Page(r, type)
           /\ Len(reports) + 1 \in DOMAIN reports'
           /\ reports'[Len(reports) + 1] = Page(r, "weekly")
  <1> DEFINE n == Len(reports)
             p == Pages(r)
  <1>1. p \in Seq(Reports) /\ reports' = reports \o p /\ reports' \in Seq(Reports)
    BY PersistReportEffect
  <1>2. n \in Nat /\ DOMAIN reports = 1..n
    BY LenProperties DEF Tables
  <1>3. /\ Len(p) \in {1, 2} /\ p[1] = Page(r, "weekly")
        /\ Len(p) = 2 => p[2] = Page(r, "monthly")
    BY DEF Pages
  <1> HIDE DEF p
  <1>4. /\ Len(reports') = n + Len(p)
        /\ \A i \in 1..(n + Len(p)) : reports'[i] = IF i <= n THEN reports[i] ELSE p[i - n]
    BY <1>1, ConcatProperties DEF Tables
  <1>5. DOMAIN reports' = 1..(n + Len(p))
    BY <1>1, <1>4, LenProperties
  <1> HIDE DEF n
  <1>6. ASSUME NEW i \in DOMAIN reports' \ DOMAIN reports
        PROVE  \E type \in {"weekly", "monthly"} : reports'[i] = Page(r, type)
    <2>1. i - n \in 1..Len(p) /\ reports'[i] = p[i - n]
      BY <1>2, <1>3, <1>4, <1>5
    <2>2. i - n = 1 \/ (i - n = 2 /\ Len(p) = 2)
      BY <1>3, <2>1
    <2>3. QED
      BY <1>3, <2>1, <2>2
  <1>7. n + 1 \in DOMAIN reports' /\ reports'[n + 1] = Page(r, "weekly")
    <2>1. n + 1 \in 1..(n + Len(p)) /\ ~(n + 1 <= n) /\ (n + 1) - n = 1
      BY <1>2, <1>3
    <2>2. QED
      BY <1>3, <1>4, <1>5, <2>1
  <1>8. \A i \in DOMAIN reports : i \in DOMAIN reports' /\ reports'[i] = reports[i]
    BY <1>2, <1>3, <1>4, <1>5
  <1>9. QED
    BY <1>6, <1>7, <1>8 DEF n

LEMMA ReportingTyped ==
    ASSUME Typed, NEW r \in Runs,
           DetermineReportTypes(r) \/ RenderReports(r) \/ PersistReport(r)
    PROVE  Typed'
  <1>1. mem[r] \in Mem /\ Tables /\ (mem[r].offer # None => mem[r].current # None)
    BY DEF Typed, TypeOK, Tables, OfferHasStatement
  <1>2. CASE DetermineReportTypes(r)
    <2>1. [Blank EXCEPT !.current = Current] \in Mem
      BY BlankType, CurrentType DEF Mem, Typed
    <2>2. QED
      BY <1>1, <1>2, <2>1, GoesTyped DEF DetermineReportTypes, At, Behind, db, Steps, Tables, Blank
  <1>3. CASE RenderReports(r) /\ mem[r].current = None
    BY <1>1, <1>3, GoesTyped DEF RenderReports, At, Behind, db, Steps, Tables
  <1>4. CASE RenderReports(r) /\ mem[r].current # None
    <2>1. PICK paid \in Plans :
              Goes(r, "judged", [mem[r] EXCEPT !.covers = Current, !.plan = paid,
                                               !.rec = LatestUnattached])
      BY <1>4 DEF RenderReports, Statuses
    <2> DEFINE m == [mem[r] EXCEPT !.covers = Current, !.plan = paid,
                                   !.rec = LatestUnattached]
    <2>2. LatestUnattached \in Nat
      BY <1>1, LatestUnattachedType DEF Tables
    <2>3. Current \in Statements \cup {None}
      BY CurrentType DEF Typed
    <2>4. m \in Mem /\ m.current # None
      BY <1>1, <1>4, <2>2, <2>3 DEF Mem
    <2> HIDE DEF m
    <2>5. Goes(r, "judged", m)
      BY <2>1 DEF m
    <2>6. QED
      BY <1>1, <1>4, <2>4, <2>5, GoesTyped DEF RenderReports, At, Behind, db, Steps, Tables
  <1>5. CASE PersistReport(r)
    <2>1. Tables'
      <3>1. CASE mem[r].covers = None
        BY <1>1, <1>5, <3>1 DEF PersistReport, Tables
      <3>2. CASE mem[r].covers # None
        BY <1>1, <1>5, <3>2, PersistReportEffect DEF PersistReport, Tables
      <3>3. QED
        BY <3>1, <3>2
    <2>2. QED
      BY <1>1, <1>5, <2>1, LeavesTyped DEF PersistReport, Nodes
  <1>6. QED
    BY <1>2, <1>3, <1>4, <1>5

\* A mail that arrives is counted in its row.
LEMMA ArrivesType ==
    ASSUME Tables, NEW i, Arrives(i)
    PROVE  reports' \in Seq(Reports) /\ DOMAIN reports' = DOMAIN reports
  <1>1. reports \in [DOMAIN reports -> Reports]
    BY LenProperties DEF Tables
  <1>2. reports' \in [DOMAIN reports -> Reports]
    <2>1. i \in DOMAIN reports => [reports[i] EXCEPT !.copies = @ + 1] \in Reports
      BY <1>1 DEF Reports
    <2>2. reports' = [reports EXCEPT ![i] = [reports[i] EXCEPT !.copies = @ + 1]]
      BY DEF Arrives
    <2>3. QED
      BY <1>1, <2>1, <2>2
  <1>3. QED
    BY <1>2, RowwiseUpdate DEF Tables

\* So is the outcome of every report in the mail.
LEMMA MarkedType ==
    ASSUME Tables, NEW S, NEW F
    PROVE  Marked(S, F) \in Seq(Reports) /\ DOMAIN Marked(S, F) = DOMAIN reports
  <1>1. \A j \in DOMAIN reports : reports[j] \in Reports
    BY ElementOfSeq, LenProperties DEF Tables
  <1>2. Marked(S, F) \in [DOMAIN reports -> Reports]
    BY <1>1 DEF Marked, Reports
  <1>3. QED
    BY <1>2, RowwiseUpdate DEF Tables

\* The last attempt at a mail changes three or four fields of a node's data.
LEMMA OutboxType ==
    ASSUME NEW m \in Mem, NEW o \in SUBSET Nat, NEW s \in SUBSET Nat, NEW n \in 0..2
    PROVE  /\ [m EXCEPT !.tries = n] \in Mem
           /\ [m EXCEPT !.tries = n, !.outbox = o, !.sent = s] \in Mem
           /\ [m EXCEPT !.tries = n, !.outbox = o, !.failed = s] \in Mem
  <1>1. n \in 0..(RETRY_ATTEMPTS - 1)
    BY DEF RETRY_ATTEMPTS
  <1>2. [m EXCEPT !.tries = n] \in Mem
    BY <1>1 DEF Mem
  <1>3. [m EXCEPT !.tries = n, !.outbox = o, !.sent = s] \in Mem
    BY <1>1 DEF Mem
  <1>4. [m EXCEPT !.tries = n, !.outbox = o, !.failed = s] \in Mem
    BY <1>1 DEF Mem
  <1>5. QED
    BY <1>2, <1>3, <1>4

LEMMA FailsType ==
    ASSUME NEW m \in Mem, NEW i \in m.outbox
    PROVE  /\ Fails(m, i) \in Mem
           /\ Fails(m, i).offer = m.offer /\ Fails(m, i).current = m.current
  <1>1. m.tries \in 0..2 /\ m.outbox \ {i} \in SUBSET Nat /\ m.failed \cup {i} \in SUBSET Nat
    BY DEF Mem, RETRY_ATTEMPTS
  <1>0. 0 \in 0..2
    OBVIOUS
  <1>2. CASE m.tries + 1 < RETRY_ATTEMPTS
    <2>1. m.tries + 1 \in 0..2
      BY <1>1, <1>2 DEF RETRY_ATTEMPTS
    <2>2. Fails(m, i) = [m EXCEPT !.tries = m.tries + 1]
      BY <1>2 DEF Fails
    <2>3. Fails(m, i) \in Mem
      BY <2>1, <2>2, OutboxType
    <2>4. QED
      BY <2>2, <2>3 DEF Mem
  <1>3. CASE ~ (m.tries + 1 < RETRY_ATTEMPTS)
    <2>1. Fails(m, i) = [m EXCEPT !.tries = 0, !.outbox = m.outbox \ {i},
                                  !.failed = m.failed \cup {i}]
      BY <1>3 DEF Fails, Mem
    <2>2. [m EXCEPT !.tries = 0, !.outbox = m.outbox \ {i},
                    !.failed = m.failed \cup {i}] \in Mem
      BY <1>0, <1>1, OutboxType, Zenon
    <2>3. Fails(m, i) \in Mem
      BY <2>1, <2>2, Zenon
    <2>4. QED
      BY <2>1, <2>3 DEF Mem
  <1>4. QED
    BY <1>2, <1>3

LEMMA EmailTyped ==
    ASSUME Typed, NEW r \in Runs,
           \/ RenderFinalPayload(r) \/ SmtpDone(r) \/ HandleResult(r) \/ ReturnsStored(r)
           \/ \E i \in mem[r].outbox : SmtpAccepts(r, i) \/ SmtpRefuses(r, i)
    PROVE  Typed'
  <1>1. mem[r] \in Mem /\ Tables /\ (mem[r].offer # None => mem[r].current # None)
    BY DEF Typed, TypeOK, Tables, OfferHasStatement
  <1>2. DOMAIN reports \subseteq Nat
    BY <1>1, LenProperties DEF Tables
  <1>3. CASE RenderFinalPayload(r)
    <2>1. [Blank EXCEPT !.outbox = Pending] \in Mem
      BY <1>2, BlankType DEF Mem, Pending
    <2>2. QED
      BY <1>1, <1>3, <2>1, GoesTyped DEF RenderFinalPayload, At, Behind, db, Steps, Tables, Blank
  <1>4. ASSUME NEW i \in mem[r].outbox, SmtpAccepts(r, i) PROVE Typed'
    <2> DEFINE m == [mem[r] EXCEPT !.tries = 0, !.outbox = @ \ {i}, !.sent = @ \cup {i}]
    <2>1. m \in Mem /\ m.offer = mem[r].offer /\ m.current = mem[r].current
      <3>1. mem[r].outbox \ {i} \in SUBSET Nat /\ mem[r].sent \cup {i} \in SUBSET Nat
        BY <1>1 DEF Mem
      <3>2. m = [mem[r] EXCEPT !.tries = 0, !.outbox = mem[r].outbox \ {i},
                               !.sent = mem[r].sent \cup {i}]
        BY <1>1 DEF Mem
      <3>3. 0 \in 0..2
        OBVIOUS
      <3>4. m \in Mem
        BY <1>1, <3>1, <3>2, <3>3, OutboxType, Zenon
      <3>5. QED
        BY <3>2, <3>4 DEF Mem
    <2>2. reports' \in Seq(Reports)
      BY <1>1, <1>4, ArrivesType DEF SmtpAccepts
    <2>3. QED
      BY <1>1, <1>4, <2>1, <2>2, GoesTyped DEF SmtpAccepts, Sending, At, Behind, Steps, Tables
  <1>5. ASSUME NEW i \in mem[r].outbox, SmtpRefuses(r, i) PROVE Typed'
    BY <1>1, <1>5, FailsType, GoesTyped DEF SmtpRefuses, Sending, At, Behind, db, Steps, Tables
  <1>6. CASE HandleResult(r)
    BY <1>1, <1>6, MarkedType, LeavesTyped DEF HandleResult, Nodes, Tables
  <1>7. CASE SmtpDone(r)
    BY <1>1, <1>7, GoesTyped DEF SmtpDone, At, Behind, db, Steps, Tables
  <1>8. CASE ReturnsStored(r)
    <2>1. After[at[r]] \in Nodes
      BY DEF After, Nodes, Typed, TypeOK
    <2>2. QED
      BY <1>1, <1>8, <2>1, LeavesTyped DEF ReturnsStored, db, Tables
  <1>9. QED
    BY <1>3, <1>4, <1>5, <1>6, <1>7, <1>8

LEMMA AnswerLostTyped ==
    ASSUME Typed, NEW r \in Runs, NEW i \in mem[r].outbox, SmtpAnswerLost(r, i)
    PROVE  Typed'
  <1>1. mem[r] \in Mem /\ Tables /\ (mem[r].offer # None => mem[r].current # None)
    BY DEF Typed, TypeOK, Tables, OfferHasStatement
  <1>2. reports' \in Seq(Reports)
    BY <1>1, ArrivesType DEF SmtpAnswerLost
  <1>3. mem' = [mem EXCEPT ![r] = Fails(mem[r], i)] /\ Fails(mem[r], i) \in Mem
        /\ (Fails(mem[r], i).offer # None => Fails(mem[r], i).current # None)
    BY <1>1, FailsType DEF SmtpAnswerLost
  <1>4. losses' \in 0..MaxLosses
    BY DownstreamBounds DEF SmtpAnswerLost, Typed, TypeOK
  <1>5. QED
    BY <1>2, <1>3, <1>4 DEF SmtpAnswerLost, Typed, TypeOK, OfferHasStatement, Checkpointed

\* Runs that stop and those that do not.
Untouched(r) ==
    /\ mode'[r] = mode[r] /\ at'[r] = at[r] /\ step'[r] = step[r]
    /\ mem'[r] = mem[r] /\ saved'[r] = saved[r]

\* A run stops where it is, at an earlier step, or behind its last one.
CutOff(r) ==
    /\ mode[r] = "running" /\ mode'[r] = "stopped" /\ at'[r] = at[r] /\ saved'[r] = step'[r]
    /\ r \in disturbed'
    /\ \/ step'[r] = "enter" /\ mem'[r] = Blank
       \/ /\ step'[r] = "read" /\ step[r] \in {"read", "judged"}
          /\ mem'[r] = MemAt(mem[r], "read")
       \/ step'[r] = "judged" /\ step[r] = "judged" /\ mem'[r] = mem[r]
       \/ /\ step'[r] = "returned" /\ step[r] \in {"judged", "returned"}
          /\ mem'[r] = mem[r] /\ Forgotten(r, step'[r]) \subseteq unsettled'

Stopping ==
    /\ \A r \in Runs : Untouched(r) \/ CutOff(r)
    /\ \E r \in Runs : CutOff(r)
    /\ disturbed \subseteq disturbed' /\ disturbed' \subseteq Runs
    /\ unsettled \subseteq unsettled' /\ unsettled' \subseteq Nat
    /\ interruptions' \in 0..MaxInterruptions
    /\ mode' \in [Runs -> Modes] /\ at' \in [Runs -> Nodes] /\ step' \in [Runs -> Steps]
    /\ mem' \in [Runs -> Mem] /\ saved' \in [Runs -> Steps]
    /\ UNCHANGED <<at, db, losses>>

LEMMA MemAtType ==
    ASSUME NEW m \in Mem, NEW s \in Steps
    PROVE  /\ MemAt(m, s) \in Mem
           /\ MemAt(m, s).offer # None => MemAt(m, s) = m
  <1>1. CASE s = "enter"
    BY <1>1, BlankType DEF MemAt, Blank
  <1>2. CASE s = "read"
    <2> DEFINE b == [Blank EXCEPT !.current = m.current,
                                  !.outbox = m.outbox \cup m.sent \cup m.failed]
    <2>1. MemAt(m, s) = b
      BY <1>2 DEF MemAt
    <2>2. b \in Mem
      BY BlankType DEF Mem
    <2>3. b.offer = None
      BY DEF Blank
    <2>4. QED
      BY <2>1, <2>2, <2>3
  <1>3. CASE s \notin {"enter", "read"}
    BY <1>3 DEF MemAt
  <1>4. QED
    BY <1>1, <1>2, <1>3

LEMMA StopEffect ==
    ASSUME Typed, NEW S \in SUBSET Running, S # {}, NEW back \in [S -> Steps],
           \A r \in S : back[r] \in {saved[r]} \cup OnTheWay(r), Stop(S, back)
    PROVE  Stopping
  <1> USE DEF Typed, TypeOK
  <1>1. ASSUME NEW r \in Runs PROVE Untouched(r) \/ CutOff(r)
    <2>1. CASE r \notin S
      BY <2>1 DEF Stop, Untouched
    <2>2. CASE r \in S
      <3>1. /\ mode[r] = "running" /\ mode'[r] = "stopped" /\ at'[r] = at[r]
            /\ step'[r] = back[r] /\ saved'[r] = back[r] /\ mem'[r] = MemAt(mem[r], back[r])
            /\ r \in disturbed'
        BY <2>2 DEF Stop, Running
      <3>2. Forgotten(r, back[r]) \subseteq unsettled'
        BY <2>2 DEF Stop
      <3>3. step[r] \in Steps /\ saved[r] \in Behind(step[r])
        BY DEF Checkpointed
      <3>4. back[r] \in {saved[r]} \cup OnTheWay(r) /\ back[r] \in Steps
        BY <2>2
      <3>5. CASE back[r] = "enter"
        BY <3>1, <3>5 DEF CutOff, MemAt
      <3>6. CASE back[r] = "read"
        <4>1. step[r] \in {"read", "judged"}
          BY <3>3, <3>4, <3>6 DEF Behind, OnTheWay, Steps
        <4>2. QED
          BY <3>1, <3>6, <4>1 DEF CutOff
      <3>7. CASE back[r] = "judged"
        <4>1. step[r] = "judged"
          BY <3>3, <3>4, <3>7 DEF Behind, OnTheWay, Steps
        <4>2. QED
          BY <3>1, <3>7, <4>1 DEF CutOff, MemAt
      <3>8. CASE back[r] = "returned"
        <4>1. step[r] \in {"judged", "returned"}
          BY <3>3, <3>4, <3>8 DEF Behind, OnTheWay, Steps
        <4>2. QED
          BY <3>1, <3>2, <3>8, <4>1 DEF CutOff, MemAt
      <3>9. QED
        BY <3>4, <3>5, <3>6, <3>7, <3>8 DEF Steps
    <2>3. QED
      BY <2>1, <2>2
  <1>0. \E r \in Runs : CutOff(r)
    <2>1. PICK r \in S : mode[r] = "running" /\ mode'[r] = "stopped"
      BY DEF Stop, Running
    <2>2. r \in Runs /\ ~Untouched(r)
      BY <2>1 DEF Running, Untouched
    <2>3. QED
      BY <1>1, <2>2
  <1>2. unsettled \subseteq unsettled' /\ unsettled' \subseteq Nat
    <2>1. unsettled' = unsettled \cup UNION {Forgotten(r, back[r]) : r \in S}
      BY DEF Stop
    <2>2. ASSUME NEW r \in S PROVE Forgotten(r, back[r]) \subseteq Nat
      <3>1. mem[r] \in Mem
        BY DEF Running
      <3>2. QED
        BY <3>1 DEF Forgotten, Mem
    <2>3. QED
      BY <2>1, <2>2
  <1>3. /\ disturbed \subseteq disturbed' /\ disturbed' \subseteq Runs
        /\ mode' \in [Runs -> Modes] /\ step' \in [Runs -> Steps] /\ saved' \in [Runs -> Steps]
        /\ at' \in [Runs -> Nodes]
    BY DEF Stop, Running, Modes
  <1>4. mem' \in [Runs -> Mem]
    <2>1. ASSUME NEW r \in S PROVE MemAt(mem[r], back[r]) \in Mem
      <3>1. mem[r] \in Mem /\ back[r] \in Steps
        BY DEF Running
      <3>2. QED
        BY <3>1, MemAtType
    <2>2. QED
      BY <2>1 DEF Stop
  <1>5. interruptions' \in 0..MaxInterruptions
    BY DownstreamBounds DEF Stop
  <1>6. UNCHANGED <<at, db, losses>>
    BY DEF Stop
  <1>7. QED
    BY <1>0, <1>1, <1>2, <1>3, <1>4, <1>5, <1>6 DEF Stopping

\* A failure and a restart are stops.
LEMMA Stops ==
    ASSUME Typed, Crash \/ \E r \in Runs : NodeFails(r) PROVE Stopping
  <1>1. CASE Crash
    <2>1. PICK back \in [Running -> Steps] :
              /\ \A r \in Running : back[r] \in {saved[r]} \cup OnTheWay(r)
              /\ Stop(Running, back)
      BY <1>1 DEF Crash
    <2>2. QED
      BY <1>1, <2>1, StopEffect DEF Crash
  <1>2. ASSUME NEW r \in Runs, NodeFails(r) PROVE Stopping
    <2>1. PICK s \in OnTheWay(r) : Stop({r}, [q \in {r} |-> s])
      BY <1>2 DEF NodeFails
    <2> DEFINE back == [q \in {r} |-> s]
    <2>2. {r} \in SUBSET Running /\ {r} # {}
      BY <1>2 DEF NodeFails, Running
    <2>3. s \in Steps
      BY DEF OnTheWay, Steps, Typed, TypeOK
    <2>4. back \in [{r} -> Steps] /\ back[r] = s
      BY <2>3
    <2>5. \A q \in {r} : back[q] \in {saved[q]} \cup OnTheWay(q)
      BY <2>4
    <2>6. Stop({r}, back)
      BY <2>1
    <2> HIDE DEF back
    <2>7. QED
      BY <2>2, <2>4, <2>5, <2>6, StopEffect
  <1>3. QED
    BY <1>1, <1>2

LEMMA StoppingTyped == ASSUME Typed, Stopping PROVE Typed'
  <1>1. TypeOK'
    BY DEF Stopping, Typed, TypeOK, db
  <1>2. ASSUME NEW r \in Runs PROVE mem'[r].offer # None => mem'[r].current # None
    <2>1. mem[r].offer # None => mem[r].current # None
      BY DEF Typed, OfferHasStatement
    <2>2. MemAt(mem[r], "read").offer # None => MemAt(mem[r], "read") = mem[r]
      <3>1. mem[r] \in Mem /\ "read" \in Steps
        BY DEF Typed, TypeOK, Steps
      <3>2. QED
        BY <3>1, MemAtType
    <2>3. Blank.offer = None
      BY DEF Blank
    <2>4. Untouched(r) \/ CutOff(r)
      BY DEF Stopping
    <2>5. QED
      BY <2>1, <2>2, <2>3, <2>4 DEF Untouched, CutOff
  <1>3. ASSUME NEW r \in Runs PROVE saved'[r] \in Behind(step'[r])
    <2>1. Untouched(r) \/ CutOff(r)
      BY DEF Stopping
    <2>2. saved[r] \in Behind(step[r])
      BY DEF Typed, Checkpointed
    <2>3. QED
      BY <2>1, <2>2 DEF Untouched, CutOff, Behind
  <1>4. QED
    BY <1>1, <1>2, <1>3 DEF Typed, OfferHasStatement, Checkpointed

LEMMA RunTyped ==
    ASSUME Typed,
           \/ Crash
           \/ \E s \in Statements : Arrive(s)
           \/ \E r \in Runs : \/ Trigger(r) \/ Resume(r) \/ Finish(r)
                             \/ SaveCheckpoint(r) \/ NodeFails(r)
    PROVE  Typed'
  <1> USE DEF Typed, TypeOK, OfferHasStatement, Checkpointed, db, faults
  <1>1. Overtaken \in [Runs -> Modes]
    BY DEF Overtaken, Modes
  <1>2. CASE Crash \/ \E r \in Runs : NodeFails(r)
    BY <1>2, Stops, StoppingTyped
  <1>3. ASSUME NEW s \in Statements, Arrive(s) PROVE Typed'
    BY <1>1, <1>3 DEF Arrive, Running
  <1>4. ASSUME NEW r \in Runs, Trigger(r) \/ Resume(r) PROVE Typed'
    <2>1. Executes(r)
      BY <1>4 DEF Trigger, Resume
    <2>2. QED
      BY <1>1, <2>1 DEF Executes, Modes, Running
  <1>5. ASSUME NEW r \in Runs, Finish(r) PROVE Typed'
    BY <1>5 DEF Finish, Modes
  <1>6. ASSUME NEW r \in Runs, SaveCheckpoint(r) PROVE Typed'
    BY <1>6 DEF SaveCheckpoint, Behind, Steps
  <1>7. QED
    BY <1>2, <1>3, <1>4, <1>5, <1>6

LEMMA NextTyped == Typed /\ [Next]_vars => Typed'
  <1> SUFFICES ASSUME Typed, [Next]_vars PROVE Typed'
    OBVIOUS
  <1>1. CASE UNCHANGED vars
    BY <1>1 DEF vars, Typed, TypeOK, OfferHasStatement, Checkpointed
  <1>2. CASE Next
    BY <1>2, ReconciliationTyped, CashflowTyped, InvestmentTyped, ReportingTyped, EmailTyped,
       AnswerLostTyped, RunTyped DEF Next, NodeStep
  <1>3. QED
    BY <1>1, <1>2

LEMMA TypedInvariant == Spec => []Typed
  <1>1. Init => Typed
    BY InitTypeOK DEF Init, Typed, OfferHasStatement, Checkpointed, Behind, Blank
  <1>2. QED
    BY <1>1, NextTyped, PTL DEF Spec

\* Every variable keeps its type, whatever runs, failures and restarts come together.
THEOREM TypeCorrect == Spec => []TypeOK
  <1>1. Typed => TypeOK
    BY DEF Typed
  <1>2. QED
    BY <1>1, TypedInvariant, PTL

-----------------------------------------------------------------------------
(***************************************************************************)
(* Pending reports.  A run that has read the queue keeps its own reports   *)
(* among the mails it has in hand, sent or failed until it marks them, and *)
(* a stop behind its verdict makes them unsettled.                         *)
(***************************************************************************)

\* What r has in hand, sent or failed.
Handled(r) == mem[r].outbox \cup mem[r].sent \cup mem[r].failed

CarriedAt(i, r) ==
    /\ at[r] # "END"
    /\ at[r] = "email_delivery" =>
          /\ step[r] # "enter" => i \in Handled(r)
          /\ step[r] = "judged" => i \in mem[r].sent \cup mem[r].failed
          /\ step[r] # "returned"

\* A run that is through has no step left, nor a verdict to return.
Placed(r) ==
    /\ mode[r] = "completed" => at[r] = "END"
    /\ at[r] = "END" => step[r] = "enter"

Carrying ==
    \A r \in Runs :
        Placed(r) /\ \A i \in Pending \ unsettled : reports[i].by = r => CarriedAt(i, r)

LEMMA PendingRows ==
    ASSUME TypeOK PROVE \A i \in DOMAIN reports : reports[i] \in Reports
  <1>1. reports \in [1..Len(reports) -> Reports] /\ DOMAIN reports = 1..Len(reports)
    BY LenProperties DEF TypeOK
  <1>2. QED
    BY <1>1

\* A run that does not act: another one may overtake it.
Stands(q) ==
    /\ at'[q] = at[q] /\ step'[q] = step[q] /\ mem'[q] = mem[q]
    /\ mode'[q] = mode[q] \/ (mode[q] = "stopped" /\ mode'[q] = "overtaken")

\* Only run r moves.
Moves(r) == \A q \in Runs \ {r} : Stands(q)

LEMMA Acting ==
    ASSUME Typed, NEW r \in Runs
    PROVE  /\ \A s, m : Goes(r, s, m) => /\ Moves(r) /\ mode' = mode /\ at' = at
                                          /\ step'[r] = s /\ mem'[r] = m
           /\ \A n : Leaves(r, n) => /\ Moves(r) /\ mode' = mode /\ at'[r] = n
                                      /\ step'[r] = "enter" /\ mem'[r] = Blank
           /\ \A i : SmtpAnswerLost(r, i) => /\ Moves(r) /\ mode' = mode /\ at' = at
                                              /\ step' = step /\ mem'[r] = Fails(mem[r], i)
  BY DEF Goes, Stays, Leaves, SmtpAnswerLost, Moves, Stands, Typed, TypeOK

\* A run starts or is resumed.
LEMMA Executing ==
    ASSUME Typed, NEW r \in Runs, Trigger(r) \/ Resume(r)
    PROVE  /\ Moves(r) /\ mode'[r] = "running" /\ disturbed \subseteq disturbed'
           /\ mode[r] \in {"new", "stopped", "overtaken"}
           /\ UNCHANGED <<at, step, mem, saved, unsettled, interruptions, losses, db>>
  <1>1. Executes(r) /\ mode[r] \in {"new", "stopped", "overtaken"}
    BY DEF Trigger, Resume
  <1>2. UNCHANGED <<at, step, mem, saved, unsettled, interruptions, losses, db>>
    BY <1>1 DEF Executes, faults
  <1>3. Overtaken \in [Runs -> Modes]
    BY DEF Overtaken, Modes, Typed, TypeOK
  <1>4. mode' = [Overtaken EXCEPT ![r] = "running"] /\ disturbed \subseteq disturbed'
    BY <1>1 DEF Executes
  <1>5. ASSUME NEW q \in Runs \ {r} PROVE Stands(q)
    BY <1>2, <1>3, <1>4 DEF Stands, Overtaken
  <1>6. QED
    BY <1>1, <1>2, <1>3, <1>4, <1>5 DEF Moves

\* A step of r that makes no report of another run pending.
LEMMA CarryingMove ==
    ASSUME Typed, Carrying, NEW r \in Runs, Moves(r), Placed(r)', unsettled' = unsettled,
           \A i \in Pending' : reports'[i].by # r
              => i \in Pending /\ reports'[i].by = reports[i].by,
           \A i \in Pending' \ unsettled : reports'[i].by = r => CarriedAt(i, r)'
    PROVE  Carrying'
  <1>1. ASSUME NEW q \in Runs PROVE Placed(q)'
    <2>1. q = r \/ (Stands(q) /\ Placed(q))
      BY DEF Carrying, Moves
    <2>2. QED
      BY <2>1 DEF Placed, Stands
  <1>2. ASSUME NEW q \in Runs, NEW i \in Pending' \ unsettled, reports'[i].by = q, q # r
        PROVE  CarriedAt(i, q)'
    <2>1. CarriedAt(i, q) /\ Stands(q)
      BY <1>2 DEF Carrying, Moves
    <2>2. QED
      BY <2>1 DEF CarriedAt, Handled, Stands
  <1>3. QED
    BY <1>1, <1>2 DEF Carrying

\* A step of r that leaves all reports alone.
LEMMA CarryingQuiet ==
    ASSUME Typed, Carrying, NEW r \in Runs, Moves(r), reports' = reports, Placed(r)',
           unsettled' = unsettled,
           \A i \in Pending : CarriedAt(i, r) => CarriedAt(i, r)'
    PROVE  Carrying'
  <1>1. Pending' = Pending
    BY DEF Pending
  <1>2. ASSUME NEW i \in Pending \ unsettled, reports[i].by = r PROVE CarriedAt(i, r)'
    BY <1>2 DEF Carrying
  <1>3. QED
    BY <1>1, <1>2, CarryingMove

\* A node before email_delivery that goes on, or ends without a report.
LEMMA CarryingEarly ==
    ASSUME Typed, Carrying, NEW r \in Runs, reports' = reports,
           mode[r] = "running", at[r] \notin {"email_delivery", "END"},
           \/ \E s, m : Goes(r, s, m)
           \/ \E n \in Nodes \ {"END"} : Leaves(r, n)
    PROVE  Carrying'
  <1>1. Moves(r) /\ mode' = mode /\ unsettled' = unsettled
    BY Acting DEF Goes, Stays, Leaves
  <1>2. at'[r] = at[r] \/ (at'[r] # "END" /\ step'[r] = "enter")
    BY Acting
  <1>3. Placed(r)'
    BY <1>1, <1>2 DEF Placed
  <1>4. \A i \in Pending : CarriedAt(i, r)'
    BY <1>2 DEF CarriedAt
  <1>5. QED
    BY <1>1, <1>3, <1>4, CarryingQuiet

\* The nodes up to reporting.
LEMMA CarryingBefore ==
    ASSUME Typed, Carrying, NEW r \in Runs,
           \/ LoadFixedCosts(r) \/ MatchTransactions(r) \/ PersistReconciliation(r)
           \/ AggregateIncomeExpense(r) \/ ApplyFixedCostsStatus(r)
           \/ UpsertCashflowSummary(r)
           \/ CheckSafetyBuffer(r) \/ AssessTrend(r) \/ PersistRecommendation(r)
           \/ DetermineReportTypes(r) \/ RenderReports(r)
    PROVE  Carrying'
  <1> USE DEF At, db
  <1>1. CASE LoadFixedCosts(r) \/ AggregateIncomeExpense(r) \/ CheckSafetyBuffer(r)
                \/ DetermineReportTypes(r)
    BY <1>1, CarryingEarly
       DEF LoadFixedCosts, AggregateIncomeExpense, CheckSafetyBuffer, DetermineReportTypes
  <1>2. CASE \/ MatchTransactions(r) \/ ApplyFixedCostsStatus(r) \/ AssessTrend(r)
             \/ RenderReports(r)
    <2>1. at[r] \notin {"email_delivery", "END"} /\ mode[r] = "running" /\ reports' = reports
          /\ \E m : Goes(r, "judged", m)
      BY <1>2 DEF MatchTransactions, ApplyFixedCostsStatus, AssessTrend, RenderReports
    <2>2. QED
      BY <2>1, CarryingEarly
  <1>3. CASE PersistReconciliation(r) \/ UpsertCashflowSummary(r) \/ PersistRecommendation(r)
    <2>1. at[r] \notin {"email_delivery", "END"} /\ mode[r] = "running" /\ reports' = reports
          /\ \E n \in Nodes \ {"END"} : Leaves(r, n)
      BY <1>3 DEF PersistReconciliation, UpsertCashflowSummary, PersistRecommendation, Nodes
    <2>2. QED
      BY <2>1, CarryingEarly
  <1>4. QED
    BY <1>1, <1>2, <1>3

LEMMA CarryingReport ==
    ASSUME Typed, Carrying, NEW r \in Runs, PersistReport(r) PROVE Carrying'
  <1>1. mem[r] \in Mem /\ Tables
    BY DEF Typed, TypeOK, Tables
  <1>2. CASE mem[r].covers = None
    BY <1>2, CarryingEarly DEF PersistReport, At, Nodes
  <1>3. CASE mem[r].covers # None
    <2>1. Moves(r) /\ at'[r] = "email_delivery" /\ step'[r] = "enter" /\ mode' = mode
          /\ mode[r] = "running" /\ unsettled' = unsettled
      BY Acting DEF PersistReport, At, Leaves
    <2>2. Placed(r)'
      BY <2>1 DEF Placed
    <2>3. ASSUME NEW i \in Pending', reports'[i].by # r
          PROVE  i \in Pending /\ reports'[i].by = reports[i].by
      <3>1. i \in DOMAIN reports
        <4>1. i \in DOMAIN reports'
          BY DEF Pending
        <4>2. \A type \in {"weekly", "monthly"} : Page(r, type).by = r
          BY DEF Page
        <4>3. QED
          BY <1>1, <1>3, <2>3, <4>1, <4>2, PersistReportRows
      <3>2. reports'[i] = reports[i]
        BY <1>1, <1>3, <3>1, PersistReportRows
      <3>3. QED
        BY <3>1, <3>2 DEF Pending
    <2>4. \A i \in Pending' : CarriedAt(i, r)'
      BY <2>1 DEF CarriedAt
    <2>5. QED
      BY <2>1, <2>2, <2>3, <2>4, CarryingMove
  <1>4. QED
    BY <1>2, <1>3

LEMMA FailsHandles ==
    ASSUME NEW m \in Mem, NEW i \in m.outbox
    PROVE  /\ Fails(m, i).outbox \cup Fails(m, i).sent \cup Fails(m, i).failed
                 = m.outbox \cup m.sent \cup m.failed
           /\ Fails(m, i).sent = m.sent /\ m.failed \subseteq Fails(m, i).failed
  BY DEF Fails, Mem

LEMMA CarryingMail ==
    ASSUME Typed, Carrying, NEW r \in Runs, NEW i \in mem[r].outbox,
           SmtpAccepts(r, i) \/ SmtpRefuses(r, i) \/ SmtpAnswerLost(r, i)
    PROVE  Carrying'
  <1>1. mem[r] \in Mem /\ Tables
    BY DEF Typed, TypeOK, Tables
  <1>2. Moves(r) /\ at' = at /\ step'[r] = "read" /\ step[r] = "read" /\ mode' = mode
        /\ unsettled' = unsettled
    BY Acting DEF SmtpAccepts, SmtpRefuses, SmtpAnswerLost, Sending, At, Goes, Stays
  <1>3. Handled(r)' = Handled(r)
    <2>1. CASE SmtpAccepts(r, i)
      <3> DEFINE m == [mem[r] EXCEPT !.tries = 0, !.outbox = @ \ {i}, !.sent = @ \cup {i}]
      <3>1. m.outbox \cup m.sent \cup m.failed = Handled(r)
        BY <1>1 DEF Mem, Handled
      <3> HIDE DEF m
      <3>2. mem'[r] = m
        BY <2>1, Acting DEF SmtpAccepts, m
      <3>3. QED
        BY <3>1, <3>2 DEF Handled
    <2>2. CASE SmtpRefuses(r, i) \/ SmtpAnswerLost(r, i)
      <3>1. mem'[r] = Fails(mem[r], i)
        BY <2>2, Acting DEF SmtpRefuses
      <3>2. QED
        BY <1>1, <3>1, FailsHandles DEF Handled
    <2>3. QED
      BY <2>1, <2>2
  <1>4. ASSUME NEW j \in Pending' PROVE j \in Pending /\ reports'[j].by = reports[j].by
    <2>1. reports' = reports \/ Arrives(i)
      BY DEF SmtpAccepts, SmtpRefuses, SmtpAnswerLost, db
    <2>2. CASE reports' = reports
      BY <2>2 DEF Pending
    <2>3. CASE Arrives(i)
      <3>1. j \in DOMAIN reports
        BY <1>1, <2>3, ArrivesType DEF Pending
      <3>2. reports[j] \in Reports
        BY <3>1, PendingRows DEF Typed
      <3>3. reports'[j].by = reports[j].by /\ reports'[j].delivery = reports[j].delivery
        BY <2>3, <3>1, <3>2 DEF Arrives, Reports
      <3>4. QED
        BY <3>1, <3>3 DEF Pending
    <2>4. QED
      BY <2>1, <2>2, <2>3
  <1>5. Placed(r)'
    BY <1>2 DEF Carrying, Placed
  <1>6. \A j \in Pending' \ unsettled : reports'[j].by = r => CarriedAt(j, r)'
    BY <1>2, <1>3, <1>4 DEF Carrying, CarriedAt
  <1>7. QED
    BY <1>2, <1>4, <1>5, <1>6, CarryingMove

\* The queue is read, or the last result is in.
LEMMA CarryingQueue ==
    ASSUME Typed, Carrying, NEW r \in Runs, RenderFinalPayload(r) \/ SmtpDone(r) PROVE Carrying'
  <1>1. Moves(r) /\ at' = at /\ mode' = mode /\ reports' = reports /\ unsettled' = unsettled
        /\ mode[r] = "running" /\ at[r] = "email_delivery"
    BY Acting DEF RenderFinalPayload, SmtpDone, db, At, Goes, Stays
  <1>2. Placed(r)'
    BY <1>1 DEF Placed
  <1>3. CASE RenderFinalPayload(r)
    <2>1. step'[r] = "read" /\ mem'[r].outbox = Pending
      BY <1>3, Acting DEF RenderFinalPayload, Blank
    <2>2. \A i \in Pending : CarriedAt(i, r)'
      BY <1>1, <2>1 DEF CarriedAt, Handled
    <2>3. QED
      BY <1>1, <1>2, <2>2, CarryingQuiet
  <1>4. CASE SmtpDone(r)
    <2>1. step[r] = "read" /\ step'[r] = "judged" /\ mem'[r] = mem[r] /\ mem[r].outbox = {}
      BY <1>4, Acting DEF SmtpDone, At
    <2>2. \A i \in Pending : CarriedAt(i, r) => CarriedAt(i, r)'
      BY <1>1, <2>1 DEF CarriedAt, Handled
    <2>3. QED
      BY <1>1, <1>2, <2>2, CarryingQuiet
  <1>5. QED
    BY <1>3, <1>4

\* All pending reports of r are in one of the two sets by now.
LEMMA CarryingResult ==
    ASSUME Typed, Carrying, NEW r \in Runs, HandleResult(r) PROVE Carrying'
  <1>1. Moves(r) /\ at'[r] = "END" /\ step'[r] = "enter" /\ mode' = mode /\ mode[r] = "running"
        /\ at[r] = "email_delivery" /\ step[r] = "judged" /\ unsettled' = unsettled
    BY Acting DEF HandleResult, At, Leaves
  <1>2. Placed(r)'
    BY <1>1 DEF Placed
  <1>3. DOMAIN reports' = DOMAIN reports
        /\ \A i \in DOMAIN reports :
              reports'[i] = IF i \in mem[r].sent THEN [reports[i] EXCEPT !.delivery = "sent"]
                            ELSE IF i \in mem[r].failed
                                 THEN [reports[i] EXCEPT !.delivery = "failed"]
                            ELSE reports[i]
    BY DEF HandleResult, Marked
  <1>4. ASSUME NEW i \in Pending'
        PROVE  i \in Pending /\ i \notin mem[r].sent \cup mem[r].failed
               /\ reports'[i] = reports[i]
    <2>1. i \in DOMAIN reports /\ reports'[i].delivery = "pending"
      BY <1>3 DEF Pending
    <2>2. reports[i] \in Reports
      BY <2>1, PendingRows DEF Typed
    <2>3. i \notin mem[r].sent \cup mem[r].failed
      BY <1>3, <2>1, <2>2 DEF Reports
    <2>4. QED
      BY <1>3, <2>1, <2>3 DEF Pending
  <1>5. \A i \in Pending' \ unsettled : reports'[i].by # r
    BY <1>1, <1>4 DEF Carrying, CarriedAt
  <1>6. QED
    BY <1>1, <1>2, <1>4, <1>5, CarryingMove

\* A resume that only returns what is stored: nobody counts on its verdict any more.
LEMMA CarryingReturn ==
    ASSUME Typed, Carrying, NEW r \in Runs, ReturnsStored(r) PROVE Carrying'
  <1>1. Moves(r) /\ at'[r] = After[at[r]] /\ step'[r] = "enter" /\ mode' = mode
        /\ mode[r] = "running" /\ step[r] = "returned" /\ reports' = reports
        /\ unsettled' = unsettled
    BY Acting DEF ReturnsStored, Leaves, db
  <1>2. at[r] \in Nodes /\ at[r] # "END"
    BY <1>1 DEF Carrying, Placed, Typed, TypeOK
  <1>3. Placed(r)'
    BY <1>1 DEF Placed
  <1>4. at[r] # "email_delivery" => at'[r] # "END"
    BY <1>1, <1>2 DEF After, Nodes
  <1>5. \A i \in Pending : CarriedAt(i, r) => CarriedAt(i, r)'
    BY <1>1, <1>4 DEF CarriedAt
  <1>6. QED
    BY <1>1, <1>3, <1>5, CarryingQuiet

LEMMA CarryingRun ==
    ASSUME Typed, Carrying,
           \/ \E s \in Statements : Arrive(s)
           \/ \E r \in Runs : Trigger(r) \/ Resume(r) \/ Finish(r) \/ SaveCheckpoint(r)
    PROVE  Carrying'
  <1>1. reports' = reports /\ Pending' = Pending /\ unsettled' = unsettled
    BY DEF Arrive, Trigger, Resume, Executes, Finish, SaveCheckpoint, db, Pending
  <1>2. ASSUME NEW s \in Statements, Arrive(s) PROVE Carrying'
    <2>1. \A q \in Runs : mode'[q] = "completed" => mode[q] = "completed"
      BY <1>2 DEF Arrive, Overtaken
    <2>2. QED
      BY <1>1, <1>2, <2>1 DEF Arrive, Carrying, Placed, CarriedAt, Handled
  <1>3. ASSUME NEW r \in Runs, Trigger(r) \/ Resume(r) PROVE Carrying'
    <2>1. Placed(r)'
      BY <1>3, Executing DEF Carrying, Placed
    <2>2. \A i \in Pending : CarriedAt(i, r) => CarriedAt(i, r)'
      BY <1>3, Executing DEF CarriedAt, Handled
    <2>3. QED
      BY <1>1, <1>3, <2>1, <2>2, Executing, CarryingQuiet
  <1>4. ASSUME NEW r \in Runs, Finish(r) \/ SaveCheckpoint(r) PROVE Carrying'
    <2>1. Moves(r) /\ at' = at /\ step' = step /\ mem' = mem
      BY <1>4 DEF Finish, SaveCheckpoint, Moves, Stands, Typed, TypeOK
    <2>2. Placed(r)'
      BY <1>4 DEF Finish, SaveCheckpoint, At, Carrying, Placed, Typed, TypeOK
    <2>3. QED
      BY <1>1, <2>1, <2>2, CarryingQuiet DEF CarriedAt, Handled
  <1>5. QED
    BY <1>2, <1>3, <1>4

\* A run that is stopped keeps what it has to carry, or forgets it.
LEMMA CarryingStop ==
    ASSUME Typed, Carrying, Stopping PROVE Carrying'
  <1>1. reports' = reports /\ Pending' = Pending /\ unsettled \subseteq unsettled'
    BY DEF Stopping, db, Pending
  <1>2. ASSUME NEW r \in Runs PROVE Placed(r)'
    BY DEF Carrying, Placed, Stopping, Untouched, CutOff
  <1>3. ASSUME NEW r \in Runs, NEW i \in Pending \ unsettled', reports[i].by = r
        PROVE  CarriedAt(i, r)'
    <2>1. CarriedAt(i, r)
      BY <1>1, <1>3 DEF Carrying
    <2>2. CASE Untouched(r)
      BY <2>1, <2>2 DEF Untouched, CarriedAt, Handled
    <2>3. CASE CutOff(r)
      <3>1. at'[r] = at[r]
        BY <2>3 DEF CutOff
      <3>2. MemAt(mem[r], "read").outbox = Handled(r)
        BY DEF MemAt, Blank, Handled
      <3>3. CASE step'[r] = "enter"
        BY <2>1, <3>1, <3>3 DEF CarriedAt
      <3>4. CASE step'[r] = "read"
        <4>1. mem'[r].outbox = Handled(r) /\ step[r] # "enter"
          BY <2>3, <3>2, <3>4 DEF CutOff
        <4>2. QED
          BY <2>1, <3>1, <3>4, <4>1 DEF CarriedAt, Handled
      <3>5. CASE step'[r] = "judged"
        BY <2>1, <2>3, <3>1, <3>5 DEF CutOff, CarriedAt, Handled
      <3>6. CASE step'[r] = "returned"
        <4>1. at[r] # "email_delivery"
          BY <1>3, <2>1, <2>3, <3>6 DEF CutOff, CarriedAt, Forgotten
        <4>2. QED
          BY <2>1, <3>1, <4>1 DEF CarriedAt
      <3>7. QED
        BY <2>3, <3>3, <3>4, <3>5, <3>6 DEF CutOff
    <2>4. QED
      BY <2>2, <2>3 DEF Stopping
  <1>4. QED
    BY <1>1, <1>2, <1>3 DEF Carrying

LEMMA CarryingNext == Typed /\ Carrying /\ [Next]_vars => Carrying'
  <1> SUFFICES ASSUME Typed, Carrying, [Next]_vars PROVE Carrying'
    OBVIOUS
  <1>1. CASE UNCHANGED vars
    BY <1>1 DEF vars, Carrying, Placed, CarriedAt, Handled, Pending
  <1>2. ASSUME NEW r \in Runs, NodeStep(r) PROVE Carrying'
    BY <1>2, CarryingBefore, CarryingReport, CarryingMail, CarryingQueue, CarryingResult,
       CarryingReturn, CarryingRun DEF NodeStep
  <1>3. CASE Crash \/ \E r \in Runs : NodeFails(r)
    BY <1>3, Stops, CarryingStop
  <1>4. CASE Next
    BY <1>2, <1>3, <1>4, CarryingRun DEF Next
  <1>5. QED
    BY <1>1, <1>4

\* No interleaving, failure or restart leaves a pending report without a run that has yet
\* to mail it, unless its verdict was rolled back behind handle_result.
THEOREM PendingCarried == Spec => []PendingHasCarrier
  <1>1. Init => Carrying
    BY DEF Init, Carrying, Placed, Pending
  <1>2. Typed /\ Carrying => PendingHasCarrier
    <2>1. TypeOK => \A i \in Pending : reports[i].by \in Runs
      BY PendingRows DEF Pending, Reports
    <2>2. QED
      BY <2>1 DEF Typed, Carrying, Placed, CarriedAt, PendingHasCarrier
  <1>3. QED
    BY <1>1, <1>2, TypedInvariant, CarryingNext, PTL DEF Spec

-----------------------------------------------------------------------------
(***************************************************************************)
(* Sent reports.  A run counts only mails as sent that have arrived, and   *)
(* an arrival is never undone.                                             *)
(***************************************************************************)
Arrived == {i \in DOMAIN reports : reports[i].copies > 0}

Mailing ==
    /\ SentWasMailed
    /\ \A r \in Runs : Handled(r) \subseteq DOMAIN reports /\ mem[r].sent \subseteq Arrived

\* A step that leaves REPORTS alone and mails nothing.
LEMMA MailingQuiet ==
    ASSUME Mailing, reports' = reports,
           \A r \in Runs : /\ Handled(r)' \subseteq Handled(r) \cup Pending
                           /\ mem'[r].sent \subseteq mem[r].sent
    PROVE  Mailing'
  BY DEF Mailing, SentWasMailed, Arrived, Pending

LEMMA MailingGoes ==
    ASSUME Typed, Mailing, reports' = reports, NEW r \in Runs, NEW m, NEW s, Goes(r, s, m),
           m.outbox \cup m.sent \cup m.failed \subseteq Handled(r) \cup Pending,
           m.sent \subseteq mem[r].sent
    PROVE  Mailing'
  BY MailingQuiet DEF Goes, Handled, Typed, TypeOK

LEMMA MailingLeaves ==
    ASSUME Typed, Mailing, reports' = reports, NEW r \in Runs, NEW n, Leaves(r, n)
    PROVE  Mailing'
  BY MailingQuiet DEF Leaves, Handled, Blank, Typed, TypeOK

\* What a node judges does not concern its mails; only render_weekly picks a
\* recommendation.
LEMMA JudgedEffect ==
    ASSUME Typed, NEW r \in Runs,
           \/ MatchTransactions(r) \/ ApplyFixedCostsStatus(r) \/ AssessTrend(r)
           \/ RenderReports(r)
    PROVE  \E m : /\ Goes(r, "judged", m)
                  /\ m.outbox = mem[r].outbox /\ m.sent = mem[r].sent
                  /\ m.failed = mem[r].failed
                  /\ m.rec \in {mem[r].rec, LatestUnattached}
  <1>1. mem[r] \in Mem
    BY DEF Typed, TypeOK
  <1>2. CASE Goes(r, "judged", mem[r])
    BY <1>2
  <1>3. CASE MatchTransactions(r) \/ ApplyFixedCostsStatus(r)
    <2>1. PICK plan : Goes(r, "judged", [mem[r] EXCEPT !.plan = plan])
      BY <1>3 DEF MatchTransactions, ApplyFixedCostsStatus
    <2> DEFINE m == [mem[r] EXCEPT !.plan = plan]
    <2>2. /\ m.outbox = mem[r].outbox /\ m.sent = mem[r].sent
          /\ m.failed = mem[r].failed /\ m.rec = mem[r].rec
      BY <1>1 DEF Mem
    <2>3. QED
      BY <2>1, <2>2
  <1>4. CASE AssessTrend(r) /\ ~Goes(r, "judged", mem[r])
    <2>1. PICK p : Goes(r, "judged", [mem[r] EXCEPT !.offer = p])
      BY <1>4, Zenon DEF AssessTrend
    <2> DEFINE m == [mem[r] EXCEPT !.offer = p]
    <2>2. /\ m.outbox = mem[r].outbox /\ m.sent = mem[r].sent
          /\ m.failed = mem[r].failed /\ m.rec = mem[r].rec
      BY <1>1 DEF Mem
    <2>3. QED
      BY <2>1, <2>2
  <1>5. CASE RenderReports(r) /\ ~Goes(r, "judged", mem[r])
    <2>1. PICK paid : Goes(r, "judged", [mem[r] EXCEPT !.covers = Current, !.plan = paid,
                                                       !.rec = LatestUnattached])
      BY <1>5 DEF RenderReports
    <2> DEFINE m == [mem[r] EXCEPT !.covers = Current, !.plan = paid, !.rec = LatestUnattached]
    <2>2. /\ m.outbox = mem[r].outbox /\ m.sent = mem[r].sent
          /\ m.failed = mem[r].failed /\ m.rec = LatestUnattached
      BY <1>1 DEF Mem
    <2>3. QED
      BY <2>1, <2>2
  <1>6. QED
    BY <1>2, <1>3, <1>4, <1>5

LEMMA MailingBefore ==
    ASSUME Typed, Mailing, NEW r \in Runs,
           \/ LoadFixedCosts(r) \/ MatchTransactions(r) \/ PersistReconciliation(r)
           \/ AggregateIncomeExpense(r) \/ ApplyFixedCostsStatus(r)
           \/ UpsertCashflowSummary(r)
           \/ CheckSafetyBuffer(r) \/ AssessTrend(r) \/ PersistRecommendation(r)
           \/ DetermineReportTypes(r) \/ RenderReports(r)
           \/ RenderFinalPayload(r) \/ SmtpDone(r) \/ ReturnsStored(r)
    PROVE  Mailing'
  <1> USE DEF db
  <1>1. mem[r] \in Mem
    BY DEF Typed, TypeOK
  <1>2. CASE LoadFixedCosts(r) \/ AggregateIncomeExpense(r) \/ CheckSafetyBuffer(r)
                \/ DetermineReportTypes(r) \/ RenderFinalPayload(r)
    <2>1. reports' = reports
          /\ \E m, s : /\ Goes(r, s, m) /\ m.outbox \subseteq Pending
                       /\ m.sent = {} /\ m.failed = {}
      BY <1>2 DEF LoadFixedCosts, AggregateIncomeExpense, CheckSafetyBuffer,
                  DetermineReportTypes, RenderFinalPayload, Blank
    <2>2. QED
      BY <2>1, MailingGoes
  <1>3. CASE \/ MatchTransactions(r) \/ ApplyFixedCostsStatus(r) \/ AssessTrend(r)
             \/ RenderReports(r)
    <2>1. reports' = reports
      BY <1>3 DEF MatchTransactions, ApplyFixedCostsStatus, AssessTrend, RenderReports
    <2>2. PICK m : /\ Goes(r, "judged", m) /\ m.outbox = mem[r].outbox
                   /\ m.sent = mem[r].sent /\ m.failed = mem[r].failed
      BY <1>3, JudgedEffect
    <2>3. QED
      BY <2>1, <2>2, MailingGoes DEF Handled
  <1>4. CASE \/ PersistReconciliation(r) \/ UpsertCashflowSummary(r)
             \/ PersistRecommendation(r) \/ ReturnsStored(r)
    BY <1>4, MailingLeaves
       DEF PersistReconciliation, UpsertCashflowSummary, PersistRecommendation, ReturnsStored
  <1>5. CASE SmtpDone(r)
    BY <1>5, MailingGoes DEF SmtpDone, Handled
  <1>6. QED
    BY <1>2, <1>3, <1>4, <1>5

LEMMA MailingReport ==
    ASSUME Typed, Mailing, NEW r \in Runs, PersistReport(r) PROVE Mailing'
  <1>1. mem[r] \in Mem /\ Tables
    BY DEF Typed, TypeOK, Tables
  <1>2. CASE mem[r].covers = None
    BY <1>2, MailingLeaves DEF PersistReport
  <1>3. CASE mem[r].covers # None
    <2>1. \A q \in Runs : Handled(q)' \subseteq Handled(q) /\ mem'[q].sent \subseteq mem[q].sent
      BY DEF PersistReport, Leaves, Handled, Blank, Typed, TypeOK
    <2>2. Arrived \subseteq Arrived'
      BY <1>1, <1>3, PersistReportRows DEF Arrived
    <2>3. SentWasMailed'
      <3>1. ASSUME NEW i \in DOMAIN reports', reports'[i].delivery = "sent"
            PROVE  i \in DOMAIN reports
        <4>1. \A type \in {"weekly", "monthly"} : Page(r, type).delivery = "pending"
          BY DEF Page
        <4>2. QED
          BY <1>1, <1>3, <3>1, <4>1, PersistReportRows
      <3>2. QED
        BY <1>1, <1>3, <3>1, PersistReportRows DEF SentWasMailed, Mailing
    <2>4. QED
      BY <1>1, <1>3, <2>1, <2>2, <2>3, PersistReportRows DEF Mailing
  <1>4. QED
    BY <1>2, <1>3

\* A mail that arrives only adds to the mailbox.
LEMMA ArrivesEffect ==
    ASSUME Typed, Mailing, NEW i \in DOMAIN reports, Arrives(i)
    PROVE  /\ DOMAIN reports' = DOMAIN reports
           /\ Arrived' = Arrived \cup {i}
           /\ SentWasMailed'
  <1>1. DOMAIN reports' = DOMAIN reports
    BY ArrivesType DEF Typed, TypeOK, Tables
  <1>2. ASSUME NEW j \in DOMAIN reports
        PROVE  /\ reports'[j].copies = IF j = i THEN reports[j].copies + 1 ELSE reports[j].copies
               /\ reports'[j].delivery = reports[j].delivery
               /\ reports[j].copies \in Nat
    <2>1. reports[j] \in Reports
      BY PendingRows DEF Typed
    <2>2. QED
      BY <2>1 DEF Arrives, Reports
  <1>3. QED
    BY <1>1, <1>2 DEF Arrived, SentWasMailed, Mailing

LEMMA MailingArrives ==
    ASSUME Typed, Mailing, NEW r \in Runs, NEW i \in mem[r].outbox, Arrives(i), NEW m,
           mem' = [mem EXCEPT ![r] = m],
           m.outbox \cup m.sent \cup m.failed = Handled(r), m.sent \subseteq mem[r].sent \cup {i}
    PROVE  Mailing'
  <1>1. i \in DOMAIN reports
    BY DEF Mailing, Handled
  <1>2. \A q \in Runs : Handled(q)' \subseteq Handled(q) /\ mem'[q].sent \subseteq mem[q].sent \cup {i}
    BY DEF Handled, Typed, TypeOK
  <1>3. QED
    BY <1>1, <1>2, ArrivesEffect DEF Mailing

LEMMA MailingMail ==
    ASSUME Typed, Mailing, NEW r \in Runs, NEW i \in mem[r].outbox,
           SmtpAccepts(r, i) \/ SmtpRefuses(r, i) \/ SmtpAnswerLost(r, i)
    PROVE  Mailing'
  <1>1. mem[r] \in Mem
    BY DEF Typed, TypeOK
  <1>2. LET m == Fails(mem[r], i)
        IN m.outbox \cup m.sent \cup m.failed = Handled(r) /\ m.sent = mem[r].sent
    BY <1>1, FailsHandles DEF Handled
  <1>3. CASE SmtpAccepts(r, i)
    <2> DEFINE m == [mem[r] EXCEPT !.tries = 0, !.outbox = @ \ {i}, !.sent = @ \cup {i}]
    <2>1. m.outbox \cup m.sent \cup m.failed = Handled(r) /\ m.sent = mem[r].sent \cup {i}
      BY <1>1 DEF Mem, Handled
    <2> HIDE DEF m
    <2>2. Arrives(i) /\ mem' = [mem EXCEPT ![r] = m]
      BY <1>3 DEF SmtpAccepts, Goes, m
    <2>3. QED
      BY <2>1, <2>2, MailingArrives
  <1>4. CASE SmtpRefuses(r, i)
    BY <1>2, <1>4, MailingGoes DEF SmtpRefuses, db
  <1>5. CASE SmtpAnswerLost(r, i)
    BY <1>2, <1>5, MailingArrives DEF SmtpAnswerLost
  <1>6. QED
    BY <1>3, <1>4, <1>5

\* The rows that become "sent" have arrived.
LEMMA MailingResult ==
    ASSUME Typed, Mailing, NEW r \in Runs, HandleResult(r) PROVE Mailing'
  <1>1. \A q \in Runs : Handled(q)' \subseteq Handled(q) /\ mem'[q].sent \subseteq mem[q].sent
    BY DEF HandleResult, Leaves, Handled, Blank, Typed, TypeOK
  <1>2. DOMAIN reports' = DOMAIN reports
    BY DEF HandleResult, Marked
  <1>3. ASSUME NEW i \in DOMAIN reports
        PROVE  /\ reports'[i].copies = reports[i].copies
               /\ reports'[i].delivery = "sent" =>
                     i \in mem[r].sent \/ reports[i].delivery = "sent"
    <2>1. reports[i] \in Reports
      BY PendingRows DEF Typed
    <2>2. QED
      BY <2>1 DEF HandleResult, Marked, Reports
  <1>4. Arrived' = Arrived
    BY <1>2, <1>3 DEF Arrived
  <1>5. SentWasMailed'
    BY <1>2, <1>3 DEF Mailing, SentWasMailed, Arrived
  <1>6. QED
    BY <1>1, <1>2, <1>4, <1>5 DEF Mailing

LEMMA MailingNext == Typed /\ Mailing /\ [Next]_vars => Mailing'
  <1> SUFFICES ASSUME Typed, Mailing, [Next]_vars PROVE Mailing'
    OBVIOUS
  <1>1. CASE UNCHANGED vars
    BY <1>1, MailingQuiet DEF vars, Handled
  <1>2. CASE Crash \/ \E r \in Runs : NodeFails(r)
    <2>1. Stopping
      BY <1>2, Stops
    <2>2. ASSUME NEW r \in Runs
          PROVE  Handled(r)' \subseteq Handled(r) /\ mem'[r].sent \subseteq mem[r].sent
      <3>1. Untouched(r) \/ CutOff(r)
        BY <2>1 DEF Stopping
      <3>2. LET m == MemAt(mem[r], "read")
            IN m.outbox = Handled(r) /\ m.sent = {} /\ m.failed = {}
        BY DEF MemAt, Blank, Handled
      <3>3. Blank.outbox = {} /\ Blank.sent = {} /\ Blank.failed = {}
        BY DEF Blank
      <3>4. QED
        BY <3>1, <3>2, <3>3 DEF Untouched, CutOff, Handled
    <2>3. QED
      BY <2>1, <2>2, MailingQuiet DEF Stopping, db
  <1>3. ASSUME NEW s \in Statements, Arrive(s) PROVE Mailing'
    BY <1>3, MailingQuiet DEF Arrive, Handled
  <1>4. ASSUME NEW r \in Runs, Trigger(r) \/ Resume(r) \/ Finish(r) \/ SaveCheckpoint(r)
        PROVE  Mailing'
    BY <1>4, MailingQuiet DEF Trigger, Resume, Executes, Finish, SaveCheckpoint, db, Handled
  <1>5. QED
    BY <1>1, <1>2, <1>3, <1>4, MailingBefore, MailingReport, MailingMail, MailingResult
       DEF Next, NodeStep

\* Whatever other runs mail and mark, a report marked as sent has arrived.
THEOREM SentMailed == Spec => []SentWasMailed
  <1>1. Init => Mailing
    BY DEF Init, Mailing, SentWasMailed, Arrived, Handled, Blank
  <1>2. Mailing => SentWasMailed
    BY DEF Mailing
  <1>3. QED
    BY <1>1, <1>2, TypedInvariant, MailingNext, PTL DEF Spec

-----------------------------------------------------------------------------
(***************************************************************************)
(* How often a report is mailed.  While nothing is disturbed at most one   *)
(* run executes, and the queue it reads holds what nobody has mailed yet.  *)
(***************************************************************************)
Calm == disturbed = {} /\ losses = 0

Mails(r) == mode[r] = "running" /\ at[r] = "email_delivery" /\ step[r] \in {"read", "judged"}

\* Only an executing run has mails, and only until its verdict.
HandsInMail == \A r \in Runs : Handled(r) # {} => Mails(r)

\* A mail in hand is of a pending report, has one outcome, and has not arrived before it.
Unmailed ==
    \A r \in Runs :
        /\ mem[r].outbox \subseteq Pending
        /\ mem[r].outbox \cap mem[r].failed = {}
        /\ \A i \in DOMAIN reports \cap (mem[r].outbox \cup mem[r].failed) :
              reports[i].copies = 0

\* A report that has arrived arrived once, and is sent or in the hand of a run that
\* will mark it as sent.
Accounted(i) ==
    \/ reports[i].copies = 0
    \/ /\ reports[i].copies = 1
       /\ \/ reports[i].delivery = "sent"
          \/ reports[i].delivery = "pending" /\ \E r \in Running : i \in mem[r].sent

AtMostOnce ==
    /\ \A q, r \in Running : q = r
    /\ HandsInMail
    /\ Unmailed
    /\ \A i \in DOMAIN reports : Accounted(i)

Once == Calm => AtMostOnce

\* A history variable only grows, and so does the count of losses.
LEMMA Worsens == Typed /\ [Next]_vars => disturbed \subseteq disturbed' /\ losses <= losses'
  <1> DEFINE Goal == disturbed \subseteq disturbed' /\ losses <= losses'
  <1> SUFFICES ASSUME Typed, [Next]_vars PROVE Goal
    OBVIOUS
  <1>0. losses \in Nat
    BY DownstreamBounds DEF Typed, TypeOK
  <1> USE <1>0 DEF Typed, TypeOK, faults
  <1>1. CASE UNCHANGED vars
    BY <1>1 DEF vars
  <1>2. ASSUME NEW r \in Runs, NodeStep(r) PROVE Goal
    <2>1. CASE \E s, m : Goes(r, s, m)
      BY <2>1 DEF Goes, Stays
    <2>2. CASE \E n : Leaves(r, n)
      BY <2>2 DEF Leaves
    <2>3. CASE Finish(r)
      BY <2>3 DEF Finish
    <2>4. ASSUME NEW i \in mem[r].outbox, SmtpAnswerLost(r, i) PROVE Goal
      BY <2>4 DEF SmtpAnswerLost
    <2> DEFINE Judges == \/ MatchTransactions(r) \/ ApplyFixedCostsStatus(r)
                         \/ AssessTrend(r) \/ RenderReports(r)
    <2>5. CASE Judges
      BY <2>1, <2>5, JudgedEffect
    <2>6. CASE ~Judges
      BY <1>2, <2>1, <2>2, <2>3, <2>4, <2>6
         DEF NodeStep, LoadFixedCosts, PersistReconciliation, AggregateIncomeExpense,
             UpsertCashflowSummary, CheckSafetyBuffer, PersistRecommendation,
             DetermineReportTypes, PersistReport, RenderFinalPayload, SmtpAccepts,
             SmtpRefuses, SmtpDone, HandleResult, ReturnsStored
    <2>7. QED
      BY <2>5, <2>6
  <1>3. CASE Crash \/ \E r \in Runs : NodeFails(r)
    BY <1>3, Stops DEF Stopping
  <1>4. ASSUME NEW s \in Statements, Arrive(s) PROVE Goal
    BY <1>4 DEF Arrive
  <1>5. ASSUME NEW r \in Runs, Trigger(r) \/ Resume(r) \/ SaveCheckpoint(r) PROVE Goal
    BY <1>5 DEF Trigger, Resume, Executes, SaveCheckpoint
  <1>6. QED
    BY <1>1, <1>2, <1>3, <1>4, <1>5 DEF Next

LEMMA CalmBefore == Typed /\ [Next]_vars /\ Calm' => Calm
  <1> SUFFICES ASSUME Typed, [Next]_vars, Calm' PROVE Calm
    OBVIOUS
  <1>1. losses \in Nat
    BY DownstreamBounds DEF Typed, TypeOK
  <1>2. QED
    BY <1>1, Worsens DEF Calm

\* A step of an executing run that has no mails before and none after it.
LEMMA OnceIdle ==
    ASSUME Typed, AtMostOnce, NEW r \in Runs, NEW m, mem' = [mem EXCEPT ![r] = m],
           m.outbox = {}, m.sent = {}, m.failed = {}, ~Mails(r),
           \A q \in Runs \ {r} : mode'[q] = mode[q] /\ at'[q] = at[q] /\ step'[q] = step[q],
           mode'[r] = "running" => mode[r] = "running",
           reports' = reports
    PROVE  AtMostOnce'
  <1>1. Handled(r) = {} /\ Handled(r)' = {}
    BY DEF AtMostOnce, HandsInMail, Handled, Typed, TypeOK
  <1>2. \A q \in Runs \ {r} : mem'[q] = mem[q]
    BY DEF Typed, TypeOK
  <1>3. Running' \subseteq Running /\ Running \ {r} \subseteq Running'
    BY DEF Running
  <1>4. HandsInMail'
    BY <1>1, <1>2 DEF AtMostOnce, HandsInMail, Handled, Mails
  <1>5. Unmailed'
    BY <1>1, <1>2 DEF AtMostOnce, Unmailed, Handled, Pending
  <1>6. ASSUME NEW i \in DOMAIN reports PROVE Accounted(i)'
    <2>1. ASSUME NEW q \in Running, i \in mem[q].sent PROVE q \in Running' /\ i \in mem'[q].sent
      BY <1>1, <1>2, <1>3, <2>1 DEF Handled, Running
    <2>2. QED
      BY <2>1 DEF AtMostOnce, Accounted
  <1>7. QED
    BY <1>3, <1>4, <1>5, <1>6 DEF AtMostOnce

LEMMA OnceBefore ==
    ASSUME Typed, AtMostOnce, NEW r \in Runs,
           \/ LoadFixedCosts(r) \/ MatchTransactions(r) \/ PersistReconciliation(r)
           \/ AggregateIncomeExpense(r) \/ ApplyFixedCostsStatus(r)
           \/ UpsertCashflowSummary(r)
           \/ CheckSafetyBuffer(r) \/ AssessTrend(r) \/ PersistRecommendation(r)
           \/ DetermineReportTypes(r) \/ RenderReports(r) \/ ReturnsStored(r)
    PROVE  AtMostOnce'
  <1> USE DEF db
  <1>1. Blank.outbox = {} /\ Blank.sent = {} /\ Blank.failed = {}
    BY DEF Blank
  <1>2. CASE LoadFixedCosts(r) \/ AggregateIncomeExpense(r) \/ CheckSafetyBuffer(r)
                \/ DetermineReportTypes(r)
    <2>1. /\ ~Mails(r) /\ reports' = reports
          /\ \E m, s : Goes(r, s, m) /\ m.outbox = {} /\ m.sent = {} /\ m.failed = {}
      BY <1>2 DEF LoadFixedCosts, AggregateIncomeExpense, CheckSafetyBuffer,
                  DetermineReportTypes, At, Mails, Blank
    <2>2. QED
      BY <2>1, OnceIdle DEF Goes, Stays, Typed, TypeOK
  <1>3. CASE \/ MatchTransactions(r) \/ ApplyFixedCostsStatus(r) \/ AssessTrend(r)
             \/ RenderReports(r)
    <2>1. ~Mails(r) /\ reports' = reports
      BY <1>3 DEF MatchTransactions, ApplyFixedCostsStatus, AssessTrend, RenderReports, At, Mails
    <2>2. PICK m : /\ Goes(r, "judged", m) /\ m.outbox = mem[r].outbox
                   /\ m.sent = mem[r].sent /\ m.failed = mem[r].failed
      BY <1>3, JudgedEffect
    <2>3. m.outbox = {} /\ m.sent = {} /\ m.failed = {}
      BY <2>1, <2>2 DEF AtMostOnce, HandsInMail, Handled
    <2>4. QED
      BY <2>1, <2>2, <2>3, OnceIdle DEF Goes, Stays, Typed, TypeOK
  <1>4. CASE \/ PersistReconciliation(r) \/ UpsertCashflowSummary(r)
             \/ PersistRecommendation(r) \/ ReturnsStored(r)
    <2>1. ~Mails(r) /\ reports' = reports /\ \E n : Leaves(r, n)
      BY <1>4 DEF PersistReconciliation, UpsertCashflowSummary, PersistRecommendation,
                  ReturnsStored, At, Mails
    <2>2. QED
      BY <1>1, <2>1, OnceIdle DEF Leaves, Typed, TypeOK
  <1>5. QED
    BY <1>2, <1>3, <1>4

\* A page starts pending, without a copy.
LEMMA OnceReport ==
    ASSUME Typed, AtMostOnce, NEW r \in Runs, PersistReport(r) PROVE AtMostOnce'
  <1>1. mem[r] \in Mem /\ Tables
    BY DEF Typed, TypeOK, Tables
  <1>2. /\ ~Mails(r) /\ mode' = mode
        /\ mem' = [mem EXCEPT ![r] = Blank]
        /\ \A q \in Runs \ {r} : at'[q] = at[q] /\ step'[q] = step[q] /\ mem'[q] = mem[q]
    BY DEF PersistReport, At, Mails, Leaves, Typed, TypeOK
  <1>3. Blank.outbox = {} /\ Blank.sent = {} /\ Blank.failed = {}
    BY DEF Blank
  <1>4. CASE mem[r].covers = None
    BY <1>2, <1>3, <1>4, OnceIdle DEF PersistReport
  <1>5. CASE mem[r].covers # None
    <2>1. /\ \A i \in DOMAIN reports : reports'[i] = reports[i]
          /\ \A i \in DOMAIN reports' \ DOMAIN reports : reports'[i].copies = 0
      <3>1. \A type \in {"weekly", "monthly"} : Page(r, type).copies = 0
        BY DEF Page
      <3>2. QED
        BY <1>1, <1>5, <3>1, PersistReportRows
    <2>2. Pending \subseteq Pending'
      BY <1>1, <1>5, PersistReportRows DEF Pending
    <2>3. Handled(r) = {} /\ Handled(r)' = {} /\ Running' = Running
      BY <1>2, <1>3 DEF AtMostOnce, HandsInMail, Handled, Running, Typed, TypeOK
    <2>4. HandsInMail'
      BY <1>2, <2>3 DEF AtMostOnce, HandsInMail, Handled, Mails
    <2>5. Unmailed'
      <3>1. ASSUME NEW q \in Runs, q # r PROVE
               /\ mem'[q].outbox \subseteq Pending'
               /\ mem'[q].outbox \cap mem'[q].failed = {}
               /\ \A i \in DOMAIN reports' \cap (mem'[q].outbox \cup mem'[q].failed) :
                     reports'[i].copies = 0
        BY <1>2, <2>1, <2>2, <3>1 DEF AtMostOnce, Unmailed
      <3>2. QED
        BY <2>3, <3>1 DEF Unmailed, Handled
    <2>6. ASSUME NEW i \in DOMAIN reports' PROVE Accounted(i)'
      <3>1. CASE i \notin DOMAIN reports
        BY <2>1, <3>1 DEF Accounted
      <3>2. CASE i \in DOMAIN reports
        <4>1. \A q \in Running : i \in mem[q].sent => i \in mem'[q].sent
          BY <1>2, <2>3 DEF Handled, Running
        <4>2. QED
          BY <2>1, <2>3, <3>2, <4>1 DEF AtMostOnce, Accounted
      <3>3. QED
        BY <3>1, <3>2
    <2>7. QED
      BY <2>3, <2>4, <2>5, <2>6 DEF AtMostOnce
  <1>6. QED
    BY <1>4, <1>5

\* Nobody else has mails in hand, so what is pending has not been mailed.
LEMMA OnceQueue ==
    ASSUME Typed, AtMostOnce, NEW r \in Runs, RenderFinalPayload(r) PROVE AtMostOnce'
  <1>1. /\ At(r, "email_delivery", "enter") /\ reports' = reports /\ Running' = Running
        /\ mode' = mode /\ at' = at /\ step' = [step EXCEPT ![r] = "read"]
        /\ \A q \in Runs \ {r} : step'[q] = step[q] /\ mem'[q] = mem[q]
        /\ mem'[r].outbox = Pending /\ mem'[r].sent = {} /\ mem'[r].failed = {}
    BY DEF RenderFinalPayload, db, Goes, Stays, Blank, Running, Typed, TypeOK
  <1>0. ~Mails(r) /\ r \in Running
    BY <1>1 DEF At, Mails, Running
  <1>2. Handled(r) = {} /\ \A q \in Running : q = r
    BY <1>0 DEF AtMostOnce, HandsInMail
  <1>3. ASSUME NEW i \in Pending PROVE reports[i].copies = 0
    BY <1>2 DEF AtMostOnce, Accounted, Pending, Handled
  <1>4. HandsInMail'
    BY <1>1 DEF AtMostOnce, HandsInMail, Handled, At, Mails, Typed, TypeOK
  <1>5. Unmailed'
    BY <1>1, <1>3 DEF AtMostOnce, Unmailed, Pending
  <1>6. ASSUME NEW i \in DOMAIN reports PROVE Accounted(i)'
    BY <1>1, <1>2 DEF AtMostOnce, Accounted, Handled
  <1>7. QED
    BY <1>1, <1>4, <1>5, <1>6 DEF AtMostOnce

\* The mail in hand arrives, or has failed for good or not yet.
LEMMA OnceMail ==
    ASSUME Typed, Mailing, AtMostOnce, NEW r \in Runs, NEW i \in mem[r].outbox,
           SmtpAccepts(r, i) \/ SmtpRefuses(r, i)
    PROVE  AtMostOnce'
  <1>1. mem[r] \in Mem /\ Tables /\ i \in DOMAIN reports
    BY DEF Typed, TypeOK, Tables, Mailing, Handled
  <1>2. /\ At(r, "email_delivery", "read") /\ mode' = mode /\ at' = at /\ Running' = Running
        /\ step'[r] = "read" /\ Mails(r) /\ Mails(r)'
        /\ \A q \in Runs \ {r} : step'[q] = step[q] /\ mem'[q] = mem[q]
    BY DEF SmtpAccepts, SmtpRefuses, Sending, At, Mails, Goes, Stays, Running, Typed, TypeOK
  <1>3. HandsInMail'
    BY <1>2 DEF AtMostOnce, HandsInMail, Handled, Mails
  <1>4. \A q \in Runs \ {r} : Handled(q) = {} /\ Handled(q)' = {}
    BY <1>2 DEF AtMostOnce, HandsInMail, Handled, Mails, Running
  <1>5. r \in Running /\ \A q \in Running : q = r
    BY <1>2 DEF AtMostOnce, Mails, Running
  <1>6. CASE SmtpAccepts(r, i)
    <2>1. /\ mem'[r].outbox = mem[r].outbox \ {i} /\ mem'[r].sent = mem[r].sent \cup {i}
          /\ mem'[r].failed = mem[r].failed
      <3> DEFINE m == [mem[r] EXCEPT !.tries = 0, !.outbox = @ \ {i}, !.sent = @ \cup {i}]
      <3>1. /\ m.outbox = mem[r].outbox \ {i} /\ m.sent = mem[r].sent \cup {i}
            /\ m.failed = mem[r].failed
        BY <1>1 DEF Mem
      <3> HIDE DEF m
      <3>2. mem'[r] = m
        BY <1>6 DEF SmtpAccepts, Goes, Typed, TypeOK, m
      <3>3. QED
        BY <3>1, <3>2
    <2>2. DOMAIN reports' = DOMAIN reports
      BY <1>1, <1>6, ArrivesType DEF SmtpAccepts
    <2>3. ASSUME NEW j \in DOMAIN reports
          PROVE  /\ reports'[j].delivery = reports[j].delivery
                 /\ reports'[j].copies = IF j = i THEN reports[j].copies + 1
                                         ELSE reports[j].copies
      <3>1. reports[j] \in Reports
        BY PendingRows DEF Typed
      <3>2. QED
        BY <1>6, <3>1 DEF SmtpAccepts, Arrives, Reports
    <2>4. reports[i].copies = 0 /\ i \in Pending /\ i \notin mem[r].failed
      BY <1>1 DEF AtMostOnce, Unmailed
    <2>5. Pending' = Pending
      BY <2>2, <2>3 DEF Pending
    <2>6. Unmailed'
      <3>1. \A j \in DOMAIN reports \cap (mem'[r].outbox \cup mem'[r].failed) :
               reports'[j].copies = 0
        BY <2>1, <2>3, <2>4 DEF AtMostOnce, Unmailed
      <3>2. mem'[r].outbox \subseteq Pending' /\ mem'[r].outbox \cap mem'[r].failed = {}
        BY <2>1, <2>5 DEF AtMostOnce, Unmailed
      <3>3. QED
        BY <1>4, <2>2, <3>1, <3>2 DEF Unmailed, Handled
    <2>7. ASSUME NEW j \in DOMAIN reports PROVE Accounted(j)'
      BY <1>2, <1>5, <2>1, <2>3, <2>4 DEF AtMostOnce, Accounted, Pending
    <2>8. QED
      BY <1>2, <1>3, <2>2, <2>6, <2>7 DEF AtMostOnce
  <1>7. CASE SmtpRefuses(r, i)
    <2>1. mem'[r] = Fails(mem[r], i) /\ reports' = reports
      BY <1>7 DEF SmtpRefuses, Goes, db, Typed, TypeOK
    <2>2. /\ mem'[r].outbox \cup mem'[r].failed = mem[r].outbox \cup mem[r].failed
          /\ mem'[r].outbox \subseteq mem[r].outbox
          /\ mem'[r].outbox \cap mem'[r].failed = mem[r].outbox \cap mem[r].failed
          /\ mem'[r].sent = mem[r].sent
      BY <1>1, <2>1 DEF Fails, Mem, AtMostOnce, Unmailed
    <2>3. Unmailed'
      BY <1>4, <2>1, <2>2 DEF AtMostOnce, Unmailed, Handled, Pending
    <2>4. ASSUME NEW j \in DOMAIN reports PROVE Accounted(j)'
      BY <1>2, <1>5, <2>1, <2>2 DEF AtMostOnce, Accounted
    <2>5. QED
      BY <1>2, <1>3, <2>1, <2>3, <2>4 DEF AtMostOnce
  <1>8. QED
    BY <1>6, <1>7

\* The last result changes none of them.
LEMMA OnceDone ==
    ASSUME Typed, AtMostOnce, NEW r \in Runs, SmtpDone(r) PROVE AtMostOnce'
  <1>1. /\ mem' = mem /\ mode' = mode /\ reports' = reports
        /\ \A q \in Runs : Mails(q) => Mails(q)'
    BY DEF SmtpDone, db, At, Mails, Goes, Stays, Typed, TypeOK
  <1>2. HandsInMail'
    BY <1>1 DEF AtMostOnce, HandsInMail, Handled
  <1>3. Unmailed' /\ Running' = Running
    BY <1>1 DEF AtMostOnce, Unmailed, Pending, Running
  <1>4. ASSUME NEW i \in DOMAIN reports PROVE Accounted(i)'
    BY <1>1, <1>3 DEF AtMostOnce, Accounted
  <1>5. QED
    BY <1>1, <1>2, <1>3, <1>4 DEF AtMostOnce

\* What arrived is marked as sent with its first copy.
LEMMA OnceResult ==
    ASSUME Typed, AtMostOnce, NEW r \in Runs, HandleResult(r) PROVE AtMostOnce'
  <1>1. /\ Mails(r) /\ mode' = mode /\ Running' = Running
        /\ mem'[r] = Blank
        /\ \A q \in Runs \ {r} : at'[q] = at[q] /\ step'[q] = step[q] /\ mem'[q] = mem[q]
    BY DEF HandleResult, At, Mails, Leaves, Running, Typed, TypeOK
  <1>2. Handled(r)' = {} /\ \A q \in Running : q = r
    BY <1>1 DEF AtMostOnce, Handled, Blank, Mails, Running
  <1>3. \A q \in Runs : Handled(q)' = {}
    BY <1>1, <1>2 DEF AtMostOnce, HandsInMail, Handled, Mails, Running
  <1>4. HandsInMail' /\ Unmailed'
    BY <1>3 DEF HandsInMail, Unmailed, Handled
  <1>5. DOMAIN reports' = DOMAIN reports
    BY DEF HandleResult, Marked
  <1>6. ASSUME NEW i \in DOMAIN reports PROVE Accounted(i)'
    <2>1. reports[i] \in Reports
      BY PendingRows DEF Typed
    <2>2. /\ reports'[i].copies = reports[i].copies
          /\ reports'[i].delivery = IF i \in mem[r].sent THEN "sent"
                                    ELSE IF i \in mem[r].failed THEN "failed"
                                    ELSE reports[i].delivery
      BY <2>1 DEF HandleResult, Marked, Reports
    <2>3. i \in mem[r].failed => reports[i].copies = 0
      BY DEF AtMostOnce, Unmailed
    <2>4. QED
      BY <1>2, <2>2, <2>3 DEF AtMostOnce, Accounted
  <1>7. QED
    BY <1>1, <1>4, <1>5, <1>6 DEF AtMostOnce

\* A run that starts beside another one, fails or restarts is disturbed.
LEMMA OnceRun ==
    ASSUME Typed, AtMostOnce, Calm',
           \/ Crash
           \/ \E s \in Statements : Arrive(s)
           \/ \E r \in Runs : \/ Trigger(r) \/ Resume(r) \/ Finish(r)
                             \/ SaveCheckpoint(r) \/ NodeFails(r)
    PROVE  AtMostOnce'
  <1> USE DEF Calm, Typed, TypeOK, db
  <1>1. ~Crash /\ \A r \in Runs : ~NodeFails(r)
    BY Stops DEF Stopping, CutOff
  <1>2. ASSUME \A q \in Runs : Stands(q), reports' = reports PROVE AtMostOnce'
    <2>1. Running' = Running /\ Pending' = Pending
      BY <1>2 DEF Running, Stands, Pending
    <2>2. HandsInMail'
      BY <1>2 DEF AtMostOnce, HandsInMail, Handled, Mails, Stands
    <2>3. Unmailed'
      BY <1>2, <2>1 DEF AtMostOnce, Unmailed, Stands
    <2>4. ASSUME NEW i \in DOMAIN reports PROVE Accounted(i)'
      <3>1. \A q \in Running : mem'[q].sent = mem[q].sent
        BY <1>2 DEF Stands, Running
      <3>2. QED
        BY <1>2, <2>1, <3>1 DEF AtMostOnce, Accounted
    <2>5. QED
      BY <1>2, <2>1, <2>2, <2>3, <2>4 DEF AtMostOnce
  <1>3. ASSUME NEW r \in Runs, Finish(r) PROVE AtMostOnce'
    <2>1. mem' = [mem EXCEPT ![r] = mem[r]] /\ ~Mails(r)
      BY <1>3 DEF Finish, At, Mails
    <2>2. mem[r].outbox = {} /\ mem[r].sent = {} /\ mem[r].failed = {}
      BY <2>1 DEF AtMostOnce, HandsInMail, Handled
    <2>3. QED
      BY <1>3, <2>1, <2>2, OnceIdle DEF Finish
  <1>4. ASSUME NEW r \in Runs, Trigger(r) \/ Resume(r) PROVE AtMostOnce'
    <2>0. disturbed' = {} => Running = {}
      BY <1>4 DEF Trigger, Resume, Executes
    <2>1. Running = {} /\ Moves(r) /\ mode'[r] = "running"
          /\ at' = at /\ step' = step /\ mem' = mem /\ reports' = reports
      BY <1>4, <2>0, Executing
    <2>2. \A q \in Runs : Handled(q) = {}
      BY <2>1 DEF AtMostOnce, HandsInMail, Mails, Running
    <2>3. Running' = {r}
      BY <2>1 DEF Running, Moves, Stands
    <2>4. HandsInMail' /\ Unmailed'
      BY <2>1, <2>2 DEF HandsInMail, Unmailed, AtMostOnce, Handled, Pending
    <2>5. ASSUME NEW i \in DOMAIN reports PROVE Accounted(i)'
      BY <2>1 DEF AtMostOnce, Accounted
    <2>6. QED
      BY <2>1, <2>3, <2>4, <2>5 DEF AtMostOnce
  <1>5. ASSUME NEW s \in Statements, Arrive(s) PROVE AtMostOnce'
    BY <1>2, <1>5 DEF Arrive, Overtaken, Stands
  <1>6. ASSUME NEW r \in Runs, SaveCheckpoint(r) PROVE AtMostOnce'
    BY <1>2, <1>6 DEF SaveCheckpoint, Stands
  <1>7. QED
    BY <1>1, <1>3, <1>4, <1>5, <1>6

LEMMA OnceNext == Typed /\ Mailing /\ Once /\ [Next]_vars => Once'
  <1> SUFFICES ASSUME Typed, Mailing, AtMostOnce, Calm', [Next]_vars PROVE AtMostOnce'
    BY CalmBefore DEF Once
  <1>1. CASE UNCHANGED vars
    BY <1>1 DEF vars, AtMostOnce, HandsInMail, Unmailed, Accounted, Handled, Mails, Running,
                Pending
  <1>2. ASSUME NEW r \in Runs, NEW i \in mem[r].outbox, SmtpAnswerLost(r, i) PROVE FALSE
    BY <1>2 DEF SmtpAnswerLost, Calm, Typed, TypeOK
  <1>3. CASE Next
    BY <1>2, <1>3, OnceBefore, OnceReport, OnceQueue, OnceMail, OnceDone, OnceResult, OnceRun
       DEF Next, NodeStep
  <1>4. QED
    BY <1>1, <1>3

\* With one run at a time, none interrupted and no answer lost, no report arrives twice,
\* and none that is marked as failed has arrived.
THEOREM MailedAtMostOnce == Spec => []MailedOnce
  <1>1. Init => Once
    BY DEF Init, Once, AtMostOnce, HandsInMail, Unmailed, Handled, Running, Blank
  <1>2. Typed /\ Once => MailedOnce
    <2>1. TypeOK => \A i \in DOMAIN reports : reports[i].copies \in Nat
      BY PendingRows DEF Reports
    <2>2. QED
      BY <2>1 DEF Typed, Once, Calm, AtMostOnce, Accounted, MailedOnce
  <1>3. Init => Mailing
    BY DEF Init, Mailing, Handled, SentWasMailed, Blank
  <1>4. QED
    BY <1>1, <1>2, <1>3, TypedInvariant, MailingNext, OnceNext, PTL DEF Spec

-----------------------------------------------------------------------------
(***************************************************************************)
(* Recommendations on a page.  Rows are only added, and a node that is to  *)
(* attach one has seen it in the table.                                    *)
(***************************************************************************)
Attaching ==
    /\ ShownIsAttached
    /\ \A r \in Runs : mem[r].rec # 0 => mem[r].rec \in DOMAIN recs

\* What ShownIsAttached reads of REPORTS stays the same.
SamePages ==
    /\ DOMAIN reports' = DOMAIN reports
    /\ \A i \in DOMAIN reports :
          reports'[i].type = reports[i].type /\ reports'[i].rec = reports[i].rec

LEMMA AttachingQuiet ==
    ASSUME Typed, Attaching, SamePages, recs' = recs,
           \A r \in Runs : mem'[r].rec \in {mem[r].rec, 0, LatestUnattached}
    PROVE  Attaching'
  <1>1. LatestUnattached # 0 => LatestUnattached \in DOMAIN recs
    BY LatestUnattachedIs DEF Unattached, Typed, TypeOK
  <1>2. \A r \in Runs : mem'[r].rec # 0 => mem'[r].rec \in DOMAIN recs
    BY <1>1 DEF Attaching
  <1>3. ShownIsAttached'
    BY DEF Attaching, ShownIsAttached, SamePages
  <1>4. QED
    BY <1>2, <1>3 DEF Attaching

LEMMA AttachingGoes ==
    ASSUME Typed, Attaching, NEW r \in Runs, NEW m, NEW s, SamePages, recs' = recs,
           mem' = [mem EXCEPT ![r] = m], m.rec \in {mem[r].rec, 0, LatestUnattached}
    PROVE  Attaching'
  BY AttachingQuiet DEF Typed, TypeOK

LEMMA AttachingBefore ==
    ASSUME Typed, Attaching, NEW r \in Runs,
           \/ LoadFixedCosts(r) \/ MatchTransactions(r) \/ PersistReconciliation(r)
           \/ AggregateIncomeExpense(r) \/ ApplyFixedCostsStatus(r)
           \/ UpsertCashflowSummary(r) \/ CheckSafetyBuffer(r) \/ AssessTrend(r)
           \/ DetermineReportTypes(r) \/ RenderReports(r) \/ RenderFinalPayload(r)
           \/ SmtpDone(r) \/ ReturnsStored(r)
    PROVE  Attaching'
  <1>1. recs' = recs /\ SamePages
    BY DEF LoadFixedCosts, MatchTransactions, PersistReconciliation, AggregateIncomeExpense,
           ApplyFixedCostsStatus, UpsertCashflowSummary, CheckSafetyBuffer, AssessTrend,
           DetermineReportTypes, RenderReports, RenderFinalPayload, SmtpDone, ReturnsStored,
           db, SamePages
  <1> DEFINE Judges == \/ MatchTransactions(r) \/ ApplyFixedCostsStatus(r)
                       \/ AssessTrend(r) \/ RenderReports(r)
  <1>2. CASE Judges
    <2>1. PICK m : Goes(r, "judged", m) /\ m.rec \in {mem[r].rec, LatestUnattached}
      BY <1>2, JudgedEffect
    <2>2. QED
      BY <1>1, <2>1, AttachingGoes DEF Goes
  <1>3. CASE ~Judges
    <2>1. \E m : mem' = [mem EXCEPT ![r] = m] /\ m.rec \in {0, mem[r].rec}
      BY <1>3 DEF LoadFixedCosts, PersistReconciliation, AggregateIncomeExpense,
                  UpsertCashflowSummary, CheckSafetyBuffer, DetermineReportTypes,
                  RenderFinalPayload, SmtpDone, ReturnsStored, Goes, Leaves, Blank
    <2>2. QED
      BY <1>1, <2>1, AttachingGoes
  <1>4. QED
    BY <1>2, <1>3

LEMMA AttachingRecommendation ==
    ASSUME Typed, Attaching, NEW r \in Runs, PersistRecommendation(r) PROVE Attaching'
  <1>1. reports' = reports /\ \A q \in Runs : mem'[q].rec \in {mem[q].rec, 0}
    BY DEF PersistRecommendation, Leaves, Blank, Typed, TypeOK
  <1>2. CASE recs' = recs
    BY <1>1, <1>2, AttachingQuiet DEF SamePages
  <1>3. ASSUME NEW row, row.report = 0, recs' = Append(recs, row) PROVE Attaching'
    <2>1. Len(recs) \in Nat /\ DOMAIN recs = 1..Len(recs)
      BY LenProperties DEF Typed, TypeOK
    <2>2. /\ DOMAIN recs' = 1..(Len(recs) + 1)
          /\ \A k \in DOMAIN recs : recs'[k] = recs[k]
          /\ recs'[Len(recs) + 1] = row
      BY <1>3, <2>1 DEF Typed, TypeOK
    <2>3. DOMAIN recs \subseteq DOMAIN recs'
          /\ \A k \in DOMAIN recs' : k \in DOMAIN recs \/ recs'[k].report = 0
      BY <1>3, <2>1, <2>2
    <2>4. ShownIsAttached'
      BY <1>1, <2>2, <2>3 DEF Attaching, ShownIsAttached
    <2>5. QED
      BY <1>1, <2>3, <2>4 DEF Attaching
  <1>4. QED
    BY <1>2, <1>3 DEF PersistRecommendation

LEMMA AttachingReport ==
    ASSUME Typed, Attaching, NEW r \in Runs, PersistReport(r) PROVE Attaching'
  <1>1. mem[r] \in Mem /\ Tables
    BY DEF Typed, TypeOK, Tables
  <1>2. \A q \in Runs : mem'[q].rec \in {mem[q].rec, 0}
    BY DEF PersistReport, Leaves, Blank, Typed, TypeOK
  <1>3. CASE mem[r].covers = None
    BY <1>2, <1>3, AttachingQuiet DEF PersistReport, SamePages
  <1>4. CASE mem[r].covers # None
    <2> DEFINE n == Len(reports) + 1
               k0 == mem[r].rec
    <2>1. n \in Nat /\ n # 0
      BY <1>1, LenProperties DEF Tables
    <2>2. DOMAIN recs' = DOMAIN recs
      BY <1>1, <1>4, PersistReportEffect
    <2>3. ASSUME NEW k \in DOMAIN recs
          PROVE  recs'[k].report = IF k = k0 THEN n ELSE recs[k].report
      <3>1. recs[k] \in Recommendations
        BY <1>1, ElementOfSeq, LenProperties DEF Tables
      <3>2. recs' = Attached(r)
        BY <1>1, <1>4, PersistReportEffect
      <3>3. QED
        BY <3>1, <3>2 DEF Attached, Recommendations
    <2>4. /\ DOMAIN reports \subseteq DOMAIN reports'
          /\ \A i \in DOMAIN reports : reports'[i] = reports[i]
          /\ n \in DOMAIN reports' /\ reports'[n].type = "weekly" /\ reports'[n].rec = k0
          /\ \A i \in DOMAIN reports' \ DOMAIN reports : reports'[i].rec = k0
      <3>1. Page(r, "weekly").type = "weekly"
            /\ \A type \in {"weekly", "monthly"} : Page(r, type).rec = k0
        BY DEF Page
      <3>2. QED
        BY <1>1, <1>4, <3>1, PersistReportRows
    <2> HIDE DEF n, k0
    <2>5. k0 # 0 => k0 \in DOMAIN recs
      BY DEF Attaching, k0
    <2>6. ASSUME NEW k \in DOMAIN recs, recs'[k].report # 0
          PROVE  LET i == recs'[k].report
                 IN i \in DOMAIN reports' /\ reports'[i].type = "weekly" /\ reports'[i].rec = k
      BY <2>3, <2>4, <2>6 DEF Attaching, ShownIsAttached
    <2>7. ASSUME NEW i \in DOMAIN reports', reports'[i].rec # 0
          PROVE  reports'[i].rec \in DOMAIN recs /\ recs'[reports'[i].rec].report # 0
      <3>1. CASE i \in DOMAIN reports
        BY <2>1, <2>3, <2>4, <2>7, <3>1 DEF Attaching, ShownIsAttached
      <3>2. CASE i \notin DOMAIN reports
        BY <2>1, <2>3, <2>4, <2>5, <2>7, <3>2
      <3>3. QED
        BY <3>1, <3>2
    <2>8. ShownIsAttached'
      BY <2>2, <2>6, <2>7 DEF ShownIsAttached
    <2>9. QED
      BY <1>2, <2>2, <2>8 DEF Attaching
  <1>5. QED
    BY <1>3, <1>4

LEMMA AttachingMail ==
    ASSUME Typed, Attaching, NEW r \in Runs, NEW i \in mem[r].outbox,
           SmtpAccepts(r, i) \/ SmtpRefuses(r, i) \/ SmtpAnswerLost(r, i)
    PROVE  Attaching'
  <1>1. mem[r] \in Mem
    BY DEF Typed, TypeOK
  <1>2. recs' = recs
    BY DEF SmtpAccepts, SmtpRefuses, SmtpAnswerLost, db
  <1>3. SamePages
    <2>1. CASE reports' = reports
      BY <2>1 DEF SamePages
    <2>2. CASE Arrives(i)
      <3>1. DOMAIN reports' = DOMAIN reports
        BY <2>2, ArrivesType DEF Typed, TypeOK, Tables
      <3>2. \A j \in DOMAIN reports : reports[j] \in Reports
        BY PendingRows DEF Typed
      <3>3. QED
        BY <2>2, <3>1, <3>2 DEF Arrives, Reports, SamePages
    <2>3. QED
      BY <2>1, <2>2 DEF SmtpAccepts, SmtpRefuses, SmtpAnswerLost, db
  <1>4. Fails(mem[r], i).rec = mem[r].rec
    BY <1>1 DEF Fails, Mem
  <1>5. \E m : mem' = [mem EXCEPT ![r] = m] /\ m.rec = mem[r].rec
    <2>1. CASE SmtpAccepts(r, i)
      <3> DEFINE m == [mem[r] EXCEPT !.tries = 0, !.outbox = @ \ {i}, !.sent = @ \cup {i}]
      <3>1. m.rec = mem[r].rec
        BY <1>1 DEF Mem
      <3> HIDE DEF m
      <3>2. mem' = [mem EXCEPT ![r] = m]
        BY <2>1 DEF SmtpAccepts, Goes, m
      <3>3. QED
        BY <3>1, <3>2
    <2>2. CASE SmtpRefuses(r, i) \/ SmtpAnswerLost(r, i)
      BY <1>4, <2>2 DEF SmtpRefuses, SmtpAnswerLost, Goes
    <2>3. QED
      BY <2>1, <2>2
  <1>6. QED
    BY <1>2, <1>3, <1>5, AttachingGoes

LEMMA AttachingRest ==
    ASSUME Typed, Attaching,
           \/ Crash
           \/ \E s \in Statements : Arrive(s)
           \/ \E r \in Runs : \/ Trigger(r) \/ Resume(r) \/ Finish(r) \/ HandleResult(r)
                             \/ SaveCheckpoint(r) \/ NodeFails(r)
    PROVE  Attaching'
  <1>1. recs' = recs /\ \A q \in Runs : mem'[q].rec \in {mem[q].rec, 0}
    <2>0. Blank.rec = 0
      BY DEF Blank
    <2>1. CASE Crash \/ \E r \in Runs : NodeFails(r)
      <3>1. Stopping
        BY <2>1, Stops
      <3>2. ASSUME NEW q \in Runs PROVE mem'[q].rec \in {mem[q].rec, 0}
        <4>1. MemAt(mem[q], "read").rec = 0
          BY DEF MemAt, Blank
        <4>2. QED
          BY <2>0, <3>1, <4>1 DEF Stopping, Untouched, CutOff
      <3>3. QED
        BY <3>1, <3>2 DEF Stopping, db
    <2>2. CASE \E s \in Statements : Arrive(s)
      BY <2>2 DEF Arrive
    <2>3. ASSUME NEW r \in Runs, Trigger(r) \/ Resume(r) \/ Finish(r) \/ SaveCheckpoint(r)
          PROVE  recs' = recs /\ mem' = mem
      BY <2>3 DEF Trigger, Resume, Executes, Finish, SaveCheckpoint, db
    <2>4. ASSUME NEW r \in Runs, HandleResult(r)
          PROVE  recs' = recs /\ mem' = [mem EXCEPT ![r] = Blank]
      BY <2>4 DEF HandleResult, Leaves
    <2>5. QED
      BY <2>0, <2>1, <2>2, <2>3, <2>4 DEF Typed, TypeOK
  <1>2. CASE reports' = reports
    BY <1>1, <1>2, AttachingQuiet DEF SamePages
  <1>3. ASSUME NEW r \in Runs, HandleResult(r) PROVE SamePages
    <2>1. \A i \in DOMAIN reports : reports[i] \in Reports
      BY PendingRows DEF Typed
    <2>2. QED
      BY <1>3, <2>1 DEF HandleResult, Marked, Reports, SamePages
  <1>4. Crash \/ (\E r \in Runs : NodeFails(r)) => reports' = reports
    BY Stops DEF Stopping, db
  <1>5. QED
    BY <1>1, <1>2, <1>3, <1>4, AttachingQuiet
       DEF Arrive, Trigger, Resume, Executes, Finish, SaveCheckpoint, db

LEMMA AttachingNext == Typed /\ Attaching /\ [Next]_vars => Attaching'
  <1> SUFFICES ASSUME Typed, Attaching, [Next]_vars PROVE Attaching'
    OBVIOUS
  <1>1. CASE UNCHANGED vars
    BY <1>1, AttachingQuiet DEF vars, SamePages
  <1>2. CASE Next
    BY <1>2, AttachingBefore, AttachingRecommendation, AttachingReport, AttachingMail,
       AttachingRest DEF Next, NodeStep
  <1>3. QED
    BY <1>1, <1>2

\* Also when several runs put one recommendation on their pages: it belongs to a page
\* that shows it, and no page shows one that belongs to none.
THEOREM AttachedShown == Spec => []ShownIsAttached
  <1>1. Init => Attaching
    BY DEF Init, Attaching, ShownIsAttached, Blank
  <1>2. Attaching => ShownIsAttached
    BY DEF Attaching
  <1>3. QED
    BY <1>1, <1>2, TypedInvariant, AttachingNext, PTL DEF Spec

-----------------------------------------------------------------------------
(***************************************************************************)
(* One story.  Each node of a run asks anew which statement is current; in *)
(* a run that executes alone and in one go all of them get one answer.     *)
(***************************************************************************)

\* OneStory, of one report.
Told(i) ==
    LET r == reports[i].by
        k == reports[i].rec
    IN r \notin disturbed =>
        /\ summary[r] # None /\ summary[r].of = reports[i].of
        /\ k # 0 => recs[k].by = r /\ recs[k].of = reports[i].of
        /\ settings => k # 0

\* Before its reports are written, and after.
Early(r) == at[r] \notin {"email_delivery", "END"}

\* r has just made a recommendation, for the current statement.
HasProposed(r) ==
    LET k == Len(recs)
    IN k # 0 /\ recs[k].by = r /\ recs[k].of = Current /\ recs[k].report = 0

\* What a node of r has read is still current, and what r has stored is about it.
UpToDate(r) ==
    /\ at[r] = "cashflow_calculation" /\ step[r] # "enter" => mem[r].current = Current
    /\ at[r] \in {"investment_analysis", "reporting"}
          => summary[r] # None /\ summary[r].of = Current
    /\ at[r] = "investment_analysis" /\ step[r] # "enter"
          => mem[r].current = IF settings THEN Current ELSE None
    /\ at[r] = "investment_analysis" /\ step[r] = "judged"
          => (mem[r].current # None => mem[r].offer # None)
    /\ at[r] = "reporting" => (settings /\ Current # None => HasProposed(r))
    /\ at[r] = "reporting" /\ step[r] # "enter" => mem[r].current = Current
    /\ at[r] = "reporting" /\ step[r] = "read" => mem[r].covers = None
    /\ at[r] = "reporting" /\ step[r] = "judged"
          => (mem[r].covers # None => /\ mem[r].covers = Current
                                      /\ mem[r].rec = IF settings THEN Len(recs) ELSE 0)

\* A run that is not disturbed has not stopped, and executes alone.
Chapter(r) ==
    /\ mode[r] \notin {"stopped", "overtaken"} /\ step[r] # "returned"
    /\ mode[r] = "new" => at[r] = "fixed_costs_reconciliation" /\ step[r] = "enter"
    /\ Early(r) => \A i \in DOMAIN reports : reports[i].by # r
    /\ mode[r] = "running" => Running = {r} /\ UpToDate(r)

\* Without settings nothing is recommended.
NoSettings ==
    /\ Len(recs) = 0
    /\ \A r \in Runs : at[r] = "investment_analysis" /\ step[r] # "enter"
                          => mem[r].current = None

Story ==
    /\ \A i \in DOMAIN reports : Told(i)
    /\ \A r \in Runs \ disturbed : Chapter(r)
    /\ settings \/ NoSettings

\* No recommendation changes hands or subject.
SameOrigins ==
    /\ DOMAIN recs \subseteq DOMAIN recs'
    /\ \A k \in DOMAIN recs : recs'[k].by = recs[k].by /\ recs'[k].of = recs[k].of

\* What a report tells stays the same.
SameSubjects ==
    /\ DOMAIN reports' = DOMAIN reports
    /\ \A i \in DOMAIN reports : /\ reports'[i].by = reports[i].by
                                 /\ reports'[i].of = reports[i].of
                                 /\ reports'[i].type = reports[i].type
                                 /\ reports'[i].rec = reports[i].rec
                                 /\ reports'[i].paid = reports[i].paid

\* A report keeps its story as long as its run keeps its summary.
LEMMA ToldStill ==
    ASSUME Attaching, NEW i \in DOMAIN reports, Told(i), disturbed \subseteq disturbed',
           SameOrigins, settings' = settings,
           reports'[i].by = reports[i].by, reports'[i].of = reports[i].of,
           reports'[i].rec = reports[i].rec,
           reports[i].by \notin disturbed => summary'[reports[i].by] = summary[reports[i].by]
    PROVE  Told(i)'
  <1>1. reports[i].rec # 0 => reports[i].rec \in DOMAIN recs
    BY DEF Attaching, ShownIsAttached
  <1>2. QED
    BY <1>1 DEF Told, SameOrigins

\* Only run r takes a step, within a node or from one to the next.
OnlySteps(r) ==
    /\ mode[r] = "running" /\ mode' = mode /\ disturbed' = disturbed
    /\ settings' = settings /\ processed' = processed /\ step'[r] # "returned"
    /\ \A q \in Runs \ {r} :
          at'[q] = at[q] /\ step'[q] = step[q] /\ mem'[q] = mem[q] /\ summary'[q] = summary[q]

\* Such a step keeps the invariant if r keeps to it.
LEMMA StoryMove ==
    ASSUME Typed, Attaching, Story, NEW r \in Runs, OnlySteps(r), SameOrigins,
           \A i \in DOMAIN reports :
              i \in DOMAIN reports' /\ reports'[i].by = reports[i].by
              /\ reports'[i].of = reports[i].of /\ reports'[i].rec = reports[i].rec,
           \A i \in DOMAIN reports' \ DOMAIN reports : reports'[i].by = r /\ Told(i)',
           Early(r) \/ summary'[r] = summary[r],
           r \notin disturbed => (Early(r)' => Early(r) /\ DOMAIN reports' = DOMAIN reports)
                                 /\ UpToDate(r)',
           settings \/ NoSettings'
    PROVE  Story'
  <1>1. ASSUME NEW i \in DOMAIN reports' PROVE Told(i)'
    <2>1. CASE i \notin DOMAIN reports
      BY <2>1
    <2>2. CASE i \in DOMAIN reports
      <3>1. reports[i].by \in Runs
        BY <2>2, PendingRows DEF Typed, Reports
      <3>2. reports[i].by \notin disturbed => summary'[reports[i].by] = summary[reports[i].by]
        BY <2>2, <3>1 DEF Story, Chapter, OnlySteps
      <3>3. QED
        BY <2>2, <3>2, ToldStill DEF Story, OnlySteps
    <2>3. QED
      BY <2>1, <2>2
  <1>2. Running' = Running
    BY DEF Running, OnlySteps
  <1>3. ASSUME NEW q \in Runs \ disturbed', q # r PROVE Chapter(q)'
    <2>1. Chapter(q) /\ q \in Runs
      BY <1>3 DEF Story, OnlySteps
    <2>2. mode[q] # "running"
      BY <1>3, <2>1 DEF Chapter, Running, OnlySteps
    <2>3. Early(q)' => \A i \in DOMAIN reports' : reports'[i].by # q
      BY <1>3, <2>1 DEF Chapter, Early, OnlySteps
    <2>4. QED
      BY <1>3, <2>1, <2>2, <2>3 DEF Chapter, OnlySteps
  <1>4. ASSUME r \notin disturbed' PROVE Chapter(r)'
    <2>1. Chapter(r) /\ r \notin disturbed
      BY <1>4 DEF Story, OnlySteps
    <2>2. Early(r)' => \A i \in DOMAIN reports' : reports'[i].by # r
      BY <2>1 DEF Chapter
    <2>3. QED
      BY <1>2, <2>1, <2>2 DEF Chapter, OnlySteps
  <1>5. settings' \/ NoSettings'
    BY DEF OnlySteps
  <1>6. QED
    BY <1>1, <1>3, <1>4, <1>5 DEF Story

\* The recommendation on the page is the one this run has just made.
LEMMA OwnIsLatest ==
    ASSUME Typed, Story, NEW r \in Runs \ disturbed, mode[r] = "running", at[r] = "reporting",
           Current # None
    PROVE  LatestUnattached = IF settings THEN Len(recs) ELSE 0
  <1>1. Len(recs) \in Nat /\ DOMAIN recs = 1..Len(recs)
    BY LenProperties DEF Typed, TypeOK
  <1>2. CASE settings
    <2>1. HasProposed(r)
      BY <1>2 DEF Story, Chapter, UpToDate
    <2>2. Len(recs) \in Unattached /\ \A j \in Unattached : j <= Len(recs)
      BY <1>1, <2>1 DEF HasProposed, Unattached
    <2> DEFINE last == {k \in Unattached : \A j \in Unattached : j <= k}
    <2>3. last = {Len(recs)}
      BY <1>1, <2>2 DEF Unattached
    <2>4. LatestUnattached = IF last = {} THEN 0 ELSE CHOOSE k \in last : TRUE
      BY DEF LatestUnattached
    <2> HIDE DEF last
    <2>5. QED
      BY <1>2, <2>3, <2>4
  <1>3. CASE ~settings
    <2>1. Len(recs) = 0
      BY <1>3 DEF Story, NoSettings
    <2>2. Unattached = {}
      BY <1>1, <2>1 DEF Unattached
    <2>3. QED
      BY <1>3, <2>2 DEF LatestUnattached
  <1>4. QED
    BY <1>2, <1>3

LEMMA CurrentStays == processed' = processed => Current' = Current
  BY DEF Current, Latest

\* A step that leaves recommendations and reports alone.
LEMMA StoryQuiet ==
    ASSUME Typed, Attaching, Story, NEW r \in Runs, OnlySteps(r), recs' = recs, SameSubjects,
           Early(r) \/ summary'[r] = summary[r],
           r \notin disturbed => (Early(r)' => Early(r)) /\ UpToDate(r)',
           ~settings => (at'[r] = "investment_analysis" /\ step'[r] # "enter"
                            => mem'[r].current = None)
    PROVE  Story'
  <1>1. SameOrigins
    BY DEF SameOrigins
  <1>2. settings \/ NoSettings'
    BY DEF Story, NoSettings, OnlySteps
  <1>3. QED
    BY <1>1, <1>2, StoryMove DEF SameSubjects

LEMMA StoryFixedCosts ==
    ASSUME Typed, Attaching, Story, NEW r \in Runs,
           LoadFixedCosts(r) \/ MatchTransactions(r) \/ PersistReconciliation(r)
    PROVE  Story'
  <1> USE DEF db, faults, At, Typed, TypeOK
  <1>1. recs' = recs /\ reports' = reports /\ SameSubjects /\ Early(r)
    BY DEF LoadFixedCosts, MatchTransactions, PersistReconciliation, SameSubjects, Early
  <1>2. OnlySteps(r) /\ Early(r)'
        /\ (at'[r] = "fixed_costs_reconciliation"
               \/ (at'[r] = "cashflow_calculation" /\ step'[r] = "enter"))
    <2>1. ASSUME NEW s \in {"read", "judged"}, NEW m, Goes(r, s, m) PROVE OnlySteps(r) /\ at' = at
      BY <2>1 DEF LoadFixedCosts, MatchTransactions, PersistReconciliation, Goes, Stays, OnlySteps
    <2>2. CASE PersistReconciliation(r)
      BY <2>2 DEF PersistReconciliation, Leaves, OnlySteps, Early
    <2>3. CASE LoadFixedCosts(r) \/ MatchTransactions(r)
      <3>1. at[r] = "fixed_costs_reconciliation"
        BY <2>3 DEF LoadFixedCosts, MatchTransactions
      <3>2. OnlySteps(r) /\ at' = at
        BY <2>1, <2>3, JudgedEffect DEF LoadFixedCosts
      <3>3. QED
        BY <3>1, <3>2 DEF Early
    <2>4. QED
      BY <2>2, <2>3
  <1>3. UpToDate(r)'
    BY <1>2 DEF UpToDate
  <1>4. QED
    BY <1>1, <1>2, <1>3, StoryQuiet

LEMMA StoryCashflow ==
    ASSUME Typed, Attaching, Story, NEW r \in Runs,
           AggregateIncomeExpense(r) \/ ApplyFixedCostsStatus(r) \/ UpsertCashflowSummary(r)
    PROVE  Story'
  <1> USE DEF db, faults, At, Typed, TypeOK
  <1>1. recs' = recs /\ reports' = reports /\ SameSubjects /\ Early(r)
    BY DEF AggregateIncomeExpense, ApplyFixedCostsStatus, UpsertCashflowSummary, SameSubjects,
           Early
  <1>2. CASE AggregateIncomeExpense(r) \/ ApplyFixedCostsStatus(r)
    <2>0. Current' = Current /\ at[r] = "cashflow_calculation" /\ summary' = summary
          /\ mode[r] = "running"
      BY <1>2, CurrentStays DEF AggregateIncomeExpense, ApplyFixedCostsStatus
    <2>1. OnlySteps(r) /\ at' = at
          /\ (r \notin disturbed => mem'[r].current = Current)
      <3>1. CASE AggregateIncomeExpense(r)
        BY <3>1 DEF AggregateIncomeExpense, Goes, Stays, OnlySteps, Blank
      <3>2. CASE ApplyFixedCostsStatus(r)
        <4>1. PICK plan : Goes(r, "judged", [mem[r] EXCEPT !.plan = plan])
          BY <3>2 DEF ApplyFixedCostsStatus
        <4>2. mem'[r].current = mem[r].current
          BY <4>1 DEF Goes, Mem
        <4>3. r \notin disturbed => mem[r].current = Current
          BY <2>0, <3>2 DEF ApplyFixedCostsStatus, Story, Chapter, UpToDate
        <4>4. QED
          BY <2>0, <3>2, <4>1, <4>2, <4>3 DEF ApplyFixedCostsStatus, Goes, Stays, OnlySteps
      <3>3. QED
        BY <1>2, <3>1, <3>2
    <2>2. Early(r)'
      BY <2>0, <2>1 DEF Early
    <2>3. r \notin disturbed => UpToDate(r)'
      BY <2>0, <2>1 DEF UpToDate
    <2>4. QED
      BY <1>1, <2>0, <2>1, <2>2, <2>3, StoryQuiet
  <1>3. CASE UpsertCashflowSummary(r)
    <2>1. summary' = [summary EXCEPT ![r] = [of |-> mem[r].current, paid |-> mem[r].plan]]
      BY <1>3 DEF UpsertCashflowSummary
    <2>2. OnlySteps(r) /\ Early(r)' /\ at'[r] = "investment_analysis" /\ step'[r] = "enter"
          /\ Current' = Current
      BY <1>3, <2>1, CurrentStays DEF UpsertCashflowSummary, Leaves, OnlySteps, Early
    <2>3. summary'[r] \in Summaries /\ summary'[r].of = mem[r].current
      BY <2>1 DEF Summaries, Mem
    <2>4. summary'[r] # None
      BY <2>3, NoneIsNoRow
    <2>5. ASSUME r \notin disturbed PROVE UpToDate(r)'
      <3>1. mem[r].current = Current
        BY <1>3, <2>5 DEF UpsertCashflowSummary, Story, Chapter, UpToDate
      <3>2. QED
        BY <2>2, <2>3, <2>4, <3>1 DEF UpToDate
    <2>6. QED
      BY <1>1, <2>2, <2>5, StoryQuiet
  <1>4. QED
    BY <1>2, <1>3

LEMMA StoryInvestment ==
    ASSUME Typed, Attaching, Story, NEW r \in Runs,
           CheckSafetyBuffer(r) \/ AssessTrend(r) \/ PersistRecommendation(r)
    PROVE  Story'
  <1> USE DEF db, faults, At
  <1>1. mem[r] \in Mem /\ Tables /\ (mem[r].offer # None => mem[r].current # None)
    BY DEF Typed, TypeOK, Tables, OfferHasStatement
  <1>2. reports' = reports /\ summary' = summary /\ Current' = Current /\ SameSubjects
        /\ at[r] = "investment_analysis" /\ Early(r)
    BY CurrentStays
       DEF CheckSafetyBuffer, AssessTrend, PersistRecommendation, SameSubjects, Early
  <1>3. CASE CheckSafetyBuffer(r)
    <2>1. OnlySteps(r) /\ at' = at /\ step'[r] = "read" /\ recs' = recs /\ settings' = settings
          /\ mem'[r].current = IF settings THEN Current ELSE None
      BY <1>3 DEF CheckSafetyBuffer, Goes, Stays, OnlySteps, Blank, Typed, TypeOK
    <2>2. r \notin disturbed => UpToDate(r)'
      BY <1>2, <2>1 DEF UpToDate, Story, Chapter, OnlySteps
    <2>3. QED
      BY <1>2, <2>1, <2>2, StoryQuiet
  <1>4. CASE AssessTrend(r)
    <2>1. PICK m : /\ Goes(r, "judged", m) /\ m.current = mem[r].current
                   /\ m.current # None => m.offer # None
      <3>1. CASE mem[r].current = None
        BY <1>4, <3>1 DEF AssessTrend
      <3>2. CASE mem[r].current # None
        <4> DEFINE s == mem[r].current
                   p == Proposal(Surplus[s], Closing[s], Total, Periods)
        <4>1. p # None
          BY <1>1, <3>2, ProposalType, NoneIsNoRow DEF Mem, Typed
        <4> HIDE DEF p
        <4>2. Goes(r, "judged", [mem[r] EXCEPT !.offer = p])
          BY <1>4, <3>2 DEF AssessTrend, p
        <4> DEFINE m == [mem[r] EXCEPT !.offer = p]
        <4>3. m.offer = p /\ m.current = mem[r].current
          BY <1>1 DEF Mem
        <4>4. QED
          BY <4>1, <4>2, <4>3
      <3>3. QED
        BY <3>1, <3>2
    <2>2. OnlySteps(r) /\ at' = at /\ step'[r] = "judged" /\ recs' = recs /\ settings' = settings
          /\ mem'[r] = m /\ step[r] = "read"
      BY <1>4, <2>1 DEF AssessTrend, Goes, Stays, OnlySteps, Typed, TypeOK
    <2>3. r \notin disturbed => UpToDate(r)'
      BY <1>2, <2>1, <2>2 DEF UpToDate, Story, Chapter, OnlySteps
    <2>4. ~settings => mem'[r].current = None
      BY <1>2, <2>1, <2>2 DEF Story, NoSettings
    <2>5. QED
      BY <1>2, <2>2, <2>3, <2>4, StoryQuiet
  <1>5. CASE PersistRecommendation(r)
    <2>1. OnlySteps(r) /\ at'[r] = "reporting" /\ step'[r] = "enter" /\ settings' = settings
          /\ step[r] = "judged" /\ Early(r)'
          /\ \A q \in Runs \ {r} : at'[q] = at[q] /\ step'[q] = step[q] /\ mem'[q] = mem[q]
      BY <1>5 DEF PersistRecommendation, Leaves, OnlySteps, Early, Typed, TypeOK
    <2>2. r \notin disturbed =>
             /\ UpToDate(r)
             /\ mem[r].current = IF settings THEN Current ELSE None
             /\ summary[r] # None /\ summary[r].of = Current
      BY <1>2, <2>1 DEF Story, Chapter, UpToDate, OnlySteps
    <2>3. CASE mem[r].offer = None
      <3>1. recs' = recs
        BY <1>5, <2>3 DEF PersistRecommendation
      <3>2. r \notin disturbed => UpToDate(r)'
        BY <1>2, <2>1, <2>2, <2>3 DEF UpToDate
      <3>3. QED
        BY <1>2, <2>1, <3>1, <3>2, StoryQuiet
    <2>4. CASE mem[r].offer # None
      <3>1. PICK row : row.by = r /\ row.of = mem[r].current /\ row.report = 0
                       /\ recs' = Append(recs, row)
        BY <1>5, <2>4 DEF PersistRecommendation
      <3>2. Len(recs) \in Nat /\ DOMAIN recs = 1..Len(recs)
        BY <1>1, LenProperties DEF Tables
      <3>3. /\ Len(recs') = Len(recs) + 1 /\ DOMAIN recs' = 1..(Len(recs) + 1)
            /\ \A k \in DOMAIN recs : recs'[k] = recs[k]
            /\ recs'[Len(recs) + 1] = row
        BY <1>1, <3>1, <3>2 DEF Tables
      <3>4. SameOrigins
        BY <3>2, <3>3 DEF SameOrigins
      <3>5. settings
        BY <1>1, <1>2, <2>1, <2>4 DEF Story, NoSettings
      <3>6. r \notin disturbed => HasProposed(r)'
        BY <1>2, <2>2, <3>1, <3>2, <3>3, <3>5 DEF HasProposed
      <3>7. r \notin disturbed => UpToDate(r)'
        BY <1>2, <2>1, <2>2, <3>6 DEF UpToDate
      <3>8. QED
        BY <1>2, <2>1, <3>4, <3>5, <3>7, StoryMove DEF SameSubjects
    <2>5. QED
      BY <2>3, <2>4
  <1>6. QED
    BY <1>3, <1>4, <1>5

LEMMA StoryReporting ==
    ASSUME Typed, Attaching, Story, NEW r \in Runs, DetermineReportTypes(r) \/ RenderReports(r)
    PROVE  Story'
  <1> USE DEF db, faults, At
  <1>1. mem[r] \in Mem
    BY DEF Typed, TypeOK
  <1>2. reports' = reports /\ summary' = summary /\ recs' = recs /\ settings' = settings
        /\ Current' = Current /\ SameSubjects /\ at[r] = "reporting" /\ mode[r] = "running"
        /\ Early(r)
    BY CurrentStays DEF DetermineReportTypes, RenderReports, SameSubjects, Early
  <1>3. r \notin disturbed => UpToDate(r)
    BY <1>2 DEF Story, Chapter
  <1>4. CASE DetermineReportTypes(r)
    <2>1. OnlySteps(r) /\ at' = at /\ step'[r] = "read"
          /\ mem'[r].current = Current /\ mem'[r].covers = None
      BY <1>4 DEF DetermineReportTypes, Goes, Stays, OnlySteps, Blank, Typed, TypeOK
    <2>2. r \notin disturbed => UpToDate(r)'
      BY <1>2, <1>3, <2>1 DEF UpToDate, HasProposed
    <2>3. QED
      BY <1>2, <2>1, <2>2, StoryQuiet
  <1>5. CASE RenderReports(r)
    <2>1. PICK m : /\ Goes(r, "judged", m) /\ m.current = mem[r].current
                   /\ \/ /\ mem[r].current = None
                         /\ m.covers = mem[r].covers
                      \/ /\ mem[r].current # None
                         /\ m.covers = Current /\ m.rec = LatestUnattached
      <3>1. CASE mem[r].current = None
        BY <1>5, <3>1 DEF RenderReports
      <3>2. CASE mem[r].current # None
        <4>1. PICK paid : Goes(r, "judged", [mem[r] EXCEPT !.covers = Current, !.plan = paid,
                                                           !.rec = LatestUnattached])
          BY <1>5, <3>2 DEF RenderReports
        <4> DEFINE m == [mem[r] EXCEPT !.covers = Current, !.plan = paid,
                                       !.rec = LatestUnattached]
        <4>2. /\ m.current = mem[r].current /\ m.covers = Current
              /\ m.rec = LatestUnattached
          BY <1>1 DEF Mem
        <4>3. QED
          BY <3>2, <4>1, <4>2
      <3>3. QED
        BY <3>1, <3>2
    <2>2. OnlySteps(r) /\ at' = at /\ step'[r] = "judged" /\ mem'[r] = m /\ step[r] = "read"
      BY <1>5, <2>1 DEF RenderReports, Goes, Stays, OnlySteps, Typed, TypeOK
    <2>3. ASSUME r \notin disturbed PROVE UpToDate(r)'
      <3>1. mem[r].current = Current /\ mem[r].covers = None
        BY <1>2, <1>3, <2>2, <2>3 DEF UpToDate
      <3>2. m.covers # None => /\ m.covers = Current
                               /\ m.rec = IF settings THEN Len(recs) ELSE 0
        BY <1>2, <2>1, <2>3, <3>1, OwnIsLatest
      <3>3. QED
        BY <1>2, <1>3, <2>1, <2>2, <2>3, <3>1, <3>2 DEF UpToDate, HasProposed
    <2>4. QED
      BY <1>2, <2>2, <2>3, StoryQuiet
  <1>6. QED
    BY <1>4, <1>5

\* The pages are about what summary and recommendation are about.
LEMMA StoryReport ==
    ASSUME Typed, Attaching, Story, NEW r \in Runs, PersistReport(r) PROVE Story'
  <1>1. mem[r] \in Mem /\ Tables
    BY DEF Typed, TypeOK, Tables
  <1>2. /\ OnlySteps(r) /\ ~Early(r)' /\ UpToDate(r)' /\ summary' = summary
        /\ mode[r] = "running" /\ at[r] = "reporting" /\ step[r] = "judged"
        /\ at'[r] = "email_delivery" /\ settings' = settings /\ disturbed' = disturbed
    BY DEF PersistReport, At, Leaves, faults, OnlySteps, Early, UpToDate, Typed, TypeOK
  <1>3. CASE mem[r].covers = None
    <2>1. recs' = recs /\ SameSubjects
      BY <1>3 DEF PersistReport, SameSubjects
    <2>2. QED
      BY <1>2, <2>1, StoryQuiet
  <1>4. CASE mem[r].covers # None
    <2>1. /\ recs' = Attached(r) /\ recs' \in Seq(Recommendations)
          /\ DOMAIN recs' = DOMAIN recs
      BY <1>1, <1>4, PersistReportEffect
    <2>2. Len(recs) \in Nat /\ DOMAIN recs = 1..Len(recs)
          /\ Len(recs') \in Nat /\ DOMAIN recs' = 1..Len(recs')
      BY <1>1, <2>1, LenProperties DEF Tables
    <2>3. SameOrigins
      <3>1. \A k \in DOMAIN recs : recs[k] \in Recommendations
        BY <1>1, ElementOfSeq, LenProperties DEF Tables
      <3>2. QED
        BY <2>1, <3>1 DEF SameOrigins, Attached, Recommendations
    <2>4. settings \/ NoSettings'
      BY <1>2, <2>1, <2>2 DEF Story, NoSettings, OnlySteps
    <2>5. ASSUME NEW i \in DOMAIN reports' \ DOMAIN reports
          PROVE  reports'[i].by = r /\ Told(i)'
      <3>1. /\ reports'[i].by = r /\ reports'[i].of = mem[r].covers
            /\ reports'[i].rec = mem[r].rec
        <4>1. \A type \in {"weekly", "monthly"} :
                 /\ Page(r, type).by = r /\ Page(r, type).of = mem[r].covers
                 /\ Page(r, type).rec = mem[r].rec
          BY DEF Page
        <4>2. QED
          BY <1>1, <1>4, <2>5, <4>1, PersistReportRows
      <3>2. ASSUME r \notin disturbed
            PROVE  /\ mem[r].covers = Current /\ summary[r] # None /\ summary[r].of = Current
                   /\ mem[r].rec = IF settings THEN Len(recs) ELSE 0
                   /\ settings => HasProposed(r)
        BY <1>2, <1>4, <3>2 DEF Story, Chapter, UpToDate
      <3>3. r \notin disturbed /\ settings =>
               recs'[Len(recs)].by = r /\ recs'[Len(recs)].of = Current /\ Len(recs) # 0
        BY <2>2, <2>3, <3>2 DEF HasProposed, SameOrigins
      <3>4. QED
        BY <1>2, <3>1, <3>2, <3>3 DEF Told
    <2>6. \A i \in DOMAIN reports : i \in DOMAIN reports' /\ reports'[i] = reports[i]
      BY <1>1, <1>4, PersistReportRows
    <2>7. QED
      BY <1>2, <2>3, <2>4, <2>5, <2>6, StoryMove
  <1>5. QED
    BY <1>3, <1>4

\* Mails change nothing that a report tells.
LEMMA EmailEffect ==
    ASSUME Typed, NEW r \in Runs,
           \/ RenderFinalPayload(r) \/ SmtpDone(r) \/ HandleResult(r)
           \/ \E i \in mem[r].outbox :
                 SmtpAccepts(r, i) \/ SmtpRefuses(r, i) \/ SmtpAnswerLost(r, i)
    PROVE  /\ OnlySteps(r) /\ recs' = recs /\ summary' = summary /\ SameSubjects
           /\ ~Early(r)' /\ at'[r] \in {"email_delivery", "END"}
  <1> USE DEF db, faults, At
  <1>1. /\ OnlySteps(r) /\ recs' = recs /\ summary' = summary /\ ~Early(r)'
        /\ at'[r] \in {"email_delivery", "END"}
    BY DEF RenderFinalPayload, SmtpDone, HandleResult, SmtpAccepts, SmtpRefuses, SmtpAnswerLost,
           Sending, Goes, Stays, Leaves, OnlySteps, Early, Typed, TypeOK
  <1>2. SameSubjects
    <2>1. \A j \in DOMAIN reports : reports[j] \in Reports
      BY PendingRows DEF Typed
    <2>2. CASE reports' = reports
      BY <2>2 DEF SameSubjects
    <2>3. CASE \E i : Arrives(i)
      <3>1. DOMAIN reports' = DOMAIN reports
        BY <2>3, ArrivesType DEF Typed, TypeOK, Tables
      <3>2. QED
        BY <2>1, <2>3, <3>1 DEF Arrives, Reports, SameSubjects
    <2>4. CASE HandleResult(r)
      BY <2>1, <2>4 DEF HandleResult, Marked, Reports, SameSubjects
    <2>5. QED
      BY <2>2, <2>3, <2>4
         DEF RenderFinalPayload, SmtpDone, SmtpAccepts, SmtpRefuses, SmtpAnswerLost
  <1>3. QED
    BY <1>1, <1>2

LEMMA StoryEmail ==
    ASSUME Typed, Attaching, Story, NEW r \in Runs,
           \/ RenderFinalPayload(r) \/ SmtpDone(r) \/ HandleResult(r)
           \/ \E i \in mem[r].outbox :
                 SmtpAccepts(r, i) \/ SmtpRefuses(r, i) \/ SmtpAnswerLost(r, i)
    PROVE  Story'
  <1>1. UpToDate(r)'
    BY EmailEffect DEF UpToDate
  <1>2. QED
    BY <1>1, EmailEffect, StoryQuiet

\* A resume that returns what is stored is of a disturbed run.
LEMMA ReturnEffect ==
    ASSUME Typed, NEW r \in Runs, ReturnsStored(r)
    PROVE  OnlySteps(r) /\ SameSubjects /\ step[r] = "returned" /\ step'[r] = "enter"
           /\ UNCHANGED db
  BY DEF ReturnsStored, Leaves, db, faults, OnlySteps, SameSubjects, Typed, TypeOK

LEMMA StoryReturn ==
    ASSUME Typed, Attaching, Story, NEW r \in Runs, ReturnsStored(r) PROVE Story'
  <1>1. r \in disturbed
    BY ReturnEffect DEF Story, Chapter
  <1>2. QED
    BY <1>1, ReturnEffect, StoryQuiet DEF db

LEMMA StoryStop ==
    ASSUME Typed, Attaching, Story, Stopping PROVE Story'
  <1>1. \A i \in DOMAIN reports' : Told(i)'
    BY DEF Story, Told, Stopping, db
  <1>2. settings' \/ NoSettings'
    <2>1. ASSUME NEW r \in Runs, at'[r] = "investment_analysis", step'[r] # "enter", NoSettings
          PROVE  mem'[r].current = None
      <3>1. (Untouched(r) \/ CutOff(r)) /\ step[r] # "enter" /\ at[r] = "investment_analysis"
        BY <2>1 DEF Stopping, Untouched, CutOff
      <3>2. MemAt(mem[r], "read").current = mem[r].current
        BY DEF MemAt, Blank
      <3>3. QED
        BY <2>1, <3>1, <3>2 DEF Untouched, CutOff, NoSettings
    <2>2. QED
      BY <2>1 DEF Story, NoSettings, Stopping, db
  <1>3. ASSUME NEW q \in Runs \ disturbed' PROVE Chapter(q)'
    <2>1. Untouched(q) /\ Chapter(q)
      BY DEF Stopping, CutOff, Story
    <2>2. mode[q] # "running"
      <3>1. PICK r \in Runs : CutOff(r)
        BY DEF Stopping
      <3>2. r # q /\ r \in Running
        BY <3>1 DEF CutOff, Running
      <3>3. QED
        BY <2>1, <3>2 DEF Chapter
    <2>3. QED
      BY <2>1, <2>2 DEF Chapter, Untouched, Early, Stopping, db
  <1>4. QED
    BY <1>1, <1>2, <1>3 DEF Story

LEMMA StoryRun ==
    ASSUME Typed, Attaching, Story,
           \/ \E s \in Statements : Arrive(s)
           \/ \E r \in Runs : Trigger(r) \/ Resume(r) \/ Finish(r) \/ SaveCheckpoint(r)
    PROVE  Story'
  <1> USE DEF db, faults, Typed, TypeOK
  <1>1. /\ reports' = reports /\ recs' = recs /\ summary' = summary /\ settings' = settings
        /\ disturbed \subseteq disturbed'
    BY DEF Arrive, Trigger, Resume, Executes, Finish, SaveCheckpoint
  <1>2. \A i \in DOMAIN reports' : Told(i)'
    BY <1>1 DEF Story, Told
  <1>3. settings' \/ NoSettings'
    BY <1>1 DEF Story, NoSettings, Arrive, Trigger, Resume, Executes, Finish, SaveCheckpoint
  <1>4. ASSUME NEW q \in Runs \ disturbed', mode[q] # "running", Stands(q)
        PROVE  Chapter(q)'
    BY <1>1, <1>4 DEF Story, Chapter, Early, Stands
  <1>6. ASSUME NEW s \in Statements, Arrive(s) PROVE Story'
    <2>1. ASSUME NEW q \in Runs \ disturbed' PROVE Chapter(q)'
      BY <1>4, <1>6 DEF Arrive, Overtaken, Running, Stands
    <2>2. QED
      BY <1>2, <1>3, <2>1 DEF Story
  <1>8. ASSUME NEW r \in Runs, SaveCheckpoint(r) PROVE Story'
    <2>1. /\ mode' = mode /\ at' = at /\ step' = step /\ mem' = mem /\ disturbed' = disturbed
          /\ Current' = Current /\ Running' = Running
      BY <1>8, CurrentStays DEF SaveCheckpoint, Running
    <2>2. ASSUME NEW q \in Runs \ disturbed' PROVE Chapter(q)'
      BY <1>1, <2>1 DEF Story, Chapter, Early, UpToDate, HasProposed
    <2>3. QED
      BY <1>2, <1>3, <2>2 DEF Story
  <1>9. ASSUME NEW r \in Runs, Finish(r) PROVE Story'
    <2>1. ASSUME NEW q \in Runs \ disturbed', q # r PROVE Chapter(q)'
      <3>1. mode[r] = "running" /\ Chapter(q)
        BY <1>1, <1>9, <2>1 DEF Finish, At, Story
      <3>2. mode[q] # "running"
        BY <2>1, <3>1 DEF Chapter, Running
      <3>3. QED
        BY <1>4, <1>9, <2>1, <3>2 DEF Finish, Stands
    <2>2. Chapter(r)'
      BY <1>9 DEF Finish, At, Chapter, Early
    <2>3. QED
      BY <1>2, <1>3, <2>1, <2>2 DEF Story
  <1>10. ASSUME NEW r \in Runs, Trigger(r) \/ Resume(r) PROVE Story'
    <2>1. /\ Moves(r) /\ mode'[r] = "running" /\ at' = at /\ step' = step
          /\ disturbed' = IF Running = {} THEN disturbed ELSE disturbed \cup Running \cup {r}
      BY <1>10, Executing DEF Trigger, Resume, Executes
    <2>2. ASSUME NEW q \in Runs \ disturbed', q # r PROVE Chapter(q)'
      BY <1>4, <2>1, <2>2 DEF Running, Moves
    <2>3. ASSUME r \notin disturbed' PROVE Chapter(r)'
      <3>1. Chapter(r) /\ Running = {}
        BY <2>1, <2>3 DEF Story
      <3>2. at[r] = "fixed_costs_reconciliation"
        BY <1>10, <3>1 DEF Chapter, Trigger, Resume
      <3>3. Running' = {r}
        BY <2>1, <3>1 DEF Running, Moves, Stands
      <3>4. UpToDate(r)'
        BY <2>1, <3>2 DEF UpToDate
      <3>5. QED
        BY <1>1, <2>1, <3>1, <3>2, <3>3, <3>4 DEF Chapter, Early
    <2>4. QED
      BY <1>2, <1>3, <2>2, <2>3 DEF Story
  <1>11. QED
    BY <1>6, <1>8, <1>9, <1>10

LEMMA StoryNext == Typed /\ Attaching /\ Story /\ [Next]_vars => Story'
  <1> SUFFICES ASSUME Typed, Attaching, Story, [Next]_vars PROVE Story'
    OBVIOUS
  <1>1. CASE UNCHANGED vars
    BY <1>1 DEF vars, Story, NoSettings, Told, Chapter, Early, UpToDate, HasProposed, Running,
                Current, Latest
  <1>2. CASE Crash \/ \E r \in Runs : NodeFails(r)
    BY <1>2, Stops, StoryStop
  <1>3. ASSUME NEW r \in Runs, NodeStep(r) PROVE Story'
    BY <1>3, StoryFixedCosts, StoryCashflow, StoryInvestment, StoryReporting, StoryReport,
       StoryEmail, StoryReturn, StoryRun DEF NodeStep
  <1>4. CASE Next
    BY <1>2, <1>3, <1>4, StoryRun DEF Next
  <1>5. QED
    BY <1>1, <1>4

\* The report, the summary and the recommendation of a run that executes alone and in one
\* go are of one statement, whatever other runs did before it and do after it.
THEOREM StoryIsOne == Spec => []OneStory
  <1>1. Init => Story
    BY DEF Init, Story, NoSettings, Chapter, Early, Running
  <1>2. Init => Attaching
    BY DEF Init, Attaching, ShownIsAttached, Blank
  <1>3. Story => OneStory
    BY DEF Story, Told, OneStory
  <1>4. QED
    BY <1>1, <1>2, <1>3, TypedInvariant, AttachingNext, StoryNext, PTL DEF Spec

-----------------------------------------------------------------------------
(***************************************************************************)
(* Fixed costs.  A cost that gets no transaction leaves none of its        *)
(* category unclaimed, and one that gets one gets the closest of those     *)
(* that no other cost has.                                                 *)
(***************************************************************************)

\* Whatever the order of the costs.
LEMMA GreedyMatch ==
    ASSUME NEW open \in SUBSET Txns, NEW plan \in Matches(open)
    PROVE  /\ plan \in [Costs -> open \cup {None}]
           /\ \A c, d \in Costs : plan[c] = plan[d] /\ plan[c] # None => c = d
           /\ \A c \in Costs : \A t \in open :
                 CategoryOf[t] = CategoryOf[c] /\ plan[c] = None => \E d \in Costs : plan[d] = t
           /\ \A c \in Costs : \A t \in open :
                 /\ CategoryOf[t] = CategoryOf[c] /\ plan[c] # None
                 /\ \A d \in Costs : plan[d] = t => d = c
                 => Distance(plan[c], c) <= Distance(t, c)
  <1> DEFINE n == Cardinality(Costs)
             Taken(order, i) == {plan[order[j]] : j \in 1..(i - 1)}
             Candidates(order, i) ==
                {t \in open \ Taken(order, i) : CategoryOf[t] = CategoryOf[order[i]]}
  <1>1. plan \in [Costs -> open \cup {None}] /\ None \notin open
    BY FixedCostsAssumption DEF Matches
  <1>2. PICK order \in Bijection(1..n, Costs) :
           \A i \in DOMAIN order : GreedyChoice(plan, order[i], open, Taken(order, i))
    BY DEF Matches
  <1>3. /\ order \in [1..n -> Costs] /\ DOMAIN order = 1..n
        /\ \A i, j \in 1..n : order[i] = order[j] => i = j
        /\ \A c \in Costs : \E i \in 1..n : order[i] = c
    BY <1>2 DEF Bijection, Injection, Surjection, IsInjective
  <1>n. n \in Nat
    BY FixedCostsAssumption, FS_CardinalityType
  <1> HIDE DEF n
  <1>4. ASSUME NEW i \in 1..n
        PROVE  /\ Candidates(order, i) = {} => plan[order[i]] = None
               /\ Candidates(order, i) # {} =>
                     /\ plan[order[i]] \in Candidates(order, i)
                     /\ \A t \in Candidates(order, i) :
                           Distance(plan[order[i]], order[i]) <= Distance(t, order[i])
    BY <1>2, <1>3 DEF GreedyChoice
  <1>5. ASSUME NEW i \in 1..n, NEW j \in 1..n, plan[order[i]] = plan[order[j]],
               plan[order[i]] # None
        PROVE  order[i] = order[j]
    <2>1. ASSUME NEW k \in 1..n, NEW l \in 1..n, k < l, plan[order[l]] = plan[order[k]],
                 plan[order[l]] # None
          PROVE  FALSE
      <3>1. k \in 1..(l - 1)
        BY <2>1
      <3>2. plan[order[l]] \in Candidates(order, l)
        BY <1>4, <2>1
      <3>3. plan[order[k]] \in Taken(order, l)
        BY <3>1
      <3>4. QED
        BY <2>1, <3>2, <3>3
    <2>2. i < j \/ j < i \/ i = j
      OBVIOUS
    <2>3. QED
      BY <1>5, <2>1, <2>2
  <1>6. \A c, d \in Costs : plan[c] = plan[d] /\ plan[c] # None => c = d
    BY <1>3, <1>5
  <1>7. ASSUME NEW c \in Costs, NEW t \in open, CategoryOf[t] = CategoryOf[c]
        PROVE  /\ plan[c] = None => \E d \in Costs : plan[d] = t
               /\ plan[c] # None /\ (\A d \in Costs : plan[d] = t => d = c)
                    => Distance(plan[c], c) <= Distance(t, c)
    <2>1. PICK i \in 1..n : order[i] = c
      BY <1>3
    <2>2. CASE t \in Candidates(order, i)
      BY <1>1, <1>4, <2>1, <2>2
    <2>3. CASE t \notin Candidates(order, i)
      <3>1. PICK j \in 1..(i - 1) : plan[order[j]] = t
        BY <1>7, <2>1, <2>3
      <3>2. j \in 1..n /\ j # i
        BY <1>n
      <3>3. order[j] \in Costs /\ order[j] # c
        BY <1>3, <2>1, <3>2
      <3>4. QED
        BY <3>1, <3>3
    <2>4. QED
      BY <2>2, <2>3
  <1>8. QED
    BY <1>1, <1>6, <1>7

\* The unmatched transactions of what is current.
OpenNow == IF Current = None THEN {} ELSE Open(Current)

\* A run that will still do something, if runs are attended.
Live(r) == mode[r] \in {"running", "stopped"}

\* The transactions that r is about to match, or None.
Claimed(r) ==
    IF Live(r) /\ at[r] = "fixed_costs_reconciliation" /\ step[r] = "judged"
    THEN {mem[r].plan[c] : c \in Costs} ELSE {}

\* A cost without a transaction leaves none of its category unmatched.
Thorough(s) ==
    \A c \in Costs :
        (\A t \in RowsOf(s) : matched[t] # c)
        => \A t \in RowsOf(s) : CategoryOf[t] = CategoryOf[c] => matched[t] # None

\* What the reconciliation of r has read still holds, and so does what it has stored.
Reconciled(r) ==
    /\ at[r] = "fixed_costs_reconciliation" /\ step[r] # "enter" => mem[r].current = Current
    /\ at[r] = "fixed_costs_reconciliation" /\ step[r] = "judged"
          => mem[r].plan \in Matches(OpenNow)
    /\ at[r] \in {"cashflow_calculation", "investment_analysis", "reporting"}
          => (Current # None => Thorough(Current))
    /\ at[r] = "reporting" /\ step[r] = "judged" /\ mem[r].covers # None
          => \A c \in Costs : mem[r].plan[c] = None
                => \A t \in RowsOf(mem[r].covers) : matched[t] # c

\* MissingIsUnpaid, of one report; nor will it be paid by a match in hand.
Unpaid(i) ==
    reports[i].by \notin disturbed /\ reports[i].type = "weekly" =>
        \A c \in Costs : reports[i].paid[c] = None =>
            \A t \in RowsOf(reports[i].of) : CategoryOf[t] = CategoryOf[c] =>
                /\ matched[t] \notin {None, c}
                /\ \A q \in Runs : t \notin Claimed(q)

Paying ==
    /\ \A i \in DOMAIN reports : Unpaid(i)
    /\ \A r \in Runs \ disturbed :
          mode[r] = "running" => Reconciled(r) /\ \A q \in Runs \ {r} : ~Live(q)
    /\ \A r \in Runs : mode[r] = "new" => step[r] = "enter"

\* A step of r that matches nothing and claims what is unmatched at most.
LEMMA PayingMove ==
    ASSUME Typed, Story, Paying, NEW r \in Runs, OnlySteps(r), SameSubjects,
           matched' = matched,
           \A t \in Claimed(r)' : t \in Txns => matched[t] = None \/ t \in Claimed(r),
           r \notin disturbed => Reconciled(r)'
    PROVE  Paying'
  <1>1. \A q \in Runs \ {r} : Claimed(q)' = Claimed(q)
    BY DEF Claimed, Live, OnlySteps
  <1>2. ASSUME NEW i \in DOMAIN reports PROVE Unpaid(i)'
    <2>1. \A t \in Txns : matched[t] # None /\ (\A q \in Runs : t \notin Claimed(q))
                             => \A q \in Runs : t \notin Claimed(q)'
      BY <1>1
    <2>2. Unpaid(i)
      BY DEF Paying
    <2>3. QED
      BY <2>1, <2>2 DEF Unpaid, SameSubjects, OnlySteps, RowsOf
  <1>3. ASSUME NEW q \in Runs \ disturbed', mode'[q] = "running"
        PROVE  Reconciled(q)' /\ \A p \in Runs \ {q} : ~Live(p)'
    <2>1. q = r
      BY <1>3 DEF Story, Chapter, Running, OnlySteps
    <2>2. QED
      BY <1>3, <2>1 DEF OnlySteps, Paying, Live
  <1>4. ASSUME NEW q \in Runs, mode'[q] = "new" PROVE step'[q] = "enter"
    BY <1>4 DEF Paying, OnlySteps
  <1>5. DOMAIN reports' = DOMAIN reports
    BY DEF SameSubjects
  <1>6. QED
    BY <1>2, <1>3, <1>4, <1>5 DEF Paying

LEMMA PayingPlan ==
    ASSUME Typed, Story, Paying, NEW r \in Runs, LoadFixedCosts(r) \/ MatchTransactions(r)
    PROVE  Paying'
  <1> USE DEF db, faults, At
  <1>1. mem[r] \in Mem
    BY DEF Typed, TypeOK
  <1>2. /\ OnlySteps(r) /\ SameSubjects /\ matched' = matched /\ Current' = Current
        /\ OpenNow' = OpenNow
        /\ at[r] = "fixed_costs_reconciliation" /\ at' = at /\ mode[r] = "running"
    <2>1. \E s \in {"read", "judged"} : \E m : Goes(r, s, m)
      BY JudgedEffect DEF LoadFixedCosts
    <2>2. /\ OnlySteps(r) /\ SameSubjects /\ matched' = matched /\ processed' = processed
          /\ at[r] = "fixed_costs_reconciliation" /\ at' = at /\ mode[r] = "running"
      BY <2>1 DEF LoadFixedCosts, MatchTransactions, Goes, Stays, OnlySteps, SameSubjects,
                  Typed, TypeOK
    <2>3. QED
      BY <2>2, CurrentStays DEF OpenNow, Open, RowsOf
  <1>3. CASE LoadFixedCosts(r)
    <2>1. step'[r] = "read" /\ mem'[r].current = Current
      BY <1>3 DEF LoadFixedCosts, Goes, Blank, Typed, TypeOK
    <2>2. Claimed(r)' = {} /\ Reconciled(r)'
      BY <1>2, <2>1 DEF Claimed, Reconciled
    <2>3. QED
      BY <1>2, <2>2, PayingMove
  <1>4. CASE MatchTransactions(r)
    <2> DEFINE open == IF mem[r].current = None THEN {} ELSE Open(mem[r].current)
    <2>1. PICK plan \in Matches(open) : Goes(r, "judged", [mem[r] EXCEPT !.plan = plan])
      BY <1>4 DEF MatchTransactions
    <2>2. step'[r] = "judged" /\ mem'[r].plan = plan /\ mem'[r].current = mem[r].current
          /\ step[r] = "read"
      BY <1>1, <1>4, <2>1 DEF MatchTransactions, Goes, Mem, Typed, TypeOK
    <2>3. plan \in [Costs -> open \cup {None}]
      BY DEF Matches
    <2>4. \A t \in open : matched[t] = None
      BY DEF Open
    <2>5. ASSUME NEW t \in Claimed(r)', t \in Txns PROVE matched[t] = None
      <3>1. PICK c \in Costs : t = plan[c]
        BY <2>2, <2>5 DEF Claimed
      <3>2. t \in open
        BY <2>3, <2>5, <3>1, FixedCostsAssumption
      <3>3. QED
        BY <2>4, <3>2
    <2>6. ASSUME r \notin disturbed PROVE Reconciled(r)'
      <3>1. mem[r].current = Current
        BY <1>2, <2>2, <2>6 DEF Paying, Reconciled
      <3>2. open = OpenNow
        BY <3>1 DEF OpenNow
      <3>3. QED
        BY <1>2, <2>2, <3>1, <3>2 DEF Reconciled
    <2>7. QED
      BY <1>2, <2>5, <2>6, PayingMove
  <1>5. QED
    BY <1>3, <1>4

\* What persist_reconciliation does to the rows of r's plan.
LEMMA ReconciliationEffect ==
    ASSUME Typed, NEW r \in Runs, PersistReconciliation(r)
    PROVE  /\ \A t \in Txns : t \notin Claimed(r) => matched'[t] = matched[t]
           /\ \A t \in Txns : t \in Claimed(r) => /\ matched'[t] \in Costs
                                                  /\ mem[r].plan[matched'[t]] = t
           /\ \A c \in Costs : mem[r].plan[c] \in Claimed(r)
  <1>1. \A t \in Txns : matched'[t] = IF \E c \in Costs : mem[r].plan[c] = t
                                      THEN CHOOSE c \in Costs : mem[r].plan[c] = t
                                      ELSE matched[t]
    BY DEF PersistReconciliation
  <1>2. Claimed(r) = {mem[r].plan[c] : c \in Costs}
    BY DEF PersistReconciliation, At, Claimed, Live
  <1>3. QED
    BY <1>1, <1>2

LEMMA PayingReconciliation ==
    ASSUME Typed, Story, Paying, NEW r \in Runs, PersistReconciliation(r)
    PROVE  Paying'
  <1> USE DEF db, faults, At
  <1>1. /\ OnlySteps(r) /\ reports' = reports /\ Current' = Current
        /\ at[r] = "fixed_costs_reconciliation" /\ step[r] = "judged"
        /\ at'[r] = "cashflow_calculation" /\ step'[r] = "enter" /\ mode[r] = "running"
    BY CurrentStays DEF PersistReconciliation, Leaves, OnlySteps, Typed, TypeOK
  <1>2. Claimed(r)' = {} /\ \A q \in Runs \ {r} : Claimed(q)' = Claimed(q)
    BY <1>1 DEF Claimed, Live, OnlySteps
  <1>3. ASSUME NEW i \in DOMAIN reports PROVE Unpaid(i)'
    <2>1. \A q \in Runs : Claimed(q)' \subseteq Claimed(q)
      BY <1>2
    <2>2. \A t \in Txns : (\A q \in Runs : t \notin Claimed(q)) => matched'[t] = matched[t]
      BY ReconciliationEffect
    <2>3. Unpaid(i)
      BY DEF Paying
    <2>4. QED
      BY <1>1, <2>1, <2>2, <2>3 DEF Unpaid, OnlySteps, RowsOf
  <1>4. ASSUME r \notin disturbed PROVE Reconciled(r)'
    <2>1. mem[r].plan \in Matches(OpenNow)
      BY <1>1, <1>4 DEF Paying, Reconciled
    <2>2. OpenNow \in SUBSET Txns
      BY DEF OpenNow, Open, RowsOf
    <2>3. ASSUME Current # None, NEW c \in Costs, \A t \in RowsOf(Current) : matched'[t] # c,
                 NEW t \in RowsOf(Current), CategoryOf[t] = CategoryOf[c]
          PROVE  matched'[t] # None
      <3>1. OpenNow = Open(Current) /\ t \in Txns
        BY <2>3 DEF OpenNow, RowsOf
      <3>2. mem[r].plan[c] = None
        <4>1. SUFFICES ASSUME mem[r].plan[c] # None PROVE FALSE
          OBVIOUS
        <4>2. mem[r].plan[c] \in Open(Current)
          BY <2>1, <2>2, <3>1, <4>1, GreedyMatch
        <4>3. mem[r].plan[c] \in RowsOf(Current) /\ mem[r].plan[c] \in Txns
          BY <4>2 DEF Open, RowsOf
        <4>4. matched'[mem[r].plan[c]] = c
          BY <2>1, <2>2, <4>1, <4>3, GreedyMatch, ReconciliationEffect
        <4>5. QED
          BY <2>3, <4>3, <4>4
      <3>3. CASE t \in Claimed(r)
        BY <3>1, <3>3, ReconciliationEffect, FixedCostsAssumption
      <3>4. CASE t \notin Claimed(r)
        <4>1. matched'[t] = matched[t]
          BY <3>1, <3>4, ReconciliationEffect
        <4>2. t \notin OpenNow
          BY <2>1, <2>2, <2>3, <3>2, <3>4, GreedyMatch, ReconciliationEffect
        <4>3. QED
          BY <2>3, <3>1, <4>1, <4>2 DEF Open
      <3>5. QED
        BY <3>3, <3>4
    <2>4. Current # None => Thorough(Current)'
      BY <1>1, <2>3 DEF Thorough, RowsOf
    <2>5. QED
      BY <1>1, <2>4 DEF Reconciled
  <1>5. ASSUME NEW q \in Runs \ disturbed', mode'[q] = "running"
        PROVE  Reconciled(q)' /\ \A p \in Runs \ {q} : ~Live(p)'
    <2>1. q = r
      BY <1>1, <1>5 DEF Story, Chapter, Running, OnlySteps
    <2>2. QED
      BY <1>1, <1>4, <1>5, <2>1 DEF OnlySteps, Paying, Live
  <1>6. ASSUME NEW q \in Runs, mode'[q] = "new" PROVE step'[q] = "enter"
    BY <1>1, <1>6 DEF Paying, OnlySteps
  <1>7. QED
    BY <1>1, <1>3, <1>5, <1>6 DEF Paying

\* The nodes between the reconciliation and the report leave its matches alone.
BetweenEffect(r) ==
    /\ OnlySteps(r) /\ SameSubjects /\ matched' = matched
    /\ at[r] \in {"cashflow_calculation", "investment_analysis", "reporting"}
    /\ at'[r] \in {"cashflow_calculation", "investment_analysis", "reporting"}
    /\ at'[r] = "reporting" /\ step'[r] = "judged" => RenderReports(r)

LEMMA BetweenMoves ==
    ASSUME Typed, NEW r \in Runs,
           \/ AggregateIncomeExpense(r) \/ ApplyFixedCostsStatus(r)
           \/ UpsertCashflowSummary(r)
           \/ CheckSafetyBuffer(r) \/ AssessTrend(r) \/ PersistRecommendation(r)
           \/ DetermineReportTypes(r) \/ RenderReports(r)
    PROVE  BetweenEffect(r)
  <1> USE DEF db, faults, At, BetweenEffect
  <1>1. CASE \E s \in {"read", "judged"} : \E m : Goes(r, s, m)
    BY <1>1 DEF AggregateIncomeExpense, ApplyFixedCostsStatus, UpsertCashflowSummary, CheckSafetyBuffer, AssessTrend,
                PersistRecommendation, DetermineReportTypes, RenderReports,
                Goes, Stays, OnlySteps, SameSubjects, Typed, TypeOK
  <1>2. CASE UpsertCashflowSummary(r)
    <2>1. \E row : summary' = [summary EXCEPT ![r] = row]
      BY <1>2 DEF UpsertCashflowSummary
    <2>2. QED
      BY <1>2, <2>1 DEF UpsertCashflowSummary, Leaves, OnlySteps, SameSubjects, Typed, TypeOK
  <1>3. CASE PersistRecommendation(r)
    BY <1>3 DEF PersistRecommendation, Leaves, OnlySteps, SameSubjects, Typed, TypeOK
  <1>4. QED
    BY <1>1, <1>2, <1>3, JudgedEffect
       DEF AggregateIncomeExpense, CheckSafetyBuffer, DetermineReportTypes

LEMMA PayingBetween ==
    ASSUME Typed, Story, Paying, NEW r \in Runs,
           \/ AggregateIncomeExpense(r) \/ ApplyFixedCostsStatus(r)
           \/ UpsertCashflowSummary(r)
           \/ CheckSafetyBuffer(r) \/ AssessTrend(r) \/ PersistRecommendation(r)
           \/ DetermineReportTypes(r) \/ RenderReports(r)
    PROVE  Paying'
  <1> USE DEF db, faults, At
  <1>1. mem[r] \in Mem
    BY DEF Typed, TypeOK
  <1>2. BetweenEffect(r) /\ processed' = processed /\ mode[r] = "running"
    BY BetweenMoves DEF BetweenEffect, OnlySteps
  <1> USE DEF BetweenEffect
  <1>3. Current' = Current
    BY <1>2, CurrentStays
  <1>4. Claimed(r)' = {}
    BY <1>2 DEF Claimed, Live
  <1>5. ASSUME r \notin disturbed PROVE Current # None => Thorough(Current)'
    BY <1>2, <1>3, <1>5 DEF Paying, Reconciled, Thorough, RowsOf
  <1>6. ASSUME RenderReports(r), mem'[r].covers # None, r \notin disturbed
        PROVE  \A c \in Costs : mem'[r].plan[c] = None
                  => \A t \in RowsOf(mem'[r].covers) : matched[t] # c
    <2>1. mem[r].current = Current /\ mem[r].covers = None
      BY <1>2, <1>6 DEF RenderReports, Story, Chapter, UpToDate
    <2>2. mem[r].current # None
      <3>1. mem[r].current = None => mem'[r] = mem[r]
        BY <1>6 DEF RenderReports, Goes, Typed, TypeOK
      <3>2. QED
        BY <1>6, <2>1, <3>1
    <2>3. PICK paid \in Statuses(RowsOf(Current), matched) :
             Goes(r, "judged", [mem[r] EXCEPT !.covers = Current, !.plan = paid,
                                              !.rec = LatestUnattached])
      BY <1>6, <2>2 DEF RenderReports
    <2>4. mem'[r].covers = Current /\ mem'[r].plan = paid
      BY <1>1, <2>3 DEF Goes, Mem, Typed, TypeOK
    <2>5. ASSUME NEW c \in Costs, paid[c] = None, NEW t \in RowsOf(Current), matched[t] = c
          PROVE  FALSE
      <3>1. paid[c] \in {u \in RowsOf(Current) : matched[u] = c}
        BY <2>5 DEF Statuses
      <3>2. QED
        BY <2>5, <3>1, FixedCostsAssumption DEF RowsOf
    <2>6. QED
      BY <2>4, <2>5
  <1>7. r \notin disturbed => Reconciled(r)'
    BY <1>2, <1>3, <1>5, <1>6 DEF Reconciled, RowsOf
  <1>8. QED
    BY <1>2, <1>4, <1>7, PayingMove

\* A new page calls missing what the tables call missing.
LEMMA PayingReport ==
    ASSUME Typed, Story, Paying, NEW r \in Runs, PersistReport(r) PROVE Paying'
  <1>1. mem[r] \in Mem /\ Tables
    BY DEF Typed, TypeOK, Tables
  <1>2. /\ OnlySteps(r) /\ matched' = matched /\ Current' = Current
        /\ mode[r] = "running" /\ at[r] = "reporting" /\ step[r] = "judged"
        /\ at'[r] = "email_delivery"
    BY CurrentStays DEF PersistReport, At, Leaves, faults, OnlySteps, Typed, TypeOK
  <1>3. Claimed(r) = {} /\ Claimed(r)' = {} /\ Reconciled(r)'
        /\ \A q \in Runs \ {r} : Claimed(q)' = Claimed(q)
    BY <1>2 DEF Claimed, Live, Reconciled, OnlySteps
  <1>4. CASE mem[r].covers = None
    BY <1>2, <1>3, <1>4, PayingMove DEF PersistReport, SameSubjects
  <1>5. CASE mem[r].covers # None
    <2>1. ASSUME NEW i \in DOMAIN reports PROVE Unpaid(i)'
      <3>1. Unpaid(i) /\ reports'[i] = reports[i]
        BY <1>1, <1>5, PersistReportRows DEF Paying
      <3>2. QED
        BY <1>2, <1>3, <3>1 DEF Unpaid, RowsOf, OnlySteps
    <2>2. ASSUME NEW i \in DOMAIN reports' \ DOMAIN reports, r \notin disturbed,
                 reports'[i].type = "weekly"
          PROVE  Unpaid(i)'
      <3>1. reports'[i].of = mem[r].covers /\ reports'[i].paid = mem[r].plan
        <4>1. /\ Page(r, "monthly").type = "monthly"
              /\ Page(r, "weekly").of = mem[r].covers /\ Page(r, "weekly").paid = mem[r].plan
          BY DEF Page
        <4>2. QED
          BY <1>1, <1>5, <2>2, <4>1, PersistReportRows
      <3>2. mem[r].covers = Current /\ Running = {r}
        BY <1>2, <1>5, <2>2 DEF Story, Chapter, UpToDate
      <3>3. Thorough(Current) /\ \A c \in Costs : mem[r].plan[c] = None
                                    => \A t \in RowsOf(Current) : matched[t] # c
        BY <1>2, <1>5, <2>2, <3>2 DEF Paying, Reconciled
      <3>4. \A q \in Runs : Claimed(q)' = {}
        <4>1. \A q \in Runs \ {r} : ~Live(q)
          BY <1>2, <2>2 DEF Paying
        <4>2. QED
          BY <1>3, <4>1 DEF Claimed
      <3>5. QED
        BY <1>2, <3>1, <3>2, <3>3, <3>4 DEF Unpaid, Thorough, RowsOf
    <2>3. ASSUME NEW i \in DOMAIN reports' \ DOMAIN reports PROVE Unpaid(i)'
      <3>1. reports'[i].by = r
        <4>1. \A type \in {"weekly", "monthly"} : Page(r, type).by = r
          BY DEF Page
        <4>2. QED
          BY <1>1, <1>5, <2>3, <4>1, PersistReportRows
      <3>2. QED
        BY <1>2, <2>2, <2>3, <3>1 DEF Unpaid, OnlySteps
    <2>4. ASSUME NEW q \in Runs \ disturbed', mode'[q] = "running"
          PROVE  Reconciled(q)' /\ \A p \in Runs \ {q} : ~Live(p)'
      <3>1. q = r
        BY <1>2, <2>4 DEF Story, Chapter, Running, OnlySteps
      <3>2. QED
        BY <1>2, <1>3, <2>4, <3>1 DEF OnlySteps, Paying, Live
    <2>5. \A q \in Runs : mode'[q] = "new" => step'[q] = "enter"
      BY DEF Paying, OnlySteps, PersistReport, Leaves, At, Typed, TypeOK
    <2>6. QED
      BY <2>1, <2>3, <2>4, <2>5 DEF Paying
  <1>6. QED
    BY <1>4, <1>5

LEMMA PayingEmail ==
    ASSUME Typed, Story, Paying, NEW r \in Runs,
           \/ RenderFinalPayload(r) \/ SmtpDone(r) \/ HandleResult(r)
           \/ \E i \in mem[r].outbox :
                 SmtpAccepts(r, i) \/ SmtpRefuses(r, i) \/ SmtpAnswerLost(r, i)
    PROVE  Paying'
  <1>1. OnlySteps(r) /\ SameSubjects /\ at'[r] \in {"email_delivery", "END"}
    BY EmailEffect
  <1>2. matched' = matched
    BY DEF RenderFinalPayload, SmtpDone, HandleResult, SmtpAccepts, SmtpRefuses, SmtpAnswerLost, db
  <1>3. Claimed(r)' = {} /\ Reconciled(r)'
    BY <1>1 DEF Claimed, Reconciled
  <1>4. QED
    BY <1>1, <1>2, <1>3, PayingMove

\* Nothing is stored, and the run is disturbed.
LEMMA PayingReturn ==
    ASSUME Typed, Story, Paying, NEW r \in Runs, ReturnsStored(r) PROVE Paying'
  <1>1. r \in disturbed /\ OnlySteps(r) /\ SameSubjects /\ step'[r] = "enter" /\ matched' = matched
    BY ReturnEffect DEF Story, Chapter, db
  <1>2. Claimed(r)' = {}
    BY <1>1 DEF Claimed
  <1>3. QED
    BY <1>1, <1>2, PayingMove

\* What a run that stops has read and judged, it will store when it is resumed.
LEMMA PayingStop ==
    ASSUME Typed, Story, Paying, Stopping PROVE Paying'
  <1>1. reports' = reports /\ matched' = matched /\ processed' = processed
        /\ disturbed \subseteq disturbed'
    BY DEF Stopping, db
  <1>2. \A q \in Runs : Claimed(q)' \subseteq Claimed(q)
    BY DEF Stopping, Untouched, CutOff, Claimed, Live
  <1>3. ASSUME NEW i \in DOMAIN reports' PROVE Unpaid(i)'
    <2>1. Unpaid(i)
      BY <1>1 DEF Paying
    <2>2. QED
      BY <1>1, <1>2, <2>1 DEF Unpaid, RowsOf
  <1>4. ASSUME NEW q \in Runs \ disturbed' PROVE mode'[q] # "running"
    <2>1. Untouched(q) /\ Chapter(q)
      BY <1>1 DEF Stopping, CutOff, Story
    <2>2. PICK r \in Runs : CutOff(r)
      BY DEF Stopping
    <2>3. r # q /\ r \in Running
      BY <2>2 DEF CutOff, Running
    <2>4. QED
      BY <2>1, <2>3 DEF Chapter, Untouched
  <1>5. \A q \in Runs : mode'[q] = "new" => step'[q] = "enter"
    BY DEF Stopping, Untouched, CutOff, Paying
  <1>6. QED
    BY <1>3, <1>4, <1>5 DEF Paying

LEMMA PayingRun ==
    ASSUME Typed, Story, Story', Paying, Attended,
           \/ \E s \in Statements : Arrive(s)
           \/ \E r \in Runs : Trigger(r) \/ Resume(r) \/ Finish(r) \/ SaveCheckpoint(r)
    PROVE  Paying'
  <1> USE DEF db, faults, At, Typed, TypeOK
  <1>1. /\ reports' = reports /\ matched' = matched /\ disturbed \subseteq disturbed'
        /\ at' = at /\ step' = step /\ mem' = mem
    BY DEF Arrive, Trigger, Resume, Executes, Finish, SaveCheckpoint
  <1>2. ASSUME NEW q \in Runs
        PROVE  /\ Live(q)' /\ ~Live(q) => mode[q] = "new"
               /\ mode'[q] = "new" => mode[q] = "new"
    <2>1. CASE mode' = Overtaken \/ mode' = mode
      BY <2>1 DEF Overtaken, Live
    <2>2. ASSUME NEW r \in Runs, Finish(r)
          PROVE  mode'[q] = mode[q] \/ mode'[q] = "completed"
      BY <2>2 DEF Finish
    <2>3. ASSUME NEW r \in Runs, Trigger(r) \/ Resume(r)
          PROVE  \/ Stands(q)
                 \/ mode'[q] = "running" /\ mode[q] \in {"new", "stopped"}
      BY <2>3, Executing DEF Moves, Trigger, Resume
    <2>4. QED
      BY <2>1, <2>2, <2>3 DEF Arrive, SaveCheckpoint, Live, Stands
  <1>3. \A q \in Runs : Claimed(q)' \subseteq Claimed(q)
    BY <1>1, <1>2 DEF Claimed, Paying
  <1>4. ASSUME NEW i \in DOMAIN reports' PROVE Unpaid(i)'
    <2>1. Unpaid(i)
      BY <1>1 DEF Paying
    <2>2. QED
      BY <1>1, <1>3, <2>1 DEF Unpaid, RowsOf
  <1>5. ASSUME NEW q \in Runs \ disturbed', mode'[q] = "running"
        PROVE  Reconciled(q)' /\ \A p \in Runs \ {q} : ~Live(p)'
    <2>1. q \notin disturbed /\ Running' = {q} /\ Chapter(q)
      BY <1>1, <1>5 DEF Story, Chapter
    <2>2. CASE mode[q] # "running"
      <3>1. mode[q] = "new"
        BY <1>2, <1>5, <2>1, <2>2 DEF Live, Chapter
      <3>2. Trigger(q) \/ Resume(q)
        <4>1. ASSUME NEW r \in Runs, Trigger(r) \/ Resume(r) PROVE r = q
          BY <1>5, <2>2, <4>1, Executing DEF Moves, Stands
        <4>2. QED
          BY <1>5, <2>2, <4>1 DEF Arrive, Overtaken, Finish, SaveCheckpoint
      <3>3. Running = {} /\ \A p \in Runs \ {q} : mode'[p] = Overtaken[p]
        <4>1. /\ mode' = [Overtaken EXCEPT ![q] = "running"]
              /\ disturbed' = IF Running = {} THEN disturbed
                              ELSE disturbed \cup Running \cup {q}
          BY <3>2 DEF Trigger, Resume, Executes
        <4>2. QED
          BY <1>5, <4>1 DEF Overtaken
      <3>4. \A p \in Runs \ {q} : ~Live(p)'
        BY <3>3 DEF Overtaken, Live, Running
      <3>5. QED
        BY <1>1, <2>1, <3>1, <3>4 DEF Chapter, Reconciled
    <2>3. CASE mode[q] = "running"
      <3>1. Reconciled(q) /\ Running = {q} /\ \A p \in Runs \ {q} : ~Live(p)
        BY <2>1, <2>3 DEF Paying, Chapter
      <3>2. processed' = processed /\ mode' = mode
        <4>1. ~\E s \in Statements : Arrive(s)
          BY <1>5, <3>1 DEF Arrive
        <4>2. ~\E r \in Runs : Trigger(r) \/ Resume(r)
          BY <1>5, <3>1 DEF Trigger, Resume, Executes
        <4>3. ASSUME NEW r \in Runs, Finish(r) PROVE FALSE
          BY <1>5, <3>1, <4>3 DEF Finish, Running
        <4>4. QED
          BY <4>1, <4>2, <4>3 DEF SaveCheckpoint
      <3>3. Current' = Current
        BY <3>2, CurrentStays
      <3>4. OpenNow' = OpenNow
        BY <1>1, <3>3 DEF OpenNow, Open, RowsOf
      <3>5. Reconciled(q)'
        BY <1>1, <3>1, <3>3, <3>4 DEF Reconciled, Thorough, RowsOf
      <3>6. QED
        BY <3>1, <3>2, <3>5 DEF Live
    <2>4. QED
      BY <2>2, <2>3
  <1>6. \A q \in Runs : mode'[q] = "new" => step'[q] = "enter"
    BY <1>1, <1>2 DEF Paying
  <1>7. QED
    BY <1>1, <1>4, <1>5, <1>6 DEF Paying

LEMMA PayingNext ==
    ASSUME Attended PROVE Typed /\ Story /\ Story' /\ Paying /\ [Next]_vars => Paying'
  <1> SUFFICES ASSUME Typed, Story, Story', Paying, [Next]_vars PROVE Paying'
    OBVIOUS
  <1>1. CASE UNCHANGED vars
    <2> USE <1>1 DEF vars
    <2>1. Current' = Current
      BY CurrentStays
    <2>2. OpenNow' = OpenNow /\ \A s : Thorough(s)' = Thorough(s)
      BY <2>1 DEF OpenNow, Open, RowsOf, Thorough
    <2>3. \A r \in Runs : Claimed(r)' = Claimed(r) /\ Reconciled(r)' = Reconciled(r)
      BY <2>1, <2>2 DEF Claimed, Live, Reconciled, RowsOf
    <2>4. \A i \in DOMAIN reports : Unpaid(i)' = Unpaid(i)
      BY <2>3 DEF Unpaid, RowsOf
    <2>5. QED
      BY <2>3, <2>4 DEF Paying, Live
  <1>2. ASSUME NEW r \in Runs, NodeStep(r) PROVE Paying'
    <2>1. CASE LoadFixedCosts(r) \/ MatchTransactions(r) \/ PersistReconciliation(r)
      BY <2>1, PayingPlan, PayingReconciliation
    <2>2. CASE Finish(r)
      BY <2>2, PayingRun
    <2>3. CASE PersistReport(r)
      BY <2>3, PayingReport
    <2>4. CASE \/ AggregateIncomeExpense(r) \/ ApplyFixedCostsStatus(r)
               \/ UpsertCashflowSummary(r)
               \/ CheckSafetyBuffer(r) \/ AssessTrend(r) \/ PersistRecommendation(r)
               \/ DetermineReportTypes(r) \/ RenderReports(r)
      BY <2>4, PayingBetween
    <2>5. CASE \/ RenderFinalPayload(r) \/ SmtpDone(r) \/ HandleResult(r)
               \/ \E i \in mem[r].outbox :
                     SmtpAccepts(r, i) \/ SmtpRefuses(r, i) \/ SmtpAnswerLost(r, i)
      BY <2>5, PayingEmail
    <2>6. CASE ReturnsStored(r)
      BY <2>6, PayingReturn
    <2>7. QED
      BY <1>2, <2>1, <2>2, <2>3, <2>4, <2>5, <2>6 DEF NodeStep
  <1>3. CASE Crash \/ \E r \in Runs : NodeFails(r)
    BY <1>3, Stops, PayingStop
  <1>4. CASE Next
    BY <1>2, <1>3, <1>4, PayingRun DEF Next
  <1>5. QED
    BY <1>1, <1>4

\* For every set of costs and transactions and every order of the costs: what the weekly
\* report of an undisturbed run calls missing is not paid, then or later, by a transaction
\* of its category that is unmatched or the cost's own.  The runs are attended: no run
\* stores matches that it has chosen before another one executed.
THEOREM MissingUnpaid == ASSUME Attended PROVE Spec => []MissingIsUnpaid
  <1>1. Init => Story /\ Attaching /\ Paying
    BY DEF Init, Story, NoSettings, Chapter, Early, Running, Attaching, ShownIsAttached, Blank,
           Paying
  <1>2. Paying => MissingIsUnpaid
    <2>1. ASSUME NEW c \in Costs, NEW t, FixedCostStatus(c, t) = "missing_payment"
          PROVE  t = None
      BY <2>1 DEF FixedCostStatus
    <2>2. QED
      BY <2>1 DEF Paying, Unpaid, MissingIsUnpaid
  <1>3. QED
    BY <1>1, <1>2, TypedInvariant, AttachingNext, StoryNext, PayingNext, PTL DEF Spec

-----------------------------------------------------------------------------
(***************************************************************************)
(* The closest transactions.  As long as runs execute one after the other, *)
(* all rows of a statement without a report are unmatched when its first   *)
(* run gets to them, and later runs only take more of them away.           *)
(***************************************************************************)

NoReportOf(s) == \A i \in DOMAIN reports : reports[i].of # s

\* r has stored its matches, and not yet its reports.
PastMatch(r) ==
    mode[r] = "running" /\ at[r] \in {"cashflow_calculation", "investment_analysis", "reporting"}

\* What the reconciliation of r has read is current, and its plan is one for that.
Planned(r) ==
    mode[r] = "running" /\ at[r] = "fixed_costs_reconciliation" =>
        /\ step[r] # "enter" => mem[r].current = Current
        /\ step[r] = "judged" => mem[r].plan \in Matches(OpenNow)

\* u is closer to what its cost expects than any row of s that this cost could have.
Closest(u, s) ==
    \A t \in RowsOf(s) :
        CategoryOf[t] = CategoryOf[matched[u]] /\ matched[t] \in {None, matched[u]}
            => Distance(u, matched[u]) <= Distance(t, matched[u])

\* ClosestIsShown, of one report.
ShowsClosest(i) ==
    /\ reports[i].type = "weekly"
    /\ \A j \in 1..(i - 1) : reports[j].of # reports[i].of
    => \A c \in Costs :
        LET shown == reports[i].paid[c]
        IN shown # None =>
            \A t \in RowsOf(reports[i].of) :
                CategoryOf[t] = CategoryOf[c] /\ matched[t] \in {None, c}
                    => Distance(shown, c) <= Distance(t, c)

\* What r is about to print are matches of the current statement.
Prints(r) ==
    mode[r] = "running" /\ at[r] = "reporting" /\ step[r] = "judged" /\ Current # None =>
        /\ mem[r].covers = Current
        /\ \A c \in Costs : LET t == mem[r].plan[c]
                            IN t # None => t \in RowsOf(Current) /\ matched[t] = c

Fresh ==
    /\ \A s \in Statements :
          NoReportOf(s) /\ (\A r \in Runs : PastMatch(r) => s # Current)
              => \A t \in RowsOf(s) : matched[t] = None
    /\ \A r \in Runs :
          PastMatch(r) /\ Current # None /\ NoReportOf(Current)
              => \A u \in RowsOf(Current) : matched[u] # None => Closest(u, Current)
    /\ \A r \in Runs : Planned(r) /\ Prints(r)
    /\ \A i \in DOMAIN reports : ShowsClosest(i)

Choosing == disturbed = {} => Fresh

\* The only run that executes.
LEMMA Alone ==
    ASSUME Story, disturbed = {}, NEW r \in Runs, mode[r] = "running"
    PROVE  UpToDate(r) /\ \A q \in Runs : mode[q] = "running" => q = r
  BY DEF Story, Chapter, Running

\* A step that matches nothing, and passes no reports by.
LEMMA ChoosingMove ==
    ASSUME Typed, Story, disturbed = {}, Fresh, NEW r \in Runs, OnlySteps(r), SameSubjects,
           matched' = matched, Current # None => PastMatch(r)' = PastMatch(r),
           Planned(r)', Prints(r)'
    PROVE  Fresh'
  <1>1. Current' = Current /\ DOMAIN reports' = DOMAIN reports
    BY CurrentStays DEF OnlySteps, SameSubjects
  <1>2. \A s : NoReportOf(s)' = NoReportOf(s)
    BY DEF NoReportOf, SameSubjects
  <1>3. \A q \in Runs : Current # None => PastMatch(q)' = PastMatch(q)
    BY DEF PastMatch, OnlySteps
  <1>4. ASSUME NEW s \in Statements, NoReportOf(s), \A q \in Runs : PastMatch(q)' => s # Current,
               NEW t \in RowsOf(s)
        PROVE  matched[t] = None
    <2>1. Current = s => Current # None
      BY TablesAssumption
    <2>2. QED
      BY <1>3, <1>4, <2>1 DEF Fresh
  <1>5. ASSUME NEW q \in Runs PROVE Planned(q)' /\ Prints(q)'
    <2>1. CASE q = r
      BY <2>1
    <2>2. CASE q # r
      <3>1. mode'[q] # "running"
        BY <2>2, Alone DEF OnlySteps
      <3>2. QED
        BY <3>1 DEF Planned, Prints
    <2>3. QED
      BY <2>1, <2>2
  <1>6. ASSUME NEW i \in DOMAIN reports PROVE ShowsClosest(i)'
    <2>1. ShowsClosest(i)
      BY DEF Fresh
    <2>2. i \in Nat /\ 1..(i - 1) \subseteq DOMAIN reports
      <3>1. Len(reports) \in Nat /\ DOMAIN reports = 1..Len(reports)
        BY LenProperties DEF Typed, TypeOK
      <3>2. QED
        BY <3>1
    <2>3. QED
      BY <2>1, <2>2 DEF ShowsClosest, SameSubjects, RowsOf
  <1>7. ASSUME NEW q \in Runs, PastMatch(q)', Current # None, NoReportOf(Current),
               NEW u \in RowsOf(Current), matched[u] # None
        PROVE  Closest(u, Current)'
    <2>1. Closest(u, Current)
      BY <1>3, <1>7 DEF Fresh
    <2>2. QED
      BY <1>1, <2>1 DEF Closest, RowsOf
  <1>8. QED
    BY <1>1, <1>2, <1>4, <1>5, <1>6, <1>7 DEF Fresh, RowsOf

LEMMA ChoosingPlan ==
    ASSUME Typed, Story, disturbed = {}, Fresh, NEW r \in Runs,
           LoadFixedCosts(r) \/ MatchTransactions(r)
    PROVE  Fresh'
  <1> USE DEF db, faults, At
  <1>1. \E s \in {"read", "judged"} : \E m : Goes(r, s, m)
    BY JudgedEffect DEF LoadFixedCosts
  <1>2. /\ OnlySteps(r) /\ SameSubjects /\ matched' = matched /\ processed' = processed
        /\ mode[r] = "running" /\ at[r] = "fixed_costs_reconciliation" /\ at' = at
    BY <1>1 DEF LoadFixedCosts, MatchTransactions, Goes, Stays, OnlySteps, SameSubjects,
                Typed, TypeOK
  <1>3. Current' = Current /\ OpenNow' = OpenNow
    BY <1>2, CurrentStays DEF OpenNow, Open, RowsOf
  <1>4. CASE LoadFixedCosts(r)
    <2>1. step'[r] = "read" /\ mem'[r].current = Current
      BY <1>4 DEF LoadFixedCosts, Goes, Blank, Typed, TypeOK
    <2>2. QED
      BY <1>2, <1>3, <2>1, ChoosingMove DEF PastMatch, Planned, Prints
  <1>5. CASE MatchTransactions(r)
    <2>1. mem[r].current = Current /\ mem[r] \in Mem
      BY <1>2, <1>5 DEF MatchTransactions, Fresh, Planned, Typed, TypeOK
    <2>2. PICK plan \in Matches(OpenNow) : Goes(r, "judged", [mem[r] EXCEPT !.plan = plan])
      BY <1>5, <2>1 DEF MatchTransactions, OpenNow
    <2>3. mem'[r].plan = plan /\ mem'[r].current = mem[r].current
      BY <2>1, <2>2 DEF Goes, Mem, Typed, TypeOK
    <2>4. Planned(r)'
      BY <1>3, <2>1, <2>2, <2>3 DEF Planned
    <2>5. QED
      BY <1>2, <2>4, ChoosingMove DEF PastMatch, Prints
  <1>6. QED
    BY <1>4, <1>5

\* The first matches of a statement are made among all its rows.
LEMMA ChoosingReconciliation ==
    ASSUME Typed, Story, disturbed = {}, Fresh, NEW r \in Runs, PersistReconciliation(r)
    PROVE  Fresh'
  <1> USE DEF db, faults, At
  <1>1. /\ OnlySteps(r) /\ reports' = reports /\ Current' = Current
        /\ at[r] = "fixed_costs_reconciliation" /\ step[r] = "judged"
        /\ at'[r] = "cashflow_calculation" /\ mode[r] = "running"
    BY CurrentStays DEF PersistReconciliation, Leaves, OnlySteps, Typed, TypeOK
  <1>2. /\ \A q \in Runs : ~PastMatch(q)
        /\ \A q \in Runs : PastMatch(q)' => q = r
        /\ \A q \in Runs : Planned(q)' /\ Prints(q)'
    BY <1>1, Alone DEF PastMatch, Planned, Prints, OnlySteps
  <1>3. mem[r].plan \in Matches(OpenNow)
    BY <1>1 DEF Fresh, Planned
  <1>4. OpenNow \in SUBSET Txns /\ \A t \in OpenNow : matched[t] = None
    BY DEF OpenNow, Open, RowsOf
  <1> DEFINE plan == mem[r].plan
  <1>5. /\ plan \in [Costs -> OpenNow \cup {None}]
        /\ \A c, d \in Costs : plan[c] = plan[d] /\ plan[c] # None => c = d
        /\ \A c \in Costs : \A t \in OpenNow :
              /\ CategoryOf[t] = CategoryOf[c] /\ plan[c] # None
              /\ \A d \in Costs : plan[d] = t => d = c
              => Distance(plan[c], c) <= Distance(t, c)
    BY <1>3, <1>4, GreedyMatch
  <1>6. Claimed(r) = {plan[c] : c \in Costs}
    BY <1>1 DEF Claimed, Live
  <1> HIDE DEF plan
  <1>7. /\ \A t \in Txns : t \notin Claimed(r) => matched'[t] = matched[t]
        /\ \A t \in Txns : t \in Claimed(r) => matched'[t] \in Costs /\ plan[matched'[t]] = t
    BY ReconciliationEffect DEF plan
  <1>8. \A t \in Txns : matched[t] # None => matched'[t] = matched[t]
    BY <1>4, <1>5, <1>6, <1>7, FixedCostsAssumption
  <1>9. ASSUME NEW s \in Statements, NoReportOf(s), s # Current, NEW t \in RowsOf(s)
        PROVE  matched'[t] = None
    <2>1. t \in Txns /\ matched[t] = None
      BY <1>2, <1>9 DEF Fresh, RowsOf
    <2>2. t \notin OpenNow
      BY <1>9 DEF OpenNow, Open, RowsOf
    <2>3. QED
      BY <1>5, <1>6, <1>7, <2>1, <2>2, FixedCostsAssumption
  <1>10. ASSUME Current # None, NoReportOf(Current), NEW u \in RowsOf(Current),
                matched'[u] # None
         PROVE  Closest(u, Current)'
    <2>1. Current \in Statements
      BY <1>10 DEF Current, Typed, TypeOK
    <2>2. \A t \in RowsOf(Current) : matched[t] = None /\ t \in OpenNow /\ t \in Txns
      BY <1>2, <1>10, <2>1 DEF Fresh, OpenNow, Open, RowsOf
    <2>3. matched'[u] \in Costs /\ plan[matched'[u]] = u
      BY <1>7, <1>10, <2>2
    <2>4. ASSUME NEW t \in RowsOf(Current), CategoryOf[t] = CategoryOf[matched'[u]],
                 matched'[t] \in {None, matched'[u]}
          PROVE  Distance(u, matched'[u]) <= Distance(t, matched'[u])
      <3>1. ASSUME NEW d \in Costs, plan[d] = t PROVE d = matched'[u]
        <4>1. t \in Claimed(r) /\ t # None
          BY <1>6, <2>2, <3>1, FixedCostsAssumption
        <4>2. matched'[t] \in Costs /\ plan[matched'[t]] = t
          BY <1>7, <2>2, <4>1
        <4>3. matched'[t] = d
          BY <1>5, <3>1, <4>1, <4>2
        <4>4. QED
          BY <2>4, <4>2, <4>3, FixedCostsAssumption
      <3>2. plan[matched'[u]] # None
        BY <2>2, <2>3, FixedCostsAssumption
      <3>3. QED
        BY <1>5, <2>2, <2>3, <2>4, <3>1, <3>2
    <2>5. QED
      BY <1>1, <2>4 DEF Closest, RowsOf
  <1>11. ASSUME NEW i \in DOMAIN reports PROVE ShowsClosest(i)'
    <2>1. ShowsClosest(i)
      BY DEF Fresh
    <2>2. ASSUME NEW t \in RowsOf(reports[i].of), NEW c \in Costs, matched'[t] \in {None, c}
          PROVE  matched[t] \in {None, c}
      BY <1>8, <2>2 DEF RowsOf
    <2>3. QED
      BY <1>1, <2>1, <2>2 DEF ShowsClosest, RowsOf
  <1>12. PastMatch(r)' /\ \A s : NoReportOf(s)' = NoReportOf(s)
    BY <1>1 DEF PastMatch, OnlySteps, NoReportOf
  <1>13. QED
    BY <1>1, <1>2, <1>9, <1>10, <1>11, <1>12 DEF Fresh, RowsOf

LEMMA ChoosingBetween ==
    ASSUME Typed, Story, disturbed = {}, Fresh, NEW r \in Runs,
           \/ AggregateIncomeExpense(r) \/ ApplyFixedCostsStatus(r)
           \/ UpsertCashflowSummary(r)
           \/ CheckSafetyBuffer(r) \/ AssessTrend(r) \/ PersistRecommendation(r)
           \/ DetermineReportTypes(r) \/ RenderReports(r)
    PROVE  Fresh'
  <1> USE DEF db, faults, At
  <1>1. mem[r] \in Mem
    BY DEF Typed, TypeOK
  <1>2. BetweenEffect(r)
    BY BetweenMoves
  <1>3. Current' = Current
    BY <1>2, CurrentStays DEF BetweenEffect, OnlySteps
  <1>4. ASSUME RenderReports(r), Current # None PROVE Prints(r)'
    <2>1. mem[r].current = Current /\ mode[r] = "running"
      BY <1>2, <1>4, Alone DEF RenderReports, UpToDate
    <2>2. PICK paid \in Statuses(RowsOf(Current), matched) :
             Goes(r, "judged", [mem[r] EXCEPT !.covers = Current, !.plan = paid,
                                              !.rec = LatestUnattached])
      BY <1>4, <2>1 DEF RenderReports
    <2>3. mem'[r].covers = Current /\ mem'[r].plan = paid
      BY <1>1, <2>2 DEF Goes, Mem, Typed, TypeOK
    <2>4. \A c \in Costs : paid[c] # None =>
             paid[c] \in RowsOf(Current) /\ matched[paid[c]] = c
      BY DEF Statuses
    <2>5. QED
      BY <1>2, <1>3, <2>3, <2>4 DEF Prints, BetweenEffect, RowsOf
  <1>5. Prints(r)'
    BY <1>2, <1>3, <1>4 DEF Prints, BetweenEffect
  <1>6. QED
    BY <1>2, <1>5, ChoosingMove DEF BetweenEffect, PastMatch, Planned, OnlySteps

\* The first report of a statement prints its matches while they are the closest.
LEMMA ChoosingReport ==
    ASSUME Typed, Story, disturbed = {}, Fresh, NEW r \in Runs, PersistReport(r)
    PROVE  Fresh'
  <1>1. mem[r] \in Mem /\ Tables
    BY DEF Typed, TypeOK, Tables
  <1>2. /\ OnlySteps(r) /\ matched' = matched /\ Current' = Current
        /\ mode[r] = "running" /\ at[r] = "reporting" /\ step[r] = "judged"
        /\ at'[r] = "email_delivery"
    BY CurrentStays DEF PersistReport, At, Leaves, faults, OnlySteps, Typed, TypeOK
  <1>3. PastMatch(r) /\ ~PastMatch(r)' /\ Planned(r)' /\ Prints(r)'
    BY <1>2 DEF PastMatch, Planned, Prints
  <1>4. Prints(r) /\ (mem[r].covers # None => mem[r].covers = Current)
    BY <1>2, Alone DEF Fresh, UpToDate
  <1>5. CASE mem[r].covers = None
    <2>1. Current = None
      BY <1>2, <1>4, <1>5 DEF Prints
    <2>2. SameSubjects
      BY <1>5 DEF PersistReport, SameSubjects
    <2>3. QED
      BY <1>2, <1>3, <2>1, <2>2, ChoosingMove
  <1>6. CASE mem[r].covers # None
    <2>1. /\ DOMAIN reports \subseteq DOMAIN reports'
          /\ \A i \in DOMAIN reports : reports'[i] = reports[i]
          /\ Len(reports) + 1 \in DOMAIN reports'
          /\ reports'[Len(reports) + 1].of = Current
      <3>1. Page(r, "weekly").of = mem[r].covers
        BY DEF Page
      <3>2. QED
        BY <1>1, <1>4, <1>6, <3>1, PersistReportRows
    <2>2. /\ Len(reports) \in Nat /\ DOMAIN reports = 1..Len(reports)
          /\ Len(reports') \in Nat /\ DOMAIN reports' = 1..Len(reports')
      BY <1>1, <1>6, PersistReportRows, LenProperties DEF Tables
    <2>3. ASSUME NEW s \in Statements, NoReportOf(s)' PROVE NoReportOf(s) /\ s # Current
      BY <2>1, <2>3 DEF NoReportOf
    <2>4. ASSUME NEW s \in Statements, NoReportOf(s)', NEW t \in RowsOf(s)
          PROVE  matched[t] = None
      BY <2>3, <2>4 DEF Fresh
    <2>5. \A q \in Runs : ~PastMatch(q)'
      BY <1>2, <1>3, Alone DEF PastMatch, OnlySteps
    <2>6. ASSUME NEW q \in Runs PROVE Planned(q)' /\ Prints(q)'
      BY <1>2, <1>3, Alone DEF Planned, Prints, OnlySteps
    <2>7. ASSUME NEW i \in DOMAIN reports PROVE ShowsClosest(i)'
      <3>1. ShowsClosest(i) /\ i \in Nat /\ 1..(i - 1) \subseteq DOMAIN reports
        BY <2>2 DEF Fresh
      <3>2. QED
        BY <1>2, <2>1, <3>1 DEF ShowsClosest, RowsOf
    <2>8. ASSUME NEW i \in DOMAIN reports' \ DOMAIN reports PROVE ShowsClosest(i)'
      <3>1. SUFFICES ASSUME reports'[i].type = "weekly",
                            \A j \in 1..(i - 1) : reports'[j].of # reports'[i].of,
                            NEW c \in Costs, reports'[i].paid[c] # None,
                            NEW t \in RowsOf(reports'[i].of), CategoryOf[t] = CategoryOf[c],
                            matched[t] \in {None, c}
                     PROVE  Distance(reports'[i].paid[c], c) <= Distance(t, c)
        BY <1>2 DEF ShowsClosest, RowsOf
      <3>2. reports'[i].of = Current /\ reports'[i].paid = mem[r].plan
        <4>1. /\ Page(r, "monthly").type = "monthly"
              /\ Page(r, "weekly").of = mem[r].covers /\ Page(r, "weekly").paid = mem[r].plan
          BY DEF Page
        <4>2. QED
          BY <1>1, <1>4, <1>6, <3>1, <4>1, PersistReportRows
      <3>3. NoReportOf(Current)
        <4>1. DOMAIN reports \subseteq 1..(i - 1)
          BY <2>2
        <4>2. QED
          BY <2>1, <3>1, <3>2, <4>1 DEF NoReportOf
      <3>4. mem[r].plan[c] \in RowsOf(Current) /\ matched[mem[r].plan[c]] = c
        BY <1>2, <1>4, <1>6, <3>1, <3>2 DEF Prints
      <3>5. Closest(mem[r].plan[c], Current)
        BY <1>3, <1>4, <1>6, <3>3, <3>4, FixedCostsAssumption DEF Fresh
      <3>6. QED
        BY <3>1, <3>2, <3>4, <3>5 DEF Closest
    <2>9. QED
      BY <2>4, <2>5, <2>6, <2>7, <2>8, <1>2 DEF Fresh, RowsOf
  <1>7. QED
    BY <1>5, <1>6

LEMMA ChoosingEmail ==
    ASSUME Typed, Story, disturbed = {}, Fresh, NEW r \in Runs,
           \/ RenderFinalPayload(r) \/ SmtpDone(r) \/ HandleResult(r)
           \/ \E i \in mem[r].outbox :
                 SmtpAccepts(r, i) \/ SmtpRefuses(r, i) \/ SmtpAnswerLost(r, i)
    PROVE  Fresh'
  <1>1. OnlySteps(r) /\ SameSubjects /\ at'[r] \in {"email_delivery", "END"}
    BY EmailEffect
  <1>2. matched' = matched /\ at[r] = "email_delivery"
    BY DEF RenderFinalPayload, SmtpDone, HandleResult, SmtpAccepts, SmtpRefuses, SmtpAnswerLost,
           Sending, At, db
  <1>3. QED
    BY <1>1, <1>2, ChoosingMove DEF PastMatch, Planned, Prints

LEMMA ChoosingRun ==
    ASSUME Typed, Story, Fresh, disturbed = {}, disturbed' = {},
           \/ \E s \in Statements : Arrive(s)
           \/ \E r \in Runs : Trigger(r) \/ Resume(r) \/ Finish(r) \/ SaveCheckpoint(r)
    PROVE  Fresh'
  <1> USE DEF db, faults, At
  <1>1. reports' = reports /\ matched' = matched /\ at' = at /\ step' = step /\ mem' = mem
    BY DEF Arrive, Trigger, Resume, Executes, Finish, SaveCheckpoint
  <1>2. \A s : NoReportOf(s)' = NoReportOf(s)
    BY <1>1 DEF NoReportOf
  <1>3. \A i \in DOMAIN reports : ShowsClosest(i)'
    BY <1>1 DEF Fresh, ShowsClosest, RowsOf
  <1>4. \A q \in Runs : mode[q] \notin {"stopped", "overtaken"}
    BY DEF Story, Chapter
  <1>5. CASE \E s \in Statements : Arrive(s)
    <2>1. Running = {} /\ mode' = Overtaken
      BY <1>5 DEF Arrive
    <2>2. \A q \in Runs : mode[q] # "running" /\ mode'[q] # "running"
      BY <2>1 DEF Running, Overtaken
    <2>3. \A q \in Runs : ~PastMatch(q) /\ ~PastMatch(q)' /\ Planned(q)' /\ Prints(q)'
      BY <2>2 DEF PastMatch, Planned, Prints
    <2>4. QED
      BY <1>1, <1>2, <1>3, <2>3 DEF Fresh, RowsOf
  <1>6. ASSUME NEW r \in Runs, Trigger(r) \/ Resume(r) \/ Finish(r) \/ SaveCheckpoint(r)
        PROVE  Fresh'
    <2>1. processed' = processed
      BY <1>6 DEF Trigger, Resume, Executes, Finish, SaveCheckpoint
    <2>0. Current' = Current /\ OpenNow' = OpenNow
      BY <1>1, <2>1, CurrentStays DEF OpenNow, Open, RowsOf
    <2>2. \A q \in Runs \ {r} : mode'[q] = mode[q]
      <3>1. CASE Trigger(r) \/ Resume(r)
        BY <1>4, <3>1, Executing DEF Moves, Stands
      <3>2. CASE Finish(r) \/ SaveCheckpoint(r)
        BY <3>2 DEF Finish, SaveCheckpoint, Typed, TypeOK
      <3>3. QED
        BY <1>6, <3>1, <3>2
    <2>3. PastMatch(r)' = PastMatch(r) /\ (Planned(r) /\ Prints(r) => Planned(r)' /\ Prints(r)')
      <3>1. CASE Trigger(r) \/ Resume(r)
        <4>1. mode[r] # "running" /\ at[r] = "fixed_costs_reconciliation" /\ step[r] = "enter"
          BY <1>4, <3>1 DEF Trigger, Resume, Story, Chapter
        <4>2. QED
          BY <1>1, <4>1 DEF PastMatch, Planned, Prints
      <3>2. CASE Finish(r)
        BY <1>1, <3>2 DEF Finish, PastMatch, Planned, Prints
      <3>3. CASE SaveCheckpoint(r)
        BY <1>1, <2>0, <3>3 DEF SaveCheckpoint, PastMatch, Planned, Prints, RowsOf
      <3>4. QED
        BY <1>6, <3>1, <3>2, <3>3
    <2>4. \A q \in Runs : PastMatch(q)' = PastMatch(q)
      BY <1>1, <2>2, <2>3 DEF PastMatch
    <2>5. \A q \in Runs : Planned(q)' /\ Prints(q)'
      BY <1>1, <2>0, <2>2, <2>3 DEF Fresh, Planned, Prints, RowsOf
    <2>6. \A u : Closest(u, Current)' = Closest(u, Current)
      BY <1>1, <2>0 DEF Closest, RowsOf
    <2>7. QED
      BY <1>1, <1>2, <1>3, <2>0, <2>4, <2>5, <2>6 DEF Fresh, RowsOf
  <1>7. QED
    BY <1>5, <1>6

LEMMA ChoosingNext ==
    Typed /\ Story /\ Choosing /\ [Next]_vars => Choosing'
  <1> SUFFICES ASSUME Typed, Story, Choosing, [Next]_vars, disturbed' = {} PROVE Fresh'
    BY DEF Choosing
  <1>1. disturbed = {} /\ Fresh
    BY Worsens DEF Choosing
  <1>2. CASE UNCHANGED vars
    <2> USE <1>2 DEF vars
    <2>1. Current' = Current /\ OpenNow' = OpenNow
      BY CurrentStays DEF OpenNow, Open, RowsOf
    <2>2. /\ \A s : NoReportOf(s)' = NoReportOf(s)
          /\ \A q \in Runs : /\ PastMatch(q)' = PastMatch(q) /\ Planned(q)' = Planned(q)
                            /\ Prints(q)' = Prints(q)
          /\ \A u : Closest(u, Current)' = Closest(u, Current)
          /\ \A i \in DOMAIN reports : ShowsClosest(i)' = ShowsClosest(i)
      BY <2>1 DEF NoReportOf, PastMatch, Planned, Prints, Closest, ShowsClosest, RowsOf
    <2>3. QED
      BY <1>1, <2>1, <2>2 DEF Fresh, RowsOf
  <1>3. ASSUME NEW r \in Runs, NodeStep(r) PROVE Fresh'
    <2>1. CASE LoadFixedCosts(r) \/ MatchTransactions(r) \/ PersistReconciliation(r)
      BY <1>1, <2>1, ChoosingPlan, ChoosingReconciliation
    <2>2. CASE Finish(r)
      BY <1>1, <2>2, ChoosingRun
    <2>3. CASE PersistReport(r)
      BY <1>1, <2>3, ChoosingReport
    <2>4. CASE \/ AggregateIncomeExpense(r) \/ ApplyFixedCostsStatus(r)
               \/ UpsertCashflowSummary(r)
               \/ CheckSafetyBuffer(r) \/ AssessTrend(r) \/ PersistRecommendation(r)
               \/ DetermineReportTypes(r) \/ RenderReports(r)
      BY <1>1, <2>4, ChoosingBetween
    <2>5. CASE \/ RenderFinalPayload(r) \/ SmtpDone(r) \/ HandleResult(r)
               \/ \E i \in mem[r].outbox :
                     SmtpAccepts(r, i) \/ SmtpRefuses(r, i) \/ SmtpAnswerLost(r, i)
      BY <1>1, <2>5, ChoosingEmail
    <2>6. ~ReturnsStored(r)
      BY <1>1 DEF ReturnsStored, Story, Chapter
    <2>7. QED
      BY <1>3, <2>1, <2>2, <2>3, <2>4, <2>5, <2>6 DEF NodeStep
  <1>4. ~Crash /\ ~\E r \in Runs : NodeFails(r)
    BY Stops DEF Stopping, CutOff
  <1>6. CASE Next
    BY <1>1, <1>3, <1>4, <1>6, ChoosingRun DEF Next
  <1>7. QED
    BY <1>2, <1>6

\* For every set of costs and transactions, any order of the costs and any choice among
\* equals: as long as runs execute one after the other, the first report on a statement
\* shows for a cost the closest transaction of its category that settles no other cost.
THEOREM ClosestShown == Spec => []ClosestIsShown
  <1>1. Init => Story /\ Attaching /\ Choosing
    BY DEF Init, Story, NoSettings, Chapter, Early, Running, Attaching, ShownIsAttached, Blank,
           Choosing, Fresh, RowsOf, PastMatch, Planned, Prints
  <1>2. Choosing => ClosestIsShown
    BY DEF Choosing, Fresh, ShowsClosest, ClosestIsShown
  <1>3. QED
    BY <1>1, <1>2, TypedInvariant, AttachingNext, StoryNext, ChoosingNext, PTL DEF Spec

-----------------------------------------------------------------------------
(***************************************************************************)
(* Recommended amounts, and how they are divided.                          *)
(***************************************************************************)

\* The amount a row gets is covered by surplus and balance of its statement.
Covers(amount, s) ==
    /\ amount >= 0
    /\ amount > 0 => amount <= Surplus[s] /\ amount + SafetyBuffer <= Closing[s]

\* An average below the investable amount does not round to more than it.
LEMMA RoundedAverage ==
    ASSUME NEW amount \in Nat, NEW total \in Nat, NEW n \in 1..3, total < n * amount
    PROVE  RoundHalfUp(total, n) \in 0..amount
  <1>1. CASE n = 1
    BY <1>1 DEF RoundHalfUp
  <1>2. CASE n = 2
    BY <1>2 DEF RoundHalfUp
  <1>3. CASE n = 3
    BY <1>3 DEF RoundHalfUp
  <1>4. QED
    BY <1>1, <1>2, <1>3

\* Whatever the statements before were: a proposal is covered as it is rounded.
LEMMA ProposalCovers ==
    ASSUME NEW s \in Statements, NEW total \in Int, NEW n \in 0..3
    PROVE  LET p == Proposal(Surplus[s], Closing[s], total, n)
           IN /\ Covers(RoundHalfUp(p.num, p.den), s)
              /\ \E k \in Nat, d \in 1..3 : p = [num |-> k, den |-> d]
  <1> DEFINE amount == Investable(Surplus[s], Closing[s])
             p == Proposal(Surplus[s], Closing[s], total, n)
  <1>1. Surplus[s] \in Int /\ Closing[s] \in Int /\ SafetyBuffer \in Nat
    BY TablesAssumption, SettingsAssumption
  <1>2. amount \in Nat /\ Covers(amount, s)
    BY <1>1 DEF Investable, Smaller, Larger, Covers
  <1>3. \/ p = [num |-> amount, den |-> 1]
        \/ /\ p = [num |-> total, den |-> n]
           /\ n \in 1..3 /\ total > 0 /\ total < n * amount
    BY DEF Proposal, IsAnomaly
  <1> HIDE DEF amount, p
  <1>4. CASE p = [num |-> amount, den |-> 1]
    <2>1. RoundHalfUp(p.num, p.den) = amount
      BY <1>2, <1>4 DEF RoundHalfUp
    <2>2. QED
      BY <1>2, <1>4, <2>1 DEF p
  <1>5. CASE p = [num |-> total, den |-> n] /\ n \in 1..3 /\ total > 0 /\ total < n * amount
    <2>1. RoundHalfUp(p.num, p.den) \in 0..amount
      BY <1>2, <1>5, RoundedAverage
    <2>2. Covers(RoundHalfUp(p.num, p.den), s)
      BY <1>1, <1>2, <2>1 DEF Covers
    <2>3. QED
      BY <1>5, <2>2 DEF p
  <1>6. QED
    BY <1>3, <1>4, <1>5

\* By what a proposal is divided for a part of it.
Denominators == {1, 2, 3, 4, 6, 9, 1000, 2000, 3000}

\* Rounding moves a part by half a grosz at most.
LEMMA HalfEvenError ==
    ASSUME NEW num \in Int, NEW den \in Denominators
    PROVE  /\ RoundHalfEven(num, den) \in Int
           /\ 2 * (den * RoundHalfEven(num, den)) - 2 * num \in (0 - den)..den
  <1> USE DEF Denominators
  <1> DEFINE q == num \div den
             r == num % den
  <1>1. q \in Int /\ r \in 0..(den - 1) /\ num = den * q + r
    OBVIOUS
  <1>2. RoundHalfEven(num, den) \in {q, q + 1}
        /\ (RoundHalfEven(num, den) = q => 2 * r <= den)
        /\ (RoundHalfEven(num, den) = q + 1 => 2 * r >= den)
    BY <1>1 DEF RoundHalfEven
  <1> HIDE DEF q, r
  <1>3. CASE RoundHalfEven(num, den) = q
    BY <1>1, <1>2, <1>3
  <1>4. CASE RoundHalfEven(num, den) = q + 1
    BY <1>1, <1>2, <1>4
  <1>5. QED
    BY <1>2, <1>3, <1>4

LEMMA NothingOfNothing == \A den \in Denominators : RoundHalfEven(0, den) = 0
  BY DEF RoundHalfEven, Denominators

\* So does the column of the amount.
LEMMA HalfUpError ==
    ASSUME NEW num \in Nat, NEW den \in 1..3
    PROVE  /\ RoundHalfUp(num, den) \in Nat
           /\ 2 * (den * RoundHalfUp(num, den)) - 2 * num \in (0 - den)..den
  <1>1. CASE den = 1
    BY <1>1 DEF RoundHalfUp
  <1>2. CASE den = 2
    BY <1>2 DEF RoundHalfUp
  <1>3. CASE den = 3
    BY <1>3 DEF RoundHalfUp
  <1>4. QED
    BY <1>1, <1>2, <1>3

\* AllocationAddsUp, of one row.
AddsUp(amount, parts) ==
    LET gap == SumOf(parts) - amount
    IN /\ 200 * Abs(gap) <= amount + 400
       /\ \A i \in INSTRUMENT_KEYS \ Instruments : parts[i] = 0

\* The model's percentages may be half a percent off, and three parts and the amount
\* are rounded.
LEMMA DividedAddsUp ==
    ASSUME NEW num \in Nat, NEW den \in 1..3, NEW a \in Answers, Accepted(a)
    PROVE  AddsUp(RoundHalfUp(num, den), Divided([num |-> num, den |-> den], a))
  <1> DEFINE x == Allowed(a)["etf"]
             y == Allowed(a)["term_deposit"]
             z == Allowed(a)["savings_account"]
             w == 1000 * den
             P == RoundHalfEven(num * x, w)
             Q == RoundHalfEven(num * y, w)
             R == RoundHalfEven(num * z, w)
             amount == RoundHalfUp(num, den)
             parts == Divided([num |-> num, den |-> den], a)
  <1>1. x \in Int /\ y \in Int /\ z \in Int
    BY TablesAssumption DEF Allowed, INSTRUMENT_KEYS
  <1>2. x + y + z \in 995..1005
    <2>1. SumOf(Allowed(a)) = x + y + z
      BY DEF SumOf
    <2> HIDE DEF x, y, z
    <2>2. QED
      BY <1>1, <2>1 DEF Accepted
  <1>3. /\ parts["etf"] = P /\ parts["term_deposit"] = Q /\ parts["savings_account"] = R
        /\ SumOf(parts) = P + Q + R
    BY DEF Divided, INSTRUMENT_KEYS, SumOf
  <1>4. ASSUME NEW i \in INSTRUMENT_KEYS \ Instruments PROVE parts[i] = 0
    <2>1. num * Allowed(a)[i] = 0
      BY DEF Allowed
    <2>2. RoundHalfEven(0, den * 1000) = 0
      BY NothingOfNothing DEF Denominators
    <2>3. parts[i] = RoundHalfEven(num * Allowed(a)[i], den * 1000)
      BY DEF Divided
    <2>4. QED
      BY <2>1, <2>2, <2>3
  <1> HIDE DEF x, y, z, parts
  <1>5. /\ num * x \in Int /\ num * y \in Int /\ num * z \in Int
        /\ num * x + num * y + num * z = num * (x + y + z)
    BY <1>1
  <1>6. num * (x + y + z) \in (995 * num)..(1005 * num)
    <2> DEFINE A == x + y + z
    <2>1. A \in 995..1005
      BY <1>2
    <2> HIDE DEF A
    <2>2. num * A \in (995 * num)..(1005 * num)
      BY <2>1
    <2>3. QED
      BY <2>2 DEF A
  <1>7. w \in Denominators /\ w \in Int
    BY DEF Denominators
  <1>8. /\ P \in Int /\ 2 * (w * P) - 2 * (num * x) \in (0 - w)..w
        /\ Q \in Int /\ 2 * (w * Q) - 2 * (num * y) \in (0 - w)..w
        /\ R \in Int /\ 2 * (w * R) - 2 * (num * z) \in (0 - w)..w
    <2> HIDE DEF w
    <2>1. ASSUME NEW k \in Int
          PROVE  RoundHalfEven(k, w) \in Int /\ 2 * (w * RoundHalfEven(k, w)) - 2 * k \in (0 - w)..w
      BY <1>7, HalfEvenError, Zenon
    <2>2. QED
      BY <1>5, <2>1, Zenon
  <1>9. amount \in Nat /\ 2 * (den * amount) - 2 * num \in (0 - den)..den
    BY HalfUpError
  <1> DEFINE X == num * x
             Y == num * y
             Z == num * z
  <1>10. X \in Int /\ Y \in Int /\ Z \in Int /\ X + Y + Z \in (995 * num)..(1005 * num)
    BY <1>5, <1>6
  <1>11. 200 * Abs(P + Q + R - amount) <= amount + 400
    <2>1. /\ P \in Int /\ 2 * (w * P) - 2 * X \in (0 - w)..w
          /\ Q \in Int /\ 2 * (w * Q) - 2 * Y \in (0 - w)..w
          /\ R \in Int /\ 2 * (w * R) - 2 * Z \in (0 - w)..w
      BY <1>8
    <2>2. w = 1000 * den
      OBVIOUS
    <2> HIDE DEF P, Q, R, X, Y, Z, amount, w
    <2> DEFINE S == P + Q + R
               T == X + Y + Z
    <2>3. S \in Int /\ T \in Int /\ 995 * num <= T /\ T <= 1005 * num
      BY <1>10, <2>1
    <2>4. CASE den = 1
      <3>1. /\ 2000 * P - 2 * X <= 1000 /\ 2 * X - 2000 * P <= 1000
            /\ 2000 * Q - 2 * Y <= 1000 /\ 2 * Y - 2000 * Q <= 1000
            /\ 2000 * R - 2 * Z <= 1000 /\ 2 * Z - 2000 * R <= 1000
        BY <1>10, <2>1, <2>2, <2>4
      <3>2. 2 * amount - 2 * num <= 1 /\ 2 * num - 2 * amount <= 1
        BY <1>9, <2>4
      <3>3. 2000 * S - 2 * T <= 3000 /\ 2 * T - 2000 * S <= 3000
        BY <1>10, <2>1, <3>1
      <3> HIDE DEF S, T
      <3>4. 200 * (S - amount) <= amount + 400 /\ 200 * (amount - S) <= amount + 400
        BY <1>9, <2>3, <3>2, <3>3
      <3>5. 200 * Abs(S - amount) <= amount + 400
        BY <1>9, <2>3, <3>4 DEF Abs
      <3>6. QED
        BY <1>9, <2>1, <3>5 DEF S
    <2>5. CASE den = 2
      <3>1. /\ 4000 * P - 2 * X <= 2000 /\ 2 * X - 4000 * P <= 2000
            /\ 4000 * Q - 2 * Y <= 2000 /\ 2 * Y - 4000 * Q <= 2000
            /\ 4000 * R - 2 * Z <= 2000 /\ 2 * Z - 4000 * R <= 2000
        BY <1>10, <2>1, <2>2, <2>5
      <3>2. 4 * amount - 2 * num <= 2 /\ 2 * num - 4 * amount <= 2
        BY <1>9, <2>5
      <3>3. 4000 * S - 2 * T <= 6000 /\ 2 * T - 4000 * S <= 6000
        BY <1>10, <2>1, <3>1
      <3> HIDE DEF S, T
      <3>4. 200 * (S - amount) <= amount + 400 /\ 200 * (amount - S) <= amount + 400
        BY <1>9, <2>3, <3>2, <3>3
      <3>5. 200 * Abs(S - amount) <= amount + 400
        BY <1>9, <2>3, <3>4 DEF Abs
      <3>6. QED
        BY <1>9, <2>1, <3>5 DEF S
    <2>6. CASE den = 3
      <3>1. /\ 6000 * P - 2 * X <= 3000 /\ 2 * X - 6000 * P <= 3000
            /\ 6000 * Q - 2 * Y <= 3000 /\ 2 * Y - 6000 * Q <= 3000
            /\ 6000 * R - 2 * Z <= 3000 /\ 2 * Z - 6000 * R <= 3000
        BY <1>10, <2>1, <2>2, <2>6
      <3>2. 6 * amount - 2 * num <= 3 /\ 2 * num - 6 * amount <= 3
        BY <1>9, <2>6
      <3>3. 6000 * S - 2 * T <= 9000 /\ 2 * T - 6000 * S <= 9000
        BY <1>10, <2>1, <3>1
      <3> HIDE DEF S, T
      <3>4. 200 * (S - amount) <= amount + 400 /\ 200 * (amount - S) <= amount + 400
        BY <1>9, <2>3, <3>2, <3>3
      <3>5. 200 * Abs(S - amount) <= amount + 400
        BY <1>9, <2>3, <3>4 DEF Abs
      <3>6. QED
        BY <1>9, <2>1, <3>5 DEF S
    <2>7. QED
      BY <2>4, <2>5, <2>6
  <1> HIDE DEF P, Q, R, amount
  <1>12. SumOf(parts) - amount = P + Q + R - amount
    BY <1>3, <1>8, <1>9
  <1>13. 200 * Abs(SumOf(parts) - amount) <= amount + 400
    BY <1>11, <1>12
  <1>14. QED
    BY <1>4, <1>13 DEF AddsUp, parts, amount

LEMMA EqualSplitAddsUp ==
    ASSUME NEW num \in Nat, NEW den \in 1..3
    PROVE  AddsUp(RoundHalfUp(num, den), EqualSplit([num |-> num, den |-> den]))
  <1> DEFINE n == CountOf(Instruments)
             w == den * n
             Q == RoundHalfEven(num, w)
             amount == RoundHalfUp(num, den)
             parts == EqualSplit([num |-> num, den |-> den])
  <1>1. n \in 1..3
    BY CountOfInstruments
  <1>2. \A i \in INSTRUMENT_KEYS : parts[i] = IF i \in Instruments THEN Q ELSE 0
    BY DEF EqualSplit
  <1> HIDE DEF n, parts
  <1>3. w \in Denominators
    BY <1>1 DEF Denominators
  <1>4. Q \in Int /\ 2 * (w * Q) - 2 * num \in (0 - w)..w
    <2> HIDE DEF w
    <2>1. num \in Int
      OBVIOUS
    <2>2. QED
      BY <1>3, <2>1, HalfEvenError, Zenon
  <1>5. amount \in Nat /\ 2 * (den * amount) - 2 * num \in (0 - den)..den
    BY HalfUpError
  <1>6. SumOf(parts) = n * Q
    <2>1. /\ parts["etf"] = IF "etf" \in Instruments THEN Q ELSE 0
          /\ parts["term_deposit"] = IF "term_deposit" \in Instruments THEN Q ELSE 0
          /\ parts["savings_account"] = IF "savings_account" \in Instruments THEN Q ELSE 0
      BY <1>2 DEF INSTRUMENT_KEYS
    <2> HIDE DEF Q
    <2>2. QED
      BY <1>4, <2>1 DEF SumOf, CountOf, n
  <1> HIDE DEF Q, amount
  <1>7. 200 * Abs(n * Q - amount) <= amount + 400
    <2>1. CASE n = 1
      BY <1>4, <1>5, <2>1 DEF Abs
    <2>2. CASE n = 2
      BY <1>4, <1>5, <2>2 DEF Abs
    <2>3. CASE n = 3
      BY <1>4, <1>5, <2>3 DEF Abs
    <2>4. QED
      BY <1>1, <2>1, <2>2, <2>3
  <1>8. QED
    BY <1>2, <1>6, <1>7 DEF AddsUp, parts, amount

\* A proposal in hand is covered, and not negative.
Sound(m) ==
    m.offer # None =>
        /\ Covers(RoundHalfUp(m.offer.num, m.offer.den), m.current)
        /\ \E num \in Nat, den \in 1..3 : m.offer = [num |-> num, den |-> den]

Proposing ==
    /\ ProposalCovered
    /\ AllocationAddsUp
    /\ \A r \in Runs : Sound(mem[r])

\* What these properties read of the table stays the same.
SameAmounts ==
    /\ DOMAIN recs' = DOMAIN recs
    /\ \A k \in DOMAIN recs : /\ recs'[k].of = recs[k].of
                              /\ recs'[k].amount = recs[k].amount
                              /\ recs'[k].parts = recs[k].parts

LEMMA ProposingMove ==
    ASSUME Typed, Proposing, SameAmounts, NEW r \in Runs, NEW m, mem' = [mem EXCEPT ![r] = m],
           Sound(m)
    PROVE  Proposing'
  <1>1. ProposalCovered' /\ AllocationAddsUp'
    BY DEF Proposing, ProposalCovered, AllocationAddsUp, SameAmounts
  <1>2. \A q \in Runs : Sound(mem'[q])
    BY DEF Proposing, Typed, TypeOK
  <1>3. QED
    BY <1>1, <1>2 DEF Proposing, Sound, Covers, AddsUp

LEMMA ProposingQuiet ==
    ASSUME Typed, Proposing, SameAmounts,
           \A r \in Runs :
              \/ mem'[r].offer = None
              \/ mem'[r].offer = mem[r].offer /\ mem'[r].current = mem[r].current
    PROVE  Proposing'
  <1>1. ProposalCovered' /\ AllocationAddsUp'
    BY DEF Proposing, ProposalCovered, AllocationAddsUp, SameAmounts
  <1>2. \A r \in Runs : Sound(mem'[r])
    BY DEF Proposing, Sound
  <1>3. QED
    BY <1>1, <1>2 DEF Proposing, Sound, Covers, AddsUp

LEMMA ProposingTrend ==
    ASSUME Typed, Proposing, NEW r \in Runs, AssessTrend(r) PROVE Proposing'
  <1>1. mem[r] \in Mem
    BY DEF Typed, TypeOK
  <1>2. SameAmounts
    BY DEF AssessTrend, db, SameAmounts
  <1>3. CASE mem[r].current = None
    BY <1>2, <1>3, ProposingQuiet DEF AssessTrend, Goes, Typed, TypeOK
  <1>4. CASE mem[r].current # None
    <2> DEFINE s == mem[r].current
               p == Proposal(Surplus[s], Closing[s], Total, Periods)
    <2>1. Covers(RoundHalfUp(p.num, p.den), s)
          /\ \E num \in Nat, den \in 1..3 : p = [num |-> num, den |-> den]
      <3>1. Total \in Int /\ Periods \in 0..3
        BY TrendType DEF Typed
      <3>2. s \in Statements
        BY <1>1, <1>4 DEF Mem
      <3>3. QED
        BY <3>1, <3>2, ProposalCovers
    <2> HIDE DEF p
    <2> DEFINE m == [mem[r] EXCEPT !.offer = p]
    <2>2. Goes(r, "judged", m)
      BY <1>4 DEF AssessTrend, p
    <2>3. m.offer = p /\ m.current = s
      BY <1>1 DEF Mem
    <2> HIDE DEF m
    <2>4. mem' = [mem EXCEPT ![r] = m]
      BY <2>2 DEF Goes
    <2>5. Sound(m)
      BY <2>1, <2>3 DEF Sound
    <2>6. QED
      BY <1>2, <2>4, <2>5, ProposingMove
  <1>5. QED
    BY <1>3, <1>4

LEMMA ProposingRecommendation ==
    ASSUME Typed, Proposing, NEW r \in Runs, PersistRecommendation(r) PROVE Proposing'
  <1>1. mem' = [mem EXCEPT ![r] = Blank] /\ Blank.offer = None
    BY DEF PersistRecommendation, Leaves, Blank
  <1>2. CASE recs' = recs
    BY <1>1, <1>2, ProposingMove DEF SameAmounts, Sound
  <1>3. ASSUME NEW row, Covers(row.amount, row.of), AddsUp(row.amount, row.parts),
               recs' = Append(recs, row)
        PROVE  Proposing'
    <2>1. Len(recs) \in Nat /\ DOMAIN recs = 1..Len(recs)
      BY LenProperties DEF Typed, TypeOK
    <2>2. /\ DOMAIN recs' = 1..(Len(recs) + 1)
          /\ \A k \in DOMAIN recs : recs'[k] = recs[k]
          /\ recs'[Len(recs) + 1] = row
      BY <1>3, <2>1 DEF Typed, TypeOK
    <2>3. \A k \in DOMAIN recs' : k \in DOMAIN recs \/ recs'[k] = row
      BY <2>1, <2>2
    <2>4. ProposalCovered'
      BY <1>3, <2>2, <2>3 DEF Proposing, ProposalCovered, Covers
    <2>5. AllocationAddsUp'
      BY <1>3, <2>2, <2>3 DEF Proposing, AllocationAddsUp, AddsUp
    <2>6. \A q \in Runs : Sound(mem'[q])
      BY <1>1 DEF Proposing, Sound, Typed, TypeOK
    <2>7. QED
      BY <2>4, <2>5, <2>6 DEF Proposing, Sound, Covers, AddsUp
  <1>4. CASE mem[r].offer # None
    <2> DEFINE p == mem[r].offer
               Row(parts) == [by |-> r, of |-> mem[r].current,
                              amount |-> RoundHalfUp(p.num, p.den),
                              parts |-> parts, report |-> 0]
    <2>1. PICK parts \in Allocations(p) : recs' = Append(recs, Row(parts))
      BY <1>4 DEF PersistRecommendation
    <2>2. Covers(RoundHalfUp(p.num, p.den), mem[r].current)
          /\ \E num \in Nat, den \in 1..3 : p = [num |-> num, den |-> den]
      BY <1>4 DEF Proposing, Sound
    <2> HIDE DEF p
    <2>3. AddsUp(RoundHalfUp(p.num, p.den), parts)
      <3>1. PICK num \in Nat, den \in 1..3 : p = [num |-> num, den |-> den]
        BY <2>2
      <3>2. p.num = num /\ p.den = den
        BY <3>1
      <3>3. QED
        BY <2>1, <3>1, <3>2, DividedAddsUp, EqualSplitAddsUp DEF Allocations
    <2> DEFINE row == Row(parts)
    <2>4. Covers(row.amount, row.of) /\ AddsUp(row.amount, row.parts)
      BY <2>2, <2>3
    <2>5. recs' = Append(recs, row)
      BY <2>1
    <2> HIDE DEF row
    <2>6. QED
      BY <1>3, <2>4, <2>5
  <1>5. QED
    BY <1>2, <1>4 DEF PersistRecommendation

LEMMA ProposingReport ==
    ASSUME Typed, Proposing, NEW r \in Runs, PersistReport(r) PROVE Proposing'
  <1>1. mem[r] \in Mem /\ Tables
    BY DEF Typed, TypeOK, Tables
  <1>2. mem' = [mem EXCEPT ![r] = Blank] /\ Blank.offer = None
    BY DEF PersistReport, Leaves, Blank
  <1>3. SameAmounts
    <2>1. CASE mem[r].covers = None
      BY <2>1 DEF PersistReport, SameAmounts
    <2>2. CASE mem[r].covers # None
      <3>1. recs' = Attached(r) /\ DOMAIN recs' = DOMAIN recs
        BY <1>1, <2>2, PersistReportEffect
      <3>2. \A k \in DOMAIN recs : recs[k] \in Recommendations
        BY <1>1, ElementOfSeq, LenProperties DEF Tables
      <3>3. QED
        BY <3>1, <3>2 DEF Attached, Recommendations, SameAmounts
    <2>3. QED
      BY <2>1, <2>2
  <1>4. QED
    BY <1>2, <1>3, ProposingMove DEF Sound

\* Offers are made by assess_trend only.
LEMMA ProposingNode ==
    ASSUME Typed, Proposing, NEW r \in Runs,
           \/ LoadFixedCosts(r) \/ MatchTransactions(r) \/ PersistReconciliation(r)
           \/ AggregateIncomeExpense(r) \/ ApplyFixedCostsStatus(r)
           \/ UpsertCashflowSummary(r) \/ CheckSafetyBuffer(r)
           \/ DetermineReportTypes(r) \/ RenderReports(r)
           \/ RenderFinalPayload(r) \/ SmtpDone(r) \/ HandleResult(r) \/ ReturnsStored(r)
    PROVE  Proposing'
  <1>1. mem[r] \in Mem /\ Blank.offer = None
    BY DEF Typed, TypeOK, Blank
  <1>2. SameAmounts
    BY DEF LoadFixedCosts, MatchTransactions, PersistReconciliation, AggregateIncomeExpense,
           ApplyFixedCostsStatus, UpsertCashflowSummary, CheckSafetyBuffer,
           DetermineReportTypes, RenderReports, RenderFinalPayload, SmtpDone, HandleResult,
           ReturnsStored, db, SameAmounts
  <1>3. CASE MatchTransactions(r) \/ ApplyFixedCostsStatus(r)
    <2>1. PICK plan : Goes(r, "judged", [mem[r] EXCEPT !.plan = plan])
      BY <1>3 DEF MatchTransactions, ApplyFixedCostsStatus
    <2>2. [mem[r] EXCEPT !.plan = plan].offer = mem[r].offer
          /\ [mem[r] EXCEPT !.plan = plan].current = mem[r].current
      BY <1>1 DEF Mem
    <2>3. QED
      BY <1>2, <2>1, <2>2, ProposingQuiet DEF Goes, Typed, TypeOK
  <1>4. CASE RenderReports(r) \/ SmtpDone(r)
    <2>1. CASE Goes(r, "judged", mem[r])
      BY <1>2, <2>1, ProposingQuiet DEF Goes, Typed, TypeOK
    <2>2. CASE ~Goes(r, "judged", mem[r])
      <3>1. PICK paid : Goes(r, "judged", [mem[r] EXCEPT !.covers = Current, !.plan = paid,
                                                         !.rec = LatestUnattached])
        BY <1>4, <2>2 DEF RenderReports, SmtpDone
      <3> DEFINE m == [mem[r] EXCEPT !.covers = Current, !.plan = paid,
                                     !.rec = LatestUnattached]
      <3>2. m.offer = mem[r].offer /\ m.current = mem[r].current
        BY <1>1 DEF Mem
      <3> HIDE DEF m
      <3>3. mem' = [mem EXCEPT ![r] = m]
        BY <3>1 DEF Goes, m
      <3>4. QED
        BY <1>2, <3>2, <3>3, ProposingQuiet DEF Typed, TypeOK
    <2>3. QED
      BY <2>1, <2>2
  <1>5. CASE \/ LoadFixedCosts(r) \/ PersistReconciliation(r) \/ AggregateIncomeExpense(r)
             \/ UpsertCashflowSummary(r) \/ CheckSafetyBuffer(r) \/ DetermineReportTypes(r)
             \/ RenderFinalPayload(r) \/ HandleResult(r) \/ ReturnsStored(r)
    <2>1. \E m : mem' = [mem EXCEPT ![r] = m] /\ m.offer = None
      BY <1>5 DEF LoadFixedCosts, PersistReconciliation, AggregateIncomeExpense,
                  UpsertCashflowSummary, CheckSafetyBuffer, DetermineReportTypes,
                  RenderFinalPayload, HandleResult, ReturnsStored, Goes, Leaves, Blank
    <2>2. QED
      BY <1>2, <2>1, ProposingMove DEF Sound
  <1>6. QED
    BY <1>3, <1>4, <1>5

LEMMA ProposingMail ==
    ASSUME Typed, Proposing, NEW r \in Runs, NEW i \in mem[r].outbox,
           SmtpAccepts(r, i) \/ SmtpRefuses(r, i) \/ SmtpAnswerLost(r, i)
    PROVE  Proposing'
  <1>1. mem[r] \in Mem
    BY DEF Typed, TypeOK
  <1>2. SameAmounts
    BY DEF SmtpAccepts, SmtpRefuses, SmtpAnswerLost, db, SameAmounts
  <1>3. \E m : /\ mem' = [mem EXCEPT ![r] = m]
               /\ m.offer = mem[r].offer /\ m.current = mem[r].current
    <2>1. CASE SmtpAccepts(r, i)
      <3> DEFINE m == [mem[r] EXCEPT !.tries = 0, !.outbox = @ \ {i}, !.sent = @ \cup {i}]
      <3>1. m.offer = mem[r].offer /\ m.current = mem[r].current
        BY <1>1 DEF Mem
      <3> HIDE DEF m
      <3>2. mem' = [mem EXCEPT ![r] = m]
        BY <2>1 DEF SmtpAccepts, Goes, m
      <3>3. QED
        BY <3>1, <3>2
    <2>2. CASE SmtpRefuses(r, i) \/ SmtpAnswerLost(r, i)
      BY <1>1, <2>2, FailsType DEF SmtpRefuses, SmtpAnswerLost, Goes
    <2>3. QED
      BY <2>1, <2>2
  <1>4. QED
    BY <1>2, <1>3, ProposingQuiet DEF Typed, TypeOK

LEMMA ProposingRun ==
    ASSUME Typed, Proposing,
           \/ \E s \in Statements : Arrive(s)
           \/ \E r \in Runs : Trigger(r) \/ Resume(r) \/ Finish(r) \/ SaveCheckpoint(r)
    PROVE  Proposing'
  <1>1. recs' = recs /\ mem' = mem
    BY DEF Arrive, Trigger, Resume, Executes, Finish, SaveCheckpoint, db
  <1>2. SameAmounts
    BY <1>1 DEF SameAmounts
  <1>3. QED
    BY <1>1, <1>2, ProposingQuiet

\* A proposal that a checkpoint has kept is stored as it is.
LEMMA ProposingStop ==
    ASSUME Typed, Proposing, Stopping PROVE Proposing'
  <1>1. SameAmounts
    BY DEF Stopping, db, SameAmounts
  <1>2. ASSUME NEW q \in Runs
        PROVE  \/ mem'[q].offer = None
               \/ mem'[q].offer = mem[q].offer /\ mem'[q].current = mem[q].current
    <2>1. Blank.offer = None /\ MemAt(mem[q], "read").offer = None
      BY DEF Blank, MemAt
    <2>2. Untouched(q) \/ CutOff(q)
      BY DEF Stopping
    <2>3. QED
      BY <2>1, <2>2 DEF Untouched, CutOff
  <1>3. QED
    BY <1>1, <1>2, ProposingQuiet

LEMMA ProposingNext == Typed /\ Proposing /\ [Next]_vars => Proposing'
  <1> SUFFICES ASSUME Typed, Proposing, [Next]_vars PROVE Proposing'
    OBVIOUS
  <1>1. CASE UNCHANGED vars
    BY <1>1, ProposingQuiet DEF vars, SameAmounts
  <1>2. CASE Crash \/ \E r \in Runs : NodeFails(r)
    BY <1>2, Stops, ProposingStop
  <1>3. ASSUME NEW r \in Runs, NodeStep(r) PROVE Proposing'
    <2>1. CASE Finish(r)
      BY <2>1, ProposingRun
    <2>2. CASE ~Finish(r)
      BY <1>3, <2>2, ProposingNode, ProposingTrend, ProposingRecommendation, ProposingReport,
         ProposingMail DEF NodeStep
    <2>3. QED
      BY <2>1, <2>2
  <1>4. CASE Next
    BY <1>2, <1>3, <1>4, ProposingRun DEF Next
  <1>5. QED
    BY <1>1, <1>4

\* For every history of statements: a recommendation is covered by the surplus and, above
\* the buffer, by the balance of its statement, also where it is a rounded average.
THEOREM ProposalSafe == Spec => []ProposalCovered
  <1>1. Init => Proposing
    BY DEF Init, Proposing, ProposalCovered, AllocationAddsUp, Blank, Sound
  <1>2. Proposing => ProposalCovered
    BY DEF Proposing
  <1>3. QED
    BY <1>1, <1>2, TypedInvariant, ProposingNext, PTL DEF Spec

\* For every answer of the model that is accepted, and for the equal split: the parts of a
\* recommendation miss its amount by half a percent and two grosze at most.
THEOREM AllocationSafe == Spec => []AllocationAddsUp
  <1>1. Init => Proposing
    BY DEF Init, Proposing, ProposalCovered, AllocationAddsUp, Blank, Sound
  <1>2. Proposing => AllocationAddsUp
    BY DEF Proposing
  <1>3. QED
    BY <1>1, <1>2, TypedInvariant, ProposingNext, PTL DEF Spec

-----------------------------------------------------------------------------
(***************************************************************************)
(* Monthly reports.                                                        *)
(***************************************************************************)

\* If statements end every seventh day, exactly one of a month counts as its end, so a
\* month of weekly statements gets one monthly report.
THEOREM OneMonthEnd ==
    ASSUME NEW length \in 28..31, NEW first \in 1..7
    PROVE  \E k \in 0..4 :
             /\ first + 7 * k <= length
             /\ GenerateMonthly(first + 7 * k, length)
             /\ \A j \in 0..4 :
                   first + 7 * j <= length /\ GenerateMonthly(first + 7 * j, length) => j = k
  <1>1. \E k \in {3, 4} : first + 7 * k <= length /\ length - (first + 7 * k) < 7
    BY DEF MONTH_END_WINDOW_DAYS
  <1>2. PICK k \in {3, 4} : first + 7 * k <= length /\ length - (first + 7 * k) < 7
    BY <1>1
  <1>3. ASSUME NEW j \in 0..4, first + 7 * j <= length, length - (first + 7 * j) < 7
        PROVE  j = k
    BY <1>2, <1>3
  <1>4. QED
    BY <1>2, <1>3 DEF GenerateMonthly, MONTH_END_WINDOW_DAYS

-----------------------------------------------------------------------------
(***************************************************************************)
(* One run at a time, and attended.  What the one live run, executing or   *)
(* stopped, has read, chosen, proposed or put on a page is what the tables *)
(* say at every moment until it commits, so its commit is the step of the  *)
(* book, in whatever attempt; and the mails it has in hand, sent or failed *)
(* are the reports that wait for a verdict.                                *)
(***************************************************************************)
PaidNow == Statuses(IF Current = None THEN {} ELSE RowsOf(Current), matched)

OfferNow == Proposal(Surplus[Current], Closing[Current], Total, Periods)

\* investment_analysis proposes nothing without settings.
Proposes == IF settings THEN Current ELSE None

\* A live run stands in a node, at one of some steps.
Sits(r, node, S) == Live(r) /\ at[r] = node /\ step[r] \in S

\* What a node has read, and a resume goes on with.
ReadIsCurrent(r) ==
    /\ \A node \in {"fixed_costs_reconciliation", "cashflow_calculation", "reporting"} :
          Sits(r, node, {"read", "judged"}) => mem[r].current = Current
    /\ Sits(r, "investment_analysis", {"read", "judged"}) => mem[r].current = Proposes
    /\ Sits(r, "investment_analysis", {"read"}) => mem[r].offer = None
    /\ Sits(r, "reporting", {"read"}) => mem[r].covers = None

JudgedIsCurrent(r) ==
    /\ Sits(r, "fixed_costs_reconciliation", {"judged"}) => mem[r].plan \in Matches(OpenNow)
    /\ Sits(r, "cashflow_calculation", {"judged"}) => mem[r].plan \in PaidNow
    /\ Sits(r, "investment_analysis", {"judged"}) /\ mem[r].offer # None =>
          mem[r].current # None /\ mem[r].offer = OfferNow
    /\ Sits(r, "reporting", {"judged"}) /\ mem[r].covers # None =>
          mem[r].covers = Current /\ mem[r].plan \in PaidNow /\ mem[r].rec = LatestUnattached

HandlesPending(r) ==
    /\ Sits(r, "email_delivery", {"read", "judged"}) => Handled(r) = Pending
    /\ Sits(r, "email_delivery", {"judged"}) => mem[r].outbox = {}

IsCurrent(r) == ReadIsCurrent(r) /\ JudgedIsCurrent(r) /\ HandlesPending(r)

Solo ==
    /\ \A q, r \in Runs : Live(q) /\ Live(r) => q = r
    /\ \A r \in Runs : IsCurrent(r) /\ (mode[r] = "new" => step[r] = "enter")

\* The surplus of any statement of a set, or 0.
SurplusOf(S) == IF S = {} THEN 0 ELSE Surplus[CHOOSE s \in S : TRUE]

\* What nodes look up depends on the tables only.
LEMMA TablesStay ==
    ASSUME UNCHANGED db
    PROVE  /\ Current' = Current /\ OpenNow' = OpenNow /\ PaidNow' = PaidNow
           /\ OfferNow' = OfferNow /\ Proposes' = Proposes /\ Matches(OpenNow)' = Matches(OpenNow)
           /\ LatestUnattached' = LatestUnattached /\ Pending' = Pending
  <1> USE DEF db
  <1>1. Current' = Current
    BY CurrentStays
  <1>2. OpenNow' = OpenNow /\ PaidNow' = PaidNow
    BY <1>1 DEF OpenNow, Open, RowsOf, PaidNow, Statuses
  <1>3. \A k : Ranked(k)' = Ranked(k)
    BY DEF Ranked
  <1>4. Total' = Total /\ Periods' = Periods
    <2>1. ASSUME NEW k PROVE SurplusAt(k)' = SurplusAt(k)
      <3>1. Ranked(k)' = Ranked(k)
        BY <1>3
      <3>2. SurplusAt(k) = SurplusOf(Ranked(k)) /\ SurplusAt(k)' = SurplusOf(Ranked(k)')
        BY DEF SurplusAt, SurplusOf
      <3>3. QED
        BY <3>1, <3>2
    <2>2. Periods' = Periods
      BY <1>3 DEF Periods
    <2>3. QED
      BY <2>1, <2>2 DEF Total
  <1>5. OfferNow' = OfferNow
    BY <1>1, <1>4 DEF OfferNow
  <1>6. Proposes' = Proposes /\ Matches(OpenNow)' = Matches(OpenNow)
    BY <1>1, <1>2 DEF Proposes, Matches, GreedyChoice
  <1>7. LatestUnattached' = LatestUnattached /\ Pending' = Pending
    BY DEF LatestUnattached, Unattached, Pending
  <1>8. QED
    BY <1>1, <1>2, <1>5, <1>6, <1>7

\* What a live run knows stays right if neither it nor the tables change; a run that is
\* not live or has just entered a node knows nothing.
LEMMA StaysCurrent ==
    ASSUME NEW r, IsCurrent(r), UNCHANGED db,
           at'[r] = at[r], step'[r] = step[r], mem'[r] = mem[r], Live(r)' => Live(r)
    PROVE  IsCurrent(r)'
  BY TablesStay DEF IsCurrent, ReadIsCurrent, JudgedIsCurrent, HandlesPending, Handled, Sits

LEMMA KnowsNothing ==
    ASSUME NEW r, ~Live(r)' \/ step'[r] \in {"enter", "returned"} PROVE IsCurrent(r)'
  BY DEF IsCurrent, ReadIsCurrent, JudgedIsCurrent, HandlesPending, Sits

\* Only the executing run has anything to keep up to date.
LEMMA SoloMove ==
    ASSUME Solo, NEW r \in Runs, OnlySteps(r), IsCurrent(r)' PROVE Solo'
  <1>1. Live(r) /\ \A q \in Runs \ {r} : ~Live(q) /\ ~Live(q)'
    BY DEF Solo, Live, OnlySteps
  <1>2. \A q \in Runs : IsCurrent(q)'
    BY <1>1, KnowsNothing
  <1>3. \A q \in Runs : mode'[q] = "new" => step'[q] = "enter"
    BY DEF Solo, OnlySteps
  <1>4. QED
    BY <1>1, <1>2, <1>3 DEF Solo

LEMMA SoloCommit ==
    ASSUME Typed, Solo, NEW r \in Runs,
           \/ PersistReconciliation(r) \/ UpsertCashflowSummary(r)
           \/ PersistRecommendation(r) \/ PersistReport(r) \/ HandleResult(r)
           \/ ReturnsStored(r)
    PROVE  Solo'
  <1> USE DEF At, faults, Typed, TypeOK
  <1>1. PICK next : Leaves(r, next)
    BY DEF PersistReconciliation, UpsertCashflowSummary, PersistRecommendation,
           PersistReport, HandleResult, ReturnsStored
  <1>2. \A q \in Runs \ {r} : summary'[q] = summary[q]
    <2>1. CASE UpsertCashflowSummary(r)
      <3>1. \E row : summary' = [summary EXCEPT ![r] = row]
        BY <2>1 DEF UpsertCashflowSummary
      <3>2. QED
        BY <3>1
    <2>2. QED
      BY <2>1 DEF PersistReconciliation, PersistRecommendation, PersistReport, HandleResult,
                  ReturnsStored, db
  <1>3. OnlySteps(r) /\ step'[r] = "enter"
    BY <1>1, <1>2 DEF PersistReconciliation, UpsertCashflowSummary, PersistRecommendation,
                      PersistReport, HandleResult, ReturnsStored, db, Leaves, OnlySteps
  <1>4. QED
    BY <1>3, KnowsNothing, SoloMove

LEMMA SoloRead ==
    ASSUME Typed, Solo, NEW r \in Runs,
           \/ LoadFixedCosts(r) \/ AggregateIncomeExpense(r) \/ CheckSafetyBuffer(r)
           \/ DetermineReportTypes(r) \/ RenderFinalPayload(r)
    PROVE  Solo'
  <1> USE DEF At, faults, db, Typed, TypeOK
  <1>1. PICK m : Goes(r, "read", m) /\ m.offer = None /\ m.covers = None
           /\ \/ at[r] \in {"fixed_costs_reconciliation", "cashflow_calculation", "reporting"}
                   /\ m.current = Current
              \/ at[r] = "investment_analysis" /\ m.current = Proposes
              \/ at[r] = "email_delivery" /\ m.outbox \cup m.sent \cup m.failed = Pending
    <2>1. CASE LoadFixedCosts(r) \/ AggregateIncomeExpense(r) \/ DetermineReportTypes(r)
      <3> DEFINE n == [Blank EXCEPT !.current = Current]
      <3>1. n.offer = None /\ n.covers = None /\ n.current = Current
        BY DEF Blank
      <3>2. QED
        BY <2>1, <3>1 DEF LoadFixedCosts, AggregateIncomeExpense, DetermineReportTypes
    <2>2. CASE CheckSafetyBuffer(r)
      <3> DEFINE n == [Blank EXCEPT !.current = IF settings THEN Current ELSE None]
      <3>1. n.offer = None /\ n.covers = None /\ n.current = Proposes
        BY DEF Blank, Proposes
      <3>2. QED
        BY <2>2, <3>1 DEF CheckSafetyBuffer
    <2>3. CASE RenderFinalPayload(r)
      <3> DEFINE n == [Blank EXCEPT !.outbox = Pending]
      <3>1. /\ n.offer = None /\ n.covers = None
            /\ n.outbox = Pending /\ n.sent = {} /\ n.failed = {}
        BY DEF Blank
      <3>2. n.outbox \cup n.sent \cup n.failed = Pending
        BY <3>1
      <3>3. QED
        BY <2>3, <3>1, <3>2 DEF RenderFinalPayload
    <2>4. QED
      BY <2>1, <2>2, <2>3
  <1>2. OnlySteps(r) /\ UNCHANGED db /\ at' = at /\ step'[r] = "read" /\ mem'[r] = m
    BY <1>1 DEF LoadFixedCosts, AggregateIncomeExpense, CheckSafetyBuffer,
                DetermineReportTypes, RenderFinalPayload, Goes, Stays, OnlySteps
  <1>3. Current' = Current /\ Pending' = Pending /\ Proposes' = Proposes
    BY <1>2, TablesStay
  <1>4. IsCurrent(r)'
    BY <1>1, <1>2, <1>3
       DEF IsCurrent, ReadIsCurrent, JudgedIsCurrent, HandlesPending, Handled, Sits
  <1>5. QED
    BY <1>2, <1>4, SoloMove

LEMMA SoloMatch ==
    ASSUME Typed, Solo, NEW r \in Runs, MatchTransactions(r) PROVE Solo'
  <1> USE DEF At, faults, db, Typed, TypeOK
  <1>1. mem[r].current = Current /\ mem[r] \in Mem
    BY DEF MatchTransactions, Solo, IsCurrent, ReadIsCurrent, Sits, Live
  <1>2. PICK plan \in Matches(OpenNow) : Goes(r, "judged", [mem[r] EXCEPT !.plan = plan])
    BY <1>1 DEF MatchTransactions, OpenNow
  <1>3. OnlySteps(r) /\ UNCHANGED db /\ at' = at /\ step'[r] = "judged"
        /\ mem'[r].plan = plan /\ mem'[r].current = Current
        /\ at[r] = "fixed_costs_reconciliation"
    BY <1>1, <1>2 DEF MatchTransactions, Goes, Stays, OnlySteps, Mem
  <1>4. IsCurrent(r)'
    BY <1>3, TablesStay DEF IsCurrent, ReadIsCurrent, JudgedIsCurrent, HandlesPending, Sits
  <1>5. QED
    BY <1>3, <1>4, SoloMove

LEMMA SoloStatus ==
    ASSUME Typed, Solo, NEW r \in Runs, ApplyFixedCostsStatus(r) PROVE Solo'
  <1> USE DEF At, faults, db, Typed, TypeOK
  <1>1. mem[r].current = Current /\ mem[r] \in Mem
    BY DEF ApplyFixedCostsStatus, Solo, IsCurrent, ReadIsCurrent, Sits, Live
  <1>2. PICK paid \in PaidNow : Goes(r, "judged", [mem[r] EXCEPT !.plan = paid])
    BY <1>1 DEF ApplyFixedCostsStatus, PaidNow
  <1>3. OnlySteps(r) /\ UNCHANGED db /\ at' = at /\ step'[r] = "judged"
        /\ mem'[r].plan = paid /\ mem'[r].current = Current /\ at[r] = "cashflow_calculation"
    BY <1>1, <1>2 DEF ApplyFixedCostsStatus, Goes, Stays, OnlySteps, Mem
  <1>4. IsCurrent(r)'
    BY <1>3, TablesStay DEF IsCurrent, ReadIsCurrent, JudgedIsCurrent, HandlesPending, Sits
  <1>5. QED
    BY <1>3, <1>4, SoloMove

LEMMA SoloTrend ==
    ASSUME Typed, Solo, NEW r \in Runs, AssessTrend(r) PROVE Solo'
  <1> USE DEF At, faults, db
  <1>1. mem[r].current = Proposes /\ mem[r].offer = None /\ mem[r] \in Mem
        /\ at[r] = "investment_analysis"
    BY DEF AssessTrend, Solo, IsCurrent, ReadIsCurrent, Sits, Live, Typed, TypeOK
  <1>2. PICK m : /\ Goes(r, "judged", m) /\ m.current = Proposes
                 /\ m.offer # None => m.current # None /\ m.offer = OfferNow
    <2>1. CASE mem[r].current = None
      BY <1>1, <2>1 DEF AssessTrend
    <2>2. CASE mem[r].current # None
      <3>1. mem[r].current = Current
        BY <1>1, <2>2 DEF Proposes
      <3> DEFINE n == [mem[r] EXCEPT !.offer = OfferNow]
      <3>2. Goes(r, "judged", n)
        BY <2>2, <3>1 DEF AssessTrend, OfferNow
      <3>3. n.offer = OfferNow /\ n.current = mem[r].current
        BY <1>1 DEF Mem
      <3>4. QED
        BY <1>1, <2>2, <3>2, <3>3
    <2>3. QED
      BY <2>1, <2>2
  <1>3. OnlySteps(r) /\ UNCHANGED db /\ at' = at /\ step'[r] = "judged" /\ mem'[r] = m
    BY <1>2 DEF AssessTrend, Goes, Stays, OnlySteps, Typed, TypeOK
  <1>4. IsCurrent(r)'
    BY <1>1, <1>2, <1>3, TablesStay
       DEF IsCurrent, ReadIsCurrent, JudgedIsCurrent, HandlesPending, Sits
  <1>5. QED
    BY <1>3, <1>4, SoloMove

LEMMA SoloRender ==
    ASSUME Typed, Solo, NEW r \in Runs, RenderReports(r) PROVE Solo'
  <1> USE DEF At, faults, db
  <1>1. mem[r].current = Current /\ mem[r].covers = None /\ mem[r] \in Mem
        /\ at[r] = "reporting"
    BY DEF RenderReports, Solo, IsCurrent, ReadIsCurrent, Sits, Live, Typed, TypeOK
  <1>2. PICK m : /\ Goes(r, "judged", m) /\ m.current = Current
                 /\ m.covers # None => /\ m.covers = Current
                                       /\ m.plan \in PaidNow /\ m.rec = LatestUnattached
    <2>1. CASE mem[r].current = None
      BY <1>1, <2>1 DEF RenderReports
    <2>2. CASE mem[r].current # None
      <3>1. PICK paid \in PaidNow :
               Goes(r, "judged", [mem[r] EXCEPT !.covers = Current, !.plan = paid,
                                                !.rec = LatestUnattached])
        BY <1>1, <2>2 DEF RenderReports, PaidNow
      <3> DEFINE n == [mem[r] EXCEPT !.covers = Current, !.plan = paid, !.rec = LatestUnattached]
      <3>2. /\ n.current = Current /\ n.covers = Current
            /\ n.plan = paid /\ n.rec = LatestUnattached
        BY <1>1 DEF Mem
      <3>3. QED
        BY <3>1, <3>2
    <2>3. QED
      BY <2>1, <2>2
  <1>3. OnlySteps(r) /\ UNCHANGED db /\ at' = at /\ step'[r] = "judged" /\ mem'[r] = m
    BY <1>2 DEF RenderReports, Goes, Stays, OnlySteps, Typed, TypeOK
  <1>4. IsCurrent(r)'
    BY <1>1, <1>2, <1>3, TablesStay
       DEF IsCurrent, ReadIsCurrent, JudgedIsCurrent, HandlesPending, Sits
  <1>5. QED
    BY <1>3, <1>4, SoloMove

\* A mail moves from the outbox to the mails sent or failed, and no verdict falls.
LEMMA SoloMail ==
    ASSUME Typed, Mailing, Solo, NEW r \in Runs, NEW i \in mem[r].outbox,
           SmtpAccepts(r, i) \/ SmtpRefuses(r, i) \/ SmtpAnswerLost(r, i)
    PROVE  Solo'
  <1> USE DEF At, faults, db
  <1>1. mem[r] \in Mem /\ At(r, "email_delivery", "read") /\ Handled(r) = Pending
    BY DEF SmtpAccepts, SmtpRefuses, SmtpAnswerLost, Sending, Solo, IsCurrent, HandlesPending,
           Sits, Live, Typed, TypeOK
  <1>2. OnlySteps(r) /\ at' = at /\ step' = step
    BY <1>1 DEF SmtpAccepts, SmtpRefuses, SmtpAnswerLost, Goes, Stays, OnlySteps, Typed, TypeOK
  <1>3. Handled(r)' = Handled(r)
    <2>1. CASE SmtpAccepts(r, i)
      <3> DEFINE m == [mem[r] EXCEPT !.tries = 0, !.outbox = @ \ {i}, !.sent = @ \cup {i}]
      <3>1. m.outbox \cup m.sent \cup m.failed = Handled(r)
        BY <1>1 DEF Mem, Handled
      <3> HIDE DEF m
      <3>2. mem'[r] = m
        BY <2>1 DEF SmtpAccepts, Goes, Typed, TypeOK, m
      <3>3. QED
        BY <3>1, <3>2 DEF Handled
    <2>2. CASE SmtpRefuses(r, i) \/ SmtpAnswerLost(r, i)
      <3>1. mem'[r] = Fails(mem[r], i)
        BY <2>2 DEF SmtpRefuses, SmtpAnswerLost, Goes, Typed, TypeOK
      <3>2. QED
        BY <1>1, <3>1, FailsHandles DEF Handled
    <2>3. QED
      BY <2>1, <2>2
  <1>4. Pending' = Pending
    <2>1. CASE reports' = reports
      BY <2>1 DEF Pending
    <2>2. CASE Arrives(i)
      <3>1. DOMAIN reports' = DOMAIN reports
        BY <2>2, ArrivesType DEF Typed, TypeOK, Tables
      <3>2. ASSUME NEW j \in DOMAIN reports PROVE reports'[j].delivery = reports[j].delivery
        <4>1. reports[j] \in Reports
          BY PendingRows DEF Typed
        <4>2. QED
          BY <2>2, <4>1 DEF Arrives, Reports
      <3>3. QED
        BY <3>1, <3>2 DEF Pending
    <2>3. QED
      BY <2>1, <2>2 DEF SmtpAccepts, SmtpRefuses, SmtpAnswerLost
  <1>5. IsCurrent(r)'
    BY <1>1, <1>2, <1>3, <1>4
       DEF IsCurrent, ReadIsCurrent, JudgedIsCurrent, HandlesPending, Sits
  <1>6. QED
    BY <1>2, <1>5, SoloMove

\* The last mail is through.
LEMMA SoloDone == ASSUME Typed, Solo, NEW r \in Runs, SmtpDone(r) PROVE Solo'
  <1> USE DEF At, faults, db
  <1>1. Handled(r) = Pending /\ at[r] = "email_delivery" /\ mem[r].outbox = {}
    BY DEF SmtpDone, Solo, IsCurrent, HandlesPending, Sits, Live
  <1>2. OnlySteps(r) /\ UNCHANGED db /\ at' = at /\ step'[r] = "judged" /\ mem'[r] = mem[r]
    BY DEF SmtpDone, Goes, Stays, OnlySteps, Typed, TypeOK
  <1>3. IsCurrent(r)'
    BY <1>1, <1>2, TablesStay
       DEF IsCurrent, ReadIsCurrent, JudgedIsCurrent, HandlesPending, Handled, Sits
  <1>4. QED
    BY <1>2, <1>3, SoloMove

\* A run starts, is resumed or ends; whoever has stopped before is overtaken.
LEMMA SoloRun ==
    ASSUME OneAtATime, Attended, Typed, Solo,
           \/ \E s \in Statements : Arrive(s)
           \/ \E r \in Runs : Trigger(r) \/ Resume(r) \/ Finish(r) \/ SaveCheckpoint(r)
    PROVE  Solo'
  <1> USE DEF Typed, TypeOK
  <1>1. ASSUME NEW s \in Statements, Arrive(s) PROVE Solo'
    <2>1. Running = {} /\ mode' = Overtaken /\ step' = step
      BY <1>1 DEF Arrive, CanExecute
    <2>2. \A q \in Runs : ~Live(q)' /\ (mode'[q] = "new" => mode[q] = "new")
      BY <2>1 DEF Overtaken, Running, Live
    <2>3. \A q \in Runs : IsCurrent(q)'
      BY <2>2, KnowsNothing
    <2>4. QED
      BY <2>1, <2>2, <2>3 DEF Solo
  <1>2. ASSUME NEW r \in Runs, Trigger(r) \/ Resume(r) PROVE Solo'
    <2>1. /\ Running = {} /\ UNCHANGED <<at, step, mem>> /\ UNCHANGED db
          /\ mode' = [Overtaken EXCEPT ![r] = "running"] /\ mode[r] \in {"new", "stopped"}
      BY <1>2 DEF Trigger, Resume, Executes, CanExecute
    <2>2. /\ \A q \in Runs \ {r} : ~Live(q)' /\ (mode'[q] = "new" => mode[q] = "new")
          /\ mode'[r] = "running"
      BY <2>1 DEF Overtaken, Running, Live
    <2>3. \A q \in Runs \ {r} : IsCurrent(q)'
      BY <2>2, KnowsNothing
    <2>4. IsCurrent(r)'
      <3>1. CASE mode[r] = "new"
        BY <2>1, <3>1, KnowsNothing DEF Solo
      <3>2. CASE mode[r] = "stopped"
        BY <2>1, <3>2, StaysCurrent DEF Solo, Live
      <3>3. QED
        BY <2>1, <3>1, <3>2
    <2>5. QED
      BY <2>1, <2>2, <2>3, <2>4 DEF Solo
  <1>3. ASSUME NEW r \in Runs, Finish(r) \/ SaveCheckpoint(r) PROVE Solo'
    <2>1. /\ UNCHANGED <<at, step, mem>> /\ UNCHANGED db
          /\ \A q \in Runs : mode'[q] \in {mode[q], "completed"}
      BY <1>3 DEF Finish, SaveCheckpoint
    <2>2. \A q \in Runs : (Live(q)' => Live(q)) /\ (mode'[q] = "new" => mode[q] = "new")
      BY <2>1 DEF Live
    <2>3. \A q \in Runs : IsCurrent(q)'
      BY <2>1, <2>2, StaysCurrent DEF Solo
    <2>4. QED
      BY <2>1, <2>2, <2>3 DEF Solo
  <1>4. QED
    BY <1>1, <1>2, <1>3

\* A run that stops keeps some of what it knows.
LEMMA SoloStop == ASSUME Typed, Solo, Stopping PROVE Solo'
  <1>1. \A q \in Runs : (Live(q)' => Live(q)) /\ (mode'[q] = "new" => step'[q] = "enter")
    BY DEF Solo, Stopping, Untouched, CutOff, Live
  <1>2. ASSUME NEW q \in Runs PROVE IsCurrent(q)'
    <2>1. CASE Untouched(q)
      BY <1>1, <2>1, StaysCurrent DEF Solo, Stopping, Untouched, db
    <2>2. CASE CutOff(q) /\ step'[q] \in {"enter", "returned"}
      BY <2>2, KnowsNothing
    <2>3. CASE CutOff(q) /\ step'[q] = "judged"
      <3>1. at'[q] = at[q] /\ step'[q] = step[q] /\ mem'[q] = mem[q]
        BY <2>3 DEF CutOff
      <3>2. IsCurrent(q) /\ UNCHANGED db /\ (Live(q)' => Live(q))
        BY <1>1 DEF Solo, Stopping, db
      <3>3. QED
        BY <3>1, <3>2, StaysCurrent
    <2>4. CASE CutOff(q) /\ step'[q] = "read"
      <3> DEFINE m == MemAt(mem[q], "read")
      <3>1. /\ m.current = mem[q].current /\ m.offer = None /\ m.covers = None
            /\ m.outbox = Handled(q) /\ m.sent = {} /\ m.failed = {}
        BY DEF MemAt, Blank, Handled
      <3>2. mem'[q] = m /\ at'[q] = at[q] /\ step[q] \in {"read", "judged"} /\ Live(q)
        BY <2>4 DEF CutOff, Live
      <3> HIDE DEF m
      <3>3. Handled(q)' = Handled(q)
        BY <3>1, <3>2 DEF Handled
      <3>4. IsCurrent(q) /\ UNCHANGED db
        BY DEF Solo, Stopping, db
      <3>5. QED
        BY <2>4, <3>1, <3>2, <3>3, <3>4, TablesStay
           DEF IsCurrent, ReadIsCurrent, JudgedIsCurrent, HandlesPending, Sits
    <2>5. QED
      BY <2>1, <2>2, <2>3, <2>4 DEF Stopping, CutOff
  <1>3. QED
    BY <1>1, <1>2 DEF Solo

LEMMA SoloNext ==
    ASSUME OneAtATime, Attended PROVE Typed /\ Mailing /\ Solo /\ [Next]_vars => Solo'
  <1> SUFFICES ASSUME Typed, Mailing, Solo, [Next]_vars PROVE Solo'
    OBVIOUS
  <1>1. CASE UNCHANGED vars
    <2>1. UNCHANGED <<mode, at, step, mem>> /\ UNCHANGED db
      BY <1>1 DEF vars, db
    <2>2. \A q \in Runs : Live(q)' = Live(q)
      BY <2>1 DEF Live
    <2>3. QED
      BY <2>1, <2>2, StaysCurrent DEF Solo
  <1>2. CASE Crash \/ \E r \in Runs : NodeFails(r)
    BY <1>2, Stops, SoloStop
  <1>3. ASSUME NEW r \in Runs, NodeStep(r) PROVE Solo'
    <2>1. CASE Finish(r)
      BY <2>1, SoloRun
    <2>2. CASE ~Finish(r)
      BY <1>3, <2>2, SoloCommit, SoloRead, SoloMatch, SoloStatus, SoloTrend, SoloRender,
         SoloMail, SoloDone DEF NodeStep
    <2>3. QED
      BY <2>1, <2>2
  <1>4. CASE Next
    BY <1>2, <1>3, <1>4, SoloRun DEF Next
  <1>5. QED
    BY <1>1, <1>4

-----------------------------------------------------------------------------
(***************************************************************************)
(* The refinement.                                                         *)
(***************************************************************************)

\* The book's look-ups, said with the operators of the nodes.
LEMMA BookMatches ==
    ASSUME NEW open PROVE Book!Matches(open) = Matches(open)
  <1>1. ASSUME NEW S PROVE Book!Cardinality(S) = Cardinality(S)
    BY Zenon DEF Book!Cardinality, Cardinality
  <1>2. ASSUME NEW S, NEW T PROVE Book!Bijection(S, T) = Bijection(S, T)
    BY Zenon DEF Book!Bijection, Bijection, Book!Injection, Injection,
                 Book!Surjection, Surjection, Book!IsInjective, IsInjective
  <1>3. QED
    BY <1>1, <1>2 DEF Book!Matches, Matches, Book!GreedyChoice, GreedyChoice,
                      Book!Distance, Distance, Book!Abs, Abs

LEMMA BookReads ==
    /\ Book!Current = Current
    /\ \A s : Book!RowsOf(s) = RowsOf(s) /\ Book!Open(s) = Open(s)
    /\ \A rows : Book!Statuses(rows, matched) = Statuses(rows, matched)
    /\ Book!LatestUnattached = LatestUnattached
    /\ Book!Pending = Pending
  <1>1. Book!Current = Current
    BY DEF Book!Current, Current, Book!Latest, Latest
  <1>2. \A s : Book!RowsOf(s) = RowsOf(s) /\ Book!Open(s) = Open(s)
    BY DEF Book!RowsOf, RowsOf, Book!Open, Open
  <1>3. ASSUME NEW rows PROVE Book!Statuses(rows, matched) = Statuses(rows, matched)
    BY DEF Book!Statuses, Statuses, Book!Plans, Plans
  <1>4. Book!LatestUnattached = LatestUnattached /\ Book!Pending = Pending
    BY DEF Book!LatestUnattached, LatestUnattached, Book!Unattached, Unattached,
           Book!Pending, Pending
  <1>5. QED
    BY <1>1, <1>2, <1>3, <1>4

LEMMA BookTrend == Book!Total = Total /\ Book!Periods = Periods
  <1>1. ASSUME NEW S PROVE Book!Cardinality(S) = Cardinality(S)
    BY Zenon DEF Book!Cardinality, Cardinality
  <1>2. \A k : Book!Ranked(k) = Ranked(k)
    BY <1>1 DEF Book!Ranked, Ranked
  <1>3. ASSUME NEW k PROVE Book!SurplusAt(k) = SurplusAt(k)
    <2>1. Book!Ranked(k) = Ranked(k)
      BY <1>2
    <2>2. SurplusAt(k) = SurplusOf(Ranked(k)) /\ Book!SurplusAt(k) = SurplusOf(Book!Ranked(k))
      BY DEF SurplusAt, Book!SurplusAt, SurplusOf
    <2>3. QED
      BY <2>1, <2>2
  <1>4. Book!Total = Total
    BY <1>3 DEF Book!Total, Total
  <1>5. QED
    BY <1>2, <1>4 DEF Book!Periods, Periods

LEMMA BookProposal ==
    /\ \A s, c, t, n : Book!Proposal(s, c, t, n) = Proposal(s, c, t, n)
    /\ \A p : Book!EqualSplit(p) = EqualSplit(p)
    /\ \A p, a : Book!Divided(p, a) = Divided(p, a)
    /\ \A a : Book!Accepted(a) <=> Accepted(a)
    /\ \A n, d : Book!RoundHalfUp(n, d) = RoundHalfUp(n, d)
    /\ \A p : Book!Allocations(p) = Allocations(p)
  <1>1. ASSUME NEW s, NEW c, NEW t, NEW n PROVE Book!Proposal(s, c, t, n) = Proposal(s, c, t, n)
    BY DEF Book!Proposal, Proposal, Book!Investable, Investable, Book!IsAnomaly, IsAnomaly,
           Book!Smaller, Smaller, Book!Larger, Larger,
           Book!ANOMALY_MULTIPLIER, ANOMALY_MULTIPLIER
  <1>2. ASSUME NEW p, NEW a
        PROVE  /\ Book!EqualSplit(p) = EqualSplit(p) /\ Book!Divided(p, a) = Divided(p, a)
               /\ Book!Accepted(a) <=> Accepted(a)
    BY DEF Book!Divided, Divided, Book!EqualSplit, EqualSplit, Book!Accepted, Accepted,
           Book!RoundHalfEven, RoundHalfEven, Book!Allowed, Allowed, Book!SumOf, SumOf,
           Book!CountOf, CountOf, Book!INSTRUMENT_KEYS, INSTRUMENT_KEYS
  <1>3. ASSUME NEW n, NEW d PROVE Book!RoundHalfUp(n, d) = RoundHalfUp(n, d)
    BY DEF Book!RoundHalfUp, RoundHalfUp
  <1>4. ASSUME NEW p PROVE Book!Allocations(p) = Allocations(p)
    BY <1>2 DEF Book!Allocations, Allocations
  <1>5. QED
    BY <1>1, <1>2, <1>3, <1>4

BookStep == [Book!Next]_(Book!db)

LEMMA BookStutters == ASSUME UNCHANGED db PROVE BookStep
  BY DEF db, BookStep, Book!db

LEMMA ReconcileIsBookStep ==
    ASSUME Solo, NEW r \in Runs, PersistReconciliation(r) PROVE BookStep
  <1>1. mem[r].plan \in Matches(OpenNow)
    BY DEF PersistReconciliation, Solo, IsCurrent, JudgedIsCurrent, Sits, Live, At
  <1>2. mem[r].plan \in Book!Matches(IF Book!Current = None THEN {} ELSE Book!Open(Book!Current))
    BY <1>1, BookMatches, BookReads DEF OpenNow
  <1>3. Book!Reconcile
    BY <1>2 DEF PersistReconciliation, Book!Reconcile
  <1>4. QED
    BY <1>3 DEF BookStep, Book!Next

LEMMA SummariseIsBookStep ==
    ASSUME Solo, NEW r \in Runs, UpsertCashflowSummary(r) PROVE BookStep
  <1> DEFINE paid == mem[r].plan
  <1>1. mem[r].current = Current /\ paid \in PaidNow
    BY DEF UpsertCashflowSummary, Solo, IsCurrent, ReadIsCurrent, JudgedIsCurrent, Sits, Live, At
  <1>2. paid \in Book!Statuses(IF Book!Current = None THEN {} ELSE Book!RowsOf(Book!Current),
                               matched)
    BY <1>1, BookReads DEF PaidNow
  <1>3. summary' = [summary EXCEPT ![r] = [of |-> Current, paid |-> paid]]
    BY <1>1 DEF UpsertCashflowSummary
  <1> HIDE DEF paid
  <1>4. Book!Summarise(r)
    BY <1>2, <1>3, BookReads DEF UpsertCashflowSummary, Book!Summarise
  <1>5. QED
    BY <1>4 DEF BookStep, Book!Next

LEMMA RecommendIsBookStep ==
    ASSUME Solo, NEW r \in Runs, PersistRecommendation(r) PROVE BookStep
  <1>1. CASE mem[r].offer = None
    BY <1>1, BookStutters DEF PersistRecommendation, db
  <1>2. CASE mem[r].offer # None
    <2>0. mem[r].current # None /\ mem[r].current = Proposes /\ mem[r].offer = OfferNow
      BY <1>2 DEF PersistRecommendation, Solo, IsCurrent, ReadIsCurrent, JudgedIsCurrent,
                  Sits, Live, At
    <2>1. settings /\ Current # None /\ mem[r].current = Current
      BY <2>0 DEF Proposes
    <2> DEFINE offer == Book!Proposal(Surplus[Book!Current], Closing[Book!Current],
                                      Book!Total, Book!Periods)
    <2>2. offer = mem[r].offer
      BY <2>0, <2>1, BookReads, BookTrend, BookProposal DEF OfferNow
    <2>3. \E parts \in Book!Allocations(offer) :
             recs' = Append(recs, [by |-> r, of |-> Book!Current,
                                   amount |-> Book!RoundHalfUp(offer.num, offer.den),
                                   parts |-> parts, report |-> 0])
      <3> HIDE DEF offer
      <3>1. QED
        BY <1>2, <2>1, <2>2, BookReads, BookProposal DEF PersistRecommendation
    <2>4. Book!Recommend(r)
      BY <2>1, <2>3, BookReads DEF PersistRecommendation, Book!Recommend
    <2>5. QED
      BY <2>4 DEF BookStep, Book!Next
  <1>3. QED
    BY <1>1, <1>2

LEMMA ReportIsBookStep ==
    ASSUME Solo, NEW r \in Runs, PersistReport(r) PROVE BookStep
  <1>1. CASE mem[r].covers = None
    BY <1>1, BookStutters DEF PersistReport, db
  <1>2. CASE mem[r].covers # None
    <2>1. /\ mem[r].current = Current /\ mem[r].covers = Current
          /\ mem[r].plan \in PaidNow /\ mem[r].rec = LatestUnattached
      BY <1>2 DEF PersistReport, Solo, IsCurrent, ReadIsCurrent, JudgedIsCurrent, Sits, Live, At
    <2> DEFINE paid == mem[r].plan
               BookPage(type, shown) ==
                 [by |-> r, type |-> type, of |-> Book!Current, paid |-> shown,
                  rec |-> Book!LatestUnattached, delivery |-> "pending", copies |-> 0]
    <2>2. paid \in Book!Statuses(Book!RowsOf(Book!Current), matched)
      BY <1>2, <2>1, BookReads DEF PaidNow
    <2>3. Page(r, "weekly") = BookPage("weekly", paid)
          /\ Page(r, "monthly") = BookPage("monthly", NoMatch)
      BY <2>1, BookReads DEF Page
    <2>4. reports' = reports \o
              (IF Book!GenerateMonthly(EndDay[Book!Current], MonthLength[Book!Current])
               THEN <<BookPage("weekly", paid), BookPage("monthly", Book!NoMatch)>>
               ELSE <<BookPage("weekly", paid)>>)
      <3> HIDE DEF BookPage, paid
      <3>1. QED
        BY <1>2, <2>1, <2>3, BookReads
           DEF PersistReport, Book!GenerateMonthly, GenerateMonthly,
               Book!MONTH_END_WINDOW_DAYS, MONTH_END_WINDOW_DAYS, Book!NoMatch, NoMatch
    <2>5. recs' = [k \in DOMAIN recs |->
                     IF k = Book!LatestUnattached
                     THEN [recs[k] EXCEPT !.report = Len(reports) + 1] ELSE recs[k]]
      BY <1>2, <2>1, BookReads DEF PersistReport
    <2>6. Book!Report(r)
      BY <1>2, <2>1, <2>2, <2>4, <2>5, BookReads DEF PersistReport, Book!Report
    <2>7. QED
      BY <2>6 DEF BookStep, Book!Next
  <1>3. QED
    BY <1>1, <1>2

LEMMA MailIsBookStep ==
    ASSUME Typed, Mailing, Solo, NEW r \in Runs,
           \/ HandleResult(r)
           \/ \E i \in mem[r].outbox :
                 SmtpAccepts(r, i) \/ SmtpRefuses(r, i) \/ SmtpAnswerLost(r, i)
    PROVE  BookStep
  <1>1. Handled(r) = Book!Pending
    BY BookReads DEF HandleResult, SmtpAccepts, SmtpRefuses, SmtpAnswerLost, Sending, Solo,
                     IsCurrent, HandlesPending, Sits, Live, At
  <1>2. ASSUME NEW i \in mem[r].outbox, SmtpRefuses(r, i) PROVE BookStep
    BY <1>2, BookStutters DEF SmtpRefuses
  <1>3. ASSUME NEW i \in mem[r].outbox, SmtpAccepts(r, i) \/ SmtpAnswerLost(r, i)
        PROVE  BookStep
    <2>1. i \in Book!Pending
      BY <1>1 DEF Handled
    <2>2. Book!Deliver
      BY <1>3, <2>1 DEF SmtpAccepts, SmtpAnswerLost, Arrives, Book!Deliver
    <2>3. QED
      BY <2>2 DEF BookStep, Book!Next
  <1>4. CASE HandleResult(r)
    <2>1. mem[r].sent \cup mem[r].failed = Book!Pending
      BY <1>1, <1>4 DEF HandleResult, Handled, Solo, IsCurrent, HandlesPending, Sits, Live, At
    <2>2. mem[r].sent \in SUBSET {i \in Book!Pending : reports[i].copies > 0}
      BY <2>1 DEF Mailing, Arrived
    <2>3. Marked(mem[r].sent, mem[r].failed) = Book!Marked(mem[r].sent, Book!Pending \ mem[r].sent)
      BY <2>1 DEF Marked, Book!Marked
    <2>4. Book!Settle
      BY <1>4, <2>2, <2>3 DEF HandleResult, Book!Settle
    <2>5. QED
      BY <2>4 DEF BookStep, Book!Next
  <1>5. QED
    BY <1>2, <1>3, <1>4

\* Every step of the nodes is a step of the book or leaves it alone.
LEMMA BookSteps == ASSUME Typed, Mailing, Solo, [Next]_vars PROVE BookStep
  <1> USE DEF db, faults
  <1>1. CASE UNCHANGED vars
    BY <1>1, BookStutters DEF vars
  <1>2. CASE Crash \/ \E r \in Runs : NodeFails(r)
    BY <1>2, Stops, BookStutters DEF Stopping
  <1>3. ASSUME NEW s \in Statements, Arrive(s) PROVE BookStep
    <2>1. Book!Arrive(s)
      BY <1>3 DEF Arrive, Book!Arrive
    <2>2. QED
      BY <2>1 DEF BookStep, Book!Next
  <1>4. ASSUME NEW r \in Runs,
               \/ Trigger(r) \/ Resume(r) \/ SaveCheckpoint(r) \/ Finish(r)
               \/ ReturnsStored(r)
        PROVE  BookStep
    BY <1>4, BookStutters
       DEF Trigger, Resume, Executes, SaveCheckpoint, Finish, ReturnsStored
  <1>5. ASSUME NEW r \in Runs,
               \/ LoadFixedCosts(r) \/ MatchTransactions(r) \/ AggregateIncomeExpense(r)
               \/ CheckSafetyBuffer(r) \/ AssessTrend(r) \/ DetermineReportTypes(r)
               \/ RenderReports(r) \/ RenderFinalPayload(r) \/ ApplyFixedCostsStatus(r)
               \/ SmtpDone(r)
        PROVE  BookStep
    BY <1>5, BookStutters DEF LoadFixedCosts, MatchTransactions, AggregateIncomeExpense,
       ApplyFixedCostsStatus, CheckSafetyBuffer, AssessTrend, DetermineReportTypes,
       RenderReports, RenderFinalPayload, SmtpDone
  <1>6. QED
    BY <1>1, <1>2, <1>3, <1>4, <1>5, ReconcileIsBookStep, SummariseIsBookStep,
       RecommendIsBookStep, ReportIsBookStep, MailIsBookStep DEF Next, NodeStep

\* If runs do not execute at the same time, and a run that stopped is resumed before another
\* one executes or not at all, the nodes with their slow work, attempts at mails, nested
\* checkpoints, failures, restarts and resumes implement the book of reports.
THEOREM Refinement == ASSUME OneAtATime, Attended PROVE Spec => ImplementsReportBook
  <1>1. Init => Mailing /\ Solo
    BY DEF Init, Mailing, SentWasMailed, Blank, Solo, Running, IsCurrent, ReadIsCurrent,
           JudgedIsCurrent, HandlesPending, Sits, Live, Handled
  <1>2. Init => Book!Init
    BY DEF Init, Book!Init
  <1>3. Typed /\ Mailing /\ Solo /\ [Next]_vars => Mailing' /\ Solo'
    BY MailingNext, SoloNext
  <1>4. Typed /\ Mailing /\ Solo /\ [Next]_vars => BookStep
    BY BookSteps
  <1>5. UNCHANGED vars => BookStep
    BY BookStutters DEF vars, db
  <1>6. Spec => [][BookStep]_vars
    BY <1>1, <1>3, <1>4, TypedInvariant, PTL DEF Spec
  <1>7. Spec => Book!Spec
    BY <1>2, <1>5, <1>6, PTL DEF Spec, Book!Spec, BookStep
  <1>8. QED
    BY <1>7 DEF ImplementsReportBook

=============================================================================
