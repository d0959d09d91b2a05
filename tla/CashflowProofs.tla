---------------------------- MODULE CashflowProofs ----------------------------
(***************************************************************************)
(* Proofs about Cashflow: the figures of a report are right for any        *)
(* statements, rows, calendar and runs.                                    *)
(***************************************************************************)
EXTENDS Cashflow, SumTheorems

-----------------------------------------------------------------------------
(***************************************************************************)
(* The inductive invariant: what each figure was computed from.  Figures   *)
(* remember, in seen, which statements were processed when their month was *)
(* read; rows and amounts never change.                                    *)
(***************************************************************************)
RowsOf(s) == {t \in Txns : StatementOf[t] = s}

\* p has the totals of the rows T, and its categories add up to its surplus.
PeriodOf(p, T) ==
    /\ p \in Periods
    /\ p.income = IncomeAndExpense(T).income
    /\ p.expense = IncomeAndExpense(T).expense
    /\ SumOfBreakdown(p) = Surplus(p)

WeekOf(p, s) ==
    /\ p.from = First[s] /\ p.to = Last[s]
    /\ PeriodOf(p, RowsOf(s))

FiguresRight(f) ==
    /\ f \in Figures /\ f.of \in f.seen
    /\ WeekOf(f.week, f.of)
    /\ f.month.from = MonthStart(Last[f.of]) /\ f.month.to = Last[f.of]
    /\ PeriodOf(f.month, RowsSeen(f.seen, f.month.from, f.month.to))

\* What a report says of the month before the one of f.
PreviousRight(previous, f, seen) ==
    LET to == PreviousMonthEnd(f.month.from)
    IN  previous = IncomeAndExpense(RowsSeen(seen, MonthStart(to), to))

\* Between its two SELECTs a run holds a week of a processed statement.
HoldsWeek(r) == mem[r].of \in processed /\ WeekOf(mem[r].week, mem[r].of)

MemRightFor(r) ==
    /\ at[r] \in {"rolling", "reroll"} => HoldsWeek(r)
    /\ at[r] \in {"upsert", "compare", "persist"} => FiguresRight(mem[r].figures)
    /\ mem[r].previous # None =>
           at[r] = "persist" /\ PreviousRight(mem[r].previous, mem[r].figures, mem[r].seen)

MemRight == \A r \in Runs : MemRightFor(r)

SummaryRight == \A r \in Runs : summary[r] # None => FiguresRight(summary[r])

ReportsRight ==
    \A r \in Runs : reports[r] # None =>
        /\ FiguresRight(reports[r].figures)
        /\ reports[r].previous # None =>
               PreviousRight(reports[r].previous, reports[r].figures, reports[r].seen)

IInv == TypeOK /\ MemRight /\ SummaryRight /\ ReportsRight

-----------------------------------------------------------------------------
(***************************************************************************)
(* Sums of amounts.                                                        *)
(***************************************************************************)
LEMMA SumOfType == ASSUME NEW T \in SUBSET Txns PROVE SumOf(T) \in Int
  <1>1. IsFiniteSet(T) /\ \A t \in T : Amount[t] \in Int
    BY CashflowAssumption, FS_Subset
  <1>2. SumOver(Amount, T) \in Int
    BY <1>1, SumInt
  <1>3. QED
    BY <1>2 DEF SumOf, SumOver

LEMMA SumOfUnion ==
    ASSUME NEW A \in SUBSET Txns, NEW B \in SUBSET Txns, A \cap B = {}
    PROVE  SumOf(A \cup B) = SumOf(A) + SumOf(B)
  <1>1. IsFiniteSet(A) /\ IsFiniteSet(B) /\ \A t \in A \cup B : Amount[t] \in Int
    BY CashflowAssumption, FS_Subset
  <1>2. SumOver(Amount, A \cup B) = SumOver(Amount, A) + SumOver(Amount, B)
    BY <1>1, SumDisjoint
  <1>3. QED
    BY <1>2 DEF SumOf, SumOver

LEMMA TotalsType ==
    ASSUME NEW T \in SUBSET Txns
    PROVE  IncomeAndExpense(T) \in Totals
  BY SumOfType DEF IncomeAndExpense, Totals

\* The totals of two disjoint sets of rows add up.
LEMMA TotalsUnion ==
    ASSUME NEW A \in SUBSET Txns, NEW B \in SUBSET Txns, A \cap B = {}
    PROVE  /\ IncomeAndExpense(A \cup B).income
                = IncomeAndExpense(A).income + IncomeAndExpense(B).income
           /\ IncomeAndExpense(A \cup B).expense
                = IncomeAndExpense(A).expense + IncomeAndExpense(B).expense
  <1> DEFINE In(T) == {t \in T : Amount[t] > 0}
             Out(T) == {t \in T : Amount[t] <= 0}
  <1>1. /\ In(A \cup B) = In(A) \cup In(B) /\ In(A) \cap In(B) = {}
        /\ Out(A \cup B) = Out(A) \cup Out(B) /\ Out(A) \cap Out(B) = {}
    OBVIOUS
  <1>2. In(A) \in SUBSET Txns /\ In(B) \in SUBSET Txns
    OBVIOUS
  <1>3. Out(A) \in SUBSET Txns /\ Out(B) \in SUBSET Txns
    OBVIOUS
  <1>4. \A T : IncomeAndExpense(T).income = SumOf(In(T)) /\ IncomeAndExpense(T).expense = SumOf(Out(T))
    BY DEF IncomeAndExpense
  <1> HIDE DEF In, Out
  <1>5. SumOf(In(A) \cup In(B)) = SumOf(In(A)) + SumOf(In(B))
    BY <1>1, <1>2, SumOfUnion
  <1>6. SumOf(Out(A) \cup Out(B)) = SumOf(Out(A)) + SumOf(Out(B))
    BY <1>1, <1>3, SumOfUnion
  <1>7. QED
    BY <1>1, <1>4, <1>5, <1>6

\* Every row is income or expense.
LEMMA TotalsOfRows ==
    ASSUME NEW T \in SUBSET Txns
    PROVE  IncomeAndExpense(T).income + IncomeAndExpense(T).expense = SumOf(T)
  <1> DEFINE In == {t \in T : Amount[t] > 0}
             Out == {t \in T : Amount[t] <= 0}
  <1>1. In \cup Out = T /\ In \cap Out = {}
    BY CashflowAssumption
  <1>2. In \in SUBSET Txns /\ Out \in SUBSET Txns
    OBVIOUS
  <1>3. IncomeAndExpense(T).income = SumOf(In) /\ IncomeAndExpense(T).expense = SumOf(Out)
    BY DEF IncomeAndExpense
  <1> HIDE DEF In, Out
  <1>4. SumOf(In \cup Out) = SumOf(In) + SumOf(Out)
    BY <1>1, <1>2, SumOfUnion
  <1>5. QED
    BY <1>1, <1>3, <1>4

\* Every row has one category, or none.
LEMMA BreakdownAddsUp ==
    ASSUME category \in [Txns -> Categories \cup {None}], NEW T \in SUBSET Txns
    PROVE  /\ Breakdown(T) \in [Categories \cup {None} -> Int]
           /\ SumOver(Breakdown(T), Categories \cup {None}) = SumOf(T)
  <1> DEFINE C == Categories \cup {None}
             h == [c \in C |-> SumOver(Amount, {t \in T : category[t] = c})]
  <1>1. IsFiniteSet(C) /\ IsFiniteSet(T)
    BY CashflowAssumption, FS_AddElement, FS_Subset
  <1>2. \A t \in T : category[t] \in C /\ Amount[t] \in Int
    BY CashflowAssumption
  <1>3. Breakdown(T) = h
    BY DEF Breakdown, SumOf, SumOver
  <1>4. \A c \in C : SumOf({t \in T : category[t] = c}) \in Int
    BY SumOfType
  <1>5. Breakdown(T) \in [C -> Int]
    BY <1>4 DEF Breakdown
  <1>6. SumOver(Amount, T) = SumOf(T)
    BY DEF SumOf, SumOver
  <1> HIDE DEF C
  <1>7. SumOver(h, C) = SumOver(Amount, T)
    BY <1>1, <1>2, SumOfClasses
  <1> HIDE DEF h
  <1>8. QED
    BY <1>3, <1>5, <1>6, <1>7 DEF C

LEMMA PeriodRight ==
    ASSUME category \in [Txns -> Categories \cup {None}], NEW T \in SUBSET Txns,
           NEW from \in Nat, NEW to \in Nat
    PROVE  /\ PeriodOf(Period(from, to, T), T)
           /\ Period(from, to, T).from = from /\ Period(from, to, T).to = to
  <1> DEFINE p == Period(from, to, T)
             C == Categories \cup {None}
  <1>1. Breakdown(T) \in [C -> Int] /\ SumOver(Breakdown(T), C) = SumOf(T)
    BY BreakdownAddsUp
  <1>2. /\ p.from = from /\ p.to = to
        /\ p.income = IncomeAndExpense(T).income /\ p.expense = IncomeAndExpense(T).expense
        /\ p.breakdown = Breakdown(T)
    BY DEF Period
  <1>3. IncomeAndExpense(T).income \in Int /\ IncomeAndExpense(T).expense \in Int
    BY TotalsType DEF Totals
  <1>4. p \in Periods
    BY <1>1, <1>3 DEF Period, Periods
  <1>5. DOMAIN p.breakdown = C
    BY <1>1, <1>2
  <1> HIDE DEF p
  <1>6. SumOfBreakdown(p) = SumOver(p.breakdown, DOMAIN p.breakdown)
    BY DEF SumOfBreakdown, SumOver
  <1>7. SumOfBreakdown(p) = SumOf(T)
    BY <1>1, <1>2, <1>5, <1>6
  <1>8. Surplus(p) = SumOf(T)
    BY <1>2, TotalsOfRows DEF Surplus
  <1>9. QED
    BY <1>2, <1>4, <1>7, <1>8 DEF PeriodOf, p

-----------------------------------------------------------------------------
(***************************************************************************)
(* The first day of a month.                                               *)
(***************************************************************************)
LEMMA Largest ==
    ASSUME NEW S, IsFiniteSet(S), S # {}, NEW g, \A x \in S : g[x] \in Int
    PROVE  \E x \in S : \A y \in S : g[y] <= g[x]
  <1> DEFINE U == {T \in SUBSET S : T # {} /\ ~\E x \in T : \A y \in T : g[y] <= g[x]}
  <1>1. SUFFICES ASSUME U # {} PROVE FALSE
    OBVIOUS
  <1>2. PICK T \in U : \A V \in U : V \subseteq T => V = T
    <2>1. U \subseteq SUBSET S
      OBVIOUS
    <2> HIDE DEF U
    <2>2. QED
      BY <1>1, <2>1, SmallestSubset
  <1>3. PICK z \in T : TRUE
    BY <1>2
  <1> DEFINE V == T \ {z}
  <1>4. V # {}
    BY <1>2, <1>3
  <1>5. PICK x \in V : \A y \in V : g[y] <= g[x]
    <2>1. V \in SUBSET S /\ V \subseteq T /\ V # T
      BY <1>2, <1>3
    <2>2. V \notin U
      BY <1>2, <2>1
    <2>3. QED
      BY <1>4, <2>1, <2>2
  <1>6. g[x] \in Int /\ g[z] \in Int /\ \A y \in T : g[y] \in Int
    BY <1>2, <1>3, <1>5
  <1>7. CASE g[z] <= g[x]
    BY <1>2, <1>3, <1>5, <1>7
  <1>8. CASE g[x] < g[z]
    <2>1. \A y \in T : g[y] <= g[z]
      BY <1>5, <1>6, <1>8
    <2>2. QED
      BY <1>2, <1>3, <2>1
  <1>9. QED
    BY <1>6, <1>7, <1>8

LEMMA MonthStartIn ==
    ASSUME NEW s \in Statements
    PROVE  /\ MonthStart(Last[s]) \in Nat
           /\ MonthStart(MonthStart(Last[s])) = MonthStart(Last[s])
  <1> DEFINE M == {m \in MonthStarts : m <= Last[s]}
             g == [m \in M |-> m]
  <1>1. Last[s] \in Nat /\ M \subseteq Nat
    BY CashflowAssumption
  <1>2. M \subseteq 0 .. Last[s]
    BY <1>1
  <1>3. IsFiniteSet(M)
    <2>1. IsFiniteSet(0 .. Last[s])
      BY <1>1, FS_Interval
    <2>2. QED
      BY <1>2, <2>1, FS_Subset
  <1>4. M # {}
    BY CalendarAssumption, CashflowAssumption
  <1>5. \A m \in M : g[m] = m /\ g[m] \in Int
    BY <1>1
  <1> HIDE DEF M, g
  <1>6. PICK x \in M : \A y \in M : g[y] <= g[x]
    BY <1>3, <1>4, <1>5, Largest
  <1>7. \A y \in M : x >= y
    BY <1>1, <1>5, <1>6
  <1>8. Max(M) \in M
    BY <1>7 DEF Max
  <1>9. MonthStart(Last[s]) = Max(M)
    BY DEF MonthStart, M
  <1>10. MonthStart(Last[s]) \in Nat /\ MonthStart(Last[s]) \in MonthStarts
    BY <1>1, <1>8, <1>9 DEF M
  <1> DEFINE d == MonthStart(Last[s])
             L == {m \in MonthStarts : m <= d}
  <1>11. d \in L /\ \A m \in L : d >= m
    BY <1>10
  <1>12. \A n \in L : (\A m \in L : n >= m) => n = d
    BY <1>10, <1>11, CashflowAssumption
  <1> HIDE DEF d
  <1>13. Max(L) = d
    BY <1>11, <1>12 DEF Max
  <1>14. QED
    BY <1>10, <1>13 DEF MonthStart, d

-----------------------------------------------------------------------------
(***************************************************************************)
(* What the SELECTs return.                                                *)
(***************************************************************************)
LEMMA IncludedAll ==
    ASSUME TypeOK, NEW T \in SUBSET Txns PROVE Included(T) = T
  BY DEF TypeOK, Included, INCLUDED_REVIEW_STATUSES, ReviewStatuses

LEMMA RowsBetweenIs ==
    ASSUME TypeOK, NEW from, NEW to
    PROVE  RowsBetween(from, to) = RowsSeen(processed, from, to)
  <1>1. RowsSeen(processed, from, to) \in SUBSET Txns
    BY DEF RowsSeen
  <1>2. RowsBetween(from, to) = Included(RowsSeen(processed, from, to))
    BY DEF RowsBetween, RowsSeen
  <1>3. QED
    BY <1>1, <1>2, IncludedAll

LEMMA WeekRight ==
    ASSUME TypeOK, NEW s \in Statements
    PROVE  WeekOf(Week(s), s)
  <1>1. RowsOf(s) \in SUBSET Txns
    BY DEF RowsOf
  <1>2. Week(s) = Period(First[s], Last[s], RowsOf(s))
    BY <1>1, IncludedAll DEF Week, RowsOf
  <1>3. First[s] \in Nat /\ Last[s] \in Nat /\ category \in [Txns -> Categories \cup {None}]
    BY CashflowAssumption DEF TypeOK
  <1>4. QED
    BY <1>1, <1>2, <1>3, PeriodRight DEF WeekOf

LEMMA MonthRight ==
    ASSUME TypeOK, NEW s \in Statements
    PROVE  LET p == Month(s)
           IN  /\ p.from = MonthStart(Last[s]) /\ p.to = Last[s]
               /\ PeriodOf(p, RowsSeen(processed, p.from, p.to))
  <1> DEFINE from == MonthStart(Last[s])
             T == RowsSeen(processed, from, Last[s])
  <1>1. T \in SUBSET Txns
    BY DEF RowsSeen
  <1>2. Month(s) = Period(from, Last[s], T)
    BY RowsBetweenIs DEF Month
  <1>3. from \in Nat /\ Last[s] \in Nat /\ category \in [Txns -> Categories \cup {None}]
    BY CashflowAssumption, MonthStartIn DEF TypeOK
  <1>4. /\ PeriodOf(Month(s), T)
        /\ Month(s).from = from /\ Month(s).to = Last[s]
    <2> HIDE DEF T, from
    <2>1. QED
      BY <1>1, <1>2, <1>3, PeriodRight
  <1>5. QED
    BY <1>4

LEMMA TotalledRight ==
    ASSUME TypeOK, NEW r \in Runs, HoldsWeek(r)
    PROVE  FiguresRight(Totalled(r))
  <1> DEFINE f == Totalled(r)
  <1>1. f = [of |-> mem[r].of, week |-> mem[r].week, month |-> Month(mem[r].of), seen |-> processed]
    BY DEF Totalled
  <1>2. mem[r].of \in processed /\ mem[r].of \in Statements /\ processed \subseteq Statements
    BY DEF HoldsWeek, TypeOK
  <1>3. WeekOf(mem[r].week, mem[r].of)
    BY DEF HoldsWeek
  <1> DEFINE m == Month(mem[r].of)
  <1>4. /\ m.from = MonthStart(Last[mem[r].of]) /\ m.to = Last[mem[r].of]
        /\ PeriodOf(m, RowsSeen(processed, m.from, m.to))
    BY <1>2, MonthRight
  <1>5. mem[r].week \in Periods /\ m \in Periods
    BY <1>3, <1>4 DEF WeekOf, PeriodOf
  <1> HIDE DEF m
  <1>6. f \in Figures
    BY <1>1, <1>2, <1>5 DEF Figures, m
  <1>7. f.of = mem[r].of /\ f.week = mem[r].week /\ f.month = m /\ f.seen = processed
    BY <1>1 DEF m
  <1> HIDE DEF f
  <1>8. QED
    BY <1>2, <1>3, <1>4, <1>6, <1>7 DEF FiguresRight, f

-----------------------------------------------------------------------------
(***************************************************************************)
(* Each step preserves the invariant.                                      *)
(***************************************************************************)
LEMMA InitRight == Init => IInv
  <1> SUFFICES ASSUME Init PROVE IInv
    OBVIOUS
  <1> USE DEF Init
  <1>1. TypeOK
    <2>1. Blank \in Mem
      BY DEF Blank, Mem
    <2>2. processed \subseteq Statements
      BY CashflowAssumption
    <2>3. review \in [Txns -> ReviewStatuses]
      BY DEF ReviewStatuses
    <2>4. at \in [Runs -> Points]
      BY DEF Points
    <2>5. QED
      BY <2>1, <2>2, <2>3, <2>4 DEF TypeOK
  <1>2. MemRight
    BY DEF MemRight, MemRightFor, Blank
  <1>3. SummaryRight /\ ReportsRight
    BY DEF SummaryRight, ReportsRight
  <1>4. QED
    BY <1>1, <1>2, <1>3 DEF IInv

\* A run is not disturbed by steps that leave its data alone.
LEMMA Undisturbed ==
    ASSUME NEW r \in Runs, MemRightFor(r), processed \subseteq processed',
           at'[r] = at[r], mem'[r] = mem[r]
    PROVE  MemRightFor(r)'
  BY DEF MemRightFor, HoldsWeek

LEMMA OtherSteps ==
    ASSUME IInv, TypeOK', processed \subseteq processed', UNCHANGED <<at, mem, summary, reports>>
    PROVE  IInv'
  <1>1. MemRight'
    BY Undisturbed DEF IInv, MemRight
  <1>2. SummaryRight' /\ ReportsRight'
    BY DEF IInv, SummaryRight, ReportsRight
  <1>3. QED
    BY <1>1, <1>2 DEF IInv

LEMMA ProcessRight ==
    ASSUME IInv, NEW s \in Statements, Process(s) PROVE IInv'
  <1>1. TypeOK' /\ processed \subseteq processed' /\ UNCHANGED <<at, mem, summary, reports>>
    BY DEF IInv, TypeOK, Process
  <1>2. QED
    BY <1>1, OtherSteps

LEMMA PersistCategoryRight ==
    ASSUME IInv, NEW t \in Txns, PersistCategory(t) PROVE IInv'
  <1>1. processed' = processed /\ UNCHANGED <<at, mem, summary, reports>>
    BY DEF PersistCategory
  <1>2. category' \in [Txns -> Categories \cup {None}] /\ review' \in [Txns -> ReviewStatuses]
    BY DEF IInv, TypeOK, PersistCategory
  <1>3. TypeOK'
    BY <1>1, <1>2 DEF IInv, TypeOK
  <1>4. QED
    BY <1>1, <1>3, OtherSteps

(***************************************************************************)
(* A node of run r: what is left to show is about r's own data.            *)
(***************************************************************************)
LEMMA NodeTypes ==
    ASSUME IInv, NEW r \in Runs, NEW from \in Points, NEW to \in Points, Goes(r, from, to),
           NEW m \in Mem, mem' = [mem EXCEPT ![r] = m]
    PROVE  /\ processed' = processed /\ category' = category /\ review' = review
           /\ at'[r] = to /\ mem'[r] = m
           /\ at' \in [Runs -> Points] /\ mem' \in [Runs -> Mem]
  BY DEF IInv, TypeOK, Goes

LEMMA NodeRight ==
    ASSUME IInv, NEW r \in Runs, NEW from \in Points, NEW to \in Points, Goes(r, from, to),
           NEW m \in Mem, mem' = [mem EXCEPT ![r] = m], MemRightFor(r)'
    PROVE  MemRight'
  <1> SUFFICES ASSUME NEW q \in Runs PROVE MemRightFor(q)'
    BY DEF MemRight
  <1>1. CASE q = r
    BY <1>1
  <1>2. CASE q # r
    <2>1. at'[q] = at[q] /\ mem'[q] = mem[q] /\ processed' = processed
      BY <1>2 DEF IInv, TypeOK, Goes
    <2>2. MemRightFor(q)
      BY DEF IInv, MemRight
    <2>3. QED
      BY <2>1, <2>2, Undisturbed
  <1>3. QED
    BY <1>1, <1>2

LEMMA StoredUnchanged ==
    ASSUME IInv, UNCHANGED <<summary, reports>> PROVE SummaryRight' /\ ReportsRight'
  BY DEF IInv, SummaryRight, ReportsRight

LEMMA TakeWeekRight ==
    ASSUME IInv, NEW r \in Runs, NEW from \in {"aggregate", "recount"},
           NEW to \in {"rolling", "reroll"}, TakeWeek(r, from, to)
    PROVE  IInv'
  <1>1. PICK s \in Latest : mem' = [mem EXCEPT ![r].of = s, ![r].week = Week(s)]
    BY DEF TakeWeek
  <1> DEFINE m == [mem[r] EXCEPT !.of = s, !.week = Week(s)]
  <1>2. s \in processed /\ processed \subseteq Statements /\ mem[r] \in Mem
    BY <1>1 DEF Latest, IInv, TypeOK
  <1>3. Goes(r, from, to) /\ mem' = [mem EXCEPT ![r] = m]
    BY <1>1 DEF TakeWeek
  <1>4. WeekOf(Week(s), s)
    BY <1>2, WeekRight DEF IInv
  <1>5. m \in Mem
    BY <1>2, <1>4 DEF Mem, WeekOf, PeriodOf
  <1>6. m.of = s /\ m.week = Week(s) /\ m.previous = mem[r].previous
    BY <1>2 DEF Mem
  <1> HIDE DEF m
  <1>7. from \in Points /\ to \in Points
    BY DEF Points
  <1>8. /\ processed' = processed /\ category' = category /\ review' = review
        /\ at'[r] = to /\ mem'[r] = m
        /\ at' \in [Runs -> Points] /\ mem' \in [Runs -> Mem]
    BY <1>3, <1>5, <1>7, NodeTypes
  <1>9. mem[r].previous = None
    BY <1>3 DEF Goes, IInv, MemRight, MemRightFor
  <1>10. MemRightFor(r)'
    BY <1>2, <1>4, <1>6, <1>8, <1>9 DEF MemRightFor, HoldsWeek
  <1>11. MemRight'
    BY <1>3, <1>5, <1>7, <1>10, NodeRight
  <1>12. UNCHANGED <<summary, reports>>
    BY DEF TakeWeek
  <1>13. QED
    BY <1>8, <1>11, <1>12, StoredUnchanged DEF IInv, TypeOK

LEMMA NothingToDoRight ==
    ASSUME IInv, NEW r \in Runs, NEW from \in {"aggregate", "types"},
           NEW to \in {"types", "END"}, NothingToDo(r, from, to)
    PROVE  IInv'
  <1>1. Goes(r, from, to) /\ mem' = [mem EXCEPT ![r] = mem[r]]
    BY DEF NothingToDo, IInv, TypeOK
  <1>2. mem[r] \in Mem
    BY DEF IInv, TypeOK
  <1>3. from \in Points /\ to \in Points
    BY DEF Points
  <1>4. /\ processed' = processed /\ category' = category /\ review' = review
        /\ at'[r] = to /\ mem'[r] = mem[r]
        /\ at' \in [Runs -> Points] /\ mem' \in [Runs -> Mem]
    BY <1>1, <1>2, <1>3, NodeTypes
  <1>5. mem[r].previous = None
    BY <1>1 DEF Goes, IInv, MemRight, MemRightFor
  <1>6. MemRightFor(r)'
    BY <1>4, <1>5 DEF MemRightFor
  <1>7. MemRight'
    BY <1>1, <1>2, <1>3, <1>6, NodeRight
  <1>8. UNCHANGED <<summary, reports>>
    BY DEF NothingToDo
  <1>9. QED
    BY <1>4, <1>7, <1>8, StoredUnchanged DEF IInv, TypeOK

LEMMA AggregateRight ==
    ASSUME IInv, NEW r \in Runs, Aggregate(r) PROVE IInv'
  BY TakeWeekRight, NothingToDoRight DEF Aggregate

LEMMA TotalRight ==
    ASSUME IInv, NEW r \in Runs, NEW from \in {"rolling", "reroll"},
           NEW to \in {"upsert", "compare", "persist"}, Goes(r, from, to),
           mem' = [mem EXCEPT ![r].figures = Totalled(r)],
           UNCHANGED <<summary, reports>>
    PROVE  IInv'
  <1> DEFINE m == [mem[r] EXCEPT !.figures = Totalled(r)]
  <1>1. mem' = [mem EXCEPT ![r] = m]
    OBVIOUS
  <1>2. mem[r] \in Mem
    BY DEF IInv, TypeOK
  <1>3. FiguresRight(Totalled(r))
    <2>1. HoldsWeek(r)
      BY DEF Goes, IInv, MemRight, MemRightFor
    <2>2. QED
      BY <2>1, TotalledRight DEF IInv
  <1>4. m \in Mem
    BY <1>2, <1>3 DEF Mem, FiguresRight
  <1>5. m.figures = Totalled(r) /\ m.previous = mem[r].previous
    BY <1>2 DEF Mem
  <1> HIDE DEF m
  <1>6. from \in Points /\ to \in Points
    BY DEF Points
  <1>7. /\ processed' = processed /\ category' = category /\ review' = review
        /\ at'[r] = to /\ mem'[r] = m
        /\ at' \in [Runs -> Points] /\ mem' \in [Runs -> Mem]
    BY <1>1, <1>4, <1>6, NodeTypes
  <1>8. mem[r].previous = None
    BY DEF Goes, IInv, MemRight, MemRightFor
  <1>9. MemRightFor(r)'
    BY <1>3, <1>5, <1>7, <1>8 DEF MemRightFor
  <1>10. MemRight'
    BY <1>1, <1>4, <1>6, <1>9, NodeRight
  <1>11. QED
    BY <1>7, <1>10, StoredUnchanged DEF IInv, TypeOK

LEMMA RollRight ==
    ASSUME IInv, NEW r \in Runs, Roll(r) PROVE IInv'
  BY TotalRight DEF Roll

LEMMA UpsertRight ==
    ASSUME IInv, NEW r \in Runs, Upsert(r) PROVE IInv'
  <1>1. Goes(r, "upsert", "types") /\ mem' = [mem EXCEPT ![r] = Blank]
        /\ summary' = [summary EXCEPT ![r] = mem[r].figures] /\ reports' = reports
    BY DEF Upsert
  <1>2. Blank \in Mem /\ Blank.previous = None
    BY DEF Blank, Mem
  <1>3. "upsert" \in Points /\ "types" \in Points
    BY DEF Points
  <1>4. /\ processed' = processed /\ category' = category /\ review' = review
        /\ at'[r] = "types" /\ mem'[r] = Blank
        /\ at' \in [Runs -> Points] /\ mem' \in [Runs -> Mem]
    BY <1>1, <1>2, <1>3, NodeTypes
  <1>5. MemRightFor(r)'
    BY <1>2, <1>4 DEF MemRightFor
  <1>6. MemRight'
    BY <1>1, <1>2, <1>3, <1>5, NodeRight
  <1>7. FiguresRight(mem[r].figures)
    BY <1>1 DEF Goes, IInv, MemRight, MemRightFor
  <1>8. mem[r].figures \in Figures
    BY <1>7 DEF FiguresRight
  <1>9. TypeOK'
    BY <1>1, <1>4, <1>8 DEF IInv, TypeOK
  <1>10. SummaryRight'
    BY <1>1, <1>7 DEF IInv, TypeOK, SummaryRight
  <1>11. ReportsRight'
    BY <1>1 DEF IInv, ReportsRight
  <1>12. QED
    BY <1>6, <1>9, <1>10, <1>11 DEF IInv

LEMMA DetermineRight ==
    ASSUME IInv, NEW r \in Runs, Determine(r) PROVE IInv'
  <1>1. CASE NothingToDo(r, "types", "END")
    BY <1>1, NothingToDoRight
  <1>2. ASSUME Goes(r, "types", "recount"), UNCHANGED <<summary, reports>>,
               NEW s \in Latest, mem' = [mem EXCEPT ![r].monthly = EndsMonth(Last[s])]
        PROVE  IInv'
    <2> DEFINE ends == EndsMonth(Last[s])
               m == [mem[r] EXCEPT !.monthly = ends]
    <2>0. ends \in BOOLEAN
      BY DEF EndsMonth
    <2>1. mem' = [mem EXCEPT ![r] = m]
      BY <1>2
    <2>2. mem[r] \in Mem
      BY DEF IInv, TypeOK
    <2> HIDE DEF ends
    <2>3. m \in Mem
      BY <2>0, <2>2 DEF Mem
    <2>4. m.previous = mem[r].previous
      BY <2>2 DEF Mem
    <2> HIDE DEF m
    <2>5. "types" \in Points /\ "recount" \in Points
      BY DEF Points
    <2>6. /\ processed' = processed /\ category' = category /\ review' = review
          /\ at'[r] = "recount" /\ mem'[r] = m
          /\ at' \in [Runs -> Points] /\ mem' \in [Runs -> Mem]
      BY <1>2, <2>1, <2>3, <2>5, NodeTypes
    <2>7. mem[r].previous = None
      BY <1>2 DEF Goes, IInv, MemRight, MemRightFor
    <2>8. MemRightFor(r)'
      BY <2>4, <2>6, <2>7 DEF MemRightFor
    <2>9. MemRight'
      BY <1>2, <2>1, <2>3, <2>5, <2>8, NodeRight
    <2>10. QED
      BY <1>2, <2>6, <2>9, StoredUnchanged DEF IInv, TypeOK
  <1>3. QED
    BY <1>1, <1>2 DEF Determine

LEMMA RecountRight ==
    ASSUME IInv, NEW r \in Runs, Recount(r) PROVE IInv'
  BY TakeWeekRight DEF Recount

LEMMA RerollRight ==
    ASSUME IInv, NEW r \in Runs, Reroll(r) PROVE IInv'
  BY TotalRight DEF Reroll

LEMMA CompareRight ==
    ASSUME IInv, NEW r \in Runs, Compare(r) PROVE IInv'
  <1> DEFINE f == mem[r].figures
             to == PreviousMonthEnd(f.month.from)
             totals == IncomeAndExpense(RowsBetween(MonthStart(to), to))
             m == [mem[r] EXCEPT !.previous = totals, !.seen = processed]
  <1>1. Goes(r, "compare", "persist") /\ mem' = [mem EXCEPT ![r] = m]
    BY DEF Compare
  <1>2. mem[r] \in Mem /\ processed \subseteq Statements
    BY DEF IInv, TypeOK
  <1>3. totals = IncomeAndExpense(RowsSeen(processed, MonthStart(to), to))
    BY RowsBetweenIs DEF IInv
  <1>4. totals \in Totals
    <2>1. RowsSeen(processed, MonthStart(to), to) \in SUBSET Txns
      BY DEF RowsSeen
    <2>2. QED
      BY <1>3, <2>1, TotalsType
  <1>5. PreviousRight(totals, f, processed)
    BY <1>3 DEF PreviousRight
  <1> HIDE DEF totals
  <1>6. m \in Mem
    BY <1>2, <1>4 DEF Mem
  <1>7. m.figures = f /\ m.previous = totals /\ m.seen = processed
    BY <1>2 DEF Mem
  <1>8. FiguresRight(f)
    BY <1>1 DEF Goes, IInv, MemRight, MemRightFor
  <1> HIDE DEF m
  <1>9. "compare" \in Points /\ "persist" \in Points
    BY DEF Points
  <1>10. /\ processed' = processed /\ category' = category /\ review' = review
         /\ at'[r] = "persist" /\ mem'[r] = m
         /\ at' \in [Runs -> Points] /\ mem' \in [Runs -> Mem]
    BY <1>1, <1>6, <1>9, NodeTypes
  <1> HIDE DEF f
  <1>11. MemRightFor(r)'
    BY <1>5, <1>7, <1>8, <1>10 DEF MemRightFor
  <1>12. MemRight'
    BY <1>1, <1>6, <1>9, <1>11, NodeRight
  <1>13. UNCHANGED <<summary, reports>>
    BY DEF Compare
  <1>14. QED
    BY <1>10, <1>12, <1>13, StoredUnchanged DEF IInv, TypeOK

LEMMA PersistRight ==
    ASSUME IInv, NEW r \in Runs, Persist(r) PROVE IInv'
  <1> DEFINE p == [figures |-> mem[r].figures, previous |-> mem[r].previous, seen |-> mem[r].seen]
  <1>1. Goes(r, "persist", "END") /\ mem' = [mem EXCEPT ![r] = Blank]
        /\ reports' = [reports EXCEPT ![r] = p] /\ summary' = summary
    BY DEF Persist
  <1>2. Blank \in Mem /\ Blank.previous = None
    BY DEF Blank, Mem
  <1>3. "persist" \in Points /\ "END" \in Points
    BY DEF Points
  <1>4. /\ processed' = processed /\ category' = category /\ review' = review
        /\ at'[r] = "END" /\ mem'[r] = Blank
        /\ at' \in [Runs -> Points] /\ mem' \in [Runs -> Mem]
    BY <1>1, <1>2, <1>3, NodeTypes
  <1>5. MemRightFor(r)'
    BY <1>2, <1>4 DEF MemRightFor
  <1>6. MemRight'
    BY <1>1, <1>2, <1>3, <1>5, NodeRight
  <1>7. /\ FiguresRight(p.figures)
        /\ p.previous # None => PreviousRight(p.previous, p.figures, p.seen)
    BY <1>1 DEF Goes, IInv, MemRight, MemRightFor
  <1>8. p \in Reports
    BY <1>7 DEF IInv, TypeOK, Mem, Reports, FiguresRight
  <1> HIDE DEF p
  <1>9. TypeOK'
    BY <1>1, <1>4, <1>8 DEF IInv, TypeOK
  <1>10. ReportsRight'
    BY <1>1, <1>7 DEF IInv, TypeOK, ReportsRight
  <1>11. SummaryRight'
    BY <1>1 DEF IInv, SummaryRight
  <1>12. QED
    BY <1>6, <1>9, <1>10, <1>11 DEF IInv

LEMMA NextRight == IInv /\ [Next]_vars => IInv'
  <1> SUFFICES ASSUME IInv, [Next]_vars PROVE IInv'
    OBVIOUS
  <1>1. ASSUME NEW s \in Statements, Process(s) PROVE IInv'
    BY <1>1, ProcessRight
  <1>2. ASSUME NEW t \in Txns, PersistCategory(t) PROVE IInv'
    BY <1>2, PersistCategoryRight
  <1>3. ASSUME NEW r \in Runs, Aggregate(r) PROVE IInv'
    BY <1>3, AggregateRight
  <1>4. ASSUME NEW r \in Runs, Roll(r) PROVE IInv'
    BY <1>4, RollRight
  <1>5. ASSUME NEW r \in Runs, Determine(r) PROVE IInv'
    BY <1>5, DetermineRight
  <1>0. ASSUME NEW r \in Runs, Upsert(r) PROVE IInv'
    BY <1>0, UpsertRight
  <1>6. ASSUME NEW r \in Runs, Recount(r) PROVE IInv'
    BY <1>6, RecountRight
  <1>7. ASSUME NEW r \in Runs, Reroll(r) PROVE IInv'
    BY <1>7, RerollRight
  <1>8. ASSUME NEW r \in Runs, Compare(r) PROVE IInv'
    BY <1>8, CompareRight
  <1>9. ASSUME NEW r \in Runs, Persist(r) PROVE IInv'
    BY <1>9, PersistRight
  <1>10. CASE UNCHANGED vars
    <2>1. TypeOK' /\ processed \subseteq processed' /\ UNCHANGED <<at, mem, summary, reports>>
      BY <1>10 DEF vars, IInv, TypeOK
    <2>2. QED
      BY <2>1, OtherSteps
  <1>11. QED
    BY <1>1, <1>2, <1>3, <1>4, <1>5, <1>6, <1>7, <1>8, <1>9, <1>10, <1>0 DEF Next

LEMMA AlwaysIInv == Spec => []IInv
  BY InitRight, NextRight, PTL DEF Spec

-----------------------------------------------------------------------------
(***************************************************************************)
(* The theorems.                                                           *)
(***************************************************************************)

(***************************************************************************)
(* The tables and the local data of the nodes keep their types: an amount  *)
(* is always a number, and a report always has its figures.                *)
(***************************************************************************)
THEOREM TypeCorrect == Spec => []TypeOK
  <1>1. IInv => TypeOK
    BY DEF IInv
  <1>2. QED
    BY <1>1, AlwaysIInv, PTL

LEMMA AllRight == ASSUME IInv, NEW f \in AllFigures PROVE FiguresRight(f)
  BY DEF IInv, AllFigures, SummaryRight, ReportsRight

LEMMA RightFacts ==
    ASSUME NEW f, FiguresRight(f)
    PROVE  /\ f.of \in Statements /\ f.of \in f.seen /\ f.seen \in SUBSET Statements
           /\ f.month.from = MonthStart(Last[f.of]) /\ f.month.to = Last[f.of]
           /\ f.month.from \in Nat
           /\ \A k \in {"income", "expense"} :
                /\ f.week[k] = IncomeAndExpense(RowsOf(f.of))[k]
                /\ f.month[k] = IncomeAndExpense(RowsSeen(f.seen, f.month.from, f.month.to))[k]
  BY DEF FiguresRight, WeekOf, PeriodOf, Figures, Periods

\* Rows of a period belong to statements that touch it.
LEMMA RowsTouch ==
    ASSUME NEW A, NEW from \in Nat, NEW to \in Nat, NEW t \in RowsSeen(A, from, to)
    PROVE  /\ t \in Txns /\ StatementOf[t] \in A /\ StatementOf[t] \in Statements
           /\ StatementOf[t] \in Touching(from, to)
           /\ Day[t] \in Nat /\ from <= Day[t] /\ Day[t] <= to
           /\ First[StatementOf[t]] <= Day[t] /\ Day[t] <= Last[StatementOf[t]]
  <1>1. t \in Txns /\ StatementOf[t] \in A /\ from <= Day[t] /\ Day[t] <= to
    BY DEF RowsSeen
  <1>2. Day[t] \in Nat /\ StatementOf[t] \in Statements
    BY <1>1, CashflowAssumption
  <1>3. First[StatementOf[t]] \in Nat /\ Last[StatementOf[t]] \in Nat
    BY <1>2, CashflowAssumption
  <1>4. First[StatementOf[t]] <= Day[t] /\ Day[t] <= Last[StatementOf[t]]
    BY <1>1, <1>2, <1>3, PeriodAssumption
  <1>5. QED
    BY <1>1, <1>2, <1>3, <1>4 DEF Touching

-----------------------------------------------------------------------------
LEMMA EveryRowRight ==
    ASSUME NEW f, FiguresRight(f)
    PROVE  /\ Surplus(f.week) = SumOf(RowsOf(f.of))
           /\ Surplus(f.month) = SumOf(RowsSeen(f.seen, f.month.from, f.month.to))
           /\ SumOfBreakdown(f.week) = Surplus(f.week)
           /\ SumOfBreakdown(f.month) = Surplus(f.month)
  <1>1. ASSUME NEW p, NEW T \in SUBSET Txns, PeriodOf(p, T)
        PROVE  Surplus(p) = SumOf(T) /\ SumOfBreakdown(p) = Surplus(p)
    BY <1>1, TotalsOfRows DEF PeriodOf, Surplus
  <1>2. /\ RowsOf(f.of) \in SUBSET Txns
        /\ RowsSeen(f.seen, f.month.from, f.month.to) \in SUBSET Txns
    BY DEF RowsOf, RowsSeen
  <1>3. /\ PeriodOf(f.week, RowsOf(f.of))
        /\ PeriodOf(f.month, RowsSeen(f.seen, f.month.from, f.month.to))
    BY DEF FiguresRight, WeekOf
  <1>4. QED
    BY <1>1, <1>2, <1>3

(***************************************************************************)
(* No row is lost: the surplus of a week is the sum of its statement's     *)
(* rows, that of a month the sum of the rows dated in it, and categories   *)
(* add up to them, however statements, rows and runs interleave.           *)
(***************************************************************************)
THEOREM EveryRowHolds == Spec => []EveryRowCounts
  <1>1. IInv => EveryRowCounts
    BY AllRight, EveryRowRight DEF EveryRowCounts, RowsOf
  <1>2. QED
    BY <1>1, AlwaysIInv, PTL

-----------------------------------------------------------------------------
\* The first week of a month is the month.
LEMMA FirstWeek ==
    ASSUME NEW g, FiguresRight(g), g.month.from <= First[g.of], SeenInMonth(g) = {g.of}
    PROVE  RowsSeen(g.seen, g.month.from, g.month.to) = RowsOf(g.of)
  <1>1. /\ g.of \in Statements /\ g.of \in g.seen
        /\ g.month.from \in Nat /\ g.month.to = Last[g.of]
    BY RightFacts
  <1>2. First[g.of] \in Nat /\ Last[g.of] \in Nat
    BY <1>1, CashflowAssumption
  <1>3. ASSUME NEW t \in RowsSeen(g.seen, g.month.from, g.month.to) PROVE t \in RowsOf(g.of)
    <2>1. /\ t \in Txns /\ StatementOf[t] \in g.seen
          /\ StatementOf[t] \in Touching(g.month.from, g.month.to)
      BY <1>1, <1>2, RowsTouch
    <2>2. QED
      BY <2>1 DEF SeenInMonth, RowsOf
  <1>4. ASSUME NEW t \in RowsOf(g.of) PROVE t \in RowsSeen(g.seen, g.month.from, g.month.to)
    <2>1. t \in Txns /\ StatementOf[t] = g.of /\ Day[t] \in Nat
      BY CashflowAssumption DEF RowsOf
    <2>2. First[g.of] <= Day[t] /\ Day[t] <= Last[g.of]
      BY <1>2, <2>1, PeriodAssumption
    <2>3. QED
      BY <1>1, <1>2, <2>1, <2>2 DEF RowsSeen
  <1>5. QED
    BY <1>3, <1>4

\* One statement more is one week more.
LEMMA OneMoreWeek ==
    ASSUME NEW g, FiguresRight(g), NEW f, FiguresRight(f), g.month.from <= First[g.of],
           f.month.from = g.month.from, g.of \notin f.seen,
           CutsNone(g), CutsNone(f), SeenInMonth(g) = SeenInMonth(f) \cup {g.of}
    PROVE  /\ RowsSeen(g.seen, g.month.from, g.month.to)
                = RowsSeen(f.seen, f.month.from, f.month.to) \cup RowsOf(g.of)
           /\ RowsSeen(f.seen, f.month.from, f.month.to) \cap RowsOf(g.of) = {}
  <1> DEFINE from == g.month.from
             G == RowsSeen(g.seen, from, g.month.to)
             F == RowsSeen(f.seen, from, f.month.to)
  <1>1. /\ g.of \in Statements /\ g.of \in g.seen
        /\ from \in Nat /\ g.month.to = Last[g.of]
        /\ f.of \in Statements /\ f.month.to = Last[f.of]
    BY RightFacts
  <1>2. First[g.of] \in Nat /\ Last[g.of] \in Nat /\ Last[f.of] \in Nat
    BY <1>1, CashflowAssumption
  <1>3. ASSUME NEW t \in G PROVE t \in F \cup RowsOf(g.of)
    <2>1. /\ t \in Txns /\ StatementOf[t] \in g.seen /\ StatementOf[t] \in Statements
          /\ StatementOf[t] \in Touching(from, g.month.to)
          /\ Day[t] \in Nat /\ from <= Day[t] /\ Day[t] <= Last[StatementOf[t]]
      BY <1>1, <1>2, RowsTouch
    <2>2. CASE StatementOf[t] = g.of
      BY <2>1, <2>2 DEF RowsOf
    <2>3. CASE StatementOf[t] # g.of
      <3>1. StatementOf[t] \in f.seen /\ StatementOf[t] \in Touching(from, Last[f.of])
        BY <1>1, <2>1, <2>3 DEF SeenInMonth
      <3>2. Last[StatementOf[t]] <= Last[f.of]
        BY <1>1, <3>1 DEF CutsNone, SeenInMonth
      <3>3. Last[StatementOf[t]] \in Nat
        BY <2>1, CashflowAssumption
      <3>4. Day[t] <= Last[f.of]
        BY <1>2, <2>1, <3>2, <3>3
      <3>5. QED
        BY <1>1, <2>1, <3>1, <3>4 DEF RowsSeen
    <2>4. QED
      BY <2>2, <2>3
  <1>4. ASSUME NEW t \in F PROVE t \in G
    <2>1. /\ t \in Txns /\ StatementOf[t] \in f.seen /\ StatementOf[t] \in Statements
          /\ StatementOf[t] \in Touching(from, f.month.to)
          /\ Day[t] \in Nat /\ from <= Day[t] /\ Day[t] <= Last[StatementOf[t]]
      BY <1>1, <1>2, RowsTouch
    <2>2. StatementOf[t] \in g.seen /\ StatementOf[t] \in Touching(from, Last[g.of])
      BY <1>1, <2>1 DEF SeenInMonth
    <2>3. Last[StatementOf[t]] <= Last[g.of] /\ Last[StatementOf[t]] \in Nat
      BY <1>1, <2>1, <2>2, CashflowAssumption DEF CutsNone, SeenInMonth
    <2>4. Day[t] <= Last[g.of]
      BY <1>2, <2>1, <2>3
    <2>5. QED
      BY <1>1, <2>1, <2>2, <2>4 DEF RowsSeen
  <1>5. ASSUME NEW t \in RowsOf(g.of) PROVE t \in G
    <2>1. t \in Txns /\ StatementOf[t] = g.of /\ Day[t] \in Nat
      BY CashflowAssumption DEF RowsOf
    <2>2. First[g.of] <= Day[t] /\ Day[t] <= Last[g.of]
      BY <1>2, <2>1, PeriodAssumption
    <2>3. QED
      BY <1>1, <1>2, <2>1, <2>2 DEF RowsSeen
  <1>6. F \cap RowsOf(g.of) = {}
    BY DEF RowsSeen, RowsOf
  <1>7. QED
    BY <1>3, <1>4, <1>5, <1>6

(***************************************************************************)
(* The rolling month grows by whole weeks, whichever of two runs computed  *)
(* the figures and whatever was processed in between.                      *)
(***************************************************************************)
THEOREM RollingHolds == Spec => []RollingFollowsWeeks
  <1>1. ASSUME IInv PROVE RollingFollowsWeeks
    <2> SUFFICES ASSUME NEW g \in AllFigures, NEW k \in {"income", "expense"},
                        g.month.from <= First[g.of], CutsNone(g)
                 PROVE  /\ SeenInMonth(g) = {g.of} => g.month[k] = g.week[k]
                        /\ \A f \in AllFigures :
                            /\ f.month.from = g.month.from /\ g.of \notin f.seen /\ CutsNone(f)
                            /\ SeenInMonth(g) = SeenInMonth(f) \cup {g.of}
                            => g.month[k] = f.month[k] + g.week[k]
      BY DEF RollingFollowsWeeks
    <2>1. FiguresRight(g)
      BY <1>1, AllRight
    <2>2. /\ g.week[k] = IncomeAndExpense(RowsOf(g.of))[k]
          /\ g.month[k] = IncomeAndExpense(RowsSeen(g.seen, g.month.from, g.month.to))[k]
      BY <2>1, RightFacts
    <2>3. ASSUME SeenInMonth(g) = {g.of} PROVE g.month[k] = g.week[k]
      BY <2>1, <2>2, <2>3, FirstWeek
    <2>4. ASSUME NEW f \in AllFigures, f.month.from = g.month.from, g.of \notin f.seen, CutsNone(f),
                 SeenInMonth(g) = SeenInMonth(f) \cup {g.of}
          PROVE  g.month[k] = f.month[k] + g.week[k]
      <3> DEFINE F == RowsSeen(f.seen, f.month.from, f.month.to)
                 W == RowsOf(g.of)
      <3>1. FiguresRight(f)
        BY <1>1, AllRight
      <3>2. f.month[k] = IncomeAndExpense(F)[k]
        BY <3>1, RightFacts
      <3>3. RowsSeen(g.seen, g.month.from, g.month.to) = F \cup W /\ F \cap W = {}
        BY <2>1, <2>4, <3>1, OneMoreWeek
      <3>4. F \in SUBSET Txns /\ W \in SUBSET Txns
        BY DEF RowsSeen, RowsOf
      <3> HIDE DEF F, W
      <3>5. IncomeAndExpense(F \cup W)[k] = IncomeAndExpense(F)[k] + IncomeAndExpense(W)[k]
        BY <3>3, <3>4, TotalsUnion
      <3>6. QED
        BY <2>2, <3>2, <3>3, <3>5 DEF W
    <2>5. QED
      BY <2>3, <2>4
  <1>2. QED
    BY <1>1, AlwaysIInv, PTL

-----------------------------------------------------------------------------
(***************************************************************************)
(* A monthly report compares with what the monthly report of the month     *)
(* before said, provided that report saw the same statements of its month. *)
(***************************************************************************)
THEOREM ComparisonHolds == Spec => []ComparisonIsLastMonth
  <1>1. ASSUME IInv PROVE ComparisonIsLastMonth
    <2> SUFFICES ASSUME NEW a \in MonthlyReports, NEW b \in MonthlyReports,
                        a.figures.month.to + 1 = b.figures.month.from,
                        a.figures.seen \cap Touching(a.figures.month.from, a.figures.month.to)
                          = b.seen \cap Touching(a.figures.month.from, a.figures.month.to)
                 PROVE  b.previous = [income  |-> a.figures.month.income,
                                      expense |-> a.figures.month.expense]
      BY DEF ComparisonIsLastMonth
    <2> DEFINE f == a.figures
               from == f.month.from
               to == f.month.to
    <2>1. FiguresRight(f) /\ FiguresRight(b.figures) /\ PreviousRight(b.previous, b.figures, b.seen)
      BY <1>1 DEF IInv, ReportsRight, MonthlyReports
    <2>2. from \in Nat /\ to \in Nat /\ from = MonthStart(to) /\ b.figures.month.from \in Nat
      <3>1. f.of \in Statements /\ from = MonthStart(Last[f.of]) /\ to = Last[f.of] /\ from \in Nat
        BY <2>1, RightFacts
      <3>2. b.figures.month.from \in Nat
        BY <2>1, RightFacts
      <3>3. QED
        BY <3>1, <3>2, CashflowAssumption
    <2>3. PreviousMonthEnd(b.figures.month.from) = to
      <3>1. b.figures.month.from = to + 1
        OBVIOUS
      <3>2. MonthStart(b.figures.month.from) = b.figures.month.from
        BY <2>1, RightFacts, MonthStartIn
      <3>3. to \in Nat
        BY <2>2
      <3> HIDE DEF to
      <3>4. QED
        BY <3>1, <3>2, <3>3 DEF PreviousMonthEnd
    <2>4. b.previous = IncomeAndExpense(RowsSeen(b.seen, from, to))
      BY <2>1, <2>2, <2>3 DEF PreviousRight
    <2>5. RowsSeen(b.seen, from, to) = RowsSeen(f.seen, from, to)
      <3> HIDE DEF f, from, to
      <3>1. f.seen \cap Touching(from, to) = b.seen \cap Touching(from, to)
        BY DEF f, from, to
      <3>2. ASSUME NEW t \in RowsSeen(b.seen, from, to) PROVE t \in RowsSeen(f.seen, from, to)
        BY <2>2, <3>1, RowsTouch DEF RowsSeen
      <3>3. ASSUME NEW t \in RowsSeen(f.seen, from, to) PROVE t \in RowsSeen(b.seen, from, to)
        BY <2>2, <3>1, RowsTouch DEF RowsSeen
      <3>4. QED
        BY <3>2, <3>3
    <2>6. /\ f.month.income = IncomeAndExpense(RowsSeen(f.seen, from, to)).income
          /\ f.month.expense = IncomeAndExpense(RowsSeen(f.seen, from, to)).expense
      BY <2>1, RightFacts DEF FiguresRight, PeriodOf
    <2>7. QED
      BY <2>4, <2>5, <2>6 DEF IncomeAndExpense
  <1>2. QED
    BY <1>1, AlwaysIInv, PTL
===============================================================================
