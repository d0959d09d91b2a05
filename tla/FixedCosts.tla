------------------------------ MODULE FixedCosts ------------------------------
(***************************************************************************)
(* The greedy match of subgraphs/fixed_costs/nodes.py, which gives each    *)
(* fixed cost the unclaimed transaction of its category whose amount is    *)
(* closest to what is expected.  Rows come from SELECTs without ORDER BY,  *)
(* so the order of the costs is any, and min() takes any of the closest.   *)
(***************************************************************************)
EXTENDS Integers, FiniteSets, Functions

CONSTANTS
    Txns,         \* ids of transactions
    Costs,        \* ids of fixed costs
    None,         \* NULL
    Amount,       \* transaction -> |amount|
    CategoryOf,   \* transaction or fixed cost -> its category
    Expected      \* fixed cost -> expected_amount

ASSUME FixedCostsAssumption ==
    /\ IsFiniteSet(Costs)
    /\ None \notin Txns \cup Costs
    /\ Amount \in [Txns -> Nat]
    /\ Expected \in [Costs -> Nat]

Abs(n) == IF n < 0 THEN -n ELSE n
Distance(t, c) == Abs(Amount[t] - Expected[c])

Plans   == [Costs -> Txns \cup {None}]
NoMatch == [c \in Costs |-> None]

\* Mutant: the first candidate, not the closest.
AnyChoice(plan, c, open, taken) ==
    LET candidates == {t \in open \ taken : CategoryOf[t] = CategoryOf[c]}
    IN IF candidates = {} THEN plan[c] = None ELSE plan[c] \in candidates

\* Is plan[c] what match_transactions gives c when the transactions of `taken` are
\* claimed already?
GreedyChoice(plan, c, open, taken) ==
    LET candidates == {t \in open \ taken : CategoryOf[t] = CategoryOf[c]}
    IN IF candidates = {} THEN plan[c] = None
       ELSE /\ plan[c] \in candidates
            /\ \A t \in candidates : Distance(plan[c], c) <= Distance(t, c)

\* The results of match_transactions over the unmatched transactions `open`.
Matches(open) ==
    {plan \in [Costs -> open \cup {None}] :
        \E order \in Bijection(1..Cardinality(Costs), Costs) :
            \A i \in DOMAIN order :
                GreedyChoice(plan, order[i], open, {plan[order[j]] : j \in 1..(i - 1)})}

\* apply_fixed_costs_status over the matched transactions of one statement: the
\* dictionary keeps one of the transactions matched to a cost, whichever comes last.
Statuses(rows, matched) ==
    {paid \in Plans : \A c \in Costs :
        LET own == {t \in rows : matched[t] = c}
        IN IF own = {} THEN paid[c] = None ELSE paid[c] \in own}

\* The status that flag_discrepancies and apply_fixed_costs_status give a cost.
FixedCostStatus(c, t) ==
    IF t = None THEN "missing_payment"
    ELSE IF 20 * Distance(t, c) <= Expected[c] THEN "matched" ELSE "amount_changed"
=============================================================================
