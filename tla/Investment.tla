------------------------------ MODULE Investment ------------------------------
(***************************************************************************)
(* The arithmetic of subgraphs/investment/nodes.py: how much of a surplus  *)
(* may be invested, when it is an outlier, and how an amount is divided.   *)
(* Amounts are whole grosze.  A Decimal that is not a whole number of      *)
(* grosze (an average) is a fraction num/den; percentages are in tenths.   *)
(***************************************************************************)
EXTENDS Integers

CONSTANTS
    SafetyBuffer,  \* investment_settings.safety_buffer_amount
    Instruments    \* investment_settings.instruments

INSTRUMENT_KEYS == {"etf", "term_deposit", "savings_account"}

ASSUME SettingsAssumption ==
    /\ SafetyBuffer \in Nat
    /\ Instruments \subseteq INSTRUMENT_KEYS
    /\ Instruments # {}

Smaller(a, b) == IF a <= b THEN a ELSE b
Larger(a, b)  == IF a >= b THEN a ELSE b

\* Mutant: the balance bounds the investment, the buffer does not.
InvestableBalance(surplus, closing) ==
    IF surplus <= 0 THEN 0 ELSE Smaller(surplus, Larger(closing, 0))

\* check_safety_buffer
Investable(surplus, closing) ==
    IF surplus <= 0 THEN 0
                    ELSE Smaller(surplus, Larger(closing - SafetyBuffer, 0))

ANOMALY_MULTIPLIER == 2

\* assess_trend, with n earlier surpluses that add up to total
IsAnomaly(surplus, total, n) ==
    n > 0 /\ total > 0 /\ n * surplus > ANOMALY_MULTIPLIER * total

\* The proposal before it is divided: an anomaly is cut down to the average.
Proposal(surplus, closing, total, n) ==
    LET amount == Investable(surplus, closing)
    IN IF amount > 0 /\ IsAnomaly(surplus, total, n) /\ total < n * amount
       THEN [num |-> total, den |-> n]
       ELSE [num |-> amount, den |-> 1]

\* A Numeric(14, 2) column rounds half up (its values here are not negative);
\* Decimal.quantize rounds half to even.
RoundHalfUp(num, den) == (2 * num + den) \div (2 * den)

RoundHalfEven(num, den) ==
    LET q == num \div den
        r == num % den
    IN IF 2 * r < den \/ (2 * r = den /\ q % 2 = 0) THEN q ELSE q + 1

SumOf(parts) ==
    parts["etf"] + parts["term_deposit"] + parts["savings_account"]

\* _propose_allocation: percentages of instruments that are not allowed are
\* dropped, and the rest must add up to 100 within half a percent.
Allowed(answer) ==
    [k \in INSTRUMENT_KEYS |-> IF k \in Instruments THEN answer[k] ELSE 0]

\* Mutant: without abs().
AcceptedAbove(answer) == 1000 - SumOf(Allowed(answer)) <= 5

Accepted(answer) ==
    LET sum == SumOf(Allowed(answer)) IN sum - 1000 <= 5 /\ 1000 - sum <= 5

CountOf(S) == (IF "etf" \in S THEN 1 ELSE 0)
            + (IF "term_deposit" \in S THEN 1 ELSE 0)
            + (IF "savings_account" \in S THEN 1 ELSE 0)

\* The amounts for an accepted answer, and those of the equal split that replaces
\* any other answer and any failure of the model.
Divided(p, answer) ==
    [k \in INSTRUMENT_KEYS |->
        RoundHalfEven(p.num * Allowed(answer)[k], p.den * 1000)]

EqualSplit(p) ==
    [k \in INSTRUMENT_KEYS |->
        IF k \in Instruments
        THEN RoundHalfEven(p.num, p.den * CountOf(Instruments)) ELSE 0]
=============================================================================
