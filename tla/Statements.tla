----------------------------- MODULE Statements -----------------------------
(***************************************************************************)
(* What the files of the Drive folder hold: what the checks of a statement *)
(* and its parser make of each, and the two judgements on them, whether    *)
(* two statements overlap and whether the stored rows of one balance.      *)
(*                                                                         *)
(* A statement is identified with its Drive file (there is one account,    *)
(* and (account_id, drive_file_id) is unique).  Amounts are whole grosze.  *)
(***************************************************************************)
EXTENDS Integers, FiniteSets

CONSTANTS
    Files,       \* Drive file ids
    Checksum,    \* file -> sha256 of its content
    Scan,        \* file -> what read_statement makes of it
    First, Last, \* file -> the period it prints
    Parse,       \* file -> what the first matching parser yields
    Net,         \* file -> sum of the amounts of the rows it yields
    Delta        \* file -> newest running balance minus opening balance

ScanResults  == {"ok", "unreadable_pdf", "unparseable_period"}
ParseResults == {"none",    \* no row at all
                 "bare",    \* rows without a running balance
                 "full"}    \* rows with running balances

ASSUME FilesAssumption ==
    /\ IsFiniteSet(Files)
    /\ Scan \in [Files -> ScanResults]
    /\ First \in [Files -> Int]
    /\ Last \in [Files -> Int]
    /\ Parse \in [Files -> ParseResults]
    /\ Net \in [Files -> Int]
    /\ Delta \in [Files -> Int]

\* Files with one checksum have one content, so everything read from it agrees.
ASSUME ChecksumAssumption ==
    \A f, g \in Files : Checksum[f] = Checksum[g] =>
        /\ Scan[f] = Scan[g]
        /\ First[f] = First[g] /\ Last[f] = Last[g]
        /\ Parse[f] = Parse[g] /\ Net[f] = Net[g] /\ Delta[f] = Delta[g]

\* check_duplicate: do the printed periods intersect?
Overlaps(f, g) == First[f] <= Last[g] /\ Last[f] >= First[g]

BALANCE_TOLERANCE == 1

\* opening_balance and closing_balance are set by an extraction that parsed
\* rows with running balances.
BalancesKnown(f, n) == n > 0 /\ Parse[f] = "full"

\* check_balance_consistency with n copies of the statement's rows stored:
\* |opening + SUM(amount) - closing| <= tolerance.
Consistent(f, n) ==
    /\ n * Net[f] - Delta[f] <= BALANCE_TOLERANCE
    /\ Delta[f] - n * Net[f] <= BALANCE_TOLERANCE

=============================================================================
