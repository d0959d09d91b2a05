-------------------------------- MODULE Parser --------------------------------
(***************************************************************************)
(* How the words of a PDF become transactions: the parser for PKO BP's     *)
(* "Historia rachunku", the generic fallback, and what the balance check   *)
(* after them can tell about the result.                                   *)
(*                                                                         *)
(* The table of the PDF has no ruling lines.  Words become rows by their   *)
(* height and columns by their left edge, so the parser reads row by row:  *)
(* a row with a date begins a transaction, a header or footer row ends it, *)
(* and any other row continues it.  One step of this module is one row.    *)
(*                                                                         *)
(* The statement prints entries 1..N, the newest first.  What is printed   *)
(* in a cell is kept as what it stands for (the amount of entry 3, some    *)
(* text), so that a transaction shows where its values came from.          *)
(***************************************************************************)
EXTENDS Integers, Sequences, FiniteSetsExt

CONSTANTS
    N,           \* number of entries the statement prints
    Amount,      \* entry -> its amount in grosze
    Rest,        \* entry -> its amount without the leading group of thousands
    Balance,     \* entry -> the balance of the account after it
    Total,       \* a sum printed in the summary that follows the table
    MaxMisprints \* bound: rows whose words are not where the parser looks

Entries == 1..N

\* Every balance is the previous one plus the amount: the next entry is older.
ASSUME StatementAssumption ==
    /\ N \in Nat \ {0} /\ MaxMisprints \in Nat /\ Total \in Int
    /\ Amount \in [Entries -> Int] /\ Rest \in [Entries -> Int]
    /\ Balance \in [Entries -> Int]
    /\ \A e \in Entries : e < N => Balance[e] = Balance[e + 1] + Amount[e]

VARIABLES
    \* the PDF, as far as it has been read
    block,     \* the entry whose rows are being read, 0 before the first
    due,       \* what this entry has yet to print: "nothing", "amount", "both"
    section,   \* "table", "summary" or "end"
    misprints, \* rows misprinted so far
    \* the parser
    parser,    \* the one whose matches() said yes: "pko_bp" or "generic"
    current,   \* the transaction being read
    transactions, \* those that are complete
    sum,       \* SUM(amount) over them
    verdict    \* "reading", "unparsable", "no_balance", "mismatch", "consistent"

pdf  == <<block, due, section, misprints>>
vars == <<block, due, section, misprints, parser, current, transactions, sum, verdict>>

(***************************************************************************)
(* Cells and rows.                                                         *)
(***************************************************************************)
Numbers == [shape : {"amount", "rest", "balance"}, of : Entries]
           \cup [shape : {"total"}, of : {0}]
Empty   == [shape |-> "empty", of |-> 0]
Text    == [shape |-> "text", of |-> 0]
Cells   == Numbers \cup {Empty, Text}

AmountOf(e)  == [shape |-> "amount", of |-> e]
RestOf(e)    == [shape |-> "rest", of |-> e]
BalanceOf(e) == [shape |-> "balance", of |-> e]
TotalCell    == [shape |-> "total", of |-> 0]

\* _looks_like_amount, and what _parse_amount makes of such a cell.
LooksLikeAmount(cell) == cell \in Numbers

Value(cell) ==
    IF cell.shape = "amount" THEN Amount[cell.of]
    ELSE IF cell.shape = "rest" THEN Rest[cell.of]
    ELSE IF cell.shape = "balance" THEN Balance[cell.of]
    ELSE Total

\* A row: the entry that printed it (0: none), what its first column holds, whether
\* it is a page header or bears a footer marker, and its other cells.
Row(e, first, mark, kwota, saldo, opis) ==
    [of |-> e, first |-> first, mark |-> mark,
     kwota |-> kwota, saldo |-> saldo, opis |-> opis]

Dated(row) == row.first = "date"

\* The state of parse() between two dated rows; date 0 stands for None.
NoTransaction == [date |-> 0, kwota |-> Empty, saldo |-> Empty, text |-> {}]
Open == [date : Entries, kwota : Cells, saldo : Cells, text : SUBSET (0..N)]

Transactions == [date : Entries, amount : Numbers, balance : Numbers \cup {Empty},
                 text : SUBSET (0..N)]

Verdicts == {"reading", "unparsable", "no_balance", "mismatch", "consistent"}

TypeOK ==
    /\ block \in 0..N
    /\ due \in {"nothing", "amount", "both"}
    /\ section \in {"table", "summary", "end"}
    /\ misprints \in 0..MaxMisprints
    /\ parser \in {"pko_bp", "generic"}
    /\ current \in Open \cup {NoTransaction}
    /\ transactions \in Seq(Transactions)
    /\ sum \in Int
    /\ verdict \in Verdicts

Init ==
    /\ block = 0 /\ due = "nothing" /\ section = "table" /\ misprints = 0
    /\ parser \in {"pko_bp", "generic"}
    /\ current = NoTransaction
    /\ transactions = <<>>
    /\ sum = 0
    /\ verdict = "reading"

-----------------------------------------------------------------------------
(***************************************************************************)
(* PkoBpHistoriaRachunkuParser.parse, one row.                             *)
(***************************************************************************)
\* Mutant: the amount that leaked into `opis` stays there.
NotReclaimed(row) == row

\* _reclaim_amount_from_opis: `opis` holds nothing but an amount.
Reclaimed(row) ==
    IF row.kwota = Empty /\ LooksLikeAmount(row.opis)
    THEN [row EXCEPT !.kwota = row.opis, !.opis = Empty]
    ELSE row

\* Mutant: only a repeated page header ends a transaction.
IsHeaderRow(row) == row.mark = "header"

IsNonTransactionRow(row) == row.mark \in {"header", "footer"}

TextOf(row) == IF row.opis = Empty THEN {} ELSE {row.of}

\* A dated row: whatever its columns hold is taken.
Begun(row) ==
    [date |-> row.of, kwota |-> row.kwota, saldo |-> row.saldo, text |-> TextOf(row)]

\* Mutant: the first cell that is not empty is taken, whatever it looks like.
MergedUnchecked(t, row) ==
    [t EXCEPT !.kwota = IF t.kwota = Empty THEN row.kwota ELSE t.kwota,
              !.saldo = IF t.saldo = Empty THEN row.saldo ELSE t.saldo,
              !.text  = t.text \cup TextOf(row)]

\* A continuation row: the first cell that looks like an amount is taken.
Merged(t, row) ==
    [t EXCEPT !.kwota = IF t.kwota = Empty /\ LooksLikeAmount(row.kwota)
                        THEN row.kwota ELSE t.kwota,
              !.saldo = IF t.saldo = Empty /\ LooksLikeAmount(row.saldo)
                        THEN row.saldo ELSE t.saldo,
              !.text  = t.text \cup TextOf(row)]

\* Mutant: a missing amount is let through.
UnparsableBalance(t) == t.saldo = Text

\* _finalize raises ValueError unless both parse; an empty `saldo` is None.
Unparsable(t) == ~LooksLikeAmount(t.kwota) \/ t.saldo = Text

Finalised(t) == [date |-> t.date, amount |-> t.kwota, balance |-> t.saldo, text |-> t.text]

\* transactions.append(_finalize(current)), if there is one.
Finalises ==
    \/ current = NoTransaction /\ UNCHANGED <<transactions, sum, verdict>>
    \/ /\ current # NoTransaction /\ Unparsable(current)
       /\ verdict' = "unparsable"
       /\ UNCHANGED <<transactions, sum>>
    \/ /\ current # NoTransaction /\ ~Unparsable(current)
       /\ transactions' = Append(transactions, Finalised(current))
       /\ sum' = sum + Value(current.kwota)
       /\ UNCHANGED verdict

Begins(row) == Dated(row) /\ Finalises /\ current' = Begun(Reclaimed(row))

\* Mutant: the row is skipped, and the transaction before it goes on.
SkipsOnly(row) ==
    /\ ~Dated(row) /\ current # NoTransaction /\ IsNonTransactionRow(row)
    /\ Finalises /\ UNCHANGED current

Ends(row) ==
    /\ ~Dated(row) /\ current # NoTransaction /\ IsNonTransactionRow(row)
    /\ Finalises /\ current' = NoTransaction

Continues(row) ==
    /\ ~Dated(row) /\ current # NoTransaction /\ ~IsNonTransactionRow(row)
    /\ current' = Merged(current, Reclaimed(row))
    /\ UNCHANGED <<transactions, sum, verdict>>

\* Rows before the first transaction, or after a header or footer, belong to none.
Ignores(row) ==
    /\ ~Dated(row) /\ current = NoTransaction
    /\ UNCHANGED <<current, transactions, sum, verdict>>

ReadsRow(row) ==
    /\ parser = "pko_bp"
    /\ Begins(row) \/ Ends(row) \/ Continues(row) \/ Ignores(row)

(***************************************************************************)
(* GenericLineParser.parse: a line that begins with a date and ends with a *)
(* signed amount is a transaction without a balance.  Which of its numbers *)
(* ends a line of an unknown bank is left open.                            *)
(***************************************************************************)
ReadsLine(row) ==
    /\ parser = "generic"
    /\ \/ /\ Dated(row)
          /\ \E cell \in {AmountOf(row.of), BalanceOf(row.of)} :
                /\ transactions' = Append(transactions, [date |-> row.of, amount |-> cell,
                                            balance |-> Empty, text |-> TextOf(row)])
                /\ sum' = sum + Value(cell)
       \/ UNCHANGED <<transactions, sum>>
    /\ UNCHANGED <<current, verdict>>

Reads(row) ==
    /\ verdict = "reading"
    /\ ReadsRow(row) \/ ReadsLine(row)
    /\ UNCHANGED parser

(***************************************************************************)
(* persist_transactions derives the balances of the statement from the     *)
(* newest and the oldest transaction; check_balance_consistency adds up.   *)
(***************************************************************************)
BALANCE_TOLERANCE == 1

ClosingCell(ts) == ts[1].balance

\* Mutant: the balance of the oldest transaction counts as the opening balance.
OpeningAfterOldest(ts) == Value(ts[Len(ts)].balance)

OpeningBalance(ts) == Value(ts[Len(ts)].balance) - Value(ts[Len(ts)].amount)

BalancesKnown(ts) == ts # <<>> /\ ts[1].balance # Empty /\ ts[Len(ts)].balance # Empty

Gap(ts, s) == OpeningBalance(ts) + s - Value(ClosingCell(ts))

\* Mutant: without balances there is nothing to object to.
VerdictOnMismatch(ts, s) ==
    IF BalancesKnown(ts) /\ Gap(ts, s) \notin -BALANCE_TOLERANCE..BALANCE_TOLERANCE
    THEN "mismatch" ELSE "consistent"

\* What _finalize, at the end of the last page, and then the check make of ts.
Verdict(ts, s) ==
    IF ~BalancesKnown(ts) THEN "no_balance"
    ELSE IF Gap(ts, s) \in -BALANCE_TOLERANCE..BALANCE_TOLERANCE THEN "consistent"
    ELSE "mismatch"

EndOfPdf ==
    /\ verdict = "reading" /\ section # "end"
    /\ due = "nothing" /\ block = N
    /\ section' = "end"
    /\ LET open == current # NoTransaction
           ts   == IF open THEN Append(transactions, Finalised(current)) ELSE transactions
           s    == IF open THEN sum + Value(current.kwota) ELSE sum IN
        IF open /\ Unparsable(current)
        THEN verdict' = "unparsable" /\ UNCHANGED <<transactions, sum>>
        ELSE transactions' = ts /\ sum' = s /\ verdict' = Verdict(ts, s)
    /\ current' = NoTransaction
    /\ UNCHANGED <<block, due, misprints, parser>>

-----------------------------------------------------------------------------
(***************************************************************************)
(* External: what the PDF holds.  An entry prints its date and text, its   *)
(* amount and its balance; a difference of height can put the numbers on   *)
(* a row of their own below.  A wide amount begins left of its column.     *)
(***************************************************************************)
Misprint == misprints < MaxMisprints /\ misprints' = misprints + 1
AsUsual  == UNCHANGED misprints

\* The first row of an entry, as tests and comments show it.
WholeRows(e) ==
    {Row(e, "date", "none", AmountOf(e), BalanceOf(e), Text),
     Row(e, "date", "none", Empty, BalanceOf(e), AmountOf(e))}

\* The date is torn apart or joined with a neighbour; the leading group of the
\* amount, the amount or the balance lies in the column to the left.
MisprintedRows(e) ==
    {Row(e, "other", "none", AmountOf(e), BalanceOf(e), Text),
     Row(e, "date", "none", RestOf(e), BalanceOf(e), Text),
     Row(e, "date", "none", Empty, BalanceOf(e), Text),
     Row(e, "date", "none", Text, Empty, Text),
     Row(e, "date", "none", BalanceOf(e), Empty, Text)}

NextEntry == section = "table" /\ due = "nothing" /\ block < N /\ block' = block + 1

EntryRow ==
    /\ NextEntry /\ UNCHANGED <<due, section>>
    /\ \/ AsUsual /\ \E row \in WholeRows(block + 1) : Reads(row)
       \/ Misprint /\ \E row \in MisprintedRows(block + 1) : Reads(row)

\* The numbers of the entry, or its amount alone, are on a row below.
EntryRowWithoutAmount ==
    /\ NextEntry /\ UNCHANGED section
    /\ \/ due' = "both" /\ Reads(Row(block + 1, "date", "none", Empty, Empty, Text))
       \/ due' = "amount" /\ Reads(Row(block + 1, "date", "none", Empty, BalanceOf(block + 1), Text))
    /\ AsUsual

NumbersRow ==
    /\ due # "nothing" /\ due' = "nothing"
    /\ LET saldo == IF due = "both" THEN BalanceOf(block) ELSE Empty IN
        \/ Reads(Row(block, "other", "none", AmountOf(block), saldo, Empty))
        \/ Reads(Row(block, "other", "none", Empty, saldo, AmountOf(block)))
    /\ UNCHANGED <<block, section, misprints>>

\* More text of the entry, some of it under `Kwota`; a title may hold the words
\* of a footer marker.
TextRow ==
    /\ section = "table" /\ block > 0
    /\ \/ AsUsual /\ \E kwota \in {Empty, Text} :
                        Reads(Row(block, "other", "none", kwota, Empty, Text))
       \/ Misprint /\ Reads(Row(block, "other", "footer", Empty, Empty, Text))
    /\ UNCHANGED <<block, due, section>>

\* A repeated header, a page number.
PageRow ==
    /\ section = "table" /\ due = "nothing"
    /\ \E mark \in {"header", "none"} : Reads(Row(0, "other", mark, Empty, Empty, Text))
    /\ UNCHANGED <<block, due, section, misprints>>

\* The summary: its labels come before its numbers.
SummaryRow ==
    /\ due = "nothing" /\ block = N
    /\ \/ section = "table" /\ Reads(Row(0, "other", "footer", Empty, Empty, Text))
       \/ section = "summary" /\ \E kwota, opis \in {Empty, TotalCell} :
             Reads(Row(0, "other", "none", kwota, TotalCell, opis))
    /\ section' = "summary"
    /\ UNCHANGED <<block, due, misprints>>

Next ==
    \/ EntryRow \/ EntryRowWithoutAmount \/ NumbersRow \/ TextRow \/ PageRow \/ SummaryRow
    \/ EndOfPdf

Spec == Init /\ [][Next]_vars

-----------------------------------------------------------------------------
(***************************************************************************)
(* Whatever is misprinted.                                                 *)
(***************************************************************************)

\* Transactions come in the order of the statement and none twice: the first one is
\* the newest, from which the closing balance is taken.
OrderKept ==
    LET all == IF current = NoTransaction \/ parser = "generic" THEN transactions
               ELSE Append(transactions, current) IN
        \A i, j \in 1..Len(all) : i < j => all[i].date < all[j].date

\* No number of the summary becomes the amount or the balance of a transaction, also if
\* the last transaction has lost its own.
NothingFromSummary ==
    parser = "pko_bp" =>
        \A i \in 1..Len(transactions) :
            /\ transactions[i].amount # TotalCell
            /\ transactions[i].balance # TotalCell

(***************************************************************************)
(* When no amounts cancel out by chance.  Suppose that transactions with   *)
(* the dates D are newer than the oldest one, and their amounts are m:     *)
(* cells of their own entries, or amounts of entries whose date was lost.  *)
(* Suppose the balances of the newest and of the oldest one are those of   *)
(* the entries a and b; entry a is that of the newest, unless that one has *)
(* taken its own balance for its amount.  If what was read adds up to what *)
(* the account gained from b to a, then nothing has been misread.          *)
(***************************************************************************)
Misreadings(D) ==
    {m \in [D -> Numbers] : \A e \in D :
        /\ m[e].of \in Entries
        /\ m[e].of # e => /\ m[e].shape = "amount" /\ e < m[e].of
                          /\ \A d \in D : e < d => m[e].of < d}

Newest(d, D) == d \in D /\ \A e \in D : d <= e

AddUp(D, m, a, b) ==
    LET read == [e \in D |-> Value(m[e])] IN
        MapThenSumSet(LAMBDA e : read[e], D) - MapThenSumSet(LAMBDA e : Amount[e], a .. b - 1)
            \in -BALANCE_TOLERANCE..BALANCE_TOLERANCE

NoCoincidence ==
    \A D \in SUBSET Entries : \A m \in Misreadings(D), a, b \in Entries :
        /\ a <= b /\ \A d \in D : d < b
        /\ \E d \in D : Newest(d, D) /\ (a = d \/ m[d] = BalanceOf(d))
        /\ AddUp(D, m, a, b)
        => D = a .. b - 1 /\ \A e \in D : m[e] = AmountOf(e)

\* If amounts do not cancel out by chance (NoCoincidence), what passes the balance check
\* is a gapless stretch of the printed entries with their own amounts.  It says nothing
\* of entries lost at either end, nor of the amount of the oldest transaction, from which
\* the opening balance is derived; the fallback's result never passes.
ConsistentIsGapless ==
    verdict = "consistent" =>
        /\ parser = "pko_bp"
        /\ \A i \in 1..Len(transactions) - 1 :
            /\ transactions[i + 1].date = transactions[i].date + 1
            /\ transactions[i].amount = AmountOf(transactions[i].date)

(***************************************************************************)
(* Without misprints.                                                      *)
(***************************************************************************)

\* The rows read so far have become exactly the entries printed so far, each with its
\* own amount and balance and with no text of another.
ReadAsPrinted ==
    misprints = 0 /\ parser = "pko_bp" =>
        /\ verdict # "unparsable"
        /\ Len(transactions) = IF current = NoTransaction THEN block ELSE block - 1
        /\ \A i \in 1..Len(transactions) :
            LET t == transactions[i] IN
                /\ t.date = i
                /\ t.amount = AmountOf(i) /\ t.balance = BalanceOf(i)
                /\ t.text \subseteq {0, i}

\* So a sound statement passes the balance check.
SoundPasses ==
    misprints = 0 /\ parser = "pko_bp" /\ section = "end" => verdict = "consistent"

=============================================================================
