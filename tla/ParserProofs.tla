----------------------------- MODULE ParserProofs -----------------------------
(***************************************************************************)
(* Machine-checked proofs about Parser, for statements of any length with  *)
(* any amounts and any number of misprints.                                *)
(***************************************************************************)
EXTENDS Parser, SequenceTheorems, SumTheorems

\* A row an entry or a page may print.
PrintedRows ==
    [of : 0..N, first : {"date", "other"}, mark : {"none", "header", "footer"},
     kwota : Cells, saldo : Cells, opis : Cells]

LEMMA NumberCells ==
    ASSUME NEW e \in Entries
    PROVE  /\ AmountOf(e) \in Numbers /\ RestOf(e) \in Numbers /\ BalanceOf(e) \in Numbers
           /\ TotalCell \in Numbers
           /\ AmountOf(e) # TotalCell /\ RestOf(e) # TotalCell /\ BalanceOf(e) # TotalCell
  BY DEF Numbers, AmountOf, RestOf, BalanceOf, TotalCell

LEMMA CellKinds ==
    /\ Empty \notin Numbers /\ Text \notin Numbers /\ Empty # Text
    /\ Empty \in Cells /\ Text \in Cells /\ Numbers \subseteq Cells
    /\ TotalCell \in Numbers
  BY DEF Numbers, Cells, Empty, Text, TotalCell

LEMMA ValueInt == ASSUME NEW c \in Numbers PROVE Value(c) \in Int
  BY StatementAssumption DEF Numbers, Value, Entries

LEMMA CellsOfEntry ==
    ASSUME NEW c \in Cells PROVE c \in Numbers \/ c = Empty \/ c = Text
  BY DEF Cells

-----------------------------------------------------------------------------
\* The parser keeps its types over any row that has them.
ParserTypes ==
    /\ current \in Open \cup {NoTransaction}
    /\ transactions \in Seq(Transactions)
    /\ sum \in Int
    /\ verdict \in Verdicts

LEMMA FinalisedType ==
    ASSUME current \in Open, ~Unparsable(current)
    PROVE  Finalised(current) \in Transactions /\ Value(current.kwota) \in Int
  <1>1. current.kwota \in Numbers
    BY DEF Unparsable, LooksLikeAmount
  <1>2. current.saldo \in Numbers \cup {Empty}
    BY CellsOfEntry DEF Unparsable, Open
  <1>3. QED
    BY <1>1, <1>2, ValueInt DEF Finalised, Transactions, Open

LEMMA FinalisesTypes ==
    ASSUME ParserTypes, Finalises
    PROVE  /\ transactions' \in Seq(Transactions) /\ sum' \in Int /\ verdict' \in Verdicts
  <1>1. CASE UNCHANGED <<transactions, sum>>
    BY <1>1 DEF ParserTypes, Finalises, Verdicts
  <1>2. CASE /\ current # NoTransaction /\ ~Unparsable(current)
             /\ transactions' = Append(transactions, Finalised(current))
             /\ sum' = sum + Value(current.kwota) /\ UNCHANGED verdict
    <2>1. Finalised(current) \in Transactions /\ Value(current.kwota) \in Int
      BY <1>2, FinalisedType DEF ParserTypes
    <2>2. QED
      BY <1>2, <2>1, AppendProperties DEF ParserTypes
  <1>3. QED
    BY <1>1, <1>2 DEF Finalises

LEMMA ReclaimedType ==
    ASSUME NEW row \in PrintedRows
    PROVE  /\ Reclaimed(row) \in PrintedRows
           /\ Reclaimed(row).of = row.of /\ Reclaimed(row).saldo = row.saldo
           /\ \/ Reclaimed(row).kwota = row.kwota
              \/ row.kwota = Empty /\ Reclaimed(row).kwota = row.opis
  BY CellKinds DEF PrintedRows, Reclaimed

LEMMA ReadsTypes ==
    ASSUME ParserTypes, NEW row \in PrintedRows, Dated(row) => row.of \in Entries, Reads(row)
    PROVE  ParserTypes'
  <1> DEFINE line == Reclaimed(row)
  <1>0. /\ line.of = row.of /\ line.kwota \in Cells /\ line.saldo \in Cells
        /\ row.of \in 0..N /\ TextOf(line) \in SUBSET (0..N)
    BY ReclaimedType DEF PrintedRows, TextOf
  <1> HIDE DEF line
  <1>1. CASE Begins(row)
    <2>1. current' \in Open
      BY <1>0, <1>1 DEF Begins, Begun, Open, line
    <2>2. QED
      BY <1>1, <2>1, FinalisesTypes DEF Begins, ParserTypes
  <1>2. CASE Ends(row)
    BY <1>2, FinalisesTypes DEF Ends, ParserTypes
  <1>3. CASE Continues(row)
    <2>1. current \in Open
      BY <1>3 DEF Continues, ParserTypes
    <2>2. current' \in Open
      BY <1>0, <1>3, <2>1 DEF Continues, Merged, Open, line
    <2>3. QED
      BY <1>3, <2>2 DEF Continues, ParserTypes
  <1>4. CASE Ignores(row)
    BY <1>4 DEF Ignores, ParserTypes
  <1>5. CASE ReadsLine(row)
    <2>1. CASE UNCHANGED <<transactions, sum>>
      BY <1>5, <2>1 DEF ReadsLine, ParserTypes
    <2>2. ASSUME NEW cell \in {AmountOf(row.of), BalanceOf(row.of)}, Dated(row),
                 transactions' = Append(transactions, [date |-> row.of, amount |-> cell,
                                     balance |-> Empty, text |-> TextOf(row)]),
                 sum' = sum + Value(cell)
          PROVE  ParserTypes'
      <3>1. row.of \in Entries /\ cell \in Numbers /\ Value(cell) \in Int
        BY <2>2, NumberCells, ValueInt
      <3>2. [date |-> row.of, amount |-> cell, balance |-> Empty, text |-> TextOf(row)]
                \in Transactions
        BY <1>0, <3>1 DEF Transactions, TextOf
      <3>3. QED
        BY <1>5, <2>2, <3>1, <3>2, AppendProperties DEF ReadsLine, ParserTypes
    <2>3. QED
      BY <1>5, <2>1, <2>2 DEF ReadsLine
  <1>6. QED
    BY <1>1, <1>2, <1>3, <1>4, <1>5 DEF Reads, ReadsRow

-----------------------------------------------------------------------------
(***************************************************************************)
(* The rows that the actions read.                                         *)
(***************************************************************************)
LEMMA EntryRows ==
    ASSUME NEW e \in Entries, NEW row \in WholeRows(e) \cup MisprintedRows(e)
    PROVE  row \in PrintedRows /\ row.of = e
  <1>1. e \in 0..N
    BY StatementAssumption DEF Entries
  <1>2. /\ AmountOf(e) \in Cells /\ RestOf(e) \in Cells /\ BalanceOf(e) \in Cells
        /\ Empty \in Cells /\ Text \in Cells
    BY NumberCells, CellKinds
  <1>3. CASE row \in WholeRows(e)
    BY <1>1, <1>2, <1>3 DEF WholeRows, Row, PrintedRows
  <1>4. CASE row \in MisprintedRows(e)
    BY <1>1, <1>2, <1>4 DEF MisprintedRows, Row, PrintedRows
  <1>5. QED
    BY <1>3, <1>4

\* Numbers are due only within an entry, and the summary follows the last one.
Layout ==
    /\ due # "nothing" => block > 0 /\ section = "table"
    /\ section # "table" => block = N

\* Every step but the last reads one row.
LEMMA StepReads ==
    ASSUME TypeOK, Layout, Next, ~EndOfPdf
    PROVE  \E row \in PrintedRows :
             /\ Reads(row)
             /\ Dated(row) => row.of \in Entries /\ row.of = block + 1 /\ block' = block + 1
  <1> USE StatementAssumption DEF TypeOK
  <1>1. CASE EntryRow
    <2>1. block + 1 \in Entries
      BY <1>1 DEF EntryRow, NextEntry, Entries
    <2>2. PICK row \in WholeRows(block + 1) \cup MisprintedRows(block + 1) : Reads(row)
      BY <1>1 DEF EntryRow
    <2>3. row \in PrintedRows /\ row.of = block + 1
      BY <2>1, <2>2, EntryRows
    <2>4. QED
      BY <1>1, <2>1, <2>2, <2>3 DEF EntryRow, NextEntry
  <1>2. CASE EntryRowWithoutAmount
    <2>1. block + 1 \in Entries
      BY <1>2 DEF EntryRowWithoutAmount, NextEntry, Entries
    <2>2. block + 1 \in 0..N /\ BalanceOf(block + 1) \in Cells
      BY <2>1, NumberCells, CellKinds DEF Entries
    <2>3. PICK row \in {Row(block + 1, "date", "none", Empty, saldo, Text) :
                            saldo \in {Empty, BalanceOf(block + 1)}} : Reads(row)
      BY <1>2 DEF EntryRowWithoutAmount
    <2>4. row \in PrintedRows /\ row.of = block + 1
      BY <2>2, <2>3, CellKinds DEF Row, PrintedRows
    <2>5. QED
      BY <1>2, <2>1, <2>3, <2>4 DEF EntryRowWithoutAmount, NextEntry
  <1>3. CASE NumbersRow
    <2>1. block \in Entries
      BY <1>3 DEF NumbersRow, Layout, Entries
    <2>2. AmountOf(block) \in Cells /\ BalanceOf(block) \in Cells
      BY <2>1, NumberCells, CellKinds
    <2>3. PICK row \in UNION {{Row(block, "other", "none", AmountOf(block), saldo, Empty),
                               Row(block, "other", "none", Empty, saldo, AmountOf(block))} :
                                    saldo \in {Empty, BalanceOf(block)}} : Reads(row)
      BY <1>3 DEF NumbersRow
    <2>4. row \in PrintedRows /\ ~Dated(row)
      BY <2>2, <2>3, CellKinds DEF Row, PrintedRows, Dated
    <2>5. QED
      BY <2>1, <2>3, <2>4
  <1>4. CASE TextRow \/ PageRow
    <2>1. PICK row \in {Row(e, "other", mark, kwota, Empty, Text) : e \in {0, block},
                          mark \in {"none", "header", "footer"}, kwota \in {Empty, Text}} :
                Reads(row)
      BY <1>4 DEF TextRow, PageRow
    <2>2. row \in PrintedRows /\ ~Dated(row)
      BY <2>1, CellKinds DEF Row, PrintedRows, Dated
    <2>3. QED
      BY <2>1, <2>2
  <1>5. CASE SummaryRow
    <2>1. PICK row \in {Row(0, "other", mark, kwota, saldo, opis) :
                          mark \in {"none", "footer"}, kwota \in {Empty, TotalCell},
                          saldo \in {Empty, TotalCell}, opis \in {Empty, TotalCell, Text}} :
                Reads(row)
      BY <1>5 DEF SummaryRow
    <2>2. row \in PrintedRows /\ ~Dated(row)
      BY <2>1, CellKinds DEF Row, PrintedRows, Dated
    <2>3. QED
      BY <2>1, <2>2
  <1>6. QED
    BY <1>1, <1>2, <1>3, <1>4, <1>5 DEF Next

-----------------------------------------------------------------------------
(***************************************************************************)
(* What the steps do to the position in the PDF.                           *)
(***************************************************************************)
LEMMA EntryStep ==
    ASSUME EntryRow \/ EntryRowWithoutAmount
    PROVE  /\ section = "table" /\ section' = section
           /\ due = "nothing" /\ due' \in {"nothing", "amount", "both"}
           /\ block < N /\ block' = block + 1
           /\ \/ misprints' = misprints
              \/ misprints < MaxMisprints /\ misprints' = misprints + 1
  <1>1. CASE EntryRow
    BY <1>1 DEF EntryRow, NextEntry, Misprint, AsUsual
  <1>2. CASE EntryRowWithoutAmount
    BY <1>2 DEF EntryRowWithoutAmount, NextEntry, AsUsual
  <1>3. QED
    BY <1>1, <1>2

LEMMA MoreStep ==
    ASSUME NumbersRow \/ TextRow \/ PageRow
    PROVE  /\ block' = block /\ section' = section
           /\ due' = due \/ due' = "nothing"
           /\ \/ misprints' = misprints
              \/ misprints < MaxMisprints /\ misprints' = misprints + 1
  <1>1. CASE NumbersRow
    BY <1>1 DEF NumbersRow
  <1>2. CASE TextRow
    BY <1>2 DEF TextRow, Misprint, AsUsual
  <1>3. CASE PageRow
    BY <1>3 DEF PageRow
  <1>4. QED
    BY <1>1, <1>2, <1>3

LEMMA LastStep ==
    ASSUME SummaryRow \/ EndOfPdf
    PROVE  /\ block = N /\ due = "nothing" /\ section' \in {"summary", "end"}
           /\ UNCHANGED <<block, due, misprints>>
  <1>1. CASE SummaryRow
    BY <1>1 DEF SummaryRow
  <1>2. CASE EndOfPdf
    BY <1>2 DEF EndOfPdf
  <1>3. QED
    BY <1>1, <1>2

PdfTypes ==
    /\ block \in 0..N
    /\ due \in {"nothing", "amount", "both"}
    /\ section \in {"table", "summary", "end"}
    /\ misprints \in 0..MaxMisprints

LEMMA PdfNext == ASSUME PdfTypes, Layout, Next PROVE PdfTypes' /\ Layout'
  <1> USE StatementAssumption DEF PdfTypes, Layout
  <1>1. CASE EntryRow \/ EntryRowWithoutAmount
    BY <1>1, EntryStep
  <1>2. CASE NumbersRow \/ TextRow \/ PageRow
    BY <1>2, MoreStep
  <1>3. CASE SummaryRow \/ EndOfPdf
    BY <1>3, LastStep
  <1>4. QED
    BY <1>1, <1>2, <1>3 DEF Next

-----------------------------------------------------------------------------
LEMMA EndTypes == ASSUME ParserTypes, EndOfPdf PROVE ParserTypes'
  <1>1. CASE UNCHANGED <<transactions, sum>> /\ verdict' = "unparsable"
    BY <1>1 DEF EndOfPdf, ParserTypes, Verdicts
  <1>2. CASE /\ current # NoTransaction /\ ~Unparsable(current)
             /\ transactions' = Append(transactions, Finalised(current))
             /\ sum' = sum + Value(current.kwota)
    <2>1. Finalised(current) \in Transactions /\ Value(current.kwota) \in Int
      BY <1>2, FinalisedType DEF ParserTypes
    <2>2. verdict' \in Verdicts
      BY <1>2 DEF EndOfPdf, Verdict, Verdicts
    <2>3. QED
      BY <1>2, <2>1, <2>2, AppendProperties DEF EndOfPdf, ParserTypes
  <1>3. CASE UNCHANGED <<transactions, sum>> /\ verdict' \in Verdicts
    BY <1>3 DEF EndOfPdf, ParserTypes
  <1>4. QED
    BY <1>1, <1>2, <1>3 DEF EndOfPdf, Verdict, Verdicts

LEMMA TypeNext == ASSUME TypeOK, Layout, [Next]_vars PROVE TypeOK'
  <1> USE StatementAssumption
  <1>1. CASE UNCHANGED vars
    BY <1>1 DEF vars, TypeOK
  <1>2. CASE EndOfPdf
    <2>1. ParserTypes' /\ PdfTypes'
      BY <1>2, EndTypes, PdfNext DEF TypeOK, ParserTypes, PdfTypes, Next
    <2>2. parser' = parser
      BY <1>2 DEF EndOfPdf
    <2>3. QED
      BY <2>1, <2>2 DEF TypeOK, ParserTypes, PdfTypes
  <1>3. CASE Next /\ ~EndOfPdf
    <2>1. ParserTypes' /\ parser' = parser
      <3>1. PICK row \in PrintedRows : Reads(row) /\ (Dated(row) => row.of \in Entries)
        BY <1>3, StepReads
      <3>2. QED
        BY <3>1, ReadsTypes DEF TypeOK, ParserTypes, Reads
    <2>2. PdfTypes'
      BY <1>3, PdfNext DEF TypeOK, PdfTypes
    <2>3. QED
      BY <2>1, <2>2 DEF TypeOK, ParserTypes, PdfTypes
  <1>4. QED
    BY <1>1, <1>2, <1>3

LEMMA LayoutNext == ASSUME TypeOK, Layout, [Next]_vars PROVE Layout'
  BY PdfNext DEF TypeOK, PdfTypes, Layout, vars

LEMMA TypeLayout == Spec => [](TypeOK /\ Layout)
  <1>1. Init => TypeOK /\ Layout
    <2>1. ASSUME Init PROVE transactions \in Seq(Transactions)
      BY <2>1, EmptySeq DEF Init
    <2>2. QED
      BY <2>1, StatementAssumption DEF Init, TypeOK, Layout, Verdicts
  <1>2. TypeOK /\ Layout /\ [Next]_vars => TypeOK' /\ Layout'
    BY TypeNext, LayoutNext
  <1>3. QED
    BY <1>1, <1>2, PTL DEF Spec

\* Every variable keeps its type, for any statement, layout and number of misprints.
THEOREM TypeCorrect == Spec => []TypeOK
  BY TypeLayout, PTL

-----------------------------------------------------------------------------
(***************************************************************************)
(* Transactions keep the order of the entries.                             *)
(***************************************************************************)
LEMMA EntriesInt == Entries \subseteq Int
  BY StatementAssumption DEF Entries

LEMMA DatesInt ==
    ASSUME NEW ts \in Seq(Transactions)
    PROVE  /\ Len(ts) \in Nat
           /\ \A i \in 1..Len(ts) : ts[i] \in Transactions /\ ts[i].date \in Int
  <1>1. Len(ts) \in Nat
    BY LenProperties
  <1>2. \A i \in 1..Len(ts) : ts[i] \in Transactions
    BY ElementOfSeq
  <1>3. \A t \in Transactions : t.date \in Entries
    BY DEF Transactions
  <1>4. QED
    BY <1>1, <1>2, <1>3, EntriesInt

\* Appending touches no transaction that is there.
LEMMA AppendKeeps ==
    ASSUME NEW ts \in Seq(Transactions), NEW t \in Transactions
    PROVE  /\ Append(ts, t) \in Seq(Transactions)
           /\ Len(Append(ts, t)) = Len(ts) + 1 /\ Append(ts, t)[Len(ts) + 1] = t
           /\ \A i \in 1..Len(ts) : Append(ts, t)[i] = ts[i]
           /\ Len(ts) \in Nat
  BY AppendProperties, LenProperties

Increasing(ts) == \A i, j \in 1..Len(ts) : i < j => ts[i].date < ts[j].date
UpTo(ts, e) == \A i \in 1..Len(ts) : ts[i].date <= e

LEMMA AppendOrdered ==
    ASSUME NEW ts \in Seq(Transactions), NEW t \in Transactions, NEW e \in Int,
           Increasing(ts), UpTo(ts, t.date - 1), t.date <= e
    PROVE  Increasing(Append(ts, t)) /\ UpTo(Append(ts, t), e)
  <1>1. t.date \in Int /\ \A i \in 1..Len(ts) : ts[i].date \in Int
    BY DatesInt, EntriesInt DEF Transactions
  <1>2. QED
    BY <1>1, AppendKeeps DEF Increasing, UpTo

LEMMA UpToMore ==
    ASSUME NEW ts \in Seq(Transactions), NEW d \in Int, NEW e \in Int, UpTo(ts, d), d <= e
    PROVE  UpTo(ts, e)
  BY DatesInt DEF UpTo

Ordered ==
    /\ Increasing(transactions) /\ UpTo(transactions, block)
    /\ current # NoTransaction =>
        /\ current.date \in Entries /\ current.date <= block
        /\ UpTo(transactions, current.date - 1)
    /\ parser = "generic" => current = NoTransaction

LEMMA FinalisesOrdered ==
    ASSUME ParserTypes, Ordered, block \in Int, Finalises
    PROVE  Increasing(transactions)' /\ UpTo(transactions', block)
  <1>1. CASE UNCHANGED transactions
    BY <1>1 DEF Ordered, Increasing
  <1>2. CASE /\ current # NoTransaction /\ ~Unparsable(current)
             /\ transactions' = Append(transactions, Finalised(current))
    <2>1. Finalised(current) \in Transactions
      BY <1>2, FinalisedType DEF ParserTypes
    <2>2. Finalised(current).date = current.date
      BY DEF Finalised
    <2>3. QED
      BY <1>2, <2>1, <2>2, AppendOrdered DEF Ordered, ParserTypes, Increasing
  <1>3. QED
    BY <1>1, <1>2 DEF Finalises

LEMMA ReadsOrdered ==
    ASSUME ParserTypes, Ordered, NEW row \in PrintedRows, block \in Int, Reads(row),
           block' = block \/ block' = block + 1,
           Dated(row) => row.of \in Entries /\ row.of = block + 1 /\ block' = block + 1
    PROVE  Ordered'
  <1>1. /\ Reclaimed(row).of = row.of /\ parser' = parser
        /\ block' \in Int /\ block <= block' /\ block' - 1 <= block
    BY ReclaimedType DEF Reads
  <1>2. transactions' \in Seq(Transactions)
    BY ReadsTypes DEF ParserTypes
  <1>3. CASE Begins(row) /\ parser = "pko_bp"
    <2>1. /\ Increasing(transactions)' /\ UpTo(transactions', block)
          /\ current'.date = row.of /\ row.of = block + 1 /\ block' = block + 1
          /\ row.of \in Entries /\ block = row.of - 1
      BY <1>1, <1>3, FinalisesOrdered DEF Begins, Begun
    <2>2. UpTo(transactions', block')
      BY <1>1, <1>2, <2>1, UpToMore
    <2>3. QED
      BY <1>1, <1>3, <2>1, <2>2 DEF Ordered
  <1>4. CASE Ends(row) /\ parser = "pko_bp"
    <2>1. Increasing(transactions)' /\ UpTo(transactions', block) /\ current' = NoTransaction
      BY <1>4, FinalisesOrdered DEF Ends
    <2>2. UpTo(transactions', block')
      BY <1>1, <1>2, <2>1, UpToMore
    <2>3. QED
      BY <1>1, <1>4, <2>1, <2>2 DEF Ordered
  <1>5. CASE /\ UNCHANGED transactions /\ parser = "pko_bp"
             /\ \/ current' = NoTransaction
                \/ current # NoTransaction /\ current'.date = current.date
    <2>1. UpTo(transactions, block')
      BY <1>1, UpToMore DEF ParserTypes, Ordered
    <2>2. current' # NoTransaction => current'.date \in Entries /\ current'.date <= block'
      <3>1. current # NoTransaction =>
                current.date \in Entries /\ current.date <= block /\ current.date \in Int
        BY EntriesInt DEF Ordered
      <3>2. QED
        BY <1>1, <1>5, <3>1
    <2>3. QED
      BY <1>1, <1>5, <2>1, <2>2 DEF Ordered, Increasing
  <1>6. CASE Continues(row)
    <2>1. current \in Open
      BY <1>6 DEF Continues, ParserTypes
    <2>2. current'.date = current.date
      BY <1>6, <2>1 DEF Continues, Merged, Open
    <2>3. parser = "pko_bp"
      BY <1>6 DEF Continues, Ordered, Reads, ReadsLine, ReadsRow
    <2>4. QED
      BY <1>5, <1>6, <2>2, <2>3 DEF Continues
  <1>7. CASE Ignores(row) /\ parser = "pko_bp"
    BY <1>5, <1>7 DEF Ignores
  <1>8. CASE ReadsLine(row) /\ UNCHANGED transactions
    <2>1. UpTo(transactions, block') /\ current = NoTransaction
      BY <1>1, <1>8, UpToMore DEF ReadsLine, ParserTypes, Ordered
    <2>2. QED
      BY <1>1, <1>8, <2>1 DEF ReadsLine, Ordered, Increasing
  <1>9. CASE ReadsLine(row) /\ ~UNCHANGED transactions
    <2>1. PICK cell \in {AmountOf(row.of), BalanceOf(row.of)} :
              /\ Dated(row)
              /\ transactions' = Append(transactions, [date |-> row.of, amount |-> cell,
                                     balance |-> Empty, text |-> TextOf(row)])
      BY <1>9 DEF ReadsLine
    <2> DEFINE t == [date |-> row.of, amount |-> cell, balance |-> Empty,
                     text |-> TextOf(row)]
    <2>2. t \in Transactions
      BY <2>1, NumberCells DEF Transactions, TextOf, PrintedRows
    <2>3. t.date = block' /\ t.date - 1 = block
      BY <1>1, <2>1
    <2> HIDE DEF t
    <2>4. Increasing(transactions)' /\ UpTo(transactions', block')
      BY <1>1, <2>1, <2>2, <2>3, AppendOrdered DEF t, Ordered, ParserTypes, Increasing
    <2>5. QED
      BY <1>1, <1>9, <2>4 DEF ReadsLine, Ordered
  <1>10. QED
    BY <1>3, <1>4, <1>6, <1>7, <1>8, <1>9 DEF Reads, ReadsRow, ReadsLine

LEMMA OrderedNext == ASSUME TypeOK, Layout, Ordered, [Next]_vars PROVE Ordered'
  <1>1. ParserTypes /\ block \in Int
    BY StatementAssumption DEF TypeOK, ParserTypes
  <1>2. CASE UNCHANGED vars
    BY <1>2 DEF vars, Ordered, Increasing
  <1>3. CASE EndOfPdf /\ UNCHANGED transactions
    BY <1>3 DEF EndOfPdf, Ordered, Increasing
  <1>4. CASE EndOfPdf /\ ~UNCHANGED transactions
    <2>1. /\ current # NoTransaction /\ ~Unparsable(current)
          /\ transactions' = Append(transactions, Finalised(current))
          /\ current' = NoTransaction /\ block' = block
      BY <1>4 DEF EndOfPdf
    <2>2. Finalised(current) \in Transactions /\ Finalised(current).date = current.date
      BY <1>1, <2>1, FinalisedType DEF ParserTypes, Finalised
    <2>3. Increasing(transactions)' /\ UpTo(transactions', block)
      BY <1>1, <2>1, <2>2, AppendOrdered DEF Ordered, ParserTypes, Increasing
    <2>4. QED
      BY <2>1, <2>3 DEF Ordered
  <1>5. CASE Next /\ ~EndOfPdf
    <2>1. PICK row \in PrintedRows :
              /\ Reads(row)
              /\ Dated(row) => row.of \in Entries /\ row.of = block + 1 /\ block' = block + 1
      BY <1>5, StepReads
    <2>2. block' = block \/ block' = block + 1
      BY <1>5, EntryStep, MoreStep, LastStep DEF Next
    <2>3. QED
      BY <1>1, <2>1, <2>2, ReadsOrdered
  <1>6. QED
    BY <1>2, <1>3, <1>4, <1>5

LEMMA TypeOrdered == Spec => [](TypeOK /\ Ordered)
  <1>1. Init => Ordered
    BY DEF Init, Ordered, Increasing, UpTo
  <1>2. TypeOK /\ Layout /\ Ordered /\ [Next]_vars => Ordered'
    BY OrderedNext
  <1>3. QED
    BY <1>1, <1>2, TypeLayout, PTL DEF Spec

\* Transactions come in the order of the statement and none twice, whatever is misprinted.
THEOREM OrderIsKept == Spec => []OrderKept
  <1>1. TypeOK /\ Ordered => OrderKept
    <2>1. ASSUME TypeOK, Ordered, current # NoTransaction, NEW i \in 1..Len(transactions) + 1,
                 NEW j \in 1..Len(transactions) + 1, i < j
          PROVE  Append(transactions, current)[i].date < Append(transactions, current)[j].date
      <3>1. /\ Len(transactions) \in Nat
            /\ Append(transactions, current)[Len(transactions) + 1] = current
            /\ \A k \in 1..Len(transactions) :
                  /\ Append(transactions, current)[k] = transactions[k]
                  /\ transactions[k].date \in Int
        BY <2>1, DatesInt DEF TypeOK
      <3>2. current.date \in Int
        BY <2>1, EntriesInt DEF Ordered
      <3>3. QED
        BY <2>1, <3>1, <3>2 DEF Ordered, Increasing, UpTo
    <2>2. Len(Append(transactions, current)) = Len(transactions) + 1
      OBVIOUS
    <2>3. QED
      BY <2>1, <2>2 DEF OrderKept, Ordered, Increasing
  <1>2. QED
    BY <1>1, TypeOrdered, PTL

-----------------------------------------------------------------------------
(***************************************************************************)
(* The summary gives no number to a transaction: its first row ends the    *)
(* last one, and without an open transaction rows are ignored.             *)
(***************************************************************************)
Untotalled(ts) == \A i \in 1..Len(ts) : ts[i].amount # TotalCell /\ ts[i].balance # TotalCell

FreeOfTotal(row) == row.kwota # TotalCell /\ row.saldo # TotalCell /\ row.opis # TotalCell

Summaryless ==
    /\ Untotalled(transactions)
    /\ current.kwota # TotalCell /\ current.saldo # TotalCell
    /\ section = "summary" => current = NoTransaction

LEMMA PlainCells ==
    /\ Empty # TotalCell /\ Text # TotalCell
    /\ NoTransaction.kwota # TotalCell /\ NoTransaction.saldo # TotalCell
  BY CellKinds DEF NoTransaction

\* Rows of the table carry no number of the summary.
LEMMA TableRows ==
    ASSUME TypeOK, Layout, Next, ~EndOfPdf, section = "table"
    PROVE  \E row \in PrintedRows :
             /\ Reads(row) /\ FreeOfTotal(row)
             /\ section' = "table" \/ (~Dated(row) /\ IsNonTransactionRow(row))
  <1> USE StatementAssumption DEF TypeOK
  <1>1. CASE EntryRow
    <2>1. block + 1 \in Entries
      BY <1>1 DEF EntryRow, NextEntry, Entries
    <2>2. PICK row \in WholeRows(block + 1) \cup MisprintedRows(block + 1) : Reads(row)
      BY <1>1 DEF EntryRow
    <2>3. FreeOfTotal(row)
      BY <2>1, <2>2, NumberCells, PlainCells DEF WholeRows, MisprintedRows, Row, FreeOfTotal
    <2>4. QED
      BY <1>1, <2>1, <2>2, <2>3, EntryRows, EntryStep
  <1>2. CASE EntryRowWithoutAmount
    <2>1. block + 1 \in Entries /\ block + 1 \in 0..N
      BY <1>2 DEF EntryRowWithoutAmount, NextEntry, Entries
    <2>2. PICK row \in {Row(block + 1, "date", "none", Empty, saldo, Text) :
                            saldo \in {Empty, BalanceOf(block + 1)}} : Reads(row)
      BY <1>2 DEF EntryRowWithoutAmount
    <2>3. FreeOfTotal(row) /\ row \in PrintedRows
      BY <2>1, <2>2, NumberCells, PlainCells, CellKinds DEF Row, FreeOfTotal, PrintedRows
    <2>4. QED
      BY <1>2, <2>2, <2>3, EntryStep
  <1>3. CASE NumbersRow
    <2>1. block \in Entries
      BY <1>3 DEF NumbersRow, Layout, Entries
    <2>2. PICK row \in UNION {{Row(block, "other", "none", AmountOf(block), saldo, Empty),
                               Row(block, "other", "none", Empty, saldo, AmountOf(block))} :
                                    saldo \in {Empty, BalanceOf(block)}} : Reads(row)
      BY <1>3 DEF NumbersRow
    <2>3. FreeOfTotal(row) /\ row \in PrintedRows
      BY <2>1, <2>2, NumberCells, PlainCells, CellKinds DEF Row, FreeOfTotal, PrintedRows
    <2>4. QED
      BY <1>3, <2>2, <2>3, MoreStep
  <1>4. CASE TextRow \/ PageRow
    <2>1. PICK row \in {Row(e, "other", mark, kwota, Empty, Text) : e \in {0, block},
                          mark \in {"none", "header", "footer"}, kwota \in {Empty, Text}} :
                Reads(row)
      BY <1>4 DEF TextRow, PageRow
    <2>2. FreeOfTotal(row) /\ row \in PrintedRows
      BY <2>1, PlainCells, CellKinds DEF Row, FreeOfTotal, PrintedRows
    <2>3. QED
      BY <1>4, <2>1, <2>2, MoreStep
  <1>5. CASE SummaryRow
    <2>1. Reads(Row(0, "other", "footer", Empty, Empty, Text))
      BY <1>5 DEF SummaryRow
    <2>2. /\ Row(0, "other", "footer", Empty, Empty, Text) \in PrintedRows
          /\ FreeOfTotal(Row(0, "other", "footer", Empty, Empty, Text))
          /\ IsNonTransactionRow(Row(0, "other", "footer", Empty, Empty, Text))
          /\ ~Dated(Row(0, "other", "footer", Empty, Empty, Text))
      BY PlainCells, CellKinds DEF Row, FreeOfTotal, PrintedRows, IsNonTransactionRow, Dated
    <2>3. QED
      BY <2>1, <2>2
  <1>6. QED
    BY <1>1, <1>2, <1>3, <1>4, <1>5 DEF Next

LEMMA AppendUntotalled ==
    ASSUME ParserTypes, Summaryless, current # NoTransaction, ~Unparsable(current),
           transactions' = Append(transactions, Finalised(current))
    PROVE  Untotalled(transactions')
  <1>1. Finalised(current) \in Transactions
    BY FinalisedType DEF ParserTypes
  <1>2. Finalised(current).amount # TotalCell /\ Finalised(current).balance # TotalCell
    BY DEF Finalised, Summaryless
  <1>3. QED
    BY <1>1, <1>2, AppendKeeps DEF Untotalled, Summaryless, ParserTypes

LEMMA RowSummaryless ==
    ASSUME ParserTypes, Summaryless, NEW row \in PrintedRows, ReadsRow(row), FreeOfTotal(row),
           section' = "summary" => ~Dated(row) /\ IsNonTransactionRow(row)
    PROVE  Summaryless'
  <1>1. Reclaimed(row).kwota # TotalCell /\ Reclaimed(row).saldo # TotalCell
    BY ReclaimedType DEF FreeOfTotal
  <1>2. CASE Begins(row)
    <2>1. current'.kwota # TotalCell /\ current'.saldo # TotalCell
      BY <1>1, <1>2 DEF Begins, Begun
    <2>2. Untotalled(transactions)'
      BY <1>2, AppendUntotalled DEF Begins, Finalises, Summaryless, Untotalled
    <2>3. QED
      BY <1>2, <2>1, <2>2 DEF Begins, Summaryless
  <1>3. CASE Ends(row)
    <2>1. Untotalled(transactions)'
      BY <1>3, AppendUntotalled DEF Ends, Finalises, Summaryless, Untotalled
    <2>2. QED
      BY <1>3, <2>1, PlainCells DEF Ends, Summaryless
  <1>4. CASE Continues(row)
    <2>1. current \in Open
      BY <1>4 DEF Continues, ParserTypes
    <2>2. current'.kwota # TotalCell /\ current'.saldo # TotalCell
      BY <1>1, <1>4, <2>1 DEF Continues, Merged, Open, Summaryless
    <2>3. QED
      BY <1>4, <2>2 DEF Continues, Summaryless, Untotalled
  <1>5. CASE Ignores(row)
    BY <1>5 DEF Ignores, Summaryless, Untotalled
  <1>6. QED
    BY <1>2, <1>3, <1>4, <1>5 DEF ReadsRow

\* Once the summary has begun, no row is dated and none has a transaction to join.
LEMMA SummaryIgnored ==
    ASSUME TypeOK, Layout, Summaryless, Next, ~EndOfPdf, section # "table", parser = "pko_bp"
    PROVE  UNCHANGED <<transactions, current>>
  <1>1. SummaryRow \/ section = "end"
    BY DEF Next, EntryRow, EntryRowWithoutAmount, NextEntry, NumbersRow, TextRow, PageRow,
           Layout, TypeOK
  <1>2. PICK row \in PrintedRows : Reads(row) /\ ~Dated(row) /\ section = "summary"
    <2>1. CASE SummaryRow
      <3>1. PICK row \in {Row(0, "other", "none", kwota, TotalCell, opis) :
                            kwota \in {Empty, TotalCell}, opis \in {Empty, TotalCell}} :
                  Reads(row) /\ section = "summary"
        BY <2>1 DEF SummaryRow
      <3>2. row \in PrintedRows /\ ~Dated(row)
        BY <3>1, CellKinds, StatementAssumption DEF Row, PrintedRows, Dated
      <3>3. QED
        BY <3>1, <3>2
    <2>2. CASE section = "end" /\ ~SummaryRow
      BY <2>2 DEF Next, EntryRow, EntryRowWithoutAmount, NextEntry, NumbersRow, TextRow,
                  PageRow, Layout, TypeOK
    <2>3. QED
      BY <1>1, <2>1, <2>2
  <1>3. QED
    BY <1>2 DEF Reads, ReadsRow, ReadsLine, Begins, Ends, Continues, Ignores, Summaryless

SummaryInv == parser = "pko_bp" => Summaryless

LEMMA SummaryNext == ASSUME TypeOK, Layout, SummaryInv, [Next]_vars PROVE SummaryInv'
  <1>1. ParserTypes
    BY DEF TypeOK, ParserTypes
  <1>2. CASE UNCHANGED vars
    BY <1>2 DEF vars, SummaryInv, Summaryless, Untotalled
  <1>3. CASE EndOfPdf
    <2>1. ASSUME parser = "pko_bp" PROVE Untotalled(transactions)'
      BY <1>1, <1>3, <2>1, AppendUntotalled DEF EndOfPdf, SummaryInv, Summaryless, Untotalled
    <2>2. parser' = parser /\ current' = NoTransaction
      BY <1>3 DEF EndOfPdf
    <2>3. QED
      BY <2>1, <2>2, PlainCells DEF SummaryInv, Summaryless
  <1>4. CASE Next /\ ~EndOfPdf /\ section = "table" /\ parser = "pko_bp"
    <2>1. PICK row \in PrintedRows :
              /\ Reads(row) /\ FreeOfTotal(row)
              /\ section' = "table" \/ (~Dated(row) /\ IsNonTransactionRow(row))
      BY <1>4, TableRows
    <2>2. ReadsRow(row)
      BY <1>4, <2>1 DEF Reads, ReadsLine
    <2>3. QED
      BY <1>1, <1>4, <2>1, <2>2, RowSummaryless DEF SummaryInv
  <1>5. CASE Next /\ ~EndOfPdf /\ section # "table" /\ parser = "pko_bp"
    <2>1. UNCHANGED <<transactions, current>>
      BY <1>5, SummaryIgnored DEF SummaryInv
    <2>2. section = "summary"
      BY <1>5 DEF Next, EntryRow, EntryRowWithoutAmount, NextEntry, NumbersRow, TextRow,
                  PageRow, SummaryRow, Layout, TypeOK
    <2>3. QED
      BY <1>5, <2>1, <2>2 DEF SummaryInv, Summaryless, Untotalled
  <1>6. CASE Next /\ ~EndOfPdf /\ parser # "pko_bp"
    BY <1>6, StepReads DEF Reads, SummaryInv
  <1>7. QED
    BY <1>2, <1>3, <1>4, <1>5, <1>6

\* No number of the summary becomes an amount or a balance, whatever is misprinted.
THEOREM SummaryStaysOut == Spec => []NothingFromSummary
  <1>1. Init => SummaryInv
    BY PlainCells DEF Init, SummaryInv, Summaryless, Untotalled
  <1>2. TypeOK /\ Layout /\ SummaryInv /\ [Next]_vars => SummaryInv'
    BY SummaryNext
  <1>3. SummaryInv => NothingFromSummary
    BY DEF SummaryInv, Summaryless, Untotalled, NothingFromSummary
  <1>4. QED
    BY <1>1, <1>2, <1>3, TypeLayout, PTL DEF Spec

-----------------------------------------------------------------------------
(***************************************************************************)
(* Without misprints the parser has read what is printed: the complete     *)
(* transactions are the entries before the open one, which lacks what its  *)
(* entry has yet to print, and the sum telescopes over the balances.       *)
(***************************************************************************)
AsPrinted(ts) ==
    \A i \in 1..Len(ts) :
        /\ ts[i].date = i
        /\ ts[i].amount = AmountOf(i) /\ ts[i].balance = BalanceOf(i)
        /\ ts[i].text \subseteq {0, i}

SumOf(k) == IF k = 0 THEN 0 ELSE Balance[1] - Balance[k] + Amount[k]

OpenAsPrinted ==
    /\ current.date = block /\ current.text \subseteq {0, block}
    /\ current.kwota = IF due = "nothing" THEN AmountOf(block) ELSE Empty
    /\ current.saldo = IF due = "both" THEN Empty ELSE BalanceOf(block)

Sound ==
    /\ AsPrinted(transactions)
    /\ Len(transactions) = IF current = NoTransaction THEN block ELSE block - 1
    /\ sum = SumOf(Len(transactions))
    /\ IF current = NoTransaction THEN due = "nothing" ELSE OpenAsPrinted
    /\ section # "table" => current = NoTransaction
    /\ verdict = IF section = "end" THEN "consistent" ELSE "reading"

LEMMA ValueOfEntry ==
    ASSUME NEW e \in Entries
    PROVE  /\ Value(AmountOf(e)) = Amount[e] /\ Value(BalanceOf(e)) = Balance[e]
           /\ Amount[e] \in Int /\ Balance[e] \in Int
           /\ BalanceOf(e) # Empty /\ AmountOf(e) # Empty /\ BalanceOf(e) # Text
           /\ e # 0
  BY StatementAssumption DEF Value, AmountOf, BalanceOf, Empty, Text, Entries

\* The sum with the next entry.
LEMMA SumGrows ==
    ASSUME NEW k \in Nat, k + 1 \in Entries
    PROVE  SumOf(k + 1) = SumOf(k) + Amount[k + 1]
  <1>1. Balance[1] \in Int /\ Balance[k + 1] \in Int /\ Amount[k + 1] \in Int
    BY ValueOfEntry, StatementAssumption DEF Entries
  <1>2. CASE k = 0
    BY <1>1, <1>2 DEF SumOf
  <1>3. CASE k > 0
    <2>1. k \in Entries /\ k < N
      BY <1>3, StatementAssumption DEF Entries
    <2>2. Balance[k] = Balance[k + 1] + Amount[k] /\ Amount[k] \in Int /\ Balance[k] \in Int
      BY <2>1, StatementAssumption
    <2>3. QED
      BY <1>1, <1>3, <2>2 DEF SumOf
  <1>4. QED
    BY <1>2, <1>3

\* Completing the open transaction adds the entry that is being read.
LEMMA Completes ==
    ASSUME TypeOK, Sound, current # NoTransaction, due = "nothing"
    PROVE  LET ts == Append(transactions, Finalised(current)) IN
             /\ ~Unparsable(current)
             /\ ts \in Seq(Transactions) /\ AsPrinted(ts) /\ Len(ts) = block
             /\ sum + Value(current.kwota) = SumOf(block)
  <1> DEFINE t == Finalised(current)
  <1>1. block \in Entries /\ current \in Open /\ Len(transactions) = block - 1 /\ OpenAsPrinted
    BY StatementAssumption DEF TypeOK, Sound, OpenAsPrinted, Entries, Open
  <1>2. /\ current.kwota = AmountOf(block) /\ current.saldo = BalanceOf(block)
        /\ ~Unparsable(current)
    BY <1>1, NumberCells, ValueOfEntry DEF OpenAsPrinted, Unparsable, LooksLikeAmount
  <1>3. /\ t \in Transactions /\ t.date = block /\ t.amount = AmountOf(block)
        /\ t.balance = BalanceOf(block) /\ t.text \subseteq {0, block}
    BY <1>1, <1>2, FinalisedType DEF Finalised, OpenAsPrinted
  <1>4. sum + Value(current.kwota) = SumOf(block)
    <2>1. block - 1 \in Nat /\ (block - 1) + 1 = block
      BY <1>1, StatementAssumption DEF Entries
    <2>2. SumOf(block) = SumOf(block - 1) + Amount[block]
      BY <1>1, <2>1, SumGrows
    <2>3. QED
      BY <1>1, <1>2, <2>2, ValueOfEntry DEF Sound
  <1> HIDE DEF t
  <1>5. /\ Append(transactions, t) \in Seq(Transactions) /\ Len(Append(transactions, t)) = block
        /\ Append(transactions, t)[block] = t
        /\ \A i \in 1..Len(transactions) : Append(transactions, t)[i] = transactions[i]
    BY <1>1, <1>3, AppendKeeps DEF TypeOK, Entries
  <1>6. AsPrinted(Append(transactions, t))
    <2>1. ASSUME NEW i \in 1..block, i # block
          PROVE  i \in 1..Len(transactions) /\ Append(transactions, t)[i] = transactions[i]
      BY <1>1, <1>5, <2>1, StatementAssumption DEF Entries
    <2>2. QED
      BY <1>3, <1>5, <2>1 DEF AsPrinted, Sound
  <1>7. QED
    BY <1>2, <1>4, <1>5, <1>6 DEF t

LEMMA FinalisesSound ==
    ASSUME TypeOK, Sound, due = "nothing", Finalises
    PROVE  /\ AsPrinted(transactions') /\ Len(transactions') = block
           /\ sum' = SumOf(block) /\ verdict' = verdict
  <1>1. CASE current = NoTransaction
    BY <1>1 DEF Finalises, Sound
  <1>2. CASE current # NoTransaction
    BY <1>2, Completes DEF Finalises
  <1>3. QED
    BY <1>1, <1>2

\* An entry's first row.
LEMMA BeginsSound ==
    ASSUME TypeOK, Sound, NEW row, Begins(row), due = "nothing", section = "table",
           section' = section, block + 1 \in Entries, block' = block + 1, row.of = block + 1,
           LET line == Reclaimed(row) IN
             /\ line.of = row.of
             /\ line.kwota = IF due' = "nothing" THEN AmountOf(block + 1) ELSE Empty
             /\ line.saldo = IF due' = "both" THEN Empty ELSE BalanceOf(block + 1)
    PROVE  Sound'
  <1>1. /\ AsPrinted(transactions') /\ Len(transactions') = block
        /\ sum' = SumOf(block) /\ verdict' = verdict
    BY FinalisesSound DEF Begins
  <1>2. current' = Begun(Reclaimed(row))
    BY DEF Begins
  <1>3. OpenAsPrinted'
    BY <1>2 DEF Begun, TextOf, OpenAsPrinted
  <1>4. current' # NoTransaction
    BY <1>3, ValueOfEntry DEF OpenAsPrinted, NoTransaction
  <1>5. block' - 1 = block
    BY StatementAssumption DEF TypeOK
  <1>6. QED
    BY <1>1, <1>3, <1>4, <1>5 DEF Sound, AsPrinted

LEMMA EndsSound ==
    ASSUME TypeOK, Sound, NEW row, Ends(row), due = "nothing", due' = due, block' = block,
           section # "end", section' # "end"
    PROVE  Sound'
  <1>1. /\ AsPrinted(transactions') /\ Len(transactions') = block
        /\ sum' = SumOf(block) /\ verdict' = verdict
    BY FinalisesSound DEF Ends
  <1>2. QED
    BY <1>1 DEF Ends, Sound, AsPrinted

LEMMA IgnoresSound ==
    ASSUME Sound, NEW row, Ignores(row), due' = due, block' = block,
           section # "end", section' # "end"
    PROVE  Sound'
  BY DEF Ignores, Sound, AsPrinted, OpenAsPrinted

-----------------------------------------------------------------------------
LEMMA EntryRowSound ==
    ASSUME TypeOK, Sound, EntryRow, misprints' = 0, misprints = 0, parser = "pko_bp"
    PROVE  Sound'
  <1>1. /\ block + 1 \in Entries /\ block' = block + 1 /\ due = "nothing" /\ due' = "nothing"
        /\ section = "table" /\ section' = section
    BY StatementAssumption DEF EntryRow, NextEntry, TypeOK, Entries
  <1>2. PICK row \in WholeRows(block + 1) : Reads(row)
    BY DEF EntryRow, Misprint
  <1>3. /\ Dated(row) /\ row.of = block + 1
        /\ Reclaimed(row).of = row.of
        /\ Reclaimed(row).kwota = AmountOf(block + 1)
        /\ Reclaimed(row).saldo = BalanceOf(block + 1)
    BY <1>1, <1>2, NumberCells, CellKinds
       DEF WholeRows, Row, Dated, Reclaimed, LooksLikeAmount
  <1>4. Begins(row)
    BY <1>2, <1>3 DEF Reads, ReadsRow, ReadsLine, Ends, Continues, Ignores
  <1>5. QED
    BY <1>1, <1>3, <1>4, BeginsSound

LEMMA EntryRowWithoutAmountSound ==
    ASSUME TypeOK, Sound, EntryRowWithoutAmount, parser = "pko_bp"
    PROVE  Sound'
  <1>1. /\ block + 1 \in Entries /\ block' = block + 1 /\ due = "nothing"
        /\ due' \in {"both", "amount"} /\ section = "table" /\ section' = section
    BY StatementAssumption DEF EntryRowWithoutAmount, NextEntry, TypeOK, Entries
  <1>2. PICK row \in {Row(block + 1, "date", "none", Empty,
                          IF due' = "both" THEN Empty ELSE BalanceOf(block + 1), Text)} :
            Reads(row)
    BY DEF EntryRowWithoutAmount
  <1>3. /\ Dated(row) /\ row.of = block + 1
        /\ Reclaimed(row).of = row.of /\ Reclaimed(row).kwota = Empty
        /\ Reclaimed(row).saldo = IF due' = "both" THEN Empty ELSE BalanceOf(block + 1)
    BY <1>1, <1>2, CellKinds DEF Row, Dated, Reclaimed, LooksLikeAmount
  <1>4. Begins(row)
    BY <1>2, <1>3 DEF Reads, ReadsRow, ReadsLine, Ends, Continues, Ignores
  <1>5. QED
    BY <1>1, <1>3, <1>4, BeginsSound

LEMMA NumbersRowSound ==
    ASSUME TypeOK, Layout, Sound, NumbersRow, parser = "pko_bp"
    PROVE  Sound'
  <1>1. /\ block \in Entries /\ block' = block /\ due \in {"both", "amount"}
        /\ due' = "nothing" /\ section = "table" /\ section' = section
        /\ current # NoTransaction /\ OpenAsPrinted /\ current \in Open
    BY StatementAssumption DEF NumbersRow, Layout, Sound, TypeOK, Entries
  <1>2. PICK row \in
            {Row(block, "other", "none", AmountOf(block), IF due = "both" THEN BalanceOf(block) ELSE Empty, Empty),
             Row(block, "other", "none", Empty, IF due = "both" THEN BalanceOf(block) ELSE Empty, AmountOf(block))} :
            Reads(row)
    BY DEF NumbersRow
  <1>3. /\ ~Dated(row) /\ ~IsNonTransactionRow(row)
        /\ Reclaimed(row).of = block /\ Reclaimed(row).kwota = AmountOf(block)
        /\ Reclaimed(row).saldo = IF due = "both" THEN BalanceOf(block) ELSE Empty
        /\ AmountOf(block) \in Numbers /\ BalanceOf(block) \in Numbers
    BY <1>1, <1>2, NumberCells, CellKinds
       DEF Row, Dated, Reclaimed, LooksLikeAmount, IsNonTransactionRow
  <1>4. Continues(row)
    BY <1>1, <1>2, <1>3 DEF Reads, ReadsRow, ReadsLine, Ends, Begins, Ignores
  <1>5. current' = Merged(current, Reclaimed(row)) /\ UNCHANGED <<transactions, sum, verdict>>
    BY <1>4 DEF Continues
  <1>6. /\ current'.date = block /\ current'.text \subseteq {0, block}
        /\ current'.kwota = AmountOf(block) /\ current'.saldo = BalanceOf(block)
    BY <1>1, <1>3, <1>5, CellKinds DEF Merged, Open, OpenAsPrinted, LooksLikeAmount, TextOf
  <1>7. current' # NoTransaction
    BY <1>1, <1>6, ValueOfEntry DEF NoTransaction
  <1>8. QED
    BY <1>1, <1>5, <1>6, <1>7 DEF Sound, AsPrinted, OpenAsPrinted

\* A row of text, of the entry or of the page.
LEMMA TextSound ==
    ASSUME TypeOK, Sound, NEW row \in PrintedRows, Continues(row),
           row.of \in {0, block}, row.kwota \in {Empty, Text}, row.saldo = Empty,
           row.opis = Text, UNCHANGED <<block, due, section>>
    PROVE  Sound'
  <1>1. /\ current # NoTransaction /\ current \in Open /\ OpenAsPrinted
        /\ current' = Merged(current, row) /\ UNCHANGED <<transactions, sum, verdict>>
    BY CellKinds DEF Continues, TypeOK, Sound, Reclaimed, LooksLikeAmount
  <1>2. /\ current'.date = block /\ current'.text \subseteq {0, block}
        /\ current'.kwota = current.kwota /\ current'.saldo = current.saldo
    BY <1>1, CellKinds DEF Merged, Open, OpenAsPrinted, LooksLikeAmount, TextOf
  <1>3. current' # NoTransaction
    BY <1>1, <1>2, StatementAssumption DEF NoTransaction, Open, OpenAsPrinted, Entries
  <1>4. QED
    BY <1>1, <1>2, <1>3 DEF Sound, AsPrinted, OpenAsPrinted

LEMMA TextRowSound ==
    ASSUME TypeOK, Sound, TextRow, misprints' = 0, misprints = 0, parser = "pko_bp"
    PROVE  Sound'
  <1>1. PICK row \in {Row(block, "other", "none", kwota, Empty, Text) : kwota \in {Empty, Text}} :
            Reads(row)
    BY DEF TextRow, Misprint
  <1>2. /\ row \in PrintedRows /\ ~Dated(row) /\ ~IsNonTransactionRow(row)
        /\ row.of = block /\ row.kwota \in {Empty, Text} /\ row.saldo = Empty /\ row.opis = Text
    BY <1>1, CellKinds DEF TypeOK, Row, PrintedRows, Dated, IsNonTransactionRow
  <1>3. UNCHANGED <<block, due, section>> /\ section = "table"
    BY DEF TextRow
  <1>4. Continues(row) \/ Ignores(row)
    BY <1>1, <1>2 DEF Reads, ReadsRow, ReadsLine, Ends, Begins
  <1>5. QED
    BY <1>2, <1>3, <1>4, TextSound, IgnoresSound

LEMMA PageRowSound ==
    ASSUME TypeOK, Sound, PageRow, parser = "pko_bp"
    PROVE  Sound'
  <1>1. PICK row \in {Row(0, "other", mark, Empty, Empty, Text) : mark \in {"header", "none"}} :
            Reads(row)
    BY DEF PageRow
  <1>2. /\ row \in PrintedRows /\ ~Dated(row)
        /\ row.of = 0 /\ row.kwota = Empty /\ row.saldo = Empty /\ row.opis = Text
    BY <1>1, CellKinds, StatementAssumption DEF Row, PrintedRows, Dated
  <1>3. UNCHANGED <<block, due, section>> /\ section = "table" /\ due = "nothing"
    BY DEF PageRow
  <1>4. Continues(row) \/ Ignores(row) \/ Ends(row)
    BY <1>1, <1>2 DEF Reads, ReadsRow, ReadsLine, Begins
  <1>5. QED
    BY <1>2, <1>3, <1>4, TextSound, IgnoresSound, EndsSound

LEMMA SummaryRowSound ==
    ASSUME TypeOK, Sound, SummaryRow, parser = "pko_bp"
    PROVE  Sound'
  <1>1. UNCHANGED <<block, due>> /\ due = "nothing" /\ section' = "summary" /\ section # "end"
    BY DEF SummaryRow
  <1>2. CASE section = "table"
    <2>1. PICK row \in {Row(0, "other", "footer", Empty, Empty, Text)} : Reads(row)
      BY <1>2 DEF SummaryRow
    <2>2. ~Dated(row) /\ IsNonTransactionRow(row)
      BY <2>1 DEF Row, Dated, IsNonTransactionRow
    <2>3. Ignores(row) \/ Ends(row)
      BY <2>1, <2>2 DEF Reads, ReadsRow, ReadsLine, Begins, Continues
    <2>4. QED
      BY <1>1, <2>3, IgnoresSound, EndsSound
  <1>3. CASE section = "summary"
    <2>1. PICK row \in {Row(0, "other", "none", kwota, TotalCell, opis) :
                          kwota \in {Empty, TotalCell}, opis \in {Empty, TotalCell}} : Reads(row)
      BY <1>3 DEF SummaryRow
    <2>2. ~Dated(row) /\ current = NoTransaction
      BY <1>3, <2>1 DEF Row, Dated, Sound
    <2>3. Ignores(row)
      BY <2>1, <2>2 DEF Reads, ReadsRow, ReadsLine, Begins, Ends, Continues
    <2>4. QED
      BY <1>1, <2>3, IgnoresSound
  <1>4. QED
    BY <1>2, <1>3 DEF SummaryRow

\* The balances that are derived agree with the printed ones.
LEMMA PrintedIsConsistent ==
    ASSUME NEW ts \in Seq(Transactions), AsPrinted(ts), Len(ts) = N
    PROVE  Verdict(ts, SumOf(N)) = "consistent"
  <1>1. 1 \in Entries /\ N \in Entries /\ N \in Nat \ {0}
    BY StatementAssumption DEF Entries
  <1>2. ts # <<>>
    BY <1>1
  <1>3. /\ ts[1].balance = BalanceOf(1)
        /\ ts[Len(ts)].balance = BalanceOf(N) /\ ts[Len(ts)].amount = AmountOf(N)
    BY <1>1 DEF AsPrinted
  <1>4. BalancesKnown(ts)
    BY <1>1, <1>2, <1>3, ValueOfEntry DEF BalancesKnown
  <1>5. /\ Value(BalanceOf(1)) = Balance[1] /\ Balance[1] \in Int
        /\ Value(BalanceOf(N)) = Balance[N] /\ Balance[N] \in Int
        /\ Value(AmountOf(N)) = Amount[N] /\ Amount[N] \in Int
    BY <1>1, ValueOfEntry
  <1>6. Gap(ts, SumOf(N)) = 0
    BY <1>1, <1>3, <1>5 DEF Gap, OpeningBalance, ClosingCell, SumOf
  <1>7. QED
    BY <1>4, <1>6 DEF Verdict, BALANCE_TOLERANCE

LEMMA EndSound ==
    ASSUME TypeOK, Sound, EndOfPdf
    PROVE  Sound'
  <1>1. /\ block = N /\ due = "nothing" /\ UNCHANGED <<block, due>> /\ section' = "end"
        /\ current' = NoTransaction
    BY DEF EndOfPdf
  <1>2. CASE current = NoTransaction
    <2>1. transactions \in Seq(Transactions) /\ AsPrinted(transactions) /\ Len(transactions) = N
      BY <1>1, <1>2 DEF TypeOK, Sound
    <2>2. Verdict(transactions, sum) = "consistent"
      BY <2>1, PrintedIsConsistent DEF Sound
    <2>3. transactions' = transactions /\ sum' = sum /\ verdict' = Verdict(transactions, sum)
      BY <1>2 DEF EndOfPdf
    <2>4. QED
      BY <1>1, <1>2, <2>1, <2>2, <2>3 DEF Sound
  <1>3. CASE current # NoTransaction
    <2> DEFINE ts == Append(transactions, Finalised(current))
    <2>1. /\ ~Unparsable(current)
          /\ ts \in Seq(Transactions) /\ AsPrinted(ts) /\ Len(ts) = N
          /\ sum + Value(current.kwota) = SumOf(N)
      BY <1>1, <1>3, Completes
    <2>2. /\ transactions' = ts /\ sum' = SumOf(N) /\ verdict' = Verdict(ts, SumOf(N))
      BY <1>3, <2>1 DEF EndOfPdf
    <2> HIDE DEF ts
    <2>3. verdict' = "consistent"
      BY <2>1, <2>2, PrintedIsConsistent
    <2>4. QED
      BY <1>1, <2>1, <2>2, <2>3 DEF Sound
  <1>4. QED
    BY <1>2, <1>3

SoundInv == misprints = 0 /\ parser = "pko_bp" => Sound

LEMMA SoundNext == ASSUME TypeOK, Layout, SoundInv, [Next]_vars PROVE SoundInv'
  <1>1. CASE UNCHANGED vars
    BY <1>1 DEF vars, SoundInv, Sound, AsPrinted, OpenAsPrinted
  <1>2. ASSUME Next, misprints' = 0 PROVE misprints = 0
    BY <1>2, EntryStep, MoreStep, LastStep, StatementAssumption DEF Next, TypeOK
  <1>3. ASSUME Next PROVE parser' = parser
    BY <1>3, StepReads DEF Reads, EndOfPdf
  <1>4. ASSUME Next, misprints' = 0, parser = "pko_bp" PROVE Sound'
    <2>1. misprints = 0 /\ Sound
      BY <1>2, <1>4 DEF SoundInv
    <2>2. QED
      BY <1>4, <2>1, EntryRowSound, EntryRowWithoutAmountSound, NumbersRowSound, TextRowSound,
         PageRowSound, SummaryRowSound, EndSound DEF Next
  <1>5. QED
    BY <1>1, <1>3, <1>4 DEF SoundInv

LEMMA SoundAlways == Spec => [](TypeOK /\ SoundInv)
  <1>1. Init => SoundInv
    BY DEF Init, SoundInv, Sound, AsPrinted, SumOf
  <1>2. TypeOK /\ Layout /\ SoundInv /\ [Next]_vars => SoundInv'
    BY SoundNext
  <1>3. QED
    BY <1>1, <1>2, TypeLayout, PTL DEF Spec

\* Without misprints the rows read so far have become the entries printed so far.
THEOREM ReadsAsPrinted == Spec => []ReadAsPrinted
  <1>1. SoundInv => ReadAsPrinted
    BY DEF SoundInv, Sound, AsPrinted, ReadAsPrinted
  <1>2. QED
    BY <1>1, SoundAlways, PTL

\* A statement without misprints passes the balance check, whatever its amounts.
THEOREM SoundStatementPasses == Spec => []SoundPasses
  <1>1. SoundInv => SoundPasses
    BY DEF SoundInv, Sound, SoundPasses
  <1>2. QED
    BY <1>1, SoundAlways, PTL

-----------------------------------------------------------------------------
(***************************************************************************)
(* What passes the check.  A transaction takes its numbers from its own    *)
(* entry or from the entries up to the next transaction, whose dates are   *)
(* lost: such an entry prints its numbers on a row that continues the      *)
(* transaction before it, and gives it what that one still lacks.          *)
(***************************************************************************)
AmountFrom(d, amount, last) ==
    amount \in Numbers => /\ d <= amount.of /\ amount.of <= last
                          /\ amount.of # d => amount.shape = "amount"

BalanceFrom(d, amount, balance, last) ==
    balance \in Numbers => /\ balance.shape = "balance"
                           /\ d <= balance.of /\ balance.of <= last
                           /\ balance.of # d => amount \in {Text, BalanceOf(d)}

\* The numbers of a transaction come before day d of the next one.
Before(t, d) ==
    /\ t.amount.of < d
    /\ t.balance \in Numbers => t.balance.of < d

Placed(ts, last) ==
    \A i \in 1..Len(ts) :
        /\ AmountFrom(ts[i].date, ts[i].amount, last)
        /\ BalanceFrom(ts[i].date, ts[i].amount, ts[i].balance, last)
        /\ \A j \in 1..Len(ts) : i < j => Before(ts[i], ts[j].date)

\* Only a transaction whose entry has yet to print its numbers lacks both.
OpenPlaced ==
    /\ AmountFrom(current.date, current.kwota, block)
    /\ BalanceFrom(current.date, current.kwota, current.saldo, block)
    /\ \A i \in 1..Len(transactions) : Before(transactions[i], current.date)
    /\ IF due = "nothing"
       THEN /\ current.kwota = Empty => current.saldo = BalanceOf(current.date)
            /\ current.saldo = Empty => current.kwota \in {Text, BalanceOf(current.date)}
       ELSE /\ current.date = block /\ current.kwota = Empty
            /\ current.saldo = IF due = "both" THEN Empty ELSE BalanceOf(block)

DatesOf(ts) == {ts[i].date : i \in 1..Len(ts)}

\* The value read for each date.
ReadOf(ts) == [e \in DatesOf(ts) |-> Value(ts[CHOOSE i \in 1..Len(ts) : ts[i].date = e].amount)]

Kept ==
    /\ Placed(transactions, block)
    /\ sum = SumOver(ReadOf(transactions), DatesOf(transactions))
    /\ IF current = NoTransaction THEN due = "nothing" ELSE OpenPlaced

LEMMA DatesFinite ==
    ASSUME NEW ts \in Seq(Transactions)
    PROVE  DatesOf(ts) \subseteq Entries /\ IsFiniteSet(DatesOf(ts)) /\ IsFiniteSet(Entries)
  <1>1. DatesOf(ts) \subseteq Entries
    BY DatesInt DEF DatesOf, Transactions
  <1>2. IsFiniteSet(Entries)
    BY StatementAssumption, FS_Interval DEF Entries
  <1>3. QED
    BY <1>1, <1>2, FS_Subset

\* Dates differ, so each has one value.
LEMMA ReadAt ==
    ASSUME NEW ts \in Seq(Transactions), Increasing(ts), NEW i \in 1..Len(ts)
    PROVE  /\ ts[i].date \in DatesOf(ts)
           /\ ReadOf(ts)[ts[i].date] = Value(ts[i].amount)
           /\ Value(ts[i].amount) \in Int
  <1>1. \A j \in 1..Len(ts) : ts[j].date = ts[i].date => j = i
    BY DatesInt DEF Increasing
  <1>2. (CHOOSE j \in 1..Len(ts) : ts[j].date = ts[i].date) = i
    BY <1>1
  <1>3. ts[i].amount \in Numbers
    BY DatesInt DEF Transactions
  <1>4. QED
    BY <1>2, <1>3, ValueInt DEF DatesOf, ReadOf

LEMMA ReadInt ==
    ASSUME NEW ts \in Seq(Transactions), Increasing(ts), NEW e \in DatesOf(ts)
    PROVE  ReadOf(ts)[e] \in Int
  BY ReadAt DEF DatesOf

\* A transaction more adds its amount to the sum.
LEMMA SumWithOneMore ==
    ASSUME NEW ts \in Seq(Transactions), NEW t \in Transactions, Increasing(Append(ts, t)),
           Increasing(ts)
    PROVE  SumOver(ReadOf(Append(ts, t)), DatesOf(Append(ts, t)))
             = SumOver(ReadOf(ts), DatesOf(ts)) + Value(t.amount)
  <1> DEFINE us == Append(ts, t)
             n == Len(ts)
             D == DatesOf(ts)
  <1>1. /\ us \in Seq(Transactions) /\ Len(us) = n + 1 /\ us[n + 1] = t /\ n \in Nat
        /\ \A i \in 1..n : us[i] = ts[i]
    BY AppendKeeps
  <1> HIDE DEF us, n
  <1>2. DatesOf(us) = D \cup {t.date}
    <2>1. \A i \in 1..n + 1 : i \in 1..n \/ i = n + 1
      BY <1>1
    <2>2. \A i \in 1..n : i \in 1..n + 1
      BY <1>1
    <2>3. n + 1 \in 1..n + 1
      BY <1>1
    <2>4. QED
      BY <1>1, <2>1, <2>2, <2>3 DEF DatesOf, n
  <1>3. t.date \notin D
    <2>1. \A i \in 1..n : us[i].date < t.date
      BY <1>1 DEF Increasing, us
    <2>2. t.date \in Int
      BY EntriesInt DEF Transactions
    <2>3. QED
      BY <1>1, <2>1, <2>2 DEF DatesOf, n
  <1>4. ReadOf(us)[t.date] = Value(t.amount) /\ Value(t.amount) \in Int
    <2>1. n + 1 \in 1..Len(us)
      BY <1>1
    <2>2. QED
      BY <1>1, <2>1, ReadAt DEF us
  <1>5. \A e \in D : ReadOf(us)[e] \in Int /\ ReadOf(us)[e] = ReadOf(ts)[e]
    <2> SUFFICES ASSUME NEW e \in D PROVE ReadOf(us)[e] \in Int /\ ReadOf(us)[e] = ReadOf(ts)[e]
      OBVIOUS
    <2>1. PICK i \in 1..Len(ts) : ts[i].date = e
      BY DEF DatesOf
    <2>2. i \in 1..Len(us) /\ us[i] = ts[i]
      BY <1>1, <2>1 DEF n
    <2>3. ReadOf(us)[e] = Value(ts[i].amount) /\ ReadOf(us)[e] \in Int
      BY <1>1, <2>1, <2>2, ReadAt DEF us
    <2>4. ReadOf(ts)[e] = Value(ts[i].amount)
      BY <2>1, ReadAt
    <2>5. QED
      BY <2>3, <2>4
  <1>6. IsFiniteSet(D)
    BY DatesFinite
  <1> HIDE DEF D
  <1>7. SumOver(ReadOf(us), D \cup {t.date}) = ReadOf(us)[t.date] + SumOver(ReadOf(us), D)
    BY <1>3, <1>4, <1>5, <1>6, SumAdd
  <1>8. SumOver(ReadOf(us), D) = SumOver(ReadOf(ts), D) /\ SumOver(ReadOf(us), D) \in Int
    BY <1>5, <1>6, SumSame, SumInt
  <1>9. QED
    BY <1>2, <1>4, <1>7, <1>8 DEF us, D

LEMMA OfInt == ASSUME NEW c \in Numbers PROVE c.of \in Int
  <1>1. CASE c \in [shape : {"amount", "rest", "balance"}, of : Entries]
    BY <1>1, EntriesInt
  <1>2. CASE c \in [shape : {"total"}, of : {0}]
    BY <1>2
  <1>3. QED
    BY <1>1, <1>2 DEF Numbers

LEMMA PlacedMore ==
    ASSUME NEW ts \in Seq(Transactions), NEW a \in Int, NEW b \in Int, a <= b, Placed(ts, a)
    PROVE  Placed(ts, b)
  <1>1. \A c \in Numbers : c.of \in Int
    BY OfInt
  <1>2. QED
    BY <1>1 DEF Placed, AmountFrom, BalanceFrom

\* What has been placed lies before the next entry.
LEMMA PlacedBefore ==
    ASSUME NEW ts \in Seq(Transactions), NEW last \in Int, Placed(ts, last)
    PROVE  \A i \in 1..Len(ts) : Before(ts[i], last + 1)
  <1>1. \A c \in Numbers : c.of \in Int
    BY OfInt
  <1>2. \A i \in 1..Len(ts) : ts[i].amount \in Numbers
    BY DatesInt DEF Transactions
  <1>3. QED
    BY <1>1, <1>2 DEF Placed, AmountFrom, BalanceFrom, Before

LEMMA PlacedAppend ==
    ASSUME NEW ts \in Seq(Transactions), NEW t \in Transactions, NEW last \in Int,
           Placed(ts, last), \A i \in 1..Len(ts) : Before(ts[i], t.date),
           AmountFrom(t.date, t.amount, last), BalanceFrom(t.date, t.amount, t.balance, last)
    PROVE  Placed(Append(ts, t), last)
  <1> DEFINE us == Append(ts, t)
  <1>1. /\ Len(us) = Len(ts) + 1 /\ us[Len(ts) + 1] = t /\ Len(ts) \in Nat
        /\ \A i \in 1..Len(ts) : us[i] = ts[i]
    BY AppendKeeps
  <1> HIDE DEF us
  <1>2. ASSUME NEW i \in 1..Len(us), i # Len(ts) + 1 PROVE i \in 1..Len(ts) /\ us[i] = ts[i]
    BY <1>1, <1>2
  <1>3. ASSUME NEW i \in 1..Len(us), NEW j \in 1..Len(us), i < j PROVE Before(us[i], us[j].date)
    <2>1. i # Len(ts) + 1
      BY <1>1, <1>3
    <2>2. i \in 1..Len(ts) /\ us[i] = ts[i]
      BY <1>2, <2>1
    <2>3. CASE j = Len(ts) + 1
      BY <1>1, <2>2, <2>3
    <2>4. CASE j # Len(ts) + 1
      <3>1. j \in 1..Len(ts) /\ us[j] = ts[j]
        BY <1>2, <2>4
      <3>2. QED
        BY <1>3, <2>2, <3>1 DEF Placed
    <2>5. QED
      BY <2>3, <2>4
  <1>4. ASSUME NEW i \in 1..Len(us)
        PROVE  /\ AmountFrom(us[i].date, us[i].amount, last)
               /\ BalanceFrom(us[i].date, us[i].amount, us[i].balance, last)
    <2>1. CASE i = Len(ts) + 1
      BY <1>1, <2>1
    <2>2. CASE i # Len(ts) + 1
      BY <1>2, <2>2 DEF Placed
    <2>3. QED
      BY <2>1, <2>2
  <1>5. QED
    BY <1>3, <1>4 DEF Placed, us

LEMMA FinalisesKept ==
    ASSUME ParserTypes, Ordered, Kept, block \in Int, Finalises, verdict' = "reading"
    PROVE  /\ Placed(transactions', block)
           /\ sum' = SumOver(ReadOf(transactions'), DatesOf(transactions'))
           /\ current # NoTransaction => due = "nothing"
  <1>1. CASE current = NoTransaction
    BY <1>1 DEF Finalises, Kept
  <1>2. CASE current # NoTransaction
    <2> DEFINE t == Finalised(current)
    <2>1. /\ ~Unparsable(current) /\ transactions' = Append(transactions, t)
          /\ sum' = sum + Value(current.kwota)
      BY <1>2 DEF Finalises
    <2>2. t \in Transactions /\ t.date = current.date /\ t.amount = current.kwota /\ t.balance = current.saldo
      BY <1>2, <2>1, FinalisedType DEF ParserTypes, Finalised
    <2> HIDE DEF t
    <2>3. Placed(transactions', block)
      BY <1>2, <2>1, <2>2, PlacedAppend DEF Kept, OpenPlaced, ParserTypes
    <2>4. Increasing(Append(transactions, t)) /\ Increasing(transactions)
      <3>1. Increasing(transactions)'
        BY FinalisesOrdered
      <3>2. QED
        BY <2>1, <3>1 DEF Ordered, Increasing
    <2>5. sum' = SumOver(ReadOf(transactions'), DatesOf(transactions'))
      BY <2>1, <2>2, <2>4, SumWithOneMore DEF Kept, ParserTypes
    <2>6. due = "nothing"
      BY <1>2, <2>1, CellKinds DEF Kept, OpenPlaced, Unparsable, LooksLikeAmount
    <2>7. QED
      BY <2>3, <2>5, <2>6
  <1>3. QED
    BY <1>1, <1>2

\* The first row of an entry.
LEMMA BeginsKept ==
    ASSUME ParserTypes, Ordered, Kept, NEW row \in PrintedRows, Begins(row), verdict' = "reading",
           block \in Int, block + 1 \in Entries, block' = block + 1, row.of = block + 1,
           NEW kwota, NEW saldo, kwota = Reclaimed(row).kwota, saldo = Reclaimed(row).saldo,
           AmountFrom(block + 1, kwota, block + 1),
           BalanceFrom(block + 1, kwota, saldo, block + 1),
           IF due' = "nothing"
           THEN /\ kwota = Empty => saldo = BalanceOf(block + 1)
                /\ saldo = Empty => kwota \in {Text, BalanceOf(block + 1)}
           ELSE /\ kwota = Empty
                /\ saldo = IF due' = "both" THEN Empty ELSE BalanceOf(block + 1)
    PROVE  Kept'
  <1>1. Placed(transactions', block) /\ sum' = SumOver(ReadOf(transactions'), DatesOf(transactions'))
    BY FinalisesKept DEF Begins
  <1>2. transactions' \in Seq(Transactions)
    BY FinalisesTypes DEF Begins
  <1>3. Placed(transactions', block') /\ \A i \in 1..Len(transactions') : Before(transactions'[i], block + 1)
    BY <1>1, <1>2, PlacedMore, PlacedBefore
  <1>4. current'.date = block + 1 /\ current'.kwota = kwota /\ current'.saldo = saldo
    BY ReclaimedType DEF Begins, Begun
  <1>5. current' # NoTransaction
    BY <1>4, StatementAssumption DEF NoTransaction, Entries
  <1>6. OpenPlaced'
    BY <1>3, <1>4 DEF OpenPlaced
  <1>7. QED
    BY <1>1, <1>3, <1>5, <1>6 DEF Kept

LEMMA EndsKept ==
    ASSUME ParserTypes, Ordered, Kept, NEW row, Ends(row), verdict' = "reading",
           block \in Int, block' = block, due' = due
    PROVE  Kept'
  BY FinalisesKept DEF Ends, Kept

LEMMA IgnoresKept ==
    ASSUME ParserTypes, Kept, NEW row, Ignores(row), block \in Int, block' \in {block, block + 1},
           due' = due
    PROVE  Kept'
  <1>1. Placed(transactions, block')
    BY PlacedMore DEF Kept, ParserTypes
  <1>2. QED
    BY <1>1 DEF Ignores, Kept

\* A row with no numbers changes none.
LEMMA TextKept ==
    ASSUME ParserTypes, Kept, NEW row \in PrintedRows, Continues(row),
           row.kwota \in {Empty, Text}, row.saldo = Empty, row.opis = Text,
           UNCHANGED <<block, due>>
    PROVE  Kept'
  <1>1. /\ current # NoTransaction /\ current \in Open
        /\ current' = Merged(current, row) /\ UNCHANGED <<transactions, sum, verdict>>
    BY CellKinds DEF Continues, ParserTypes, Reclaimed, LooksLikeAmount
  <1>2. /\ current'.date = current.date
        /\ current'.kwota = current.kwota /\ current'.saldo = current.saldo
    BY <1>1, CellKinds DEF Merged, Open, LooksLikeAmount
  <1>3. current' # NoTransaction
    BY <1>1, <1>2, StatementAssumption DEF NoTransaction, Open, Entries
  <1>4. QED
    BY <1>1, <1>2, <1>3 DEF Kept, OpenPlaced

\* An entry whose date is lost fills what the transaction before it lacks.
LEMMA TornKept ==
    ASSUME ParserTypes, Ordered, Kept, NEW row \in PrintedRows, Continues(row), block \in Int,
           block + 1 \in Entries, block' = block + 1, due = "nothing", due' = due,
           row.kwota = AmountOf(block + 1), row.saldo = BalanceOf(block + 1)
    PROVE  Kept'
  <1> DEFINE e == block + 1
             d == current.date
  <1>1. AmountOf(e) \in Numbers /\ BalanceOf(e) \in Numbers
    BY NumberCells
  <1>2. /\ current # NoTransaction /\ current \in Open
        /\ current' = Merged(current, row) /\ UNCHANGED <<transactions, sum, verdict>>
    BY <1>1, CellKinds DEF Continues, ParserTypes, Reclaimed
  <1>3. /\ current'.date = d
        /\ current'.kwota = IF current.kwota = Empty THEN AmountOf(e) ELSE current.kwota
        /\ current'.saldo = IF current.saldo = Empty THEN BalanceOf(e) ELSE current.saldo
    BY <1>1, <1>2 DEF Merged, Open, LooksLikeAmount
  <1>4. current' # NoTransaction
    BY <1>2, <1>3, StatementAssumption DEF NoTransaction, Open, Entries
  <1>5. Placed(transactions, e)
    BY PlacedMore DEF Kept, ParserTypes
  <1>6. d \in Int /\ d <= block /\ OpenPlaced
    BY <1>2, EntriesInt DEF Ordered, Open, Kept
  <1>7. AmountFrom(d, current'.kwota, e)
    <2>1. CASE current.kwota = Empty
      BY <1>3, <1>6, <2>1 DEF AmountFrom, AmountOf
    <2>2. CASE current.kwota # Empty
      BY <1>3, <1>6, <2>2, OfInt DEF AmountFrom, OpenPlaced
    <2>3. QED
      BY <2>1, <2>2
  <1>8. BalanceFrom(d, current'.kwota, current'.saldo, e)
    <2>1. CASE current.saldo = Empty
      <3>1. current'.kwota \in {Text, BalanceOf(d)}
        <4>1. current.kwota \in {Text, BalanceOf(d)}
          BY <1>6, <2>1 DEF OpenPlaced
        <4>2. current.kwota # Empty
          BY <1>2, <4>1, CellKinds, ValueOfEntry DEF Open
        <4>3. QED
          BY <1>3, <4>1, <4>2
      <3>2. QED
        BY <1>3, <1>6, <2>1, <3>1 DEF BalanceFrom, BalanceOf
    <2>2. CASE current.saldo # Empty
      <3>1. ASSUME current.saldo \in Numbers, current.saldo.of # d
            PROVE  current.kwota \in {Text, BalanceOf(d)} /\ current.kwota # Empty
        BY <1>2, <1>6, <3>1, CellKinds, ValueOfEntry DEF OpenPlaced, BalanceFrom, Open
      <3>2. QED
        BY <1>3, <1>6, <2>2, <3>1, OfInt DEF BalanceFrom, OpenPlaced
    <2>3. QED
      BY <2>1, <2>2
  <1>9. current'.kwota # Empty /\ current'.saldo # Empty
    BY <1>1, <1>3, CellKinds
  <1>10. OpenPlaced'
    BY <1>2, <1>3, <1>6, <1>7, <1>8, <1>9 DEF OpenPlaced
  <1>11. QED
    BY <1>2, <1>4, <1>5, <1>10 DEF Kept

\* The numbers of the open transaction's entry.
LEMMA NumbersKept ==
    ASSUME ParserTypes, Kept, NEW row \in PrintedRows, Continues(row), block \in Entries,
           block' = block, due # "nothing", due \in {"amount", "both"}, due' = "nothing",
           Reclaimed(row).kwota = AmountOf(block),
           Reclaimed(row).saldo = IF due = "both" THEN BalanceOf(block) ELSE Empty
    PROVE  Kept'
  <1>1. AmountOf(block) \in Numbers /\ BalanceOf(block) \in Numbers
    BY NumberCells
  <1>2. /\ current # NoTransaction /\ current \in Open /\ OpenPlaced
        /\ current' = Merged(current, Reclaimed(row)) /\ UNCHANGED <<transactions, sum, verdict>>
    BY DEF Continues, ParserTypes, Kept
  <1>3. current.date = block /\ current.kwota = Empty
        /\ current.saldo = IF due = "both" THEN Empty ELSE BalanceOf(block)
    BY <1>2 DEF OpenPlaced
  <1>4. current'.date = block /\ current'.kwota = AmountOf(block) /\ current'.saldo = BalanceOf(block)
    BY <1>1, <1>2, <1>3, CellKinds DEF Merged, Open, LooksLikeAmount
  <1>5. current' # NoTransaction
    BY <1>4, StatementAssumption DEF NoTransaction, Entries
  <1>6. AmountFrom(block, AmountOf(block), block)
        /\ BalanceFrom(block, AmountOf(block), BalanceOf(block), block)
    BY EntriesInt DEF AmountFrom, BalanceFrom, AmountOf, BalanceOf
  <1>7. OpenPlaced'
    BY <1>1, <1>2, <1>3, <1>4, <1>6, CellKinds DEF OpenPlaced
  <1>8. QED
    BY <1>2, <1>5, <1>7 DEF Kept

-----------------------------------------------------------------------------
\* What an entry's first row may give to a transaction.
LEMMA FirstCells ==
    ASSUME NEW e \in Entries, NEW kwota, NEW saldo,
           \/ kwota \in {AmountOf(e), RestOf(e), Empty} /\ saldo = BalanceOf(e)
           \/ kwota \in {Text, BalanceOf(e)} /\ saldo = Empty
    PROVE  AmountFrom(e, kwota, e) /\ BalanceFrom(e, kwota, saldo, e)
  <1>1. kwota \in Numbers => kwota.of = e
    BY CellKinds DEF AmountOf, RestOf, BalanceOf
  <1>2. saldo \in Numbers => saldo = BalanceOf(e)
    BY CellKinds
  <1>3. QED
    BY <1>1, <1>2, EntriesInt DEF AmountFrom, BalanceFrom, BalanceOf

LEMMA EntryRowKept ==
    ASSUME TypeOK, Ordered, Kept, EntryRow, parser = "pko_bp", verdict' = "reading"
    PROVE  Kept'
  <1> DEFINE e == block + 1
  <1>1. /\ block \in Int /\ e \in Entries /\ block' = e /\ due = "nothing" /\ due' = due
        /\ ParserTypes
    BY StatementAssumption DEF EntryRow, NextEntry, TypeOK, Entries, ParserTypes
  <1>2. PICK row \in WholeRows(e) \cup MisprintedRows(e) : Reads(row)
    BY DEF EntryRow
  <1>3. row \in PrintedRows /\ row.of = e /\ ReadsRow(row)
    BY <1>1, <1>2, EntryRows DEF Reads, ReadsLine
  <1> HIDE DEF e
  <1>4. CASE row = Row(e, "other", "none", AmountOf(e), BalanceOf(e), Text)
    <2>1. ~Dated(row) /\ ~IsNonTransactionRow(row) /\ row.kwota = AmountOf(e) /\ row.saldo = BalanceOf(e)
      BY <1>4 DEF Row, Dated, IsNonTransactionRow
    <2>2. Continues(row) \/ Ignores(row)
      BY <1>3, <2>1 DEF ReadsRow, Begins, Ends
    <2>3. QED
      BY <1>1, <1>3, <2>1, <2>2, TornKept, IgnoresKept DEF e
  <1>5. CASE row # Row(e, "other", "none", AmountOf(e), BalanceOf(e), Text)
    <2>1. /\ Dated(row)
          /\ \/ Reclaimed(row).kwota \in {AmountOf(e), RestOf(e), Empty} /\ Reclaimed(row).saldo = BalanceOf(e)
             \/ Reclaimed(row).kwota \in {Text, BalanceOf(e)} /\ Reclaimed(row).saldo = Empty
      BY <1>1, <1>2, <1>5, NumberCells, CellKinds
         DEF WholeRows, MisprintedRows, Row, Dated, Reclaimed, LooksLikeAmount
    <2>2. Begins(row)
      BY <1>3, <2>1 DEF ReadsRow, Ends, Continues, Ignores
    <2> DEFINE kwota == Reclaimed(row).kwota
               saldo == Reclaimed(row).saldo
    <2> HIDE DEF kwota, saldo
    <2>3. AmountFrom(e, kwota, e) /\ BalanceFrom(e, kwota, saldo, e)
      BY <1>1, <2>1, FirstCells DEF kwota, saldo
    <2>4. /\ kwota = Empty => saldo = BalanceOf(e)
          /\ saldo = Empty => kwota \in {Text, BalanceOf(e)}
      BY <1>1, <2>1, CellKinds, ValueOfEntry, NumberCells DEF kwota, saldo
    <2>5. QED
      BY <1>1, <1>3, <2>2, <2>3, <2>4, BeginsKept DEF e, kwota, saldo
  <1>6. QED
    BY <1>4, <1>5

LEMMA EntryRowWithoutAmountKept ==
    ASSUME TypeOK, Ordered, Kept, EntryRowWithoutAmount, parser = "pko_bp", verdict' = "reading"
    PROVE  Kept'
  <1> DEFINE e == block + 1
             saldo == IF due' = "both" THEN Empty ELSE BalanceOf(e)
             row == Row(e, "date", "none", Empty, saldo, Text)
  <1>1. /\ block \in Int /\ e \in Entries /\ e \in 0..N /\ block' = e
        /\ due' \in {"both", "amount"} /\ ParserTypes
    BY StatementAssumption DEF EntryRowWithoutAmount, NextEntry, TypeOK, Entries, ParserTypes
  <1>2. Reads(row)
    BY DEF EntryRowWithoutAmount
  <1>3. saldo \in Cells /\ (saldo = Empty \/ saldo = BalanceOf(e))
    BY <1>1, NumberCells, CellKinds
  <1> HIDE DEF saldo, e
  <1>4. /\ row \in PrintedRows /\ row.of = e /\ Dated(row)
        /\ Reclaimed(row).kwota = Empty /\ Reclaimed(row).saldo = saldo
    BY <1>1, <1>3, CellKinds DEF Row, PrintedRows, Dated, Reclaimed, LooksLikeAmount
  <1>5. Begins(row)
    BY <1>2, <1>4 DEF Reads, ReadsRow, ReadsLine, Ends, Continues, Ignores
  <1> HIDE DEF row
  <1>6. AmountFrom(e, Empty, e) /\ BalanceFrom(e, Empty, saldo, e)
    BY <1>1, <1>3, CellKinds, EntriesInt DEF AmountFrom, BalanceFrom, BalanceOf
  <1>7. IF due' = "nothing"
        THEN /\ Empty = Empty => saldo = BalanceOf(e)
             /\ saldo = Empty => Empty \in {Text, BalanceOf(e)}
        ELSE saldo = IF due' = "both" THEN Empty ELSE BalanceOf(e)
    BY <1>1 DEF saldo
  <1>8. QED
    BY <1>1, <1>4, <1>5, <1>6, <1>7, BeginsKept DEF e

LEMMA NumbersRowKept ==
    ASSUME TypeOK, Layout, Ordered, Kept, NumbersRow, parser = "pko_bp"
    PROVE  Kept'
  <1>1. /\ block \in Entries /\ block \in 0..N /\ block' = block
        /\ due # "nothing" /\ due \in {"amount", "both"} /\ due' = "nothing"
        /\ current # NoTransaction /\ ParserTypes
    BY StatementAssumption DEF NumbersRow, Layout, TypeOK, Entries, Kept, ParserTypes
  <1>2. PICK row \in
            {Row(block, "other", "none", AmountOf(block), IF due = "both" THEN BalanceOf(block) ELSE Empty, Empty),
             Row(block, "other", "none", Empty, IF due = "both" THEN BalanceOf(block) ELSE Empty, AmountOf(block))} :
            Reads(row)
    BY DEF NumbersRow
  <1>3. /\ ~Dated(row) /\ ~IsNonTransactionRow(row) /\ row \in PrintedRows
        /\ Reclaimed(row).kwota = AmountOf(block)
        /\ Reclaimed(row).saldo = IF due = "both" THEN BalanceOf(block) ELSE Empty
    BY <1>1, <1>2, NumberCells, CellKinds
       DEF Row, Dated, Reclaimed, LooksLikeAmount, IsNonTransactionRow, PrintedRows
  <1>4. Continues(row)
    BY <1>1, <1>2, <1>3 DEF Reads, ReadsRow, ReadsLine, Ends, Begins, Ignores
  <1>5. QED
    BY <1>1, <1>3, <1>4, NumbersKept

LEMMA PlainRowKept ==
    ASSUME TypeOK, Ordered, Kept, TextRow \/ PageRow, parser = "pko_bp", verdict' = "reading"
    PROVE  Kept'
  <1>1. /\ block \in Int /\ block' = block /\ due' = due /\ ParserTypes
    BY StatementAssumption DEF TextRow, PageRow, TypeOK, ParserTypes
  <1>2. PICK row \in {Row(e, "other", mark, kwota, Empty, Text) : e \in {0, block},
                        mark \in {"none", "header", "footer"}, kwota \in {Empty, Text}} :
              Reads(row)
    BY DEF TextRow, PageRow
  <1>3. /\ row \in PrintedRows /\ ~Dated(row)
        /\ row.kwota \in {Empty, Text} /\ row.saldo = Empty /\ row.opis = Text
    BY <1>2, CellKinds, StatementAssumption DEF Row, PrintedRows, Dated, TypeOK
  <1>4. Continues(row) \/ Ignores(row) \/ Ends(row)
    BY <1>2, <1>3 DEF Reads, ReadsRow, ReadsLine, Begins
  <1>5. QED
    BY <1>1, <1>3, <1>4, TextKept, IgnoresKept, EndsKept

LEMMA SummaryRowKept ==
    ASSUME TypeOK, Ordered, Summaryless, Kept, SummaryRow, parser = "pko_bp", verdict' = "reading"
    PROVE  Kept'
  <1>1. block \in Int /\ block' = block /\ due' = due /\ ParserTypes
    BY StatementAssumption DEF SummaryRow, TypeOK, ParserTypes
  <1>2. CASE section = "table"
    <2>1. PICK row \in {Row(0, "other", "footer", Empty, Empty, Text)} : Reads(row)
      BY <1>2 DEF SummaryRow
    <2>2. ~Dated(row) /\ IsNonTransactionRow(row)
      BY <2>1 DEF Row, Dated, IsNonTransactionRow
    <2>3. Ignores(row) \/ Ends(row)
      BY <2>1, <2>2 DEF Reads, ReadsRow, ReadsLine, Begins, Continues
    <2>4. QED
      BY <1>1, <2>3, IgnoresKept, EndsKept
  <1>3. CASE section = "summary"
    <2>1. PICK row \in {Row(0, "other", "none", kwota, TotalCell, opis) :
                          kwota \in {Empty, TotalCell}, opis \in {Empty, TotalCell}} : Reads(row)
      BY <1>3 DEF SummaryRow
    <2>2. ~Dated(row) /\ current = NoTransaction
      BY <1>3, <2>1 DEF Row, Dated, Summaryless
    <2>3. Ignores(row)
      BY <2>1, <2>2 DEF Reads, ReadsRow, ReadsLine, Begins, Ends, Continues
    <2>4. QED
      BY <1>1, <2>3, IgnoresKept
  <1>4. QED
    BY <1>2, <1>3 DEF SummaryRow

-----------------------------------------------------------------------------
(***************************************************************************)
(* The check at the end.                                                   *)
(***************************************************************************)
\* Between two entries the account gained the amounts from the one to the other.
LEMMA Telescope ==
    ASSUME NEW a \in Entries, NEW b \in Entries, a <= b
    PROVE  SumOver(Amount, a .. b - 1) = Balance[a] - Balance[b]
  <1> DEFINE Fails(c) == SumOver(Amount, a .. c - 1) # Balance[a] - Balance[c]
             U == {a .. c : c \in {x \in a .. b : Fails(x)}}
  <1>0. /\ a \in Int /\ b \in Int /\ \A c \in a .. b : c \in Entries /\ c \in Int /\ Balance[c] \in Int
        /\ Balance[a] \in Int /\ Amount \in [Entries -> Int]
    BY StatementAssumption DEF Entries
  <1>1. SUFFICES ASSUME Fails(b) PROVE FALSE
    OBVIOUS
  <1>2. PICK T \in U : \A V \in U : V \subseteq T => V = T
    <2>1. IsFiniteSet(a .. b)
      BY <1>0, FS_Interval
    <2>2. U \subseteq SUBSET (a .. b)
      BY <1>0
    <2>3. U # {}
      BY <1>0, <1>1
    <2> DEFINE S == a .. b
    <2> HIDE DEF U
    <2>4. IsFiniteSet(S) /\ U \subseteq SUBSET S
      BY <2>1, <2>2
    <2> HIDE DEF S
    <2>5. QED
      BY <2>3, <2>4, SmallestSubset
  <1>3. PICK c \in a .. b : Fails(c) /\ T = a .. c
    BY <1>2
  <1>4. c # a
    <2>1. a .. a - 1 = {}
      BY <1>0
    <2>2. SumOver(Amount, a .. a - 1) = 0
      BY <2>1, SumEmpty
    <2>3. QED
      BY <1>0, <1>3, <2>2
  <1> DEFINE d == c - 1
  <1>5. d \in a .. b /\ d \in Entries /\ d < N /\ d + 1 = c /\ a .. d \subseteq T /\ a .. d # T
    BY <1>0, <1>3, <1>4, StatementAssumption DEF Entries
  <1>6. SumOver(Amount, a .. d - 1) = Balance[a] - Balance[d]
    BY <1>2, <1>5
  <1>7. a .. c - 1 = (a .. d - 1) \cup {d} /\ d \notin a .. d - 1
    BY <1>0, <1>5
  <1>8. SumOver(Amount, a .. c - 1) = Amount[d] + SumOver(Amount, a .. d - 1)
    <2>1. IsFiniteSet(a .. d - 1)
      BY <1>0, <1>5, FS_Interval
    <2>2. \A x \in (a .. d - 1) \cup {d} : Amount[x] \in Int
      BY <1>0, <1>5
    <2> HIDE DEF d
    <2>3. SumOver(Amount, (a .. d - 1) \cup {d}) = Amount[d] + SumOver(Amount, a .. d - 1)
      BY <1>7, <2>1, <2>2, SumAdd
    <2>4. QED
      BY <1>7, <2>3
  <1>9. Balance[d] = Balance[c] + Amount[d] /\ Amount[d] \in Int /\ Balance[c] \in Int
    BY <1>0, <1>5, StatementAssumption
  <1>10. QED
    BY <1>0, <1>3, <1>6, <1>8, <1>9

\* A balance that a transaction has is that of an entry, its own or a later one.
LEMMA BalanceAt ==
    ASSUME NEW ts \in Seq(Transactions), Placed(ts, N), NEW i \in 1..Len(ts), ts[i].balance # Empty
    PROVE  LET e == ts[i].balance.of IN
             /\ e \in Entries /\ ts[i].date <= e /\ ts[i].balance = BalanceOf(e)
             /\ Value(ts[i].balance) = Balance[e]
             /\ e # ts[i].date => ts[i].amount = BalanceOf(ts[i].date)
  <1>1. /\ ts[i].balance \in Numbers /\ ts[i].amount \in Numbers /\ ts[i].date \in Entries
    BY DatesInt DEF Transactions
  <1>2. BalanceFrom(ts[i].date, ts[i].amount, ts[i].balance, N)
    BY DEF Placed
  <1>3. ts[i].balance.of \in Int /\ ts[i].amount # Text
    BY <1>1, OfInt, CellKinds
  <1>4. ts[i].balance.of \in Entries /\ ts[i].date <= ts[i].balance.of
    BY <1>1, <1>2, <1>3, StatementAssumption DEF BalanceFrom, Entries
  <1>5. ts[i].balance = BalanceOf(ts[i].balance.of)
    BY <1>1, <1>2 DEF BalanceFrom, Numbers, BalanceOf
  <1>6. QED
    BY <1>1, <1>2, <1>3, <1>4, <1>5, ValueOfEntry DEF BalanceFrom

LEMMA PassesGapless ==
    ASSUME NoCoincidence, NEW ts \in Seq(Transactions), Increasing(ts), Placed(ts, N),
           NEW s, s = SumOver(ReadOf(ts), DatesOf(ts)), Verdict(ts, s) = "consistent",
           NEW k \in 1..Len(ts) - 1
    PROVE  ts[k + 1].date = ts[k].date + 1 /\ ts[k].amount = AmountOf(ts[k].date)
  <1> DEFINE n == Len(ts)
             a == ts[1].balance.of
             b == ts[n].balance.of
             oldest == ts[n].date
             D == DatesOf(ts) \ {oldest}
             m == [e \in D |-> ts[CHOOSE i \in 1..n : ts[i].date = e].amount]
             read == [e \in D |-> Value(m[e])]
  <1>1. /\ n \in Nat /\ n > 1 /\ 1 \in 1..n /\ n \in 1..n
        /\ \A i \in 1..n - 1 : i \in 1..n /\ i + 1 \in 1..n
        /\ k \in Int /\ 1 <= k /\ k < n
    BY DatesInt
  <1>2. /\ \A i \in 1..n : ts[i].date \in Entries /\ ts[i].date \in Int /\ ts[i].amount \in Numbers
        /\ \A i, j \in 1..n : i < j => ts[i].date < ts[j].date
    BY DatesInt DEF Increasing, Transactions
  <1>3. BalancesKnown(ts) /\ Gap(ts, s) \in -BALANCE_TOLERANCE..BALANCE_TOLERANCE
    BY DEF Verdict
  <1>4. /\ a \in Entries /\ ts[1].date <= a /\ ts[1].balance = BalanceOf(a)
        /\ Value(ts[1].balance) = Balance[a]
        /\ a # ts[1].date => ts[1].amount = BalanceOf(ts[1].date)
    BY <1>1, <1>3, BalanceAt DEF BalancesKnown
  <1>5. /\ b \in Entries /\ oldest <= b /\ Value(ts[n].balance) = Balance[b]
    BY <1>1, <1>3, BalanceAt DEF BalancesKnown
  <1>6. a < oldest
    <2>1. Before(ts[1], ts[n].date)
      BY <1>1 DEF Placed
    <2>2. ts[1].balance \in Numbers
      BY <1>4, NumberCells
    <2>3. QED
      BY <2>1, <2>2 DEF Before
  <1>order. a \in Int /\ b \in Int /\ oldest \in Int /\ a <= b
    <2>1. \A e \in Entries : e \in Int
      BY EntriesInt
    <2>2. a \in Int /\ b \in Int /\ oldest \in Int
      BY <1>1, <1>2, <1>4, <1>5, <2>1
    <2> HIDE DEF a, b, oldest
    <2>3. QED
      BY <1>5, <1>6, <2>2
  <1>7. \A i \in 1..n - 1 : ts[i].date \in D /\ ts[i].date < oldest
    BY <1>1, <1>2 DEF DatesOf
  <1>8. \A e \in D : \E i \in 1..n - 1 : ts[i].date = e
    <2> SUFFICES ASSUME NEW e \in D PROVE \E i \in 1..n - 1 : ts[i].date = e
      OBVIOUS
    <2>1. PICK i \in 1..n : ts[i].date = e
      BY DEF DatesOf
    <2>2. i # n
      BY <2>1
    <2>3. i \in 1..n - 1
      BY <1>1, <2>2
    <2>4. QED
      BY <2>1, <2>3
  <1>9. \A i \in 1..n - 1 : m[ts[i].date] = ts[i].amount
    <2> SUFFICES ASSUME NEW i \in 1..n - 1 PROVE m[ts[i].date] = ts[i].amount
      OBVIOUS
    <2>1. (CHOOSE j \in 1..n : ts[j].date = ts[i].date) = i
      BY <1>1, <1>2
    <2>2. QED
      BY <1>7, <2>1
  <1> HIDE DEF m
  <1>10. m \in Misreadings(D)
    <2>1. m = [e \in D |-> m[e]]
      BY DEF m
    <2>2. ASSUME NEW e \in D
          PROVE  /\ m[e] \in Numbers /\ m[e].of \in Entries
                 /\ m[e].of # e => /\ m[e].shape = "amount" /\ e < m[e].of
                                   /\ \A d \in D : e < d => m[e].of < d
      <3>1. PICK i \in 1..n - 1 : ts[i].date = e
        BY <1>8
      <3>2. i \in 1..n /\ m[e] = ts[i].amount /\ m[e] \in Numbers /\ m[e].of \in Int
        BY <1>1, <1>2, <1>9, <3>1, OfInt
      <3>3. e <= m[e].of /\ m[e].of <= N /\ (m[e].of # e => m[e].shape = "amount")
        BY <3>1, <3>2 DEF Placed, AmountFrom
      <3>4. e \in Int /\ 1 <= e
        BY <1>2, <3>1, <3>2 DEF Entries
      <3>5. m[e].of \in Entries
        BY <3>2, <3>3, <3>4, StatementAssumption DEF Entries
      <3>6. ASSUME NEW d \in D, e < d PROVE m[e].of < d
        <4>1. PICK j \in 1..n - 1 : ts[j].date = d
          BY <1>8
        <4>2. j \in 1..n /\ ~(j < i) /\ j # i
          BY <1>1, <1>2, <3>1, <3>2, <3>4, <3>6, <4>1
        <4>3. i < j
          BY <4>2
        <4>4. QED
          BY <3>2, <4>1, <4>2, <4>3 DEF Placed, Before
      <3>7. QED
        BY <3>2, <3>3, <3>4, <3>5, <3>6
    <2>3. m \in [D -> Numbers]
      BY <2>1, <2>2
    <2>4. QED
      BY <2>2, <2>3 DEF Misreadings
  <1>11. IsFiniteSet(D) /\ D \in SUBSET Entries
    BY DatesFinite, FS_Subset
  <1>12. s = Value(ts[n].amount) + SumOver(read, D) /\ SumOver(read, D) \in Int
    <2>1. IsFiniteSet(DatesOf(ts)) /\ oldest \in DatesOf(ts)
      BY <1>1, DatesFinite DEF DatesOf
    <2>2. \A e \in DatesOf(ts) : ReadOf(ts)[e] \in Int
      BY ReadInt
    <2>3. s = ReadOf(ts)[oldest] + SumOver(ReadOf(ts), DatesOf(ts) \ {oldest})
      BY <2>1, <2>2, SumRemove
    <2>4. ReadOf(ts)[oldest] = Value(ts[n].amount)
      BY <1>1, ReadAt
    <2>5. \A e \in D : ReadOf(ts)[e] \in Int /\ ReadOf(ts)[e] = read[e]
      <3> SUFFICES ASSUME NEW e \in D PROVE ReadOf(ts)[e] \in Int /\ ReadOf(ts)[e] = read[e]
        OBVIOUS
      <3>1. PICK i \in 1..n - 1 : ts[i].date = e
        BY <1>8
      <3>2. ReadOf(ts)[e] = Value(ts[i].amount)
        BY <1>1, <3>1, ReadAt
      <3>3. read[e] = Value(ts[i].amount)
        BY <1>9, <3>1
      <3>4. QED
        BY <2>2, <3>2, <3>3
    <2> HIDE DEF read
    <2>6. SumOver(ReadOf(ts), D) = SumOver(read, D) /\ SumOver(ReadOf(ts), D) \in Int
      BY <1>11, <2>5, SumSame, SumInt
    <2>7. QED
      BY <2>3, <2>4, <2>6
  <1>13. SumOver(read, D) - SumOver(Amount, a .. b - 1) \in -BALANCE_TOLERANCE..BALANCE_TOLERANCE
    <2>1. a <= b
      BY <1>order
    <2>2. SumOver(Amount, a .. b - 1) = Balance[a] - Balance[b]
      BY <1>4, <1>5, <2>1, Telescope
    <2>3. Balance[a] \in Int /\ Balance[b] \in Int /\ Value(ts[n].amount) \in Int
      BY <1>1, <1>2, <1>4, <1>5, ValueInt, StatementAssumption
    <2>4. Gap(ts, s) = Balance[b] - Value(ts[n].amount) + s - Balance[a]
      BY <1>4, <1>5 DEF Gap, OpeningBalance, ClosingCell
    <2> HIDE DEF a, b, D, read
    <2>5. Gap(ts, s) = SumOver(read, D) - SumOver(Amount, a .. b - 1)
      BY <1>12, <2>2, <2>3, <2>4 DEF n
    <2>6. QED
      BY <1>3, <2>5
  <1>14. AddUp(D, m, a, b)
    BY <1>13 DEF AddUp, SumOver
  <1>15. a <= b /\ \A d \in D : d < b
    <2>1. a <= b
      BY <1>order
    <2>2. ASSUME NEW d \in D PROVE d < b
      <3>1. PICK i \in 1..n - 1 : ts[i].date = d
        BY <1>8
      <3>2. d \in Int /\ d < oldest
        BY <1>1, <1>2, <1>7, <3>1
      <3> HIDE DEF b, oldest
      <3>3. QED
        BY <1>5, <1>order, <3>2
    <2>3. QED
      BY <2>1, <2>2
  <1>16. \E d \in D : Newest(d, D) /\ (a = d \/ m[d] = BalanceOf(d))
    <2>1. 1 \in 1..n - 1
      BY <1>1
    <2>2. ASSUME NEW e \in D PROVE ts[1].date <= e
      <3>1. PICK i \in 1..n - 1 : ts[i].date = e
        BY <1>8
      <3>2. i \in 1..Len(ts) /\ 1 \in 1..Len(ts) /\ i \in Int
        BY <1>1
      <3>3. CASE i = 1
        BY <1>2, <3>1, <3>2, <3>3
      <3>4. CASE 1 < i
        <4>1. ts[1].date < ts[i].date
          BY <3>2, <3>4 DEF Increasing
        <4>2. ts[1].date \in Int /\ ts[i].date \in Int
          BY <1>2, <3>2
        <4>3. QED
          BY <3>1, <4>1, <4>2
      <3>5. QED
        BY <3>1, <3>2, <3>3, <3>4
    <2>3. QED
      BY <1>4, <1>7, <1>9, <2>1, <2>2 DEF Newest
  <1>17. D = a .. b - 1 /\ \A e \in D : m[e] = AmountOf(e)
    BY <1>4, <1>5, <1>10, <1>11, <1>14, <1>15, <1>16 DEF NoCoincidence
  <1>18. ts[k].amount = AmountOf(ts[k].date)
    BY <1>7, <1>9, <1>17
  <1> DEFINE d == ts[k].date
             next == ts[k + 1].date
  <1>19. /\ d \in Int /\ next \in Int /\ d < next /\ d \in D /\ k \in 1..n /\ k + 1 \in 1..n
    BY <1>1, <1>2, <1>7
  <1>20. next <= b
    <2>1. CASE k + 1 = n
      BY <1>5, <2>1
    <2>2. CASE k + 1 # n
      <3>1. next \in D
        BY <1>1, <1>7, <2>2
      <3>2. next < b
        BY <1>15, <3>1
      <3> HIDE DEF next, b
      <3>3. QED
        BY <1>19, <1>order, <3>2
    <2>3. QED
      BY <2>1, <2>2
  <1>21. next = d + 1
    <2> SUFFICES ASSUME d + 1 < next PROVE FALSE
      BY <1>19
    <2>1. d + 1 \in D
      <3>1. a \in Int /\ b \in Int /\ a <= d
        <4>1. d \in a .. b - 1
          BY <1>17, <1>19
        <4> HIDE DEF a, b, d
        <4>2. QED
          BY <1>order, <4>1
      <3> HIDE DEF D, d, next, a, b
      <3>2. d + 1 \in a .. b - 1
        BY <1>19, <1>20, <3>1
      <3>3. QED
        BY <1>17, <3>2
    <2>2. PICK i \in 1..n - 1 : ts[i].date = d + 1
      BY <1>8, <2>1
    <2>3. ~(i <= k) /\ ~(k + 1 <= i)
      BY <1>1, <1>2, <1>19, <2>2
    <2>4. QED
      BY <1>1, <2>3
  <1>22. QED
    BY <1>18, <1>21

-----------------------------------------------------------------------------
Unbalanced(ts) == \A i \in 1..Len(ts) : ts[i].balance = Empty

GapInv ==
    /\ parser = "pko_bp" /\ verdict = "reading" => Kept
    /\ parser = "generic" => Unbalanced(transactions)
    /\ ConsistentIsGapless

\* The fallback knows no balances, so its result never passes.
LEMMA GenericUnbalanced ==
    ASSUME ParserTypes, Ordered, parser = "generic", Unbalanced(transactions),
           NEW row \in PrintedRows, Dated(row) => row.of \in Entries, Reads(row)
    PROVE  Unbalanced(transactions')
  <1>1. ReadsLine(row)
    BY DEF Reads, ReadsRow
  <1>2. CASE UNCHANGED transactions
    BY <1>2
  <1>3. ASSUME NEW cell \in {AmountOf(row.of), BalanceOf(row.of)}, Dated(row),
               transactions' = Append(transactions, [date |-> row.of, amount |-> cell,
                                   balance |-> Empty, text |-> TextOf(row)])
        PROVE  Unbalanced(transactions')
    <2> DEFINE t == [date |-> row.of, amount |-> cell, balance |-> Empty, text |-> TextOf(row)]
    <2>1. t \in Transactions
      BY <1>3, NumberCells DEF Transactions, TextOf, PrintedRows
    <2>2. t.balance = Empty
      OBVIOUS
    <2> HIDE DEF t
    <2>3. QED
      BY <1>3, <2>1, <2>2, AppendKeeps DEF ParserTypes, Unbalanced, t
  <1>4. QED
    BY <1>1, <1>2, <1>3 DEF ReadsLine

LEMMA EndGapless ==
    ASSUME NoCoincidence, TypeOK, Ordered, GapInv, EndOfPdf, verdict' = "consistent"
    PROVE  ConsistentIsGapless'
  <1> DEFINE ts == transactions'
  <1>1. verdict = "reading" /\ block = N /\ parser' = parser /\ ParserTypes /\ N \in Int
    BY StatementAssumption DEF EndOfPdf, TypeOK, ParserTypes
  <1>2. /\ verdict' = Verdict(ts, sum')
        /\ IF current = NoTransaction
           THEN UNCHANGED <<transactions, sum>>
           ELSE /\ ~Unparsable(current)
                /\ ts = Append(transactions, Finalised(current)) /\ sum' = sum + Value(current.kwota)
    BY DEF EndOfPdf
  <1>3. ts \in Seq(Transactions)
    BY <1>1, EndTypes DEF ParserTypes
  <1>4. parser = "pko_bp"
    <2> SUFFICES ASSUME parser = "generic" PROVE FALSE
      BY DEF TypeOK
    <2>1. ts = transactions /\ Unbalanced(transactions)
      BY <1>2 DEF Ordered, GapInv
    <2>2. ~BalancesKnown(ts)
      <3>1. CASE Len(transactions) = 0
        BY <2>1, <3>1, <1>3, EmptySeq DEF BalancesKnown
      <3>2. CASE Len(transactions) # 0
        <4>1. 1 \in 1..Len(transactions)
          BY <2>1, <1>3, <3>2, DatesInt
        <4>2. QED
          BY <2>1, <4>1 DEF BalancesKnown, Unbalanced
      <3>3. QED
        BY <3>1, <3>2
    <2>3. QED
      BY <1>2, <2>2 DEF Verdict
  <1>5. Kept
    BY <1>1, <1>4 DEF GapInv
  <1>6. Increasing(ts) /\ Placed(ts, N) /\ sum' = SumOver(ReadOf(ts), DatesOf(ts))
    <2>1. CASE current = NoTransaction
      BY <1>1, <1>2, <1>5, <2>1 DEF Kept, Ordered, Increasing
    <2>2. CASE current # NoTransaction
      <3> DEFINE t == Finalised(current)
      <3>1. t \in Transactions /\ t.date = current.date /\ t.amount = current.kwota /\ t.balance = current.saldo
        BY <1>1, <1>2, <2>2, FinalisedType DEF ParserTypes, Finalised
      <3>2. ts = Append(transactions, t) /\ sum' = sum + Value(t.amount) /\ OpenPlaced
        BY <1>2, <1>5, <2>2, <3>1 DEF Kept
      <3> HIDE DEF t, ts
      <3>3. Increasing(Append(transactions, t)) /\ Increasing(transactions)
        BY <1>1, <2>2, <3>1, AppendOrdered DEF Ordered, ParserTypes
      <3>4. Placed(Append(transactions, t), N)
        BY <1>1, <1>5, <3>1, <3>2, PlacedAppend DEF Kept, OpenPlaced, ParserTypes
      <3>5. SumOver(ReadOf(Append(transactions, t)), DatesOf(Append(transactions, t)))
              = SumOver(ReadOf(transactions), DatesOf(transactions)) + Value(t.amount)
        BY <1>1, <3>1, <3>3, SumWithOneMore DEF ParserTypes
      <3>6. QED
        BY <1>5, <3>2, <3>3, <3>4, <3>5 DEF Kept
    <2>3. QED
      BY <2>1, <2>2
  <1>7. Verdict(ts, sum') = "consistent"
    BY <1>2
  <1> HIDE DEF ts
  <1>8. \A k \in 1..Len(ts) - 1 :
            ts[k + 1].date = ts[k].date + 1 /\ ts[k].amount = AmountOf(ts[k].date)
    BY <1>3, <1>6, <1>7, PassesGapless
  <1>9. QED
    BY <1>1, <1>4, <1>8 DEF ConsistentIsGapless, ts

LEMMA GapNext ==
    ASSUME NoCoincidence, TypeOK, Layout, Ordered, SummaryInv, GapInv, [Next]_vars
    PROVE  GapInv'
  <1>0. ParserTypes
    BY DEF TypeOK, ParserTypes
  <1>1. CASE UNCHANGED vars
    BY <1>1 DEF vars, GapInv, Kept, OpenPlaced, ConsistentIsGapless
  <1>2. CASE EndOfPdf
    <2>1. verdict' # "reading" /\ parser' = parser /\ verdict = "reading"
      BY <1>2 DEF EndOfPdf, Verdict
    <2>2. verdict' # "consistent" => ConsistentIsGapless'
      BY DEF ConsistentIsGapless
    <2>3. parser = "generic" => Unbalanced(transactions')
      BY <1>2 DEF EndOfPdf, GapInv, Ordered
    <2>4. QED
      BY <1>2, <2>1, <2>2, <2>3, EndGapless DEF GapInv
  <1>3. CASE Next /\ ~EndOfPdf
    <2>1. PICK row \in PrintedRows : Reads(row) /\ (Dated(row) => row.of \in Entries)
      BY <1>3, StepReads
    <2>2. parser' = parser /\ verdict = "reading" /\ verdict' \in {"reading", "unparsable"}
      BY <2>1 DEF Reads, ReadsRow, ReadsLine, Begins, Ends, Continues, Ignores, Finalises
    <2>3. ConsistentIsGapless'
      BY <2>2 DEF ConsistentIsGapless
    <2>4. parser = "generic" => Unbalanced(transactions')
      BY <1>0, <2>1, GenericUnbalanced DEF GapInv
    <2>5. ASSUME parser = "pko_bp", verdict' = "reading" PROVE Kept'
      <3>1. Kept /\ Summaryless
        BY <2>2, <2>5 DEF GapInv, SummaryInv
      <3>2. QED
        BY <1>3, <2>5, <3>1, EntryRowKept, EntryRowWithoutAmountKept, NumbersRowKept,
           PlainRowKept, SummaryRowKept DEF Next
    <2>6. QED
      BY <2>2, <2>3, <2>4, <2>5 DEF GapInv
  <1>4. QED
    BY <1>1, <1>2, <1>3

(***************************************************************************)
(* What passes the balance check is a gapless stretch of the printed       *)
(* entries with their own amounts, whatever is misprinted, unless misread  *)
(* amounts cancel out by chance.                                           *)
(***************************************************************************)
THEOREM ConsistentHasNoGap == ASSUME NoCoincidence PROVE Spec => []ConsistentIsGapless
  <1>1. Init => SummaryInv
    BY PlainCells DEF Init, SummaryInv, Summaryless, Untotalled
  <1>2. TypeOK /\ Layout /\ SummaryInv /\ [Next]_vars => SummaryInv'
    BY SummaryNext
  <1>3. Init => GapInv
    <2> SUFFICES ASSUME Init PROVE GapInv
      OBVIOUS
    <2>1. transactions = <<>> /\ Len(transactions) = 0
      BY DEF Init
    <2>2. DatesOf(transactions) = {}
      BY <2>1 DEF DatesOf
    <2>3. SumOver(ReadOf(transactions), {}) = 0
      BY SumEmpty
    <2>4. Placed(transactions, block)
      BY <2>1 DEF Placed
    <2>5. Kept
      BY <2>2, <2>3, <2>4 DEF Init, Kept
    <2>6. QED
      BY <2>1, <2>5 DEF Init, GapInv, Unbalanced, ConsistentIsGapless
  <1>4. TypeOK /\ Layout /\ Ordered /\ SummaryInv /\ GapInv /\ [Next]_vars => GapInv'
    BY GapNext
  <1>5. GapInv => ConsistentIsGapless
    BY DEF GapInv
  <1>6. QED
    BY <1>1, <1>2, <1>3, <1>4, <1>5, TypeLayout, TypeOrdered, PTL DEF Spec
=============================================================================
