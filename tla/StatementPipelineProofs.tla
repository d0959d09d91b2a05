----------------------- MODULE StatementPipelineProofs -----------------------
(***************************************************************************)
(* Machine-checked proofs about StatementPipeline, for any number of files *)
(* and runs and any contents of the files.                                 *)
(***************************************************************************)
EXTENDS StatementPipeline, TLAPS

LEMMA InitTypeOK == Init => TypeOK
  BY BoundsAssumption DEF Init, TypeOK, Statuses, Modes, Nodes, Steps

\* What a checkpoint holds, and where a node can stop, is of the right type.
LEMMA StopTypes ==
    ASSUME TypeOK, NEW r \in Runs, NEW s \in Steps
    PROVE  /\ FoundAt(r, s) \subseteq Files
           /\ PickedAt(r, s) \subseteq Files
           /\ Forfeits(r, s) \subseteq Files
           /\ OnTheWay(r) \subseteq Steps
  <1> USE DEF TypeOK, Steps
  <1>1. FoundAt(r, s) \subseteq Files
    BY DEF FoundAt
  <1>2. PickedAt(r, s) \subseteq Files
    BY DEF PickedAt
  <1>3. Forfeits(r, s) \subseteq Files
    BY DEF Forfeits
  <1>4. OnTheWay(r) \subseteq Steps
    BY DEF OnTheWay, Checks, Storable, At
  <1>5. QED
    BY <1>1, <1>2, <1>3, <1>4

LEMMA StopsTypeOK ==
    ASSUME TypeOK, NEW r \in Runs, NEW s \in Steps, Stops(r, s),
           failures' \in 0..MaxFailures, UNCHANGED crashes
    PROVE  TypeOK'
  BY StopTypes DEF Stops, TypeOK, Modes, world, db

LEMMA CrashTypeOK == ASSUME TypeOK, Crash PROVE TypeOK'
  <1> USE DEF TypeOK, world, db
  <1>1. PICK back \in [Runs -> Steps] :
          /\ step' = back
          /\ saved' = [r \in Runs |-> IF mode[r] = "running" THEN back[r] ELSE saved[r]]
          /\ found' = [r \in Runs |-> IF mode[r] = "running" THEN FoundAt(r, back[r]) ELSE found[r]]
          /\ picked' = [r \in Runs |-> IF mode[r] = "running" THEN PickedAt(r, back[r]) ELSE picked[r]]
          /\ forfeited' = forfeited \cup
               UNION {Forfeits(r, back[r]) : r \in {q \in Runs : mode[q] = "running"}}
    BY DEF Crash
  <1>2. \A r \in Runs : /\ FoundAt(r, back[r]) \subseteq Files
                        /\ PickedAt(r, back[r]) \subseteq Files
                        /\ Forfeits(r, back[r]) \subseteq Files
    BY StopTypes
  <1>3. found' \in [Runs -> SUBSET Files] /\ picked' \in [Runs -> SUBSET Files]
    BY <1>1, <1>2
  <1>4. step' \in [Runs -> Steps] /\ saved' \in [Runs -> Steps]
    BY <1>1
  <1>5. forfeited' \subseteq Files
    BY <1>1, <1>2
  <1>6. mode' \in [Runs -> Modes] /\ crashes' \in 0..MaxCrashes
    BY BoundsAssumption DEF Crash, Modes
  <1>7. QED
    BY <1>3, <1>4, <1>5, <1>6 DEF Crash

LEMMA LeavesTypeOK ==
    ASSUME TypeOK, NEW r \in Runs, NEW details \in SUBSET Files, Leaves(r, details),
           drive' \subseteq Files, cursor' \in Nat, status' \in [Files -> Statuses],
           copies' \in [Files -> Nat], alerted' \subseteq Files
    PROVE  TypeOK'
  <1>1. Route(r) \in Nodes
    BY DEF Route, Nodes
  <1>2. QED
    BY <1>1 DEF TypeOK, Leaves, faults, Steps, Modes

\* Every action keeps the types of all variables.
LEMMA NextTypeOK == TypeOK /\ [Next]_vars => TypeOK'
  <1> SUFFICES ASSUME TypeOK, [Next]_vars PROVE TypeOK'
    OBVIOUS
  <1>0. \A r \in Runs : Details(r) \in SUBSET Files
    BY DEF TypeOK, Details
  <1> USE FilesAssumption, DriveAssumption, BoundsAssumption
      DEF TypeOK, Statuses, Modes, Steps, world, db, local, faults, WithStatus, At
  <1>1. ASSUME NEW f \in Files, Upload(f) PROVE TypeOK'
    BY <1>1 DEF Upload
  <1>2. ASSUME NEW r \in Runs, Trigger(r) \/ AnswerReview(r) \/ Resume(r) PROVE TypeOK'
    BY <1>2 DEF Trigger, AnswerReview, Resume, Executes
  <1>3. ASSUME NEW r \in Runs, ListNewFiles(r) PROVE TypeOK'
    BY <1>3 DEF ListNewFiles, Reads
  <1>4. ASSUME NEW r \in Runs, DedupeCheck(r) PROVE TypeOK'
    BY <1>4 DEF DedupeCheck, Reads
  <1>5. ASSUME NEW r \in Runs, PersistFiles(r) \/ MoveCursorOnly(r) PROVE TypeOK'
    <2>1. cursor' \in Nat
      BY <1>5 DEF PersistFiles, MoveCursorOnly, UpdateSyncCursor
    <2>2. status' \in [Files -> Statuses]
      BY <1>5 DEF PersistFiles, MoveCursorOnly
    <2>3. QED
      BY <1>5, <2>1, <2>2, <1>0, LeavesTypeOK DEF PersistFiles, MoveCursorOnly
  <1>6. ASSUME NEW r \in Runs, PersistConflict(r) PROVE TypeOK'
    BY <1>6, StopsTypeOK DEF PersistConflict
  <1>7. ASSUME NEW r \in Runs, ReadPending(r) PROVE TypeOK'
    BY <1>7 DEF ReadPending, Reads
  <1>8. ASSUME NEW r \in Runs, CheckDuplicate(r) PROVE TypeOK'
    BY <1>8 DEF CheckDuplicate, Reads
  <1>9. ASSUME NEW r \in Runs, MarkVerified(r) PROVE TypeOK'
    BY <1>9, <1>0, LeavesTypeOK DEF MarkVerified
  <1>10. ASSUME NEW r \in Runs, ParseStatements(r) PROVE TypeOK'
    BY <1>10 DEF ParseStatements, Reads
  <1>11. ASSUME NEW r \in Runs, PersistTransactions(r) PROVE TypeOK'
    BY <1>11, <1>0, LeavesTypeOK DEF PersistTransactions
  <1>12. ASSUME NEW r \in Runs, ReadVerified(r) PROVE TypeOK'
    BY <1>12 DEF ReadVerified, Reads
  <1>13. ASSUME NEW r \in Runs, CheckBalance(r) PROVE TypeOK'
    BY <1>13 DEF CheckBalance, Reads
  <1>14. ASSUME NEW r \in Runs, MarkProcessed(r) PROVE TypeOK'
    BY <1>14, <1>0, LeavesTypeOK DEF MarkProcessed
  <1>15. ASSUME NEW r \in Runs, RuleMatch(r) PROVE TypeOK'
    BY <1>15 DEF RuleMatch, Reads
  <1>16. ASSUME NEW r \in Runs, PauseForReview(r) PROVE TypeOK'
    BY <1>16 DEF PauseForReview
  <1>17. ASSUME NEW r \in Runs, PersistCategories(r) \/ ReturnsStored(r) PROVE TypeOK'
    BY <1>17, <1>0, LeavesTypeOK DEF PersistCategories, ReturnsStored
  <1>18. ASSUME NEW r \in Runs, SendAlert(r) PROVE TypeOK'
    BY <1>18, <1>0, LeavesTypeOK DEF SendAlert
  <1>19. ASSUME NEW r \in Runs, Finish(r) PROVE TypeOK'
    BY <1>19 DEF Finish
  <1>20. ASSUME NEW r \in Runs, SaveCheckpoint(r) PROVE TypeOK'
    BY <1>20 DEF SaveCheckpoint
  <1>21. ASSUME NEW r \in Runs, NodeFails(r) PROVE TypeOK'
    <2>1. PICK s \in OnTheWay(r) : Stops(r, s)
      BY <1>21 DEF NodeFails
    <2>2. s \in Steps
      BY <2>1, StopTypes, "enter" \in Steps
    <2>3. QED
      BY <1>21, <2>1, <2>2, StopsTypeOK DEF NodeFails
  <1>22. CASE Crash
    BY <1>22, CrashTypeOK
  <1>23. CASE UNCHANGED vars
    BY <1>23 DEF vars
  <1>24. QED
    BY <1>1, <1>2, <1>3, <1>4, <1>5, <1>6, <1>7, <1>8, <1>9, <1>10, <1>11,
       <1>12, <1>13, <1>14, <1>15, <1>16, <1>17, <1>18, <1>19, <1>20, <1>21,
       <1>22, <1>23 DEF Next, NodeStep

\* Every variable keeps its type in every interleaving, with any number of files,
\* runs, failures and crashes.
THEOREM TypeCorrect == Spec => []TypeOK
  BY InitTypeOK, NextTypeOK, PTL DEF Spec

-----------------------------------------------------------------------------
(***************************************************************************)
(* The three ways a run changes other than by a node's own step: it stops, *)
(* it executes, or nothing happens to it.                                  *)
(***************************************************************************)
Untouched(q) ==
    /\ mode'[q] = mode[q] /\ at'[q] = at[q] /\ step'[q] = step[q] /\ saved'[q] = saved[q]
    /\ found'[q] = found[q] /\ picked'[q] = picked[q] /\ alerts'[q] = alerts[q]

\* The run is cut off, and stands where a stored checkpoint says.
CutOff(q) ==
    /\ mode[q] = "running" /\ mode'[q] = "stopped"
    /\ at'[q] = at[q] /\ alerts'[q] = alerts[q]
    /\ step'[q] \in {saved[q]} \cup OnTheWay(q) /\ step'[q] \in Steps
    /\ saved'[q] = step'[q]
    /\ found'[q] = FoundAt(q, step'[q]) /\ picked'[q] = PickedAt(q, step'[q])
    /\ Forfeits(q, step'[q]) \subseteq forfeited'

Stopping == Crash \/ \E r \in Runs : PersistConflict(r) \/ NodeFails(r)

LEMMA StoppingMeans ==
    ASSUME TypeOK, Stopping
    PROVE  /\ UNCHANGED <<drive, cursor, status, copies, alerted>>
           /\ forfeited \subseteq forfeited'
           /\ \A q \in Runs : Untouched(q) \/ CutOff(q)
  <1> USE DEF TypeOK, world, db
  <1>1. ASSUME NEW r \in Runs, NEW s \in OnTheWay(r), mode[r] = "running", Stops(r, s)
        PROVE  /\ UNCHANGED <<drive, cursor, status, copies, alerted>>
               /\ forfeited \subseteq forfeited'
               /\ \A q \in Runs : Untouched(q) \/ CutOff(q)
    <2>1. s \in Steps
      BY <1>1, StopTypes, "enter" \in Steps DEF Steps
    <2>2. \A q \in Runs \ {r} : Untouched(q)
      BY <1>1 DEF Stops, Untouched
    <2>3. CutOff(r)
      BY <1>1, <2>1 DEF Stops, CutOff
    <2>4. QED
      BY <1>1, <2>2, <2>3 DEF Stops
  <1>2. ASSUME NEW r \in Runs, NodeFails(r)
        PROVE  \E s \in OnTheWay(r) : mode[r] = "running" /\ Stops(r, s)
    BY <1>2 DEF NodeFails
  <1>3. ASSUME NEW r \in Runs, PersistConflict(r)
        PROVE  \E s \in OnTheWay(r) : mode[r] = "running" /\ Stops(r, s)
    <2>1. "judged" \in OnTheWay(r)
      BY <1>3 DEF PersistConflict, At, OnTheWay, Checks, Storable
    <2>2. QED
      BY <1>3, <2>1 DEF PersistConflict, At
  <1>4. CASE Crash
    <2>1. PICK back \in [Runs -> Steps] :
          /\ \A r \in Runs : IF mode[r] = "running" THEN back[r] \in {saved[r]} \cup OnTheWay(r)
                             ELSE back[r] = step[r]
          /\ step' = back
          /\ saved' = [r \in Runs |-> IF mode[r] = "running" THEN back[r] ELSE saved[r]]
          /\ found' = [r \in Runs |-> IF mode[r] = "running" THEN FoundAt(r, back[r]) ELSE found[r]]
          /\ picked' = [r \in Runs |-> IF mode[r] = "running" THEN PickedAt(r, back[r]) ELSE picked[r]]
          /\ forfeited' = forfeited \cup
               UNION {Forfeits(r, back[r]) : r \in {q \in Runs : mode[q] = "running"}}
      BY <1>4 DEF Crash
    <2>2. mode' = [r \in Runs |-> IF mode[r] = "running" THEN "stopped" ELSE mode[r]]
          /\ UNCHANGED <<at, alerts>>
      BY <1>4 DEF Crash
    <2>3. \A q \in Runs : mode[q] # "running" => Untouched(q)
      BY <2>1, <2>2 DEF Untouched
    <2>4. \A q \in Runs : mode[q] = "running" => Forfeits(q, back[q]) \subseteq forfeited'
      BY <2>1
    <2>5. \A q \in Runs : mode[q] = "running" => CutOff(q)
      BY <2>1, <2>2, <2>4 DEF CutOff
    <2>6. UNCHANGED <<drive, cursor, status, copies, alerted>>
      BY <1>4 DEF Crash
    <2>7. QED
      BY <2>1, <2>3, <2>5, <2>6
  <1>5. QED
    BY <1>1, <1>2, <1>3, <1>4 DEF Stopping

Executing(r) == Trigger(r) \/ AnswerReview(r) \/ Resume(r)

LEMMA ExecutingMeans ==
    ASSUME TypeOK, NEW r \in Runs, Executing(r)
    PROVE  /\ UNCHANGED <<drive, cursor, status, copies, alerted, forfeited>>
           /\ UNCHANGED <<at, found, picked, alerts, saved>>
           /\ mode'[r] = "running"
           /\ \A q \in Runs \ {r} :
                /\ step'[q] = step[q]
                /\ mode'[q] = IF mode[q] = "stopped" THEN "overtaken" ELSE mode[q]
           /\ \/ mode[r] = "paused" /\ step'[r] = "judged"
              \/ mode[r] \in {"new", "stopped"} /\ step'[r] = step[r]
              \/ mode[r] = "overtaken" /\ ~Attended /\ step'[r] = step[r]
           /\ CanExecute
  BY DEF Executing, Trigger, AnswerReview, Resume, Executes, TypeOK, world, db

-----------------------------------------------------------------------------
(***************************************************************************)
(* Checkpoints lie behind the run, a run that has not begun stands before  *)
(* ingestion, a paused one is inside categorization, and a run carries     *)
(* alert_details from a check to the alert only, which has no subgraph.    *)
(***************************************************************************)
Behind(s) == CASE s = "read"   -> {"enter", "read"}
               [] s = "judged" -> {"enter", "read", "judged"}
               [] OTHER        -> {s}

RestInv ==
    \A r \in Runs :
        /\ mode[r] = "new" => at[r] = "ingestion" /\ step[r] = "enter"
        /\ mode[r] = "paused" => at[r] = "categorization" /\ step[r] = "read"
        /\ saved[r] \in Behind(step[r])
        /\ at[r] = "verification_post_check" => saved[r] # "read"
        /\ at[r] \notin {"alert_immediate", "END"} => alerts[r] = {}
        /\ at[r] \in {"alert_immediate", "END"} => step[r] = "enter"

LEMMA RestInvNext == TypeOK /\ RestInv /\ [Next]_vars => RestInv'
  <1> SUFFICES ASSUME TypeOK, RestInv, [Next]_vars PROVE RestInv'
    OBVIOUS
  <1> USE DEF RestInv
  <1>1. CASE UNCHANGED vars
    BY <1>1 DEF vars
  <1>2. CASE Stopping
    <2> SUFFICES ASSUME NEW q \in Runs, CutOff(q)
                 PROVE  /\ saved'[q] \in Behind(step'[q])
                        /\ at'[q] = "verification_post_check" => saved'[q] # "read"
                        /\ at'[q] \in {"alert_immediate", "END"} => step'[q] = "enter"
      BY <1>2, StoppingMeans DEF Untouched, CutOff
    <2>1. saved'[q] \in Behind(step'[q])
      BY DEF CutOff, Behind
    <2>2. ASSUME at'[q] = "verification_post_check" PROVE saved'[q] # "read"
      BY <2>2 DEF CutOff, OnTheWay, Storable, At, Checks
    <2>3. ASSUME at'[q] \in {"alert_immediate", "END"} PROVE step'[q] = "enter"
      BY <2>3 DEF CutOff, OnTheWay, Storable, At, Checks, Behind
    <2>4. QED
      BY <2>1, <2>2, <2>3
  <1>3. CASE \E f \in Files : Upload(f)
    BY <1>3 DEF Upload, local
  <1>4. ASSUME NEW r \in Runs, Executing(r) PROVE RestInv'
    BY <1>4, ExecutingMeans DEF Behind
  <1>5. ASSUME NEW r \in Runs, SaveCheckpoint(r) PROVE RestInv'
    BY <1>5 DEF SaveCheckpoint, Storable, At, Behind, TypeOK
  <1>6. ASSUME NEW r \in Runs, NodeStep(r), ~PersistConflict(r) PROVE RestInv'
    <2> USE DEF TypeOK, At, Behind
    <2>1. CASE \/ ListNewFiles(r) \/ DedupeCheck(r) \/ ReadPending(r) \/ CheckDuplicate(r)
               \/ ParseStatements(r) \/ ReadVerified(r) \/ CheckBalance(r) \/ RuleMatch(r)
      BY <2>1 DEF ListNewFiles, DedupeCheck, ReadPending, CheckDuplicate, ParseStatements,
                  ReadVerified, CheckBalance, RuleMatch, Reads
    <2>2. ASSUME Leaves(r, Details(r)), mode[r] = "running" PROVE RestInv'
      <3>1. Route(r) \notin {"alert_immediate", "END"} => Details(r) = {}
        BY DEF Route, Details, Checks
      <3>2. /\ \A q \in Runs \ {r} : Untouched(q)
            /\ mode'[r] = "running" /\ at'[r] = Route(r) /\ alerts'[r] = Details(r)
            /\ step'[r] = "enter" /\ saved'[r] = "enter"
        BY <2>2 DEF Leaves, Untouched
      <3>3. QED
        BY <3>1, <3>2 DEF Untouched
    <2>3. CASE PauseForReview(r) \/ Finish(r)
      BY <2>3 DEF PauseForReview, Finish
    <2>4. QED
      BY <1>6, <2>1, <2>2, <2>3 DEF NodeStep, PersistFiles, MoveCursorOnly, ReturnsStored,
             MarkVerified, PersistTransactions, MarkProcessed, PersistCategories, SendAlert
  <1>7. QED
    BY <1>1, <1>2, <1>3, <1>4, <1>5, <1>6 DEF Next, NodeStep, Stopping, Executing

LEMMA RestInvariant == Spec => [](TypeOK /\ RestInv)
  <1>1. Init => RestInv
    BY DEF Init, RestInv, Behind
  <1>2. QED
    BY <1>1, TypeCorrect, RestInvNext, PTL DEF Spec

-----------------------------------------------------------------------------
(***************************************************************************)
(* CursorNeverSkips.  A run that has listed the folder will move the       *)
(* cursor to the latest file it listed, also when it is resumed much       *)
(* later; the strengthening says that every file up to there is among      *)
(* those it listed, has a statement or is forfeited, and that those it     *)
(* will not insert have one or are.                                        *)
(***************************************************************************)
Listing(r) == at[r] = "ingestion" /\ step[r] \in {"read", "judged", "inserted"}

Accounted(f) == status[f] # "absent" \/ f \in forfeited

CursorFromFile == cursor = 0 \/ \E g \in drive : cursor = Modified[g]

ListedUpToLatest ==
    \A r \in Runs : Listing(r) =>
        /\ found[r] \subseteq drive
        /\ \A f \in drive \ Moved, g \in found[r] :
              Modified[f] <= Modified[g] => f \in found[r] \/ Accounted(f)

DedupedHaveStatement ==
    \A r \in Runs : Listing(r) =>
        /\ step[r] = "judged" => \A f \in found[r] \ picked[r] : Accounted(f)
        /\ step[r] = "inserted" => \A f \in found[r] : Accounted(f)

CursorInv == CursorFromFile /\ ListedUpToLatest /\ DedupedHaveStatement /\ CursorNeverSkips

\* No step takes a statement away again, and what is forfeited remains so.
LEMMA StatementsStay ==
    TypeOK /\ [Next]_vars => \A f \in Files : Accounted(f) => Accounted(f)'
  <1> SUFFICES ASSUME TypeOK, [Next]_vars, NEW f \in Files, Accounted(f)
               PROVE  Accounted(f)'
    OBVIOUS
  <1> USE DEF TypeOK, Accounted
  <1>1. CASE UNCHANGED vars
    BY <1>1 DEF vars
  <1>2. CASE Stopping
    BY <1>2, StoppingMeans
  <1>3. CASE \E g \in Files : Upload(g)
    BY <1>3 DEF Upload, db, local
  <1>4. ASSUME NEW r \in Runs, Executing(r) PROVE Accounted(f)'
    BY <1>4, ExecutingMeans
  <1>5. ASSUME NEW r \in Runs, SaveCheckpoint(r) PROVE Accounted(f)'
    BY <1>5 DEF SaveCheckpoint, db
  <1>6. ASSUME NEW r \in Runs, NodeStep(r), ~PersistConflict(r) PROVE Accounted(f)'
    BY <1>6 DEF NodeStep, ListNewFiles, DedupeCheck, PersistFiles, MoveCursorOnly,
                ReturnsStored, ReadPending, CheckDuplicate, MarkVerified, ParseStatements,
                PersistTransactions, ReadVerified, CheckBalance, MarkProcessed,
                RuleMatch, PauseForReview, PersistCategories, SendAlert,
                Finish, Reads, Leaves, db
  <1>7. QED
    BY <1>1, <1>2, <1>3, <1>4, <1>5, <1>6 DEF Next, NodeStep, Stopping, Executing

\* A step that neither uploads, nor lists, nor persists leaves the invariant alone.
LEMMA CursorInvFrame ==
    ASSUME TypeOK, CursorInv, UNCHANGED <<drive, cursor>>,
           \A f \in Files : Accounted(f) => Accounted(f)',
           \A r \in Runs : Listing(r)' =>
               /\ Listing(r) /\ found'[r] = found[r]
               /\ step'[r] = "judged" => step[r] = "judged" /\ picked'[r] = picked[r]
               /\ step'[r] = "inserted" =>
                    \/ step[r] = "inserted"
                    \/ step[r] = "judged" /\ picked[r] \subseteq forfeited'
    PROVE  CursorInv'
  <1> USE DEF CursorInv, TypeOK
  <1>1. CursorFromFile'
    BY DEF CursorFromFile
  <1>2. ListedUpToLatest'
    BY DEF ListedUpToLatest
  <1>3. DedupedHaveStatement'
    <2> SUFFICES ASSUME NEW r \in Runs, Listing(r)'
                 PROVE  /\ step'[r] = "judged" => \A f \in found'[r] \ picked'[r] : Accounted(f)'
                        /\ step'[r] = "inserted" => \A f \in found'[r] : Accounted(f)'
      BY DEF DedupedHaveStatement
    <2>1. CASE step'[r] = "judged"
      BY <2>1 DEF DedupedHaveStatement
    <2>2. CASE step'[r] = "inserted" /\ step[r] = "inserted"
      BY <2>2 DEF DedupedHaveStatement
    <2>3. CASE step'[r] = "inserted" /\ step[r] = "judged"
      <3>1. \A f \in found[r] \ picked[r] : Accounted(f)'
        BY <2>3 DEF DedupedHaveStatement
      <3>2. \A f \in picked[r] : Accounted(f)'
        BY <2>3 DEF Accounted
      <3>3. QED
        BY <2>3, <3>1, <3>2
    <2>4. QED
      BY <2>1, <2>2, <2>3
  <1>4. CursorNeverSkips'
    BY DEF CursorNeverSkips, Accounted
  <1>5. QED
    BY <1>1, <1>2, <1>3, <1>4

LEMMA CursorInvUpload ==
    ASSUME TypeOK, CursorInv, NEW h \in Files, Upload(h)
    PROVE  CursorInv'
  <1> USE DriveAssumption DEF CursorInv, TypeOK, Upload, db, local, Accounted
  <1>1. CursorFromFile'
    BY DEF CursorFromFile
  <1>2. ListedUpToLatest'
    BY DEF ListedUpToLatest, Listing
  <1>3. DedupedHaveStatement'
    BY DEF DedupedHaveStatement, Listing
  <1>4. CursorNeverSkips'
    BY DEF CursorNeverSkips, CursorFromFile
  <1>5. QED
    BY <1>1, <1>2, <1>3, <1>4

LEMMA CursorInvListing ==
    ASSUME TypeOK, CursorInv, NEW r \in Runs, ListNewFiles(r) \/ DedupeCheck(r)
    PROVE  CursorInv'
  <1> USE DriveAssumption DEF CursorInv, TypeOK, At, Reads, db, world, ListNewFiles,
          DedupeCheck, WithStatus, Accounted
  <1>1. CursorFromFile'
    BY DEF CursorFromFile
  <1>2. ListedUpToLatest'
    <2> SUFFICES ASSUME NEW q \in Runs, Listing(q)' PROVE
          /\ found'[q] \subseteq drive
          /\ \A f \in drive \ Moved, g \in found'[q] :
                Modified[f] <= Modified[g] => f \in found'[q] \/ Accounted(f)
      BY DEF ListedUpToLatest
    <2>1. CASE q # r \/ DedupeCheck(r)
      BY <2>1 DEF ListedUpToLatest, Listing
    <2>2. CASE q = r /\ ListNewFiles(r)
      BY <2>2 DEF CursorNeverSkips
    <2>3. QED
      BY <2>1, <2>2
  <1>3. DedupedHaveStatement'
    BY DEF DedupedHaveStatement, Listing
  <1>4. CursorNeverSkips'
    BY DEF CursorNeverSkips
  <1>5. QED
    BY <1>1, <1>2, <1>3, <1>4

\* Moving the cursor to the latest listed file skips nothing, whether the inserts
\* come with it or were lost before.
LEMMA CursorInvPersist ==
    ASSUME TypeOK, CursorInv, NEW r \in Runs, PersistFiles(r) \/ MoveCursorOnly(r),
           \A f \in Files : Accounted(f) => Accounted(f)'
    PROVE  CursorInv'
  <1> USE DriveAssumption DEF CursorInv, TypeOK, At, UpdateSyncCursor
  <1>a. Listing(r) /\ step[r] \in {"judged", "inserted"} /\ UNCHANGED drive
        /\ UpdateSyncCursor(r) /\ Leaves(r, Details(r))
    BY DEF PersistFiles, MoveCursorOnly, Listing, world
  <1>b. \A q \in Runs : Listing(q)' =>
            Listing(q) /\ found'[q] = found[q] /\ picked'[q] = picked[q] /\ step'[q] = step[q]
    BY <1>a DEF Leaves, Listing
  <1>1. CursorFromFile'
    BY <1>a DEF CursorFromFile, ListedUpToLatest
  <1>2. ListedUpToLatest'
    BY <1>a, <1>b DEF ListedUpToLatest
  <1>3. DedupedHaveStatement'
    BY <1>b DEF DedupedHaveStatement
  <1>4. CursorNeverSkips'
    <2> SUFFICES ASSUME NEW f \in drive \ Moved, Modified[f] <= cursor' PROVE Accounted(f)'
      BY <1>a DEF CursorNeverSkips, Accounted
    <2>1. CASE cursor' = cursor
      BY <2>1 DEF CursorNeverSkips, Accounted
    <2>2. CASE \E latest \in found[r] : cursor' = Modified[latest]
      <3>1. f \in found[r] \/ Accounted(f)
        BY <1>a, <2>2 DEF ListedUpToLatest
      <3>2. f \in found[r] \ picked[r] \/ step[r] = "inserted" => Accounted(f)
        BY <1>a, <3>1 DEF DedupedHaveStatement
      <3>3. f \in picked[r] /\ step[r] = "judged" => Accounted(f)'
        BY DEF PersistFiles, MoveCursorOnly, Accounted
      <3>4. QED
        BY <1>a, <3>1, <3>2, <3>3
    <2>3. QED
      BY <1>a, <2>1, <2>2
  <1>5. QED
    BY <1>1, <1>2, <1>3, <1>4

LEMMA CursorInvNext == TypeOK /\ RestInv /\ CursorInv /\ [Next]_vars => CursorInv'
  <1> SUFFICES ASSUME TypeOK, RestInv, CursorInv, [Next]_vars PROVE CursorInv'
    OBVIOUS
  <1> DEFINE Quiet ==
        /\ UNCHANGED <<drive, cursor>>
        /\ \A r \in Runs : Listing(r)' =>
             /\ Listing(r) /\ found'[r] = found[r]
             /\ step'[r] = "judged" => step[r] = "judged" /\ picked'[r] = picked[r]
             /\ step'[r] = "inserted" =>
                  \/ step[r] = "inserted"
                  \/ step[r] = "judged" /\ picked[r] \subseteq forfeited'
  <1>0. Quiet => CursorInv'
    BY StatementsStay, CursorInvFrame
  <1>1. CASE UNCHANGED vars
    <2>1. Quiet
      BY <1>1 DEF vars, Listing
    <2>2. QED
      BY <2>1, <1>0
  <1>2. CASE Stopping
    <2>1. ASSUME NEW q \in Runs, CutOff(q), Listing(q)'
          PROVE  /\ Listing(q) /\ found'[q] = found[q]
                 /\ step'[q] = "judged" => step[q] = "judged" /\ picked'[q] = picked[q]
                 /\ step'[q] = "inserted" =>
                      \/ step[q] = "inserted"
                      \/ step[q] = "judged" /\ picked[q] \subseteq forfeited'
      <3>1. /\ at[q] = "ingestion" /\ step'[q] \in {"read", "judged", "inserted"}
            /\ step'[q] \in Behind(step[q]) \cup OnTheWay(q)
        BY <2>1 DEF CutOff, Listing, RestInv
      <3>2. OnTheWay(q) \subseteq CASE step[q] = "judged" -> {"judged", "inserted", "returned"}
                                    [] step[q] = "inserted" -> {"inserted", "returned"}
                                    [] OTHER -> {step[q]}
        BY <3>1 DEF OnTheWay, Checks, Storable, At
      <3>3. /\ step[q] \in {"read", "judged", "inserted"}
            /\ step'[q] = "judged" => step[q] = "judged"
            /\ step'[q] = "inserted" => step[q] \in {"judged", "inserted"}
        BY <3>1, <3>2 DEF Behind, TypeOK, Steps
      <3>4. found'[q] = found[q] /\ (step'[q] = "judged" => picked'[q] = picked[q])
        BY <2>1, <3>1 DEF CutOff, FoundAt, PickedAt
      <3>5. step'[q] = "inserted" /\ step[q] = "judged" => picked[q] \subseteq forfeited'
        BY <2>1, <3>1 DEF CutOff, Forfeits
      <3>6. QED
        BY <3>1, <3>3, <3>4, <3>5 DEF Listing
    <2>2. Quiet
      BY <1>2, <2>1, StoppingMeans DEF Untouched, Listing
    <2>3. QED
      BY <2>2, <1>0
  <1>3. ASSUME NEW f \in Files, Upload(f) PROVE CursorInv'
    BY <1>3, CursorInvUpload
  <1>4. ASSUME NEW r \in Runs, Executing(r) PROVE CursorInv'
    <2>1. Quiet
      BY <1>4, ExecutingMeans DEF RestInv, Listing
    <2>2. QED
      BY <2>1, <1>0
  <1>5. ASSUME NEW r \in Runs, SaveCheckpoint(r) PROVE CursorInv'
    <2>1. Quiet
      BY <1>5 DEF SaveCheckpoint, Listing, world, db
    <2>2. QED
      BY <2>1, <1>0
  <1>6. ASSUME NEW r \in Runs, NodeStep(r), ~PersistConflict(r) PROVE CursorInv'
    <2> USE DEF TypeOK, At, world, db
    <2>1. CASE ListNewFiles(r) \/ DedupeCheck(r)
      BY <2>1, CursorInvListing
    <2>2. CASE PersistFiles(r) \/ MoveCursorOnly(r)
      BY <2>2, StatementsStay, CursorInvPersist
    <2>3. CASE \/ ReadPending(r) \/ CheckDuplicate(r) \/ ParseStatements(r)
               \/ ReadVerified(r) \/ CheckBalance(r) \/ RuleMatch(r)
      <3>1. Quiet
        BY <2>3 DEF ReadPending, CheckDuplicate, ParseStatements, ReadVerified,
                    CheckBalance, RuleMatch, Reads, Listing
      <3>2. QED
        BY <3>1, <1>0
    <2>4. ASSUME Leaves(r, Details(r)), UNCHANGED <<drive, cursor>> PROVE CursorInv'
      <3>1. Quiet
        BY <2>4 DEF Leaves, Listing
      <3>2. QED
        BY <3>1, <1>0
    <2>5. CASE PauseForReview(r) \/ Finish(r)
      <3>1. Quiet
        BY <2>5 DEF PauseForReview, Finish, Listing
      <3>2. QED
        BY <3>1, <1>0
    <2>6. QED
      BY <1>6, <2>1, <2>2, <2>3, <2>4, <2>5 DEF NodeStep, ReturnsStored, MarkVerified,
         PersistTransactions, MarkProcessed, PersistCategories, SendAlert
  <1>7. QED
    BY <1>1, <1>2, <1>3, <1>4, <1>5, <1>6 DEF Next, NodeStep, Stopping, Executing

\* For any number of runs in any interleaving, with failures and crashes at any point
\* and resumes inside the subgraph: no file of the folder falls behind the sync cursor
\* without a statement, but one that appeared with an old modifiedTime itself and one
\* whose own INSERT was rolled back behind persist_metadata.
THEOREM CursorSafe == Spec => []CursorNeverSkips
  <1>1. Init => CursorInv
    BY DriveAssumption DEF Init, CursorInv, CursorFromFile, ListedUpToLatest,
                       DedupedHaveStatement, CursorNeverSkips, Listing
  <1>2. CursorInv => CursorNeverSkips
    BY DEF CursorInv
  <1>3. QED
    BY <1>1, <1>2, RestInvariant, CursorInvNext, PTL DEF Spec

-----------------------------------------------------------------------------
(***************************************************************************)
(* One attended run at a time.  What a node has read is still so when it   *)
(* commits, because nobody else writes in between, also not between a      *)
(* failure and the resume that goes on inside the subgraph with what was   *)
(* read before.  At most one run is live: it executes, or it has stopped   *)
(* and no other has executed since.                                        *)
(***************************************************************************)
Live(r) == mode[r] \in {"running", "stopped"}

OneLive == \A q, r \in Runs : Live(q) /\ Live(r) => q = r

\* The book's judgements, said with the operators of the pipeline.
LEMMA AdmissibleMeans ==
    ASSUME NEW f \in Files
    PROVE  Book!Admissible(f) <=>
             /\ Scan[f] = "ok"
             /\ \A g \in WithStatus({"verified", "processed"}) \ {f} : ~Overlaps(f, g)
  BY DEF Book!Admissible, Book!WithStatus, Book!Overlaps, WithStatus, Overlaps

LEMMA BalancedMeans ==
    ASSUME NEW f \in Files
    PROVE  Book!Balanced(f) <=> BalancesKnown(f, copies[f]) /\ Consistent(f, copies[f])
  BY DEF Book!Balanced, Book!BalancesKnown, Book!Consistent, Book!BALANCE_TOLERANCE,
         BalancesKnown, Consistent, BALANCE_TOLERANCE

\* Judgements depend on the tables only.
LEMMA JudgementsStay ==
    ASSUME UNCHANGED <<status, copies>>, NEW f \in Files
    PROVE  /\ Book!Admissible(f)' <=> Book!Admissible(f)
           /\ Book!Balanced(f)' <=> Book!Balanced(f)
           /\ Book!Condemned(f)' <=> Book!Condemned(f)
  BY DEF Book!Admissible, Book!WithStatus, Book!Balanced, Book!Condemned

PreCheckCurrent(r) ==
    at[r] = "verification_pre_check" =>
        /\ step[r] \in {"read", "judged", "returned"} => found[r] = WithStatus({"pending"})
        /\ step[r] = "read" => picked[r] = {f \in found[r] : Scan[f] = "ok"}
        /\ step[r] \in {"judged", "returned"} =>
              picked[r] = {f \in found[r] : Book!Admissible(f)}

ExtractionCurrent(r) ==
    at[r] = "extraction" /\ step[r] = "judged" => found[r] = WithStatus({"verified"})

PostCheckCurrent(r) ==
    at[r] = "verification_post_check" =>
        /\ step[r] \in {"read", "judged", "returned"} => found[r] = WithStatus({"verified"})
        /\ step[r] = "read" => picked[r] = {f \in found[r] : BalancesKnown(f, copies[f])}
        /\ step[r] \in {"judged", "returned"} =>
              picked[r] = {f \in found[r] : Book!Balanced(f)}

\* What it is about to report has failed, or would if it were checked again.
AlertsCurrent(r) ==
    at[r] = "alert_immediate" => alerts[r] \subseteq {f \in Files : Book!Condemned(f)}

Current(r) ==
    PreCheckCurrent(r) /\ ExtractionCurrent(r) /\ PostCheckCurrent(r) /\ AlertsCurrent(r)

SeqInv == OneLive /\ (\A r \in Runs : Live(r) => Current(r)) /\ ProcessedIsBalanced

LEMMA CurrentStays ==
    ASSUME TypeOK, UNCHANGED <<status, copies>>, NEW r \in Runs, Current(r),
           at'[r] = at[r], step'[r] = step[r], found'[r] = found[r],
           picked'[r] = picked[r], alerts'[r] = alerts[r]
    PROVE  Current(r)'
  <1> USE JudgementsStay DEF TypeOK, Current, WithStatus
  <1>1. PreCheckCurrent(r)'
    BY DEF PreCheckCurrent
  <1>2. ExtractionCurrent(r)'
    BY DEF ExtractionCurrent
  <1>3. PostCheckCurrent(r)'
    BY DEF PostCheckCurrent
  <1>4. AlertsCurrent(r)'
    BY DEF AlertsCurrent
  <1>5. QED
    BY <1>1, <1>2, <1>3, <1>4

\* The stored state of a subgraph, and where a failing node leaves it, is current as
\* long as what the run knew was.
LEMMA CutOffIsCurrent ==
    ASSUME TypeOK, RestInv, UNCHANGED <<status, copies>>, NEW r \in Runs, Current(r),
           CutOff(r)
    PROVE  Current(r)'
  <1> USE JudgementsStay DEF TypeOK, Current, WithStatus
  <1>0. step'[r] \in Behind(step[r]) \cup OnTheWay(r)
    BY DEF CutOff, RestInv
  <1>1. PreCheckCurrent(r)'
    <2> SUFFICES ASSUME at[r] = "verification_pre_check",
                        step'[r] \in {"read", "judged", "returned"}
                 PROVE  PreCheckCurrent(r)'
      BY DEF PreCheckCurrent, CutOff
    <2>1. OnTheWay(r) \subseteq {step[r]} \cup IF step[r] = "judged" THEN {"returned"} ELSE {}
      BY DEF OnTheWay, Checks, Storable, At
    <2>2. /\ step[r] \in {"read", "judged", "returned"}
          /\ step'[r] \in {"judged", "returned"} => step[r] \in {"judged", "returned"}
      BY <1>0, <2>1 DEF Behind, Steps
    <2>3. found'[r] = found[r]
      BY DEF CutOff, FoundAt
    <2>4. picked'[r] = IF step'[r] = "read" THEN {f \in found[r] : Scan[f] = "ok"} ELSE picked[r]
      BY DEF CutOff, PickedAt
    <2>5. QED
      BY <2>2, <2>3, <2>4 DEF PreCheckCurrent
  <1>2. ExtractionCurrent(r)'
    <2> SUFFICES ASSUME at[r] = "extraction", step'[r] = "judged"
                 PROVE  ExtractionCurrent(r)'
      BY DEF ExtractionCurrent, CutOff
    <2>1. step[r] = "judged"
      BY <1>0 DEF OnTheWay, Checks, Storable, At, Behind, Steps
    <2>2. QED
      BY <2>1 DEF CutOff, FoundAt, ExtractionCurrent
  <1>3. PostCheckCurrent(r)'
    <2> SUFFICES ASSUME at[r] = "verification_post_check",
                        step'[r] \in {"read", "judged", "returned"}
                 PROVE  PostCheckCurrent(r)'
      BY DEF PostCheckCurrent, CutOff
    <2>1. OnTheWay(r) \subseteq IF step[r] = "read" THEN {"enter"}
                               ELSE {step[r]} \cup IF step[r] = "judged" THEN {"returned"} ELSE {}
      BY DEF OnTheWay, Checks, Storable, At, CutOff
    <2>2. step[r] \in {"judged", "returned"} /\ step'[r] \in {"judged", "returned"}
      BY <1>0, <2>1 DEF Behind, Steps, RestInv, CutOff
    <2>3. found'[r] = found[r] /\ picked'[r] = picked[r]
      BY <2>2 DEF CutOff, FoundAt, PickedAt
    <2>4. QED
      BY <2>2, <2>3 DEF PostCheckCurrent
  <1>4. AlertsCurrent(r)'
    BY DEF AlertsCurrent, CutOff
  <1>5. QED
    BY <1>1, <1>2, <1>3, <1>4

LEMMA SeqInvRead ==
    ASSUME TypeOK, SeqInv, NEW r \in Runs,
           \/ ReadPending(r) \/ CheckDuplicate(r) \/ ParseStatements(r)
           \/ ReadVerified(r) \/ CheckBalance(r)
    PROVE  Current(r)'
  <1> USE DEF SeqInv, TypeOK, At
  <1>1. /\ UNCHANGED <<mode, at, status, copies>> /\ Current(r)
        /\ at[r] \in {"verification_pre_check", "extraction", "verification_post_check"}
    BY DEF ReadPending, CheckDuplicate, ParseStatements, ReadVerified, CheckBalance,
           Reads, db, Live
  <1> USE DEF Current
  <1>3. PreCheckCurrent(r)'
    <2>1. CASE ReadPending(r)
      <3>1. /\ step'[r] = "read" /\ found'[r] = WithStatus({"pending"})
            /\ picked'[r] = {f \in WithStatus({"pending"}) : Scan[f] = "ok"}
        BY <2>1 DEF ReadPending, Reads
      <3>2. QED
        BY <1>1, <3>1 DEF PreCheckCurrent, WithStatus
    <2>2. CASE CheckDuplicate(r)
      <3>1. step'[r] = "judged" /\ found'[r] = found[r] /\ found[r] = WithStatus({"pending"})
        BY <1>1, <2>2 DEF CheckDuplicate, Reads, PreCheckCurrent
      <3>2. picked[r] = {f \in found[r] : Scan[f] = "ok"}
        BY <1>1, <2>2 DEF CheckDuplicate, PreCheckCurrent
      <3>3. picked'[r] = {f \in found[r] : Book!Admissible(f)}
        <4>1. \A f \in picked'[r] : f \in picked[r]
          BY <2>2 DEF CheckDuplicate, Reads
        <4>2. \A f \in picked[r] : f \in picked'[r] <=>
                \A g \in WithStatus({"verified", "processed"}) \ {f} : ~Overlaps(f, g)
          BY <2>2 DEF CheckDuplicate, Reads
        <4>3. \A f \in found[r] : Book!Admissible(f) <=>
                /\ f \in picked[r]
                /\ \A g \in WithStatus({"verified", "processed"}) \ {f} : ~Overlaps(f, g)
          BY <3>2, AdmissibleMeans DEF WithStatus
        <4>4. QED
          BY <3>2, <4>1, <4>2, <4>3
      <3>4. \A f \in Files : Book!Admissible(f)' <=> Book!Admissible(f)
        BY <1>1, JudgementsStay
      <3>5. QED
        BY <1>1, <3>1, <3>3, <3>4 DEF PreCheckCurrent, WithStatus
    <2>3. CASE at[r] # "verification_pre_check"
      BY <1>1, <2>3 DEF PreCheckCurrent
    <2>4. QED
      BY <2>1, <2>2, <2>3 DEF ParseStatements, ReadVerified, CheckBalance
  <1>4. ExtractionCurrent(r)'
    BY <1>1 DEF ExtractionCurrent, WithStatus, ParseStatements, ReadPending,
                CheckDuplicate, ReadVerified, CheckBalance, Reads
  <1>5. PostCheckCurrent(r)'
    <2>1. CASE ReadVerified(r)
      <3>1. /\ step'[r] = "read" /\ found'[r] = WithStatus({"verified"})
            /\ picked'[r] = {f \in WithStatus({"verified"}) : BalancesKnown(f, copies[f])}
        BY <2>1 DEF ReadVerified, Reads
      <3>2. QED
        BY <1>1, <3>1 DEF PostCheckCurrent, WithStatus
    <2>2. CASE CheckBalance(r)
      <3>1. step'[r] = "judged" /\ found'[r] = found[r] /\ found[r] = WithStatus({"verified"})
        BY <1>1, <2>2 DEF CheckBalance, Reads, PostCheckCurrent
      <3>2. picked[r] = {f \in found[r] : BalancesKnown(f, copies[f])}
        BY <1>1, <2>2 DEF CheckBalance, PostCheckCurrent
      <3>3. picked'[r] = {f \in found[r] : Book!Balanced(f)}
        <4>1. picked'[r] = {f \in picked[r] : Consistent(f, copies[f])}
          BY <2>2 DEF CheckBalance, Reads
        <4>2. QED
          BY <3>1, <3>2, <4>1, BalancedMeans DEF WithStatus
      <3>4. \A f \in Files : Book!Balanced(f)' <=> Book!Balanced(f)
        BY <1>1, JudgementsStay
      <3>5. QED
        BY <1>1, <3>1, <3>3, <3>4 DEF PostCheckCurrent, WithStatus
    <2>3. CASE at[r] # "verification_post_check"
      BY <1>1, <2>3 DEF PostCheckCurrent
    <2>4. QED
      BY <2>1, <2>2, <2>3 DEF ParseStatements, ReadPending, CheckDuplicate
  <1>6. AlertsCurrent(r)'
    BY <1>1 DEF AlertsCurrent
  <1>7. QED
    BY <1>3, <1>4, <1>5, <1>6

\* A run that leaves a check with failures reports them: they have been written, or
\* their commit was lost and they would be written again.
LEMMA LeavingIsCurrent ==
    ASSUME TypeOK, RestInv, NEW r \in Runs, Leaves(r, Details(r)),
           at[r] \in Checks => found[r] \ picked[r] \subseteq {f \in Files : Book!Condemned(f)'}
    PROVE  Current(r)'
  <1> USE DEF TypeOK
  <1>1. at'[r] = Route(r) /\ alerts'[r] = Details(r) /\ step'[r] = "enter"
    BY DEF Leaves
  <1>2. CASE Route(r) # "alert_immediate"
    BY <1>1, <1>2 DEF Current, PreCheckCurrent, ExtractionCurrent, PostCheckCurrent,
                      AlertsCurrent
  <1>3. CASE Route(r) = "alert_immediate"
    <2>1. at[r] \in Checks
      BY <1>3 DEF Route, Checks
    <2>2. Details(r) \subseteq {f \in Files : Book!Condemned(f)'}
      BY <2>1 DEF Details
    <2>3. AlertsCurrent(r)'
      BY <1>1, <2>2 DEF AlertsCurrent
    <2>4. QED
      BY <1>1, <1>3, <2>3 DEF Current, PreCheckCurrent, ExtractionCurrent, PostCheckCurrent
  <1>4. QED
    BY <1>2, <1>3

LEMMA SeqInvWrite ==
    ASSUME TypeOK, RestInv, SeqInv, NEW r \in Runs,
           \/ PersistFiles(r) \/ MoveCursorOnly(r) \/ MarkVerified(r)
           \/ PersistTransactions(r) \/ MarkProcessed(r) \/ ReturnsStored(r)
           \/ PersistCategories(r) \/ SendAlert(r)
    PROVE  Current(r)' /\ ProcessedIsBalanced'
  <1> USE DEF TypeOK, At
  <1>0. Current(r) /\ ProcessedIsBalanced
    BY DEF SeqInv, Live, PersistFiles, MoveCursorOnly, MarkVerified, PersistTransactions,
           MarkProcessed, ReturnsStored, PersistCategories, SendAlert
  <1>1. CASE PersistFiles(r) \/ MoveCursorOnly(r)
    <2>1. Current(r)'
      BY <1>1, LeavingIsCurrent DEF PersistFiles, MoveCursorOnly, Checks
    <2>2. ProcessedIsBalanced'
      BY <1>0, <1>1 DEF PersistFiles, MoveCursorOnly, ProcessedIsBalanced
    <2>3. QED
      BY <2>1, <2>2
  <1>2. CASE MarkVerified(r)
    <2>1. \A f \in found[r] \ picked[r] : f \in Files /\ status'[f] = "failed"
      BY <1>2 DEF MarkVerified
    <2>2. Current(r)'
      BY <1>2, <2>1, LeavingIsCurrent DEF MarkVerified, Book!Condemned
    <2>3. ProcessedIsBalanced'
      BY <1>0, <1>2 DEF MarkVerified, ProcessedIsBalanced
    <2>4. QED
      BY <2>2, <2>3
  <1>3. CASE PersistTransactions(r)
    <2>1. found[r] \subseteq {f \in Files : status[f] = "verified"}
      BY <1>0, <1>3 DEF PersistTransactions, Current, ExtractionCurrent, WithStatus
    <2>2. ProcessedIsBalanced'
      BY <1>0, <1>3, <2>1 DEF PersistTransactions, ProcessedIsBalanced
    <2>3. Current(r)'
      BY <1>3, LeavingIsCurrent DEF PersistTransactions, Checks
    <2>4. QED
      BY <2>2, <2>3
  <1>4. CASE MarkProcessed(r)
    <2>1. picked[r] = {f \in found[r] : Book!Balanced(f)}
      BY <1>0, <1>4 DEF MarkProcessed, Current, PostCheckCurrent
    <2>2. ProcessedIsBalanced'
      BY <1>0, <1>4, <2>1, BalancedMeans DEF MarkProcessed, ProcessedIsBalanced
    <2>3. \A f \in found[r] \ picked[r] : f \in Files /\ status'[f] = "failed"
      BY <1>4 DEF MarkProcessed
    <2>4. Current(r)'
      BY <1>4, <2>3, LeavingIsCurrent DEF MarkProcessed, Book!Condemned
    <2>5. QED
      BY <2>2, <2>4
  <1>5. CASE ReturnsStored(r) \/ PersistCategories(r) \/ SendAlert(r)
    <2>1. UNCHANGED <<status, copies>> /\ Leaves(r, Details(r))
      BY <1>5 DEF ReturnsStored, PersistCategories, SendAlert, db
    <2>2. at[r] \in Checks => step[r] = "returned"
      BY <1>5 DEF ReturnsStored, PersistCategories, SendAlert, Checks
    <2>3. ASSUME at[r] \in Checks, NEW f \in found[r] \ picked[r] PROVE Book!Condemned(f)
      <3>1. CASE at[r] = "verification_pre_check"
        <4>1. status[f] = "pending" /\ ~Book!Admissible(f)
          BY <1>0, <2>2, <2>3, <3>1 DEF Current, PreCheckCurrent, WithStatus
        <4>2. QED
          BY <4>1 DEF Book!Condemned
      <3>2. CASE at[r] = "verification_post_check"
        <4>1. status[f] = "verified" /\ ~Book!Balanced(f)
          BY <1>0, <2>2, <2>3, <3>2 DEF Current, PostCheckCurrent, WithStatus
        <4>2. QED
          BY <4>1 DEF Book!Condemned
      <3>3. QED
        BY <2>3, <3>1, <3>2 DEF Checks
    <2>4. Current(r)'
      BY <2>1, <2>3, JudgementsStay, LeavingIsCurrent
    <2>5. ProcessedIsBalanced'
      BY <1>0, <2>1 DEF ProcessedIsBalanced
    <2>6. QED
      BY <2>4, <2>5
  <1>6. QED
    BY <1>1, <1>2, <1>3, <1>4, <1>5

LEMMA SeqInvNext ==
    ASSUME OneAtATime, Attended, TypeOK, RestInv, SeqInv, [Next]_vars
    PROVE  SeqInv'
  <1> DEFINE Quiet ==
        /\ UNCHANGED <<status, copies>>
        /\ \A q \in Runs : Live(q)' => Live(q)
        /\ \A q \in Runs : Live(q)' => Current(q)'
  <1>0. Quiet => SeqInv'
    BY DEF SeqInv, OneLive, ProcessedIsBalanced
  <1> USE DEF TypeOK
  <1>1. CASE UNCHANGED vars
    BY <1>0, <1>1, CurrentStays DEF vars, SeqInv, Live
  <1>2. CASE Stopping
    <2>1. \A q \in Runs : Live(q)' => Live(q)
      BY <1>2, StoppingMeans DEF Untouched, CutOff, Live
    <2>2. \A q \in Runs : Live(q)' => Current(q)'
      BY <1>2, <2>1, StoppingMeans, CurrentStays, CutOffIsCurrent DEF Untouched, SeqInv
    <2>3. QED
      BY <1>0, <1>2, <2>1, <2>2, StoppingMeans
  <1>3. CASE \E f \in Files : Upload(f)
    BY <1>0, <1>3, CurrentStays DEF Upload, db, local, SeqInv, Live
  <1>4. ASSUME NEW r \in Runs, Executing(r) PROVE SeqInv'
    <2>1. \A q \in Runs : Live(q)' => q = r
      BY <1>4, ExecutingMeans DEF Live, CanExecute
    <2>2. Current(r)'
      <3>1. CASE mode[r] = "paused"
        BY <1>4, <3>1, ExecutingMeans DEF RestInv, Current, PreCheckCurrent,
           ExtractionCurrent, PostCheckCurrent, AlertsCurrent
      <3>2. CASE mode[r] = "new"
        BY <1>4, <3>2, ExecutingMeans DEF RestInv, Current, PreCheckCurrent,
           ExtractionCurrent, PostCheckCurrent, AlertsCurrent
      <3>3. CASE mode[r] = "stopped"
        BY <1>4, <3>3, ExecutingMeans, CurrentStays DEF SeqInv, Live
      <3>4. QED
        BY <1>4, <3>1, <3>2, <3>3, ExecutingMeans
    <2>3. QED
      BY <1>4, <2>1, <2>2, ExecutingMeans DEF SeqInv, OneLive, ProcessedIsBalanced
  <1>5. ASSUME NEW r \in Runs, SaveCheckpoint(r) PROVE SeqInv'
    BY <1>0, <1>5, CurrentStays DEF SaveCheckpoint, db, SeqInv, Live
  <1>6. ASSUME NEW r \in Runs, NodeStep(r), ~PersistConflict(r) PROVE SeqInv'
    <2> DEFINE Alone == mode[r] = "running"
                        /\ \A q \in Runs \ {r} : mode'[q] = mode[q]
    <2>1. Alone
      BY <1>6 DEF NodeStep, At, ListNewFiles, DedupeCheck, PersistFiles, MoveCursorOnly,
             ReturnsStored, ReadPending, CheckDuplicate, MarkVerified, ParseStatements,
             PersistTransactions, ReadVerified, CheckBalance, MarkProcessed, RuleMatch,
             PauseForReview, PersistCategories, SendAlert, Finish, Reads, Leaves
    <2>2. \A q \in Runs : Live(q)' => q = r
      BY <2>1 DEF SeqInv, OneLive, Live
    <2>3. Current(r)' /\ ProcessedIsBalanced' => SeqInv'
      BY <2>2 DEF SeqInv, OneLive
    <2>4. CASE \/ ReadPending(r) \/ CheckDuplicate(r) \/ ParseStatements(r)
               \/ ReadVerified(r) \/ CheckBalance(r)
      <3>1. ProcessedIsBalanced'
        BY <2>4 DEF ReadPending, CheckDuplicate, ParseStatements, ReadVerified,
                    CheckBalance, Reads, db, SeqInv, ProcessedIsBalanced
      <3>2. QED
        BY <2>3, <2>4, <3>1, SeqInvRead
    <2>5. CASE \/ PersistFiles(r) \/ MoveCursorOnly(r) \/ MarkVerified(r)
               \/ PersistTransactions(r) \/ MarkProcessed(r) \/ ReturnsStored(r)
               \/ PersistCategories(r) \/ SendAlert(r)
      BY <2>3, <2>5, SeqInvWrite
    <2>6. CASE \/ ListNewFiles(r) \/ DedupeCheck(r) \/ RuleMatch(r)
               \/ PauseForReview(r) \/ Finish(r)
      <3>1. /\ UNCHANGED <<status, copies>>
            /\ at'[r] \in {"ingestion", "categorization", "END"}
        BY <2>6 DEF ListNewFiles, DedupeCheck, RuleMatch, PauseForReview, Finish, Reads,
                    db, At
      <3>2. Current(r)' /\ ProcessedIsBalanced'
        BY <3>1 DEF Current, PreCheckCurrent, ExtractionCurrent, PostCheckCurrent,
                    AlertsCurrent, SeqInv, ProcessedIsBalanced
      <3>3. QED
        BY <2>3, <3>2
    <2>7. QED
      BY <1>6, <2>4, <2>5, <2>6 DEF NodeStep
  <1>7. QED
    BY <1>1, <1>2, <1>3, <1>4, <1>5, <1>6 DEF Next, NodeStep, Stopping, Executing

LEMMA SequentialInvariant ==
    ASSUME OneAtATime, Attended PROVE Spec => [](TypeOK /\ RestInv /\ SeqInv)
  <1>1. Init => SeqInv
    BY DEF Init, SeqInv, OneLive, Live, ProcessedIsBalanced
  <1>2. TypeOK /\ RestInv /\ SeqInv /\ [Next]_vars => SeqInv'
    BY SeqInvNext
  <1>3. QED
    BY <1>1, <1>2, RestInvariant, PTL DEF Spec

\* If runs do not overlap and a run that has stopped is resumed before another executes
\* or not at all, every processed statement balances over all the rows stored for it,
\* whatever fails, crashes or goes on in the middle of a subgraph.
THEOREM ProcessedBalanced ==
    ASSUME OneAtATime, Attended PROVE Spec => []ProcessedIsBalanced
  <1>1. SeqInv => ProcessedIsBalanced
    BY DEF SeqInv
  <1>2. QED
    BY <1>1, SequentialInvariant, PTL

-----------------------------------------------------------------------------
(***************************************************************************)
(* The refinement.  SeqInv says that what the live run has read is still   *)
(* what the tables hold, so its commit is the book's step, and that what   *)
(* it is about to report deserves it, so its mail is one.                  *)
(***************************************************************************)
BookStep == [Book!Next]_(Book!book)

LEMMA BookStutters == ASSUME UNCHANGED <<status, copies, alerted>> PROVE BookStep
  BY DEF BookStep, Book!book

LEMMA CommitIsBookStep ==
    ASSUME TypeOK, SeqInv, NEW r \in Runs,
           \/ PersistFiles(r) \/ MarkVerified(r) \/ PersistTransactions(r)
           \/ MarkProcessed(r)
    PROVE  BookStep
  <1> USE DEF TypeOK, WithStatus, Book!WithStatus, world, At
  <1> SUFFICES Book!Next
    BY DEF BookStep
  <1>0. Current(r)
    BY DEF SeqInv, Live, PersistFiles, MarkVerified, PersistTransactions, MarkProcessed
  <1>1. CASE PersistFiles(r)
    <2>1. picked[r] \in SUBSET Book!WithStatus({"absent"})
      BY <1>1 DEF PersistFiles
    <2>2. Book!Register
      BY <1>1, <2>1 DEF PersistFiles, Book!Register
    <2>3. QED
      BY <2>2 DEF Book!Next
  <1>2. CASE MarkVerified(r)
    <2>1. found[r] = {f \in Files : status[f] \in {"pending"}}
      BY <1>0, <1>2 DEF MarkVerified, Current, PreCheckCurrent
    <2>2. picked[r] = {f \in found[r] : Book!Admissible(f)}
      BY <1>0, <1>2 DEF MarkVerified, Current, PreCheckCurrent
    <2>3. \A f \in Files : /\ f \in found[r] <=> status[f] = "pending"
                           /\ f \in picked[r] <=> status[f] = "pending" /\ Book!Admissible(f)
      BY <2>1, <2>2
    <2>4. status' = [f \in Files |->
                    IF status[f] # "pending" THEN status[f]
                    ELSE IF Book!Admissible(f) THEN "verified" ELSE "failed"]
      BY <1>2, <2>3 DEF MarkVerified
    <2>5. Book!Verify
      BY <1>2, <2>4 DEF MarkVerified, Book!Verify
    <2>6. QED
      BY <2>5 DEF Book!Next
  <1>3. CASE PersistTransactions(r)
    <2>1. found[r] = {f \in Files : status[f] \in {"verified"}}
      BY <1>0, <1>3 DEF PersistTransactions, Current, ExtractionCurrent
    <2>2. Book!Extract
      BY <1>3, <2>1 DEF PersistTransactions, Book!Extract
    <2>3. QED
      BY <2>2 DEF Book!Next
  <1>4. CASE MarkProcessed(r)
    <2>1. found[r] = {f \in Files : status[f] \in {"verified"}}
      BY <1>0, <1>4 DEF MarkProcessed, Current, PostCheckCurrent
    <2>2. picked[r] = {f \in found[r] : Book!Balanced(f)}
      BY <1>0, <1>4 DEF MarkProcessed, Current, PostCheckCurrent
    <2>3. \A f \in Files : /\ f \in found[r] <=> status[f] = "verified"
                           /\ f \in picked[r] <=> status[f] = "verified" /\ Book!Balanced(f)
      BY <2>1, <2>2
    <2>4. status' = [f \in Files |->
                    IF status[f] # "verified" THEN status[f]
                    ELSE IF Book!Balanced(f) THEN "processed" ELSE "failed"]
      BY <1>4, <2>3 DEF MarkProcessed
    <2>5. Book!Settle
      BY <1>4, <2>4 DEF MarkProcessed, Book!Settle
    <2>6. QED
      BY <2>5 DEF Book!Next
  <1>5. QED
    BY <1>1, <1>2, <1>3, <1>4

LEMMA MailIsBookStep ==
    ASSUME TypeOK, SeqInv, NEW r \in Runs, SendAlert(r)
    PROVE  BookStep
  <1>1. alerts[r] \in SUBSET {f \in Files : Book!Condemned(f)}
    BY DEF SeqInv, Live, Current, AlertsCurrent, SendAlert, At
  <1>2. Book!Alert
    BY <1>1 DEF SendAlert, db, Book!Alert
  <1>3. QED
    BY <1>2 DEF BookStep, Book!Next

\* Every step of the pipeline is a step of the book or leaves it alone.
LEMMA BookSteps ==
    ASSUME TypeOK, SeqInv, [Next]_vars
    PROVE  BookStep
  <1> USE DEF db, local, world
  <1>1. CASE UNCHANGED vars
    BY <1>1, BookStutters DEF vars
  <1>2. CASE Stopping
    BY <1>2, StoppingMeans, BookStutters
  <1>3. CASE \E f \in Files : Upload(f)
    BY <1>3, BookStutters DEF Upload
  <1>4. ASSUME NEW r \in Runs, Executing(r) PROVE BookStep
    BY <1>4, ExecutingMeans, BookStutters
  <1>5. ASSUME NEW r \in Runs, SaveCheckpoint(r) PROVE BookStep
    BY <1>5, BookStutters DEF SaveCheckpoint
  <1>6. ASSUME NEW r \in Runs, NodeStep(r), ~PersistConflict(r) PROVE BookStep
    <2>1. CASE \/ PersistFiles(r) \/ MarkVerified(r) \/ PersistTransactions(r)
               \/ MarkProcessed(r)
      BY <2>1, CommitIsBookStep
    <2>2. CASE SendAlert(r)
      BY <2>2, MailIsBookStep
    <2>3. CASE \/ ListNewFiles(r) \/ DedupeCheck(r) \/ MoveCursorOnly(r) \/ ReturnsStored(r)
               \/ ReadPending(r) \/ CheckDuplicate(r) \/ ParseStatements(r)
               \/ ReadVerified(r) \/ CheckBalance(r) \/ RuleMatch(r)
               \/ PauseForReview(r) \/ PersistCategories(r) \/ Finish(r)
      BY <2>3, BookStutters
         DEF ListNewFiles, DedupeCheck, MoveCursorOnly, ReturnsStored, ReadPending,
             CheckDuplicate, ParseStatements, ReadVerified, CheckBalance, RuleMatch,
             PauseForReview, PersistCategories, Finish, Reads
    <2>4. QED
      BY <1>6, <2>1, <2>2, <2>3 DEF NodeStep
  <1>7. QED
    BY <1>1, <1>2, <1>3, <1>4, <1>5, <1>6 DEF Next, NodeStep, Stopping, Executing

LEMMA StepsOfSpec == ASSUME OneAtATime, Attended PROVE Spec => [][BookStep]_vars
  <1>1. TypeOK /\ SeqInv /\ [Next]_vars => [BookStep]_vars
    BY BookSteps
  <1>2. QED
    BY <1>1, SequentialInvariant, PTL DEF Spec

\* If runs do not overlap and a stopped run is resumed before another executes or not at
\* all, the pipeline with its snapshots, checkpoints, failures, lost commits, restarts
\* and resumes inside a subgraph implements the book of statements.
THEOREM Refinement == ASSUME OneAtATime, Attended PROVE Spec => ImplementsBook
  <1>1. Init => Book!Init
    BY DEF Init, Book!Init
  <1>2. UNCHANGED vars => BookStep
    BY BookStutters DEF vars
  <1>3. Spec => [][BookStep]_vars
    BY StepsOfSpec
  <1>4. Spec => Book!Spec
    BY <1>1, <1>2, <1>3, PTL DEF Spec, Book!Spec, BookStep
  <1>5. QED
    BY <1>4 DEF ImplementsBook

\* Under the same schedule, no statement is verified beside one that was verified or
\* processed before and covers a part of the same period.
THEOREM OverlapRefused == ASSUME OneAtATime, Attended PROVE Spec => NoLateOverlap
  <1> DEFINE OverlapStep ==
        \A f, g \in Files :
            /\ f # g /\ Overlaps(f, g)
            /\ status[f] # "verified" /\ status'[f] = "verified"
            => status[g] \notin {"verified", "processed"}
  <1>1. ASSUME TypeOK, BookStep PROVE OverlapStep
    <2>1. CASE Book!Verify
      <3>1. SUFFICES ASSUME NEW f \in Files, NEW g \in Files, f # g, Overlaps(f, g),
                            status[f] # "verified", status'[f] = "verified"
                     PROVE  status[g] \notin {"verified", "processed"}
        OBVIOUS
      <3>2. Book!Admissible(f)
        BY <2>1, <3>1 DEF Book!Verify
      <3>3. QED
        BY <3>1, <3>2, AdmissibleMeans DEF WithStatus
    <2>2. CASE ~Book!Verify
      BY <1>1, <2>2 DEF TypeOK, BookStep, Book!book, Book!Next, Book!Register,
                        Book!Extract, Book!Settle, Book!Alert
    <2>3. QED
      BY <2>1, <2>2
  <1>2. Spec => [][OverlapStep]_vars
    BY <1>1, StepsOfSpec, TypeCorrect, PTL
  <1>3. QED
    BY <1>2 DEF NoLateOverlap

-----------------------------------------------------------------------------
(***************************************************************************)
(* What survives overlapping runs and late resumes.  A verdict may be      *)
(* based on a stale read, but what it was based on is never undone: what a *)
(* file contains does not change, and rows are only added.                 *)
(***************************************************************************)
EvidenceInv ==
    /\ \A r \in Runs :
         at[r] = "verification_post_check" /\ step[r] \in {"read", "judged"} =>
             \A f \in picked[r] : BalancesKnown(f, copies[f])
    /\ ProcessedHasRows

\* A step that writes neither statuses nor rows and takes no run deeper into a node.
LEMMA EvidenceInvFrame ==
    ASSUME TypeOK, EvidenceInv, UNCHANGED <<status, copies>>,
           \A r \in Runs : at'[r] = "verification_post_check"
                             /\ step'[r] \in {"read", "judged"} =>
               /\ at[r] = at'[r] /\ step[r] \in {"read", "judged"} /\ picked'[r] = picked[r]
    PROVE  EvidenceInv'
  BY DEF TypeOK, EvidenceInv, ProcessedHasRows

LEMMA EvidenceInvRead ==
    ASSUME TypeOK, EvidenceInv, NEW r \in Runs,
           \/ ReadPending(r) \/ CheckDuplicate(r) \/ ParseStatements(r)
           \/ ReadVerified(r) \/ CheckBalance(r)
    PROVE  EvidenceInv'
  BY DEF TypeOK, EvidenceInv, WithStatus, At, Reads, db, world,
         ProcessedHasRows, ReadPending, CheckDuplicate,
         ParseStatements, ReadVerified, CheckBalance

LEMMA EvidenceInvWrite ==
    ASSUME TypeOK, EvidenceInv, NEW r \in Runs,
           PersistFiles(r) \/ MarkVerified(r) \/ PersistTransactions(r) \/ MarkProcessed(r)
    PROVE  EvidenceInv'
  <1> USE DEF TypeOK, EvidenceInv, At, Leaves, world, BalancesKnown, ProcessedHasRows
  <1>1. CASE PersistFiles(r)
    BY <1>1 DEF PersistFiles
  <1>2. CASE MarkVerified(r)
    BY <1>2 DEF MarkVerified
  <1>3. CASE PersistTransactions(r)
    BY <1>3 DEF PersistTransactions
  <1>4. CASE MarkProcessed(r)
    BY <1>4 DEF MarkProcessed
  <1>5. QED
    BY <1>1, <1>2, <1>3, <1>4

LEMMA EvidenceInvNext == TypeOK /\ RestInv /\ EvidenceInv /\ [Next]_vars => EvidenceInv'
  <1> SUFFICES ASSUME TypeOK, RestInv, EvidenceInv, [Next]_vars PROVE EvidenceInv'
    OBVIOUS
  <1> DEFINE Quiet ==
        /\ UNCHANGED <<status, copies>>
        /\ \A r \in Runs : at'[r] = "verification_post_check"
                               /\ step'[r] \in {"read", "judged"} =>
               /\ at[r] = at'[r] /\ step[r] \in {"read", "judged"} /\ picked'[r] = picked[r]
  <1>0. Quiet => EvidenceInv'
    BY EvidenceInvFrame
  <1>1. CASE UNCHANGED vars
    BY <1>0, <1>1 DEF vars
  <1>2. CASE Stopping
    <2>1. ASSUME NEW q \in Runs, CutOff(q), at'[q] = "verification_post_check",
                 step'[q] \in {"read", "judged"}
          PROVE  step[q] \in {"read", "judged"} /\ picked'[q] = picked[q]
      <3>1. OnTheWay(q) \subseteq IF step[q] = "read" THEN {"enter"}
                                 ELSE {step[q]} \cup IF step[q] = "judged" THEN {"returned"} ELSE {}
        BY <2>1 DEF OnTheWay, Checks, Storable, At, CutOff
      <3>2. step'[q] = "judged" /\ step[q] = "judged"
        BY <2>1, <3>1 DEF CutOff, RestInv, Behind, TypeOK, Steps
      <3>3. QED
        BY <2>1, <3>2 DEF CutOff, PickedAt
    <2>2. QED
      BY <1>0, <1>2, <2>1, StoppingMeans DEF Untouched, CutOff
  <1>3. CASE \E f \in Files : Upload(f)
    BY <1>0, <1>3 DEF Upload, db, local
  <1>4. ASSUME NEW r \in Runs, Executing(r) PROVE EvidenceInv'
    BY <1>0, <1>4, ExecutingMeans DEF RestInv
  <1>5. ASSUME NEW r \in Runs, SaveCheckpoint(r) PROVE EvidenceInv'
    BY <1>0, <1>5 DEF SaveCheckpoint, db
  <1>6. ASSUME NEW r \in Runs, NodeStep(r), ~PersistConflict(r) PROVE EvidenceInv'
    <2>1. CASE \/ ReadPending(r) \/ CheckDuplicate(r) \/ ParseStatements(r)
               \/ ReadVerified(r) \/ CheckBalance(r)
      BY <2>1, EvidenceInvRead
    <2>2. CASE PersistFiles(r) \/ MarkVerified(r) \/ PersistTransactions(r) \/ MarkProcessed(r)
      BY <2>2, EvidenceInvWrite
    <2>3. CASE ListNewFiles(r) \/ DedupeCheck(r) \/ RuleMatch(r) \/ PauseForReview(r) \/ Finish(r)
      BY <1>0, <2>3 DEF ListNewFiles, DedupeCheck, RuleMatch, PauseForReview, Finish, Reads,
                        At, TypeOK, db
    <2>4. CASE MoveCursorOnly(r) \/ ReturnsStored(r) \/ PersistCategories(r) \/ SendAlert(r)
      BY <1>0, <2>4 DEF MoveCursorOnly, ReturnsStored, PersistCategories, SendAlert, Leaves,
                        TypeOK, db
    <2>5. QED
      BY <1>6, <2>1, <2>2, <2>3, <2>4 DEF NodeStep
  <1>7. QED
    BY <1>1, <1>2, <1>3, <1>4, <1>5, <1>6 DEF Next, NodeStep, Stopping, Executing

\* Even if runs overlap and are resumed late: a processed statement has rows and
\* balances in the database.
THEOREM ProcessedNeverEmpty == Spec => []ProcessedHasRows
  <1>1. Init => EvidenceInv
    BY DEF Init, EvidenceInv, ProcessedHasRows
  <1>2. EvidenceInv => ProcessedHasRows
    BY DEF EvidenceInv
  <1>3. QED
    BY <1>1, <1>2, RestInvariant, EvidenceInvNext, PTL DEF Spec

-----------------------------------------------------------------------------
(***************************************************************************)
(* Reporting.  Between the commit of a verdict and the next checkpoint of  *)
(* the master graph a restart loses nothing, because the ended subgraph    *)
(* has stored its results; a failure is taken over by the alert from       *)
(* alert_details or from there.                                            *)
(***************************************************************************)
Reporting(r, f) == mode[r] # "completed" /\ f \in Names(r)

\* Whoever has to report a file keeps it until the mail is sent.
LEMMA ReportingStays ==
    ASSUME TypeOK, RestInv, [Next]_vars, NEW f \in Files, NEW q \in Runs, Reporting(q, f)
    PROVE  f \in alerted' \/ Reporting(q, f)'
  <1> USE DEF TypeOK, At
  <1>0. ASSUME Untouched(q) PROVE Reporting(q, f)'
    BY <1>0 DEF Untouched, Reporting, Names, Details
  <1>a. \/ at[q] = "alert_immediate" /\ f \in alerts[q]
        \/ at[q] \in Checks /\ step[q] = "returned" /\ f \in found[q] \ picked[q]
    BY DEF Reporting, Names, Details, RestInv, Checks
  <1>1. CASE UNCHANGED vars
    BY <1>0, <1>1 DEF vars, Untouched
  <1>2. CASE Stopping
    <2> SUFFICES ASSUME CutOff(q) PROVE Reporting(q, f)'
      BY <1>0, <1>2, StoppingMeans
    <2>1. CASE step[q] = "returned"
      <3>1. OnTheWay(q) = {"returned"} /\ step'[q] = "returned"
        BY <2>1 DEF OnTheWay, Checks, Storable, CutOff, RestInv, Behind
      <3>2. found'[q] = found[q] /\ picked'[q] = picked[q]
        BY <3>1 DEF CutOff, FoundAt, PickedAt
      <3>3. QED
        BY <2>1, <3>1, <3>2 DEF CutOff, Reporting, Names, Details
    <2>2. CASE at[q] = "alert_immediate"
      BY <1>a, <2>2 DEF CutOff, Reporting, Names, Details, Checks
    <2>3. QED
      BY <1>a, <2>1, <2>2
  <1>3. CASE \E g \in Files : Upload(g)
    BY <1>0, <1>3 DEF Upload, local, Untouched
  <1>4. ASSUME NEW r \in Runs, Executing(r) PROVE Reporting(q, f)'
    BY <1>4, ExecutingMeans DEF Reporting, Names, Details, RestInv
  <1>5. ASSUME NEW r \in Runs, SaveCheckpoint(r) PROVE Reporting(q, f)'
    BY <1>5 DEF SaveCheckpoint, Reporting, Names, Details
  <1>6. ASSUME NEW r \in Runs, NodeStep(r), ~PersistConflict(r)
        PROVE  f \in alerted' \/ Reporting(q, f)'
    <2>1. CASE \/ ListNewFiles(r) \/ DedupeCheck(r) \/ ReadPending(r) \/ CheckDuplicate(r)
               \/ ParseStatements(r) \/ ReadVerified(r) \/ CheckBalance(r) \/ RuleMatch(r)
               \/ PauseForReview(r) \/ Finish(r)
      <3>1. q # r
        BY <1>a, <2>1 DEF ListNewFiles, DedupeCheck, ReadPending, CheckDuplicate,
                    ParseStatements, ReadVerified, CheckBalance, RuleMatch,
                    PauseForReview, Finish, Checks
      <3>2. Untouched(q)
        BY <2>1, <3>1 DEF ListNewFiles, DedupeCheck, ReadPending, CheckDuplicate,
                    ParseStatements, ReadVerified, CheckBalance, RuleMatch,
                    PauseForReview, Finish, Reads, Untouched
      <3>3. QED
        BY <1>0, <3>2
    <2>2. ASSUME Leaves(r, Details(r)), mode[r] = "running", at[r] # "END",
                 at[r] # "alert_immediate" \/ alerts[r] \subseteq alerted'
          PROVE  f \in alerted' \/ Reporting(q, f)'
      <3>1. CASE q # r
        <4>1. Untouched(q)
          BY <2>2, <3>1 DEF Leaves, Untouched
        <4>2. QED
          BY <1>0, <4>1
      <3>2. CASE q = r /\ at[q] \in Checks
        <4>1. Route(r) = "alert_immediate" /\ f \in Details(r)
          BY <1>a, <3>2 DEF Route, Details, Checks
        <4>2. QED
          BY <2>2, <3>2, <4>1 DEF Leaves, Reporting, Names, Details, Checks
      <3>3. CASE q = r /\ at[q] = "alert_immediate"
        BY <1>a, <2>2, <3>3 DEF Checks
      <3>4. QED
        BY <1>a, <2>2, <3>1, <3>2, <3>3
    <2>3. CASE SendAlert(r)
      BY <2>2, <2>3 DEF SendAlert
    <2>4. CASE ReturnsStored(r)
      BY <2>2, <2>4 DEF ReturnsStored, RestInv
    <2>5. QED
      BY <1>6, <2>1, <2>2, <2>3, <2>4 DEF NodeStep, PersistFiles, MoveCursorOnly,
         MarkVerified, PersistTransactions, MarkProcessed, PersistCategories
  <1>7. QED
    BY <1>1, <1>2, <1>3, <1>4, <1>5, <1>6 DEF Next, NodeStep, Stopping, Executing

\* An alert is never unsent.
LEMMA AlertsStay == ASSUME TypeOK, [Next]_vars PROVE alerted \subseteq alerted'
  <1> USE DEF world
  <1>1. CASE UNCHANGED vars \/ \E f \in Files : Upload(f)
    BY <1>1 DEF vars, Upload
  <1>2. CASE Stopping
    BY <1>2, StoppingMeans
  <1>3. ASSUME NEW r \in Runs, Executing(r) \/ SaveCheckpoint(r) PROVE alerted \subseteq alerted'
    BY <1>3, ExecutingMeans DEF SaveCheckpoint
  <1>4. ASSUME NEW r \in Runs, NodeStep(r), ~PersistConflict(r) PROVE alerted \subseteq alerted'
    BY <1>4 DEF NodeStep, ListNewFiles, DedupeCheck, PersistFiles, MoveCursorOnly,
           ReturnsStored, ReadPending, CheckDuplicate, MarkVerified, ParseStatements,
           PersistTransactions, ReadVerified, CheckBalance, MarkProcessed, RuleMatch,
           PauseForReview, PersistCategories, SendAlert, Finish, Reads
  <1>5. QED
    BY <1>1, <1>2, <1>3, <1>4 DEF Next, NodeStep, Stopping, Executing

\* Whoever makes a statement fail has to report it.
LEMMA FailureIsTakenUp ==
    ASSUME TypeOK, [Next]_vars, NEW f \in Files, status[f] # "failed", status'[f] = "failed"
    PROVE  \E r \in Runs : Reporting(r, f)'
  <1> USE DEF TypeOK, At
  <1>1. \E r \in Runs : MarkVerified(r) \/ MarkProcessed(r)
    <2>1. CASE Stopping \/ \E r \in Runs : Executing(r) \/ SaveCheckpoint(r)
      BY <2>1, StoppingMeans, ExecutingMeans DEF SaveCheckpoint, db
    <2>2. ASSUME NEW r \in Runs, NodeStep(r), ~PersistConflict(r)
          PROVE  MarkVerified(r) \/ MarkProcessed(r)
      BY <2>2 DEF NodeStep, ListNewFiles, DedupeCheck, PersistFiles, MoveCursorOnly,
             ReturnsStored, ReadPending, CheckDuplicate, ParseStatements,
             PersistTransactions, ReadVerified, CheckBalance, RuleMatch,
             PauseForReview, PersistCategories, SendAlert, Finish, Reads, db
    <2>3. QED
      BY <2>1, <2>2 DEF Next, NodeStep, Stopping, Executing, vars, Upload, db
  <1>2. PICK r \in Runs : MarkVerified(r) \/ MarkProcessed(r)
    BY <1>1
  <1>3. f \in found[r] \ picked[r] /\ at[r] \in Checks /\ mode[r] = "running"
        /\ Leaves(r, Details(r))
    BY <1>2 DEF MarkVerified, MarkProcessed, Checks
  <1>4. Route(r) = "alert_immediate" /\ f \in Details(r)
    BY <1>3 DEF Route, Details, Checks
  <1>5. Reporting(r, f)'
    BY <1>3, <1>4 DEF Leaves, Reporting, Names, Details, Checks
  <1>6. QED
    BY <1>5

LEMMA FailureReportedNext ==
    ASSUME TypeOK, RestInv, FailureIsReported, [Next]_vars
    PROVE  FailureIsReported'
  <1> SUFFICES ASSUME NEW f \in Files, status'[f] = "failed"
               PROVE  f \in alerted' \/ \E r \in Runs : Reporting(r, f)'
    BY DEF FailureIsReported, Reporting
  <1>1. CASE status[f] = "failed"
    BY <1>1, ReportingStays, AlertsStay DEF FailureIsReported, Reporting
  <1>2. CASE status[f] # "failed"
    BY <1>2, FailureIsTakenUp
  <1>3. QED
    BY <1>1, <1>2

\* Every failed statement is in an alert mail, or a run that is not through will name it,
\* even if runs overlap, nodes fail, commits are lost and the backend restarts.
THEOREM FailureReported == Spec => []FailureIsReported
  <1>1. Init => FailureIsReported
    BY DEF Init, FailureIsReported
  <1>2. QED
    BY <1>1, RestInvariant, FailureReportedNext, PTL DEF Spec

=============================================================================
