------------------------- MODULE CategorizationProofs -------------------------
(***************************************************************************)
(* Machine-checked proofs about Categorization, for any number of          *)
(* transactions, categories and runs.                                      *)
(***************************************************************************)
EXTENDS Categorization, TLAPS

LEMMA InitTypeOK == Init => TypeOK
  BY CategorizationBounds
     DEF Init, TypeOK, Sources, Levels, Reviews, Modes, Nodes, Items, Unmatched, NoItems,
         Checkpoints, Rows, NewRow, NoRows, NoRules

LEMMA NothingRead ==
    /\ NoRows \in [Txns -> Rows]
    /\ NoRules \in [Keys -> Categories \cup {None}]
  BY DEF NoRows, NewRow, Rows, NoRules, Sources, Levels, Reviews

LEMMA UnmatchedType == Unmatched \in Items
  BY DEF Unmatched, Items, Sources, Levels, Reviews

LEMMA RuleItemType == ASSUME NEW c \in Categories PROVE RuleItem(c) \in Items
  BY CategoriesAssumption DEF RuleItem, Items, Sources, Levels, Reviews

LEMMA ClassifiedType ==
    ASSUME NEW item \in Items, NEW answer \in Answers
    PROVE  Classified(item, answer) \in Items
  BY CategoriesAssumption DEF Classified, Answers, Items, Sources, Levels, Reviews

LEMMA GatedType == ASSUME NEW item \in Items PROVE Gated(item) \in Items
  BY DEF Gated, Items, Reviews

LEMMA DecidedType ==
    ASSUME NEW item \in Items, NEW name \in Names
    PROVE  Decided(item, name) \in Items
  BY DEF Decided, Items, Sources, Reviews

LEMMA StoredType ==
    ASSUME NEW item \in Items PROVE Stored(item) \in Categories \cup {None}
  BY DEF Stored, Items

\* Replacing items by items gives items.
LEMMA UpdatedType ==
    ASSUME TypeOK, NEW r \in Runs, NEW update,
           \A t \in DOMAIN update : t \in Txns => update[t] \in Items
    PROVE  Updated(r, update) \in [Txns -> Items]
  BY DEF TypeOK, Updated

LEMMA CheckpointType == ASSUME TypeOK, NEW r \in Runs PROVE Checkpoint(r) \in Checkpoints
  BY DEF TypeOK, Checkpoint, Checkpoints, Nodes

LEMMA EndedType == ASSUME TypeOK, NEW r \in Runs PROVE Ended(r) \in Checkpoints
  BY DEF TypeOK, Ended, Checkpoints, Nodes

LEMMA PersistType == ASSUME TypeOK, NEW r \in Runs, PersistCategory(r) PROVE TypeOK'
  <1> USE DEF TypeOK, PersistCategory, faults
  <1>1. \A t \in Txns : /\ items[r][t] \in Items
                        /\ Stored(items[r][t]) \in Categories \cup {None}
    BY StoredType
  <1>2. /\ review' \in [Txns -> Reviews] /\ category' \in [Txns -> Categories \cup {None}]
        /\ source' \in [Txns -> Sources] /\ confidence' \in [Txns -> Levels]
    BY <1>1 DEF Items, Assigned
  <1>3. rules' \in [Keys -> Categories \cup {None}]
    BY <1>1 DEF Learns, Writes, LearnedKeys
  <1>4. QED
    BY <1>2, <1>3, NothingRead, EndedType DEF Nodes

LEMMA NextTypeOK == TypeOK /\ [Next]_vars => TypeOK'
  <1> SUFFICES ASSUME TypeOK, [Next]_vars PROVE TypeOK'
    OBVIOUS
  <1> USE CategorizationBounds DEF TypeOK, rows, graph, faults
  <1>1. CASE UNCHANGED vars
    BY <1>1 DEF vars
  <1>2. CASE Crash
    <2>1. PICK lost \in SUBSET Runs :
            LET back == {r \in Runs : mode[r] = "running"}
                last == [r \in Runs |-> IF r \in lost THEN Ended(r) ELSE saved[r]]
            IN  /\ mode' = [r \in Runs |-> IF r \in back THEN "stopped" ELSE mode[r]]
                /\ node' = [r \in Runs |-> IF r \in back THEN last[r].node ELSE node[r]]
                /\ batch' = [r \in Runs |-> IF r \in back THEN last[r].batch ELSE batch[r]]
                /\ items' = [r \in Runs |-> IF r \in back THEN last[r].items ELSE items[r]]
                /\ read' = [r \in Runs |-> IF r \in back THEN NoRows ELSE read[r]]
                /\ known' = [r \in Runs |-> IF r \in back THEN NoRules ELSE known[r]]
                /\ saved' = last
      BY <1>2 DEF Crash
    <2> DEFINE last == [r \in Runs |-> IF r \in lost THEN Ended(r) ELSE saved[r]]
    <2>2. \A r \in Runs : last[r] \in Checkpoints
      BY EndedType
    <2>3. last \in [Runs -> Checkpoints]
      BY <2>2
    <2> HIDE DEF last
    <2>4. \A r \in Runs : /\ last[r].node \in Nodes /\ last[r].batch \in SUBSET Txns
                           /\ last[r].items \in [Txns -> Items]
      BY <2>2 DEF Checkpoints
    <2>5. /\ node' \in [Runs -> Nodes] /\ batch' \in [Runs -> SUBSET Txns]
          /\ items' \in [Runs -> [Txns -> Items]] /\ saved' \in [Runs -> Checkpoints]
      BY <2>1, <2>3, <2>4 DEF last
    <2>6. QED
      BY <1>2, <2>1, <2>5, NothingRead DEF Crash, Modes
  <1>3. ASSUME NEW t \in Txns, Extract(t) PROVE TypeOK'
    BY <1>3 DEF Extract
  <1>4. ASSUME NEW r \in Runs, Enter(r) \/ Resume(r) PROVE TypeOK'
    BY <1>4 DEF Enter, Resume, Modes
  <1>5. ASSUME NEW r \in Runs, AnswerReview(r) PROVE TypeOK'
    <2>1. PICK some \in SUBSET NeedsReview(r) : \E decisions \in [some -> Names] :
            items' = [items EXCEPT ![r] =
                        Updated(r, [t \in some |-> Decided(items[r][t], decisions[t])])]
      BY <1>5 DEF AnswerReview
    <2>2. PICK decisions \in [some -> Names] :
            items' = [items EXCEPT ![r] =
                        Updated(r, [t \in some |-> Decided(items[r][t], decisions[t])])]
      BY <2>1
    <2>3. Updated(r, [t \in some |-> Decided(items[r][t], decisions[t])]) \in [Txns -> Items]
      <3>1. \A t \in some : t \in Txns /\ items[r][t] \in Items /\ decisions[t] \in Names
        BY DEF NeedsReview
      <3>2. \A t \in some : Decided(items[r][t], decisions[t]) \in Items
        BY <3>1, DecidedType
      <3> DEFINE update == [t \in some |-> Decided(items[r][t], decisions[t])]
      <3>3. \A t \in DOMAIN update : update[t] \in Items
        BY <3>2
      <3> HIDE DEF update
      <3>4. Updated(r, update) \in [Txns -> Items]
        BY <3>3, UpdatedType
      <3>5. QED
        BY <3>4 DEF update
    <2>4. items' \in [Runs -> [Txns -> Items]]
      BY <2>2, <2>3
    <2>5. QED
      BY <1>5, <2>4 DEF AnswerReview, Modes, Nodes
  <1>6. ASSUME NEW r \in Runs, SaveCheckpoint(r) PROVE TypeOK'
    BY <1>6, CheckpointType DEF SaveCheckpoint
  <1>7. ASSUME NEW r \in Runs, NodeFails(r) \/ RuleConflict(r) PROVE TypeOK'
    <2>1. Stops(r) /\ crashes' = crashes /\ failures' \in 0..MaxFailures
      BY <1>7 DEF NodeFails, RuleConflict
    <2>2. Checkpoint(r) \in Checkpoints /\ Checkpoint(r).node \in Nodes
      BY CheckpointType DEF Checkpoints
    <2>3. QED
      BY <2>1, <2>2, NothingRead DEF Stops, Modes
  <1>7a. ASSUME NEW r \in Runs, CommitFails(r) PROVE TypeOK'
    BY <1>7a, NothingRead, EndedType DEF CommitFails, Modes, Nodes
  <1>8. ASSUME NEW r \in Runs, SelectUncategorised(r) PROVE TypeOK'
    BY <1>8 DEF SelectUncategorised, Nodes
  <1>9. ASSUME NEW r \in Runs, MatchRules(r) PROVE TypeOK'
    <2> DEFINE matched == {t \in batch[r] : rules[KeyOf[t]] # None}
               new == Updated(r, [t \in matched |-> RuleItem(rules[KeyOf[t]])])
    <2>1. new \in [Txns -> Items]
      BY UpdatedType, RuleItemType, CategoriesAssumption
    <2>2. items' = [items EXCEPT ![r] = new] /\ node' = [node EXCEPT ![r] = "llm_classify"]
          /\ UNCHANGED <<mode, batch, read, known, saved, settled, rows, faults>>
      BY <1>9 DEF MatchRules, Returns
    <2>3. QED
      BY <2>1, <2>2 DEF Nodes
  <1>10. ASSUME NEW r \in Runs, LlmClassify(r) PROVE TypeOK'
    <2>1. PICK open \in SUBSET batch[r] : \E answer \in [open -> Answers] :
            Returns(r, Updated(r, [t \in open |-> Classified(items[r][t], answer[t])]),
                    "confidence_gate")
      BY <1>10 DEF LlmClassify
    <2>2. PICK answer \in [open -> Answers] :
            Returns(r, Updated(r, [t \in open |-> Classified(items[r][t], answer[t])]),
                    "confidence_gate")
      BY <2>1
    <2>3. Updated(r, [t \in open |-> Classified(items[r][t], answer[t])]) \in [Txns -> Items]
      <3>1. \A t \in open : items[r][t] \in Items /\ answer[t] \in Answers
        BY <2>1, <2>2
      <3>2. \A t \in open : Classified(items[r][t], answer[t]) \in Items
        BY <3>1, ClassifiedType
      <3> DEFINE update == [t \in open |-> Classified(items[r][t], answer[t])]
      <3>3. \A t \in DOMAIN update : update[t] \in Items
        BY <3>2
      <3> HIDE DEF update
      <3>4. Updated(r, update) \in [Txns -> Items]
        BY <3>3, UpdatedType
      <3>5. QED
        BY <3>4 DEF update
    <2>4. QED
      BY <2>2, <2>3 DEF Returns, Nodes
  <1>11. ASSUME NEW r \in Runs, ConfidenceGate(r) PROVE TypeOK'
    <2>1. \A t \in batch[r] : Gated(items[r][t]) \in Items
      BY GatedType
    <2>2. Updated(r, [t \in batch[r] |-> Gated(items[r][t])]) \in [Txns -> Items]
      BY <2>1, UpdatedType
    <2>3. QED
      BY <1>11, <2>2 DEF ConfidenceGate, Returns, Nodes
  <1>12. ASSUME NEW r \in Runs, NothingToReview(r) PROVE TypeOK'
    BY <1>12 DEF NothingToReview, Returns, Nodes
  <1>13. ASSUME NEW r \in Runs, Interrupt(r) PROVE TypeOK'
    BY <1>13 DEF Interrupt, Modes, Checkpoints
  <1>14. ASSUME NEW r \in Runs, LookUp(r) PROVE TypeOK'
    BY <1>14 DEF LookUp, Nodes, Rows, NewRow, Sources, Levels, Reviews
  <1>15. ASSUME NEW r \in Runs, Finish(r) PROVE TypeOK'
    BY <1>15, CheckpointType DEF Finish, Modes
  <1>16. QED
    BY <1>1, <1>2, <1>3, <1>4, <1>5, <1>6, <1>7, <1>7a, <1>8, <1>9, <1>10, <1>11, <1>12,
       <1>13, <1>14, <1>15, PersistType DEF Next, NodeStep

\* Every variable keeps its type in every interleaving.
THEOREM TypeCorrect == Spec => []TypeOK
  BY InitTypeOK, NextTypeOK, PTL DEF Spec

-----------------------------------------------------------------------------
(***************************************************************************)
(* What an item may claim.  It holds for the items of a run and for those  *)
(* of its checkpoint, from which the run may go on much later.             *)
(***************************************************************************)
Sound(item) ==
    /\ item.review = "auto" => /\ item.source \in {"rule", "llm"}
                              /\ item.confidence = "high"
                              /\ item.category # None
    /\ item.source = "llm" /\ item.confidence = "high" => item.category # None
    /\ item.review = "confirmed" => item.source = "manual" /\ item.name # None

Unanswered(item) == item.category = None => item.review = "needs_review"

BeforeGate == {"rule_match", "matching", "llm_classify"}

ItemsSound ==
    \A r \in Runs, t \in Txns :
        /\ Sound(items[r][t]) /\ Sound(saved[r].items[t])
        /\ node[r] \in BeforeGate => Unanswered(items[r][t])
        /\ saved[r].node \in BeforeGate => Unanswered(saved[r].items[t])

LEMMA UnmatchedSound == Sound(Unmatched) /\ Unanswered(Unmatched)
  BY DEF Unmatched, Sound, Unanswered

LEMMA RuleItemSound ==
    ASSUME NEW c \in Categories PROVE Sound(RuleItem(c)) /\ Unanswered(RuleItem(c))
  BY CategoriesAssumption DEF RuleItem, Sound, Unanswered

LEMMA ClassifiedSound ==
    ASSUME NEW item \in Items, NEW answer \in Answers, item.category = None,
           Unanswered(item)
    PROVE  Sound(Classified(item, answer))
  BY CategoriesAssumption DEF Classified, Sound, Unanswered, Items, Answers

LEMMA GatedSound ==
    ASSUME NEW item \in Items, Sound(item) PROVE Sound(Gated(item))
  BY DEF Gated, Sound, Items

LEMMA DecidedSound ==
    ASSUME NEW item \in Items, NEW name \in Names PROVE Sound(Decided(item, name))
  BY CategoriesAssumption DEF Decided, Sound, Items

\* A step that changes no item, and takes no run back before the gate.
LEMMA ItemsSoundFrame ==
    ASSUME TypeOK, ItemsSound,
           \A r \in Runs :
              /\ items'[r] \in {items[r], saved[r].items}
              /\ node'[r] \in BeforeGate =>
                   \/ items'[r] = items[r] /\ node[r] \in BeforeGate
                   \/ items'[r] = saved[r].items /\ saved[r].node \in BeforeGate
              /\ saved'[r].items \in {items[r], saved[r].items}
              /\ saved'[r].node \in BeforeGate =>
                   \/ saved'[r].items = items[r] /\ node[r] \in BeforeGate
                   \/ saved'[r].items = saved[r].items /\ saved[r].node \in BeforeGate
    PROVE  ItemsSound'
  BY DEF ItemsSound

\* A node of run r returns new items, all of them sound.
LEMMA ItemsSoundReturn ==
    ASSUME TypeOK, ItemsSound, NEW r \in Runs, NEW new, UNCHANGED saved,
           items' = [items EXCEPT ![r] = new],
           \A q \in Runs \ {r} : node'[q] = node[q],
           \A t \in Txns : Sound(new[t]),
           node'[r] \in BeforeGate => \A t \in Txns : Unanswered(new[t])
    PROVE  ItemsSound'
  BY DEF TypeOK, ItemsSound

LEMMA ItemsSoundNext == TypeOK /\ ItemsSound /\ [Next]_vars => ItemsSound'
  <1> SUFFICES ASSUME TypeOK, ItemsSound, [Next]_vars PROVE ItemsSound'
    OBVIOUS
  <1> DEFINE Quiet ==
        \A r \in Runs :
              /\ items'[r] \in {items[r], saved[r].items}
              /\ node'[r] \in BeforeGate =>
                   \/ items'[r] = items[r] /\ node[r] \in BeforeGate
                   \/ items'[r] = saved[r].items /\ saved[r].node \in BeforeGate
              /\ saved'[r].items \in {items[r], saved[r].items}
              /\ saved'[r].node \in BeforeGate =>
                   \/ saved'[r].items = items[r] /\ node[r] \in BeforeGate
                   \/ saved'[r].items = saved[r].items /\ saved[r].node \in BeforeGate
  <1>0. Quiet => ItemsSound'
    BY ItemsSoundFrame
  <1> HIDE DEF Quiet
  <1> USE DEF rows, graph, faults
  <1>1. CASE UNCHANGED vars
    <2>1. Quiet
      BY <1>1 DEF vars, Quiet
    <2>2. QED
      BY <2>1, <1>0
  <1>2. CASE Crash
    <2>1. Quiet
      BY <1>2 DEF Crash, Ended, At, Quiet, TypeOK, BeforeGate
    <2>2. QED
      BY <2>1, <1>0
  <1>3. CASE \E t \in Txns : Extract(t)
    <2>1. Quiet
      BY <1>3 DEF Extract, Quiet
    <2>2. QED
      BY <2>1, <1>0
  <1>4. ASSUME NEW r \in Runs, Enter(r) \/ Resume(r) PROVE ItemsSound'
    <2>1. Quiet
      BY <1>4 DEF Enter, Resume, Quiet
    <2>2. QED
      BY <2>1, <1>0
  <1>5. ASSUME NEW r \in Runs, AnswerReview(r) PROVE ItemsSound'
    <2>1. PICK some \in SUBSET NeedsReview(r) : \E decisions \in [some -> Names] :
            items' = [items EXCEPT ![r] =
                        Updated(r, [t \in some |-> Decided(items[r][t], decisions[t])])]
      BY <1>5 DEF AnswerReview
    <2>2. PICK decisions \in [some -> Names] :
            items' = [items EXCEPT ![r] =
                        Updated(r, [t \in some |-> Decided(items[r][t], decisions[t])])]
      BY <2>1
    <2>3. \A t \in Txns :
            Sound(Updated(r, [u \in some |-> Decided(items[r][u], decisions[u])])[t])
      BY DecidedSound DEF Updated, ItemsSound, TypeOK
    <2>4. node' = [node EXCEPT ![r] = "persist_category"] /\ saved' = saved
      BY <1>5 DEF AnswerReview
    <2>5. QED
      BY <2>2, <2>3, <2>4, ItemsSoundReturn DEF TypeOK, BeforeGate
  <1>6. ASSUME NEW r \in Runs, SaveCheckpoint(r) PROVE ItemsSound'
    <2>1. Quiet
      BY <1>6 DEF SaveCheckpoint, Checkpoint, Quiet, TypeOK, BeforeGate
    <2>2. QED
      BY <2>1, <1>0
  <1>7. ASSUME NEW r \in Runs, NodeFails(r) \/ RuleConflict(r) PROVE ItemsSound'
    <2>1. Stops(r)
      BY <1>7 DEF NodeFails, RuleConflict
    <2>2. Checkpoint(r).items = items[r]
          /\ (Checkpoint(r).node \in BeforeGate => node[r] \in BeforeGate)
      BY DEF Checkpoint, BeforeGate
    <2>3. Quiet
      BY <2>1, <2>2 DEF Stops, Quiet, TypeOK
    <2>4. QED
      BY <2>3, <1>0
  <1>8. ASSUME NEW r \in Runs, SelectUncategorised(r) PROVE ItemsSound'
    <2>1. Quiet
      BY <1>8 DEF SelectUncategorised, At, Quiet, TypeOK, BeforeGate
    <2>2. QED
      BY <2>1, <1>0
  <1>9. ASSUME NEW r \in Runs, MatchRules(r) PROVE ItemsSound'
    <2> DEFINE matched == {t \in batch[r] : rules[KeyOf[t]] # None}
               new == Updated(r, [t \in matched |-> RuleItem(rules[KeyOf[t]])])
    <2>1. items' = [items EXCEPT ![r] = new] /\ node' = [node EXCEPT ![r] = "llm_classify"]
          /\ saved' = saved /\ node[r] = "matching"
      BY <1>9 DEF MatchRules, Returns, At
    <2>2. \A t \in matched : rules[KeyOf[t]] \in Categories
      BY CategoriesAssumption DEF TypeOK
    <2>3. \A t \in Txns : Sound(new[t]) /\ Unanswered(new[t])
      BY <2>1, <2>2, RuleItemSound DEF Updated, ItemsSound, BeforeGate
    <2>4. QED
      BY <2>1, <2>3, ItemsSoundReturn DEF TypeOK
  <1>10. ASSUME NEW r \in Runs, LlmClassify(r) PROVE ItemsSound'
    <2>1. PICK open \in SUBSET {t \in batch[r] : items[r][t].category = None} :
            \E answer \in [open -> Answers] :
              Returns(r, Updated(r, [t \in open |-> Classified(items[r][t], answer[t])]),
                      "confidence_gate")
      BY <1>10 DEF LlmClassify
    <2>2. PICK answer \in [open -> Answers] :
            Returns(r, Updated(r, [t \in open |-> Classified(items[r][t], answer[t])]),
                    "confidence_gate")
      BY <2>1
    <2>3. node[r] = "llm_classify"
      BY <1>10 DEF LlmClassify, At
    <2>4. \A t \in Txns :
            Sound(Updated(r, [u \in open |-> Classified(items[r][u], answer[u])])[t])
      BY <2>3, ClassifiedSound DEF Updated, ItemsSound, TypeOK, BeforeGate
    <2>5. QED
      BY <2>2, <2>4, ItemsSoundReturn DEF Returns, TypeOK, BeforeGate
  <1>11. ASSUME NEW r \in Runs, ConfidenceGate(r) PROVE ItemsSound'
    <2>1. \A t \in Txns : Sound(Updated(r, [u \in batch[r] |-> Gated(items[r][u])])[t])
      BY GatedSound DEF Updated, ItemsSound, TypeOK
    <2>2. QED
      BY <1>11, <2>1, ItemsSoundReturn DEF ConfidenceGate, Returns, TypeOK, BeforeGate
  <1>12. ASSUME NEW r \in Runs, NothingToReview(r) \/ Finish(r) PROVE ItemsSound'
    <2>1. Quiet
      BY <1>12 DEF NothingToReview, Finish, Returns, At, Checkpoint, Quiet, TypeOK, BeforeGate
    <2>2. QED
      BY <2>1, <1>0
  <1>13. ASSUME NEW r \in Runs, Interrupt(r) PROVE ItemsSound'
    <2>1. Quiet
      BY <1>13 DEF Interrupt, At, Quiet, TypeOK, BeforeGate
    <2>2. QED
      BY <2>1, <1>0
  <1>14. ASSUME NEW r \in Runs, LookUp(r) \/ PersistCategory(r) \/ CommitFails(r)
         PROVE  ItemsSound'
    <2>1. /\ items' = items /\ \E n \in {"flush", "END"} : node' = [node EXCEPT ![r] = n]
          /\ saved' = saved \/ saved' = [saved EXCEPT ![r] = Ended(r)]
      BY <1>14 DEF LookUp, PersistCategory, CommitFails
    <2>2. Quiet
      BY <2>1 DEF Ended, Quiet, TypeOK, BeforeGate
    <2>3. QED
      BY <2>2, <1>0
  <1>15. QED
    BY <1>1, <1>2, <1>3, <1>4, <1>5, <1>6, <1>7, <1>8, <1>9, <1>10, <1>11, <1>12, <1>13,
       <1>14 DEF Next, NodeStep

LEMMA SoundInvariant == Spec => [](TypeOK /\ ItemsSound)
  <1>1. Init => ItemsSound
    BY UnmatchedSound DEF Init, NoItems, ItemsSound
  <1>2. QED
    BY <1>1, ItemsSoundNext, TypeCorrect, PTL DEF Spec

-----------------------------------------------------------------------------
(***************************************************************************)
(* What the rows claim.  Only the commit of persist_category writes them.  *)
(***************************************************************************)
LEMMA OnlyPersistWrites ==
    ASSUME [Next]_vars, ~\E r \in Runs : PersistCategory(r)
    PROVE  UNCHANGED <<category, source, confidence, review, rules>>
  BY DEF Next, NodeStep, vars, rows, Crash, Extract, Enter, AnswerReview, SaveCheckpoint,
         NodeFails, CommitFails, RuleConflict, Stops, Resume, SelectUncategorised, MatchRules,
         LlmClassify, ConfidenceGate, NothingToReview, Interrupt, LookUp, Finish,
         Returns

\* What one commit may do to the row of a transaction, however old its reads are.
LEMMA PersistRow ==
    ASSUME TypeOK, NEW r \in Runs, PersistCategory(r), NEW t \in Txns
    PROVE  /\ t \notin batch[r] => UNCHANGED <<category[t], source[t], confidence[t], review[t]>>
           /\ review'[t] \in {review[t], items[r][t].review}
           /\ \/ category'[t] = category[t]
              \/ category'[t] = Stored(items[r][t]) /\ t \in Writes(r)
           /\ t \in Writes(r) /\ Stored(items[r][t]) # read[r][t].category
                => category'[t] = Stored(items[r][t])
  <1>1. t \in Writes(r) => t \in batch[r]
    BY DEF Writes
  <1>2. /\ review'[t] = IF t \in batch[r] /\ items[r][t].review # read[r][t].review
                         THEN items[r][t].review ELSE review[t]
        /\ category'[t] = IF t \in Writes(r) /\ Stored(items[r][t]) # read[r][t].category
                           THEN Stored(items[r][t]) ELSE category[t]
    BY DEF PersistCategory, Assigned
  <1>3. t \notin Writes(r) => UNCHANGED <<source[t], confidence[t]>>
    BY DEF PersistCategory, Assigned
  <1>4. QED
    BY <1>1, <1>2, <1>3

LEMMA PersistKeeps ==
    ASSUME TypeOK, NEW r \in Runs, PersistCategory(r), NEW t \in Txns, category[t] # None
    PROVE  category'[t] # None
  BY PersistRow DEF Writes

(***************************************************************************)
(* What persist_category has read may be outdated, but neither a category  *)
(* nor a rule that it has seen has gone since.                             *)
(***************************************************************************)
ReadsBacked ==
    \A r \in Runs :
        /\ \A t \in Txns : read[r][t].category # None => category[t] # None
        /\ \A k \in Keys : known[r][k] # None => rules[k] # None

\* A commit leaves every rule in place and gives each decided item's key one.
LEMMA PersistRules ==
    ASSUME TypeOK, ReadsBacked, NEW r \in Runs, PersistCategory(r)
    PROVE  /\ \A k \in Keys : rules[k] # None => rules'[k] # None
           /\ \A t \in Learns(r) : rules'[KeyOf[t]] # None
  <1>1. \A t \in Learns(r) : KeyOf[t] \in Keys /\ Stored(items[r][t]) # None
    BY CategoriesAssumption DEF TypeOK, Learns, Writes
  <1>2. PICK last \in [LearnedKeys(r) -> Learns(r)] :
          rules' = [k \in Keys |-> IF k \in LearnedKeys(r)
                                   THEN Stored(items[r][last[k]]) ELSE rules[k]]
    BY DEF PersistCategory
  <1>3. \A t \in Learns(r) : KeyOf[t] \notin LearnedKeys(r) => rules[KeyOf[t]] # None
    BY <1>1 DEF LearnedKeys, ReadsBacked
  <1>4. QED
    BY <1>1, <1>2, <1>3

LEMMA ReadsBackedNext == TypeOK /\ ReadsBacked /\ [Next]_vars => ReadsBacked'
  <1> SUFFICES ASSUME TypeOK, ReadsBacked, [Next]_vars PROVE ReadsBacked'
    OBVIOUS
  <1>1. /\ \A t \in Txns : category[t] # None => category'[t] # None
        /\ \A k \in Keys : rules[k] # None => rules'[k] # None
    BY OnlyPersistWrites, PersistKeeps, PersistRules
  <1>2. ASSUME NEW r \in Runs, LookUp(r) PROVE ReadsBacked'
    <2>1. ASSUME NEW t \in Txns PROVE read'[r][t].category # None => category[t] # None
      BY <1>2 DEF LookUp, TypeOK, NewRow
    <2>2. known'[r] = rules /\ UNCHANGED <<category, rules>>
      BY <1>2 DEF LookUp, TypeOK, rows
    <2>3. \A q \in Runs \ {r} : read'[q] = read[q] /\ known'[q] = known[q]
      BY <1>2 DEF LookUp, TypeOK
    <2>4. QED
      BY <2>1, <2>2, <2>3 DEF ReadsBacked
  <1>3. ASSUME \A r \in Runs : \/ read'[r] = read[r] /\ known'[r] = known[r]
                               \/ read'[r] = NoRows /\ known'[r] = NoRules
        PROVE  ReadsBacked'
    BY <1>1, <1>3 DEF ReadsBacked, NoRows, NewRow, NoRules
  <1>4. ASSUME NEW r \in Runs,
               PersistCategory(r) \/ NodeFails(r) \/ RuleConflict(r) \/ CommitFails(r)
        PROVE  ReadsBacked'
    <2>1. read' = [read EXCEPT ![r] = NoRows] /\ known' = [known EXCEPT ![r] = NoRules]
      BY <1>4 DEF PersistCategory, NodeFails, RuleConflict, CommitFails, Stops
    <2>2. QED
      BY <2>1, <1>3 DEF TypeOK
  <1>5. CASE Crash
    BY <1>3, <1>5 DEF Crash
  <1>6. CASE UNCHANGED <<read, known>>
    BY <1>3, <1>6
  <1>7. QED
    BY <1>2, <1>4, <1>5, <1>6
       DEF Next, NodeStep, vars, graph, Extract, Enter, AnswerReview, SaveCheckpoint, Resume,
           SelectUncategorised, MatchRules, LlmClassify, ConfidenceGate, NothingToReview,
           Interrupt, Finish, Returns

LEMMA BackedInvariant == Spec => [](TypeOK /\ ItemsSound /\ ReadsBacked)
  <1>1. Init => ReadsBacked
    BY DEF Init, ReadsBacked, NoRows, NewRow, NoRules
  <1>2. QED
    BY <1>1, ReadsBackedNext, SoundInvariant, PTL DEF Spec

-----------------------------------------------------------------------------
(***************************************************************************)
(* Runs that execute one at a time: what persist_category has read is      *)
(* still in the table when it writes.                                      *)
(***************************************************************************)
RowOf(t) == [category |-> category[t], source |-> source[t],
             confidence |-> confidence[t], review |-> review[t]]

Fresh ==
    /\ \A q, r \in Runs : mode[q] = "running" /\ mode[r] = "running" => q = r
    /\ \A r \in Runs : saved[r].node # "flush"
    /\ \A r \in Runs : node[r] = "flush" =>
         mode[r] = "running" /\ \A t \in batch[r] : read[r][t] = RowOf(t)

LEMMA FreshFrame ==
    ASSUME Fresh, UNCHANGED rows,
           \A q, r \in Runs : mode'[q] = "running" /\ mode'[r] = "running" => q = r,
           \A r \in Runs : saved'[r].node # "flush",
           \A r \in Runs : node'[r] = "flush" =>
              /\ node[r] = "flush" /\ mode'[r] = mode[r]
              /\ batch'[r] = batch[r] /\ read'[r] = read[r]
    PROVE  Fresh'
  BY DEF Fresh, RowOf, rows

LEMMA FreshNext ==
    ASSUME Overlap = "paused", TypeOK, Fresh, [Next]_vars PROVE Fresh'
  <1> USE DEF TypeOK, rows, graph, faults
  <1>1. CASE UNCHANGED vars
    BY <1>1, FreshFrame DEF vars, Fresh
  <1>2. CASE Crash
    BY <1>2, FreshFrame DEF Crash, Ended, Fresh
  <1>3. CASE \E t \in Txns : Extract(t)
    BY <1>3 DEF Extract, Fresh, RowOf
  <1>4. ASSUME NEW r \in Runs, Enter(r) \/ Resume(r) \/ AnswerReview(r) PROVE Fresh'
    <2>1. CanExecute(r) /\ mode[r] # "running"
      BY <1>4 DEF Enter, Resume, AnswerReview
    <2>2. \A q \in Runs \ {r} : mode[q] # "running"
      BY <2>1 DEF CanExecute
    <2>3. /\ UNCHANGED <<rows, batch, read, saved>>
          /\ mode' = [mode EXCEPT ![r] = "running"]
          /\ node' = node \/ node' = [node EXCEPT ![r] = "persist_category"]
      BY <1>4 DEF Enter, Resume, AnswerReview
    <2>4. \A q \in Runs : node[q] # "flush"
      BY <2>1, <2>2 DEF Fresh
    <2>5. \A q \in Runs : node'[q] # "flush"
      BY <2>3, <2>4
    <2>6. QED
      BY <2>2, <2>3, <2>5, FreshFrame DEF Fresh
  <1>5. ASSUME NEW r \in Runs, SaveCheckpoint(r) \/ Finish(r) PROVE Fresh'
    <2>1. Checkpoint(r).node # "flush"
      BY DEF Checkpoint
    <2>2. QED
      BY <1>5, <2>1, FreshFrame DEF SaveCheckpoint, Finish, At, Fresh
  <1>6. ASSUME NEW r \in Runs, NodeFails(r) \/ RuleConflict(r) PROVE Fresh'
    <2>1. Checkpoint(r).node # "flush"
      BY DEF Checkpoint
    <2>2. QED
      BY <1>6, <2>1, FreshFrame DEF NodeFails, RuleConflict, Stops, Fresh
  <1>7. ASSUME NEW r \in Runs, SelectUncategorised(r) \/ Interrupt(r) PROVE Fresh'
    <2>1. CASE SelectUncategorised(r)
      <3>1. /\ UNCHANGED <<rows, read, saved, mode>> /\ node[r] = "rule_match"
            /\ node' = [node EXCEPT ![r] = "matching"] /\ mode[r] = "running"
            /\ \A q \in Runs \ {r} : batch'[q] = batch[q]
        BY <2>1 DEF SelectUncategorised, At
      <3>2. QED
        BY <3>1, FreshFrame DEF Fresh
    <2>2. CASE Interrupt(r)
      <3>1. /\ UNCHANGED <<rows, read, batch, node>> /\ node[r] = "human_review"
            /\ mode' = [mode EXCEPT ![r] = "paused"] /\ mode[r] = "running"
            /\ \A q \in Runs \ {r} : saved'[q] = saved[q]
            /\ saved'[r].node = "human_review"
        BY <2>2 DEF Interrupt, At
      <3>2. QED
        BY <3>1, FreshFrame DEF Fresh
    <2>3. QED
      BY <1>7, <2>1, <2>2
  <1>8. ASSUME NEW r \in Runs, NEW new, NEW next \in Nodes, Returns(r, new, next),
               next # "flush", mode[r] = "running"
        PROVE  Fresh'
    BY <1>8, FreshFrame DEF Returns, Fresh
  <1>9. ASSUME NEW r \in Runs,
               MatchRules(r) \/ LlmClassify(r) \/ ConfidenceGate(r) \/ NothingToReview(r)
        PROVE  Fresh'
    <2>1. mode[r] = "running" /\ \E new : \E next \in Nodes :
                                   Returns(r, new, next) /\ next # "flush"
      BY <1>9 DEF MatchRules, LlmClassify, ConfidenceGate, NothingToReview, At, Nodes
    <2>2. QED
      BY <1>8, <2>1
  <1>10. ASSUME NEW r \in Runs, LookUp(r) PROVE Fresh'
    BY <1>10 DEF LookUp, At, Fresh, RowOf
  <1>11. ASSUME NEW r \in Runs, PersistCategory(r) \/ CommitFails(r) PROVE Fresh'
    <2>1. \A q \in Runs : node[q] = "flush" => q = r
      BY <1>11 DEF PersistCategory, CommitFails, At, Fresh
    <2>2. /\ node' = [node EXCEPT ![r] = "END"] /\ saved' = [saved EXCEPT ![r] = Ended(r)]
          /\ \A q \in Runs : mode'[q] = "running" => mode[q] = "running"
      BY <1>11 DEF PersistCategory, CommitFails
    <2>3. \A q \in Runs : node'[q] # "flush"
      BY <2>1, <2>2
    <2>4. \A q \in Runs : saved'[q].node # "flush"
      BY <2>2 DEF Ended, Fresh
    <2>5. QED
      BY <2>2, <2>3, <2>4 DEF Fresh
  <1>12. QED
    BY <1>1, <1>2, <1>3, <1>4, <1>5, <1>6, <1>7, <1>9, <1>10, <1>11 DEF Next, NodeStep

\* A commit that has read what it overwrites stores its items as they are.
LEMMA PersistFresh ==
    ASSUME TypeOK, Fresh, NEW r \in Runs, PersistCategory(r), NEW t \in batch[r]
    PROVE  /\ review'[t] = items[r][t].review
           /\ Stored(items[r][t]) # None => /\ category'[t] = Stored(items[r][t])
                                            /\ source'[t] = items[r][t].source
                                            /\ confidence'[t] = items[r][t].confidence
  <1>1. t \in Txns /\ read[r][t] = RowOf(t)
    BY DEF TypeOK, PersistCategory, At, Fresh
  <1>2. review'[t] = IF items[r][t].review # read[r][t].review
                     THEN items[r][t].review ELSE review[t]
    BY <1>1 DEF PersistCategory, Assigned
  <1>3. Stored(items[r][t]) # None =>
          /\ category'[t] = IF Stored(items[r][t]) # read[r][t].category
                            THEN Stored(items[r][t]) ELSE category[t]
          /\ source'[t] = IF items[r][t].source # read[r][t].source
                          THEN items[r][t].source ELSE source[t]
          /\ confidence'[t] = IF items[r][t].confidence # read[r][t].confidence
                              THEN items[r][t].confidence ELSE confidence[t]
    BY <1>1 DEF PersistCategory, Writes, Assigned
  <1>4. QED
    BY <1>1, <1>2, <1>3 DEF RowOf

LEMMA AutoNext ==
    ASSUME TypeOK, ItemsSound, Fresh, AutoIsConfident, [Next]_vars PROVE AutoIsConfident'
  <1>1. CASE ~\E r \in Runs : PersistCategory(r)
    BY <1>1, OnlyPersistWrites DEF AutoIsConfident
  <1>2. ASSUME NEW r \in Runs, PersistCategory(r), NEW t \in Txns,
               category'[t] # None, review'[t] = "auto"
        PROVE  source'[t] \in {"rule", "llm"} /\ confidence'[t] = "high"
    <2>1. CASE t \notin batch[r]
      BY <1>2, <2>1, PersistRow DEF AutoIsConfident
    <2>2. CASE t \in batch[r]
      <3>1. items[r][t].review = "auto" /\ items[r][t].category # None
        BY <1>2, <2>2, PersistFresh DEF ItemsSound, Sound
      <3>2. Stored(items[r][t]) # None
        BY <3>1 DEF Stored
      <3>3. QED
        BY <1>2, <2>2, <3>1, <3>2, PersistFresh DEF ItemsSound, Sound
    <2>3. QED
      BY <2>1, <2>2
  <1>3. QED
    BY <1>1, <1>2 DEF AutoIsConfident

\* If runs execute one at a time, however many of them are paused or cut off with an
\* old snapshot: a category that counts as automatic comes from a rule or from a
\* confident answer of the model.
THEOREM AutoConfident ==
    ASSUME Overlap = "paused" PROVE Spec => []AutoIsConfident
  <1>1. Init => Fresh /\ AutoIsConfident
    BY DEF Init, Fresh, AutoIsConfident, NewRow
  <1>2. TypeOK /\ Fresh /\ [Next]_vars => Fresh'
    BY FreshNext
  <1>3. QED
    BY <1>1, <1>2, AutoNext, SoundInvariant, PTL DEF Spec

LEMMA LearnedNext ==
    ASSUME Names = Categories, TypeOK, ItemsSound, ReadsBacked, ConfirmedIsLearned,
           [Next]_vars
    PROVE  ConfirmedIsLearned'
  <1>1. CASE ~\E r \in Runs : PersistCategory(r)
    BY <1>1, OnlyPersistWrites DEF ConfirmedIsLearned
  <1>2. ASSUME NEW r \in Runs, PersistCategory(r), NEW t \in Txns, review'[t] = "confirmed"
        PROVE  category'[t] # None /\ rules'[KeyOf[t]] # None
    <2>0. KeyOf[t] \in Keys
      BY CategoriesAssumption
    <2>1. CASE review[t] = "confirmed"
      BY <1>2, <2>0, <2>1, PersistKeeps, PersistRules DEF ConfirmedIsLearned
    <2>2. CASE review[t] # "confirmed"
      <3>1. t \in batch[r] /\ items[r][t].review = "confirmed"
        BY <1>2, <2>2, PersistRow
      <3>2. items[r][t].source = "manual" /\ items[r][t].name \in Categories
        BY <3>1 DEF ItemsSound, Sound, TypeOK, Items
      <3>3. Stored(items[r][t]) # None
        BY <3>2, CategoriesAssumption DEF Stored
      <3>4. t \in Learns(r) /\ t \in Writes(r)
        BY <3>1, <3>2, <3>3 DEF Learns, Writes
      <3>5. category'[t] # None
        BY <1>2, <3>3, <3>4, PersistRow, PersistKeeps DEF ReadsBacked
      <3>6. QED
        BY <1>2, <3>4, <3>5, PersistRules
    <2>3. QED
      BY <2>1, <2>2
  <1>3. QED
    BY <1>1, <1>2 DEF ConfirmedIsLearned

\* If decisions name existing categories: a confirmed transaction has a category and
\* its key a rule, whatever overlaps, conflicts or crashes.
THEOREM ConfirmedLearned ==
    ASSUME Names = Categories PROVE Spec => []ConfirmedIsLearned
  <1>1. Init => ConfirmedIsLearned
    BY DEF Init, ConfirmedIsLearned, NewRow
  <1>2. TypeOK /\ ItemsSound /\ ReadsBacked /\ ConfirmedIsLearned /\ [Next]_vars
            => ConfirmedIsLearned'
    BY LearnedNext
  <1>3. QED
    BY <1>1, <1>2, BackedInvariant, PTL DEF Spec

\* No commit takes a category away, from however old a snapshot it writes.
THEOREM CategoryStays == Spec => CategorisedStays
  <1> DEFINE Keeps == \A t \in Txns : category[t] # None => category'[t] # None
  <1>1. TypeOK /\ [Next]_vars => [Keeps]_vars
    BY OnlyPersistWrites, PersistKeeps
  <1>2. Spec => [][Keeps]_vars
    BY <1>1, TypeCorrect, PTL DEF Spec
  <1>3. QED
    BY <1>2 DEF CategorisedStays

-----------------------------------------------------------------------------
(***************************************************************************)
(* A run never holds what had been confirmed when it started: that has a   *)
(* category, which no run takes away, and is therefore not selected.       *)
(***************************************************************************)
Apart ==
    \A r \in Runs :
        /\ mode[r] = "new" => batch[r] = {} /\ saved[r].batch = {}
        /\ \A t \in settled[r] : /\ category[t] # None
                                 /\ t \notin batch[r] /\ t \notin saved[r].batch

\* A step that starts no run and gives no run rows it does not have in a checkpoint.
LEMMA ApartFrame ==
    ASSUME TypeOK, Apart, settled' = settled,
           \A t \in Txns : category[t] # None => category'[t] # None,
           \A r \in Runs :
              /\ mode'[r] = "new" => mode[r] = "new"
              /\ batch'[r] \in {batch[r], saved[r].batch}
              /\ saved'[r].batch \in {batch[r], saved[r].batch}
    PROVE  Apart'
  BY DEF TypeOK, Apart

LEMMA ApartNext ==
    ASSUME TypeOK, ConfirmedIsLearned, Apart, [Next]_vars PROVE Apart'
  <1> USE DEF TypeOK, rows, graph, faults
  <1>1. \A t \in Txns : category[t] # None => category'[t] # None
    BY OnlyPersistWrites, PersistKeeps
  <1>2. CASE UNCHANGED vars
    BY <1>1, <1>2, ApartFrame DEF vars
  <1>3. CASE Crash
    BY <1>1, <1>3, ApartFrame DEF Crash, Ended
  <1>4. CASE \E t \in Txns : Extract(t)
    BY <1>1, <1>4, ApartFrame DEF Extract
  <1>5. ASSUME NEW r \in Runs, Enter(r) PROVE Apart'
    <2>1. /\ batch[r] = {} /\ saved[r].batch = {} /\ mode'[r] = "running"
          /\ settled'[r] = {t \in Txns : review[t] = "confirmed"}
          /\ \A q \in Runs \ {r} : settled'[q] = settled[q] /\ mode'[q] = mode[q]
          /\ UNCHANGED <<batch, saved, category>>
      BY <1>5 DEF Enter, Apart
    <2>2. \A t \in settled'[r] : category[t] # None
      BY <2>1 DEF ConfirmedIsLearned
    <2>3. QED
      BY <2>1, <2>2 DEF Apart
  <1>6. ASSUME NEW r \in Runs, Resume(r) \/ AnswerReview(r) \/ LookUp(r) PROVE Apart'
    <2>1. UNCHANGED <<settled, batch, saved>> /\ \A q \in Runs : mode'[q] = "new" => mode[q] = "new"
      BY <1>6 DEF Resume, AnswerReview, LookUp
    <2>2. QED
      BY <1>1, <2>1, ApartFrame
  <1>6a. ASSUME NEW r \in Runs, \/ SaveCheckpoint(r) \/ Finish(r) \/ Interrupt(r)
                               \/ PersistCategory(r) \/ CommitFails(r)
         PROVE  Apart'
    <2>1. /\ UNCHANGED <<settled, batch>> /\ \A q \in Runs \ {r} : saved'[q] = saved[q]
          /\ saved'[r].batch = batch[r]
      BY <1>6a DEF SaveCheckpoint, Finish, Interrupt, PersistCategory, CommitFails,
                   Checkpoint, Ended
    <2>2. \A q \in Runs : mode'[q] = "new" => mode[q] = "new"
      BY <1>6a DEF SaveCheckpoint, Finish, Interrupt, PersistCategory, CommitFails
    <2>3. QED
      BY <1>1, <2>1, <2>2, ApartFrame
  <1>7. ASSUME NEW r \in Runs, NodeFails(r) \/ RuleConflict(r) PROVE Apart'
    <2>1. /\ settled' = settled /\ batch' = batch
          /\ \A q \in Runs : /\ saved'[q].batch \in {batch[q], saved[q].batch}
                             /\ mode'[q] = "new" => mode[q] = "new"
      BY <1>7 DEF NodeFails, RuleConflict, Stops, Checkpoint
    <2>2. QED
      BY <1>1, <2>1, ApartFrame
  <1>8. ASSUME NEW r \in Runs, SelectUncategorised(r) PROVE Apart'
    <2>1. /\ batch'[r] = {t \in present : category[t] = None} /\ mode[r] = "running"
          /\ \A q \in Runs \ {r} : batch'[q] = batch[q]
          /\ UNCHANGED <<settled, saved, mode, category>>
      BY <1>8 DEF SelectUncategorised, At
    <2>2. QED
      BY <2>1 DEF Apart
  <1>9. ASSUME NEW r \in Runs,
               MatchRules(r) \/ LlmClassify(r) \/ ConfidenceGate(r) \/ NothingToReview(r)
        PROVE  Apart'
    <2>1. UNCHANGED <<settled, batch, saved, mode>>
      BY <1>9 DEF MatchRules, LlmClassify, ConfidenceGate, NothingToReview, Returns
    <2>2. QED
      BY <1>1, <2>1, ApartFrame
  <1>10. QED
    BY <1>2, <1>3, <1>4, <1>5, <1>6, <1>6a, <1>7, <1>8, <1>9 DEF Next, NodeStep

LEMMA ConfirmationStep ==
    ASSUME TypeOK, Apart, [Next]_vars, NEW r \in Runs, NEW t \in settled[r],
           At(r, "flush"), node'[r] = "END"
    PROVE  review'[t] = review[t] /\ category'[t] = category[t]
  <1>1. CASE ~\E q \in Runs : PersistCategory(q)
    BY <1>1, OnlyPersistWrites
  <1>2. ASSUME NEW q \in Runs, PersistCategory(q)
        PROVE  review'[t] = review[t] /\ category'[t] = category[t]
    <2>1. q = r
      BY <1>2 DEF PersistCategory, At, TypeOK
    <2>2. t \in Txns /\ t \notin batch[r]
      BY DEF Apart, TypeOK
    <2>3. QED
      BY <1>2, <2>1, <2>2, PersistRow
  <1>3. QED
    BY <1>1, <1>2

\* If decisions name existing categories, a run never changes what a person had
\* confirmed when it started: whatever interleaves, with any failures and restarts.
THEOREM ConfirmedForGood ==
    ASSUME Names = Categories PROVE Spec => ConfirmationStands
  <1> DEFINE Stands == \A r \in Runs, t \in Txns :
                          At(r, "flush") /\ node'[r] = "END" /\ t \in settled[r] =>
                              review'[t] = review[t] /\ category'[t] = category[t]
  <1>1. Init => Apart
    BY DEF Init, Apart
  <1>2. TypeOK /\ ConfirmedIsLearned /\ Apart /\ [Next]_vars => Apart'
    BY ApartNext
  <1>3. TypeOK /\ Apart /\ [Next]_vars => [Stands]_vars
    BY ConfirmationStep
  <1>4. Spec => [][Stands]_vars
    BY <1>1, <1>2, <1>3, TypeCorrect, ConfirmedLearned, PTL DEF Spec
  <1>5. QED
    BY <1>4 DEF ConfirmationStands

=============================================================================
