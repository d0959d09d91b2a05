---------------------------- MODULE Categorization ----------------------------
(***************************************************************************)
(* The categorization subgraph: every transaction without a category gets  *)
(* one from a learned rule, from the language model, or from a person, and *)
(* a person's answer becomes a rule.                                       *)
(*                                                                         *)
(* The subgraph works on a snapshot: rule_match copies the uncategorised   *)
(* rows into `items`, and persist_category writes the items back, in the   *)
(* same run but, if human_review pauses it, perhaps weeks later.  Other    *)
(* runs may have taken the same rows meanwhile; a resumed run continues    *)
(* from its own checkpoint and never selects again.                        *)
(*                                                                         *)
(* A category is identified with its name.  Of a confidence only its place *)
(* with respect to the threshold 0.85 is kept.                             *)
(***************************************************************************)
EXTENDS Integers, FiniteSets

CONSTANTS
    Txns,        \* transaction ids
    Keys,        \* match keys: lowercased counterparty or description
    KeyOf,       \* transaction -> its match key
    Categories,  \* rows of CATEGORIES
    Names,       \* names a decision may hold
    None,        \* NULL
    Runs,        \* thread ids
    Overlap,     \* "paused" or "free": see CanExecute
    MaxFailures, \* bound: exceptions inside the subgraph
    MaxCrashes   \* bound: restarts of the backend process

ASSUME CategoriesAssumption ==
    /\ IsFiniteSet(Txns) /\ KeyOf \in [Txns -> Keys]
    /\ Categories \subseteq Names
    /\ None \notin Names

ASSUME CategorizationBounds ==
    /\ Overlap \in {"paused", "free"}
    /\ MaxFailures \in Nat
    /\ MaxCrashes \in Nat

VARIABLES
    \* Postgres: TRANSACTIONS and CATEGORY_RULES
    present,     \* transactions that extraction has inserted
    category,    \* transaction -> category_id
    source,      \* transaction -> category_source
    confidence,  \* transaction -> category_confidence
    review,      \* transaction -> review_status
    rules,       \* match key -> the category of its rule, None without one
    \* the runs
    mode,        \* run -> where its execution stands
    node,        \* run -> the node of the subgraph it executes or would execute
    batch,       \* run -> the transactions rule_match selected
    items,       \* run -> transaction -> its item in the graph state
    read,        \* run -> the rows as persist_category has read them
    known,       \* run -> the rules as persist_category has read them
    saved,       \* run -> its last checkpoint that reached the database
    \* history
    settled,     \* run -> what a person had confirmed when it started
    \* bounds
    failures, crashes

rows   == <<present, category, source, confidence, review, rules>>
graph  == <<mode, node, batch, items, read, known>>
faults == <<failures, crashes>>
vars   == <<present, category, source, confidence, review, rules, mode, node,
            batch, items, read, known, saved, settled, failures, crashes>>

Sources == {"rule", "llm", "manual", None}
Levels  == {"high",  \* at least the threshold
            "low", None}
Reviews == {"auto", "needs_review", "confirmed"}
Modes   == {"new", "running", "paused", "stopped", "done"}
Nodes   == {"rule_match", "matching", "llm_classify", "confidence_gate",
            "human_review", "persist_category", "flush", "END"}

Items == [category   : Categories \cup {None},
          name       : Names \cup {None},
          source     : Sources,
          confidence : Levels,
          review     : Reviews]

\* What rule_match makes of a transaction without a rule.
Unmatched == [category |-> None, name |-> None, source |-> None,
              confidence |-> None, review |-> "needs_review"]

NoItems == [t \in Txns |-> Unmatched]

\* The columns of a transaction that this subgraph writes, and their defaults.
Rows == [category   : Categories \cup {None},
         source     : Sources,
         confidence : Levels,
         review     : Reviews]

NewRow == [category |-> None, source |-> None, confidence |-> None, review |-> "auto"]
NoRows == [t \in Txns |-> NewRow]
NoRules == [k \in Keys |-> None]

Checkpoints == [node : Nodes, batch : SUBSET Txns, items : [Txns -> Items]]

TypeOK ==
    /\ present \subseteq Txns
    /\ category \in [Txns -> Categories \cup {None}]
    /\ source \in [Txns -> Sources]
    /\ confidence \in [Txns -> Levels]
    /\ review \in [Txns -> Reviews]
    /\ rules \in [Keys -> Categories \cup {None}]
    /\ mode \in [Runs -> Modes]
    /\ node \in [Runs -> Nodes]
    /\ batch \in [Runs -> SUBSET Txns]
    /\ items \in [Runs -> [Txns -> Items]]
    /\ read \in [Runs -> [Txns -> Rows]]
    /\ known \in [Runs -> [Keys -> Categories \cup {None}]]
    /\ saved \in [Runs -> Checkpoints]
    /\ settled \in [Runs -> SUBSET Txns]
    /\ failures \in 0..MaxFailures
    /\ crashes \in 0..MaxCrashes

Init ==
    /\ present = {}
    /\ category = [t \in Txns |-> NewRow.category]
    /\ source = [t \in Txns |-> NewRow.source]
    /\ confidence = [t \in Txns |-> NewRow.confidence]
    /\ review = [t \in Txns |-> NewRow.review]
    /\ rules = NoRules
    /\ mode = [r \in Runs |-> "new"]
    /\ node = [r \in Runs |-> "rule_match"]
    /\ batch = [r \in Runs |-> {}]
    /\ items = [r \in Runs |-> NoItems]
    /\ read = [r \in Runs |-> NoRows]
    /\ known = [r \in Runs |-> NoRules]
    /\ saved = [r \in Runs |-> [node |-> "rule_match", batch |-> {}, items |-> NoItems]]
    /\ settled = [r \in Runs |-> {}]
    /\ failures = 0
    /\ crashes = 0

-----------------------------------------------------------------------------
(***************************************************************************)
(* Helpers.                                                                *)
(***************************************************************************)
At(r, n) == mode[r] = "running" /\ node[r] = n

\* "free": runs interleave.  "paused": one executes at a time, any number wait
\* for a review or are cut off.
CanExecute(r) == Overlap = "paused" => \A q \in Runs \ {r} : mode[q] # "running"

\* The node returns `newItems` and the run enters `next`.
Returns(r, newItems, next) ==
    /\ items' = [items EXCEPT ![r] = newItems]
    /\ node' = [node EXCEPT ![r] = next]
    /\ UNCHANGED <<mode, batch, read, known, saved, settled, rows, faults>>

\* The items of run r, those for which `update` is defined replaced.
Updated(r, update) ==
    [t \in Txns |-> IF t \in DOMAIN update THEN update[t] ELSE items[r][t]]

NeedsReview(r) == {t \in batch[r] : items[r][t].review = "needs_review"}

-----------------------------------------------------------------------------
\* External: extraction commits a transaction.
Extract(t) ==
    /\ t \notin present
    /\ present' = present \cup {t}
    /\ UNCHANGED <<category, source, confidence, review, rules, graph, saved, settled, faults>>

\* The run has come to categorization.
Enter(r) ==
    /\ mode[r] = "new"
    /\ CanExecute(r)
    /\ mode' = [mode EXCEPT ![r] = "running"]
    /\ settled' = [settled EXCEPT ![r] = {t \in Txns : review[t] = "confirmed"}]
    /\ UNCHANGED <<node, batch, items, read, known, saved, rows, faults>>

(***************************************************************************)
(* rule_match: one SELECT for the transactions, one for their rules.       *)
(***************************************************************************)
\* Mutant: rows that have a category are selected as well.
SelectAll(r) ==
    /\ At(r, "rule_match")
    /\ batch' = [batch EXCEPT ![r] = present]
    /\ node' = [node EXCEPT ![r] = "matching"]
    /\ UNCHANGED <<mode, items, read, known, saved, settled, rows, faults>>

SelectUncategorised(r) ==
    /\ At(r, "rule_match")
    /\ batch' = [batch EXCEPT ![r] = {t \in present : category[t] = None}]
    /\ node' = [node EXCEPT ![r] = "matching"]
    /\ UNCHANGED <<mode, items, read, known, saved, settled, rows, faults>>

RuleItem(c) == [category |-> c, name |-> c, source |-> "rule",
                confidence |-> "high", review |-> "auto"]

MatchRules(r) ==
    /\ At(r, "matching")
    /\ LET matched == {t \in batch[r] : rules[KeyOf[t]] # None} IN
        Returns(r, Updated(r, [t \in matched |-> RuleItem(rules[KeyOf[t]])]),
                "llm_classify")

(***************************************************************************)
(* llm_classify.  An exception or a name that is no category counts as     *)
(* confidence 0 without a category.                                        *)
(***************************************************************************)
Answers == [category : Categories, confidence : {"low", "high"}]
           \cup [category : {None}, confidence : {"low"}]

Classified(item, answer) ==
    [item EXCEPT !.category = answer.category, !.name = answer.category,
                 !.source = "llm", !.confidence = answer.confidence]

LlmClassify(r) ==
    /\ At(r, "llm_classify")
    /\ LET open == IF Categories = {} THEN {}
                   ELSE {t \in batch[r] : items[r][t].category = None} IN
        \E answer \in [open -> Answers] :
            Returns(r, Updated(r, [t \in open |-> Classified(items[r][t], answer[t])]),
                    "confidence_gate")

\* Mutant: the comparison with the threshold is turned around.
GatedBelow(item) ==
    IF item.source = "llm"
    THEN [item EXCEPT !.review = IF item.confidence = "high" THEN "needs_review" ELSE "auto"]
    ELSE item

\* confidence_gate: at least the threshold passes, anything less is reviewed.
Gated(item) ==
    IF item.source = "llm"
    THEN [item EXCEPT !.review = IF item.confidence = "high" THEN "auto" ELSE "needs_review"]
    ELSE item

ConfidenceGate(r) ==
    /\ At(r, "confidence_gate")
    /\ Returns(r, Updated(r, [t \in batch[r] |-> Gated(items[r][t])]), "human_review")

(***************************************************************************)
(* human_review: one interrupt() for all items that need it.               *)
(***************************************************************************)
NothingToReview(r) ==
    /\ At(r, "human_review")
    /\ NeedsReview(r) = {}
    /\ Returns(r, items[r], "persist_category")

Interrupt(r) ==
    /\ At(r, "human_review")
    /\ NeedsReview(r) # {}
    /\ mode' = [mode EXCEPT ![r] = "paused"]
    /\ saved' = [saved EXCEPT ![r] = [node |-> node[r], batch |-> batch[r],
                                      items |-> items[r]]]
    /\ UNCHANGED <<node, batch, items, read, known, settled, rows, faults>>

\* Mutant: the source of the decision is written into the review status.
DecidedAsStatus(item, name) ==
    [item EXCEPT !.name = name, !.source = "manual", !.review = "manual"]

Decided(item, name) ==
    [item EXCEPT !.name = name, !.source = "manual", !.review = "confirmed"]

\* POST /runs/{id}/resume on the paused run, with decisions for some of the items.
AnswerReview(r) ==
    /\ mode[r] = "paused"
    /\ CanExecute(r)
    /\ \E some \in SUBSET NeedsReview(r) : \E decisions \in [some -> Names] :
        items' = [items EXCEPT ![r] =
                    Updated(r, [t \in some |-> Decided(items[r][t], decisions[t])])]
    /\ mode' = [mode EXCEPT ![r] = "running"]
    /\ node' = [node EXCEPT ![r] = "persist_category"]
    /\ UNCHANGED <<batch, read, known, saved, settled, rows, faults>>

(***************************************************************************)
(* persist_category: reads the rows and the rules of its items, and writes *)
(* all of them in one commit.  An UPDATE names only the columns whose new  *)
(* value differs from the one read.                                        *)
(***************************************************************************)
\* The name of a decision is looked up only if the item has no category yet.
Stored(item) ==
    IF item.category = None /\ item.source = "manual" /\ item.name \in Categories
    THEN item.name ELSE item.category

\* Mutant: items without a category overwrite the one that is stored.
WritesAll(r) == batch[r]

Writes(r) == {t \in batch[r] : Stored(items[r][t]) # None}

\* Mutant: only the rules of items that came without a category are learned.
LearnsResolved(r) == {t \in Writes(r) : /\ items[r][t].source = "manual"
                                       /\ items[r][t].category = None}

Learns(r) == {t \in Writes(r) : items[r][t].source = "manual"}

LookUp(r) ==
    /\ At(r, "persist_category")
    /\ read' = [read EXCEPT ![r] = [t \in Txns |->
                    IF t \in batch[r]
                    THEN [category |-> category[t], source |-> source[t],
                          confidence |-> confidence[t], review |-> review[t]]
                    ELSE NewRow]]
    /\ known' = [known EXCEPT ![r] = rules]
    /\ node' = [node EXCEPT ![r] = "flush"]
    /\ UNCHANGED <<mode, batch, items, saved, settled, rows, faults>>

\* A column after the UPDATEs of the rows in S.
Assigned(S, new, seen, old) ==
    [t \in Txns |-> IF t \in S /\ new[t] # seen[t] THEN new[t] ELSE old[t]]

\* A rule for the key has been committed since it was looked up in vain.
Conflict(r) ==
    \E t \in Learns(r) : rules[KeyOf[t]] # None /\ known[r][KeyOf[t]] = None

LearnedKeys(r) ==
    {k \in Keys : \E t \in Learns(r) : KeyOf[t] = k /\ Stored(items[r][t]) # known[r][k]}

\* The nested checkpoint at END, stored before session.commit().
Ended(r) == [node |-> "END", batch |-> batch[r], items |-> items[r]]

\* If several items of one key were decided, the last one makes the rule; their
\* order is that of an unordered SELECT.
PersistCategory(r) ==
    /\ At(r, "flush") /\ ~Conflict(r)
    /\ review' = Assigned(batch[r], [t \in Txns |-> items[r][t].review],
                          [t \in Txns |-> read[r][t].review], review)
    /\ category' = Assigned(Writes(r), [t \in Txns |-> Stored(items[r][t])],
                            [t \in Txns |-> read[r][t].category], category)
    /\ source' = Assigned(Writes(r), [t \in Txns |-> items[r][t].source],
                          [t \in Txns |-> read[r][t].source], source)
    /\ confidence' = Assigned(Writes(r), [t \in Txns |-> items[r][t].confidence],
                              [t \in Txns |-> read[r][t].confidence], confidence)
    /\ \E last \in [LearnedKeys(r) -> Learns(r)] :
        /\ \A k \in LearnedKeys(r) : KeyOf[last[k]] = k
        /\ rules' = [k \in Keys |-> IF k \in LearnedKeys(r)
                                    THEN Stored(items[r][last[k]]) ELSE rules[k]]
    /\ node' = [node EXCEPT ![r] = "END"]
    /\ saved' = [saved EXCEPT ![r] = Ended(r)]
    /\ read' = [read EXCEPT ![r] = NoRows]
    /\ known' = [known EXCEPT ![r] = NoRules]
    /\ UNCHANGED <<present, mode, batch, items, settled, faults>>

-----------------------------------------------------------------------------
(***************************************************************************)
(* Checkpoints, failures and resumes.                                      *)
(***************************************************************************)
Checkpoint(r) ==
    [node |-> CASE node[r] = "matching" -> "rule_match"
                [] node[r] = "flush" -> "persist_category"
                [] OTHER -> node[r],
     batch |-> batch[r], items |-> items[r]]

\* The nested checkpointer stores the state after a node has returned, while the
\* next one may already be running.
SaveCheckpoint(r) ==
    /\ mode[r] = "running" /\ node[r] \notin {"matching", "flush"}
    /\ saved[r] # Checkpoint(r)
    /\ saved' = [saved EXCEPT ![r] = Checkpoint(r)]
    /\ UNCHANGED <<graph, settled, rows, faults>>

\* The node has returned and the run goes on to the next part of the pipeline.
Finish(r) ==
    /\ At(r, "END")
    /\ mode' = [mode EXCEPT ![r] = "done"]
    /\ saved' = [saved EXCEPT ![r] = Checkpoint(r)]
    /\ UNCHANGED <<node, batch, items, read, known, settled, rows, faults>>

\* A node raises: rollback; the checkpoint before it is in the database.
Stops(r) ==
    /\ mode' = [mode EXCEPT ![r] = "stopped"]
    /\ node' = [node EXCEPT ![r] = Checkpoint(r).node]
    /\ read' = [read EXCEPT ![r] = NoRows]
    /\ known' = [known EXCEPT ![r] = NoRules]
    /\ saved' = [saved EXCEPT ![r] = Checkpoint(r)]
    /\ UNCHANGED <<batch, items, settled, rows>>

RuleConflict(r) == At(r, "flush") /\ Conflict(r) /\ Stops(r) /\ UNCHANGED faults

NodeFails(r) ==
    /\ mode[r] = "running" /\ node[r] # "END"
    /\ failures < MaxFailures
    /\ Stops(r)
    /\ failures' = failures + 1
    /\ UNCHANGED crashes

\* session.commit() fails after the checkpoint at END: nothing is written, and a
\* resume finds the subgraph finished.
CommitFails(r) ==
    /\ At(r, "flush") /\ ~Conflict(r)
    /\ failures < MaxFailures
    /\ mode' = [mode EXCEPT ![r] = "stopped"]
    /\ node' = [node EXCEPT ![r] = "END"]
    /\ saved' = [saved EXCEPT ![r] = Ended(r)]
    /\ read' = [read EXCEPT ![r] = NoRows]
    /\ known' = [known EXCEPT ![r] = NoRules]
    /\ failures' = failures + 1
    /\ UNCHANGED <<batch, items, settled, rows, crashes>>

\* The backend restarts: a run that was executing is back at its last stored
\* checkpoint, for some it is that at END without the commit after it.
Crash ==
    /\ crashes < MaxCrashes
    /\ \E r \in Runs : mode[r] = "running"
    /\ \E lost \in SUBSET {r \in Runs : At(r, "flush") /\ ~Conflict(r)} :
        LET back == {r \in Runs : mode[r] = "running"}
            last == [r \in Runs |-> IF r \in lost THEN Ended(r) ELSE saved[r]]
        IN  /\ mode' = [r \in Runs |-> IF r \in back THEN "stopped" ELSE mode[r]]
            /\ node' = [r \in Runs |-> IF r \in back THEN last[r].node ELSE node[r]]
            /\ batch' = [r \in Runs |-> IF r \in back THEN last[r].batch ELSE batch[r]]
            /\ items' = [r \in Runs |-> IF r \in back THEN last[r].items ELSE items[r]]
            /\ read' = [r \in Runs |-> IF r \in back THEN NoRows ELSE read[r]]
            /\ known' = [r \in Runs |-> IF r \in back THEN NoRules ELSE known[r]]
            /\ saved' = last
    /\ crashes' = crashes + 1
    /\ UNCHANGED <<settled, rows, failures>>

\* POST /runs/{id}/resume on a run that failed or was cut off.
Resume(r) ==
    /\ mode[r] = "stopped"
    /\ CanExecute(r)
    /\ mode' = [mode EXCEPT ![r] = "running"]
    /\ UNCHANGED <<node, batch, items, read, known, saved, settled, rows, faults>>

-----------------------------------------------------------------------------
NodeStep(r) ==
    \/ SelectUncategorised(r) \/ MatchRules(r) \/ LlmClassify(r)
    \/ ConfidenceGate(r) \/ NothingToReview(r) \/ Interrupt(r)
    \/ LookUp(r) \/ PersistCategory(r) \/ RuleConflict(r) \/ Finish(r)

Next ==
    \/ \E t \in Txns : Extract(t)
    \/ \E r \in Runs : \/ Enter(r) \/ NodeStep(r) \/ AnswerReview(r)
                      \/ SaveCheckpoint(r) \/ NodeFails(r) \/ CommitFails(r) \/ Resume(r)
    \/ Crash

Spec == Init /\ [][Next]_vars

\* The event loop executes a started run; nobody has to answer a review.
FairSpec == Spec /\ \A r \in Runs : WF_vars(NodeStep(r)) /\ WF_vars(Enter(r))

-----------------------------------------------------------------------------
(***************************************************************************)
(* Properties of every interleaving.                                       *)
(***************************************************************************)

\* If decisions only name existing categories: what a person has confirmed has a
\* category, and its key has a rule, so that nobody is asked for it again.
ConfirmedIsLearned ==
    \A t \in Txns : review[t] = "confirmed" =>
        category[t] # None /\ rules[KeyOf[t]] # None

\* No run takes a category away, however old the snapshot it writes back.
CategorisedStays ==
    [][\A t \in Txns : category[t] # None => category'[t] # None]_vars

\* If decisions only name existing categories: what a person had confirmed when a run
\* started, that run leaves alone, whatever it meets, however late it is answered and
\* how often it is cut off.  A run that selected the row before may still overwrite it.
ConfirmationStands ==
    [][\A r \in Runs, t \in Txns :
        At(r, "flush") /\ node'[r] = "END" /\ t \in settled[r] =>
            review'[t] = review[t] /\ category'[t] = category[t]]_vars

(***************************************************************************)
(* Properties of runs that execute one at a time, any number of them       *)
(* paused or cut off with a snapshot in their checkpoint.                  *)
(***************************************************************************)

\* A category that counts as automatic comes from a rule or from an answer of the
\* model at or above the threshold, whichever snapshots were written over the row.
AutoIsConfident ==
    \A t \in Txns : category[t] # None /\ review[t] = "auto" =>
        source[t] \in {"rule", "llm"} /\ confidence[t] = "high"

(***************************************************************************)
(* Liveness under FairSpec, without failures or crashes.                   *)
(***************************************************************************)

\* A transaction without a category that a run selects gets one, or is marked for
\* review, or waits in the review queue of that run.
SelectedIsJudged ==
    \A t \in Txns, r \in Runs :
        At(r, "matching") /\ t \in batch[r]
            ~> category[t] # None \/ review[t] # "auto" \/ mode[r] = "paused"

(***************************************************************************)
(* What the documents claim and the code does not keep (see the README).   *)
(***************************************************************************)

\* docs/06, lines 59-64: a person's correction is what is stored (and learned).
DecisionIsStored ==
    [][\A r \in Runs, t \in Txns :
        /\ At(r, "flush") /\ node'[r] = "END"
        /\ t \in batch[r] /\ items[r][t].source = "manual"
        /\ items[r][t].name \in Categories
        => category'[t] = items[r][t].name]_vars

=============================================================================
