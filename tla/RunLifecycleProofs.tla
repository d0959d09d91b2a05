-------------------------- MODULE RunLifecycleProofs --------------------------
(***************************************************************************)
(* Machine-checked proofs about RunLifecycle, for any number of threads    *)
(* and requests.                                                           *)
(***************************************************************************)
EXTENDS RunLifecycle, TLAPS

LEMMA InitTypeOK == Init => TypeOK
  BY LifecycleBounds DEF Init, TypeOK, Statuses, Points, Kinds, Pcs

LEMMA NextTypeOK == TypeOK /\ [Next]_vars => TypeOK'
  <1> SUFFICES ASSUME TypeOK, [Next]_vars PROVE TypeOK'
    OBVIOUS
  <1> USE LifecycleBounds
      DEF TypeOK, store, client, request, faults, Statuses, Points, Kinds, Pcs, Handling,
          Working
  <1>1. CASE UNCHANGED vars
    BY <1>1 DEF vars
  <1>2. CASE Crash
    BY <1>2 DEF Crash
  <1>3. ASSUME NEW q \in Requests, NEW t \in Threads,
               TriggerRun(q, t) \/ AcceptResume(q, t) \/ CheckDelete(q, t)
        PROVE  TypeOK'
    BY <1>3 DEF TriggerRun, AcceptResume, CheckDelete, Sent, Upsert
  <1>4. ASSUME NEW q \in Requests, AnswerResume(q) \/ MarkRunning(q) \/ Invoke(q)
        PROVE  TypeOK'
    BY <1>4 DEF AnswerResume, MarkRunning, Invoke, Goes, Upsert
  <1>5. ASSUME NEW q \in Requests, DeleteCheckpoints(q) \/ DeleteRow(q) PROVE TypeOK'
    BY <1>5 DEF DeleteCheckpoints, DeleteRow, Goes
  <1>6. ASSUME NEW q \in Requests, Categorise(q) \/ Alert(q) \/ Cashflow(q) \/ Report(q)
        PROVE  TypeOK'
    BY <1>6 DEF Categorise, Alert, Cashflow, Report, Drives
  <1>7. ASSUME NEW q \in Requests, Pause(q) \/ Return(q) \/ SaveCheckpoint(q)
        PROVE  TypeOK'
    BY <1>7 DEF Pause, Return, SaveCheckpoint, Goes
  <1>8. ASSUME NEW q \in Requests, CashflowRefused(q) \/ NodeFails(q) PROVE TypeOK'
    BY <1>8 DEF CashflowRefused, NodeFails, Raises, Goes
  <1>9. ASSUME NEW q \in Requests, MarkFailed(q) \/ MarkOutcome(q) PROVE TypeOK'
    BY <1>9 DEF MarkFailed, MarkOutcome, Outcome, Upsert, Goes
  <1>10. ASSUME NEW q \in Requests, Outage(q) PROVE TypeOK'
    BY <1>10 DEF Outage, Goes
  <1>11. QED
    BY <1>1, <1>2, <1>3, <1>4, <1>5, <1>6, <1>7, <1>8, <1>9, <1>10 DEF Next, TaskStep

\* Every variable keeps its type, whatever clients send.
THEOREM TypeCorrect == Spec => []TypeOK
  BY InitTypeOK, NextTypeOK, PTL DEF Spec

-----------------------------------------------------------------------------
(***************************************************************************)
(* A request is under way for its thread from the commit that calls the    *)
(* run running to the commit of its outcome.                               *)
(***************************************************************************)
UnderWay == {"accepted"} \cup Working

\* A step that neither calls a run running nor ends a request under way.
LEMMA BackedFrame ==
    ASSUME TypeOK, RunningIsBacked,
           \A t \in Threads : row'[t] = "running" => row[t] = "running",
           \A q \in Requests : pc[q] \in UnderWay =>
              pc'[q] \in UnderWay /\ thread'[q] = thread[q]
    PROVE  RunningIsBacked'
  BY DEF RunningIsBacked, UnderWay

LEMMA BackedNext ==
    ASSUME MaxOutages = 0, MaxCrashes = 0, TypeOK, RunningIsBacked, [Next]_vars
    PROVE  RunningIsBacked'
  <1> USE DEF TypeOK, store, client, request, faults
  <1>1. CASE UNCHANGED vars
    BY <1>1, BackedFrame DEF vars
  <1>2. CASE Crash \/ \E q \in Requests : Outage(q)
    BY <1>2 DEF Crash, Outage
  <1>3. ASSUME NEW q \in Requests, NEW t \in Threads, TriggerRun(q, t) \/ AcceptResume(q, t)
        PROVE  RunningIsBacked'
    <2>1. /\ row' = [row EXCEPT ![t] = "running"]
          /\ thread'[q] = t /\ pc'[q] \in UnderWay
          /\ \A p \in Requests \ {q} : thread'[p] = thread[p] /\ pc'[p] = pc[p]
          /\ pc[q] = "free"
      BY <1>3 DEF TriggerRun, AcceptResume, Sent, Upsert, UnderWay, Working
    <2>2. QED
      BY <2>1 DEF RunningIsBacked, UnderWay, Working
  <1>4. ASSUME NEW q \in Requests, NEW t \in Threads, CheckDelete(q, t)
        PROVE  RunningIsBacked'
    BY <1>4, BackedFrame DEF CheckDelete, Sent, UnderWay, Working
  <1>5. ASSUME NEW q \in Requests, DeleteCheckpoints(q) \/ DeleteRow(q)
        PROVE  RunningIsBacked'
    BY <1>5, BackedFrame DEF DeleteCheckpoints, DeleteRow, Goes, UnderWay, Working
  <1>6. ASSUME NEW q \in Requests, AnswerResume(q) \/ Invoke(q) \/ Pause(q) \/ Return(q)
                                   \/ NodeFails(q) \/ CashflowRefused(q)
        PROVE  RunningIsBacked'
    BY <1>6, BackedFrame DEF AnswerResume, Invoke, Pause, Return, NodeFails, CashflowRefused,
                             Raises, Goes, UnderWay, Working
  <1>7. ASSUME NEW q \in Requests, Categorise(q) \/ Alert(q) \/ Cashflow(q) \/ Report(q)
                                   \/ SaveCheckpoint(q)
        PROVE  RunningIsBacked'
    BY <1>7, BackedFrame DEF Categorise, Alert, Cashflow, Report, SaveCheckpoint, Drives
  <1>8. ASSUME NEW q \in Requests, MarkRunning(q) PROVE RunningIsBacked'
    <2>1. /\ row' = [row EXCEPT ![thread[q]] = "running"] /\ thread' = thread
          /\ pc' = [pc EXCEPT ![q] = "opening"]
      BY <1>8 DEF MarkRunning, Upsert, Goes
    <2>2. QED
      BY <2>1 DEF RunningIsBacked, Working
  <1>9. ASSUME NEW q \in Requests, MarkFailed(q) \/ MarkOutcome(q) PROVE RunningIsBacked'
    <2>1. /\ \E s \in Statuses \ {"running"} : row' = [row EXCEPT ![thread[q]] = s]
          /\ thread' = thread
          /\ pc' = [pc EXCEPT ![q] = "done"]
      BY <1>9 DEF MarkFailed, MarkOutcome, Outcome, Upsert, Goes, Statuses
    <2>2. QED
      BY <2>1 DEF RunningIsBacked
  <1>10. QED
    BY <1>1, <1>2, <1>3, <1>4, <1>5, <1>6, <1>7, <1>8, <1>9 DEF Next, TaskStep

\* Unless the database or the backend is lost, whatever clients send and however many
\* tasks drive one run: a run is called running only while a request is under way.
THEOREM RunningBacked ==
    ASSUME MaxOutages = 0, MaxCrashes = 0 PROVE Spec => []RunningIsBacked
  <1>1. Init => RunningIsBacked
    BY DEF Init, RunningIsBacked
  <1>2. TypeOK /\ RunningIsBacked /\ [Next]_vars => RunningIsBacked'
    BY BackedNext
  <1>3. QED
    BY <1>1, <1>2, TypeCorrect, PTL DEF Spec

-----------------------------------------------------------------------------
(***************************************************************************)
(* An attentive client: a thread has at most one request in progress, and  *)
(* RUNS says so from its acceptance to its end.                            *)
(***************************************************************************)
Busy(q) == pc[q] \in Handling \cup Working

OneRequest ==
    /\ \A p, q \in Requests : Busy(p) /\ Busy(q) /\ thread[p] = thread[q] => p = q
    /\ \A q \in Requests : pc[q] \in UnderWay => row[thread[q]] = "running"
    /\ \A q \in Requests : Busy(q) => thread[q] \in issued \ deleted
    /\ \A t \in Threads : row[t] # "absent" => t \in issued \ deleted
    /\ deleted \subseteq issued

\* A step of a request that sends none and does not touch the row.
LEMMA OneRequestFrame ==
    ASSUME TypeOK, OneRequest, NEW q \in Requests, UNCHANGED <<row, thread, issued, deleted>>,
           \A p \in Requests \ {q} : pc'[p] = pc[p],
           pc'[q] \in UnderWay => pc[q] \in UnderWay,
           pc'[q] \in Handling \cup Working => Busy(q)
    PROVE  OneRequest'
  BY DEF TypeOK, OneRequest, Busy

LEMMA OneRequestNext ==
    ASSUME Client = "attentive", TypeOK, OneRequest, [Next]_vars PROVE OneRequest'
  <1> USE DEF TypeOK, store, client, request, faults
  <1>1. CASE UNCHANGED vars
    BY <1>1 DEF vars, OneRequest, Busy
  <1>2. CASE Crash
    BY <1>2 DEF Crash, OneRequest, Busy, UnderWay, Handling, Working
  <1>3. ASSUME NEW q \in Requests, NEW t \in Threads,
               TriggerRun(q, t) \/ AcceptResume(q, t) \/ CheckDelete(q, t)
        PROVE  OneRequest'
    <2>1. /\ pc[q] = "free" /\ thread'[q] = t
          /\ \A p \in Requests \ {q} : thread'[p] = thread[p] /\ pc'[p] = pc[p]
      BY <1>3 DEF TriggerRun, AcceptResume, CheckDelete, Sent
    <2>2. \A p \in Requests : Busy(p) => thread[p] # t
      BY <1>3 DEF TriggerRun, AcceptResume, CheckDelete, MaySend, OneRequest, Busy, UnderWay,
                  Handling
    <2>3. /\ \/ row'[t] = "running"
             \/ row'[t] = row[t] /\ pc'[q] = "checked"
          /\ \A u \in Threads \ {t} : row'[u] = row[u]
          /\ deleted' = deleted
          /\ t \in issued' /\ t \notin deleted
          /\ \A u \in Threads : u \in issued' <=> u \in issued \/ u = t
      <3>1. CASE TriggerRun(q, t)
        BY <3>1 DEF TriggerRun, Sent, Upsert, OneRequest
      <3>2. CASE AcceptResume(q, t)
        BY <3>2 DEF AcceptResume, Sent, Upsert, OneRequest
      <3>3. CASE CheckDelete(q, t)
        BY <3>3 DEF CheckDelete, Sent, OneRequest
      <3>4. QED
        BY <1>3, <3>1, <3>2, <3>3
    <2>4. QED
      BY <2>1, <2>2, <2>3 DEF OneRequest, Busy, UnderWay, Handling, Working
  <1>4. ASSUME NEW q \in Requests,
               AnswerResume(q) \/ Invoke(q) \/ Pause(q) \/ Return(q) \/ NodeFails(q)
               \/ CashflowRefused(q) \/ DeleteCheckpoints(q) \/ Outage(q)
        PROVE  OneRequest'
    <2>1. /\ UNCHANGED <<row, thread, issued, deleted>>
          /\ \A p \in Requests \ {q} : pc'[p] = pc[p]
          /\ pc'[q] \in UnderWay => pc[q] \in UnderWay
          /\ pc'[q] \in Handling \cup Working => Busy(q)
      BY <1>4 DEF AnswerResume, Invoke, Pause, Return, NodeFails, CashflowRefused, Raises,
                  DeleteCheckpoints, Outage, Goes, Busy, UnderWay, Handling, Working
    <2>2. QED
      BY <2>1, OneRequestFrame
  <1>5. ASSUME NEW q \in Requests, Categorise(q) \/ Alert(q) \/ Cashflow(q) \/ Report(q)
                                   \/ SaveCheckpoint(q)
        PROVE  OneRequest'
    BY <1>5 DEF Categorise, Alert, Cashflow, Report, SaveCheckpoint, Drives, OneRequest, Busy
  <1>6. ASSUME NEW q \in Requests, NEW s \in Statuses \ {"absent"}, pc[q] \in Working,
               row' = [row EXCEPT ![thread[q]] = s], UNCHANGED <<thread, issued, deleted>>,
               \/ s = "running" /\ pc' = [pc EXCEPT ![q] = "opening"]
               \/ pc' = [pc EXCEPT ![q] = "done"]
        PROVE  OneRequest'
    <2>1. \A p \in Requests \ {q} : Busy(p) => thread[p] # thread[q]
      BY <1>6 DEF OneRequest, Busy
    <2>2. thread[q] \in issued \ deleted
      BY <1>6 DEF OneRequest, Busy
    <2>3. QED
      BY <1>6, <2>1, <2>2 DEF OneRequest, Busy, UnderWay, Handling, Working
  <1>7. ASSUME NEW q \in Requests, MarkRunning(q) \/ MarkFailed(q) \/ MarkOutcome(q)
        PROVE  OneRequest'
    <2>1. /\ pc[q] \in Working /\ UNCHANGED <<thread, issued, deleted>>
          /\ \E s \in Statuses \ {"absent"} :
               /\ row' = [row EXCEPT ![thread[q]] = s]
               /\ \/ s = "running" /\ pc' = [pc EXCEPT ![q] = "opening"]
                  \/ pc' = [pc EXCEPT ![q] = "done"]
      BY <1>7 DEF MarkRunning, MarkFailed, MarkOutcome, Outcome, Upsert, Goes, Statuses, Working
    <2>2. QED
      BY <1>6, <2>1
  <1>8. ASSUME NEW q \in Requests, DeleteRow(q) PROVE OneRequest'
    <2>1. \A p \in Requests \ {q} : Busy(p) => thread[p] # thread[q]
      BY <1>8 DEF DeleteRow, OneRequest, Busy, Handling
    <2>2. thread[q] \in issued \ deleted
      BY <1>8 DEF DeleteRow, OneRequest, Busy, Handling
    <2>3. /\ row' = [row EXCEPT ![thread[q]] = "absent"] /\ UNCHANGED <<thread, issued>>
          /\ deleted' = deleted \cup {thread[q]}
          /\ pc' = [pc EXCEPT ![q] = "done"]
      BY <1>8 DEF DeleteRow, Goes
    <2>4. QED
      BY <2>1, <2>2, <2>3 DEF OneRequest, Busy, UnderWay, Handling, Working
  <1>9. QED
    BY <1>1, <1>2, <1>3, <1>4, <1>5, <1>7, <1>8 DEF Next, TaskStep

LEMMA OneRequestInvariant ==
    ASSUME Client = "attentive" PROVE Spec => [](TypeOK /\ OneRequest)
  <1>1. Init => OneRequest
    BY DEF Init, OneRequest, Busy, UnderWay, Handling, Working
  <1>2. TypeOK /\ OneRequest /\ [Next]_vars => OneRequest'
    BY OneRequestNext
  <1>3. QED
    BY <1>1, <1>2, TypeCorrect, PTL DEF Spec

\* Only DeleteRow takes a row away.
LEMMA RowGoes ==
    ASSUME TypeOK, [Next]_vars, NEW t \in Threads, row[t] # "absent", row'[t] = "absent"
    PROVE  \E q \in Requests : DeleteRow(q) /\ thread[q] = t
  <1>1. ASSUME NEW q \in Requests, DeleteRow(q) PROVE thread[q] = t
    BY <1>1 DEF TypeOK, DeleteRow
  <1>2. CASE \A q \in Requests : ~DeleteRow(q)
    BY <1>2 DEF TypeOK, Next, TaskStep, vars, store, Crash, TriggerRun, AcceptResume, CheckDelete,
           AnswerResume, DeleteCheckpoints, MarkRunning, Invoke, Categorise, Alert, Cashflow,
           Report, Drives, Pause, Return, SaveCheckpoint, NodeFails, CashflowRefused, Raises,
           MarkFailed, MarkOutcome, Outcome, Upsert, Outage
  <1>3. QED
    BY <1>1, <1>2

\* If clients are attentive, no run is deleted under a background task that drives it,
\* even if the database or the backend is lost in between.
THEOREM DeleteSafe ==
    ASSUME Client = "attentive" PROVE Spec => NoDeleteUnderTask
  <1> DEFINE Safe == \A t \in Threads : row[t] # "absent" /\ row'[t] = "absent" =>
               \A q \in Requests : thread[q] = t => pc[q] \notin {"accepted"} \cup Working
  <1>1. ASSUME TypeOK, OneRequest, [Next]_vars PROVE Safe
    <2>1. SUFFICES ASSUME NEW t \in Threads, row[t] # "absent", row'[t] = "absent",
                          NEW q \in Requests, thread[q] = t,
                          pc[q] \in {"accepted"} \cup Working
                   PROVE  FALSE
      OBVIOUS
    <2>2. PICK d \in Requests : DeleteRow(d) /\ thread[d] = t
      BY <1>1, <2>1, RowGoes
    <2>3. pc[d] = "purged"
      BY <2>2 DEF DeleteRow
    <2>4. QED
      BY <1>1, <2>1, <2>2, <2>3 DEF OneRequest, Busy, Handling, Working
  <1>2. TypeOK /\ OneRequest /\ [Next]_vars => [Safe]_vars
    BY <1>1
  <1>3. Spec => [][Safe]_vars
    BY <1>2, OneRequestInvariant, PTL DEF Spec
  <1>4. QED
    BY <1>3 DEF NoDeleteUnderTask

\* If clients are attentive, a run whose deletion was confirmed never comes back.
THEOREM DeletedGone ==
    ASSUME Client = "attentive" PROVE Spec => []DeletedStaysDeleted
  <1>1. TypeOK /\ OneRequest => DeletedStaysDeleted
    BY DEF TypeOK, OneRequest, DeletedStaysDeleted
  <1>2. QED
    BY <1>1, OneRequestInvariant, PTL

-----------------------------------------------------------------------------
(***************************************************************************)
(* What a request under way leads to is what its checkpoint will show: a   *)
(* resume has one to continue from, an exception leaves one before the     *)
(* end, and a graph that came back stands where it stored its last one.    *)
(***************************************************************************)
OnCourse(q) ==
    /\ pc[q] \in {"accepted", "queued", "opening"} /\ kind[q] # "trigger" =>
          point[thread[q]] # "none"
    /\ pc[q] = "driving" => pos[q] # "none"
    /\ pc[q] = "raised" => point[thread[q]] \notin {"none", "end"}
    /\ pc[q] = "returned" =>
          pos[q] \in {"interrupted", "end"} /\ point[thread[q]] = pos[q]

Settled(t) ==
    (\A q \in Requests : thread[q] = t => pc[q] \in {"free", "done"}) =>
        /\ row[t] = "waiting_for_review" => point[t] = "interrupted"
        /\ row[t] = "completed" => point[t] = "end"
        /\ row[t] = "failed" => point[t] \notin {"none", "end"}

Truth == (\A q \in Requests : OnCourse(q)) /\ (\A t \in Threads : Settled(t))

TruthInv == outages = 0 /\ crashes = 0 => Truth

\* A step of request q, the only one in progress on thread t, concerns nobody else.
LEMMA TruthFrame ==
    ASSUME TypeOK, Truth, NEW q \in Requests, NEW t \in Threads, thread'[q] = t,
           pc[q] = "free" \/ thread[q] = t,
           \A p \in Requests \ {q} :
              /\ kind'[p] = kind[p] /\ thread'[p] = thread[p]
              /\ pc'[p] = pc[p] /\ pos'[p] = pos[p],
           \A p \in Requests \ {q} : Busy(p) => thread[p] # t,
           \A u \in Threads \ {t} : row'[u] = row[u] /\ point'[u] = point[u],
           OnCourse(q)', Settled(t)'
    PROVE  Truth'
  <1>1. ASSUME NEW p \in Requests \ {q} PROVE OnCourse(p)'
    <2>1. CASE Busy(p)
      <3>1. thread[p] \in Threads \ {t}
        BY <2>1 DEF TypeOK
      <3>2. point'[thread[p]] = point[thread[p]]
        BY <3>1
      <3>3. QED
        BY <3>2 DEF Truth, OnCourse
    <2>2. CASE ~Busy(p)
      BY <2>2 DEF OnCourse, Busy, Handling, Working
    <2>3. QED
      BY <2>1, <2>2
  <1>2. ASSUME NEW u \in Threads \ {t} PROVE Settled(u)'
    <2>1. (\A p \in Requests : thread'[p] = u => pc'[p] \in {"free", "done"}) =>
              \A p \in Requests : thread[p] = u => pc[p] \in {"free", "done"}
      OBVIOUS
    <2>2. QED
      BY <2>1 DEF Truth, Settled
  <1>3. QED
    BY <1>1, <1>2 DEF Truth

LEMMA TruthNext ==
    ASSUME Client = "attentive", TypeOK, OneRequest, TruthInv, [Next]_vars PROVE TruthInv'
  <1> USE DEF TypeOK, store, client, request, faults
  <1>1. CASE UNCHANGED vars
    BY <1>1 DEF vars, TruthInv, Truth, OnCourse, Settled
  <1>2. CASE Crash \/ \E q \in Requests : Outage(q)
    BY <1>2, LifecycleBounds DEF Crash, Outage, TruthInv
  <1>3. SUFFICES ASSUME Next, ~Crash, \A q \in Requests : ~Outage(q), Truth PROVE Truth'
    <2>1. ASSUME Next, ~Crash, \A q \in Requests : ~Outage(q)
          PROVE  UNCHANGED <<outages, crashes>>
      BY <2>1 DEF Next, TaskStep, TriggerRun, AcceptResume, CheckDelete, Sent, AnswerResume,
             DeleteCheckpoints, DeleteRow, MarkRunning, Invoke, Categorise, Alert, Cashflow,
             Report, Drives, Pause, Return, SaveCheckpoint, NodeFails, CashflowRefused, Raises,
             MarkFailed, MarkOutcome
    <2>2. QED
      BY <1>1, <1>2, <2>1 DEF TruthInv
  <1>4. ASSUME NEW q \in Requests, NEW t \in Threads,
               TriggerRun(q, t) \/ AcceptResume(q, t) \/ CheckDelete(q, t)
        PROVE  Truth'
    <2>1. /\ pc[q] = "free" /\ thread'[q] = t /\ UNCHANGED <<pos, point>>
          /\ \A p \in Requests \ {q} :
                kind'[p] = kind[p] /\ thread'[p] = thread[p] /\ pc'[p] = pc[p]
          /\ \A u \in Threads \ {t} : row'[u] = row[u]
      BY <1>4 DEF TriggerRun, AcceptResume, CheckDelete, Sent, Upsert
    <2>2. \A p \in Requests : Busy(p) => thread[p] # t
      BY <1>4 DEF TriggerRun, AcceptResume, CheckDelete, MaySend, OneRequest, Busy, UnderWay,
                  Handling
    <2>3. OnCourse(q)'
      <3>1. CASE TriggerRun(q, t)
        BY <3>1 DEF TriggerRun, Sent, OnCourse
      <3>2. CASE AcceptResume(q, t)
        <4>1. row[t] \in {"waiting_for_review", "completed", "failed"}
          BY <3>2 DEF AcceptResume, Statuses
        <4>2. \A p \in Requests : thread[p] = t => pc[p] \in {"free", "done"}
          BY <2>2 DEF Busy, Pcs
        <4>3. point[t] # "none"
          BY <1>3, <4>1, <4>2 DEF Truth, Settled
        <4>4. pc'[q] = "accepted" /\ thread'[q] = t /\ point' = point
          BY <3>2 DEF AcceptResume, Sent
        <4>5. QED
          BY <4>3, <4>4 DEF OnCourse
      <3>3. CASE CheckDelete(q, t)
        BY <3>3 DEF CheckDelete, Sent, OnCourse
      <3>4. QED
        BY <1>4, <3>1, <3>2, <3>3
    <2>4. Settled(t)'
      <3>1. pc'[q] \in {"queued", "accepted", "checked"}
        BY <1>4 DEF TriggerRun, AcceptResume, CheckDelete, Sent
      <3>2. QED
        BY <2>1, <3>1 DEF Settled
    <2>5. QED
      BY <1>3, <2>1, <2>2, <2>3, <2>4, TruthFrame
  <1>5. ASSUME NEW q \in Requests, Busy(q), UNCHANGED <<kind, thread>>,
               \A p \in Requests \ {q} : pc'[p] = pc[p] /\ pos'[p] = pos[p],
               \A u \in Threads \ {thread[q]} : row'[u] = row[u] /\ point'[u] = point[u],
               OnCourse(q)',
               pc'[q] = "done" => Settled(thread[q])',
               pc'[q] = "done" \/ pc'[q] \in Handling \cup Working
        PROVE  Truth'
    <2>1. \A p \in Requests \ {q} : Busy(p) => thread[p] # thread[q]
      BY <1>5 DEF OneRequest
    <2>2. Settled(thread[q])'
      BY <1>5 DEF Settled, Handling, Working
    <2>3. QED
      BY <1>3, <1>5, <2>1, <2>2, TruthFrame
  <1>6. ASSUME NEW q \in Requests, AnswerResume(q) \/ MarkRunning(q) \/ Invoke(q) PROVE Truth'
    <2>1. OnCourse(q)
      BY <1>3 DEF Truth
    <2>2. CASE AnswerResume(q)
      BY <1>5, <2>1, <2>2 DEF AnswerResume, Goes, OnCourse, Busy, Handling, Working
    <2>3. CASE MarkRunning(q)
      BY <1>5, <2>1, <2>3 DEF MarkRunning, Upsert, Goes, OnCourse, Busy, Handling, Working
    <2>4. CASE Invoke(q)
      <3>1. pos'[q] # "none" /\ pc'[q] = "driving"
        BY <2>1, <2>4 DEF Invoke, Goes, OnCourse
      <3>2. QED
        BY <1>5, <2>4, <3>1 DEF Invoke, Goes, OnCourse, Busy, Handling, Working
    <2>5. QED
      BY <1>6, <2>2, <2>3, <2>4
  <1>7. ASSUME NEW q \in Requests, DeleteCheckpoints(q) \/ DeleteRow(q) PROVE Truth'
    <2>1. CASE DeleteCheckpoints(q)
      BY <1>5, <2>1 DEF DeleteCheckpoints, Goes, OnCourse, Busy, Handling
    <2>2. CASE DeleteRow(q)
      BY <1>5, <2>2 DEF DeleteRow, Goes, OnCourse, Settled, Busy, Handling
    <2>3. QED
      BY <1>7, <2>1, <2>2
  <1>8. ASSUME NEW q \in Requests, Categorise(q) \/ Alert(q) \/ Cashflow(q) \/ Report(q)
        PROVE  Truth'
    <2>1. \E to \in Points \ {"none"} : pos' = [pos EXCEPT ![q] = to]
      BY <1>8 DEF Categorise, Alert, Cashflow, Report, Drives, Points
    <2>2. pc[q] = "driving" /\ UNCHANGED <<row, point, kind, thread, pc>>
      BY <1>8 DEF Categorise, Alert, Cashflow, Report, Drives
    <2>3. QED
      BY <1>5, <2>1, <2>2 DEF OnCourse, Busy, Working
  <1>9. ASSUME NEW q \in Requests, Pause(q) \/ Return(q) \/ SaveCheckpoint(q) PROVE Truth'
    <2>1. OnCourse(q)
      BY <1>3 DEF Truth
    <2>2. CASE Pause(q)
      BY <1>5, <2>2 DEF Pause, Goes, OnCourse, Busy, Working
    <2>3. CASE Return(q)
      BY <1>5, <2>3 DEF Return, Goes, OnCourse, Busy, Working
    <2>4. CASE SaveCheckpoint(q)
      BY <1>5, <2>1, <2>4 DEF SaveCheckpoint, OnCourse, Busy, Working
    <2>5. QED
      BY <1>9, <2>2, <2>3, <2>4
  <1>10. ASSUME NEW q \in Requests, NodeFails(q) \/ CashflowRefused(q) PROVE Truth'
    <2>1. pos[q] \notin {"none", "end"} /\ pc[q] = "driving" /\ Raises(q)
      BY <1>3, <1>10 DEF NodeFails, CashflowRefused, Truth, OnCourse
    <2>2. QED
      BY <1>5, <2>1 DEF Raises, Goes, OnCourse, Busy, Working
  <1>11. ASSUME NEW q \in Requests, MarkFailed(q) \/ MarkOutcome(q) PROVE Truth'
    <2>1. OnCourse(q)
      BY <1>3 DEF Truth
    <2>2. CASE MarkFailed(q)
      BY <1>5, <2>1, <2>2 DEF MarkFailed, Upsert, Goes, OnCourse, Settled, Busy, Working
    <2>3. CASE MarkOutcome(q)
      BY <1>5, <2>1, <2>3 DEF MarkOutcome, Outcome, Upsert, Goes, OnCourse, Settled, Busy, Working
    <2>4. QED
      BY <1>11, <2>2, <2>3
  <1>12. QED
    BY <1>3, <1>4, <1>6, <1>7, <1>8, <1>9, <1>10, <1>11 DEF Next, TaskStep

\* If clients are attentive, then until an outage or a restart the status of a run on
\* which nothing is in progress agrees with its checkpoint.
THEOREM StatusTrue ==
    ASSUME Client = "attentive" PROVE Spec => []SettledIsTruthful
  <1>1. Init => TruthInv
    BY DEF Init, TruthInv, Truth, OnCourse, Settled
  <1>2. TypeOK /\ OneRequest /\ TruthInv /\ [Next]_vars => TruthInv'
    BY TruthNext
  <1>3. TruthInv => SettledIsTruthful
    BY DEF TruthInv, Truth, Settled, SettledIsTruthful
  <1>4. QED
    BY <1>1, <1>2, <1>3, OneRequestInvariant, PTL DEF Spec

-----------------------------------------------------------------------------
(***************************************************************************)
(* The refinement.  A request in progress is where the job of its thread   *)
(* is: a deletion has found it at rest, a first task starts without a      *)
(* checkpoint, and the checkpoint of a graph that is driven is not ahead   *)
(* of it.                                                                  *)
(***************************************************************************)
OnDuty(q) ==
    /\ pc[q] = "accepted" => kind[q] # "trigger"
    /\ pc[q] \in {"checked", "purged"} => Record!Resting(thread[q])
    /\ pc[q] = "purged" => point[thread[q]] = "none"
    /\ pc[q] \in {"queued", "opening"} /\ kind[q] = "trigger" => point[thread[q]] = "none"
    /\ pc[q] = "driving" =>
          /\ pos[q] # "none"
          /\ Record!Progress[point[thread[q]]] <= Record!Progress[pos[q]]
          /\ pos[q] = "tail" => thread[q] \in summary
    /\ pc[q] = "raised" => point[thread[q]] # "end"
    /\ pc[q] = "returned" =>
          pos[q] \in {"interrupted", "end"} /\ point[thread[q]] = pos[q]

OnRecord(t) ==
    /\ t \notin issued => point[t] = "none"
    /\ point[t] = "tail" => t \in summary

JobInv == (\A q \in Requests : OnDuty(q)) /\ (\A t \in Threads : OnRecord(t))

RecordStep == [Record!Next]_(Record!record)

LEMMA ProgressAt ==
    /\ DOMAIN Record!Progress = Points
    /\ \A p \in Points : Record!Progress[p] \in Nat
    /\ \A p \in Points : Record!Progress["none"] <= Record!Progress[p]
    /\ \A p \in Points : Record!Progress[p] <= Record!Progress["before"] =>
          p \in {"none", "before"}
    /\ \A p \in Points : Record!Progress[p] <= Record!Progress["after"] =>
          Record!Progress[p] < Record!Progress["tail"]
    /\ \A p, r \in Points : Record!Progress[p] <= Record!Progress[r] /\ p # r =>
          Record!Progress[p] < Record!Progress[r]
    /\ Record!Progress["none"] <= Record!Progress["before"]
    /\ Record!Progress["before"] <= Record!Progress["interrupted"]
    /\ Record!Progress["interrupted"] <= Record!Progress["after"]
    /\ Record!Progress["after"] <= Record!Progress["tail"]
    /\ Record!Progress["tail"] <= Record!Progress["end"]
  BY DEF Record!Progress, Points

\* A step of request q, the only one in progress on thread t, concerns no other job.
LEMMA JobFrame ==
    ASSUME TypeOK, JobInv, NEW q \in Requests, NEW t \in Threads, thread'[q] = t,
           pc[q] = "free" \/ thread[q] = t,
           \A p \in Requests \ {q} :
              /\ kind'[p] = kind[p] /\ thread'[p] = thread[p]
              /\ pc'[p] = pc[p] /\ pos'[p] = pos[p],
           \A p \in Requests \ {q} : Busy(p) => thread[p] # t,
           \A u \in Threads \ {t} :
              /\ row'[u] = row[u] /\ point'[u] = point[u]
              /\ u \in summary => u \in summary'
              /\ u \in issued => u \in issued',
           OnDuty(q)', OnRecord(t)'
    PROVE  JobInv'
  <1>1. ASSUME NEW p \in Requests \ {q} PROVE OnDuty(p)'
    <2>1. CASE Busy(p)
      <3>1. thread[p] \in Threads \ {t}
        BY <2>1 DEF TypeOK
      <3>2. QED
        BY <3>1 DEF JobInv, OnDuty, Record!Resting
    <2>2. CASE ~Busy(p)
      BY <2>2 DEF OnDuty, Busy, Handling, Working
    <2>3. QED
      BY <2>1, <2>2
  <1>2. ASSUME NEW u \in Threads \ {t} PROVE OnRecord(u)'
    BY <1>2 DEF JobInv, OnRecord
  <1>3. QED
    BY <1>1, <1>2 DEF JobInv

LEMMA JobNext ==
    ASSUME Client = "attentive", TypeOK, OneRequest, JobInv, [Next]_vars
    PROVE  JobInv' /\ RecordStep
  <1> USE DEF TypeOK, store, client, request, faults
  <1>1. CASE UNCHANGED vars
    BY <1>1 DEF vars, JobInv, OnDuty, OnRecord, Record!Resting, RecordStep, Record!record
  <1>2. CASE Crash
    BY <1>2 DEF Crash, JobInv, OnDuty, OnRecord, RecordStep, Record!record
  <1>3. ASSUME NEW q \in Requests, NEW t \in Threads,
               TriggerRun(q, t) \/ AcceptResume(q, t) \/ CheckDelete(q, t)
        PROVE  JobInv' /\ RecordStep
    <2>1. /\ pc[q] = "free" /\ thread'[q] = t /\ UNCHANGED <<pos, point, summary>>
          /\ \A p \in Requests \ {q} :
                kind'[p] = kind[p] /\ thread'[p] = thread[p] /\ pc'[p] = pc[p]
          /\ \A u \in Threads \ {t} : row'[u] = row[u]
          /\ \A u \in Threads : u \in issued => u \in issued'
      BY <1>3 DEF TriggerRun, AcceptResume, CheckDelete, Sent, Upsert
    <2>2. \A p \in Requests : Busy(p) => thread[p] # t
      BY <1>3 DEF TriggerRun, AcceptResume, CheckDelete, MaySend, OneRequest, Busy, UnderWay,
                  Handling
    <2>3. OnDuty(q)' /\ RecordStep
      <3>1. CASE TriggerRun(q, t)
        <4>1. OnDuty(q)'
          BY <3>1 DEF TriggerRun, Sent, OnDuty, JobInv, OnRecord
        <4>2. Record!Trigger(t)
          BY <3>1 DEF TriggerRun, Upsert, Record!Trigger
        <4>3. QED
          BY <4>1, <4>2 DEF Record!Next, RecordStep
      <3>2. CASE AcceptResume(q, t)
        <4>1. OnDuty(q)'
          BY <3>2 DEF AcceptResume, Sent, OnDuty
        <4>2. Record!Resume(t)
          BY <3>2 DEF AcceptResume, Upsert, Record!Resume, Record!Resting, Statuses
        <4>3. QED
          BY <4>1, <4>2 DEF Record!Next, RecordStep
      <3>3. CASE CheckDelete(q, t)
        BY <3>3 DEF CheckDelete, Sent, OnDuty, Record!Resting, Statuses, RecordStep,
                    Record!record
      <3>4. QED
        BY <1>3, <3>1, <3>2, <3>3
    <2>4. OnRecord(t)'
      BY <2>1 DEF JobInv, OnRecord
    <2>5. QED
      BY <2>1, <2>2, <2>3, <2>4, JobFrame
  <1>4. ASSUME NEW q \in Requests, Busy(q), UNCHANGED <<kind, thread, issued>>,
               \A p \in Requests \ {q} : pc'[p] = pc[p] /\ pos'[p] = pos[p],
               \A u \in Threads \ {thread[q]} :
                  row'[u] = row[u] /\ point'[u] = point[u] /\ (u \in summary => u \in summary'),
               OnDuty(q)', OnRecord(thread[q])'
        PROVE  JobInv'
    <2>1. \A p \in Requests \ {q} : Busy(p) => thread[p] # thread[q]
      BY <1>4 DEF OneRequest
    <2>2. QED
      BY <1>4, <2>1, JobFrame
  <1>5. ASSUME NEW q \in Requests, Busy(q), UNCHANGED <<row, summary, point, issued, deleted>>,
               UNCHANGED <<kind, thread>>,
               \A p \in Requests \ {q} : pc'[p] = pc[p] /\ pos'[p] = pos[p],
               OnDuty(q)'
        PROVE  JobInv' /\ RecordStep
    <2>1. OnRecord(thread[q])'
      BY <1>5 DEF JobInv, OnRecord
    <2>2. QED
      BY <1>4, <1>5, <2>1 DEF RecordStep, Record!record
  <1>6. ASSUME NEW q \in Requests, AnswerResume(q) \/ Invoke(q) \/ Outage(q)
        PROVE  JobInv' /\ RecordStep
    <2>1. OnDuty(q) /\ OnRecord(thread[q])
      BY DEF JobInv
    <2>2. CASE AnswerResume(q)
      <3>1. OnDuty(q)'
        BY <2>1, <2>2 DEF AnswerResume, Goes, OnDuty
      <3>2. QED
        BY <1>5, <2>2, <3>1 DEF AnswerResume, Goes, Busy, Handling
    <2>3. CASE Invoke(q)
      <3>1. OnDuty(q)'
        BY <2>1, <2>3, ProgressAt DEF Invoke, Goes, OnDuty, OnRecord
      <3>2. QED
        BY <1>5, <2>3, <3>1 DEF Invoke, Goes, Busy, Working
    <2>4. CASE Outage(q)
      <3>1. OnDuty(q)'
        BY <2>4 DEF Outage, Goes, OnDuty
      <3>2. QED
        BY <1>5, <2>4, <3>1 DEF Outage, Goes, Busy
    <2>5. QED
      BY <1>6, <2>2, <2>3, <2>4
  <1>7. ASSUME NEW q \in Requests, MarkRunning(q) PROVE JobInv' /\ RecordStep
    <2>1. row[thread[q]] = "running"
      BY <1>7 DEF MarkRunning, OneRequest, UnderWay, Working
    <2>2. row' = row
      BY <1>7, <2>1 DEF MarkRunning, Upsert
    <2>3. OnDuty(q)'
      BY <1>7 DEF MarkRunning, Goes, JobInv, OnDuty
    <2>4. QED
      BY <1>5, <1>7, <2>2, <2>3 DEF MarkRunning, Goes, Busy, Working
  <1>8. ASSUME NEW q \in Requests, DeleteCheckpoints(q) \/ DeleteRow(q)
        PROVE  JobInv' /\ RecordStep
    <2>1. OnDuty(q)
      BY DEF JobInv
    <2>2. CASE DeleteCheckpoints(q)
      <3>1. OnDuty(q)' /\ OnRecord(thread[q])'
        BY <2>1, <2>2 DEF DeleteCheckpoints, Goes, OnDuty, OnRecord, Record!Resting
      <3>2. JobInv'
        BY <1>4, <2>2, <3>1 DEF DeleteCheckpoints, Goes, Busy, Handling
      <3>3. Record!Purge(thread[q])
        BY <2>1, <2>2 DEF DeleteCheckpoints, OnDuty, Record!Purge
      <3>4. QED
        BY <3>2, <3>3 DEF Record!Next, RecordStep
    <2>3. CASE DeleteRow(q)
      <3>1. OnDuty(q)' /\ OnRecord(thread[q])'
        BY <2>1, <2>3 DEF DeleteRow, Goes, OnDuty, OnRecord
      <3>2. JobInv'
        BY <1>4, <2>3, <3>1 DEF DeleteRow, Goes, Busy, Handling
      <3>3. Record!Delete(thread[q])
        BY <2>1, <2>3 DEF DeleteRow, OnDuty, Record!Delete
      <3>4. QED
        BY <3>2, <3>3 DEF Record!Next, RecordStep
    <2>4. QED
      BY <1>8, <2>2, <2>3
  \* The graph.
  <1>9. ASSUME NEW q \in Requests, pc[q] = "driving"
        PROVE  /\ Busy(q) /\ row[thread[q]] = "running" /\ OnDuty(q) /\ OnRecord(thread[q])
               /\ thread[q] \in Threads /\ pos[q] \in Points /\ point[thread[q]] \in Points
    BY <1>9 DEF Busy, OneRequest, UnderWay, Working, JobInv
  <1>10. ASSUME NEW q \in Requests, Categorise(q) \/ Alert(q) \/ Report(q)
         PROVE  JobInv' /\ RecordStep
    <2>1. OnDuty(q)'
      <3>1. PICK from \in Points, to \in Points \ {"none", "tail"} :
              Drives(q, from, to) /\ Record!Progress[from] <= Record!Progress[to]
        BY <1>10, ProgressAt DEF Categorise, Alert, Report, Points
      <3>2. QED
        BY <1>9, <1>10, <3>1, ProgressAt DEF Drives, OnDuty, Categorise, Alert, Report
    <2>2. QED
      BY <1>5, <1>9, <1>10, <2>1 DEF Categorise, Alert, Report, Drives
  <1>11. ASSUME NEW q \in Requests, Cashflow(q) PROVE JobInv' /\ RecordStep
    <2>1. /\ pc[q] = "driving" /\ pc' = pc /\ thread' = thread /\ point' = point
          /\ pos[q] = "after" /\ pos'[q] = "tail" /\ thread[q] \in summary' /\ issued' = issued
      BY <1>9, <1>11 DEF Cashflow, Drives
    <2>2. OnDuty(q)' /\ OnRecord(thread[q])'
      BY <1>9, <2>1, ProgressAt DEF OnDuty, OnRecord, Points
    <2>3. JobInv'
      BY <1>4, <1>9, <1>11, <2>2 DEF Cashflow, Drives
    <2>4. Record!Summarise(thread[q])
      BY <1>9, <1>11, ProgressAt DEF Cashflow, Drives, OnDuty, Record!Summarise
    <2>5. QED
      BY <1>9, <2>3, <2>4 DEF Record!Next, RecordStep
  \* What stores the checkpoint of the point where the graph stands.
  <1>12. ASSUME NEW q \in Requests, pc[q] = "driving", NEW p \in Points,
                Record!Progress[pos[q]] <= Record!Progress[p], p = "tail" => pos[q] = p,
                point' = [point EXCEPT ![thread[q]] = p],
                UNCHANGED <<row, summary, issued, deleted, kind, thread>>,
                \A r \in Requests \ {q} : pc'[r] = pc[r] /\ pos'[r] = pos[r],
                OnDuty(q)'
         PROVE  JobInv' /\ RecordStep
    <2>1. OnRecord(thread[q])'
      BY <1>9, <1>12, ProgressAt DEF OnRecord, OnDuty, Points, OneRequest
    <2>2. JobInv'
      BY <1>4, <1>9, <1>12, <2>1
    <2>3. CASE point[thread[q]] = p
      BY <1>9, <1>12, <2>2, <2>3 DEF RecordStep, Record!record
    <2>4. CASE point[thread[q]] # p
      <3>1. Record!Progress[point[thread[q]]] < Record!Progress[p]
        BY <1>9, <1>12, <2>4, ProgressAt DEF OnDuty
      <3>2. Record!Advance(thread[q])
        BY <1>9, <1>12, <3>1, ProgressAt DEF OnDuty, Record!Advance
      <3>3. QED
        BY <1>9, <2>2, <3>2 DEF Record!Next, RecordStep
    <2>5. QED
      BY <2>3, <2>4
  <1>13. ASSUME NEW q \in Requests, Pause(q) PROVE JobInv' /\ RecordStep
    <2>1. OnDuty(q)'
      BY <1>9, <1>13 DEF Pause, Goes, OnDuty
    <2>2. QED
      BY <1>9, <1>12, <1>13, <2>1, ProgressAt DEF Pause, Goes, Points
  <1>14. ASSUME NEW q \in Requests, Return(q) \/ SaveCheckpoint(q) \/ NodeFails(q)
                                    \/ CashflowRefused(q)
         PROVE  JobInv' /\ RecordStep
    <2>1. pc[q] = "driving" /\ point' = [point EXCEPT ![thread[q]] = pos[q]]
      BY <1>14 DEF Return, SaveCheckpoint, NodeFails, CashflowRefused, Raises
    <2>2. OnDuty(q)'
      BY <1>9, <1>14, <2>1, ProgressAt DEF Return, SaveCheckpoint, NodeFails, CashflowRefused,
                                           Raises, Goes, OnDuty
    <2>3. Record!Progress[pos[q]] <= Record!Progress[pos[q]]
      BY <1>9, <2>1, ProgressAt
    <2>4. QED
      BY <1>9, <1>12, <1>14, <2>1, <2>2, <2>3 DEF Return, SaveCheckpoint, NodeFails,
                                                  CashflowRefused, Raises, Goes
  <1>15. ASSUME NEW q \in Requests, MarkFailed(q) \/ MarkOutcome(q) PROVE JobInv' /\ RecordStep
    <2>1. /\ Busy(q) /\ row[thread[q]] = "running" /\ OnDuty(q) /\ OnRecord(thread[q])
          /\ thread[q] \in Threads /\ point[thread[q]] \in Points
      BY <1>15 DEF MarkFailed, MarkOutcome, Busy, OneRequest, UnderWay, Working, JobInv
    <2>2. OnDuty(q)' /\ OnRecord(thread[q])'
      BY <1>15, <2>1 DEF MarkFailed, MarkOutcome, Goes, OnDuty, OnRecord
    <2>3. JobInv'
      BY <1>4, <1>15, <2>1, <2>2 DEF MarkFailed, MarkOutcome, Upsert, Goes
    <2>4. Record!Settle(thread[q])
      BY <1>15, <2>1 DEF MarkFailed, MarkOutcome, Outcome, Upsert, OnDuty, Record!Settle
    <2>5. QED
      BY <2>1, <2>3, <2>4 DEF Record!Next, RecordStep
  <1>16. QED
    BY <1>1, <1>2, <1>3, <1>6, <1>7, <1>8, <1>10, <1>11, <1>13, <1>14, <1>15 DEF Next, TaskStep

\* If clients are attentive, then the handlers and tasks of any number of requests, with
\* failures, outages and restarts, act like one job for each thread.
THEOREM Refinement == ASSUME Client = "attentive" PROVE Spec => ImplementsRecord
  <1>1. Init => JobInv /\ Record!Init
    BY DEF Init, JobInv, OnDuty, OnRecord, Record!Init
  <1>2. TypeOK /\ OneRequest /\ JobInv /\ [Next]_vars => JobInv' /\ RecordStep
    BY JobNext
  <1>3. Spec => Record!Init /\ [][RecordStep]_vars
    BY <1>1, <1>2, OneRequestInvariant, PTL DEF Spec
  <1>4. UNCHANGED vars => RecordStep
    BY DEF vars, RecordStep, Record!record
  <1>5. Spec => Record!Spec
    BY <1>3, <1>4, PTL DEF Record!Spec, RecordStep
  <1>6. QED
    BY <1>5 DEF ImplementsRecord

=============================================================================
