-------------------------- MODULE ApplyQueueProofs --------------------------
(***************************************************************************)
(* What the apply queue keeps for every set of jobs, every queue size and  *)
(* every interleaving of callers, worker, clock and stop().                *)
(***************************************************************************)
EXTENDS ApplyQueue, FiniteSetTheorems, TLAPS

\* The worker has a job from the get to the end of its turn, and STOP is never run.
WorkerHolds ==
  /\ worker.pc \in {"loop", "get", "exited"} <=> worker.job = NoJob
  /\ worker.pc = "run" => worker.job \in Jobs

\* A job is untouched until it is put, and its future is open while it is queued or
\* in the worker's hands; a future once set stays, and says what was done.
JobLife ==
  \A j \in Jobs :
    /\ calls[j] \in {"idle", "numbered"} =>
         futures[j] = "none" /\ j \notin queue /\ worker.job # j
    /\ j \in queue \/ worker.job = j => futures[j] = "none"
    /\ j \in queue => worker.job # j
    /\ futures[j] \in {"none", "rejected", "expired"} => effects[j] = "none"
    /\ futures[j] = "true" => effects[j] = "applied"
    /\ answers[j] = "true" => futures[j] = "true"

\* A call that has returned was answered, or its deadline had passed.
Returned == \A j \in Jobs : calls[j] = "done" => futures[j] # "none" \/ j \in late

\* The miner's reading of reject_total is older than a refusal of its forge.
ReadingsOld ==
  \A j \in Jobs :
    /\ Follow[j] # NoJob /\ calls[j] # "idle" => before[j] <= rejects
    /\ Follow[j] # NoJob /\ futures[j] = "rejected" => before[j] < rejects
    /\ j \in evicted => calls[j] = "done" /\ futures[j] # "rejected"

\* Whoever was overtaken is overtaken no more: the job in the worker's hands is of
\* a lower lane only than queued jobs that nobody has passed yet.
PassedOnce ==
  \A k \in Jobs :
    /\ \A l, m \in passed[k] : l = m
    /\ calls[k] \in {"idle", "numbered"} => passed[k] = {}
    /\ \A l \in All : k \in queue /\ worker = At("got", l) /\ Pri(l) > Pri(k)
                       => passed[k] = {}


-----------------------------------------------------------------------------
(* Types *)

LEMMA AllFinite == IsFiniteSet(All)
BY JobsAssumption, FS_AddElement, FS_Singleton, FS_Union DEF All

LEMMA QueueFinite ==
  ASSUME TypeOK
  PROVE  IsFiniteSet(queue) /\ Cardinality(queue) \in Nat
BY AllFinite, FS_Subset, FS_CardinalityType DEF TypeOK

LEMMA TypeInit == Init => TypeOK
<1> SUFFICES ASSUME Init PROVE TypeOK
  OBVIOUS
<1>1. Cardinality({}) = 0
  BY FS_EmptySet
<1> QED BY <1>1, JobsAssumption DEF Init, TypeOK, All, At

\* A job that is put into a queue with a place left leaves it within its size.
LEMMA RoomEnough ==
  ASSUME TypeOK, NEW j \in All, Cardinality(queue) < MaxSize
  PROVE  Cardinality(queue \cup {j}) <= MaxSize
<1>1. MaxSize \in Nat /\ Cardinality(queue) \in Nat /\ IsFiniteSet(queue)
  BY QueueFinite, JobsAssumption
<1>2. \/ Cardinality(queue \cup {j}) = Cardinality(queue)
      \/ Cardinality(queue \cup {j}) = Cardinality(queue) + 1
  BY <1>1, FS_AddElement
<1> QED BY <1>1, <1>2

LEMMA TypeStep == TypeOK /\ [Next]_vars => TypeOK'
<1> SUFFICES ASSUME TypeOK, [Next]_vars PROVE TypeOK'
  OBVIOUS
<1> USE DEF callerVars, queueVars
<1>1. ASSUME NEW j \in Jobs, Submit(j) PROVE TypeOK'
  BY <1>1 DEF Submit, TypeOK, All
<1>2. ASSUME NEW j \in Jobs, Put(j) PROVE TypeOK'
  <2>1. CASE PutRoom(j)
    BY <1>2, <2>1, RoomEnough DEF Put, PutRoom, TypeOK, All
  <2>2. CASE PutFull(j)
    BY <1>2, <2>2 DEF Put, PutFull, TypeOK, All
  <2> QED BY <1>2, <2>1, <2>2 DEF Put
<1>3. ASSUME NEW j \in Jobs, Expire(j) PROVE TypeOK'
  BY <1>3 DEF Expire, TypeOK, All
<1>4. ASSUME NEW j \in Jobs, Return(j) \/ Timeout(j) PROVE TypeOK'
  BY <1>4 DEF Return, Timeout, Answer, TypeOK, All
<1>5. ASSUME NEW j \in Jobs, GiveUp(j) \/ Evict(j) PROVE TypeOK'
  BY <1>5 DEF GiveUp, Evict, TypeOK, All
<1>6. CASE ClearRunning
  <2>1. running' \in BOOLEAN
    BY <1>6, Zenon DEF ClearRunning
  <2>2. /\ lastSeq' = lastSeq + 1
        /\ seq' = [seq EXCEPT ![Stop] = lastSeq + 1]
        /\ calls' = [calls EXCEPT ![Stop] = "numbered"]
        /\ UNCHANGED <<answers, gone, evicted, before, queue, rejects, futures, late,
                       effects, worker, passed>>
    BY <1>6 DEF ClearRunning
  <2> QED BY <2>1, <2>2 DEF TypeOK, All
<1>7. CASE PutStop
  BY <1>7, RoomEnough DEF PutStop, TypeOK, All
<1>8. CASE WorkerLoop \/ WorkerIdle \/ WorkerStop
  BY <1>8 DEF WorkerLoop, WorkerIdle, WorkerStop, TypeOK, All, At
<1>9. ASSUME NEW j \in All, WorkerGet(j) PROVE TypeOK'
  <2>1. Cardinality(queue \ {j}) <= Cardinality(queue) /\ Cardinality(queue \ {j}) \in Nat
    BY QueueFinite, FS_Subset, FS_CardinalityType
  <2> QED BY <1>9, <2>1, QueueFinite, JobsAssumption DEF WorkerGet, TypeOK, All, At
<1>10. ASSUME NEW j \in Jobs, WorkerSkip(j) PROVE TypeOK'
  BY <1>10 DEF WorkerSkip, SetFuture, TypeOK, All, At
<1>11. ASSUME NEW j \in Jobs, WorkerStart(j) PROVE TypeOK'
  BY <1>11 DEF WorkerStart, Overtake, TypeOK, All, At
<1>12. ASSUME NEW j \in Jobs, NEW o \in Outcomes(Kind[j]), WorkerFinish(j, o) PROVE TypeOK'
  BY <1>12 DEF WorkerFinish, Outcomes, SetFuture, TypeOK, All, At
<1>13. CASE UNCHANGED vars
  BY <1>13 DEF vars, TypeOK
<1> QED
  BY <1>1, <1>2, <1>3, <1>4, <1>5, <1>6, <1>7, <1>8, <1>9, <1>10, <1>11, <1>12, <1>13
     DEF Next, Caller, Worker, WorkerJob

\* The queue never holds more than its size, whoever puts at the same time, and
\* every future, answer and effect is one of those the code knows
\* (chain_apply_queue.py:123-161, 228-292).
THEOREM TypeCorrect == Spec => []TypeOK
BY TypeInit, TypeStep, PTL DEF Spec

-----------------------------------------------------------------------------
(* The life of a job *)

LEMMA LifeInit == Init => WorkerHolds /\ JobLife /\ Returned
BY JobsAssumption DEF Init, WorkerHolds, JobLife, Returned, At, All

LEMMA LifeStep ==
  TypeOK /\ WorkerHolds /\ JobLife /\ Returned /\ [Next]_vars
    => (WorkerHolds /\ JobLife /\ Returned)'
<1> SUFFICES ASSUME TypeOK, WorkerHolds, JobLife, Returned, [Next]_vars
             PROVE  (WorkerHolds /\ JobLife /\ Returned)'
  OBVIOUS
<1> USE JobsAssumption DEF callerVars, queueVars, TypeOK, WorkerHolds, JobLife, Returned, All
<1>1. ASSUME NEW j \in Jobs, Submit(j) PROVE (WorkerHolds /\ JobLife /\ Returned)'
  BY <1>1 DEF Submit
<1>2. ASSUME NEW j \in Jobs, Put(j) PROVE (WorkerHolds /\ JobLife /\ Returned)'
  BY <1>2 DEF Put, PutRoom, PutFull
<1>3. ASSUME NEW j \in Jobs, Expire(j) PROVE (WorkerHolds /\ JobLife /\ Returned)'
  BY <1>3 DEF Expire
<1>4. ASSUME NEW j \in Jobs, Return(j) \/ Timeout(j)
      PROVE  (WorkerHolds /\ JobLife /\ Returned)'
  BY <1>4 DEF Return, Timeout, Answer
<1>5. ASSUME NEW j \in Jobs, GiveUp(j) \/ Evict(j)
      PROVE  (WorkerHolds /\ JobLife /\ Returned)'
  BY <1>5 DEF GiveUp, Evict
<1>6. CASE ClearRunning
  BY <1>6 DEF ClearRunning
<1>7. CASE PutStop
  BY <1>7 DEF PutStop
<1>8. CASE WorkerLoop \/ WorkerIdle \/ WorkerStop
  BY <1>8 DEF WorkerLoop, WorkerIdle, WorkerStop, At
<1>9. ASSUME NEW j \in All, WorkerGet(j) PROVE (WorkerHolds /\ JobLife /\ Returned)'
  BY <1>9 DEF WorkerGet, IsFirst, At
<1>10. ASSUME NEW j \in Jobs, WorkerSkip(j) PROVE (WorkerHolds /\ JobLife /\ Returned)'
  BY <1>10 DEF WorkerSkip, SetFuture, At
<1>11. ASSUME NEW j \in Jobs, WorkerStart(j) PROVE (WorkerHolds /\ JobLife /\ Returned)'
  BY <1>11 DEF WorkerStart, At
<1>12. ASSUME NEW j \in Jobs, NEW o \in Outcomes(Kind[j]), WorkerFinish(j, o)
       PROVE  (WorkerHolds /\ JobLife /\ Returned)'
  BY <1>12 DEF WorkerFinish, Outcomes, SetFuture, At
<1>13. CASE UNCHANGED vars
  BY <1>13 DEF vars
<1> QED
  BY <1>1, <1>2, <1>3, <1>4, <1>5, <1>6, <1>7, <1>8, <1>9, <1>10, <1>11, <1>12, <1>13
     DEF Next, Caller, Worker, WorkerJob

Life == TypeOK /\ WorkerHolds /\ JobLife /\ Returned

LEMMA LifeHolds == Spec => []Life
<1>1. Init => Life
  BY TypeInit, LifeInit DEF Life
<1>2. Life /\ [Next]_vars => Life'
  BY TypeStep, LifeStep DEF Life
<1> QED BY <1>1, <1>2, PTL DEF Spec

\* A submission that returns True has changed the chain, and a job that was refused
\* or that expired has not and will not, whichever of caller, worker, clock and
\* stop() moves first (chain_apply_queue.py:130-161, 238-254).
THEOREM AnswersHonest == Spec => []HonestAnswers
<1>1. Life => HonestAnswers
  BY DEF Life, JobLife, HonestAnswers
<1> QED BY <1>1, LifeHolds, PTL

\* A job that has not started when its submit_* call gives up is never started: the
\* worker looks at the deadline that the caller waited for
\* (chain_apply_queue.py:8-9, 238-247).
THEOREM NothingStartsLate == Spec => NoLateStart
<1>1. Life /\ [Next]_vars
        => [\A j \in Jobs : worker.pc # "run" /\ worker' = At("run", j)
                               => calls[j] # "done"]_vars
  <2> SUFFICES ASSUME Life, Next, NEW j \in Jobs,
                      worker.pc # "run", worker' = At("run", j), calls[j] = "done"
               PROVE  FALSE
    OBVIOUS
  <2>1. worker' # worker
    BY DEF At
  <2>2. worker'.pc = "run" /\ worker'.job = j
    BY DEF At
  <2>3. WorkerStart(j)
    BY <2>1, <2>2 DEF Next, Caller, Submit, Put, Expire, Return, Timeout, Answer, GiveUp,
         Evict, ClearRunning, PutStop, Worker, WorkerLoop, WorkerIdle, WorkerStop,
         WorkerGet, WorkerJob, WorkerSkip, WorkerStart, WorkerFinish, At
  <2>4. worker.job = j /\ j \notin late
    BY <2>3 DEF WorkerStart, At
  <2> QED BY <2>4 DEF Life, JobLife, Returned
<1> QED BY <1>1, LifeHolds, PTL DEF Spec, NoLateStart

-----------------------------------------------------------------------------
(* The miner's reading of reject_total *)

LEMMA ReadingsStep == Life /\ ReadingsOld /\ [Next]_vars => ReadingsOld'
<1> SUFFICES ASSUME Life, ReadingsOld, [Next]_vars PROVE ReadingsOld'
  OBVIOUS
<1> USE DEF callerVars, queueVars, TypeOK, JobLife, Life, ReadingsOld, All
<1>1. ASSUME NEW j \in Jobs, Submit(j) PROVE ReadingsOld'
  BY <1>1 DEF Submit
<1>2. ASSUME NEW j \in Jobs, Put(j) PROVE ReadingsOld'
  BY <1>2 DEF Put, PutRoom, PutFull
<1>3. ASSUME NEW j \in Jobs, Expire(j) \/ Return(j) \/ Timeout(j) \/ GiveUp(j)
      PROVE  ReadingsOld'
  BY <1>3 DEF Expire, Return, Timeout, Answer, GiveUp
<1>4. ASSUME NEW j \in Jobs, Evict(j) PROVE ReadingsOld'
  BY <1>4 DEF Evict
<1>5. CASE ClearRunning \/ PutStop
  BY <1>5, JobsAssumption DEF ClearRunning, PutStop
<1>6. CASE WorkerLoop \/ WorkerIdle \/ WorkerStop \/ \E j \in All : WorkerGet(j)
  BY <1>6 DEF WorkerLoop, WorkerIdle, WorkerStop, WorkerGet
<1>7. ASSUME NEW j \in Jobs, WorkerJob(j) PROVE ReadingsOld'
  BY <1>7 DEF WorkerJob, WorkerSkip, WorkerStart, WorkerFinish, Outcomes, SetFuture, At
<1>8. CASE UNCHANGED vars
  BY <1>8 DEF vars
<1> QED
  BY <1>1, <1>2, <1>3, <1>4, <1>5, <1>6, <1>7, <1>8 DEF Next, Caller, Worker

\* Transactions of a forge that the full queue refused stay in the mempool, although
\* reject_total is shared by all callers: the miner read it before its own refusal
\* was counted (main.py:2168-2171).
THEOREM RefusedForgeKeepsTxs == Spec => []RejectedTxsKept
<1>1. Init => ReadingsOld
  BY DEF Init, ReadingsOld, All
<1>2. TypeOK /\ ReadingsOld => RejectedTxsKept
  BY DEF TypeOK, ReadingsOld, RejectedTxsKept
<1>3. Life => TypeOK
  BY DEF Life
<1> QED BY <1>1, <1>2, <1>3, ReadingsStep, LifeHolds, PTL DEF Spec

-----------------------------------------------------------------------------
(* Overtaking *)

LEMMA PriType == \A j \in All : Pri(j) \in Nat
BY JobsAssumption DEF Pri, All, Kinds

\* Nobody in the queue is of a higher lane than what the worker takes.
LEMMA FirstIsHighest ==
  ASSUME TypeOK, NEW j \in All, IsFirst(j), NEW k \in queue
  PROVE  Pri(j) <= Pri(k)
BY PriType DEF IsFirst, Before, TypeOK

LEMMA PassedStep == Life /\ PassedOnce /\ [Next]_vars => PassedOnce'
<1> SUFFICES ASSUME Life, PassedOnce, [Next]_vars PROVE PassedOnce'
  OBVIOUS
<1> USE DEF callerVars, queueVars
<1>1. ASSUME NEW j \in Jobs, Submit(j) PROVE PassedOnce'
  BY <1>1 DEF Submit, PassedOnce, Life, TypeOK, All
<1>2. ASSUME NEW j \in Jobs, Put(j) PROVE PassedOnce'
  BY <1>2 DEF Put, PutRoom, PutFull, PassedOnce, Life, TypeOK, All
<1>3. ASSUME NEW j \in Jobs, Expire(j) \/ Return(j) \/ Timeout(j) \/ GiveUp(j) \/ Evict(j)
      PROVE  PassedOnce'
  BY <1>3 DEF Expire, Return, Timeout, Answer, GiveUp, Evict, PassedOnce, Life, TypeOK,
              All, At
<1>4. CASE ClearRunning \/ PutStop
  BY <1>4, JobsAssumption DEF ClearRunning, PutStop, PassedOnce, Life, TypeOK, All
<1>5. CASE WorkerLoop \/ WorkerIdle \/ WorkerStop
  BY <1>5 DEF WorkerLoop, WorkerIdle, WorkerStop, PassedOnce, At
<1>6. ASSUME NEW j \in All, WorkerGet(j) PROVE PassedOnce'
  <2>1. \A k \in queue : ~(Pri(j) > Pri(k))
    BY <1>6, FirstIsHighest, PriType DEF WorkerGet, Life, TypeOK
  <2>2. worker' = At("got", j) /\ queue' \subseteq queue /\ UNCHANGED <<calls, passed>>
    BY <1>6 DEF WorkerGet
  <2> QED BY <2>1, <2>2 DEF PassedOnce, At
<1>7. ASSUME NEW j \in Jobs, WorkerStart(j) PROVE PassedOnce'
  <2>1. worker = At("got", j) /\ worker'.pc = "run"
        /\ UNCHANGED <<calls, queue>>
    BY <1>7 DEF WorkerStart, At
  <2>2. \A k \in Jobs : \/ passed'[k] = passed[k]
                        \/ k \in queue /\ passed[k] = {} /\ passed'[k] = {j}
    BY <1>7, <2>1 DEF WorkerStart, Overtake, PassedOnce, All
  <2>3. \A k \in Jobs, l \in All : worker' # At("got", l)
    BY <2>1 DEF At
  <2>4. \A k \in Jobs : k \in queue => calls[k] \notin {"idle", "numbered"}
    BY DEF Life, JobLife
  <2> QED BY <2>1, <2>2, <2>3, <2>4 DEF PassedOnce
<1>8. ASSUME NEW j \in Jobs, WorkerSkip(j) PROVE PassedOnce'
  BY <1>8 DEF WorkerSkip, PassedOnce, At
<1>9. ASSUME NEW j \in Jobs, NEW o \in Outcomes(Kind[j]), WorkerFinish(j, o) PROVE PassedOnce'
  BY <1>9 DEF WorkerFinish, PassedOnce, At
<1>10. CASE UNCHANGED vars
  BY <1>10 DEF vars, PassedOnce
<1> QED
  BY <1>1, <1>2, <1>3, <1>4, <1>5, <1>6, <1>7, <1>8, <1>9, <1>10
     DEF Next, Caller, Worker, WorkerJob

\* While a job is queued at most one job of a lower lane starts, the one that the
\* worker had already taken, however many imports flood the queue
\* (chain_apply_queue.py:36-43, 55-61, 123-128; CHANGELOG.md:834).
THEOREM BypassBounded == Spec => []BoundedBypass
<1>1. Init => PassedOnce
  BY DEF Init, PassedOnce
<1>2. PassedOnce => BoundedBypass
  BY DEF PassedOnce, BoundedBypass
<1> QED BY <1>1, <1>2, PassedStep, LifeHolds, PTL DEF Spec

=============================================================================
