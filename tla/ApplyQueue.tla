----------------------------- MODULE ApplyQueue -----------------------------
(***************************************************************************)
(* core/chain_apply_queue.py: every change of the chain tip is a job, put  *)
(* by the thread of its caller into a bounded priority queue and run by    *)
(* one worker.  The clients are the P2P import path, the miner, which      *)
(* forges again without transactions when a forge fails, and the adapters  *)
(* of catch-up and fork reconcile, whose own wait is shorter than the      *)
(* queue's deadline.                                                       *)
(*                                                                         *)
(* Time: late holds the jobs whose deadline has passed.  A caller waits    *)
(* from after the deadline is set, so its timeout comes after it.          *)
(***************************************************************************)
EXTENDS Integers, FiniteSets

CONSTANTS Jobs,      \* submissions
          Stop,      \* the STOP job of stop()
          Kind,      \* what each job does
          Bridged,   \* jobs awaited by an adapter with a shorter timeout
          Follow,    \* the job its caller submits after a failure, or NoJob
          NoJob,
          MaxSize    \* the queue's maxsize

Kinds == {"REORG", "REORG_AND_IMPORT", "FORGE", "ADD", "IMPORT"}

ASSUME JobsAssumption ==
  /\ Stop \notin Jobs /\ NoJob \notin Jobs \cup {Stop}
  /\ IsFiniteSet(Jobs)
  /\ Kind \in [Jobs -> Kinds]
  /\ Bridged \subseteq Jobs
  /\ Follow \in [Jobs -> Jobs \cup {NoJob}]
  /\ \A j \in Jobs : Follow[j] # NoJob => Kind[j] \in {"FORGE", "REORG_AND_IMPORT"}
  /\ MaxSize \in Nat \ {0}

VARIABLES calls,     \* where the thread of each submission is
          seq,       \* _PriItem.seq
          lastSeq,   \* _seq
          queue,     \* _q
          futures,   \* the future of each job
          answers,   \* what each submission returned
          late,      \* jobs past their deadline
          gone,      \* jobs whose adapter has stopped waiting
          evicted,   \* forges whose transactions left the mempool
          before,    \* reject_total as the miner read it before a forge
          rejects,   \* reject_total
          effects,   \* what each job did to the chain
          worker,    \* the worker's place and job
          running,   \* _running
          passed     \* history: lower jobs started while each job was queued

callerVars == <<calls, answers, gone, evicted, before>>
queueVars  == <<seq, lastSeq, queue, rejects>>
vars == <<callerVars, queueVars, futures, late, effects, worker, running, passed>>

All == Jobs \cup {Stop}

Pri(j) ==
  IF j = Stop THEN 0
  ELSE CASE Kind[j] \in {"REORG", "REORG_AND_IMPORT"} -> 1
         [] Kind[j] = "FORGE"  -> 2
         [] Kind[j] = "ADD"    -> 3
         [] Kind[j] = "IMPORT" -> 4

\* Mutant: the lanes are compared the wrong way round.
BeforeReversed(j, k) == Pri(j) > Pri(k) \/ (Pri(j) = Pri(k) /\ seq[j] < seq[k])

\* The order of _PriItem.
Before(j, k) == Pri(j) < Pri(k) \/ (Pri(j) = Pri(k) /\ seq[j] < seq[k])

IsFirst(j) == j \in queue /\ \A k \in queue \ {j} : Before(j, k)

-----------------------------------------------------------------------------
(* Callers *)

\* The jobs that are submitted only after another one failed: the empty block
\* of the miner, the fallback of ForkReconcileP2PChainAdapter.
FollowUps == {Follow[j] : j \in Jobs} \ {NoJob}

Due(k) ==
  k \in FollowUps =>
    \E j \in Jobs : Follow[j] = k /\ (j \in evicted \/ (j \in gone /\ Kind[j] # "FORGE"))

\* _enqueue up to _put_job: the deadline is set and the number taken.
Submit(j) ==
  /\ calls[j] = "idle" /\ Due(j)
  /\ calls' = [calls EXCEPT ![j] = "numbered"]
  /\ lastSeq' = lastSeq + 1
  /\ seq' = [seq EXCEPT ![j] = lastSeq + 1]
  /\ before' = IF Follow[j] = NoJob THEN before ELSE [before EXCEPT ![j] = rejects]
  /\ UNCHANGED <<answers, gone, evicted, queue, rejects, futures, late, effects,
                 worker, running, passed>>

\* Mutant: a full queue drops the job without counting it.
PutFullSilent(j) ==
  /\ Cardinality(queue) >= MaxSize
  /\ futures' = [futures EXCEPT ![j] = "rejected"]
  /\ UNCHANGED <<queue, rejects>>

\* put_nowait raises Full.
PutFull(j) ==
  /\ Cardinality(queue) >= MaxSize
  /\ futures' = [futures EXCEPT ![j] = "rejected"]
  /\ rejects' = rejects + 1
  /\ UNCHANGED queue

\* Mutant: one job too many.
PutRoomOffByOne(j) ==
  /\ Cardinality(queue) <= MaxSize
  /\ queue' = queue \cup {j}
  /\ UNCHANGED <<futures, rejects>>

PutRoom(j) ==
  /\ Cardinality(queue) < MaxSize
  /\ queue' = queue \cup {j}
  /\ UNCHANGED <<futures, rejects>>

\* put_nowait, outside the lock that numbered the job.
Put(j) ==
  /\ calls[j] = "numbered"
  /\ calls' = [calls EXCEPT ![j] = "waiting"]
  /\ PutRoom(j) \/ PutFull(j)
  /\ UNCHANGED <<answers, gone, evicted, before, seq, lastSeq, late, effects,
                 worker, running, passed>>

\* The deadline passes; once the future is set nobody looks at it.
Expire(j) ==
  /\ calls[j] \in {"numbered", "waiting"} /\ futures[j] = "none" /\ j \notin late
  /\ late' = late \cup {j}
  /\ UNCHANGED <<callerVars, queueVars, futures, effects, worker, running, passed>>

Answer(j, ok) ==
  /\ calls' = [calls EXCEPT ![j] = "done"]
  /\ answers' = [answers EXCEPT ![j] = ok]
  /\ UNCHANGED <<gone, evicted, before, queueVars, futures, late, effects, worker,
                 running, passed>>

\* _result_or_timeout returns the future's result; submit_* makes it a Boolean.
Return(j) ==
  /\ calls[j] = "waiting" /\ futures[j] # "none"
  /\ Answer(j, IF futures[j] = "true" THEN "true" ELSE "false")

\* Mutant: the caller waits for the result as long as it takes.
TimeoutNever(j) == FALSE /\ Answer(j, "false")

\* _result_or_timeout gives up; the job stays where it is.
Timeout(j) ==
  /\ calls[j] = "waiting" /\ futures[j] = "none" /\ j \in late
  /\ Answer(j, "false")

\* fut.result(timeout=30) of the catch-up adapter and timeout=60 of the fork
\* adapter end before the queue's 120 seconds; nothing is cancelled.
GiveUp(j) ==
  /\ j \in Bridged \ gone /\ calls[j] \in {"numbered", "waiting"} /\ j \notin late
  /\ gone' = gone \cup {j}
  /\ UNCHANGED <<calls, answers, evicted, before, queueVars, futures, late, effects,
                 worker, running, passed>>

\* The miner: a forge that failed while reject_total stood still is taken for a
\* bad block, its transactions leave the mempool and an empty block is forged.
Evict(j) ==
  /\ Kind[j] = "FORGE" /\ Follow[j] # NoJob /\ j \notin evicted
  /\ calls[j] = "done" /\ answers[j] = "false" /\ rejects = before[j]
  /\ evicted' = evicted \cup {j}
  /\ UNCHANGED <<calls, answers, gone, before, queueVars, futures, late, effects,
                 worker, running, passed>>

-----------------------------------------------------------------------------
(* stop() *)

ClearRunning ==
  /\ running /\ calls[Stop] = "idle"
  /\ running' = FALSE
  /\ lastSeq' = lastSeq + 1
  /\ seq' = [seq EXCEPT ![Stop] = lastSeq + 1]
  /\ calls' = [calls EXCEPT ![Stop] = "numbered"]
  /\ UNCHANGED <<answers, gone, evicted, before, queue, rejects, futures, late,
                 effects, worker, passed>>

\* A full queue drops STOP silently.
PutStop ==
  /\ calls[Stop] = "numbered"
  /\ calls' = [calls EXCEPT ![Stop] = "done"]
  /\ queue' = IF Cardinality(queue) < MaxSize THEN queue \cup {Stop} ELSE queue
  /\ UNCHANGED <<answers, gone, evicted, before, seq, lastSeq, rejects, futures,
                 late, effects, worker, running, passed>>

-----------------------------------------------------------------------------
(* The worker *)

At(pc, j) == [pc |-> pc, job |-> j]

\* Mutant: only STOP ends the loop.
WorkerLoopForever ==
  /\ worker.pc = "loop"
  /\ worker' = At("get", NoJob)
  /\ UNCHANGED <<callerVars, queueVars, futures, late, effects, running, passed>>

\* while self._running
WorkerLoop ==
  /\ worker.pc = "loop"
  /\ worker' = At(IF running THEN "get" ELSE "exited", NoJob)
  /\ UNCHANGED <<callerVars, queueVars, futures, late, effects, running, passed>>

\* get times out.
WorkerIdle ==
  /\ worker.pc = "get" /\ queue = {}
  /\ worker' = At("loop", NoJob)
  /\ UNCHANGED <<callerVars, queueVars, futures, late, effects, running, passed>>

\* get returns a job.
WorkerGet(j) ==
  /\ worker.pc = "get" /\ IsFirst(j)
  /\ queue' = queue \ {j}
  /\ worker' = At("got", j)
  /\ UNCHANGED <<callerVars, seq, lastSeq, rejects, futures, late, effects, running,
                 passed>>

WorkerStop ==
  /\ worker = At("got", Stop)
  /\ worker' = At("exited", NoJob)
  /\ UNCHANGED <<callerVars, queueVars, futures, late, effects, running, passed>>

SetFuture(j, r) == futures' = [futures EXCEPT ![j] = r]

\* Mutant: an expired job is answered and run all the same.
WorkerSkipRuns(j) ==
  /\ worker = At("got", j) /\ j \in late
  /\ SetFuture(j, "expired")
  /\ worker' = At("run", j)
  /\ UNCHANGED <<callerVars, queueVars, late, effects, running, passed>>

\* The deadline has passed: the job is answered and skipped.
WorkerSkip(j) ==
  /\ worker = At("got", j) /\ j \in late
  /\ SetFuture(j, "expired")
  /\ worker' = At("loop", NoJob)
  /\ UNCHANGED <<callerVars, queueVars, late, effects, running, passed>>

\* History: j starts while the jobs of higher lanes wait in the queue.
Overtake(j) ==
  [k \in Jobs |-> IF k \in queue /\ Pri(j) > Pri(k) THEN passed[k] \cup {j}
                 ELSE passed[k]]

\* Mutant: the deadline is not looked at.
WorkerStartLate(j) ==
  /\ worker = At("got", j)
  /\ worker' = At("run", j)
  /\ passed' = Overtake(j)
  /\ UNCHANGED <<callerVars, queueVars, futures, late, effects, running>>

WorkerStart(j) ==
  /\ worker = At("got", j) /\ j \notin late
  /\ worker' = At("run", j)
  /\ passed' = Overtake(j)
  /\ UNCHANGED <<callerVars, queueVars, futures, late, effects, running>>

\* What _dispatch may do to the chain and answer.  A reorg whose import fails
\* has rolled the chain back.  An exception is answered like False.
Outcomes(kind) ==
  {<<"applied", "true">>, <<"none", "false">>} \cup
  IF kind = "REORG_AND_IMPORT" THEN {<<"rolled_back", "false">>} ELSE {}

\* _dispatch ends; the future is set if it is still open.
WorkerFinish(j, o) ==
  /\ worker = At("run", j) /\ o \in Outcomes(Kind[j])
  /\ effects' = [effects EXCEPT ![j] = o[1]]
  /\ SetFuture(j, IF futures[j] = "none" THEN o[2] ELSE futures[j])
  /\ worker' = At("loop", NoJob)
  /\ UNCHANGED <<callerVars, queueVars, late, running, passed>>

-----------------------------------------------------------------------------

Init ==
  /\ calls = [j \in All |-> "idle"]
  /\ seq = [j \in All |-> 0]
  /\ lastSeq = 0
  /\ queue = {}
  /\ futures = [j \in Jobs |-> "none"]
  /\ answers = [j \in Jobs |-> "none"]
  /\ late = {} /\ gone = {} /\ evicted = {}
  /\ before = [j \in Jobs |-> 0]
  /\ rejects = 0
  /\ effects = [j \in Jobs |-> "none"]
  /\ worker = At("loop", NoJob)
  /\ running = TRUE
  /\ passed = [j \in Jobs |-> {}]

Caller(j) ==
  Submit(j) \/ Put(j) \/ Expire(j) \/ Return(j) \/ Timeout(j) \/ GiveUp(j) \/ Evict(j)

WorkerJob(j) ==
  \/ WorkerSkip(j) \/ WorkerStart(j)
  \/ \E o \in Outcomes(Kind[j]) : WorkerFinish(j, o)

Worker ==
  \/ WorkerLoop \/ WorkerIdle \/ WorkerStop
  \/ \E j \in All : WorkerGet(j)
  \/ \E j \in Jobs : WorkerJob(j)

Next == (\E j \in Jobs : Caller(j)) \/ ClearRunning \/ PutStop \/ Worker

Spec == Init /\ [][Next]_vars

\* The worker thread runs and a dispatch ends (blocks are bounded by gas); a
\* thread that has entered submit_* goes on, and time passes.  Nobody has to
\* submit, to call stop() or to give up.
Fairness ==
  /\ WF_vars(Worker) /\ WF_vars(PutStop)
  /\ \A j \in Jobs : WF_vars(Put(j) \/ Expire(j) \/ Return(j) \/ Timeout(j))

FairSpec == Spec /\ Fairness

-----------------------------------------------------------------------------
(* Properties *)

TypeOK ==
  /\ calls \in [All -> {"idle", "numbered", "waiting", "done"}]
  /\ seq \in [All -> Nat] /\ lastSeq \in Nat /\ rejects \in Nat
  /\ queue \subseteq All /\ Cardinality(queue) <= MaxSize
  /\ futures \in [Jobs -> {"none", "true", "false", "rejected", "expired"}]
  /\ answers \in [Jobs -> {"none", "true", "false"}]
  /\ late \subseteq Jobs /\ gone \subseteq Bridged /\ evicted \subseteq Jobs
  /\ before \in [Jobs -> Nat]
  /\ effects \in [Jobs -> {"none", "applied", "rolled_back"}]
  /\ worker \in [pc : {"loop", "get", "got", "run", "exited"}, job : All \cup {NoJob}]
  /\ running \in BOOLEAN
  /\ passed \in [Jobs -> SUBSET Jobs]

\* A submission that returns True has changed the chain, and one that was
\* refused or expired has not and will not, whichever of the caller, the worker
\* and the clock moved first (chain_apply_queue.py:130-161, 238-254).
HonestAnswers ==
  \A j \in Jobs :
    /\ answers[j] = "true" => effects[j] = "applied"
    /\ futures[j] \in {"rejected", "expired"} =>
         effects[j] = "none" /\ j \notin queue /\ worker.job # j

\* chain_apply_queue.py:8-9: a job that has not started when its submit_* call
\* gives up is never started.
NoLateStart ==
  [][\A j \in Jobs : worker.pc # "run" /\ worker' = At("run", j)
                       => calls[j] # "done"]_vars

\* CHANGELOG.md:834, floods of imports do not hold up a reorg or a forge "once
\* jobs are queued": at most one job of a lower lane, the one already taken,
\* starts while a job waits.
BoundedBypass ==
  \A j \in Jobs : \A k, l \in passed[j] : k = l

\* main.py:2168-2171: transactions of a forge that the full queue refused stay
\* in the mempool, although reject_total is shared by all callers.
RejectedTxsKept == \A j \in evicted : futures[j] # "rejected"

\* Every submission returns, also when stop() leaves its job in the queue.
EveryCallAnswered == \A j \in Jobs : calls[j] = "numbered" ~> calls[j] = "done"

\* The worker ends after stop(), also when the full queue dropped STOP.
WorkerExits == ~running ~> worker.pc = "exited"

=============================================================================
