----------------------------- MODULE SolicitHub -----------------------------
(***************************************************************************)
(* Requests to one peer and their answers: sync/solicit.py and             *)
(* P2PNode._wait_peer_response.  The coroutines that talk to the           *)
(* peer share one waiter, under the solicit lock of the peer.  Requests    *)
(* and answers carry no number: the waiter tells an answer by its type and *)
(* by the request that is armed when the answer is read.  TCP keeps the    *)
(* order of messages; only their delay is open.                            *)
(*                                                                         *)
(* A task has a control state pc[t] and its local variables job[t].  The   *)
(* tasks are the sync task of the peer, the loop that reads the peer's     *)
(* messages and runs their handlers, the mining loop while it waits for a  *)
(* probe, and the probes that it starts without waiting for them.          *)
(***************************************************************************)
EXTENDS BlockTree, SequencesExt

CONSTANTS Probers,     \* probes after a forged block, which nobody waits for
          MaxLate      \* waits that end although an answer would come

ASSUME HubAssumption ==
  /\ IsFiniteSet(Probers) /\ Probers \cap {"sync", "reader", "miner", "gone", "nobody"} = {}
  /\ MaxLate \in Nat

\* A chain begins with a block of height 0.
ASSUME GenesisAssumption == \A b \in Blocks : Parent[b] = None => Height[b] = 0

VARIABLES head,        \* the last block of the local chain
          remote,      \* the last block of the peer's chain
          wire,        \* messages of the peer that are not read
          waiter,      \* the call whose request is armed, or NoWaiter
          line,        \* the calls that wait for the lock of the peer
          pc, job,     \* control state and local variables of the tasks
          struck,      \* the peer got a strike that counts towards a ban
          late         \* waits that ended although an answer would come

hubVars == <<wire, waiter, line, struck, late>>

Tasks == {"sync", "reader", "miner"} \cup Probers

\* Where a task is when it has nothing to do.
Home(t) == IF t = "reader" THEN "read" ELSE "idle"

\* A call of _wait_peer_response: the task that waits for it, "gone" when it has
\* given up, the request, whether it is repeated when it fails, and whether it
\* had to wait for the lock.
Call(t, r, again) == [by |-> t, req |-> r, again |-> again, queued |-> FALSE]

NoRequest == [kind |-> "none", at |-> 0, to |-> 0, want |-> None]
NoWaiter  == Call("nobody", NoRequest, FALSE)

Blank == [next |-> "idle", got |-> <<>>,
          view |-> [height |-> 0, head |-> None], seen |-> None, peerh |-> 0,
          round |-> 0, cursor |-> 0, moved |-> FALSE]

\* What outlives a request and its answer.
Kept(j) == [Blank EXCEPT !.view = j.view, !.round = j.round, !.cursor = j.cursor]

\* The block of height h on the chain that ends in b.
BlockAt(b, h) ==
  IF h \in 0..Height[b] THEN CHOOSE x \in Ancestors[b] : Height[x] = h ELSE None

\* The block a body of height h is expected to follow.
ExpectedParent(h) == IF h - 1 <= Height[head] THEN BlockAt(head, h - 1) ELSE head

-----------------------------------------------------------------------------
(* Requests.  "want" is what the answer is held against: the block that is  *)
(* asked for, the parent of the first block of a range, or the block of the *)
(* local chain whose state root is compared.                                *)

RootRequest(h) == [kind |-> "root", at |-> h, to |-> h, want |-> BlockAt(head, h)]

BlockRequest(b) == [kind |-> "block", at |-> 0, to |-> 0, want |-> b]

BlocksRequest(from, to) ==
  [kind |-> "blocks", at |-> from, to |-> to, want |-> ExpectedParent(from)]

\* What an honest peer sends back; a root above its chain is not answered.
Answer(r) ==
  LET body == CASE r.kind = "root"  -> <<BlockAt(remote, r.at)>>
                [] r.kind = "block" -> IF r.want \in Ancestors[remote]
                                       THEN <<r.want>> ELSE <<>>
                [] OTHER -> [i \in 1..(1 + (IF r.to < Height[remote] THEN r.to
                                            ELSE Height[remote]) - r.at)
                               |-> BlockAt(remote, r.at + i - 1)]
  IN  IF r.kind = "root" /\ r.at > Height[remote] THEN <<>>
      ELSE <<[kind |-> r.kind, body |-> body]>>

Fits(r, body) ==
  CASE r.kind = "root"  -> /\ Height[body[1]] = r.at
                           /\ r.want \in {None, body[1]}
    [] r.kind = "block" -> body \in {<<>>, <<r.want>>}
    [] OTHER -> /\ body # <<>>
                /\ Height[body[1]] = r.at
                /\ Parent[body[1]] = r.want
                /\ Height[body[Len(body)]] <= r.to

-----------------------------------------------------------------------------
(* The lock of the peer, an asyncio.Lock: taken at once when it is free,     *)
(* else in the order of arrival.                                            *)

\* The waiter is armed and the request sent.  The answer is put on the wire at
\* once: nothing the peer says in between depends on the request.
Armed(c) == waiter' = c /\ wire' = wire \o Answer(c.req)

Queued(c) == line' = Append(line, [c EXCEPT !.queued = TRUE])

\* Task c.by, with local variables j, makes the call c and goes on at next.
MakeCall(c, j, next) ==
  LET free == waiter = NoWaiter /\ line = <<>>
  IN  /\ pc'  = [pc EXCEPT ![c.by] = IF free THEN "wait" ELSE "ask"]
      /\ job' = [job EXCEPT ![c.by] = [j EXCEPT !.next = next]]
      /\ IF free THEN Armed(c) /\ UNCHANGED line
         ELSE Queued(c) /\ UNCHANGED <<wire, waiter>>

AskFor(t, j, r, next) == MakeCall(Call(t, r, FALSE), j, next)

\* request_peer_state_root: the request of height h, and one more if it fails.
AskRoot(t, j, h, next) == MakeCall(Call(t, RootRequest(h), TRUE), j, next)

\* The lock is handed to the first that waits for it.
Send ==
  /\ waiter = NoWaiter /\ line # <<>>
  /\ Armed(Head(line))
  /\ line' = Tail(line)
  /\ pc' = [t \in Tasks |-> IF Head(line).by = t THEN "wait" ELSE pc[t]]
  /\ UNCHANGED <<head, remote, job, struck, late>>

\* The task that made the call goes on.
Resume(t, got) ==
  /\ pc'  = [pc EXCEPT ![t] = job[t].next]
  /\ job' = [job EXCEPT ![t].got = got, ![t].next = "idle"]

\* A wait that leaves its request armed.
ReturnArmed(got) ==
  /\ UNCHANGED <<waiter, line>>
  /\ IF waiter.by \in Tasks THEN Resume(waiter.by, got) ELSE UNCHANGED <<pc, job>>

\* The wait ends: the waiter is cleared and the lock released.  A root that did
\* not come is asked for once more, behind the calls that wait for the lock.
Return(got) ==
  LET t == waiter.by
      retry == got = <<>> /\ waiter.again
  IN  /\ waiter' = NoWaiter
      /\ IF retry THEN line' = Append(line,
              [waiter EXCEPT !.again = FALSE, !.req = RootRequest(waiter.req.at),
                             !.queued = @ \/ line # <<>>])
         ELSE UNCHANGED line
      /\ CASE t \notin Tasks        -> UNCHANGED <<pc, job>>
           [] t \in Tasks /\ retry  -> pc' = [pc EXCEPT ![t] = "ask"] /\ UNCHANGED job
           [] t \in Tasks /\ ~retry -> Resume(t, got)

\* A wait that the reading loop itself never gives up.
NothingComing == wire = <<>>

\* The threads of the pool that the probes of the consistency run in.
SyncWorkers == 2

Probing ==
  {t \in Tasks : \/ pc[t] \in {"roots", "evaluate"}
                 \/ pc[t] \in {"ask", "wait"} /\ job[t].next = "evaluate"}

PoolFull == Cardinality(Probing) >= SyncWorkers

\* No answer to the armed request can be read: the loop that would read it
\* waits itself, for an answer, the lock or a thread, or none is on the way.
Unanswerable ==
  \/ pc["reader"] \in {"ask", "wait"}
  \/ pc["reader"] = "refresh" /\ PoolFull
  \/ wire = <<>>

Timeout ==
  /\ waiter # NoWaiter
  /\ Unanswerable \/ late < MaxLate
  /\ late' = IF Unanswerable THEN late ELSE late + 1
  /\ Return(<<>>)
  /\ UNCHANGED <<head, remote, wire, struck>>

\* The call of task t did not get the lock at once.
Waited(t) == \E c \in Range(line) \cup {waiter} : c.by = t /\ c.queued

\* The first pair of probes of the sync task is awaited in the event loop, all
\* other calls are made by threads, which wait for them a limited time.
FromThread(t) == ~(job[t].next \in {"tip_answer", "head_answer"} /\ job[t].round = 1)

\* The call of task t leaves the line, or the lock.
Cancelled(t) ==
  \/ waiter.by = t /\ waiter' = NoWaiter /\ UNCHANGED line
  \/ \E i \in DOMAIN line : line[i].by = t /\ line' = RemoveAt(line, i) /\ UNCHANGED waiter

\* The call of task t goes on, and its answer is for nobody.
Abandoned(t) ==
  \/ waiter.by = t /\ waiter' = [waiter EXCEPT !.by = "gone"] /\ UNCHANGED line
  \/ /\ \E i \in DOMAIN line : line[i].by = t /\ line' = [line EXCEPT ![i].by = "gone"]
     /\ UNCHANGED waiter

\* The time of the thread, which the wait for the lock counts in, is over before
\* the call has ended.  Only the probe of the consistency cancels its call.
GiveUp(t) ==
  /\ Waited(t) /\ FromThread(t)
  /\ late < MaxLate /\ late' = late + 1
  /\ Resume(t, <<>>)
  /\ IF job[t].next = "evaluate" THEN Cancelled(t) ELSE Abandoned(t)
  /\ UNCHANGED <<head, remote, wire, struck>>

Solicited(m) == waiter # NoWaiter /\ m.kind = waiter.req.kind

\* An answer of the armed type ends the wait; one that does not fit strikes
\* the peer and ends it with nothing.  An answer read before the waiting task
\* runs again is dropped like one read after it: the two steps are one here.
Fulfill(m) ==
  /\ Return(IF Fits(waiter.req, m.body) THEN m.body ELSE <<>>)
  /\ struck' = (struck \/ ~Fits(waiter.req, m.body))
=============================================================================
