--------------------------- MODULE PeerSyncProofs ---------------------------
(***************************************************************************)
(* Proofs about PeerSync, for every tree of blocks, every number of probes *)
(* and every batch size: the lock of the peer and its waiter belong to who *)
(* they should, the flag of the consistency is earned, and a handler never *)
(* gets an answer from the peer whose message it handles.                  *)
(***************************************************************************)
EXTENDS PeerSync, SequenceTheorems, WellFoundedInduction, TLAPS

-----------------------------------------------------------------------------
(* The inductive invariant.                                                 *)

Peer == Ancestors[remote]

\* Where a task goes on when its call has ended.
AnswerAt == {"evaluate", "fork_answer", "target_answer", "tip_answer", "head_answer", "import"}

InLock == {"ask", "wait"}

Pcs == AnswerAt \cup InLock \cup
       {"idle", "read", "start", "accept", "refresh", "roots", "reconcile", "fork_probe",
        "target", "swap", "swapped", "reconciled", "await_lock", "tip_probe", "head_probe",
        "run_ahead", "fetch", "cut"}

\* Where a task works with the head it took over from the peer's claim.
Viewing == {"fork_probe", "fork_answer", "target", "target_answer", "swap", "swapped"}

Requests == [kind : {"root", "block", "blocks"}, at : Nat, to : Int, want : Blocks \cup {None}]

Calls == [by : Tasks \cup {"gone"}, req : Requests, again : BOOLEAN, queued : BOOLEAN]

\* Messages about the blocks of bs; news tell of one.
Messages(bs) ==
  {m \in [kind : {"root", "block", "blocks", "announce", "status"}, body : Seq(bs)] :
     m.kind \in {"announce", "status"} => m.body # <<>>}

Jobs(bs) ==
  [next : AnswerAt \cup {"idle"}, got : Seq(bs),
   view : [height : Nat, head : bs \cup {None}], seen : Blocks \cup {None},
   peerh : Nat, round : Nat, cursor : Nat, moved : BOOLEAN]

States == {"unknown", "probing", "consistent", "locked_down", "behind_open"}

ChainOK ==
  /\ head \in Blocks /\ remote \in Blocks
  /\ claim \in [height : Nat, head : Peer]
  /\ trust \in [state : States, about : Peer \cup {None}]
  /\ wire \in Seq(Messages(Peer))
  /\ late \in 0..MaxLate /\ probes \in 0..MaxProbes

\* A call is in the lock, or in its line, for the one task that waits for it.
LockOK ==
  /\ waiter \in Calls \cup {NoWaiter}
  /\ line \in Seq(Calls)
  /\ \A t \in Tasks : /\ pc[t] = "wait" <=> waiter.by = t
                      /\ pc[t] = "ask" <=> \E i \in DOMAIN line : line[i].by = t
  /\ \A i, j \in DOMAIN line : line[i].by = line[j].by => i = j \/ line[i].by = "gone"

\* What a task at p with local variables j can rely on.
TaskOK(p, j) ==
  /\ p \in InLock => j.next \in AnswerAt
  /\ (IF p \in InLock THEN j.next ELSE p) \in Viewing => j.view.head \in Peer
  /\ p = "accept" => j.seen \in Blocks
  /\ p = "cut" => j.got # <<>> /\ Parent[Head(j.got)] \in Blocks

TasksOK ==
  /\ pc \in [Tasks -> Pcs] /\ job \in [Tasks -> Jobs(Peer)]
  /\ \A t \in Tasks : TaskOK(pc[t], job[t])

IInv == ChainOK /\ LockOK /\ TasksOK /\ HandlerUnanswered

-----------------------------------------------------------------------------
(* The tree of blocks.                                                      *)

\* Induction, as the existence of a least counterexample.
LEMMA LeastOf ==
  ASSUME NEW T \in SUBSET Nat, T # {}
  PROVE  \E n \in T : \A m \in T : n <= m
<1> DEFINE R == OpToRel(<, Nat)
<1>1. \E x \in T : \A y \in T : ~(<<y, x>> \in R)
  BY NatLessThanWellFounded, WFMin
<1>2. \A x, y \in Nat : <<y, x>> \in R <=> y < x
  BY DEF OpToRel
<1> HIDE DEF R
<1>3. PICK x \in T : \A y \in T : ~(<<y, x>> \in R)
  BY <1>1
<1>4. \A y \in T : ~(y < x)
  BY <1>2, <1>3
<1>5. \A y \in T : x <= y
  BY <1>4
<1> QED BY <1>5

LEMMA OwnAncestor ==
  ASSUME NEW b \in Blocks
  PROVE  b \in Ancestors[b] /\ Ancestors[b] \subseteq Blocks /\ Height[b] \in Nat
BY TreeAssumption, AncestorsAssumption

\* The chain of a child holds the chain of its parent.
LEMMA ChildChain ==
  ASSUME NEW b \in Blocks, Parent[b] # None
  PROVE  Ancestors[Parent[b]] \subseteq Ancestors[b]
BY AncestorsAssumption

\* A chain has a block of each height up to its own.
LEMMA ChainFilled ==
  ASSUME NEW b \in Blocks, NEW h \in 0..Height[b]
  PROVE  \E x \in Ancestors[b] : Height[x] = h
<1> DEFINE Bad == {n \in Nat : \E c \in Blocks : /\ Height[c] = n
                                                 /\ h <= n
                                                 /\ \A x \in Ancestors[c] : Height[x] # h}
<1> SUFFICES ASSUME \A x \in Ancestors[b] : Height[x] # h
             PROVE  FALSE
  OBVIOUS
<1>1. Bad # {}
  BY OwnAncestor
<1>2. PICK n \in Bad : \A m \in Bad : n <= m
  BY <1>1, LeastOf
<1>3. PICK c \in Blocks : Height[c] = n /\ h <= n /\ \A x \in Ancestors[c] : Height[x] # h
  BY <1>2
<1>4. h < n /\ n \in Nat /\ h \in Nat
  BY <1>3, OwnAncestor
<1>5. Parent[c] \in Blocks /\ Parent[c] # None /\ Height[Parent[c]] = n - 1
  BY <1>3, <1>4, TreeAssumption, GenesisAssumption
<1>6. Ancestors[Parent[c]] \subseteq Ancestors[c]
  BY <1>5, ChildChain
<1>7. n - 1 \in Bad
  BY <1>3, <1>4, <1>5, <1>6
<1> QED BY <1>2, <1>4, <1>7

LEMMA BlockAtOnChain ==
  ASSUME NEW b \in Blocks, NEW h \in 0..Height[b]
  PROVE  BlockAt(b, h) \in Ancestors[b] /\ BlockAt(b, h) \in Blocks
<1>1. PICK x \in Ancestors[b] : Height[x] = h
  BY ChainFilled
<1>2. BlockAt(b, h) \in Ancestors[b]
  BY <1>1 DEF BlockAt
<1> QED BY <1>2, OwnAncestor

LEMMA BlockAtTyped ==
  ASSUME NEW b \in Blocks, NEW h
  PROVE  BlockAt(b, h) \in Blocks \cup {None}
<1>1. CASE h \in 0..Height[b]
  BY <1>1, BlockAtOnChain
<1>2. CASE h \notin 0..Height[b]
  BY <1>2 DEF BlockAt
<1> QED BY <1>1, <1>2

LEMMA ExpectedParentTyped ==
  ASSUME head \in Blocks, NEW h
  PROVE  ExpectedParent(h) \in Blocks \cup {None}
BY BlockAtTyped DEF ExpectedParent

LEMMA RolledBackTyped ==
  ASSUME head \in Blocks, NEW h \in Nat
  PROVE  RolledBack(h) \in Blocks
<1>1. CASE h > Height[head]
  BY <1>1 DEF RolledBack
<1>2. CASE ~(h > Height[head])
  <2>1. Height[head] \in Nat
    BY OwnAncestor
  <2> QED BY <1>2, <2>1, BlockAtOnChain DEF RolledBack
<1> QED BY <1>1, <1>2

-----------------------------------------------------------------------------
(* Requests and answers.                                                    *)

LEMMA RequestsTyped ==
  ASSUME head \in Blocks
  PROVE  /\ \A h \in Nat : RootRequest(h) \in Requests
         /\ \A b \in Blocks : BlockRequest(b) \in Requests
         /\ \A from \in Nat, to \in Int : BlocksRequest(from, to) \in Requests
<1>1. ASSUME NEW h \in Nat PROVE RootRequest(h) \in Requests
  BY BlockAtTyped DEF RootRequest, Requests
<1>2. ASSUME NEW b \in Blocks PROVE BlockRequest(b) \in Requests
  BY DEF BlockRequest, Requests
<1>3. ASSUME NEW from \in Nat, NEW to \in Int PROVE BlocksRequest(from, to) \in Requests
  BY ExpectedParentTyped DEF BlocksRequest, Requests
<1> QED BY <1>1, <1>2, <1>3

\* An honest peer answers with blocks of its own chain.
LEMMA AnswerTyped ==
  ASSUME remote \in Blocks, NEW r \in Requests
  PROVE  Answer(r) \in Seq(Messages(Peer))
<1> DEFINE n == 1 + (IF r.to < Height[remote] THEN r.to ELSE Height[remote]) - r.at
           body == CASE r.kind = "root"  -> <<BlockAt(remote, r.at)>>
                     [] r.kind = "block" -> IF r.want \in Ancestors[remote]
                                            THEN <<r.want>> ELSE <<>>
                     [] OTHER -> [i \in 1..n |-> BlockAt(remote, r.at + i - 1)]
<1>1. r.kind \in {"root", "block", "blocks"} /\ r.at \in Nat /\ r.to \in Int
  BY DEF Requests
<1>2. Height[remote] \in Nat /\ n \in Int
  BY <1>1, OwnAncestor
<1>3. CASE r.kind = "root" /\ r.at > Height[remote]
  BY <1>3 DEF Answer
<1>4. ASSUME ~(r.kind = "root" /\ r.at > Height[remote])
      PROVE  body \in Seq(Peer)
  <2>1. CASE r.kind = "root"
    <3>1. BlockAt(remote, r.at) \in Peer
      BY <1>1, <1>2, <1>4, <2>1, BlockAtOnChain DEF Peer
    <3> QED BY <2>1, <3>1
  <2>2. CASE r.kind = "block"
    <3>1. body = IF r.want \in Peer THEN <<r.want>> ELSE <<>>
      BY <2>2 DEF Peer
    <3> HIDE DEF body
    <3> QED BY <3>1
  <2>3. CASE r.kind = "blocks"
    <3>1. \A i \in 1..n : r.at + i - 1 \in 0..Height[remote]
      BY <1>1, <1>2
    <3>2. \A i \in 1..n : BlockAt(remote, r.at + i - 1) \in Peer
      BY <3>1, BlockAtOnChain DEF Peer
    <3>3. [i \in 1..n |-> BlockAt(remote, r.at + i - 1)] \in Seq(Peer)
      <4>1. CASE n \in Nat
        BY <3>2, <4>1, IsASeq
      <4>2. CASE n \notin Nat
        <5>1. 1..n = {}
          BY <1>2, <4>2
        <5>2. [i \in 1..n |-> BlockAt(remote, r.at + i - 1)] = <<>>
          <6> HIDE DEF n
          <6> QED BY <5>1
        <5>3. <<>> \in Seq(Peer)
          OBVIOUS
        <5> QED BY <5>2, <5>3, Zenon
      <4> QED BY <4>1, <4>2
    <3>4. body = [i \in 1..n |-> BlockAt(remote, r.at + i - 1)]
      BY <2>3
    <3> QED BY <3>3, <3>4
  <2> QED BY <1>1, <2>1, <2>2, <2>3
<1>5. CASE ~(r.kind = "root" /\ r.at > Height[remote])
  <2> DEFINE m == [kind |-> r.kind, body |-> body]
  <2>1. Answer(r) = <<m>>
    BY <1>5 DEF Answer
  <2>2. body \in Seq(Peer)
    BY <1>4, <1>5
  <2>3. m \in Messages(Peer)
    <3> HIDE DEF body
    <3> QED BY <1>1, <2>2 DEF Messages
  <2> HIDE DEF m
  <2> QED BY <2>1, <2>3
<1> QED BY <1>3, <1>5

-----------------------------------------------------------------------------
(* One task takes a step.                                                   *)

LEMMA TaskNames ==
  /\ "gone" \notin Tasks /\ "nobody" \notin Tasks
  /\ "sync" \in Tasks /\ "reader" \in Tasks /\ "miner" \in Tasks
BY HubAssumption DEF Tasks

LEMMA BlankTyped ==
  ASSUME NEW bs
  PROVE  /\ Blank \in Jobs(bs) /\ Blank.got = <<>>
         /\ \A j \in Jobs(bs) : /\ Kept(j) \in Jobs(bs) /\ Kept(j).got = <<>>
                                /\ Kept(j).view = j.view
<1>1. Blank \in Jobs(bs)
  BY DEF Blank, Jobs
<1>2. Blank.got = <<>>
  BY DEF Blank
<1>3. ASSUME NEW j \in Jobs(bs)
      PROVE  Kept(j) \in Jobs(bs) /\ Kept(j).got = <<>> /\ Kept(j).view = j.view
  <2>1. j.view \in [height : Nat, head : bs \cup {None}] /\ j.round \in Nat /\ j.cursor \in Nat
    BY DEF Jobs
  <2>2. Kept(j) = [Blank EXCEPT !.view = j.view, !.round = j.round, !.cursor = j.cursor]
    BY DEF Kept
  <2> QED BY <1>1, <1>2, <2>1, <2>2 DEF Jobs
<1> QED BY <1>1, <1>2, <1>3

\* Only task t moves, and the lock is left alone.
MovesAlone(t) ==
  /\ pc' = [pc EXCEPT ![t] = pc'[t]] /\ job' = [job EXCEPT ![t] = job'[t]]
  /\ UNCHANGED <<remote, waiter, line>>

\* What has to be shown of the task that moves.
Arrives(t) ==
  /\ pc'[t] \in Pcs /\ job'[t] \in Jobs(Peer) /\ TaskOK(pc'[t], job'[t])
  /\ t = "reader" => /\ job'[t].got = <<>>
                     /\ pc'[t] \notin {"swap", "swapped", "reconciled", "await_lock"}

LEMMA ArrivesKeepsTasks ==
  ASSUME IInv, NEW t \in Tasks, Arrives(t), remote' = remote,
         pc' = [pc EXCEPT ![t] = pc'[t]], job' = [job EXCEPT ![t] = job'[t]]
  PROVE  TasksOK' /\ HandlerUnanswered'
<1>1. pc \in [Tasks -> Pcs] /\ job \in [Tasks -> Jobs(Peer)] /\ Peer' = Peer
  BY DEF IInv, TasksOK, Peer
<1>2. pc' \in [Tasks -> Pcs] /\ job' \in [Tasks -> Jobs(Peer)]
  BY <1>1 DEF Arrives
<1>3. ASSUME NEW u \in Tasks, u # t
      PROVE  pc'[u] = pc[u] /\ job'[u] = job[u]
  BY <1>1, <1>3
<1>4. ASSUME NEW u \in Tasks
      PROVE  TaskOK(pc[u], job[u])' <=> TaskOK(pc'[u], job'[u])
  BY <1>1 DEF TaskOK
<1>5. ASSUME NEW u \in Tasks
      PROVE  TaskOK(pc[u], job[u])'
  <2>1. CASE u = t
    BY <1>4, <2>1 DEF Arrives
  <2>2. CASE u # t
    BY <1>3, <1>4, <2>2 DEF IInv, TasksOK
  <2> QED BY <2>1, <2>2
<1>6. TasksOK'
  BY <1>1, <1>2, <1>5 DEF TasksOK
<1>7. HandlerUnanswered'
  <2>1. CASE t = "reader"
    BY <2>1 DEF Arrives, HandlerUnanswered
  <2>2. CASE t # "reader"
    BY <1>3, <2>2, TaskNames DEF IInv, HandlerUnanswered
  <2> QED BY <2>1, <2>2
<1> QED BY <1>6, <1>7

LEMMA MovesKeeps ==
  ASSUME IInv, NEW t \in Tasks, MovesAlone(t), Arrives(t),
         pc[t] \notin InLock, pc'[t] \notin InLock
  PROVE  LockOK' /\ TasksOK' /\ HandlerUnanswered'
<1>1. TasksOK' /\ HandlerUnanswered'
  BY ArrivesKeepsTasks DEF MovesAlone
<1>2. waiter' = waiter /\ line' = line /\ pc \in [Tasks -> Pcs]
  BY DEF MovesAlone, IInv, TasksOK
<1>3. ASSUME NEW u \in Tasks
      PROVE  (pc'[u] = "wait" <=> pc[u] = "wait") /\ (pc'[u] = "ask" <=> pc[u] = "ask")
  BY <1>2 DEF MovesAlone, InLock
<1>4. Calls' = Calls
  BY DEF Calls, Requests, Tasks
<1>5. LockOK'
  BY <1>2, <1>3, <1>4 DEF IInv, LockOK
<1> QED BY <1>1, <1>5

-----------------------------------------------------------------------------
(* The lock of the peer.                                                    *)

\* What the invariant says of the lock, with the names taken apart.
LEMMA LockFacts ==
  ASSUME IInv
  PROVE  /\ waiter # NoWaiter => waiter \in Calls
         /\ waiter = NoWaiter => waiter.by = "nobody"
         /\ NoWaiter.by = "nobody"
         /\ \A c \in Calls : /\ c # NoWaiter /\ c.by \in Tasks \cup {"gone"}
                             /\ c.req \in Requests /\ c.req.at \in Nat
         /\ line \in Seq(Calls) /\ Len(line) \in Nat /\ DOMAIN line = 1..Len(line)
         /\ \A i \in DOMAIN line : line[i] \in Calls
<1>1. NoWaiter.by = "nobody"
  BY DEF NoWaiter, Call
<1>2. \A c \in Calls : c.by \in Tasks \cup {"gone"} /\ c.req \in Requests /\ c.req.at \in Nat
  BY DEF Calls, Requests
<1>3. \A c \in Calls : c # NoWaiter
  BY <1>1, <1>2, TaskNames
<1>4. line \in Seq(Calls)
  BY DEF IInv, LockOK
<1>5. waiter # NoWaiter => waiter \in Calls
  BY DEF IInv, LockOK
<1> QED BY <1>1, <1>2, <1>3, <1>4, <1>5

LEMMA ArmedWire ==
  ASSUME IInv, NEW c \in Calls, Armed(c), remote' = remote
  PROVE  wire' \in Seq(Messages(Peer))
<1>1. c.req \in Requests
  BY DEF Calls
<1>2. Answer(c.req) \in Seq(Messages(Peer))
  BY <1>1, AnswerTyped DEF IInv, ChainOK
<1>3. wire \in Seq(Messages(Peer))
  BY DEF IInv, ChainOK
<1> QED BY <1>2, <1>3, ConcatProperties DEF Armed

\* A call is put at the end of the line, of a task that has none there.
LEMMA LineGrows ==
  ASSUME IInv, NEW q \in Calls, line' = Append(line, q),
         q.by # "gone" => \A i \in DOMAIN line : line[i].by # q.by,
         \A u \in Tasks : pc'[u] = IF u = q.by THEN "ask" ELSE pc[u],
         waiter' \in Calls \cup {NoWaiter}, q.by # "gone" => waiter'.by # q.by,
         \A u \in Tasks : u # q.by => (waiter'.by = u <=> waiter.by = u)
  PROVE  LockOK'
<1>1. /\ line' \in Seq(Calls) /\ DOMAIN line' = DOMAIN line \cup {Len(line) + 1}
      /\ Len(line) \in Nat /\ Len(line) + 1 \notin DOMAIN line /\ line'[Len(line) + 1] = q
      /\ \A i \in DOMAIN line : line'[i] = line[i]
  BY LockFacts, AppendProperties
<1>2. ASSUME NEW u \in Tasks
      PROVE  /\ pc'[u] = "wait" <=> waiter'.by = u
             /\ pc'[u] = "ask" <=> \E i \in DOMAIN line' : line'[i].by = u
  <2>1. CASE u = q.by
    BY <1>1, <2>1, TaskNames
  <2>2. CASE u # q.by
    BY <1>1, <2>2 DEF IInv, LockOK
  <2> QED BY <2>1, <2>2
<1>3. ASSUME NEW i \in DOMAIN line', NEW k \in DOMAIN line', line'[i].by = line'[k].by
      PROVE  i = k \/ line'[i].by = "gone"
  <2>1. CASE i \in DOMAIN line /\ k \in DOMAIN line
    BY <1>1, <1>3, <2>1 DEF IInv, LockOK
  <2>2. CASE ~(i \in DOMAIN line /\ k \in DOMAIN line)
    BY <1>1, <1>3, <2>2
  <2> QED BY <2>1, <2>2
<1>4. Calls' = Calls /\ NoWaiter' = NoWaiter
  BY DEF Calls, Requests, Tasks, NoWaiter, Call, NoRequest
<1> QED BY <1>1, <1>2, <1>3, <1>4 DEF LockOK

\* A task that is not in the lock makes a call.
LEMMA CallKeeps ==
  ASSUME IInv, NEW t \in Tasks, pc[t] \notin InLock,
         NEW r \in Requests, NEW again \in BOOLEAN, NEW j \in Jobs(Peer), NEW next \in AnswerAt,
         next \in Viewing => j.view.head \in Peer,
         t = "reader" => j.got = <<>>,
         MakeCall(Call(t, r, again), j, next), remote' = remote
  PROVE  LockOK' /\ TasksOK' /\ HandlerUnanswered' /\ wire' \in Seq(Messages(Peer))
<1> DEFINE c == Call(t, r, again)
           free == waiter = NoWaiter /\ line = <<>>
<1>1. c \in Calls /\ c.by = t
  BY DEF Call, Calls
<1>2. pc \in [Tasks -> Pcs] /\ job \in [Tasks -> Jobs(Peer)]
  BY DEF IInv, TasksOK
<1>3. /\ pc' = [pc EXCEPT ![t] = IF free THEN "wait" ELSE "ask"]
      /\ job' = [job EXCEPT ![t] = [j EXCEPT !.next = next]]
      /\ IF free THEN Armed(c) /\ line' = line
         ELSE Queued(c) /\ wire' = wire /\ waiter' = waiter
  BY <1>1 DEF MakeCall
<1> HIDE DEF c
<1>4. pc'[t] \in InLock /\ job'[t] = [j EXCEPT !.next = next]
  BY <1>2, <1>3 DEF InLock
<1>5. Arrives(t)
  <2>1. /\ job'[t] \in Jobs(Peer) /\ job'[t].next = next
        /\ job'[t].view = j.view /\ job'[t].got = j.got
    BY <1>4 DEF Jobs
  <2>2. TaskOK(pc'[t], job'[t])
    BY <1>4, <2>1 DEF TaskOK, InLock
  <2> QED BY <1>4, <2>1, <2>2 DEF Arrives, InLock, Pcs
<1>6. TasksOK' /\ HandlerUnanswered'
  <2>1. pc' = [pc EXCEPT ![t] = pc'[t]] /\ job' = [job EXCEPT ![t] = job'[t]]
    BY <1>2, <1>3
  <2> QED BY <1>5, <2>1, ArrivesKeepsTasks
<1>7. waiter.by # t /\ \A i \in DOMAIN line : line[i].by # t
  BY DEF IInv, LockOK, InLock
<1>8. CASE free
  <2>1. pc' = [pc EXCEPT ![t] = "wait"] /\ Armed(c) /\ line' = <<>> /\ line = <<>>
    BY <1>3, <1>8
  <2>2. waiter' = c
    BY <2>1 DEF Armed
  <2>3. \A u \in Tasks : pc[u] # "wait" /\ pc[u] # "ask"
    BY <1>8, LockFacts, TaskNames DEF IInv, LockOK
  <2>4. ASSUME NEW u \in Tasks
        PROVE  /\ pc'[u] = "wait" <=> waiter'.by = u
               /\ pc'[u] = "ask" <=> \E i \in DOMAIN line' : line'[i].by = u
    BY <1>1, <1>2, <2>1, <2>2, <2>3
  <2>5. Calls' = Calls
    BY DEF Calls, Requests, Tasks
  <2>6. LockOK'
    BY <1>1, <2>1, <2>2, <2>4, <2>5 DEF LockOK
  <2> QED BY <1>1, <1>6, <2>1, <2>6, ArmedWire
<1>9. CASE ~free
  <2> DEFINE q == [c EXCEPT !.queued = TRUE]
  <2>1. pc' = [pc EXCEPT ![t] = "ask"] /\ line' = Append(line, q)
    BY <1>3, <1>9 DEF Queued
  <2>2. wire' = wire /\ waiter' = waiter
    BY <1>3, <1>9
  <2>3. q \in Calls /\ q.by = t
    BY <1>1 DEF Calls
  <2> HIDE DEF q
  <2>4. waiter' \in Calls \cup {NoWaiter} /\ waiter'.by = waiter.by
    BY <2>2 DEF IInv, LockOK
  <2>5. LockOK'
    BY <1>2, <1>7, <2>1, <2>3, <2>4, LineGrows
  <2> QED BY <1>6, <2>2, <2>5 DEF IInv, ChainOK
<1> QED BY <1>8, <1>9

\* The call of a task leaves the lock or its line.
LEMMA LockLeft ==
  ASSUME IInv, NEW t \in Tasks, pc' = [pc EXCEPT ![t] = pc'[t]], pc'[t] \notin InLock,
         waiter' \in Calls \cup {NoWaiter}, line' \in Seq(Calls),
         waiter'.by # t, \A i \in DOMAIN line' : line'[i].by # t,
         \A u \in Tasks : u # t => (waiter'.by = u <=> waiter.by = u),
         \A u \in Tasks : u # t => ((\E i \in DOMAIN line' : line'[i].by = u)
                                      <=> \E i \in DOMAIN line : line[i].by = u),
         \A i, k \in DOMAIN line' : line'[i].by = line'[k].by => i = k \/ line'[i].by = "gone"
  PROVE  LockOK'
<1>1. pc \in [Tasks -> Pcs]
  BY DEF IInv, TasksOK
<1>2. ASSUME NEW u \in Tasks
      PROVE  /\ pc'[u] = "wait" <=> waiter'.by = u
             /\ pc'[u] = "ask" <=> \E i \in DOMAIN line' : line'[i].by = u
  <2>1. CASE u = t
    BY <2>1 DEF InLock
  <2>2. CASE u # t
    BY <1>1, <2>2 DEF IInv, LockOK
  <2> QED BY <2>1, <2>2
<1>3. Calls' = Calls /\ NoWaiter' = NoWaiter
  BY DEF Calls, Requests, Tasks, NoWaiter, Call, NoRequest
<1> QED BY <1>2, <1>3 DEF LockOK

\* A task comes out of the lock.
LEMMA ResumeArrives ==
  ASSUME IInv, NEW t \in Tasks, pc[t] \in InLock, NEW got \in Seq(Peer),
         t = "reader" => got = <<>>, Resume(t, got)
  PROVE  /\ pc' = [pc EXCEPT ![t] = pc'[t]] /\ job' = [job EXCEPT ![t] = job'[t]]
         /\ Arrives(t) /\ pc'[t] \in AnswerAt /\ pc'[t] \notin InLock
<1>1. pc \in [Tasks -> Pcs] /\ job \in [Tasks -> Jobs(Peer)] /\ TaskOK(pc[t], job[t])
  BY DEF IInv, TasksOK
<1>2. job[t] \in Jobs(Peer) /\ job[t].next \in AnswerAt
  BY <1>1 DEF TaskOK
<1>3. /\ pc' = [pc EXCEPT ![t] = job[t].next]
      /\ job' = [job EXCEPT ![t].got = got, ![t].next = "idle"]
  BY DEF Resume
<1>4. pc'[t] = job[t].next /\ job'[t] = [job[t] EXCEPT !.got = got, !.next = "idle"]
  BY <1>1, <1>3
<1>5. /\ job'[t] \in Jobs(Peer) /\ job'[t].got = got /\ job'[t].view = job[t].view
  BY <1>2, <1>4 DEF Jobs
<1>6. pc'[t] \notin InLock /\ pc'[t] \in AnswerAt /\ pc'[t] \in Pcs
  BY <1>2, <1>4 DEF AnswerAt, InLock, Pcs
<1>7. TaskOK(pc'[t], job'[t])
  BY <1>1, <1>2, <1>4, <1>5, <1>6 DEF TaskOK, AnswerAt
<1>8. Arrives(t)
  BY <1>2, <1>4, <1>5, <1>6, <1>7 DEF Arrives, AnswerAt
<1> QED BY <1>1, <1>3, <1>4, <1>6, <1>8

\* The call in the lock ends.
LEMMA ReturnKeeps ==
  ASSUME IInv, waiter # NoWaiter, NEW got \in Seq(Peer), waiter.by = "reader" => got = <<>>,
         Return(got), remote' = remote
  PROVE  LockOK' /\ TasksOK' /\ HandlerUnanswered'
<1> DEFINE t == waiter.by
           retry == got = <<>> /\ waiter.again
           q == [waiter EXCEPT !.again = FALSE, !.req = RootRequest(waiter.req.at),
                               !.queued = @ \/ line # <<>>]
<1>1. waiter \in Calls /\ t \in Tasks \cup {"gone"} /\ waiter.req.at \in Nat
  BY LockFacts
<1>2. waiter' = NoWaiter /\ waiter'.by = "nobody"
  BY LockFacts DEF Return
<1>3. q \in Calls /\ q.by = t
  <2>1. RootRequest(waiter.req.at) \in Requests
    BY <1>1, RequestsTyped DEF IInv, ChainOK
  <2> QED BY <1>1, <2>1 DEF Calls
<1>4. t # "gone" => pc[t] = "wait" /\ \A i \in DOMAIN line : line[i].by # t
  BY <1>1 DEF IInv, LockOK
<1>5. pc \in [Tasks -> Pcs] /\ job \in [Tasks -> Jobs(Peer)]
  BY DEF IInv, TasksOK
<1>6. IF retry THEN line' = Append(line, q) ELSE line' = line
  BY DEF Return
<1>7. CASE t = "gone"
  <2>1. pc' = pc /\ job' = job
    BY <1>7, TaskNames DEF Return
  <2>2. TasksOK' /\ HandlerUnanswered'
    BY <2>1 DEF IInv, TasksOK, HandlerUnanswered, TaskOK, Peer
  <2>3. CASE retry
    <3>1. line' = Append(line, q)
      BY <1>6, <2>3
    <3> HIDE DEF q, retry
    <3>2. LockOK'
      BY <1>2, <1>3, <1>7, <2>1, <3>1, TaskNames, LineGrows
    <3> QED BY <2>2, <3>2
  <2>4. CASE ~retry
    <3>1. line' = line
      BY <1>6, <2>4
    <3>2. Calls' = Calls /\ NoWaiter' = NoWaiter
      BY DEF Calls, Requests, Tasks, NoWaiter, Call, NoRequest
    <3>3. LockOK'
      BY <1>2, <1>7, <2>1, <3>1, <3>2, TaskNames DEF IInv, LockOK
    <3> QED BY <2>2, <3>3
  <2> QED BY <2>3, <2>4
<1>8. CASE t \in Tasks /\ retry
  <2>1. pc' = [pc EXCEPT ![t] = "ask"] /\ job' = job
    BY <1>8 DEF Return
  <2>2. line' = Append(line, q)
    BY <1>6, <1>8
  <2>3. t # "gone" /\ t # "nobody"
    BY <1>8, TaskNames
  <2>4. LockOK'
    <3> HIDE DEF q, retry
    <3> QED BY <1>2, <1>3, <1>4, <1>5, <1>8, <2>1, <2>2, <2>3, TaskNames, LineGrows
  <2>5. pc'[t] = "ask" /\ job'[t] = job[t] /\ pc[t] = "wait"
    BY <1>4, <1>5, <1>8, <2>1, <2>3
  <2>6. Arrives(t)
    <3>1. TaskOK(pc[t], job[t]) /\ job[t] \in Jobs(Peer)
      BY <1>8 DEF IInv, TasksOK
    <3>2. TaskOK(pc'[t], job'[t])
      BY <2>5, <3>1 DEF TaskOK, InLock
    <3> QED BY <2>5, <3>1, <3>2 DEF Arrives, IInv, HandlerUnanswered, Pcs, InLock
  <2>7. TasksOK' /\ HandlerUnanswered'
    <3>1. pc' = [pc EXCEPT ![t] = pc'[t]] /\ job' = [job EXCEPT ![t] = job'[t]]
      BY <1>5, <1>8, <2>1
    <3> HIDE DEF retry
    <3> QED BY <1>8, <2>6, <3>1, ArrivesKeepsTasks
  <2> QED BY <2>4, <2>7
<1>9. CASE t \in Tasks /\ ~retry
  <2>1. Resume(t, got) /\ line' = line
    BY <1>6, <1>9 DEF Return
  <2>2. t # "gone" /\ t # "nobody" /\ pc[t] = "wait"
    BY <1>4, <1>9, TaskNames
  <2>3. /\ pc' = [pc EXCEPT ![t] = pc'[t]] /\ job' = [job EXCEPT ![t] = job'[t]]
        /\ Arrives(t) /\ pc'[t] \notin InLock
    <3> HIDE DEF retry
    <3> QED BY <1>9, <2>1, <2>2, ResumeArrives DEF InLock
  <2>4. TasksOK' /\ HandlerUnanswered'
    <3> HIDE DEF retry
    <3> QED BY <1>9, <2>3, ArrivesKeepsTasks
  <2>5. /\ waiter' \in Calls \cup {NoWaiter} /\ waiter'.by # t
        /\ line' \in Seq(Calls) /\ \A i \in DOMAIN line' : line'[i].by # t
        /\ \A i, k \in DOMAIN line' : line'[i].by = line'[k].by => i = k \/ line'[i].by = "gone"
    BY <1>2, <1>4, <2>1, <2>2 DEF IInv, LockOK
  <2>6. ASSUME NEW u \in Tasks, u # t
        PROVE  /\ waiter'.by = u <=> waiter.by = u
               /\ (\E i \in DOMAIN line' : line'[i].by = u) <=> \E i \in DOMAIN line : line[i].by = u
    BY <1>2, <2>1, <2>6, TaskNames
  <2>7. LockOK'
    <3> HIDE DEF retry
    <3> QED BY <1>9, <2>3, <2>5, <2>6, LockLeft
  <2> QED BY <2>4, <2>7
<1> QED BY <1>1, <1>7, <1>8, <1>9

\* The lock is handed to the first call of the line.
LEMMA SendKeeps ==
  ASSUME IInv, Send
  PROVE  LockOK' /\ TasksOK' /\ HandlerUnanswered' /\ wire' \in Seq(Messages(Peer))
<1> DEFINE c == Head(line)
<1>1. /\ waiter = NoWaiter /\ line # <<>> /\ Armed(c) /\ line' = Tail(line)
      /\ pc' = [t \in Tasks |-> IF c.by = t THEN "wait" ELSE pc[t]]
      /\ remote' = remote /\ job' = job
  BY DEF Send
<1>2. /\ c = line[1] /\ 1 \in DOMAIN line /\ c \in Calls /\ c.by \in Tasks \cup {"gone"}
      /\ line' \in Seq(Calls) /\ Len(line) \in Nat /\ Len(line') = Len(line) - 1
      /\ DOMAIN line' = 1..(Len(line) - 1)
      /\ \A i \in DOMAIN line' : i + 1 \in DOMAIN line /\ line'[i] = line[i + 1]
  BY <1>1, LockFacts, HeadTailProperties
<1>3. waiter' = c
  BY <1>1 DEF Armed
<1>4. pc \in [Tasks -> Pcs] /\ job \in [Tasks -> Jobs(Peer)]
  BY DEF IInv, TasksOK
<1> HIDE DEF c
<1>5. ASSUME NEW u \in Tasks
      PROVE  /\ pc'[u] = "wait" <=> c.by = u
             /\ pc'[u] = "ask" <=> \E i \in DOMAIN line' : line'[i].by = u
  <2>1. pc[u] # "wait" /\ u # "gone"
    BY <1>1, LockFacts, TaskNames DEF IInv, LockOK
  <2>2. pc[u] = "ask" <=> \E i \in DOMAIN line : line[i].by = u
    BY DEF IInv, LockOK
  <2>3. CASE c.by = u
    <3>1. ASSUME NEW i \in DOMAIN line' PROVE line'[i].by # u
      <4>1. i + 1 \in DOMAIN line /\ i + 1 # 1 /\ line'[i] = line[i + 1]
        BY <1>2
      <4>2. line[i + 1].by = line[1].by => line[1].by = "gone"
        BY <1>2, <4>1 DEF IInv, LockOK
      <4> QED BY <1>2, <2>1, <2>3, <4>1, <4>2
    <3> QED BY <1>1, <2>3, <3>1
  <2>4. CASE c.by # u
    <3>1. pc'[u] = pc[u]
      BY <1>1, <2>4
    <3>2. ASSUME NEW i \in DOMAIN line, line[i].by = u
          PROVE  \E k \in DOMAIN line' : line'[k].by = u
      <4>1. i # 1 /\ i \in 1..Len(line)
        BY <1>2, <2>4, <3>2, LockFacts
      <4>2. i - 1 \in DOMAIN line' /\ line'[i - 1] = line[i]
        BY <1>2, <4>1
      <4> QED BY <3>2, <4>2
    <3> QED BY <1>2, <2>1, <2>2, <2>4, <3>1, <3>2
  <2> QED BY <2>3, <2>4
<1>6. ASSUME NEW i \in DOMAIN line', NEW k \in DOMAIN line', line'[i].by = line'[k].by
      PROVE  i = k \/ line'[i].by = "gone"
  <2>1. i + 1 \in DOMAIN line /\ k + 1 \in DOMAIN line
    BY <1>2
  <2>2. i + 1 = k + 1 \/ line[i + 1].by = "gone"
    BY <1>2, <1>6, <2>1 DEF IInv, LockOK
  <2> QED BY <1>2, <2>2
<1>7. LockOK'
  <2>1. Calls' = Calls /\ NoWaiter' = NoWaiter
    BY DEF Calls, Requests, Tasks, NoWaiter, Call, NoRequest
  <2> QED BY <1>2, <1>3, <1>5, <1>6, <2>1 DEF LockOK
<1>8. TasksOK' /\ HandlerUnanswered'
  <2>1. CASE c.by \in Tasks
    <3> DEFINE t == c.by
    <3>1. pc' = [pc EXCEPT ![t] = "wait"] /\ pc'[t] = "wait"
      BY <1>1, <1>4, <2>1
    <3>2. pc[t] = "ask"
      BY <1>2, <2>1 DEF IInv, LockOK
    <3>3. job[t] \in Jobs(Peer) /\ TaskOK(pc[t], job[t]) /\ job'[t] = job[t]
      BY <1>1, <2>1 DEF IInv, TasksOK
    <3>4. TaskOK(pc'[t], job'[t])
      BY <3>1, <3>2, <3>3 DEF TaskOK, InLock
    <3>5. Arrives(t)
      BY <3>1, <3>3, <3>4 DEF Arrives, IInv, HandlerUnanswered, Pcs, InLock
    <3>6. pc' = [pc EXCEPT ![t] = pc'[t]] /\ job' = [job EXCEPT ![t] = job'[t]]
      BY <1>1, <1>4, <2>1, <3>1
    <3> QED BY <1>1, <2>1, <3>5, <3>6, ArrivesKeepsTasks
  <2>2. CASE c.by = "gone"
    <3>1. pc' = pc
      BY <1>1, <1>4, <2>2, TaskNames
    <3> QED BY <1>1, <3>1 DEF IInv, TasksOK, HandlerUnanswered, TaskOK, Peer
  <2> QED BY <1>2, <2>1, <2>2
<1>9. wire' \in Seq(Messages(Peer))
  BY <1>1, <1>2, ArmedWire
<1> QED BY <1>7, <1>8, <1>9

LEMMA RemoveAtProperties ==
  ASSUME NEW A, NEW s \in Seq(A), NEW i \in DOMAIN s
  PROVE  /\ RemoveAt(s, i) \in Seq(A)
         /\ DOMAIN RemoveAt(s, i) = 1..(Len(s) - 1) /\ Len(s) \in Nat
         /\ \A k \in 1..(Len(s) - 1) :
              RemoveAt(s, i)[k] = IF k < i THEN s[k] ELSE s[k + 1]
<1> DEFINE a == SubSeq(s, 1, i - 1)
           b == SubSeq(s, i + 1, Len(s))
<1>1. Len(s) \in Nat /\ i \in 1..Len(s)
  BY LenProperties
<1>2. a \in Seq(A) /\ Len(a) = i - 1 /\ \A k \in 1..(i - 1) : a[k] = s[k]
  BY <1>1, SubSeqProperties
<1>3. b \in Seq(A) /\ Len(b) = Len(s) - i /\ \A k \in 1..(Len(s) - i) : b[k] = s[i + k]
  BY <1>1, SubSeqProperties
<1>4. RemoveAt(s, i) = a \o b
  BY DEF RemoveAt
<1> HIDE DEF a, b
<1>5. /\ a \o b \in Seq(A) /\ Len(a \o b) = Len(s) - 1
      /\ \A k \in 1..(Len(s) - 1) : (a \o b)[k] = IF k <= Len(a) THEN a[k] ELSE b[k - Len(a)]
  <2>1. /\ a \o b \in Seq(A) /\ Len(a \o b) = Len(a) + Len(b)
        /\ \A k \in 1..(Len(a) + Len(b)) :
             (a \o b)[k] = IF k <= Len(a) THEN a[k] ELSE b[k - Len(a)]
    BY <1>2, <1>3, ConcatProperties
  <2>2. Len(a) + Len(b) = Len(s) - 1
    BY <1>1, <1>2, <1>3
  <2> QED BY <2>1, <2>2
<1>6. DOMAIN (a \o b) = 1..(Len(s) - 1)
  BY <1>5, LenProperties
<1>7. ASSUME NEW k \in 1..(Len(s) - 1)
      PROVE  (a \o b)[k] = IF k < i THEN s[k] ELSE s[k + 1]
  <2>1. CASE k < i
    <3>1. k <= Len(a) /\ k \in 1..(i - 1)
      BY <1>1, <1>2, <2>1
    <3> QED BY <1>2, <1>5, <2>1, <3>1
  <2>2. CASE ~(k < i)
    <3>1. ~(k <= Len(a)) /\ k - Len(a) = k - i + 1 /\ k - i + 1 \in 1..(Len(s) - i)
      BY <1>1, <1>2, <2>2
    <3> DEFINE m == k - i + 1
    <3>2. m \in 1..(Len(s) - i) /\ i + m = k + 1 /\ k - Len(a) = m
      BY <1>1, <3>1
    <3> HIDE DEF m
    <3>3. b[m] = s[k + 1]
      BY <1>3, <3>2
    <3> QED BY <1>5, <2>2, <3>1, <3>2, <3>3
  <2> QED BY <2>1, <2>2
<1> QED BY <1>1, <1>4, <1>5, <1>6, <1>7

\* The call at place i of the line is cancelled.
LEMMA CancelledInLine ==
  ASSUME IInv, NEW t \in Tasks, NEW i \in DOMAIN line, line[i].by = t,
         line' = RemoveAt(line, i), waiter' = waiter,
         pc' = [pc EXCEPT ![t] = pc'[t]], pc'[t] \notin InLock
  PROVE  LockOK'
<1>1. /\ line \in Seq(Calls) /\ DOMAIN line = 1..Len(line) /\ Len(line) \in Nat
      /\ \A k, l \in DOMAIN line : line[k].by = line[l].by => k = l \/ line[k].by = "gone"
      /\ t # "gone" /\ pc[t] = "ask" /\ waiter.by # t /\ waiter \in Calls \cup {NoWaiter}
  BY LockFacts, TaskNames DEF IInv, LockOK
<1>2. /\ line' \in Seq(Calls) /\ DOMAIN line' = 1..(Len(line) - 1)
      /\ \A k \in DOMAIN line' : line'[k] = IF k < i THEN line[k] ELSE line[k + 1]
  <2>1. /\ RemoveAt(line, i) \in Seq(Calls)
        /\ DOMAIN RemoveAt(line, i) = 1..(Len(line) - 1)
        /\ \A k \in 1..(Len(line) - 1) :
             RemoveAt(line, i)[k] = IF k < i THEN line[k] ELSE line[k + 1]
    BY <1>1, RemoveAtProperties
  <2> QED BY <2>1
<1> DEFINE f(k) == IF k < i THEN k ELSE k + 1
<1>3. \A k \in DOMAIN line' : f(k) \in DOMAIN line /\ f(k) # i /\ line'[k] = line[f(k)]
  BY <1>1, <1>2
<1>4. \A k, l \in DOMAIN line' : f(k) = f(l) => k = l
  BY <1>1, <1>2
<1>5. \A m \in DOMAIN line : m # i => \E k \in DOMAIN line' : f(k) = m
  <2> SUFFICES ASSUME NEW m \in DOMAIN line, m # i
               PROVE  \E k \in DOMAIN line' : f(k) = m
    OBVIOUS
  <2>1. CASE m < i
    <3>1. m \in DOMAIN line' /\ f(m) = m
      BY <1>1, <1>2, <2>1
    <3> QED BY <3>1
  <2>2. CASE ~(m < i)
    <3>1. m - 1 \in DOMAIN line' /\ f(m - 1) = m
      BY <1>1, <1>2, <2>2
    <3> QED BY <3>1
  <2> QED BY <2>1, <2>2
<1> HIDE DEF f
<1>6. \A k \in DOMAIN line' : line'[k].by # t
  BY <1>1, <1>3
<1>7. ASSUME NEW u \in Tasks, u # t
      PROVE  (\E k \in DOMAIN line' : line'[k].by = u) <=> \E k \in DOMAIN line : line[k].by = u
  BY <1>3, <1>5, <1>7
<1>8. \A k, l \in DOMAIN line' : line'[k].by = line'[l].by => k = l \/ line'[k].by = "gone"
  BY <1>1, <1>3, <1>4
<1> QED BY <1>1, <1>2, <1>6, <1>7, <1>8, LockLeft

\* The call at place i of the line is given up, and stays there.
LEMMA AbandonedInLine ==
  ASSUME IInv, NEW t \in Tasks, NEW i \in DOMAIN line, line[i].by = t,
         line' = [line EXCEPT ![i].by = "gone"], waiter' = waiter,
         pc' = [pc EXCEPT ![t] = pc'[t]], pc'[t] \notin InLock
  PROVE  LockOK'
<1>1. /\ line \in Seq(Calls) /\ line[i] \in Calls
      /\ \A k, l \in DOMAIN line : line[k].by = line[l].by => k = l \/ line[k].by = "gone"
      /\ t # "gone" /\ pc[t] = "ask" /\ waiter.by # t /\ waiter \in Calls \cup {NoWaiter}
  BY LockFacts, TaskNames DEF IInv, LockOK
<1> DEFINE q == [line[i] EXCEPT !.by = "gone"]
<1>2. q \in Calls /\ q.by = "gone"
  BY <1>1 DEF Calls
<1>3. line' = [line EXCEPT ![i] = q]
  OBVIOUS
<1> HIDE DEF q
<1>4. /\ line' \in Seq(Calls) /\ DOMAIN line' = DOMAIN line /\ line'[i].by = "gone"
      /\ \A k \in DOMAIN line : k # i => line'[k] = line[k]
  BY <1>1, <1>2, <1>3, ExceptSeq
<1>5. \A k \in DOMAIN line' : line'[k].by # t
  BY <1>1, <1>4
<1>6. ASSUME NEW u \in Tasks, u # t
      PROVE  (\E k \in DOMAIN line' : line'[k].by = u) <=> \E k \in DOMAIN line : line[k].by = u
  BY <1>4, <1>6, TaskNames
<1>7. \A k, l \in DOMAIN line' : line'[k].by = line'[l].by => k = l \/ line'[k].by = "gone"
  BY <1>1, <1>4
<1> QED BY <1>1, <1>4, <1>5, <1>6, <1>7, LockLeft

\* The call in the lock is given up: it ends, or it goes on for nobody.
LEMMA LeftInLock ==
  ASSUME IInv, NEW t \in Tasks, waiter.by = t, line' = line,
         waiter' \in {NoWaiter, [waiter EXCEPT !.by = "gone"]},
         pc' = [pc EXCEPT ![t] = pc'[t]], pc'[t] \notin InLock
  PROVE  LockOK'
<1>1. t # "gone" /\ t # "nobody" /\ waiter \in Calls /\ NoWaiter.by = "nobody"
  BY LockFacts, TaskNames
<1>2. waiter' \in Calls \cup {NoWaiter} /\ waiter'.by \in {"gone", "nobody"}
  BY <1>1 DEF Calls
<1>3. /\ line' \in Seq(Calls) /\ \A i \in DOMAIN line' : line'[i].by # t
      /\ \A i, k \in DOMAIN line' : line'[i].by = line'[k].by => i = k \/ line'[i].by = "gone"
  BY DEF IInv, LockOK
<1>4. \A u \in Tasks : waiter'.by # u
  BY <1>2, TaskNames
<1> QED BY <1>2, <1>3, <1>4, LockLeft

\* A thread gives up its call.
LEMMA GiveUpKeeps ==
  ASSUME IInv, NEW t \in Tasks, GiveUp(t)
  PROVE  LockOK' /\ TasksOK' /\ HandlerUnanswered'
<1>1. /\ Waited(t) /\ Resume(t, <<>>) /\ remote' = remote
      /\ Cancelled(t) \/ Abandoned(t)
  BY DEF GiveUp
<1>2. pc[t] \in InLock
  BY <1>1 DEF Waited, Range, IInv, LockOK, InLock
<1>3. /\ pc' = [pc EXCEPT ![t] = pc'[t]] /\ job' = [job EXCEPT ![t] = job'[t]]
      /\ Arrives(t) /\ pc'[t] \notin InLock
  BY <1>1, <1>2, ResumeArrives, EmptySeq
<1>4. TasksOK' /\ HandlerUnanswered'
  BY <1>1, <1>3, ArrivesKeepsTasks
<1>5. LockOK'
  BY <1>1, <1>3, CancelledInLine, AbandonedInLine, LeftInLock DEF Cancelled, Abandoned
<1> QED BY <1>4, <1>5

-----------------------------------------------------------------------------
(* The ways in which the actions move a task.                               *)

Settled == LockOK' /\ TasksOK' /\ HandlerUnanswered'

\* Where a handler never comes.
Barred == {"swap", "swapped", "reconciled", "await_lock"}

LEMMA JobSettles ==
  ASSUME IInv, NEW t \in Tasks, pc[t] \notin InLock, NEW p \in Pcs \ InLock,
         NEW j \in Jobs(Peer), TaskOK(p, j), t = "reader" => j.got = <<>> /\ p \notin Barred,
         Goto(t, p), job' = [job EXCEPT ![t] = j], UNCHANGED <<remote, waiter, line>>
  PROVE  Settled
<1>1. pc \in [Tasks -> Pcs] /\ job \in [Tasks -> Jobs(Peer)]
  BY DEF IInv, TasksOK
<1>2. pc'[t] = p /\ job'[t] = j
  BY <1>1 DEF Goto
<1>3. MovesAlone(t)
  BY <1>2 DEF MovesAlone, Goto
<1>4. Arrives(t)
  BY <1>2 DEF Arrives, Barred
<1> QED BY <1>2, <1>3, <1>4, MovesKeeps DEF Settled

LEMMA GotoSettles ==
  ASSUME IInv, NEW t \in Tasks, pc[t] \notin InLock,
         NEW p \in Pcs \ (InLock \cup {"accept", "cut"}),
         p \in Viewing => job[t].view.head \in Peer, t = "reader" => p \notin Barred,
         Goto(t, p), UNCHANGED <<job, remote, waiter, line>>
  PROVE  Settled
<1>1. job \in [Tasks -> Jobs(Peer)]
  BY DEF IInv, TasksOK
<1>2. job[t] \in Jobs(Peer) /\ job' = [job EXCEPT ![t] = job[t]]
  BY <1>1
<1>3. TaskOK(p, job[t])
  BY DEF TaskOK
<1>4. t = "reader" => job[t].got = <<>>
  BY DEF IInv, HandlerUnanswered
<1> QED BY <1>2, <1>3, <1>4, JobSettles

LEMMA FreshSettles ==
  ASSUME IInv, NEW t \in Tasks, pc[t] \notin InLock, UNCHANGED <<remote, waiter, line>>
  PROVE  /\ Done(t) => Settled
         /\ ThenRefresh(t) => Settled
<1>1. Blank \in Jobs(Peer) /\ Blank.got = <<>>
  BY BlankTyped
<1>2. ASSUME NEW p \in {"read", "idle", "refresh"}, Goto(t, p),
             job' = [job EXCEPT ![t] = Blank]
      PROVE  Settled
  <2>1. p \in Pcs \ InLock /\ TaskOK(p, Blank) /\ p \notin Barred
    BY DEF Pcs, InLock, TaskOK, Viewing, Barred
  <2> QED BY <1>1, <1>2, <2>1, JobSettles
<1>3. Home(t) \in {"read", "idle", "refresh"}
  BY DEF Home
<1> QED BY <1>2, <1>3 DEF Done, ThenRefresh

LEMMA ProceedSettles ==
  ASSUME IInv, NEW t \in Tasks, pc[t] \notin InLock, UNCHANGED <<remote, waiter, line>>,
         NEW p \in {"target", "run_ahead", "fetch"}, Proceed(t, p),
         p = "target" => job[t].view.head \in Peer
  PROVE  Settled
<1>1. job \in [Tasks -> Jobs(Peer)]
  BY DEF IInv, TasksOK
<1>2. /\ Kept(job[t]) \in Jobs(Peer) /\ Kept(job[t]).got = <<>>
      /\ Kept(job[t]).view = job[t].view
  BY <1>1, BlankTyped
<1>3. p \in Pcs \ InLock /\ p \notin Barred /\ TaskOK(p, Kept(job[t]))
  BY <1>2 DEF Pcs, InLock, Barred, TaskOK, Viewing
<1>4. job' = [job EXCEPT ![t] = Kept(job[t])] /\ Goto(t, p)
  BY <1>1 DEF Proceed
<1> QED BY <1>2, <1>3, <1>4, JobSettles

\* What the tasks leave alone keeps its type.
LEMMA ChainStays ==
  ASSUME IInv, UNCHANGED <<remote, late, probes>>, head' \in Blocks,
         claim' \in [height : Nat, head : Peer],
         trust' \in [state : States, about : Peer \cup {None}],
         wire' \in Seq(Messages(Peer))
  PROVE  ChainOK'
BY DEF IInv, ChainOK, Peer

\* What the invariant says of one task.
LEMMA TaskFacts ==
  ASSUME IInv, NEW t \in Tasks
  PROVE  /\ job[t] \in Jobs(Peer) /\ pc[t] \in Pcs /\ TaskOK(pc[t], job[t])
         /\ job[t].got \in Seq(Peer) /\ job[t].view.height \in Nat
         /\ job[t].view.head \in Peer \cup {None}
         /\ job[t].seen \in Blocks \cup {None} /\ job[t].cursor \in Nat
         /\ t = "reader" => job[t].got = <<>> /\ pc[t] \notin Barred
         /\ job \in [Tasks -> Jobs(Peer)] /\ pc \in [Tasks -> Pcs]
<1>1. job \in [Tasks -> Jobs(Peer)] /\ pc \in [Tasks -> Pcs] /\ TaskOK(pc[t], job[t])
  BY DEF IInv, TasksOK
<1>2. t = "reader" => job[t].got = <<>> /\ pc[t] \notin Barred
  BY DEF IInv, HandlerUnanswered, Barred
<1>3. job[t] \in Jobs(Peer)
  BY <1>1
<1> QED BY <1>1, <1>2, <1>3 DEF Jobs

LEMMA ChainFacts ==
  ASSUME IInv
  PROVE  /\ head \in Blocks /\ remote \in Blocks /\ Peer \subseteq Blocks /\ remote \in Peer
         /\ claim \in [height : Nat, head : Peer] /\ claim.height \in Nat /\ claim.head \in Peer
         /\ trust \in [state : States, about : Peer \cup {None}]
         /\ wire \in Seq(Messages(Peer))
         /\ Height[head] \in Nat /\ Height \in [Blocks -> Nat] /\ None \notin Blocks
         /\ \A b \in Blocks : Height[b] \in Nat
BY OwnAncestor, TreeAssumption DEF IInv, ChainOK, Peer

-----------------------------------------------------------------------------
(* The probe of the consistency.                                            *)

LEMMA RefreshKeeps ==
  ASSUME IInv, NEW t \in Tasks, Refresh(t), UNCHANGED probes
  PROVE  IInv'
<1> DEFINE j == [Blank EXCEPT !.seen = head, !.view = claim]
<1>1. pc[t] = "refresh" /\ Goto(t, "roots") /\ job' = [job EXCEPT ![t] = j]
  BY DEF Refresh, Goto
<1>2. UNCHANGED <<head, remote, claim, wire, waiter, line, late, probes>>
  BY DEF Refresh, hubVars
<1>3. j \in Jobs(Peer) /\ j.got = <<>>
  BY BlankTyped, ChainFacts DEF Jobs
<1> HIDE DEF j
<1>4. "roots" \in Pcs \ InLock /\ TaskOK("roots", j) /\ "roots" \notin Barred /\ pc[t] \notin InLock
  BY <1>1 DEF Pcs, InLock, TaskOK, Viewing, Barred
<1>5. Settled
  BY <1>1, <1>2, <1>3, <1>4, JobSettles
<1>6. trust' \in [state : States, about : Peer \cup {None}]
  BY ChainFacts DEF Refresh, States
<1>7. ChainOK'
  BY <1>2, <1>6, ChainFacts, ChainStays
<1> QED BY <1>5, <1>7 DEF IInv, Settled

\* A call that changes nothing else keeps the invariant.
LEMMA CallInv ==
  ASSUME IInv, NEW t \in Tasks, pc[t] \notin InLock,
         NEW r \in Requests, NEW again \in BOOLEAN, NEW j \in Jobs(Peer), NEW next \in AnswerAt,
         next \in Viewing => j.view.head \in Peer, t = "reader" => j.got = <<>>,
         MakeCall(Call(t, r, again), j, next), UNCHANGED <<head, remote, claim, trust, late, probes>>
  PROVE  IInv'
<1>1. LockOK' /\ TasksOK' /\ HandlerUnanswered' /\ wire' \in Seq(Messages(Peer))
  BY CallKeeps
<1>2. ChainOK'
  BY <1>1, ChainFacts, ChainStays
<1> QED BY <1>1, <1>2 DEF IInv

LEMMA AskRootsKeeps ==
  ASSUME IInv, NEW t \in Tasks, AskRoots(t), UNCHANGED probes
  PROVE  IInv'
<1>1. /\ pc[t] \notin InLock /\ MakeCall(Call(t, RootRequest(Height[head]), TRUE), job[t], "evaluate")
      /\ UNCHANGED <<head, remote, claim, trust, late, probes>>
  BY DEF AskRoots, AskRoot, InLock
<1>2. RootRequest(Height[head]) \in Requests
  BY ChainFacts, RequestsTyped
<1>3. "evaluate" \in AnswerAt /\ "evaluate" \notin Viewing
  BY DEF AnswerAt, Viewing
<1> QED BY <1>1, <1>2, <1>3, TaskFacts, CallInv

LEMMA EvaluateKeeps ==
  ASSUME IInv, NEW t \in Tasks, Evaluate(t), UNCHANGED probes
  PROVE  IInv'
<1>1. pc[t] \notin InLock /\ Done(t) /\ UNCHANGED <<head, remote, claim, wire, waiter, line, late, probes>>
  BY DEF Evaluate, Done, Goto, InLock, hubVars
<1>2. Settled
  BY <1>1, FreshSettles
<1>3. trust' \in [state : States, about : Peer \cup {None}]
  <2> DEFINE got == job[t].got
             seen == job[t].seen
  <2>1. trust' = Verdict(seen, job[t].view, got) /\ got \in Seq(Peer)
    BY TaskFacts DEF Evaluate
  <2>2. CASE got = <<>>
    BY <2>1, <2>2 DEF Verdict, States
  <2>3. CASE got # <<>> /\ got[1] = seen
    <3>1. seen \in Peer
      BY <2>1, <2>3
    <3> HIDE DEF got, seen
    <3> QED BY <2>1, <2>3, <3>1 DEF Verdict, States
  <2>4. CASE got # <<>> /\ got[1] # seen
    <3> HIDE DEF got, seen
    <3> QED BY <2>1, <2>4 DEF Verdict, States
  <2> QED BY <2>2, <2>3, <2>4
<1>4. ChainOK'
  BY <1>1, <1>3, ChainFacts, ChainStays
<1> QED BY <1>2, <1>4 DEF IInv, Settled

-----------------------------------------------------------------------------
(* Forks.                                                                   *)

\* A task that moves keeps the invariant when the chains do.
LEMMA SettledInv ==
  ASSUME IInv, Settled, UNCHANGED <<remote, wire, late, probes>>, head' \in Blocks,
         claim' \in [height : Nat, head : Peer],
         trust' \in [state : States, about : Peer \cup {None}]
  PROVE  IInv'
BY ChainFacts, ChainStays DEF IInv, Settled

LEMMA ReconcileKeeps ==
  ASSUME IInv, NEW t \in Tasks, Reconcile(t), UNCHANGED probes
  PROVE  IInv'
<1>1. pc[t] \notin InLock /\ UNCHANGED <<head, remote, claim, trust, wire, waiter, line, late, probes>>
  BY DEF Reconcile, InLock, hubVars
<1>2. CASE claim.head = head
  BY <1>1, <1>2, FreshSettles, SettledInv, ChainFacts DEF Reconcile
<1>3. CASE claim.head # head
  <2> DEFINE j == [job[t] EXCEPT !.view = claim]
  <2>1. Goto(t, "fork_probe") /\ job' = [job EXCEPT ![t] = j]
    BY <1>3 DEF Reconcile
  <2>2. j \in Jobs(Peer) /\ j.view.head \in Peer /\ (t = "reader" => j.got = <<>>)
    <3>1. job[t] \in Jobs(Peer) /\ (t = "reader" => job[t].got = <<>>)
      BY TaskFacts
    <3>2. claim \in [height : Nat, head : Peer]
      BY ChainFacts
    <3> QED BY <3>1, <3>2 DEF Jobs
  <2> HIDE DEF j
  <2>3. "fork_probe" \in Pcs \ InLock /\ "fork_probe" \notin Barred /\ TaskOK("fork_probe", j)
    BY <2>2 DEF Pcs, InLock, Barred, TaskOK, Viewing
  <2>4. Settled
    BY <1>1, <2>1, <2>2, <2>3, JobSettles
  <2> QED BY <1>1, <2>4, SettledInv, ChainFacts
<1> QED BY <1>2, <1>3

LEMMA ForkProbeKeeps ==
  ASSUME IInv, NEW t \in Tasks, ForkProbe(t), UNCHANGED probes
  PROVE  IInv'
<1>1. /\ pc[t] = "fork_probe" /\ pc[t] \notin InLock
      /\ UNCHANGED <<head, remote, claim, trust, late, probes>>
  BY DEF ForkProbe, InLock
<1>2. job[t].view.head \in Peer
  BY <1>1, TaskFacts DEF TaskOK, Viewing
<1>3. CASE claim.height # Height[head] \/ claim.head = head
  <2>1. Goto(t, "target") /\ UNCHANGED <<job, wire, waiter, line>>
    BY <1>3 DEF ForkProbe
  <2>2. "target" \in Pcs \ (InLock \cup {"accept", "cut"}) /\ "target" \notin Barred
    BY DEF Pcs, InLock, Barred
  <2>3. Settled
    BY <1>1, <1>2, <2>1, <2>2, GotoSettles
  <2> QED BY <1>1, <2>1, <2>3, SettledInv, ChainFacts
<1>4. CASE ~(claim.height # Height[head] \/ claim.head = head)
  <2> DEFINE j == [job[t] EXCEPT !.seen = head, !.peerh = claim.height]
  <2>1. MakeCall(Call(t, BlockRequest(claim.head), FALSE), j, "fork_answer")
    BY <1>4 DEF ForkProbe, AskFor
  <2>2. j \in Jobs(Peer) /\ j.view.head \in Peer /\ (t = "reader" => j.got = <<>>)
    <3>1. job[t] \in Jobs(Peer) /\ (t = "reader" => job[t].got = <<>>)
      BY TaskFacts
    <3>2. head \in Blocks /\ claim.height \in Nat
      BY ChainFacts
    <3> QED BY <1>2, <3>1, <3>2 DEF Jobs
  <2> HIDE DEF j
  <2>3. BlockRequest(claim.head) \in Requests /\ "fork_answer" \in AnswerAt
    BY ChainFacts, RequestsTyped DEF AnswerAt
  <2> QED BY <1>1, <2>1, <2>2, <2>3, CallInv
<1> QED BY <1>3, <1>4

LEMMA ForkAnswerKeeps ==
  ASSUME IInv, NEW t \in Tasks, ForkAnswer(t), UNCHANGED probes
  PROVE  IInv'
<1>1. /\ pc[t] = "fork_answer" /\ pc[t] \notin InLock
      /\ UNCHANGED <<head, remote, claim, trust, wire, waiter, line, late, probes>>
      /\ Done(t) \/ Proceed(t, "target")
  BY DEF ForkAnswer, InLock
<1>2. job[t].view.head \in Peer
  BY <1>1, TaskFacts DEF TaskOK, InLock, Viewing
<1>3. Settled
  BY <1>1, <1>2, FreshSettles, ProceedSettles
<1> QED BY <1>1, <1>3, SettledInv, ChainFacts

LEMMA TargetKeeps ==
  ASSUME IInv, NEW t \in Tasks, Target(t), UNCHANGED probes
  PROVE  IInv'
<1>1. /\ pc[t] = "target" /\ pc[t] \notin InLock
      /\ UNCHANGED <<head, remote, claim, trust, late, probes>>
  BY DEF Target, InLock
<1>2. job[t].view.head \in Peer
  BY <1>1, TaskFacts DEF TaskOK, Viewing
<1>3. CASE job[t].view.head = head
  <2>1. Done(t) /\ UNCHANGED <<wire, waiter, line>>
    BY <1>3 DEF Target
  <2> QED BY <1>1, <2>1, FreshSettles, SettledInv, ChainFacts
<1>4. CASE job[t].view.head # head
  <2>1. MakeCall(Call(t, BlockRequest(job[t].view.head), FALSE), job[t], "target_answer")
    BY <1>4 DEF Target, AskFor
  <2>2. BlockRequest(job[t].view.head) \in Requests /\ "target_answer" \in AnswerAt
    BY <1>2, ChainFacts, RequestsTyped DEF AnswerAt
  <2> QED BY <1>1, <1>2, <2>1, <2>2, TaskFacts, CallInv
<1> QED BY <1>3, <1>4

\* The handler has no answer, so it does not come to the swap.
LEMMA TargetAnswerKeeps ==
  ASSUME IInv, NEW t \in Tasks, TargetAnswer(t), UNCHANGED probes
  PROVE  IInv'
<1> DEFINE b == job[t].view.head
           j == [job[t] EXCEPT !.cursor = Height[Parent[b]], !.got = <<>>]
<1>1. /\ pc[t] = "target_answer" /\ pc[t] \notin InLock
      /\ UNCHANGED <<head, remote, claim, trust, wire, waiter, line, late, probes>>
  BY DEF TargetAnswer, InLock
<1>2. job[t].view.head \in Peer
  BY <1>1, TaskFacts DEF TaskOK, InLock, Viewing
<1>3. \/ Done(t)
      \/ /\ job[t].got # <<>> /\ Parent[b] \in Ancestors[head]
         /\ Goto(t, "swap") /\ job' = [job EXCEPT ![t] = j]
  BY DEF TargetAnswer
<1>4. CASE Done(t)
  BY <1>1, <1>4, FreshSettles, SettledInv, ChainFacts
<1>5. CASE ~Done(t)
  <2>1. /\ job[t].got # <<>> /\ Parent[b] \in Ancestors[head]
        /\ Goto(t, "swap") /\ job' = [job EXCEPT ![t] = j]
    BY <1>3, <1>5
  <2>2. t # "reader"
    BY <2>1, TaskFacts
  <2>3. Height[Parent[b]] \in Nat
    BY <2>1, ChainFacts, OwnAncestor
  <2>4. j \in Jobs(Peer) /\ j.view.head \in Peer
    <3>1. \A v \in Jobs(Peer), n \in Nat :
            LET w == [v EXCEPT !.cursor = n, !.got = <<>>]
            IN  w \in Jobs(Peer) /\ w.view = v.view
      BY EmptySeq DEF Jobs
    <3>2. job[t] \in Jobs(Peer)
      BY TaskFacts
    <3> QED BY <1>2, <2>3, <3>1, <3>2
  <2> HIDE DEF j
  <2>5. "swap" \in Pcs \ InLock /\ TaskOK("swap", j)
    BY <2>4 DEF Pcs, InLock, TaskOK, Viewing
  <2>6. Settled
    BY <1>1, <2>1, <2>2, <2>4, <2>5, JobSettles
  <2> QED BY <1>1, <2>6, SettledInv, ChainFacts
<1> QED BY <1>4, <1>5

LEMMA SwapHeadKeeps ==
  ASSUME IInv, NEW t \in Tasks, SwapHead(t), UNCHANGED probes
  PROVE  IInv'
<1>1. /\ pc[t] = "swap" /\ pc[t] \notin InLock
      /\ UNCHANGED <<remote, claim, trust, wire, waiter, line, late, probes>>
      /\ Done(t) \/ (Goto(t, "swapped") /\ UNCHANGED job)
      /\ head' = job[t].view.head \/ head' = RolledBack(job[t].cursor)
  <2> DEFINE b == job[t].view.head
             cut == RolledBack(job[t].cursor)
  <2>1. /\ pc[t] = "swap" /\ UNCHANGED <<remote, claim, trust, wire, waiter, line, late, probes>>
        /\ head' = IF Imports(b, cut) THEN b ELSE cut
        /\ IF Imports(b, cut) THEN Goto(t, "swapped") /\ UNCHANGED job ELSE Done(t)
    BY DEF SwapHead, hubVars
  <2> HIDE DEF b, cut
  <2>2. /\ Done(t) \/ (Goto(t, "swapped") /\ UNCHANGED job)
        /\ head' = b \/ head' = cut
    BY <2>1
  <2> QED BY <2>1, <2>2 DEF b, cut, InLock
<1>2. job[t].view.head \in Peer /\ t # "reader"
  BY <1>1, TaskFacts DEF TaskOK, Viewing, Barred
<1>3. head' \in Blocks
  BY <1>1, <1>2, TaskFacts, ChainFacts, RolledBackTyped
<1>4. "swapped" \in Pcs \ (InLock \cup {"accept", "cut"})
  BY DEF Pcs, InLock
<1>5. Settled
  BY <1>1, <1>2, <1>4, FreshSettles, GotoSettles
<1> QED BY <1>1, <1>3, <1>5, SettledInv, ChainFacts

LEMMA SwappedKeeps ==
  ASSUME IInv, NEW t \in Tasks, Swapped(t), UNCHANGED probes
  PROVE  IInv'
<1>1. /\ pc[t] = "swapped" /\ pc[t] \notin InLock
      /\ UNCHANGED <<head, remote, trust, wire, waiter, line, late, probes>>
      /\ \/ Done(t) /\ claim' = claim
         \/ /\ claim' = [height |-> Height[job[t].view.head], head |-> job[t].view.head]
            /\ Goto(t, "reconciled") /\ UNCHANGED job
  BY DEF Swapped, InLock, hubVars
<1>2. job[t].view.head \in Peer /\ t # "reader"
  BY <1>1, TaskFacts DEF TaskOK, Viewing, Barred
<1>3. claim' \in [height : Nat, head : Peer]
  BY <1>1, <1>2, ChainFacts
<1>4. "reconciled" \in Pcs \ (InLock \cup {"accept", "cut"}) /\ "reconciled" \notin Viewing
  BY DEF Pcs, InLock, Viewing
<1>5. Settled
  BY <1>1, <1>2, <1>4, FreshSettles, GotoSettles
<1> QED BY <1>1, <1>3, <1>5, SettledInv, ChainFacts

LEMMA ReconciledKeeps ==
  ASSUME IInv, NEW t \in Tasks, Reconciled(t), UNCHANGED probes
  PROVE  IInv'
<1>1. /\ pc[t] = "reconciled" /\ pc[t] \notin InLock
      /\ UNCHANGED <<head, remote, claim, trust, wire, waiter, line, late, probes>>
      /\ Done(t) \/ (Goto(t, "await_lock") /\ UNCHANGED job)
  BY DEF Reconciled, InLock, hubVars
<1>2. t # "reader"
  BY <1>1, TaskFacts DEF Barred
<1>3. "await_lock" \in Pcs \ (InLock \cup {"accept", "cut"}) /\ "await_lock" \notin Viewing
  BY DEF Pcs, InLock, Viewing
<1>4. Settled
  BY <1>1, <1>2, <1>3, FreshSettles, GotoSettles
<1> QED BY <1>1, <1>4, SettledInv, ChainFacts

LEMMA TaskStepKeeps ==
  ASSUME IInv, NEW t \in Tasks, TaskStep(t)
  PROVE  IInv'
BY RefreshKeeps, AskRootsKeeps, EvaluateKeeps, ReconcileKeeps, ForkProbeKeeps, ForkAnswerKeeps,
   TargetKeeps, TargetAnswerKeeps, SwapHeadKeeps, SwappedKeeps, ReconciledKeeps
   DEF TaskStep, ReconcileStep

-----------------------------------------------------------------------------
(* The sync task.                                                           *)

\* Places of the sync task that nothing has to hold for.
Plain == {"idle", "start", "refresh", "reconcile", "tip_probe", "head_probe", "run_ahead",
          "fetch", "import"}

LEMMA PlainSettles ==
  ASSUME IInv, pc["sync"] \notin InLock, NEW p \in Plain, Goto("sync", p),
         NEW j \in Jobs(Peer), job' = [job EXCEPT !["sync"] = j], UNCHANGED <<remote, waiter, line>>
  PROVE  Settled
<1>1. p \in Pcs \ InLock /\ TaskOK(p, j)
  BY DEF Plain, Pcs, AnswerAt, InLock, TaskOK, Viewing
<1> QED BY <1>1, TaskNames, JobSettles

LEMMA PlainGotoSettles ==
  ASSUME IInv, pc["sync"] \notin InLock, NEW p \in Plain, Goto("sync", p),
         UNCHANGED <<job, remote, waiter, line>>
  PROVE  Settled
<1>1. job["sync"] \in Jobs(Peer) /\ job' = [job EXCEPT !["sync"] = job["sync"]]
  BY TaskNames, TaskFacts
<1> QED BY <1>1, PlainSettles

\* What the catch-up does to its variables.
LEMMA SyncJobs ==
  ASSUME IInv, NEW j \in Jobs(Peer)
  PROVE  /\ \A n \in Nat : [j EXCEPT !.round = n] \in Jobs(Peer)
         /\ \A q \in Seq(Peer) : [j EXCEPT !.got = q] \in Jobs(Peer)
         /\ \A q \in Seq(Peer), n \in Nat :
              [j EXCEPT !.got = q, !.moved = TRUE, !.cursor = n] \in Jobs(Peer)
         /\ [j EXCEPT !.seen = head, !.peerh = claim.height] \in Jobs(Peer)
         /\ \A m, n \in Nat :
              [j EXCEPT !.round = m, !.view = claim, !.cursor = n] \in Jobs(Peer)
BY ChainFacts DEF Jobs

LEMMA ScheduleKeeps ==
  ASSUME IInv, Schedule, UNCHANGED probes
  PROVE  IInv'
<1>1. /\ pc["sync"] \notin InLock /\ Goto("sync", "start") /\ "start" \in Plain
      /\ UNCHANGED <<head, remote, claim, trust, job, wire, waiter, line, late, probes>>
  BY DEF Schedule, MaySchedule, InLock, hubVars, Plain
<1> QED BY <1>1, PlainGotoSettles, SettledInv, ChainFacts

LEMMA StartSyncKeeps ==
  ASSUME IInv, StartSync, UNCHANGED probes
  PROVE  IInv'
<1>1. /\ pc["sync"] = "start" /\ pc["sync"] \notin InLock
      /\ UNCHANGED <<head, remote, claim, trust, wire, waiter, line, late, probes>>
  BY DEF StartSync, InLock, hubVars
<1>2. \/ Done("sync")
      \/ \E p \in {"reconcile", "refresh"} : Goto("sync", p) /\ UNCHANGED job
      \/ Goto("sync", "tip_probe") /\ job' = [job EXCEPT !["sync"].round = 1]
  BY ChainFacts DEF StartSync
<1>3. CASE Done("sync")
  BY <1>1, <1>3, TaskNames, FreshSettles, SettledInv, ChainFacts
<1>4. CASE \E p \in {"reconcile", "refresh"} : Goto("sync", p) /\ UNCHANGED job
  <2>1. PICK p \in {"reconcile", "refresh"} : Goto("sync", p) /\ UNCHANGED job
    BY <1>4
  <2>2. p \in Plain
    BY DEF Plain
  <2> QED BY <1>1, <2>1, <2>2, PlainGotoSettles, SettledInv, ChainFacts
<1>5. CASE Goto("sync", "tip_probe") /\ job' = [job EXCEPT !["sync"].round = 1]
  <2> DEFINE j == [job["sync"] EXCEPT !.round = 1]
  <2>1. j \in Jobs(Peer) /\ job' = [job EXCEPT !["sync"] = j] /\ "tip_probe" \in Plain
    BY <1>5, TaskNames, TaskFacts, SyncJobs DEF Plain
  <2> HIDE DEF j
  <2> QED BY <1>1, <1>5, <2>1, PlainSettles, SettledInv, ChainFacts
<1> QED BY <1>2, <1>3, <1>4, <1>5

LEMMA TipProbeKeeps ==
  ASSUME IInv, TipProbe, UNCHANGED probes
  PROVE  IInv'
<1>1. /\ pc["sync"] \notin InLock
      /\ UNCHANGED <<head, remote, claim, trust, late, probes>>
  BY DEF TipProbe, InLock
<1>2. \/ Goto("sync", "head_probe") /\ UNCHANGED <<job, wire, waiter, line>>
      \/ MakeCall(Call("sync", RootRequest(Height[head]), TRUE), job["sync"], "tip_answer")
  BY DEF TipProbe, AskRoot, S
<1>3. CASE Goto("sync", "head_probe") /\ UNCHANGED <<job, wire, waiter, line>>
  <2>1. "head_probe" \in Plain
    BY DEF Plain
  <2> QED BY <1>1, <1>3, <2>1, PlainGotoSettles, SettledInv, ChainFacts
<1>4. CASE MakeCall(Call("sync", RootRequest(Height[head]), TRUE), job["sync"], "tip_answer")
  <2>1. /\ RootRequest(Height[head]) \in Requests /\ job["sync"] \in Jobs(Peer)
        /\ "tip_answer" \in AnswerAt /\ "tip_answer" \notin Viewing
    BY ChainFacts, RequestsTyped, TaskNames, TaskFacts DEF AnswerAt, Viewing
  <2> QED BY <1>1, <1>4, <2>1, TaskNames, CallInv
<1> QED BY <1>2, <1>3, <1>4

\* A probe of the sync task is refused, or it goes on.
LEMMA ProbeEndKeeps ==
  ASSUME IInv, pc["sync"] \notin InLock, Refused \/ Probed,
         UNCHANGED <<head, remote, claim, trust, wire, waiter, line, late, probes>>
  PROVE  IInv'
<1>1. \/ Done("sync") \/ ThenRefresh("sync")
      \/ \E p \in {"run_ahead", "fetch"} : Proceed("sync", p)
  BY DEF Refused, Probed
<1>2. Settled
  <2>1. CASE Done("sync") \/ ThenRefresh("sync")
    BY <2>1, TaskNames, FreshSettles
  <2>2. CASE \E p \in {"run_ahead", "fetch"} : Proceed("sync", p)
    <3>1. PICK p \in {"run_ahead", "fetch"} : Proceed("sync", p)
      BY <2>2
    <3>2. p # "target" /\ p \in {"target", "run_ahead", "fetch"}
      OBVIOUS
    <3> QED BY <3>1, <3>2, TaskNames, ProceedSettles
  <2> QED BY <1>1, <2>1, <2>2
<1> QED BY <1>2, SettledInv, ChainFacts

LEMMA HeadProbeKeeps ==
  ASSUME IInv, HeadProbe, UNCHANGED probes
  PROVE  IInv'
<1> DEFINE j == [Kept(job["sync"]) EXCEPT !.seen = head, !.peerh = claim.height]
<1>1. /\ pc["sync"] \notin InLock
      /\ UNCHANGED <<head, remote, claim, trust, late, probes>>
  BY DEF HeadProbe, InLock
<1>2. \/ (Refused \/ Probed) /\ UNCHANGED <<wire, waiter, line>>
      \/ MakeCall(Call("sync", BlockRequest(claim.head), FALSE), j, "head_answer")
  BY DEF HeadProbe, AskFor, S
<1>3. CASE (Refused \/ Probed) /\ UNCHANGED <<wire, waiter, line>>
  BY <1>1, <1>3, ProbeEndKeeps
<1>4. CASE MakeCall(Call("sync", BlockRequest(claim.head), FALSE), j, "head_answer")
  <2>1. j \in Jobs(Peer)
    BY TaskNames, TaskFacts, BlankTyped, SyncJobs
  <2>2. /\ BlockRequest(claim.head) \in Requests
        /\ "head_answer" \in AnswerAt /\ "head_answer" \notin Viewing
    BY ChainFacts, RequestsTyped DEF AnswerAt, Viewing
  <2> HIDE DEF j
  <2> QED BY <1>1, <1>4, <2>1, <2>2, TaskNames, CallInv
<1> QED BY <1>2, <1>3, <1>4

LEMMA HeadAnswerKeeps ==
  ASSUME IInv, HeadAnswer, UNCHANGED probes
  PROVE  IInv'
<1>1. /\ pc["sync"] \notin InLock
      /\ Refused \/ Probed
      /\ UNCHANGED <<head, remote, claim, trust, wire, waiter, line, late, probes>>
  BY DEF HeadAnswer, InLock, hubVars
<1> QED BY <1>1, ProbeEndKeeps

LEMMA RunAheadKeeps ==
  ASSUME IInv, RunAhead, UNCHANGED probes
  PROVE  IInv'
<1> DEFINE j == [Blank EXCEPT !.round = 2, !.view = claim, !.cursor = Height[head] + 1]
<1>1. /\ pc["sync"] \notin InLock
      /\ UNCHANGED <<head, remote, claim, trust, wire, waiter, line, late, probes>>
      /\ \/ ThenRefresh("sync")
         \/ Goto("sync", "tip_probe") /\ job' = [job EXCEPT !["sync"] = j]
  BY DEF RunAhead, InLock, hubVars
<1>2. j \in Jobs(Peer) /\ "tip_probe" \in Plain
  <2>1. Blank \in Jobs(Peer) /\ Height[head] + 1 \in Nat
    BY BlankTyped, ChainFacts
  <2> QED BY <2>1, SyncJobs DEF Plain
<1> HIDE DEF j
<1>3. Settled
  BY <1>1, <1>2, TaskNames, FreshSettles, PlainSettles
<1> QED BY <1>1, <1>3, SettledInv, ChainFacts

LEMMA FetchKeeps ==
  ASSUME IInv, Fetch, UNCHANGED probes
  PROVE  IInv'
<1>1. /\ pc["sync"] \notin InLock
      /\ UNCHANGED <<head, remote, claim, trust, late, probes>>
  BY DEF Fetch, InLock
<1>2. \/ ThenRefresh("sync") /\ UNCHANGED <<wire, waiter, line>>
      \/ MakeCall(Call("sync", BlocksRequest(S.cursor, BatchEnd), FALSE), Kept(S), "import")
  BY DEF Fetch, AskFor
<1>3. CASE ThenRefresh("sync") /\ UNCHANGED <<wire, waiter, line>>
  BY <1>1, <1>3, TaskNames, FreshSettles, SettledInv, ChainFacts
<1>4. CASE MakeCall(Call("sync", BlocksRequest(S.cursor, BatchEnd), FALSE), Kept(S), "import")
  <2>1. S.cursor \in Nat /\ S.view.height \in Nat /\ S \in Jobs(Peer)
    BY TaskNames, TaskFacts DEF S
  <2>2. BatchEnd \in Int
    BY <2>1, BatchAssumption DEF BatchEnd
  <2>3. BlocksRequest(S.cursor, BatchEnd) \in Requests
    BY <2>1, <2>2, ChainFacts, RequestsTyped
  <2>4. Kept(S) \in Jobs(Peer) /\ "import" \in AnswerAt /\ "import" \notin Viewing
    BY <2>1, BlankTyped DEF AnswerAt, Viewing
  <2> QED BY <1>1, <1>4, <2>3, <2>4, TaskNames, CallInv
<1> QED BY <1>2, <1>3, <1>4

LEMMA ImportOneKeeps ==
  ASSUME IInv, ImportOne, UNCHANGED probes
  PROVE  IInv'
<1> DEFINE b == Head(S.got)
           j == [S EXCEPT !.got = Tail(S.got), !.moved = TRUE, !.cursor = Height[b] + 1]
           k == [S EXCEPT !.got = <<>>]
<1>1. /\ pc["sync"] = "import" /\ pc["sync"] \notin InLock /\ S.got # <<>>
      /\ UNCHANGED <<remote, claim, trust, wire, waiter, line, late, probes>>
  BY DEF ImportOne, InLock, hubVars
<1>2. /\ S \in Jobs(Peer) /\ S.got \in Seq(Peer) /\ b \in Peer /\ Tail(S.got) \in Seq(Peer)
      /\ job \in [Tasks -> Jobs(Peer)] /\ pc \in [Tasks -> Pcs]
  BY <1>1, TaskNames, TaskFacts, HeadTailProperties DEF S
<1>3. b \in Blocks /\ Height[b] + 1 \in Nat
  BY <1>2, ChainFacts
<1>4. \/ head' = b /\ job' = [job EXCEPT !["sync"] = j] /\ pc' = pc
      \/ /\ Parent[b] \in Ancestors[head]
         /\ Goto("sync", "cut") /\ UNCHANGED <<head, job>>
      \/ job' = [job EXCEPT !["sync"] = k] /\ UNCHANGED <<head, pc>>
  BY <1>2, TaskNames DEF ImportOne, S
<1>5. pc' = pc => Goto("sync", "import") /\ "import" \in Plain
  BY <1>1, <1>2 DEF Goto, Plain
<1>6. CASE head' = b /\ job' = [job EXCEPT !["sync"] = j] /\ pc' = pc
  <2>1. j \in Jobs(Peer)
    BY <1>2, <1>3, SyncJobs
  <2> HIDE DEF j
  <2>2. Settled
    BY <1>1, <1>5, <1>6, <2>1, PlainSettles
  <2> QED BY <1>1, <1>3, <1>6, <2>2, SettledInv, ChainFacts
<1>7. CASE Parent[b] \in Ancestors[head] /\ Goto("sync", "cut") /\ UNCHANGED <<head, job>>
  <2>1. Parent[b] \in Blocks
    BY <1>7, ChainFacts, OwnAncestor
  <2>2. "cut" \in Pcs \ InLock /\ TaskOK("cut", S) /\ job' = [job EXCEPT !["sync"] = S]
    BY <1>1, <1>2, <1>7, <2>1 DEF Pcs, InLock, TaskOK, Viewing, S
  <2>3. Settled
    BY <1>1, <1>2, <1>7, <2>2, TaskNames, JobSettles
  <2> QED BY <1>1, <1>7, <2>3, SettledInv, ChainFacts
<1>8. CASE job' = [job EXCEPT !["sync"] = k] /\ UNCHANGED <<head, pc>>
  <2>1. k \in Jobs(Peer)
    BY <1>2, SyncJobs, EmptySeq
  <2> HIDE DEF k
  <2>2. Settled
    BY <1>1, <1>5, <1>8, <2>1, PlainSettles
  <2> QED BY <1>1, <1>8, <2>2, SettledInv, ChainFacts
<1> QED BY <1>4, <1>6, <1>7, <1>8

LEMMA CutKeeps ==
  ASSUME IInv, Cut, UNCHANGED probes
  PROVE  IInv'
<1> DEFINE j == [S EXCEPT !.got = <<>>, !.moved = TRUE, !.cursor = Height[CutAt] + 1]
<1>1. /\ pc["sync"] = "cut" /\ pc["sync"] \notin InLock
      /\ head' = CutAt /\ Goto("sync", "import") /\ "import" \in Plain
      /\ UNCHANGED <<remote, claim, trust, wire, waiter, line, late, probes>>
  BY DEF Cut, InLock, hubVars, Plain
<1>2. Parent[Head(S.got)] \in Blocks /\ S \in Jobs(Peer) /\ job \in [Tasks -> Jobs(Peer)]
  BY <1>1, TaskNames, TaskFacts DEF TaskOK, S
<1>3. CutAt \in Blocks /\ Height[CutAt] + 1 \in Nat
  <2>1. Height[Parent[Head(S.got)]] \in Nat
    BY <1>2, ChainFacts
  <2>2. CutAt \in Blocks
    BY <2>1, ChainFacts, RolledBackTyped DEF CutAt
  <2> QED BY <2>2, ChainFacts
<1>4. job' = [job EXCEPT !["sync"] = j]
  BY <1>2, TaskNames DEF Cut, S
<1>5. j \in Jobs(Peer)
  BY <1>2, <1>3, SyncJobs, EmptySeq
<1> HIDE DEF j
<1>6. Settled
  BY <1>1, <1>4, <1>5, PlainSettles
<1> QED BY <1>1, <1>3, <1>6, SettledInv, ChainFacts

LEMMA MaxOfThree ==
  ASSUME NEW x \in Nat, NEW y \in Nat, NEW z \in Nat
  PROVE  Max({x, y, z}) \in Nat
<1>1. \E m \in {x, y, z} : \A n \in {x, y, z} : m >= n
  OBVIOUS
<1> QED BY <1>1 DEF Max

LEMMA BatchDoneKeeps ==
  ASSUME IInv, BatchDone, UNCHANGED probes
  PROVE  IInv'
<1>1. /\ pc["sync"] \notin InLock
      /\ UNCHANGED <<head, remote, trust, wire, waiter, line, late, probes>>
      /\ \/ /\ Proceed("sync", "fetch")
            /\ claim' = [claim EXCEPT !.height = Max({claim.height, S.view.height, Height[head]})]
         \/ ThenRefresh("sync") /\ claim' = claim
  BY DEF BatchDone, InLock, hubVars
<1>2. Max({claim.height, S.view.height, Height[head]}) \in Nat
  BY TaskNames, TaskFacts, ChainFacts, MaxOfThree DEF S
<1>3. claim' \in [height : Nat, head : Peer]
  BY <1>1, <1>2, ChainFacts
<1>4. Settled
  BY <1>1, TaskNames, FreshSettles, ProceedSettles
<1> QED BY <1>1, <1>3, <1>4, SettledInv, ChainFacts

LEMMA SyncStepKeeps ==
  ASSUME IInv, SyncStep
  PROVE  IInv'
BY StartSyncKeeps, TipProbeKeeps, HeadProbeKeeps, HeadAnswerKeeps, RunAheadKeeps, FetchKeeps,
   ImportOneKeeps, CutKeeps, BatchDoneKeeps DEF SyncStep, CatchUpStep

-----------------------------------------------------------------------------
(* The peer, the loop that reads its messages and the mining loop.          *)

LEMMA StaysSettled ==
  ASSUME IInv, UNCHANGED <<remote, pc, job, waiter, line>>
  PROVE  Settled
<1>1. Calls' = Calls /\ NoWaiter' = NoWaiter /\ Peer' = Peer
  BY DEF Calls, Requests, Tasks, NoWaiter, Call, NoRequest, Peer
<1>2. LockOK'
  BY <1>1 DEF IInv, LockOK
<1>3. TasksOK'
  BY <1>1 DEF IInv, TasksOK, TaskOK
<1> QED BY <1>2, <1>3 DEF IInv, HandlerUnanswered, Settled

\* All that is known of a chain holds of a longer one.
LEMMA Monotonic ==
  ASSUME NEW A, NEW B, A \subseteq B
  PROVE  Messages(A) \subseteq Messages(B) /\ Jobs(A) \subseteq Jobs(B)
<1>1. Seq(A) \subseteq Seq(B)
  BY SeqMonotonic
<1>2. Messages(A) \subseteq Messages(B)
  BY <1>1 DEF Messages
<1>3. Jobs(A) \subseteq Jobs(B)
  BY <1>1 DEF Jobs
<1> QED BY <1>2, <1>3

LEMMA PeerExtendsKeeps ==
  ASSUME IInv, PeerExtends
  PROVE  IInv'
<1>1. PICK b \in Blocks : /\ Parent[b] = remote /\ remote' = b
                          /\ wire' = IF b \in Own THEN wire ELSE Append(wire, News("announce"))
  BY DEF PeerExtends
<1>2. UNCHANGED <<head, claim, trust, pc, job, waiter, line, late, probes>>
  BY DEF PeerExtends
<1>3. Peer \subseteq Peer' /\ remote' \in Peer'
  BY <1>1, ChainFacts, ChildChain, OwnAncestor DEF Peer
<1>4. Messages(Peer) \subseteq Messages(Peer') /\ Jobs(Peer) \subseteq Jobs(Peer')
  BY <1>3, Monotonic
<1>5. News("announce") \in Messages(Peer')
  BY <1>3 DEF News, Messages
<1>6. wire' \in Seq(Messages(Peer'))
  <2>1. wire \in Seq(Messages(Peer'))
    BY <1>4, ChainFacts, SeqMonotonic
  <2> QED BY <1>1, <1>5, <2>1, AppendProperties
<1>7. ChainOK'
  BY <1>1, <1>2, <1>3, <1>6 DEF IInv, ChainOK
<1>8. TasksOK'
  <2>1. ASSUME NEW t \in Tasks PROVE TaskOK(pc[t], job[t])'
    BY <1>2, <1>3 DEF IInv, TasksOK, TaskOK
  <2>2. pc' \in [Tasks -> Pcs] /\ job' \in [Tasks -> Jobs(Peer')]
    BY <1>2, <1>4 DEF IInv, TasksOK
  <2> QED BY <2>1, <2>2 DEF TasksOK
<1>9. LockOK' /\ HandlerUnanswered'
  <2>1. Calls' = Calls /\ NoWaiter' = NoWaiter
    BY DEF Calls, Requests, Tasks, NoWaiter, Call, NoRequest
  <2> QED BY <1>2, <2>1 DEF IInv, LockOK, HandlerUnanswered
<1> QED BY <1>7, <1>8, <1>9 DEF IInv

LEMMA PeerStatusKeeps ==
  ASSUME IInv, PeerStatus
  PROVE  IInv'
<1>1. /\ wire' = Append(wire, [kind |-> "status", body |-> <<remote>>])
      /\ UNCHANGED <<head, remote, claim, trust, pc, job, waiter, line, late, probes>>
  BY DEF PeerStatus
<1>2. [kind |-> "status", body |-> <<remote>>] \in Messages(Peer)
  <2>1. <<remote>> \in Seq(Peer) /\ <<remote>> # <<>>
    BY ChainFacts
  <2> QED BY <2>1 DEF Messages
<1>3. wire' \in Seq(Messages(Peer))
  BY <1>1, <1>2, ChainFacts, AppendProperties
<1> QED BY <1>1, <1>3, StaysSettled, ChainStays, ChainFacts DEF IInv, Settled

\* What the loop reads is about the peer's chain.
LEMMA ReadFacts ==
  ASSUME IInv, wire # <<>>
  PROVE  /\ Head(wire) \in Messages(Peer) /\ Tail(wire) \in Seq(Messages(Peer))
         /\ Head(wire).body \in Seq(Peer)
         /\ Head(wire).kind \in {"announce", "status"} => Head(wire).body[1] \in Peer
<1>1. Head(wire) \in Messages(Peer) /\ Tail(wire) \in Seq(Messages(Peer))
  BY ChainFacts, HeadTailProperties
<1>2. \A m \in Messages(Peer) : /\ m.body \in Seq(Peer)
                                /\ m.kind \in {"announce", "status"} => m.body # <<>>
  BY DEF Messages
<1>3. \A q \in Seq(Peer) : q # <<>> => q[1] \in Peer
  OBVIOUS
<1> QED BY <1>1, <1>2, <1>3

LEMMA ReadAnswerKeeps ==
  ASSUME IInv, ReadAnswer
  PROVE  IInv'
<1> DEFINE m == Head(wire)
<1>1. /\ pc["reader"] = "read" /\ wire # <<>> /\ wire' = Tail(wire)
      /\ UNCHANGED <<head, remote, claim, trust, late, probes>>
  BY DEF ReadAnswer, Reading
<1>2. CASE Solicited(m)
  <2> DEFINE got == IF Fits(waiter.req, m.body) THEN m.body ELSE <<>>
  <2>1. waiter # NoWaiter /\ Return(got)
    BY <1>2 DEF ReadAnswer, Solicited, Fulfill
  <2>2. got \in Seq(Peer)
    BY <1>1, ReadFacts, EmptySeq
  <2>3. waiter.by # "reader"
    BY <1>1, TaskNames DEF IInv, LockOK
  <2> HIDE DEF got
  <2>4. Settled
    BY <1>1, <2>1, <2>2, <2>3, ReturnKeeps DEF Settled
  <2> QED BY <1>1, <2>4, ReadFacts, ChainStays, ChainFacts DEF IInv, Settled
<1>3. CASE ~Solicited(m)
  <2>1. UNCHANGED <<pc, job, waiter, line>>
    BY <1>3 DEF ReadAnswer
  <2> QED BY <1>1, <2>1, StaysSettled, ReadFacts, ChainStays, ChainFacts DEF IInv, Settled
<1> QED BY <1>2, <1>3

LEMMA HeardTyped ==
  ASSUME IInv, NEW b \in Peer
  PROVE  Heard(b) \in [height : Nat, head : Peer]
BY ChainFacts DEF Heard

LEMMA ReadStatusKeeps ==
  ASSUME IInv, ReadStatus
  PROVE  IInv'
<1> DEFINE b == Head(wire).body[1]
<1>1. /\ wire # <<>> /\ Head(wire).kind = "status" /\ wire' = Tail(wire) /\ claim' = Heard(b)
      /\ UNCHANGED <<head, remote, trust, pc, job, waiter, line, late, probes>>
  BY DEF ReadStatus, Reading
<1>2. b \in Peer /\ wire' \in Seq(Messages(Peer))
  BY <1>1, ReadFacts
<1> HIDE DEF b
<1> QED BY <1>1, <1>2, HeardTyped, StaysSettled, ChainStays, ChainFacts DEF IInv, Settled

LEMMA ReadAnnounceKeeps ==
  ASSUME IInv, ReadAnnounce
  PROVE  IInv'
<1> DEFINE b == Head(wire).body[1]
<1>1. /\ pc["reader"] = "read" /\ wire # <<>> /\ Head(wire).kind = "announce"
      /\ wire' = Tail(wire) /\ claim' \in {claim, Heard(b)}
      /\ UNCHANGED <<head, remote, trust, waiter, line, late, probes>>
  BY DEF ReadAnnounce, Reading
<1>2. b \in Peer /\ b \in Blocks /\ wire' \in Seq(Messages(Peer))
  BY <1>1, ReadFacts, ChainFacts
<1>3. /\ \/ pc' = pc
         \/ pc["sync"] = "idle" /\ Goto("sync", "start")
         \/ Goto("reader", "accept") \/ Goto("reader", "reconcile")
      /\ job' = IF pc'["reader"] = "accept" THEN [job EXCEPT !["reader"].seen = b] ELSE job
  <2>1. /\ pc' = CASE Misplaced(b) \/ b \in Ancestors[head] -> pc
                   [] Height[b] > Height[head] + 1 ->
                        IF MaySchedule(Heard(b)) THEN [pc EXCEPT !["sync"] = "start"] ELSE pc
                   [] OTHER -> [pc EXCEPT !["reader"] =
                                  IF Height[b] > Height[head] THEN "accept" ELSE "reconcile"]
        /\ job' = IF pc'["reader"] = "accept" THEN [job EXCEPT !["reader"].seen = b] ELSE job
    BY DEF ReadAnnounce
  <2> HIDE DEF b
  <2>2. CASE Misplaced(b) \/ b \in Ancestors[head]
    <3>1. Height[b] \in Nat /\ Height[head] \in Nat /\ head \in Blocks
      BY <1>2, ChainFacts
    <3>2. b \in Ancestors[head] => Height[b] <= Height[head]
      BY <3>1, AncestorsAssumption
    <3>3. ~(Height[b] > Height[head] + 1)
      BY <2>2, <3>1, <3>2 DEF Misplaced
    <3>4. pc' = pc
      BY <2>1, <2>2, <3>3
    <3> QED BY <2>1, <3>4
  <2>3. CASE ~(Misplaced(b) \/ b \in Ancestors[head]) /\ Height[b] > Height[head] + 1
    <3>1. pc' = IF MaySchedule(Heard(b)) THEN [pc EXCEPT !["sync"] = "start"] ELSE pc
      BY <2>1, <2>3
    <3>2. MaySchedule(Heard(b)) => pc["sync"] = "idle"
      BY DEF MaySchedule
    <3> QED BY <2>1, <3>1, <3>2 DEF Goto
  <2>4. CASE ~(Misplaced(b) \/ b \in Ancestors[head]) /\ ~(Height[b] > Height[head] + 1)
    <3>1. pc' = [pc EXCEPT !["reader"] = IF Height[b] > Height[head] THEN "accept" ELSE "reconcile"]
      BY <2>1, <2>4
    <3> QED BY <2>1, <3>1 DEF Goto
  <2> QED BY <2>2, <2>3, <2>4
<1> HIDE DEF b
<1>4. pc \in [Tasks -> Pcs] /\ job \in [Tasks -> Jobs(Peer)] /\ pc["reader"] \notin InLock
  BY <1>1, TaskNames, TaskFacts DEF InLock
<1>5. Settled
  <2>1. CASE pc' = pc
    <3>1. job' = job
      BY <1>1, <1>3, <2>1
    <3> QED BY <1>1, <2>1, <3>1, StaysSettled
  <2>2. CASE pc["sync"] = "idle" /\ Goto("sync", "start")
    <3>1. job' = job
      BY <1>1, <1>3, <1>4, <2>2, TaskNames DEF Goto
    <3>2. pc["sync"] \notin InLock /\ "start" \in Plain
      BY <2>2 DEF InLock, Plain
    <3> QED BY <1>1, <2>2, <3>1, <3>2, PlainGotoSettles
  <2>3. CASE Goto("reader", "accept")
    <3> DEFINE j == [job["reader"] EXCEPT !.seen = b]
    <3>1. job' = [job EXCEPT !["reader"] = j]
      BY <1>3, <1>4, <2>3, TaskNames DEF Goto
    <3>2. j \in Jobs(Peer) /\ j.got = <<>> /\ j.seen = b
      BY <1>2, TaskNames, TaskFacts DEF Jobs
    <3> HIDE DEF j
    <3>3. "accept" \in Pcs \ InLock /\ "accept" \notin Barred /\ TaskOK("accept", j)
      BY <1>2, <3>2 DEF Pcs, InLock, Barred, TaskOK, Viewing
    <3> QED BY <1>1, <1>4, <2>3, <3>1, <3>2, <3>3, TaskNames, JobSettles
  <2>4. CASE Goto("reader", "reconcile")
    <3>1. job' = job
      BY <1>3, <1>4, <2>4, TaskNames DEF Goto
    <3>2. /\ "reconcile" \in Pcs \ (InLock \cup {"accept", "cut"})
          /\ "reconcile" \notin Viewing /\ "reconcile" \notin Barred
      BY DEF Pcs, InLock, Viewing, Barred
    <3> QED BY <1>1, <1>4, <2>4, <3>1, <3>2, TaskNames, GotoSettles
  <2> QED BY <1>3, <2>1, <2>2, <2>3, <2>4
<1> QED BY <1>1, <1>2, <1>5, HeardTyped, ChainStays, ChainFacts DEF IInv, Settled

LEMMA AcceptKeeps ==
  ASSUME IInv, Accept
  PROVE  IInv'
<1>1. /\ pc["reader"] = "accept" /\ pc["reader"] \notin InLock
      /\ UNCHANGED <<remote, claim, trust, wire, waiter, line, late, probes>>
      /\ ThenRefresh("reader") \/ Done("reader")
      /\ head' = job["reader"].seen \/ head' = head
  BY DEF Accept, InLock, hubVars
<1>2. job["reader"].seen \in Blocks
  BY <1>1, TaskNames, TaskFacts DEF TaskOK
<1>3. Settled
  BY <1>1, TaskNames, FreshSettles
<1> QED BY <1>1, <1>2, <1>3, SettledInv, ChainFacts

LEMMA ProbeStarts ==
  ASSUME IInv, NEW t \in Tasks \ {"reader"}, pc[t] = "idle", Goto(t, "refresh"),
         UNCHANGED <<remote, job, waiter, line>>
  PROVE  Settled
<1>1. pc[t] \notin InLock /\ "refresh" \in Pcs \ (InLock \cup {"accept", "cut"})
  BY DEF InLock, Pcs
<1>2. "refresh" \notin Viewing
  BY DEF Viewing
<1> QED BY <1>1, <1>2, GotoSettles

LEMMA MineProbeKeeps ==
  ASSUME IInv, MineProbe
  PROVE  IInv'
<1>1. /\ pc["miner"] = "idle" /\ Goto("miner", "refresh") /\ probes < MaxProbes /\ probes' = probes + 1
      /\ UNCHANGED <<head, remote, claim, trust, job, wire, waiter, line, late>>
  BY DEF MineProbe, hubVars
<1>2. Settled
  BY <1>1, TaskNames, ProbeStarts
<1>3. ChainOK'
  BY <1>1, SyncAssumption DEF IInv, ChainOK, Peer
<1> QED BY <1>2, <1>3 DEF IInv, Settled

LEMMA ForgeKeeps ==
  ASSUME IInv, Forge
  PROVE  IInv'
<1>1. PICK t \in Probers : pc[t] = "idle" /\ Goto(t, "refresh")
  BY DEF Forge
<1>2. /\ head' \in Own
      /\ UNCHANGED <<remote, claim, trust, job, probes, wire, waiter, line, late>>
  BY DEF Forge, hubVars
<1>3. t \in Tasks \ {"reader"} /\ head' \in Blocks
  BY <1>2, HubAssumption, SyncAssumption DEF Tasks
<1>4. Settled
  BY <1>1, <1>2, <1>3, ProbeStarts
<1> QED BY <1>2, <1>3, <1>4, SettledInv, ChainFacts

-----------------------------------------------------------------------------
(* The calls.                                                               *)

LEMMA SendStepKeeps ==
  ASSUME IInv, SendStep
  PROVE  IInv'
<1>1. Send /\ UNCHANGED <<head, remote, claim, trust, late, probes>>
  BY DEF SendStep, Send
<1>2. LockOK' /\ TasksOK' /\ HandlerUnanswered' /\ wire' \in Seq(Messages(Peer))
  BY <1>1, SendKeeps
<1> QED BY <1>1, <1>2, ChainStays, ChainFacts DEF IInv

LEMMA TimeoutStepKeeps ==
  ASSUME IInv, TimeoutStep
  PROVE  IInv'
<1>1. /\ waiter # NoWaiter /\ Return(<<>>)
      /\ Unanswerable \/ late < MaxLate
      /\ late' = IF Unanswerable THEN late ELSE late + 1
      /\ UNCHANGED <<head, remote, claim, trust, wire, probes>>
  BY DEF TimeoutStep, Timeout
<1>2. Settled
  BY <1>1, ReturnKeeps, EmptySeq DEF Settled
<1>3. late' \in 0..MaxLate
  BY <1>1, HubAssumption DEF IInv, ChainOK
<1>4. ChainOK'
  BY <1>1, <1>3 DEF IInv, ChainOK, Peer
<1> QED BY <1>2, <1>4 DEF IInv, Settled

LEMMA GiveUpStepKeeps ==
  ASSUME IInv, NEW t \in Tasks, GiveUpStep(t)
  PROVE  IInv'
<1>1. /\ GiveUp(t) /\ late < MaxLate /\ late' = late + 1
      /\ UNCHANGED <<head, remote, claim, trust, wire, probes>>
  BY DEF GiveUpStep, GiveUp
<1>2. LockOK' /\ TasksOK' /\ HandlerUnanswered'
  BY <1>1, GiveUpKeeps
<1>3. ChainOK'
  BY <1>1, HubAssumption DEF IInv, ChainOK, Peer
<1> QED BY <1>2, <1>3 DEF IInv

-----------------------------------------------------------------------------
(* The invariant holds.                                                     *)

LEMMA IInvInit ==
  ASSUME Init
  PROVE  IInv
<1>1. /\ head \in Blocks /\ remote \in Blocks
      /\ claim = [height |-> Height[remote], head |-> remote] /\ trust = Boot
      /\ pc = [t \in Tasks |-> IF t = "sync" THEN "start" ELSE Home(t)]
      /\ job = [t \in Tasks |-> Blank]
      /\ wire = <<>> /\ waiter = NoWaiter /\ line = <<>> /\ late = 0 /\ probes = 0
  BY SyncAssumption DEF Init
<1>2. remote \in Peer /\ Height[remote] \in Nat
  BY <1>1, OwnAncestor DEF Peer
<1>3. ChainOK
  BY <1>1, <1>2, EmptySeq, HubAssumption, SyncAssumption DEF ChainOK, Boot, States
<1>4. \A t \in Tasks : pc[t] \in {"start", "idle", "read"}
  BY <1>1 DEF Home
<1>5. LockOK
  <2>1. waiter.by = "nobody" /\ DOMAIN line = {}
    BY <1>1 DEF NoWaiter, Call
  <2>2. line \in Seq(Calls)
    BY <1>1, EmptySeq
  <2>3. \A t \in Tasks : t # "nobody"
    BY TaskNames
  <2> QED BY <1>1, <1>4, <2>1, <2>2, <2>3 DEF LockOK
<1>6. TasksOK
  <2>1. Blank \in Jobs(Peer)
    BY BlankTyped
  <2>2. pc \in [Tasks -> Pcs]
    BY <1>1 DEF Home, Pcs
  <2>3. \A t \in Tasks : TaskOK(pc[t], job[t])
    BY <1>4 DEF TaskOK, InLock, Viewing
  <2> QED BY <1>1, <2>1, <2>2, <2>3 DEF TasksOK
<1>7. HandlerUnanswered
  BY <1>1, <1>4, TaskNames, BlankTyped DEF HandlerUnanswered
<1> QED BY <1>3, <1>5, <1>6, <1>7 DEF IInv

LEMMA IInvStep ==
  ASSUME IInv, [Next]_vars
  PROVE  IInv'
<1>1. CASE Next
  BY <1>1, PeerExtendsKeeps, PeerStatusKeeps, ReadAnswerKeeps, ReadStatusKeeps,
     ReadAnnounceKeeps, AcceptKeeps, TaskStepKeeps, GiveUpStepKeeps, SendStepKeeps,
     TimeoutStepKeeps, SyncStepKeeps, ScheduleKeeps, MineProbeKeeps, ForgeKeeps
     DEF Next, Read, ScheduleStep
<1>2. CASE UNCHANGED vars
  <2>1. UNCHANGED <<head, remote, claim, trust, pc, job, probes, wire, waiter, line, late>>
    BY <1>2 DEF vars, hubVars
  <2> QED BY <2>1, StaysSettled, ChainStays, ChainFacts DEF IInv, Settled
<1> QED BY <1>1, <1>2

LEMMA IInvHolds == Spec => []IInv
<1>1. Init => IInv
  BY IInvInit
<1>2. IInv /\ [Next]_vars => IInv'
  BY IInvStep
<1> QED BY <1>1, <1>2, PTL DEF Spec

\* Whatever the interleaving of calls, answers, timeouts and threads that give up:
\* the request that is armed is the one of the task that waits, each task that
\* asks is in the line of the lock once, and the peer has the head it is believed
\* to have (sync/solicit.py, P2PNode._wait_peer_response).
THEOREM TypeCorrect == Spec => []TypeOK
<1>1. IInv => TypeOK
  <2> SUFFICES ASSUME IInv PROVE TypeOK
    OBVIOUS
  <2>1. waiter.by \in Tasks \cup {"gone", "nobody"}
    BY LockFacts
  <2>2. trust.about \in Blocks \cup {None}
    BY ChainFacts
  <2> QED BY <2>1, <2>2, ChainFacts DEF TypeOK, IInv, ChainOK, LockOK, Peer
<1> QED BY <1>1, IInvHolds, PTL

\* The flag that lets the node mine is up only for a block that the peer's chain
\* has, with any number of probes at once, of any height and in any order
\* (SyncEngine.sync_state, ConsistencyMachine.evaluate_probe).
THEOREM TrustEarned == Spec => []TrustIsEarned
<1>1. IInv => TrustIsEarned
  BY ChainFacts DEF TrustIsEarned, StateConsistent, Peer
<1> QED BY <1>1, IInvHolds, PTL

\* A handler of the peer's messages gets no answer from that peer, so it swaps no
\* head and never waits for the lock that the sync task holds
\* (P2PNode._message_loop, _handle_new_block).
THEOREM HandlerGetsNothing == Spec => []HandlerUnanswered
<1>1. IInv => HandlerUnanswered
  BY DEF IInv
<1> QED BY <1>1, IInvHolds, PTL
=============================================================================
