------------------------------ MODULE PeerSync ------------------------------
(***************************************************************************)
(* A node and one honest peer: the loop that reads the peer's messages     *)
(* (P2PNode._message_loop, _handle_message, _handle_new_block and the      *)
(* status handler), the sync task, the forks, the consistency probe and    *)
(* the mining loop that asks for it, over one connection.  The loop runs   *)
(* a handler to its end before it reads on, so a handler that asks the     *)
(* same peer cannot read the answer.                                       *)
(***************************************************************************)
EXTENDS CatchUp

CONSTANTS Own,         \* blocks the node itself may forge
          Starts,      \* the heads of node and peer when they connect
          MaxWire,     \* news of the peer that may wait to be read
          MaxProbes    \* probes the mining loop may ask for

ASSUME SyncAssumption ==
  /\ Own \subseteq Blocks /\ Starts \subseteq Blocks \X Blocks
  /\ MaxWire \in Nat /\ MaxProbes \in Nat

VARIABLES forged,      \* blocks the node has forged
          probes       \* probes the mining loop has asked for

vars == <<head, remote, claim, trust, pc, job, forged, probes, hubVars>>

\* The handshake told the peer's head, and the sync task is scheduled.
Init ==
  /\ \E p \in Starts : head = p[1] /\ remote = p[2]
  /\ claim = [height |-> Height[remote], head |-> remote]
  /\ trust = Boot
  /\ pc = [t \in Tasks |-> IF t = "sync" THEN "start" ELSE Home(t)]
  /\ job = [t \in Tasks |-> Blank]
  /\ wire = <<>> /\ waiter = NoWaiter /\ line = <<>>
  /\ struck = FALSE /\ late = 0
  /\ forged = Own \cap Ancestors[head] /\ probes = 0

-----------------------------------------------------------------------------
(* The peer.                                                                *)

News(kind) == [kind |-> kind, body |-> <<remote'>>]

\* The peer's chain grows.  It does not announce what this node forged.
PeerExtends ==
  /\ Len(wire) < MaxWire
  /\ \E b \in {b \in Blocks : Parent[b] = remote} :
       /\ b \in Own => b \in forged
       /\ remote' = b
       /\ wire' = IF b \in Own THEN wire ELSE Append(wire, News("announce"))
  /\ UNCHANGED <<head, claim, trust, pc, job, forged, probes, waiter, line, struck, late>>

\* The status the peer sends every few seconds, when it says something new.
PeerStatus ==
  /\ Len(wire) < MaxWire
  /\ claim # [height |-> Height[remote], head |-> remote]
  /\ \A i \in DOMAIN wire : wire[i] # [kind |-> "status", body |-> <<remote>>]
  /\ wire' = Append(wire, [kind |-> "status", body |-> <<remote>>])
  /\ UNCHANGED <<head, remote, claim, trust, pc, job, forged, probes, waiter, line, struck, late>>

-----------------------------------------------------------------------------
(* The loop that reads the peer's messages.                                 *)

\* A loop that reads on while a handler waits.
ReadingOn(kinds) == wire # <<>> /\ Head(wire).kind \in kinds

Reading(kinds) == pc["reader"] = "read" /\ wire # <<>> /\ Head(wire).kind \in kinds

\* An answer meets the armed request; one nobody waits for is dropped, with
\* a strike that does not count.
ReadAnswer ==
  /\ Reading({"root", "block", "blocks"})
  /\ IF Solicited(Head(wire)) THEN Fulfill(Head(wire))
     ELSE UNCHANGED <<pc, job, waiter, line, struck>>
  /\ wire' = Tail(wire)
  /\ UNCHANGED <<head, remote, claim, trust, forged, probes, late>>

\* The peer is believed to be at the greatest height it told of.
Heard(b) == [height |-> IF Height[b] > claim.height THEN Height[b] ELSE claim.height,
             head |-> b]

ReadStatus ==
  /\ Reading({"status"})
  /\ claim' = Heard(Head(wire).body[1])
  /\ wire' = Tail(wire)
  /\ UNCHANGED <<head, remote, trust, pc, job, forged, probes, waiter, line, struck, late>>

\* _handle_new_block, as far as it goes without waiting.
ReadAnnounce ==
  /\ Reading({"announce"})
  /\ wire' = Tail(wire)
  /\ LET b == Head(wire).body[1]
     IN  /\ struck' = (struck \/ Misplaced(b))
         /\ claim' = IF Misplaced(b) THEN claim ELSE Heard(b)
         /\ pc' = CASE Misplaced(b) \/ b \in Ancestors[head] -> pc
                    [] Height[b] > Height[head] + 1 ->
                         IF MaySchedule(Heard(b)) THEN [pc EXCEPT !["sync"] = "start"] ELSE pc
                    [] OTHER -> [pc EXCEPT !["reader"] =
                                   IF Height[b] > Height[head] THEN "accept" ELSE "reconcile"]
         /\ job' = IF pc'["reader"] = "accept" THEN [job EXCEPT !["reader"].seen = b] ELSE job
  /\ UNCHANGED <<head, remote, trust, forged, probes, waiter, line, late>>

\* The announced block is imported; the handler then probes the consistency.
Accept ==
  /\ pc["reader"] = "accept"
  /\ LET b == job["reader"].seen
     IN  IF Imports(b, head) THEN head' = b /\ ThenRefresh("reader")
         ELSE Done("reader") /\ UNCHANGED head
  /\ UNCHANGED <<remote, claim, trust, forged, probes, hubVars>>

-----------------------------------------------------------------------------
(* The mining loop, while a peer is connected.                              *)

\* The loop waits for the probe it asks for when the flag is down.
MineProbe ==
  /\ pc["miner"] = "idle" /\ ~StateConsistent
  /\ probes < MaxProbes
  /\ probes' = probes + 1
  /\ Goto("miner", "refresh")
  /\ UNCHANGED <<head, remote, claim, trust, job, forged, hubVars>>

\* A block is forged while the flag is up.  The probe after it is not waited
\* for: the flag of the verdict before it lets the loop go on.
Forge ==
  /\ pc["miner"] = "idle" /\ StateConsistent
  /\ \E b \in Own \ forged : Parent[b] = head /\ head' = b /\ forged' = forged \cup {b}
  /\ \E t \in Probers : pc[t] = "idle" /\ Goto(t, "refresh")
  /\ UNCHANGED <<remote, claim, trust, job, probes, hubVars>>

-----------------------------------------------------------------------------
TaskStep(t) ==
  /\ Refresh(t) \/ AskRoots(t) \/ Evaluate(t) \/ ReconcileStep(t)
  /\ UNCHANGED <<forged, probes>>

SendStep == Send /\ UNCHANGED <<claim, trust, forged, probes>>
TimeoutStep == Timeout /\ UNCHANGED <<claim, trust, forged, probes>>
GiveUpStep(t) == GiveUp(t) /\ UNCHANGED <<claim, trust, forged, probes>>

SyncStep == CatchUpStep /\ UNCHANGED <<forged, probes>>
ScheduleStep == Schedule /\ UNCHANGED <<forged, probes>>

Read == ReadAnswer \/ ReadStatus \/ ReadAnnounce

Next ==
  \/ PeerExtends \/ PeerStatus
  \/ Read \/ Accept
  \/ \E t \in Tasks : TaskStep(t) \/ GiveUpStep(t)
  \/ SendStep \/ TimeoutStep \/ SyncStep \/ ScheduleStep
  \/ MineProbe \/ Forge

\* Every coroutine that can go on does; the locks of asyncio are handed over
\* in the order of arrival; the peer answers and repeats its status.
Fairness ==
  /\ WF_vars(TaskStep("reader") \/ Read \/ Accept)
  /\ WF_vars(TaskStep("sync") \/ SyncStep)
  /\ \A t \in Tasks \ {"reader", "sync"} : WF_vars(TaskStep(t))
  /\ WF_vars(SendStep) /\ WF_vars(TimeoutStep) /\ WF_vars(ScheduleStep)
  /\ WF_vars(PeerStatus)

Spec == Init /\ [][Next]_vars /\ Fairness

-----------------------------------------------------------------------------
\* The waiter of the hub belongs to the task that waits and only to it, who asks
\* stands in the line once, and the peer is believed to have a head that it has.
TypeOK ==
  /\ head \in Blocks /\ remote \in Blocks
  /\ claim.height \in Nat /\ claim.head \in Ancestors[remote]
  /\ trust.about \in Blocks \cup {None}
  /\ waiter.by \in Tasks \cup {"gone", "nobody"}
  /\ \A t \in Tasks : /\ pc[t] = "wait" <=> waiter.by = t
                      /\ pc[t] = "ask" <=> \E i \in DOMAIN line : line[i].by = t
  /\ \A i, j \in DOMAIN line : line[i].by = line[j].by => i = j \/ line[i].by = "gone"
  /\ late \in 0..MaxLate /\ probes \in 0..MaxProbes

\* The flag that lets the node mine is up only for a block that the peer has.
\* sync_state reads the local root before it asks, asks for the height it reads
\* later, and three tasks run it at once: an answer about another block, or one
\* that came late, never raises the flag.
TrustIsEarned == StateConsistent => trust.about \in Ancestors[remote]

\* What a handler asks of the peer whose message it handles is never answered,
\* because the loop that would read the answer waits for the handler.  So an
\* announced fork is never reconciled by its handler, which does not come to wait
\* for the lock of the sync task either, and no probe after an accepted block
\* raises the flag: both are left to the sync task and the mining loop.
HandlerUnanswered ==
  /\ job["reader"].got = <<>>
  /\ pc["reader"] \notin {"swap", "swapped", "reconciled", "await_lock"}

\* The loop that reads the peer's messages always comes back to reading, also
\* when its handler asks the same peer and nobody is left to read the answer:
\* the requests of the handler end by their timeouts, behind those of the
\* others in the lock of the peer.
ReaderReturns == []<>(pc["reader"] = "read")

\* The local chain is a part of the peer's, and the sync task does not wait for
\* the lock that it holds.
Behind == head \in Ancestors[remote] /\ pc["sync"] # "await_lock"

\* A node whose chain stays a part of the peer's has all of it again and again:
\* no race of the sync task with gossip, with a rollback to a stale height,
\* with answers that meet the wrong request or with the probes of the mining
\* loop keeps it behind for ever.
CatchesUp == <>[]Behind => []<>(head = remote)
=============================================================================
