---------------------------- MODULE ForkReconcile ----------------------------
(***************************************************************************)
(* ForkReconcileService (sync/fork/service.py) with its probe and adapters *)
(* in network/: the peer has another head at the same height, and the node *)
(* rolls back to the parent of that head and imports it.  The service runs *)
(* in a thread of its own, for the sync task or for the handler of an      *)
(* announced block.  No GHOST head and no finality floor; one peer.        *)
(***************************************************************************)
EXTENDS Consistency

Goto(t, p) == pc' = [pc EXCEPT ![t] = p]

\* On to step p, with what outlives an answer.
Proceed(t, p) == Goto(t, p) /\ job' = [job EXCEPT ![t] = Kept(@)]

\* The rest of the task is a probe of the consistency.
ThenRefresh(t) == Goto(t, "refresh") /\ job' = [job EXCEPT ![t] = Blank]

\* The task has done what it was started for.
Done(t) == Goto(t, Home(t)) /\ job' = [job EXCEPT ![t] = Blank]

\* Blockchain.import_block of b on a chain that ends in tip.
Imports(b, tip) == Height[b] = Height[tip] + 1 /\ Parent[b] = tip

\* Blockchain.reorg_to_ancestor: the last block after a rollback to height h.
RolledBack(h) == IF h > Height[head] THEN head ELSE BlockAt(head, h)

\* The peer's view is taken, and given up if the heads agree by now.
Reconcile(t) ==
  /\ pc[t] = "reconcile"
  /\ IF claim.head = head THEN Done(t)
     ELSE Goto(t, "fork_probe") /\ job' = [job EXCEPT ![t].view = claim]
  /\ UNCHANGED <<head, remote, claim, trust, hubVars>>

ForkProbe(t) ==
  /\ pc[t] = "fork_probe"
  /\ IF claim.height # Height[head] \/ claim.head = head
     THEN Goto(t, "target") /\ UNCHANGED <<job, wire, waiter, line>>
     ELSE AskFor(t, [job[t] EXCEPT !.seen = head, !.peerh = claim.height],
                 BlockRequest(claim.head), "fork_answer")
  /\ UNCHANGED <<head, remote, claim, trust, struck, late>>

\* The head the peer sent is not the sibling of the local head it should be.
NotSibling(b, j) ==
  \/ Height[b] # j.peerh
  \/ Parent[b] # ExpectedParent(Height[j.seen])

ForkAnswer(t) ==
  /\ pc[t] = "fork_answer"
  /\ LET got == job[t].got
         bad == got # <<>> /\ NotSibling(got[1], job[t])
     IN  /\ IF got = <<>> \/ bad THEN Done(t) ELSE Proceed(t, "target")
         /\ struck' = (struck \/ bad)
  /\ UNCHANGED <<head, remote, claim, trust, wire, waiter, line, late>>

Target(t) ==
  /\ pc[t] = "target"
  /\ IF job[t].view.head = head THEN Done(t) /\ UNCHANGED <<wire, waiter, line>>
     ELSE AskFor(t, job[t], BlockRequest(job[t].view.head), "target_answer")
  /\ UNCHANGED <<head, remote, claim, trust, struck, late>>

\* The fetched head neither extends the local head nor is its sibling.
Misplaced(b) ==
  \/ Height[b] = Height[head] + 1 /\ Parent[b] # head
  \/ Height[b] = Height[head] /\ b # head /\ Parent[b] # ExpectedParent(Height[head])

TargetAnswer(t) ==
  /\ pc[t] = "target_answer"
  /\ LET got == job[t].got
         bad == got # <<>> /\ Misplaced(got[1])
     IN  /\ IF got = <<>> \/ bad \/ Parent[job[t].view.head] \notin Ancestors[head]
            THEN Done(t)
            ELSE /\ Goto(t, "swap")
                 /\ job' = [job EXCEPT ![t].cursor = Height[Parent[job[t].view.head]], ![t].got = <<>>]
         /\ struck' = (struck \/ bad)
  /\ UNCHANGED <<head, remote, claim, trust, wire, waiter, line, late>>

\* The apply queue rolls back and imports in one operation.  A failed import
\* leaves the chain rolled back.
SwapHead(t) ==
  /\ pc[t] = "swap"
  /\ LET b   == job[t].view.head
         cut == RolledBack(job[t].cursor)
     IN  /\ head' = IF Imports(b, cut) THEN b ELSE cut
         /\ IF Imports(b, cut) THEN Goto(t, "swapped") /\ UNCHANGED job ELSE Done(t)
  /\ UNCHANGED <<remote, claim, trust, hubVars>>

Swapped(t) ==
  /\ pc[t] = "swapped"
  /\ IF head # job[t].view.head THEN Done(t) /\ UNCHANGED claim
     ELSE /\ claim' = [height |-> Height[job[t].view.head], head |-> job[t].view.head]
          /\ Goto(t, "reconciled") /\ UNCHANGED job
  /\ UNCHANGED <<head, remote, trust, hubVars>>

\* Back in the event loop: when the peer is ahead by now the sync of the peer
\* is awaited, under the lock of the peer.  The sync task holds that lock.
Reconciled(t) ==
  /\ pc[t] = "reconciled"
  /\ IF claim.height > Height[head] THEN Goto(t, "await_lock") /\ UNCHANGED job
     ELSE Done(t)
  /\ UNCHANGED <<head, remote, claim, trust, hubVars>>

ReconcileStep(t) ==
  \/ Reconcile(t) \/ ForkProbe(t) \/ ForkAnswer(t) \/ Target(t) \/ TargetAnswer(t)
  \/ SwapHead(t) \/ Swapped(t) \/ Reconciled(t)
=============================================================================
