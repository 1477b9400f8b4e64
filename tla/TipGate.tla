------------------------------- MODULE TipGate -------------------------------
(***************************************************************************)
(* The tip-safety gate on the import path, in the enforce mode that        *)
(* production requires: TipSafetyShadowObserver keeps a TipSafetyService   *)
(* of its own, P2PNode asks it before it submits a block to the apply      *)
(* queue and tells it the result.  Importers are the threads and tasks     *)
(* inside import_block and _import_block_async.  The miner, the reorgs of  *)
(* catch-up and the reorg-and-import of fork reconcile change the chain    *)
(* through the same queue without the gate.                                *)
(*                                                                         *)
(* The service is built anew at every sync, with the tip as its only block *)
(* and no checkpoint; the gate only evaluates, so its head is its state.   *)
(* _last_decision and the counters only feed metrics and are left out.     *)
(***************************************************************************)
EXTENDS TipPolicy

CONSTANTS BootTip,     \* the tip at boot
          Importers,   \* concurrent calls of import_block
          Valid,       \* the blocks that the chain can execute
          Env          \* what else happens: see EnvKinds

EnvKinds == {"queue_fails", "late_apply", "sync_fails", "forge", "reorg",
             "reorg_and_import"}

ASSUME GateAssumption ==
  BootTip \in Valid /\ Valid \subseteq Blocks /\ Env \subseteq EnvKinds

VARIABLES tip,       \* the chain's last block
          gate,      \* the head of the observer's service, None without one
          imports,   \* the importers
          strayed,   \* history: the tip changed past the gate, or a lazy sync came late
          missed     \* history: the sync after an import failed

gateVars == <<tip, gate, imports, strayed, missed>>

Idle == [pc |-> "idle", blk |-> None]

Extends(b) == b \in Valid /\ Parent[b] = tip

-----------------------------------------------------------------------------
(* One import *)

\* observe_before_import without a service, because the sync at boot failed:
\* sync_from_chain reads the tip, which may fail once more and then refuses the
\* candidate with nothing changed ...
LazyRead(i) ==
  /\ gate = None /\ imports[i].pc = "idle"
  /\ imports' = [imports EXCEPT ![i] = [pc |-> "lazy", blk |-> tip]]
  /\ UNCHANGED <<tip, gate, strayed, missed>>

\* ... and creates the service, also when another import has done so meanwhile.
LazyInstall(i) ==
  /\ imports[i].pc = "lazy"
  /\ gate' = imports[i].blk
  /\ imports' = [imports EXCEPT ![i] = Idle]
  /\ strayed' = (strayed \/ imports[i].blk # tip)
  /\ UNCHANGED <<tip, missed>>

\* _tip_safety_precheck with a service.  A refused candidate ends the import.
Observe(i, b) ==
  /\ gate # None /\ imports[i].pc = "idle"
  /\ imports' = IF Accepts(gate, None, <<gate>>, b)
                THEN [imports EXCEPT ![i] = [pc |-> "queued", blk |-> b]]
                ELSE imports
  /\ UNCHANGED <<tip, gate, strayed, missed>>

Goto(i, pc) == imports' = [imports EXCEPT ![i].pc = pc]

\* The queue runs the job: Blockchain.import_block.  A failure ends the import.
Apply(i) ==
  LET b == imports[i].blk
  IN /\ imports[i].pc = "queued"
     /\ IF Extends(b) THEN tip' = b /\ Goto(i, "sync")
        ELSE UNCHANGED tip /\ imports' = [imports EXCEPT ![i] = Idle]
     /\ UNCHANGED <<gate, strayed, missed>>

\* The queue is full, or the job expired in it.
QueueFails(i) ==
  /\ "queue_fails" \in Env /\ imports[i].pc = "queued"
  /\ imports' = [imports EXCEPT ![i] = Idle]
  /\ UNCHANGED <<tip, gate, strayed, missed>>

\* The caller's wait ends while the job runs: it is told False.
LateApply(i) ==
  /\ "late_apply" \in Env /\ imports[i].pc = "queued" /\ Extends(imports[i].blk)
  /\ tip' = imports[i].blk
  /\ imports' = [imports EXCEPT ![i] = Idle]
  /\ strayed' = TRUE
  /\ UNCHANGED <<gate, missed>>

\* Mutant: the gate is not synced after an import.
NoSync(i) ==
  /\ imports[i].pc = "sync"
  /\ imports' = [imports EXCEPT ![i] = Idle]
  /\ UNCHANGED <<tip, gate, strayed, missed>>

\* note_import_result after a success: sync_from_chain reads the tip outside the
\* observer's lock ...
ReadTip(i) ==
  /\ imports[i].pc = "sync"
  /\ imports' = [imports EXCEPT ![i] = [pc |-> "install", blk |-> tip]]
  /\ UNCHANGED <<tip, gate, strayed, missed>>

\* ... or cannot, when the store raises or has no block at the tip:
\* sync_from_chain counts the error and returns False, which note_import_result
\* does not look at.  The old service stays.
SyncFails(i) ==
  /\ "sync_fails" \in Env /\ imports[i].pc = "sync"
  /\ imports' = [imports EXCEPT ![i] = Idle]
  /\ missed' = TRUE
  /\ UNCHANGED <<tip, gate, strayed>>

\* ... and installs a new service under it.
Install(i) ==
  /\ imports[i].pc = "install"
  /\ gate' = imports[i].blk
  /\ imports' = [imports EXCEPT ![i] = Idle]
  /\ UNCHANGED <<tip, strayed, missed>>

-----------------------------------------------------------------------------
(* Writers past the gate *)

PastGate(t) == tip' = t /\ strayed' = TRUE /\ UNCHANGED <<gate, imports, missed>>

\* The mining loop: submit_forge_and_apply.
Forge(b) == "forge" \in Env /\ Extends(b) /\ PastGate(b)

RollbackTargets(t) == Ancestors[t]

\* CatchUpP2PChainAdapter.reorg_to_ancestor: submit_reorg.
Reorg ==
  /\ "reorg" \in Env
  /\ \E a \in RollbackTargets(tip) \ {tip} : PastGate(a)

\* _reorg_and_import: the queue's worker calls reorg_to_ancestor and the chain's
\* import_block, not P2PNode's; when the import fails the rollback stays.
ReorgAndImport(b) ==
  /\ "reorg_and_import" \in Env
  /\ \E a \in RollbackTargets(tip) :
       \/ Parent[b] = a /\ b \in Valid /\ PastGate(b)
       \/ a # tip /\ ~(Parent[b] = a /\ b \in Valid) /\ PastGate(a)

-----------------------------------------------------------------------------

GateInit ==
  /\ tip = BootTip
  /\ gate \in {BootTip, None}
  /\ imports = [i \in Importers |-> Idle]
  /\ strayed = FALSE
  /\ missed = FALSE

Import(i) ==
  \/ LazyRead(i) \/ LazyInstall(i) \/ \E b \in Blocks : Observe(i, b)
  \/ Apply(i) \/ QueueFails(i) \/ LateApply(i)
  \/ ReadTip(i) \/ SyncFails(i) \/ Install(i)

GateNext ==
  \/ \E i \in Importers : Import(i)
  \/ \E b \in Blocks : Forge(b) \/ ReorgAndImport(b)
  \/ Reorg

GateSpec == GateInit /\ [][GateNext]_gateVars

ApplyBlock(b) == \E i \in Importers : imports[i].blk = b /\ Apply(i)

\* Peers offer every block again and again (announcements, catch-up), the queue
\* does not fail a block forever, and an import that has begun goes on.
GateFairSpec ==
  /\ GateSpec
  /\ \A b \in Blocks : SF_gateVars(\E i \in Importers : Observe(i, b))
                       /\ SF_gateVars(ApplyBlock(b))
  /\ \A i \in Importers : WF_gateVars(\/ LazyRead(i) \/ LazyInstall(i)
                                 \/ Apply(i) \/ ReadTip(i) \/ Install(i))

-----------------------------------------------------------------------------
(* Properties *)

Syncing == \E i \in Importers : imports[i].pc \in {"sync", "install"}

\* The gate judges against the tip, or against the block below it: while the
\* import that moved the tip is being synced, although the tip is read outside the
\* lock that installs it, or for good, when that sync failed.  It is never ahead,
\* on another branch or further behind, unless a writer went past it or the first
\* sync of a node whose sync at boot failed was overtaken by an import of another
\* thread (shadow.py:189-208, 226-228, 321-322).
GateInSync ==
  \/ strayed
  \/ gate \in {tip, None}
  \/ gate = Parent[tip] /\ (Syncing \/ missed)

\* A node whose chain only grows by imports, whose syncs after an import succeed,
\* and that is offered every block again and again, ends at a tip that no known
\* block extends: the gate does not lock it out.
FollowerCatchesUp == <>(strayed \/ missed \/ \A b \in Blocks : ~Extends(b))

\* What a failed sync costs: from then on no import moves the tip, because the gate
\* passes only blocks that the chain refuses.
LockedOut == [][missed /\ ~strayed' => tip' = tip]_gateVars

=============================================================================
