------------------------------- MODULE CatchUp -------------------------------
(***************************************************************************)
(* P2PNode._sync_with_peer and CatchUpPathAService (sync/catchup/): the    *)
(* sync task of a peer that is ahead probes the local tip and the peer's   *)
(* head, twice, then fetches batches of blocks and imports them one by     *)
(* one.  Gossip and forging move the chain between any two of its steps.   *)
(***************************************************************************)
EXTENDS ForkReconcile

CONSTANT BatchSize     \* the blocks a batch may hold

ASSUME BatchAssumption == BatchSize \in Nat \ {0}

S == job["sync"]

\* The head claimed is a block of the local chain, of another height.
AheadRefused(c) == c.head \in Ancestors[head] /\ Height[c.head] # c.height

MaySchedule(c) == pc["sync"] = "idle" /\ ~AheadRefused(c)

\* _catch_up_loop
Schedule ==
  /\ claim.height > Height[head]
  /\ MaySchedule(claim)
  /\ Goto("sync", "start")
  /\ UNCHANGED <<head, remote, claim, trust, job, hubVars>>

StartSync ==
  /\ pc["sync"] = "start"
  /\ CASE claim.height < Height[head] -> Done("sync")
       [] claim.height = Height[head] ->
            /\ Goto("sync", IF claim.head # head THEN "reconcile" ELSE "refresh")
            /\ UNCHANGED job
       [] OTHER -> IF AheadRefused(claim) THEN Done("sync")
                   ELSE /\ Goto("sync", "tip_probe")
                        /\ job' = [job EXCEPT !["sync"].round = 1]
  /\ UNCHANGED <<head, remote, claim, trust, hubVars>>

\* A refused probe ends the sync task; within run_ahead it ends run_ahead,
\* after which the consistency is probed.
Refused == IF S.round = 1 THEN Done("sync") ELSE ThenRefresh("sync")

TipProbe ==
  /\ pc["sync"] = "tip_probe"
  /\ IF claim.height <= Height[head] \/ Height[head] = 0
     THEN Goto("sync", "head_probe") /\ UNCHANGED <<job, wire, waiter, line>>
     ELSE AskRoot("sync", S, Height[head], "tip_answer")
  /\ UNCHANGED <<head, remote, claim, trust, struck, late>>

Probed == Proceed("sync", IF S.round = 1 THEN "run_ahead" ELSE "fetch")

\* After the answer to the tip probe, if there was one.
HeadProbe ==
  /\ pc["sync"] \in {"tip_answer", "head_probe"}
  /\ CASE pc["sync"] = "tip_answer" /\ S.got = <<>> -> Refused /\ UNCHANGED <<wire, waiter, line>>
       [] OTHER ->
            IF claim.height <= Height[head] THEN Probed /\ UNCHANGED <<wire, waiter, line>>
            ELSE AskFor("sync", [Kept(S) EXCEPT !.seen = head, !.peerh = claim.height],
                        BlockRequest(claim.head), "head_answer")
  /\ UNCHANGED <<head, remote, claim, trust, struck, late>>

HeadAnswer ==
  /\ pc["sync"] = "head_answer"
  /\ IF \/ S.got = <<>>
        \/ Height[S.got[1]] # S.peerh
        \/ S.peerh = Height[S.seen] + 1 /\ Parent[S.got[1]] # head
     THEN Refused ELSE Probed
  /\ UNCHANGED <<head, remote, claim, trust, hubVars>>

\* The view of the peer and the first height to fetch are fixed here, before
\* the second pair of probes.
RunAhead ==
  /\ pc["sync"] = "run_ahead"
  /\ IF claim.height <= Height[head] \/ AheadRefused(claim)
     THEN ThenRefresh("sync")
     ELSE /\ Goto("sync", "tip_probe")
          /\ job' = [job EXCEPT !["sync"] = [Blank EXCEPT !.round = 2, !.view = claim,
                                               !.cursor = Height[head] + 1]]
  /\ UNCHANGED <<head, remote, claim, trust, hubVars>>

\* A range that leaves out the peer's head.
BatchEndExclusive == IF S.cursor + BatchSize - 1 < S.view.height THEN S.cursor + BatchSize - 1
                     ELSE S.view.height - 1

BatchEnd == IF S.cursor + BatchSize - 1 < S.view.height THEN S.cursor + BatchSize - 1
            ELSE S.view.height

Fetch ==
  /\ pc["sync"] = "fetch"
  /\ IF S.cursor > S.view.height THEN ThenRefresh("sync") /\ UNCHANGED <<wire, waiter, line>>
     ELSE AskFor("sync", Kept(S), BlocksRequest(S.cursor, BatchEnd), "import")
  /\ UNCHANGED <<head, remote, claim, trust, struck, late>>

RefusedBody(b) ==
  \/ Height[b] # S.cursor
  \/ Height[b] = Height[head] + 1 /\ Parent[b] # head
  \/ Height[b] = S.view.height /\ b # S.view.head

\* _import_one, up to the rollback.
ImportOne ==
  /\ pc["sync"] = "import" /\ S.got # <<>>
  /\ LET b == Head(S.got)
     IN  CASE ~RefusedBody(b) /\ Imports(b, head) ->
                /\ head' = b
                /\ job' = [job EXCEPT !["sync"].got = Tail(@), !["sync"].moved = TRUE,
                                      !["sync"].cursor = Height[b] + 1]
                /\ UNCHANGED pc
           [] ~RefusedBody(b) /\ ~Imports(b, head) /\ Parent[b] \in Ancestors[head] \ {head} ->
                Goto("sync", "cut") /\ UNCHANGED <<head, job>>
           [] OTHER ->
                job' = [job EXCEPT !["sync"].got = <<>>] /\ UNCHANGED <<head, pc>>
  /\ UNCHANGED <<remote, claim, trust, hubVars>>

\* The rollback to the parent of a block that could not be imported.
CutAt == RolledBack(Height[Parent[Head(S.got)]])

Cut ==
  /\ pc["sync"] = "cut"
  /\ head' = CutAt
  /\ Goto("sync", "import")
  /\ job' = [job EXCEPT !["sync"].got = <<>>, !["sync"].moved = TRUE,
                        !["sync"].cursor = Height[CutAt] + 1]
  /\ UNCHANGED <<remote, claim, trust, hubVars>>

\* After progress the peer is taken to be as high as the local chain.
BatchDone ==
  /\ pc["sync"] = "import" /\ S.got = <<>>
  /\ IF S.moved
     THEN /\ Proceed("sync", "fetch")
          /\ claim' = [claim EXCEPT !.height =
               Max({claim.height, S.view.height, Height[head]})]
     ELSE ThenRefresh("sync") /\ UNCHANGED claim
  /\ UNCHANGED <<head, remote, trust, hubVars>>

CatchUpStep ==
  \/ StartSync \/ TipProbe \/ HeadProbe \/ HeadAnswer \/ RunAhead
  \/ Fetch \/ ImportOne \/ Cut \/ BatchDone
=============================================================================
