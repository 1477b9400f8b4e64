----------------------------- MODULE Consistency -----------------------------
(***************************************************************************)
(* SyncEngine.sync_state with the ConsistencyMachine: the local root and   *)
(* height are read, the peers' roots are asked for, and the answers decide *)
(* whether the node calls itself consistent.  A root stands for the block  *)
(* it is the root of.  trust.about is the block whose root a peer          *)
(* confirmed while the flag state_consistent is up, None while it is down: *)
(* the flag stays up during the next probe.                                *)
(***************************************************************************)
EXTENDS SolicitHub

VARIABLES claim,       \* height and head the peer is believed to have
          trust        \* the snapshot of the ConsistencyService

StateConsistent == trust.about # None

Boot == [state |-> "unknown", about |-> None]

\* sync_state up to the request: what is read here is compared afterwards.
Refresh(t) ==
  /\ pc[t] = "refresh"
  /\ ~PoolFull
  /\ trust' = [trust EXCEPT !.state = "probing"]
  /\ job' = [job EXCEPT ![t] = [Blank EXCEPT !.seen = head, !.view = claim]]
  /\ pc'  = [pc EXCEPT ![t] = "roots"]
  /\ UNCHANGED <<head, remote, claim, hubVars>>

\* request_peer_state_roots reads the height again.
AskRoots(t) ==
  /\ pc[t] = "roots"
  /\ AskRoot(t, job[t], Height[head], "evaluate")
  /\ UNCHANGED <<head, remote, claim, trust, struck, late>>

\* An evaluation that takes any answered root for a match.
VerdictAnyRoot(seen, view, got) ==
  CASE got = <<>> -> [state |-> "locked_down", about |-> None]
    [] OTHER      -> [state |-> "consistent", about |-> seen]

\* evaluate_probe: no root, another root of the same height, no root of the
\* same height, a match.
Verdict(seen, view, got) ==
  CASE got = <<>> -> [state |-> "locked_down", about |-> None]
    [] got # <<>> /\ Height[got[1]] = Height[seen] ->
         IF got[1] = seen THEN [state |-> "consistent", about |-> seen]
         ELSE [state |-> "locked_down", about |-> None]
    [] OTHER -> [state |-> IF view.height > Height[seen] THEN "behind_open"
                           ELSE "locked_down", about |-> None]

Evaluate(t) ==
  /\ pc[t] = "evaluate"
  /\ trust' = Verdict(job[t].seen, job[t].view, job[t].got)
  /\ pc'  = [pc EXCEPT ![t] = Home(t)]
  /\ job' = [job EXCEPT ![t] = Blank]
  /\ UNCHANGED <<head, remote, claim, hubVars>>
=============================================================================
