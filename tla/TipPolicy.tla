------------------------------ MODULE TipPolicy ------------------------------
(***************************************************************************)
(* The pure part of consensus/tip_safety (ADR 0001): ReorgPolicy.evaluate, *)
(* the bounded AncestryWindow it walks, the guards of TipState and the     *)
(* fork choice.  TipSafety keeps them as a service, TipGate puts them in   *)
(* front of chain imports.                                                 *)
(***************************************************************************)
EXTENDS BlockTree, Sequences, SequencesExt, FiniteSets

CONSTANTS HashRank,    \* the order of the hashes as numbers
          MaxWindow    \* AncestryWindow.max_blocks

ASSUME RankAssumption ==
  /\ HashRank \in [Blocks -> Nat]
  /\ \A b, c \in Blocks : HashRank[b] = HashRank[c] => b = c

ASSUME WindowAssumption == MaxWindow \in Nat \ {0}

-----------------------------------------------------------------------------
(* AncestryWindow: an OrderedDict, least recently used first.  Its index by
   height is written and never read by the node, and is left out. *)

InWindow(w) == {w[i] : i \in 1..Len(w)}

\* move_to_end, or the insertion of a new key.
Refresh(w, b) ==
  LET place == CHOOSE i \in 1..Len(w) : w[i] = b
  IN Append(IF b \in InWindow(w) THEN RemoveAt(w, place) ELSE w, b)

\* Mutant: nothing is evicted.
RecordUnbounded(w, b) == Refresh(w, b)

\* record
Record(w, b) ==
  LET r == Refresh(w, b) IN IF Len(r) > MaxWindow THEN Tail(r) ELSE r

\* get: a hit is refreshed.
Get(w, b) == IF b \in InWindow(w) THEN Refresh(w, b) ELSE w

\* Mutant: the walk stops one parent early.
WalkStepShort(s, want) ==
  IF s.found \/ s.cur = None THEN s
  ELSE IF want = s.cur THEN [s EXCEPT !.found = TRUE]
  ELSE IF Parent[s.cur] # None /\ Parent[s.cur] \in InWindow(s.win)
       THEN [s EXCEPT !.cur = Parent[s.cur], !.win = Refresh(s.win, Parent[s.cur])]
       ELSE [s EXCEPT !.cur = None]

\* One turn of the loop of walk_parents as connects_to drives it.
WalkStep(s, want) ==
  IF s.found \/ s.cur = None THEN s
  ELSE IF want \in {s.cur, Parent[s.cur]} THEN [s EXCEPT !.found = TRUE]
  ELSE IF Parent[s.cur] # None /\ Parent[s.cur] \in InWindow(s.win)
       THEN [s EXCEPT !.cur = Parent[s.cur], !.win = Refresh(s.win, Parent[s.cur])]
       ELSE [s EXCEPT !.cur = None]

\* walk_parents: at most max_blocks turns; every parent found is refreshed.
Walk(w, start, want) ==
  LET f[n \in 0..MaxWindow] ==
        IF n = 0 THEN [cur |-> start, win |-> w, found |-> FALSE]
        ELSE WalkStep(f[n - 1], want)
  IN f[MaxWindow]

\* is_ancestor_of: what the walk finds, as a set.  want is below start, and
\* every block strictly between them is in the window.
Connects(w, start, want) ==
  /\ want \in Ancestors[start]
  /\ \A x \in Ancestors[start] :
       x # start /\ Height[x] > Height[want] => x \in InWindow(w)

-----------------------------------------------------------------------------
(* TipState *)

\* can_reorg_to: the finalized floor, 0 without a checkpoint.
ClearsFloor(fin, b) == fin # None => Height[b] >= Height[fin]

ConflictsWithFinal(fin, b) ==
  fin # None /\ Height[b] = Height[fin] /\ b # fin

\* with_head
HeadAllowed(fin, b) == ClearsFloor(fin, b) /\ ~ConflictsWithFinal(fin, b)

\* Mutant: a checkpoint may move back.
FinalAllowedRegress(head, fin, c) ==
  Height[c] <= Height[head] /\ ~ConflictsWithFinal(fin, c)

\* Mutant: a checkpoint may be above the head.
FinalAllowedAhead(head, fin, c) ==
  /\ fin # None => Height[c] >= Height[fin]
  /\ ~ConflictsWithFinal(fin, c)

\* with_finalized
FinalAllowed(head, fin, c) ==
  /\ Height[c] <= Height[head]
  /\ fin # None => Height[c] >= Height[fin]
  /\ ~ConflictsWithFinal(fin, c)

-----------------------------------------------------------------------------
(* ReorgPolicy.evaluate and ForkChoice.choose *)

Outcomes == {"accept_extend", "accept_reorg", "reject"}

\* Mutant: a block next to the finalized one passes.
RefusedEarlyFloorOnly(head, fin, c) == c = head \/ ~ClearsFloor(fin, c)

\* duplicate, finality_regress: the first three tests.
RefusedEarly(head, fin, c) ==
  c = head \/ ~ClearsFloor(fin, c) \/ ConflictsWithFinal(fin, c)

\* Mutant: blocks of one height compete whatever their parents.
SiblingAny(head, c) == Height[c] = Height[head]

\* A same-height competitor must have the head's parent.
Sibling(head, c) == Parent[c] = Parent[head]

RollbackKnown(head, w, c) == c \in InWindow(w) /\ Connects(w, head, c)

Evaluate(head, fin, w, c) ==
  CASE RefusedEarly(head, fin, c)       -> "reject"
    [] ~RefusedEarly(head, fin, c) /\ Height[c] = Height[head] + 1 ->
         IF Parent[c] = head THEN "accept_extend" ELSE "reject"
    [] ~RefusedEarly(head, fin, c) /\ Height[c] = Height[head] ->
         IF Sibling(head, c) THEN "accept_reorg" ELSE "reject"
    [] ~RefusedEarly(head, fin, c) /\ Height[c] > Height[head] + 1 -> "reject"
    [] ~RefusedEarly(head, fin, c) /\ Height[c] < Height[head] ->
         IF RollbackKnown(head, w, c) THEN "accept_reorg" ELSE "reject"

Accepts(head, fin, w, c) == Evaluate(head, fin, w, c) # "reject"

\* The window after evaluate: only the test for a rollback looks blocks up.
WindowAfterEvaluate(head, fin, w, c) ==
  IF RefusedEarly(head, fin, c) \/ Height[c] >= Height[head] THEN w
  ELSE IF c \in InWindow(w) THEN Walk(Get(w, c), head, c).win
  ELSE w

\* choose: the highest block, then the highest hash.
Beats(b, c) ==
  Height[b] > Height[c] \/ (Height[b] = Height[c] /\ HashRank[b] >= HashRank[c])

IsBest(b, S) == b \in S /\ \A c \in S : Beats(b, c)

=============================================================================
