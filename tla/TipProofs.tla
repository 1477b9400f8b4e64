------------------------------ MODULE TipProofs ------------------------------
(***************************************************************************)
(* The service and the gate, which ask the same policy.                    *)
(*                                                                         *)
(* What TipSafetyService guarantees for every block tree, every window     *)
(* size and every order of calls.  The invariants do not depend on what    *)
(* the window holds: a rollback is accepted only to an ancestor of the     *)
(* head, however much of the chain the window remembers.                   *)
(***************************************************************************)
EXTENDS TipSafety, TipGate, FiniteSetTheorems, SequenceTheorems,
        WellFoundedInduction, TLAPS

\* A block the policy accepts is a child of the head, a sibling of it or one
\* of its ancestors, and clears the finalized floor (reorg_policy.py:74-181).
LEMMA AcceptedKinds ==
  ASSUME NEW h \in Blocks, NEW f \in Blocks \cup {None}, NEW w,
         NEW c \in Blocks, Accepts(h, f, w, c)
  PROVE  /\ c # h /\ HeadAllowed(f, c)
         /\ \/ Parent[c] = h
            \/ Parent[c] = Parent[h] /\ Height[c] = Height[h]
            \/ c \in Ancestors[h]
<1>1. Height[c] \in Nat /\ Height[h] \in Nat
  BY TreeAssumption
<1>2. ~RefusedEarly(h, f, c)
  BY DEF Accepts, Evaluate
<1>3. c # h /\ HeadAllowed(f, c)
  BY <1>2 DEF RefusedEarly, HeadAllowed
<1>4. CASE Height[c] = Height[h] + 1
  BY <1>1, <1>2, <1>3, <1>4 DEF Accepts, Evaluate
<1>5. CASE Height[c] = Height[h]
  BY <1>1, <1>2, <1>3, <1>5 DEF Accepts, Evaluate, Sibling
<1>6. CASE Height[c] > Height[h] + 1
  BY <1>1, <1>2, <1>6 DEF Accepts, Evaluate
<1>7. CASE Height[c] < Height[h]
  <2>1. RollbackKnown(h, w, c)
    BY <1>1, <1>2, <1>7 DEF Accepts, Evaluate
  <2> QED BY <1>3, <2>1 DEF RollbackKnown, Connects
<1> QED BY <1>1, <1>4, <1>5, <1>6, <1>7

\* An ancestor of the head that the new head may not displace stays below it:
\* the argument behind extension, same-height reorg and rollback alike.
LEMMA AcceptedKeepsAncestor ==
  ASSUME NEW h \in Blocks, NEW f \in Ancestors[h], NEW w,
         NEW c \in Blocks, Accepts(h, f, w, c)
  PROVE  f \in Ancestors[c]
<1>1. f \in Blocks /\ f # None
  BY TreeAssumption, AncestorsAssumption
<1>2. /\ c # h /\ HeadAllowed(f, c)
      /\ \/ Parent[c] = h
         \/ Parent[c] = Parent[h] /\ Height[c] = Height[h]
         \/ c \in Ancestors[h]
  BY <1>1, AcceptedKinds
<1>3. Ancestors[c] = {c} \cup IF Parent[c] = None THEN {} ELSE Ancestors[Parent[c]]
  BY AncestorsAssumption
<1>4. CASE Parent[c] = h
  BY <1>3, <1>4, TreeAssumption
<1>5. CASE Parent[c] = Parent[h] /\ Height[c] = Height[h]
  <2>1. f # h
    BY <1>1, <1>2, <1>5 DEF HeadAllowed, ConflictsWithFinal
  <2>2. Ancestors[h] = {h} \cup IF Parent[h] = None THEN {} ELSE Ancestors[Parent[h]]
    BY AncestorsAssumption
  <2> QED BY <1>3, <1>5, <2>1, <2>2
<1>6. CASE c \in Ancestors[h]
  <2>1. Height[f] <= Height[c]
    BY <1>1, <1>2, TreeAssumption DEF HeadAllowed, ClearsFloor
  <2> QED BY <1>6, <2>1, AncestorsAssumption
<1> QED BY <1>2, <1>4, <1>5, <1>6

-----------------------------------------------------------------------------

\* The part of the type that the other invariants need.
Refs == head \in Blocks /\ finalized \in Blocks \cup {None}

\* Every step applies an accepted candidate, advances finality or changes the
\* window only.
LEMMA StepKinds ==
  ASSUME Refs, [Next]_vars
  PROVE  \/ UNCHANGED <<head, finalized>>
         \/ \E c \in Blocks : /\ Accepts(head, finalized, window, c)
                              /\ head' = c /\ finalized' = finalized
         \/ \E c \in Blocks : /\ CheckpointsOnChain => c \in Ancestors[head]
                              /\ FinalAllowed(head, finalized, c)
                              /\ head' = head /\ finalized' = c
<1>1. ASSUME NEW c \in Blocks, ApplyCandidate(c)
      PROVE  Accepts(head, finalized, window, c) /\ head' = c /\ finalized' = finalized
  BY <1>1 DEF ApplyCandidate
<1>2. ASSUME NEW c \in Blocks, RejectCandidate(c) \/ EvaluateCandidate(c)
      PROVE  UNCHANGED <<head, finalized>>
  BY <1>2 DEF RejectCandidate, EvaluateCandidate
<1>3. ASSUME NEW c \in Blocks, AdvanceFinalized(c)
      PROVE  /\ CheckpointsOnChain => c \in Ancestors[head]
             /\ FinalAllowed(head, finalized, c) /\ head' = head /\ finalized' = c
  BY <1>3 DEF AdvanceFinalized
<1>4. ASSUME NEW S \in SUBSET Blocks \ {{}}, ChooseAndApply(S)
      PROVE  \E c \in Blocks : ApplyCandidate(c) \/ RejectCandidate(c)
  BY <1>4 DEF ChooseAndApply
<1>5. CASE UNCHANGED vars
  BY <1>5 DEF vars
<1>6. CASE Next
  BY <1>1, <1>2, <1>3, <1>4, <1>6 DEF Next
<1> QED BY <1>5, <1>6
-----------------------------------------------------------------------------

\* head and finalized stay block references.
THEOREM RefsKept == Spec => []Refs
<1>1. Init => Refs
  BY ServiceAssumption DEF Init, Refs
<1>2. Refs /\ [Next]_vars => Refs'
  BY StepKinds DEF Refs
<1> QED BY <1>1, <1>2, PTL DEF Spec

\* ReorgPolicy and TipState never disagree on an accepted candidate, so the
\* error path of apply_candidate (service.py:124-135) is dead for every tree.
THEOREM PolicyImpliesState == Spec => []PolicyAgreesWithState
<1>1. Refs => PolicyAgreesWithState
  BY AcceptedKinds DEF Refs, PolicyAgreesWithState
<1> QED BY <1>1, RefsKept, PTL

\* The finalized floor: with_head and with_finalized keep the finalized height
\* at or below the head's, also when callers finalize blocks off the chain.
THEOREM FloorKept == Spec => []FloorHolds
<1>1. Init => FloorHolds
  BY DEF Init, FloorHolds
<1>2. Refs /\ FloorHolds /\ [Next]_vars => FloorHolds'
  <2> SUFFICES ASSUME Refs, FloorHolds, [Next]_vars PROVE FloorHolds'
    OBVIOUS
  <2>1. CASE UNCHANGED <<head, finalized>>
    BY <2>1 DEF FloorHolds
  <2>2. ASSUME NEW c \in Blocks, Accepts(head, finalized, window, c),
               head' = c, finalized' = finalized
        PROVE  FloorHolds'
    <3>1. HeadAllowed(finalized, c)
      BY <2>2, AcceptedKinds DEF Refs
    <3> QED BY <2>2, <3>1, TreeAssumption DEF Refs, FloorHolds, HeadAllowed, ClearsFloor
  <2>3. ASSUME NEW c \in Blocks, FinalAllowed(head, finalized, c),
               head' = head, finalized' = c
        PROVE  FloorHolds'
    BY <2>3 DEF FloorHolds, FinalAllowed
  <2> QED BY <2>1, <2>2, <2>3, StepKinds
<1> QED BY <1>1, <1>2, RefsKept, PTL DEF Spec

\* When callers finalize only blocks of the head's chain, the head never leaves
\* the chain of the finalized checkpoint.
THEOREM FinalityHolds ==
  ASSUME CheckpointsOnChain
  PROVE  Spec => []FinalizedOnChain
<1>1. Init => FinalizedOnChain
  BY DEF Init, FinalizedOnChain
<1>2. Refs /\ FinalizedOnChain /\ [Next]_vars => FinalizedOnChain'
  <2> SUFFICES ASSUME Refs, FinalizedOnChain, [Next]_vars PROVE FinalizedOnChain'
    OBVIOUS
  <2>1. CASE UNCHANGED <<head, finalized>>
    BY <2>1 DEF FinalizedOnChain
  <2>2. ASSUME NEW c \in Blocks, Accepts(head, finalized, window, c),
               head' = c, finalized' = finalized
        PROVE  FinalizedOnChain'
    BY <2>2, AcceptedKeepsAncestor DEF Refs, FinalizedOnChain
  <2>3. ASSUME NEW c \in Blocks, c \in Ancestors[head], head' = head, finalized' = c
        PROVE  FinalizedOnChain'
    BY <2>3 DEF FinalizedOnChain
  <2> QED BY <2>1, <2>2, <2>3, StepKinds
<1> QED BY <1>1, <1>2, RefsKept, PTL DEF Spec

\* Under the same obligation each checkpoint is an ancestor of the next one.
THEOREM FinalityExtends ==
  ASSUME CheckpointsOnChain
  PROVE  Spec => FinalizedExtends
<1>1. Refs /\ FinalizedOnChain /\ [Next]_vars
        => [finalized # None => finalized \in Ancestors[finalized']]_vars
  <2> SUFFICES ASSUME Refs, FinalizedOnChain, [Next]_vars, finalized # None
               PROVE  finalized \in Ancestors[finalized']
    OBVIOUS
  <2>1. finalized \in Ancestors[finalized]
    BY AncestorsAssumption DEF Refs
  <2>2. ASSUME NEW c \in Blocks, c \in Ancestors[head],
               FinalAllowed(head, finalized, c), finalized' = c
        PROVE  finalized \in Ancestors[finalized']
    <3>1. Height[finalized] <= Height[c]
      BY <2>2, TreeAssumption DEF Refs, FinalAllowed
    <3> QED BY <2>2, <3>1, AncestorsAssumption DEF Refs, FinalizedOnChain
  <2> QED BY <2>1, <2>2, StepKinds
<1> QED BY <1>1, RefsKept, FinalityHolds, PTL DEF Spec, FinalizedExtends

-----------------------------------------------------------------------------
(* The window *)

IsWindow(w) ==
  w \in Seq(Blocks) /\ \A i, j \in 1..Len(w) : w[i] = w[j] => i = j

\* RemoveAt, entry by entry.
LEMMA RemoveAtEntries ==
  ASSUME NEW w \in Seq(Blocks), NEW k \in 1..Len(w)
  PROVE  /\ RemoveAt(w, k) \in Seq(Blocks) /\ Len(RemoveAt(w, k)) = Len(w) - 1
         /\ \A i \in 1..(Len(w) - 1) :
              RemoveAt(w, k)[i] = IF i < k THEN w[i] ELSE w[i + 1]
<1> DEFINE p == SubSeq(w, 1, k - 1)
           q == SubSeq(w, k + 1, Len(w))
<1>1. Len(w) \in Nat /\ k \in Nat
  OBVIOUS
<1>2. p \in Seq(Blocks) /\ Len(p) = k - 1 /\ \A i \in 1..(k - 1) : p[i] = w[i]
  BY <1>1
<1>3. /\ q \in Seq(Blocks) /\ Len(q) = Len(w) - k
      /\ \A i \in 1..(Len(w) - k) : q[i] = w[k + i]
  BY <1>1
<1>4. RemoveAt(w, k) = p \o q
  BY DEF RemoveAt
<1> HIDE DEF p, q
<1>5. /\ p \o q \in Seq(Blocks) /\ Len(p \o q) = Len(p) + Len(q)
      /\ \A i \in 1..(Len(p) + Len(q)) :
           (p \o q)[i] = IF i <= Len(p) THEN p[i] ELSE q[i - Len(p)]
  BY <1>2, <1>3, ConcatProperties
<1>6. ASSUME NEW i \in 1..(Len(w) - 1)
      PROVE  (p \o q)[i] = IF i < k THEN w[i] ELSE w[i + 1]
  <2>1. CASE i < k
    BY <1>1, <1>2, <1>3, <1>5, <2>1
  <2>2. CASE ~(i < k)
    <3>1. i - Len(p) \in 1..(Len(w) - k) /\ k + (i - Len(p)) = i + 1
      BY <1>1, <1>2, <2>2
    <3>2. (p \o q)[i] = q[i - Len(p)]
      BY <1>1, <1>2, <1>3, <1>5, <2>2
    <3>3. q[i - Len(p)] = w[k + (i - Len(p))]
      BY <1>3, <3>1
    <3> QED BY <2>2, <3>1, <3>2, <3>3
  <2> QED BY <2>1, <2>2
<1> QED BY <1>1, <1>2, <1>3, <1>4, <1>5, <1>6

\* A refreshed block is the window's last, and nothing else enters or leaves.
LEMMA RefreshWindow ==
  ASSUME NEW w, IsWindow(w), NEW b \in Blocks
  PROVE  /\ IsWindow(Refresh(w, b))
         /\ InWindow(Refresh(w, b)) = InWindow(w) \cup {b}
         /\ Len(Refresh(w, b)) = IF b \in InWindow(w) THEN Len(w) ELSE Len(w) + 1
<1> DEFINE place == CHOOSE i \in 1..Len(w) : w[i] = b
<1>1. w \in Seq(Blocks) /\ Len(w) \in Nat
  BY DEF IsWindow
<1>2. CASE b \notin InWindow(w)
  <2>1. Refresh(w, b) = Append(w, b)
    BY <1>2 DEF Refresh
  <2> QED BY <1>1, <1>2, <2>1 DEF IsWindow, InWindow
<1>3. CASE b \in InWindow(w)
  <2>1. place \in 1..Len(w) /\ w[place] = b
    BY <1>3 DEF InWindow
  <2> DEFINE r == RemoveAt(w, place)
  <2>2. Refresh(w, b) = Append(r, b)
    BY <1>3 DEF Refresh
  <2> HIDE DEF place
  <2>3. /\ r \in Seq(Blocks) /\ Len(r) = Len(w) - 1
        /\ \A i \in 1..(Len(w) - 1) : r[i] = IF i < place THEN w[i] ELSE w[i + 1]
    BY <1>1, <2>1, RemoveAtEntries
  <2> HIDE DEF r
  <2>4. /\ Append(r, b) \in Seq(Blocks) /\ Len(Append(r, b)) = Len(w)
        /\ \A i \in 1..Len(w) : Append(r, b)[i] =
             IF i = Len(w) THEN b ELSE IF i < place THEN w[i] ELSE w[i + 1]
    <3>1. /\ Append(r, b) \in Seq(Blocks) /\ Len(Append(r, b)) = Len(r) + 1
          /\ \A i \in 1..Len(r) : Append(r, b)[i] = r[i]
          /\ Append(r, b)[Len(r) + 1] = b
      BY <2>3, AppendProperties
    <3> QED BY <1>1, <2>1, <2>3, <3>1
  <2>5. IsWindow(Append(r, b))
    <3> DEFINE from(i) == IF i = Len(w) THEN place ELSE IF i < place THEN i ELSE i + 1
    <3>1. \A i \in 1..Len(w) : from(i) \in 1..Len(w) /\ Append(r, b)[i] = w[from(i)]
      BY <1>1, <2>1, <2>4
    <3>2. \A i, j \in 1..Len(w) : from(i) = from(j) => i = j
      BY <1>1, <2>1
    <3> HIDE DEF from
    <3>3. \A i, j \in 1..Len(w) : Append(r, b)[i] = Append(r, b)[j] => from(i) = from(j)
      BY <3>1 DEF IsWindow
    <3> QED BY <2>4, <3>2, <3>3 DEF IsWindow
  <2>6. InWindow(Append(r, b)) \subseteq InWindow(w)
    <3>1. ASSUME NEW i \in 1..Len(w)
          PROVE  \E n \in 1..Len(w) : Append(r, b)[i] = w[n]
      <4>1. CASE i = Len(w)
        BY <1>1, <2>1, <2>4, <4>1
      <4>2. CASE i # Len(w) /\ i < place
        BY <1>1, <2>1, <2>4, <4>2
      <4>3. CASE i # Len(w) /\ ~(i < place)
        <5>1. i + 1 \in 1..Len(w) /\ Append(r, b)[i] = w[i + 1]
          BY <1>1, <2>1, <2>4, <4>3
        <5> QED BY <5>1
      <4> QED BY <4>1, <4>2, <4>3
    <3> QED BY <2>4, <3>1 DEF InWindow
  <2>7. ASSUME NEW i \in 1..Len(w) PROVE w[i] \in InWindow(Append(r, b))
    <3>1. CASE i < place
      <4>1. w[i] = Append(r, b)[i]
        BY <1>1, <2>1, <2>4, <3>1
      <4> QED BY <2>4, <4>1 DEF InWindow
    <3>2. CASE i = place
      <4>1. w[i] = Append(r, b)[Len(w)]
        BY <1>1, <2>1, <2>4, <3>2
      <4> QED BY <1>1, <2>4, <4>1 DEF InWindow
    <3>3. CASE i > place
      <4>1. w[i] = Append(r, b)[i - 1] /\ i - 1 \in 1..Len(w)
        BY <1>1, <2>1, <2>4, <3>3
      <4> QED BY <2>4, <4>1 DEF InWindow
    <3> QED BY <1>1, <2>1, <3>1, <3>2, <3>3
  <2>8. InWindow(w) \subseteq InWindow(Append(r, b))
    BY <2>7 DEF InWindow
  <2> QED BY <1>3, <2>2, <2>4, <2>5, <2>6, <2>8
<1> QED BY <1>2, <1>3

\* record never leaves the window with more than max_blocks blocks, nor empty.
LEMMA RecordWindow ==
  ASSUME NEW w, IsWindow(w), Len(w) <= MaxWindow, NEW b \in Blocks
  PROVE  IsWindow(Record(w, b)) /\ Len(Record(w, b)) \in 1..MaxWindow
<1> DEFINE r == Refresh(w, b)
<1>1. /\ IsWindow(r) /\ Len(w) \in Nat /\ MaxWindow \in Nat \ {0}
      /\ b \in InWindow(r) /\ Len(r) <= Len(w) + 1 /\ Len(r) \in Nat
  BY RefreshWindow, WindowAssumption DEF IsWindow
<1>2. Record(w, b) = IF Len(r) > MaxWindow THEN Tail(r) ELSE r
  BY DEF Record
<1> HIDE DEF r
<1>3. Len(r) # 0
  BY <1>1 DEF InWindow
<1>4. CASE ~(Len(r) > MaxWindow)
  BY <1>1, <1>2, <1>3, <1>4
<1>5. CASE Len(r) > MaxWindow
  <2>1. /\ Tail(r) \in Seq(Blocks) /\ Len(Tail(r)) = Len(r) - 1
        /\ \A i \in 1..(Len(r) - 1) : Tail(r)[i] = r[i + 1]
    BY <1>1, <1>3, HeadTailProperties DEF IsWindow
  <2>2. \A i \in 1..(Len(r) - 1) : i + 1 \in 1..Len(r)
    BY <1>1
  <2>3. IsWindow(Tail(r))
    BY <1>1, <2>1, <2>2 DEF IsWindow
  <2> QED BY <1>1, <1>2, <1>5, <2>1, <2>3
<1> QED BY <1>4, <1>5

LEMMA GetWindow ==
  ASSUME NEW w, IsWindow(w), NEW b \in Blocks
  PROVE  /\ IsWindow(Get(w, b)) /\ InWindow(Get(w, b)) = InWindow(w)
         /\ Len(Get(w, b)) = Len(w)
<1>1. CASE b \in InWindow(w)
  <2>1. Get(w, b) = Refresh(w, b)
    BY <1>1 DEF Get
  <2>2. /\ IsWindow(Refresh(w, b)) /\ InWindow(Refresh(w, b)) = InWindow(w) \cup {b}
        /\ Len(Refresh(w, b)) = IF b \in InWindow(w) THEN Len(w) ELSE Len(w) + 1
    BY RefreshWindow
  <2>3. InWindow(w) \cup {b} = InWindow(w)
    BY <1>1
  <2> QED BY <1>1, <2>1, <2>2, <2>3
<1>2. CASE b \notin InWindow(w)
  BY <1>2 DEF Get
<1> QED BY <1>1, <1>2

\* A window of n blocks holds no more than n.
LEMMA WindowFinite ==
  ASSUME NEW w, IsWindow(w)
  PROVE  /\ IsFiniteSet(InWindow(w)) /\ Cardinality(InWindow(w)) \in Nat
         /\ Cardinality(InWindow(w)) <= Len(w) /\ Len(w) \in Nat
<1>1. w \in Seq(Blocks) /\ Len(w) \in Nat
  BY DEF IsWindow
<1>2. IsFiniteSet(1..Len(w)) /\ Cardinality(1..Len(w)) = Len(w)
  BY <1>1, FS_Interval
<1>3. w \in [1..Len(w) -> InWindow(w)] /\ w \in Surjection(1..Len(w), InWindow(w))
  BY <1>1 DEF InWindow, Surjection
<1>4. IsFiniteSet(InWindow(w)) /\ Cardinality(InWindow(w)) <= Cardinality(1..Len(w))
  BY <1>2, <1>3, FS_Surjection
<1> QED BY <1>1, <1>2, <1>4, FS_CardinalityType

-----------------------------------------------------------------------------
(* The walk *)

\* Induction, as the existence of a least counterexample.
LEMMA LeastNat ==
  ASSUME NEW T \in SUBSET Nat, T # {}
  PROVE  \E n \in T : \A m \in T : n <= m
<1> DEFINE R == OpToRel(<, Nat)
<1>1. \E x \in T : \A y \in T : ~(<<y, x>> \in R)
  BY NatLessThanWellFounded, WFMin
<1>2. \A x, y \in Nat : <<y, x>> \in R <=> y < x
  BY DEF OpToRel
<1> HIDE DEF R
<1>3. PICK x \in T : \A y \in T : ~(<<y, x>> \in R)
  BY <1>1
<1>4. \A y \in T : ~(y < x)
  BY <1>2, <1>3
<1>5. \A y \in T : x <= y
  BY <1>4
<1> QED BY <1>5

\* The states of a walk: g[n] is the state after n turns, up to the k-th.
IsWalk(g, k, w, start, want) ==
  g = [n \in 0..k |-> IF n = 0 THEN [cur |-> start, win |-> w, found |-> FALSE]
                      ELSE WalkStep(g[n - 1], want)]

LEMMA WalkExtends ==
  ASSUME NEW w, NEW start, NEW want, NEW k \in Nat, NEW g, IsWalk(g, k, w, start, want)
  PROVE  \E h : IsWalk(h, k + 1, w, start, want)
<1> DEFINE h == [n \in 0..(k + 1) |-> IF n = k + 1 THEN WalkStep(g[k], want) ELSE g[n]]
<1>1. \A n \in 0..k : h[n] = g[n]
  OBVIOUS
<1>2. \A n \in 0..(k + 1) :
        h[n] = IF n = 0 THEN [cur |-> start, win |-> w, found |-> FALSE]
               ELSE WalkStep(h[n - 1], want)
  <2> SUFFICES ASSUME NEW n \in 0..(k + 1)
               PROVE  h[n] = IF n = 0 THEN [cur |-> start, win |-> w, found |-> FALSE]
                             ELSE WalkStep(h[n - 1], want)
    OBVIOUS
  <2>1. CASE n = k + 1
    <3>1. h[n] = WalkStep(g[k], want) /\ n - 1 = k /\ n # 0
      BY <2>1
    <3> QED BY <1>1, <3>1
  <2>2. CASE n # k + 1
    <3>1. n \in 0..k /\ h[n] = g[n]
      BY <1>1, <2>2
    <3>2. g[n] = IF n = 0 THEN [cur |-> start, win |-> w, found |-> FALSE]
                 ELSE WalkStep(g[n - 1], want)
      BY <3>1 DEF IsWalk
    <3>3. n # 0 => n - 1 \in 0..k
      BY <3>1
    <3> QED BY <1>1, <3>1, <3>2, <3>3
  <2> QED BY <2>1, <2>2
<1>3. h = [n \in 0..(k + 1) |-> h[n]]
  OBVIOUS
<1> HIDE DEF h
<1>4. IsWalk(h, k + 1, w, start, want)
  BY <1>2, <1>3 DEF IsWalk
<1> QED BY <1>4

LEMMA WalkExists ==
  ASSUME NEW w, NEW start, NEW want
  PROVE  \A k \in Nat : \E g : IsWalk(g, k, w, start, want)
<1> DEFINE T == {k \in Nat : ~\E g : IsWalk(g, k, w, start, want)}
<1> SUFFICES ASSUME T # {} PROVE FALSE
  OBVIOUS
<1>1. PICK k \in T : \A m \in T : k <= m
  BY LeastNat
<1>2. k # 0
  <2> DEFINE g == [n \in 0..0 |-> [cur |-> start, win |-> w, found |-> FALSE]]
  <2>1. IsWalk(g, 0, w, start, want)
    BY DEF IsWalk
  <2> QED BY <1>1, <2>1
<1>3. k - 1 \in Nat /\ k - 1 \notin T /\ (k - 1) + 1 = k
  BY <1>1, <1>2
<1>4. PICK g : IsWalk(g, k - 1, w, start, want)
  BY <1>3
<1>5. \E h : IsWalk(h, k, w, start, want)
  BY <1>3, <1>4, WalkExtends
<1> QED BY <1>1, <1>5

\* What Walk computes is the last state of such a walk.
LEMMA WalkIsWalk ==
  ASSUME NEW w, NEW start, NEW want
  PROVE  \E g : IsWalk(g, MaxWindow, w, start, want) /\ Walk(w, start, want) = g[MaxWindow]
<1> DEFINE f == CHOOSE f : IsWalk(f, MaxWindow, w, start, want)
<1>1. IsWalk(f, MaxWindow, w, start, want)
  BY WalkExists, WindowAssumption
<1>2. Walk(w, start, want) = f[MaxWindow]
  BY DEF Walk, IsWalk
<1> QED BY <1>1, <1>2

\* A state of a walk through the blocks of w, which it only reorders.
Shape(s, w) ==
  /\ s = [cur |-> s.cur, win |-> s.win, found |-> s.found]
  /\ s.cur \in Blocks \cup {None} /\ s.found \in BOOLEAN
  /\ IsWindow(s.win) /\ InWindow(s.win) = InWindow(w) /\ Len(s.win) = Len(w)

LEMMA StepShape ==
  ASSUME NEW w, NEW s, Shape(s, w), NEW want
  PROVE  Shape(WalkStep(s, want), w)
<1> DEFINE p == Parent[s.cur]
<1>1. CASE s.found \/ s.cur = None
  BY <1>1 DEF WalkStep
<1>2. CASE ~(s.found \/ s.cur = None) /\ want \in {s.cur, p}
  <2>1. WalkStep(s, want) = [cur |-> s.cur, win |-> s.win, found |-> TRUE]
    BY <1>2 DEF WalkStep, Shape
  <2> QED BY <2>1 DEF Shape
<1>3. CASE /\ ~(s.found \/ s.cur = None) /\ want \notin {s.cur, p}
           /\ p # None /\ p \in InWindow(s.win)
  <2>1. WalkStep(s, want) = [cur |-> p, win |-> Refresh(s.win, p), found |-> s.found]
    BY <1>3 DEF WalkStep, Shape
  <2>2. p \in Blocks
    BY <1>3, TreeAssumption DEF Shape
  <2>3. /\ IsWindow(Refresh(s.win, p)) /\ Len(Refresh(s.win, p)) = Len(s.win)
        /\ InWindow(Refresh(s.win, p)) = InWindow(s.win)
    <3>1. IsWindow(s.win) /\ Get(s.win, p) = Refresh(s.win, p)
      BY <1>3 DEF Shape, Get
    <3> QED BY <2>2, <3>1, GetWindow
  <2> HIDE DEF p
  <2> QED BY <2>1, <2>2, <2>3 DEF Shape
<1>4. CASE /\ ~(s.found \/ s.cur = None) /\ want \notin {s.cur, p}
           /\ ~(p # None /\ p \in InWindow(s.win))
  <2>1. WalkStep(s, want) = [cur |-> None, win |-> s.win, found |-> s.found]
    BY <1>4 DEF WalkStep, Shape
  <2> QED BY <2>1 DEF Shape
<1> QED BY <1>1, <1>2, <1>3, <1>4

\* The blocks that a walk from start has passed when it is at c.
Passed(start, c) ==
  {x \in Ancestors[start] : Height[c] <= Height[x] /\ Height[x] < Height[start]}

\* After n turns the walk has passed n blocks of the window, none of them the one
\* that is wanted, or it has ended with the right answer.
Progress(s, n, w, start, want) ==
  /\ s.found => Connects(w, start, want)
  /\ ~s.found /\ s.cur = None => ~Connects(w, start, want)
  /\ ~s.found /\ s.cur # None =>
       /\ s.cur \in Ancestors[start]
       /\ Passed(start, s.cur) \subseteq InWindow(w) \ {want}
       /\ Cardinality(Passed(start, s.cur)) = n

\* The blocks between start and an ancestor's parent.
LEMMA PassedGrows ==
  ASSUME NEW start \in Blocks, NEW c \in Ancestors[start], Parent[c] # None
  PROVE  /\ Parent[c] \in Ancestors[start] /\ Parent[c] \notin Passed(start, c)
         /\ Passed(start, Parent[c]) = Passed(start, c) \cup {Parent[c]}
<1> DEFINE p == Parent[c]
<1>1. c \in Blocks /\ p \in Blocks /\ Height[c] = Height[p] + 1
  BY TreeAssumption, AncestorsAssumption
<1>2. \A b \in Blocks : Height[b] \in Nat
  BY TreeAssumption
<1>3. p \in Ancestors[c] /\ p \in Ancestors[p] /\ Height[c] <= Height[start]
  BY <1>1, AncestorsAssumption
<1>4. p \in Ancestors[start]
  BY <1>3, AncestorsAssumption
<1>5. \A x \in Ancestors[start] : Height[x] = Height[p] => x = p
  <2> SUFFICES ASSUME NEW x \in Ancestors[start], Height[x] = Height[p] PROVE x = p
    OBVIOUS
  <2>1. Height[x] <= Height[p]
    BY <1>1, <1>2
  <2>2. x \in Ancestors[p]
    BY <1>4, <2>1, AncestorsAssumption
  <2> QED BY <1>1, <2>2, AncestorsAssumption
<1>6. Ancestors[start] \subseteq Blocks
  BY AncestorsAssumption
<1> HIDE DEF p
<1>7. Passed(start, p) = Passed(start, c) \cup {p} /\ p \notin Passed(start, c)
  BY <1>1, <1>2, <1>3, <1>4, <1>5, <1>6 DEF Passed
<1> QED BY <1>4, <1>7 DEF p

LEMMA StepProgress ==
  ASSUME NEW w, IsWindow(w), NEW start \in Blocks, NEW want \in Blocks,
         Height[want] < Height[start], NEW n \in Nat,
         NEW s, Shape(s, w), Progress(s, n, w, start, want)
  PROVE  Progress(WalkStep(s, want), n + 1, w, start, want)
<1> DEFINE c == s.cur
           p == Parent[c]
<1>1. \A b \in Blocks : Height[b] \in Nat
  BY TreeAssumption
<1>2. CASE s.found \/ c = None
  <2>1. WalkStep(s, want) = s
    BY <1>2 DEF WalkStep
  <2> QED BY <1>2, <2>1 DEF Progress
<1>3. ASSUME ~(s.found \/ c = None)
      PROVE  Progress(WalkStep(s, want), n + 1, w, start, want)
  <2>1. /\ c \in Blocks /\ c \in Ancestors[start]
        /\ Passed(start, c) \subseteq InWindow(w) \ {want}
        /\ Cardinality(Passed(start, c)) = n
    BY <1>3 DEF Progress, Shape
  <2>2. Ancestors[start] \subseteq Blocks /\ start \in Ancestors[start]
    BY AncestorsAssumption
  <2>3. \A x \in Ancestors[start] : x # start => Height[x] < Height[start]
    BY <1>1, <2>2, AncestorsAssumption
  <2>4. c # want
    BY <1>1, <2>1, <2>2, <2>3 DEF Passed
  <2>5. CASE want = p
    <3>1. WalkStep(s, want).found
      BY <1>3, <2>5 DEF WalkStep, Shape
    <3>2. p # None /\ p \in Blocks /\ Height[c] = Height[p] + 1 /\ p \in Ancestors[start]
      BY <2>1, <2>5, PassedGrows, TreeAssumption
    <3>3. ASSUME NEW x \in Ancestors[start], x # start, Height[x] > Height[want]
          PROVE  x \in InWindow(w)
      <4>1. x \in Passed(start, c)
        BY <1>1, <2>1, <2>2, <2>3, <2>5, <3>2, <3>3 DEF Passed
      <4> QED BY <2>1, <4>1
    <3>4. Connects(w, start, want)
      BY <2>5, <3>2, <3>3 DEF Connects
    <3> QED BY <3>1, <3>4 DEF Progress
  <2>6. CASE want # p /\ p # None /\ p \in InWindow(w)
    <3>1. p \in InWindow(s.win)
      BY <2>6 DEF Shape
    <3>2. WalkStep(s, want) = [cur |-> p, win |-> Refresh(s.win, p), found |-> s.found]
      BY <1>3, <2>4, <2>6, <3>1 DEF WalkStep, Shape
    <3>3. /\ p \in Ancestors[start] /\ p \notin Passed(start, c)
          /\ Passed(start, p) = Passed(start, c) \cup {p}
      BY <2>1, <2>6, PassedGrows
    <3>4. IsFiniteSet(Passed(start, c))
      BY <2>1, WindowFinite, FS_Subset
    <3>5. Cardinality(Passed(start, p)) = n + 1
      BY <2>1, <3>3, <3>4, FS_AddElement
    <3>6. Passed(start, p) \subseteq InWindow(w) \ {want}
      BY <2>1, <2>6, <3>3
    <3> HIDE DEF p
    <3>7. WalkStep(s, want).cur = p /\ ~WalkStep(s, want).found
      BY <1>3, <3>2
    <3> QED BY <2>6, <3>3, <3>5, <3>6, <3>7 DEF Progress
  <2>7. CASE want # p /\ ~(p # None /\ p \in InWindow(w))
    <3>1. ~(p # None /\ p \in InWindow(s.win))
      BY <2>7 DEF Shape
    <3>2. WalkStep(s, want) = [cur |-> None, win |-> s.win, found |-> s.found]
      BY <1>3, <2>4, <2>7, <3>1 DEF WalkStep, Shape
    <3>3. ASSUME Connects(w, start, want) PROVE FALSE
      <4>1. want \in Ancestors[start] /\ want \notin Passed(start, c)
        BY <2>1, <3>3 DEF Connects
      <4>2. Height[want] < Height[c]
        BY <1>1, <2>1, <4>1 DEF Passed
      <4>3. want \in Ancestors[c]
        BY <1>1, <2>1, <4>1, <4>2, AncestorsAssumption
      <4>4. p # None /\ want \in Ancestors[p]
        BY <2>1, <2>4, <4>3, AncestorsAssumption
      <4>5. p \in Blocks /\ p \in Ancestors[start] /\ Height[c] = Height[p] + 1
        BY <2>1, <4>4, PassedGrows, TreeAssumption
      <4>6. Height[want] < Height[p]
        BY <1>1, <2>7, <4>4, <4>5, AncestorsAssumption
      <4>7. p # start
        BY <1>1, <2>1, <4>5, AncestorsAssumption
      <4>8. p \in InWindow(w)
        BY <1>1, <3>3, <4>5, <4>6, <4>7 DEF Connects
      <4> QED BY <2>7, <4>4, <4>8
    <3>4. ~WalkStep(s, want).found /\ WalkStep(s, want).cur = None
      BY <1>3, <3>2
    <3> QED BY <3>3, <3>4 DEF Progress
  <2> QED BY <2>5, <2>6, <2>7
<1> QED BY <1>2, <1>3

\* By induction every state of a walk is well formed ...
LEMMA WalkShape ==
  ASSUME NEW w, IsWindow(w), NEW start \in Blocks, NEW want,
         NEW k \in Nat, NEW g, IsWalk(g, k, w, start, want)
  PROVE  \A n \in 0..k : Shape(g[n], w)
<1> DEFINE T == {n \in 0..k : ~Shape(g[n], w)}
<1> SUFFICES ASSUME T # {} PROVE FALSE
  OBVIOUS
<1>1. T \in SUBSET Nat
  OBVIOUS
<1>2. PICK n \in T : \A m \in T : n <= m
  <2> HIDE DEF T
  <2> QED BY <1>1, LeastNat
<1>3. n \in 0..k /\ ~Shape(g[n], w)
  OBVIOUS
<1>4. g[0] = [cur |-> start, win |-> w, found |-> FALSE]
  BY DEF IsWalk
<1>5. n # 0
  <2>1. Shape(g[0], w)
    BY <1>4 DEF Shape
  <2> QED BY <1>3, <2>1
<1>6. n - 1 \in 0..k /\ n - 1 < n
  BY <1>3, <1>5
<1>7. g[n] = WalkStep(g[n - 1], want)
  BY <1>3, <1>5 DEF IsWalk
<1>8. Shape(g[n - 1], w)
  BY <1>2, <1>6
<1> QED BY <1>3, <1>7, <1>8, StepShape

\* ... and makes progress.
LEMMA WalkProgress ==
  ASSUME NEW w, IsWindow(w), NEW start \in Blocks, NEW want \in Blocks,
         Height[want] < Height[start],
         NEW k \in Nat, NEW g, IsWalk(g, k, w, start, want)
  PROVE  \A n \in 0..k : Progress(g[n], n, w, start, want)
<1> DEFINE T == {n \in 0..k : ~Progress(g[n], n, w, start, want)}
<1> SUFFICES ASSUME T # {} PROVE FALSE
  OBVIOUS
<1>1. T \in SUBSET Nat
  OBVIOUS
<1>2. PICK n \in T : \A m \in T : n <= m
  <2> HIDE DEF T
  <2> QED BY <1>1, LeastNat
<1>3. n \in 0..k /\ ~Progress(g[n], n, w, start, want)
  OBVIOUS
<1>4. Progress(g[0], 0, w, start, want)
  <2>1. Passed(start, start) = {}
    <3>1. \A x \in Ancestors[start] : x \in Blocks /\ Height[x] \in Nat
      BY TreeAssumption, AncestorsAssumption
    <3>2. start \in Blocks /\ Height[start] \in Nat
      BY TreeAssumption
    <3> QED BY <3>1, <3>2 DEF Passed
  <2>2. start \in Ancestors[start] /\ start # None
    BY TreeAssumption, AncestorsAssumption
  <2>3. g[0] = [cur |-> start, win |-> w, found |-> FALSE]
    BY DEF IsWalk
  <2>4. ~g[0].found /\ g[0].cur = start
    BY <2>3
  <2> QED BY <2>1, <2>2, <2>4, FS_EmptySet DEF Progress
<1>5. n # 0
  BY <1>3, <1>4
<1>6. n - 1 \in 0..k /\ n - 1 < n /\ (n - 1) + 1 = n /\ n - 1 \in Nat
  BY <1>3, <1>5
<1>7. g[n] = WalkStep(g[n - 1], want)
  BY <1>3, <1>5 DEF IsWalk
<1>8. Progress(g[n - 1], n - 1, w, start, want)
  BY <1>2, <1>6
<1>9. Shape(g[n - 1], w)
  BY <1>6, WalkShape
<1>10. Progress(g[n], n, w, start, want)
  BY <1>6, <1>7, <1>8, <1>9, StepProgress
<1> QED BY <1>3, <1>10

\* What the walk of a whole window returns.
LEMMA WalkKeeps ==
  ASSUME NEW w, IsWindow(w), NEW start \in Blocks, NEW want
  PROVE  Shape(Walk(w, start, want), w)
<1>1. PICK g : IsWalk(g, MaxWindow, w, start, want) /\ Walk(w, start, want) = g[MaxWindow]
  BY WalkIsWalk
<1>2. MaxWindow \in Nat /\ MaxWindow \in 0..MaxWindow
  BY WindowAssumption
<1>3. Shape(g[MaxWindow], w)
  BY <1>1, <1>2, WalkShape
<1> QED BY <1>1, <1>3

LEMMA WalkAnswers ==
  ASSUME NEW w, IsWindow(w), Len(w) <= MaxWindow, NEW start \in Blocks,
         NEW want \in InWindow(w), Height[want] < Height[start]
  PROVE  Walk(w, start, want).found = Connects(w, start, want)
<1>1. PICK g : IsWalk(g, MaxWindow, w, start, want) /\ Walk(w, start, want) = g[MaxWindow]
  BY WalkIsWalk
<1>2. MaxWindow \in Nat /\ MaxWindow \in 0..MaxWindow
  BY WindowAssumption
<1>3. want \in Blocks
  BY DEF IsWindow, InWindow
<1> DEFINE s == Walk(w, start, want)
           P == Passed(start, s.cur)
<1>4. Shape(s, w)
  BY WalkKeeps
<1>5. Progress(s, MaxWindow, w, start, want)
  BY <1>1, <1>2, <1>3, WalkProgress
<1>6. ASSUME ~s.found, s.cur # None PROVE FALSE
  <2>1. P \subseteq InWindow(w) \ {want} /\ Cardinality(P) = MaxWindow
    BY <1>5, <1>6 DEF Progress
  <2>2. IsFiniteSet(InWindow(w)) /\ Cardinality(InWindow(w)) <= Len(w)
    BY WindowFinite
  <2> HIDE DEF P
  <2>3. IsFiniteSet(P)
    BY <2>1, <2>2, FS_Subset
  <2>4. want \notin P
    BY <2>1
  <2>5. IsFiniteSet(P \cup {want}) /\ Cardinality(P \cup {want}) = MaxWindow + 1
    BY <2>1, <2>3, <2>4, FS_AddElement
  <2>6. P \cup {want} \subseteq InWindow(w)
    BY <2>1
  <2>7. Cardinality(P \cup {want}) <= Cardinality(InWindow(w))
    BY <2>2, <2>6, FS_Subset
  <2>8. Cardinality(InWindow(w)) \in Nat /\ Len(w) \in Nat
    BY <2>2, FS_CardinalityType DEF IsWindow
  <2> QED BY <1>2, <2>2, <2>5, <2>7, <2>8
<1> HIDE DEF s, P
<1>7. s.found \in BOOLEAN
  BY <1>4 DEF Shape
<1>8. Connects(w, start, want) \in BOOLEAN
  BY DEF Connects
<1>9. s.found <=> Connects(w, start, want)
  BY <1>5, <1>6 DEF Progress
<1>10. s.found = Connects(w, start, want)
  BY <1>7, <1>8, <1>9
<1> QED BY <1>10 DEF s

-----------------------------------------------------------------------------
(* The window of the service, and what the walk finds in it *)

LEMMA WindowAfter ==
  ASSUME NEW hd \in Blocks, NEW fin, NEW w, IsWindow(w), NEW c \in Blocks
  PROVE  /\ IsWindow(WindowAfterEvaluate(hd, fin, w, c))
         /\ Len(WindowAfterEvaluate(hd, fin, w, c)) = Len(w)
<1>1. IsWindow(Get(w, c)) /\ Len(Get(w, c)) = Len(w)
  BY GetWindow
<1>2. Shape(Walk(Get(w, c), hd, c), Get(w, c))
  BY <1>1, WalkKeeps
<1> QED BY <1>1, <1>2 DEF WindowAfterEvaluate, Shape

\* The window never holds a block twice, is never empty and never holds more
\* than max_blocks, whatever is evaluated, applied and finalized: the head is
\* recorded in it and move_to_end and the eviction neither lose nor double an
\* entry (ancestry_window.py).
THEOREM TypeCorrect == Spec => []TypeOK
<1> DEFINE Kept == IsWindow(window) /\ Len(window) \in 1..MaxWindow
<1>1. Init => Kept
  <2> SUFFICES ASSUME Init PROVE Kept
    OBVIOUS
  <2>1. window = <<Root>> /\ Root \in Blocks /\ MaxWindow \in Nat \ {0}
    BY ServiceAssumption, WindowAssumption DEF Init
  <2> QED BY <2>1 DEF IsWindow
<1>2. Refs /\ Kept /\ [Next]_vars => Kept'
  <2> SUFFICES ASSUME Refs, Kept, [Next]_vars PROVE Kept'
    OBVIOUS
  <2>1. MaxWindow \in Nat \ {0} /\ Len(window) <= MaxWindow
    BY WindowAssumption
  <2>2. head \in Blocks
    BY DEF Refs
  <2>3. ASSUME NEW c \in Blocks, EvaluateCandidate(c) PROVE Kept'
    <3>1. /\ IsWindow(window') /\ Len(window') = Len(window)
      BY <2>2, <2>3, WindowAfter DEF EvaluateCandidate
    <3> QED BY <3>1 DEF IsWindow
  <2>4. ASSUME NEW c \in Blocks, ApplyCandidate(c) PROVE Kept'
    <3> DEFINE w == WindowAfterEvaluate(head, finalized, window, c)
    <3>1. IsWindow(w) /\ Len(w) <= MaxWindow
      BY <2>1, <2>2, WindowAfter
    <3>2. window' = Record(w, c)
      BY <2>4 DEF ApplyCandidate
    <3> HIDE DEF w
    <3>3. IsWindow(window') /\ Len(window') \in 1..MaxWindow
      BY <3>1, <3>2, RecordWindow
    <3> QED BY <3>3 DEF IsWindow
  <2>5. ASSUME NEW c \in Blocks, RejectCandidate(c) PROVE Kept'
    BY <2>3, <2>5 DEF RejectCandidate
  <2>6. ASSUME NEW c \in Blocks, AdvanceFinalized(c) PROVE Kept'
    <3>1. window' = Record(window, c)
      BY <2>6 DEF AdvanceFinalized
    <3>2. IsWindow(window') /\ Len(window') \in 1..MaxWindow
      BY <2>1, <3>1, RecordWindow
    <3> QED BY <3>2 DEF IsWindow
  <2>7. ASSUME NEW S \in SUBSET Blocks \ {{}}, ChooseAndApply(S) PROVE Kept'
    BY <2>4, <2>5, <2>7 DEF ChooseAndApply
  <2>8. CASE UNCHANGED vars
    BY <2>8 DEF vars, IsWindow
  <2> QED BY <2>3, <2>4, <2>5, <2>6, <2>7, <2>8 DEF Next
<1>3. Refs /\ Kept => TypeOK
  BY DEF Refs, TypeOK, IsWindow
<1> QED BY <1>1, <1>2, <1>3, RefsKept, PTL DEF Spec

\* walk_parents answers is_ancestor_of exactly, though each look-up reorders
\* the window that the walk reads and the loop ends after max_blocks turns:
\* the blocks that it passes are distinct members of the window, other than the
\* one that is wanted, so max_blocks turns are enough (ancestry_window.py).
THEOREM WalkFinds == Spec => []WalkFindsAncestors
<1>1. TypeOK => WalkFindsAncestors
  <2> SUFFICES ASSUME TypeOK, NEW c \in InWindow(window), Height[c] < Height[head]
               PROVE  Walk(Get(window, c), head, c).found = Connects(window, head, c)
    BY DEF WalkFindsAncestors
  <2>1. /\ IsWindow(window) /\ Len(window) <= MaxWindow
        /\ head \in Blocks /\ c \in Blocks
    BY WindowAssumption DEF TypeOK, IsWindow, InWindow
  <2> DEFINE w == Get(window, c)
  <2>2. IsWindow(w) /\ InWindow(w) = InWindow(window) /\ Len(w) <= MaxWindow
    BY <2>1, GetWindow
  <2> HIDE DEF w
  <2>3. Walk(w, head, c).found = Connects(w, head, c)
    BY <2>1, <2>2, WalkAnswers
  <2>4. Connects(w, head, c) = Connects(window, head, c)
    BY <2>2 DEF Connects
  <2> QED BY <2>3, <2>4 DEF w
<1> QED BY <1>1, TypeCorrect, PTL

-----------------------------------------------------------------------------
(* The gate on the import path follows the chain, for every number of       *)
(* concurrent imports and every set of other writers.                       *)

At(i) == imports[i].pc

Sync(i) == At(i) \in {"sync", "install"}

GateTyped ==
  /\ tip \in Blocks /\ gate \in Blocks \cup {None}
  /\ strayed \in BOOLEAN /\ missed \in BOOLEAN
  /\ imports \in [Importers -> [pc : {"idle", "lazy", "queued", "sync", "install"},
                                blk : Blocks \cup {None}]]
  /\ \A i \in Importers : At(i) # "idle" /\ At(i) # "sync" => imports[i].blk \in Blocks

\* Without a service nothing has been accepted, and the tip has not moved since a
\* sync read it.
NoService ==
  gate = None =>
    /\ ~missed
    /\ \A i \in Importers : /\ At(i) \in {"idle", "lazy"}
                            /\ At(i) = "lazy" => imports[i].blk = tip

\* With a service: the gate is at the tip, or at its parent, when one import has
\* moved the tip and not yet installed it, or has failed to, after which there is
\* no other.  What waits in the queue is at most one above the gate, so that
\* nothing but the import that is being synced can have moved the tip, and what a
\* late first sync has read is not above the gate.
Service ==
  gate # None =>
    /\ Height[gate] <= Height[tip]
    /\ gate = tip \/ (gate = Parent[tip] /\ (missed \/ \E i \in Importers : Sync(i)))
    /\ missed => gate # tip /\ \A i \in Importers : ~Sync(i)
    /\ \A i \in Importers :
         /\ At(i) = "queued" => Height[imports[i].blk] <= Height[gate] + 1
         /\ At(i) = "lazy" => Height[imports[i].blk] <= Height[gate]
         /\ Sync(i) => Height[gate] < Height[tip]
         /\ At(i) = "install" => imports[i].blk = tip
         /\ \A j \in Importers : Sync(i) /\ Sync(j) => i = j

InStep == strayed \/ (NoService /\ Service)

GateInv == GateTyped /\ InStep

-----------------------------------------------------------------------------

LEMMA GateInvInit == GateInit => GateInv
<1> SUFFICES ASSUME GateInit PROVE GateInv
  OBVIOUS
<1>1. strayed \in BOOLEAN /\ missed \in BOOLEAN /\ ~missed
  BY Zenon DEF GateInit
<1>2. /\ tip = BootTip /\ gate \in {BootTip, None} /\ BootTip \in Blocks /\ None \notin Blocks
      /\ imports = [i \in Importers |-> Idle]
  BY GateAssumption, TreeAssumption DEF GateInit
<1>3. \A i \in Importers : At(i) = "idle" /\ ~Sync(i)
  BY <1>2 DEF At, Sync, Idle
<1>4. NoService /\ Service
  BY <1>1, <1>2, <1>3, TreeAssumption DEF NoService, Service
<1>5. GateTyped
  BY <1>1, <1>2, <1>3 DEF GateTyped, Idle
<1> QED BY <1>4, <1>5 DEF GateInv, InStep

\* A candidate that the gate lets pass is at most one above it, whatever it is.
LEMMA AcceptedIsNear ==
  ASSUME NEW g \in Blocks, NEW b \in Blocks, Accepts(g, None, <<g>>, b)
  PROVE  Height[b] <= Height[g] + 1
BY TreeAssumption DEF Accepts, Evaluate

\* Writers past the gate: nothing is claimed from then on.
LEMMA PastGateStep ==
  ASSUME GateInv, NEW t \in Blocks, PastGate(t)
  PROVE  GateInv'
<1>1. strayed'
  BY Zenon DEF PastGate
<1>2. tip' = t /\ UNCHANGED <<gate, imports, missed>> /\ strayed' \in BOOLEAN
  BY Zenon DEF PastGate
<1>3. GateTyped'
  BY <1>2 DEF GateInv, GateTyped, At
<1> QED BY <1>1, <1>3 DEF GateInv, InStep

LEMMA WritersStep ==
  ASSUME GateInv, Reorg \/ \E b \in Blocks : Forge(b) \/ ReorgAndImport(b)
  PROVE  GateInv'
<1>1. RollbackTargets(tip) \subseteq Blocks
  BY AncestorsAssumption DEF GateInv, GateTyped, RollbackTargets
<1>2. \E t \in Blocks : PastGate(t)
  BY <1>1 DEF Reorg, Forge, ReorgAndImport
<1> QED BY <1>2, PastGateStep

LEMMA ImportStep ==
  ASSUME GateInv, NEW i \in Importers, Import(i)
  PROVE  GateInv'
<1> USE TreeAssumption, GateAssumption DEF GateInv, GateTyped, At, Sync
<1>1. CASE LazyRead(i)
  BY <1>1 DEF LazyRead, InStep, NoService, Service
<1>2. CASE LazyInstall(i)
  <2>1. CASE strayed \/ imports[i].blk # tip
    <3>1. strayed' /\ strayed' \in BOOLEAN
      BY <1>2, <2>1, Zenon DEF LazyInstall
    <3>2. GateTyped'
      BY <1>2, <3>1 DEF LazyInstall, Idle
    <3> QED BY <3>1, <3>2 DEF InStep
  <2>2. CASE ~strayed /\ imports[i].blk = tip
    <3>1. ~strayed' /\ strayed' \in BOOLEAN
      BY <1>2, <2>2, Zenon DEF LazyInstall
    <3>2. gate \in {None, tip}
      <4>1. SUFFICES ASSUME gate # None, gate # tip PROVE FALSE
        OBVIOUS
      <4>2. gate \in Blocks /\ Height[tip] = Height[gate] + 1
        BY <2>2, <4>1 DEF InStep, Service
      <4>3. Height[tip] <= Height[gate]
        BY <1>2, <2>2, <4>1 DEF LazyInstall, InStep, Service
      <4> QED BY <4>2, <4>3
    <3>3. ~missed /\ missed' = missed
      BY <1>2, <2>2, <3>2 DEF LazyInstall, InStep, NoService, Service
    <3>4. \A k \in Importers : ~Sync(k)
      BY <2>2, <3>2 DEF InStep, NoService, Service
    <3>5. \A k \in Importers : At(k) = "queued" => Height[imports[k].blk] <= Height[tip] + 1
      BY <2>2, <3>2 DEF InStep, NoService, Service
    <3>6. \A k \in Importers : At(k) = "lazy" => Height[imports[k].blk] <= Height[tip]
      BY <2>2, <3>2 DEF InStep, NoService, Service
    <3>7. gate' = tip /\ tip' = tip /\ imports' = [imports EXCEPT ![i] = Idle]
      BY <1>2, <2>2 DEF LazyInstall
    <3>8. GateTyped'
      BY <3>1, <3>3, <3>7 DEF Idle
    <3> QED BY <3>3, <3>4, <3>5, <3>6, <3>7, <3>8 DEF InStep, NoService, Service, Idle
  <2> QED BY <2>1, <2>2
<1>3. ASSUME NEW b \in Blocks, Observe(i, b) PROVE GateInv'
  BY <1>3, AcceptedIsNear DEF Observe, InStep, NoService, Service
<1>4. CASE Apply(i)
  <2> DEFINE b == imports[i].blk
  <2>1. CASE ~Extends(b)
    <3>1. /\ UNCHANGED <<tip, gate, strayed, missed>>
          /\ imports' = [imports EXCEPT ![i] = Idle]
      BY <1>4, <2>1 DEF Apply
    <3>2. GateTyped'
      BY <3>1 DEF Idle
    <3>3. Service => Service'
      <4>1. At(i) = "queued" /\ imports'[i].pc = "idle"
        BY <1>4, <3>1 DEF Apply, Idle
      <4>2. \A k \in Importers \ {i} : imports'[k] = imports[k]
        BY <3>1
      <4>3. \A k \in Importers : Sync(k)' <=> Sync(k)
        BY <4>1, <4>2
      <4> QED BY <3>1, <4>1, <4>2, <4>3 DEF Service
    <3>4. NoService => NoService'
      BY <3>1 DEF NoService, Idle
    <3> QED BY <3>1, <3>2, <3>3, <3>4 DEF InStep
  <2>2. CASE strayed
    <3>1. strayed' /\ strayed' \in BOOLEAN
      BY <1>4, <2>2, Zenon DEF Apply
    <3>2. GateTyped'
      BY <1>4, <3>1 DEF Apply, Goto, Extends, Idle
    <3> QED BY <3>1, <3>2 DEF InStep
  <2>3. CASE Extends(b) /\ ~strayed
    <3>1. b \in Blocks /\ Parent[b] = tip /\ Height[b] = Height[tip] + 1
      BY <2>3 DEF Extends
    <3>2. gate \in Blocks /\ Service /\ At(i) = "queued"
      BY <1>4, <2>3 DEF Apply, InStep, NoService
    <3>3. gate = tip /\ ~missed /\ \A k \in Importers : ~Sync(k)
      <4>1. Height[b] <= Height[gate] + 1
        BY <3>2 DEF Service
      <4>2. gate = tip
        BY <3>1, <3>2, <4>1 DEF Service
      <4> QED BY <3>2, <4>2 DEF Service
    <3>4. /\ tip' = b /\ gate' = gate /\ missed' = missed /\ strayed' = strayed
          /\ imports' = [imports EXCEPT ![i].pc = "sync"]
      BY <1>4, <2>3 DEF Apply, Goto
    <3> HIDE DEF b
    <3>5. GateTyped'
      BY <3>1, <3>4, <2>3
    <3>6. Service' /\ NoService'
      BY <3>1, <3>2, <3>3, <3>4 DEF Service, NoService
    <3> QED BY <3>5, <3>6 DEF InStep
  <2> QED BY <2>1, <2>2, <2>3
<1>5. CASE QueueFails(i)
  BY <1>5 DEF QueueFails, InStep, NoService, Service, Idle
<1>6. CASE LateApply(i)
  BY <1>6 DEF LateApply, Extends, InStep, Idle
<1>7. CASE ReadTip(i)
  BY <1>7 DEF ReadTip, InStep, NoService, Service
<1>8. CASE Install(i)
  <2>1. missed' = missed /\ strayed' = strayed
    BY <1>8 DEF Install
  <2>2. /\ tip' = tip /\ gate' = imports[i].blk /\ At(i) = "install"
        /\ imports' = [imports EXCEPT ![i] = Idle]
    BY <1>8 DEF Install
  <2>3. GateTyped'
    BY <2>1, <2>2 DEF Idle
  <2>4. CASE strayed
    BY <2>1, <2>3, <2>4 DEF InStep
  <2>5. CASE ~strayed
    <3>1. gate \in Blocks /\ imports[i].blk = tip /\ ~missed /\ Height[gate] < Height[tip]
      BY <2>2, <2>5 DEF InStep, NoService, Service
    <3>2. \A k \in Importers : ~Sync(k) \/ k = i
      BY <2>2, <2>5, <3>1 DEF InStep, Service
    <3>3. Service'
      BY <2>1, <2>2, <2>5, <3>1, <3>2 DEF InStep, Service, Idle
    <3>4. NoService'
      BY <2>2, <3>1 DEF NoService
    <3> QED BY <2>3, <3>3, <3>4 DEF InStep
  <2> QED BY <2>4, <2>5
<1>9. CASE SyncFails(i)
  <2>1. missed' /\ missed' \in BOOLEAN /\ strayed' = strayed
    BY <1>9, Zenon DEF SyncFails
  <2>2. /\ tip' = tip /\ gate' = gate /\ At(i) = "sync"
        /\ imports' = [imports EXCEPT ![i] = Idle]
    BY <1>9 DEF SyncFails
  <2>3. GateTyped'
    BY <2>1, <2>2 DEF Idle
  <2>4. CASE strayed
    BY <2>1, <2>3, <2>4, Zenon DEF InStep
  <2>5. CASE ~strayed
    <3>1. gate \in Blocks /\ gate # tip /\ gate = Parent[tip]
      BY <2>2, <2>5 DEF InStep, NoService, Service
    <3>2. \A k \in Importers : ~Sync(k) \/ k = i
      BY <2>2, <2>5, <3>1 DEF InStep, Service
    <3>3. Service'
      BY <2>1, <2>2, <2>5, <3>1, <3>2 DEF InStep, Service, Idle
    <3>4. NoService'
      BY <2>2, <3>1 DEF NoService
    <3> QED BY <2>3, <3>3, <3>4 DEF InStep
  <2> QED BY <2>4, <2>5
<1> QED BY <1>1, <1>2, <1>3, <1>4, <1>5, <1>6, <1>7, <1>8, <1>9 DEF Import

LEMMA GateInvStep == GateInv /\ [GateNext]_gateVars => GateInv'
<1> SUFFICES ASSUME GateInv, [GateNext]_gateVars PROVE GateInv'
  OBVIOUS
<1>1. CASE UNCHANGED gateVars
  BY <1>1 DEF gateVars, GateInv, GateTyped, InStep, NoService, Service, At, Sync
<1> QED BY <1>1, ImportStep, WritersStep DEF GateNext

\* The gate is at the tip or at its parent, and at the parent only while the one
\* import that moved the tip is synced or because that sync failed, for any number
\* of concurrent imports (shadow.py:179-208, 226-232, 321-322).
THEOREM GateFollows == GateSpec => []GateInSync
<1>1. GateInv => GateInSync
  BY DEF GateInv, GateTyped, InStep, Service, GateInSync, Syncing, At, Sync
<1> QED BY <1>1, GateInvInit, GateInvStep, PTL DEF GateSpec

\* The gate serialises the imports it lets pass, although no lock does: until a
\* writer goes past it, at most one import is between the change of the tip and the
\* new service, and the tip that it installs is the chain's (p2p_node.py:1902-1967,
\* shadow.py:179-208).
THEOREM OneImportAtATime ==
  GateSpec => [](strayed \/ gate = None \/
             \A i, j \in Importers :
               /\ Sync(i) /\ Sync(j) => i = j
               /\ At(i) = "install" => imports[i].blk = tip)
<1>1. GateInv => \/ strayed \/ gate = None
              \/ \A i, j \in Importers :
                   /\ Sync(i) /\ Sync(j) => i = j
                   /\ At(i) = "install" => imports[i].blk = tip
  BY DEF GateInv, GateTyped, InStep, Service
<1> QED BY <1>1, GateInvInit, GateInvStep, PTL DEF GateSpec

\* After a failed sync no import moves the tip, whatever is offered and whatever
\* was queued: the gate passes only what is at most one above it, which is not
\* above the tip, and no import is left that would sync it (shadow.py:204-208).
THEOREM FailedSyncLocksOut == GateSpec => LockedOut
<1>1. ASSUME GateInv, [GateNext]_gateVars
      PROVE  [missed /\ ~strayed' => tip' = tip]_gateVars
  <2> SUFFICES ASSUME missed, ~strayed', GateNext PROVE tip' = tip
    BY <1>1, Zenon DEF gateVars
  <2>1. ASSUME NEW t, PastGate(t) PROVE FALSE
    BY <2>1, Zenon DEF PastGate
  <2>2. PICK i \in Importers : Import(i)
    BY <2>1 DEF GateNext, Forge, Reorg, ReorgAndImport
  <2>3. ~LateApply(i)
    BY Zenon DEF LateApply
  <2>4. CASE Apply(i)
    <3>1. ~strayed
      BY <2>4, Zenon DEF Apply
    <3>2. imports[i].pc = "queued" => ~Extends(imports[i].blk)
      BY <1>1, <3>1, TreeAssumption, GateAssumption
      DEF GateInv, GateTyped, InStep, NoService, Service, At, Sync, Extends
    <3> QED BY <2>4, <3>2 DEF Apply
  <2> QED
    BY <2>2, <2>3, <2>4
    DEF Import, LazyRead, LazyInstall, Observe, QueueFails, ReadTip, SyncFails, Install
<1> QED BY <1>1, GateInvInit, GateInvStep, PTL DEF GateSpec, LockedOut

=============================================================================
