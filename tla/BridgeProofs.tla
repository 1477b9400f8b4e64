---------------------------- MODULE BridgeProofs ----------------------------
(***************************************************************************)
(* What holds of the bridge for all users, locks, replay keys, amounts and *)
(* threads, with any number of requests at once and a verifier that        *)
(* answers at any time.                                                    *)
(***************************************************************************)
EXTENDS Bridge, FiniteSetTheorems, SequenceTheorems, WellFoundedInduction, TLAPS

\* What PendingIsBacked needs to be inductive: the shape of the rows, and counters
\* that count.
LockRows ==
  /\ lock = [h \in Hashes |-> [status |-> lock[h].status, user |-> lock[h].user,
                               made |-> lock[h].made]]
  /\ debits \in [Hashes -> Nat] /\ refunds \in [Hashes -> Nat]

Backed == LockRows /\ PendingIsBacked

LEMMA BackedInit == Init => Backed
<1> SUFFICES ASSUME Init PROVE Backed
  OBVIOUS
<1>1. /\ lock = [h \in Hashes |-> [status |-> "none", user |-> Nobody, made |-> 0]]
      /\ debits = [h \in Hashes |-> 0] /\ refunds = [h \in Hashes |-> 0]
  BY DEF Init
<1> QED BY <1>1 DEF Backed, LockRows, PendingIsBacked

\* A step that touches no lock keeps what is known of them.
LEMMA OtherStep ==
  ASSUME Backed, UNCHANGED <<lock, debits, refunds>>
  PROVE  Backed'
BY DEF Backed, LockRows, PendingIsBacked

\* Rows that are confirmed can no longer be paid back.
LEMMA ConfirmStep ==
  ASSUME Backed, NEW C, UNCHANGED <<debits, refunds>>,
         lock' = [h \in Hashes |-> IF h \in C
                    THEN [status |-> "confirmed", user |-> lock[h].user, made |-> lock[h].made]
                    ELSE lock[h]]
  PROVE  Backed'
<1>1. \A h \in Hashes :
        /\ lock'[h] = [status |-> lock'[h].status, user |-> lock'[h].user, made |-> lock'[h].made]
        /\ lock'[h].status = "pending" => lock[h].status = "pending"
  BY DEF Backed, LockRows
<1>2. LockRows'
  BY <1>1 DEF Backed, LockRows
<1> QED BY <1>1, <1>2 DEF Backed, LockRows, PendingIsBacked

\* confirm_bridge_lock writes confirmed whatever the row says by then
\* (rocks_store.py:1423-1432).
LEMMA ConfirmBacked ==
  ASSUME Backed, NEW t \in Threads, WriteConfirm(t)
  PROVE  Backed'
<1> DEFINE x == req[t].name
<1>1. lock' = [lock EXCEPT ![x].status = "confirmed"] /\ UNCHANGED <<debits, refunds>>
  BY DEF WriteConfirm, history
<1> HIDE DEF x
<1>2. lock = [h \in Hashes |-> lock[h]]
  BY DEF Backed, LockRows
<1>3. lock' = [h \in Hashes |-> IF h = x THEN [lock[h] EXCEPT !.status = "confirmed"]
                                ELSE lock[h]]
  BY <1>1, <1>2
<1>4. \A h \in Hashes : [lock[h] EXCEPT !.status = "confirmed"]
                          = [status |-> "confirmed", user |-> lock[h].user, made |-> lock[h].made]
  BY DEF Backed, LockRows
<1>5. lock' = [h \in Hashes |-> IF h \in {x}
                 THEN [status |-> "confirmed", user |-> lock[h].user, made |-> lock[h].made]
                 ELSE lock[h]]
  BY <1>3, <1>4
<1> QED BY <1>1, <1>5, ConfirmStep

\* claim_and_credit_bridge_event confirms the lock that the caller names, if its
\* row exists (rocks_store.py:1479-1517).
LEMMA ClaimBacked ==
  ASSUME Backed, NEW t \in Threads, Claim(t)
  PROVE  Backed'
<1>1. UNCHANGED <<debits, refunds>>
  BY DEF Claim, history
<1>2. CASE Claimed(req[t].key)
  BY <1>1, <1>2, OtherStep DEF Claim
<1>3. CASE ~Claimed(req[t].key)
  <2> DEFINE C == {h \in Hashes : h = req[t].name /\ lock[h].status # "none"}
  <2>1. lock' = [h \in Hashes |-> IF h = req[t].name /\ lock[h].status # "none"
                   THEN [lock[h] EXCEPT !.status = "confirmed"] ELSE lock[h]]
    BY <1>3 DEF Claim
  <2>2. \A h \in Hashes : [lock[h] EXCEPT !.status = "confirmed"]
                            = [status |-> "confirmed", user |-> lock[h].user, made |-> lock[h].made]
    BY DEF Backed, LockRows
  <2>3. lock' = [h \in Hashes |-> IF h \in C
                   THEN [status |-> "confirmed", user |-> lock[h].user, made |-> lock[h].made]
                   ELSE lock[h]]
    BY <2>1, <2>2
  <2> HIDE DEF C
  <2> QED BY <1>1, <2>3, ConfirmStep
<1> QED BY <1>2, <1>3

\* The batch of debit_and_create_bridge_lock pays for the row that it writes, also
\* when it replaces a row of the same hash (rocks_store.py:1519-1551).
LEMMA DebitBacked ==
  ASSUME Backed, NEW t \in Threads, DebitLock(t)
  PROVE  Backed'
<1> DEFINE x == req[t].name
           u == req[t].user
<1>1. CASE CanPay(u)
  <2>0. PICK now \in Times :
          lock' = [lock EXCEPT ![x] = [status |-> "pending", user |-> u, made |-> now]]
    BY <1>1 DEF DebitLock
  <2>1. /\ lock' = [lock EXCEPT ![x] = [status |-> "pending", user |-> u, made |-> now]]
        /\ debits' = [debits EXCEPT ![x] = @ + 1] /\ refunds' = refunds
    BY <1>1, <2>0 DEF DebitLock
  <2> HIDE DEF x, u
  <2>2. DOMAIN lock = Hashes /\ debits \in [Hashes -> Nat] /\ refunds \in [Hashes -> Nat]
    BY DEF Backed, LockRows
  <2>3. \A h \in Hashes : IF h = x
          THEN /\ lock'[h] = [status |-> "pending", user |-> u, made |-> now]
               /\ debits'[h] = debits[h] + 1
          ELSE lock'[h] = lock[h] /\ debits'[h] = debits[h]
    BY <2>1, <2>2
  <2>4. LockRows'
    <3>1. \A h \in Hashes :
            lock'[h] = [status |-> lock'[h].status, user |-> lock'[h].user, made |-> lock'[h].made]
      BY <2>3 DEF Backed, LockRows
    <3>2. lock' = [h \in Hashes |-> lock'[h]]
      BY <2>1, <2>2 DEF Backed, LockRows
    <3>3. lock' = [h \in Hashes |-> [status |-> lock'[h].status, user |-> lock'[h].user,
                                      made |-> lock'[h].made]]
      BY <3>1, <3>2
    <3>4. debits' \in [Hashes -> Nat]
      <4>1. debits' = [h \in Hashes |-> debits'[h]]
        BY <2>1, <2>2
      <4>2. \A h \in Hashes : debits'[h] \in Nat
        BY <2>2, <2>3
      <4> QED BY <4>1, <4>2
    <3> QED BY <2>1, <2>2, <3>3, <3>4 DEF LockRows
  <2>5. PendingIsBacked'
    <3> SUFFICES ASSUME NEW h \in Hashes
        PROVE debits'[h] >= refunds'[h] + IF lock'[h].status = "pending" THEN 1 ELSE 0
      BY DEF PendingIsBacked
    <3>1. /\ debits[h] >= refunds[h] + IF lock[h].status = "pending" THEN 1 ELSE 0
          /\ debits[h] \in Nat /\ refunds[h] \in Nat
      BY <2>2 DEF Backed, PendingIsBacked
    <3> QED BY <2>1, <2>3, <3>1
  <2> QED BY <2>4, <2>5 DEF Backed
<1>2. CASE ~CanPay(u)
  BY <1>2, OtherStep DEF DebitLock
<1> QED BY <1>1, <1>2

\* refund_pending_bridge_lock takes what backed the row (rocks_store.py:1553-1569).
LEMMA RefundBacked ==
  ASSUME Backed, NEW x \in Hashes, Refund(x)
  PROVE  Backed'
<1>1. /\ lock[x].status = "pending" /\ debits' = debits
      /\ lock' = [lock EXCEPT ![x].status = "refunded"]
      /\ refunds' = [refunds EXCEPT ![x] = @ + 1]
  BY DEF Refund, Refundable
<1>2. \A h \in Hashes :
        lock[h] = [status |-> lock[h].status, user |-> lock[h].user, made |-> lock[h].made]
  BY DEF Backed, LockRows
<1>3. DOMAIN lock = Hashes /\ debits \in [Hashes -> Nat] /\ refunds \in [Hashes -> Nat]
  BY DEF Backed, LockRows
<1>4. \A h \in Hashes : IF h = x
        THEN /\ lock'[h] = [status |-> "refunded", user |-> lock[h].user, made |-> lock[h].made]
             /\ refunds'[h] = refunds[h] + 1
        ELSE lock'[h] = lock[h] /\ refunds'[h] = refunds[h]
  BY <1>1, <1>2, <1>3
<1>5. LockRows'
  <2>1. \A h \in Hashes :
          lock'[h] = [status |-> lock'[h].status, user |-> lock'[h].user, made |-> lock'[h].made]
    BY <1>2, <1>4
  <2>2. lock' = [h \in Hashes |-> lock'[h]]
    BY <1>1, <1>3 DEF Backed, LockRows
  <2>3. lock' = [h \in Hashes |-> [status |-> lock'[h].status, user |-> lock'[h].user,
                                    made |-> lock'[h].made]]
    BY <2>1, <2>2
  <2> QED BY <1>1, <1>3, <2>3 DEF LockRows
<1>6. PendingIsBacked'
  BY <1>1, <1>3, <1>4 DEF Backed, PendingIsBacked
<1> QED BY <1>5, <1>6 DEF Backed

\* The other steps of a request do not touch the locks.
LEMMA ServeBacked ==
  ASSUME Backed, NEW t \in Threads, Serve(t)
  PROVE  Backed'
<1>1. ASSUME VerifyLock(t) \/ VerifyConfirm(t) \/ VerifyIncoming(t) \/ LoadQueue(t) \/ SaveQueue(t)
      PROVE  UNCHANGED <<lock, debits, refunds>>
  BY <1>1 DEF VerifyLock, VerifyConfirm, VerifyIncoming, LoadQueue, SaveQueue, rows, history
<1> QED BY <1>1, OtherStep, DebitBacked, ConfirmBacked, ClaimBacked DEF Serve

LEMMA BackedNext == Backed /\ [Next]_vars => Backed'
<1> SUFFICES ASSUME Backed, [Next]_vars PROVE Backed'
  OBVIOUS
<1>1. ASSUME NEW t \in Threads, Request(t) \/ Fails(t)
      PROVE  UNCHANGED <<lock, debits, refunds>>
  BY <1>1 DEF Request, Fails, BeginLock, BeginConfirm, BeginIncoming, Register, rows, history
<1>2. ASSUME NEW x \in Txs, L1Confirms(x)
      PROVE  UNCHANGED <<lock, debits, refunds>>
  BY <1>2 DEF L1Confirms, rows, history
<1>3. ASSUME Relay PROVE UNCHANGED <<lock, debits, refunds>>
  BY <1>3 DEF Relay, Fetch, KeepEntry, Post, Receive, GiveUp, Persist, rows, history
<1>4. ASSUME Crash \/ Replay PROVE UNCHANGED <<lock, debits, refunds>>
  BY <1>4 DEF Crash, Replay, rows, history
<1>5. ASSUME UNCHANGED vars PROVE UNCHANGED <<lock, debits, refunds>>
  BY <1>5 DEF vars, rows, history
<1> QED BY <1>1, <1>2, <1>3, <1>4, <1>5, OtherStep, ServeBacked, RefundBacked DEF Next

\* A lock is never refunded more often than it was paid for, and one that is
\* pending has been paid for, however locks, confirmations, claims, refunds, the
\* relayer, crashes and replays of the chain overlap (rocks_store.py:1423-1569,
\* abs_bridge.py:431-466).
THEOREM RefundsArePaidFor == Spec => []PendingIsBacked
<1>1. Backed => PendingIsBacked
  BY DEF Backed
<1> QED BY <1>1, BackedInit, BackedNext, PTL DEF Spec

-----------------------------------------------------------------------------
(* Sums *)

\* Induction, as the existence of a least counterexample.
LEMMA LeastNat ==
  ASSUME NEW T \in SUBSET Nat, T # {}
  PROVE  \E n \in T : \A m \in T : n <= m
<1> DEFINE R == OpToRel(<, Nat)
<1>1. \E x \in T : \A y \in T : ~(<<y, x>> \in R)
  BY NatLessThanWellFounded, WFMin
<1>2. \A x, y \in Nat : <<y, x>> \in R <=> y < x
  BY DEF OpToRel
<1> HIDE DEF R
<1>3. PICK x \in T : \A y \in T : ~(<<y, x>> \in R)
  BY <1>1
<1>4. \A y \in T : ~(y < x)
  BY <1>2, <1>3
<1>5. \A y \in T : x <= y
  BY <1>4
<1> QED BY <1>5

\* The function by which a sum is defined, on the subsets in D.
Chosen(s) == CHOOSE x \in s : TRUE

IsTotal(g, b, D) ==
  g = [s \in D |-> IF s = {} THEN 0 ELSE b[Chosen(s)] + g[s \ {Chosen(s)}]]

LEMMA TotalIs ==
  ASSUME NEW b, NEW S
  PROVE  Total(b, S) = (CHOOSE g : IsTotal(g, b, SUBSET S))[S]
BY DEF Total, MapThenSumSet, MapThenFoldSet, IsTotal, Chosen

Small(S, k) == {s \in SUBSET S : Cardinality(s) <= k}

LEMMA ChosenFacts ==
  ASSUME NEW S, IsFiniteSet(S), NEW s \in SUBSET S, s # {}
  PROVE  /\ Chosen(s) \in s /\ s \ {Chosen(s)} \in SUBSET S /\ IsFiniteSet(s)
         /\ Cardinality(s) \in Nat \ {0} /\ Cardinality(s \ {Chosen(s)}) = Cardinality(s) - 1
<1>1. Chosen(s) \in s
  BY DEF Chosen
<1>2. IsFiniteSet(s)
  BY FS_Subset
<1>3. Cardinality(s) \in Nat /\ Cardinality(s) # 0
  BY <1>2, FS_CardinalityType, FS_EmptySet
<1> QED BY <1>1, <1>2, <1>3, FS_RemoveElement

\* The sum of every subset exists.
LEMMA TotalExtends ==
  ASSUME NEW b, NEW S, IsFiniteSet(S), NEW k \in Nat,
         NEW g, IsTotal(g, b, Small(S, k))
  PROVE  \E h : IsTotal(h, b, Small(S, k + 1))
<1> DEFINE h == [s \in Small(S, k + 1) |->
                   IF s = {} THEN 0 ELSE b[Chosen(s)] + g[s \ {Chosen(s)}]]
<1>1. ASSUME NEW s \in Small(S, k) PROVE s \in Small(S, k + 1) /\ h[s] = g[s]
  <2>1. s \in Small(S, k + 1)
    <3>1. IsFiniteSet(s)
      BY FS_Subset DEF Small
    <3> QED BY <3>1, FS_CardinalityType DEF Small
  <2>2. g[s] = IF s = {} THEN 0 ELSE b[Chosen(s)] + g[s \ {Chosen(s)}]
    BY DEF IsTotal
  <2> QED BY <2>1, <2>2
<1>2. ASSUME NEW s \in Small(S, k + 1), s # {} PROVE s \ {Chosen(s)} \in Small(S, k)
  BY <1>2, ChosenFacts DEF Small
<1>3. \A s \in Small(S, k + 1) :
        h[s] = IF s = {} THEN 0 ELSE b[Chosen(s)] + h[s \ {Chosen(s)}]
  BY <1>1, <1>2
<1>4. h = [s \in Small(S, k + 1) |-> h[s]]
  OBVIOUS
<1> HIDE DEF h
<1>5. IsTotal(h, b, Small(S, k + 1))
  BY <1>3, <1>4 DEF IsTotal
<1> QED BY <1>5

LEMMA TotalExists ==
  ASSUME NEW b, NEW S, IsFiniteSet(S)
  PROVE  \E g : IsTotal(g, b, SUBSET S)
<1> DEFINE T == {k \in Nat : ~\E g : IsTotal(g, b, Small(S, k))}
<1>1. T = {}
  <2> SUFFICES ASSUME T # {} PROVE FALSE
    OBVIOUS
  <2>1. PICK k \in T : \A m \in T : k <= m
    BY LeastNat
  <2>2. k # 0
    <3> DEFINE g == [s \in Small(S, 0) |-> 0]
    <3>1. ASSUME NEW s \in Small(S, 0), s # {} PROVE FALSE
      <4>1. Cardinality(s) \in Nat \ {0} /\ Cardinality(s) <= 0
        BY <3>1, ChosenFacts DEF Small
      <4> QED BY <4>1
    <3>2. IsTotal(g, b, Small(S, 0))
      BY <3>1 DEF IsTotal
    <3> QED BY <2>1, <3>2
  <2>3. k - 1 \in Nat /\ k - 1 \notin T /\ (k - 1) + 1 = k
    BY <2>1, <2>2
  <2>4. PICK g : IsTotal(g, b, Small(S, k - 1))
    BY <2>3
  <2>5. \E h : IsTotal(h, b, Small(S, k))
    BY <2>3, <2>4, TotalExtends
  <2> QED BY <2>1, <2>5
<1>2. Cardinality(S) \in Nat
  BY FS_CardinalityType
<1>3. Small(S, Cardinality(S)) = SUBSET S
  BY FS_Subset DEF Small
<1>4. \E g : IsTotal(g, b, Small(S, Cardinality(S)))
  BY <1>1, <1>2
<1> QED BY <1>3, <1>4

\* Adding d to one entry adds d to the sum.
LEMMA TotalChanges ==
  ASSUME NEW S, IsFiniteSet(S), NEW b \in [S -> Int], NEW c \in [S -> Int],
         NEW x \in S, NEW d \in Int,
         \A u \in S : c[u] = IF u = x THEN b[u] + d ELSE b[u]
  PROVE  Total(b, S) \in Int /\ Total(c, S) = Total(b, S) + d
<1> DEFINE g == CHOOSE g : IsTotal(g, b, SUBSET S)
           h == CHOOSE h : IsTotal(h, c, SUBSET S)
           Right(s) == g[s] \in Int /\ h[s] = g[s] + IF x \in s THEN d ELSE 0
           T == {Cardinality(s) : s \in {s \in SUBSET S : ~Right(s)}}
<1>1. /\ IsTotal(g, b, SUBSET S) /\ IsTotal(h, c, SUBSET S)
      /\ Total(b, S) = g[S] /\ Total(c, S) = h[S]
  BY TotalExists, TotalIs
<1> HIDE DEF g, h
<1>2. T = {}
  <2> SUFFICES ASSUME T # {} PROVE FALSE
    OBVIOUS
  <2>1. T \in SUBSET Nat
    BY FS_Subset, FS_CardinalityType
  <2>2. PICK n \in T : \A m \in T : n <= m
    <3> HIDE DEF T
    <3> QED BY <2>1, LeastNat
  <2>3. PICK s \in SUBSET S : ~Right(s) /\ n = Cardinality(s)
    BY <2>2
  <2>4. g[s] = (IF s = {} THEN 0 ELSE b[Chosen(s)] + g[s \ {Chosen(s)}])
    BY <1>1 DEF IsTotal
  <2>5. h[s] = (IF s = {} THEN 0 ELSE c[Chosen(s)] + h[s \ {Chosen(s)}])
    BY <1>1 DEF IsTotal
  <2>6. s # {}
    BY <2>3, <2>4, <2>5
  <2> DEFINE p == Chosen(s)
             r == s \ {p}
  <2>7. p \in s /\ r \in SUBSET S /\ Cardinality(s) \in Nat /\ Cardinality(r) = Cardinality(s) - 1
    BY <2>6, ChosenFacts
  <2>8. Right(r)
    BY <2>2, <2>3, <2>7
  <2>9. /\ g[s] = b[p] + g[r] /\ h[s] = c[p] + h[r]
        /\ x \in s <=> (x = p \/ x \in r)
        /\ ~(x = p /\ x \in r)
    BY <2>4, <2>5, <2>6, <2>7
  <2>10. b[p] \in Int /\ c[p] = IF p = x THEN b[p] + d ELSE b[p]
    BY <2>7
  <2> HIDE DEF p, r
  <2> QED BY <2>3, <2>8, <2>9, <2>10
<1>3. Right(S)
  BY <1>2
<1> QED BY <1>1, <1>3

\* The sum of natural numbers is one, and of equal numbers their product.
LEMMA TotalNat ==
  ASSUME NEW S, IsFiniteSet(S), NEW b \in [S -> Nat]
  PROVE  Total(b, S) \in Nat
<1> DEFINE g == CHOOSE g : IsTotal(g, b, SUBSET S)
           Right(s) == g[s] \in Nat
           T == {Cardinality(s) : s \in {s \in SUBSET S : ~Right(s)}}
<1>1. IsTotal(g, b, SUBSET S) /\ Total(b, S) = g[S]
  BY TotalExists, TotalIs
<1> HIDE DEF g
<1>2. T = {}
  <2> SUFFICES ASSUME T # {} PROVE FALSE
    OBVIOUS
  <2>1. T \in SUBSET Nat
    BY FS_Subset, FS_CardinalityType
  <2>2. PICK n \in T : \A m \in T : n <= m
    <3> HIDE DEF T
    <3> QED BY <2>1, LeastNat
  <2>3. PICK s \in SUBSET S : ~Right(s) /\ n = Cardinality(s)
    BY <2>2
  <2>4. g[s] = (IF s = {} THEN 0 ELSE b[Chosen(s)] + g[s \ {Chosen(s)}])
    BY <1>1 DEF IsTotal
  <2>5. s # {}
    BY <2>3, <2>4
  <2> DEFINE r == s \ {Chosen(s)}
  <2>6. /\ Chosen(s) \in S /\ r \in SUBSET S
        /\ Cardinality(s) \in Nat /\ Cardinality(r) = Cardinality(s) - 1
    BY <2>5, ChosenFacts
  <2>7. Right(r)
    <3> HIDE DEF r, Right
    <3> QED BY <2>2, <2>3, <2>6
  <2> QED BY <2>3, <2>4, <2>5, <2>6, <2>7
<1>3. Right(S)
  BY <1>2
<1> QED BY <1>1, <1>3

LEMMA TotalConstant ==
  ASSUME NEW S, IsFiniteSet(S), NEW k \in Nat, NEW b, b = [u \in S |-> k]
  PROVE  Total(b, S) = Cardinality(S) * k
<1> DEFINE g == CHOOSE g : IsTotal(g, b, SUBSET S)
           Right(s) == g[s] = Cardinality(s) * k
           T == {Cardinality(s) : s \in {s \in SUBSET S : ~Right(s)}}
<1>1. IsTotal(g, b, SUBSET S) /\ Total(b, S) = g[S]
  BY TotalExists, TotalIs
<1> HIDE DEF g
<1>2. T = {}
  <2> SUFFICES ASSUME T # {} PROVE FALSE
    OBVIOUS
  <2>1. T \in SUBSET Nat
    BY FS_Subset, FS_CardinalityType
  <2>2. PICK n \in T : \A m \in T : n <= m
    <3> HIDE DEF T
    <3> QED BY <2>1, LeastNat
  <2>3. PICK s \in SUBSET S : ~Right(s) /\ n = Cardinality(s)
    BY <2>2
  <2>4. g[s] = (IF s = {} THEN 0 ELSE b[Chosen(s)] + g[s \ {Chosen(s)}])
    BY <1>1 DEF IsTotal
  <2>5. s # {}
    <3> SUFFICES ASSUME s = {} PROVE FALSE
      OBVIOUS
    <3>1. g[s] = 0 /\ Cardinality(s) = 0
      BY <2>4, FS_EmptySet
    <3> QED BY <2>3, <3>1
  <2> DEFINE r == s \ {Chosen(s)}
  <2>6. /\ Chosen(s) \in S /\ r \in SUBSET S
        /\ Cardinality(s) \in Nat /\ Cardinality(r) = Cardinality(s) - 1
    BY <2>5, ChosenFacts
  <2>7. Right(r)
    <3> HIDE DEF r, Right
    <3> QED BY <2>2, <2>3, <2>6
  <2>8. b[Chosen(s)] = k
    BY <2>6
  <2>9. \A c \in Nat : k + (c - 1) * k = c * k
    OBVIOUS
  <2> QED BY <2>3, <2>4, <2>5, <2>6, <2>7, <2>8, <2>9
<1>3. Right(S)
  BY <1>2
<1> QED BY <1>1, <1>3

-----------------------------------------------------------------------------
(* The queue file *)

LEMMA PositionsFinite ==
  ASSUME NEW n \in Nat
  PROVE  IsFiniteSet(1..n)
BY FS_Interval

LEMMA MaxFacts ==
  ASSUME NEW n \in Nat, NEW s \in SUBSET (1..n), s # {}
  PROVE  /\ Max(s) \in s /\ IsFiniteSet(s) /\ s \ {Max(s)} \in SUBSET (1..n)
         /\ Cardinality(s) \in Nat \ {0} /\ Cardinality(s \ {Max(s)}) = Cardinality(s) - 1
<1>1. IsFiniteSet(s)
  BY PositionsFinite, FS_Subset
<1> DEFINE T == {m \in Nat : \A y \in s : y <= m}
<1>2. T \in SUBSET Nat /\ n \in T
  OBVIOUS
<1>3. PICK m \in T : \A k \in T : m <= k
  <2> HIDE DEF T
  <2> QED BY <1>2, LeastNat
<1>4. m \in s
  <2> SUFFICES ASSUME m \notin s PROVE FALSE
    OBVIOUS
  <2>1. m \in Nat /\ \A y \in s : y \in 1..n /\ y <= m /\ y # m
    BY <1>3
  <2>2. m # 0
    <3>1. PICK y \in s : TRUE
      OBVIOUS
    <3> QED BY <2>1, <3>1
  <2>3. m - 1 \in T
    BY <2>1, <2>2
  <2> QED BY <1>3, <2>1, <2>3
<1>5. m \in s /\ \A y \in s : m >= y
  BY <1>3, <1>4
<1>6. Max(s) \in s
  BY <1>5 DEF Max
<1>7. Cardinality(s) \in Nat /\ Cardinality(s) # 0
  BY <1>1, FS_CardinalityType, FS_EmptySet
<1> QED BY <1>1, <1>6, <1>7, FS_RemoveElement

\* The function by which Without is defined, on the sets of positions in D.
IsKept(g, q, x, D) ==
  g = [s \in D |-> IF s = {} THEN <<>>
                   ELSE IF q[Max(s)] \in x THEN g[s \ {Max(s)}]
                   ELSE Append(g[s \ {Max(s)}], q[Max(s)])]

LEMMA WithoutIs ==
  ASSUME NEW q, NEW x
  PROVE  Without(q, x) = (CHOOSE g : IsKept(g, q, x, SUBSET DOMAIN q))[DOMAIN q]
BY DEF Without, FoldLeft, MapThenFoldSet, IsKept

LEMMA KeptExtends ==
  ASSUME NEW q, NEW x, NEW n \in Nat, NEW k \in Nat,
         NEW g, IsKept(g, q, x, Small(1..n, k))
  PROVE  \E h : IsKept(h, q, x, Small(1..n, k + 1))
<1> DEFINE h == [s \in Small(1..n, k + 1) |->
                   IF s = {} THEN <<>>
                   ELSE IF q[Max(s)] \in x THEN g[s \ {Max(s)}]
                   ELSE Append(g[s \ {Max(s)}], q[Max(s)])]
<1>1. ASSUME NEW s \in Small(1..n, k) PROVE s \in Small(1..n, k + 1) /\ h[s] = g[s]
  <2>1. s \in Small(1..n, k + 1)
    <3>1. IsFiniteSet(s)
      BY PositionsFinite, FS_Subset DEF Small
    <3> QED BY <3>1, FS_CardinalityType DEF Small
  <2>2. g[s] = IF s = {} THEN <<>>
               ELSE IF q[Max(s)] \in x THEN g[s \ {Max(s)}]
               ELSE Append(g[s \ {Max(s)}], q[Max(s)])
    BY DEF IsKept
  <2> QED BY <2>1, <2>2
<1>2. ASSUME NEW s \in Small(1..n, k + 1), s # {} PROVE s \ {Max(s)} \in Small(1..n, k)
  BY <1>2, MaxFacts DEF Small
<1>3. \A s \in Small(1..n, k + 1) :
        h[s] = IF s = {} THEN <<>>
               ELSE IF q[Max(s)] \in x THEN h[s \ {Max(s)}]
               ELSE Append(h[s \ {Max(s)}], q[Max(s)])
  BY <1>1, <1>2
<1>4. h = [s \in Small(1..n, k + 1) |-> h[s]]
  OBVIOUS
<1> HIDE DEF h
<1>5. IsKept(h, q, x, Small(1..n, k + 1))
  BY <1>3, <1>4 DEF IsKept
<1> QED BY <1>5

LEMMA KeptExists ==
  ASSUME NEW q, NEW x, NEW n \in Nat
  PROVE  \E g : IsKept(g, q, x, SUBSET (1..n))
<1> DEFINE T == {k \in Nat : ~\E g : IsKept(g, q, x, Small(1..n, k))}
<1>1. T = {}
  <2> SUFFICES ASSUME T # {} PROVE FALSE
    OBVIOUS
  <2>1. PICK k \in T : \A m \in T : k <= m
    BY LeastNat
  <2>2. k # 0
    <3> DEFINE g == [s \in Small(1..n, 0) |-> <<>>]
    <3>1. ASSUME NEW s \in Small(1..n, 0), s # {} PROVE FALSE
      <4>1. Cardinality(s) \in Nat \ {0} /\ Cardinality(s) <= 0
        BY <3>1, MaxFacts DEF Small
      <4> QED BY <4>1
    <3>2. IsKept(g, q, x, Small(1..n, 0))
      BY <3>1 DEF IsKept
    <3> QED BY <2>1, <3>2
  <2>3. k - 1 \in Nat /\ k - 1 \notin T /\ (k - 1) + 1 = k
    BY <2>1, <2>2
  <2>4. PICK g : IsKept(g, q, x, Small(1..n, k - 1))
    BY <2>3
  <2>5. \E h : IsKept(h, q, x, Small(1..n, k))
    BY <2>3, <2>4, KeptExtends
  <2> QED BY <2>1, <2>5
<1>2. IsFiniteSet(1..n) /\ Cardinality(1..n) \in Nat
  BY PositionsFinite, FS_CardinalityType
<1>3. Small(1..n, Cardinality(1..n)) = SUBSET (1..n)
  BY <1>2, FS_Subset DEF Small
<1>4. \E g : IsKept(g, q, x, Small(1..n, Cardinality(1..n)))
  BY <1>1, <1>2
<1> QED BY <1>3, <1>4

LEMMA WithoutTyped ==
  ASSUME NEW S, NEW q \in Seq(S), NEW x
  PROVE  Without(q, x) \in Seq(S)
<1>1. Len(q) \in Nat /\ DOMAIN q = 1..Len(q)
  OBVIOUS
<1> DEFINE n == Len(q)
           g == CHOOSE g : IsKept(g, q, x, SUBSET (1..n))
           Right(s) == g[s] \in Seq(S)
           T == {Cardinality(s) : s \in {s \in SUBSET (1..n) : ~Right(s)}}
<1>2. IsKept(g, q, x, SUBSET (1..n)) /\ Without(q, x) = g[1..n]
  BY <1>1, KeptExists, WithoutIs
<1> HIDE DEF g
<1>3. T = {}
  <2> SUFFICES ASSUME T # {} PROVE FALSE
    OBVIOUS
  <2>1. T \in SUBSET Nat
    BY <1>1, PositionsFinite, FS_Subset, FS_CardinalityType
  <2>2. PICK m \in T : \A k \in T : m <= k
    <3> HIDE DEF T
    <3> QED BY <2>1, LeastNat
  <2>3. PICK s \in SUBSET (1..n) : ~Right(s) /\ m = Cardinality(s)
    BY <2>2
  <2>4. g[s] = IF s = {} THEN <<>>
               ELSE IF q[Max(s)] \in x THEN g[s \ {Max(s)}]
               ELSE Append(g[s \ {Max(s)}], q[Max(s)])
    BY <1>2 DEF IsKept
  <2>5. s # {}
    BY <2>3, <2>4
  <2> DEFINE r == s \ {Max(s)}
  <2>6. /\ Max(s) \in s /\ r \in SUBSET (1..n)
        /\ Cardinality(s) \in Nat /\ Cardinality(r) = Cardinality(s) - 1
    BY <1>1, <2>5, MaxFacts
  <2>7. Right(r)
    <3> HIDE DEF r, Right, n
    <3>1. ~Right(r) => Cardinality(r) \in T
      BY <2>6
    <3>2. m \in Nat /\ ~(m <= Cardinality(r))
      BY <2>3, <2>6
    <3> QED BY <2>2, <3>1, <3>2
  <2>8. q[Max(s)] \in S
    <3>1. Max(s) \in 1..Len(q)
      BY <2>3, <2>6
    <3> QED BY <3>1, ElementOfSeq
  <2> QED BY <2>3, <2>4, <2>5, <2>7, <2>8
<1>4. Right(1..n)
  BY <1>3
<1> QED BY <1>2, <1>4

LEMMA EnqueueTyped ==
  ASSUME NEW S, NEW q \in Seq(S), NEW e \in S
  PROVE  Enqueue(q, e) \in Seq(S)
<1> DEFINE s == Append(Without(q, {Entry(e.name, x) : x \in Txs}), e)
           m == IF Len(s) > QueueLimit THEN Len(s) - QueueLimit + 1 ELSE 1
<1>1. s \in Seq(S) /\ Len(s) \in Nat
  BY WithoutTyped
<1>2. m \in 1..(Len(s) + 1)
  BY <1>1, BridgeAssumption
<1>3. Enqueue(q, e) = SubSeq(s, m, Len(s))
  BY DEF Enqueue
<1> HIDE DEF s, m
<1>4. SubSeq(s, m, Len(s)) \in Seq(S)
  BY <1>1, <1>2, SubSeqProperties
<1> QED BY <1>3, <1>4

-----------------------------------------------------------------------------
(* Type correctness *)

\* What a thread may be doing.
Ops  == {"idle", "lock", "confirm", "incoming", "register"}
Ats  == {"load", "save", "verify", "debit", "write", "claim", "done", "ok", "failed"}
Work == [op : Ops, at : Ats, user : Users \cup {Nobody}, name : Hashes \cup {Nobody},
         tx : Txs \cup {Nobody}, key : Keys \cup {Nobody}, amount : Nat, copy : File]

\* What a request has found out of the locks L and the deep transactions D, and
\* never has to take back.
Fits(r, L, D) ==
  /\ r.at \in {"load", "save"} => r.tx \in Txs
  /\ r.op = "lock" => r.user \in Users /\ r.name \in Hashes /\ r.tx \in Txs
  /\ r.op = "confirm" => r.name \in Hashes /\ L[r.name].status # "none"
  /\ r.op = "incoming" => r.user \in Users /\ r.key \in Keys /\ r.tx = TxOf[r.key]
  /\ r.op = "incoming" /\ r.at = "claim" => r.tx \in D

\* No row of a lock is ever removed.
Grow(L, M) == \A h \in Hashes : L[h].status # "none" => M[h].status # "none"

RowsOK ==
  /\ balance \in [Users -> Nat] /\ burned \in Nat /\ credits \in [Keys -> Nat]
  /\ lock \in [Hashes -> Rows]
  /\ \A h \in Hashes : lock[h].status # "none" => lock[h].user \in Users

RequestsOK == req \in [Threads -> Work] /\ \A t \in Threads : Fits(req[t], lock, deep)

\* The relayer waits for an answer about the entry it is at.
FilesOK ==
  /\ queue \in File /\ rel \in [at : {"rest", "scan", "wait"}, todo : Seq(Entries), keep : File]
  /\ rel.at = "wait" => rel.todo # <<>>

RestOK ==
  /\ deep \subseteq Txs /\ budget \in Nat
  /\ debits \in [Hashes -> Nat] /\ refunds \in [Hashes -> Nat]

Typed == RowsOK /\ RequestsOK /\ FilesOK /\ RestOK /\ replayed \in BOOLEAN

LEMMA IdleTyped ==
  /\ <<>> \in Seq(Entries) /\ Empty \in File /\ Idle \in Work
<1>1. <<>> \in Seq(Entries)
  OBVIOUS
<1>2. Empty \in File
  BY <1>1 DEF File, Empty
<1> QED BY <1>1, <1>2 DEF Idle, Work, Ops, Ats

LEMMA TypedInit == Init => Typed
<1> SUFFICES ASSUME Init PROVE Typed
  OBVIOUS
<1>1. RowsOK
  BY BridgeAssumption DEF Init, RowsOK, Rows, Status
<1>2. RequestsOK
  <2>1. req = [t \in Threads |-> Idle]
    BY DEF Init
  <2>2. Fits(Idle, lock, deep)
    BY DEF Fits, Idle
  <2> QED BY <2>1, <2>2, IdleTyped DEF RequestsOK
<1>3. FilesOK
  BY IdleTyped DEF Init, FilesOK, Resting
<1>4. RestOK
  BY BridgeAssumption DEF Init, RestOK
<1>5. replayed \in BOOLEAN
  BY Zenon DEF Init
<1> QED BY <1>1, <1>2, <1>3, <1>4, <1>5 DEF Typed

\* One thread goes on with its request.
LEMMA MoveTyped ==
  ASSUME NEW r \in Work, NEW a \in Ats
  PROVE  LET w == [r EXCEPT !.at = a]
         IN /\ w \in Work /\ w.at = a
            /\ w.op = r.op /\ w.user = r.user /\ w.name = r.name /\ w.tx = r.tx
            /\ w.key = r.key
BY DEF Work

LEMMA RequestStep ==
  ASSUME RequestsOK, NEW t \in Threads, NEW w \in Work, req' = [req EXCEPT ![t] = w],
         Grow(lock, lock'), deep \subseteq deep', Fits(w, lock', deep')
  PROVE  RequestsOK'
<1>1. req' \in [Threads -> Work]
  BY DEF RequestsOK
<1>2. ASSUME NEW s \in Threads PROVE Fits(req'[s], lock', deep')
  <2>1. CASE s = t
    BY <2>1 DEF RequestsOK
  <2>2. CASE s # t
    <3>1. req'[s] = req[s] /\ Fits(req[s], lock, deep)
      BY <2>2 DEF RequestsOK
    <3> QED BY <3>1 DEF Fits, Grow
  <2> QED BY <2>1, <2>2
<1> QED BY <1>1, <1>2 DEF RequestsOK

\* An answer leaves nothing that could be wrong.
LEMMA AnswerStep ==
  ASSUME RequestsOK, NEW t \in Threads, NEW how \in {"ok", "failed"}, Answer(t, how),
         Grow(lock, lock'), deep \subseteq deep'
  PROVE  RequestsOK'
<1> DEFINE w == IF t = Relayer THEN [Idle EXCEPT !.at = how] ELSE Idle
<1>1. w \in Work
  BY IdleTyped, MoveTyped DEF Ats
<1>2. Fits(w, lock', deep')
  BY DEF Fits, Idle
<1>3. req' = [req EXCEPT ![t] = w]
  BY DEF Answer
<1> HIDE DEF w
<1> QED BY <1>1, <1>2, <1>3, RequestStep

LEMMA GotoStep ==
  ASSUME RequestsOK, NEW t \in Threads, NEW a \in Ats, Goto(t, a),
         Grow(lock, lock'), deep \subseteq deep',
         a \in {"load", "save"} => req[t].tx \in Txs,
         a = "claim" => req[t].tx \in deep
  PROVE  RequestsOK'
<1> DEFINE w == [req[t] EXCEPT !.at = a]
<1>1. req[t] \in Work /\ Fits(req[t], lock, deep)
  BY DEF RequestsOK
<1>2. /\ w \in Work /\ w.at = a /\ w.op = req[t].op /\ w.user = req[t].user
      /\ w.name = req[t].name /\ w.tx = req[t].tx /\ w.key = req[t].key
  BY <1>1, MoveTyped
<1>3. req' = [req EXCEPT ![t] = w]
  BY DEF Goto, RequestsOK
<1> HIDE DEF w
<1>4. Fits(w, lock', deep')
  BY <1>1, <1>2 DEF Fits, Grow
<1> QED BY <1>2, <1>3, <1>4, RequestStep


\* What each step may do to the account and lock rows.
LEMMA DebitRows ==
  ASSUME Typed, NEW t \in Threads, DebitLock(t)
  PROVE  RowsOK' /\ Grow(lock, lock')
<1> DEFINE u == req[t].user
           h == req[t].name
<1>1. u \in Users /\ h \in Hashes
  BY DEF DebitLock, At, Typed, RequestsOK, Fits
<1>2. CASE CanPay(u)
  <2>0. PICK now \in Times :
          lock' = [lock EXCEPT ![h] = [status |-> "pending", user |-> u, made |-> now]]
    BY <1>2 DEF DebitLock
  <2>1. /\ balance' = [balance EXCEPT ![u] = @ - Amount] /\ burned' = burned + Burn
        /\ lock' = [lock EXCEPT ![h] = [status |-> "pending", user |-> u, made |-> now]]
        /\ credits' = credits /\ balance[u] >= Amount /\ now \in Nat
    BY <1>2, <2>0, BridgeAssumption DEF DebitLock, CanPay
  <2> HIDE DEF u, h
  <2>2. balance' \in [Users -> Nat] /\ burned' \in Nat
    <3>1. balance[u] \in Nat /\ balance[u] - Amount \in Nat /\ burned \in Nat /\ Burn \in Nat
      BY <1>1, <2>1, BridgeAssumption DEF Typed, RowsOK
    <3> QED BY <1>1, <2>1, <3>1 DEF Typed, RowsOK
  <2>3. lock' \in [Hashes -> Rows]
    BY <1>1, <2>1 DEF Typed, RowsOK, Rows, Status
  <2>4. \A k \in Hashes :
          lock'[k] = IF k = h THEN [status |-> "pending", user |-> u, made |-> now] ELSE lock[k]
    BY <1>1, <2>1 DEF Typed, RowsOK
  <2> QED BY <1>1, <2>1, <2>2, <2>3, <2>4 DEF Typed, RowsOK, Grow
<1>3. CASE ~CanPay(u)
  BY <1>3 DEF DebitLock, Typed, RowsOK, Grow
<1> QED BY <1>2, <1>3

LEMMA ConfirmRows ==
  ASSUME Typed, NEW t \in Threads, WriteConfirm(t)
  PROVE  RowsOK' /\ Grow(lock, lock')
<1> DEFINE h == req[t].name
<1>1. h \in Hashes /\ lock[h].status # "none"
  BY DEF WriteConfirm, At, Typed, RequestsOK, Fits
<1>2. /\ lock' = [lock EXCEPT ![h].status = "confirmed"]
      /\ UNCHANGED <<balance, burned, credits>>
  BY DEF WriteConfirm
<1> HIDE DEF h
<1>3. lock[h] \in Rows /\ lock[h].user \in Users
  BY <1>1 DEF Typed, RowsOK
<1> DEFINE row == [status |-> "confirmed", user |-> lock[h].user, made |-> lock[h].made]
<1>4. [lock[h] EXCEPT !.status = "confirmed"] = row /\ row \in Rows
  BY <1>3 DEF Rows, Status
<1>5. lock' = [lock EXCEPT ![h] = row]
  BY <1>1, <1>2, <1>4 DEF Typed, RowsOK
<1>6. \A k \in Hashes : lock'[k] = IF k = h THEN row ELSE lock[k]
  BY <1>1, <1>5 DEF Typed, RowsOK
<1>7. lock' \in [Hashes -> Rows]
  BY <1>1, <1>4, <1>5 DEF Typed, RowsOK
<1> QED BY <1>2, <1>3, <1>6, <1>7 DEF Typed, RowsOK, Grow

LEMMA ClaimRows ==
  ASSUME Typed, NEW t \in Threads, Claim(t)
  PROVE  RowsOK' /\ Grow(lock, lock')
<1> DEFINE r == req[t]
<1>1. r.user \in Users /\ r.key \in Keys /\ r.amount \in Nat
  BY DEF Claim, At, Typed, RequestsOK, Fits, Work
<1>2. CASE Claimed(r.key)
  BY <1>2 DEF Claim, Typed, RowsOK, Grow
<1>3. CASE ~Claimed(r.key)
  <2>1. /\ credits' = [credits EXCEPT ![r.key] = r.amount] /\ burned' = burned
        /\ balance' = [balance EXCEPT ![r.user] = @ + r.amount]
        /\ lock' = [h \in Hashes |-> IF h = r.name /\ lock[h].status # "none"
                      THEN [lock[h] EXCEPT !.status = "confirmed"] ELSE lock[h]]
    BY <1>3 DEF Claim
  <2> HIDE DEF r
  <2>2. balance' \in [Users -> Nat] /\ credits' \in [Keys -> Nat]
    <3>1. balance[r.user] + r.amount \in Nat
      BY <1>1 DEF Typed, RowsOK
    <3> QED BY <1>1, <2>1, <3>1 DEF Typed, RowsOK
  <2>3. ASSUME NEW h \in Hashes
        PROVE  /\ lock'[h] \in Rows
               /\ lock'[h].status # "none" => lock'[h].user \in Users
               /\ lock[h].status # "none" => lock'[h].status # "none"
    <3>1. lock[h] \in Rows
      BY DEF Typed, RowsOK
    <3>2. lock'[h] = IF h = r.name /\ lock[h].status # "none"
                     THEN [status |-> "confirmed", user |-> lock[h].user, made |-> lock[h].made]
                     ELSE lock[h]
      BY <2>1, <3>1 DEF Rows
    <3> QED BY <3>1, <3>2 DEF Typed, RowsOK, Rows, Status
  <2>4. lock' = [h \in Hashes |-> lock'[h]]
    BY <2>1
  <2>5. lock' \in [Hashes -> Rows]
    BY <2>3, <2>4
  <2> QED BY <1>1, <2>1, <2>2, <2>3, <2>5 DEF Typed, RowsOK, Grow
<1> QED BY <1>2, <1>3

LEMMA RefundRows ==
  ASSUME Typed, NEW h \in Hashes, Refund(h)
  PROVE  RowsOK' /\ Grow(lock, lock')
<1>1. /\ lock[h].status = "pending" /\ UNCHANGED <<burned, credits>>
      /\ balance' = [balance EXCEPT ![lock[h].user] = @ + Net]
      /\ lock' = [lock EXCEPT ![h].status = "refunded"]
  BY DEF Refund, Refundable
<1>2. lock[h] \in Rows /\ lock[h].user \in Users
  BY <1>1 DEF Typed, RowsOK
<1> DEFINE row == [status |-> "refunded", user |-> lock[h].user, made |-> lock[h].made]
<1>3. balance' \in [Users -> Nat]
  <2>1. balance[lock[h].user] + Net \in Nat
    BY <1>2, BridgeAssumption DEF Typed, RowsOK, Net
  <2> QED BY <1>1, <1>2, <2>1 DEF Typed, RowsOK
<1>4. [lock[h] EXCEPT !.status = "refunded"] = row /\ row \in Rows
  BY <1>2 DEF Rows, Status
<1>5. lock' = [lock EXCEPT ![h] = row]
  BY <1>1, <1>4 DEF Typed, RowsOK
<1>6. \A k \in Hashes : lock'[k] = IF k = h THEN row ELSE lock[k]
  BY <1>5 DEF Typed, RowsOK
<1>7. lock' \in [Hashes -> Rows]
  BY <1>4, <1>5 DEF Typed, RowsOK
<1> QED BY <1>1, <1>2, <1>3, <1>6, <1>7 DEF Typed, RowsOK, Grow

\* The steps that leave the rows and the history as they are.
Quiet(t) ==
  \/ Request(t) \/ Fails(t) \/ VerifyLock(t) \/ VerifyConfirm(t) \/ VerifyIncoming(t)
  \/ LoadQueue(t) \/ SaveQueue(t)

LEMMA QuietRows ==
  ASSUME NEW t \in Threads, Quiet(t)
  PROVE  UNCHANGED <<rows, history, deep, rel>>
BY DEF Quiet, Request, Fails, VerifyLock, VerifyConfirm, VerifyIncoming, LoadQueue, SaveQueue,
       BeginLock, BeginConfirm, BeginIncoming, Register, rows, history

LEMMA RowsNext ==
  ASSUME Typed, Next
  PROVE  RowsOK' /\ Grow(lock, lock') /\ deep \subseteq deep'
<1>1. ASSUME UNCHANGED <<balance, burned, lock, credits>> PROVE RowsOK' /\ Grow(lock, lock')
  BY <1>1 DEF Typed, RowsOK, Grow
<1>2. ASSUME NEW t \in Threads, Quiet(t) PROVE UNCHANGED <<balance, burned, lock, credits>>
  BY <1>2, QuietRows DEF rows
<1>3. ASSUME Relay \/ Crash \/ \E x \in Txs : L1Confirms(x)
      PROVE  UNCHANGED <<balance, burned, lock, credits>>
  BY <1>3 DEF Relay, Fetch, KeepEntry, Post, Receive, GiveUp, Persist, Crash, L1Confirms, rows
<1>4. ASSUME Replay PROVE RowsOK' /\ Grow(lock, lock')
  BY <1>4, BridgeAssumption DEF Replay, Typed, RowsOK, Grow
<1>5. RowsOK' /\ Grow(lock, lock')
  BY <1>1, <1>2, <1>3, <1>4, DebitRows, ConfirmRows, ClaimRows, RefundRows
     DEF Next, Serve, Quiet
<1>6. deep \subseteq deep'
  <2>1. ASSUME NEW t \in Threads, Quiet(t) PROVE deep' = deep
    BY <2>1, QuietRows
  <2>2. ASSUME NEW t \in Threads, DebitLock(t) \/ WriteConfirm(t) \/ Claim(t) PROVE deep' = deep
    BY <2>2 DEF DebitLock, WriteConfirm, Claim
  <2>3. ASSUME Relay \/ Crash \/ Replay \/ \E h \in Hashes : Refund(h) PROVE deep' = deep
    BY <2>3 DEF Relay, Fetch, KeepEntry, Post, Receive, GiveUp, Persist, Crash, Replay, Refund
  <2> QED BY <2>1, <2>2, <2>3 DEF Next, Serve, Quiet, L1Confirms
<1> QED BY <1>5, <1>6


\* Every request starts with what it needs.
LEMMA BeginStep ==
  ASSUME Typed, Grow(lock, lock'), deep \subseteq deep', NEW t \in Threads, Request(t)
  PROVE  RequestsOK'
<1>0. RequestsOK
  BY DEF Typed
<1>1. ASSUME NEW u \in Users, NEW h \in Hashes, BeginLock(t, u, h) PROVE RequestsOK'
  <2> DEFINE w == [Idle EXCEPT !.op = "lock", !.at = "verify", !.user = u,
                          !.name = h, !.tx = h]
  <2>1. req' = [req EXCEPT ![t] = w]
    BY <1>1 DEF BeginLock
  <2>2. w \in Work /\ Fits(w, lock', deep')
    BY IdleTyped, BridgeAssumption DEF Idle, Work, Ops, Ats, Fits
  <2> HIDE DEF w
  <2> QED BY <1>0, <2>1, <2>2, RequestStep
<1>2. ASSUME NEW h \in Hashes, NEW x \in Txs, BeginConfirm(t, h, x) PROVE RequestsOK'
  <2> DEFINE w == [Idle EXCEPT !.op = "confirm", !.at = "verify", !.name = h, !.tx = x]
  <2>1. req' = [req EXCEPT ![t] = w] /\ lock[h].status = "pending"
    BY <1>2 DEF BeginConfirm, AskConfirm, ConfirmAllowed
  <2>2. w \in Work /\ Fits(w, lock', deep')
    BY <2>1, IdleTyped DEF Idle, Work, Ops, Ats, Fits, Grow
  <2> HIDE DEF w
  <2> QED BY <1>0, <2>1, <2>2, RequestStep
<1>3. ASSUME NEW k \in Keys, NEW u \in Users, NEW n \in Credits, NEW h \in Hashes \cup {Nobody},
             BeginIncoming(t, k, u, n, h)
      PROVE  RequestsOK'
  <2> DEFINE w == [Idle EXCEPT !.op = "incoming", !.at = "load", !.user = u, !.name = h,
                          !.tx = TxOf[k], !.key = k, !.amount = n]
  <2>1. req' = [req EXCEPT ![t] = w]
    BY <1>3 DEF BeginIncoming
  <2>2. w \in Work /\ Fits(w, lock', deep')
    BY IdleTyped, BridgeAssumption DEF Idle, Work, Ops, Ats, Fits
  <2> HIDE DEF w
  <2> QED BY <1>0, <2>1, <2>2, RequestStep
<1>4. ASSUME NEW h \in Hashes \cup {Nobody}, NEW x \in Txs, Register(t, h, x) PROVE RequestsOK'
  <2> DEFINE w == [Idle EXCEPT !.op = "register", !.at = "load", !.name = h, !.tx = x]
  <2>1. req' = [req EXCEPT ![t] = w]
    BY <1>4 DEF Register
  <2>2. w \in Work /\ Fits(w, lock', deep')
    BY IdleTyped DEF Idle, Work, Ops, Ats, Fits
  <2> HIDE DEF w
  <2> QED BY <1>0, <2>1, <2>2, RequestStep
<1> QED BY <1>1, <1>2, <1>3, <1>4 DEF Request

LEMMA ServeStep ==
  ASSUME Typed, Grow(lock, lock'), deep \subseteq deep', NEW t \in Threads, Serve(t) \/ Fails(t)
  PROVE  RequestsOK'
<1>0. RequestsOK /\ req[t] \in Work /\ Fits(req[t], lock, deep)
  BY DEF Typed, RequestsOK
<1>1. CASE VerifyLock(t)
  BY <1>0, <1>1, GotoStep DEF VerifyLock, Verified, Ats
<1>2. CASE DebitLock(t)
  <2>1. req[t].tx \in Txs
    BY <1>0, <1>2 DEF DebitLock, At, Fits
  <2> QED BY <1>0, <1>2, <2>1, GotoStep, AnswerStep DEF DebitLock, Ats
<1>3. CASE VerifyConfirm(t)
  BY <1>0, <1>3, GotoStep DEF VerifyConfirm, Verified, Ats
<1>4. CASE WriteConfirm(t)
  BY <1>0, <1>4, AnswerStep DEF WriteConfirm
<1>5. CASE VerifyIncoming(t)
  BY <1>0, <1>5, GotoStep DEF VerifyIncoming, Verified, Ats
<1>6. CASE Claim(t)
  BY <1>0, <1>6, AnswerStep DEF Claim
<1>7. CASE LoadQueue(t)
  <2> DEFINE w == [req[t] EXCEPT !.at = "save", !.copy = queue]
  <2>1. req[t].tx \in Txs /\ queue \in File
    BY <1>0, <1>7 DEF LoadQueue, Fits, Typed, FilesOK
  <2>2. /\ w \in Work /\ w.at = "save" /\ w.op = req[t].op
        /\ w.user = req[t].user /\ w.name = req[t].name /\ w.tx = req[t].tx
        /\ w.key = req[t].key
    BY <1>0, <2>1 DEF Work, Ats
  <2>3. req' = [req EXCEPT ![t] = w]
    BY <1>0, <1>7 DEF LoadQueue, RequestsOK
  <2> HIDE DEF w
  <2>4. Fits(w, lock', deep')
    BY <1>0, <2>1, <2>2 DEF Fits, Grow
  <2> QED BY <1>0, <2>2, <2>3, <2>4, RequestStep
<1>8. CASE SaveQueue(t)
  BY <1>0, <1>8, GotoStep, AnswerStep DEF SaveQueue, Ats
<1>9. CASE Fails(t)
  BY <1>0, <1>9, AnswerStep DEF Fails, NotVerified
<1> QED BY <1>1, <1>2, <1>3, <1>4, <1>5, <1>6, <1>7, <1>8, <1>9 DEF Serve

LEMMA RequestsNext ==
  ASSUME Typed, Next, Grow(lock, lock'), deep \subseteq deep'
  PROVE  RequestsOK'
<1>0. RequestsOK
  BY DEF Typed
<1>1. ASSUME req' = req PROVE RequestsOK'
  BY <1>0, <1>1 DEF RequestsOK, Fits, Grow
<1>2. ASSUME Post PROVE RequestsOK'
  <2> DEFINE h == Head(rel.todo).name
  <2>1. rel.todo \in Seq(Entries) /\ rel.todo # <<>>
    BY <1>2 DEF Post, Scanning, Typed, FilesOK
  <2>2. h \in Hashes
    <3>1. Head(rel.todo) \in Entries
      BY <2>1
    <3> QED BY <3>1 DEF Entries
  <2>3. lock[h].status = "pending" /\ \E x \in Txs : AskConfirm(Relayer, h, x)
    BY <1>2 DEF Post, ConfirmAllowed, Proofs
  <2> HIDE DEF h
  <2>5. PICK x \in Txs : AskConfirm(Relayer, h, x)
    BY <2>3
  <2> DEFINE w == [Idle EXCEPT !.op = "confirm", !.at = "verify", !.name = h, !.tx = x]
  <2>6. req' = [req EXCEPT ![Relayer] = w]
    BY <2>5 DEF AskConfirm
  <2>4. w \in Work /\ Fits(w, lock', deep')
    BY <2>2, <2>3, IdleTyped DEF Idle, Work, Ops, Ats, Fits, Grow
  <2> HIDE DEF w
  <2> QED BY <1>0, <2>4, <2>6, RequestStep, BridgeAssumption
<1>3. ASSUME Fetch \/ KeepEntry \/ Receive \/ GiveUp \/ Persist \/ Replay PROVE req' = req
  BY <1>3 DEF Fetch, KeepEntry, Receive, GiveUp, Persist, Replay
<1>4. ASSUME NEW x \in Txs, L1Confirms(x) PROVE req' = req
  BY <1>4 DEF L1Confirms
<1>5. ASSUME NEW h \in Hashes, Refund(h) PROVE req' = req
  BY <1>5 DEF Refund
<1>6. ASSUME Crash PROVE RequestsOK'
  <2>1. req' = [t \in Threads |-> Idle]
    BY <1>6 DEF Crash
  <2>2. Fits(Idle, lock', deep')
    BY DEF Fits, Idle
  <2> QED BY <2>1, <2>2, IdleTyped DEF RequestsOK
<1> QED BY <1>1, <1>2, <1>3, <1>4, <1>5, <1>6, BeginStep, ServeStep DEF Next, Relay

\* The entries that the relayer keeps are entries it was given.
LEMMA KeepTyped ==
  ASSUME FilesOK, rel.todo # <<>>
  PROVE  /\ KeepItem \in [at : {"rest", "scan", "wait"}, todo : Seq(Entries), keep : File]
         /\ KeepItem.at = "scan"
<1> DEFINE o == Append(rel.keep.out, Head(rel.todo))
           k == [rel.keep EXCEPT !.out = o]
           todo == Tail(rel.todo)
<1>1. KeepItem = [rel EXCEPT !.at = "scan", !.todo = todo, !.keep = k]
  BY DEF KeepItem, FilesOK
<1>2. rel.todo \in Seq(Entries) /\ rel.keep \in File
  BY DEF FilesOK
<1>5. rel.keep.out \in Seq(Entries)
  BY <1>2 DEF File
<1>6. todo \in Seq(Entries) /\ Head(rel.todo) \in Entries
  BY <1>2
<1>3. todo \in Seq(Entries) /\ o \in Seq(Entries)
  BY <1>5, <1>6
<1> HIDE DEF o, todo
<1>4. k \in File
  BY <1>2, <1>3 DEF File
<1> HIDE DEF k
<1> QED BY <1>1, <1>3, <1>4 DEF FilesOK

LEMMA FilesNext ==
  ASSUME Typed, Next
  PROVE  FilesOK'
<1>0. FilesOK
  BY DEF Typed
<1>1. ASSUME queue' = queue, rel' = rel PROVE FilesOK'
  BY <1>0, <1>1 DEF FilesOK
<1>2. ASSUME NEW t \in Threads, SaveQueue(t) PROVE FilesOK'
  <2> DEFINE r == req[t]
             c == r.copy
             e == Entry(r.name, r.tx)
  <2>1. c \in File /\ (Outbound(r) => e \in Entries)
    BY <1>2 DEF SaveQueue, Typed, RequestsOK, Work, Fits, Outbound, Entry, Entries
  <2>2. queue' = (IF Outbound(r) THEN [c EXCEPT !.out = Enqueue(@, e)]
                  ELSE [c EXCEPT !.in = "some"]) /\ rel' = rel
    BY <1>2 DEF SaveQueue
  <2> HIDE DEF c, e, r
  <2>3. c.out \in Seq(Entries) /\ c = [out |-> c.out, in |-> c.in]
    BY <2>1 DEF File
  <2>4. Outbound(r) => Enqueue(c.out, e) \in Seq(Entries)
    BY <2>1, <2>3, EnqueueTyped
  <2>5. queue' \in File
    BY <2>1, <2>2, <2>4 DEF File
  <2> QED BY <1>0, <2>2, <2>5 DEF FilesOK
<1>3. ASSUME NEW t \in Threads, Request(t) \/ Fails(t) \/ (Serve(t) /\ ~SaveQueue(t))
      PROVE  queue' = queue /\ rel' = rel
  BY <1>3 DEF Request, Fails, Serve, BeginLock, BeginConfirm, BeginIncoming, Register, VerifyLock,
     DebitLock, VerifyConfirm, WriteConfirm, VerifyIncoming, Claim, LoadQueue
<1>4. ASSUME Crash \/ Replay \/ (\E h \in Hashes : Refund(h))
               \/ (\E x \in Txs : L1Confirms(x))
      PROVE  queue' = queue /\ rel' = rel
  BY <1>4 DEF Crash, Replay, Refund, L1Confirms
<1>5. CASE Fetch
  <2>1. /\ queue' = queue
        /\ rel' = [at |-> "scan", todo |-> queue.out, keep |-> [queue EXCEPT !.out = <<>>]]
    BY <1>5 DEF Fetch
  <2>2. queue \in File /\ queue.out \in Seq(Entries)
    BY <1>0 DEF FilesOK, File
  <2> QED BY <1>0, <2>1, <2>2, IdleTyped DEF FilesOK, File
<1>6. CASE KeepEntry
  BY <1>0, <1>6, KeepTyped DEF KeepEntry, Scanning, FilesOK
<1>7. CASE Post
  <2>1. rel' = [rel EXCEPT !.at = "wait"] /\ rel.todo # <<>> /\ queue' = queue
    BY <1>7 DEF Post, Scanning
  <2> QED BY <1>0, <2>1 DEF FilesOK
<1>8. CASE Receive
  <2>1. rel.todo # <<>> /\ queue' = queue /\ rel' = Answered
    BY <1>0, <1>8 DEF Receive, FilesOK
  <2>2. CASE req[Relayer].at = "ok"
    <3>1. rel' = [rel EXCEPT !.at = "scan", !.todo = Tail(rel.todo)]
      BY <2>1, <2>2 DEF Answered
    <3>2. Tail(rel.todo) \in Seq(Entries)
      BY <1>0, <2>1 DEF FilesOK
    <3> QED BY <1>0, <2>1, <3>1, <3>2 DEF FilesOK
  <2>3. CASE req[Relayer].at # "ok"
    BY <1>0, <2>1, <2>3, KeepTyped DEF Answered, FilesOK
  <2> QED BY <2>2, <2>3
<1>9. CASE GiveUp
  BY <1>0, <1>9, IdleTyped DEF GiveUp, Resting, FilesOK
<1>10. CASE Persist
  <2>1. PICK in \in {"none", rel.keep.in} : queue' = [rel.keep EXCEPT !.in = in]
    BY <1>10 DEF Persist
  <2>2. rel' = Resting
    BY <1>10 DEF Persist
  <2>3. rel.keep \in File
    BY <1>0 DEF FilesOK
  <2>4. queue' \in File
    BY <2>1, <2>3 DEF File
  <2> QED BY <2>2, <2>4, IdleTyped DEF Resting, FilesOK
<1> QED BY <1>1, <1>2, <1>3, <1>4, <1>5, <1>6, <1>7, <1>8, <1>9, <1>10 DEF Next, Relay

LEMMA RestNext ==
  ASSUME Typed, Next
  PROVE  RestOK'
<1>1. budget' \in Nat
  <2>1. budget' = budget \/ Spend
    BY DEF Next, Request, Fails, Serve, BeginLock, BeginConfirm, BeginIncoming, Register,
       VerifyLock, DebitLock, VerifyConfirm, WriteConfirm, VerifyIncoming, Claim, LoadQueue,
       SaveQueue, Refund, L1Confirms, Relay, Fetch, KeepEntry, Post, Receive, GiveUp, Persist,
       Crash, Replay
  <2> QED BY <2>1 DEF Spend, Typed, RestOK
<1>2. deep' \subseteq Txs
  <2>1. ASSUME NEW x \in Txs, L1Confirms(x) PROVE deep' \subseteq Txs
    BY <2>1 DEF L1Confirms, Typed, RestOK
  <2>2. deep' = deep \/ \E x \in Txs : L1Confirms(x)
    BY ZenonT(60) DEF Next, Request, Fails, Serve, BeginLock, BeginConfirm, BeginIncoming, Register,
       VerifyLock, DebitLock, VerifyConfirm, WriteConfirm, VerifyIncoming, Claim, LoadQueue,
       SaveQueue, Refund, Relay, Fetch, KeepEntry, Post, Receive, GiveUp, Persist, Crash, Replay
  <2> QED BY <2>1, <2>2 DEF Typed, RestOK
<1>3. debits' \in [Hashes -> Nat] /\ refunds' \in [Hashes -> Nat]
  <2>1. UNCHANGED <<debits, refunds>>
          \/ (\E t \in Threads : DebitLock(t)) \/ (\E h \in Hashes : Refund(h))
    BY ZenonT(60) DEF Next, Request, Fails, Serve, BeginLock, BeginConfirm, BeginIncoming, Register,
       VerifyLock, VerifyConfirm, WriteConfirm, VerifyIncoming, Claim, LoadQueue,
       SaveQueue, L1Confirms, Relay, Fetch, KeepEntry, Post, Receive, GiveUp, Persist,
       Crash, Replay, history
  <2>2. ASSUME NEW t \in Threads, DebitLock(t)
        PROVE  debits' \in [Hashes -> Nat] /\ refunds' = refunds
    BY <2>2 DEF DebitLock, Typed, RestOK
  <2>3. ASSUME NEW h \in Hashes, Refund(h)
        PROVE  refunds' \in [Hashes -> Nat] /\ debits' = debits
    BY <2>3 DEF Refund, Typed, RestOK
  <2> QED BY <2>1, <2>2, <2>3 DEF Typed, RestOK
<1> QED BY <1>1, <1>2, <1>3 DEF RestOK

\* Only a replay writes replayed.
LEMMA ReplayedNext ==
  ASSUME Next
  PROVE  replayed' = replayed \/ Replay
BY DEF Next, Request, Fails, Serve, BeginLock, BeginConfirm, BeginIncoming, Register,
   VerifyLock, DebitLock, VerifyConfirm, WriteConfirm, VerifyIncoming, Claim, LoadQueue,
   SaveQueue, Refund, L1Confirms, Relay, Fetch, KeepEntry, Post, Receive, GiveUp, Persist,
   Crash, history

LEMMA TypedNext == Typed /\ [Next]_vars => Typed'
<1> SUFFICES ASSUME Typed, [Next]_vars PROVE Typed'
  OBVIOUS
<1>1. CASE Next
  <2>1. RowsOK' /\ RequestsOK' /\ FilesOK' /\ RestOK'
    BY <1>1, RowsNext, RequestsNext, FilesNext, RestNext
  <2>2. replayed \in BOOLEAN
    BY Zenon DEF Typed
  <2>3. ASSUME Replay PROVE replayed' \in BOOLEAN
    BY <2>3, Zenon DEF Replay
  <2>4. replayed' \in BOOLEAN
    BY <1>1, <2>2, <2>3, ReplayedNext, Zenon
  <2> QED BY <2>1, <2>4 DEF Typed
<1>2. CASE UNCHANGED vars
  <2>1. UNCHANGED <<balance, burned, lock, credits, queue, deep, req, rel, debits, refunds, budget>>
    BY <1>2 DEF vars, rows, history
  <2>2. replayed' \in BOOLEAN
    <3>1. replayed' = replayed
      BY <1>2 DEF vars, history
    <3> QED BY <3>1, Zenon DEF Typed
  <2>3. RowsOK' /\ RequestsOK' /\ FilesOK' /\ RestOK'
    BY <2>1 DEF Typed, RowsOK, RequestsOK, FilesOK, RestOK
  <2> QED BY <2>2, <2>3 DEF Typed
<1> QED BY <1>1, <1>2

LEMMA TypedMeans == Typed => TypeOK
<1> SUFFICES ASSUME Typed PROVE TypeOK
  OBVIOUS
<1>1. replayed \in BOOLEAN
  BY Zenon DEF Typed
<1> QED BY <1>1 DEF Typed, RowsOK, RequestsOK, FilesOK, RestOK, Work, Ops, Ats, TypeOK

\* Every row, request, queue entry and relayer round stays what it is meant to be:
\* no balance goes below zero, a lock that exists has an owner to pay back, and the
\* outbound queue holds only locks (abs_bridge.py:276-466, relayer.py:188-229).
THEOREM TypeCorrect == Spec => []TypeOK
<1> QED BY TypedInit, TypedNext, TypedMeans, PTL DEF Spec


-----------------------------------------------------------------------------
(* Conservation *)

\* The accounts, the burned fees and what the locks hold together are the first
\* balances and the credit rows.
Books ==
  Total(balance, Users) + burned + Total(Held, Hashes)
    = Cardinality(Users) * Stake + Total(credits, Keys)

\* A credit names a transaction that L1 has confirmed.
Proved == \A k \in Keys : credits[k] # 0 => TxOf[k] \in deep

Paid == Proved /\ (~replayed => Books)

\* What a lock takes for good, and what a refund gives back.
Taken == Amount - Burn

LEMMA Products ==
  /\ Net \in Nat /\ Taken \in Nat /\ Amount \in Nat /\ Burn \in Nat /\ Stake \in Nat
  /\ \A m, n \in Nat :
       /\ Taken * m - Net * n \in Int
       /\ Taken * (m + 1) - Net * n = (Taken * m - Net * n) + Taken
       /\ Taken * m - Net * (n + 1) = (Taken * m - Net * n) - Net
  /\ Taken * 0 - Net * 0 = 0
  /\ \A n \in Nat : n * Stake \in Nat
<1>1. /\ Net \in Nat /\ Taken \in Nat /\ Amount \in Nat /\ Burn \in Nat /\ Stake \in Nat
  BY BridgeAssumption DEF Net, Taken
<1>2. \A m \in Nat : /\ Taken * m \in Int /\ Taken * (m + 1) = Taken * m + Taken
                     /\ Net * m \in Int /\ Net * (m + 1) = Net * m + Net
  BY <1>1
<1>3. \A n \in Nat : n * Stake \in Nat
  BY <1>1
<1>4. Taken * 0 - Net * 0 = 0
  BY <1>1
<1>5. \A m, n \in Nat :
        /\ Taken * m - Net * n \in Int
        /\ Taken * (m + 1) - Net * n = (Taken * m - Net * n) + Taken
        /\ Taken * m - Net * (n + 1) = (Taken * m - Net * n) - Net
  <2> SUFFICES ASSUME NEW m \in Nat, NEW n \in Nat
      PROVE  /\ Taken * m - Net * n \in Int
             /\ Taken * (m + 1) - Net * n = (Taken * m - Net * n) + Taken
             /\ Taken * m - Net * (n + 1) = (Taken * m - Net * n) - Net
    OBVIOUS
  <2> DEFINE a == Taken * m
             b == Net * n
             c == Taken * (m + 1)
             e == Net * (n + 1)
  <2>1. /\ a \in Int /\ c = a + Taken
        /\ b \in Int /\ e = b + Net
    BY <1>2
  <2> HIDE DEF a, b, c, e
  <2>2. a - b \in Int /\ c - b = (a - b) + Taken /\ a - e = (a - b) - Net
    BY <1>1, <2>1
  <2> QED BY <2>2 DEF a, b, c, e
<1> QED BY <1>1, <1>3, <1>4, <1>5

LEMMA HeldIs ==
  ASSUME RestOK
  PROVE  /\ Held \in [Hashes -> Int]
         /\ \A h \in Hashes : Held[h] = Taken * debits[h] - Net * refunds[h]
<1>1. \A h \in Hashes : debits[h] \in Nat /\ refunds[h] \in Nat
  BY DEF RestOK
<1>2. Held = [h \in Hashes |-> Taken * debits[h] - Net * refunds[h]]
  BY DEF Held, Taken
<1>3. \A h \in Hashes : Taken * debits[h] - Net * refunds[h] \in Int
  BY <1>1, Products
<1> QED BY <1>2, <1>3

LEMMA HeldNext ==
  ASSUME RestOK'
  PROVE  /\ Held' \in [Hashes -> Int]
         /\ \A h \in Hashes : Held'[h] = Taken * debits'[h] - Net * refunds'[h]
<1>1. \A h \in Hashes : debits'[h] \in Nat /\ refunds'[h] \in Nat
  BY DEF RestOK
<1>2. Held' = [h \in Hashes |-> Taken * debits'[h] - Net * refunds'[h]]
  BY DEF Held, Taken
<1>3. \A h \in Hashes : Taken * debits'[h] - Net * refunds'[h] \in Int
  BY <1>1, Products
<1> QED BY <1>2, <1>3

\* What all entries have together is a number.
LEMMA TotalInt ==
  ASSUME NEW S, IsFiniteSet(S), NEW b \in [S -> Int]
  PROVE  Total(b, S) \in Int
<1>1. CASE S = {}
  <2>1. b \in [S -> Nat]
    BY <1>1
  <2>2. Total(b, S) \in Nat
    BY <2>1, TotalNat
  <2> QED BY <2>2
<1>2. CASE S # {}
  <2>1. PICK x \in S : TRUE
    BY <1>2
  <2>2. \A y \in S : b[y] = IF y = x THEN b[y] + 0 ELSE b[y]
    OBVIOUS
  <2> QED BY <2>1, <2>2, TotalChanges
<1> QED BY <1>1, <1>2

LEMMA Counts ==
  ASSUME RowsOK, RestOK
  PROVE  /\ Total(balance, Users) \in Int /\ Total(Held, Hashes) \in Int
         /\ Total(credits, Keys) \in Int /\ Cardinality(Users) * Stake \in Nat /\ burned \in Nat
<1>1. IsFiniteSet(Users) /\ IsFiniteSet(Hashes) /\ IsFiniteSet(Keys)
  BY BridgeAssumption
<1>2. balance \in [Users -> Int] /\ credits \in [Keys -> Int] /\ burned \in Nat
  BY DEF RowsOK
<1>3. Held \in [Hashes -> Int]
  BY HeldIs
<1>4. Total(balance, Users) \in Int /\ Total(credits, Keys) \in Int
  BY <1>1, <1>2, TotalInt
<1>5. Total(Held, Hashes) \in Int
  BY <1>1, <1>3, TotalInt
<1>6. Cardinality(Users) * Stake \in Nat
  BY <1>1, FS_CardinalityType, Products
<1> QED BY <1>2, <1>4, <1>5, <1>6

LEMMA PaidInit == Init => Paid
<1> SUFFICES ASSUME Init PROVE Paid
  OBVIOUS
<1>1. /\ balance = [u \in Users |-> Stake] /\ burned = 0 /\ credits = [k \in Keys |-> 0]
      /\ debits = [h \in Hashes |-> 0] /\ refunds = [h \in Hashes |-> 0]
  BY DEF Init
<1>2. Held = [h \in Hashes |-> 0]
  <2>1. Held = [h \in Hashes |-> Taken * debits[h] - Net * refunds[h]]
    BY DEF Held, Taken
  <2> QED BY <1>1, <2>1, Products
<1>3. /\ IsFiniteSet(Users) /\ IsFiniteSet(Hashes) /\ IsFiniteSet(Keys)
      /\ Cardinality(Users) \in Nat /\ Cardinality(Hashes) \in Nat /\ Cardinality(Keys) \in Nat
  BY FS_CardinalityType, BridgeAssumption
<1>4. Total(balance, Users) = Cardinality(Users) * Stake
  BY <1>1, <1>3, TotalConstant, Products
<1>5. Total(Held, Hashes) = 0
  <2>1. Total(Held, Hashes) = Cardinality(Hashes) * 0
    BY <1>2, <1>3, TotalConstant
  <2> QED BY <1>3, <2>1
<1>6. Total(credits, Keys) = 0
  <2>1. Total(credits, Keys) = Cardinality(Keys) * 0
    BY <1>1, <1>3, TotalConstant
  <2> QED BY <1>3, <2>1
<1>7. Cardinality(Users) * Stake \in Nat
  BY <1>3, Products
<1>8. Books
  BY <1>1, <1>4, <1>5, <1>6, <1>7 DEF Books
<1> QED BY <1>1, <1>8 DEF Paid, Proved

\* What a step that changes one account does to their sum.
LEMMA AccountChange ==
  ASSUME RowsOK, RowsOK', NEW u \in Users, NEW d \in Int,
         \A v \in Users : balance'[v] = IF v = u THEN balance[v] + d ELSE balance[v]
  PROVE  Total(balance', Users) = Total(balance, Users) + d
<1>1. balance \in [Users -> Int] /\ balance' \in [Users -> Int]
  BY DEF RowsOK
<1>2. IsFiniteSet(Users)
  BY BridgeAssumption
<1> DEFINE b == balance
           c == balance'
<1>3. /\ b \in [Users -> Int] /\ c \in [Users -> Int]
      /\ \A v \in Users : c[v] = IF v = u THEN b[v] + d ELSE b[v]
  BY <1>1
<1> HIDE DEF b, c
<1>4. Total(c, Users) = Total(b, Users) + d
  BY <1>2, <1>3, TotalChanges, ZenonT(60)
<1> QED BY <1>4 DEF b, c

\* And one that changes what one lock holds.
LEMMA LockChange ==
  ASSUME RestOK, NEW c \in [Hashes -> Int], NEW h \in Hashes, NEW d \in Int,
         \A k \in Hashes : c[k] = IF k = h THEN Held[k] + d ELSE Held[k]
  PROVE  Total(c, Hashes) = Total(Held, Hashes) + d
<1> DEFINE b == Held
<1>1. b \in [Hashes -> Int]
  BY HeldIs
<1>2. \A k \in Hashes : c[k] = IF k = h THEN b[k] + d ELSE b[k]
  OBVIOUS
<1> HIDE DEF b
<1>3. IsFiniteSet(Hashes)
  BY BridgeAssumption
<1>4. Total(c, Hashes) = Total(b, Hashes) + d
  BY <1>1, <1>2, <1>3, TotalChanges, ZenonT(60)
<1> QED BY <1>4 DEF b

\* debit_and_create_bridge_lock: the sender pays what the lock holds and the burned fee.
LEMMA DebitBooks ==
  ASSUME Typed, Typed', Books, NEW t \in Threads, DebitLock(t)
  PROVE  Books'
<1> DEFINE u == req[t].user
           h == req[t].name
<1>0. RowsOK /\ RowsOK' /\ RestOK /\ RestOK'
  BY DEF Typed
<1>1. u \in Users /\ h \in Hashes /\ credits' = credits
  BY DEF DebitLock, At, Typed, RequestsOK, Fits
<1>2. CASE ~CanPay(u)
  <2>1. UNCHANGED <<balance, burned, credits, debits, refunds>>
    BY <1>2 DEF DebitLock
  <2> QED BY <2>1 DEF Books, Held
<1>3. CASE CanPay(u)
  <2>1. /\ balance' = [balance EXCEPT ![u] = @ - Amount] /\ burned' = burned + Burn
        /\ debits' = [debits EXCEPT ![h] = @ + 1] /\ refunds' = refunds
    BY <1>3 DEF DebitLock
  <2> HIDE DEF u, h
  <2>2. \A v \in Users : balance'[v] = IF v = u THEN balance[v] + (-Amount) ELSE balance[v]
    BY <1>0, <2>1, Products DEF RowsOK
  <2>3. Total(balance', Users) = Total(balance, Users) + (-Amount)
    BY <1>0, <1>1, <2>2, AccountChange, Products
  <2>4. Held' \in [Hashes -> Int]
    BY <1>0, HeldNext
  <2>5. ASSUME NEW k \in Hashes PROVE Held'[k] = IF k = h THEN Held[k] + Taken ELSE Held[k]
    <3>1. /\ Held[k] = Taken * debits[k] - Net * refunds[k]
          /\ Held'[k] = Taken * debits'[k] - Net * refunds'[k]
      BY <1>0, HeldIs, HeldNext
    <3>2. debits[k] \in Nat /\ refunds[k] \in Nat /\ refunds'[k] = refunds[k]
      BY <1>0, <2>1 DEF RestOK
    <3>3. debits'[k] = IF k = h THEN debits[k] + 1 ELSE debits[k]
      BY <1>0, <2>1 DEF RestOK
    <3>4. Taken * (debits[k] + 1) - Net * refunds[k] = (Taken * debits[k] - Net * refunds[k]) + Taken
      BY <3>2, Products
    <3> QED BY <3>1, <3>2, <3>3, <3>4
  <2>6. Total(Held', Hashes) = Total(Held, Hashes) + Taken
    <3> DEFINE c == Held'
    <3>1. c \in [Hashes -> Int] /\ \A k \in Hashes : c[k] = IF k = h THEN Held[k] + Taken ELSE Held[k]
      BY <2>4, <2>5
    <3>2. Taken \in Int
      BY Products
    <3> HIDE DEF c
    <3>3. Total(c, Hashes) = Total(Held, Hashes) + Taken
      BY <1>0, <1>1, <3>1, <3>2, LockChange
    <3> QED BY <3>3 DEF c
  <2>7. Taken = Amount - Burn
    BY DEF Taken
  <2>8. Total(balance, Users) \in Int /\ Total(Held, Hashes) \in Int /\ burned \in Nat
    BY <1>0, Counts
  <2>9. Total(balance', Users) + burned' + Total(Held', Hashes)
          = Total(balance, Users) + burned + Total(Held, Hashes)
    BY <2>1, <2>3, <2>6, <2>7, <2>8, Products
  <2> QED BY <1>1, <2>9 DEF Books
<1> QED BY <1>2, <1>3

\* refund_pending_bridge_lock: what the lock held, less the fee, goes back.
LEMMA RefundBooks ==
  ASSUME Typed, Typed', Books, NEW h \in Hashes, Refund(h)
  PROVE  Books'
<1>0. RowsOK /\ RowsOK' /\ RestOK /\ RestOK'
  BY DEF Typed
<1> DEFINE u == lock[h].user
<1>1. /\ u \in Users /\ UNCHANGED <<credits, burned, debits>>
      /\ balance' = [balance EXCEPT ![u] = @ + Net]
      /\ refunds' = [refunds EXCEPT ![h] = @ + 1]
  BY <1>0 DEF Refund, Refundable, RowsOK
<1> HIDE DEF u
<1>2. Total(balance', Users) = Total(balance, Users) + Net
  <2>1. \A v \in Users : balance'[v] = IF v = u THEN balance[v] + Net ELSE balance[v]
    BY <1>0, <1>1 DEF RowsOK
  <2>2. Net \in Int
    BY Products
  <2> QED BY <1>0, <1>1, <2>1, <2>2, AccountChange
<1>3. Held' \in [Hashes -> Int]
  BY <1>0, HeldNext
<1>4. ASSUME NEW k \in Hashes PROVE Held'[k] = IF k = h THEN Held[k] + (-Net) ELSE Held[k]
  <2>1. /\ Held[k] = Taken * debits[k] - Net * refunds[k] /\ Held[k] \in Int
        /\ Held'[k] = Taken * debits'[k] - Net * refunds'[k]
    BY <1>0, HeldIs, HeldNext
  <2>2. debits[k] \in Nat /\ refunds[k] \in Nat /\ debits'[k] = debits[k]
    BY <1>0, <1>1 DEF RestOK
  <2>3. refunds'[k] = IF k = h THEN refunds[k] + 1 ELSE refunds[k]
    BY <1>0, <1>1 DEF RestOK
  <2>4. Taken * debits[k] - Net * (refunds[k] + 1) = Held[k] + (-Net)
    BY <2>1, <2>2, Products
  <2> QED BY <2>1, <2>2, <2>3, <2>4
<1>5. Total(Held', Hashes) = Total(Held, Hashes) + (-Net)
  <2> DEFINE c == Held'
             d == -Net
  <2>1. /\ c \in [Hashes -> Int] /\ d \in Int
        /\ \A k \in Hashes : c[k] = IF k = h THEN Held[k] + d ELSE Held[k]
    BY <1>3, <1>4, Products
  <2> HIDE DEF c, d
  <2>2. Total(c, Hashes) = Total(Held, Hashes) + d
    BY <1>0, <2>1, LockChange
  <2> QED BY <2>2 DEF c, d
<1>6. Total(balance, Users) \in Int /\ Total(Held, Hashes) \in Int /\ burned \in Nat
  BY <1>0, Counts
<1>7. Total(balance', Users) + burned' + Total(Held', Hashes)
        = Total(balance, Users) + burned + Total(Held, Hashes)
  BY <1>1, <1>2, <1>5, <1>6, Products
<1> QED BY <1>1, <1>7 DEF Books

\* claim_and_credit_bridge_event: the row of the replay key and the credit are one
\* batch, and what they say of the amount is the same.
LEMMA ClaimBooks ==
  ASSUME Typed, Typed', Proved, NEW t \in Threads, Claim(t)
  PROVE  (Books => Books') /\ Proved'
<1>0. RowsOK /\ RowsOK' /\ RestOK
  BY DEF Typed
<1> DEFINE u == req[t].user
           e == req[t].key
           n == req[t].amount
<1>1. /\ u \in Users /\ e \in Keys /\ n \in Nat /\ TxOf[e] \in deep
      /\ UNCHANGED <<burned, debits, refunds, deep>>
  BY DEF Claim, At, Typed, RequestsOK, Fits, Work, history
<1>2. CASE Claimed(e)
  <2>1. UNCHANGED <<credits, balance>>
    BY <1>2 DEF Claim
  <2> QED BY <1>1, <2>1 DEF Books, Held, Proved
<1>3. CASE ~Claimed(e)
  <2>1. /\ credits' = [credits EXCEPT ![e] = n] /\ credits[e] = 0
        /\ balance' = [balance EXCEPT ![u] = @ + n]
    BY <1>3 DEF Claim, Claimed
  <2> HIDE DEF u, e, n
  <2>2. \A v \in Users : balance'[v] = IF v = u THEN balance[v] + n ELSE balance[v]
    BY <1>0, <2>1 DEF RowsOK
  <2>3. n \in Int
    BY <1>1
  <2>4. Total(balance', Users) = Total(balance, Users) + n
    BY <1>0, <1>1, <2>2, <2>3, AccountChange
  <2>5. /\ credits \in [Keys -> Int] /\ credits' \in [Keys -> Int] /\ IsFiniteSet(Keys)
        /\ \A k \in Keys : credits'[k] = IF k = e THEN credits[k] + n ELSE credits[k]
    BY <1>0, <1>1, <2>1, BridgeAssumption DEF RowsOK
  <2>6. Total(credits', Keys) = Total(credits, Keys) + n
    BY <1>1, <2>3, <2>5, TotalChanges
  <2>7. Total(Held', Hashes) = Total(Held, Hashes)
    BY <1>1 DEF Held
  <2>8. /\ Total(balance, Users) \in Int /\ Total(Held, Hashes) \in Int /\ burned \in Nat
        /\ Total(credits, Keys) \in Int /\ Cardinality(Users) * Stake \in Nat
    BY <1>0, Counts
  <2>9. Books => Books'
    BY <1>1, <2>3, <2>4, <2>6, <2>7, <2>8 DEF Books
  <2>10. Proved'
    BY <1>0, <1>1, <2>1 DEF Proved, RowsOK
  <2> QED BY <2>9, <2>10
<1> QED BY <1>2, <1>3

\* Every step keeps the books.
LEMMA BooksNext ==
  ASSUME Typed, Typed', Proved, Books, Next, ~Replay
  PROVE  Books'
<1>1. ASSUME UNCHANGED <<balance, burned, credits, debits, refunds>> PROVE Books'
  BY <1>1 DEF Books, Held
<1>2. ASSUME NEW t \in Threads, Quiet(t) PROVE Books'
  BY <1>1, <1>2, QuietRows DEF rows, history
<1>3. ASSUME Relay \/ Crash \/ \E x \in Txs : L1Confirms(x) PROVE Books'
  BY <1>1, <1>3 DEF Relay, Fetch, KeepEntry, Post, Receive, GiveUp, Persist, Crash, L1Confirms,
     rows, history
<1>4. ASSUME NEW t \in Threads, WriteConfirm(t) PROVE Books'
  BY <1>1, <1>4 DEF WriteConfirm, history
<1> QED BY <1>2, <1>3, <1>4, DebitBooks, ClaimBooks, RefundBooks DEF Next, Serve, Quiet

\* No credit comes before the confirmation of its transaction.
LEMMA ProvedNext ==
  ASSUME Typed, Typed', Proved, Next
  PROVE  Proved'
<1>1. deep \subseteq deep'
  BY RowsNext
<1>2. credits' = credits \/ \E t \in Threads : Claim(t)
  BY DEF Next, Request, Fails, Serve, BeginLock, BeginConfirm, BeginIncoming, Register,
     VerifyLock, DebitLock, VerifyConfirm, WriteConfirm, VerifyIncoming, LoadQueue,
     SaveQueue, Refund, L1Confirms, Relay, Fetch, KeepEntry, Post, Receive, GiveUp, Persist,
     Crash, Replay, rows
<1>3. CASE credits' = credits
  BY <1>1, <1>3 DEF Proved
<1>4. CASE \E t \in Threads : Claim(t)
  BY <1>4, ClaimBooks
<1> QED BY <1>2, <1>3, <1>4

LEMMA PaidNext == Typed /\ Paid /\ [Next]_vars => Paid'
<1> SUFFICES ASSUME Typed, Paid, [Next]_vars PROVE Paid'
  OBVIOUS
<1>1. Typed' /\ Proved
  BY TypedNext DEF Paid
<1>2. CASE Next
  <2>1. Proved'
    BY <1>1, <1>2, ProvedNext
  <2>2. ASSUME ~replayed' PROVE Books'
    <3>1. ASSUME Replay PROVE replayed'
      BY <3>1, Zenon DEF Replay
    <3>2. ~Replay
      BY <2>2, <3>1, Zenon
    <3>3. replayed' = replayed
      BY <1>2, <3>2, ReplayedNext, Zenon
    <3>4. Books
      BY <2>2, <3>3, Zenon DEF Paid
    <3> QED BY <1>1, <1>2, <3>2, <3>4, BooksNext
  <2> QED BY <2>1, <2>2, Zenon DEF Paid
<1>3. CASE UNCHANGED vars
  <2>1. UNCHANGED <<balance, burned, credits, debits, refunds, deep>> /\ replayed' = replayed
    BY <1>3 DEF vars, rows, history
  <2>2. (Books' <=> Books) /\ Proved'
    BY <1>1, <2>1 DEF Books, Held, Proved
  <2> QED BY <2>1, <2>2, Zenon DEF Paid
<1> QED BY <1>2, <1>3

LEMMA PaidMeans == Paid => AccountsAddUp
BY Zenon DEF Paid, Proved, Books, AccountsAddUp

\* Only what L1 has confirmed is credited, and until a replay of the chain the accounts
\* and the burned fees hold exactly the first balances and the credit rows, less what
\* the locks have taken and not given back, whatever requests overlap, fail or are cut
\* off (rocks_store.py:1479-1569).
THEOREM ValueConserved == Spec => []AccountsAddUp
<1> QED BY TypedInit, TypedNext, PaidInit, PaidNext, PaidMeans, PTL DEF Spec

=============================================================================
