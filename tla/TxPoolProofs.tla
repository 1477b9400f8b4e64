---------------------------- MODULE TxPoolProofs ----------------------------
(***************************************************************************)
(* What holds of transactions, blocks and accounts for all users, miners,  *)
(* transactions, fees, rewards and limits, with any number of messages and *)
(* rollbacks, and blocks of peers with any transactions.                   *)
(***************************************************************************)
EXTENDS TxPool, FiniteSetTheorems, SequenceTheorems, WellFoundedInduction, TLAPS

-----------------------------------------------------------------------------
(* Induction *)

\* Induction, as the existence of a least counterexample.
LEMMA LeastNat ==
  ASSUME NEW T \in SUBSET Nat, T # {}
  PROVE  \E n \in T : \A m \in T : n <= m
<1> DEFINE R == OpToRel(<, Nat)
<1>1. \E x \in T : \A y \in T : ~(<<y, x>> \in R)
  BY NatLessThanWellFounded, WFMin
<1>2. \A x, y \in Nat : <<y, x>> \in R <=> y < x
  BY DEF OpToRel
<1> HIDE DEF R
<1>3. PICK x \in T : \A y \in T : ~(<<y, x>> \in R)
  BY <1>1
<1>4. \A y \in T : ~(y < x)
  BY <1>2, <1>3
<1>5. \A y \in T : x <= y
  BY <1>4
<1> QED BY <1>5

\* The same for a set that is closed under successor up to a bound.
LEMMA Induct ==
  ASSUME NEW n \in Nat, NEW T, 0 \in T, \A i \in 1 .. n : i - 1 \in T => i \in T
  PROVE  \A i \in 0 .. n : i \in T
<1> DEFINE U == {i \in 0 .. n : i \notin T}
<1> SUFFICES ASSUME U # {} PROVE FALSE
  OBVIOUS
<1>1. U \in SUBSET Nat
  OBVIOUS
<1>2. PICK i \in U : \A j \in U : i <= j
  <2> HIDE DEF U
  <2> QED BY <1>1, LeastNat
<1>3. i \in 1 .. n
  BY <1>2
<1>4. i - 1 \in 0 .. n /\ i - 1 \notin U
  BY <1>2, <1>3
<1> QED BY <1>2, <1>3, <1>4

-----------------------------------------------------------------------------
(* Folds over a sequence *)

Small(S, k) == {s \in SUBSET S : Cardinality(s) <= k}

LEMMA PositionsFinite ==
  ASSUME NEW n \in Nat
  PROVE  IsFiniteSet(1 .. n)
BY FS_Interval

LEMMA MaxFacts ==
  ASSUME NEW n \in Nat, NEW s \in SUBSET (1 .. n), s # {}
  PROVE  /\ Max(s) \in s /\ IsFiniteSet(s) /\ s \ {Max(s)} \in SUBSET (1 .. n)
         /\ Cardinality(s) \in Nat \ {0} /\ Cardinality(s \ {Max(s)}) = Cardinality(s) - 1
<1>1. IsFiniteSet(s)
  BY PositionsFinite, FS_Subset
<1> DEFINE T == {m \in Nat : \A y \in s : y <= m}
<1>2. T \in SUBSET Nat /\ n \in T
  OBVIOUS
<1>3. PICK m \in T : \A k \in T : m <= k
  <2> HIDE DEF T
  <2> QED BY <1>2, LeastNat
<1>4. m \in s
  <2> SUFFICES ASSUME m \notin s PROVE FALSE
    OBVIOUS
  <2>1. m \in Nat /\ \A y \in s : y \in 1 .. n /\ y <= m /\ y # m
    BY <1>3
  <2>2. m # 0
    <3>1. PICK y \in s : TRUE
      OBVIOUS
    <3> QED BY <2>1, <3>1
  <2>3. m - 1 \in T
    BY <2>1, <2>2
  <2> QED BY <1>3, <2>1, <2>3
<1>5. m \in s /\ \A y \in s : m >= y
  BY <1>3, <1>4
<1>6. Max(s) \in s
  BY <1>5 DEF Max
<1>7. Cardinality(s) \in Nat /\ Cardinality(s) # 0
  BY <1>1, FS_CardinalityType, FS_EmptySet
<1> QED BY <1>1, <1>6, <1>7, FS_RemoveElement

LEMMA MaxOfPrefix ==
  ASSUME NEW n \in Nat, NEW i \in 1 .. n
  PROVE  1 .. i # {} /\ Max(1 .. i) = i /\ (1 .. i) \ {i} = 1 .. (i - 1)
<1>1. \A x \in 1 .. i : (\A y \in 1 .. i : x >= y) => x = i
  OBVIOUS
<1>2. i \in 1 .. i /\ \A y \in 1 .. i : i >= y
  OBVIOUS
<1>3. Max(1 .. i) = i
  BY <1>1, <1>2 DEF Max
<1> QED BY <1>3

\* A fold of the function F over q, on the sets of positions in D.
IsFold(g, F, base, q, D) ==
  g = [s \in D |-> IF s = {} THEN base ELSE F[<<g[s \ {Max(s)}], q[Max(s)]>>]]

LEMMA FoldExtends ==
  ASSUME NEW A, NEW B, NEW F \in [A \X B -> A], NEW base \in A, NEW q \in Seq(B),
         NEW n \in Nat, n = Len(q), NEW k \in Nat,
         NEW g \in [Small(1 .. n, k) -> A], IsFold(g, F, base, q, Small(1 .. n, k))
  PROVE  \E h \in [Small(1 .. n, k + 1) -> A] : IsFold(h, F, base, q, Small(1 .. n, k + 1))
<1> DEFINE h == [s \in Small(1 .. n, k + 1) |->
                   IF s = {} THEN base ELSE F[<<g[s \ {Max(s)}], q[Max(s)]>>]]
<1>1. ASSUME NEW s \in Small(1 .. n, k) PROVE s \in Small(1 .. n, k + 1) /\ h[s] = g[s]
  <2>1. s \in Small(1 .. n, k + 1)
    <3>1. IsFiniteSet(s)
      BY PositionsFinite, FS_Subset DEF Small
    <3> QED BY <3>1, FS_CardinalityType DEF Small
  <2>2. g[s] = IF s = {} THEN base ELSE F[<<g[s \ {Max(s)}], q[Max(s)]>>]
    BY DEF IsFold
  <2> QED BY <2>1, <2>2
<1>2. ASSUME NEW s \in Small(1 .. n, k + 1), s # {}
      PROVE  s \ {Max(s)} \in Small(1 .. n, k) /\ q[Max(s)] \in B
  <2>1. s \in SUBSET (1 .. n) /\ Cardinality(s) <= k + 1
    BY DEF Small
  <2>2. Max(s) \in s /\ s \ {Max(s)} \in Small(1 .. n, k)
    BY <1>2, <2>1, MaxFacts DEF Small
  <2> QED BY <2>1, <2>2, ElementOfSeq
<1>3. \A s \in Small(1 .. n, k + 1) :
        h[s] = IF s = {} THEN base ELSE F[<<h[s \ {Max(s)}], q[Max(s)]>>]
  BY <1>1, <1>2
<1>4. h \in [Small(1 .. n, k + 1) -> A] /\ h = [s \in Small(1 .. n, k + 1) |-> h[s]]
  BY <1>2
<1> HIDE DEF h
<1>5. IsFold(h, F, base, q, Small(1 .. n, k + 1))
  BY <1>3, <1>4 DEF IsFold
<1> QED BY <1>4, <1>5

LEMMA FoldExists ==
  ASSUME NEW A, NEW B, NEW F \in [A \X B -> A], NEW base \in A, NEW q \in Seq(B)
  PROVE  \E g \in [SUBSET DOMAIN q -> A] : IsFold(g, F, base, q, SUBSET DOMAIN q)
<1> DEFINE n == Len(q)
           Has(k) == \E g \in [Small(1 .. n, k) -> A] : IsFold(g, F, base, q, Small(1 .. n, k))
           T == {k \in Nat : Has(k)}
<1>1. n \in Nat /\ DOMAIN q = 1 .. n
  BY LenProperties
<1> HIDE DEF n
<1>2. 0 \in T
  <2> DEFINE g == [s \in Small(1 .. n, 0) |-> base]
  <2>1. ASSUME NEW s \in Small(1 .. n, 0), s # {} PROVE FALSE
    <3>1. Cardinality(s) \in Nat \ {0} /\ Cardinality(s) <= 0
      BY <1>1, <2>1, MaxFacts DEF Small
    <3> QED BY <3>1
  <2>2. IsFold(g, F, base, q, Small(1 .. n, 0)) /\ g \in [Small(1 .. n, 0) -> A]
    BY <2>1 DEF IsFold
  <2> QED BY <2>2
<1>3. ASSUME NEW k \in Nat, k \in T PROVE k + 1 \in T
  <2>1. PICK g \in [Small(1 .. n, k) -> A] : IsFold(g, F, base, q, Small(1 .. n, k))
    BY <1>3
  <2>2. Has(k + 1)
    BY <1>1, <2>1, FoldExtends DEF n
  <2> QED BY <2>2
<1>4. IsFiniteSet(1 .. n) /\ Cardinality(1 .. n) \in Nat
  BY <1>1, PositionsFinite, FS_CardinalityType
<1>5. Cardinality(1 .. n) \in T
  <2> HIDE DEF T
  <2>1. \A i \in 1 .. Cardinality(1 .. n) : i - 1 \in T => i \in T
    <3> TAKE i \in 1 .. Cardinality(1 .. n)
    <3>1. i - 1 \in Nat /\ (i - 1) + 1 = i
      BY <1>4
    <3> QED BY <1>3, <3>1
  <2>2. \A i \in 0 .. Cardinality(1 .. n) : i \in T
    <3> DEFINE c == Cardinality(1 .. n)
    <3>1. c \in Nat /\ \A i \in 1 .. c : i - 1 \in T => i \in T
      BY <1>4, <2>1
    <3> HIDE DEF c
    <3>2. \A i \in 0 .. c : i \in T
      BY <1>2, <3>1, Induct
    <3> QED BY <3>2 DEF c
  <2> QED BY <1>4, <2>2
<1>6. Small(1 .. n, Cardinality(1 .. n)) = SUBSET (1 .. n)
  BY <1>4, FS_Subset DEF Small
<1>7. Has(Cardinality(1 .. n))
  BY <1>5
<1> QED BY <1>1, <1>6, <1>7

-----------------------------------------------------------------------------
(* The supply *)

LEMMA Facts ==
  /\ \A t \in Txs : /\ From[t] \in Users /\ To[t] \in Users /\ From[t] \in Addresses
                    /\ To[t] \in Addresses /\ Nonce[t] \in Nat /\ Value[t] \in Nat
                    /\ Dust[t] \in {0, 1} /\ Cost(t) \in Nat
                    /\ Cost(t) = Value[t] + MinerFee + Burned + Dust[t]
  /\ \A m \in Miners : m \in Addresses /\ m \notin Users
  /\ Burner \in Addresses /\ Burner \notin Users
  /\ MinerFee \in Nat /\ Burned \in Nat /\ Stake \in Nat /\ Reward \in Nat /\ MaxSupply \in Nat
BY TxAssumption DEF Addresses, Cost

LEMMA AddressesFinite == IsFiniteSet(Addresses)
<1>1. IsFiniteSet(Users \cup Miners)
  BY TxAssumption, FS_Union
<1> QED BY <1>1, FS_AddElement DEF Addresses

\* The function by which a supply is defined, on the sets of addresses in D.
Chosen(s) == CHOOSE x \in s : TRUE

IsTotal(g, a, D) ==
  g = [s \in D |-> IF s = {} THEN 0 ELSE a[Chosen(s)].balance + g[s \ {Chosen(s)}]]

LEMMA SupplyIs ==
  ASSUME NEW a
  PROVE  Supply(a) = (CHOOSE g : IsTotal(g, a, SUBSET Addresses))[Addresses]
BY DEF Supply, MapThenSumSet, MapThenFoldSet, IsTotal, Chosen

LEMMA ChosenFacts ==
  ASSUME NEW s \in SUBSET Addresses, s # {}
  PROVE  /\ Chosen(s) \in s /\ s \ {Chosen(s)} \in SUBSET Addresses /\ IsFiniteSet(s)
         /\ Cardinality(s) \in Nat \ {0} /\ Cardinality(s \ {Chosen(s)}) = Cardinality(s) - 1
<1>1. Chosen(s) \in s
  BY DEF Chosen
<1>2. IsFiniteSet(s)
  BY FS_Subset, AddressesFinite
<1>3. Cardinality(s) \in Nat /\ Cardinality(s) # 0
  BY <1>2, FS_CardinalityType, FS_EmptySet
<1> QED BY <1>1, <1>2, <1>3, FS_RemoveElement

LEMMA TotalExtends ==
  ASSUME NEW a, NEW k \in Nat, NEW g, IsTotal(g, a, Small(Addresses, k))
  PROVE  \E h : IsTotal(h, a, Small(Addresses, k + 1))
<1> DEFINE h == [s \in Small(Addresses, k + 1) |->
                   IF s = {} THEN 0 ELSE a[Chosen(s)].balance + g[s \ {Chosen(s)}]]
<1>1. ASSUME NEW s \in Small(Addresses, k) PROVE s \in Small(Addresses, k + 1) /\ h[s] = g[s]
  <2>1. s \in Small(Addresses, k + 1)
    <3>1. IsFiniteSet(s)
      BY FS_Subset, AddressesFinite DEF Small
    <3> QED BY <3>1, FS_CardinalityType DEF Small
  <2>2. g[s] = IF s = {} THEN 0 ELSE a[Chosen(s)].balance + g[s \ {Chosen(s)}]
    BY DEF IsTotal
  <2> QED BY <2>1, <2>2
<1>2. ASSUME NEW s \in Small(Addresses, k + 1), s # {}
      PROVE  s \ {Chosen(s)} \in Small(Addresses, k)
  BY <1>2, ChosenFacts DEF Small
<1>3. \A s \in Small(Addresses, k + 1) :
        h[s] = IF s = {} THEN 0 ELSE a[Chosen(s)].balance + h[s \ {Chosen(s)}]
  BY <1>1, <1>2
<1>4. h = [s \in Small(Addresses, k + 1) |-> h[s]]
  OBVIOUS
<1> HIDE DEF h
<1>5. IsTotal(h, a, Small(Addresses, k + 1))
  BY <1>3, <1>4 DEF IsTotal
<1> QED BY <1>5

\* The sum over every set of addresses exists.
LEMMA TotalExists ==
  ASSUME NEW a
  PROVE  \E g : IsTotal(g, a, SUBSET Addresses)
<1> DEFINE Has(k) == \E g : IsTotal(g, a, Small(Addresses, k))
           T == {k \in Nat : Has(k)}
           c == Cardinality(Addresses)
<1>1. 0 \in T
  <2> DEFINE g == [s \in Small(Addresses, 0) |-> 0]
  <2>1. ASSUME NEW s \in Small(Addresses, 0), s # {} PROVE FALSE
    <3>1. Cardinality(s) \in Nat \ {0} /\ Cardinality(s) <= 0
      BY <2>1, ChosenFacts DEF Small
    <3> QED BY <3>1
  <2>2. IsTotal(g, a, Small(Addresses, 0))
    BY <2>1 DEF IsTotal
  <2> QED BY <2>2
<1>2. c \in Nat
  BY FS_CardinalityType, AddressesFinite
<1>3. \A i \in 1 .. c : i - 1 \in T => i \in T
  <2> SUFFICES ASSUME NEW i \in 1 .. c, i - 1 \in T PROVE Has(i) /\ i \in Nat
    OBVIOUS
  <2>1. i - 1 \in Nat /\ (i - 1) + 1 = i
    BY <1>2
  <2>2. PICK g : IsTotal(g, a, Small(Addresses, i - 1))
    OBVIOUS
  <2> QED BY <2>1, <2>2, TotalExtends
<1>4. c \in T
  <2> HIDE DEF T, c
  <2>1. \A i \in 0 .. c : i \in T
    BY <1>1, <1>2, <1>3, Induct
  <2> QED BY <1>2, <2>1
<1>5. Small(Addresses, c) = SUBSET Addresses
  BY FS_Subset, AddressesFinite DEF Small
<1> QED BY <1>4, <1>5

\* Adding d to one account adds d to the supply.
LEMMA SupplyChanges ==
  ASSUME NEW a \in Accounts, NEW b \in Accounts, NEW x \in Addresses, NEW d \in Int,
         \A u \in Addresses : b[u].balance = IF u = x THEN a[u].balance + d ELSE a[u].balance
  PROVE  Supply(a) \in Int /\ Supply(b) = Supply(a) + d
<1> DEFINE g == CHOOSE g : IsTotal(g, a, SUBSET Addresses)
           h == CHOOSE h : IsTotal(h, b, SUBSET Addresses)
           Right(s) == g[s] \in Int /\ h[s] = g[s] + IF x \in s THEN d ELSE 0
           T == {Cardinality(s) : s \in {s \in SUBSET Addresses : ~Right(s)}}
<1>1. /\ IsTotal(g, a, SUBSET Addresses) /\ IsTotal(h, b, SUBSET Addresses)
      /\ Supply(a) = g[Addresses] /\ Supply(b) = h[Addresses]
  BY TotalExists, SupplyIs
<1> HIDE DEF g, h
<1>2. T = {}
  <2> SUFFICES ASSUME T # {} PROVE FALSE
    OBVIOUS
  <2>1. T \in SUBSET Nat
    BY FS_Subset, FS_CardinalityType, AddressesFinite
  <2>2. PICK n \in T : \A m \in T : n <= m
    <3> HIDE DEF T
    <3> QED BY <2>1, LeastNat
  <2>3. PICK s \in SUBSET Addresses : ~Right(s) /\ n = Cardinality(s)
    BY <2>2
  <2>4. g[s] = (IF s = {} THEN 0 ELSE a[Chosen(s)].balance + g[s \ {Chosen(s)}])
    BY <1>1 DEF IsTotal
  <2>5. h[s] = (IF s = {} THEN 0 ELSE b[Chosen(s)].balance + h[s \ {Chosen(s)}])
    BY <1>1 DEF IsTotal
  <2>6. s # {}
    BY <2>3, <2>4, <2>5
  <2> DEFINE p == Chosen(s)
             r == s \ {p}
  <2>7. /\ p \in s /\ r \in SUBSET Addresses
        /\ Cardinality(s) \in Nat /\ Cardinality(r) = Cardinality(s) - 1
    BY <2>6, ChosenFacts
  <2>8. Right(r)
    <3> HIDE DEF r, Right
    <3>1. ~Right(r) => Cardinality(r) \in T
      BY <2>7
    <3>2. n \in Nat /\ ~(n <= Cardinality(r))
      BY <2>3, <2>7
    <3> QED BY <2>2, <3>1, <3>2
  <2>9. /\ g[s] = a[p].balance + g[r] /\ h[s] = b[p].balance + h[r]
        /\ x \in s <=> (x = p \/ x \in r)
        /\ ~(x = p /\ x \in r)
    BY <2>4, <2>5, <2>6, <2>7
  <2>10. a[p].balance \in Int /\ b[p].balance = IF p = x THEN a[p].balance + d ELSE a[p].balance
    BY <2>7 DEF Accounts
  <2> HIDE DEF p, r
  <2> QED BY <2>3, <2>8, <2>9, <2>10
<1>3. Right(Addresses)
  BY <1>2
<1> QED BY <1>1, <1>3

LEMMA SupplyInt ==
  ASSUME NEW a \in Accounts
  PROVE  Supply(a) \in Int
<1>1. \A u \in Addresses : a[u].balance = IF u = Burner THEN a[u].balance + 0 ELSE a[u].balance
  BY DEF Accounts
<1> QED BY <1>1, SupplyChanges, Facts

LEMMA GenesisTyped == GenesisAccounts \in Accounts
BY Facts DEF GenesisAccounts, Accounts

\* The genesis supply is the stake of every user.
LEMMA GenesisSupply == Supply(GenesisAccounts) = Cardinality(Users) * Stake
<1> DEFINE a == GenesisAccounts
           g == CHOOSE g : IsTotal(g, a, SUBSET Addresses)
           Own(s) == Cardinality(s \cap Users)
           Right(s) == g[s] = Own(s) * Stake
           T == {Cardinality(s) : s \in {s \in SUBSET Addresses : ~Right(s)}}
<1>1. IsTotal(g, a, SUBSET Addresses) /\ Supply(a) = g[Addresses]
  BY TotalExists, SupplyIs
<1> HIDE DEF g
<1>2. T = {}
  <2> SUFFICES ASSUME T # {} PROVE FALSE
    OBVIOUS
  <2>1. T \in SUBSET Nat
    BY FS_Subset, FS_CardinalityType, AddressesFinite
  <2>2. PICK n \in T : \A m \in T : n <= m
    <3> HIDE DEF T
    <3> QED BY <2>1, LeastNat
  <2>3. PICK s \in SUBSET Addresses : ~Right(s) /\ n = Cardinality(s)
    BY <2>2
  <2>4. g[s] = (IF s = {} THEN 0 ELSE a[Chosen(s)].balance + g[s \ {Chosen(s)}])
    BY <1>1 DEF IsTotal
  <2>5. s # {}
    <3> SUFFICES ASSUME s = {} PROVE FALSE
      OBVIOUS
    <3>1. s \cap Users = {}
      OBVIOUS
    <3>2. Own(s) = 0
      BY <3>1, FS_EmptySet
    <3>3. 0 * Stake = 0
      BY Facts
    <3> QED BY <2>3, <2>4, <3>2, <3>3
  <2> DEFINE p == Chosen(s)
             r == s \ {p}
  <2>6. /\ p \in s /\ r \in SUBSET Addresses
        /\ Cardinality(s) \in Nat /\ Cardinality(r) = Cardinality(s) - 1
    BY <2>5, ChosenFacts
  <2>7. Right(r)
    <3> HIDE DEF r, Right
    <3>1. ~Right(r) => Cardinality(r) \in T
      BY <2>6
    <3>2. n \in Nat /\ ~(n <= Cardinality(r))
      BY <2>3, <2>6
    <3> QED BY <2>2, <3>1, <3>2
  <2>8. g[s] = a[p].balance + g[r] /\ a[p].balance = IF p \in Users THEN Stake ELSE 0
    BY <2>4, <2>5, <2>6 DEF GenesisAccounts
  <2>9. IsFiniteSet(s \cap Users) /\ IsFiniteSet(r \cap Users)
    BY TxAssumption, FS_Subset
  <2>10. Own(s) \in Nat /\ Own(r) \in Nat
    BY <2>9, FS_CardinalityType
  <2>11. Own(r) = IF p \in Users THEN Own(s) - 1 ELSE Own(s)
    <3>1. r \cap Users = (s \cap Users) \ {p}
      OBVIOUS
    <3>2. Own(r) = IF p \in s \cap Users THEN Own(s) - 1 ELSE Own(s)
      BY <2>9, <3>1, FS_RemoveElement
    <3> QED BY <2>6, <3>2
  <2> HIDE DEF Own, p, r
  <2>12. \A c \in Nat : Stake + (c - 1) * Stake = c * Stake
    BY Facts
  <2>13. \A c \in Nat : 0 + c * Stake = c * Stake
    BY Facts
  <2>14. CASE p \in Users
    BY <2>3, <2>7, <2>8, <2>10, <2>11, <2>12, <2>14
  <2>15. CASE p \notin Users
    BY <2>3, <2>7, <2>8, <2>10, <2>11, <2>13, <2>15
  <2> QED BY <2>14, <2>15
<1>3. Right(Addresses)
  BY <1>2
<1>4. Addresses \cap Users = Users
  BY DEF Addresses
<1> QED BY <1>1, <1>3, <1>4

\* apply_block_reward_sat: never above the maximum, nor above what is left of it.
LEMMA RewardFacts ==
  ASSUME NEW s \in Int
  PROVE  /\ RewardAt(s) \in Nat /\ RewardAt(s) <= Reward
         /\ s <= MaxSupply => s + RewardAt(s) <= MaxSupply
         /\ s + Reward <= MaxSupply => RewardAt(s) = Reward
<1> DEFINE d == MaxSupply - s
           r == Min({Reward, d})
<1>1. d \in Int /\ Reward \in Nat
  BY Facts
<1> HIDE DEF d
<1>2. r = IF Reward <= d THEN Reward ELSE d
  BY <1>1 DEF Min
<1>3. r \in Int
  BY <1>1, <1>2
<1> HIDE DEF r
<1>4. Max({0, r}) = IF 0 >= r THEN 0 ELSE r
  BY <1>3 DEF Max
<1>5. RewardAt(s) = IF 0 >= r THEN 0 ELSE r
  BY <1>4 DEF RewardAt, r, d
<1> QED BY <1>1, <1>2, <1>3, <1>5, Facts DEF d

-----------------------------------------------------------------------------
(* The execution of a transaction *)

LEMMA PaidFacts ==
  ASSUME NEW a \in Accounts, NEW x \in Addresses, NEW n \in Nat
  PROVE  /\ Paid(a, x, n) \in Accounts
         /\ \A y \in Addresses :
              /\ Paid(a, x, n)[y].balance = a[y].balance + IF y = x THEN n ELSE 0
              /\ Paid(a, x, n)[y].balance >= a[y].balance
              /\ Paid(a, x, n)[y].nonce = a[y].nonce
         /\ Supply(Paid(a, x, n)) = Supply(a) + n
<1> DEFINE b == Paid(a, x, n)
<1>1. b \in Accounts /\ \A y \in Addresses :
        /\ b[y].balance = a[y].balance + (IF y = x THEN n ELSE 0)
        /\ b[y].balance >= a[y].balance
        /\ b[y].nonce = a[y].nonce
        /\ a[y].balance \in Nat
  BY DEF Accounts, Paid
<1> HIDE DEF b
<1>2. \A y \in Addresses : b[y].balance = IF y = x THEN a[y].balance + n ELSE a[y].balance
  BY <1>1
<1>3. Supply(b) = Supply(a) + n
  BY <1>1, <1>2, SupplyChanges
<1> QED BY <1>1, <1>3 DEF b

Gains(a, b, n) ==
  /\ b \in Accounts /\ Supply(b) = Supply(a) + n
  /\ \A y \in Addresses : b[y].nonce = a[y].nonce /\ b[y].balance >= a[y].balance

LEMMA PaidGains ==
  ASSUME NEW a \in Accounts, NEW x \in Addresses, NEW n \in Nat
  PROVE  Gains(a, Paid(a, x, n), n)
BY PaidFacts DEF Gains

\* A transfer takes its cost from the sender and gives all but the dust to others.
LEMMA MovedFacts ==
  ASSUME NEW a \in Accounts, NEW t \in Txs, NEW m \in Miners, Runs(a, t)
  PROVE  /\ Moved(a, t, m) \in Accounts
         /\ \A y \in Addresses :
              /\ Moved(a, t, m)[y].nonce = a[y].nonce + IF y = From[t] THEN 1 ELSE 0
              /\ y # From[t] => Moved(a, t, m)[y].balance >= a[y].balance
         /\ Supply(Moved(a, t, m)) = Supply(a) - Dust[t]
<1> DEFINE f == From[t]
           sent == [a EXCEPT ![f] = [balance |-> @.balance - Cost(t), nonce |-> @.nonce + 1]]
           b1 == Paid(sent, To[t], Value[t])
           b2 == Paid(b1, m, MinerFee)
           b3 == Paid(b2, Burner, Burned)
<1>1. Moved(a, t, m) = b3
  BY DEF Moved
<1>2. /\ f \in Addresses /\ Cost(t) \in Nat /\ a[f].balance \in Nat /\ a[f].nonce \in Nat
      /\ a[f].balance >= Cost(t)
  BY Facts DEF Runs, Accounts
<1>3. /\ sent \in Accounts
      /\ \A y \in Addresses :
           /\ sent[y].balance = IF y = f THEN a[y].balance - Cost(t) ELSE a[y].balance
           /\ sent[y].nonce = a[y].nonce + IF y = f THEN 1 ELSE 0
  <2>1. a[f].balance - Cost(t) \in Nat /\ a[f].nonce + 1 \in Nat
    BY <1>2
  <2> HIDE DEF f
  <2>2. sent \in Accounts
    BY <1>2, <2>1 DEF Accounts
  <2>3. ASSUME NEW y \in Addresses
        PROVE  /\ sent[y].balance = IF y = f THEN a[y].balance - Cost(t) ELSE a[y].balance
               /\ sent[y].nonce = a[y].nonce + IF y = f THEN 1 ELSE 0
    BY <1>2 DEF Accounts
  <2> QED BY <2>2, <2>3
<1> HIDE DEF sent, f
<1>4. Supply(a) \in Int /\ Supply(sent) = Supply(a) - Cost(t)
  <2> DEFINE d == 0 - Cost(t)
  <2>1. d \in Int
    BY <1>2
  <2>2. \A y \in Addresses : sent[y].balance = IF y = f THEN a[y].balance + d ELSE a[y].balance
    BY <1>2, <1>3
  <2> HIDE DEF d
  <2>3. Supply(a) \in Int /\ Supply(sent) = Supply(a) + d
    BY <1>2, <1>3, <2>1, <2>2, SupplyChanges
  <2> QED BY <1>2, <2>3 DEF d
<1>5. MinerFee \in Nat /\ Burned \in Nat /\ m \in Addresses /\ Burner \in Addresses
  BY Facts
<1>6. Gains(sent, b1, Value[t])
  <2>1. To[t] \in Addresses /\ Value[t] \in Nat
    BY Facts
  <2> QED BY <1>3, <2>1, PaidGains
<1> HIDE DEF b1
<1>7. Gains(b1, b2, MinerFee)
  <2>1. b1 \in Accounts
    BY <1>6 DEF Gains
  <2> QED BY <1>5, <2>1, PaidGains
<1> HIDE DEF b2
<1>8. Gains(b2, b3, Burned)
  <2>1. b2 \in Accounts
    BY <1>7 DEF Gains
  <2> QED BY <1>5, <2>1, PaidGains
<1> HIDE DEF b3
<1>9. Supply(b3) = Supply(a) - Dust[t]
  <2>1. /\ Value[t] \in Nat /\ MinerFee \in Nat /\ Burned \in Nat /\ Dust[t] \in Int
        /\ Cost(t) = Value[t] + MinerFee + Burned + Dust[t]
    BY Facts
  <2> QED BY <1>4, <1>6, <1>7, <1>8, <2>1 DEF Gains
<1>10. ASSUME NEW y \in Addresses
       PROVE  /\ b3[y].nonce = a[y].nonce + IF y = f THEN 1 ELSE 0
              /\ y # f => b3[y].balance >= a[y].balance
  <2>1. /\ b3[y].nonce = sent[y].nonce
        /\ b3[y].balance >= b2[y].balance /\ b2[y].balance >= b1[y].balance
        /\ b1[y].balance >= sent[y].balance
    BY <1>6, <1>7, <1>8 DEF Gains
  <2>2. {b3[y].balance, b2[y].balance, b1[y].balance, sent[y].balance, a[y].balance} \subseteq Int
    BY <1>3, <1>6, <1>7, <1>8 DEF Accounts, Gains
  <2> QED BY <1>3, <2>1, <2>2
<1> QED BY <1>1, <1>8, <1>9, <1>10 DEF f, Gains

-----------------------------------------------------------------------------
(* The execution of the transactions of a block *)

Results == [ok : BOOLEAN, accounts : Accounts]

LEMMA RunTxTyped ==
  ASSUME NEW r \in Results, NEW t \in Txs, NEW m \in Miners
  PROVE  RunTx(r, t, m) \in Results
<1>1. r.ok \in BOOLEAN /\ r.accounts \in Accounts
  BY DEF Results
<1>2. CASE r.ok /\ Runs(r.accounts, t)
  <2>1. Moved(r.accounts, t, m) \in Accounts
    BY <1>1, <1>2, MovedFacts
  <2> QED BY <1>2, <2>1 DEF RunTx, Results
<1>3. CASE ~(r.ok /\ Runs(r.accounts, t))
  BY <1>1, <1>3 DEF RunTx, Results
<1> QED BY <1>2, <1>3

LEMMA RunTxOk ==
  ASSUME NEW r, NEW t, NEW m, RunTx(r, t, m).ok
  PROVE  r.ok /\ Runs(r.accounts, t) /\ RunTx(r, t, m).accounts = Moved(r.accounts, t, m)
<1> DEFINE good == [ok |-> TRUE, accounts |-> Moved(r.accounts, t, m)]
           bad  == [ok |-> FALSE, accounts |-> r.accounts]
<1>1. RunTx(r, t, m) = IF r.ok /\ Runs(r.accounts, t) THEN good ELSE bad
  BY DEF RunTx
<1>2. bad.ok = FALSE /\ good.accounts = Moved(r.accounts, t, m)
  OBVIOUS
<1> HIDE DEF good, bad
<1> QED BY <1>1, <1>2

\* The results after each transaction.
IsRun(r, s, txs, m) ==
  /\ r \in [0 .. Len(txs) -> Results] /\ r[0] = s
  /\ \A i \in 1 .. Len(txs) : r[i] = RunTx(r[i - 1], txs[i], m)

IsRunFold(g, s, txs, m) ==
  g = [x \in SUBSET DOMAIN txs |->
         IF x = {} THEN s ELSE RunTx(g[x \ {Max(x)}], txs[Max(x)], m)]

LEMMA RunIs ==
  ASSUME NEW s, NEW txs, NEW m
  PROVE  Run(s, txs, m) = (CHOOSE g : IsRunFold(g, s, txs, m))[DOMAIN txs]
BY DEF Run, FoldLeft, MapThenFoldSet, IsRunFold

LEMMA RunTrace ==
  ASSUME NEW s \in Results, NEW txs \in Seq(Txs), NEW m \in Miners
  PROVE  \E r : IsRun(r, s, txs, m) /\ Run(s, txs, m) = r[Len(txs)]
<1> DEFINE n == Len(txs)
           F == [p \in Results \X Txs |-> RunTx(p[1], p[2], m)]
           g == CHOOSE g : IsRunFold(g, s, txs, m)
<1>1. n \in Nat /\ DOMAIN txs = 1 .. n /\ \A i \in 1 .. n : txs[i] \in Txs
  BY LenProperties
<1>2. IsRunFold(g, s, txs, m) /\ Run(s, txs, m) = g[1 .. n]
  <2>1. F \in [Results \X Txs -> Results]
    BY RunTxTyped
  <2>2. \A a \in Results, b \in Txs : F[<<a, b>>] = RunTx(a, b, m)
    OBVIOUS
  <2> HIDE DEF F
  <2>3. PICK h \in [SUBSET DOMAIN txs -> Results] : IsFold(h, F, s, txs, SUBSET DOMAIN txs)
    BY <2>1, FoldExists
  <2>4. ASSUME NEW x \in SUBSET DOMAIN txs
        PROVE  h[x] = IF x = {} THEN s ELSE RunTx(h[x \ {Max(x)}], txs[Max(x)], m)
    <3>1. h[x] = IF x = {} THEN s ELSE F[<<h[x \ {Max(x)}], txs[Max(x)]>>]
      BY <2>3 DEF IsFold
    <3>2. CASE x # {}
      <4>1. Max(x) \in x /\ x \ {Max(x)} \in SUBSET DOMAIN txs
        BY <1>1, <3>2, MaxFacts
      <4>2. h[x \ {Max(x)}] \in Results /\ txs[Max(x)] \in Txs
        BY <1>1, <4>1
      <4> QED BY <2>2, <3>1, <3>2, <4>2
    <3> QED BY <3>1, <3>2
  <2>5. IsRunFold(h, s, txs, m)
    BY <2>4 DEF IsRunFold
  <2>6. IsRunFold(g, s, txs, m)
    BY <2>5
  <2> HIDE DEF g
  <2> QED BY <1>1, <2>6, RunIs DEF g
<1> HIDE DEF g, F
<1> DEFINE r == [i \in 0 .. n |-> g[1 .. i]]
<1>3. r[0] = s
  <2>1. 1 .. 0 = {} /\ {} \in SUBSET DOMAIN txs
    OBVIOUS
  <2>2. g[{}] = s
    BY <1>2, <2>1 DEF IsRunFold
  <2> QED BY <1>1, <2>1, <2>2
<1>4. ASSUME NEW i \in 1 .. n PROVE r[i] = RunTx(r[i - 1], txs[i], m)
  <2>1. 1 .. i \in SUBSET DOMAIN txs
    BY <1>1
  <2>2. 1 .. i # {} /\ Max(1 .. i) = i /\ (1 .. i) \ {i} = 1 .. (i - 1)
    BY <1>1, MaxOfPrefix
  <2> DEFINE x == 1 .. i
  <2>3. g[x] = IF x = {} THEN s ELSE RunTx(g[x \ {Max(x)}], txs[Max(x)], m)
    BY <1>2, <2>1 DEF IsRunFold
  <2>4. g[1 .. i] = RunTx(g[1 .. (i - 1)], txs[i], m)
    BY <2>2, <2>3
  <2> QED BY <1>1, <2>4
<1>5. r[n] = g[1 .. n] /\ r = [i \in 0 .. n |-> r[i]]
  BY <1>1
<1> HIDE DEF r
<1>6. \A i \in 0 .. n : r[i] \in Results
  <2> DEFINE T == {i \in 0 .. n : r[i] \in Results}
  <2>1. 0 \in T
    BY <1>1, <1>3
  <2>2. \A i \in 1 .. n : i - 1 \in T => i \in T
    BY <1>1, <1>4, RunTxTyped
  <2> HIDE DEF T
  <2>3. \A i \in 0 .. n : i \in T
    BY <1>1, <2>1, <2>2, Induct
  <2> QED BY <2>3 DEF T
<1>7. IsRun(r, s, txs, m)
  BY <1>3, <1>4, <1>5, <1>6 DEF IsRun
<1> QED BY <1>2, <1>5, <1>7

Started(a) == [ok |-> TRUE, accounts |-> a]

\* A run that succeeds has made every transfer.
LEMMA RunOk ==
  ASSUME NEW txs \in Seq(Txs), NEW m \in Miners, NEW s \in Results, NEW r,
         IsRun(r, s, txs, m), r[Len(txs)].ok
  PROVE  \A i \in 1 .. Len(txs) :
           /\ r[i - 1].ok /\ r[i - 1].accounts \in Accounts /\ txs[i] \in Txs
           /\ Runs(r[i - 1].accounts, txs[i])
           /\ r[i].accounts = Moved(r[i - 1].accounts, txs[i], m)
<1> DEFINE n == Len(txs)
           T == {k \in 0 .. n : r[n - k].ok}
<1>1. n \in Nat /\ \A i \in 1 .. n : txs[i] \in Txs
  BY LenProperties
<1>2. \A i \in 1 .. n : r[i].ok => r[i - 1].ok /\ Runs(r[i - 1].accounts, txs[i])
  <2> TAKE i \in 1 .. n
  <2>1. r[i] = RunTx(r[i - 1], txs[i], m)
    BY DEF IsRun
  <2> QED BY <2>1, RunTxOk
<1>3. 0 \in T
  BY <1>1
<1>4. \A k \in 1 .. n : k - 1 \in T => k \in T
  <2> SUFFICES ASSUME NEW k \in 1 .. n, r[n - (k - 1)].ok PROVE r[n - k].ok
    BY <1>1
  <2>1. n - (k - 1) \in 1 .. n /\ (n - (k - 1)) - 1 = n - k
    BY <1>1
  <2> QED BY <1>2, <2>1
<1>5. \A k \in 0 .. n : k \in T
  <2> HIDE DEF T, n
  <2> QED BY <1>1, <1>3, <1>4, Induct
<1>6. \A i \in 0 .. n : r[i].ok
  <2> TAKE i \in 0 .. n
  <2>1. n - i \in 0 .. n /\ n - (n - i) = i
    BY <1>1
  <2>2. n - i \in T
    BY <1>5, <2>1
  <2> QED BY <2>1, <2>2
<1>7. \A i \in 1 .. n : r[i].accounts = Moved(r[i - 1].accounts, txs[i], m)
  <2> TAKE i \in 1 .. n
  <2>1. r[i] = RunTx(r[i - 1], txs[i], m)
    BY DEF IsRun
  <2>2. r[i].ok
    BY <1>1, <1>6
  <2> QED BY <2>1, <2>2, RunTxOk
<1>8. \A i \in 1 .. n : r[i - 1] \in Results
  BY <1>1 DEF IsRun
<1> QED BY <1>1, <1>2, <1>6, <1>7, <1>8 DEF Results

\* The nonces that y used in the first i transactions, and the positions with dust.
UsedIn(txs, i, y) == {Nonce[txs[j]] : j \in {j \in 1 .. i : From[txs[j]] = y}}

DustIn(txs, i) == {j \in 1 .. i : Dust[txs[j]] = 1}

\* Each account uses its nonces from the first to the last.
LEMMA RunNonces ==
  ASSUME NEW a \in Accounts, NEW txs \in Seq(Txs), NEW m \in Miners, NEW r,
         IsRun(r, Started(a), txs, m), r[Len(txs)].ok
  PROVE  \A i \in 0 .. Len(txs) : \A y \in Addresses :
           /\ a[y].nonce <= r[i].accounts[y].nonce
           /\ UsedIn(txs, i, y) = a[y].nonce .. (r[i].accounts[y].nonce - 1)
<1> DEFINE n == Len(txs)
           Good(i) == \A y \in Addresses :
             /\ a[y].nonce <= r[i].accounts[y].nonce
             /\ UsedIn(txs, i, y) = a[y].nonce .. (r[i].accounts[y].nonce - 1)
           T == {i \in 0 .. n : Good(i)}
<1>1. n \in Nat /\ \A y \in Addresses : a[y].nonce \in Nat
  BY LenProperties DEF Accounts
<1>2. Started(a) \in Results /\ Started(a).accounts = a
  BY DEF Started, Results
<1>3. 0 \in T
  <2>1. r[0].accounts = a
    BY <1>2 DEF IsRun
  <2>2. \A y \in Addresses : UsedIn(txs, 0, y) = {} /\ a[y].nonce .. (a[y].nonce - 1) = {}
    BY <1>1 DEF UsedIn
  <2>3. ASSUME NEW y \in Addresses
        PROVE  /\ a[y].nonce <= r[0].accounts[y].nonce
               /\ UsedIn(txs, 0, y) = a[y].nonce .. (r[0].accounts[y].nonce - 1)
    <3>1. a[y].nonce <= a[y].nonce
      BY <1>1
    <3> QED BY <2>1, <2>2, <3>1
  <2>4. Good(0)
    BY <2>3
  <2> HIDE DEF Good
  <2> QED BY <1>1, <2>4
<1>4. ASSUME NEW i \in 1 .. n, i - 1 \in T PROVE i \in T
  <2> DEFINE b == r[i - 1].accounts
             c == r[i].accounts
             t == txs[i]
  <2>1. b \in Accounts /\ t \in Txs /\ Runs(b, t) /\ c = Moved(b, t, m)
    BY <1>2, RunOk
  <2>2. \A y \in Addresses : c[y].nonce = b[y].nonce + IF y = From[t] THEN 1 ELSE 0
    BY <2>1, MovedFacts
  <2>3. \A y \in Addresses : b[y].nonce \in Nat
    BY <2>1 DEF Accounts
  <2>4. Nonce[t] = b[From[t]].nonce
    BY <2>1 DEF Runs
  <2>5. ASSUME NEW y \in Addresses
        PROVE  a[y].nonce <= c[y].nonce /\ UsedIn(txs, i, y) = a[y].nonce .. (c[y].nonce - 1)
    <3>1. /\ a[y].nonce <= b[y].nonce
          /\ UsedIn(txs, i - 1, y) = a[y].nonce .. (b[y].nonce - 1)
      BY <1>4
    <3>2. UsedIn(txs, i, y) = UsedIn(txs, i - 1, y) \cup (IF From[t] = y THEN {Nonce[t]} ELSE {})
      <4>1. 1 .. i = (1 .. (i - 1)) \cup {i}
        BY <1>1
      <4> QED BY <4>1 DEF UsedIn
    <3> HIDE DEF b, c, t
    <3>3. CASE From[t] = y
      <4>1. c[y].nonce = b[y].nonce + 1 /\ Nonce[t] = b[y].nonce
        BY <2>2, <2>4, <3>3
      <4>2. b[y].nonce \in Nat /\ a[y].nonce \in Nat
        BY <1>1, <2>3
      <4>3. (a[y].nonce .. (b[y].nonce - 1)) \cup {b[y].nonce} = a[y].nonce .. b[y].nonce
        BY <3>1, <4>2
      <4> QED BY <3>1, <3>2, <3>3, <4>1, <4>2, <4>3
    <3>4. CASE From[t] # y
      <4>1. c[y].nonce = b[y].nonce
        BY <2>2, <2>3, <3>4
      <4> QED BY <3>1, <3>2, <3>4, <4>1
    <3> QED BY <3>3, <3>4
  <2> QED BY <1>1, <2>5
<1>5. \A i \in 0 .. n : i \in T
  <2> HIDE DEF T, n
  <2> QED BY <1>1, <1>3, <1>4, Induct
<1> QED BY <1>5

\* The dust of its transactions is all that a run loses.
LEMMA RunSupply ==
  ASSUME NEW a \in Accounts, NEW txs \in Seq(Txs), NEW m \in Miners, NEW r,
         IsRun(r, Started(a), txs, m), r[Len(txs)].ok
  PROVE  \A i \in 0 .. Len(txs) :
           /\ IsFiniteSet(DustIn(txs, i)) /\ Cardinality(DustIn(txs, i)) \in Nat
           /\ Supply(r[i].accounts) = Supply(a) - Cardinality(DustIn(txs, i))
<1> DEFINE n == Len(txs)
           Good(i) == /\ IsFiniteSet(DustIn(txs, i))
                      /\ Supply(r[i].accounts) = Supply(a) - Cardinality(DustIn(txs, i))
           T == {i \in 0 .. n : Good(i)}
<1>1. n \in Nat /\ Supply(a) \in Int
  BY LenProperties, SupplyInt
<1>2. Started(a) \in Results /\ Started(a).accounts = a
  BY DEF Started, Results
<1>3. 0 \in T
  <2>1. r[0].accounts = a
    BY <1>2 DEF IsRun
  <2>2. DustIn(txs, 0) = {}
    BY DEF DustIn
  <2>3. Supply(a) = Supply(a) - 0
    BY <1>1
  <2>4. Good(0)
    BY <2>1, <2>2, <2>3, FS_EmptySet
  <2> HIDE DEF Good
  <2> QED BY <1>1, <2>4
<1>4. ASSUME NEW i \in 1 .. n, i - 1 \in T PROVE i \in T
  <2> DEFINE b == r[i - 1].accounts
             c == r[i].accounts
             t == txs[i]
             D == DustIn(txs, i - 1)
  <2>1. b \in Accounts /\ t \in Txs /\ Runs(b, t) /\ c = Moved(b, t, m)
    BY <1>2, RunOk
  <2>2. Supply(c) = Supply(b) - Dust[t] /\ Dust[t] \in {0, 1}
    BY <2>1, MovedFacts, Facts
  <2>3. IsFiniteSet(D) /\ Cardinality(D) \in Nat /\ Supply(b) = Supply(a) - Cardinality(D)
    BY <1>4, FS_CardinalityType
  <2>4. i \notin D /\ DustIn(txs, i) = IF Dust[t] = 1 THEN D \cup {i} ELSE D
    <3>1. 1 .. i = (1 .. (i - 1)) \cup {i} /\ i \notin 1 .. (i - 1)
      BY <1>1
    <3> QED BY <3>1 DEF DustIn
  <2> HIDE DEF D, b, c
  <2>5. Good(i)
    <3>1. CASE Dust[t] = 1
      <4>1. IsFiniteSet(D \cup {i}) /\ Cardinality(D \cup {i}) = Cardinality(D) + 1
        BY <2>3, <2>4, FS_AddElement
      <4> QED BY <1>1, <2>2, <2>3, <2>4, <3>1, <4>1 DEF c
    <3>2. CASE Dust[t] = 0
      BY <1>1, <2>2, <2>3, <2>4, <3>2 DEF c
    <3> QED BY <2>2, <3>1, <3>2
  <2> QED BY <1>1, <2>5
<1>5. \A i \in 0 .. n : i \in T
  <2> HIDE DEF T, n
  <2> QED BY <1>1, <1>3, <1>4, Induct
<1> QED BY <1>5, FS_CardinalityType

\* Transactions of different senders, each of which can run alone, run together.
LEMMA RunSucceeds ==
  ASSUME NEW a \in Accounts, NEW txs \in Seq(Txs), NEW m \in Miners,
         \A i \in 1 .. Len(txs) : Runs(a, txs[i]),
         \A i, j \in 1 .. Len(txs) : From[txs[i]] = From[txs[j]] => i = j
  PROVE  Run(Started(a), txs, m).ok
<1> DEFINE n == Len(txs)
<1>1. n \in Nat /\ \A i \in 1 .. n : txs[i] \in Txs
  BY LenProperties
<1>2. Started(a) \in Results /\ Started(a).accounts = a /\ Started(a).ok
  BY DEF Started, Results
<1>3. PICK r : IsRun(r, Started(a), txs, m) /\ Run(Started(a), txs, m) = r[n]
  BY <1>2, RunTrace
<1> DEFINE Good(i) == /\ r[i].ok
                      /\ \A y \in Addresses : (\A j \in 1 .. i : From[txs[j]] # y) =>
                           /\ r[i].accounts[y].nonce = a[y].nonce
                           /\ r[i].accounts[y].balance >= a[y].balance
           T == {i \in 0 .. n : Good(i)}
<1>4. 0 \in T
  BY <1>1, <1>2, <1>3 DEF IsRun, Accounts
<1>5. ASSUME NEW i \in 1 .. n, i - 1 \in T PROVE i \in T
  <2> DEFINE b == r[i - 1].accounts
             c == r[i].accounts
             t == txs[i]
  <2>1. r[i - 1] \in Results /\ r[i] = RunTx(r[i - 1], t, m)
    BY <1>1, <1>3 DEF IsRun
  <2>2. b \in Accounts /\ t \in Txs /\ From[t] \in Addresses
    BY <1>1, <2>1, Facts DEF Results
  <2>3. Runs(b, t)
    <3>1. Runs(a, t) /\ \A j \in 1 .. (i - 1) : From[txs[j]] # From[t]
      BY <1>1
    <3>2. b[From[t]].nonce = a[From[t]].nonce /\ b[From[t]].balance >= a[From[t]].balance
      BY <1>5, <2>2, <3>1
    <3>3. /\ b[From[t]].balance \in Nat /\ a[From[t]].balance \in Nat
          /\ Cost(t) \in Nat
      BY <2>2, Facts DEF Accounts
    <3> QED BY <3>1, <3>2, <3>3 DEF Runs
  <2>4. r[i].ok /\ c = Moved(b, t, m)
    <3>1. r[i - 1].ok
      BY <1>5
    <3> QED BY <2>1, <2>3, <3>1 DEF RunTx
  <2>5. ASSUME NEW y \in Addresses, \A j \in 1 .. i : From[txs[j]] # y
        PROVE  c[y].nonce = a[y].nonce /\ c[y].balance >= a[y].balance
    <3>1. y # From[t] /\ \A j \in 1 .. (i - 1) : From[txs[j]] # y
      BY <1>1, <2>5
    <3>2. b[y].nonce = a[y].nonce /\ b[y].balance >= a[y].balance
      BY <1>5, <3>1
    <3>3. /\ c \in Accounts /\ c[y].nonce = b[y].nonce + (IF y = From[t] THEN 1 ELSE 0)
          /\ c[y].balance >= b[y].balance
      BY <2>2, <2>3, <2>4, <3>1, MovedFacts
    <3>4. /\ {a[y].nonce, b[y].nonce, c[y].nonce} \subseteq Nat
          /\ {a[y].balance, b[y].balance, c[y].balance} \subseteq Nat
      BY <2>2, <3>3 DEF Accounts
    <3> HIDE DEF b, c
    <3> QED BY <3>1, <3>2, <3>3, <3>4
  <2> HIDE DEF c
  <2> QED BY <1>1, <2>4, <2>5 DEF c
<1>6. \A i \in 0 .. n : i \in T
  <2> HIDE DEF T, n
  <2> QED BY <1>1, <1>4, <1>5, Induct
<1>7. Good(n)
  BY <1>1, <1>6
<1> QED BY <1>3, <1>7

-----------------------------------------------------------------------------
(* The execution of a block *)

\* What a block of txs makes of the accounts a when it executes.
Applied(a, txs, b) ==
  /\ \A y \in Addresses :
       /\ a[y].nonce <= b[y].nonce
       /\ UsedIn(txs, Len(txs), y) = a[y].nonce .. (b[y].nonce - 1)
  /\ \A i, j \in 1 .. Len(txs) :
       From[txs[i]] = From[txs[j]] /\ i < j => Nonce[txs[i]] < Nonce[txs[j]]
  /\ IsFiniteSet(DustIn(txs, Len(txs)))
  /\ Supply(b) = Supply(a) - Cardinality(DustIn(txs, Len(txs))) + RewardAt(Supply(a))

LEMMA RunTyped ==
  ASSUME NEW s \in Results, NEW txs \in Seq(Txs), NEW m \in Miners
  PROVE  Run(s, txs, m) \in Results
<1>1. PICK r : IsRun(r, s, txs, m) /\ Run(s, txs, m) = r[Len(txs)]
  BY RunTrace
<1>2. Len(txs) \in Nat
  BY LenProperties
<1> QED BY <1>1, <1>2 DEF IsRun

LEMMA ApplyTyped ==
  ASSUME NEW a \in Accounts, NEW txs \in Seq(Txs), NEW m \in Miners
  PROVE  ApplyBlock(a, txs, m) \in Results
<1> DEFINE s == Run(Started(a), txs, m)
           p == Paid(s.accounts, m, RewardAt(Supply(a)))
<1>1. ApplyBlock(a, txs, m) = [ok |-> s.ok, accounts |-> p]
  BY DEF ApplyBlock, Started
<1>2. s \in Results
  BY RunTyped DEF Results, Started
<1> HIDE DEF s
<1>3. s.ok \in BOOLEAN /\ s.accounts \in Accounts
  BY <1>2 DEF Results
<1>4. p \in Accounts
  <2>1. RewardAt(Supply(a)) \in Nat /\ m \in Addresses
    BY SupplyInt, RewardFacts, Facts
  <2> QED BY <1>3, <2>1, PaidFacts
<1> HIDE DEF p
<1> QED BY <1>1, <1>3, <1>4 DEF Results

LEMMA ApplyFacts ==
  ASSUME NEW a \in Accounts, NEW txs \in Seq(Txs), NEW m \in Miners,
         ApplyBlock(a, txs, m).ok
  PROVE  Applied(a, txs, ApplyBlock(a, txs, m).accounts)
<1> DEFINE n == Len(txs)
           s == Run(Started(a), txs, m)
           w == RewardAt(Supply(a))
           b == Paid(s.accounts, m, w)
<1>1. ApplyBlock(a, txs, m) = [ok |-> s.ok, accounts |-> b]
  BY DEF ApplyBlock, Started
<1>2. s.ok /\ ApplyBlock(a, txs, m).accounts = b
  <2> HIDE DEF s, b
  <2>1. [ok |-> s.ok, accounts |-> b].ok = s.ok /\ [ok |-> s.ok, accounts |-> b].accounts = b
    OBVIOUS
  <2> QED BY <1>1, <2>1
<1>3. Started(a) \in Results
  BY DEF Started, Results
<1>4. s \in Results /\ n \in Nat
  BY <1>3, RunTyped, LenProperties
<1>5. PICK r : IsRun(r, Started(a), txs, m) /\ s = r[n]
  BY <1>3, RunTrace
<1>6. Supply(a) \in Int /\ w \in Nat /\ m \in Addresses /\ s.accounts \in Accounts
  BY <1>4, SupplyInt, RewardFacts, Facts DEF Results
<1> HIDE DEF s, w
<1>7. Supply(b) = Supply(s.accounts) + w /\ \A y \in Addresses : b[y].nonce = s.accounts[y].nonce
  BY <1>6, PaidFacts
<1> HIDE DEF b
<1>8. r[n].ok
  BY <1>2, <1>5
<1>9. \A i \in 0 .. n : \A y \in Addresses :
           /\ a[y].nonce <= r[i].accounts[y].nonce
           /\ UsedIn(txs, i, y) = a[y].nonce .. (r[i].accounts[y].nonce - 1)
  BY <1>5, <1>8, RunNonces
<1>10. \A y \in Addresses :
         a[y].nonce <= b[y].nonce /\ UsedIn(txs, n, y) = a[y].nonce .. (b[y].nonce - 1)
  <2>1. n \in 0 .. n
    BY <1>4
  <2> QED BY <1>5, <1>7, <1>9, <2>1
<1>11. ASSUME NEW i \in 1 .. n, NEW j \in 1 .. n, From[txs[i]] = From[txs[j]], i < j
       PROVE  Nonce[txs[i]] < Nonce[txs[j]]
  <2> DEFINE u == From[txs[j]]
             c == r[j - 1].accounts
  <2>1. c \in Accounts /\ txs[j] \in Txs /\ txs[i] \in Txs /\ Runs(c, txs[j])
    BY <1>3, <1>5, <1>8, RunOk
  <2>2. Nonce[txs[j]] = c[u].nonce /\ u \in Addresses
    BY <2>1, Facts DEF Runs
  <2>3. j - 1 \in 0 .. n /\ i \in 1 .. (j - 1)
    BY <1>4, <1>11
  <2>4. Nonce[txs[i]] \in UsedIn(txs, j - 1, u)
    BY <1>11, <2>3 DEF UsedIn
  <2>5. Nonce[txs[i]] \in a[u].nonce .. (c[u].nonce - 1)
    BY <1>9, <2>2, <2>3, <2>4
  <2>6. c[u].nonce \in Nat /\ a[u].nonce \in Nat
    BY <2>1, <2>2 DEF Accounts
  <2> HIDE DEF c, u
  <2> QED BY <2>2, <2>5, <2>6
<1>12. /\ IsFiniteSet(DustIn(txs, n))
       /\ Supply(b) = Supply(a) - Cardinality(DustIn(txs, n)) + w
  <2>1. n \in 0 .. n
    BY <1>4
  <2>2. /\ IsFiniteSet(DustIn(txs, n)) /\ Cardinality(DustIn(txs, n)) \in Nat
        /\ Supply(r[n].accounts) = Supply(a) - Cardinality(DustIn(txs, n))
    BY <1>5, <1>8, <2>1, RunSupply
  <2> QED BY <1>5, <1>6, <1>7, <2>2
<1> QED BY <1>2, <1>10, <1>11, <1>12 DEF Applied, w

-----------------------------------------------------------------------------
(* The replay of a chain *)

LEMMA MovedFreeTyped ==
  ASSUME NEW a \in Accounts, NEW t \in Txs, a[From[t]].balance >= Value[t]
  PROVE  MovedFree(a, t) \in Accounts
<1> DEFINE f == From[t]
           sent == [a EXCEPT ![f] = [balance |-> @.balance - Value[t], nonce |-> @.nonce + 1]]
<1>1. /\ f \in Addresses /\ To[t] \in Addresses /\ Value[t] \in Nat
      /\ a[f].balance \in Nat /\ a[f].nonce \in Nat /\ a[f].balance >= Value[t]
  BY Facts DEF Accounts
<1>2. a[f].balance - Value[t] \in Nat /\ a[f].nonce + 1 \in Nat
  BY <1>1
<1>3. MovedFree(a, t) = Paid(sent, To[t], Value[t])
  BY DEF MovedFree
<1> HIDE DEF f
<1>4. sent \in Accounts
  BY <1>1, <1>2 DEF Accounts
<1> HIDE DEF sent
<1>5. Paid(sent, To[t], Value[t]) \in Accounts
  <2>1. To[t] \in Addresses /\ Value[t] \in Nat
    BY <1>1
  <2> QED BY <1>4, <2>1, PaidFacts
<1> QED BY <1>3, <1>5

LEMMA ReplayTxTyped ==
  ASSUME NEW r \in Results, NEW t \in Txs, NEW m \in Miners
  PROVE  ReplayTx(r, t, m) \in Results
<1> DEFINE pay  == r.accounts[From[t]]
           free == t \in NoGas /\ r.ok /\ pay.balance >= Value[t] /\ pay.nonce = Nonce[t]
<1>1. r.ok \in BOOLEAN /\ r.accounts \in Accounts
  BY DEF Results
<1>2. CASE t \notin NoGas
  BY <1>2, RunTxTyped DEF ReplayTx
<1>3. CASE free
  <2>1. MovedFree(r.accounts, t) \in Accounts
    BY <1>1, <1>3, MovedFreeTyped
  <2>2. ReplayTx(r, t, m) = [ok |-> TRUE, accounts |-> MovedFree(r.accounts, t)]
    BY <1>3 DEF ReplayTx
  <2> QED BY <2>1, <2>2 DEF Results
<1>4. CASE t \in NoGas /\ ~free
  <2>1. ReplayTx(r, t, m) = [ok |-> FALSE, accounts |-> r.accounts]
    BY <1>4 DEF ReplayTx
  <2> QED BY <1>1, <2>1 DEF Results
<1> QED BY <1>2, <1>3, <1>4

\* The results of a replay after each transaction.
IsReplayTxs(r, s, txs, m) ==
  /\ r \in [0 .. Len(txs) -> Results] /\ r[0] = s
  /\ \A i \in 1 .. Len(txs) : r[i] = ReplayTx(r[i - 1], txs[i], m)

IsReplayTxsFold(g, s, txs, m) ==
  g = [x \in SUBSET DOMAIN txs |->
         IF x = {} THEN s ELSE ReplayTx(g[x \ {Max(x)}], txs[Max(x)], m)]

LEMMA ReplayTxsIs ==
  ASSUME NEW s, NEW txs, NEW m
  PROVE  ReplayTxs(s, txs, m) = (CHOOSE g : IsReplayTxsFold(g, s, txs, m))[DOMAIN txs]
BY DEF ReplayTxs, FoldLeft, MapThenFoldSet, IsReplayTxsFold

LEMMA ReplayTxsTrace ==
  ASSUME NEW s \in Results, NEW txs \in Seq(Txs), NEW m \in Miners
  PROVE  \E r : IsReplayTxs(r, s, txs, m) /\ ReplayTxs(s, txs, m) = r[Len(txs)]
<1> DEFINE n == Len(txs)
           F == [p \in Results \X Txs |-> ReplayTx(p[1], p[2], m)]
           g == CHOOSE g : IsReplayTxsFold(g, s, txs, m)
<1>1. n \in Nat /\ DOMAIN txs = 1 .. n /\ \A i \in 1 .. n : txs[i] \in Txs
  BY LenProperties
<1>2. IsReplayTxsFold(g, s, txs, m) /\ ReplayTxs(s, txs, m) = g[1 .. n]
  <2>1. F \in [Results \X Txs -> Results]
    BY ReplayTxTyped
  <2>2. \A a \in Results, b \in Txs : F[<<a, b>>] = ReplayTx(a, b, m)
    OBVIOUS
  <2> HIDE DEF F
  <2>3. PICK h \in [SUBSET DOMAIN txs -> Results] : IsFold(h, F, s, txs, SUBSET DOMAIN txs)
    BY <2>1, FoldExists
  <2>4. ASSUME NEW x \in SUBSET DOMAIN txs
        PROVE  h[x] = IF x = {} THEN s ELSE ReplayTx(h[x \ {Max(x)}], txs[Max(x)], m)
    <3>1. h[x] = IF x = {} THEN s ELSE F[<<h[x \ {Max(x)}], txs[Max(x)]>>]
      BY <2>3 DEF IsFold
    <3>2. CASE x # {}
      <4>1. Max(x) \in x /\ x \ {Max(x)} \in SUBSET DOMAIN txs
        BY <1>1, <3>2, MaxFacts
      <4>2. h[x \ {Max(x)}] \in Results /\ txs[Max(x)] \in Txs
        BY <1>1, <4>1
      <4> QED BY <2>2, <3>1, <3>2, <4>2
    <3> QED BY <3>1, <3>2
  <2>5. IsReplayTxsFold(h, s, txs, m)
    BY <2>4 DEF IsReplayTxsFold
  <2>6. IsReplayTxsFold(g, s, txs, m)
    BY <2>5
  <2> HIDE DEF g
  <2> QED BY <1>1, <2>6, ReplayTxsIs DEF g
<1> HIDE DEF g, F
<1> DEFINE r == [i \in 0 .. n |-> g[1 .. i]]
<1>3. r[0] = s
  <2>1. 1 .. 0 = {} /\ {} \in SUBSET DOMAIN txs
    OBVIOUS
  <2>2. g[{}] = s
    BY <1>2, <2>1 DEF IsReplayTxsFold
  <2> QED BY <1>1, <2>1, <2>2
<1>4. ASSUME NEW i \in 1 .. n PROVE r[i] = ReplayTx(r[i - 1], txs[i], m)
  <2>1. 1 .. i \in SUBSET DOMAIN txs
    BY <1>1
  <2>2. 1 .. i # {} /\ Max(1 .. i) = i /\ (1 .. i) \ {i} = 1 .. (i - 1)
    BY <1>1, MaxOfPrefix
  <2> DEFINE x == 1 .. i
  <2>3. g[x] = IF x = {} THEN s ELSE ReplayTx(g[x \ {Max(x)}], txs[Max(x)], m)
    BY <1>2, <2>1 DEF IsReplayTxsFold
  <2>4. g[1 .. i] = ReplayTx(g[1 .. (i - 1)], txs[i], m)
    BY <2>2, <2>3
  <2> QED BY <1>1, <2>4
<1>5. r[n] = g[1 .. n] /\ r = [i \in 0 .. n |-> r[i]]
  BY <1>1
<1> HIDE DEF r
<1>6. \A i \in 0 .. n : r[i] \in Results
  <2> DEFINE T == {i \in 0 .. n : r[i] \in Results}
  <2>1. 0 \in T
    BY <1>1, <1>3
  <2>2. \A i \in 1 .. n : i - 1 \in T => i \in T
    BY <1>1, <1>4, ReplayTxTyped
  <2> HIDE DEF T
  <2>3. \A i \in 0 .. n : i \in T
    BY <1>1, <2>1, <2>2, Induct
  <2> QED BY <2>3 DEF T
<1>7. IsReplayTxs(r, s, txs, m)
  BY <1>3, <1>4, <1>5, <1>6 DEF IsReplayTxs
<1> QED BY <1>2, <1>5, <1>7

\* Without a gas of zero a replay of transactions is their execution.
LEMMA ReplayTxsAgree ==
  ASSUME NEW s \in Results, NEW txs \in Seq(Txs), NEW m \in Miners,
         \A i \in 1 .. Len(txs) : txs[i] \notin NoGas
  PROVE  ReplayTxs(s, txs, m) = Run(s, txs, m)
<1> DEFINE n == Len(txs)
<1>1. n \in Nat
  BY LenProperties
<1>2. PICK r : IsRun(r, s, txs, m) /\ Run(s, txs, m) = r[n]
  BY RunTrace
<1>3. PICK q : IsReplayTxs(q, s, txs, m) /\ ReplayTxs(s, txs, m) = q[n]
  BY ReplayTxsTrace
<1> DEFINE T == {i \in 0 .. n : q[i] = r[i]}
<1>4. 0 \in T
  BY <1>1, <1>2, <1>3 DEF IsRun, IsReplayTxs
<1>5. ASSUME NEW i \in 1 .. n, i - 1 \in T PROVE i \in T
  <2>1. r[i] = RunTx(r[i - 1], txs[i], m) /\ q[i] = ReplayTx(q[i - 1], txs[i], m)
    BY <1>2, <1>3 DEF IsRun, IsReplayTxs
  <2>2. q[i - 1] = r[i - 1] /\ txs[i] \notin NoGas
    BY <1>5
  <2>3. q[i] = r[i]
    BY <2>1, <2>2 DEF ReplayTx
  <2> QED BY <1>1, <2>3
<1>6. \A i \in 0 .. n : i \in T
  <2> HIDE DEF T, n
  <2> QED BY <1>1, <1>4, <1>5, Induct
<1>7. q[n] = r[n]
  BY <1>1, <1>6
<1> QED BY <1>2, <1>3, <1>7

LEMMA ReplayTxsTyped ==
  ASSUME NEW s \in Results, NEW txs \in Seq(Txs), NEW m \in Miners
  PROVE  ReplayTxs(s, txs, m) \in Results
<1>1. PICK r : IsReplayTxs(r, s, txs, m) /\ ReplayTxs(s, txs, m) = r[Len(txs)]
  BY ReplayTxsTrace
<1>2. Len(txs) \in Nat
  BY LenProperties
<1> QED BY <1>1, <1>2 DEF IsReplayTxs

Replays == [ok : BOOLEAN, supply : Int, accounts : Accounts]

FirstReplay == [ok |-> TRUE, supply |-> Supply(GenesisAccounts), accounts |-> GenesisAccounts]

LEMMA FirstReplayTyped == FirstReplay \in Replays
<1>1. Supply(GenesisAccounts) \in Int
  BY GenesisTyped, SupplyInt
<1> QED BY <1>1, GenesisTyped DEF FirstReplay, Replays

LEMMA ReplayBlockTyped ==
  ASSUME NEW s \in Replays, NEW b \in Blocks
  PROVE  ReplayBlock(s, b) \in Replays
<1> DEFINE z == [ok |-> s.ok, accounts |-> s.accounts]
           r == ReplayTxs(z, b.txs, b.miner)
           w == RewardAt(s.supply)
           p == Paid(r.accounts, b.miner, w)
           k == ReplayedSupply(s.supply)
<1>1. ReplayBlock(s, b) = [ok |-> r.ok, supply |-> k, accounts |-> p]
  BY DEF ReplayBlock
<1>2. s.ok \in BOOLEAN /\ s.accounts \in Accounts /\ s.supply \in Int
  BY DEF Replays
<1>3. b.txs \in Seq(Txs) /\ b.miner \in Miners /\ b.miner \in Addresses
  BY Facts DEF Blocks
<1>4. z \in Results
  BY <1>2 DEF Results
<1> HIDE DEF z
<1>5. r \in Results
  BY <1>3, <1>4, ReplayTxsTyped
<1> HIDE DEF r
<1>6. r.ok \in BOOLEAN /\ r.accounts \in Accounts
  BY <1>5 DEF Results
<1>7. w \in Nat /\ k = s.supply + w
  BY <1>2, RewardFacts DEF ReplayedSupply
<1> HIDE DEF w, k
<1>8. p \in Accounts /\ k \in Int
  BY <1>2, <1>3, <1>6, <1>7, PaidFacts
<1> HIDE DEF p
<1> QED BY <1>1, <1>6, <1>8 DEF Replays

\* The results after each block.
IsReplay(r, blocks) ==
  /\ r \in [0 .. Len(blocks) -> Replays] /\ r[0] = FirstReplay
  /\ \A i \in 1 .. Len(blocks) : r[i] = ReplayBlock(r[i - 1], blocks[i])

IsReplayFold(g, blocks) ==
  g = [x \in SUBSET DOMAIN blocks |->
         IF x = {} THEN FirstReplay ELSE ReplayBlock(g[x \ {Max(x)}], blocks[Max(x)])]

LEMMA ReplayIs ==
  ASSUME NEW blocks
  PROVE  Replay(blocks) = (CHOOSE g : IsReplayFold(g, blocks))[DOMAIN blocks]
BY DEF Replay, FoldLeft, MapThenFoldSet, IsReplayFold, FirstReplay

LEMMA ReplayTrace ==
  ASSUME NEW blocks \in Seq(Blocks)
  PROVE  \E r : IsReplay(r, blocks) /\ Replay(blocks) = r[Len(blocks)]
<1> DEFINE n == Len(blocks)
           F == [p \in Replays \X Blocks |-> ReplayBlock(p[1], p[2])]
           g == CHOOSE g : IsReplayFold(g, blocks)
<1>1. n \in Nat /\ DOMAIN blocks = 1 .. n /\ \A i \in 1 .. n : blocks[i] \in Blocks
  BY LenProperties
<1>2. IsReplayFold(g, blocks) /\ Replay(blocks) = g[1 .. n]
  <2>1. F \in [Replays \X Blocks -> Replays]
    BY ReplayBlockTyped
  <2>2. \A a \in Replays, b \in Blocks : F[<<a, b>>] = ReplayBlock(a, b)
    OBVIOUS
  <2> HIDE DEF F
  <2>3. PICK h \in [SUBSET DOMAIN blocks -> Replays] :
          IsFold(h, F, FirstReplay, blocks, SUBSET DOMAIN blocks)
    BY <2>1, FirstReplayTyped, FoldExists
  <2>4. ASSUME NEW x \in SUBSET DOMAIN blocks
        PROVE  h[x] = IF x = {} THEN FirstReplay ELSE ReplayBlock(h[x \ {Max(x)}], blocks[Max(x)])
    <3>1. h[x] = IF x = {} THEN FirstReplay ELSE F[<<h[x \ {Max(x)}], blocks[Max(x)]>>]
      BY <2>3 DEF IsFold
    <3>2. CASE x # {}
      <4>1. Max(x) \in x /\ x \ {Max(x)} \in SUBSET DOMAIN blocks
        BY <1>1, <3>2, MaxFacts
      <4>2. h[x \ {Max(x)}] \in Replays /\ blocks[Max(x)] \in Blocks
        BY <1>1, <4>1
      <4> QED BY <2>2, <3>1, <3>2, <4>2
    <3> QED BY <3>1, <3>2
  <2>5. IsReplayFold(h, blocks)
    BY <2>4 DEF IsReplayFold
  <2>6. IsReplayFold(g, blocks)
    BY <2>5
  <2> HIDE DEF g
  <2> QED BY <1>1, <2>6, ReplayIs DEF g
<1> HIDE DEF g, F
<1> DEFINE r == [i \in 0 .. n |-> g[1 .. i]]
<1>3. r[0] = FirstReplay
  <2>1. 1 .. 0 = {} /\ {} \in SUBSET DOMAIN blocks
    OBVIOUS
  <2>2. g[{}] = FirstReplay
    BY <1>2, <2>1 DEF IsReplayFold
  <2> QED BY <1>1, <2>1, <2>2
<1>4. ASSUME NEW i \in 1 .. n PROVE r[i] = ReplayBlock(r[i - 1], blocks[i])
  <2>1. 1 .. i \in SUBSET DOMAIN blocks
    BY <1>1
  <2>2. 1 .. i # {} /\ Max(1 .. i) = i /\ (1 .. i) \ {i} = 1 .. (i - 1)
    BY <1>1, MaxOfPrefix
  <2> DEFINE x == 1 .. i
  <2>3. g[x] = IF x = {} THEN FirstReplay ELSE ReplayBlock(g[x \ {Max(x)}], blocks[Max(x)])
    BY <1>2, <2>1 DEF IsReplayFold
  <2>4. g[1 .. i] = ReplayBlock(g[1 .. (i - 1)], blocks[i])
    BY <2>2, <2>3
  <2> QED BY <1>1, <2>4
<1>5. r[n] = g[1 .. n] /\ r = [i \in 0 .. n |-> r[i]]
  BY <1>1
<1> HIDE DEF r
<1>6. \A i \in 0 .. n : r[i] \in Replays
  <2> DEFINE T == {i \in 0 .. n : r[i] \in Replays}
  <2>1. 0 \in T
    BY <1>1, <1>3, FirstReplayTyped
  <2>2. \A i \in 1 .. n : i - 1 \in T => i \in T
    BY <1>1, <1>4, ReplayBlockTyped
  <2> HIDE DEF T
  <2>3. \A i \in 0 .. n : i \in T
    BY <1>1, <2>1, <2>2, Induct
  <2> QED BY <2>3 DEF T
<1>7. IsReplay(r, blocks)
  BY <1>3, <1>4, <1>5, <1>6 DEF IsReplay
<1> QED BY <1>2, <1>5, <1>7

\* A longer chain is replayed by replaying its last block.
LEMMA ReplayEmpty == Replay(<<>>) = FirstReplay
<1>1. <<>> \in Seq(Blocks) /\ Len(<<>>) = 0
  BY EmptySeq
<1>2. PICK r : IsReplay(r, <<>>) /\ Replay(<<>>) = r[Len(<<>>)]
  BY <1>1, ReplayTrace
<1> QED BY <1>1, <1>2 DEF IsReplay

LEMMA ReplayAppend ==
  ASSUME NEW c \in Seq(Blocks), NEW b \in Blocks
  PROVE  /\ Replay(c) \in Replays
         /\ Replay(Append(c, b)) = ReplayBlock(Replay(c), b)
<1> DEFINE n == Len(c)
           d == Append(c, b)
<1>1. n \in Nat /\ d \in Seq(Blocks) /\ Len(d) = n + 1 /\ d[n + 1] = b
      /\ \A i \in 1 .. n : d[i] = c[i]
  BY LenProperties, AppendProperties
<1> HIDE DEF d
<1>2. PICK r : IsReplay(r, c) /\ Replay(c) = r[n]
  BY ReplayTrace
<1>3. PICK q : IsReplay(q, d) /\ Replay(d) = q[n + 1]
  BY <1>1, ReplayTrace
<1> DEFINE T == {i \in 0 .. n : q[i] = r[i]}
<1>4. 0 \in T
  BY <1>1, <1>2, <1>3 DEF IsReplay
<1>5. ASSUME NEW i \in 1 .. n, i - 1 \in T PROVE i \in T
  <2>1. i \in 1 .. (n + 1) /\ d[i] = c[i]
    BY <1>1
  <2>2. r[i] = ReplayBlock(r[i - 1], c[i]) /\ q[i] = ReplayBlock(q[i - 1], d[i])
    BY <1>1, <1>2, <1>3, <2>1 DEF IsReplay
  <2> QED BY <1>1, <1>5, <2>1, <2>2
<1>6. \A i \in 0 .. n : i \in T
  <2> HIDE DEF T, n
  <2> QED BY <1>1, <1>4, <1>5, Induct
<1>7. q[n] = r[n] /\ r[n] \in Replays
  BY <1>1, <1>2, <1>6 DEF IsReplay
<1>8. q[n + 1] = ReplayBlock(q[n], b)
  <2>1. n + 1 \in 1 .. Len(d) /\ (n + 1) - 1 = n
    BY <1>1
  <2> QED BY <1>1, <1>3, <2>1 DEF IsReplay
<1> QED BY <1>2, <1>3, <1>7, <1>8 DEF d

-----------------------------------------------------------------------------
(* What holds of every prefix of the chain *)

LEMMA BlockTxs ==
  ASSUME NEW c \in Seq(Blocks), NEW i \in 1 .. Len(c)
  PROVE  c[i] \in Blocks /\ c[i].txs \in Seq(Txs) /\ c[i].root \in Accounts
<1>1. c[i] \in Blocks
  BY ElementOfSeq
<1> QED BY <1>1 DEF Blocks

LEMMA PlacesAre ==
  ASSUME NEW c \in Seq(Blocks)
  PROVE  /\ \A i \in Nat, j \in Nat :
              <<i, j>> \in Places(c) <=> i \in 1 .. Len(c) /\ j \in 1 .. Len(c[i].txs)
         /\ \A p \in Places(c) : \E i \in 1 .. Len(c) : \E j \in 1 .. Len(c[i].txs) : p = <<i, j>>
<1>1. DOMAIN c = 1 .. Len(c) /\ Len(c) \in Nat
  BY LenProperties
<1>2. \A i \in 1 .. Len(c) : c[i].txs \in Seq(Txs)
  BY BlockTxs
<1>3. \A i \in 1 .. Len(c) : DOMAIN c[i].txs = 1 .. Len(c[i].txs) /\ Len(c[i].txs) \in Nat
  BY <1>2, LenProperties
<1>4. ASSUME NEW p \in Places(c)
      PROVE  \E i \in 1 .. Len(c) : \E j \in 1 .. Len(c[i].txs) : p = <<i, j>>
  <2>1. PICK i \in 1 .. Len(c) : p \in {i} \X DOMAIN c[i].txs
    BY <1>1 DEF Places
  <2>2. PICK j \in DOMAIN c[i].txs : p = <<i, j>>
    BY <2>1
  <2> QED BY <1>3, <2>2
<1>5. ASSUME NEW i \in 1 .. Len(c), NEW j \in 1 .. Len(c[i].txs)
      PROVE  <<i, j>> \in Places(c)
  <2>1. <<i, j>> \in {i} \X DOMAIN c[i].txs
    BY <1>3
  <2> QED BY <1>1, <2>1 DEF Places
<1>6. ASSUME NEW i \in Nat, NEW j \in Nat, <<i, j>> \in Places(c)
      PROVE  i \in 1 .. Len(c) /\ j \in 1 .. Len(c[i].txs)
  <2>1. PICK k \in 1 .. Len(c) : \E l \in 1 .. Len(c[k].txs) : <<i, j>> = <<k, l>>
    BY <1>4, <1>6
  <2> QED BY <2>1
<1> QED BY <1>4, <1>5, <1>6

\* The places of a longer chain: those before, and those of the last block.
LEMMA PlacesAppend ==
  ASSUME NEW c \in Seq(Blocks), NEW b \in Blocks
  PROVE  /\ \A p \in Places(c) :
              /\ p \in Places(Append(c, b)) /\ TxAt(Append(c, b), p) = TxAt(c, p)
              /\ p[1] \in 1 .. Len(c) /\ p[2] \in Nat /\ TxAt(c, p) \in Txs
         /\ \A j \in 1 .. Len(b.txs) :
              /\ <<Len(c) + 1, j>> \in Places(Append(c, b))
              /\ <<Len(c) + 1, j>> \notin Places(c)
              /\ TxAt(Append(c, b), <<Len(c) + 1, j>>) = b.txs[j] /\ b.txs[j] \in Txs
         /\ \A p \in Places(Append(c, b)) :
              p \in Places(c) \/ \E j \in 1 .. Len(b.txs) : p = <<Len(c) + 1, j>>
<1> DEFINE n == Len(c)
           d == Append(c, b)
<1>1. /\ n \in Nat /\ d \in Seq(Blocks) /\ Len(d) = n + 1 /\ d[n + 1] = b
      /\ \A i \in 1 .. n : d[i] = c[i]
  BY LenProperties, AppendProperties
<1>2. /\ b.txs \in Seq(Txs) /\ \A j \in 1 .. Len(b.txs) : b.txs[j] \in Txs
      /\ \A i \in 1 .. n : c[i].txs \in Seq(Txs)
  <2>1. b.txs \in Seq(Txs)
    BY DEF Blocks
  <2> QED BY <2>1, BlockTxs, ElementOfSeq
<1> HIDE DEF d
<1>3. ASSUME NEW p \in Places(c)
      PROVE  /\ p \in Places(d) /\ TxAt(d, p) = TxAt(c, p)
             /\ p[1] \in 1 .. n /\ p[2] \in Nat /\ TxAt(c, p) \in Txs
  <2> PICK i \in 1 .. n : \E j \in 1 .. Len(c[i].txs) : p = <<i, j>>
    BY PlacesAre
  <2>1. PICK j \in 1 .. Len(c[i].txs) : p = <<i, j>>
    OBVIOUS
  <2>2. i \in Nat /\ i \in 1 .. Len(d) /\ d[i] = c[i]
    BY <1>1
  <2>3. Len(c[i].txs) \in Nat /\ c[i].txs[j] \in Txs
    BY <1>2, LenProperties, ElementOfSeq
  <2>4. j \in Nat
    BY <2>3
  <2>5. p \in Places(d)
    BY <1>1, <2>1, <2>2, <2>4, PlacesAre
  <2>6. p[1] = i /\ p[2] = j
    BY <2>1
  <2> QED BY <2>2, <2>3, <2>4, <2>5, <2>6 DEF TxAt
<1>4. ASSUME NEW j \in 1 .. Len(b.txs)
      PROVE  /\ <<n + 1, j>> \in Places(d) /\ <<n + 1, j>> \notin Places(c)
             /\ TxAt(d, <<n + 1, j>>) = b.txs[j]
  <2>1. j \in Nat /\ n + 1 \in Nat /\ n + 1 \in 1 .. Len(d) /\ n + 1 \notin 1 .. n
    BY <1>1
  <2>2. <<n + 1, j>> \in Places(d)
    BY <1>1, <2>1, PlacesAre
  <2>3. <<n + 1, j>> \notin Places(c)
    BY <2>1, PlacesAre
  <2>4. <<n + 1, j>>[1] = n + 1 /\ <<n + 1, j>>[2] = j
    OBVIOUS
  <2> QED BY <1>1, <2>2, <2>3, <2>4 DEF TxAt
<1>5. ASSUME NEW p \in Places(d)
      PROVE  p \in Places(c) \/ \E j \in 1 .. Len(b.txs) : p = <<n + 1, j>>
  <2> PICK i \in 1 .. Len(d) : \E j \in 1 .. Len(d[i].txs) : p = <<i, j>>
    BY <1>1, PlacesAre
  <2>1. PICK j \in 1 .. Len(d[i].txs) : p = <<i, j>>
    OBVIOUS
  <2>2. CASE i = n + 1
    BY <1>1, <2>1, <2>2
  <2>3. CASE i # n + 1
    <3>1. i \in 1 .. n /\ i \in Nat
      BY <1>1, <2>3
    <3>2. d[i] = c[i]
      BY <1>1, <3>1
    <3>3. Len(c[i].txs) \in Nat
      BY <1>2, <3>1, LenProperties
    <3>4. j \in Nat /\ j \in 1 .. Len(c[i].txs)
      BY <2>1, <3>2, <3>3
    <3> QED BY <2>1, <3>1, <3>4, PlacesAre
  <2> QED BY <2>2, <2>3
<1> QED BY <1>2, <1>3, <1>4, <1>5 DEF d

Dusty(c) == {p \in Places(c) : Dust[TxAt(c, p)] = 1}

InOrder(c) ==
  \A p, q \in Places(c) :
    From[TxAt(c, p)] = From[TxAt(c, q)] /\ Earlier(p, q) => Nonce[TxAt(c, p)] < Nonce[TxAt(c, q)]

NoncesUsed(c) == \A u \in Users : Used(c, u) = 0 .. (Root(c)[u].nonce - 1)

Funded(c) ==
  /\ IsFiniteSet(Dusty(c)) /\ Supply(Root(c)) <= MaxSupply
  /\ Minted(c) <= MaxSupply => Supply(Root(c)) = Minted(c) - Lost(c)

\* Execution sums up the supply and replay counts the rewards: the two are equal
\* until the maximum, and beyond it when no dust was lost.  The accounts agree as
\* well when no transaction names a gas of zero.
Replayed(c) ==
  /\ Lost(c) = 0 => Replay(c).supply = Supply(Root(c))
  /\ Minted(c) <= MaxSupply => Replay(c).supply = Minted(c)
  /\ ~FreeInReplay(c) /\ (Lost(c) = 0 \/ Minted(c) <= MaxSupply)
       => Replay(c).ok /\ Replay(c).accounts = Root(c)

Sound(c) == InOrder(c) /\ NoncesUsed(c) /\ Funded(c) /\ Replayed(c)

\* The block that execution appends to c.
Extends(c, b) ==
  /\ b \in Blocks /\ ApplyBlock(Root(c), b.txs, b.miner).ok
  /\ b.root = ApplyBlock(Root(c), b.txs, b.miner).accounts

LEMMA RootTyped ==
  ASSUME NEW c \in Seq(Blocks)
  PROVE  Root(c) \in Accounts
<1>1. CASE c = <<>>
  BY <1>1, GenesisTyped DEF Root
<1>2. CASE c # <<>>
  <2>1. Len(c) \in 1 .. Len(c)
    BY <1>2, EmptySeq
  <2> QED BY <1>2, <2>1, BlockTxs DEF Root, Last
<1> QED BY <1>1, <1>2

LEMMA RootAppend ==
  ASSUME NEW c \in Seq(Blocks), NEW b \in Blocks
  PROVE  Root(Append(c, b)) = b.root
BY AppendProperties DEF Root, Last

LEMMA ExtendsFacts ==
  ASSUME NEW c \in Seq(Blocks), NEW b, Extends(c, b)
  PROVE  /\ b \in Blocks /\ b.txs \in Seq(Txs) /\ b.miner \in Miners /\ b.root \in Accounts
         /\ Root(c) \in Accounts /\ Root(Append(c, b)) = b.root
         /\ Applied(Root(c), b.txs, b.root)
<1>1. b \in Blocks /\ b.txs \in Seq(Txs) /\ b.miner \in Miners /\ b.root \in Accounts
  BY DEF Extends, Blocks
<1>2. Root(c) \in Accounts /\ Root(Append(c, b)) = b.root
  BY <1>1, RootTyped, RootAppend
<1>3. Applied(Root(c), b.txs, b.root)
  BY <1>1, <1>2, ApplyFacts DEF Extends
<1> QED BY <1>1, <1>2, <1>3

LEMMA UsedAppend ==
  ASSUME NEW c \in Seq(Blocks), NEW b \in Blocks, NEW u
  PROVE  Used(Append(c, b), u) = Used(c, u) \cup UsedIn(b.txs, Len(b.txs), u)
<1> DEFINE d == Append(c, b)
<1>1. /\ \A p \in Places(c) : p \in Places(d) /\ TxAt(d, p) = TxAt(c, p)
      /\ \A j \in 1 .. Len(b.txs) :
           <<Len(c) + 1, j>> \in Places(d) /\ TxAt(d, <<Len(c) + 1, j>>) = b.txs[j]
      /\ \A p \in Places(d) :
           p \in Places(c) \/ \E j \in 1 .. Len(b.txs) : p = <<Len(c) + 1, j>>
  BY PlacesAppend
<1> HIDE DEF d
<1>2. ASSUME NEW x \in Used(d, u) PROVE x \in Used(c, u) \cup UsedIn(b.txs, Len(b.txs), u)
  <2>1. PICK p \in Places(d) : From[TxAt(d, p)] = u /\ x = Nonce[TxAt(d, p)]
    BY <1>2 DEF Used
  <2>2. CASE p \in Places(c)
    BY <1>1, <2>1, <2>2 DEF Used
  <2>3. ASSUME NEW j \in 1 .. Len(b.txs), p = <<Len(c) + 1, j>>
        PROVE  x \in UsedIn(b.txs, Len(b.txs), u)
    <3>1. TxAt(d, p) = b.txs[j]
      BY <1>1, <2>3
    <3> QED BY <2>1, <3>1 DEF UsedIn
  <2> QED BY <1>1, <2>2, <2>3
<1>3. ASSUME NEW x \in Used(c, u) PROVE x \in Used(d, u)
  <2>1. PICK p \in Places(c) : From[TxAt(c, p)] = u /\ x = Nonce[TxAt(c, p)]
    BY <1>3 DEF Used
  <2>2. p \in Places(d) /\ TxAt(d, p) = TxAt(c, p)
    BY <1>1
  <2> QED BY <2>1, <2>2 DEF Used
<1>4. ASSUME NEW x \in UsedIn(b.txs, Len(b.txs), u) PROVE x \in Used(d, u)
  <2>1. PICK j \in 1 .. Len(b.txs) : From[b.txs[j]] = u /\ x = Nonce[b.txs[j]]
    BY <1>4 DEF UsedIn
  <2>2. <<Len(c) + 1, j>> \in Places(d) /\ TxAt(d, <<Len(c) + 1, j>>) = b.txs[j]
    BY <1>1
  <2> QED BY <2>1, <2>2 DEF Used
<1>5. Used(d, u) = Used(c, u) \cup UsedIn(b.txs, Len(b.txs), u)
  BY <1>2, <1>3, <1>4
<1> QED BY <1>5 DEF d

LEMMA NoncesAppend ==
  ASSUME NEW c \in Seq(Blocks), NEW b, Extends(c, b), NoncesUsed(c)
  PROVE  NoncesUsed(Append(c, b))
<1> SUFFICES ASSUME NEW u \in Users
             PROVE  Used(Append(c, b), u) = 0 .. (Root(Append(c, b))[u].nonce - 1)
  BY DEF NoncesUsed
<1> DEFINE x == Root(c)[u].nonce
           y == b.root[u].nonce
<1>1. b \in Blocks /\ Root(c) \in Accounts /\ b.root \in Accounts /\ Root(Append(c, b)) = b.root
  BY ExtendsFacts
<1>2. u \in Addresses
  BY DEF Addresses
<1>3. x \in Nat /\ y \in Nat
  BY <1>1, <1>2 DEF Accounts
<1>4. x <= y /\ UsedIn(b.txs, Len(b.txs), u) = x .. (y - 1)
  BY <1>2, ExtendsFacts DEF Applied
<1>5. Used(c, u) = 0 .. (x - 1)
  BY DEF NoncesUsed
<1> HIDE DEF x, y
<1>6. (0 .. (x - 1)) \cup (x .. (y - 1)) = 0 .. (y - 1)
  BY <1>3, <1>4
<1>7. Used(Append(c, b), u) = 0 .. (y - 1)
  BY <1>1, <1>4, <1>5, <1>6, UsedAppend
<1> QED BY <1>1, <1>7 DEF y

LEMMA OrderAppend ==
  ASSUME NEW c \in Seq(Blocks), NEW b, Extends(c, b), NoncesUsed(c), InOrder(c)
  PROVE  InOrder(Append(c, b))
<1> DEFINE d == Append(c, b)
           n == Len(c)
<1>1. b \in Blocks /\ Root(c) \in Accounts /\ b.root \in Accounts /\ Applied(Root(c), b.txs, b.root)
  BY ExtendsFacts
<1>2. /\ \A p \in Places(c) : TxAt(d, p) = TxAt(c, p) /\ p[1] \in 1 .. n /\ TxAt(c, p) \in Txs
      /\ \A j \in 1 .. Len(b.txs) : TxAt(d, <<n + 1, j>>) = b.txs[j] /\ b.txs[j] \in Txs
      /\ \A p \in Places(d) : p \in Places(c) \/ \E j \in 1 .. Len(b.txs) : p = <<n + 1, j>>
  BY <1>1, PlacesAppend
<1>3. n \in Nat
  BY LenProperties
<1> HIDE DEF d, n
<1> SUFFICES ASSUME NEW p \in Places(d), NEW q \in Places(d),
                    From[TxAt(d, p)] = From[TxAt(d, q)], Earlier(p, q)
             PROVE  Nonce[TxAt(d, p)] < Nonce[TxAt(d, q)]
  BY DEF InOrder, d
<1>4. CASE p \in Places(c) /\ q \in Places(c)
  BY <1>2, <1>4 DEF InOrder
<1>5. ASSUME p \in Places(c), NEW j \in 1 .. Len(b.txs), q = <<n + 1, j>>
      PROVE  Nonce[TxAt(d, p)] < Nonce[TxAt(d, q)]
  <2> DEFINE u == From[b.txs[j]]
             x == Root(c)[u].nonce
             y == b.root[u].nonce
  <2>1. TxAt(d, q) = b.txs[j] /\ TxAt(d, p) = TxAt(c, p) /\ u \in Users /\ u \in Addresses
    BY <1>2, <1>5, Facts
  <2>2. Nonce[TxAt(c, p)] \in Used(c, u)
    BY <1>5, <2>1 DEF Used
  <2>3. Nonce[b.txs[j]] \in UsedIn(b.txs, Len(b.txs), u)
    BY DEF UsedIn
  <2>4. Nonce[TxAt(c, p)] \in 0 .. (x - 1)
    BY <2>1, <2>2 DEF NoncesUsed
  <2>5. Nonce[b.txs[j]] \in x .. (y - 1)
    BY <1>1, <2>1, <2>3 DEF Applied
  <2>6. x \in Nat /\ y \in Nat
    BY <1>1, <2>1 DEF Accounts
  <2> HIDE DEF x, y
  <2> QED BY <2>1, <2>4, <2>5, <2>6
<1>6. ASSUME q \in Places(c), NEW j \in 1 .. Len(b.txs), p = <<n + 1, j>>
      PROVE  FALSE
  <2>1. p[1] = n + 1 /\ q[1] \in 1 .. n
    BY <1>2, <1>6
  <2> QED BY <1>3, <2>1 DEF Earlier
<1>7. ASSUME NEW i \in 1 .. Len(b.txs), p = <<n + 1, i>>,
             NEW j \in 1 .. Len(b.txs), q = <<n + 1, j>>
      PROVE  Nonce[TxAt(d, p)] < Nonce[TxAt(d, q)]
  <2>1. TxAt(d, p) = b.txs[i] /\ TxAt(d, q) = b.txs[j]
    BY <1>2, <1>7
  <2>2. i < j
    <3>1. p[1] = n + 1 /\ q[1] = n + 1 /\ p[2] = i /\ q[2] = j
      BY <1>7
    <3> QED BY <1>3, <3>1 DEF Earlier
  <2> QED BY <1>1, <2>1, <2>2 DEF Applied
<1> QED BY <1>2, <1>4, <1>5, <1>6, <1>7

LEMMA LostAppend ==
  ASSUME NEW c \in Seq(Blocks), NEW b, Extends(c, b), IsFiniteSet(Dusty(c))
  PROVE  /\ IsFiniteSet(Dusty(Append(c, b))) /\ Lost(c) \in Nat
         /\ Cardinality(DustIn(b.txs, Len(b.txs))) \in Nat
         /\ Lost(Append(c, b)) = Lost(c) + Cardinality(DustIn(b.txs, Len(b.txs)))
<1> DEFINE d == Append(c, b)
           n == Len(c)
           D == DustIn(b.txs, Len(b.txs))
           E == {n + 1} \X D
<1>1. b \in Blocks /\ IsFiniteSet(D)
  BY ExtendsFacts DEF Applied
<1>2. /\ \A p \in Places(c) : p \in Places(d) /\ TxAt(d, p) = TxAt(c, p)
      /\ \A j \in 1 .. Len(b.txs) :
           /\ TxAt(d, <<n + 1, j>>) = b.txs[j]
           /\ <<n + 1, j>> \in Places(d) /\ <<n + 1, j>> \notin Places(c)
      /\ \A p \in Places(d) : p \in Places(c) \/ \E j \in 1 .. Len(b.txs) : p = <<n + 1, j>>
  BY <1>1, PlacesAppend
<1> HIDE DEF d, n
<1>3. \A j : j \in D <=> j \in 1 .. Len(b.txs) /\ Dust[b.txs[j]] = 1
  BY DEF DustIn
<1>4. \A p : p \in E <=> \E j \in D : p = <<n + 1, j>>
  OBVIOUS
<1> HIDE DEF D
<1>5. IsFiniteSet(E) /\ Cardinality(E) = Cardinality(D) /\ Cardinality(D) \in Nat
  <2>1. IsFiniteSet({n + 1}) /\ Cardinality({n + 1}) = 1
    BY FS_Singleton
  <2>2. IsFiniteSet(E) /\ Cardinality(E) = Cardinality({n + 1}) * Cardinality(D)
    BY <1>1, <2>1, FS_Product
  <2>3. Cardinality(D) \in Nat
    BY <1>1, FS_CardinalityType
  <2> QED BY <2>1, <2>2, <2>3
<1> HIDE DEF E
<1>6. Dusty(d) = Dusty(c) \cup E
  <2>1. ASSUME NEW p \in Dusty(d) PROVE p \in Dusty(c) \cup E
    BY <1>2, <1>3, <1>4 DEF Dusty
  <2>2. ASSUME NEW p \in Dusty(c) PROVE p \in Dusty(d)
    BY <1>2 DEF Dusty
  <2>3. ASSUME NEW p \in E PROVE p \in Dusty(d)
    BY <1>2, <1>3, <1>4 DEF Dusty
  <2> QED BY <2>1, <2>2, <2>3
<1>7. Dusty(c) \cap E = {}
  BY <1>2, <1>3, <1>4 DEF Dusty
<1>8. Cardinality(Dusty(c)) \in Nat /\ Cardinality(Dusty(c) \cap E) = 0
  BY <1>7, FS_CardinalityType, FS_EmptySet
<1>9. IsFiniteSet(Dusty(d)) /\ Cardinality(Dusty(d)) = Cardinality(Dusty(c)) + Cardinality(E)
  <2>1. /\ IsFiniteSet(Dusty(c) \cup E)
        /\ Cardinality(Dusty(c) \cup E)
             = Cardinality(Dusty(c)) + Cardinality(E) - Cardinality(Dusty(c) \cap E)
    BY <1>5, FS_Union
  <2> QED BY <1>5, <1>6, <1>8, <2>1
<1>10. Lost(c) = Cardinality(Dusty(c)) /\ Lost(d) = Cardinality(Dusty(d))
  BY DEF Lost, Dusty
<1> QED BY <1>5, <1>8, <1>9, <1>10 DEF d, D

LEMMA MintedAppend ==
  ASSUME NEW c \in Seq(Blocks), NEW b \in Blocks
  PROVE  Minted(c) \in Int /\ Minted(Append(c, b)) = Minted(c) + Reward
<1>1. Len(c) \in Nat /\ Len(Append(c, b)) = Len(c) + 1
  BY LenProperties, AppendProperties
<1>2. Reward \in Nat /\ Supply(GenesisAccounts) \in Int
  BY Facts, GenesisTyped, SupplyInt
<1>3. \A n \in Nat : Reward * n \in Int /\ Reward * (n + 1) = Reward * n + Reward
  BY <1>2
<1> QED BY <1>1, <1>2, <1>3 DEF Minted

LEMMA FundedAppend ==
  ASSUME NEW c \in Seq(Blocks), NEW b, Extends(c, b), Funded(c)
  PROVE  Funded(Append(c, b))
<1> DEFINE d == Append(c, b)
           s == Supply(Root(c))
           k == Cardinality(DustIn(b.txs, Len(b.txs)))
           w == RewardAt(s)
<1>1. b \in Blocks /\ Root(c) \in Accounts /\ b.root \in Accounts /\ Root(d) = b.root
  BY ExtendsFacts
<1>2. IsFiniteSet(Dusty(d)) /\ Lost(c) \in Nat /\ k \in Nat /\ Lost(d) = Lost(c) + k
  BY LostAppend DEF Funded
<1>3. Supply(b.root) = s - k + w
  BY ExtendsFacts DEF Applied
<1>4. s \in Int
  BY <1>1, SupplyInt
<1>5. Minted(c) \in Int /\ Minted(d) = Minted(c) + Reward
  BY <1>1, MintedAppend
<1>6. s <= MaxSupply /\ (Minted(c) <= MaxSupply => s = Minted(c) - Lost(c))
  BY DEF Funded
<1> HIDE DEF s, k, d
<1>7. /\ w \in Nat /\ (s <= MaxSupply => s + w <= MaxSupply)
      /\ s + Reward <= MaxSupply => w = Reward
  BY <1>4, RewardFacts
<1>8. Reward \in Nat /\ MaxSupply \in Nat
  BY Facts
<1> HIDE DEF w
<1>9. Supply(Root(d)) <= MaxSupply
  BY <1>1, <1>2, <1>3, <1>4, <1>6, <1>7, <1>8
<1>10. ASSUME Minted(d) <= MaxSupply PROVE Supply(Root(d)) = Minted(d) - Lost(d)
  <2>1. s = Minted(c) - Lost(c) /\ s + Reward <= MaxSupply
    BY <1>2, <1>4, <1>5, <1>6, <1>8, <1>10
  <2> QED BY <1>1, <1>2, <1>3, <1>4, <1>5, <1>7, <1>8, <2>1
<1> QED BY <1>2, <1>9, <1>10 DEF Funded, d

LEMMA FreeAppend ==
  ASSUME NEW c \in Seq(Blocks), NEW b \in Blocks, ~FreeInReplay(Append(c, b))
  PROVE  ~FreeInReplay(c) /\ \A j \in 1 .. Len(b.txs) : b.txs[j] \notin NoGas
<1> DEFINE d == Append(c, b)
<1>1. /\ \A p \in Places(c) : p \in Places(d) /\ TxAt(d, p) = TxAt(c, p)
      /\ \A j \in 1 .. Len(b.txs) :
           <<Len(c) + 1, j>> \in Places(d) /\ TxAt(d, <<Len(c) + 1, j>>) = b.txs[j]
  BY PlacesAppend
<1>2. \A p \in Places(d) : TxAt(d, p) \notin NoGas
  BY DEF FreeInReplay
<1> HIDE DEF d
<1>3. ~FreeInReplay(c)
  BY <1>1, <1>2 DEF FreeInReplay
<1>4. \A j \in 1 .. Len(b.txs) : b.txs[j] \notin NoGas
  BY <1>1, <1>2
<1> QED BY <1>3, <1>4

\* A replay that agrees and pays the same reward goes on to agree.
LEMMA ReplayBlockAgrees ==
  ASSUME NEW c \in Seq(Blocks), NEW b, Extends(c, b), NEW r \in Replays,
         r.ok, r.accounts = Root(c), RewardAt(r.supply) = RewardAt(Supply(Root(c))),
         \A j \in 1 .. Len(b.txs) : b.txs[j] \notin NoGas
  PROVE  ReplayBlock(r, b).ok /\ ReplayBlock(r, b).accounts = b.root
<1> DEFINE a == Root(c)
           z == [ok |-> r.ok, accounts |-> r.accounts]
           s == Run(Started(a), b.txs, b.miner)
           w == RewardAt(Supply(a))
           p == Paid(s.accounts, b.miner, w)
<1>1. r.ok = TRUE
  BY DEF Replays
<1>2. z = Started(a)
  BY <1>1 DEF Started
<1>3. ReplayBlock(r, b) = [ok |-> s.ok, supply |-> ReplayedSupply(r.supply), accounts |-> p]
  <2>1. b.txs \in Seq(Txs) /\ b.miner \in Miners /\ z \in Results
    BY DEF Extends, Blocks, Replays, Results
  <2>2. ReplayTxs(z, b.txs, b.miner) = s
    BY <1>2, <2>1, ReplayTxsAgree
  <2> QED BY <2>2 DEF ReplayBlock
<1>4. ApplyBlock(a, b.txs, b.miner) = [ok |-> s.ok, accounts |-> p]
  BY DEF ApplyBlock, Started
<1> HIDE DEF s, p
<1>5. ApplyBlock(a, b.txs, b.miner).ok = s.ok /\ ApplyBlock(a, b.txs, b.miner).accounts = p
  BY <1>4
<1>6. ReplayBlock(r, b).ok = s.ok /\ ReplayBlock(r, b).accounts = p
  BY <1>3
<1> QED BY <1>5, <1>6 DEF Extends

LEMMA ReplayedAppend ==
  ASSUME NEW c \in Seq(Blocks), NEW b, Extends(c, b), Funded(c), Replayed(c)
  PROVE  Replayed(Append(c, b))
<1> DEFINE d == Append(c, b)
           s == Supply(Root(c))
           k == Cardinality(DustIn(b.txs, Len(b.txs)))
           r == Replay(c)
           v == Replay(d)
<1>1. b \in Blocks /\ Root(c) \in Accounts /\ b.root \in Accounts /\ Root(d) = b.root
  BY ExtendsFacts
<1>2. Lost(c) \in Nat /\ k \in Nat /\ Lost(d) = Lost(c) + k
  BY LostAppend DEF Funded
<1>3. Supply(b.root) = s - k + RewardAt(s)
  BY ExtendsFacts DEF Applied
<1>4. s \in Int
  BY <1>1, SupplyInt
<1>5. Minted(c) \in Int /\ Minted(d) = Minted(c) + Reward
  BY <1>1, MintedAppend
<1>6. Minted(c) <= MaxSupply => s = Minted(c) - Lost(c)
  BY DEF Funded
<1>7. r \in Replays /\ v = ReplayBlock(r, b)
  BY <1>1, ReplayAppend
<1>8. /\ Lost(c) = 0 => r.supply = s
      /\ Minted(c) <= MaxSupply => r.supply = Minted(c)
      /\ ~FreeInReplay(c) /\ (Lost(c) = 0 \/ Minted(c) <= MaxSupply)
           => r.ok /\ r.accounts = Root(c)
  BY DEF Replayed
<1> HIDE DEF s, k, d, r, v
<1>9. r.supply \in Int
  BY <1>7 DEF Replays
<1>10. v.supply = r.supply + RewardAt(r.supply)
  BY <1>7 DEF ReplayBlock, ReplayedSupply
<1>11. Reward \in Nat /\ MaxSupply \in Nat
  BY Facts
<1>12. RewardAt(s) \in Nat /\ (s + Reward <= MaxSupply => RewardAt(s) = Reward)
  BY <1>4, RewardFacts
<1>13. r.supply + Reward <= MaxSupply => RewardAt(r.supply) = Reward
  BY <1>9, RewardFacts
<1>14. ASSUME Lost(d) = 0
       PROVE  /\ Lost(c) = 0 /\ k = 0 /\ r.supply = s
              /\ RewardAt(r.supply) = RewardAt(s) /\ v.supply = Supply(Root(d))
  <2>1. Lost(c) = 0 /\ k = 0
    BY <1>2, <1>14
  <2>2. r.supply = s
    BY <1>8, <2>1
  <2>3. v.supply = s + RewardAt(s)
    BY <1>10, <2>2
  <2>4. Supply(b.root) = s + RewardAt(s)
    BY <1>3, <1>4, <1>12, <2>1
  <2> QED BY <1>1, <2>1, <2>2, <2>3, <2>4
<1>15. ASSUME Minted(d) <= MaxSupply
       PROVE  /\ Minted(c) <= MaxSupply /\ v.supply = Minted(d)
              /\ RewardAt(r.supply) = RewardAt(s)
  <2>1. Minted(c) <= MaxSupply /\ Minted(c) + Reward <= MaxSupply
    BY <1>5, <1>11, <1>15
  <2>2. r.supply = Minted(c) /\ s + Reward <= MaxSupply
    BY <1>2, <1>4, <1>5, <1>6, <1>8, <1>11, <2>1
  <2>3. RewardAt(r.supply) = Reward /\ RewardAt(s) = Reward
    BY <1>12, <1>13, <2>1, <2>2
  <2> QED BY <1>5, <1>10, <2>1, <2>2, <2>3
<1>16. ASSUME ~FreeInReplay(d), Lost(d) = 0 \/ Minted(d) <= MaxSupply
       PROVE  v.ok /\ v.accounts = Root(d)
  <2>1. RewardAt(r.supply) = RewardAt(s) /\ (Lost(c) = 0 \/ Minted(c) <= MaxSupply)
    BY <1>14, <1>15, <1>16
  <2>2. ~FreeInReplay(c) /\ \A j \in 1 .. Len(b.txs) : b.txs[j] \notin NoGas
    BY <1>1, <1>16, FreeAppend DEF d
  <2>3. r.ok /\ r.accounts = Root(c)
    BY <1>8, <2>1, <2>2
  <2> QED BY <1>1, <1>7, <2>1, <2>2, <2>3, ReplayBlockAgrees DEF s
<1> QED BY <1>14, <1>15, <1>16 DEF Replayed, d, v

LEMMA SoundAppend ==
  ASSUME NEW c \in Seq(Blocks), NEW b, Extends(c, b), Sound(c)
  PROVE  Sound(Append(c, b))
BY OrderAppend, NoncesAppend, FundedAppend, ReplayedAppend DEF Sound

LEMMA SoundEmpty == Sound(<<>>)
<1>1. <<>> \in Seq(Blocks) /\ Len(<<>>) = 0
  BY EmptySeq
<1>2. Places(<<>>) = {}
  BY DEF Places
<1>3. Root(<<>>) = GenesisAccounts
  BY DEF Root
<1>4. InOrder(<<>>)
  BY <1>2 DEF InOrder
<1>5. NoncesUsed(<<>>)
  <2> SUFFICES ASSUME NEW u \in Users PROVE Used(<<>>, u) = 0 .. (Root(<<>>)[u].nonce - 1)
    BY DEF NoncesUsed
  <2>1. Root(<<>>)[u].nonce = 0
    BY <1>3 DEF GenesisAccounts, Addresses
  <2>2. Used(<<>>, u) = {}
    BY <1>2 DEF Used
  <2> QED BY <2>1, <2>2
<1>6. Dusty(<<>>) = {} /\ Lost(<<>>) = 0 /\ IsFiniteSet(Dusty(<<>>))
  BY <1>2, FS_EmptySet DEF Dusty, Lost
<1>7. Supply(GenesisAccounts) \in Int /\ Minted(<<>>) = Supply(GenesisAccounts)
  <2>1. Supply(GenesisAccounts) \in Int /\ Reward \in Nat
    BY GenesisTyped, SupplyInt, Facts
  <2>2. Reward * 0 = 0
    BY <2>1
  <2> QED BY <1>1, <2>1, <2>2 DEF Minted
<1>8. Supply(GenesisAccounts) <= MaxSupply
  BY GenesisSupply, TxAssumption
<1>9. Funded(<<>>)
  BY <1>3, <1>6, <1>7, <1>8 DEF Funded
<1>10. Replayed(<<>>)
  BY <1>3, <1>7, ReplayEmpty DEF Replayed, FirstReplay
<1> QED BY <1>4, <1>5, <1>9, <1>10 DEF Sound

-----------------------------------------------------------------------------
(* The pool *)

LEMMA CheapestOf ==
  ASSUME NEW p \in SUBSET Txs, IsFiniteSet(p), p # {}
  PROVE  \E t \in p : \A u \in p : u # t => Price[u] > Price[t]
<1> DEFINE T == {Price[t] : t \in p}
<1>1. \A t \in Txs : Price[t] \in Nat
  BY TxAssumption
<1>2. T \in SUBSET Nat /\ T # {}
  BY <1>1
<1>3. PICK x \in T : \A y \in T : x <= y
  <2> HIDE DEF T
  <2> QED BY <1>2, LeastNat
<1>4. PICK t \in p : x = Price[t]
  BY <1>3
<1>5. ASSUME NEW u \in p, u # t PROVE Price[u] > Price[t]
  <2>1. Price[u] # Price[t]
    BY <1>5, TxAssumption
  <2>2. Price[t] <= Price[u]
    BY <1>3, <1>4
  <2> QED BY <1>1, <2>1, <2>2
<1> QED BY <1>5

LEMMA Quotient ==
  ASSUME NEW a \in Nat, NEW b \in Nat \ {0}, a >= b
  PROVE  a \div b \in Nat \ {0}
BY Z3

\* A full pool has room after its cleanup.
LEMMA RoomFacts ==
  ASSUME NEW p \in SUBSET Txs, IsFiniteSet(p), Cardinality(p) <= PoolSize
  PROVE  /\ Room(p) \in SUBSET p /\ IsFiniteSet(Room(p))
         /\ Cardinality(Room(p)) \in Nat /\ Cardinality(Room(p)) < PoolSize
<1> DEFINE n == Cardinality(p) \div CleanupShare
<1>1. Cardinality(p) \in Nat /\ PoolSize \in Nat \ {0}
  BY FS_CardinalityType, TxAssumption
<1>2. CASE Cardinality(p) < PoolSize
  BY <1>1, <1>2 DEF Room
<1>3. CASE ~(Cardinality(p) < PoolSize)
  <2>1. Cardinality(p) = PoolSize /\ p # {}
    BY <1>1, <1>3, FS_EmptySet
  <2>2. n \in Nat \ {0}
    <3>1. CleanupShare \in Nat \ {0} /\ PoolSize >= CleanupShare
      BY TxAssumption
    <3> QED BY <1>1, <2>1, <3>1, Quotient
  <2> HIDE DEF n
  <2>3. PICK t \in p : \A u \in p : u # t => Price[u] > Price[t]
    BY <2>1, CheapestOf
  <2>4. {u \in p : Price[u] < Price[t]} = {}
    <3>1. \A u \in Txs : Price[u] \in Nat
      BY TxAssumption
    <3> QED BY <2>3, <3>1
  <2>5. t \in Cheapest(p, n)
    <3>1. Cardinality({u \in p : Price[u] < Price[t]}) = 0
      BY <2>4, FS_EmptySet
    <3>2. 0 < n
      BY <2>2
    <3> QED BY <3>1, <3>2 DEF Cheapest
  <2>6. Room(p) = p \ Cheapest(p, n)
    BY <1>3 DEF Room, n
  <2>7. Room(p) \in SUBSET (p \ {t})
    BY <2>5, <2>6
  <2>8. IsFiniteSet(p \ {t}) /\ Cardinality(p \ {t}) = Cardinality(p) - 1
    BY <2>3, FS_RemoveElement
  <2>9. IsFiniteSet(Room(p)) /\ Cardinality(Room(p)) <= Cardinality(p \ {t})
    BY <2>7, <2>8, FS_Subset
  <2>10. Cardinality(Room(p)) \in Nat
    BY <2>9, FS_CardinalityType
  <2> QED BY <1>1, <2>1, <2>7, <2>8, <2>9, <2>10
<1> QED BY <1>2, <1>3

\* Every rank below the size of the pool is the rank of a transaction.
LEMMA RankExists ==
  ASSUME NEW p \in SUBSET Txs, IsFiniteSet(p), NEW k \in Nat, k < Cardinality(p)
  PROVE  \E t \in p : Dearer(p, t) = k
<1> DEFINE All(n) == \A q \in SUBSET Txs : IsFiniteSet(q) /\ Cardinality(q) = n =>
                       \A i \in 0 .. (n - 1) : \E t \in q : Dearer(q, t) = i
           T == {n \in Nat : All(n)}
<1>1. 0 \in T
  OBVIOUS
<1>2. ASSUME NEW n \in Nat, n \in T PROVE n + 1 \in T
  <2> SUFFICES ASSUME NEW q \in SUBSET Txs, IsFiniteSet(q), Cardinality(q) = n + 1,
                      NEW i \in 0 .. n
               PROVE  \E t \in q : Dearer(q, t) = i
    OBVIOUS
  <2>1. q # {}
    BY FS_EmptySet
  <2>2. PICK t \in q : \A u \in q : u # t => Price[u] > Price[t]
    BY <2>1, CheapestOf
  <2> DEFINE r == q \ {t}
  <2>3. IsFiniteSet(r) /\ Cardinality(r) = n /\ r \in SUBSET Txs
    <3>1. IsFiniteSet(r) /\ Cardinality(r) = Cardinality(q) - 1
      BY <2>2, FS_RemoveElement
    <3>2. (n + 1) - 1 = n
      OBVIOUS
    <3> QED BY <3>1, <3>2
  <2>4. \A u \in Txs : Price[u] \in Nat
    BY TxAssumption
  <2>5. CASE i = n
    <3>1. {u \in q : Price[u] > Price[t]} = r
      BY <2>2, <2>4
    <3>2. Dearer(q, t) = n
      BY <2>3, <3>1 DEF Dearer
    <3> QED BY <2>5, <3>2
  <2>6. CASE i # n
    <3>1. i \in 0 .. (n - 1)
      BY <2>6
    <3>2. PICK u \in r : Dearer(r, u) = i
      BY <1>2, <2>3, <3>1
    <3>3. {v \in q : Price[v] > Price[u]} = {v \in r : Price[v] > Price[u]}
      BY <2>2, <2>4
    <3>4. Dearer(q, u) = i
      BY <3>2, <3>3 DEF Dearer
    <3> QED BY <3>2, <3>4
  <2> QED BY <2>5, <2>6
<1>3. Cardinality(p) \in Nat
  BY FS_CardinalityType
<1>4. Cardinality(p) \in T
  <2> DEFINE c == Cardinality(p)
  <2> HIDE DEF T, c
  <2>1. c \in Nat
    BY <1>3 DEF c
  <2>2. \A i \in 1 .. c : i - 1 \in T => i \in T
    <3> TAKE i \in 1 .. c
    <3>1. i - 1 \in Nat /\ (i - 1) + 1 = i
      BY <2>1
    <3> QED BY <1>2, <3>1
  <2>3. \A i \in 0 .. c : i \in T
    BY <1>1, <2>1, <2>2, Induct
  <2> QED BY <2>1, <2>3 DEF c
<1>5. k \in 0 .. (Cardinality(p) - 1)
  BY <1>3
<1> QED BY <1>4, <1>5

\* get returns transactions of the pool.
LEMMA BestFacts ==
  ASSUME NEW p \in SUBSET Txs, IsFiniteSet(p), NEW n \in Nat
  PROVE  Best(p, n) \in Seq(p)
<1> DEFINE c == Cardinality(p)
           l == Min({n, c})
           B == [i \in 1 .. l |-> CHOOSE t \in p : Dearer(p, t) = i - 1]
<1>1. c \in Nat
  BY FS_CardinalityType
<1>2. l \in Nat /\ l <= c
  <2> HIDE DEF c
  <2>1. l = IF n <= c THEN n ELSE c
    BY <1>1 DEF Min
  <2> QED BY <1>1, <2>1
<1> HIDE DEF l
<1>3. ASSUME NEW i \in 1 .. l PROVE B[i] \in p
  <2>1. i - 1 \in Nat /\ i - 1 < c
    BY <1>1, <1>2
  <2>2. \E t \in p : Dearer(p, t) = i - 1
    BY <2>1, RankExists
  <2> QED BY <2>2
<1>4. B \in [1 .. l -> p]
  BY <1>3
<1>5. B \in Seq(p)
  BY <1>2, <1>4, SeqDef
<1> QED BY <1>5 DEF Best, l

-----------------------------------------------------------------------------
(* create_block *)

LEMMA TakeTyped ==
  ASSUME NEW taken \in Seq(Txs), NEW t \in Txs
  PROVE  Take(taken, t) \in Seq(Txs)
BY AppendProperties DEF Take

IsBuild(r, txs) ==
  /\ r \in [0 .. Len(txs) -> Seq(Txs)] /\ r[0] = <<>>
  /\ \A i \in 1 .. Len(txs) : r[i] = Take(r[i - 1], txs[i])

IsBuildFold(g, txs) ==
  g = [x \in SUBSET DOMAIN txs |->
         IF x = {} THEN <<>> ELSE Take(g[x \ {Max(x)}], txs[Max(x)])]

LEMMA BuildIs ==
  ASSUME NEW txs
  PROVE  Build(txs) = (CHOOSE g : IsBuildFold(g, txs))[DOMAIN txs]
BY DEF Build, FoldLeft, MapThenFoldSet, IsBuildFold

LEMMA BuildTrace ==
  ASSUME NEW txs \in Seq(Txs)
  PROVE  \E r : IsBuild(r, txs) /\ Build(txs) = r[Len(txs)]
<1> DEFINE n == Len(txs)
           F == [p \in Seq(Txs) \X Txs |-> Take(p[1], p[2])]
           g == CHOOSE g : IsBuildFold(g, txs)
<1>1. n \in Nat /\ DOMAIN txs = 1 .. n /\ \A i \in 1 .. n : txs[i] \in Txs
  BY LenProperties
<1>2. <<>> \in Seq(Txs)
  BY EmptySeq
<1>3. IsBuildFold(g, txs) /\ Build(txs) = g[1 .. n]
  <2>1. F \in [Seq(Txs) \X Txs -> Seq(Txs)]
    BY TakeTyped
  <2>2. \A a \in Seq(Txs), b \in Txs : F[<<a, b>>] = Take(a, b)
    OBVIOUS
  <2> HIDE DEF F
  <2>3. PICK h \in [SUBSET DOMAIN txs -> Seq(Txs)] : IsFold(h, F, <<>>, txs, SUBSET DOMAIN txs)
    BY <1>2, <2>1, FoldExists
  <2>4. ASSUME NEW x \in SUBSET DOMAIN txs
        PROVE  h[x] = IF x = {} THEN <<>> ELSE Take(h[x \ {Max(x)}], txs[Max(x)])
    <3>1. h[x] = IF x = {} THEN <<>> ELSE F[<<h[x \ {Max(x)}], txs[Max(x)]>>]
      BY <2>3 DEF IsFold
    <3>2. CASE x # {}
      <4>1. Max(x) \in x /\ x \ {Max(x)} \in SUBSET DOMAIN txs
        BY <1>1, <3>2, MaxFacts
      <4>2. h[x \ {Max(x)}] \in Seq(Txs) /\ txs[Max(x)] \in Txs
        BY <1>1, <4>1
      <4> QED BY <2>2, <3>1, <3>2, <4>2
    <3> QED BY <3>1, <3>2
  <2>5. IsBuildFold(h, txs)
    BY <2>4 DEF IsBuildFold
  <2>6. IsBuildFold(g, txs)
    BY <2>5
  <2> HIDE DEF g
  <2> QED BY <1>1, <2>6, BuildIs DEF g
<1> HIDE DEF g, F
<1> DEFINE r == [i \in 0 .. n |-> g[1 .. i]]
<1>4. r[0] = <<>>
  <2>1. 1 .. 0 = {} /\ {} \in SUBSET DOMAIN txs
    OBVIOUS
  <2>2. g[{}] = <<>>
    BY <1>3, <2>1 DEF IsBuildFold
  <2> QED BY <1>1, <2>1, <2>2
<1>5. ASSUME NEW i \in 1 .. n PROVE r[i] = Take(r[i - 1], txs[i])
  <2>1. 1 .. i \in SUBSET DOMAIN txs
    BY <1>1
  <2>2. 1 .. i # {} /\ Max(1 .. i) = i /\ (1 .. i) \ {i} = 1 .. (i - 1)
    BY <1>1, MaxOfPrefix
  <2> DEFINE x == 1 .. i
  <2>3. g[x] = IF x = {} THEN <<>> ELSE Take(g[x \ {Max(x)}], txs[Max(x)])
    BY <1>3, <2>1 DEF IsBuildFold
  <2>4. g[1 .. i] = Take(g[1 .. (i - 1)], txs[i])
    BY <2>2, <2>3
  <2> QED BY <1>1, <2>4
<1>6. r[n] = g[1 .. n] /\ r = [i \in 0 .. n |-> r[i]]
  BY <1>1
<1> HIDE DEF r
<1>7. \A i \in 0 .. n : r[i] \in Seq(Txs)
  <2> DEFINE A == Seq(Txs)
             T == {i \in 0 .. n : r[i] \in A}
  <2>1. /\ <<>> \in A /\ r[0] = <<>>
        /\ \A q \in A, t \in Txs : Take(q, t) \in A
    BY <1>2, <1>4, TakeTyped
  <2> HIDE DEF A
  <2>2. 0 \in T
    BY <1>1, <2>1
  <2>3. \A i \in 1 .. n : i - 1 \in T => i \in T
    BY <1>1, <1>5, <2>1
  <2> HIDE DEF T
  <2>4. \A i \in 0 .. n : i \in T
    BY <1>1, <2>2, <2>3, Induct
  <2> QED BY <2>4 DEF T, A
<1>8. IsBuild(r, txs)
  BY <1>4, <1>5, <1>6, <1>7 DEF IsBuild
<1> QED BY <1>3, <1>6, <1>8

\* A block holds transactions that were offered.
LEMMA BuildTyped ==
  ASSUME NEW S \in SUBSET Txs, NEW txs \in Seq(S)
  PROVE  Build(txs) \in Seq(S) /\ Build(txs) \in Seq(Txs)
<1> DEFINE n == Len(txs)
<1>1. n \in Nat /\ txs \in Seq(Txs) /\ \A i \in 1 .. n : txs[i] \in S
  BY LenProperties, SeqMonotonic
<1>2. PICK r : IsBuild(r, txs) /\ Build(txs) = r[n]
  BY <1>1, BuildTrace
<1> DEFINE T == {i \in 0 .. n : r[i] \in Seq(S)}
<1>3. 0 \in T
  BY <1>1, <1>2, EmptySeq DEF IsBuild
<1>4. ASSUME NEW i \in 1 .. n, i - 1 \in T PROVE i \in T
  <2>1. r[i - 1] \in Seq(S) /\ txs[i] \in S
    BY <1>1, <1>4
  <2>2. r[i] = Take(r[i - 1], txs[i])
    BY <1>2 DEF IsBuild
  <2>3. r[i] \in Seq(S)
    BY <2>1, <2>2, AppendProperties DEF Take
  <2> QED BY <1>1, <2>3
<1>5. \A i \in 0 .. n : i \in T
  <2> HIDE DEF T, n
  <2> QED BY <1>1, <1>3, <1>4, Induct
<1>6. r[n] \in Seq(S)
  BY <1>1, <1>5
<1> QED BY <1>2, <1>6, SeqMonotonic

\* When no transaction is ahead of its account's nonce, create_block takes one of
\* each sender, and each can run.
LEMMA BuildFacts ==
  ASSUME accounts \in Accounts, NEW txs \in Seq(Txs),
         \A i \in 1 .. Len(txs) : Nonce[txs[i]] <= accounts[From[txs[i]]].nonce
  PROVE  /\ \A j \in 1 .. Len(Build(txs)) : Runs(accounts, Build(txs)[j])
         /\ \A j, k \in 1 .. Len(Build(txs)) :
              From[Build(txs)[j]] = From[Build(txs)[k]] => j = k
<1> DEFINE n == Len(txs)
           Good(s) == /\ \A j \in 1 .. Len(s) : Runs(accounts, s[j])
                      /\ \A j, k \in 1 .. Len(s) : From[s[j]] = From[s[k]] => j = k
<1>1. n \in Nat /\ \A i \in 1 .. n : txs[i] \in Txs
  BY LenProperties
<1>2. PICK r : IsBuild(r, txs) /\ Build(txs) = r[n]
  BY BuildTrace
<1> DEFINE T == {i \in 0 .. n : Good(r[i])}
<1>3. 0 \in T
  <2>1. r[0] = <<>> /\ Len(<<>>) = 0
    BY <1>2, EmptySeq DEF IsBuild
  <2> QED BY <1>1, <2>1
<1>4. ASSUME NEW i \in 1 .. n, i - 1 \in T PROVE i \in T
  <2> DEFINE s == r[i - 1]
             t == txs[i]
             x == accounts[From[t]].nonce
             D == {j \in DOMAIN s : From[s[j]] = From[t]}
  <2>1. s \in Seq(Txs) /\ r[i] = Take(s, t) /\ t \in Txs /\ Good(s)
    BY <1>1, <1>2, <1>4 DEF IsBuild
  <2>2. Nonce[t] <= x /\ Nonce[t] \in Nat /\ x \in Nat
    BY <2>1, Facts DEF Accounts
  <2>3. CASE ~ValidForBlock(t, s)
    <3>1. Good(r[i])
      BY <2>1, <2>3 DEF Take
    <3> HIDE DEF Good
    <3> QED BY <1>1, <3>1
  <2>4. CASE ValidForBlock(t, s)
    <3>1. r[i] = Append(s, t)
      BY <2>1, <2>4 DEF Take
    <3>2. DOMAIN s = 1 .. Len(s) /\ Len(s) \in Nat
      BY <2>1, LenProperties
    <3>3. IsFiniteSet(D) /\ Cardinality(D) \in Nat
      <4>1. IsFiniteSet(DOMAIN s)
        BY <3>2, PositionsFinite
      <4>2. IsFiniteSet(D)
        BY <4>1, FS_Subset
      <4> QED BY <4>2, FS_CardinalityType
    <3>4. Nonce[t] = x + Cardinality(D) /\ accounts[From[t]].balance >= Cost(t)
      BY <2>4 DEF ValidForBlock, Affordable
    <3>5. Cardinality(D) = 0 /\ Nonce[t] = x
      <4> HIDE DEF D, x
      <4> QED BY <2>2, <3>3, <3>4
    <3>6. D = {}
      BY <3>3, <3>5, FS_EmptySet
    <3>7. Runs(accounts, t)
      BY <3>4, <3>5 DEF Runs
    <3>8. /\ Len(Append(s, t)) = Len(s) + 1 /\ Append(s, t)[Len(s) + 1] = t
          /\ \A j \in 1 .. Len(s) : Append(s, t)[j] = s[j]
      BY <2>1, AppendProperties
    <3> DEFINE e == Append(s, t)
    <3> HIDE DEF e, s, t
    <3>9. \A j \in 1 .. Len(e) : j = Len(s) + 1 \/ j \in 1 .. Len(s)
      BY <3>2, <3>8 DEF e
    <3>10. \A j \in 1 .. Len(s) : From[s[j]] # From[t]
      BY <3>2, <3>6
    <3>11. \A j \in 1 .. Len(e) : Runs(accounts, e[j])
      BY <2>1, <3>7, <3>8, <3>9 DEF e
    <3>12. ASSUME NEW j \in 1 .. Len(e), NEW k \in 1 .. Len(e), From[e[j]] = From[e[k]]
           PROVE  j = k
      BY <2>1, <3>8, <3>9, <3>10, <3>12 DEF e
    <3>13. Good(e)
      BY <3>11, <3>12
    <3>14. Good(r[i])
      BY <3>1, <3>13 DEF e
    <3> HIDE DEF Good
    <3> QED BY <1>1, <3>14
  <2> QED BY <2>3, <2>4
<1>5. \A i \in 0 .. n : i \in T
  <2> HIDE DEF T, n
  <2> QED BY <1>1, <1>3, <1>4, Induct
<1>6. Good(r[n])
  BY <1>1, <1>5
<1> QED BY <1>2, <1>6

-----------------------------------------------------------------------------
(* The inductive invariant *)

Steps == {"idle", "forge", "evict", "empty", "clean"}

ChainOK == accounts \in Accounts /\ chain \in Seq(Blocks) /\ announced \subseteq Blocks

PoolOK ==
  /\ pool \subseteq Txs /\ IsFiniteSet(pool) /\ Cardinality(pool) <= PoolSize
  /\ incoming \subseteq Txs

MiningOK == mining \in [at : Steps, txs : Seq(Txs)] /\ rolled \in BOOLEAN

Typed == ChainOK /\ PoolOK /\ MiningOK

\* The accounts are those of the last block, and every prefix is sound: what a
\* rollback leaves behind was checked when it was built.
Linked ==
  accounts = Root(chain) /\ \A h \in 0 .. Len(chain) : Sound(SubSeq(chain, 1, h))

\* Until a rollback nothing waits for a nonce to come.
Behind ==
  ~rolled => \A t \in pool \cup incoming \cup Range(mining.txs) :
               Nonce[t] <= accounts[From[t]].nonce

LEMMA RangeIn ==
  ASSUME NEW S, NEW s \in Seq(S)
  PROVE  Range(s) \subseteq S
BY LenProperties DEF Range

LEMMA PrefixOfAppend ==
  ASSUME NEW c \in Seq(Blocks), NEW b \in Blocks, NEW h \in 0 .. Len(c)
  PROVE  SubSeq(Append(c, b), 1, h) = SubSeq(c, 1, h)
<1> DEFINE d == Append(c, b)
<1>1. Len(c) \in Nat /\ \A i \in 1 .. Len(c) : d[i] = c[i] /\ c[i] \in Blocks
  BY LenProperties, AppendProperties, ElementOfSeq
<1>2. \A i \in 1 .. h : d[i] = c[i] /\ d[i] \in Blocks /\ c[i] \in Blocks
  BY <1>1
<1> HIDE DEF d
<1>3. h \in Int /\ 1 \in Int /\ h \in Nat
  BY <1>1
<1>4. /\ SubSeq(d, 1, h) \in Seq(Blocks) /\ Len(SubSeq(d, 1, h)) = IF 1 <= h THEN h - 1 + 1 ELSE 0
      /\ \A i \in 1 .. h - 1 + 1 : SubSeq(d, 1, h)[i] = d[1 + i - 1]
  BY <1>2, <1>3, SubSeqProperties
<1>5. /\ SubSeq(c, 1, h) \in Seq(Blocks) /\ Len(SubSeq(c, 1, h)) = IF 1 <= h THEN h - 1 + 1 ELSE 0
      /\ \A i \in 1 .. h - 1 + 1 : SubSeq(c, 1, h)[i] = c[1 + i - 1]
  BY <1>2, <1>3, SubSeqProperties
<1>6. Len(SubSeq(d, 1, h)) = h /\ Len(SubSeq(c, 1, h)) = h
  BY <1>3, <1>4, <1>5
<1>7. ASSUME NEW i \in 1 .. h PROVE SubSeq(d, 1, h)[i] = SubSeq(c, 1, h)[i]
  <2>1. i \in 1 .. h - 1 + 1 /\ 1 + i - 1 = i
    BY <1>3
  <2> QED BY <1>2, <1>4, <1>5, <2>1
<1>8. SubSeq(d, 1, h) = SubSeq(c, 1, h)
  BY <1>4, <1>5, <1>6, <1>7, SeqEqual
<1> QED BY <1>8 DEF d

LEMMA PrefixOfPrefix ==
  ASSUME NEW c \in Seq(Blocks), NEW h \in 0 .. Len(c), NEW k \in 0 .. h
  PROVE  /\ SubSeq(c, 1, h) \in Seq(Blocks) /\ Len(SubSeq(c, 1, h)) = h
         /\ SubSeq(SubSeq(c, 1, h), 1, k) = SubSeq(c, 1, k)
<1> DEFINE d == SubSeq(c, 1, h)
<1>1. Len(c) \in Nat /\ \A i \in 1 .. Len(c) : c[i] \in Blocks
  BY LenProperties, ElementOfSeq
<1>2. h \in Nat /\ k \in Nat /\ h \in Int /\ k \in Int /\ 1 \in Int
  BY <1>1
<1>3. \A i \in 1 .. h : c[i] \in Blocks
  BY <1>1
<1>4. /\ d \in Seq(Blocks) /\ Len(d) = IF 1 <= h THEN h - 1 + 1 ELSE 0
      /\ \A i \in 1 .. h - 1 + 1 : d[i] = c[1 + i - 1]
  BY <1>2, <1>3, SubSeqProperties
<1> HIDE DEF d
<1>5. Len(d) = h /\ \A i \in 1 .. h : d[i] = c[i]
  <2>1. \A i \in 1 .. h : i \in 1 .. h - 1 + 1 /\ 1 + i - 1 = i
    BY <1>2
  <2>2. Len(d) = h
    BY <1>2, <1>4
  <2> QED BY <1>4, <2>1, <2>2
<1>6. \A i \in 1 .. k : d[i] = c[i] /\ c[i] \in Blocks
  BY <1>2, <1>3, <1>5
<1>7. /\ SubSeq(d, 1, k) \in Seq(Blocks) /\ Len(SubSeq(d, 1, k)) = IF 1 <= k THEN k - 1 + 1 ELSE 0
      /\ \A i \in 1 .. k - 1 + 1 : SubSeq(d, 1, k)[i] = d[1 + i - 1]
  BY <1>2, <1>6, SubSeqProperties
<1>8. /\ SubSeq(c, 1, k) \in Seq(Blocks) /\ Len(SubSeq(c, 1, k)) = IF 1 <= k THEN k - 1 + 1 ELSE 0
      /\ \A i \in 1 .. k - 1 + 1 : SubSeq(c, 1, k)[i] = c[1 + i - 1]
  BY <1>2, <1>6, SubSeqProperties
<1>9. Len(SubSeq(d, 1, k)) = k /\ Len(SubSeq(c, 1, k)) = k
  BY <1>2, <1>7, <1>8
<1>10. ASSUME NEW i \in 1 .. k PROVE SubSeq(d, 1, k)[i] = SubSeq(c, 1, k)[i]
  <2>1. i \in 1 .. k - 1 + 1 /\ 1 + i - 1 = i
    BY <1>2
  <2> QED BY <1>6, <1>7, <1>8, <2>1
<1>11. SubSeq(d, 1, k) = SubSeq(c, 1, k)
  BY <1>7, <1>8, <1>9, <1>10, SeqEqual
<1> QED BY <1>4, <1>5, <1>11 DEF d

LEMMA LinkedSound ==
  ASSUME Typed, Linked
  PROVE  Sound(chain)
<1>1. chain \in Seq(Blocks)
  BY DEF Typed, ChainOK
<1>2. Len(chain) \in 0 .. Len(chain) /\ SubSeq(chain, 1, Len(chain)) = chain
  BY <1>1, LenProperties, SubSeqFull
<1>3. Sound(SubSeq(chain, 1, Len(chain)))
  BY <1>2 DEF Linked
<1> QED BY <1>2, <1>3

\* The commit of a block, forged or imported.
Commits(txs, m) ==
  LET r == ApplyBlock(accounts, txs, m)
  IN r.ok /\ accounts' = r.accounts /\ chain' = Append(chain, Block(txs, m, r.accounts))

LEMMA CommitStep ==
  ASSUME Typed, Linked, NEW txs \in Seq(Txs), NEW m \in Miners, Commits(txs, m)
  PROVE  /\ accounts' \in Accounts /\ chain' \in Seq(Blocks) /\ Linked'
         /\ Block(txs, m, ApplyBlock(accounts, txs, m).accounts) \in Blocks
         /\ \A y \in Addresses : accounts[y].nonce <= accounts'[y].nonce
<1> DEFINE r == ApplyBlock(accounts, txs, m)
           b == Block(txs, m, r.accounts)
<1>1. accounts \in Accounts /\ chain \in Seq(Blocks) /\ accounts = Root(chain)
  BY DEF Typed, ChainOK, Linked
<1>2. r.ok /\ accounts' = r.accounts /\ chain' = Append(chain, b)
  BY DEF Commits
<1>3. r.accounts \in Accounts
  BY <1>1, ApplyTyped DEF Results
<1> HIDE DEF r
<1>4. b \in Blocks /\ b.txs = txs /\ b.miner = m /\ b.root = r.accounts
  BY <1>3 DEF Block, Blocks
<1> HIDE DEF b
<1>5. Extends(chain, b)
  BY <1>1, <1>2, <1>4 DEF Extends, r
<1>6. chain' \in Seq(Blocks) /\ Len(chain') = Len(chain) + 1 /\ Len(chain) \in Nat
  BY <1>1, <1>2, <1>4, AppendProperties, LenProperties
<1>7. accounts' = Root(chain')
  BY <1>1, <1>2, <1>4, RootAppend
<1>8. Sound(chain')
  BY <1>1, <1>2, <1>5, LinkedSound, SoundAppend
<1>9. ASSUME NEW h \in 0 .. Len(chain') PROVE Sound(SubSeq(chain', 1, h))
  <2>1. CASE h = Len(chain')
    BY <1>6, <1>8, <2>1, SubSeqFull
  <2>2. CASE h # Len(chain')
    <3>1. h \in 0 .. Len(chain)
      BY <1>6, <2>2
    <3>2. SubSeq(chain', 1, h) = SubSeq(chain, 1, h)
      BY <1>1, <1>2, <1>4, <3>1, PrefixOfAppend
    <3> QED BY <3>1, <3>2 DEF Linked
  <2> QED BY <2>1, <2>2
<1>10. Linked'
  BY <1>7, <1>9 DEF Linked
<1>11. \A y \in Addresses : accounts[y].nonce <= accounts'[y].nonce
  BY <1>1, <1>2, <1>4, <1>5, ExtendsFacts DEF Applied
<1> QED BY <1>2, <1>3, <1>4, <1>6, <1>10, <1>11 DEF b, r

LEMMA InvInit == Init => Typed /\ Linked /\ Behind
<1> SUFFICES ASSUME Init PROVE Typed /\ Linked /\ Behind
  OBVIOUS
<1>1. /\ accounts = GenesisAccounts /\ chain = <<>> /\ pool = {} /\ incoming = {}
      /\ mining = [at |-> "idle", txs |-> <<>>] /\ announced = {} /\ rolled = FALSE
  BY DEF Init, Idle
<1>2. <<>> \in Seq(Blocks) /\ <<>> \in Seq(Txs) /\ Len(<<>>) = 0
  BY EmptySeq
<1>3. ChainOK
  BY <1>1, <1>2, GenesisTyped DEF ChainOK
<1>4. PoolOK
  <2>1. PoolSize \in Nat
    BY TxAssumption
  <2> QED BY <1>1, <2>1, FS_EmptySet DEF PoolOK
<1>5. MiningOK
  BY <1>1, <1>2 DEF MiningOK, Steps
<1>6. Linked
  <2>1. SubSeq(<<>>, 1, 0) = <<>>
    BY SubSeqEmpty
  <2>2. \A h \in 0 .. Len(chain) : SubSeq(chain, 1, h) = <<>>
    BY <1>1, <1>2, <2>1
  <2>3. accounts = Root(chain)
    BY <1>1 DEF Root
  <2> QED BY <2>2, <2>3, SoundEmpty DEF Linked
<1>7. Behind
  <2>1. Range(mining.txs) = {}
    BY <1>1 DEF Range
  <2> QED BY <1>1, <2>1 DEF Behind
<1> QED BY <1>3, <1>4, <1>5, <1>6, <1>7 DEF Typed

Inv == Typed /\ Linked /\ Behind

LEMMA InvFacts ==
  ASSUME Inv
  PROVE  /\ accounts \in Accounts /\ chain \in Seq(Blocks) /\ announced \subseteq Blocks
         /\ pool \subseteq Txs /\ IsFiniteSet(pool) /\ Cardinality(pool) \in Nat
         /\ Cardinality(pool) <= PoolSize /\ incoming \subseteq Txs
         /\ mining = [at |-> mining.at, txs |-> mining.txs]
         /\ mining.at \in Steps /\ mining.txs \in Seq(Txs) /\ Range(mining.txs) \subseteq Txs
<1>1. mining = [at |-> mining.at, txs |-> mining.txs] /\ mining.at \in Steps /\ mining.txs \in Seq(Txs)
  BY DEF Inv, Typed, MiningOK
<1>2. Range(mining.txs) \subseteq Txs
  BY <1>1, RangeIn
<1>3. IsFiniteSet(pool) /\ Cardinality(pool) \in Nat
  BY FS_CardinalityType DEF Inv, Typed, PoolOK
<1> QED BY <1>1, <1>2, <1>3 DEF Inv, Typed, ChainOK, PoolOK

LEMMA KeepLinked ==
  ASSUME Linked, UNCHANGED <<accounts, chain>>
  PROVE  Linked'
BY DEF Linked

\* What arrives is not ahead of its account, and accounts go forward.
LEMMA KeepBehind ==
  ASSUME Inv, accounts' \in Accounts, rolled' = rolled,
         \A y \in Addresses : accounts[y].nonce <= accounts'[y].nonce,
         pool' \cup incoming' \cup Range(mining'.txs) \subseteq Txs,
         \A t \in pool' \cup incoming' \cup Range(mining'.txs) :
           \/ t \in pool \cup incoming \cup Range(mining.txs)
           \/ Nonce[t] = accounts[From[t]].nonce
  PROVE  Behind'
<1> SUFFICES ASSUME ~rolled, NEW t \in pool' \cup incoming' \cup Range(mining'.txs)
             PROVE  Nonce[t] <= accounts'[From[t]].nonce
  BY DEF Behind
<1>1. t \in Txs /\ From[t] \in Addresses /\ Nonce[t] \in Nat
  BY Facts
<1>2. accounts[From[t]].nonce \in Nat /\ accounts'[From[t]].nonce \in Nat
  BY <1>1, InvFacts DEF Accounts
<1>3. Nonce[t] <= accounts[From[t]].nonce
  BY <1>1, <1>2 DEF Inv, Behind
<1>4. accounts[From[t]].nonce <= accounts'[From[t]].nonce
  BY <1>1
<1> QED BY <1>1, <1>2, <1>3, <1>4

\* A step that leaves the accounts and the chain alone.
LEMMA QuietStep ==
  ASSUME Inv, UNCHANGED <<accounts, chain, rolled>>, announced' \subseteq announced,
         pool' \subseteq Txs, IsFiniteSet(pool'), Cardinality(pool') <= PoolSize,
         incoming' \subseteq Txs,
         mining' = [at |-> mining'.at, txs |-> mining'.txs],
         mining'.at \in Steps, mining'.txs \in Seq(Txs),
         \A t \in pool' \cup incoming' \cup Range(mining'.txs) :
           \/ t \in pool \cup incoming \cup Range(mining.txs)
           \/ Nonce[t] = accounts[From[t]].nonce
  PROVE  Inv'
<1>1. accounts \in Accounts /\ chain \in Seq(Blocks) /\ announced \subseteq Blocks
  BY InvFacts
<1>2. ChainOK'
  BY <1>1 DEF ChainOK
<1>3. PoolOK'
  BY DEF PoolOK
<1>4. MiningOK'
  <2>1. rolled \in BOOLEAN
    BY DEF Inv, Typed, MiningOK
  <2>2. mining' \in [at : Steps, txs : Seq(Txs)]
    OBVIOUS
  <2> QED BY <2>1, <2>2 DEF MiningOK
<1>5. Linked'
  BY KeepLinked DEF Inv
<1>6. Range(mining'.txs) \subseteq Txs
  BY RangeIn
<1>7. \A y \in Addresses : accounts[y].nonce <= accounts'[y].nonce
  BY <1>1 DEF Accounts
<1>8. Behind'
  BY <1>1, <1>6, <1>7, KeepBehind
<1> QED BY <1>2, <1>3, <1>4, <1>5, <1>8 DEF Inv, Typed

LEMMA ReceiveStep ==
  ASSUME Inv, NEW batch \in Batches, Receive(batch)
  PROVE  Inv'
<1> DEFINE sound == {t \in batch : WireOk(t) /\ ~KnownTx(t) /\ ValidForPool(t)}
<1>1. batch \subseteq Txs
  BY TxAssumption
<1>2. incoming' = incoming \cup sound /\ UNCHANGED <<accounts, chain, pool, mining, announced, rolled>>
  BY DEF Receive
<1>3. sound \subseteq Txs /\ \A t \in sound : Nonce[t] = accounts[From[t]].nonce
  BY <1>1 DEF ValidForPool
<1> HIDE DEF sound
<1> QED BY <1>2, <1>3, InvFacts, QuietStep

LEMMA SendTxStep ==
  ASSUME Inv, NEW t \in Txs, SendTx(t)
  PROVE  Inv'
<1>1. incoming' = incoming \cup {t} /\ UNCHANGED <<accounts, chain, pool, mining, announced, rolled>>
  BY DEF SendTx
<1>2. Nonce[t] = accounts[From[t]].nonce
  BY DEF SendTx, ValidForPool
<1> QED BY <1>1, <1>2, InvFacts, QuietStep

LEMMA InsertStep ==
  ASSUME Inv, NEW t \in Txs, Insert(t)
  PROVE  Inv'
<1>1. /\ t \in incoming /\ incoming' = incoming \ {t}
      /\ pool' = IF KnownTx(t) THEN pool ELSE Room(pool) \cup {t}
      /\ UNCHANGED <<accounts, chain, mining, announced, rolled>>
  BY DEF Insert
<1>2. pool \in SUBSET Txs /\ IsFiniteSet(pool) /\ Cardinality(pool) <= PoolSize
  BY InvFacts
<1>3. /\ pool' \subseteq pool \cup {t} /\ IsFiniteSet(pool') /\ Cardinality(pool') <= PoolSize
  <2>1. CASE KnownTx(t)
    BY <1>1, <1>2, <2>1
  <2>2. CASE ~KnownTx(t)
    <3>1. /\ Room(pool) \in SUBSET pool /\ IsFiniteSet(Room(pool))
          /\ Cardinality(Room(pool)) \in Nat /\ Cardinality(Room(pool)) < PoolSize
      BY <1>2, RoomFacts
    <3>2. /\ IsFiniteSet(Room(pool) \cup {t})
          /\ Cardinality(Room(pool) \cup {t}) =
               IF t \in Room(pool) THEN Cardinality(Room(pool)) ELSE Cardinality(Room(pool)) + 1
      BY <3>1, FS_AddElement
    <3>3. PoolSize \in Nat
      BY TxAssumption
    <3>4. Cardinality(Room(pool) \cup {t}) <= PoolSize
      BY <3>1, <3>2, <3>3
    <3> QED BY <1>1, <2>2, <3>1, <3>2, <3>4
  <2> QED BY <2>1, <2>2
<1> QED BY <1>1, <1>3, InvFacts, QuietStep

LEMMA PickStep ==
  ASSUME Inv, Pick
  PROVE  Inv'
<1> DEFINE s == Best(pool, BlockLimit)
<1>1. mining' = [at |-> "forge", txs |-> s]
      /\ UNCHANGED <<accounts, chain, pool, incoming, announced, rolled>>
  BY DEF Pick
<1>2. pool \in SUBSET Txs /\ IsFiniteSet(pool) /\ BlockLimit \in Nat
  BY InvFacts, TxAssumption
<1>3. s \in Seq(pool)
  BY <1>2, BestFacts
<1>4. s \in Seq(Txs) /\ Range(s) \subseteq pool
  BY <1>2, <1>3, RangeIn, SeqMonotonic
<1> HIDE DEF s
<1>5. mining'.at = "forge" /\ mining'.txs = s /\ mining' = [at |-> mining'.at, txs |-> mining'.txs]
  BY <1>1
<1>6. mining'.at \in Steps
  BY <1>5 DEF Steps
<1> QED BY <1>1, <1>4, <1>5, <1>6, InvFacts, QuietStep

\* The loop goes on with the same transactions or with none.
Onward ==
  /\ mining' = [at |-> mining'.at, txs |-> mining'.txs] /\ mining'.at \in Steps
  /\ mining'.txs \in Seq(Txs) /\ Range(mining'.txs) \subseteq Range(mining.txs)

LEMMA IdleOnward ==
  ASSUME NEW x \in Steps, mining' = [at |-> x, txs |-> <<>>]
  PROVE  Onward
<1>1. mining'.at = x /\ mining'.txs = <<>> /\ mining' = [at |-> mining'.at, txs |-> mining'.txs]
  OBVIOUS
<1>2. <<>> \in Seq(Txs) /\ Range(<<>>) = {}
  BY EmptySeq DEF Range
<1> QED BY <1>1, <1>2 DEF Onward

LEMMA FailureOnward ==
  ASSUME Inv, mining' = Idle \/ mining' = AfterFailure
  PROVE  Onward
<1>1. CASE mining' = Idle
  BY <1>1, IdleOnward DEF Idle, Steps
<1>2. CASE mining' = [mining EXCEPT !.at = "evict"]
  <2>1. mining = [at |-> mining.at, txs |-> mining.txs] /\ mining.txs \in Seq(Txs)
    BY InvFacts
  <2>2. mining'.at = "evict" /\ mining'.txs = mining.txs
        /\ mining' = [at |-> mining'.at, txs |-> mining'.txs]
    BY <1>2, <2>1
  <2> QED BY <2>1, <2>2 DEF Onward, Steps
<1> QED BY <1>1, <1>2 DEF AfterFailure

LEMMA ShrinkPool ==
  ASSUME Inv, UNCHANGED <<accounts, chain, incoming, rolled>>, pool' \subseteq pool,
         announced' \subseteq announced, Onward \/ mining' = mining
  PROVE  Inv'
<1>1. /\ pool \subseteq Txs /\ IsFiniteSet(pool) /\ Cardinality(pool) \in Nat
      /\ Cardinality(pool) <= PoolSize /\ PoolSize \in Nat
  BY InvFacts, TxAssumption
<1>2. IsFiniteSet(pool') /\ Cardinality(pool') <= Cardinality(pool)
  BY <1>1, FS_Subset
<1>3. Cardinality(pool') \in Nat
  BY <1>2, FS_CardinalityType
<1>4. Cardinality(pool') <= PoolSize
  BY <1>1, <1>2, <1>3
<1> QED BY <1>1, <1>2, <1>4, InvFacts, QuietStep DEF Onward

LEMMA ForgeFailsStep ==
  ASSUME Inv, NEW skip \in BOOLEAN, ForgeFails(skip)
  PROVE  Inv'
<1>1. UNCHANGED <<accounts, chain, pool, incoming, announced, rolled>>
      /\ (mining' = Idle \/ mining' = AfterFailure)
  BY DEF ForgeFails
<1> QED BY <1>1, FailureOnward, ShrinkPool

LEMMA EvictStep ==
  ASSUME Inv, Evict
  PROVE  Inv'
<1>1. /\ mining' = [at |-> "empty", txs |-> <<>>] /\ pool' \subseteq pool
      /\ UNCHANGED <<accounts, chain, incoming, announced, rolled>>
  BY DEF Evict
<1> QED BY <1>1, IdleOnward, ShrinkPool DEF Steps

LEMMA CleanStep ==
  ASSUME Inv, Clean
  PROVE  Inv'
<1>1. /\ mining' = Idle /\ pool' \subseteq pool
      /\ UNCHANGED <<accounts, chain, incoming, announced, rolled>>
  BY DEF Clean
<1> QED BY <1>1, FailureOnward, ShrinkPool

LEMMA DropStep ==
  ASSUME Inv, NEW b \in announced, DropImported(b)
  PROVE  Inv'
<1>1. /\ pool' \subseteq pool /\ announced' \subseteq announced
      /\ UNCHANGED <<accounts, chain, incoming, mining, rolled>>
  BY DEF DropImported
<1> QED BY <1>1, ShrinkPool

\* A commit, with what it does to the forge loop.
LEMMA CommitInv ==
  ASSUME Inv, NEW txs \in Seq(Txs), NEW m \in Miners, Commits(txs, m),
         UNCHANGED <<pool, incoming, rolled>>, Onward \/ mining' = mining,
         announced' \subseteq announced \cup {Block(txs, m, ApplyBlock(accounts, txs, m).accounts)}
  PROVE  Inv'
<1>1. /\ accounts' \in Accounts /\ chain' \in Seq(Blocks) /\ Linked'
      /\ Block(txs, m, ApplyBlock(accounts, txs, m).accounts) \in Blocks
      /\ \A y \in Addresses : accounts[y].nonce <= accounts'[y].nonce
  BY CommitStep DEF Inv
<1>2. ChainOK'
  BY <1>1, InvFacts DEF ChainOK
<1>3. PoolOK'
  BY DEF Inv, Typed, PoolOK
<1>4. /\ mining' = [at |-> mining'.at, txs |-> mining'.txs] /\ mining'.at \in Steps
      /\ mining'.txs \in Seq(Txs) /\ Range(mining'.txs) \subseteq Range(mining.txs)
  BY InvFacts DEF Onward
<1>5. MiningOK'
  <2>1. rolled' \in BOOLEAN
    BY DEF Inv, Typed, MiningOK
  <2>2. mining' \in [at : Steps, txs : Seq(Txs)]
    BY <1>4
  <2> QED BY <2>1, <2>2 DEF MiningOK
<1>6. Behind'
  BY <1>1, <1>4, InvFacts, KeepBehind
<1> QED BY <1>1, <1>2, <1>3, <1>5, <1>6 DEF Inv, Typed

LEMMA ForgeStep ==
  ASSUME Inv, NEW m \in Miners, NEW answered \in BOOLEAN, Forge(m, answered)
  PROVE  Inv'
<1> DEFINE txs == Build(mining.txs)
<1>1. /\ Commits(txs, m) /\ UNCHANGED <<pool, incoming, announced, rolled>>
      /\ mining' = IF answered THEN [at |-> "clean", txs |-> txs] ELSE AfterFailure
  BY DEF Forge, Commits
<1>2. mining.txs \in Seq(Range(mining.txs)) /\ Range(mining.txs) \in SUBSET Txs
  BY InvFacts, SeqOfRange
<1>3. txs \in Seq(Range(mining.txs)) /\ txs \in Seq(Txs)
  BY <1>2, BuildTyped
<1> HIDE DEF txs
<1>4. Onward
  <2>1. CASE answered
    <3>1. mining'.at = "clean" /\ mining'.txs = txs
          /\ mining' = [at |-> mining'.at, txs |-> mining'.txs]
      BY <1>1, <2>1
    <3>2. Range(txs) \subseteq Range(mining.txs)
      BY <1>3, RangeIn
    <3> QED BY <1>3, <3>1, <3>2 DEF Onward, Steps
  <2>2. CASE ~answered
    BY <1>1, <2>2, FailureOnward
  <2> QED BY <2>1, <2>2
<1> QED BY <1>1, <1>3, <1>4, CommitInv

LEMMA PeerTxsTyped == PeerTxs \subseteq Seq(Txs)
<1>1. BlockLimit \in Nat
  BY TxAssumption
<1>2. ASSUME NEW n \in 0 .. BlockLimit, NEW s \in [1 .. n -> {t \in Txs : KeysFit(t)}]
      PROVE  s \in Seq(Txs)
  <2>1. n \in Nat /\ s \in [1 .. n -> Txs]
    BY <1>1
  <2> QED BY <2>1, SeqDef
<1> QED BY <1>2 DEF PeerTxs

LEMMA ImportStep ==
  ASSUME Inv, NEW txs \in PeerTxs, NEW m \in Miners, NEW gossip \in BOOLEAN,
         Import(txs, m, gossip)
  PROVE  Inv'
<1>1. /\ Commits(txs, m) /\ UNCHANGED <<pool, incoming, mining, rolled>>
      /\ announced' \subseteq announced \cup {Block(txs, m, ApplyBlock(accounts, txs, m).accounts)}
  BY DEF Import, Commits
<1>2. txs \in Seq(Txs)
  BY PeerTxsTyped
<1> QED BY <1>1, <1>2, CommitInv

LEMMA ReorgStep ==
  ASSUME Inv, NEW h \in 0 .. MaxHeight, Reorg(h)
  PROVE  Inv'
<1> DEFINE c == SubSeq(chain, 1, h)
<1>1. /\ h < Len(chain) /\ chain' = c /\ accounts' = Root(c) /\ rolled' = TRUE
      /\ UNCHANGED <<pool, incoming, mining, announced>>
  BY DEF Reorg
<1>2. chain \in Seq(Blocks) /\ Len(chain) \in Nat /\ MaxHeight \in Nat
  BY InvFacts, LenProperties, TxAssumption
<1>3. h \in 0 .. Len(chain) /\ h \in 0 .. h
  BY <1>1, <1>2
<1>4. c \in Seq(Blocks) /\ Len(c) = h
  BY <1>2, <1>3, PrefixOfPrefix
<1>5. \A k \in 0 .. h : SubSeq(c, 1, k) = SubSeq(chain, 1, k)
  BY <1>2, <1>3, PrefixOfPrefix
<1>6. \A k \in 0 .. h : k \in 0 .. Len(chain)
  BY <1>2, <1>3
<1> HIDE DEF c
<1>7. Linked'
  BY <1>1, <1>4, <1>5, <1>6 DEF Linked, Inv
<1>8. ChainOK'
  BY <1>1, <1>4, InvFacts, RootTyped DEF ChainOK
<1>9. PoolOK' /\ MiningOK'
  BY <1>1 DEF Inv, Typed, PoolOK, MiningOK
<1>10. Behind'
  BY <1>1 DEF Behind
<1> QED BY <1>7, <1>8, <1>9, <1>10 DEF Inv, Typed

LEMMA InvNext == Inv /\ [Next]_vars => Inv'
<1> SUFFICES ASSUME Inv, [Next]_vars PROVE Inv'
  OBVIOUS
<1>1. CASE UNCHANGED vars
  BY <1>1, ShrinkPool DEF vars
<1>2. ASSUME NEW batch \in Batches, Receive(batch) PROVE Inv'
  BY <1>2, ReceiveStep
<1>3. ASSUME NEW t \in Txs, SendTx(t) \/ Insert(t) PROVE Inv'
  BY <1>3, SendTxStep, InsertStep
<1>4. CASE Pick \/ Evict \/ Clean
  BY <1>4, PickStep, EvictStep, CleanStep
<1>5. ASSUME NEW m \in Miners, NEW answered \in BOOLEAN, Forge(m, answered) PROVE Inv'
  BY <1>5, ForgeStep
<1>6. ASSUME NEW skip \in BOOLEAN, ForgeFails(skip) PROVE Inv'
  BY <1>6, ForgeFailsStep
<1>7. ASSUME NEW txs \in PeerTxs, NEW m \in Miners, NEW gossip \in BOOLEAN,
             Import(txs, m, gossip)
      PROVE  Inv'
  BY <1>7, ImportStep
<1>8. ASSUME NEW b \in announced, DropImported(b) PROVE Inv'
  BY <1>8, DropStep
<1>9. ASSUME NEW h \in 0 .. MaxHeight, Reorg(h) PROVE Inv'
  BY <1>9, ReorgStep
<1> QED BY <1>1, <1>2, <1>3, <1>4, <1>5, <1>6, <1>7, <1>8, <1>9 DEF Next

LEMMA InvAlways == Spec => []Inv
<1>1. Init => Inv
  BY InvInit DEF Inv
<1> QED BY <1>1, InvNext, PTL DEF Spec

-----------------------------------------------------------------------------
(* The results *)

\* Whatever peers and clients send, balances stay at or above zero, although Moved
\* only subtracts (amount.rs:422-475), and the pool keeps to its size, although a
\* tenth of it is rounded down (mempool.py:343-350).
THEOREM TypeCorrect == Spec => []TypeOK
<1>1. Inv => TypeOK
  BY DEF Inv, Typed, ChainOK, PoolOK, MiningOK, Steps, TypeOK
<1> QED BY <1>1, InvAlways, PTL

\* A transaction is executed once, and each account's transactions in the order of
\* their nonces and without a gap, through imports and rollbacks (amount.rs:367-440,
\* tx_pipeline.py:62-68).
THEOREM NonceOrder == Spec => []ExecutedOnce
<1>1. Inv => ExecutedOnce
  <2> SUFFICES ASSUME Inv PROVE ExecutedOnce
    OBVIOUS
  <2>1. chain \in Seq(Blocks) /\ accounts = Root(chain) /\ Sound(chain)
    BY InvFacts, LinkedSound DEF Inv, Linked
  <2>2. InOrder(chain) /\ NoncesUsed(chain)
    BY <2>1 DEF Sound
  <2>3. ASSUME NEW p \in Places(chain), NEW q \in Places(chain), TxAt(chain, p) = TxAt(chain, q)
        PROVE  p = q
    <3> DEFINE x == Nonce[TxAt(chain, p)]
    <3>1. PICK i \in 1 .. Len(chain) : \E j \in 1 .. Len(chain[i].txs) : p = <<i, j>>
      BY <2>1, PlacesAre
    <3>2. PICK j \in 1 .. Len(chain[i].txs) : p = <<i, j>>
      BY <3>1
    <3>3. PICK k \in 1 .. Len(chain) : \E l \in 1 .. Len(chain[k].txs) : q = <<k, l>>
      BY <2>1, PlacesAre
    <3>4. PICK l \in 1 .. Len(chain[k].txs) : q = <<k, l>>
      BY <3>3
    <3>5. /\ Len(chain) \in Nat /\ chain[i].txs \in Seq(Txs) /\ chain[k].txs \in Seq(Txs)
      BY <2>1, BlockTxs, LenProperties
    <3>6. /\ Len(chain[i].txs) \in Nat /\ Len(chain[k].txs) \in Nat /\ chain[i].txs[j] \in Txs
      BY <3>5, LenProperties, ElementOfSeq
    <3>7. i \in Nat /\ j \in Nat /\ k \in Nat /\ l \in Nat
      BY <3>5, <3>6
    <3>8. p[1] = i /\ p[2] = j /\ q[1] = k /\ q[2] = l
      BY <3>2, <3>4
    <3>9. x \in Nat
      BY <3>6, <3>8, Facts DEF TxAt
    <3>10. ~Earlier(p, q)
      <4> HIDE DEF x
      <4>1. Earlier(p, q) => x < x
        BY <2>2, <2>3 DEF InOrder, x
      <4> QED BY <3>9, <4>1
    <3>11. ~Earlier(q, p)
      <4> HIDE DEF x
      <4>1. Earlier(q, p) => x < x
        BY <2>2, <2>3 DEF InOrder, x
      <4> QED BY <3>9, <4>1
    <3>12. i = k /\ j = l
      BY <3>7, <3>8, <3>10, <3>11 DEF Earlier
    <3> QED BY <3>2, <3>4, <3>12
  <2> QED BY <2>1, <2>2, <2>3 DEF ExecutedOnce, InOrder, NoncesUsed
<1> QED BY <1>1, InvAlways, PTL

\* No block makes more than its reward or loses more than the dust of its fees, and
\* the rewards end at the maximum (amount.rs:600-622, state_service.py:247-301).
THEOREM SupplyExact == Spec => []SupplyConserved
<1>1. Inv => SupplyConserved
  <2> SUFFICES ASSUME Inv PROVE SupplyConserved
    OBVIOUS
  <2>1. accounts = Root(chain) /\ Funded(chain)
    BY LinkedSound DEF Inv, Linked, Sound
  <2> QED BY <2>1 DEF Funded, SupplyConserved
<1> QED BY <1>1, InvAlways, PTL

\* Until a rollback the block that create_block builds executes, whatever the pool
\* holds, although the balance check does not see the transactions before in the
\* block (main.py:2172-2182, tx_pipeline.py:218-224).
THEOREM BuiltExecutes == Spec => []BuiltBlockExecutes
<1>1. Inv => BuiltBlockExecutes
  <2> SUFFICES ASSUME Inv, ~rolled, NEW m \in Miners
               PROVE  ApplyBlock(accounts, Build(mining.txs), m).ok
    BY DEF BuiltBlockExecutes
  <2> DEFINE txs == Build(mining.txs)
             s == Run(Started(accounts), txs, m)
             p == Paid(s.accounts, m, RewardAt(Supply(accounts)))
  <2>1. accounts \in Accounts /\ mining.txs \in Seq(Txs)
    BY InvFacts
  <2>2. txs \in Seq(Txs)
    BY <2>1, BuildTyped
  <2>3. \A i \in 1 .. Len(mining.txs) :
          Nonce[mining.txs[i]] <= accounts[From[mining.txs[i]]].nonce
    <3>1. DOMAIN mining.txs = 1 .. Len(mining.txs)
      BY <2>1, LenProperties
    <3>2. \A i \in 1 .. Len(mining.txs) : mining.txs[i] \in Range(mining.txs)
      BY <3>1 DEF Range
    <3> QED BY <3>2 DEF Inv, Behind
  <2>4. /\ \A j \in 1 .. Len(txs) : Runs(accounts, txs[j])
        /\ \A j, k \in 1 .. Len(txs) : From[txs[j]] = From[txs[k]] => j = k
    BY <2>1, <2>3, BuildFacts
  <2> HIDE DEF txs
  <2>5. s.ok
    BY <2>1, <2>2, <2>4, RunSucceeds
  <2>6. ApplyBlock(accounts, txs, m) = [ok |-> s.ok, accounts |-> p]
    BY DEF ApplyBlock, Started
  <2> HIDE DEF s, p
  <2>7. ApplyBlock(accounts, txs, m).ok = s.ok
    BY <2>6
  <2> QED BY <2>5, <2>7 DEF txs
<1> QED BY <1>1, InvAlways, PTL

\* A replay from genesis gives the accounts of the last block, unless rewards have
\* reached the maximum with dust lost or a block holds a transaction with a gas of zero
\* (amount.rs:409-412, 783-860, state_service.py:268, 582, blockchain.py:1139-1180).
THEOREM ReplayFaithful == Spec => []ReplayAgrees
<1>1. Inv => ReplayAgrees
  <2> SUFFICES ASSUME Inv PROVE ReplayAgrees
    OBVIOUS
  <2>1. accounts = Root(chain) /\ Replayed(chain) /\ Funded(chain)
    BY LinkedSound DEF Inv, Linked, Sound
  <2>2. Lost(chain) \in Nat
    <3>1. Lost(chain) = Cardinality(Dusty(chain)) /\ IsFiniteSet(Dusty(chain))
      BY <2>1 DEF Lost, Dusty, Funded
    <3> QED BY <3>1, FS_CardinalityType
  <2>3. Minted(chain) \in Int /\ MaxSupply \in Nat
    <3>1. Len(chain) \in Nat /\ Supply(GenesisAccounts) \in Int /\ Reward \in Nat /\ MaxSupply \in Nat
      BY InvFacts, LenProperties, GenesisTyped, SupplyInt, Facts
    <3>2. \A n \in Nat : Reward * n \in Int
      BY <3>1
    <3> QED BY <3>1, <3>2 DEF Minted
  <2>4. CASE ~FreeInReplay(chain) /\ (Lost(chain) = 0 \/ Minted(chain) <= MaxSupply)
    <3>1. Replay(chain).ok /\ Replay(chain).accounts = accounts
      BY <2>1, <2>4 DEF Replayed
    <3> QED BY <3>1 DEF ReplayAgrees
  <2>5. CASE ~(Lost(chain) = 0 \/ Minted(chain) <= MaxSupply)
    <3>1. Minted(chain) > MaxSupply /\ Lost(chain) > 0
      BY <2>2, <2>3, <2>5
    <3> QED BY <3>1 DEF ReplayAgrees
  <2>6. CASE FreeInReplay(chain)
    BY <2>6 DEF ReplayAgrees
  <2> QED BY <2>4, <2>5, <2>6
<1> QED BY <1>1, InvAlways, PTL

=============================================================================
