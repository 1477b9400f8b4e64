--------------------------- MODULE PeerMeshProofs ---------------------------
(***************************************************************************)
(* What holds of the mesh for any nodes, seeds, limits and number of       *)
(* faults: the table of a node lists exactly its open sessions, and two    *)
(* nodes with room never each drop the session that the other one keeps.   *)
(***************************************************************************)
EXTENDS PeerMesh, FiniteSetTheorems, TLAPS

DialEnds   == {"no", "hello", "live"}
AcceptEnds == {"no", "syn", "wait", "acked", "live"}
SockType   ==
  [d : DialEnds, a : AcceptEnds, ack : BOOLEAN, cut : BOOLEAN, stale : SUBSET Nodes]

\* End, of any state of the sockets.
EndIn(sk, n, s) == IF n = s[1] THEN sk[s].d ELSE sk[s].a

\* A session is listed under the node at its other end.
TableOK ==
  /\ peers \in [Nodes -> [Nodes -> Sockets \cup {None}]]
  /\ \A n, m \in Nodes :
       peers[n][m] # None => n \in Ends(peers[n][m]) /\ m = Other(n, peers[n][m])

\* A node has the table list the ends that are live.
Lists(sk, pe) ==
  \A s \in Sockets : \A n \in Ends(s) :
    EndIn(sk, n, s) = "live" <=> pe[n][Other(n, s)] = s

\* A node has at most one session to a seed that it dialled, dialled or open.
OneDial(sk) ==
  \A s, t \in Sockets :
    s[1] = t[1] /\ s[2] = t[2] /\ s # t => sk[s].d = "no" \/ sk[t].d = "no"

\* Why n dropped s and kept t: a node does not drop what it dialled for another
\* session that it dialled, and of two directions it keeps the canonical one.
Favours(n, s, t) ==
  /\ n = s[1] => t[1] # n
  /\ s[1] # t[1] => Canonical(n, t)

Justified(x) ==
  /\ x \in Nodes \X Sockets \X Sockets
  /\ x[1] \in Ends(x[2]) /\ Ends(x[3]) = Ends(x[2])
  /\ x[1] \in Roomy => Favours(x[1], x[2], x[3])

Others ==
  /\ bound \in [Nodes -> SUBSET Nodes] /\ banned \in [Nodes -> SUBSET Nodes]
  /\ doomed \in [Nodes -> SUBSET Nodes] /\ faults \in 0..MaxFaults

Mesh ==
  /\ sock \in [Sockets -> SockType]
  /\ TableOK /\ Lists(sock, peers) /\ OneDial(sock)
  /\ inbound \in [Nodes -> [Nodes -> Nat]]
  /\ \A x \in gave : Justified(x)

-----------------------------------------------------------------------------
(* Sockets *)

LEMMA SocketFacts ==
  ASSUME NEW s \in Sockets
  PROVE  /\ s[1] \in Nodes /\ s[2] \in Seeds[s[1]] /\ s[2] \in Nodes /\ s[1] # s[2]
         /\ s[3] \in 1..Slots[s[1]] /\ s = <<s[1], s[2], s[3]>>
<1>1. PICK n \in Nodes : s \in {n} \X Seeds[n] \X (1..Slots[n])
  BY DEF Sockets
<1>2. s[1] = n /\ s[2] \in Seeds[n] /\ s[3] \in 1..Slots[n] /\ s = <<s[1], s[2], s[3]>>
  BY <1>1
<1> QED BY <1>2, MeshAssumption

LEMMA SocketMade ==
  ASSUME NEW n \in Nodes, NEW m \in Seeds[n], NEW k \in 1..Slots[n]
  PROVE  <<n, m, k>> \in Sockets
<1>1. <<n, m, k>> \in {n} \X Seeds[n] \X (1..Slots[n])
  OBVIOUS
<1> QED BY <1>1 DEF Sockets

LEMMA EndFacts ==
  ASSUME NEW s \in Sockets, NEW n \in Ends(s)
  PROVE  /\ n \in Nodes /\ Other(n, s) \in Nodes /\ Other(n, s) # n
         /\ Ends(s) = {n, Other(n, s)} /\ Other(Other(n, s), s) = n
BY SocketFacts DEF Ends, Other

LEMMA SetEndFacts ==
  ASSUME NEW sk \in [Sockets -> SockType], NEW s \in Sockets, NEW n \in Ends(s), NEW at,
         n = s[1] => at \in DialEnds, n = s[2] => at \in AcceptEnds
  PROVE  /\ SetEnd(sk, n, s, at) \in [Sockets -> SockType]
         /\ \A t \in Sockets : \A k \in Ends(t) :
              EndIn(SetEnd(sk, n, s, at), k, t) =
                IF t = s /\ k = n THEN at ELSE EndIn(sk, k, t)
         /\ \A t \in Sockets :
              SetEnd(sk, n, s, at)[t].d = IF t = s /\ n = s[1] THEN at ELSE sk[t].d
<1> DEFINE r == IF n = s[1] THEN [sk[s] EXCEPT !.d = at, !.stale = @ \ {n}]
                            ELSE [sk[s] EXCEPT !.a = at, !.stale = @ \ {n}]
           v == IF r.d = "no" /\ r.a = "no" THEN Unused ELSE r
<1>1. s[1] # s[2] /\ n \in {s[1], s[2]}
  BY SocketFacts DEF Ends
<1>2. sk[s] \in SockType
  OBVIOUS
<1>3. /\ r \in SockType
      /\ r.d = IF n = s[1] THEN at ELSE sk[s].d
      /\ r.a = IF n = s[1] THEN sk[s].a ELSE at
  BY <1>1, <1>2 DEF SockType
<1>4. SetEnd(sk, n, s, at) = [sk EXCEPT ![s] = v]
  BY DEF SetEnd
<1> HIDE DEF r
<1>5. v \in SockType /\ v.d = r.d /\ v.a = r.a
  BY <1>3 DEF SockType, Unused, DialEnds, AcceptEnds
<1> HIDE DEF v
<1>6. ASSUME NEW t \in Sockets
      PROVE  SetEnd(sk, n, s, at)[t] = IF t = s THEN v ELSE sk[t]
  BY <1>4
<1>7. ASSUME NEW t \in Sockets, NEW k \in Ends(t)
      PROVE  EndIn(SetEnd(sk, n, s, at), k, t) =
               IF t = s /\ k = n THEN at ELSE EndIn(sk, k, t)
  <2>1. k \in {t[1], t[2]}
    BY DEF Ends
  <2> QED BY <1>1, <1>3, <1>5, <1>6, <2>1 DEF EndIn
<1>8. SetEnd(sk, n, s, at) \in [Sockets -> SockType]
  BY <1>4, <1>5
<1>9. ASSUME NEW t \in Sockets
      PROVE  SetEnd(sk, n, s, at)[t].d = IF t = s /\ n = s[1] THEN at ELSE sk[t].d
  BY <1>3, <1>5, <1>6
<1> QED BY <1>7, <1>8, <1>9

\* Closing an end opens no other.
LEMMA CloseFacts ==
  ASSUME NEW sk \in [Sockets -> SockType], NEW s \in Sockets, NEW n \in Ends(s)
  PROVE  /\ SetEnd(sk, n, s, "no") \in [Sockets -> SockType]
         /\ \A t \in Sockets : \A k \in Ends(t) :
              EndIn(SetEnd(sk, n, s, "no"), k, t) =
                IF t = s /\ k = n THEN "no" ELSE EndIn(sk, k, t)
         /\ \A t \in Sockets : SetEnd(sk, n, s, "no")[t].d \in {"no", sk[t].d}
         /\ OneDial(sk) => OneDial(SetEnd(sk, n, s, "no"))
<1> DEFINE sn == SetEnd(sk, n, s, "no")
<1>1. /\ sn \in [Sockets -> SockType]
      /\ \A t \in Sockets : \A k \in Ends(t) :
           EndIn(sn, k, t) = IF t = s /\ k = n THEN "no" ELSE EndIn(sk, k, t)
      /\ \A t \in Sockets : sn[t].d = IF t = s /\ n = s[1] THEN "no" ELSE sk[t].d
  BY SetEndFacts DEF DialEnds, AcceptEnds
<1> HIDE DEF sn
<1>2. \A t \in Sockets : sn[t].d \in {"no", sk[t].d}
  BY <1>1
<1>3. OneDial(sk) => OneDial(sn)
  BY <1>2 DEF OneDial
<1> QED BY <1>1, <1>2, <1>3 DEF sn

-----------------------------------------------------------------------------
(* The table *)

\* What n lists for the other end of s, when s is not registered yet.
LEMMA Doubles ==
  ASSUME Mesh, NEW s \in Sockets, NEW n \in Ends(s), EndIn(sock, n, s) \notin {"no", "live"},
         peers[n][Other(n, s)] # None
  PROVE  LET old == peers[n][Other(n, s)]
         IN /\ old \in Sockets /\ n \in Ends(old) /\ Other(n, old) = Other(n, s)
            /\ Ends(old) = Ends(s) /\ old # s
            /\ ~(n = s[1] /\ n = old[1])
            /\ s[1] # old[1] => (Canonical(n, s) <=> ~Canonical(n, old))
<1> DEFINE m == Other(n, s)
           old == peers[n][m]
<1>1. n \in Nodes /\ m \in Nodes /\ Ends(s) = {n, m} /\ n # m
  BY EndFacts
<1>2. old \in Sockets /\ n \in Ends(old) /\ m = Other(n, old)
  BY <1>1 DEF Mesh, TableOK
<1>3. EndIn(sock, n, old) = "live"
  BY <1>2 DEF Mesh, Lists
<1>4. old # s
  BY <1>3
<1>5. Ends(old) = {n, m}
  BY <1>2, EndFacts
<1>6. /\ s[1] # s[2] /\ n \in {s[1], s[2]} /\ m \in {s[1], s[2]}
      /\ old[1] # old[2] /\ n \in {old[1], old[2]} /\ m \in {old[1], old[2]}
  BY <1>1, <1>2, <1>5, SocketFacts DEF Ends
<1> HIDE DEF old, m
<1>7. ~(n = s[1] /\ n = old[1])
  <2> SUFFICES ASSUME n = s[1], n = old[1] PROVE FALSE
    OBVIOUS
  <2>1. s[1] = old[1] /\ s[2] = old[2]
    BY <1>1, <1>6
  <2>2. sock[s].d # "no" /\ sock[old].d # "no"
    BY <1>3 DEF EndIn
  <2> QED BY <1>2, <1>4, <2>1, <2>2 DEF Mesh, OneDial
<1>8. s[1] # old[1] => (Canonical(n, s) <=> ~Canonical(n, old))
  <2>1. Other(n, old) = m /\ Other(n, s) = m
    BY <1>2 DEF m
  <2>2. s[1] # old[1] => (n = s[2] <=> ~(n = old[2]))
    BY <1>1, <1>6
  <2>3. PreferInbound(n, m) \in BOOLEAN
    BY DEF PreferInbound
  <2> QED BY <2>1, <2>2, <2>3 DEF Canonical
<1>9. /\ old \in Sockets /\ n \in Ends(old) /\ Other(n, old) = m
      /\ Ends(old) = Ends(s) /\ old # s /\ ~(n = s[1] /\ n = old[1])
      /\ s[1] # old[1] => (Canonical(n, s) <=> ~Canonical(n, old))
  BY <1>1, <1>2, <1>4, <1>5, <1>7, <1>8
<1> QED BY <1>9 DEF old, m

LEMMA RememberedFewer ==
  ASSUME NEW g, NEW sk
  PROVE  Remembered(g, sk) \subseteq g
BY DEF Remembered

LEMMA ClosedOnly ==
  ASSUME Mesh, NEW s \in Sockets, NEW n \in Ends(s), peers[n][Other(n, s)] # s,
         sock' = SetEnd(sock, n, s, "no"), UNCHANGED <<peers, inbound>>,
         \A x \in gave' : Justified(x)
  PROVE  Mesh'
<1> DEFINE sn == SetEnd(sock, n, s, "no")
<1>1. /\ sn \in [Sockets -> SockType] /\ OneDial(sn)
      /\ \A t \in Sockets : \A k \in Ends(t) :
           EndIn(sn, k, t) = IF t = s /\ k = n THEN "no" ELSE EndIn(sock, k, t)
  BY CloseFacts DEF Mesh
<1> HIDE DEF sn
<1>2. Lists(sn, peers)
  BY <1>1 DEF Mesh, Lists
<1>3. sock' = sn
  BY DEF sn
<1>4. sock' \in [Sockets -> SockType] /\ Lists(sock', peers') /\ OneDial(sock')
  BY <1>1, <1>2, <1>3
<1>5. TableOK'
  BY DEF Mesh, TableOK
<1> QED BY <1>4, <1>5 DEF Mesh, Lists, OneDial, Justified

LEMMA RefuseKeeps ==
  ASSUME Mesh, NEW s \in Sockets, NEW n \in Ends(s), EndIn(sock, n, s) \notin {"no", "live"},
         NEW t, Refuse(n, s, t), t # None => Justified(<<n, s, t>>)
  PROVE  Mesh'
<1>1. peers[n][Other(n, s)] # s
  BY DEF Mesh, Lists
<1>2. \A x \in gave' : x \in gave \/ (t # None /\ x = <<n, s, t>>)
  BY RememberedFewer DEF Refuse
<1>3. \A x \in gave' : Justified(x)
  BY <1>2 DEF Mesh
<1> QED BY <1>1, <1>3, ClosedOnly DEF Refuse

LEMMA InstallKeeps ==
  ASSUME Mesh, NEW s \in Sockets, NEW n \in Ends(s), EndIn(sock, n, s) \notin {"no", "live"},
         Install(n, s),
         peers[n][Other(n, s)] # None => Justified(<<n, peers[n][Other(n, s)], s>>)
  PROVE  Mesh'
<1> DEFINE m   == Other(n, s)
           old == peers[n][m]
           sc  == CloseOld(sock, n, old)
           sn  == SetEnd(sc, n, s, "live")
           pn  == [peers EXCEPT ![n][m] = s]
<1>1. n \in Nodes /\ m \in Nodes /\ n # m /\ Ends(s) = {n, m}
  BY EndFacts
<1>2. /\ sock' = sn /\ peers' = pn /\ inbound' = Connected(n, s)
      /\ gave' \subseteq gave \cup IF old = None THEN {} ELSE {<<n, old, s>>}
  BY RememberedFewer DEF Install
<1>3. old # None => /\ old \in Sockets /\ n \in Ends(old) /\ Other(n, old) = m
                    /\ ~(n = s[1] /\ n = old[1]) /\ old # s
  BY Doubles
<1>4. /\ sc \in [Sockets -> SockType] /\ OneDial(sc)
      /\ \A t \in Sockets : \A k \in Ends(t) :
           EndIn(sc, k, t) = IF t = old /\ k = n THEN "no" ELSE EndIn(sock, k, t)
      /\ \A t \in Sockets : sc[t].d \in {"no", sock[t].d}
  <2>1. CASE old = None
    <3>1. sc = sock
      BY <2>1 DEF CloseOld
    <3> QED BY <2>1, <3>1, NoneAssumption DEF Mesh
  <2>2. CASE old # None
    <3>1. sc = SetEnd(sock, n, old, "no")
      BY <2>2 DEF CloseOld
    <3> HIDE DEF old
    <3> QED BY <1>3, <2>2, <3>1, CloseFacts DEF Mesh
  <2> QED BY <2>1, <2>2
<1>5. /\ sn \in [Sockets -> SockType]
      /\ \A t \in Sockets : \A k \in Ends(t) :
           EndIn(sn, k, t) = IF t = s /\ k = n THEN "live" ELSE EndIn(sc, k, t)
      /\ \A t \in Sockets : sn[t].d = IF t = s /\ n = s[1] THEN "live" ELSE sc[t].d
  <2> HIDE DEF sc
  <2> QED BY <1>4, SetEndFacts DEF DialEnds, AcceptEnds
<1>6. /\ pn \in [Nodes -> [Nodes -> Sockets \cup {None}]]
      /\ \A k, l \in Nodes : pn[k][l] = IF k = n /\ l = m THEN s ELSE peers[k][l]
  <2> HIDE DEF m
  <2> QED BY <1>1 DEF Mesh, TableOK
<1> HIDE DEF sn, sc, pn
<1>7. Lists(sn, pn)
  <2> SUFFICES ASSUME NEW t \in Sockets, NEW k \in Ends(t)
               PROVE  EndIn(sn, k, t) = "live" <=> pn[k][Other(k, t)] = t
    BY DEF Lists
  <2>1. k \in Nodes /\ Other(k, t) \in Nodes
    BY EndFacts
  <2>2. EndIn(sock, k, t) = "live" <=> peers[k][Other(k, t)] = t
    BY DEF Mesh, Lists
  <2>3. CASE t = s /\ k = n
    BY <1>1, <1>5, <1>6, <2>3 DEF m
  <2>4. CASE t = old /\ ~(t = s) /\ k = n
    <3>1. old # None
      BY <2>4, NoneAssumption
    <3>2. EndIn(sn, k, t) = "no" /\ pn[k][Other(k, t)] = s
      BY <1>1, <1>3, <1>4, <1>5, <1>6, <2>4, <3>1
    <3> QED BY <2>4, <3>2
  <2>5. CASE ~(t = s /\ k = n) /\ ~(t = old /\ k = n)
    <3>1. EndIn(sn, k, t) = EndIn(sock, k, t)
      BY <1>4, <1>5, <2>5
    <3>2. CASE k = n /\ Other(k, t) = m
      <4>1. pn[k][Other(k, t)] = s /\ peers[k][Other(k, t)] = old
        BY <1>1, <1>6, <3>2
      <4> QED BY <2>2, <2>5, <3>1, <3>2, <4>1
    <3>3. CASE ~(k = n /\ Other(k, t) = m)
      BY <1>6, <2>1, <2>2, <3>1, <3>3
    <3> QED BY <3>2, <3>3
  <2> QED BY <2>3, <2>4, <2>5
<1>8. OneDial(sn)
  <2> SUFFICES ASSUME NEW t \in Sockets, NEW v \in Sockets, t[1] = v[1], t[2] = v[2], t # v,
                      sn[t].d # "no", sn[v].d # "no"
               PROVE  FALSE
    BY DEF OneDial
  <2>1. ASSUME NEW x \in Sockets, sn[x].d # "no" PROVE sock[x].d # "no"
    <3>1. CASE x = s /\ n = s[1]
      BY <3>1 DEF EndIn
    <3>2. CASE ~(x = s /\ n = s[1])
      BY <1>4, <1>5, <2>1, <3>2
    <3> QED BY <3>1, <3>2
  <2> QED BY <2>1 DEF Mesh, OneDial
<1>9. TableOK'
  <2>1. \A k, l \in Nodes :
          pn[k][l] # None => k \in Ends(pn[k][l]) /\ l = Other(k, pn[k][l])
    BY <1>6 DEF Mesh, TableOK, m
  <2> QED BY <1>2, <1>6, <2>1 DEF TableOK
<1>10. inbound' \in [Nodes -> [Nodes -> Nat]]
  <2>1. s[1] \in Nodes
    BY SocketFacts
  <2>2. inbound[n][s[1]] \in Nat
    BY <1>1, <2>1 DEF Mesh
  <2> QED BY <1>1, <1>2, <2>1, <2>2 DEF Mesh, Connected
<1>11. \A x \in gave' : Justified(x)
  BY <1>2 DEF Mesh
<1> QED BY <1>2, <1>5, <1>7, <1>8, <1>9, <1>10, <1>11 DEF Mesh, Lists, OneDial, Justified

LEMMA RegisterKeeps ==
  ASSUME Mesh, NEW s \in Sockets, NEW n \in Ends(s), EndIn(sock, n, s) \notin {"no", "live"},
         Register(n, s)
  PROVE  Mesh'
<1> DEFINE m   == Other(n, s)
           old == peers[n][m]
<1>1. CASE m \in banned[n]
  <2>1. Refuse(n, s, None)
    BY <1>1 DEF Register
  <2> QED BY <2>1, RefuseKeeps
<1>2. CASE m \notin banned[n] /\ old = None
  <2>1. Install(n, s)
    BY <1>2 DEF Register
  <2> QED BY <1>2, <2>1, InstallKeeps
<1>3. CASE m \notin banned[n] /\ old # None
  <2>1. /\ old \in Sockets /\ n \in Ends(old) /\ Ends(old) = Ends(s) /\ n \in Nodes
        /\ ~(n = s[1] /\ n = old[1])
        /\ s[1] # old[1] => (Canonical(n, s) <=> ~Canonical(n, old))
    BY <1>3, Doubles, EndFacts
  <2>2. \/ Refuse(n, s, old) /\ (Canonical(n, old) \/ ~Canonical(n, s))
        \/ Install(n, s) /\ ~Canonical(n, old)
    BY <1>3 DEF Register
  <2>3. CASE Refuse(n, s, old) /\ (Canonical(n, old) \/ ~Canonical(n, s))
    <3> HIDE DEF old
    <3>1. Favours(n, s, old)
      BY <2>1, <2>3 DEF Favours
    <3>2. Justified(<<n, s, old>>)
      BY <2>1, <3>1 DEF Justified
    <3> QED BY <2>3, <3>2, RefuseKeeps
  <2>4. CASE Install(n, s) /\ ~Canonical(n, old)
    <3> HIDE DEF old
    <3>1. Favours(n, old, s)
      BY <2>1, <2>4 DEF Favours
    <3>2. Justified(<<n, old, s>>)
      BY <2>1, <3>1 DEF Justified
    <3> QED BY <2>4, <3>2, InstallKeeps DEF old
  <2> QED BY <2>2, <2>3, <2>4
<1> QED BY <1>1, <1>2, <1>3

LEMMA UnregisterKeeps ==
  ASSUME Mesh, NEW s \in Sockets, NEW n \in Ends(s), Unregister(n, s)
  PROVE  Mesh'
<1> DEFINE m == Other(n, s)
<1>1. n \in Nodes /\ m \in Nodes /\ n # m /\ s[1] \in Nodes
  BY EndFacts, SocketFacts
<1>2. \A x \in gave' : Justified(x)
  BY RememberedFewer DEF Unregister, Mesh
<1>3. CASE peers[n][m] # s
  BY <1>2, <1>3, ClosedOnly DEF Unregister
<1>4. CASE peers[n][m] = s
  <2> DEFINE sn == SetEnd(sock, n, s, "no")
             pn == [peers EXCEPT ![n][m] = None]
  <2>1. sock' = sn /\ peers' = pn /\ inbound' = Disconnected(n, s)
    BY <1>4 DEF Unregister
  <2>2. /\ sn \in [Sockets -> SockType] /\ OneDial(sn)
        /\ \A t \in Sockets : \A k \in Ends(t) :
             EndIn(sn, k, t) = IF t = s /\ k = n THEN "no" ELSE EndIn(sock, k, t)
    BY CloseFacts DEF Mesh
  <2>3. /\ pn \in [Nodes -> [Nodes -> Sockets \cup {None}]]
        /\ \A k, l \in Nodes : pn[k][l] = IF k = n /\ l = m THEN None ELSE peers[k][l]
    <3> HIDE DEF m
    <3> QED BY <1>1 DEF Mesh, TableOK
  <2> HIDE DEF sn, pn
  <2>4. Lists(sn, pn)
    <3> SUFFICES ASSUME NEW t \in Sockets, NEW k \in Ends(t)
                 PROVE  EndIn(sn, k, t) = "live" <=> pn[k][Other(k, t)] = t
      BY DEF Lists
    <3>1. k \in Nodes /\ Other(k, t) \in Nodes /\ t # None
      BY EndFacts, NoneAssumption
    <3>2. EndIn(sock, k, t) = "live" <=> peers[k][Other(k, t)] = t
      BY DEF Mesh, Lists
    <3>3. CASE t = s /\ k = n
      BY <1>1, <2>2, <2>3, <3>1, <3>3
    <3>4. CASE ~(t = s /\ k = n) /\ k = n /\ Other(k, t) = m
      BY <1>1, <1>4, <2>2, <2>3, <3>1, <3>2, <3>4
    <3>5. CASE ~(t = s /\ k = n) /\ ~(k = n /\ Other(k, t) = m)
      BY <2>2, <2>3, <3>1, <3>2, <3>5
    <3> QED BY <3>3, <3>4, <3>5
  <2>5. TableOK'
    <3>1. \A k, l \in Nodes :
            pn[k][l] # None => k \in Ends(pn[k][l]) /\ l = Other(k, pn[k][l])
      BY <2>3 DEF Mesh, TableOK
    <3> QED BY <2>1, <2>3, <3>1 DEF TableOK
  <2>6. inbound' \in [Nodes -> [Nodes -> Nat]]
    <3>1. inbound[n][s[1]] \in Nat
      BY <1>1 DEF Mesh
    <3> QED BY <1>1, <2>1, <3>1 DEF Mesh, Disconnected
  <2> QED BY <1>2, <2>1, <2>2, <2>4, <2>5, <2>6 DEF Mesh, Lists, OneDial, Justified
<1> QED BY <1>3, <1>4

\* A node with room never finds its table full when a dial ends.
LEMMA RoomToDial ==
  ASSUME Mesh, NEW n \in Roomy
  PROVE  AllowOutbound(n)
<1>1. n \in Nodes /\ MaxPeers[n] > Cardinality(Neighbours(n)) /\ MaxPeers[n] \in Nat
  BY MeshAssumption DEF Roomy
<1>2. Listed(n) \subseteq Neighbours(n)
  <2> SUFFICES ASSUME NEW m \in Nodes, peers[n][m] # None PROVE m \in Neighbours(n)
    BY DEF Listed
  <2>1. /\ peers[n][m] \in Sockets /\ n \in Ends(peers[n][m])
        /\ m = Other(n, peers[n][m])
    BY <1>1 DEF Mesh, TableOK
  <2> QED BY <2>1, SocketFacts DEF Neighbours, Ends, Other
<1>3. Neighbours(n) \subseteq Nodes
  BY <1>1, MeshAssumption DEF Neighbours
<1>4. IsFiniteSet(Neighbours(n))
  BY <1>3, MeshAssumption, FS_Subset
<1>5. /\ Cardinality(Listed(n)) <= Cardinality(Neighbours(n))
      /\ IsFiniteSet(Listed(n))
  BY <1>2, <1>4, FS_Subset
<1>6. Cardinality(Listed(n)) \in Nat /\ Cardinality(Neighbours(n)) \in Nat
  BY <1>4, <1>5, FS_CardinalityType
<1> QED BY <1>1, <1>5, <1>6 DEF AllowOutbound

-----------------------------------------------------------------------------
(* The steps *)

LEMMA DialKeeps ==
  ASSUME Mesh, NEW n \in Nodes, NEW m \in Nodes, Dial(n, m)
  PROVE  Mesh'
<1>1. PICK k \in 1..Slots[n] :
        /\ sock[<<n, m, k>>] = Unused
        /\ sock' = [sock EXCEPT ![<<n, m, k>>] = [Unused EXCEPT !.d = "hello", !.a = "syn"]]
  BY DEF Dial
<1>2. m \in Seeds[n] /\ UNCHANGED <<peers, inbound, gave>>
  BY DEF Dial
<1> DEFINE s == <<n, m, k>>
           v == [Unused EXCEPT !.d = "hello", !.a = "syn"]
<1>3. s \in Sockets /\ s[1] = n /\ s[2] = m
  BY <1>2, SocketMade
<1>4. v \in SockType /\ v.d = "hello" /\ v.a = "syn"
  BY DEF Unused, SockType, DialEnds, AcceptEnds
<1>5. sock[s].d = "no" /\ sock[s].a = "no"
  BY <1>1 DEF Unused
<1> HIDE DEF s, v
<1>6. /\ sock' \in [Sockets -> SockType]
      /\ \A t \in Sockets : sock'[t] = IF t = s THEN v ELSE sock[t]
  BY <1>1, <1>3, <1>4 DEF Mesh, s, v
<1>7. Lists(sock', peers')
  <2> SUFFICES ASSUME NEW t \in Sockets, NEW k2 \in Ends(t)
               PROVE  EndIn(sock', k2, t) = "live" <=> peers'[k2][Other(k2, t)] = t
    BY DEF Lists
  <2>1. EndIn(sock, k2, t) = "live" <=> peers[k2][Other(k2, t)] = t
    BY DEF Mesh, Lists
  <2> QED BY <1>2, <1>4, <1>5, <1>6, <2>1 DEF EndIn
<1>8. ASSUME NEW t \in Sockets, t[1] = n, t[2] = m PROVE sock[t].d = "no"
  <2>1. t = <<n, m, t[3]>> /\ t[3] \in 1..Slots[n]
    BY <1>8, SocketFacts
  <2>2. sock[t].d # "hello"
    BY <2>1 DEF Dial
  <2>3. sock[t].d # "live"
    <3> SUFFICES ASSUME sock[t].d = "live" PROVE FALSE
      OBVIOUS
    <3>1. EndIn(sock, n, t) = "live" /\ n \in Ends(t) /\ Other(n, t) = m
      BY <1>8 DEF EndIn, Ends, Other
    <3>2. peers[n][m] = t
      BY <3>1 DEF Mesh, Lists
    <3>3. Covered(n, m)
      BY <1>8, <3>2, NoneAssumption DEF Covered
    <3> QED BY <3>3 DEF Dial
  <2> QED BY <2>2, <2>3 DEF Mesh, SockType, DialEnds
<1>9. OneDial(sock')
  <2> SUFFICES ASSUME NEW t \in Sockets, NEW x \in Sockets, t[1] = x[1], t[2] = x[2], t # x
               PROVE  sock'[t].d = "no" \/ sock'[x].d = "no"
    BY DEF OneDial
  <2>1. CASE t = s
    <3>1. x[1] = n /\ x[2] = m
      BY <1>3, <2>1
    <3> QED BY <1>6, <1>8, <2>1, <3>1
  <2>2. CASE x = s
    <3>1. t[1] = n /\ t[2] = m
      BY <1>3, <2>2
    <3> QED BY <1>6, <1>8, <2>2, <3>1
  <2>3. CASE t # s /\ x # s
    BY <1>6, <2>3 DEF Mesh, OneDial
  <2> QED BY <2>1, <2>2, <2>3
<1> QED BY <1>2, <1>6, <1>7, <1>9 DEF Mesh, TableOK, Lists, OneDial, Justified

\* Of a socket something else changes than an end that is or becomes live.
LEMMA NotLiveKeeps ==
  ASSUME Mesh, NEW s \in Sockets, NEW v \in SockType,
         v.d = sock[s].d, v.a = sock[s].a \/ "live" \notin {v.a, sock[s].a},
         sock' = [sock EXCEPT ![s] = v], UNCHANGED <<peers, inbound, gave>>
  PROVE  Mesh'
<1>1. /\ sock' \in [Sockets -> SockType]
      /\ \A t \in Sockets : sock'[t] = IF t = s THEN v ELSE sock[t]
  BY DEF Mesh
<1>2. Lists(sock', peers')
  <2> SUFFICES ASSUME NEW t \in Sockets, NEW k \in Ends(t)
               PROVE  EndIn(sock', k, t) = "live" <=> peers'[k][Other(k, t)] = t
    BY DEF Lists
  <2>1. EndIn(sock, k, t) = "live" <=> peers[k][Other(k, t)] = t
    BY DEF Mesh, Lists
  <2> QED BY <1>1, <2>1 DEF EndIn
<1>3. \A t \in Sockets : sock'[t].d = sock[t].d
  BY <1>1
<1>4. OneDial(sock')
  BY <1>3 DEF Mesh, OneDial
<1>5. /\ TableOK' /\ inbound' \in [Nodes -> [Nodes -> Nat]]
      /\ \A x \in gave' : Justified(x)
  BY DEF Mesh, TableOK
<1> QED BY <1>1, <1>2, <1>4, <1>5 DEF Mesh, Lists, OneDial, Justified

LEMMA AcceptKeeps ==
  ASSUME Mesh, NEW s \in Sockets, Accept(s)
  PROVE  Mesh'
<1> DEFINE n  == s[2]
           at == IF AllowInbound(s[2], s[1]) THEN "wait" ELSE "no"
           sn == SetEnd(sock, n, s, at)
<1>1. n \in Ends(s) /\ n # s[1] /\ at \in {"wait", "no"}
  BY SocketFacts DEF Ends
<1>2. sock' = sn /\ sock[s].a = "syn" /\ UNCHANGED <<peers, inbound>>
  BY DEF Accept
<1>3. \A x \in gave' : Justified(x)
  BY RememberedFewer DEF Accept, Mesh
<1> HIDE DEF at
<1>4. /\ sn \in [Sockets -> SockType]
      /\ \A t \in Sockets : \A k \in Ends(t) :
           EndIn(sn, k, t) = IF t = s /\ k = n THEN at ELSE EndIn(sock, k, t)
      /\ \A t \in Sockets : sn[t].d = sock[t].d
  BY <1>1, SetEndFacts DEF Mesh, AcceptEnds
<1> HIDE DEF sn
<1>5. Lists(sn, peers)
  <2> SUFFICES ASSUME NEW t \in Sockets, NEW k \in Ends(t)
               PROVE  EndIn(sn, k, t) = "live" <=> peers[k][Other(k, t)] = t
    BY DEF Lists
  <2>1. EndIn(sock, k, t) = "live" <=> peers[k][Other(k, t)] = t
    BY DEF Mesh, Lists
  <2>2. EndIn(sock, n, s) = "syn"
    BY <1>1, <1>2 DEF EndIn
  <2> QED BY <1>1, <1>4, <2>1, <2>2
<1>6. OneDial(sn)
  BY <1>4 DEF Mesh, OneDial
<1> QED BY <1>2, <1>3, <1>4, <1>5, <1>6 DEF Mesh, TableOK, Lists, OneDial, Justified

LEMMA FinishDialKeeps ==
  ASSUME Mesh, NEW s \in Sockets, FinishDial(s)
  PROVE  Mesh'
<1> DEFINE n == s[1]
           m == s[2]
<1>1. n \in Ends(s) /\ Other(n, s) = m /\ n \in Nodes
  BY SocketFacts DEF Ends, Other
<1>2. EndIn(sock, n, s) = "hello"
  BY DEF FinishDial, EndIn
<1>3. CASE Register(n, s)
  BY <1>1, <1>2, <1>3, RegisterKeeps
<1>4. CASE ~AllowOutbound(n) /\ Refuse(n, s, peers[n][m])
  <2> DEFINE old == peers[n][m]
  <2>1. n \notin Roomy
    BY <1>4, RoomToDial
  <2>2. old # None => old \in Sockets /\ Ends(old) = Ends(s)
    BY <1>1, <1>2, Doubles
  <2>3. old # None => Justified(<<n, s, old>>)
    BY <1>1, <2>1, <2>2 DEF Justified
  <2> QED BY <1>1, <1>2, <1>4, <2>3, RefuseKeeps
<1> QED BY <1>3, <1>4 DEF FinishDial

LEMMA RestartKeeps ==
  ASSUME Mesh, NEW n \in Nodes, Restart(n)
  PROVE  Mesh'
<1> DEFINE sn == [s \in Sockets |-> IF n \in Ends(s) THEN SetEnd(sock, n, s, "no")[s]
                                    ELSE sock[s]]
           pn == [peers EXCEPT ![n] = [m \in Nodes |-> None]]
<1>1. sock' = sn /\ peers' = pn /\ inbound' = [inbound EXCEPT ![n] = [m \in Nodes |-> 0]]
  BY DEF Restart
<1>2. \A x \in gave' : Justified(x)
  BY RememberedFewer DEF Restart, Mesh
<1>3. ASSUME NEW s \in Sockets
      PROVE  /\ sn[s] \in SockType /\ sn[s].d \in {"no", sock[s].d}
             /\ \A k \in Ends(s) :
                  EndIn(sn, k, s) = IF k = n THEN "no" ELSE EndIn(sock, k, s)
  <2>1. CASE n \in Ends(s)
    <3> DEFINE sc == SetEnd(sock, n, s, "no")
    <3>1. sn[s] = sc[s]
      BY <2>1
    <3>2. /\ sc \in [Sockets -> SockType] /\ sc[s].d \in {"no", sock[s].d}
          /\ \A k \in Ends(s) : EndIn(sc, k, s) = IF k = n THEN "no" ELSE EndIn(sock, k, s)
      BY <2>1, CloseFacts DEF Mesh
    <3> HIDE DEF sn, sc
    <3> QED BY <3>1, <3>2 DEF EndIn
  <2>2. CASE n \notin Ends(s)
    <3>1. sn[s] = sock[s]
      BY <2>2
    <3> HIDE DEF sn
    <3> QED BY <2>2, <3>1 DEF Mesh, EndIn
  <2> QED BY <2>1, <2>2
<1>4. sn \in [Sockets -> SockType]
  <2>1. sn = [s \in Sockets |-> sn[s]]
    OBVIOUS
  <2> HIDE DEF sn
  <2> QED BY <1>3, <2>1
<1>5. /\ pn \in [Nodes -> [Nodes -> Sockets \cup {None}]]
      /\ \A k, l \in Nodes : pn[k][l] = IF k = n THEN None ELSE peers[k][l]
  BY DEF Mesh, TableOK
<1> HIDE DEF sn, pn
<1>6. Lists(sn, pn)
  <2> SUFFICES ASSUME NEW t \in Sockets, NEW k \in Ends(t)
               PROVE  EndIn(sn, k, t) = "live" <=> pn[k][Other(k, t)] = t
    BY DEF Lists
  <2>1. k \in Nodes /\ Other(k, t) \in Nodes /\ t # None
    BY EndFacts, NoneAssumption
  <2>2. EndIn(sock, k, t) = "live" <=> peers[k][Other(k, t)] = t
    BY DEF Mesh, Lists
  <2> QED BY <1>3, <1>5, <2>1, <2>2
<1>7. OneDial(sn)
  BY <1>3 DEF Mesh, OneDial
<1>8. TableOK'
  <2>1. \A k, l \in Nodes :
          pn[k][l] # None => k \in Ends(pn[k][l]) /\ l = Other(k, pn[k][l])
    BY <1>5 DEF Mesh, TableOK
  <2> QED BY <1>1, <1>5, <2>1 DEF TableOK
<1>9. inbound' \in [Nodes -> [Nodes -> Nat]]
  BY <1>1 DEF Mesh
<1> QED BY <1>1, <1>2, <1>4, <1>6, <1>7, <1>8, <1>9 DEF Mesh, Lists, OneDial, Justified

LEMMA MeshNext ==
  ASSUME Mesh, [Next]_vars
  PROVE  Mesh'
<1>1. ASSUME NEW n \in Nodes, NEW m \in Nodes, Ban(n, m) \/ Remove(n, m) PROVE Mesh'
  <2> DEFINE s == peers[n][m]
  <2>1. CASE s # None /\ Unregister(n, s)
    <3>1. s \in Sockets /\ n \in Ends(s)
      BY <2>1 DEF Mesh, TableOK
    <3> QED BY <2>1, <3>1, UnregisterKeeps
  <2>2. CASE UNCHANGED <<sock, peers, inbound, gave>>
    BY <2>2 DEF Mesh, TableOK, Lists, OneDial, Justified
  <2> QED BY <1>1, <2>1, <2>2 DEF Ban, Remove
<1>2. ASSUME NEW n \in Nodes, NEW m \in Nodes, BanExpires(n, m) \/ Collect(n, m)
      PROVE  Mesh'
  BY <1>2 DEF BanExpires, Collect, Mesh, TableOK, Lists, OneDial, Justified
<1>3. ASSUME NEW s \in Sockets, Cut(s) PROVE Mesh'
  <2> DEFINE v == [sock[s] EXCEPT !.cut = TRUE]
  <2>1. v \in SockType /\ v.d = sock[s].d /\ v.a = sock[s].a
    BY DEF Mesh, SockType
  <2>2. sock' = [sock EXCEPT ![s] = v] /\ UNCHANGED <<peers, inbound, gave>>
    BY <1>3 DEF Cut
  <2> HIDE DEF v
  <2> QED BY <2>1, <2>2, NotLiveKeeps
<1>4. ASSUME NEW s \in Sockets, NEW n \in Ends(s), Stall(n, s) \/ Resume(n, s)
      PROVE  Mesh'
  <2> DEFINE v(x) == [sock[s] EXCEPT !.stale = x]
  <2>1. n \in Nodes
    BY EndFacts
  <2>2. /\ sock[s].stale \cup {n} \in SUBSET Nodes /\ sock[s].stale \ {n} \in SUBSET Nodes
        /\ \A x \in SUBSET Nodes :
             v(x) \in SockType /\ v(x).d = sock[s].d /\ v(x).a = sock[s].a
    BY <2>1 DEF Mesh, SockType
  <2>3. /\ \/ sock' = [sock EXCEPT ![s] = v(sock[s].stale \cup {n})]
           \/ sock' = [sock EXCEPT ![s] = v(sock[s].stale \ {n})]
        /\ UNCHANGED <<peers, inbound, gave>>
    BY <1>4 DEF Stall, Resume
  <2> HIDE DEF v
  <2> QED BY <2>2, <2>3, NotLiveKeeps
<1>5. ASSUME NEW s \in Sockets, Acknowledge(s) PROVE Mesh'
  <2> DEFINE v == [sock[s] EXCEPT !.a = "acked", !.ack = TRUE]
  <2>1. v \in SockType /\ v.d = sock[s].d /\ "live" \notin {v.a, sock[s].a}
    BY <1>5 DEF Acknowledge, Mesh, SockType, AcceptEnds
  <2>2. sock' = [sock EXCEPT ![s] = v] /\ UNCHANGED <<peers, inbound, gave>>
    BY <1>5 DEF Acknowledge
  <2> HIDE DEF v
  <2> QED BY <2>1, <2>2, NotLiveKeeps
<1>6. ASSUME NEW s \in Sockets, FinishAccept(s) PROVE Mesh'
  <2>1. s[2] \in Ends(s) /\ EndIn(sock, s[2], s) = "acked" /\ Register(s[2], s)
    BY <1>6, SocketFacts DEF Ends, EndIn, FinishAccept
  <2> QED BY <2>1, RegisterKeeps
<1>7. ASSUME NEW s \in Sockets, NEW n \in Ends(s), EndOfFile(n, s) \/ TimeOut(n, s)
      PROVE  Mesh'
  BY <1>7, UnregisterKeeps DEF EndOfFile, TimeOut
<1>8. ASSUME NEW s \in Sockets, NEW n \in Ends(s), Task(n, s) PROVE Mesh'
  BY <1>4, <1>5, <1>6, <1>7, <1>8, AcceptKeeps, FinishDialKeeps DEF Task
<1>9. CASE UNCHANGED vars
  BY <1>9 DEF vars, Mesh, TableOK, Lists, OneDial, Justified
<1> QED BY <1>1, <1>2, <1>3, <1>8, <1>9, <1>4, DialKeeps, RestartKeeps DEF Next

LEMMA MeshInit == Init => Mesh
<1> SUFFICES ASSUME Init PROVE Mesh
  OBVIOUS
<1>1. /\ Unused \in SockType /\ Unused.d = "no" /\ Unused.a = "no"
  BY DEF Unused, SockType, DialEnds, AcceptEnds
<1>2. sock \in [Sockets -> SockType] /\ \A s \in Sockets : sock[s] = Unused
  BY <1>1 DEF Init
<1>3. /\ peers \in [Nodes -> [Nodes -> Sockets \cup {None}]]
      /\ \A n, m \in Nodes : peers[n][m] = None
  BY DEF Init
<1>4. TableOK
  BY <1>3 DEF TableOK
<1>5. Lists(sock, peers)
  BY <1>1, <1>2, <1>3, EndFacts, NoneAssumption DEF Lists, EndIn
<1>6. OneDial(sock)
  BY <1>1, <1>2 DEF OneDial
<1> QED BY <1>2, <1>4, <1>5, <1>6 DEF Init, Mesh

LEMMA MeshHolds == Spec => []Mesh
<1>1. Mesh /\ [Next]_vars => Mesh'
  BY MeshNext
<1> QED BY <1>1, MeshInit, PTL DEF Spec

\* The tables, bans and counts that no theorem but the type needs.
LEMMA OthersNext ==
  ASSUME Others, [Next]_vars
  PROVE  Others'
<1>1. MaxFaults \in Nat
  BY MeshAssumption
<1>2. ASSUME Fault PROVE faults' \in 0..MaxFaults
  BY <1>1, <1>2 DEF Fault, Others
<1>3. ASSUME NEW n \in Nodes, NEW m \in Nodes,
             Dial(n, m) \/ Ban(n, m) \/ BanExpires(n, m) \/ Collect(n, m) \/ Remove(n, m)
      PROVE  Others'
  <2>1. CASE Dial(n, m)
    BY <2>1 DEF Dial, Others
  <2>2. CASE Ban(n, m)
    BY <1>2, <2>2 DEF Ban, Others
  <2>3. CASE BanExpires(n, m)
    BY <2>3 DEF BanExpires, Others
  <2>4. CASE Collect(n, m)
    BY <2>4 DEF Collect, Others
  <2>5. CASE Remove(n, m)
    BY <2>5 DEF Remove, Others
  <2> QED BY <1>3, <2>1, <2>2, <2>3, <2>4, <2>5
<1>4. ASSUME NEW s \in Sockets, Cut(s) PROVE Others'
  BY <1>2, <1>4 DEF Cut, Others
<1>5. ASSUME NEW s \in Sockets, NEW n \in Ends(s), Stall(n, s) PROVE Others'
  BY <1>2, <1>5 DEF Stall, Others
<1>6. ASSUME NEW s \in Sockets, NEW n \in Ends(s), Task(n, s) PROVE Others'
  <2>1. CASE FinishDial(s)
    <3>1. s[1] \in Nodes /\ s[2] \in Nodes
      BY SocketFacts
    <3>2. bound' \in [Nodes -> SUBSET Nodes]
      BY <2>1, <3>1 DEF FinishDial, Others
    <3> QED BY <2>1, <3>2 DEF FinishDial, Others
  <2>2. CASE Accept(s) \/ Acknowledge(s) \/ FinishAccept(s)
    BY <2>2 DEF Accept, Acknowledge, FinishAccept, Others
  <2>3. CASE EndOfFile(n, s) \/ TimeOut(n, s) \/ Resume(n, s)
    BY <2>3 DEF EndOfFile, TimeOut, Resume, Others
  <2> QED BY <1>6, <2>1, <2>2, <2>3 DEF Task
<1>7. ASSUME NEW n \in Nodes, Restart(n) PROVE Others'
  BY <1>2, <1>7 DEF Restart, Others
<1>8. CASE UNCHANGED vars
  BY <1>8 DEF vars, Others
<1> QED BY <1>3, <1>4, <1>6, <1>7, <1>8, <1>5 DEF Next

\* The table of every node lists exactly its open sessions, whatever is dialled,
\* replaced, refused, cut, stalled, banned and restarted in whatever order: a session that
\* register replaces or refuses is closed, one that unregister takes out is gone
\* (peer_manager.py:382-487).
THEOREM TypeCorrect == Spec => []TypeOK
<1>1. Init => Others
  BY MeshAssumption DEF Init, Others
<1>2. Others /\ [Next]_vars => Others'
  BY OthersNext
<1>3. Mesh /\ Others => TypeOK
  <2> SUFFICES ASSUME Mesh, Others PROVE TypeOK
    OBVIOUS
  <2>1. \A s \in Sockets : \A n \in Ends(s) :
          End(n, s) = "live" <=> peers[n][Other(n, s)] = s
    BY DEF Mesh, Lists, End, EndIn
  <2>2. gave \subseteq Nodes \X Sockets \X Sockets
    BY DEF Mesh, Justified
  <2>3. sock \in [Sockets -> [d : {"no", "hello", "live"},
                              a : {"no", "syn", "wait", "acked", "live"},
                              ack : BOOLEAN, cut : BOOLEAN, stale : SUBSET Nodes]]
    BY DEF Mesh, SockType, DialEnds, AcceptEnds
  <2>4. \A n \in Nodes : \A m \in Nodes : peers[n][m] \in Sockets \cup {None}
    BY DEF Mesh, TableOK
  <2> QED BY <2>1, <2>2, <2>3, <2>4 DEF Mesh, Others, TypeOK
<1> QED BY <1>1, <1>2, <1>3, MeshHolds, PTL DEF Spec

\* Lexicographic dial ownership keeps its promise for any number of nodes that
\* dial each other, with lost lines, stalls, bans and restarts in between: two nodes with
\* room never each drop the session that the other keeps.  Two sessions of one
\* direction cannot come to that because the dialler never has both, two of
\* opposite directions because both nodes keep the canonical one
\* (peer_manager.py:382-441, p2p_node.py:2330-2451).
THEOREM NoTearDown == Spec => []NoMutualTearDown
<1>1. Mesh => NoMutualTearDown
  <2> SUFFICES ASSUME Mesh, NEW s \in Sockets, NEW t \in Sockets, NEW n \in Ends(s),
                      Ends(s) \subseteq Roomy,
                      <<n, s, t>> \in gave, <<Other(n, s), t, s>> \in gave
               PROVE  FALSE
    BY DEF NoMutualTearDown, BothDropped
  <2> DEFINE m == Other(n, s)
  <2>1. /\ n \in Nodes /\ m \in Nodes /\ n # m /\ Ends(s) = {n, m} /\ Ends(t) = {n, m}
        /\ Favours(n, s, t) /\ Favours(m, t, s)
    <3>1. n \in Nodes /\ m \in Nodes /\ n # m /\ Ends(s) = {n, m}
      BY EndFacts
    <3>2. Justified(<<n, s, t>>) /\ Justified(<<m, t, s>>)
      BY DEF Mesh
    <3> HIDE DEF m
    <3> QED BY <3>1, <3>2 DEF Justified
  <2>2. /\ s[1] # s[2] /\ {s[1], s[2]} = {n, m}
        /\ t[1] # t[2] /\ {t[1], t[2]} = {n, m}
    BY <2>1, SocketFacts DEF Ends
  <2> HIDE DEF m
  <2>3. CASE s[1] = t[1]
    BY <2>1, <2>2, <2>3 DEF Favours
  <2>4. CASE s[1] # t[1]
    <3>1. Canonical(n, t) /\ Canonical(m, s)
      BY <2>1, <2>4 DEF Favours
    <3>2. Other(n, t) = m /\ Other(m, s) = n
      BY <2>1, <2>2 DEF Other
    <3>3. n = t[2] <=> m = s[2]
      BY <2>1, <2>2, <2>4
    <3>4. Rank[n] \in Nat /\ Rank[m] \in Nat /\ Rank[n] # Rank[m]
      BY <2>1, MeshAssumption
    <3>5. Rank[n] > Rank[m] <=> ~(Rank[m] > Rank[n])
      BY <3>4
    <3> QED BY <3>1, <3>2, <3>3, <3>5 DEF Canonical, PreferInbound
  <2> QED BY <2>3, <2>4
<1> QED BY <1>1, MeshHolds, PTL

=============================================================================
