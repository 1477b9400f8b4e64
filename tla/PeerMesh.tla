------------------------------ MODULE PeerMesh ------------------------------
(***************************************************************************)
(* The mesh of nodes: connect_peer, _handle_incoming and the loops of      *)
(* network/p2p_node.py over the table, slots and bans of                   *)
(* network/peer_manager.py and the native connection governor.             *)
(*                                                                         *)
(* Nodes dial their seeds, so two nodes may dial each other at once.  Each *)
(* end of a socket is handled by a task of its own node; the step from one *)
(* await to the next is atomic.  A node learns that the other end closed   *)
(* when it reads on, or, when the line is cut, only after a time-out; it   *)
(* also gives up a session that it has not read for too long, because its  *)
(* reading loop stands in the handler of a message.                        *)
(***************************************************************************)
EXTENDS Integers, FiniteSets

CONSTANTS Nodes,
          Rank,       \* the order of the node ids
          Seeds,      \* the bootstrap peers of each node
          MaxPeers,   \* max_peers of each node, less its peers outside Nodes
          Reserved,   \* reserved_outbound_slots
          MaxPerIp,   \* max_inbound_per_ip; every node has an address of its own
          Slots,      \* bound: sockets that each node has to one seed at a time
          MaxFaults,  \* bound: cuts, stalls, restarts and bans
          None

ASSUME MeshAssumption ==
  /\ Rank \in [Nodes -> Nat] /\ \A n, m \in Nodes : Rank[n] = Rank[m] => n = m
  /\ Seeds \in [Nodes -> SUBSET Nodes] /\ \A n \in Nodes : n \notin Seeds[n]
  /\ MaxPeers \in [Nodes -> Nat \ {0}] /\ {Reserved, MaxFaults} \subseteq Nat
  /\ Slots \in [Nodes -> Nat] /\ MaxPerIp \in Nat \ {0} /\ IsFiniteSet(Nodes)

\* A socket is named after its dialler, its acceptor and a slot.
Sockets == UNION {{n} \X Seeds[n] \X (1..Slots[n]) : n \in Nodes}

ASSUME NoneAssumption == None \notin Sockets

VARIABLES sock,     \* the two ends of each socket
          peers,    \* peer_manager._peers of each node
          bound,    \* _bootstrap_peer_ids: the seeds a node knows by id
          inbound,  \* the governor's inbound_by_ip
          banned,   \* peer_manager._bans
          doomed,   \* the ids that _ping_loop has found dead, in its list dead
          gave,     \* history: <<n, s, t>>, n dropped socket s because it has t
          faults    \* what is left of MaxFaults

vars == <<sock, peers, bound, inbound, banned, doomed, gave, faults>>

-----------------------------------------------------------------------------
(* Sockets.  The dialler's end d waits for the acknowledgement ("hello") and is
   then registered ("live").  The acceptor's end a is admitted ("wait"), answers
   ("acked") and is then registered.  "no" is closed.
   A node is in stale when its reading loop has been in a handler for so long that
   the last_seen of the session is past the time-outs. *)

Unused == [d |-> "no", a |-> "no", ack |-> FALSE, cut |-> FALSE, stale |-> {}]

Other(n, s) == IF n = s[1] THEN s[2] ELSE s[1]

End(n, s) == IF n = s[1] THEN sock[s].d ELSE sock[s].a

Ends(s) == {s[1], s[2]}

SetEnd(sk, n, s, at) ==
  LET r == IF n = s[1] THEN [sk[s] EXCEPT !.d = at, !.stale = @ \ {n}]
                       ELSE [sk[s] EXCEPT !.a = at, !.stale = @ \ {n}]
  IN [sk EXCEPT ![s] = IF r.d = "no" /\ r.a = "no" THEN Unused ELSE r]

\* last_seen is old: nothing comes on a cut line, or nobody reads it.
Silent(n, s) == sock[s].cut \/ n \in sock[s].stale

\* What was given up for a socket is forgotten with it.
Remembered(g, sk) == {x \in g : sk[x[2]] # Unused /\ sk[x[3]] # Unused}

-----------------------------------------------------------------------------
(* PeerManager *)

Listed(n) == {m \in Nodes : peers[n][m] # None}

\* The governor keeps slots for sessions that the node itself opens.
GovernorAdmits(n, m) ==
  /\ Cardinality(Listed(n)) < MaxPeers[n] - Reserved
  /\ inbound[n][m] < MaxPerIp

\* The governor counts the inbound sessions of an address: on_connected and
\* on_disconnected, which does not go below zero.
Connected(n, s)    == [inbound EXCEPT ![n][s[1]] = IF n = s[2] THEN @ + 1 ELSE @]
Disconnected(n, s) == [inbound EXCEPT ![n][s[1]] = IF n = s[2] /\ @ > 0 THEN @ - 1 ELSE @]

\* allow_inbound, before the handshake.  A ban is of an id, not of an address.
AllowInbound(n, m) == GovernorAdmits(n, m)

\* allow_outbound, before the dial and again after the handshake.
AllowOutbound(n) == Cardinality(Listed(n)) < MaxPeers[n]

\* Mutant: every node would rather be dialled.
PreferInboundAlways(n, m) == TRUE

\* preferred_inbound_for: the node with the lower id dials.
PreferInbound(n, m) == Rank[n] > Rank[m]

Canonical(n, s) == (n = s[2]) = PreferInbound(n, Other(n, s))

\* Mutant: the session that is replaced is left open.
CloseOldNever(sk, n, old) == sk

CloseOld(sk, n, old) == IF old = None THEN sk ELSE SetEnd(sk, n, old, "no")

\* The entry is replaced before the old session is closed, so that its reader
\* finds itself replaced; the governor is not told of the session that is gone.
Install(n, s) ==
  LET m   == Other(n, s)
      old == peers[n][m]
  IN /\ sock' = SetEnd(CloseOld(sock, n, old), n, s, "live")
     /\ peers' = [peers EXCEPT ![n][m] = s]
     /\ inbound' = Connected(n, s)
     /\ gave' = Remembered(gave \cup IF old = None THEN {} ELSE {<<n, old, s>>}, sock')

\* The socket is closed; t is the session that it would double, if any.
Refuse(n, s, t) ==
  /\ sock' = SetEnd(sock, n, s, "no")
  /\ gave' = Remembered(gave \cup IF t = None THEN {} ELSE {<<n, s, t>>}, sock')
  /\ UNCHANGED <<peers, inbound>>

\* register.  Where neither direction is the canonical one, a session that was
\* silent for too long is replaced.
Register(n, s) ==
  LET m   == Other(n, s)
      old == peers[n][m]
  IN CASE m \in banned[n] -> Refuse(n, s, None)
       [] m \notin banned[n] /\ old = None -> Install(n, s)
       [] m \notin banned[n] /\ old # None ->
            IF Canonical(n, old) THEN Refuse(n, s, old)
            ELSE IF Canonical(n, s) THEN Install(n, s)
            ELSE \E silent \in {FALSE, Silent(n, old)} :
                   IF silent THEN Install(n, s) ELSE Refuse(n, s, old)

\* unregister: the end is closed, and what was listed leaves the table.
Unregister(n, s) ==
  LET m == Other(n, s)
  IN /\ sock' = SetEnd(sock, n, s, "no")
     /\ gave' = Remembered(gave, sock')
     /\ IF peers[n][m] = s
        THEN /\ peers' = [peers EXCEPT ![n][m] = None]
             /\ inbound' = Disconnected(n, s)
        ELSE UNCHANGED <<peers, inbound>>

-----------------------------------------------------------------------------
(* The dialler *)

\* Mutant: a seed that was reached once is taken to be there.
CoveredOnce(n, m) == m \in bound[n]

\* has_active_endpoint and _bootstrap_already_covered.  Seeds are configured by
\* name; a session that a seed opened is known by its address, and covers the
\* seed only once the id behind the name is known.
Covered(n, m) ==
  LET s == peers[n][m] IN s # None /\ (s[1] = n \/ m \in bound[n])

\* _schedule_connect and connect_peer up to its first await: one task at a time
\* for each address.
Dial(n, m) ==
  /\ m \in Seeds[n]
  /\ \A k \in 1..Slots[n] : sock[<<n, m, k>>].d # "hello"
  /\ AllowOutbound(n) /\ ~Covered(n, m)
  /\ \E k \in 1..Slots[n] :
       /\ sock[<<n, m, k>>] = Unused
       /\ \A j \in 1..(k - 1) : sock[<<n, m, j>>] # Unused
       /\ sock' = [sock EXCEPT ![<<n, m, k>>] = [Unused EXCEPT !.d = "hello", !.a = "syn"]]
  /\ UNCHANGED <<peers, bound, inbound, banned, doomed, gave, faults>>

\* The acknowledgement is there: the rest of connect_peer.
FinishDial(s) ==
  LET n == s[1]
      m == s[2]
  IN /\ sock[s].d = "hello" /\ sock[s].ack /\ ~sock[s].cut
     /\ IF m \in banned[n] \/ AllowOutbound(n) THEN Register(n, s)
        ELSE Refuse(n, s, peers[n][m])
     /\ bound' = [bound EXCEPT ![n] = IF peers'[n][m] # None /\ m \notin banned[n]
                                      THEN @ \cup {m} ELSE @]
     /\ UNCHANGED <<banned, doomed, faults>>

-----------------------------------------------------------------------------
(* The acceptor *)

\* The first part of _handle_incoming: the slot is granted before the handshake.
Accept(s) ==
  /\ sock[s].a = "syn"
  /\ sock' = SetEnd(sock, s[2], s, IF AllowInbound(s[2], s[1]) THEN "wait" ELSE "no")
  /\ gave' = Remembered(gave, sock')
  /\ UNCHANGED <<peers, bound, inbound, banned, doomed, faults>>

\* _do_handshake answers before it checks, and tells its status afterwards.
Acknowledge(s) ==
  /\ sock[s].a = "wait" /\ ~sock[s].cut
  /\ sock' = [sock EXCEPT ![s].a = "acked", ![s].ack = TRUE]
  /\ UNCHANGED <<peers, bound, inbound, banned, doomed, gave, faults>>

FinishAccept(s) ==
  /\ sock[s].a = "acked" /\ Register(s[2], s)
  /\ UNCHANGED <<bound, banned, doomed, faults>>

-----------------------------------------------------------------------------
(* Sessions that end *)

\* The reader finds that the other end is closed: the end of _message_loop, or
\* of a handshake whose answer did not come.  It finds out when it reads.
EndOfFile(n, s) ==
  /\ End(n, s) \in {"hello", "wait", "live"} /\ ~Silent(n, s)
  /\ End(Other(n, s), s) = "no"
  /\ Unregister(n, s)
  /\ UNCHANGED <<bound, banned, doomed, faults>>

\* The handshake times out, or the prune of _maintenance_loop or of a dial
\* removes the session.
TimeOut(n, s) ==
  /\ End(n, s) \in {"hello", "wait", "live"} /\ Silent(n, s)
  /\ Unregister(n, s)
  /\ UNCHANGED <<bound, banned, doomed, faults>>

\* The handler returns, and _message_loop touches the session at the next message.
Resume(n, s) ==
  /\ n \in sock[s].stale
  /\ sock' = [sock EXCEPT ![s].stale = @ \ {n}]
  /\ UNCHANGED <<peers, bound, inbound, banned, doomed, gave, faults>>

\* _ping_loop keeps the id of a silent session, and awaits the pings to the others.
Collect(n, m) ==
  /\ peers[n][m] # None /\ Silent(n, peers[n][m]) /\ m \notin doomed[n]
  /\ doomed' = [doomed EXCEPT ![n] = @ \cup {m}]
  /\ UNCHANGED <<sock, peers, bound, inbound, banned, gave, faults>>

\* It then removes whatever session the id has by now.
Remove(n, m) ==
  /\ m \in doomed[n] /\ doomed' = [doomed EXCEPT ![n] = @ \ {m}]
  /\ IF peers[n][m] # None THEN Unregister(n, peers[n][m])
     ELSE UNCHANGED <<sock, peers, inbound, gave>>
  /\ UNCHANGED <<bound, banned, faults>>

BanExpires(n, m) ==
  /\ m \in banned[n] /\ banned' = [banned EXCEPT ![n] = @ \ {m}]
  /\ UNCHANGED <<sock, peers, bound, inbound, doomed, gave, faults>>

-----------------------------------------------------------------------------
(* Faults *)

Fault == faults > 0 /\ faults' = faults - 1

\* External: a line goes dead.
Cut(s) ==
  /\ Fault /\ sock[s] # Unused /\ ~sock[s].cut
  /\ sock' = [sock EXCEPT ![s].cut = TRUE]
  /\ UNCHANGED <<peers, bound, inbound, banned, doomed, gave>>

\* The reading loop stays in a handler for longer than the time-outs: the handler of
\* a block asks its peer for two state roots, thirty seconds each, and the answers
\* wait behind it.
Stall(n, s) ==
  /\ Fault /\ End(n, s) = "live" /\ n \notin sock[s].stale
  /\ sock' = [sock EXCEPT ![s].stale = @ \cup {n}]
  /\ UNCHANGED <<peers, bound, inbound, banned, doomed, gave>>

\* A strike that reaches the limit.  Most callers of _strike_peer_sync do not
\* look at its answer, and the session stays.
Ban(n, m) ==
  /\ Fault /\ peers[n][m] # None /\ m \notin banned[n]
  /\ banned' = [banned EXCEPT ![n] = @ \cup {m}]
  /\ \E looked \in BOOLEAN :
       IF looked THEN Unregister(n, peers[n][m])
       ELSE UNCHANGED <<sock, peers, inbound, gave>>
  /\ UNCHANGED <<bound, doomed>>

\* The process ends, with stop() or without, and starts again.
Restart(n) ==
  /\ Fault
  /\ sock' = [s \in Sockets |-> IF n \in Ends(s) THEN SetEnd(sock, n, s, "no")[s] ELSE sock[s]]
  /\ gave' = Remembered(gave, sock')
  /\ peers' = [peers EXCEPT ![n] = [m \in Nodes |-> None]]
  /\ inbound' = [inbound EXCEPT ![n] = [m \in Nodes |-> 0]]
  /\ bound' = [bound EXCEPT ![n] = {}] /\ banned' = [banned EXCEPT ![n] = {}]
  /\ doomed' = [doomed EXCEPT ![n] = {}]

-----------------------------------------------------------------------------

Init ==
  /\ sock = [s \in Sockets |-> Unused]
  /\ peers = [n \in Nodes |-> [m \in Nodes |-> None]]
  /\ bound = [n \in Nodes |-> {}]
  /\ inbound = [n \in Nodes |-> [m \in Nodes |-> 0]]
  /\ banned = [n \in Nodes |-> {}] /\ doomed = [n \in Nodes |-> {}]
  /\ gave = {} /\ faults = MaxFaults

\* The task of one end of a socket.
Task(n, s) ==
  \/ n = s[1] /\ FinishDial(s)
  \/ n = s[2] /\ (Accept(s) \/ Acknowledge(s) \/ FinishAccept(s))
  \/ EndOfFile(n, s)
  \/ TimeOut(n, s)
  \/ Resume(n, s)

Next ==
  \/ \E n, m \in Nodes : Dial(n, m) \/ Collect(n, m) \/ Remove(n, m)
                          \/ Ban(n, m) \/ BanExpires(n, m)
  \/ \E s \in Sockets : Cut(s) \/ \E n \in Ends(s) : Task(n, s) \/ Stall(n, s)
  \/ \E n \in Nodes : Restart(n)

\* Every task that has begun goes on, bans end, and the retry loops dial for ever.
Fairness ==
  /\ \A n \in Nodes : \A m \in Seeds[n] : WF_vars(Dial(n, m))
  /\ \A n \in Nodes : WF_vars(\E m \in Nodes : BanExpires(n, m))
  /\ \A n \in Nodes : WF_vars(\E m \in Nodes : Remove(n, m))
  /\ \A s \in Sockets : \A n \in Ends(s) : WF_vars(Task(n, s))

Spec == Init /\ [][Next]_vars /\ Fairness

-----------------------------------------------------------------------------
(* Properties *)

\* The table lists the sessions that are open, and no others: a session that is
\* replaced or refused is closed, one that ends leaves the table
\* (peer_manager.py:382-487).
TypeOK ==
  /\ sock \in [Sockets -> [d : {"no", "hello", "live"},
                           a : {"no", "syn", "wait", "acked", "live"},
                           ack : BOOLEAN, cut : BOOLEAN, stale : SUBSET Nodes]]
  /\ \A n \in Nodes : \A m \in Nodes : peers[n][m] \in Sockets \cup {None}
  /\ \A s \in Sockets : \A n \in Ends(s) :
       End(n, s) = "live" <=> peers[n][Other(n, s)] = s
  /\ bound \in [Nodes -> SUBSET Nodes] /\ banned \in [Nodes -> SUBSET Nodes]
  /\ doomed \in [Nodes -> SUBSET Nodes]
  /\ inbound \in [Nodes -> [Nodes -> Nat]] /\ faults \in 0..MaxFaults
  /\ gave \subseteq Nodes \X Sockets \X Sockets

Neighbours(n) == Seeds[n] \cup {m \in Nodes : n \in Seeds[m]}

\* The nodes that everyone they may meet does not fill.
Roomy ==
  {n \in Nodes : LET needed == Cardinality(Neighbours(n))
                 IN MaxPeers[n] - Reserved >= needed /\ MaxPeers[n] > needed}

\* n dropped s and kept t, the other node dropped t and kept s: both will end.
BothDropped(n, s, t) == <<n, s, t>> \in gave /\ <<Other(n, s), t, s>> \in gave

\* "keep the canonical direction so simultaneous A<->B dials cannot tear down both
\* live registrations" (peer_manager.py:394): two nodes with room never each drop
\* the session that the other one keeps.
NoMutualTearDown ==
  \A s, t \in Sockets : \A n \in Ends(s) :
    Ends(s) \subseteq Roomy => ~BothDropped(n, s, t)

\* The same of every two nodes, as the comment has it.  A session that was dialled
\* is refused while the table is full before register compares it with the one
\* that the other node dialled (p2p_node.py:2409-2419).
DialsKeepASession ==
  \A s, t \in Sockets : \A n \in Ends(s) : ~BothDropped(n, s, t)

Linked(n, m) ==
  /\ peers[n][m] # None /\ peers[n][m] = peers[m][n]

\* Once the faults end, two nodes with room of which one is a seed of the other
\* come to agree on one session and keep it, whoever dials, in whatever order the
\* handshakes end and whatever half-open sessions, bans, uncounted closes and ids to
\* be removed the faults left behind (p2p_node.py:2280-2451, 6096-6124, 6193-6224).
\* A stall is a fault here: a node whose handlers stall again and again gives up its
\* sessions again and again.
Converges ==
  \A n \in Roomy : \A m \in Roomy \cap Seeds[n] : <>[]Linked(n, m)

=============================================================================
