------------------------------- MODULE Bridge -------------------------------
(***************************************************************************)
(* The L1 bridge in production (bridge_mode rust, proofs required): the    *)
(* HTTP handlers of bridge/abs_bridge.py behind bridge/adapter.py, the     *)
(* bridge rows and accounts of the Rocks store, the queue file that node   *)
(* and relayer share, and the relayer process of bridge/relayer.py.        *)
(*                                                                         *)
(* Every HTTP request runs in a thread of its own.  A batch of the store   *)
(* is atomic, and so are a load and a save of the queue file; a call of    *)
(* the verifier binary takes time in which everything else may happen.     *)
(* In production a lock is named by the L1 transaction it was made with,   *)
(* but every later request names the lock and an L1 transaction apart, and *)
(* the key, the amount and the recipient of a credit are the caller's: the *)
(* verifier looks at the transaction only.                                 *)
(***************************************************************************)
EXTENDS Integers, Sequences, SequencesExt, FiniteSetsExt

CONSTANTS Users,      \* account addresses
          Txs,        \* L1 transactions
          Hashes,     \* those that locks are named by
          KeyOrder,   \* the order of their rows in the store
          Times,      \* the seconds a row may be made at
          Keys, TxOf, \* replay keys, by spelling of the chain and log index; the
                      \* transaction each names
          Threads,    \* HTTP handler threads
          Relayer,    \* the thread that serves the relayer
          Nobody,     \* no user, transaction or key
          Stake,      \* the first balance of a user
          Amount,     \* what a lock takes from the sender
          Fee,        \* its fee, of which
          Burn,       \* is burned
          Credits,    \* the amounts that callers name for a credit
          QueueLimit, \* 500 in the code
          LockLimit,  \* 1000 in the code: rows that a confirmation looks through
          Budget      \* bound: requests of callers and ends of the process

ASSUME BridgeAssumption ==
  /\ Relayer \in Threads /\ Nobody \notin Users \cup Txs \cup Keys
  /\ Hashes \subseteq Txs /\ TxOf \in [Keys -> Txs] /\ KeyOrder \in [Hashes -> Nat]
  /\ Times \subseteq Nat /\ Credits \subseteq Nat \ {0} /\ LockLimit \in Nat
  /\ {Stake, Amount, Fee, Burn, Budget} \subseteq Nat /\ QueueLimit \in Nat \ {0}
  /\ Burn <= Fee /\ Fee < Amount
  /\ IsFiniteSet(Users) /\ IsFiniteSet(Hashes) /\ IsFiniteSet(Keys)

VARIABLES balance,   \* account rows
          burned,    \* the row of the burn address
          lock,      \* bridge lock rows: status, sender, second it was made at
          credits,   \* bridge credit rows: the amount for each replay key, 0 for none
          queue,     \* the queue file: outbound entries, and whether some come in
          deep,      \* external: the L1 transactions with enough confirmations
          req,       \* what each thread is doing
          rel,       \* the relayer process
          debits, refunds,  \* history: how often a lock was paid for, paid back
          replayed,  \* history: the accounts were rebuilt from the chain
          budget

rows    == <<balance, burned, lock, credits>>
history == <<debits, refunds, replayed>>
vars    == <<rows, queue, deep, req, rel, history, budget>>

Net == Amount - Fee

Empty == [out |-> <<>>, in |-> "none"]

\* name is the lock that a request names, tx the L1 transaction.
Idle == [op |-> "idle", at |-> "done", user |-> Nobody, name |-> Nobody, tx |-> Nobody,
         key |-> Nobody, amount |-> 0, copy |-> Empty]

Spend == budget > 0 /\ budget' = budget - 1

Free(t) == t # Relayer /\ req[t].op = "idle"

\* Only the relayer acts on the answer.
Answer(t, how) ==
  req' = [req EXCEPT ![t] = IF t = Relayer THEN [Idle EXCEPT !.at = how] ELSE Idle]

At(t, op, at) == req[t].op = op /\ req[t].at = at

Goto(t, at) == req' = [req EXCEPT ![t].at = at]

-----------------------------------------------------------------------------
(* The verifier: verify_l1_tx of the Rust binary.  The subprocess may always
   fail or time out. *)

Verified(t, x, at) == x \in deep /\ Goto(t, at)

NotVerified(t) == req[t].at = "verify" /\ Answer(t, "failed")

\* External: L1 confirms a transaction.
L1Confirms(x) ==
  /\ x \notin deep /\ deep' = deep \cup {x}
  /\ UNCHANGED <<rows, queue, req, rel, history, budget>>

-----------------------------------------------------------------------------
(* The queue file *)

Entry(h, x) == [name |-> h, tx |-> x]

Without(q, S) ==
  FoldLeft(LAMBDA kept, y : IF y \in S THEN kept ELSE Append(kept, y), <<>>, q)

\* An entry of the same lock is replaced; the file keeps the last entries.
Enqueue(q, e) ==
  LET s == Append(Without(q, {Entry(e.name, x) : x \in Txs}), e)
  IN SubSeq(s, IF Len(s) > QueueLimit THEN Len(s) - QueueLimit + 1 ELSE 1, Len(s))

\* load_l1_queue of _enqueue_l1_outbound and enqueue_l1_incoming
LoadQueue(t) ==
  /\ req[t].at = "load"
  /\ req' = [req EXCEPT ![t].at = "save", ![t].copy = queue]
  /\ UNCHANGED <<rows, queue, deep, rel, history, budget>>

Outbound(r) == r.op # "incoming" /\ r.name # Nobody

\* save_l1_queue replaces the file by the copy with the new entry.
SaveQueue(t) ==
  LET r == req[t]
  IN /\ r.at = "save"
     /\ queue' = IF Outbound(r) THEN [r.copy EXCEPT !.out = Enqueue(@, Entry(r.name, r.tx))]
                 ELSE [r.copy EXCEPT !.in = "some"]
     /\ IF r.op = "incoming" THEN Goto(t, "verify") ELSE Answer(t, "ok")
     /\ UNCHANGED <<rows, deep, rel, history, budget>>

\* /bridge/oracle/l1-register: any lock with any L1 transaction, or one coming in.
Register(t, h, x) ==
  /\ Free(t) /\ Spend
  /\ req' = [req EXCEPT ![t] = [Idle EXCEPT !.op = "register", !.at = "load",
                                            !.name = h, !.tx = x]]
  /\ UNCHANGED <<rows, queue, deep, rel, history>>

-----------------------------------------------------------------------------
(* lock_and_bridge *)

\* The balance is looked at before the verifier is called.
BeginLock(t, u, h) ==
  /\ Free(t) /\ Spend
  /\ balance[u] >= Amount
  /\ req' = [req EXCEPT ![t] = [Idle EXCEPT !.op = "lock", !.at = "verify",
                                            !.user = u, !.name = h, !.tx = h]]
  /\ UNCHANGED <<rows, queue, deep, rel, history>>

VerifyLock(t) ==
  /\ At(t, "lock", "verify") /\ Verified(t, req[t].tx, "debit")
  /\ UNCHANGED <<rows, queue, deep, rel, history, budget>>

\* Mutant: the balance of the first look is trusted.
CanPayStale(u) == TRUE

\* try_debit_satoshi raises on underflow.
CanPay(u) == balance[u] >= Amount

\* debit_and_create_bridge_lock: one batch; a row of the same hash is replaced, and
\* the clock does not go back.
DebitLock(t) ==
  LET u == req[t].user
      h == req[t].name
  IN /\ At(t, "lock", "debit")
     /\ IF CanPay(u)
        THEN /\ balance' = [balance EXCEPT ![u] = @ - Amount]
             /\ burned' = burned + Burn
             /\ \E now \in Times :
                  /\ \A g \in Hashes : lock[g].made <= now
                  /\ lock' = [lock EXCEPT ![h] = [status |-> "pending", user |-> u, made |-> now]]
             /\ debits' = [debits EXCEPT ![h] = @ + 1]
             /\ Goto(t, "load")
        ELSE Answer(t, "failed") /\ UNCHANGED <<balance, burned, lock, debits>>
     /\ UNCHANGED <<credits, queue, deep, rel, refunds, replayed, budget>>

-----------------------------------------------------------------------------
(* confirm_lock and refund *)

\* The rows in the order of get_bridge_locks: the newest first, by key in one second
Before(g, h) ==
  \/ lock[g].made > lock[h].made
  \/ lock[g].made = lock[h].made /\ KeyOrder[g] < KeyOrder[h]

Found(h) ==
  Cardinality({g \in Hashes : lock[g].status # "none" /\ Before(g, h)}) < LockLimit

ConfirmAllowed(h) == lock[h].status = "pending" /\ Found(h)

\* _lookup_outbound_l1_hash
Proofs(h) == {x \in Txs : Entry(h, x) \in Range(queue.out)}

AskConfirm(t, h, x) ==
  req' = [req EXCEPT ![t] = [Idle EXCEPT !.op = "confirm", !.at = "verify",
                                        !.name = h, !.tx = x]]

\* The proof is the queue's or the caller's own, which may be any.
BeginConfirm(t, h, x) ==
  /\ Free(t) /\ Spend
  /\ ConfirmAllowed(h) /\ AskConfirm(t, h, x)
  /\ UNCHANGED <<rows, queue, deep, rel, history>>

VerifyConfirm(t) ==
  /\ At(t, "confirm", "verify") /\ Verified(t, req[t].tx, "write")
  /\ UNCHANGED <<rows, queue, deep, rel, history, budget>>

\* confirm_bridge_lock does not look at the status again.
WriteConfirm(t) ==
  /\ At(t, "confirm", "write")
  /\ lock' = [lock EXCEPT ![req[t].name].status = "confirmed"]
  /\ Answer(t, "ok")
  /\ UNCHANGED <<balance, burned, credits, queue, deep, rel, history, budget>>

\* Mutant: any lock is paid back.
RefundableAny(h) == lock[h].status # "none"

Refundable(h) == lock[h].status = "pending"

\* refund_pending_bridge_lock: one batch.
Refund(h) ==
  /\ Refundable(h)
  /\ balance' = [balance EXCEPT ![lock[h].user] = @ + Net]
  /\ lock' = [lock EXCEPT ![h].status = "refunded"]
  /\ refunds' = [refunds EXCEPT ![h] = @ + 1]
  /\ UNCHANGED <<burned, credits, queue, deep, req, rel, debits, replayed, budget>>

-----------------------------------------------------------------------------
(* confirm_incoming *)

\* InboundMessageValidator: the receipt, its status and its confirmations.  What the
\* transaction paid, to whom and in which log, it does not look at.
InboundValid(x) == x \in deep

\* Mutant: the replay key is only looked at before the verifier is called.
ClaimedEarly(k) == FALSE

Claimed(k) == credits[k] # 0

\* The validator, then the first look at the replay key.  Key, recipient and amount
\* are the caller's, who may also name a lock as the transaction on this side.
BeginIncoming(t, k, u, n, h) ==
  /\ Free(t) /\ Spend
  /\ InboundValid(TxOf[k]) /\ credits[k] = 0
  /\ req' = [req EXCEPT ![t] = [Idle EXCEPT !.op = "incoming", !.at = "load", !.user = u,
                                            !.name = h, !.tx = TxOf[k], !.key = k, !.amount = n]]
  /\ UNCHANGED <<rows, queue, deep, rel, history>>

VerifyIncoming(t) ==
  /\ At(t, "incoming", "verify") /\ Verified(t, req[t].tx, "claim")
  /\ UNCHANGED <<rows, queue, deep, rel, history, budget>>

\* claim_and_credit_bridge_event: one batch.
Claim(t) ==
  LET r == req[t]
  IN /\ At(t, "incoming", "claim")
     /\ IF Claimed(r.key) THEN UNCHANGED <<credits, balance, lock>>
        ELSE /\ credits' = [credits EXCEPT ![r.key] = r.amount]
             /\ balance' = [balance EXCEPT ![r.user] = @ + r.amount]
             /\ lock' = [h \in Hashes |->
                           IF h = r.name /\ lock[h].status # "none"
                           THEN [lock[h] EXCEPT !.status = "confirmed"] ELSE lock[h]]
     /\ Answer(t, "ok")
     /\ UNCHANGED <<burned, queue, deep, rel, history, budget>>

-----------------------------------------------------------------------------
(* process_l1_queue of the relayer *)

Resting == [at |-> "rest", todo |-> <<>>, keep |-> Empty]

Fetch ==
  /\ rel.at = "rest" /\ queue # Empty
  /\ rel' = [at |-> "scan", todo |-> queue.out, keep |-> [queue EXCEPT !.out = <<>>]]
  /\ UNCHANGED <<rows, queue, deep, req, history, budget>>

Scanning == rel.at = "scan" /\ rel.todo # <<>>

KeepItem == [rel EXCEPT !.at = "scan", !.todo = Tail(@), !.keep.out = Append(@, Head(rel.todo))]

\* is_tx_confirmed: enough confirmations of a successful receipt.
TxConfirmed(x) == x \in deep

\* No confirmations yet or no answer from L1, or the node refuses at once.
KeepEntry ==
  /\ Scanning /\ rel' = KeepItem
  /\ UNCHANGED <<rows, queue, deep, req, history, budget>>

\* oracle_post names the lock, and the node looks up the proof in the file as it is by
\* then; the thread of the relayer's last request may still be at work.
Post ==
  LET e == Head(rel.todo)
  IN /\ Scanning /\ TxConfirmed(e.tx) /\ req[Relayer].op = "idle"
     /\ ConfirmAllowed(e.name)
     /\ \E x \in Proofs(e.name) : AskConfirm(Relayer, e.name, x)
     /\ rel' = [rel EXCEPT !.at = "wait"]
     /\ UNCHANGED <<rows, queue, deep, history, budget>>

\* Mutant: a refusal is not an answer.
AnsweredStuck ==
  IF req[Relayer].at = "ok" THEN [rel EXCEPT !.at = "scan", !.todo = Tail(@)] ELSE rel

\* What the node confirmed leaves the queue.
Answered ==
  IF req[Relayer].at = "ok" THEN [rel EXCEPT !.at = "scan", !.todo = Tail(@)]
  ELSE KeepItem

Receive ==
  /\ rel.at = "wait" /\ req[Relayer].op = "idle"
  /\ rel' = Answered
  /\ UNCHANGED <<rows, queue, deep, req, history, budget>>

\* The answer does not come in time: the round ends without a save.
GiveUp ==
  /\ rel.at = "wait" /\ rel' = Resting
  /\ UNCHANGED <<rows, queue, deep, req, history, budget>>

\* persist_l1_queue: the kept entries replace the file.  An entry coming in is posted
\* without the name l1_tx_hash, so production refuses it and it is kept, unless its
\* credit is there already.
Persist ==
  /\ rel.at = "scan" /\ rel.todo = <<>>
  /\ \E in \in {"none", rel.keep.in} : queue' = [rel.keep EXCEPT !.in = in]
  /\ rel' = Resting
  /\ UNCHANGED <<rows, deep, req, history, budget>>

-----------------------------------------------------------------------------
(* The rest of the node *)

\* The process ends and starts again.
Crash ==
  /\ Spend /\ req' = [t \in Threads |-> Idle]
  /\ UNCHANGED <<rows, queue, deep, rel, history>>

\* reorg_to_ancestor and ensure_state_at_tip rebuild the accounts from the
\* blocks; no block knows of the bridge, and the bridge rows stay.
Replay ==
  /\ balance' = [u \in Users |-> Stake] /\ burned' = 0 /\ replayed' = TRUE
  /\ UNCHANGED <<lock, credits, queue, deep, req, rel, debits, refunds, budget>>

Init ==
  /\ balance = [u \in Users |-> Stake] /\ burned = 0
  /\ lock = [h \in Hashes |-> [status |-> "none", user |-> Nobody, made |-> 0]]
  /\ credits = [k \in Keys |-> 0] /\ queue = Empty /\ deep = {}
  /\ req = [t \in Threads |-> Idle] /\ rel = Resting
  /\ debits = [h \in Hashes |-> 0] /\ refunds = [h \in Hashes |-> 0]
  /\ replayed = FALSE /\ budget = Budget

Serve(t) ==
  \/ VerifyLock(t) \/ DebitLock(t) \/ VerifyConfirm(t) \/ WriteConfirm(t)
  \/ VerifyIncoming(t) \/ Claim(t) \/ LoadQueue(t) \/ SaveQueue(t)

Fails(t) == NotVerified(t) /\ UNCHANGED <<rows, queue, deep, rel, history, budget>>

Request(t) ==
  \/ \E u \in Users, h \in Hashes : BeginLock(t, u, h)
  \/ \E h \in Hashes, x \in Txs : BeginConfirm(t, h, x)
  \/ \E k \in Keys, u \in Users, n \in Credits, h \in Hashes \cup {Nobody} :
       BeginIncoming(t, k, u, n, h)
  \/ \E h \in Hashes \cup {Nobody}, x \in Txs : Register(t, h, x)

Relay == Fetch \/ KeepEntry \/ Post \/ Receive \/ GiveUp \/ Persist

Next ==
  \/ \E t \in Threads : Request(t) \/ Serve(t) \/ Fails(t)
  \/ \E h \in Hashes : Refund(h)
  \/ \E x \in Txs : L1Confirms(x)
  \/ Relay \/ Crash \/ Replay

\* The relayer polls for ever and the verifier's subprocess has a timeout; L1 and the
\* verifier are not always down.
Fairness ==
  /\ WF_vars(Fetch \/ KeepEntry \/ Post \/ Receive \/ Persist) /\ SF_vars(Post)
  /\ WF_vars(VerifyConfirm(Relayer) \/ Fails(Relayer))
  /\ SF_vars(VerifyConfirm(Relayer)) /\ WF_vars(WriteConfirm(Relayer))

Spec == Init /\ [][Next]_vars /\ Fairness

-----------------------------------------------------------------------------
(* Properties *)

Status == {"none", "pending", "confirmed", "refunded"}

Rows == [status : Status, user : Users \cup {Nobody}, made : Nat]

Entries == [name : Hashes, tx : Txs]

File == [out : Seq(Entries), in : {"none", "some"}]

TypeOK ==
  /\ balance \in [Users -> Nat] /\ burned \in Nat /\ credits \in [Keys -> Nat]
  /\ lock \in [Hashes -> Rows]
  /\ \A h \in Hashes : lock[h].status # "none" => lock[h].user \in Users
  /\ queue \in File /\ deep \subseteq Txs
  /\ req \in [Threads -> [op : {"idle", "lock", "confirm", "incoming", "register"},
                          at : {"load", "save", "verify", "debit", "write", "claim",
                                "done", "ok", "failed"},
                          user : Users \cup {Nobody}, name : Hashes \cup {Nobody},
                          tx : Txs \cup {Nobody}, key : Keys \cup {Nobody},
                          amount : Nat, copy : File]]
  /\ rel \in [at : {"rest", "scan", "wait"}, todo : Seq(Entries), keep : File]
  /\ debits \in [Hashes -> Nat] /\ refunds \in [Hashes -> Nat]
  /\ replayed \in BOOLEAN /\ budget \in Nat

\* A lock that can still be paid back was paid for: under every overlap of
\* locks, confirmations, claims and refunds, no hash is refunded more often than
\* it was debited (rocks_store.py:1519-1570, abs_bridge.py:431-466).
PendingIsBacked ==
  \A h \in Hashes : debits[h] >= refunds[h] + IF lock[h].status = "pending" THEN 1 ELSE 0

\* What all of S have together.
Total(b, S) == MapThenSumSet(LAMBDA u : b[u], S)

\* What each lock has taken and not given back.
Held == [h \in Hashes |-> (Amount - Burn) * debits[h] - Net * refunds[h]]

\* However requests overlap, fail and are cut off, only what L1 has confirmed is
\* credited, and until the accounts are rebuilt from the chain they hold exactly what
\* they held first and what the credit rows say, less what the locks have taken: a
\* replay key is paid once, with the amount of its row, and no debit or refund is lost
\* or made twice (rocks_store.py:1479-1569).
AccountsAddUp ==
  /\ \A k \in Keys : credits[k] # 0 => TxOf[k] \in deep
  /\ ~replayed =>
       Total(balance, Users) + burned + Total(Held, Hashes)
         = Cardinality(Users) * Stake + Total(credits, Keys)

\* The relayer can settle a lock: it is pending, among the rows a confirmation looks
\* through, and its entry names a transaction that L1 has confirmed.
Watched(h) == ConfirmAllowed(h) /\ Proofs(h) \cap deep # {}

\* No request of a caller is under way and none comes any more.
Still == budget = 0 /\ rel.at = "rest" /\ \A t \in Threads : req[t].op = "idle"

\* A watched lock does not stay so for ever: it is confirmed or refunded, or another
\* writer has replaced its entry or newer rows hide it.  Once the writers are still
\* nothing is lost any more, and it ends confirmed or refunded (relayer.py:188-275,
\* abs_bridge.py:491-540).
QueuedSettled ==
  \A h \in Hashes : /\ Watched(h) ~> ~Watched(h)
                    /\ (Still /\ Watched(h)) ~> lock[h].status # "pending"

=============================================================================
