------------------------------- MODULE Ledger -------------------------------
(***************************************************************************)
(* What the block store promises its callers: the executed blocks form a   *)
(* chain that starts at the genesis block; it grows by one child of its    *)
(* head or is cut back to one of its blocks; what is final is never cut.   *)
(* Finality may be given up: it is kept in memory and a restart loses it.  *)
(***************************************************************************)
EXTENDS BlockTree

CONSTANT Genesis

VARIABLES chain,  \* the executed blocks
          final   \* those of them that may not be taken back

LedgerInit == chain = {Genesis} /\ final = {}

IsHead(b) == b \in chain /\ \A c \in chain : Height[c] <= Height[b]

Extend(b) == b \notin chain /\ IsHead(Parent[b]) /\ chain' = chain \cup {b}

Append(b) == Extend(b) /\ final \subseteq final' /\ final' \subseteq chain'

RollBack(a) ==
  /\ a \in chain /\ final \subseteq Ancestors[a]
  /\ chain' = Ancestors[a] /\ UNCHANGED final

\* A block may have been added by the step that gives finality up.
LoseFinality == final' = {} /\ (UNCHANGED chain \/ \E b \in Blocks : Extend(b))

LedgerNext == LoseFinality \/ \E b \in Blocks : Append(b) \/ RollBack(b)

LedgerSpec == LedgerInit /\ [][LedgerNext]_<<chain, final>>
=============================================================================
