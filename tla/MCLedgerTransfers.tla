-------------------------- MODULE MCLedgerTransfers --------------------------
(***************************************************************************)
(* Small instances of LedgerTransfers for TLC.  The clients of a behaviour *)
(* call the operations of one mix, so many at once.                        *)
(***************************************************************************)
EXTENDS LedgerTransfers, TLC

CONSTANTS p1, p2

VARIABLE mix

\* Two wallets of different projects, the first one funded.
MCProjectOf == [a \in Account |-> IF a = 1 THEN p1 ELSE p2]
MCOpening == [a \in Account |-> IF a = 1 THEN 3 ELSE 1]

\* Transfers with each of the other operations: reversals, to the reversal of a reversal,
\* and payouts, also three requests at once.
Mixes ==
  {[kinds |-> {"transfer", "reverse"}, atOnce |-> 2, depth |-> 2],
   [kinds |-> {"transfer", "internal", "reverse"}, atOnce |-> 2, depth |-> 1],
   [kinds |-> {"transfer", "internal"}, atOnce |-> 3, depth |-> 0],
   [kinds |-> {"transfer", "fund"}, atOnce |-> 2, depth |-> 0],
   [kinds |-> {"transfer", "status"}, atOnce |-> 2, depth |-> 0]}

\* Who is at work after a step is of the mix.
OfMix ==
  /\ \A w \in Worker : pc'[w] # "idle" =>
       /\ job'[w].kind \in mix.kinds
       /\ job'[w].kind = "reverse" => job'[w].key[2][2] <= mix.depth
  /\ Cardinality({w \in Worker : pc'[w] # "idle"}) <= mix.atOnce

MCInit == Init /\ mix \in Mixes
MCNext == Next /\ OfMix /\ UNCHANGED mix
MCSpec == MCInit /\ [][MCNext]_<<vars, mix>>

\* Requests are interchangeable.
WorkerSymmetry == Permutations(Worker)
==============================================================================
