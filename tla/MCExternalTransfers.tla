-------------------------- MODULE MCExternalTransfers --------------------------
(***************************************************************************)
(* Small instances of ExternalTransfers for TLC.  A behaviour loses so     *)
(* many transactions, and pays out under so many references.               *)
(***************************************************************************)
EXTENDS ExternalTransfers, FiniteSets, TLC

CONSTANTS a1, Mixes

VARIABLE mix

\* The first wallet can pay for one transfer, any other for two.
MCOpening == [a \in Wallet |-> IF a = a1 THEN 3 ELSE 4]

\* Two references and no transaction lost, or one and one.
TwoOrLost == {[references |-> 2, rollbacks |-> 0], [references |-> 1, rollbacks |-> 1]}
OneAndLost == {[references |-> 1, rollbacks |-> 1]}

MCInit == Init /\ mix \in Mixes

\* The references in use after a step.
Used ==
  {r \in Ref : transfer'[r] # NoTransfer \/ dispatched'[r] > 0}
    \cup {job'[w].ref : w \in {v \in Worker : pc'[v] # "idle"}}

Go(w) ==
  /\ Start(w) \/ Step(w)
  /\ Cardinality(Used) <= mix.references
  /\ UNCHANGED mix

Lose(w) ==
  /\ Rollback(w)
  /\ mix.rollbacks > 0
  /\ mix' = [mix EXCEPT !.rollbacks = @ - 1]

Provide(r) == Conclude(r) /\ UNCHANGED mix

MCNext ==
  \/ \E w \in Worker : Go(w) \/ Lose(w)
  \/ \E r \in Ref : Provide(r)

MCSpec == MCInit /\ [][MCNext]_<<vars, mix>>

\* References are interchangeable, and so are workers of one role.
Symmetry ==
  Permutations(Ref) \cup Permutations(Resolver) \cup Permutations(Worker \ Resolver)
=============================================================================
