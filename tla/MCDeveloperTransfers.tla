-------------------------- MODULE MCDeveloperTransfers --------------------------
(* Instances of DeveloperTransfers for TLC. *)
EXTENDS DeveloperTransfers, TLC

\* Workers are interchangeable, and so are keys.
Symmetry == Permutations(Worker) \cup Permutations(Key)
=============================================================================
