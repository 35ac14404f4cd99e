------------------------------ MODULE MCSmash ------------------------------
(* Instances of Smash for TLC. The process ids are interchangeable. *)
EXTENDS Smash

Symmetry == Permutations(Pids)
=============================================================================
