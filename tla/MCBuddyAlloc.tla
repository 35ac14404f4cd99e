---------------------------- MODULE MCBuddyAlloc ----------------------------
(* Small heaps for TLC: three blocks of the largest order, two mappings. *)
EXTENDS BuddyAlloc, TLC

(* The mappings are interchangeable. *)
Symmetry == Permutations(MmapIds)
=============================================================================
