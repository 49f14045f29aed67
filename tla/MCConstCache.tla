---------------------------- MODULE MCConstCache ----------------------------
(* Two threads and two caches, whose blocks may use no cache, the other one,
   their own or both. *)
EXTENDS ConstCache, TLC

MCFactories == [Caches -> SUBSET Caches]
Symmetry == Permutations(Threads) \cup Permutations(Objects)
=============================================================================
