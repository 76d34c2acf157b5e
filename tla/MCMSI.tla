-------------------------------- MODULE MCMSI --------------------------------
(* MSIProtocol on a few caches, for TLC. *)
EXTENDS MSICoherence, TLC

\* The initial contents of memory are arbitrary, so values may be permuted.
CacheSymmetry == Permutations(Cache) \cup Permutations(Value)
=============================================================================
