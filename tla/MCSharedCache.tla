---------------------------- MODULE MCSharedCache -----------------------------
(* Three threads, turns of up to one unit: one may be kept waiting while   *)
(* the others store and serve.                                             *)
EXTENDS SharedCache, TLC

MCConfigs == {[success_ttl |-> s, failed_ttl |-> f] : s, f \in {0, 1, 2, None}}
MCSymmetry == Permutations(Threads)
=============================================================================
