------------------------------ MODULE MCProbe ------------------------------
(* Three calls of one probe that overlap in every way.                     *)
EXTENDS Probe, TLC

Configure(timeouts, ttls) ==
    [timeout : timeouts, success_ttl : ttls, failed_ttl : ttls,
     allow_failure : {FALSE}]

(* Caching probes without a timeout, whose TTLs are short, long, 0 and     *)
(* absent, and one of them with a timeout that races with the body.        *)
MCConfigs ==
    {conf \in Configure({None}, {0, 1, 2, None}) :
        conf.success_ttl = 2 \/ conf.failed_ttl = 2}
    \cup {[timeout |-> 1, success_ttl |-> 2, failed_ttl |-> 1, allow_failure |-> FALSE]}

(* A single call tells a timeout that fired from one that did not.         *)
MCTimedConfigs == Configure({0, 1}, {1, None})
MCSymmetry == Permutations(Calls)
=============================================================================
