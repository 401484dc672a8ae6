----------------------------- MODULE MCRegistry -----------------------------
(* Every sequence of a few add_probes() calls, by two probes and for two   *)
(* groups; names and probes may be repeated.  Nothing is run.              *)
EXTENDS RegistryLog, TLC

CONSTANTS p1, p2

MCProbes == {p1, p2}
MCCalls == {}
MCConfigs == {[timeout |-> None, success_ttl |-> None, failed_ttl |-> None,
               allow_failure |-> FALSE]}
MCDefaults == [success_ttl |-> None, failed_ttl |-> None]

MCProbeLists == {<<>>, <<p1>>, <<p2, p1>>}
MCGroupLists == {<<>>} \cup {<<g>> : g \in Groups} \cup {<<g, h>> : g, h \in Groups}

MCSymmetry == Permutations(Groups)
=============================================================================
