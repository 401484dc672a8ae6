------------------------------ MODULE MCProbirka ------------------------------
(* Small instances of Probirka.                                            *)
EXTENDS ProbirkaRefinement, TLC

CONSTANTS p1, p2, g1

MCOneProbe == {p1}
MCTwoProbes == {p1, p2}

MCOneTask == Runs \X (1..1)
MCTwoTasks == Runs \X (1..2)

Configure(timeout, success_ttl, failed_ttl, allow_failure) ==
    [timeout |-> timeout, success_ttl |-> success_ttl,
     failed_ttl |-> failed_ttl, allow_failure |-> allow_failure]

(* A probe without any option; a lenient one without a timeout or a strict *)
(* one with it; with a timeout, and a cache or none.                       *)
MCPlain == {Configure(None, None, None, FALSE)}
MCTimedOrLenient == {Configure(None, None, None, TRUE), Configure(1, 2, None, FALSE)}
MCMaybeCaching == {Configure(1, ttl, None, FALSE) : ttl \in {2, None}}
MCNoDefaults == [success_ttl |-> None, failed_ttl |-> None]
MCDefaults == [success_ttl |-> 2, failed_ttl |-> None]

MCLists == {<<p1>>, <<p2>>}
MCOneList == {<<p1>>}
MCNoGroup == {<<>>}
MCMaybeGroup == {<<>>, <<g1>>}

MCSymmetry == Permutations(Runs)
=============================================================================
