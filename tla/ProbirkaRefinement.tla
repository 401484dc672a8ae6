------------------------- MODULE ProbirkaRefinement --------------------------
(* Probirka.run implements HealthCheck: a task is an answer until the run  *)
(* has stopped waiting for it.                                             *)
EXTENDS Probirka

Answer(r, i) ==
    LET task == call[<<r, i>>] IN
    IF i \in run[r].pending THEN "cut"
    ELSE CASE task.st = "cancelled" -> "lost"
           [] task.st = "returned"  -> IF task.result.ok THEN "passed" ELSE "failed"
           [] OTHER                 -> "awaited"

HealthStatus(st) ==
    CASE st = "idle"      -> "idle"
      [] st = "waiting"   -> "open"
      [] st = "gathering" -> "over"
      [] st = "returned"  -> "reported"
      [] st = "raised"    -> "failed"
      [] st = "cancelled" -> "forsaken"

(* A run that is over for its caller has forgotten its tasks.              *)
health == [r \in Runs |->
    LET st == HealthStatus(run[r].st)
        listening == st \in {"open", "over", "reported", "failed"} /\ run[r].entries # <<>>
        checks == run[r].checks
    IN  [st      |-> st,
         since   |-> IF listening THEN run[r].start ELSE None,
         limit   |-> IF listening THEN run[r].timeout ELSE None,
         answers |-> IF listening THEN [i \in DOMAIN run[r].entries |-> Answer(r, i)] ELSE <<>>,
         report  |-> IF st # "reported" THEN None
                     ELSE [passed    |-> [i \in DOMAIN checks |-> checks[i].ok],
                           allowed   |-> [i \in DOMAIN checks |-> checks[i].allow_failure],
                           ok        |-> run[r].ok,
                           timed_out |-> run[r].timed_out]]]

Promise == INSTANCE HealthCheck WITH health <- health

(* Every behaviour of the runs is one that HealthCheck allows: what a run  *)
(* reports of a check is what the check had said when the run's time was   *)
(* over or all had spoken, although the tasks run on while they are        *)
(* cancelled and awaited; and no other run has a say in it.                *)
ImplementsHealthCheck == Promise!HealthSpec
=============================================================================
