----------------------------- MODULE HealthCheck -----------------------------
(***************************************************************************)
(* What a run of a Probirka promises its caller, without tasks, caches and *)
(* cancellation: it hears each check at most once, stops listening when    *)
(* its time is over, and reports what it has heard by then, whatever the   *)
(* checks do afterwards.  It fails only if a check was lost (ended without *)
(* an answer), and it may be given up.                                     *)
(***************************************************************************)
EXTENDS Integers, Sequences

CONSTANTS Runs, None, RunTimeouts, MaxTasks

VARIABLES now, health

healthVars == <<now, health>>

Awaited(n) == [i \in 1..n |-> "awaited"]

Health(st, since, limit, answers) ==
    [st |-> st, since |-> since, limit |-> limit, answers |-> answers, report |-> None]

NoHealth == Health("idle", None, None, <<>>)

Given(r) == {health[r].answers[i] : i \in DOMAIN health[r].answers}

(* For each check whether it was passed, and whether its failure counts;   *)
(* the verdict; and whether the time was over before it could be given.    *)
Report(answers, allowed) ==
    LET passed == [i \in DOMAIN answers |-> answers[i] = "passed"] IN
    [passed    |-> passed,
     allowed   |-> allowed,
     ok        |-> \A i \in DOMAIN answers : passed[i] \/ allowed[i],
     timed_out |-> \E i \in DOMAIN answers : answers[i] = "cut"]

HealthInit == now = 0 /\ health = [r \in Runs |-> NoHealth]

(* The run asks n checks; without any it is over at once.                  *)
Open(r, n, timeout) ==
    /\ health[r].st = "idle"
    /\ health' = [health EXCEPT ![r] =
         IF n = 0
         THEN [NoHealth EXCEPT !.st = "reported", !.report = Report(<<>>, <<>>)]
         ELSE Health("open", now, IF timeout = 0 THEN None ELSE timeout, Awaited(n))]
    /\ UNCHANGED now

Hear(r, i, answer) ==
    /\ health[r].st = "open" /\ health[r].answers[i] = "awaited"
    /\ health' = [health EXCEPT ![r].answers[i] = answer]
    /\ UNCHANGED now

Deadline(r) ==
    /\ health[r].st = "open" /\ "awaited" \in Given(r)
    /\ health[r].limit # None /\ now >= health[r].since + health[r].limit
    /\ health' = [health EXCEPT
         ![r].st = "over",
         ![r].answers = [i \in DOMAIN @ |-> IF @[i] = "awaited" THEN "cut" ELSE @[i]]]
    /\ UNCHANGED now

Conclude(r, allowed) ==
    /\ health[r].st \in {"open", "over"} /\ Given(r) \cap {"awaited", "lost"} = {}
    /\ health' = [health EXCEPT ![r].st = "reported",
                                ![r].report = Report(health[r].answers, allowed)]
    /\ UNCHANGED now

Fail(r) ==
    /\ health[r].st \in {"open", "over"}
    /\ "lost" \in Given(r) /\ "awaited" \notin Given(r)
    /\ health' = [health EXCEPT ![r].st = "failed"]
    /\ UNCHANGED now

Forsake(r) ==
    /\ health[r].st \in {"open", "over"}
    /\ health' = [health EXCEPT ![r] = [NoHealth EXCEPT !.st = "forsaken"]]
    /\ UNCHANGED now

TimePasses == now' = now + 1 /\ UNCHANGED health

HealthNext ==
    \/ \E r \in Runs :
          \/ \E n \in 0..MaxTasks, timeout \in RunTimeouts : Open(r, n, timeout)
          \/ \E i \in DOMAIN health[r].answers, answer \in {"passed", "failed", "lost"} :
                Hear(r, i, answer)
          \/ Deadline(r)
          \/ \E allowed \in [DOMAIN health[r].answers -> BOOLEAN] : Conclude(r, allowed)
          \/ Fail(r) \/ Forsake(r)
    \/ TimePasses

HealthSpec == HealthInit /\ [][HealthNext]_healthVars
=============================================================================
