------------------------------ MODULE Probirka ------------------------------
(***************************************************************************)
(* Probirka.run (probirka/_probirka.py) over the tasks of module Probe.    *)
(*                                                                         *)
(* A run collects its probes, wraps the run_check() of each in a task,     *)
(* waits for all of them or for the overall timeout, cancels those still   *)
(* pending, waits until they have ended, and assembles the result.  Its    *)
(* awaits are the wait() and the gather() only; between them it is atomic. *)
(* Several runs may be under way, on the same probes.  Task <<r, i>> is    *)
(* the one run r made for the i-th probe it collected.                     *)
(***************************************************************************)
EXTENDS Probe, Sequences

CONSTANTS
    Groups,         \* group names
    Runs,           \* calls of run(); each identifier is used once
    RunTimeouts,    \* values of run()'s timeout that are explored
    RunGroups,      \* values of run()'s with_groups that are explored
    ProbeLists,     \* argument lists of add_probes() that are explored
    GroupLists,     \* groups arguments of add_probes() that are explored
    DefaultTtls,    \* the Probirka's own success_ttl and failed_ttl
    MaxTasks,       \* bound: tasks of one run
    MaxRegistered   \* bound: length of the required list and of each group

ASSUME ProbirkaAssumption ==
    /\ Calls = Runs \X (1..MaxTasks)
    /\ RunTimeouts \subseteq Nat \cup {None}
    /\ RunGroups \subseteq Seq(Groups)
    /\ ProbeLists \subseteq Seq(Probes)
    /\ GroupLists \subseteq Seq(Groups)
    /\ DefaultTtls \in [success_ttl : Nat \cup {None}, failed_ttl : Nat \cup {None}]
    /\ None # "run timeout"
    /\ MaxTasks \in Nat /\ MaxRegistered \in Nat

VARIABLES
    required, optional, group_allow_failure,    \* see module Registry
    run                                         \* the calls of run()

INSTANCE Registry

probeVars == <<now, cfg, last_result, cache_until, call>>
registry == <<required, optional, group_allow_failure>>
allVars == <<probeVars, registry, run>>

RunState == {"idle", "waiting", "gathering", "returned", "raised", "cancelled"}

(* An entry of ProbirkaResult.checks: a ProbeResult, or the one reported   *)
(* for a task the overall timeout cut off.                                 *)
Check == [ok            : BOOLEAN,
          error         : {"exception", "probe timeout", "run timeout", None},
          cached        : BOOLEAN \cup {None},
          started_at    : Nat,
          elapsed       : Nat,
          allow_failure : BOOLEAN]

NewRun(st, timeout, entries) ==
    [st |-> st, timeout |-> timeout, start |-> now, entries |-> entries,
     pending |-> {}, cancelled |-> FALSE,
     checks |-> <<>>, ok |-> TRUE, timed_out |-> FALSE]

Tasks(r) == {<<r, i>> : i \in DOMAIN run[r].entries}
AllEnded(S) == \A c \in S : Ended(c)

-----------------------------------------------------------------------------
ProbirkaInit ==
    /\ Init
    /\ RegistryInit
    /\ run = [r \in Runs |-> NewRun("idle", None, <<>>)]

WithinBound == /\ Len(required') <= MaxRegistered
               /\ \A g \in Groups : Len(optional'[g]) <= MaxRegistered

(* A probe object made by the user, and add_probes().                      *)
MakeProbe(p, conf) == Construct(p, conf) /\ UNCHANGED <<registry, run>>

Register(ps, names, flag) ==
    /\ \A i \in DOMAIN ps : cfg[ps[i]] # None
    /\ AddProbes(ps, names, flag)
    /\ WithinBound
    /\ UNCHANGED <<probeVars, run>>

(* The decorator add(): a CallableProbe whose missing TTLs are those of    *)
(* the Probirka, registered without a group flag.                          *)
WithDefaults(conf) ==
    [conf EXCEPT !.success_ttl = IF @ # None THEN @ ELSE DefaultTtls.success_ttl,
                 !.failed_ttl = IF @ # None THEN @ ELSE DefaultTtls.failed_ttl]

ASSUME DefaultsAssumption == \A conf \in Configs : WithDefaults(conf) \in Configs

Add(p, conf, names) ==
    /\ Construct(p, WithDefaults(conf))
    /\ AddProbes(<<p>>, names, None)
    /\ WithinBound
    /\ UNCHANGED run

-----------------------------------------------------------------------------
(* run(): collect, and wrap every probe in a task; with nothing to run the *)
(* result is there at once.  `timeout or None' makes 0 no timeout.         *)
StartRun(r, timeout, with_groups, skip_required) ==
    LET entries == Collect(with_groups, skip_required) IN
    /\ run[r].st = "idle"
    /\ now <= LastCall
    /\ Len(entries) <= MaxTasks
    /\ IF entries = <<>>
       THEN /\ run' = [run EXCEPT ![r] = NewRun("returned", timeout, entries)]
            /\ UNCHANGED probeVars
       ELSE /\ run' = [run EXCEPT ![r] =
                         NewRun("waiting", IF timeout = 0 THEN None ELSE timeout, entries)]
            /\ Create([c \in {<<r, i>> : i \in DOMAIN entries} |-> entries[c[2]].probe])
    /\ UNCHANGED registry

Own(r, i) == cfg[run[r].entries[i].probe].allow_failure

(* Faulty variant: the flag of the source this entry came from only.       *)
AllowedByThisSource(r, i, own) ==
    EffectiveAllowFailure(own, {run[r].entries[i].flag})

Allowed(r, i, own) ==
    EffectiveAllowFailure(own, Sources(run[r].entries, run[r].entries[i].probe))

(* Faulty variants: what counts is the state of the task when the result   *)
(* is assembled; the operands of the subtraction are swapped.              *)
CheckOfAsItIsNow(r, i, pending) ==
    IF call[<<r, i>>].st # "returned"
    THEN [ok |-> FALSE, error |-> "run timeout", cached |-> None,
          started_at |-> run[r].start, elapsed |-> now - run[r].start,
          allow_failure |-> Allowed(r, i, Own(r, i))]
    ELSE LET result == call[<<r, i>>].result IN
         [result EXCEPT !.allow_failure = Allowed(r, i, result.allow_failure)]

CheckOfSwapped(r, i, pending) ==
    IF i \in pending
    THEN [ok |-> FALSE, error |-> "run timeout", cached |-> None,
          started_at |-> run[r].start, elapsed |-> run[r].start - now,
          allow_failure |-> Allowed(r, i, Own(r, i))]
    ELSE LET result == call[<<r, i>>].result IN
         [result EXCEPT !.allow_failure = Allowed(r, i, result.allow_failure)]

(* The i-th check: cut off by the overall timeout, or task.result() with   *)
(* the flag that is effective in this run.                                 *)
CheckOf(r, i, pending) ==
    IF i \in pending
    THEN [ok |-> FALSE, error |-> "run timeout", cached |-> None,
          started_at |-> run[r].start, elapsed |-> now - run[r].start,
          allow_failure |-> Allowed(r, i, Own(r, i))]
    ELSE LET result == call[<<r, i>>].result IN
         [result EXCEPT !.allow_failure = Allowed(r, i, result.allow_failure)]

(* The result is assembled from all tasks; task.result() of a task that    *)
(* was cancelled, and is not pending, raises out of run().                 *)
Complete(r, pending) ==
    LET finished == DOMAIN run[r].entries \ pending
        checks == [i \in DOMAIN run[r].entries |-> CheckOf(r, i, pending)]
    IN  run' = IF \E i \in finished : call[<<r, i>>].st = "cancelled"
               THEN [run EXCEPT ![r].st = "raised"]
               ELSE [run EXCEPT
                       ![r].st = "returned",
                       ![r].checks = checks,
                       ![r].ok = \A i \in DOMAIN checks :
                                    checks[i].ok \/ checks[i].allow_failure,
                       ![r].timed_out = pending # {}]

(* Faulty variant: wait(..., return_when=FIRST_COMPLETED).                 *)
AwakeWhenOneIsDone(r) ==
    /\ run[r].st = "waiting"
    /\ \A c \in Tasks(r) : call[c].st # "ready"
    /\ \/ \E c \in Tasks(r) : Ended(c)
       \/ run[r].timeout # None /\ now >= run[r].start + run[r].timeout

(* wait() wakes up when all tasks are done or the timeout is over.  By the *)
(* time run() resumes every task has had its first turn.                   *)
Awake(r) ==
    /\ run[r].st = "waiting"
    /\ \A c \in Tasks(r) : call[c].st # "ready"
    /\ \/ AllEnded(Tasks(r))
       \/ run[r].timeout # None /\ now >= run[r].start + run[r].timeout

WaitDone(r) ==
    /\ Awake(r)
    /\ AllEnded(Tasks(r))
    /\ Complete(r, {})
    /\ UNCHANGED <<probeVars, registry>>

(* Faulty variants: every task of the probes is cancelled; none is; they   *)
(* are taken for cancelled at once.                                        *)
WaitTimedOutForAll(r) ==
    LET pending == {i \in DOMAIN run[r].entries : ~Ended(<<r, i>>)} IN
    /\ Awake(r)
    /\ pending # {}
    /\ Cancel({c \in Calls : \E i \in pending : call[c].probe = call[<<r, i>>].probe})
    /\ run' = [run EXCEPT ![r].st = "gathering", ![r].pending = pending]
    /\ UNCHANGED registry

WaitTimedOutOnly(r) ==
    LET pending == {i \in DOMAIN run[r].entries : ~Ended(<<r, i>>)} IN
    /\ Awake(r)
    /\ pending # {}
    /\ run' = [run EXCEPT ![r].st = "gathering", ![r].pending = pending]
    /\ UNCHANGED <<probeVars, registry>>

WaitTimedOutKills(r) ==
    LET pending == {i \in DOMAIN run[r].entries : ~Ended(<<r, i>>)} IN
    /\ Awake(r)
    /\ pending # {}
    /\ call' = [c \in Calls |->
                  IF c \in {<<r, i>> : i \in pending}
                  THEN [call[c] EXCEPT !.st = "cancelled", !.end = now] ELSE call[c]]
    /\ run' = [run EXCEPT ![r].st = "gathering", ![r].pending = pending]
    /\ UNCHANGED <<now, cfg, last_result, cache_until, registry>>

(* What is pending now is cancelled; a task that ended while run() was     *)
(* about to resume is not.                                                 *)
WaitTimedOut(r) ==
    LET pending == {i \in DOMAIN run[r].entries : ~Ended(<<r, i>>)} IN
    /\ Awake(r)
    /\ pending # {}
    /\ Cancel({<<r, i>> : i \in pending})
    /\ run' = [run EXCEPT ![r].st = "gathering", ![r].pending = pending]
    /\ UNCHANGED registry

(* Faulty variant: the cancelled tasks are not awaited.                    *)
GatheredAtOnce(r) ==
    /\ run[r].st = "gathering"
    /\ IF run[r].cancelled
       THEN run' = [run EXCEPT ![r].st = "cancelled"]
       ELSE Complete(r, run[r].pending)
    /\ UNCHANGED <<probeVars, registry>>

(* gather(return_exceptions=True) is over when all pending tasks ended,    *)
(* however they did.  It raises if it was itself cancelled meanwhile.      *)
Gathered(r) ==
    /\ run[r].st = "gathering"
    /\ AllEnded({<<r, i>> : i \in run[r].pending})
    /\ IF run[r].cancelled
       THEN run' = [run EXCEPT ![r].st = "cancelled"]
       ELSE Complete(r, run[r].pending)
    /\ UNCHANGED <<probeVars, registry>>

(* The caller of run() is cancelled (a client disconnects, a framework's   *)
(* request timeout).  wait() leaves the tasks alone; gather() cancels them *)
(* once more and ends when they do.                                        *)
CancelWaiting(r) ==
    /\ run[r].st = "waiting"
    /\ run' = [run EXCEPT ![r].st = "cancelled"]
    /\ UNCHANGED <<probeVars, registry>>

CancelGathering(r) ==
    /\ run[r].st = "gathering" /\ ~run[r].cancelled
    /\ run' = [run EXCEPT ![r].cancelled = TRUE]
    /\ Cancel({<<r, i>> : i \in run[r].pending})
    /\ UNCHANGED registry

RunStep(r) == WaitDone(r) \/ WaitTimedOut(r) \/ Gathered(r)

(* Everything but a registration.                                          *)
UseNext ==
    \/ \E p \in Probes, conf \in Configs : MakeProbe(p, conf)
    \/ \E r \in Runs :
          \/ \E timeout \in RunTimeouts, with_groups \in RunGroups, skip \in BOOLEAN :
                StartRun(r, timeout, with_groups, skip)
          \/ RunStep(r)
          \/ CancelWaiting(r)
          \/ CancelGathering(r)
    \/ (\E c \in Calls : CallStep(c)) /\ UNCHANGED <<registry, run>>
    \/ Tick /\ UNCHANGED <<registry, run>>

ProbirkaNext ==
    \/ \E ps \in ProbeLists, names \in GroupLists, flag \in Flags :
          Register(ps, names, flag)
    \/ \E p \in Probes, conf \in Configs, names \in GroupLists : Add(p, conf, names)
    \/ UseNext

(* As in module Probe; and the event loop resumes a run that is awake.     *)
ProbirkaFairness ==
    /\ WF_allVars(Tick /\ UNCHANGED <<registry, run>>)
    /\ \A r \in Runs : WF_allVars(RunStep(r))
    /\ \A c \in Calls :
          /\ WF_allVars((ServeCached(c) \/ StartCheck(c)) /\ UNCHANGED <<registry, run>>)
          /\ WF_allVars(TimerFires(c) /\ UNCHANGED <<registry, run>>)

(* A check that was told to stop stops sooner or later: an assumption on   *)
(* the author of the check, without which gather() may never return.       *)
ChecksStop ==
    \A c \in Calls :
        WF_allVars(/\ call[c].expired \/ call[c].cancelled
                   /\ CheckEnds(c)
                   /\ UNCHANGED <<registry, run>>)

ProbirkaSpec ==
    ProbirkaInit /\ [][ProbirkaNext]_allVars /\ ProbirkaFairness /\ ChecksStop

-----------------------------------------------------------------------------
(* Properties.                                                             *)

Run == [st        : RunState,
        timeout   : Nat \cup {None},
        start     : Nat,
        entries   : Seq([probe : Probes, flag : Flags]),
        pending   : SUBSET (1..MaxTasks),
        cancelled : BOOLEAN,
        checks    : Seq(Check),
        ok        : BOOLEAN,
        timed_out : BOOLEAN]

ProbirkaTypeOK ==
    /\ TypeOK
    /\ RegistryTypeOK
    /\ run \in [Runs -> Run]

(* A run over the probes is a behaviour of module Probe: run() creates and *)
(* cancels tasks of run_check() and does nothing else to them, so what     *)
(* holds of Probe holds of every probe under any mixture of runs.          *)
ProbeSpec == Spec

(* ok is False exactly if a probe failed whose failure some source of this *)
(* run does not allow, and every occurrence of a probe carries the same    *)
(* flag (README, Allowing failures: a strict source always wins).          *)
StrictSourceWins ==
    \A r \in Runs : run[r].st = "returned" =>
        LET checks == run[r].checks
            probe(i) == run[r].entries[i].probe
            strict(i) == \E j \in DOMAIN checks :
                            /\ probe(j) = probe(i)
                            /\ run[r].entries[j].flag \in
                                 {FALSE} \cup (IF Own(r, j) THEN {} ELSE {None})
        IN  /\ ~run[r].ok <=> \E i \in DOMAIN checks : ~checks[i].ok /\ strict(i)
            /\ \A i \in DOMAIN checks : checks[i].allow_failure = ~strict(i)

(* README, Overall timeout: probes that did not finish in time are         *)
(* reported as failed, finished ones keep their results, and the run's     *)
(* error is set exactly if one was cut off; although the tasks run on      *)
(* between the timeout, their cancellation and the assembly.               *)
PartialResultsSurvive ==
    \A r \in Runs : run[r].st = "returned" =>
        LET checks == run[r].checks
            cut(i) == checks[i].error = "run timeout"
        IN  /\ DOMAIN checks = DOMAIN run[r].entries
            /\ run[r].timed_out <=> \E i \in DOMAIN checks : cut(i)
            /\ \A i \in DOMAIN checks :
                 LET task == call[<<r, i>>] IN
                 /\ task.probe = run[r].entries[i].probe
                 /\ cut(i) => /\ ~checks[i].ok /\ task.cancelled
                              /\ run[r].timeout # None
                              /\ checks[i].elapsed >= run[r].timeout
                              /\ checks[i].started_at <= task.start
                 /\ ~cut(i) => /\ task.st = "returned" /\ ~task.cancelled
                               /\ checks[i] = [task.result EXCEPT
                                    !.allow_failure = checks[i].allow_failure]

(* Cancelling what one run left unfinished never reaches the task of       *)
(* another run, nor a task of the same run that was done by then.          *)
OnlyOverdueTasksCancelled ==
    \A r \in Runs, i \in 1..MaxTasks :
        LET task == call[<<r, i>>] IN
        task.cancelled \/ (task.st = "cancelled" /\ run[r].st = "returned")
            => /\ i \in run[r].pending
               /\ run[r].timeout # None
               /\ now >= run[r].start + run[r].timeout

(* No task is left behind by a run that is over, however it ended: having  *)
(* waited for all tasks, or for the cancelled ones, also if the caller was *)
(* cancelled meanwhile.  Only a run cancelled in wait() leaves its tasks.  *)
NoTaskOutlivesRun ==
    \A r \in Runs :
        \/ run[r].st \in {"returned", "raised"}
        \/ run[r].st = "cancelled" /\ run[r].pending # {}
        => AllEnded(Tasks(r))

(* A run with an overall timeout, or whose probes all have timeouts, comes *)
(* to an end (provided checks that are told to stop do).                   *)
RunEnds ==
    \A r \in Runs :
        /\ run[r].st \in {"waiting", "gathering"}
        /\ \/ run[r].timeout # None
           \/ \A i \in DOMAIN run[r].entries : cfg[run[r].entries[i].probe].timeout # None
        ~> run[r].st \in {"returned", "raised", "cancelled"}

-----------------------------------------------------------------------------
(* What the documentation says and the code does not do.                   *)

(* README: a probe never crashes the health check, whatever it does.  A    *)
(* check that ends with CancelledError of its own makes run() raise.       *)
ProbeNeverCrashesTheRun ==
    \A r \in Runs : run[r].st # "raised"
=============================================================================
