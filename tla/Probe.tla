------------------------------- MODULE Probe -------------------------------
(***************************************************************************)
(* ProbeBase.run_check (probirka/_probe.py): the per-probe result cache    *)
(* and the probe's own timeout.                                            *)
(*                                                                         *)
(* A call is one asyncio task running run_check() of one probe; several    *)
(* calls of the same probe object may be under way at once (two runs of a  *)
(* Probirka, or a probe registered twice), and nothing serialises them.    *)
(* Between two awaits a task is atomic, so an action is what a task does   *)
(* from one await to the next.  The body of _check() is the environment:   *)
(* it ends when it likes and as it likes, also after it was told to stop.  *)
(*                                                                         *)
(* `now' is time.monotonic(), in units of the smallest difference between  *)
(* timeouts and TTLs that matters.  The wall-clock started_at of a result  *)
(* is taken at the same moment as the monotonic reading `start' and is     *)
(* represented by it.                                                      *)
(***************************************************************************)
EXTENDS Integers

CONSTANTS
    Probes,     \* probe objects
    Calls,      \* run_check() tasks; each identifier is used once
    None,       \* Python's None
    Configs,    \* what the constructor of a probe may be given
    MaxTime,    \* bound: the clock stops here
    LastCall    \* bound: no call is created later than this

ASSUME ProbeAssumption ==
    /\ None \notin Nat
    /\ None \notin BOOLEAN
    /\ Configs \subseteq [timeout       : Nat \cup {None},
                          success_ttl   : Nat \cup {None},
                          failed_ttl    : Nat \cup {None},
                          allow_failure : BOOLEAN]
    /\ MaxTime \in Nat
    /\ LastCall \in Nat

VARIABLES
    now,            \* time.monotonic()
    cfg,            \* what __init__ stored in each probe; None: not constructed
    last_result,    \* self._last_result
    cache_until,    \* self._cache_until
    call            \* the run_check() tasks

vars == <<now, cfg, last_result, cache_until, call>>

-----------------------------------------------------------------------------
(* Data.                                                                   *)

(* ProbeResult without name and info.  "exception" stands for the redacted *)
(* 'ExcType: message', "probe timeout" for 'TimeoutError: probe timed out  *)
(* after ...s'.                                                            *)
Result == [ok            : BOOLEAN,
           error         : {"exception", "probe timeout", None},
           cached        : BOOLEAN \cup {None},
           started_at    : Nat,
           elapsed       : Nat,
           allow_failure : BOOLEAN]

ASSUME NoneAssumption == None \notin Result

CallState == {"idle", "ready", "checking", "returned", "cancelled"}

Call == [st        : CallState,
         probe     : Probes \cup {None},
         start     : Nat \cup {None},    \* `start' of run_check
         expired   : BOOLEAN,            \* wait_for's timer has fired
         cancelled : BOOLEAN,            \* task.cancel() while checking
         result    : Result \cup {None},
         end       : Nat \cup {None}]    \* when the task was done

NewCall(st, p) ==
    [st |-> st, probe |-> p, start |-> None, expired |-> FALSE,
     cancelled |-> FALSE, result |-> None, end |-> None]

NoCall == NewCall("idle", None)

ReadyCall(p) == NewCall("ready", p)

Ended(c) == call[c].st \in {"returned", "cancelled"}

(* bool(success_ttl or failed_ttl): timedelta(0) is falsy.                 *)
UseCache(p) == {cfg[p].success_ttl, cfg[p].failed_ttl} \ {None, 0} # {}

Ttl(p, ok) == IF ok THEN cfg[p].success_ttl ELSE cfg[p].failed_ttl

(* Faulty variant: an entry is still served at the moment it expires.      *)
FreshAtExpiry(p) == last_result[p] # None /\ now <= cache_until[p]

Fresh(p) == last_result[p] # None /\ now < cache_until[p]

-----------------------------------------------------------------------------
Init ==
    /\ now = 0
    /\ cfg = [p \in Probes |-> None]
    /\ last_result = [p \in Probes |-> None]
    /\ cache_until = [p \in Probes |-> None]
    /\ call = [c \in Calls |-> NoCall]

(* ProbeBase.__init__.                                                     *)
Construct(p, conf) ==
    /\ cfg[p] = None
    /\ cfg' = [cfg EXCEPT ![p] = conf]
    /\ UNCHANGED <<now, last_result, cache_until, call>>

(* A caller wraps run_check() of the probes `of[c]' in tasks.              *)
Create(of) ==
    /\ now <= LastCall
    /\ \A c \in DOMAIN of : call[c].st = "idle" /\ cfg[of[c]] # None
    /\ call' = [c \in Calls |-> IF c \in DOMAIN of THEN ReadyCall(of[c])
                                                   ELSE call[c]]
    /\ UNCHANGED <<now, cfg, last_result, cache_until>>

(* The cache is fresh: run_check returns a copy without suspending.        *)
ServeCached(c) ==
    LET p == call[c].probe IN
    /\ call[c].st = "ready"
    /\ Fresh(p)
    /\ call' = [call EXCEPT
          ![c].st = "returned",
          ![c].result = [last_result[p] EXCEPT
                           !.cached = TRUE,
                           !.allow_failure = cfg[p].allow_failure],
          ![c].end = now]
    /\ UNCHANGED <<now, cfg, last_result, cache_until>>

(* Otherwise the check starts.  wait_for() with a timeout of 0 cancels the *)
(* check before its body is entered.                                       *)
StartCheck(c) ==
    LET p == call[c].probe IN
    /\ call[c].st = "ready"
    /\ ~Fresh(p)
    /\ call' = [call EXCEPT ![c].st = "checking",
                            ![c].start = now,
                            ![c].expired = (cfg[p].timeout = 0)]
    /\ UNCHANGED <<now, cfg, last_result, cache_until>>

-----------------------------------------------------------------------------
(* How a check ends.                                                       *)

InBody(c) == call[c].st = "checking" /\ cfg[call[c].probe].timeout # 0

(* Faulty variants: the TTL counts from the start of the check; the entry  *)
(* that is there stays as long as it is fresh.                             *)
StoreFromStart(p, result) ==
    IF UseCache(p) /\ Ttl(p, result.ok) # None
    THEN /\ last_result' = [last_result EXCEPT ![p] = result]
         /\ cache_until' = [cache_until EXCEPT
                              ![p] = result.started_at + Ttl(p, result.ok)]
    ELSE UNCHANGED <<last_result, cache_until>>

StoreUnlessFresh(p, result) ==
    IF UseCache(p) /\ Ttl(p, result.ok) # None /\ ~Fresh(p)
    THEN /\ last_result' = [last_result EXCEPT ![p] = result]
         /\ cache_until' = [cache_until EXCEPT ![p] = now + Ttl(p, result.ok)]
    ELSE UNCHANGED <<last_result, cache_until>>

(* The entry a result leaves in the cache: none without a TTL for its      *)
(* outcome, one that has already expired when that TTL is 0.               *)
Store(p, result) ==
    IF UseCache(p) /\ Ttl(p, result.ok) # None
    THEN /\ last_result' = [last_result EXCEPT ![p] = result]
         /\ cache_until' = [cache_until EXCEPT ![p] = now + Ttl(p, result.ok)]
    ELSE UNCHANGED <<last_result, cache_until>>

(* Faulty variant: the operands of the subtraction are swapped.            *)
NewResultSwapped(c, ok, error) ==
    LET p == call[c].probe IN
    [ok            |-> ok,
     error         |-> error,
     cached        |-> IF UseCache(p) THEN FALSE ELSE None,
     started_at    |-> call[c].start,
     elapsed       |-> call[c].start - now,
     allow_failure |-> cfg[p].allow_failure]

NewResult(c, ok, error) ==
    LET p == call[c].probe IN
    [ok            |-> ok,
     error         |-> error,
     cached        |-> IF UseCache(p) THEN FALSE ELSE None,
     started_at    |-> call[c].start,
     elapsed       |-> now - call[c].start,
     allow_failure |-> cfg[p].allow_failure]

(* From the end of the try statement to the return: no await in between.   *)
Finish(c, ok, error) ==
    LET result == NewResult(c, ok, error) IN
    /\ call[c].st = "checking"
    /\ call' = [call EXCEPT ![c].st = "returned",
                            ![c].result = result,
                            ![c].end = now]
    /\ Store(call[c].probe, result)
    /\ UNCHANGED <<now, cfg>>

(* The body returns.  It may have swallowed a cancellation to do so.       *)
CheckAnswers(c, ok) == InBody(c) /\ Finish(c, ok, None)

(* The body raises: on its own, or from a cleanup after its cancellation.  *)
CheckRaises(c) == InBody(c) /\ Finish(c, FALSE, "exception")

(* The body raises a TimeoutError of its own, say of a socket.             *)
CheckRaisesTimeout(c) == InBody(c) /\ Finish(c, FALSE, "probe timeout")

(* The body ends with the CancelledError of wait_for's timer, which        *)
(* becomes TimeoutError unless the task was cancelled as well.             *)
CheckTimesOut(c) ==
    /\ call[c].expired /\ ~call[c].cancelled
    /\ Finish(c, FALSE, "probe timeout")

(* Faulty variant: a cancelled check is cached as failed on its way out.   *)
CheckCancelledStores(c) ==
    /\ call[c].st = "checking"
    /\ ~call[c].expired \/ call[c].cancelled
    /\ call' = [call EXCEPT ![c].st = "cancelled", ![c].end = now]
    /\ Store(call[c].probe, NewResult(c, FALSE, "exception"))
    /\ UNCHANGED <<now, cfg>>

(* CancelledError is no Exception: it passes through run_check, which      *)
(* stores nothing.  The body may also raise it although nobody cancelled.  *)
CheckCancelled(c) ==
    /\ call[c].st = "checking"
    /\ ~call[c].expired \/ call[c].cancelled
    /\ call' = [call EXCEPT ![c].st = "cancelled", ![c].end = now]
    /\ UNCHANGED <<now, cfg, last_result, cache_until>>

CheckEnds(c) ==
    \/ \E ok \in BOOLEAN : CheckAnswers(c, ok)
    \/ CheckRaises(c)
    \/ CheckRaisesTimeout(c)
    \/ CheckTimesOut(c)
    \/ CheckCancelled(c)

-----------------------------------------------------------------------------
(* wait_for's timer throws CancelledError into the check.                  *)
Due(c) ==
    LET t == cfg[call[c].probe].timeout IN
    t # None /\ now >= call[c].start + t

TimerFires(c) ==
    /\ call[c].st = "checking" /\ ~call[c].expired
    /\ Due(c)
    /\ call' = [call EXCEPT ![c].expired = TRUE]
    /\ UNCHANGED <<now, cfg, last_result, cache_until>>

(* task.cancel(): a task that never ran ends at once, one in its check has *)
(* CancelledError thrown into the check, one that is done is left alone.   *)
CancelledCall(c) ==
    CASE call[c].st = "ready"    -> [call[c] EXCEPT !.st = "cancelled", !.end = now]
      [] call[c].st = "checking" -> [call[c] EXCEPT !.cancelled = TRUE]
      [] OTHER                   -> call[c]

Cancel(S) ==
    /\ call' = [c \in Calls |-> IF c \in S THEN CancelledCall(c) ELSE call[c]]
    /\ UNCHANGED <<now, cfg, last_result, cache_until>>

(* Time passes, except that a call still to start at LastCall starts first *)
(* (so that MaxTime leaves room for its timeout).                          *)
Tick ==
    /\ now < MaxTime
    /\ now >= LastCall => \A c \in Calls : call[c].st # "ready"
    /\ now' = now + 1
    /\ UNCHANGED <<cfg, last_result, cache_until, call>>

CallStep(c) == ServeCached(c) \/ StartCheck(c) \/ CheckEnds(c) \/ TimerFires(c)

Next ==
    \/ \E p \in Probes, conf \in Configs : Construct(p, conf)
    \/ \E S \in SUBSET Calls : \E of \in [S -> Probes] : Create(of)
    \/ \E c \in Calls : CallStep(c)
    \/ \E S \in SUBSET Calls : Cancel(S)
    \/ Tick

Spec == Init /\ [][Next]_vars

-----------------------------------------------------------------------------
(* Properties.                                                             *)

TypeOK ==
    /\ now \in Nat
    /\ cfg \in [Probes -> Configs \cup {None}]
    /\ last_result \in [Probes -> Result \cup {None}]
    /\ cache_until \in [Probes -> Nat \cup {None}]
    /\ call \in [Calls -> Call]

(* A cached entry expires exactly one TTL, the one of its own outcome,     *)
(* after the check it reports on ended, whichever of several overlapping   *)
(* calls wrote it; and no entry outlives a configuration without caching.  *)
CacheCoherent ==
    \A p \in Probes :
        last_result[p] # None =>
            LET r == last_result[p] IN
            /\ UseCache(p)
            /\ Ttl(p, r.ok) # None
            /\ cache_until[p] = r.started_at + r.elapsed + Ttl(p, r.ok)

(* A result marked cached was younger than the TTL of its own outcome when *)
(* it was handed out (README, Caching): a success is not kept for the TTL  *)
(* of a failure by overlapping calls, nor is anything served at the exact  *)
(* moment of its expiry.                                                   *)
ServedWithinTtl ==
    \A c \in Calls :
        call[c].st = "returned" /\ call[c].result.cached = TRUE =>
            LET r == call[c].result
                t == Ttl(call[c].probe, r.ok)
            IN  t # None /\ call[c].end - (r.started_at + r.elapsed) < t

(* Overlapping calls finish in any order; a result that has a TTL is never *)
(* replaced by one of a check that ended before it.                        *)
NewestResultCached ==
    \A c \in Calls :
        LET p == call[c].probe
            r == call[c].result
        IN  call[c].st = "returned" /\ UseCache(p) /\ Ttl(p, r.ok) # None =>
                /\ last_result[p] # None
                /\ last_result[p].started_at + last_result[p].elapsed
                     >= r.started_at + r.elapsed

(* A call that was cancelled leaves no trace in the cache: what the cache  *)
(* holds was returned to some caller, as the answer of its own check.      *)
CacheHoldsAnAnswer ==
    \A p \in Probes :
        last_result[p] # None =>
            \E c \in Calls : /\ call[c].st = "returned"
                             /\ call[c].probe = p
                             /\ call[c].result = last_result[p]

(* README: a result says the probe timed out when the probe exceeded its   *)
(* timeout.  The code also says so when the body raises TimeoutError.      *)
TimeoutMeansExpired ==
    \A c \in Calls :
        call[c].st = "returned" /\ call[c].result.error = "probe timeout"
            /\ call[c].result.cached # TRUE
            => call[c].expired
=============================================================================
