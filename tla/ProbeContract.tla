---------------------------- MODULE ProbeContract ----------------------------
(***************************************************************************)
(* What a probe promises its callers, without timers, cancellation in two  *)
(* steps or lazily expiring cache entries: a request is answered by a      *)
(* check that began after it was made, or from a memory that forgets an    *)
(* answer at the moment its TTL is over; or it is given up, and then it    *)
(* leaves nothing behind.                                                  *)
(***************************************************************************)
EXTENDS Integers

CONSTANTS Probes, Calls, None, Configs

VARIABLES
    now,
    cfg,        \* the configuration of each probe, None before it exists
    memo,       \* the answer a probe remembers, or None
    req         \* the requests

contractVars == <<now, cfg, memo, req>>

Request(st, p) == [st |-> st, probe |-> p, since |-> None, result |-> None]

NoRequest == Request("idle", None)

Lifetime(p, ok) == IF ok THEN cfg[p].success_ttl ELSE cfg[p].failed_ttl

Memorises(p) == {cfg[p].success_ttl, cfg[p].failed_ttl} \ {None, 0} # {}

(* Does probe p still remember, at time t, an answer found before?         *)
Remembers(p, answer, t) ==
    t < answer.started_at + answer.elapsed + Lifetime(p, answer.ok)

ContractInit ==
    /\ now = 0
    /\ cfg = [p \in Probes |-> None]
    /\ memo = [p \in Probes |-> None]
    /\ req = [c \in Calls |-> NoRequest]

Appear(p, conf) ==
    /\ cfg[p] = None
    /\ cfg' = [cfg EXCEPT ![p] = conf]
    /\ UNCHANGED <<now, memo, req>>

Ask(of) ==
    /\ \A c \in DOMAIN of : req[c].st = "idle" /\ cfg[of[c]] # None
    /\ req' = [c \in Calls |->
                 IF c \in DOMAIN of
                 THEN Request("asked", of[c])
                 ELSE req[c]]
    /\ UNCHANGED <<now, cfg, memo>>

Recall(c) ==
    LET p == req[c].probe IN
    /\ req[c].st = "asked"
    /\ memo[p] # None
    /\ req' = [req EXCEPT ![c].st = "answered",
                          ![c].result = [memo[p] EXCEPT !.cached = TRUE]]
    /\ UNCHANGED <<now, cfg, memo>>

Begin(c) ==
    /\ req[c].st = "asked"
    /\ memo[req[c].probe] = None
    /\ req' = [req EXCEPT ![c].st = "busy", ![c].since = now]
    /\ UNCHANGED <<now, cfg, memo>>

(* The memory afterwards: an outcome with no TTL does not touch it, one    *)
(* with TTL 0 empties it, every other is remembered.                       *)
Answer(c, ok, error) ==
    LET p == req[c].probe
        answer == [ok            |-> ok,
                   error         |-> error,
                   cached        |-> IF Memorises(p) THEN FALSE ELSE None,
                   started_at    |-> req[c].since,
                   elapsed       |-> now - req[c].since,
                   allow_failure |-> cfg[p].allow_failure]
    IN  /\ req[c].st = "busy"
        /\ error # None => ~ok
        /\ req' = [req EXCEPT ![c].st = "answered", ![c].result = answer]
        /\ memo' = IF ~Memorises(p) \/ Lifetime(p, ok) = None
                   THEN memo
                   ELSE [memo EXCEPT ![p] =
                           IF Lifetime(p, ok) = 0 THEN None ELSE answer]
        /\ UNCHANGED <<now, cfg>>

GiveUp(S) ==
    /\ \A c \in S : req[c].st \in {"asked", "busy"}
    /\ req' = [c \in Calls |-> IF c \in S THEN [req[c] EXCEPT !.st = "dropped"]
                                          ELSE req[c]]
    /\ UNCHANGED <<now, cfg, memo>>

Pass ==
    /\ now' = now + 1
    /\ memo' = [p \in Probes |->
                  IF memo[p] # None /\ Remembers(p, memo[p], now + 1)
                  THEN memo[p] ELSE None]
    /\ UNCHANGED <<cfg, req>>

ContractNext ==
    \/ \E p \in Probes, conf \in Configs : Appear(p, conf)
    \/ \E S \in SUBSET Calls : \E of \in [S -> Probes] : Ask(of)
    \/ \E c \in Calls :
          \/ Recall(c)
          \/ Begin(c)
          \/ \E ok \in BOOLEAN, error \in {"exception", "probe timeout", None} :
                Answer(c, ok, error)
    \/ \E S \in SUBSET Calls : GiveUp(S)
    \/ Pass

ContractSpec == ContractInit /\ [][ContractNext]_contractVars
=============================================================================
