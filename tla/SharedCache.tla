---------------------------- MODULE SharedCache ------------------------------
(***************************************************************************)
(* ProbeBase.run_check (probirka/_probe.py) of one probe that is shared by *)
(* several threads, each with an event loop of its own, as when Django     *)
(* serves make_django_view from its worker threads.  Module Probe takes a  *)
(* turn of a task for one step.  Here threads take turns at every read and *)
(* write of the attributes _last_result and _cache_until, which no lock    *)
(* guards: each is atomic, and nothing else is.                            *)
(*                                                                         *)
(* A thread may be kept waiting in the middle of a turn, for MaxTurn units *)
(* of time at most.  Of the fields copied from a cached result, one after  *)
(* the other, the first (ok) and the fifth (error) are followed.           *)
(***************************************************************************)
EXTENDS Integers, Sequences

CONSTANTS
    Threads,    \* each makes one call
    None,       \* Python's None
    Configs,    \* TTLs of the probe that are explored
    MaxTurn,    \* the longest turn of a thread
    MaxTime     \* bound: the clock stops here

ASSUME SharedCacheAssumption ==
    /\ Configs \subseteq [success_ttl : Nat \cup {None}, failed_ttl : Nat \cup {None}]
    /\ MaxTurn \in Nat
    /\ None \notin Nat /\ None \notin [ok : BOOLEAN, end : Nat]

VARIABLES
    now,                        \* time.monotonic()
    cfg,                        \* the TTLs of the probe
    last_result, cache_until,   \* the attributes
    thread                      \* what each thread is about to do, and has read

sharedVars == <<now, cfg, last_result, cache_until, thread>>
cache == <<last_result, cache_until>>

InTurn == {"look", "dated", "clock", "compare", "copy", "store", "stamp", "date"}

(* turn: when the turn began; at: the last reading of the clock; result:   *)
(* of the check; sources: the cached results that fields were taken from.  *)
Idle == [pc |-> "idle", turn |-> 0, at |-> None, result |-> None, sources |-> <<>>]

SharedInit ==
    /\ now = 0
    /\ cfg \in Configs
    /\ last_result = None
    /\ cache_until = None
    /\ thread = [t \in Threads |-> Idle]

(* Faulty variant: a missing TTL is that of the other outcome.             *)
TtlOfEither(ok) ==
    IF (ok /\ cfg.success_ttl # None) \/ cfg.failed_ttl = None
    THEN cfg.success_ttl ELSE cfg.failed_ttl

TtlOf(ok) == IF ok THEN cfg.success_ttl ELSE cfg.failed_ttl

Caching == {cfg.success_ttl, cfg.failed_ttl} \ {None, 0} # {}

Goto(t, pc) == thread' = [thread EXCEPT ![t].pc = pc]

At(t, pc) == thread[t].pc = pc

-----------------------------------------------------------------------------
(* `if self._last_result and self._cache_until is not None                 *)
(*     and monotonic() < self._cache_until': four reads.                   *)
Arrive(t) ==
    /\ At(t, "idle")
    /\ thread' = [thread EXCEPT ![t].pc = "look", ![t].turn = now]
    /\ UNCHANGED <<now, cfg, cache>>

Look(t) ==
    /\ At(t, "look")
    /\ Goto(t, IF last_result = None THEN "checking" ELSE "dated")
    /\ UNCHANGED <<now, cfg, cache>>

LookAtDate(t) ==
    /\ At(t, "dated")
    /\ Goto(t, IF cache_until = None THEN "checking" ELSE "clock")
    /\ UNCHANGED <<now, cfg, cache>>

ReadClock(t) ==
    /\ At(t, "clock") \/ At(t, "stamp")
    /\ thread' = [thread EXCEPT ![t].at = now,
                                ![t].pc = IF @ = "clock" THEN "compare" ELSE "date"]
    /\ UNCHANGED <<now, cfg, cache>>

(* Faulty variant: an expired entry is thrown away.                        *)
CompareAndForget(t) ==
    /\ At(t, "compare")
    /\ IF thread[t].at < cache_until
       THEN Goto(t, "copy") /\ UNCHANGED cache
       ELSE Goto(t, "checking") /\ last_result' = None /\ UNCHANGED cache_until
    /\ UNCHANGED <<now, cfg>>

Compare(t) ==
    /\ At(t, "compare")
    /\ Goto(t, IF thread[t].at < cache_until THEN "copy" ELSE "checking")
    /\ UNCHANGED <<now, cfg, cache>>

(* Every field is read from what self._last_result is by then.             *)
Copy(t) ==
    /\ At(t, "copy")
    /\ LET sources == Append(thread[t].sources, [found |-> last_result, read |-> now])
       IN  thread' = [thread EXCEPT ![t].sources = sources,
                                    ![t].pc = IF Len(sources) = 2 THEN "served" ELSE "copy"]
    /\ UNCHANGED <<now, cfg, cache>>

-----------------------------------------------------------------------------
(* The check ends, with an answer or an exception; or it is cancelled.     *)
CheckEnds(t, ok) ==
    /\ At(t, "checking")
    /\ thread' = [thread EXCEPT ![t].turn = now,
                                ![t].result = [ok |-> ok, end |-> now],
                                ![t].pc = IF Caching /\ TtlOf(ok) # None
                                          THEN "store" ELSE "done"]
    /\ UNCHANGED <<now, cfg, cache>>

CheckIsCancelled(t) ==
    /\ At(t, "checking")
    /\ Goto(t, "done")
    /\ UNCHANGED <<now, cfg, cache>>

StoreResult(t) ==
    /\ At(t, "store")
    /\ last_result' = thread[t].result
    /\ Goto(t, "stamp")
    /\ UNCHANGED <<now, cfg, cache_until>>

(* Faulty variant: the life of the entry that is there is prolonged.       *)
StoreDateProlonging(t) ==
    /\ At(t, "date")
    /\ cache_until' = TtlOf(thread[t].result.ok)
                        + IF cache_until # None /\ cache_until > thread[t].at
                          THEN cache_until ELSE thread[t].at
    /\ Goto(t, "done")
    /\ UNCHANGED <<now, cfg, last_result>>

StoreDate(t) ==
    /\ At(t, "date")
    /\ cache_until' = thread[t].at + TtlOf(thread[t].result.ok)
    /\ Goto(t, "done")
    /\ UNCHANGED <<now, cfg, last_result>>

(* Time passes, but no turn lasts longer than MaxTurn.                     *)
Tick ==
    /\ now < MaxTime
    /\ \A t \in Threads : thread[t].pc \in InTurn => now < thread[t].turn + MaxTurn
    /\ now' = now + 1
    /\ UNCHANGED <<cfg, cache, thread>>

SharedNext ==
    \/ \E t \in Threads :
          \/ Arrive(t) \/ Look(t) \/ LookAtDate(t) \/ ReadClock(t) \/ Compare(t) \/ Copy(t)
          \/ \E ok \in BOOLEAN : CheckEnds(t, ok)
          \/ CheckIsCancelled(t)
          \/ StoreResult(t) \/ StoreDate(t)
    \/ Tick

SharedSpec == SharedInit /\ [][SharedNext]_sharedVars

-----------------------------------------------------------------------------
(* Properties.                                                             *)

(* What a thread has seen to be there does not disappear under its hands:  *)
(* the comparison never meets a missing date, and no field is read from    *)
(* None, although both attributes are read anew each time.                 *)
NothingVanishes ==
    \A t \in Threads :
        /\ thread[t].pc \in {"dated", "clock", "compare", "copy"} => last_result # None
        /\ thread[t].pc \in {"clock", "compare", "copy"} => cache_until # None

Longest == LET ttls == {cfg.success_ttl, cfg.failed_ttl} \ {None}
           IN  CHOOSE m \in ttls : \A n \in ttls : n <= m

(* The pair of a result and a date may be torn, and yet a field is never   *)
(* taken from a result that ended longer ago than the longest TTL and the  *)
(* three turns it takes: to store it, to date another and to copy it.      *)
ServedIsRecent ==
    \A t \in Threads : \A i \in DOMAIN thread[t].sources :
        LET source == thread[t].sources[i] IN
        source.read < source.found.end + Longest + 3 * MaxTurn

(* A probe with a TTL for one outcome only never serves the other, nor a   *)
(* mixture of both (an error next to ok=True).                             *)
OneTtlNeverMixes ==
    \A t \in Threads : \A i \in DOMAIN thread[t].sources :
        None \in {cfg.success_ttl, cfg.failed_ttl} =>
            thread[t].sources[i].found.ok = (cfg.success_ttl # None)
=============================================================================
