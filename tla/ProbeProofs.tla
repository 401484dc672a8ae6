----------------------------- MODULE ProbeProofs -----------------------------
(***************************************************************************)
(* Theorems about run_check for any probes, calls, configurations and      *)
(* bounds.  The inductive invariant CacheInv adds to the properties what   *)
(* each call and each cache entry carries from earlier steps: when its     *)
(* check began and ended, and that its probe had been constructed.         *)
(***************************************************************************)
EXTENDS ProbeRefinement, TLAPS

(* What a call remembers of its own past.                                  *)
CallInv(c) ==
    /\ call[c].st # "idle" => call[c].probe \in Probes /\ cfg[call[c].probe] # None
    /\ call[c].st = "checking" => call[c].start \in Nat /\ call[c].start <= now
    /\ call[c].st = "returned" =>
         /\ call[c].result \in Result
         /\ call[c].result.allow_failure = cfg[call[c].probe].allow_failure
         /\ call[c].end \in Nat

(* What a cache entry owes to the check that wrote it.                     *)
EntryInv(p) ==
    last_result[p] # None =>
        /\ cfg[p] # None
        /\ cache_until[p] \in Nat
        /\ UseCache(p)
        /\ Ttl(p, last_result[p].ok) \in Nat
        /\ last_result[p].started_at + last_result[p].elapsed <= now
        /\ cache_until[p] = last_result[p].started_at + last_result[p].elapsed
                              + Ttl(p, last_result[p].ok)
        /\ last_result[p].allow_failure = cfg[p].allow_failure

(* A call that returned a cached result was within the TTL.                *)
ServedInv(c) ==
    call[c].st = "returned" /\ call[c].result.cached = TRUE =>
        LET r == call[c].result
            t == Ttl(call[c].probe, r.ok)
        IN  t \in Nat /\ call[c].end - (r.started_at + r.elapsed) < t

(* No call has returned a result newer than the cached one.                *)
NewestInv(c) ==
    LET p == call[c].probe
        r == call[c].result
    IN  call[c].st = "returned" /\ UseCache(p) /\ Ttl(p, r.ok) # None =>
            /\ last_result[p] # None
            /\ last_result[p].started_at + last_result[p].elapsed
                 >= r.started_at + r.elapsed

(* The cached result is the answer of some call.                           *)
HeldInv(p) ==
    last_result[p] # None =>
        \E c \in Calls : /\ call[c].st = "returned"
                         /\ call[c].probe = p
                         /\ call[c].result = last_result[p]

CacheInv ==
    /\ TypeOK
    /\ \A c \in Calls : CallInv(c)
    /\ \A p \in Probes : EntryInv(p)
    /\ \A c \in Calls : ServedInv(c)
    /\ \A c \in Calls : NewestInv(c)
    /\ \A p \in Probes : HeldInv(p)

-----------------------------------------------------------------------------
(* The fields of a result have the types that Result gives them.           *)
LEMMA ResultFields ==
  ASSUME NEW r \in Result
  PROVE  r.ok \in BOOLEAN /\ r.started_at \in Nat /\ r.elapsed \in Nat
         /\ r.started_at + r.elapsed \in Nat
  <1>1. r.ok \in BOOLEAN
    BY DEF Result
  <1>2. r.started_at \in Nat /\ r.elapsed \in Nat
    BY DEF Result
  <1> QED
    BY <1>1, <1>2

(* Subtraction of naturals, for the SMT backend to use as a fact.          *)
LEMMA Difference ==
  ASSUME NEW a \in Nat, NEW b \in Nat, b <= a
  PROVE  a - b \in Nat /\ b + (a - b) = a
  OBVIOUS

(* Before anything happens there is no entry and no answer to speak of.    *)
LEMMA InitCacheInv == Init => CacheInv
  <1> SUFFICES ASSUME Init PROVE CacheInv
    OBVIOUS
  <1> USE DEF Init, NoCall, NewCall
  <1>1. TypeOK
    BY DEF TypeOK, Call, CallState
  <1>2. \A c \in Calls : CallInv(c) /\ ServedInv(c) /\ NewestInv(c)
    BY DEF CallInv, ServedInv, NewestInv
  <1>3. \A p \in Probes : EntryInv(p) /\ HeldInv(p)
    BY DEF EntryInv, HeldInv
  <1> QED
    BY <1>1, <1>2, <1>3 DEF CacheInv

-----------------------------------------------------------------------------
(* A step in which no call returns and no cache is written: whatever was   *)
(* answered and whatever is cached stays as it is.                         *)
LEMMA FrameInv ==
  ASSUME CacheInv, TypeOK',
         \A c \in Calls : CallInv(c)',
         UNCHANGED <<last_result, cache_until>>,
         now <= now',
         \A p \in Probes : cfg[p] # None => cfg'[p] = cfg[p],
         \A c \in Calls : call[c].st = "returned" \/ call'[c].st = "returned"
                              => call'[c] = call[c]
  PROVE  CacheInv'
  <1>1. ASSUME NEW p \in Probes PROVE EntryInv(p)' /\ HeldInv(p)'
    <2> SUFFICES ASSUME last_result[p] # None PROVE EntryInv(p)' /\ HeldInv(p)'
      BY DEF EntryInv, HeldInv
    <2>1. EntryInv(p)'
      <3>1. last_result[p].started_at + last_result[p].elapsed \in Nat
        BY ResultFields DEF CacheInv, TypeOK
      <3>2. now \in Nat /\ now' \in Nat
        BY DEF CacheInv, TypeOK
      <3> QED
        BY <3>1, <3>2 DEF CacheInv, EntryInv, UseCache, Ttl
    <2>2. HeldInv(p)'
      BY DEF CacheInv, HeldInv
    <2> QED
      BY <2>1, <2>2
  <1>2. ASSUME NEW c \in Calls PROVE ServedInv(c)' /\ NewestInv(c)'
    <2> SUFFICES ASSUME call'[c].st = "returned" PROVE ServedInv(c)' /\ NewestInv(c)'
      BY DEF ServedInv, NewestInv
    <2>1. call'[c] = call[c]
      OBVIOUS
    <2>2. call[c].probe \in Probes /\ cfg'[call[c].probe] = cfg[call[c].probe]
      BY <2>1 DEF CacheInv, CallInv
    <2> QED
      BY <2>1, <2>2 DEF CacheInv, ServedInv, NewestInv, Ttl, UseCache
  <1> QED
    BY <1>1, <1>2 DEF CacheInv

(* A new probe has no calls and no entry, and leaves the others alone.     *)
LEMMA ConstructInv ==
  ASSUME CacheInv, NEW p \in Probes, NEW conf \in Configs, Construct(p, conf)
  PROVE  CacheInv'
  <1>1. TypeOK'
    BY DEF Construct, CacheInv, TypeOK
  <1>2. \A q \in Probes : cfg[q] # None => cfg'[q] = cfg[q]
    BY DEF Construct, CacheInv, TypeOK
  <1>3. \A c \in Calls : CallInv(c)'
    BY <1>2 DEF Construct, CacheInv, CallInv
  <1>4. UNCHANGED <<now, last_result, cache_until, call>> /\ now \in Nat
    BY DEF Construct, CacheInv, TypeOK
  <1> QED
    BY <1>1, <1>2, <1>3, <1>4, FrameInv

(* Tasks are created for calls that have not been used.                    *)
LEMMA CreateInv ==
  ASSUME CacheInv, NEW S \in SUBSET Calls, NEW of \in [S -> Probes], Create(of)
  PROVE  CacheInv'
  <1>1. /\ UNCHANGED <<now, cfg, last_result, cache_until>> /\ now \in Nat
        /\ call' = [c \in Calls |-> IF c \in S THEN ReadyCall(of[c]) ELSE call[c]]
        /\ \A c \in S : call[c].st = "idle" /\ cfg[of[c]] # None
    BY DEF Create, CacheInv, TypeOK
  <1>2. TypeOK'
    BY <1>1 DEF CacheInv, TypeOK, ReadyCall, NewCall, Call, CallState
  <1>3. \A c \in Calls : CallInv(c)'
    BY <1>1 DEF CacheInv, CallInv, ReadyCall, NewCall
  <1>4. \A c \in Calls : call[c].st = "returned" \/ call'[c].st = "returned"
                             => call'[c] = call[c]
    BY <1>1 DEF ReadyCall, NewCall
  <1> QED
    BY <1>1, <1>2, <1>3, <1>4, FrameInv

(* Time passing does not change how old anything was when it ended.        *)
LEMMA TickInv ==
  ASSUME CacheInv, Tick
  PROVE  CacheInv'
  <1>1. UNCHANGED <<cfg, last_result, cache_until, call>> /\ now \in Nat /\ now' = now + 1
    BY DEF Tick, CacheInv, TypeOK
  <1>2. TypeOK'
    BY <1>1 DEF CacheInv, TypeOK
  <1>3. ASSUME NEW c \in Calls PROVE CallInv(c)'
    BY <1>1 DEF CacheInv, CallInv
  <1> QED
    BY <1>1, <1>2, <1>3, FrameInv

(* A step of call c alone that does not end with an answer.                *)
LEMMA StepInv ==
  ASSUME CacheInv, NEW c \in Calls, NEW r \in Call,
         UNCHANGED <<now, cfg, last_result, cache_until>>,
         call' = [call EXCEPT ![c] = r],
         call[c].st \in {"ready", "checking"}, r.st # "returned",
         r.probe = call[c].probe,
         r.st = "checking" => r.start \in Nat /\ r.start <= now
  PROVE  CacheInv'
  <1>1. TypeOK'
    BY DEF CacheInv, TypeOK
  <1>2. call'[c] = r /\ \A d \in Calls : d # c => call'[d] = call[d]
    BY DEF CacheInv, TypeOK
  <1>3. ASSUME NEW d \in Calls PROVE CallInv(d)'
    BY <1>2 DEF CacheInv, CallInv
  <1>4. now \in Nat
    BY DEF CacheInv, TypeOK
  <1> QED
    BY <1>1, <1>2, <1>3, <1>4, FrameInv

(* A check starts at the present moment.                                   *)
LEMMA StartInv ==
  ASSUME CacheInv, NEW c \in Calls, StartCheck(c)
  PROVE  CacheInv'
  <1>1. call[c] \in Call /\ now \in Nat /\ call[c].st = "ready"
    BY DEF StartCheck, CacheInv, TypeOK
  <1>2. PICK e \in BOOLEAN :
          call' = [call EXCEPT ![c].st = "checking", ![c].start = now, ![c].expired = e]
    BY Zenon DEF StartCheck
  <1> DEFINE r == [call[c] EXCEPT !.st = "checking", !.start = now, !.expired = e]
  <1>3. call' = [call EXCEPT ![c] = r]
    BY ONLY <1>2
  <1>4. r \in Call /\ r.probe = call[c].probe /\ r.start = now /\ r.st = "checking"
    BY <1>1 DEF Call, CallState
  <1>5. UNCHANGED <<now, cfg, last_result, cache_until>>
    BY DEF StartCheck
  <1> HIDE DEF r
  <1>6. r.st # "returned" /\ r.start \in Nat /\ r.start <= now
    BY <1>1, <1>4
  <1> QED
    BY <1>1, <1>3, <1>4, <1>5, <1>6, StepInv

(* The timer of a call marks it, and that is all.                          *)
LEMMA TimerInv ==
  ASSUME CacheInv, NEW c \in Calls, TimerFires(c)
  PROVE  CacheInv'
  <1> DEFINE r == [call[c] EXCEPT !.expired = TRUE]
  <1>1. call[c] \in Call /\ call[c].st = "checking" /\ CallInv(c)
    BY DEF TimerFires, CacheInv, TypeOK
  <1>2. call' = [call EXCEPT ![c] = r] /\ UNCHANGED <<now, cfg, last_result, cache_until>>
    BY DEF TimerFires
  <1>3. r \in Call /\ r.probe = call[c].probe /\ r.start = call[c].start /\ r.st = "checking"
    BY <1>1 DEF Call, CallState
  <1> HIDE DEF r
  <1> QED
    BY <1>1, <1>2, <1>3, StepInv DEF CallInv

(* What task.cancel() does to one call ends it without an answer or marks it.*)
LEMMA CancelledInv ==
  ASSUME CacheInv, NEW c \in Calls, CheckCancelled(c)
  PROVE  CacheInv'
  <1> DEFINE r == [call[c] EXCEPT !.st = "cancelled", !.end = now]
  <1>1. call[c] \in Call /\ call[c].st = "checking" /\ now \in Nat
    BY DEF CheckCancelled, CacheInv, TypeOK
  <1>2. call' = [call EXCEPT ![c] = r] /\ UNCHANGED <<now, cfg, last_result, cache_until>>
    BY DEF CheckCancelled
  <1>3. r \in Call /\ r.probe = call[c].probe /\ r.st = "cancelled"
    BY <1>1 DEF Call, CallState
  <1> HIDE DEF r
  <1> QED
    BY <1>1, <1>2, <1>3, StepInv

(* Cancelling any set of calls touches no answer and no entry.             *)
LEMMA CancelInv ==
  ASSUME CacheInv, NEW S \in SUBSET Calls, Cancel(S)
  PROVE  CacheInv'
  <1>1. /\ UNCHANGED <<now, cfg, last_result, cache_until>> /\ now \in Nat
        /\ call' = [c \in Calls |-> IF c \in S THEN CancelledCall(c) ELSE call[c]]
    BY DEF Cancel, CacheInv, TypeOK
  <1>2. ASSUME NEW c \in Calls
        PROVE  /\ call'[c] \in Call
               /\ CallInv(c)'
               /\ call[c].st = "returned" \/ call'[c].st = "returned"
                     => call'[c] = call[c]
    <2> call[c] \in Call /\ CallInv(c)
      BY DEF CacheInv, TypeOK
    <2>1. CASE call'[c] = call[c]
      BY <1>1, <2>1 DEF CallInv
    <2>2. CASE call[c].st = "ready" /\ call'[c] = [call[c] EXCEPT !.st = "cancelled", !.end = now]
      BY <1>1, <2>2 DEF CallInv, Call, CallState
    <2>3. CASE call[c].st = "checking" /\ call'[c] = [call[c] EXCEPT !.cancelled = TRUE]
      BY <1>1, <2>3 DEF CallInv, Call
    <2> QED
      BY <1>1, <2>1, <2>2, <2>3 DEF CancelledCall
  <1>3. TypeOK'
    BY <1>1, <1>2 DEF CacheInv, TypeOK
  <1> QED
    BY <1>1, <1>2, <1>3, FrameInv

-----------------------------------------------------------------------------
(* A fresh entry is served: it is within its TTL because now is before the *)
(* expiry that EntryInv ties to the check that wrote it.                   *)
LEMMA ServeInv ==
  ASSUME CacheInv, NEW c \in Calls, ServeCached(c)
  PROVE  CacheInv'
  <1> DEFINE p == call[c].probe
             r == last_result[p]
             served == [r EXCEPT !.cached = TRUE,
                                 !.allow_failure = cfg[p].allow_failure]
             done == [call[c] EXCEPT !.st = "returned", !.result = served, !.end = now]
  <1>1. /\ call[c] \in Call /\ call[c].st = "ready" /\ now \in Nat
        /\ p \in Probes /\ cfg[p] \in Configs
        /\ UNCHANGED <<now, cfg, last_result, cache_until>>
        /\ call' = [call EXCEPT ![c] = done]
    BY DEF ServeCached, CacheInv, CallInv, TypeOK
  <1>2. r \in Result /\ r # None /\ now < cache_until[p]
    BY <1>1 DEF ServeCached, Fresh, CacheInv, TypeOK
  <1>3. served \in Result /\ served.ok = r.ok
        /\ served.allow_failure = cfg[p].allow_failure
        /\ served.started_at = r.started_at /\ served.elapsed = r.elapsed
    BY <1>1, <1>2, ProbeAssumption DEF Result
  <1>4. done \in Call /\ done.st = "returned" /\ done.probe = p
        /\ done.result = served /\ done.end = now
    <2> HIDE DEF served
    <2> QED
      BY <1>1, <1>3 DEF Call, CallState
  <1> HIDE DEF served, done
  <1>5. call'[c] = done /\ \A d \in Calls : d # c => call'[d] = call[d]
    BY <1>1 DEF CacheInv, TypeOK
  <1>6. TypeOK'
    BY <1>1, <1>4 DEF CacheInv, TypeOK
  <1>7. /\ Ttl(p, r.ok) \in Nat /\ cfg[p] # None
        /\ now - (r.started_at + r.elapsed) < Ttl(p, r.ok)
    <2>1. r.started_at + r.elapsed \in Nat
      BY <1>2, ResultFields
    <2>2. /\ Ttl(p, r.ok) \in Nat /\ cfg[p] # None
          /\ cache_until[p] = r.started_at + r.elapsed + Ttl(p, r.ok)
      BY <1>1, <1>2 DEF CacheInv, EntryInv
    <2> HIDE DEF r, p
    <2> QED
      BY <1>1, <1>2, <2>1, <2>2
  <1>8. ASSUME NEW d \in Calls PROVE CallInv(d)' /\ ServedInv(d)' /\ NewestInv(d)'
    <2>1. CASE d = c
      <3> r.started_at + r.elapsed \in Nat
        BY <1>2, ResultFields
      <3> HIDE DEF p
      <3>1. CallInv(d)'
        BY <1>1, <1>3, <1>4, <1>5, <1>7, <2>1 DEF CallInv
      <3>2. ServedInv(d)'
        BY <1>1, <1>3, <1>4, <1>5, <1>7, <2>1 DEF ServedInv, Ttl
      <3>3. NewestInv(d)'
        BY <1>1, <1>2, <1>3, <1>4, <1>5, <2>1 DEF NewestInv
      <3> QED
        BY <3>1, <3>2, <3>3
    <2>2. CASE d # c
      BY <1>1, <1>5, <2>2 DEF CacheInv, CallInv, ServedInv, NewestInv, Ttl, UseCache
    <2> QED
      BY <2>1, <2>2
  <1>9. ASSUME NEW q \in Probes PROVE EntryInv(q)' /\ HeldInv(q)'
    <2>1. EntryInv(q)'
      BY <1>1 DEF CacheInv, EntryInv, UseCache, Ttl
    <2>2. HeldInv(q)'
      BY <1>1, <1>5 DEF CacheInv, HeldInv
    <2> QED
      BY <2>1, <2>2
  <1> QED
    BY <1>6, <1>8, <1>9 DEF CacheInv

-----------------------------------------------------------------------------
(* The end of a check: its result ended now, so if it is stored it is at   *)
(* least as new as anything a call has returned.                           *)
LEMMA NewResultFacts ==
  ASSUME CacheInv, NEW c \in Calls, call[c].st = "checking",
         NEW ok \in BOOLEAN, NEW error \in {"exception", "probe timeout", None}
  PROVE  LET r == NewResult(c, ok, error)
         IN  /\ r \in Result /\ r.ok = ok /\ r.cached # TRUE
             /\ r.started_at + r.elapsed = now
             /\ r.allow_failure = cfg[call[c].probe].allow_failure
  <1> DEFINE p == call[c].probe
  <1>1. /\ p \in Probes /\ cfg[p] \in Configs
        /\ call[c].start \in Nat /\ call[c].start <= now /\ now \in Nat
    BY DEF CacheInv, CallInv, TypeOK
  <1>2. PICK s \in Nat : s = call[c].start /\ s <= now
    BY <1>1
  <1>3. PICK cached \in {FALSE, None} : cached = IF UseCache(p) THEN FALSE ELSE None
    OBVIOUS
  <1>4. PICK allow \in BOOLEAN : allow = cfg[p].allow_failure
    BY <1>1, ProbeAssumption
  <1>5. PICK e \in Nat : e = now - s /\ s + e = now
    BY <1>1, <1>2, Difference
  <1>6. PICK r : r = NewResult(c, ok, error)
    OBVIOUS
  <1>7. r = [ok |-> ok, error |-> error, cached |-> cached,
             started_at |-> s, elapsed |-> e, allow_failure |-> allow]
    BY <1>2, <1>3, <1>4, <1>5, <1>6 DEF NewResult
  <1>8. cached # TRUE /\ cached \in BOOLEAN \cup {None}
    BY <1>3, ProbeAssumption
  <1>9. r \in Result /\ r.ok = ok /\ r.cached = cached /\ r.started_at = s /\ r.elapsed = e
        /\ r.allow_failure = allow
    BY <1>7, <1>8 DEF Result
  <1> QED
    BY <1>4, <1>5, <1>6, <1>8, <1>9

(* run_check returns a result of its own: the cache may or may not take it.*)
LEMMA AnswerInv ==
  ASSUME CacheInv, NEW c \in Calls, call[c].st = "checking",
         NEW r \in Result, r.cached # TRUE, r.started_at + r.elapsed = now,
         r.allow_failure = cfg[call[c].probe].allow_failure,
         call' = [call EXCEPT ![c].st = "returned", ![c].result = r, ![c].end = now],
         Store(call[c].probe, r), UNCHANGED <<now, cfg>>
  PROVE  CacheInv'
  <1> DEFINE p == call[c].probe
             done == [call[c] EXCEPT !.st = "returned", !.result = r, !.end = now]
  <1>0. now \in Nat
    BY DEF CacheInv, TypeOK
  <1>1. /\ call[c] \in Call /\ r.allow_failure = cfg[p].allow_failure
        /\ p \in Probes /\ cfg[p] \in Configs /\ cfg[p] # None
        /\ call' = [call EXCEPT ![c] = done]
    BY DEF CacheInv, CallInv, TypeOK
  <1>2. done \in Call /\ done.st = "returned" /\ done.probe = p
        /\ done.result = r /\ done.end = now
    BY <1>0, <1>1 DEF Call, CallState
  <1> HIDE DEF done
  <1>3. call'[c] = done /\ \A d \in Calls : d # c => call'[d] = call[d]
    BY <1>1 DEF CacheInv, TypeOK
  <1>4. call' \in [Calls -> Call]
    BY <1>1, <1>2 DEF CacheInv, TypeOK
  <1>5. ASSUME NEW d \in Calls PROVE CallInv(d)' /\ ServedInv(d)'
    <2>1. CASE d = c
      <3> HIDE DEF p
      <3> QED
        BY <1>0, <1>1, <1>2, <1>3, <2>1 DEF CallInv, ServedInv
    <2>2. CASE d # c
      BY <1>1, <1>3, <2>2 DEF CacheInv, CallInv, ServedInv, Ttl
    <2> QED
      BY <2>1, <2>2
  <1>6. ASSUME NEW q \in Probes, last_result'[q] = last_result[q]
        PROVE  HeldInv(q)'
    <2> SUFFICES ASSUME last_result[q] # None PROVE HeldInv(q)'
      BY <1>6 DEF HeldInv
    <2>1. PICK d \in Calls : call[d].st = "returned" /\ call[d].probe = q
                              /\ call[d].result = last_result[q]
      BY DEF CacheInv, HeldInv
    <2>2. call'[d] = call[d]
      BY <1>1, <1>3, <2>1
    <2> QED
      BY <1>6, <2>1, <2>2 DEF HeldInv
  <1>7. CASE UseCache(p) /\ Ttl(p, r.ok) # None
    <2>1. PICK ttl \in Nat : ttl = Ttl(p, r.ok)
      BY <1>1, <1>7, ProbeAssumption, ResultFields DEF Ttl
    <2>2. /\ last_result' = [last_result EXCEPT ![p] = r]
          /\ cache_until' = [cache_until EXCEPT ![p] = now + ttl]
      BY <1>1, <1>7, <2>1 DEF Store
    <2>3. TypeOK'
      <3>1. last_result' \in [Probes -> Result \cup {None}]
        BY <2>2 DEF CacheInv, TypeOK
      <3>2. cache_until' \in [Probes -> Nat \cup {None}]
        <4>1. now + ttl \in Nat
          BY <1>0, <2>1
        <4> QED
          BY <2>2, <4>1 DEF CacheInv, TypeOK
      <3> QED
        BY <1>1, <1>4, <3>1, <3>2 DEF CacheInv, TypeOK
    <2>4. /\ last_result'[p] = r /\ cache_until'[p] = now + ttl
          /\ \A q \in Probes : q # p => /\ last_result'[q] = last_result[q]
                                       /\ cache_until'[q] = cache_until[q]
      BY <1>1, <2>2 DEF CacheInv, TypeOK
    <2>5. ASSUME NEW q \in Probes PROVE EntryInv(q)' /\ HeldInv(q)'
      <3>1. CASE q = p
        <4>1. EntryInv(q)'
          <5>1. UseCache(q)' /\ (Ttl(q, r.ok))' = ttl
            BY <1>1, <1>7, <2>1, <2>2, <3>1 DEF UseCache, Ttl
          <5>2. /\ last_result'[q] = r /\ cache_until'[q] = now + ttl
                /\ cfg'[q] # None /\ now' = now
            BY <1>1, <2>4, <3>1
          <5>3. r.allow_failure = cfg'[q].allow_failure
            BY <3>1
          <5> QED
            BY <1>0, <2>1, <5>1, <5>2, <5>3 DEF EntryInv
        <4>2. HeldInv(q)'
          BY <1>2, <1>3, <2>4, <3>1 DEF HeldInv
        <4> QED
          BY <4>1, <4>2
      <3>2. CASE q # p
        <4>1. EntryInv(q)'
          BY <1>1, <2>4, <3>2 DEF CacheInv, EntryInv, UseCache, Ttl
        <4>2. HeldInv(q)'
          BY <1>6, <2>4, <3>2
        <4> QED
          BY <4>1, <4>2
      <3> QED
        BY <3>1, <3>2
    <2>6. ASSUME NEW d \in Calls PROVE NewestInv(d)'
      <3> SUFFICES ASSUME (call[d].st = "returned")', UseCache(call[d].probe)',
                          (Ttl(call[d].probe, call[d].result.ok) # None)'
                   PROVE  LET q == call'[d].probe
                          IN  /\ last_result'[q] # None
                              /\ last_result'[q].started_at + last_result'[q].elapsed
                                   >= call'[d].result.started_at + call'[d].result.elapsed
        BY DEF NewestInv
      <3> r # None
        BY NoneAssumption
      <3>1. CASE d = c
        BY <1>0, <1>2, <1>3, <2>4, <3>1
      <3>2. CASE d # c /\ call[d].probe # p
        <4>1. call[d].probe \in Probes /\ call'[d] = call[d]
          BY <1>3, <3>2 DEF CacheInv, CallInv
        <4> QED
          BY <1>1, <2>4, <3>2, <4>1 DEF CacheInv, NewestInv, UseCache, Ttl
      <3>3. CASE d # c /\ call[d].probe = p
        <4>1. call'[d] = call[d]
          BY <1>3, <3>3
        <4>2. /\ last_result[p] # None
              /\ last_result[p].started_at + last_result[p].elapsed
                   >= call[d].result.started_at + call[d].result.elapsed
          BY <3>3, <4>1 DEF CacheInv, NewestInv, UseCache, Ttl
        <4>3. last_result[p].started_at + last_result[p].elapsed <= now
          BY <1>1, <4>2 DEF CacheInv, EntryInv
        <4>4. last_result[p].started_at + last_result[p].elapsed \in Nat
          BY <1>1, <4>2, ResultFields DEF CacheInv, TypeOK
        <4>5. call[d].result.started_at + call[d].result.elapsed \in Nat
          BY <4>1, ResultFields DEF CacheInv, CallInv
        <4>6. call[d].result.started_at + call[d].result.elapsed <= now
          BY <1>0, <4>2, <4>3, <4>4, <4>5
        <4> QED
          BY <1>0, <2>4, <3>3, <4>1, <4>5, <4>6
      <3> QED
        BY <3>1, <3>2, <3>3
    <2> QED
      BY <1>5, <2>3, <2>5, <2>6 DEF CacheInv
  <1>8. CASE ~(UseCache(p) /\ Ttl(p, r.ok) # None)
    <2>1. UNCHANGED <<last_result, cache_until>>
      BY <1>1, <1>8 DEF Store
    <2>2. TypeOK'
      BY <1>1, <1>4, <2>1 DEF CacheInv, TypeOK
    <2>3. ASSUME NEW q \in Probes PROVE EntryInv(q)' /\ HeldInv(q)'
      <3>1. EntryInv(q)'
        BY <1>1, <2>1 DEF CacheInv, EntryInv, UseCache, Ttl
      <3> QED
        BY <1>6, <2>1, <3>1
    <2>4. ASSUME NEW d \in Calls PROVE NewestInv(d)'
      <3>1. CASE d = c
        BY <1>1, <1>2, <1>3, <1>8, <3>1 DEF NewestInv, UseCache, Ttl
      <3>2. CASE d # c
        BY <1>1, <1>3, <2>1, <3>2 DEF CacheInv, NewestInv, UseCache, Ttl
      <3> QED
        BY <3>1, <3>2
    <2> QED
      BY <1>5, <2>2, <2>3, <2>4 DEF CacheInv
  <1> QED
    BY <1>7, <1>8

(* The end of a check that was not cancelled, however its body ended.      *)
LEMMA FinishInv ==
  ASSUME CacheInv, NEW c \in Calls,
         NEW ok \in BOOLEAN, NEW error \in {"exception", "probe timeout", None},
         Finish(c, ok, error)
  PROVE  CacheInv'
  <1>1. PICK r : r = NewResult(c, ok, error)
    OBVIOUS
  <1>2. /\ call[c].st = "checking"
        /\ call' = [call EXCEPT ![c].st = "returned", ![c].result = r, ![c].end = now]
        /\ Store(call[c].probe, r) /\ UNCHANGED <<now, cfg>>
    BY <1>1 DEF Finish
  <1>3. r \in Result /\ r.cached # TRUE /\ r.started_at + r.elapsed = now
        /\ r.allow_failure = cfg[call[c].probe].allow_failure
    BY <1>1, <1>2, NewResultFacts
  <1> HIDE DEF Finish
  <1> QED
    BY <1>2, <1>3, AnswerInv

-----------------------------------------------------------------------------
(* Every step of run_check and of its callers keeps CacheInv.              *)
LEMMA NextCacheInv == CacheInv /\ [Next]_vars => CacheInv'
  <1> SUFFICES ASSUME CacheInv, [Next]_vars PROVE CacheInv'
    OBVIOUS
  <1>1. ASSUME NEW p \in Probes, NEW conf \in Configs, Construct(p, conf)
        PROVE  CacheInv'
    BY <1>1, ConstructInv
  <1>2. ASSUME NEW S \in SUBSET Calls, NEW of \in [S -> Probes], Create(of)
        PROVE  CacheInv'
    BY <1>2, CreateInv
  <1>3. ASSUME NEW c \in Calls, CallStep(c)
        PROVE  CacheInv'
    <2>1. CASE ServeCached(c)
      BY <2>1, ServeInv
    <2>2. CASE StartCheck(c)
      BY <2>2, StartInv
    <2>3. CASE TimerFires(c)
      BY <2>3, TimerInv
    <2>4. CASE CheckCancelled(c)
      BY <2>4, CancelledInv
    <2>5. ASSUME NEW ok \in BOOLEAN, CheckAnswers(c, ok)
          PROVE  CacheInv'
      BY <2>5, FinishInv DEF CheckAnswers
    <2>6. CASE CheckRaises(c)
      BY <2>6, FinishInv DEF CheckRaises
    <2>7. CASE CheckRaisesTimeout(c)
      BY <2>7, FinishInv DEF CheckRaisesTimeout
    <2>8. CASE CheckTimesOut(c)
      BY <2>8, FinishInv DEF CheckTimesOut
    <2> QED
      BY <1>3, <2>1, <2>2, <2>3, <2>4, <2>5, <2>6, <2>7, <2>8 DEF CallStep, CheckEnds
  <1>4. ASSUME NEW S \in SUBSET Calls, Cancel(S)
        PROVE  CacheInv'
    BY <1>4, CancelInv
  <1>5. CASE Tick
    BY <1>5, TickInv
  <1>6. CASE UNCHANGED vars
    BY <1>6, FrameInv DEF vars, CacheInv, TypeOK, CallInv
  <1> QED
    BY <1>1, <1>2, <1>3, <1>4, <1>5, <1>6 DEF Next

(* CacheInv holds in every reachable state.                                *)
THEOREM CacheInvariant == Spec => []CacheInv
  BY InitCacheInv, NextCacheInv, PTL DEF Spec

(* Every variable of run_check keeps its type.                             *)
THEOREM TypeCorrect == Spec => []TypeOK
  <1>1. CacheInv => TypeOK
    BY DEF CacheInv
  <1> QED
    BY <1>1, CacheInvariant, PTL

(* A cached entry expires exactly one TTL, that of its own outcome, after  *)
(* the check it reports on ended.                                          *)
THEOREM CacheIsCoherent == Spec => []CacheCoherent
  <1>1. CacheInv => CacheCoherent
    BY ProbeAssumption DEF CacheInv, EntryInv, CacheCoherent
  <1> QED
    BY <1>1, CacheInvariant, PTL

(* No caller is handed a cached result older than the TTL of its outcome.  *)
THEOREM NoStaleAnswer == Spec => []ServedWithinTtl
  <1>1. CacheInv => ServedWithinTtl
    BY ProbeAssumption DEF CacheInv, ServedInv, ServedWithinTtl
  <1> QED
    BY <1>1, CacheInvariant, PTL

(* Overlapping calls never replace a cached result by an older one.        *)
THEOREM NewestWins == Spec => []NewestResultCached
  <1>1. CacheInv => NewestResultCached
    BY DEF CacheInv, NewestInv, NewestResultCached
  <1> QED
    BY <1>1, CacheInvariant, PTL

(* What is cached was returned by a call of the same probe: a cancelled    *)
(* check leaves nothing.                                                   *)
THEOREM CacheHasAnAuthor == Spec => []CacheHoldsAnAnswer
  <1>1. CacheInv => CacheHoldsAnAnswer
    BY DEF CacheInv, HeldInv, CacheHoldsAnAnswer
  <1> QED
    BY <1>1, CacheInvariant, PTL

-----------------------------------------------------------------------------
(* run_check implements ProbeContract: each step maps to a step of the     *)
(* contract or to a stutter.  Only two steps take an argument: a tick,     *)
(* where the contract forgets exactly the entries that _cache_until makes  *)
(* stale, and the end of a check, where a TTL of 0 makes it forget at once.*)

(* The initial states map to initial states of the contract.               *)
LEMMA InitImplements == Init => Contract!ContractInit
  BY DEF Init, Contract!ContractInit, memo, req, Fresh, NoCall, NewCall,
         ContractStatus, Contract!NoRequest, Contract!Request

(* A fresh entry is remembered, and only that.                             *)
LEMMA MemoIsFresh ==
  ASSUME CacheInv, NEW p \in Probes
  PROVE  /\ memo[p] # None <=> Fresh(p)
         /\ memo[p] # None => memo[p] = last_result[p]
  BY DEF memo, Fresh

(* A step that leaves the cache and the clock alone leaves the memory alone.*)
LEMMA MemoFrame ==
  ASSUME UNCHANGED <<now, last_result, cache_until>>
  PROVE  memo' = memo
  BY DEF memo, Fresh

(* The request a call stands for.                                          *)
Mapped(r) == [st     |-> ContractStatus(r.st),
              probe  |-> r.probe,
              since  |-> r.start,
              result |-> r.result]

(* The request a call maps to, before and after a step.                    *)
LEMMA ReqIs ==
  ASSUME NEW c \in Calls
  PROVE  req[c] = Mapped(call[c]) /\ req'[c] = Mapped(call'[c])
  BY DEF req, Mapped

(* The cases of ContractStatus.                                            *)
LEMMA StatusIs ==
  /\ ContractStatus("idle") = "idle"
  /\ ContractStatus("ready") = "asked"
  /\ ContractStatus("checking") = "busy"
  /\ ContractStatus("returned") = "answered"
  /\ ContractStatus("cancelled") = "dropped"
  BY DEF ContractStatus

(* A constructor makes a probe appear that remembers nothing.              *)
LEMMA ConstructImplements ==
  ASSUME CacheInv, NEW p \in Probes, NEW conf \in Configs, Construct(p, conf)
  PROVE  Contract!Appear(p, conf)
  <1>1. memo' = memo
    BY MemoFrame DEF Construct
  <1>2. req' = req
    BY DEF Construct, req
  <1> QED
    BY <1>1, <1>2 DEF Construct, Contract!Appear

(* Creating tasks asks for as many answers.                                *)
LEMMA CreateImplements ==
  ASSUME CacheInv, NEW S \in SUBSET Calls, NEW of \in [S -> Probes], Create(of)
  PROVE  Contract!Ask(of)
  <1>1. memo' = memo
    BY MemoFrame DEF Create
  <1>2. ASSUME NEW c \in S
        PROVE  req[c].st = "idle" /\ cfg[of[c]] # None
    <2>1. call[c].st = "idle" /\ cfg[of[c]] # None
      BY DEF Create
    <2> QED
      BY <2>1, StatusIs DEF req
  <1>3. ASSUME NEW c \in Calls
        PROVE  req'[c] = IF c \in S THEN Contract!Request("asked", of[c]) ELSE req[c]
    <2>1. CASE c \in S
      <3>1. call'[c] = ReadyCall(of[c])
        BY <2>1 DEF Create
      <3>2. /\ call'[c].st = "ready" /\ call'[c].probe = of[c]
            /\ call'[c].start = None /\ call'[c].result = None
        BY <3>1 DEF ReadyCall, NewCall
      <3>3. req'[c] = [st |-> "asked", probe |-> of[c], since |-> None, result |-> None]
        BY <3>2, StatusIs DEF req
      <3> QED
        BY <2>1, <3>3 DEF Contract!Request
    <2>2. CASE c \notin S
      BY <2>2 DEF Create, req
    <2> QED
      BY <2>1, <2>2
  <1>4. req' = [c \in Calls |->
                  IF c \in S THEN Contract!Request("asked", of[c]) ELSE req[c]]
    BY <1>3 DEF req
  <1> QED
    BY <1>1, <1>2, <1>4 DEF Create, Contract!Ask

-----------------------------------------------------------------------------
(* Steps of one call.                                                      *)
LEMMA StepReq ==
  ASSUME CacheInv, NEW c \in Calls, NEW r, call' = [call EXCEPT ![c] = r]
  PROVE  req' = [req EXCEPT ![c] = Mapped(r)]
  <1>1. call'[c] = r /\ \A d \in Calls : d # c => call'[d] = call[d]
    BY DEF CacheInv, TypeOK
  <1> QED
    BY <1>1 DEF req, Mapped

(* Serving from the cache is recalling what the probe remembers.           *)
LEMMA ServeImplements ==
  ASSUME CacheInv, NEW c \in Calls, ServeCached(c)
  PROVE  Contract!Recall(c)
  <1> DEFINE p == call[c].probe
             served == [last_result[p] EXCEPT !.cached = TRUE,
                                              !.allow_failure = cfg[p].allow_failure]
             done == [call[c] EXCEPT !.st = "returned", !.result = served, !.end = now]
  <1>1. /\ call[c] \in Call /\ call[c].st = "ready" /\ p \in Probes /\ Fresh(p)
        /\ UNCHANGED <<now, cfg, last_result, cache_until>>
        /\ call' = [call EXCEPT ![c] = done]
    BY DEF ServeCached, CacheInv, CallInv, TypeOK
  <1>2. memo[p] = last_result[p] /\ memo[p] # None /\ memo' = memo
    BY <1>1, MemoIsFresh, MemoFrame DEF Fresh
  <1>3. last_result[p] \in Result /\ last_result[p].allow_failure = cfg[p].allow_failure
    BY <1>1 DEF CacheInv, TypeOK, EntryInv, Fresh
  <1>4. served = [last_result[p] EXCEPT !.cached = TRUE]
    BY <1>3 DEF Result
  <1> HIDE DEF served
  <1>5. done.st = "returned" /\ done.probe = p /\ done.result = served
        /\ done.start = call[c].start
    BY <1>1 DEF Call
  <1> HIDE DEF done
  <1>6. req' = [req EXCEPT ![c] = Mapped(done)]
    BY <1>1, StepReq
  <1>7. req[c].st = "asked" /\ req[c].probe = p
    BY <1>1, StatusIs DEF req
  <1>8. Mapped(done) = [req[c] EXCEPT !.st = "answered", !.result = served]
    <2>1. Mapped(done) = [st |-> "answered", probe |-> p, since |-> call[c].start,
                          result |-> served]
      BY <1>5, StatusIs DEF Mapped
    <2>2. req[c] = [st |-> ContractStatus(call[c].st), probe |-> p,
                    since |-> call[c].start, result |-> call[c].result]
      BY DEF req
    <2> HIDE DEF p
    <2>3. [req[c] EXCEPT !.st = "answered"]
            = [st |-> "answered", probe |-> p, since |-> call[c].start,
               result |-> call[c].result]
      BY <2>2
    <2>4. [[st |-> "answered", probe |-> p, since |-> call[c].start,
            result |-> call[c].result] EXCEPT !.result = served]
            = [st |-> "answered", probe |-> p, since |-> call[c].start, result |-> served]
      OBVIOUS
    <2> QED
      BY <2>1, <2>3, <2>4
  <1>9. req' = [req EXCEPT ![c].st = "answered", ![c].result = served]
    BY <1>6, <1>8
  <1> QED
    BY <1>1, <1>2, <1>4, <1>7, <1>9 DEF Contract!Recall

(* A check starts only if its probe remembers nothing.                     *)
LEMMA StartImplements ==
  ASSUME CacheInv, NEW c \in Calls, StartCheck(c)
  PROVE  Contract!Begin(c)
  <1>1. PICK e : call' = [call EXCEPT ![c].st = "checking", ![c].start = now,
                                      ![c].expired = e]
    BY Zenon DEF StartCheck
  <1> DEFINE r == [call[c] EXCEPT !.st = "checking", !.start = now, !.expired = e]
  <1>2. call' = [call EXCEPT ![c] = r]
    BY ONLY <1>1
  <1>3. /\ call[c] \in Call /\ call[c].st = "ready" /\ ~Fresh(call[c].probe)
        /\ call[c].probe \in Probes
        /\ UNCHANGED <<now, cfg, last_result, cache_until>>
    BY DEF StartCheck, CacheInv, CallInv, TypeOK
  <1>4. r.st = "checking" /\ r.start = now /\ r.probe = call[c].probe
        /\ r.result = call[c].result
    BY <1>3 DEF Call
  <1> HIDE DEF r
  <1>5. req' = [req EXCEPT ![c] = Mapped(r)]
    BY <1>2, StepReq
  <1>6. Mapped(r) = [req[c] EXCEPT !.st = "busy", !.since = now]
    <2>1. Mapped(r) = [st |-> "busy", probe |-> call[c].probe, since |-> now,
                       result |-> call[c].result]
      BY <1>4, StatusIs DEF Mapped
    <2>2. req[c] = [st |-> ContractStatus(call[c].st), probe |-> call[c].probe,
                    since |-> call[c].start, result |-> call[c].result]
      BY DEF req
    <2>3. [req[c] EXCEPT !.st = "busy"]
            = [st |-> "busy", probe |-> call[c].probe, since |-> call[c].start,
               result |-> call[c].result]
      BY <2>2
    <2>4. [[st |-> "busy", probe |-> call[c].probe, since |-> call[c].start,
            result |-> call[c].result] EXCEPT !.since = now]
            = [st |-> "busy", probe |-> call[c].probe, since |-> now,
               result |-> call[c].result]
      OBVIOUS
    <2> QED
      BY <2>1, <2>3, <2>4
  <1>7. req[c].st = "asked" /\ req[c].probe = call[c].probe
    BY <1>3, StatusIs DEF req
  <1>8. memo[call[c].probe] = None /\ memo' = memo
    BY <1>3, MemoIsFresh, MemoFrame
  <1>9. req' = [req EXCEPT ![c].st = "busy", ![c].since = now]
    BY <1>5, <1>6
  <1> QED
    BY <1>3, <1>7, <1>8, <1>9 DEF Contract!Begin

(* A timer is no step of the contract.                                     *)
LEMMA TimerStutters ==
  ASSUME CacheInv, NEW c \in Calls, TimerFires(c)
  PROVE  UNCHANGED <<now, cfg, memo, req>>
  <1> DEFINE r == [call[c] EXCEPT !.expired = TRUE]
  <1>1. call[c] \in Call /\ call' = [call EXCEPT ![c] = r]
        /\ UNCHANGED <<now, cfg, last_result, cache_until>>
    BY DEF TimerFires, CacheInv, TypeOK
  <1>2. r.st = call[c].st /\ r.probe = call[c].probe
        /\ r.start = call[c].start /\ r.result = call[c].result
    BY <1>1 DEF Call
  <1> HIDE DEF r
  <1>3. req' = [req EXCEPT ![c] = Mapped(r)]
    BY <1>1, StepReq
  <1>4. Mapped(r) = req[c]
    BY <1>2 DEF Mapped, req
  <1>5. req' = req
    BY <1>3, <1>4 DEF req
  <1> QED
    BY <1>1, <1>5, MemoFrame

(* A check that ends cancelled gives its request up.                       *)
LEMMA CancelledImplements ==
  ASSUME CacheInv, NEW c \in Calls, CheckCancelled(c)
  PROVE  Contract!GiveUp({c})
  <1>1. /\ UNCHANGED <<now, cfg, last_result, cache_until>>
        /\ call[c].st = "checking"
    BY DEF CheckCancelled
  <1>2. /\ call'[c].st = "cancelled" /\ call'[c].probe = call[c].probe
        /\ call'[c].start = call[c].start /\ call'[c].result = call[c].result
    BY DEF CheckCancelled, CacheInv, TypeOK, Call
  <1>3. \A d \in Calls : d # c => call'[d] = call[d]
    BY DEF CheckCancelled, CacheInv, TypeOK
  <1>4. req'[c] = [req[c] EXCEPT !.st = "dropped"]
    <2>1. req'[c] = [st |-> "dropped", probe |-> call[c].probe,
                     since |-> call[c].start, result |-> call[c].result]
      BY <1>2, StatusIs DEF req
    <2>2. req[c] = [st |-> ContractStatus(call[c].st), probe |-> call[c].probe,
                    since |-> call[c].start, result |-> call[c].result]
      BY DEF req
    <2>3. [req[c] EXCEPT !.st = "dropped"]
            = [st |-> "dropped", probe |-> call[c].probe, since |-> call[c].start,
               result |-> call[c].result]
      BY <2>2
    <2> QED
      BY <2>1, <2>3
  <1>5. req' = [d \in Calls |-> IF d \in {c} THEN [req[d] EXCEPT !.st = "dropped"]
                                            ELSE req[d]]
    BY <1>3, <1>4 DEF req
  <1>6. req[c].st = "busy"
    BY <1>1, StatusIs DEF req
  <1> QED
    BY <1>1, <1>5, <1>6, MemoFrame DEF Contract!GiveUp

(* Only the tasks that had not started are given up at once.               *)
LEMMA CancelImplements ==
  ASSUME CacheInv, NEW S \in SUBSET Calls, Cancel(S)
  PROVE  Contract!GiveUp({c \in S : call[c].st = "ready"})
  <1> DEFINE R == {c \in S : call[c].st = "ready"}
  <1>1. UNCHANGED <<now, cfg, last_result, cache_until>>
    BY DEF Cancel
  <1>2. ASSUME NEW c \in Calls
        PROVE  req'[c] = IF c \in R THEN [req[c] EXCEPT !.st = "dropped"] ELSE req[c]
    <2> call[c] \in Call
      BY DEF CacheInv, TypeOK
    <2>1. call'[c] = IF c \in S THEN CancelledCall(c) ELSE call[c]
      BY DEF Cancel
    <2>2. CASE c \in R
      <3>1. call'[c] = [call[c] EXCEPT !.st = "cancelled", !.end = now]
        BY <2>1, <2>2 DEF CancelledCall
      <3>2. /\ call'[c].st = "cancelled" /\ call'[c].probe = call[c].probe
            /\ call'[c].start = call[c].start /\ call'[c].result = call[c].result
        BY <3>1 DEF Call
      <3> QED
        BY <2>2, <3>2, StatusIs DEF req
    <2>3. CASE c \notin R
      <3>1. \/ call'[c] = call[c]
            \/ call'[c] = [call[c] EXCEPT !.cancelled = TRUE]
        BY <2>1, <2>3 DEF CancelledCall
      <3>2. /\ call'[c].st = call[c].st /\ call'[c].probe = call[c].probe
            /\ call'[c].start = call[c].start /\ call'[c].result = call[c].result
        BY <3>1 DEF Call
      <3> QED
        BY <2>3, <3>2 DEF req
    <2> QED
      BY <2>2, <2>3
  <1>3. req' = [c \in Calls |-> IF c \in R THEN [req[c] EXCEPT !.st = "dropped"]
                                         ELSE req[c]]
    BY <1>2 DEF req
  <1>4. \A c \in R : req[c].st = "asked"
    BY StatusIs DEF req
  <1> QED
    BY <1>1, <1>3, <1>4, MemoFrame DEF Contract!GiveUp

(* As time passes, exactly the entries that expire are forgotten.          *)
LEMMA TickImplements ==
  ASSUME CacheInv, Tick
  PROVE  Contract!Pass
  <1>1. now \in Nat /\ now' = now + 1 /\ UNCHANGED <<cfg, last_result, cache_until, call>>
    BY DEF Tick, CacheInv, TypeOK
  <1>2. req' = req
    BY <1>1 DEF req
  <1>3. ASSUME NEW p \in Probes
        PROVE  memo'[p] = IF memo[p] # None /\ Contract!Remembers(p, memo[p], now + 1)
                          THEN memo[p] ELSE None
    <2>1. CASE ~Fresh(p)
      <3>1. memo[p] = None
        BY <2>1 DEF memo
      <3>2. ~Fresh(p)'
        <4>1. last_result[p] # None => cache_until[p] \in Nat
          BY DEF CacheInv, EntryInv
        <4> QED
          BY <1>1, <2>1, <4>1 DEF Fresh
      <3> QED
        BY <3>1, <3>2 DEF memo
    <2>2. CASE Fresh(p)
      <3>1. memo[p] = last_result[p] /\ last_result[p] # None
        BY <2>2 DEF memo, Fresh
      <3>2. Contract!Lifetime(p, last_result[p].ok) = Ttl(p, last_result[p].ok)
        BY DEF Contract!Lifetime, Ttl
      <3>3. Contract!Remembers(p, memo[p], now + 1) <=> now + 1 < cache_until[p]
        BY <3>1, <3>2 DEF Contract!Remembers, CacheInv, EntryInv
      <3>4. Fresh(p)' <=> now + 1 < cache_until[p]
        BY <1>1, <3>1 DEF Fresh
      <3> QED
        BY <1>1, <3>1, <3>3, <3>4 DEF memo
    <2> QED
      BY <2>1, <2>2
  <1>4. memo' = [p \in Probes |->
                   IF memo[p] # None /\ Contract!Remembers(p, memo[p], now + 1)
                   THEN memo[p] ELSE None]
    BY <1>3 DEF memo
  <1> QED
    BY <1>1, <1>2, <1>4 DEF Contract!Pass

-----------------------------------------------------------------------------
(* The end of a check.                                                     *)
LEMMA AnswerMemo ==
  ASSUME CacheInv, NEW p \in Probes, cfg[p] # None,
         NEW r \in Result, Store(p, r), UNCHANGED <<now, cfg>>
  PROVE  memo' = IF ~Contract!Memorises(p) \/ Contract!Lifetime(p, r.ok) = None
                 THEN memo
                 ELSE [memo EXCEPT ![p] =
                         IF Contract!Lifetime(p, r.ok) = 0 THEN None ELSE r]
  <1>1. Contract!Memorises(p) <=> UseCache(p)
    BY DEF Contract!Memorises, UseCache
  <1>2. Contract!Lifetime(p, r.ok) = Ttl(p, r.ok)
    BY DEF Contract!Lifetime, Ttl
  <1>3. CASE ~UseCache(p) \/ Ttl(p, r.ok) = None
    BY <1>1, <1>2, <1>3, MemoFrame DEF Store
  <1>4. CASE UseCache(p) /\ Ttl(p, r.ok) # None
    <2>1. now \in Nat
      BY DEF CacheInv, TypeOK
    <2>2. PICK ttl \in Nat : ttl = Ttl(p, r.ok)
      BY <1>4, ProbeAssumption, ResultFields DEF Ttl, CacheInv, TypeOK
    <2>3. /\ last_result' = [last_result EXCEPT ![p] = r]
          /\ cache_until' = [cache_until EXCEPT ![p] = now + ttl]
      BY <1>4, <2>2 DEF Store
    <2>4. \A q \in Probes : q # p => memo'[q] = memo[q]
      BY <2>3 DEF CacheInv, TypeOK, memo, Fresh
    <2>5. last_result'[p] = r /\ cache_until'[p] = now + ttl
      BY <2>3 DEF CacheInv, TypeOK
    <2>6. r # None
      BY NoneAssumption
    <2>7. Fresh(p)' <=> ttl # 0
      BY <2>1, <2>5, <2>6 DEF Fresh
    <2>8. memo'[p] = IF ttl = 0 THEN None ELSE r
      BY <2>5, <2>7 DEF memo
    <2>9. memo' = [memo EXCEPT ![p] = IF ttl = 0 THEN None ELSE r]
      BY <2>4, <2>8 DEF memo
    <2> QED
      BY <1>1, <1>2, <1>4, <2>2, <2>9
  <1> QED
    BY <1>3, <1>4

(* The request of a call that returns a result is answered with it.        *)
LEMMA AnswerReq ==
  ASSUME CacheInv, NEW c \in Calls, NEW r,
         call' = [call EXCEPT ![c].st = "returned", ![c].result = r, ![c].end = now]
  PROVE  req' = [req EXCEPT ![c].st = "answered", ![c].result = r]
  <1> DEFINE done == [call[c] EXCEPT !.st = "returned", !.result = r, !.end = now]
  <1>1. call[c] \in Call /\ call' = [call EXCEPT ![c] = done]
    BY DEF CacheInv, TypeOK
  <1>2. done.st = "returned" /\ done.probe = call[c].probe
        /\ done.start = call[c].start /\ done.result = r
    BY <1>1 DEF Call
  <1> HIDE DEF done
  <1>3. req' = [req EXCEPT ![c] = Mapped(done)]
    BY <1>1, StepReq
  <1>4. Mapped(done) = [req[c] EXCEPT !.st = "answered", !.result = r]
    <2>1. Mapped(done) = [st |-> "answered", probe |-> call[c].probe,
                          since |-> call[c].start, result |-> r]
      BY <1>2, StatusIs DEF Mapped
    <2>2. req[c] = [st |-> ContractStatus(call[c].st), probe |-> call[c].probe,
                    since |-> call[c].start, result |-> call[c].result]
      BY DEF req
    <2>3. [req[c] EXCEPT !.st = "answered"]
            = [st |-> "answered", probe |-> call[c].probe, since |-> call[c].start,
               result |-> call[c].result]
      BY <2>2
    <2>4. [[st |-> "answered", probe |-> call[c].probe, since |-> call[c].start,
            result |-> call[c].result] EXCEPT !.result = r]
            = [st |-> "answered", probe |-> call[c].probe, since |-> call[c].start,
               result |-> r]
      OBVIOUS
    <2> QED
      BY <2>1, <2>3, <2>4
  <1> QED
    BY <1>3, <1>4

(* The end of a check answers its request.                                 *)
LEMMA FinishImplements ==
  ASSUME CacheInv, NEW c \in Calls,
         NEW ok \in BOOLEAN, NEW error \in {"exception", "probe timeout", None},
         error # None => ~ok,
         Finish(c, ok, error)
  PROVE  Contract!Answer(c, ok, error)
  <1> DEFINE p == call[c].probe
  <1>1. PICK r : r = NewResult(c, ok, error)
    OBVIOUS
  <1>2. /\ call[c].st = "checking"
        /\ call' = [call EXCEPT ![c].st = "returned", ![c].result = r, ![c].end = now]
        /\ Store(p, r) /\ UNCHANGED <<now, cfg>>
    BY <1>1 DEF Finish
  <1>3. p \in Probes /\ cfg[p] # None
    BY <1>2 DEF CacheInv, CallInv
  <1>4. r \in Result /\ r.ok = ok
    BY <1>1, <1>2, NewResultFacts
  <1>5. req[c].st = "busy" /\ req[c].probe = p /\ req[c].since = call[c].start
    BY <1>2, StatusIs DEF req
  <1>6. req' = [req EXCEPT ![c].st = "answered", ![c].result = r]
    BY <1>2, AnswerReq
  <1>7. memo' = IF ~Contract!Memorises(p) \/ Contract!Lifetime(p, ok) = None
                THEN memo
                ELSE [memo EXCEPT ![p] =
                        IF Contract!Lifetime(p, ok) = 0 THEN None ELSE r]
    BY <1>2, <1>3, <1>4, AnswerMemo
  <1>8. r = [ok            |-> ok,
             error         |-> error,
             cached        |-> IF Contract!Memorises(p) THEN FALSE ELSE None,
             started_at    |-> req[c].since,
             elapsed       |-> now - req[c].since,
             allow_failure |-> cfg[p].allow_failure]
    BY <1>1, <1>5 DEF NewResult, UseCache, Contract!Memorises
  <1> QED
    BY <1>2, <1>5, <1>6, <1>7, <1>8, Zenon DEF Contract!Answer

-----------------------------------------------------------------------------
(* Every step of run_check is a step of the contract or a stutter.         *)
LEMMA NextImplements ==
  ASSUME CacheInv, [Next]_vars
  PROVE  [Contract!ContractNext]_(Contract!contractVars)
  <1> USE DEF Contract!contractVars
  <1>1. ASSUME NEW p \in Probes, NEW conf \in Configs, Construct(p, conf)
        PROVE  Contract!ContractNext
    BY <1>1, ConstructImplements DEF Contract!ContractNext
  <1>2. ASSUME NEW S \in SUBSET Calls, NEW of \in [S -> Probes], Create(of)
        PROVE  Contract!ContractNext
    BY <1>2, CreateImplements DEF Contract!ContractNext
  <1>3. ASSUME NEW c \in Calls, ServeCached(c)
        PROVE  Contract!ContractNext
    BY <1>3, ServeImplements DEF Contract!ContractNext
  <1>4. ASSUME NEW c \in Calls, StartCheck(c)
        PROVE  Contract!ContractNext
    BY <1>4, StartImplements DEF Contract!ContractNext
  <1>5. ASSUME NEW c \in Calls, TimerFires(c)
        PROVE  UNCHANGED Contract!contractVars
    BY <1>5, TimerStutters
  <1>6. ASSUME NEW c \in Calls, CheckEnds(c)
        PROVE  Contract!ContractNext
    <2>1. CASE CheckCancelled(c)
      <3>1. Contract!GiveUp({c}) /\ {c} \in SUBSET Calls
        BY <2>1, CancelledImplements
      <3> QED
        BY <3>1, Zenon DEF Contract!ContractNext
    <2>2. ASSUME NEW ok \in BOOLEAN, NEW error \in {"exception", "probe timeout", None},
                 error # None => ~ok, Finish(c, ok, error)
          PROVE  Contract!ContractNext
      BY <2>2, FinishImplements, Zenon DEF Contract!ContractNext
    <2>3. ASSUME NEW ok \in BOOLEAN, CheckAnswers(c, ok)
          PROVE  Contract!ContractNext
      BY <2>2, <2>3 DEF CheckAnswers
    <2>4. CASE CheckRaises(c)
      BY <2>2, <2>4 DEF CheckRaises
    <2>5. CASE CheckRaisesTimeout(c)
      BY <2>2, <2>5 DEF CheckRaisesTimeout
    <2>6. CASE CheckTimesOut(c)
      BY <2>2, <2>6 DEF CheckTimesOut
    <2> QED
      BY <1>6, <2>1, <2>3, <2>4, <2>5, <2>6 DEF CheckEnds
  <1>7. ASSUME NEW S \in SUBSET Calls, Cancel(S)
        PROVE  Contract!ContractNext
    <2> DEFINE R == {c \in S : call[c].st = "ready"}
    <2>1. Contract!GiveUp(R) /\ R \in SUBSET Calls
      BY <1>7, CancelImplements
    <2> QED
      BY <2>1, Zenon DEF Contract!ContractNext
  <1>8. CASE Tick
    BY <1>8, TickImplements DEF Contract!ContractNext
  <1>9. CASE UNCHANGED vars
    BY <1>9, MemoFrame DEF vars, req
  <1> QED
    BY <1>1, <1>2, <1>3, <1>4, <1>5, <1>6, <1>7, <1>8, <1>9 DEF Next, CallStep

(* run_check keeps the contract: whatever overlaps, expires, times out or  *)
(* is cancelled, a call is answered by a check of its own or by a result   *)
(* that its probe still remembers, and a call given up leaves no result.   *)
THEOREM RunCheckImplementsContract == Spec => ImplementsContract
  <1>1. CacheInv /\ [Next]_vars => [Contract!ContractNext]_(Contract!contractVars)
    BY NextImplements
  <1> QED
    BY <1>1, InitImplements, CacheInvariant, PTL
    DEF Spec, ImplementsContract, Contract!ContractSpec
=============================================================================
