-------------------------- MODULE SharedCacheProofs --------------------------
(***************************************************************************)
(* Theorems about a probe that threads share, for any number of threads,   *)
(* any TTLs and any longest turn.  Nothing guards the two attributes; the  *)
(* inductive invariant SharedInv says how far they may be apart, and what  *)
(* a thread that stands between two of its reads or writes may still rely  *)
(* on.                                                                     *)
(***************************************************************************)
EXTENDS SharedCache, SequenceTheorems, TLAPS

(* The outcomes that are stored, and the results.                          *)
Kept == {ok \in BOOLEAN : Caching /\ TtlOf(ok) # None}

Found == [ok : Kept, end : Nat]

Source == [found : Found, read : Nat]

Thread == [pc      : InTurn \cup {"idle", "checking", "served", "done"},
           turn    : Nat,
           at      : Nat \cup {None},
           result  : [ok : BOOLEAN, end : Nat] \cup {None},
           sources : Seq(Source)]

(* The date may belong to an older result than the one next to it, and     *)
(* exceeds what that one would have got by a turn at most.                 *)
EntryInv ==
    /\ last_result \in Found \cup {None}
    /\ cache_until # None =>
          /\ cache_until \in Nat
          /\ last_result # None
          /\ cache_until <= now + Longest
          /\ cache_until <= last_result.end + Longest + 2 * MaxTurn

(* A thread x.                                                             *)
InTurnInv(x) ==
    x.pc \in InTurn => x.turn <= now /\ now <= x.turn + MaxTurn

ReaderInv(x) ==
    /\ x.pc \in {"dated", "clock", "compare", "copy"} => last_result # None
    /\ x.pc \in {"clock", "compare", "copy"} => cache_until # None
    /\ x.pc \in {"compare", "copy"} => x.at \in Nat /\ x.turn <= x.at /\ x.at <= now
    /\ x.pc = "copy" => x.at < last_result.end + Longest + 2 * MaxTurn

WriterInv(x) ==
    /\ x.pc \in {"store", "stamp", "date"} => x.result \in Found
    /\ x.pc = "store" => x.turn = x.result.end
    /\ x.pc \in {"stamp", "date"} =>
          last_result # None /\ x.turn <= last_result.end + MaxTurn
    /\ x.pc = "date" => x.at \in Nat /\ x.at <= now /\ x.at <= x.turn + MaxTurn

ServedInv(x) ==
    \A i \in DOMAIN x.sources :
        x.sources[i].read < x.sources[i].found.end + Longest + 3 * MaxTurn

ThreadInv(x) ==
    x \in Thread /\ InTurnInv(x) /\ ReaderInv(x) /\ WriterInv(x) /\ ServedInv(x)

SharedInv ==
    /\ now \in Nat
    /\ cfg \in Configs
    /\ EntryInv
    /\ thread \in [Threads -> Thread]
    /\ \A t \in Threads : ThreadInv(thread[t])

-----------------------------------------------------------------------------
(* What is stored has a TTL, which is at most the longest; that is not 0.  *)
LEMMA LongestFacts ==
  ASSUME cfg \in Configs, Kept # {}
  PROVE  /\ Longest \in Nat /\ 1 <= Longest
         /\ \A ok \in Kept : TtlOf(ok) \in Nat /\ TtlOf(ok) <= Longest
  <1> DEFINE s == cfg.success_ttl
             f == cfg.failed_ttl
  <1>1. s \in Nat \cup {None} /\ f \in Nat \cup {None} /\ None \notin Nat
    BY SharedCacheAssumption
  <1>2. {s, f} \ {None, 0} # {}
    BY DEF Kept, Caching
  <1> DEFINE ttls == {s, f} \ {None}
             IsLongest(m) == m \in ttls /\ \A n \in ttls : n <= m
  <1>3. \E m \in ttls : \A n \in ttls : n <= m
    <2>1. CASE s = None
      BY <1>1, <1>2, <2>1
    <2>2. CASE f = None
      BY <1>1, <1>2, <2>2
    <2>3. CASE s # None /\ f # None /\ s <= f
      BY <1>1, <2>3
    <2>4. CASE s # None /\ f # None /\ ~(s <= f)
      BY <1>1, <2>4
    <2> QED
      BY <2>1, <2>2, <2>3, <2>4
  <1>4. Longest = CHOOSE m \in ttls : \A n \in ttls : n <= m
    BY DEF Longest
  <1>5. Longest \in ttls /\ \A n \in ttls : n <= Longest
    BY <1>3, <1>4, Zenon
  <1>6. Longest \in Nat /\ 1 <= Longest
    BY <1>1, <1>2, <1>5
  <1>7. ASSUME NEW ok \in Kept PROVE TtlOf(ok) \in ttls
    BY DEF Kept, TtlOf
  <1> QED
    BY <1>1, <1>5, <1>6, <1>7

(* A step of thread t alone, to x, that leaves the attributes alone.       *)
LEMMA ThreadStep ==
  ASSUME SharedInv, NEW t \in Threads, NEW x, ThreadInv(x),
         thread' = [thread EXCEPT ![t] = x], UNCHANGED <<now, cfg, last_result, cache_until>>
  PROVE  SharedInv'
  <1>1. /\ Found' = Found /\ Thread' = Thread /\ Longest' = Longest
    BY DEF Found, Thread, Source, Kept, Caching, TtlOf, Longest
  <1>2. thread \in [Threads -> Thread] /\ thread' \in [Threads -> Thread']
    BY <1>1 DEF SharedInv, ThreadInv
  <1>3. thread'[t] = x /\ \A u \in Threads : u # t => thread'[u] = thread[u]
    BY <1>2
  <1>4. \A u \in Threads : ThreadInv(thread'[u])
    BY <1>3 DEF SharedInv
  <1>5. ASSUME NEW u \in Threads PROVE ThreadInv(thread[u])'
    <2>1. PICK y : y = thread'[u]
      OBVIOUS
    <2>2. ThreadInv(y)
      BY <1>4, <2>1
    <2>3. ThreadInv(y)'
      BY <1>1, <2>2 DEF ThreadInv, InTurnInv, ReaderInv, WriterInv, ServedInv
    <2> QED
      BY <2>1, <2>3 DEF ThreadInv, InTurnInv, ReaderInv, WriterInv, ServedInv
  <1>6. EntryInv'
    BY <1>1 DEF SharedInv, EntryInv
  <1> QED
    BY <1>2, <1>5, <1>6 DEF SharedInv

-----------------------------------------------------------------------------
(* The invariant holds initially, and every step keeps it.                 *)
LEMMA InitSharedInv == SharedInit => SharedInv
  <1> SUFFICES ASSUME SharedInit PROVE SharedInv
    OBVIOUS
  <1>1. <<>> \in Seq(Source) /\ DOMAIN <<>> = {}
    BY EmptySeq
  <1>2. Idle \in Thread
    BY <1>1 DEF Idle, Thread
  <1>3. ThreadInv(Idle)
    BY <1>1, <1>2 DEF Idle, ThreadInv, InTurnInv, InTurn, ReaderInv, WriterInv, ServedInv
  <1>4. now \in Nat /\ cfg \in Configs /\ EntryInv
    BY DEF SharedInit, EntryInv
  <1>5. thread \in [Threads -> Thread] /\ \A t \in Threads : thread[t] = Idle
    BY <1>2 DEF SharedInit
  <1> QED
    BY <1>3, <1>4, <1>5 DEF SharedInv

(* A step of t that changes only where it stands.                          *)
LEMMA GotoStep ==
  ASSUME SharedInv, NEW t \in Threads, NEW pc, Goto(t, pc), UNCHANGED <<now, cfg, cache>>,
         pc \in InTurn \cup {"checking", "done"},
         pc \in InTurn => thread[t].pc \in InTurn,
         ReaderInv([thread[t] EXCEPT !.pc = pc]),
         WriterInv([thread[t] EXCEPT !.pc = pc])
  PROVE  SharedInv'
  <1> DEFINE x == [thread[t] EXCEPT !.pc = pc]
  <1>1. thread' = [thread EXCEPT ![t] = x]
    BY DEF Goto
  <1>2. thread[t] \in Thread /\ InTurnInv(thread[t]) /\ ServedInv(thread[t])
    BY DEF SharedInv, ThreadInv
  <1>3. /\ x \in Thread /\ x.pc = pc
        /\ x.turn = thread[t].turn /\ x.sources = thread[t].sources
    BY <1>2 DEF Thread
  <1>4. InTurnInv(x) /\ ServedInv(x)
    BY <1>2, <1>3 DEF InTurnInv, ServedInv
  <1>5. ThreadInv(x)
    BY <1>3, <1>4 DEF ThreadInv
  <1> HIDE DEF x
  <1> QED
    BY <1>1, <1>5, ThreadStep DEF cache

(* A thread begins a turn.                                                 *)
LEMMA ArriveInv ==
  ASSUME SharedInv, NEW t \in Threads, Arrive(t)
  PROVE  SharedInv'
  <1> DEFINE x == [thread[t] EXCEPT !.pc = "look", !.turn = now]
  <1>1. thread' = [thread EXCEPT ![t] = x]
    BY DEF Arrive
  <1>2. thread[t] \in Thread /\ ServedInv(thread[t]) /\ now \in Nat
    BY DEF SharedInv, ThreadInv
  <1>3. /\ x \in Thread /\ x.pc = "look" /\ x.turn = now /\ x.sources = thread[t].sources
    BY <1>2 DEF Thread, InTurn
  <1>4. ThreadInv(x)
    BY <1>2, <1>3, SharedCacheAssumption
       DEF ThreadInv, InTurnInv, ReaderInv, WriterInv, ServedInv
  <1> HIDE DEF x
  <1> QED
    BY <1>1, <1>4, ThreadStep DEF cache, Arrive

(* The first read of the result: none, or one that must have a date.       *)
LEMMA LookInv ==
  ASSUME SharedInv, NEW t \in Threads, Look(t)
  PROVE  SharedInv'
  <1>1. PICK pc : pc = IF last_result = None THEN "checking" ELSE "dated"
    OBVIOUS
  <1>2. Goto(t, pc) /\ UNCHANGED <<now, cfg, cache>> /\ thread[t].pc = "look"
    BY <1>1 DEF Look, At
  <1>3. thread[t] \in Thread
    BY DEF SharedInv
  <1>4. ReaderInv([thread[t] EXCEPT !.pc = pc]) /\ WriterInv([thread[t] EXCEPT !.pc = pc])
    BY <1>1, <1>3 DEF ReaderInv, WriterInv, Thread
  <1> QED
    BY <1>1, <1>2, <1>4, GotoStep DEF InTurn

(* The first read of the date: none, or one to compare with the clock.     *)
LEMMA LookAtDateInv ==
  ASSUME SharedInv, NEW t \in Threads, LookAtDate(t)
  PROVE  SharedInv'
  <1>1. PICK pc : pc = IF cache_until = None THEN "checking" ELSE "clock"
    OBVIOUS
  <1>2. Goto(t, pc) /\ UNCHANGED <<now, cfg, cache>> /\ thread[t].pc = "dated"
    BY <1>1 DEF LookAtDate, At
  <1>3. thread[t] \in Thread /\ last_result # None
    BY <1>2 DEF SharedInv, ThreadInv, ReaderInv
  <1>4. ReaderInv([thread[t] EXCEPT !.pc = pc]) /\ WriterInv([thread[t] EXCEPT !.pc = pc])
    BY <1>1, <1>3 DEF ReaderInv, WriterInv, Thread
  <1> QED
    BY <1>1, <1>2, <1>4, GotoStep DEF InTurn

(* The clock is read, to compare a date with it or to make one from it.    *)
LEMMA ReadClockInv ==
  ASSUME SharedInv, NEW t \in Threads, ReadClock(t)
  PROVE  SharedInv'
  <1>1. PICK pc : pc = IF thread[t].pc = "clock" THEN "compare" ELSE "date"
    OBVIOUS
  <1> DEFINE x == [thread[t] EXCEPT !.at = now, !.pc = pc]
  <1>2. /\ thread[t] \in Thread /\ ThreadInv(thread[t])
        /\ thread \in [Threads -> Thread] /\ now \in Nat
    BY DEF SharedInv
  <1>3. thread' = [thread EXCEPT ![t] = x] /\ thread[t].pc \in {"clock", "stamp"}
    BY <1>1, <1>2 DEF ReadClock, At, Thread
  <1>4. /\ x \in Thread /\ x.pc = pc /\ x.at = now /\ x.turn = thread[t].turn
        /\ x.result = thread[t].result /\ x.sources = thread[t].sources
    BY <1>1, <1>2 DEF Thread, InTurn
  <1>5. InTurnInv(x) /\ x.turn <= now /\ now <= x.turn + MaxTurn
    BY <1>2, <1>3, <1>4 DEF ThreadInv, InTurnInv, InTurn
  <1>6. ReaderInv(x) /\ WriterInv(x) /\ ServedInv(x)
    BY <1>1, <1>2, <1>3, <1>4, <1>5 DEF ThreadInv, ReaderInv, WriterInv, ServedInv
  <1>7. ThreadInv(x)
    BY <1>4, <1>5, <1>6 DEF ThreadInv
  <1> HIDE DEF x
  <1> QED
    BY <1>3, <1>7, ThreadStep DEF cache, ReadClock

(* The date that is met exceeds the result next to it by little enough.    *)
LEMMA CompareInv ==
  ASSUME SharedInv, NEW t \in Threads, Compare(t)
  PROVE  SharedInv'
  <1>1. PICK pc : pc = IF thread[t].at < cache_until THEN "copy" ELSE "checking"
    OBVIOUS
  <1>2. Goto(t, pc) /\ UNCHANGED <<now, cfg, cache>> /\ thread[t].pc = "compare"
    BY <1>1 DEF Compare, At
  <1>3. /\ thread[t] \in Thread
        /\ last_result # None /\ cache_until # None
        /\ thread[t].at \in Nat /\ thread[t].turn <= thread[t].at /\ thread[t].at <= now
    BY <1>2 DEF SharedInv, ThreadInv, ReaderInv
  <1>4. /\ cache_until \in Nat /\ last_result \in Found
        /\ cache_until <= last_result.end + Longest + 2 * MaxTurn
    BY <1>3 DEF SharedInv, EntryInv
  <1>5. Longest \in Nat /\ MaxTurn \in Nat /\ last_result.end \in Nat
    BY <1>4, LongestFacts, SharedCacheAssumption DEF SharedInv, Found
  <1>6. pc = "copy" => thread[t].at < last_result.end + Longest + 2 * MaxTurn
    BY <1>1, <1>3, <1>4, <1>5
  <1>7. ReaderInv([thread[t] EXCEPT !.pc = pc]) /\ WriterInv([thread[t] EXCEPT !.pc = pc])
    BY <1>1, <1>3, <1>6 DEF ReaderInv, WriterInv, Thread
  <1> QED
    BY <1>1, <1>2, <1>7, GotoStep DEF InTurn

(* A field is copied from the result that is there by then.                *)
LEMMA CopyInv ==
  ASSUME SharedInv, NEW t \in Threads, Copy(t)
  PROVE  SharedInv'
  <1>1. PICK s : s = Append(thread[t].sources, [found |-> last_result, read |-> now])
    OBVIOUS
  <1>2. PICK pc \in {"served", "copy"} : pc = IF Len(s) = 2 THEN "served" ELSE "copy"
    OBVIOUS
  <1> DEFINE x == [thread[t] EXCEPT !.sources = s, !.pc = pc]
  <1>3. thread' = [thread EXCEPT ![t] = x] /\ thread[t].pc = "copy"
    BY <1>1, <1>2 DEF Copy, At
  <1>4. /\ thread[t] \in Thread /\ ThreadInv(thread[t]) /\ now \in Nat
        /\ thread[t].turn \in Nat /\ thread[t].sources \in Seq(Source)
    BY DEF SharedInv, Thread
  <1>5. /\ last_result \in Found /\ thread[t].at \in Nat
        /\ thread[t].turn <= thread[t].at /\ now <= thread[t].turn + MaxTurn
        /\ thread[t].at < last_result.end + Longest + 2 * MaxTurn
    BY <1>3, <1>4 DEF SharedInv, EntryInv, ThreadInv, InTurnInv, ReaderInv, InTurn
  <1>6. Longest \in Nat /\ MaxTurn \in Nat /\ last_result.end \in Nat
    BY <1>5, LongestFacts, SharedCacheAssumption DEF SharedInv, Found
  <1>7. now < last_result.end + Longest + 3 * MaxTurn
    BY <1>4, <1>5, <1>6
  <1>8. PICK e \in Source : e = [found |-> last_result, read |-> now]
    BY <1>4, <1>5 DEF Source
  <1>9. /\ s \in Seq(Source) /\ Len(s) = Len(thread[t].sources) + 1
        /\ \A i \in 1..Len(thread[t].sources) : s[i] = thread[t].sources[i]
        /\ s[Len(thread[t].sources) + 1] = e
    BY <1>1, <1>4, <1>8, AppendProperties
  <1>10. /\ DOMAIN s = 1..Len(s)
         /\ DOMAIN thread[t].sources = 1..Len(thread[t].sources)
         /\ Len(thread[t].sources) \in Nat
    BY <1>4, <1>9, LenProperties
  <1>11. /\ x \in Thread /\ x.pc = pc /\ x.sources = s /\ x.turn = thread[t].turn
         /\ x.at = thread[t].at
    BY <1>4, <1>9 DEF Thread, InTurn
  <1>12. ASSUME NEW i \in DOMAIN s
         PROVE  s[i].read < s[i].found.end + Longest + 3 * MaxTurn
    <2>1. CASE i = Len(thread[t].sources) + 1
      BY <1>7, <1>8, <1>9, <2>1
    <2>2. CASE i \in 1..Len(thread[t].sources)
      BY <1>4, <1>9, <1>10, <2>2 DEF ThreadInv, ServedInv
    <2> QED
      BY <1>9, <1>10, <2>1, <2>2
  <1>13. ServedInv(x)
    BY <1>11, <1>12 DEF ServedInv
  <1>14. InTurnInv(x) /\ ReaderInv(x) /\ WriterInv(x)
    BY <1>2, <1>3, <1>4, <1>11 DEF ThreadInv, InTurnInv, ReaderInv, WriterInv, InTurn
  <1>15. ThreadInv(x)
    BY <1>11, <1>13, <1>14 DEF ThreadInv
  <1> HIDE DEF x
  <1> QED
    BY <1>3, <1>15, ThreadStep DEF cache, Copy

(* A check ends, with a result to store or without.                        *)
LEMMA CheckEndsInv ==
  ASSUME SharedInv, NEW t \in Threads, NEW ok \in BOOLEAN, CheckEnds(t, ok)
  PROVE  SharedInv'
  <1>1. PICK pc \in {"store", "done"} :
          pc = IF Caching /\ TtlOf(ok) # None THEN "store" ELSE "done"
    BY Zenon
  <1>2. PICK r : r = [ok |-> ok, end |-> now]
    OBVIOUS
  <1> DEFINE x == [thread[t] EXCEPT !.turn = now, !.result = r, !.pc = pc]
  <1>3. thread' = [thread EXCEPT ![t] = x]
    BY <1>1, <1>2 DEF CheckEnds
  <1>4. thread[t] \in Thread /\ ServedInv(thread[t]) /\ now \in Nat
    BY DEF SharedInv, ThreadInv
  <1>5. r \in [ok : BOOLEAN, end : Nat] /\ r.end = now
    BY <1>2, <1>4
  <1>6. /\ x \in Thread /\ x.pc = pc /\ x.turn = now /\ x.result = r
        /\ x.sources = thread[t].sources
    BY <1>4, <1>5 DEF Thread, InTurn
  <1>7. pc = "store" => r \in Found
    <2> SUFFICES ASSUME pc = "store" PROVE r \in Found
      OBVIOUS
    <2>1. ok \in Kept
      BY <1>1 DEF Kept
    <2> QED
      BY <1>2, <1>4, <2>1 DEF Found
  <1>8. ThreadInv(x)
    BY <1>4, <1>5, <1>6, <1>7, SharedCacheAssumption
       DEF ThreadInv, InTurnInv, ReaderInv, WriterInv, ServedInv
  <1> HIDE DEF x
  <1> QED
    BY <1>3, <1>8, ThreadStep DEF cache, CheckEnds

(* A check that was cancelled stores nothing.                              *)
LEMMA CheckIsCancelledInv ==
  ASSUME SharedInv, NEW t \in Threads, CheckIsCancelled(t)
  PROVE  SharedInv'
  <1>1. Goto(t, "done") /\ UNCHANGED <<now, cfg, cache>> /\ thread[t] \in Thread
    BY DEF CheckIsCancelled, SharedInv
  <1>2. ReaderInv([thread[t] EXCEPT !.pc = "done"]) /\ WriterInv([thread[t] EXCEPT !.pc = "done"])
    BY <1>1 DEF ReaderInv, WriterInv, Thread
  <1> QED
    BY <1>1, <1>2, GotoStep DEF InTurn

(* A result is stored within a turn of its end; so it is no older, up to a *)
(* turn, than what the others have read or are about to date.              *)
LEMMA StoreResultInv ==
  ASSUME SharedInv, NEW t \in Threads, StoreResult(t)
  PROVE  SharedInv'
  <1>1. PICK r : r = thread[t].result
    OBVIOUS
  <1> DEFINE x == [thread[t] EXCEPT !.pc = "stamp"]
  <1>2. /\ thread' = [thread EXCEPT ![t] = x] /\ last_result' = r
        /\ UNCHANGED <<now, cfg, cache_until>> /\ thread[t].pc = "store"
    BY <1>1 DEF StoreResult, At, Goto
  <1>3. /\ thread \in [Threads -> Thread] /\ thread[t] \in Thread /\ ThreadInv(thread[t])
        /\ now \in Nat /\ MaxTurn \in Nat
    BY SharedCacheAssumption DEF SharedInv
  <1>4. /\ r \in Found /\ r.end = thread[t].turn /\ r.end \in Nat
        /\ r.end <= now /\ now <= r.end + MaxTurn
    BY <1>1, <1>2, <1>3 DEF ThreadInv, InTurnInv, WriterInv, InTurn, Found
  <1>5. Longest \in Nat /\ 1 <= Longest
    BY <1>4, LongestFacts DEF SharedInv, Found
  <1>6. Found' = Found /\ Thread' = Thread /\ Longest' = Longest
    BY <1>2 DEF Found, Thread, Source, Kept, Caching, TtlOf, Longest
  <1>7. r # None
    BY <1>4, SharedCacheAssumption DEF Found, Kept
  <1>8. EntryInv'
    BY <1>2, <1>3, <1>4, <1>5, <1>6, <1>7 DEF SharedInv, EntryInv
  <1>9. /\ x \in Thread /\ x.pc = "stamp" /\ x.turn = thread[t].turn
        /\ x.result = thread[t].result /\ x.sources = thread[t].sources
    BY <1>3 DEF Thread, InTurn
  <1> HIDE DEF x
  <1>10. /\ thread' \in [Threads -> Thread] /\ thread'[t] = x
         /\ \A u \in Threads : u # t => thread'[u] = thread[u]
    BY <1>2, <1>3, <1>9
  <1>11. ASSUME NEW u \in Threads PROVE ThreadInv(thread[u])'
    <2>1. CASE u = t
      <3>1. InTurnInv(x) /\ ServedInv(x)
        BY <1>2, <1>3, <1>9 DEF ThreadInv, InTurnInv, ServedInv, InTurn
      <3> QED
        BY <1>1, <1>2, <1>3, <1>4, <1>6, <1>7, <1>9, <1>10, <2>1, <3>1
           DEF ThreadInv, InTurnInv, ReaderInv, WriterInv, ServedInv
    <2>2. CASE u # t
      <3>1. /\ thread'[u] = thread[u] /\ ThreadInv(thread[u])
            /\ thread[u].turn \in Nat /\ thread[u] \in Thread
        BY <1>10, <2>2 DEF SharedInv, Thread
      <3>2. InTurnInv(thread[u])' /\ ServedInv(thread[u])'
        BY <1>2, <1>6, <3>1 DEF ThreadInv, InTurnInv, ServedInv
      <3>3. ReaderInv(thread[u])'
        BY <1>2, <1>3, <1>4, <1>5, <1>6, <1>7, <3>1 DEF ThreadInv, ReaderInv
      <3>4. WriterInv(thread[u])'
        <4>1. thread[u].pc \in {"stamp", "date"} => thread[u].turn <= r.end + MaxTurn
          BY <1>3, <1>4, <3>1 DEF ThreadInv, InTurnInv, InTurn
        <4> QED
          BY <1>2, <1>6, <1>7, <3>1, <4>1 DEF ThreadInv, WriterInv
      <3> QED
        BY <1>6, <3>1, <3>2, <3>3, <3>4 DEF ThreadInv
    <2> QED
      BY <2>1, <2>2
  <1> QED
    BY <1>2, <1>3, <1>6, <1>8, <1>10, <1>11 DEF SharedInv

(* A date that belongs to an older result than the one that is there.      *)
LEMMA StoreDateInv ==
  ASSUME SharedInv, NEW t \in Threads, StoreDate(t)
  PROVE  SharedInv'
  <1>1. PICK d : d = thread[t].at + TtlOf(thread[t].result.ok)
    OBVIOUS
  <1> DEFINE x == [thread[t] EXCEPT !.pc = "done"]
  <1>2. /\ thread' = [thread EXCEPT ![t] = x] /\ cache_until' = d
        /\ UNCHANGED <<now, cfg, last_result>> /\ thread[t].pc = "date"
    BY <1>1 DEF StoreDate, At, Goto
  <1>3. /\ thread \in [Threads -> Thread] /\ thread[t] \in Thread /\ ThreadInv(thread[t])
        /\ now \in Nat /\ MaxTurn \in Nat /\ thread[t].turn \in Nat
    BY SharedCacheAssumption DEF SharedInv, Thread
  <1>4. /\ thread[t].result \in Found
        /\ last_result # None /\ thread[t].turn <= last_result.end + MaxTurn
        /\ thread[t].at \in Nat /\ thread[t].at <= now
        /\ thread[t].at <= thread[t].turn + MaxTurn
    BY <1>2, <1>3 DEF ThreadInv, WriterInv
  <1>5. PICK ok \in Kept : ok = thread[t].result.ok
    BY <1>4 DEF Found
  <1>6. Longest \in Nat /\ TtlOf(ok) \in Nat /\ TtlOf(ok) <= Longest
    BY LongestFacts DEF SharedInv
  <1>7. last_result \in Found /\ last_result.end \in Nat
    BY <1>4 DEF SharedInv, EntryInv, Found
  <1>8. d = thread[t].at + TtlOf(ok)
    BY <1>1, <1>5
  <1>9. /\ d \in Nat /\ d <= now + Longest
        /\ d <= last_result.end + Longest + 2 * MaxTurn
    BY <1>3, <1>4, <1>6, <1>7, <1>8
  <1>10. Found' = Found /\ Thread' = Thread /\ Longest' = Longest
    BY <1>2 DEF Found, Thread, Source, Kept, Caching, TtlOf, Longest
  <1>11. EntryInv'
    BY <1>2, <1>4, <1>7, <1>9, <1>10 DEF EntryInv
  <1>12. d # None
    BY <1>9, SharedCacheAssumption
  <1>13. x \in Thread /\ x.pc = "done" /\ x.sources = thread[t].sources
    BY <1>3 DEF Thread
  <1> HIDE DEF x
  <1>14. /\ thread' \in [Threads -> Thread] /\ thread'[t] = x
         /\ \A u \in Threads : u # t => thread'[u] = thread[u]
    BY <1>2, <1>3, <1>13
  <1>15. ASSUME NEW u \in Threads PROVE ThreadInv(thread[u])'
    <2>1. CASE u = t
      BY <1>3, <1>10, <1>13, <1>14, <2>1
         DEF ThreadInv, InTurnInv, ReaderInv, WriterInv, ServedInv, InTurn
    <2>2. CASE u # t
      <3>1. thread'[u] = thread[u] /\ ThreadInv(thread[u])
        BY <1>14, <2>2 DEF SharedInv
      <3> QED
        BY <1>2, <1>10, <1>12, <3>1
           DEF ThreadInv, InTurnInv, ReaderInv, WriterInv, ServedInv
    <2> QED
      BY <2>1, <2>2
  <1> QED
    BY <1>2, <1>3, <1>10, <1>11, <1>14, <1>15 DEF SharedInv

(* Time passes while every turn that is under way may last longer.         *)
LEMMA TickSharedInv ==
  ASSUME SharedInv, Tick
  PROVE  SharedInv'
  <1>1. /\ now \in Nat /\ now' = now + 1 /\ MaxTurn \in Nat
        /\ UNCHANGED <<cfg, last_result, cache_until, thread>>
    BY SharedCacheAssumption DEF SharedInv, Tick, cache
  <1>2. Found' = Found /\ Thread' = Thread /\ Longest' = Longest
    BY <1>1 DEF Found, Thread, Source, Kept, Caching, TtlOf, Longest
  <1>3. EntryInv'
    <2>1. CASE cache_until = None
      BY <1>1, <1>2, <2>1 DEF SharedInv, EntryInv
    <2>2. CASE cache_until # None
      <3>1. last_result \in Found /\ cache_until \in Nat
        BY <2>2 DEF SharedInv, EntryInv
      <3>2. Longest \in Nat
        BY <3>1, LongestFacts DEF SharedInv, Found
      <3> QED
        BY <1>1, <1>2, <3>1, <3>2 DEF SharedInv, EntryInv
    <2> QED
      BY <2>1, <2>2
  <1>4. ASSUME NEW u \in Threads PROVE ThreadInv(thread[u])'
    <2>1. ThreadInv(thread[u]) /\ thread[u].turn \in Nat /\ thread[u] \in Thread
      BY DEF SharedInv, Thread
    <2>2. thread[u].pc \in InTurn => now < thread[u].turn + MaxTurn
      BY DEF Tick
    <2>3. InTurnInv(thread[u])'
      BY <1>1, <2>1, <2>2 DEF ThreadInv, InTurnInv
    <2>4. ReaderInv(thread[u])' /\ WriterInv(thread[u])' /\ ServedInv(thread[u])'
      BY <1>1, <1>2, <2>1 DEF ThreadInv, ReaderInv, WriterInv, ServedInv
    <2> QED
      BY <1>1, <1>2, <2>1, <2>3, <2>4 DEF ThreadInv
  <1> QED
    BY <1>1, <1>2, <1>3, <1>4 DEF SharedInv

(* Every step keeps the invariant.                                         *)
LEMMA NextSharedInv == SharedInv /\ [SharedNext]_sharedVars => SharedInv'
  <1> SUFFICES ASSUME SharedInv, [SharedNext]_sharedVars PROVE SharedInv'
    OBVIOUS
  <1>1. ASSUME NEW t \in Threads,
               \/ Arrive(t) \/ Look(t) \/ LookAtDate(t) \/ ReadClock(t) \/ Compare(t) \/ Copy(t)
               \/ \E ok \in BOOLEAN : CheckEnds(t, ok)
               \/ CheckIsCancelled(t)
               \/ StoreResult(t) \/ StoreDate(t)
        PROVE  SharedInv'
    BY <1>1, ArriveInv, LookInv, LookAtDateInv, ReadClockInv, CompareInv, CopyInv,
       CheckEndsInv, CheckIsCancelledInv, StoreResultInv, StoreDateInv
  <1>2. CASE Tick
    BY <1>2, TickSharedInv
  <1>3. CASE UNCHANGED sharedVars
    <2>1. UNCHANGED <<now, cfg, last_result, cache_until, thread>>
      BY <1>3 DEF sharedVars
    <2>2. Found' = Found /\ Thread' = Thread /\ Longest' = Longest
      BY <2>1 DEF Found, Thread, Source, Kept, Caching, TtlOf, Longest
    <2>3. EntryInv'
      BY <2>1, <2>2 DEF SharedInv, EntryInv
    <2>4. ASSUME NEW u \in Threads PROVE ThreadInv(thread[u])'
      BY <2>1, <2>2 DEF SharedInv, ThreadInv, InTurnInv, ReaderInv, WriterInv, ServedInv
    <2> QED
      BY <2>1, <2>2, <2>3, <2>4 DEF SharedInv
  <1> QED
    BY <1>1, <1>2, <1>3 DEF SharedNext

(* SharedInv is an invariant of the threads.                               *)
THEOREM SharedInvariant == SharedSpec => []SharedInv
  BY InitSharedInv, NextSharedInv, PTL DEF SharedSpec

-----------------------------------------------------------------------------
(* What the threads may rely on although nothing is locked.                *)

(* The four reads of the condition and the copying that follows never meet *)
(* a None where the first read of the attribute has found none.            *)
THEOREM NothingIsMissed == SharedSpec => []NothingVanishes
  <1>1. SharedInv => NothingVanishes
    BY DEF SharedInv, ThreadInv, ReaderInv, NothingVanishes
  <1> QED
    BY <1>1, SharedInvariant, PTL

(* A field that is served was true at most the longest TTL and three turns *)
(* ago, for any number of threads that overtake each other.                *)
THEOREM TornEntriesAreRecent == SharedSpec => []ServedIsRecent
  <1>1. SharedInv => ServedIsRecent
    BY DEF SharedInv, ThreadInv, ServedInv, ServedIsRecent
  <1> QED
    BY <1>1, SharedInvariant, PTL

(* If only one outcome has a TTL, whatever is served is of that outcome.   *)
THEOREM OnlyTheOutcomeWithTtl == SharedSpec => []OneTtlNeverMixes
  <1>1. ASSUME SharedInv PROVE OneTtlNeverMixes
    <2> SUFFICES ASSUME NEW t \in Threads, NEW i \in DOMAIN thread[t].sources,
                        None \in {cfg.success_ttl, cfg.failed_ttl}
                 PROVE  thread[t].sources[i].found.ok = (cfg.success_ttl # None)
      BY DEF OneTtlNeverMixes
    <2>1. thread[t].sources \in Seq(Source)
      BY <1>1 DEF SharedInv, Thread
    <2>2. i \in 1..Len(thread[t].sources)
      BY <2>1, LenProperties
    <2>3. PICK s \in Source : s = thread[t].sources[i]
      BY <2>1, <2>2, ElementOfSeq
    <2>4. PICK ok \in Kept : ok = s.found.ok
      BY DEF Source, Found
    <2>5. ok = (cfg.success_ttl # None)
      <3>1. CASE ok = TRUE
        BY <3>1 DEF Kept, TtlOf
      <3>2. CASE ok = FALSE
        BY <3>2 DEF Kept, TtlOf
      <3> QED
        BY <3>1, <3>2 DEF Kept
    <2> QED
      BY <2>3, <2>4, <2>5
  <1> QED
    BY <1>1, SharedInvariant, PTL
=============================================================================
