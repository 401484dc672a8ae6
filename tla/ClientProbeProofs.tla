-------------------------- MODULE ClientProbeProofs --------------------------
(***************************************************************************)
(* Theorems about the ready-made probes, for any probes, calls and number  *)
(* of threads, and both versions of wait_for().  The inductive invariant   *)
(* says of every call where its body is suspended, what its client and its *)
(* job are doing meanwhile, how far wait_for() has come around it, and     *)
(* whether a CancelledError is still to arrive.                            *)
(***************************************************************************)
EXTENDS ClientProbe, ProbeProofs, SequenceTheorems, FiniteSetTheorems

(* Of one call: its record x, its body b, the state s of its client, that  *)
(* of its job, j, the kind k of its probe, and the state o of wait_for().  *)

(* A body that is over has left no client open and no job in the queue.    *)
LeftBehind(s, j, k) ==
    /\ s # "open"
    /\ j # "queued"
    /\ k \in {"existing", "sync"} => s = "none"
    /\ k = "thread" =>
          /\ s = "closing" => j = "running"
          /\ s = "abandoned" => j \in {"raised", "dropped"}

OutInv(b, s, j, k) == b.st \in {"out", "over"} => LeftBehind(s, j, k)

OpeningInv(b, s, j, k) == b.st = "opening" =>
    /\ k \in {"connect", "start", "socket", "channel"}
    /\ s = IF k = "start" THEN "open" ELSE "none"
    /\ j = "none"

(* The function of a plain check is the only job while a client is in use. *)
UsingInv(b, s, j, k) == b.st \in {"using", "awaiting"} =>
    /\ k \notin {"socket", "channel"}
    /\ s = IF k \in {"existing", "sync"} THEN "none" ELSE "open"
    /\ j \in IF k = "sync" THEN {"queued", "running", "returned", "raised"}
             ELSE {"none"}
    /\ b.st = "awaiting" => k = "sync" /\ j = "returned"

(* Only a Motor client is closed by a job, and closed as that job ended.   *)
ClosingInv(b, s, j, k) == b.st = "closing" =>
    /\ k \notin {"existing", "sync"}
    /\ k # "thread" =>
          /\ j = "none"
          /\ s \in IF k = "start" THEN {"open", "closing"} ELSE {"closing"}
    /\ k = "thread" =>
          \/ j \in {"queued", "running"} /\ s = "closing"
          \/ j = "returned" /\ s = "closed"
          \/ j = "raised" /\ s = "abandoned"

(* Nobody has told the body to stop.                                       *)
Untold(x, o) ==
    \/ o = "none" /\ x.expired = FALSE /\ x.cancelled = FALSE
    \/ o \in {"waiting", "told"}

(* A body that was not told to stop since it was resumed has not been told *)
(* to stop at all, or closes its client because of that.                   *)
ThrownInv(x, b, k, o) ==
    b.st \notin {"out", "over"} /\ b.thrown = FALSE =>
        \/ Untold(x, o)
        \/ b.st = "closing" /\ b.raised = "cancelled" /\ k # "socket"

(* A body without wait_for() of 3.11 around it is over when it is left,    *)
(* and part of its call; with it, it is entered at once and outlives its   *)
(* call only if wait_for() has gone; and told to stop it has no result.    *)
OuterInv(x, b, o) ==
    /\ b.st = "out" => o = "none"
    /\ b.st = "over" => o # "none"
    /\ x.st # "checking" => b.st \in {"out", "over"} \/ o = "leaving"
    /\ o = "waiting" => x.expired = FALSE /\ x.cancelled = FALSE
    /\ o \in {"waiting", "told"} => b.thrown = FALSE
    /\ o \in {"stopping", "leaving"} /\ b.st = "over" => b.raised # "none"

(* What CancellationPrevails says of a call.                               *)
PrevailsInv(x, b, s, o) == x.st = "returned" =>
    /\ x.expired = TRUE => x.result.ok = FALSE \/ o = "told"
    /\ x.cancelled = TRUE => (o = "none" /\ s = "abandoned") \/ o = "told"
    /\ o # "none" => /\ b.st = "over"
                     /\ b.raised = "none" => x.result.ok = TRUE
                     /\ b.raised # "none" => x.result.ok = FALSE

(* Nothing has been done yet for a call that has not entered its check.    *)
BeforeInv(x, b, s, j) == x.st \in {"idle", "ready"} =>
    /\ b.st = "out" /\ s = "none" /\ j = "none"
    /\ x.expired = FALSE /\ x.cancelled = FALSE

CallBodyInv(x, b, s, j, k, o) ==
    /\ BeforeInv(x, b, s, j)
    /\ OutInv(b, s, j, k)
    /\ OpeningInv(b, s, j, k)
    /\ UsingInv(b, s, j, k)
    /\ ClosingInv(b, s, j, k)
    /\ ThrownInv(x, b, k, o)
    /\ OuterInv(x, b, o)
    /\ PrevailsInv(x, b, s, o)

BodyInv(c) == CallBodyInv(call[c], body[c], client[c], job[c], KindOf(c), outer[c])

(* The queue holds each queued job once and nothing else.                  *)
QueueInv ==
    /\ \A i \in DOMAIN queue : job[queue[i]] = "queued"
    /\ \A c \in Calls : job[c] = "queued" => \E i \in DOMAIN queue : queue[i] = c
    /\ \A i, j \in DOMAIN queue : queue[i] = queue[j] => i = j

Body == [st : BodyState, raised : Exception, thrown : BOOLEAN]

BodyTypeOK ==
    /\ python \in {"3.11", "3.12"}
    /\ kind \in [Probes -> Kinds \cup {None}]
    /\ body \in [Calls -> Body]
    /\ outer \in [Calls -> OuterState]
    /\ client \in [Calls -> ClientState]
    /\ job \in [Calls -> JobState]
    /\ queue \in Seq(Calls)

ClientInv ==
    /\ CacheInv
    /\ BodyTypeOK
    /\ \A p \in Probes : cfg[p] # None => kind[p] \in Kinds
    /\ \A c \in Calls : BodyInv(c)
    /\ QueueInv

-----------------------------------------------------------------------------
(* What run_check makes of the end of a body is what module Probe allows.  *)
LEMMA EndingIsProbeStep ==
  ASSUME NEW c \in Calls, NEW raised, RunCheckEnds(c, raised)
  PROVE  Next
  <1>1. CheckEnds(c)
    BY DEF RunCheckEnds, CheckEnds
  <1> QED
    BY <1>1 DEF Next, CallStep

(* The body that ends with its call ends it; another one ends alone.       *)
LEMMA LeavingIsProbeStep ==
  ASSUME NEW c \in Calls, NEW raised, Leave(c, raised)
  PROVE  [Next]_vars
  <1>1. CASE outer[c] = "none"
    <2>1. RunCheckEnds(c, raised)
      BY <1>1 DEF Leave
    <2> QED
      BY <2>1, EndingIsProbeStep
  <1>2. CASE outer[c] # "none"
    BY <1>2 DEF Leave
  <1> QED
    BY <1>1, <1>2

(* What the body of a check does is, for run_check, nothing or the end of  *)
(* the check.                                                              *)
LEMMA BodyStepIsProbeStep ==
  ASSUME NEW c \in Calls, BodyStep(c)
  PROVE  [Next]_vars
  <1>1. CASE Opened(c)
    BY <1>1 DEF Opened
  <1>2. ASSUME NEW raised, EndOpening(c, raised) PROVE [Next]_vars
    BY <1>2, LeavingIsProbeStep DEF EndOpening
  <1>3. ASSUME NEW raised, EndUse(c, raised) PROVE [Next]_vars
    BY <1>3, LeavingIsProbeStep DEF EndUse
  <1>4. CASE OpeningFails(c)
    BY <1>2, <1>4 DEF OpeningFails
  <1>5. CASE Used(c) \/ Called(c) \/ AwaitedToo(c)
    BY <1>3, <1>5 DEF Used, Called, AwaitedToo
  <1>6. CASE Closed(c) \/ ClosingFails(c)
    BY <1>6, LeavingIsProbeStep DEF Closed, ClosingFails
  <1>7. CASE Thrown(c)
    BY <1>2, <1>3, <1>7, LeavingIsProbeStep DEF Thrown
  <1>8. CASE NotEntered(c)
    BY <1>8 DEF NotEntered, Next, CallStep, CheckEnds
  <1> QED
    BY <1>1, <1>4, <1>5, <1>6, <1>7, <1>8 DEF BodyStep

(* And so is what wait_for() of 3.11 does when it resumes.                 *)
LEMMA WaitForStepIsProbeStep ==
  ASSUME NEW c \in Calls, WaitForStep(c)
  PROVE  [Next]_vars
  <1>1. CASE WaitForReturns(c)
    <2>1. PICK raised : raised = body[c].raised
      OBVIOUS
    <2>2. RunCheckEnds(c, raised)
      BY <1>1, <2>1 DEF WaitForReturns
    <2> QED
      BY <2>2, EndingIsProbeStep
  <1>2. CASE WaitForStops(c)
    BY <1>2 DEF WaitForStops
  <1>3. CASE WaitForRaises(c)
    BY <1>3 DEF WaitForRaises, Next, CallStep, CheckEnds
  <1> QED
    BY <1>1, <1>2, <1>3 DEF WaitForStep

(* Every step of the clients is a step of their probes, or leaves them     *)
(* alone.                                                                  *)
LEMMA ClientStepIsProbeStep ==
  ASSUME [ClientNext]_clientVars
  PROVE  [Next]_vars
  <1>1. ASSUME NEW p \in Probes, NEW conf \in Configs, ConstructClientProbe(p, conf)
        PROVE  [Next]_vars
    BY <1>1 DEF ConstructClientProbe, Next
  <1>2. ASSUME NEW S \in SUBSET Calls, NEW of \in [S -> Probes], Create(of)
        PROVE  [Next]_vars
    BY <1>2 DEF Next
  <1>3. ASSUME NEW S \in SUBSET Calls, Cancel(S)
        PROVE  [Next]_vars
    BY <1>3 DEF Next
  <1>4. ASSUME NEW c \in Calls, ServeCached(c) \/ EnterCheck(c) \/ TimerInterrupts(c)
        PROVE  [Next]_vars
    BY <1>4 DEF EnterCheck, TimerInterrupts, Next, CallStep
  <1>5. ASSUME NEW c \in Calls, BodyStep(c) \/ WaitForStep(c)
        PROVE  [Next]_vars
    BY <1>5, BodyStepIsProbeStep, WaitForStepIsProbeStep
  <1>6. ASSUME NEW c \in Calls, ThreadEnds(c) \/ ClosedLater(c)
        PROVE  [Next]_vars
    BY <1>6 DEF ThreadEnds, ClosedLater
  <1>7. CASE PickUp /\ UNCHANGED <<vars, bodyVars>>
    BY <1>7
  <1>8. CASE Tick
    BY <1>8 DEF Next
  <1>9. CASE UNCHANGED clientVars
    BY <1>9 DEF clientVars
  <1> QED
    BY <1>1, <1>2, <1>3, <1>4, <1>5, <1>6, <1>7, <1>8, <1>9, Zenon DEF ClientNext

(* A ready-made probe is run_check around a body, so what is proved of     *)
(* run_check holds for it.                                                 *)
THEOREM ClientProbeIsAProbe == ClientSpec => Spec
  <1>1. ClientInit => Init
    BY DEF ClientInit
  <1> QED
    BY <1>1, ClientStepIsProbeStep, PTL DEF ClientSpec, Spec

(* Every behaviour of a ready-made probe is one ProbeContract allows.      *)
THEOREM ClientProbeImplementsContract == ClientSpec => ImplementsContract
  BY ClientProbeIsAProbe, RunCheckImplementsContract, PTL

-----------------------------------------------------------------------------
(* Initially nothing has been done for any call.                           *)
LEMMA InitClientInv == ClientInit => ClientInv
  <1> SUFFICES ASSUME ClientInit PROVE ClientInv
    OBVIOUS
  <1>1. CacheInv
    BY InitCacheInv DEF ClientInit
  <1>2. BodyTypeOK
    <2>1. kind \in [Probes -> Kinds \cup {None}]
      BY ClientProbeAssumption DEF ClientInit
    <2> QED
      BY <2>1 DEF ClientInit, PoolInit, BodyTypeOK, Body, BodyState, Exception, Outside,
                  OuterState, ClientState, JobState
  <1>3. ASSUME NEW c \in Calls PROVE BodyInv(c)
    <2>1. PICK k : k = KindOf(c)
      OBVIOUS
    <2>2. call[c].st = "idle" /\ call[c].expired = FALSE /\ call[c].cancelled = FALSE
      BY DEF ClientInit, Init, NoCall, NewCall
    <2>3. body[c].st = "out" /\ client[c] = "none" /\ job[c] = "none" /\ outer[c] = "none"
      BY DEF ClientInit, PoolInit, Outside
    <2> QED
      BY <2>1, <2>2, <2>3 DEF BodyInv, CallBodyInv, BeforeInv, OutInv, LeftBehind, OpeningInv,
                              UsingInv, ClosingInv, ThrownInv, OuterInv, PrevailsInv
  <1>4. QueueInv
    BY DEF ClientInit, PoolInit, QueueInv
  <1>5. \A p \in Probes : cfg[p] = None
    BY DEF ClientInit, Init
  <1> QED
    BY <1>1, <1>2, <1>3, <1>4, <1>5 DEF ClientInv

-----------------------------------------------------------------------------
(* The queue of the executor.                                              *)

(* The elements of a sequence without its i-th.                            *)
LEMMA RemovedElements ==
  ASSUME NEW S, NEW s \in Seq(S), NEW i \in 1..Len(s), NEW t, t = RemoveAt(s, i)
  PROVE  /\ t \in Seq(S) /\ DOMAIN t = 1..(Len(s) - 1)
         /\ \A j \in 1..(Len(s) - 1) : t[j] = IF j < i THEN s[j] ELSE s[j + 1]
  <1>1. Len(s) \in Nat /\ i \in Nat /\ 1 <= i /\ i <= Len(s)
    BY LenProperties
  <1>2. PICK a : a = SubSeq(s, 1, i - 1)
    OBVIOUS
  <1>3. a \in Seq(S) /\ Len(a) = i - 1 /\ \A j \in 1..(i - 1) : a[j] = s[j]
    BY <1>1, <1>2
  <1>4. PICK b : b = SubSeq(s, i + 1, Len(s))
    OBVIOUS
  <1>5. b \in Seq(S) /\ Len(b) = Len(s) - i /\ \A j \in 1..(Len(s) - i) : b[j] = s[j + i]
    BY <1>1, <1>4
  <1>6. t = a \o b
    BY <1>2, <1>4 DEF RemoveAt
  <1>7. /\ t \in Seq(S) /\ Len(t) = Len(a) + Len(b)
        /\ \A j \in 1..(Len(a) + Len(b)) :
              t[j] = IF j <= Len(a) THEN a[j] ELSE b[j - Len(a)]
    <2>1. a \in Seq(S) /\ b \in Seq(S)
      BY <1>3, <1>5
    <2>2. /\ a \o b \in Seq(S)
          /\ Len(a \o b) = Len(a) + Len(b)
          /\ \A j \in 1..(Len(a) + Len(b)) :
                (a \o b)[j] = IF j <= Len(a) THEN a[j] ELSE b[j - Len(a)]
      BY <2>1, ConcatProperties
    <2> QED
      BY <1>6, <2>2
  <1>8. Len(t) = Len(s) - 1 /\ DOMAIN t = 1..Len(t)
    BY <1>1, <1>3, <1>5, <1>7, LenProperties
  <1>9. ASSUME NEW j \in 1..(Len(s) - 1)
        PROVE  t[j] = IF j < i THEN s[j] ELSE s[j + 1]
    <2>1. CASE j < i
      <3>1. j \in 1..(i - 1) /\ j \in 1..(Len(a) + Len(b)) /\ j <= Len(a)
        BY <1>1, <1>3, <1>5, <2>1
      <3> QED
        BY <1>3, <1>7, <2>1, <3>1
    <2>2. CASE ~(j < i)
      <3>1. /\ j - (i - 1) \in 1..(Len(s) - i) /\ j \in 1..(Len(a) + Len(b))
            /\ ~(j <= Len(a)) /\ (j - (i - 1)) + i = j + 1 /\ j - Len(a) = j - (i - 1)
        BY <1>1, <1>3, <1>5, <2>2
      <3>2. t[j] = b[j - (i - 1)]
        BY <1>7, <3>1
      <3>3. b[j - (i - 1)] = s[(j - (i - 1)) + i]
        BY <1>5, <3>1
      <3> QED
        BY <2>2, <3>1, <3>2, <3>3
    <2> QED
      BY <2>1, <2>2
  <1> QED
    BY <1>7, <1>8, <1>9

(* A job is handed over once.                                              *)
LEMMA SubmitQueue ==
  ASSUME BodyTypeOK, QueueInv, NEW c \in Calls, job[c] # "queued", Submit(c)
  PROVE  /\ queue' \in Seq(Calls) /\ QueueInv'
         /\ job' = [job EXCEPT ![c] = "queued"]
  <1>1. job' = [job EXCEPT ![c] = "queued"] /\ queue' = Append(queue, c)
    BY DEF Submit
  <1>2. queue \in Seq(Calls) /\ job \in [Calls -> JobState]
    BY DEF BodyTypeOK
  <1>3. PICK n \in Nat : n = Len(queue) /\ DOMAIN queue = 1..n
    BY <1>2, LenProperties
  <1>4. /\ queue' \in Seq(Calls) /\ Len(queue') = n + 1
        /\ \A i \in 1..n : queue'[i] = queue[i]
        /\ queue'[n + 1] = c
    BY <1>1, <1>2, <1>3, AppendProperties
  <1>5. DOMAIN queue' = 1..(n + 1)
    BY <1>4, LenProperties
  <1>6. \A i \in 1..n : queue[i] \in Calls /\ queue[i] # c /\ job[queue[i]] = "queued"
    BY <1>2, <1>3, ElementOfSeq DEF QueueInv
  <1>7. job'[c] = "queued" /\ \A d \in Calls : d # c => job'[d] = job[d]
    BY <1>1, <1>2
  <1>8. \A i \in 1..(n + 1) : i \in 1..n \/ i = n + 1
    OBVIOUS
  <1>9. \A i \in DOMAIN queue' : job'[queue'[i]] = "queued"
    BY <1>4, <1>5, <1>6, <1>7, <1>8
  <1>10. ASSUME NEW d \in Calls, job'[d] = "queued"
         PROVE  \E i \in DOMAIN queue' : queue'[i] = d
    <2>1. CASE d = c
      <3>1. n + 1 \in 1..(n + 1)
        OBVIOUS
      <3> QED
        BY <1>4, <1>5, <2>1, <3>1
    <2>2. CASE d # c
      <3>1. PICK i \in 1..n : queue[i] = d
        BY <1>3, <1>7, <1>10, <2>2 DEF QueueInv
      <3>2. i \in 1..(n + 1)
        OBVIOUS
      <3> QED
        BY <1>4, <1>5, <3>1, <3>2
    <2> QED
      BY <2>1, <2>2
  <1>11. \A i, j \in DOMAIN queue' : queue'[i] = queue'[j] => i = j
    <2>1. \A i, j \in 1..n : queue[i] = queue[j] => i = j
      BY <1>3 DEF QueueInv
    <2> QED
      BY <1>4, <1>5, <1>6, <1>8, <2>1
  <1> QED
    BY <1>1, <1>4, <1>9, <1>10, <1>11 DEF QueueInv

(* A job that nobody waits for leaves the queue, if it has not started.    *)
LEMMA LetGoQueue ==
  ASSUME BodyTypeOK, QueueInv, NEW c \in Calls, LetGo(c)
  PROVE  /\ queue' \in Seq(Calls) /\ QueueInv'
         /\ job' = [job EXCEPT ![c] = IF job[c] = "queued" THEN "dropped" ELSE job[c]]
  <1>1. queue \in Seq(Calls) /\ job \in [Calls -> JobState]
    BY DEF BodyTypeOK
  <1>2. CASE job[c] # "queued"
    <2>1. job' = job /\ queue' = queue
      BY <1>2 DEF LetGo, poolVars
    <2> QED
      BY <1>1, <1>2, <2>1 DEF QueueInv
  <1>3. CASE job[c] = "queued"
    <2>1. PICK n \in Nat : n = Len(queue) /\ DOMAIN queue = 1..n
      BY <1>1, LenProperties
    <2>2. PICK k : k = CHOOSE i \in DOMAIN queue : queue[i] = c
      OBVIOUS
    <2>3. k \in 1..n /\ queue[k] = c
      <3>1. \E i \in DOMAIN queue : queue[i] = c
        BY <1>3 DEF QueueInv
      <3> QED
        BY <2>1, <2>2, <3>1
    <2>4. job' = [job EXCEPT ![c] = "dropped"] /\ queue' = RemoveAt(queue, k)
      BY <1>3, <2>2 DEF LetGo
    <2>5. /\ queue' \in Seq(Calls) /\ DOMAIN queue' = 1..(n - 1)
          /\ \A j \in 1..(n - 1) : queue'[j] = IF j < k THEN queue[j] ELSE queue[j + 1]
      BY <1>1, <2>1, <2>3, <2>4, RemovedElements
    <2>6. \A d \in Calls : d # c => job'[d] = job[d]
      BY <1>1, <2>4
    <2>7. \A i, j \in 1..n : queue[i] = queue[j] => i = j
      BY <2>1 DEF QueueInv
    <2>8. \A i \in 1..n : queue[i] \in Calls /\ job[queue[i]] = "queued"
      BY <1>1, <2>1, ElementOfSeq DEF QueueInv
    <2>9. ASSUME NEW j \in 1..(n - 1)
          PROVE  \E i \in 1..n : /\ i = IF j < k THEN j ELSE j + 1
                                 /\ i # k /\ queue'[j] = queue[i]
      <3>1. CASE j < k
        BY <2>5, <3>1
      <3>2. CASE ~(j < k)
        <4>1. j + 1 \in 1..n /\ j + 1 # k
          BY <2>3, <3>2
        <4> QED
          BY <2>5, <3>2, <4>1
      <3> QED
        BY <3>1, <3>2
    <2>10. ASSUME NEW j \in DOMAIN queue' PROVE job'[queue'[j]] = "queued"
      <3>1. PICK i \in 1..n : i # k /\ queue'[j] = queue[i]
        BY <2>5, <2>9
      <3> QED
        BY <2>3, <2>6, <2>7, <2>8, <3>1
    <2>11. ASSUME NEW d \in Calls, job'[d] = "queued"
           PROVE  \E j \in DOMAIN queue' : queue'[j] = d
      <3>1. d # c
        BY <1>1, <2>4, <2>11
      <3>2. PICK i \in 1..n : queue[i] = d
        BY <2>1, <2>6, <2>11, <3>1 DEF QueueInv
      <3>3. CASE i < k
        <4>1. i \in 1..(n - 1)
          BY <2>3, <3>3
        <4> QED
          BY <2>5, <3>2, <3>3, <4>1
      <3>4. CASE k < i
        <4>1. i - 1 \in 1..(n - 1) /\ ~(i - 1 < k) /\ (i - 1) + 1 = i
          BY <2>3, <3>4
        <4>2. queue'[i - 1] = queue[i]
          BY <2>5, <4>1
        <4> QED
          BY <2>5, <3>2, <4>1, <4>2
      <3>5. i # k
        BY <2>3, <3>1, <3>2
      <3> QED
        BY <2>3, <3>3, <3>4, <3>5
    <2>12. ASSUME NEW i \in DOMAIN queue', NEW j \in DOMAIN queue', queue'[i] = queue'[j]
           PROVE  i = j
      <3>1. i \in 1..(n - 1) /\ j \in 1..(n - 1)
        BY <2>5
      <3>2. PICK a \in 1..n : a = (IF i < k THEN i ELSE i + 1) /\ queue'[i] = queue[a]
        BY <2>9, <3>1
      <3>3. PICK b \in 1..n : b = (IF j < k THEN j ELSE j + 1) /\ queue'[j] = queue[b]
        BY <2>9, <3>1
      <3>4. a = b
        BY <2>7, <2>12, <3>2, <3>3
      <3> QED
        BY <2>3, <3>1, <3>2, <3>3, <3>4
    <2>13. QueueInv'
      BY <2>10, <2>11, <2>12 DEF QueueInv
    <2> QED
      BY <1>3, <2>4, <2>5, <2>13
  <1> QED
    BY <1>2, <1>3

(* A thread takes the first job.                                           *)
LEMMA PickUpQueue ==
  ASSUME BodyTypeOK, QueueInv, PickUp
  PROVE  \E c \in Calls : /\ job[c] = "queued" /\ job' = [job EXCEPT ![c] = "running"]
                          /\ queue' \in Seq(Calls) /\ QueueInv'
  <1>1. queue \in Seq(Calls) /\ job \in [Calls -> JobState] /\ queue # <<>>
    BY DEF BodyTypeOK, PickUp
  <1>2. PICK n \in Nat : n = Len(queue) /\ n > 0 /\ DOMAIN queue = 1..n
    BY <1>1, LenProperties, EmptySeq
  <1>3. PICK c \in Calls : c = Head(queue) /\ c = queue[1]
    BY <1>1, <1>2, HeadTailProperties
  <1>4. job' = [job EXCEPT ![c] = "running"] /\ queue' = Tail(queue)
    BY <1>3 DEF PickUp
  <1>5. /\ queue' \in Seq(Calls) /\ Len(queue') = n - 1
        /\ \A i \in 1..(n - 1) : queue'[i] = queue[i + 1]
    BY <1>1, <1>2, <1>4, HeadTailProperties
  <1>6. DOMAIN queue' = 1..(n - 1)
    BY <1>5, LenProperties
  <1>7. \A d \in Calls : d # c => job'[d] = job[d]
    BY <1>1, <1>4
  <1>8. \A i, j \in 1..n : queue[i] = queue[j] => i = j
    BY <1>2 DEF QueueInv
  <1>9. \A i \in 1..n : queue[i] \in Calls /\ job[queue[i]] = "queued"
    BY <1>1, <1>2, ElementOfSeq DEF QueueInv
  <1>10. \A i \in 1..(n - 1) : i + 1 \in 1..n /\ i + 1 # 1 /\ 1 \in 1..n
    OBVIOUS
  <1>11. ASSUME NEW i \in DOMAIN queue' PROVE job'[queue'[i]] = "queued"
    <2>1. queue'[i] = queue[i + 1] /\ i + 1 \in 1..n /\ queue[i + 1] # c
      BY <1>3, <1>5, <1>6, <1>8, <1>10
    <2> QED
      BY <1>7, <1>9, <2>1
  <1>12. ASSUME NEW d \in Calls, job'[d] = "queued"
         PROVE  \E i \in DOMAIN queue' : queue'[i] = d
    <2>1. d # c
      BY <1>1, <1>4, <1>12
    <2>2. PICK i \in 1..n : queue[i] = d
      BY <1>2, <1>7, <1>12, <2>1 DEF QueueInv
    <2>3. i # 1
      BY <1>3, <2>1, <2>2
    <2>4. i - 1 \in 1..(n - 1) /\ (i - 1) + 1 = i
      BY <2>3
    <2>5. queue'[i - 1] = queue[i]
      BY <1>5, <2>4
    <2> QED
      BY <1>6, <2>2, <2>4, <2>5
  <1>13. ASSUME NEW i \in DOMAIN queue', NEW j \in DOMAIN queue', queue'[i] = queue'[j]
         PROVE  i = j
    <2>1. i \in 1..(n - 1) /\ j \in 1..(n - 1)
      BY <1>6
    <2>2. i + 1 = j + 1
      BY <1>5, <1>8, <1>10, <1>13, <2>1
    <2> QED
      BY <2>1, <2>2
  <1>14. job[c] = "queued"
    BY <1>2, <1>3, <1>9
  <1> QED
    BY <1>4, <1>5, <1>11, <1>12, <1>13, <1>14 DEF QueueInv

(* A job that was running is not in the queue.                             *)
LEMMA FinishesQueue ==
  ASSUME BodyTypeOK, QueueInv, NEW c \in Calls, NEW outcome, Finishes(c, outcome)
  PROVE  /\ queue' \in Seq(Calls) /\ QueueInv'
         /\ job[c] = "running" /\ outcome \in {"returned", "raised"}
         /\ job' = [job EXCEPT ![c] = outcome]
  <1>1. queue \in Seq(Calls) /\ job \in [Calls -> JobState]
    BY DEF BodyTypeOK
  <1>2. /\ job[c] = "running" /\ outcome \in {"returned", "raised"}
        /\ job' = [job EXCEPT ![c] = outcome] /\ queue' = queue
    BY DEF Finishes
  <1>3. \A i \in DOMAIN queue : queue[i] \in Calls
    BY <1>1, ElementOfSeq, LenProperties
  <1>4. job'[c] # "queued" /\ \A d \in Calls : d # c => job'[d] = job[d]
    BY <1>1, <1>2
  <1>5. \A i \in DOMAIN queue : queue[i] # c
    BY <1>2 DEF QueueInv
  <1> QED
    BY <1>1, <1>2, <1>3, <1>4, <1>5 DEF QueueInv

-----------------------------------------------------------------------------
(* What the steps of run_check do to the record of a call.                 *)

(* Call c becomes x; the marks of timer and cancellation stay.             *)
Becomes(c, x) ==
    /\ call' = [call EXCEPT ![c] = x]
    /\ x.probe = call[c].probe
    /\ x.expired = call[c].expired
    /\ x.cancelled = call[c].cancelled
    /\ UNCHANGED cfg

(* A call that is served from the cache has no body and gets none.         *)
LEMMA ServedCall ==
  ASSUME CacheInv, NEW c \in Calls, ServeCached(c)
  PROVE  call[c].st = "ready" /\ \E x : Becomes(c, x) /\ x.st = "returned"
  <1>1. call[c] \in Call /\ call[c].st = "ready" /\ UNCHANGED cfg
    BY DEF ServeCached, CacheInv, TypeOK
  <1>2. PICK r : call' = [call EXCEPT ![c].st = "returned", ![c].result = r, ![c].end = now]
    BY DEF ServeCached
  <1> DEFINE x == [call[c] EXCEPT !.st = "returned", !.result = r, !.end = now]
  <1>3. call' = [call EXCEPT ![c] = x]
    BY ONLY <1>2
  <1>4. /\ x.st = "returned" /\ x.probe = call[c].probe
        /\ x.expired = call[c].expired /\ x.cancelled = call[c].cancelled
    BY <1>1 DEF Call
  <1> HIDE DEF x
  <1> QED
    BY <1>1, <1>3, <1>4 DEF Becomes

(* A check begins with its timer unexpired, unless its timeout is 0.       *)
LEMMA StartedCall ==
  ASSUME CacheInv, NEW c \in Calls, StartCheck(c)
  PROVE  /\ call[c].st = "ready" /\ UNCHANGED cfg
         /\ \E x : /\ call' = [call EXCEPT ![c] = x]
                   /\ x.st = "checking" /\ x.probe = call[c].probe
                   /\ cfg[call[c].probe].timeout # 0 => x.expired = FALSE
                   /\ x.cancelled = call[c].cancelled
  <1>1. call[c] \in Call /\ call[c].st = "ready" /\ UNCHANGED cfg
    BY DEF StartCheck, CacheInv, TypeOK
  <1>2. PICK e \in BOOLEAN :
          /\ call' = [call EXCEPT ![c].st = "checking", ![c].start = now, ![c].expired = e]
          /\ e = (cfg[call[c].probe].timeout = 0)
    BY Zenon DEF StartCheck
  <1> DEFINE x == [call[c] EXCEPT !.st = "checking", !.start = now, !.expired = e]
  <1>3. call' = [call EXCEPT ![c] = x]
    BY ONLY <1>2
  <1>4. /\ x.st = "checking" /\ x.probe = call[c].probe
        /\ x.expired = e /\ x.cancelled = call[c].cancelled
    BY <1>1 DEF Call
  <1> HIDE DEF x
  <1>5. cfg[call[c].probe].timeout # 0 => e = FALSE
    BY <1>2, Zenon
  <1> QED
    BY <1>1, <1>3, <1>4, <1>5

(* A check ends with the outcome its body gave it.                         *)
LEMMA FinishedCall ==
  ASSUME CacheInv, NEW c \in Calls,
         NEW ok \in BOOLEAN, NEW error \in {"exception", "probe timeout", None},
         Finish(c, ok, error)
  PROVE  /\ call[c].st = "checking"
         /\ \E x : Becomes(c, x) /\ x.st = "returned" /\ x.result.ok = ok
  <1>1. PICK r : r = NewResult(c, ok, error)
    OBVIOUS
  <1>2. /\ call[c] \in Call /\ call[c].st = "checking" /\ UNCHANGED cfg
        /\ call' = [call EXCEPT ![c].st = "returned", ![c].result = r, ![c].end = now]
    BY <1>1 DEF Finish, CacheInv, TypeOK
  <1>3. r.ok = ok
    BY <1>1, <1>2, NewResultFacts
  <1> DEFINE x == [call[c] EXCEPT !.st = "returned", !.result = r, !.end = now]
  <1>4. call' = [call EXCEPT ![c] = x]
    BY ONLY <1>2
  <1>5. /\ x.st = "returned" /\ x.probe = call[c].probe /\ x.result = r
        /\ x.expired = call[c].expired /\ x.cancelled = call[c].cancelled
    BY <1>2 DEF Call
  <1> HIDE DEF x
  <1> QED
    BY <1>2, <1>3, <1>4, <1>5 DEF Becomes

(* A check ends with the CancelledError of its body.                       *)
LEMMA CheckCancelledCall ==
  ASSUME CacheInv, NEW c \in Calls, CheckCancelled(c)
  PROVE  /\ call[c].st = "checking"
         /\ \E x : Becomes(c, x) /\ x.st = "cancelled"
  <1> DEFINE x == [call[c] EXCEPT !.st = "cancelled", !.end = now]
  <1>1. /\ call[c] \in Call /\ call[c].st = "checking" /\ UNCHANGED cfg
        /\ call' = [call EXCEPT ![c] = x]
    BY DEF CheckCancelled, CacheInv, TypeOK
  <1>2. /\ x.st = "cancelled" /\ x.probe = call[c].probe
        /\ x.expired = call[c].expired /\ x.cancelled = call[c].cancelled
    BY <1>1 DEF Call
  <1> HIDE DEF x
  <1> QED
    BY <1>1, <1>2 DEF Becomes

(* A timer that fires changes nothing about its check but that it has      *)
(* fired.                                                                  *)
LEMMA TimedCall ==
  ASSUME CacheInv, NEW c \in Calls, TimerFires(c)
  PROVE  /\ call[c].st = "checking" /\ UNCHANGED cfg
         /\ \E x : /\ call' = [call EXCEPT ![c] = x]
                   /\ x.st = "checking" /\ x.probe = call[c].probe
  <1> DEFINE x == [call[c] EXCEPT !.expired = TRUE]
  <1>1. /\ call[c] \in Call /\ call[c].st = "checking" /\ UNCHANGED cfg
        /\ call' = [call EXCEPT ![c] = x]
    BY DEF TimerFires, CacheInv, TypeOK
  <1>2. x.st = "checking" /\ x.probe = call[c].probe
    BY <1>1 DEF Call
  <1> HIDE DEF x
  <1> QED
    BY <1>1, <1>2

(* A cancellation reaches calls that are under way and no others.          *)
LEMMA CancelCall ==
  ASSUME CacheInv, NEW S \in SUBSET Calls, Cancel(S), NEW c \in Calls
  PROVE  /\ UNCHANGED cfg
         /\ call'[c].probe = call[c].probe
         /\ call[c].st \notin {"ready", "checking"} \/ c \notin S => call'[c] = call[c]
         /\ call[c].st = "ready" => call'[c].st \in {"ready", "cancelled"}
         /\ call[c].st = "ready" => /\ call'[c].expired = call[c].expired
                                    /\ call'[c].cancelled = call[c].cancelled
         /\ call[c].st = "checking" => call'[c].st = "checking"
  <1>1. /\ call[c] \in Call /\ UNCHANGED cfg
        /\ call'[c] = IF c \in S THEN CancelledCall(c) ELSE call[c]
    BY DEF Cancel, CacheInv, TypeOK
  <1>2. CASE c \notin S
    BY <1>1, <1>2
  <1>3. CASE c \in S /\ call[c].st \notin {"ready", "checking"}
    BY <1>1, <1>3 DEF CancelledCall
  <1>4. CASE c \in S /\ call[c].st = "ready"
    <2> DEFINE x == [call[c] EXCEPT !.st = "cancelled", !.end = now]
    <2>1. call'[c] = x
      BY <1>1, <1>4 DEF CancelledCall
    <2>2. /\ x.st = "cancelled" /\ x.probe = call[c].probe
          /\ x.expired = call[c].expired /\ x.cancelled = call[c].cancelled
      BY <1>1 DEF Call
    <2> HIDE DEF x
    <2> QED
      BY <1>1, <1>4, <2>1, <2>2
  <1>5. CASE c \in S /\ call[c].st = "checking"
    <2> DEFINE x == [call[c] EXCEPT !.cancelled = TRUE]
    <2>1. call'[c] = x
      BY <1>1, <1>5 DEF CancelledCall
    <2>2. x.st = call[c].st /\ x.probe = call[c].probe
      BY <1>1 DEF Call
    <2> HIDE DEF x
    <2> QED
      BY <1>1, <1>5, <2>1, <2>2
  <1> QED
    BY <1>2, <1>3, <1>4, <1>5


(* What run_check makes of the end of a body: with a CancelledError there  *)
(* is a result only of a call that nobody cancelled, and without one or    *)
(* another exception, and only then, it may be good.                       *)
LEMMA EndedCall ==
  ASSUME CacheInv, NEW c \in Calls, NEW raised, RunCheckEnds(c, raised)
  PROVE  /\ call[c].st = "checking"
         /\ \E x : /\ Becomes(c, x) /\ x.st \in {"returned", "cancelled"}
                   /\ x.st = "returned" /\ raised = "none" => x.result.ok = TRUE
                   /\ x.st = "returned" /\ raised # "none" => x.result.ok = FALSE
                   /\ x.st = "returned" /\ raised = "cancelled" =>
                        call[c].cancelled = FALSE
  <1>1. ASSUME raised \in {"none", "false"}, CheckAnswers(c, raised = "none")
        PROVE  /\ call[c].st = "checking"
               /\ \E x : /\ Becomes(c, x) /\ x.st = "returned"
                         /\ raised = "none" => x.result.ok = TRUE
                         /\ raised # "none" => x.result.ok = FALSE
    <2>1. PICK ok \in BOOLEAN : Finish(c, ok, None) /\ ok = (raised = "none")
      BY <1>1, Zenon DEF CheckAnswers
    <2>2. (raised = "none" => ok = TRUE) /\ (raised # "none" => ok = FALSE)
      BY <2>1, Zenon
    <2>3. None \in {"exception", "probe timeout", None}
      OBVIOUS
    <2> QED
      BY <2>1, <2>2, <2>3, FinishedCall
  <1>2. ASSUME NEW error \in {"exception", "probe timeout"}, Finish(c, FALSE, error)
        PROVE  /\ call[c].st = "checking"
               /\ \E x : Becomes(c, x) /\ x.st = "returned" /\ x.result.ok = FALSE
    BY <1>2, FinishedCall
  <1>3. CASE raised \in {"none", "false"} /\ CheckAnswers(c, raised = "none")
    BY <1>1, <1>3
  <1>4. CASE raised = "exception" /\ CheckRaises(c)
    BY <1>2, <1>4 DEF CheckRaises
  <1>5. CASE raised = "timeout" /\ CheckRaisesTimeout(c)
    BY <1>2, <1>5 DEF CheckRaisesTimeout
  <1>6. CASE raised = "cancelled" /\ CheckTimesOut(c)
    <2>1. Finish(c, FALSE, "probe timeout") /\ ~call[c].cancelled
      BY <1>6 DEF CheckTimesOut
    <2>2. call[c].cancelled = FALSE
      BY <2>1 DEF CacheInv, TypeOK, Call
    <2> QED
      BY <1>2, <1>6, <2>1, <2>2
  <1>7. CASE raised = "cancelled" /\ CheckCancelled(c)
    BY <1>7, CheckCancelledCall
  <1> QED
    BY <1>3, <1>4, <1>5, <1>6, <1>7 DEF RunCheckEnds

-----------------------------------------------------------------------------
(* What is known of call c before a step; and what it becomes in it.       *)
Stands(c, x, b, s, j, k, o) ==
    /\ x = call[c] /\ b = body[c] /\ s = client[c] /\ j = job[c] /\ k = KindOf(c)
    /\ o = outer[c]
    /\ b \in Body /\ s \in ClientState /\ j \in JobState /\ o \in OuterState
    /\ CallBodyInv(x, b, s, j, k, o)
    /\ call = [call EXCEPT ![c] = x] /\ body = [body EXCEPT ![c] = b]
    /\ client = [client EXCEPT ![c] = s] /\ job = [job EXCEPT ![c] = j]
    /\ outer = [outer EXCEPT ![c] = o]
    /\ queue \in Seq(Calls) /\ QueueInv /\ BodyTypeOK /\ CacheInv
    /\ x.st # "idle" => k \in Kinds

MovesTo(c, x, b, s, j, o) ==
    /\ x.probe = call[c].probe
    /\ b \in Body /\ s \in ClientState /\ j \in JobState /\ o \in OuterState
    /\ call' = [call EXCEPT ![c] = x]
    /\ body' = [body EXCEPT ![c] = b]
    /\ client' = [client EXCEPT ![c] = s]
    /\ job' = [job EXCEPT ![c] = j]
    /\ outer' = [outer EXCEPT ![c] = o]
    /\ queue' \in Seq(Calls) /\ QueueInv'
    /\ UNCHANGED <<cfg, python, kind>>

(* Every call stands somewhere: the invariant, seen from one call.         *)
LEMMA StandsSomewhere ==
  ASSUME ClientInv, NEW c \in Calls
  PROVE  \E x, b, s, j, k, o : Stands(c, x, b, s, j, k, o)
  <1>1. /\ call \in [Calls -> Call] /\ body \in [Calls -> Body]
        /\ client \in [Calls -> ClientState] /\ job \in [Calls -> JobState]
        /\ outer \in [Calls -> OuterState]
        /\ queue \in Seq(Calls)
    BY DEF ClientInv, BodyTypeOK, CacheInv, TypeOK
  <1>2. QueueInv /\ BodyTypeOK /\ CacheInv
    BY DEF ClientInv
  <1>3. CallBodyInv(call[c], body[c], client[c], job[c], KindOf(c), outer[c])
    BY DEF ClientInv, BodyInv
  <1>4. call[c].st # "idle" => KindOf(c) \in Kinds
    BY DEF ClientInv, CacheInv, CallInv, KindOf
  <1>5. /\ call = [call EXCEPT ![c] = call[c]] /\ body = [body EXCEPT ![c] = body[c]]
        /\ client = [client EXCEPT ![c] = client[c]] /\ job = [job EXCEPT ![c] = job[c]]
        /\ outer = [outer EXCEPT ![c] = outer[c]]
    BY <1>1
  <1>6. /\ body[c] \in Body /\ client[c] \in ClientState /\ job[c] \in JobState
        /\ outer[c] \in OuterState
    BY <1>1
  <1> QED
    BY <1>1, <1>2, <1>3, <1>4, <1>5, <1>6 DEF Stands

(* A step of one call leaves the others as they are.                       *)
LEMMA OneCall ==
  ASSUME NEW c \in Calls, NEW x, NEW b, NEW s, NEW j, NEW o,
         ClientInv, CacheInv', MovesTo(c, x, b, s, j, o), CallBodyInv(x, b, s, j, KindOf(c), o)
  PROVE  ClientInv'
  <1> USE DEF MovesTo
  <1>1. /\ call \in [Calls -> Call] /\ body \in [Calls -> Body]
        /\ client \in [Calls -> ClientState] /\ job \in [Calls -> JobState]
        /\ outer \in [Calls -> OuterState]
        /\ kind \in [Probes -> Kinds \cup {None}] /\ python \in {"3.11", "3.12"}
    BY DEF ClientInv, BodyTypeOK, CacheInv, TypeOK
  <1>2. BodyTypeOK'
    BY <1>1 DEF BodyTypeOK
  <1>3. BodyInv(c)'
    <2>1. /\ call'[c] = x /\ body'[c] = b /\ client'[c] = s /\ job'[c] = j
          /\ outer'[c] = o
      BY <1>1
    <2>2. KindOf(c)' = KindOf(c)
      BY <2>1 DEF KindOf
    <2> QED
      BY <2>1, <2>2 DEF BodyInv
  <1>4. ASSUME NEW d \in Calls, d # c PROVE BodyInv(d)'
    <2>1. /\ call'[d] = call[d] /\ body'[d] = body[d]
          /\ client'[d] = client[d] /\ job'[d] = job[d] /\ outer'[d] = outer[d]
      BY <1>1, <1>4
    <2>2. KindOf(d)' = KindOf(d)
      BY <2>1 DEF KindOf
    <2>3. BodyInv(d)
      BY DEF ClientInv
    <2> QED
      BY <2>1, <2>2, <2>3 DEF BodyInv
  <1>5. \A p \in Probes : cfg'[p] # None => kind'[p] \in Kinds
    BY DEF ClientInv
  <1> QED
    BY <1>2, <1>3, <1>4, <1>5 DEF ClientInv

(* What is left alone.                                                     *)
LEMMA PoolStays ==
  ASSUME NEW c, NEW x, NEW b, NEW s, NEW j, NEW k, NEW o,
         Stands(c, x, b, s, j, k, o), UNCHANGED pool
  PROVE  job' = [job EXCEPT ![c] = j] /\ queue' \in Seq(Calls) /\ QueueInv'
  BY DEF Stands, pool, QueueInv

(* What a step changes in neither version of wait_for() leaves the outer   *)
(* task alone.                                                             *)
LEMMA OuterStays ==
  ASSUME NEW c, NEW x, NEW b, NEW s, NEW j, NEW k, NEW o,
         Stands(c, x, b, s, j, k, o), UNCHANGED around
  PROVE  /\ outer' = [outer EXCEPT ![c] = o] /\ o \in OuterState
         /\ UNCHANGED <<python, kind>>
  BY DEF Stands, around

(* A call without a body is at no await of it.                             *)
LEMMA OutsideBody == Outside \in Body /\ Outside.st = "out"
  BY DEF Outside, Body, BodyState, Exception

(* A body that is under way belongs to a call that has not returned, and   *)
(* unless wait_for() has left it, to one that is checking.                 *)
LEMMA InsideFacts ==
  ASSUME NEW c, NEW x, NEW b, NEW s, NEW j, NEW k, NEW o, Stands(c, x, b, s, j, k, o),
         b.st \notin {"out", "over"}
  PROVE  /\ x.st \notin {"idle", "ready", "returned"} /\ k \in Kinds
         /\ o = "none" => x.st = "checking"
  <1>1. CallBodyInv(x, b, s, j, k, o) /\ (x.st # "idle" => k \in Kinds)
    BY DEF Stands
  <1>2. x.st \notin {"idle", "ready"}
    BY <1>1 DEF CallBodyInv, BeforeInv
  <1>3. x.st # "checking" => o = "leaving"
    BY <1>1 DEF CallBodyInv, OuterInv
  <1>4. x.st = "returned" => o = "none"
    BY <1>1 DEF CallBodyInv, PrevailsInv
  <1> QED
    BY <1>1, <1>2, <1>3, <1>4

(* A cached result is served before anything was done for the call.        *)
LEMMA ServeClientInv ==
  ASSUME ClientInv, CacheInv', NEW c \in Calls, ServeCached(c), UNCHANGED <<bodyVars, pool>>
  PROVE  ClientInv'
  <1>1. PICK x, b, s, j, k, o : Stands(c, x, b, s, j, k, o)
    BY StandsSomewhere
  <1>2. PICK y : Becomes(c, y) /\ y.st = "returned" /\ x.st = "ready"
    BY <1>1, ServedCall DEF Stands
  <1>3. /\ y.expired = FALSE /\ y.cancelled = FALSE
        /\ b.st = "out" /\ s = "none" /\ j = "none" /\ o = "none"
    BY <1>1, <1>2 DEF Stands, CallBodyInv, BeforeInv, OuterInv, Becomes
  <1>4. CallBodyInv(y, b, s, j, k, o)
    BY <1>2, <1>3 DEF CallBodyInv, BeforeInv, OutInv, LeftBehind, OpeningInv, UsingInv,
                      ClosingInv, ThrownInv, OuterInv, PrevailsInv
  <1>5. UNCHANGED pool /\ UNCHANGED around /\ UNCHANGED <<body, client>>
    BY DEF bodyVars
  <1>6. MovesTo(c, y, b, s, j, o)
    BY <1>1, <1>2, <1>5, PoolStays, OuterStays DEF Stands, Becomes, MovesTo
  <1>7. k = KindOf(c)
    BY <1>1 DEF Stands
  <1> QED
    BY <1>4, <1>6, <1>7, OneCall

(* The body is entered, unless a timeout of 0 keeps it from that.          *)
LEMMA EnterClientInv ==
  ASSUME ClientInv, CacheInv', NEW c \in Calls, EnterCheck(c)
  PROVE  ClientInv'
  <1>1. PICK x, b, s, j, k, o : Stands(c, x, b, s, j, k, o)
    BY StandsSomewhere
  <1>2. PICK y : /\ call' = [call EXCEPT ![c] = y] /\ x.st = "ready" /\ UNCHANGED cfg
                 /\ y.st = "checking" /\ y.probe = call[c].probe
                 /\ cfg[call[c].probe].timeout # 0 => y.expired = FALSE
                 /\ y.cancelled = x.cancelled
    BY <1>1, StartedCall DEF Stands, EnterCheck
  <1>3. /\ x.cancelled = FALSE /\ b.st = "out" /\ s = "none" /\ j = "none" /\ o = "none"
        /\ k \in Kinds
    BY <1>1, <1>2 DEF Stands, CallBodyInv, BeforeInv, OuterInv
  <1>4. k = KindOf(c) /\ UNCHANGED <<python, kind>>
    BY <1>1 DEF Stands, EnterCheck
  <1>5. CASE TimeoutOf(c) = 0
    <2>1. UNCHANGED <<body, outer, client, pool>>
      BY <1>5 DEF EnterCheck
    <2>2. CallBodyInv(y, b, s, j, k, o)
      BY <1>2, <1>3 DEF CallBodyInv, BeforeInv, OutInv, LeftBehind, OpeningInv, UsingInv,
                        ClosingInv, ThrownInv, OuterInv, PrevailsInv
    <2>3. MovesTo(c, y, b, s, j, o)
      BY <1>1, <1>2, <1>4, <2>1, PoolStays DEF Stands, MovesTo
    <2> QED
      BY <1>4, <2>2, <2>3, OneCall
  <1>6. CASE TimeoutOf(c) # 0
    <2>1. PICK st \in {"opening", "using"} :
            st = IF k \in {"connect", "start", "socket", "channel"} THEN "opening" ELSE "using"
      OBVIOUS
    <2>2. PICK t \in {"open", "none"} :
            t = IF k \in {"start", "plain", "thread"} THEN "open" ELSE "none"
      OBVIOUS
    <2>3. PICK i \in {"queued", "none"} : i = IF k = "sync" THEN "queued" ELSE "none"
      OBVIOUS
    <2>4. PICK a : a = [st |-> st, raised |-> "none", thrown |-> FALSE]
      OBVIOUS
    <2>5. PICK w \in {"waiting", "none"} : w = IF InTask(c) THEN "waiting" ELSE "none"
      OBVIOUS
    <2>6. /\ body' = [body EXCEPT ![c] = a]
          /\ outer' = [outer EXCEPT ![c] = w]
          /\ client' = [client EXCEPT ![c] = t]
          /\ IF k = "sync" THEN Submit(c) ELSE UNCHANGED pool
      BY <1>4, <1>6, <2>1, <2>2, <2>4, <2>5 DEF EnterCheck, Suspend, ClientBecomes
    <2>7. /\ st \in BodyState /\ "none" \in Exception /\ t \in ClientState /\ i \in JobState
          /\ w \in OuterState
      BY <2>1, <2>2, <2>3, <2>5 DEF BodyState, Exception, ClientState, JobState, OuterState
    <2>8. a \in Body /\ a.st = st /\ a.raised = "none" /\ a.thrown = FALSE
      BY ONLY <2>4, <2>7 DEF Body
    <2>9. job' = [job EXCEPT ![c] = i] /\ queue' \in Seq(Calls) /\ QueueInv'
      <3>1. CASE k = "sync"
        BY <1>1, <1>3, <2>3, <2>6, <3>1, SubmitQueue DEF Stands
      <3>2. CASE k # "sync"
        BY <1>1, <1>3, <2>3, <2>6, <3>2, PoolStays
      <3> QED
        BY <3>1, <3>2
    <2>10. CallBodyInv(y, a, t, i, k, w)
      <3>1. y.expired = FALSE /\ y.cancelled = FALSE
        BY <1>2, <1>3, <1>6 DEF TimeoutOf
      <3> QED
        BY <1>2, <1>3, <2>1, <2>2, <2>3, <2>5, <2>8, <3>1
        DEF CallBodyInv, BeforeInv, OutInv, OpeningInv, UsingInv, ClosingInv, ThrownInv,
            Untold, OuterInv, PrevailsInv, Kinds
    <2>11. MovesTo(c, y, a, t, i, w)
      BY <1>2, <1>4, <2>6, <2>7, <2>8, <2>9 DEF MovesTo
    <2> QED
      BY <1>4, <2>10, <2>11, OneCall
  <1> QED
    BY <1>5, <1>6

(* What a client and a job may be while a body is suspended at st.         *)
Fits(st, t, i, k) ==
    \A a \in Body : a.st = st => /\ OutInv(a, t, i, k) /\ OpeningInv(a, t, i, k)
                                 /\ UsingInv(a, t, i, k) /\ ClosingInv(a, t, i, k)

(* At the await of a body that proceeds, nobody has told it to stop, or it *)
(* closes its client for that reason.                                      *)
LEMMA RunsFacts ==
  ASSUME NEW c, NEW x, NEW b, NEW s, NEW j, NEW k, NEW o, Stands(c, x, b, s, j, k, o),
         NEW st \in BodyState \ {"out", "over"}, Runs(c, st)
  PROVE  /\ b.st = st
         /\ \/ Untold(x, o)
            \/ b.st = "closing" /\ b.raised = "cancelled" /\ k # "socket"
  <1>1. b.st = st /\ ~b.thrown /\ b \in Body
    BY DEF Stands, Runs, At
  <1>2. b.thrown = FALSE
    BY <1>1 DEF Body
  <1>3. ThrownInv(x, b, k, o)
    BY DEF Stands, CallBodyInv
  <1> QED
    BY <1>1, <1>2, <1>3 DEF ThrownInv

(* The body goes on to another await.                                      *)
LEMMA SuspendClientInv ==
  ASSUME ClientInv, CacheInv', NEW c \in Calls,
         NEW x, NEW b, NEW s, NEW j, NEW k, NEW o, Stands(c, x, b, s, j, k, o),
         b.st \notin {"out", "over"},
         NEW st \in BodyState \ {"out", "over"}, NEW raised \in Exception,
         NEW t \in ClientState, NEW i \in JobState,
         Suspend(c, st, raised), ClientBecomes(c, t), UNCHANGED vars, UNCHANGED around,
         job' = [job EXCEPT ![c] = i], queue' \in Seq(Calls), QueueInv',
         \/ Untold(x, o)
         \/ st = "closing" /\ raised = "cancelled" /\ k # "socket",
         Fits(st, t, i, k)
  PROVE  ClientInv'
  <1>1. PICK a : a = [st |-> st, raised |-> raised, thrown |-> FALSE]
    OBVIOUS
  <1>2. a \in Body /\ a.st = st /\ a.raised = raised /\ a.thrown = FALSE
    BY ONLY <1>1, st \in BodyState, raised \in Exception DEF Body
  <1>3. MovesTo(c, x, a, t, i, o)
    BY <1>1, <1>2, OuterStays DEF MovesTo, Stands, Suspend, ClientBecomes, vars
  <1>4. x.st \notin {"idle", "ready", "returned"}
    BY InsideFacts
  <1>5. OuterInv(x, a, o)
    BY <1>2 DEF Stands, CallBodyInv, OuterInv
  <1>6. ThrownInv(x, a, k, o)
    BY <1>2 DEF ThrownInv
  <1>7. CallBodyInv(x, a, t, i, k, o)
    BY <1>2, <1>4, <1>5, <1>6 DEF Fits, CallBodyInv, BeforeInv, PrevailsInv
  <1>8. k = KindOf(c)
    BY DEF Stands
  <1> QED
    BY <1>3, <1>7, <1>8, OneCall

(* The body is over, with its call or in a task of its own.                *)
LEMMA LeaveClientInv ==
  ASSUME ClientInv, CacheInv', NEW c \in Calls,
         NEW x, NEW b, NEW s, NEW j, NEW k, NEW o, Stands(c, x, b, s, j, k, o),
         b.st \notin {"out", "over"},
         NEW raised \in Exception, NEW t \in ClientState, NEW i \in JobState,
         Leave(c, raised), client' = [client EXCEPT ![c] = t],
         job' = [job EXCEPT ![c] = i], queue' \in Seq(Calls), QueueInv',
         \/ Untold(x, o)
         \/ raised # "none" /\ (raised = "cancelled" \/ t = "abandoned"),
         LeftBehind(t, i, k)
  PROVE  ClientInv'
  <1>1. k = KindOf(c) /\ x = call[c] /\ o = outer[c] /\ CacheInv
    BY DEF Stands
  <1>2. /\ UNCHANGED around
        /\ outer' = [outer EXCEPT ![c] = o] /\ o \in OuterState /\ UNCHANGED <<python, kind>>
    BY OuterStays DEF Leave
  <1>3. CASE o = "none"
    <2>1. body' = [body EXCEPT ![c] = Outside] /\ RunCheckEnds(c, raised)
      BY <1>1, <1>3 DEF Leave
    <2>2. PICK y : /\ Becomes(c, y) /\ y.st \in {"returned", "cancelled"}
                   /\ y.st = "returned" /\ raised # "none" => y.result.ok = FALSE
                   /\ y.st = "returned" /\ raised = "cancelled" => call[c].cancelled = FALSE
      BY <1>1, <2>1, EndedCall
    <2>3. PICK a \in Body : a = Outside /\ a.st = "out"
      BY OutsideBody
    <2>4. MovesTo(c, y, a, t, i, o)
      BY <1>2, <2>1, <2>2, <2>3 DEF MovesTo, Becomes
    <2>5. y.expired = x.expired /\ y.cancelled = x.cancelled
      BY <1>1, <2>2 DEF Becomes
    <2>6. PrevailsInv(y, a, t, o)
      BY <1>1, <1>3, <2>2, <2>5 DEF PrevailsInv, Untold
    <2>7. OuterInv(y, a, o) /\ ThrownInv(y, a, k, o)
      BY <1>3, <2>3 DEF OuterInv, ThrownInv
    <2>8. CallBodyInv(y, a, t, i, k, o)
      BY <2>2, <2>3, <2>6, <2>7
      DEF CallBodyInv, BeforeInv, OutInv, OpeningInv, UsingInv, ClosingInv
    <2> QED
      BY <1>1, <2>4, <2>8, OneCall
  <1>4. CASE o # "none"
    <2>1. Suspend(c, "over", raised) /\ UNCHANGED vars
      BY <1>1, <1>4 DEF Leave
    <2>2. PICK a : a = [st |-> "over", raised |-> raised, thrown |-> FALSE]
      OBVIOUS
    <2>3. "over" \in BodyState
      BY DEF BodyState
    <2>4. a \in Body /\ a.st = "over" /\ a.raised = raised /\ a.thrown = FALSE
      BY ONLY <2>2, <2>3, raised \in Exception DEF Body
    <2>5. MovesTo(c, x, a, t, i, o)
      BY <1>2, <2>1, <2>2, <2>4 DEF MovesTo, Stands, Suspend, vars
    <2>6. x.st \notin {"idle", "ready", "returned"}
      BY InsideFacts
    <2>7. o \in {"stopping", "leaving"} => raised # "none"
      BY DEF Untold
    <2>8. OuterInv(x, b, o)
      BY DEF Stands, CallBodyInv
    <2>9. OuterInv(x, a, o)
      BY <1>4, <2>4, <2>7, <2>8 DEF OuterInv
    <2>10. CallBodyInv(x, a, t, i, k, o)
      BY <2>4, <2>6, <2>9
      DEF CallBodyInv, BeforeInv, OutInv, OpeningInv, UsingInv, ClosingInv, ThrownInv,
          PrevailsInv
    <2> QED
      BY <1>1, <2>5, <2>10, OneCall
  <1> QED
    BY <1>3, <1>4


(* The client has been opened, or opening it has ended otherwise.          *)
LEMMA OpenedClientInv ==
  ASSUME ClientInv, CacheInv', NEW c \in Calls, Opened(c)
  PROVE  ClientInv'
  <1>1. PICK x, b, s, j, k, o : Stands(c, x, b, s, j, k, o)
    BY StandsSomewhere
  <1>2. Runs(c, "opening") /\ UNCHANGED vars /\ UNCHANGED around /\ UNCHANGED pool
    BY DEF Opened
  <1>3. "opening" \in BodyState \ {"out", "over"}
    BY DEF BodyState
  <1>4. b.st = "opening" /\ Untold(x, o)
    BY <1>1, <1>2, <1>3, RunsFacts
  <1>5. k = KindOf(c) /\ j = "none" /\ k \in {"connect", "start", "socket", "channel"}
    BY <1>1, <1>4 DEF Stands, CallBodyInv, OpeningInv
  <1>6. job' = [job EXCEPT ![c] = j] /\ queue' \in Seq(Calls) /\ QueueInv'
    BY <1>1, <1>2, PoolStays
  <1>7. j \in JobState /\ "none" \in Exception /\ {"open", "closing"} \subseteq ClientState
        /\ {"closing", "using"} \subseteq BodyState \ {"out", "over"}
    BY <1>5 DEF JobState, Exception, ClientState, BodyState
  <1>8. CASE k \in {"socket", "channel"}
    <2>1. Suspend(c, "closing", "none") /\ ClientBecomes(c, "closing")
      BY <1>5, <1>8 DEF Opened
    <2>2. Fits("closing", "closing", j, k)
      BY <1>5, <1>8 DEF Fits, OutInv, OpeningInv, UsingInv, ClosingInv
    <2> QED
      BY <1>1, <1>2, <1>4, <1>6, <1>7, <2>1, <2>2, SuspendClientInv
  <1>9. CASE k \notin {"socket", "channel"}
    <2>1. Suspend(c, "using", "none") /\ ClientBecomes(c, "open")
      BY <1>5, <1>9 DEF Opened
    <2>2. Fits("using", "open", j, k)
      BY <1>5, <1>9 DEF Fits, OutInv, OpeningInv, UsingInv, ClosingInv
    <2> QED
      BY <1>1, <1>2, <1>4, <1>6, <1>7, <2>1, <2>2, SuspendClientInv
  <1> QED
    BY <1>8, <1>9

(* Opening ends with an exception: there is no client, or one left to      *)
(* close.                                                                  *)
LEMMA EndOpeningClientInv ==
  ASSUME ClientInv, CacheInv', NEW c \in Calls,
         NEW x, NEW b, NEW s, NEW j, NEW k, NEW o, Stands(c, x, b, s, j, k, o),
         b.st = "opening",
         NEW raised \in Exception \ {"none", "false"}, EndOpening(c, raised),
         raised = "cancelled" \/ Untold(x, o)
  PROVE  ClientInv'
  <1>1. /\ k = KindOf(c) /\ j = "none" /\ k \in {"connect", "start", "socket", "channel"}
        /\ s = IF k = "start" THEN "open" ELSE "none"
        /\ j \in JobState /\ s \in ClientState
    BY DEF Stands, CallBodyInv, OpeningInv
  <1>2. UNCHANGED pool /\ UNCHANGED client
    BY DEF EndOpening
  <1>3. job' = [job EXCEPT ![c] = j] /\ queue' \in Seq(Calls) /\ QueueInv'
    BY <1>2, PoolStays
  <1>4. client' = [client EXCEPT ![c] = s]
    BY <1>2 DEF Stands
  <1>5. CASE k = "start"
    <2>1. Suspend(c, "closing", raised) /\ UNCHANGED vars /\ UNCHANGED around
      BY <1>1, <1>5 DEF EndOpening
    <2>2. Fits("closing", s, j, k)
      BY <1>1, <1>5 DEF Fits, OutInv, OpeningInv, UsingInv, ClosingInv
    <2>3. "closing" \in BodyState \ {"out", "over"} /\ raised \in Exception
      BY DEF BodyState
    <2>4. ClientBecomes(c, s)
      BY <1>4 DEF ClientBecomes
    <2>5. \/ Untold(x, o)
          \/ raised = "cancelled" /\ k # "socket"
      BY <1>5
    <2> QED
      BY <1>1, <1>3, <2>1, <2>2, <2>3, <2>4, <2>5, SuspendClientInv
  <1>6. CASE k # "start"
    <2>1. Leave(c, raised)
      BY <1>1, <1>6 DEF EndOpening
    <2>2. LeftBehind(s, j, k)
      BY <1>1, <1>6 DEF LeftBehind
    <2>3. raised \in Exception
      OBVIOUS
    <2>4. \/ Untold(x, o)
          \/ raised # "none" /\ (raised = "cancelled" \/ s = "abandoned")
      OBVIOUS
    <2> QED
      BY <1>1, <1>3, <1>4, <2>1, <2>2, <2>3, <2>4, LeaveClientInv
  <1> QED
    BY <1>5, <1>6

(* The client has been used, or the function called.                       *)
LEMMA EndUseClientInv ==
  ASSUME ClientInv, CacheInv', NEW c \in Calls,
         NEW x, NEW b, NEW s, NEW j, NEW k, NEW o, Stands(c, x, b, s, j, k, o),
         b.st \in {"using", "awaiting"},
         NEW raised \in Exception, EndUse(c, raised),
         raised = "cancelled" \/ Untold(x, o)
  PROVE  ClientInv'
  <1>1. /\ k = KindOf(c) /\ k \in Kinds \ {"socket", "channel"}
        /\ s = IF k \in {"existing", "sync"} THEN "none" ELSE "open"
        /\ j \in IF k = "sync" THEN {"queued", "running", "returned", "raised"} ELSE {"none"}
        /\ j \in JobState /\ s \in ClientState /\ j = job[c]
    BY InsideFacts DEF Stands, CallBodyInv, UsingInv
  <1>2. CASE k \in {"existing", "sync"}
    <2>1. Leave(c, raised) /\ UNCHANGED client /\ LetGo(c)
      BY <1>1, <1>2 DEF EndUse
    <2>2. PICK i : i = IF j = "queued" THEN "dropped" ELSE j
      OBVIOUS
    <2>3. i \in JobState /\ i # "queued"
      BY <1>1, <2>2 DEF JobState
    <2>4. job' = [job EXCEPT ![c] = i] /\ queue' \in Seq(Calls) /\ QueueInv'
      BY <1>1, <2>1, <2>2, LetGoQueue DEF Stands
    <2>5. client' = [client EXCEPT ![c] = s]
      BY <2>1 DEF Stands
    <2>6. LeftBehind(s, i, k)
      BY <1>1, <1>2, <2>3 DEF LeftBehind
    <2>7. \/ Untold(x, o)
          \/ raised # "none" /\ (raised = "cancelled" \/ s = "abandoned")
      OBVIOUS
    <2> QED
      BY <1>1, <2>1, <2>3, <2>4, <2>5, <2>6, <2>7, LeaveClientInv
  <1>3. CASE k \notin {"existing", "sync"}
    <2>1. /\ Suspend(c, "closing", raised) /\ ClientBecomes(c, "closing")
          /\ UNCHANGED vars /\ UNCHANGED around
      BY <1>1, <1>3 DEF EndUse
    <2>9. IF k = "thread" THEN Submit(c) ELSE UNCHANGED pool
      BY <1>1, <1>3 DEF EndUse
    <2>2. PICK i : i = IF k = "thread" THEN "queued" ELSE "none"
      OBVIOUS
    <2>3. i \in JobState
      BY <2>2 DEF JobState
    <2>4. job' = [job EXCEPT ![c] = i] /\ queue' \in Seq(Calls) /\ QueueInv'
      <3>1. CASE k = "thread"
        BY <1>1, <2>9, <2>2, <3>1, SubmitQueue DEF Stands
      <3>2. CASE k # "thread"
        BY <1>1, <1>3, <2>9, <2>2, <3>2, PoolStays
      <3> QED
        BY <3>1, <3>2
    <2>5. Fits("closing", "closing", i, k)
      BY <1>1, <1>3, <2>2 DEF Fits, OutInv, OpeningInv, UsingInv, ClosingInv
    <2>6. "closing" \in BodyState \ {"out", "over"} /\ "closing" \in ClientState
      BY DEF BodyState, ClientState
    <2>7. \/ Untold(x, o)
          \/ raised = "cancelled" /\ k # "socket"
      BY <1>1
    <2> QED
      BY ONLY ClientInv, CacheInv', c \in Calls, Stands(c, x, b, s, j, k, o),
              b.st \in {"using", "awaiting"}, raised \in Exception,
              <2>1, <2>3, <2>4, <2>5, <2>6, <2>7, SuspendClientInv
  <1> QED
    BY <1>2, <1>3

(* close() has ended, and with it the body.                                *)
LEMMA ClosedClientInv ==
  ASSUME ClientInv, CacheInv', NEW c \in Calls, Closed(c)
  PROVE  ClientInv'
  <1>1. PICK x, b, s, j, k, o : Stands(c, x, b, s, j, k, o)
    BY StandsSomewhere
  <1>2. /\ Runs(c, "closing") /\ Leave(c, body[c].raised) /\ UNCHANGED pool
        /\ KindOf(c) = "thread" => job[c] = "returned"
        /\ client' = [client EXCEPT ![c] = "closed"]
    BY DEF Closed, ClientBecomes
  <1>3. "closing" \in BodyState \ {"out", "over"} /\ "closed" \in ClientState
    BY DEF BodyState, ClientState
  <1>4. b.st = "closing" /\ (Untold(x, o) \/ b.raised = "cancelled")
    BY <1>1, <1>2, <1>3, RunsFacts
  <1>5. /\ k = KindOf(c) /\ b = body[c] /\ j \in JobState /\ j = job[c]
        /\ k \notin {"existing", "sync"}
        /\ k # "thread" => j = "none"
        /\ b.raised \in Exception
    BY <1>1, <1>4 DEF Stands, CallBodyInv, ClosingInv, Body
  <1>6. job' = [job EXCEPT ![c] = j] /\ queue' \in Seq(Calls) /\ QueueInv'
    BY <1>1, <1>2, PoolStays
  <1>7. LeftBehind("closed", j, k)
    BY <1>2, <1>5 DEF LeftBehind
  <1>8. \/ Untold(x, o)
        \/ b.raised # "none" /\ (b.raised = "cancelled" \/ "closed" = "abandoned")
    BY <1>4
  <1>9. Leave(c, b.raised) /\ b.st \notin {"out", "over"}
    BY <1>2, <1>4, <1>5
  <1> QED
    BY ONLY ClientInv, CacheInv', c \in Calls, <1>1, <1>2, <1>3, <1>5, <1>6, <1>7, <1>8, <1>9,
            LeaveClientInv

(* close() has raised an exception of its own.                             *)
LEMMA ClosingFailsClientInv ==
  ASSUME ClientInv, CacheInv', NEW c \in Calls, ClosingFails(c)
  PROVE  ClientInv'
  <1>1. PICK x, b, s, j, k, o : Stands(c, x, b, s, j, k, o)
    BY StandsSomewhere
  <1>2. PICK raised \in {"exception", "timeout"} : Leave(c, raised)
    BY DEF ClosingFails
  <1>3. PICK t : t = IF KindOf(c) = "socket" THEN "closed" ELSE "abandoned"
    OBVIOUS
  <1>4. /\ Runs(c, "closing") /\ UNCHANGED pool
        /\ KindOf(c) = "thread" => job[c] = "raised"
        /\ client' = [client EXCEPT ![c] = t]
    BY <1>3 DEF ClosingFails, ClientBecomes
  <1>5. "closing" \in BodyState \ {"out", "over"} /\ t \in ClientState /\ raised \in Exception
    BY <1>3 DEF BodyState, ClientState, Exception
  <1>6. b.st = "closing" /\ (Untold(x, o) \/ k # "socket")
    BY <1>1, <1>4, <1>5, RunsFacts
  <1>7. /\ k = KindOf(c) /\ j \in JobState /\ j = job[c]
        /\ k \notin {"existing", "sync"}
        /\ k # "thread" => j = "none"
    BY <1>1, <1>6 DEF Stands, CallBodyInv, ClosingInv
  <1>8. job' = [job EXCEPT ![c] = j] /\ queue' \in Seq(Calls) /\ QueueInv'
    BY <1>1, <1>4, PoolStays
  <1>9. LeftBehind(t, j, k)
    BY <1>3, <1>4, <1>7 DEF LeftBehind
  <1>10. \/ Untold(x, o)
         \/ raised # "none" /\ (raised = "cancelled" \/ t = "abandoned")
    BY <1>2, <1>3, <1>6, <1>7
  <1>11. b.st \notin {"out", "over"}
    BY <1>6
  <1> QED
    BY ONLY ClientInv, CacheInv', c \in Calls, <1>1, <1>2, <1>4, <1>5, <1>7, <1>8, <1>9,
            <1>10, <1>11, LeaveClientInv

(* CancelledError interrupts the closing of a client.                      *)
LEMMA InterruptedClientInv ==
  ASSUME ClientInv, CacheInv', NEW c \in Calls, At(c, "closing"), Leave(c, "cancelled"), LetGo(c),
         IF KindOf(c) = "socket" \/ job[c] \in {"running", "returned", "raised"}
         THEN UNCHANGED client
         ELSE ClientBecomes(c, "abandoned")
  PROVE  ClientInv'
  <1>1. PICK x, b, s, j, k, o : Stands(c, x, b, s, j, k, o)
    BY StandsSomewhere
  <1>2. /\ k = KindOf(c) /\ j = job[c] /\ b.st = "closing" /\ j \in JobState
        /\ s \in ClientState /\ client = [client EXCEPT ![c] = s] /\ ClosingInv(b, s, j, k)
    BY <1>1 DEF Stands, CallBodyInv, At
  <1>3. PICK t : t = IF k = "socket" \/ j \in {"running", "returned", "raised"}
                     THEN s ELSE "abandoned"
    OBVIOUS
  <1>4. client' = [client EXCEPT ![c] = t] /\ t \in ClientState
    BY <1>2, <1>3 DEF ClientBecomes, ClientState
  <1>5. PICK i : i = IF j = "queued" THEN "dropped" ELSE j
    OBVIOUS
  <1>6. job' = [job EXCEPT ![c] = i] /\ queue' \in Seq(Calls) /\ QueueInv'
    BY <1>1, <1>2, <1>5, LetGoQueue DEF Stands
  <1>7. i \in JobState
    BY <1>2, <1>5 DEF JobState
  <1>8. LeftBehind(t, i, k)
    BY <1>2, <1>3, <1>5 DEF LeftBehind, ClosingInv
  <1>9. "cancelled" \in Exception
    BY DEF Exception
  <1>10. "cancelled" # "none" /\ ("cancelled" = "cancelled" \/ t = "abandoned")
    OBVIOUS
  <1>11. Leave(c, "cancelled") /\ b.st \notin {"out", "over"}
    BY <1>2
  <1> QED
    BY ONLY ClientInv, CacheInv', c \in Calls, <1>1, <1>4, <1>6, <1>7, <1>8, <1>9,
            <1>10, <1>11, LeaveClientInv

(* A timeout of 0 or a cancellation ends a check that was not entered.     *)
LEMMA NotEnteredClientInv ==
  ASSUME ClientInv, CacheInv', NEW c \in Calls, NotEntered(c)
  PROVE  ClientInv'
  <1>1. PICK x, b, s, j, k, o : Stands(c, x, b, s, j, k, o)
    BY StandsSomewhere
  <1>2. b.st = "out" /\ x = call[c] /\ k = KindOf(c) /\ UNCHANGED <<bodyVars, pool>> /\ CacheInv
        /\ CallBodyInv(x, b, s, j, k, o) /\ o = "none"
    BY <1>1 DEF NotEntered, At, Stands, CallBodyInv, OuterInv
  <1>3. PICK y : /\ Becomes(c, y)
                 /\ \/ y.st = "cancelled"
                    \/ y.st = "returned" /\ y.result.ok = FALSE /\ x.cancelled = FALSE
    <2>1. CASE CheckTimesOut(c)
      <3>1. Finish(c, FALSE, "probe timeout") /\ ~call[c].cancelled
        BY <2>1 DEF CheckTimesOut
      <3>2. call[c].cancelled = FALSE
        BY <3>1 DEF CacheInv, ClientInv, TypeOK, Call
      <3>3. PICK y : Becomes(c, y) /\ y.st = "returned" /\ y.result.ok = FALSE
        BY <1>2, <3>1, FinishedCall
      <3> QED
        BY <1>2, <3>2, <3>3
    <2>2. CASE CheckCancelled(c)
      BY <1>2, <2>2, CheckCancelledCall
    <2> QED
      BY <2>1, <2>2 DEF NotEntered
  <1>4. y.expired = x.expired /\ y.cancelled = x.cancelled
    BY <1>2, <1>3 DEF Becomes
  <1>5. CallBodyInv(y, b, s, j, k, o)
    BY <1>2, <1>3, <1>4 DEF CallBodyInv, BeforeInv, OpeningInv, UsingInv, ClosingInv,
                            ThrownInv, OuterInv, PrevailsInv
  <1>6. UNCHANGED pool /\ UNCHANGED around /\ UNCHANGED <<body, client>>
    BY <1>2 DEF bodyVars
  <1>7. MovesTo(c, y, b, s, j, o)
    BY <1>1, <1>3, <1>6, PoolStays, OuterStays DEF Stands, Becomes, MovesTo
  <1> QED
    BY <1>2, <1>5, <1>7, OneCall

(* A step of a body from one await to the next.                            *)
LEMMA BodyStepClientInv ==
  ASSUME ClientInv, CacheInv', NEW c \in Calls, BodyStep(c)
  PROVE  ClientInv'
  <1>1. PICK x, b, s, j, k, o : Stands(c, x, b, s, j, k, o)
    BY StandsSomewhere
  <1>2. x = call[c] /\ b = body[c] /\ s = client[c] /\ j = job[c] /\ k = KindOf(c)
        /\ client = [client EXCEPT ![c] = s] /\ s \in ClientState /\ j \in JobState
        /\ CallBodyInv(x, b, s, j, k, o)
    BY <1>1 DEF Stands
  <1>3. {"opening", "using", "awaiting"} \subseteq BodyState \ {"out", "over"}
    BY DEF BodyState
  <1>4. \A st \in {"opening", "using", "awaiting"} : Runs(c, st) =>
            b.st = st /\ Untold(x, o)
    BY <1>1, <1>3, RunsFacts
  <1>5. \A st : At(c, st) => b.st = st
    BY <1>2 DEF At
  <1>6. CASE Opened(c)
    BY <1>6, OpenedClientInv
  <1>7. CASE OpeningFails(c)
    <2>1. PICK raised \in Exception \ {"none", "false"} : EndOpening(c, raised)
      BY <1>7 DEF OpeningFails, Exception
    <2>2. Runs(c, "opening")
      BY <1>7 DEF OpeningFails
    <2>3. b.st = "opening" /\ Untold(x, o)
      BY <1>4, <2>2
    <2> QED
      BY <1>1, <2>1, <2>3, EndOpeningClientInv
  <1>8. CASE Used(c)
    <2>1. PICK raised \in Exception : EndUse(c, raised)
      BY <1>8 DEF Used, Exception
    <2>2. b.st = "using" /\ Untold(x, o)
      BY <1>4, <1>8 DEF Used
    <2> QED
      BY <1>1, <2>1, <2>2, EndUseClientInv
  <1>9. CASE Called(c)
    <2>1. b.st = "using" /\ Untold(x, o)
      BY <1>4, <1>9 DEF Called
    <2>2. CASE \E raised \in Exception : EndUse(c, raised)
      BY <1>1, <2>1, <2>2, EndUseClientInv
    <2>3. CASE /\ Suspend(c, "awaiting", "none") /\ UNCHANGED <<vars, around, client, pool>>
               /\ k = "sync" /\ j = "returned"
      <3>1. job' = [job EXCEPT ![c] = j] /\ queue' \in Seq(Calls) /\ QueueInv'
        BY <1>1, <2>3, PoolStays
      <3>2. ClientBecomes(c, s) /\ UNCHANGED vars /\ UNCHANGED around
            /\ Suspend(c, "awaiting", "none")
        BY <1>2, <2>3 DEF ClientBecomes
      <3>3. s = "none"
        BY <1>2, <2>1, <2>3 DEF CallBodyInv, UsingInv
      <3>4. Fits("awaiting", s, j, k)
        BY <2>3, <3>3 DEF Fits, OutInv, OpeningInv, UsingInv, ClosingInv
      <3>5. "awaiting" \in BodyState \ {"out", "over"} /\ "none" \in Exception
        BY DEF BodyState, Exception
      <3> QED
        BY ONLY ClientInv, CacheInv', c \in Calls, <1>1, <1>2, <2>1, <3>1, <3>2, <3>4, <3>5,
                SuspendClientInv
    <2>4. {"none", "false", "exception", "timeout"} \subseteq Exception
      BY DEF Exception
    <2> QED
      BY <1>2, <1>9, <2>2, <2>3, <2>4 DEF Called
  <1>10. CASE AwaitedToo(c)
    <2>1. PICK raised \in Exception : EndUse(c, raised)
      BY <1>10 DEF AwaitedToo
    <2>2. b.st = "awaiting" /\ Untold(x, o)
      BY <1>4, <1>10 DEF AwaitedToo
    <2> QED
      BY <1>1, <2>1, <2>2, EndUseClientInv
  <1>11. CASE Closed(c) \/ ClosingFails(c) \/ NotEntered(c)
    BY <1>11, ClosedClientInv, ClosingFailsClientInv, NotEnteredClientInv
  <1>12. CASE Thrown(c)
    <2>1. "cancelled" \in Exception \ {"none", "false"}
      BY DEF Exception
    <2>2. CASE At(c, "opening") /\ EndOpening(c, "cancelled")
      BY <1>1, <1>5, <2>1, <2>2, EndOpeningClientInv
    <2>3. CASE (At(c, "using") \/ At(c, "awaiting")) /\ EndUse(c, "cancelled")
      BY <1>1, <1>5, <2>1, <2>3, EndUseClientInv
    <2>4. CASE /\ At(c, "closing") /\ Leave(c, "cancelled") /\ LetGo(c)
               /\ IF KindOf(c) = "socket" \/ job[c] \in {"running", "returned", "raised"}
                  THEN UNCHANGED client
                  ELSE ClientBecomes(c, "abandoned")
      BY <2>4, InterruptedClientInv
    <2> QED
      BY <1>12, <2>2, <2>3, <2>4 DEF Thrown
  <1> QED
    BY <1>6, <1>7, <1>8, <1>9, <1>10, <1>11, <1>12 DEF BodyStep

-----------------------------------------------------------------------------
(* What wait_for() of 3.11 does when it resumes.                           *)

(* The outcome of a body that is over becomes that of the call.            *)
LEMMA WaitForReturnsClientInv ==
  ASSUME ClientInv, CacheInv', NEW c \in Calls, WaitForReturns(c)
  PROVE  ClientInv'
  <1>1. PICK x, b, s, j, k, o : Stands(c, x, b, s, j, k, o)
    BY StandsSomewhere
  <1>2. /\ x = call[c] /\ b = body[c] /\ o = outer[c] /\ k = KindOf(c)
        /\ CallBodyInv(x, b, s, j, k, o) /\ CacheInv /\ x.cancelled \in BOOLEAN
    BY <1>1 DEF Stands, CacheInv, TypeOK, Call
  <1>3. /\ b.st = "over"
        /\ o \in {"waiting", "told"} \/ (o = "stopping" /\ x.cancelled = FALSE)
        /\ UNCHANGED <<bodyVars, pool>>
    BY <1>2 DEF WaitForReturns
  <1>4. PICK raised : raised = b.raised /\ RunCheckEnds(c, raised)
    BY <1>2 DEF WaitForReturns
  <1>5. PICK y : /\ Becomes(c, y) /\ y.st \in {"returned", "cancelled"}
                 /\ y.st = "returned" /\ raised = "none" => y.result.ok = TRUE
                 /\ y.st = "returned" /\ raised # "none" => y.result.ok = FALSE
                 /\ y.st = "returned" /\ raised = "cancelled" => call[c].cancelled = FALSE
    <2>1. CacheInv /\ RunCheckEnds(c, raised)
      BY <1>2, <1>4
    <2> QED
      BY ONLY <2>1, c \in Calls, EndedCall
  <1>6. y.expired = x.expired /\ y.cancelled = x.cancelled
    BY <1>2, <1>5 DEF Becomes
  <1>7. /\ o = "waiting" => x.expired = FALSE /\ x.cancelled = FALSE
        /\ o = "stopping" => raised # "none"
        /\ o \in {"waiting", "told"} => b.thrown = FALSE
    BY <1>2, <1>3, <1>4 DEF CallBodyInv, OuterInv
  <1>8. PrevailsInv(y, b, s, o)
    BY <1>3, <1>4, <1>5, <1>6, <1>7 DEF PrevailsInv
  <1>9. OuterInv(y, b, o)
    BY <1>3, <1>4, <1>6, <1>7 DEF OuterInv
  <1>10. ThrownInv(y, b, k, o) /\ BeforeInv(y, b, s, j)
    BY <1>3, <1>5 DEF ThrownInv, BeforeInv
  <1>11. CallBodyInv(y, b, s, j, k, o)
    BY <1>2, <1>8, <1>9, <1>10 DEF CallBodyInv
  <1>12. UNCHANGED pool /\ UNCHANGED around /\ UNCHANGED <<body, client>>
    BY <1>3 DEF bodyVars
  <1>13. MovesTo(c, y, b, s, j, o)
    BY <1>1, <1>5, <1>12, PoolStays, OuterStays DEF Stands, Becomes, MovesTo
  <1> QED
    BY <1>2, <1>11, <1>13, OneCall

(* A body that is not over is told to stop.                                *)
LEMMA WaitForStopsClientInv ==
  ASSUME ClientInv, CacheInv', NEW c \in Calls, WaitForStops(c)
  PROVE  ClientInv'
  <1>1. PICK x, b, s, j, k, o : Stands(c, x, b, s, j, k, o)
    BY StandsSomewhere
  <1>2. /\ x = call[c] /\ b = body[c] /\ o = outer[c] /\ k = KindOf(c) /\ b \in Body
        /\ CallBodyInv(x, b, s, j, k, o)
    BY <1>1 DEF Stands
  <1>3. /\ o = "told" /\ b.st \notin {"out", "over"}
        /\ outer' = [outer EXCEPT ![c] = "stopping"] /\ "stopping" \in OuterState
        /\ body' = [body EXCEPT ![c].thrown = TRUE]
        /\ UNCHANGED <<vars, python, kind, client, pool>>
    BY <1>2 DEF WaitForStops, CallBodyInv, OuterInv, OuterState
  <1> DEFINE a == [body[c] EXCEPT !.thrown = TRUE]
  <1>4. body' = [body EXCEPT ![c] = a]
    BY ONLY <1>3
  <1>5. a \in Body /\ a.st = b.st /\ a.thrown = TRUE
    BY <1>2 DEF Body
  <1> HIDE DEF a
  <1>6. x.st \notin {"idle", "ready", "returned"} /\ x.st = "checking"
    BY <1>1, <1>2, <1>3, InsideFacts DEF CallBodyInv, OuterInv
  <1>7. OutInv(a, s, j, k) /\ OpeningInv(a, s, j, k) /\ UsingInv(a, s, j, k)
        /\ ClosingInv(a, s, j, k)
    BY <1>2, <1>5 DEF CallBodyInv, OutInv, OpeningInv, UsingInv, ClosingInv
  <1>8. OuterInv(x, a, "stopping") /\ ThrownInv(x, a, k, "stopping")
    BY <1>3, <1>5, <1>6 DEF OuterInv, ThrownInv
  <1>9. CallBodyInv(x, a, s, j, k, "stopping")
    BY <1>6, <1>7, <1>8 DEF CallBodyInv, BeforeInv, PrevailsInv
  <1>10. job' = [job EXCEPT ![c] = j] /\ queue' \in Seq(Calls) /\ QueueInv'
    <2>1. UNCHANGED pool
      BY <1>3
    <2> QED
      BY <1>1, <2>1, PoolStays
  <1>11. /\ call' = [call EXCEPT ![c] = x] /\ client' = [client EXCEPT ![c] = s]
         /\ UNCHANGED <<cfg, python, kind>> /\ s \in ClientState /\ j \in JobState
    BY <1>1, <1>3 DEF Stands, vars
  <1>12. MovesTo(c, x, a, s, j, "stopping")
    BY <1>2, <1>3, <1>4, <1>5, <1>10, <1>11 DEF MovesTo
  <1> QED
    BY <1>2, <1>9, <1>12, OneCall

(* A cancelled call ends, whether or not its body is over.                 *)
LEMMA WaitForRaisesClientInv ==
  ASSUME ClientInv, CacheInv', NEW c \in Calls, WaitForRaises(c)
  PROVE  ClientInv'
  <1>1. PICK x, b, s, j, k, o : Stands(c, x, b, s, j, k, o)
    BY StandsSomewhere
  <1>2. /\ x = call[c] /\ b = body[c] /\ o = outer[c] /\ k = KindOf(c)
        /\ CallBodyInv(x, b, s, j, k, o) /\ CacheInv
    BY <1>1 DEF Stands
  <1>3. /\ o = "leaving" \/ b.st = "over"
        /\ CheckCancelled(c) /\ UNCHANGED <<bodyVars, pool>>
    BY <1>2 DEF WaitForRaises
  <1>4. PICK y : Becomes(c, y) /\ y.st = "cancelled"
    BY <1>2, <1>3, CheckCancelledCall
  <1>5. y.expired = x.expired /\ y.cancelled = x.cancelled
    BY <1>2, <1>4 DEF Becomes
  <1>6. OuterInv(y, b, o)
    BY <1>2, <1>3, <1>4, <1>5 DEF CallBodyInv, OuterInv
  <1>7. ThrownInv(y, b, k, o)
    BY <1>2, <1>5 DEF CallBodyInv, ThrownInv, Untold
  <1>8. CallBodyInv(y, b, s, j, k, o)
    BY <1>2, <1>4, <1>6, <1>7 DEF CallBodyInv, BeforeInv, PrevailsInv
  <1>9. UNCHANGED pool /\ UNCHANGED around /\ UNCHANGED <<body, client>>
    BY <1>3 DEF bodyVars
  <1>10. MovesTo(c, y, b, s, j, o)
    BY <1>1, <1>4, <1>9, PoolStays, OuterStays DEF Stands, Becomes, MovesTo
  <1> QED
    BY <1>2, <1>8, <1>10, OneCall

-----------------------------------------------------------------------------
(* Steps that no body takes.                                               *)

(* A thread is done with a function, or with close().                      *)
LEMMA ThreadEndsClientInv ==
  ASSUME ClientInv, CacheInv', NEW c \in Calls, ThreadEnds(c)
  PROVE  ClientInv'
  <1>1. PICK x, b, s, j, k, o : Stands(c, x, b, s, j, k, o)
    BY StandsSomewhere
  <1>2. PICK i \in {"returned", "raised"} :
          /\ Finishes(c, i)
          /\ IF KindOf(c) = "thread"
             THEN ClientBecomes(c, IF i = "returned" THEN "closed" ELSE "abandoned")
             ELSE UNCHANGED client
    BY DEF ThreadEnds
  <1>3. /\ job[c] = "running" /\ job' = [job EXCEPT ![c] = i]
        /\ queue' \in Seq(Calls) /\ QueueInv'
    BY <1>1, <1>2, FinishesQueue DEF Stands
  <1>4. j = "running" /\ k = KindOf(c) /\ CallBodyInv(x, b, s, j, k, o) /\ b \in Body
    BY <1>1, <1>3 DEF Stands
  <1>5. PICK t : t = IF k = "thread" THEN IF i = "returned" THEN "closed" ELSE "abandoned"
                     ELSE s
    OBVIOUS
  <1>6. client' = [client EXCEPT ![c] = t] /\ t \in ClientState /\ i \in JobState
    BY <1>1, <1>2, <1>4, <1>5 DEF Stands, ClientBecomes, ClientState, JobState
  <1>7. UNCHANGED <<vars, body>> /\ UNCHANGED around
    BY DEF ThreadEnds
  <1>8. b.st # "opening" /\ b.st # "awaiting" /\ x.st \notin {"idle", "ready"}
    BY <1>4 DEF CallBodyInv, OpeningInv, UsingInv, BeforeInv
  <1>9. b.st = "using" => k = "sync"
    BY <1>4 DEF CallBodyInv, UsingInv
  <1>10. OutInv(b, t, i, k) /\ UsingInv(b, t, i, k) /\ ClosingInv(b, t, i, k)
    BY <1>4, <1>5, <1>8, <1>9 DEF CallBodyInv, OutInv, LeftBehind, UsingInv, ClosingInv
  <1>11. PrevailsInv(x, b, t, o)
    <2>1. x.st = "returned" /\ o = "none" => b.st = "out"
      BY <1>4 DEF CallBodyInv, OuterInv
    <2>2. b.st = "out" /\ k = "thread" => s # "abandoned"
      BY <1>4 DEF CallBodyInv, OutInv, LeftBehind
    <2>3. PrevailsInv(x, b, s, o)
      BY <1>4 DEF CallBodyInv
    <2>4. k # "thread" => t = s
      BY <1>5
    <2> QED
      BY <2>1, <2>2, <2>3, <2>4 DEF PrevailsInv
  <1>12. CallBodyInv(x, b, t, i, k, o)
    BY <1>4, <1>8, <1>10, <1>11 DEF CallBodyInv, BeforeInv, OpeningInv
  <1>13. MovesTo(c, x, b, t, i, o)
    BY <1>1, <1>3, <1>6, <1>7, OuterStays DEF MovesTo, Stands, vars
  <1> QED
    BY <1>4, <1>12, <1>13, OneCall

(* The transport of a socket is closed.                                    *)
LEMMA ClosedLaterClientInv ==
  ASSUME ClientInv, CacheInv', NEW c \in Calls, ClosedLater(c)
  PROVE  ClientInv'
  <1>1. PICK x, b, s, j, k, o : Stands(c, x, b, s, j, k, o)
    BY StandsSomewhere
  <1>2. /\ k = KindOf(c) /\ CallBodyInv(x, b, s, j, k, o)
        /\ s = "closing" /\ k = "socket" /\ b.st \in {"out", "over"}
    BY <1>1 DEF Stands, ClosedLater, NotInside
  <1>3. /\ client' = [client EXCEPT ![c] = "closed"] /\ "closed" \in ClientState
        /\ UNCHANGED <<vars, body>> /\ UNCHANGED around /\ UNCHANGED pool
    BY DEF ClosedLater, ClientBecomes, ClientState
  <1>4. CallBodyInv(x, b, "closed", j, k, o)
    BY <1>2 DEF CallBodyInv, BeforeInv, OutInv, LeftBehind, OpeningInv, UsingInv, ClosingInv,
                PrevailsInv
  <1>5. MovesTo(c, x, b, "closed", j, o)
    BY <1>1, <1>3, PoolStays, OuterStays DEF MovesTo, Stands, vars
  <1> QED
    BY <1>2, <1>4, <1>5, OneCall

(* A thread becomes free for a job.                                        *)
LEMMA PickUpClientInv ==
  ASSUME ClientInv, CacheInv', PickUp, UNCHANGED <<vars, bodyVars>>
  PROVE  ClientInv'
  <1>1. BodyTypeOK /\ QueueInv
    BY DEF ClientInv
  <1>2. PICK c \in Calls : /\ job[c] = "queued" /\ job' = [job EXCEPT ![c] = "running"]
                           /\ queue' \in Seq(Calls) /\ QueueInv'
    BY <1>1, PickUpQueue
  <1>3. PICK x, b, s, j, k, o : Stands(c, x, b, s, j, k, o)
    BY StandsSomewhere
  <1>4. k = KindOf(c) /\ j = "queued" /\ CallBodyInv(x, b, s, j, k, o)
    BY <1>2, <1>3 DEF Stands
  <1>5. CallBodyInv(x, b, s, "running", k, o)
    BY <1>4 DEF CallBodyInv, BeforeInv, OutInv, LeftBehind, OpeningInv, UsingInv, ClosingInv
  <1>6. MovesTo(c, x, b, s, "running", o)
    BY <1>2, <1>3, OuterStays DEF MovesTo, Stands, vars, bodyVars, JobState
  <1> QED
    BY <1>4, <1>5, <1>6, OneCall

(* What timer and cancellation do to a body and what is around it.         *)
LEMMA InterruptedCall ==
  ASSUME ClientInv, NEW S \in SUBSET Calls, Interrupt(S), NEW c \in Calls,
         NEW hit \in BOOLEAN,
         hit = (c \in S /\ call[c].st = "checking" /\ body[c].st # "out")
  PROVE  /\ body'[c] \in Body /\ body'[c].st = body[c].st /\ body'[c].raised = body[c].raised
         /\ hit /\ outer[c] = "none" => body'[c].thrown = TRUE
         /\ hit /\ outer[c] # "none" => body'[c] = body[c]
         /\ hit => outer'[c] = Interrupted(outer[c])
         /\ ~hit => body'[c] = body[c] /\ outer'[c] = outer[c]
  <1>1. body[c] \in Body
    BY DEF ClientInv, BodyTypeOK
  <1>2. body'[c] = IF hit /\ outer[c] = "none" THEN [body[c] EXCEPT !.thrown = TRUE] ELSE body[c]
    BY DEF Interrupt
  <1>3. outer'[c] = IF hit THEN Interrupted(outer[c]) ELSE outer[c]
    BY DEF Interrupt
  <1> DEFINE a == [body[c] EXCEPT !.thrown = TRUE]
  <1>4. a \in Body /\ a.st = body[c].st /\ a.raised = body[c].raised /\ a.thrown = TRUE
    BY <1>1 DEF Body
  <1>5. hit /\ outer[c] = "none" => body'[c] = a
    BY <1>2
  <1> HIDE DEF a
  <1> QED
    BY <1>1, <1>2, <1>3, <1>4, <1>5

(* wait_for() goes on from where it is, and does not forget anything.      *)
LEMMA InterruptedFacts ==
  ASSUME NEW o \in OuterState, NEW w, w = Interrupted(o)
  PROVE  /\ w \in OuterState
         /\ w = "none" <=> o = "none"
         /\ w # "waiting"
         /\ w = "told" <=> o \in {"waiting", "told"}
         /\ w \in {"stopping", "leaving"} <=> o \in {"stopping", "leaving"}
         /\ o = "leaving" => w = "leaving"
  BY DEF Interrupted, OuterState

(* What an interruption does to the record of a call.                      *)
Marked(S, c) ==
    /\ call'[c].probe = call[c].probe
    /\ call[c].st \notin {"ready", "checking"} \/ c \notin S => call'[c] = call[c]
    /\ call[c].st = "ready" => /\ call'[c].st \in {"ready", "cancelled"}
                               /\ call'[c].expired = call[c].expired
                               /\ call'[c].cancelled = call[c].cancelled
    /\ call[c].st = "checking" => call'[c].st = "checking"

(* Calls that are told to stop, and are otherwise where they were.         *)
LEMMA InterruptClientInv ==
  ASSUME ClientInv, CacheInv', NEW S \in SUBSET Calls, Interrupt(S), UNCHANGED cfg,
         \A c \in Calls : Marked(S, c)
  PROVE  ClientInv'
  <1>1. UNCHANGED <<python, kind, client, job, queue>>
    BY DEF Interrupt, pool
  <1>2. ASSUME NEW c \in Calls
        PROVE  BodyInv(c)' /\ body'[c] \in Body /\ outer'[c] \in OuterState
    <2>1. PICK x, b, s, j, k, o : Stands(c, x, b, s, j, k, o)
      BY StandsSomewhere
    <2>2. /\ x = call[c] /\ b = body[c] /\ k = KindOf(c) /\ CallBodyInv(x, b, s, j, k, o)
          /\ s = client[c] /\ j = job[c] /\ o = outer[c] /\ o \in OuterState
      BY <2>1 DEF Stands
    <2>3. PICK y, a, w : y = call'[c] /\ a = body'[c] /\ w = outer'[c]
      OBVIOUS
    <2>4. PICK hit \in BOOLEAN : hit = (c \in S /\ call[c].st = "checking" /\ body[c].st # "out")
      OBVIOUS
    <2>5. /\ a \in Body /\ a.st = b.st /\ a.raised = b.raised
          /\ hit /\ o = "none" => a.thrown = TRUE
          /\ hit /\ o # "none" => a = b
          /\ hit => w = Interrupted(o)
          /\ ~hit => a = b /\ w = o
      BY <2>2, <2>3, <2>4, InterruptedCall
    <2>6. /\ w \in OuterState
          /\ w = "none" <=> o = "none"
          /\ hit => w # "waiting"
          /\ w = "told" => o \in {"waiting", "told"}
          /\ o \in {"waiting", "told"} => w \in {"waiting", "told"}
          /\ w \in {"stopping", "leaving"} => o \in {"stopping", "leaving"}
          /\ o = "leaving" => w = "leaving"
      <3>1. CASE hit
        <4>1. w = Interrupted(o)
          BY <2>5, <3>1
        <4> QED
          BY <2>2, <3>1, <4>1, InterruptedFacts
      <3>2. CASE ~hit
        BY <2>2, <2>5, <3>2
      <3> QED
        BY <3>1, <3>2
    <2>7. /\ y.probe = x.probe
          /\ x.st \notin {"ready", "checking"} \/ c \notin S => y = x
          /\ x.st = "ready" => /\ y.st \in {"ready", "cancelled"}
                               /\ y.expired = x.expired /\ y.cancelled = x.cancelled
          /\ x.st = "checking" => y.st = "checking"
      BY <2>2, <2>3 DEF Marked
    <2>8. ~hit => b.st = "out" \/ y = x
      <3>1. x.st = "ready" => b.st = "out"
        BY <2>2 DEF CallBodyInv, BeforeInv
      <3>2. ~hit => c \notin S \/ x.st # "checking" \/ b.st = "out"
        BY <2>2, <2>4
      <3> QED
        BY <2>7, <3>1, <3>2
    <2>9. hit => x.st = "checking" /\ y.st = "checking"
      BY <2>2, <2>4, <2>7
    <2>10. BeforeInv(y, a, s, j)
      BY <2>2, <2>5, <2>7 DEF CallBodyInv, BeforeInv
    <2>11. OutInv(a, s, j, k) /\ OpeningInv(a, s, j, k) /\ UsingInv(a, s, j, k)
           /\ ClosingInv(a, s, j, k)
      BY <2>2, <2>5 DEF CallBodyInv, OutInv, OpeningInv, UsingInv, ClosingInv
    <2>12. ThrownInv(y, a, k, w)
      <3>1. CASE hit /\ o = "none"
        BY <2>5, <3>1 DEF ThrownInv
      <3>2. CASE hit /\ o # "none"
        BY <2>2, <2>5, <2>6, <3>2 DEF CallBodyInv, ThrownInv, Untold
      <3>3. CASE ~hit
        BY <2>2, <2>5, <2>8, <3>3 DEF CallBodyInv, ThrownInv
      <3> QED
        BY <3>1, <3>2, <3>3
    <2>13. OuterInv(y, a, w)
      <3>1. OuterInv(x, b, o)
        BY <2>2 DEF CallBodyInv
      <3>2. CASE hit
        BY <2>5, <2>6, <2>9, <3>1, <3>2 DEF OuterInv
      <3>3. CASE ~hit
        BY <2>5, <2>8, <3>1, <3>3 DEF OuterInv
      <3> QED
        BY <3>2, <3>3
    <2>14. PrevailsInv(y, a, s, w)
      <3>1. CASE x.st \in {"ready", "checking"}
        BY <2>7, <3>1 DEF PrevailsInv
      <3>2. CASE x.st \notin {"ready", "checking"}
        BY <2>2, <2>5, <2>7, <2>9, <3>2 DEF CallBodyInv
      <3> QED
        BY <3>1, <3>2
    <2>15. CallBodyInv(y, a, s, j, k, w)
      BY <2>10, <2>11, <2>12, <2>13, <2>14 DEF CallBodyInv
    <2>16. KindOf(c)' = k /\ client'[c] = s /\ job'[c] = j
      BY <1>1, <2>2, <2>3, <2>7 DEF KindOf
    <2> QED
      BY <2>3, <2>5, <2>6, <2>15, <2>16 DEF BodyInv
  <1>3. BodyTypeOK'
    <2>1. body' \in [Calls -> Body] /\ outer' \in [Calls -> OuterState]
      BY <1>2 DEF Interrupt
    <2> QED
      BY <1>1, <2>1 DEF ClientInv, BodyTypeOK
  <1>4. QueueInv'
    BY <1>1 DEF ClientInv, QueueInv
  <1>5. \A p \in Probes : cfg'[p] # None => kind'[p] \in Kinds
    BY <1>1 DEF ClientInv
  <1> QED
    BY <1>2, <1>3, <1>4, <1>5 DEF ClientInv

(* The timer of a call fires.                                              *)
LEMMA TimerClientInv ==
  ASSUME ClientInv, CacheInv', NEW c \in Calls, TimerInterrupts(c)
  PROVE  ClientInv'
  <1>1. CacheInv /\ call \in [Calls -> Call] /\ TimerFires(c) /\ Interrupt({c})
    BY DEF ClientInv, CacheInv, TypeOK, TimerInterrupts
  <1>2. PICK x : /\ call' = [call EXCEPT ![c] = x] /\ call[c].st = "checking" /\ UNCHANGED cfg
                 /\ x.st = "checking" /\ x.probe = call[c].probe
    BY <1>1, TimedCall
  <1>3. ASSUME NEW d \in Calls PROVE Marked({c}, d)
    <2>1. CASE d = c
      <3>1. call'[d] = x
        BY <1>1, <1>2, <2>1
      <3> QED
        BY <1>2, <2>1, <3>1 DEF Marked
    <2>2. CASE d # c
      <3>1. call'[d] = call[d]
        BY <1>1, <1>2, <2>2
      <3> QED
        BY <2>2, <3>1 DEF Marked
    <2> QED
      BY <2>1, <2>2
  <1> QED
    BY <1>1, <1>2, <1>3, InterruptClientInv

(* Any set of calls is cancelled.                                          *)
LEMMA CancelClientInv ==
  ASSUME ClientInv, CacheInv', NEW S \in SUBSET Calls, Cancel(S), Interrupt(S)
  PROVE  ClientInv'
  <1>1. CacheInv
    BY DEF ClientInv
  <1>2. UNCHANGED cfg
    BY DEF Cancel
  <1>3. ASSUME NEW c \in Calls PROVE Marked(S, c)
    BY <1>1, CancelCall DEF Marked
  <1> QED
    BY <1>2, <1>3, InterruptClientInv

(* A probe is constructed: its clients are of the kind its class opens.    *)
LEMMA ConstructClientInv ==
  ASSUME ClientInv, CacheInv', NEW p \in Probes, NEW conf \in Configs,
         ConstructClientProbe(p, conf)
  PROVE  ClientInv'
  <1>1. /\ cfg' = [cfg EXCEPT ![p] = conf] /\ kind[p] # None
        /\ UNCHANGED <<call, python, kind, outer, body, client, job, queue>>
    BY DEF ConstructClientProbe, Construct, bodyVars, around, pool
  <1>2. kind \in [Probes -> Kinds \cup {None}] /\ cfg \in [Probes -> Configs \cup {None}]
    BY DEF ClientInv, BodyTypeOK, CacheInv, TypeOK
  <1>3. BodyTypeOK' /\ QueueInv'
    BY <1>1 DEF ClientInv, BodyTypeOK, QueueInv
  <1>4. \A c \in Calls : BodyInv(c)'
    BY <1>1 DEF ClientInv, BodyInv, KindOf
  <1>5. \A q \in Probes : cfg'[q] # None => kind'[q] \in Kinds
    BY <1>1, <1>2 DEF ClientInv
  <1> QED
    BY <1>3, <1>4, <1>5 DEF ClientInv

(* Tasks are created that have not run yet.                                *)
LEMMA CreateClientInv ==
  ASSUME ClientInv, CacheInv', NEW S \in SUBSET Calls, NEW of \in [S -> Probes], Create(of),
         UNCHANGED <<bodyVars, pool>>
  PROVE  ClientInv'
  <1>1. /\ UNCHANGED <<cfg, python, kind, outer, body, client, job, queue>>
        /\ call' = [c \in Calls |-> IF c \in S THEN ReadyCall(of[c]) ELSE call[c]]
        /\ \A c \in S : call[c].st = "idle"
    BY DEF Create, bodyVars, around, pool
  <1>2. BodyTypeOK' /\ QueueInv'
    BY <1>1 DEF ClientInv, BodyTypeOK, QueueInv
  <1>3. ASSUME NEW c \in Calls PROVE BodyInv(c)'
    <2>1. BodyInv(c)
      BY DEF ClientInv
    <2>2. CASE c \in S
      <3>1. PICK x : x = ReadyCall(of[c])
        OBVIOUS
      <3>2. x.st = "ready" /\ x.expired = FALSE /\ x.cancelled = FALSE
        BY <3>1 DEF ReadyCall, NewCall
      <3>3. body[c].st = "out" /\ client[c] = "none" /\ job[c] = "none" /\ outer[c] = "none"
        BY <1>1, <2>1, <2>2 DEF BodyInv, CallBodyInv, BeforeInv, OuterInv
      <3>4. PICK l : l = KindOf(c)'
        OBVIOUS
      <3>5. CallBodyInv(x, body[c], client[c], job[c], l, outer[c])
        BY <3>2, <3>3 DEF CallBodyInv, BeforeInv, OutInv, LeftBehind, OpeningInv, UsingInv,
                          ClosingInv, ThrownInv, OuterInv, PrevailsInv
      <3>6. call'[c] = x
        BY <1>1, <2>2, <3>1
      <3> QED
        BY <1>1, <3>4, <3>5, <3>6 DEF BodyInv
    <2>3. CASE c \notin S
      <3>1. call'[c] = call[c]
        BY <1>1, <2>3
      <3>2. KindOf(c)' = KindOf(c)
        BY <1>1, <3>1 DEF KindOf
      <3> QED
        BY <1>1, <2>1, <3>1, <3>2 DEF BodyInv
    <2> QED
      BY <2>2, <2>3
  <1>4. \A p \in Probes : cfg'[p] # None => kind'[p] \in Kinds
    BY <1>1 DEF ClientInv
  <1> QED
    BY <1>2, <1>3, <1>4 DEF ClientInv

(* Time passes, or nothing happens.                                        *)
LEMMA ClientStays ==
  ASSUME ClientInv, CacheInv', UNCHANGED <<cfg, call>>, UNCHANGED <<bodyVars, pool>>
  PROVE  ClientInv'
  <1>1. UNCHANGED <<cfg, call, python, kind, outer, body, client, job, queue>>
    BY DEF bodyVars, around, pool
  <1>2. \A c \in Calls : BodyInv(c)'
    BY <1>1 DEF ClientInv, BodyInv, KindOf
  <1>3. BodyTypeOK' /\ QueueInv'
    BY <1>1 DEF ClientInv, BodyTypeOK, QueueInv
  <1> QED
    BY <1>1, <1>2, <1>3 DEF ClientInv

(* Every step keeps the invariant.                                         *)
LEMMA NextClientInv == ClientInv /\ [ClientNext]_clientVars => ClientInv'
  <1> SUFFICES ASSUME ClientInv, [ClientNext]_clientVars PROVE ClientInv'
    OBVIOUS
  <1>1. CacheInv'
    <2>1. [Next]_vars
      BY ClientStepIsProbeStep
    <2>2. CacheInv
      BY DEF ClientInv
    <2> QED
      BY <2>1, <2>2, NextCacheInv
  <1>2. ASSUME NEW p \in Probes, NEW conf \in Configs, ConstructClientProbe(p, conf)
        PROVE  ClientInv'
    BY <1>1, <1>2, ConstructClientInv
  <1>3. ASSUME NEW S \in SUBSET Calls, NEW of \in [S -> Probes], Create(of),
               UNCHANGED <<bodyVars, pool>>
        PROVE  ClientInv'
    BY <1>1, <1>3, CreateClientInv
  <1>4. ASSUME NEW S \in SUBSET Calls, Cancel(S), Interrupt(S)
        PROVE  ClientInv'
    BY <1>1, <1>4, CancelClientInv
  <1>5. ASSUME NEW c \in Calls, ServeCached(c), UNCHANGED <<bodyVars, pool>>
        PROVE  ClientInv'
    BY <1>1, <1>5, ServeClientInv
  <1>6. ASSUME NEW c \in Calls, WaitForStep(c)
        PROVE  ClientInv'
    BY <1>1, <1>6, WaitForReturnsClientInv, WaitForStopsClientInv, WaitForRaisesClientInv
    DEF WaitForStep
  <1>7. ASSUME NEW c \in Calls,
               EnterCheck(c) \/ TimerInterrupts(c) \/ BodyStep(c)
                 \/ ThreadEnds(c) \/ ClosedLater(c)
        PROVE  ClientInv'
    BY <1>1, <1>7, EnterClientInv, TimerClientInv, BodyStepClientInv, ThreadEndsClientInv,
       ClosedLaterClientInv
  <1>8. CASE PickUp /\ UNCHANGED <<vars, bodyVars>>
    BY <1>1, <1>8, PickUpClientInv
  <1>9. CASE Tick /\ UNCHANGED <<bodyVars, pool>>
    BY <1>1, <1>9, ClientStays DEF Tick
  <1>10. CASE UNCHANGED clientVars
    <2>1. UNCHANGED <<cfg, call>> /\ UNCHANGED <<bodyVars, pool>>
      BY <1>10 DEF clientVars, vars
    <2> QED
      BY <1>1, <2>1, ClientStays
  <1> QED
    BY <1>2, <1>3, <1>4, <1>5, <1>6, <1>7, <1>8, <1>9, <1>10, Zenon DEF ClientNext

(* ClientInv is an invariant of the ready-made probes.                     *)
THEOREM ClientInvariant == ClientSpec => []ClientInv
  BY InitClientInv, NextClientInv, PTL DEF ClientSpec

(* Every variable keeps its type.                                          *)
THEOREM ClientTypeCorrect == ClientSpec => []ClientTypeOK
  <1>1. ClientInv => ClientTypeOK
    BY DEF ClientInv, CacheInv, BodyTypeOK, Body, ClientTypeOK, PoolTypeOK
  <1> QED
    BY <1>1, ClientInvariant, PTL

(* Wherever a check fails or is cancelled, its temporary client is closed  *)
(* when its body is over, or its closing was refused or interrupted; an    *)
(* existing one is not.  And the body is over when its call is, unless     *)
(* wait_for() of 3.11 was cancelled a second time.                         *)
THEOREM ClientsAreClosed == ClientSpec => []NoClientLeftOpen
  <1>1. ClientInv => NoClientLeftOpen
    <2> SUFFICES ASSUME ClientInv, NEW c \in Calls, call[c].probe # None
                 PROVE  /\ NotInside(c) => client[c] # "open"
                        /\ Ended(c) => NotInside(c) \/ outer[c] = "leaving"
                        /\ KindOf(c) \in {"existing", "sync"} => client[c] = "none"
                        /\ KindOf(c) = "thread" =>
                              /\ client[c] = "abandoned" => job[c] \in {"raised", "dropped"}
                              /\ NotInside(c) /\ client[c] = "closing" => job[c] = "running"
      BY DEF NoClientLeftOpen
    <2>1. PICK x, b, s, j, k, o : Stands(c, x, b, s, j, k, o)
      BY StandsSomewhere
    <2>2. /\ x = call[c] /\ b = body[c] /\ s = client[c] /\ j = job[c] /\ k = KindOf(c)
          /\ o = outer[c] /\ CallBodyInv(x, b, s, j, k, o) /\ b \in Body
      BY <2>1 DEF Stands
    <2>3. b.st \in {"out", "opening", "using", "awaiting", "closing", "over"}
      BY <2>2 DEF Body, BodyState
    <2>4. Ended(c) => b.st \in {"out", "over"} \/ o = "leaving"
      BY <2>2 DEF Ended, CallBodyInv, OuterInv
    <2>5. OutInv(b, s, j, k) /\ OpeningInv(b, s, j, k) /\ UsingInv(b, s, j, k)
          /\ ClosingInv(b, s, j, k)
      BY <2>2 DEF CallBodyInv
    <2>6. k \in {"existing", "sync"} => s = "none"
      BY <2>3, <2>5 DEF OutInv, LeftBehind, OpeningInv, UsingInv, ClosingInv
    <2>7. k = "thread" /\ s = "abandoned" => j \in {"raised", "dropped"}
      BY <2>3, <2>5 DEF OutInv, LeftBehind, OpeningInv, UsingInv, ClosingInv
    <2>8. NotInside(c) => LeftBehind(s, j, k)
      BY <2>2, <2>5 DEF NotInside, OutInv
    <2> QED
      BY <2>2, <2>4, <2>6, <2>7, <2>8 DEF NotInside, LeftBehind
  <1> QED
    BY <1>1, ClientInvariant, PTL

(* A check that timed out or was cancelled does not succeed, and one that  *)
(* was cancelled has a result only if close() raised; unless wait_for() of *)
(* 3.11 found the body over, whose own result the call then has.           *)
THEOREM CancellationIsNotSwallowed == ClientSpec => []CancellationPrevails
  <1>1. ClientInv => CancellationPrevails
    <2> SUFFICES ASSUME ClientInv, NEW c \in Calls, call[c].st = "returned"
                 PROVE  /\ call[c].expired => ~call[c].result.ok \/ outer[c] = "told"
                        /\ call[c].cancelled => \/ outer[c] = "none" /\ client[c] = "abandoned"
                                                \/ outer[c] = "told"
                        /\ outer[c] # "none" => /\ body[c].st = "over"
                                                /\ call[c].result.ok <=> body[c].raised = "none"
      BY DEF CancellationPrevails
    <2>1. PrevailsInv(call[c], body[c], client[c], outer[c])
      BY DEF ClientInv, BodyInv, CallBodyInv
    <2>2. call[c] \in Call
      BY DEF ClientInv, CacheInv, TypeOK
    <2>3. call[c].expired \in BOOLEAN /\ call[c].cancelled \in BOOLEAN
      BY <2>2 DEF Call
    <2>4. call[c].expired => ~call[c].result.ok \/ outer[c] = "told"
      BY <2>1, <2>3 DEF PrevailsInv
    <2>5. call[c].cancelled => \/ outer[c] = "none" /\ client[c] = "abandoned"
                               \/ outer[c] = "told"
      BY <2>1, <2>3 DEF PrevailsInv
    <2>6. outer[c] # "none" => /\ body[c].st = "over"
                               /\ call[c].result.ok <=> body[c].raised = "none"
      BY <2>1 DEF PrevailsInv
    <2> QED
      BY <2>4, <2>5, <2>6
  <1> QED
    BY <1>1, ClientInvariant, PTL

(* The executor's queue holds what is still waited for, each job once.     *)
THEOREM QueueIsAwaited == ClientSpec => []QueueHoldsAwaitedWork
  <1>1. ClientInv => QueueHoldsAwaitedWork
    <2> SUFFICES ASSUME ClientInv PROVE QueueHoldsAwaitedWork
      OBVIOUS
    <2>1. QueueInv
      BY DEF ClientInv
    <2>2. ASSUME NEW c \in Calls, job[c] = "queued"
          PROVE  /\ call[c].st = "checking" \/ outer[c] = "leaving"
                 /\ body[c].st = IF KindOf(c) = "sync" THEN "using" ELSE "closing"
                 /\ Cardinality({i \in DOMAIN queue : queue[i] = c}) = 1
      <3>1. PICK x, b, s, j, k, o : Stands(c, x, b, s, j, k, o)
        BY StandsSomewhere
      <3>2. /\ x = call[c] /\ b = body[c] /\ s = client[c] /\ j = job[c] /\ k = KindOf(c)
            /\ o = outer[c] /\ CallBodyInv(x, b, s, j, k, o) /\ b \in Body
        BY <3>1 DEF Stands
      <3>3. b.st \in {"out", "opening", "using", "awaiting", "closing", "over"}
        BY <3>2 DEF Body, BodyState
      <3>4. b.st = IF k = "sync" THEN "using" ELSE "closing"
        BY <2>2, <3>2, <3>3 DEF CallBodyInv, OutInv, LeftBehind, OpeningInv, UsingInv, ClosingInv
      <3>5. x.st = "checking" \/ o = "leaving"
        BY <3>2, <3>4 DEF CallBodyInv, OuterInv
      <3>6. PICK i \in DOMAIN queue : queue[i] = c
        BY <2>1, <2>2 DEF QueueInv
      <3>7. {n \in DOMAIN queue : queue[n] = c} = {i}
        BY <2>1, <3>6 DEF QueueInv
      <3>8. Cardinality({n \in DOMAIN queue : queue[n] = c}) = 1
        BY <3>7, FS_Singleton
      <3> QED
        BY <3>2, <3>4, <3>5, <3>8
    <2> QED
      BY <2>1, <2>2 DEF QueueHoldsAwaitedWork, QueueInv
  <1> QED
    BY <1>1, ClientInvariant, PTL
=============================================================================
