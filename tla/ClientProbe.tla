----------------------------- MODULE ClientProbe ----------------------------
(***************************************************************************)
(* The ready-made probes (probirka/_probes): run_check of module Probe     *)
(* around a body that opens a temporary client, uses it and closes it, or  *)
(* uses an existing one.  What module Probe leaves to the author of a      *)
(* check is settled here by the try statements around these clients.       *)
(*                                                                         *)
(* The client libraries are the environment: opening, using and closing a  *)
(* client may fail or take any time.  Timer and cancellation throw         *)
(* CancelledError into the await the body is suspended at; a second one    *)
(* before the body runs again makes no difference.  A library is assumed   *)
(* to let it through, after whatever cleanup of its own.                   *)
(*                                                                         *)
(* How they come there depends on wait_for().  From Python 3.12 on the     *)
(* body is part of the task of run_check.  In 3.11 wait_for() makes a task *)
(* of its own of the body, unless the timeout is None or 0.  Timer and     *)
(* cancellation then wake up wait_for(), which tells the body to stop if   *)
(* it is not over by then, and waits until it is; cancelled again while it *)
(* waits, it goes and leaves the body to itself.                           *)
(*                                                                         *)
(* Plain functions, and close() of a Motor client, run in the threads of   *)
(* module Executor, which all probes share.                                *)
(***************************************************************************)
EXTENDS ProbeRefinement, FiniteSets, Sequences

CONSTANTS
    Workers,    \* threads of the default executor
    Offered,    \* kinds of the probes, None for one that is never made
    UsedFor     \* bound: probes of which a call is explored

VARIABLES
    python,     \* the version, as far as wait_for() depends on it
    kind,       \* how a probe comes by its client
    body,       \* _check(): where it is suspended, what is in flight
    outer,      \* wait_for() of 3.11 around the task it made of the body
    client,     \* the temporary client, socket or channel of a call
    job, queue  \* see module Executor

INSTANCE Executor

around == <<python, kind, outer>>       \* what a body leaves alone
bodyVars == <<around, body, client>>
pool == <<job, queue>>
clientVars == <<vars, bodyVars, pool>>

(* existing: a client or a factory was passed                              *)
(* connect:  opened by an awaited call before the try (asyncpg, aio_pika)  *)
(* start:    made, then started within the try (aiokafka)                  *)
(* plain:    made without awaiting (redis, pymongo, HTTP clients)          *)
(* thread:   made without awaiting, closed in a worker thread (motor)      *)
(* socket:   opened, closed without awaiting, then waited for (TcpProbe)   *)
(* channel:  an existing connection, on which a channel is opened and      *)
(*           closed (aio_pika); the channel stands for the client          *)
(* sync:     no client; CallableProbe around a plain function              *)
Kinds == {"existing", "connect", "start", "plain", "thread", "socket", "channel", "sync"}

ASSUME ClientProbeAssumption ==
    /\ Workers \in Nat \ {0}
    /\ Offered \subseteq [Probes -> Kinds \cup {None}]
    /\ UsedFor \in [Calls -> SUBSET Probes]

(* over: the body is over, but wait_for() has not heard of it yet.         *)
BodyState == {"out", "opening", "using", "awaiting", "closing", "over"}

(* none:     there is no task around the body                              *)
(* waiting:  until the body is over or the timer fires                     *)
(* told:     the timer fired or the task was cancelled, while it waited    *)
(* stopping: it told the body to stop, and waits until it is over          *)
(* leaving:  it was cancelled again while it did                           *)
(* After the call this is how far it came.                                 *)
OuterState == {"none", "waiting", "told", "stopping", "leaving"}

(* What ends the body or is about to: a return, or an exception.           *)
Exception == {"none", "false", "exception", "timeout", "cancelled"}

ClientState == {"none", "open", "closing", "closed", "abandoned"}

Outside == [st |-> "out", raised |-> "none", thrown |-> FALSE]

ClientInit ==
    /\ Init
    /\ python \in {"3.11", "3.12"}
    /\ kind \in Offered
    /\ body = [c \in Calls |-> Outside]
    /\ outer = [c \in Calls |-> "none"]
    /\ client = [c \in Calls |-> "none"]
    /\ PoolInit

KindOf(c) == kind[call[c].probe]
TimeoutOf(c) == cfg[call[c].probe].timeout

(* wait_for() runs the body of this call in a task of its own.             *)
InTask(c) == python = "3.11" /\ TimeoutOf(c) \notin {None, 0}

(* The body has not begun, or is over.                                     *)
NotInside(c) == body[c].st \in {"out", "over"}

(* The constructor of a probe.  Its class and require_exactly_one settle   *)
(* what its kind is.                                                       *)
ConstructClientProbe(p, conf) ==
    /\ kind[p] # None
    /\ Construct(p, conf)
    /\ UNCHANGED <<bodyVars, pool>>

-----------------------------------------------------------------------------
(* The body runs from one await to the next.                               *)

Suspend(c, st, raised) ==
    body' = [body EXCEPT ![c] = [st |-> st, raised |-> raised, thrown |-> FALSE]]

ClientBecomes(c, state) == client' = [client EXCEPT ![c] = state]

(* What run_check makes of the end of the body.                            *)
RunCheckEnds(c, raised) ==
    \/ raised \in {"none", "false"} /\ CheckAnswers(c, raised = "none")
    \/ raised = "exception" /\ CheckRaises(c)
    \/ raised = "timeout" /\ CheckRaisesTimeout(c)
    \/ raised = "cancelled" /\ (CheckTimesOut(c) \/ CheckCancelled(c))

(* The body is over, and run_check with it unless wait_for() is between.   *)
Leave(c, raised) ==
    /\ IF outer[c] = "none"
       THEN body' = [body EXCEPT ![c] = Outside] /\ RunCheckEnds(c, raised)
       ELSE Suspend(c, "over", raised) /\ UNCHANGED vars
    /\ UNCHANGED around

At(c, st) == body[c].st = st

(* The body proceeds: nothing was thrown into it.                          *)
Runs(c, st) == At(c, st) /\ ~body[c].thrown

(* StartCheck, and the body up to its first await, in the same step or in  *)
(* that of its task, which comes before anything can reach wait_for().  A  *)
(* timeout of 0 keeps it from being entered.                               *)
EnterCheck(c) ==
    LET k == KindOf(c) IN
    /\ StartCheck(c)
    /\ IF TimeoutOf(c) = 0
       THEN UNCHANGED <<body, outer, client, pool>>
       ELSE /\ Suspend(c, IF k \in {"connect", "start", "socket", "channel"}
                          THEN "opening" ELSE "using", "none")
            /\ outer' = [outer EXCEPT ![c] = IF InTask(c) THEN "waiting" ELSE "none"]
            /\ ClientBecomes(c, IF k \in {"start", "plain", "thread"} THEN "open" ELSE "none")
            /\ IF k = "sync" THEN Submit(c) ELSE UNCHANGED pool
    /\ UNCHANGED <<python, kind>>

NotEntered(c) ==
    /\ At(c, "out")
    /\ CheckTimesOut(c) \/ CheckCancelled(c)
    /\ UNCHANGED <<bodyVars, pool>>

(* A socket is closed at once, and the body waits until it is; a channel   *)
(* has no other use either.                                                *)
Opened(c) ==
    /\ Runs(c, "opening")
    /\ IF KindOf(c) \in {"socket", "channel"}
       THEN Suspend(c, "closing", "none") /\ ClientBecomes(c, "closing")
       ELSE Suspend(c, "using", "none") /\ ClientBecomes(c, "open")
    /\ UNCHANGED <<vars, around, pool>>

(* Faulty variant: start() stands before the try statement.                *)
EndOpeningUnguarded(c, raised) == Leave(c, raised) /\ UNCHANGED <<client, pool>>

(* Opening ends with an exception: within the try, the client is closed.   *)
EndOpening(c, raised) ==
    /\ UNCHANGED <<client, pool>>
    /\ IF KindOf(c) = "start"
       THEN Suspend(c, "closing", raised) /\ UNCHANGED <<vars, around>>
       ELSE Leave(c, raised)

(* _check_client ends: the context manager closes a temporary client.      *)
EndUse(c, raised) ==
    IF KindOf(c) \in {"existing", "sync"}
    THEN Leave(c, raised) /\ UNCHANGED client /\ LetGo(c)
    ELSE /\ Suspend(c, "closing", raised)
         /\ ClientBecomes(c, "closing")
         /\ IF KindOf(c) = "thread" THEN Submit(c) ELSE UNCHANGED pool
         /\ UNCHANGED <<vars, around>>

OpeningFails(c) ==
    /\ Runs(c, "opening")
    /\ \E raised \in {"exception", "timeout"} : EndOpening(c, raised)

Used(c) ==
    /\ Runs(c, "using") /\ KindOf(c) # "sync"
    /\ \E raised \in {"none", "exception", "timeout"} : EndUse(c, raised)

(* The function has returned, a bool or something to be awaited, or raised *)
(* an exception.                                                           *)
Called(c) ==
    /\ Runs(c, "using") /\ KindOf(c) = "sync"
    /\ \/ /\ job[c] = "returned"
          /\ \/ \E answer \in {"none", "false"} : EndUse(c, answer)
             \/ Suspend(c, "awaiting", "none") /\ UNCHANGED <<vars, around, client, pool>>
       \/ /\ job[c] = "raised"
          /\ \E raised \in {"exception", "timeout"} : EndUse(c, raised)

AwaitedToo(c) ==
    /\ Runs(c, "awaiting")
    /\ \E raised \in Exception \ {"cancelled"} : EndUse(c, raised)

(* Faulty variant: `return' in the finally clause.                         *)
ClosedReturning(c) ==
    /\ Runs(c, "closing")
    /\ KindOf(c) = "thread" => job[c] = "returned"
    /\ Leave(c, "none")
    /\ ClientBecomes(c, "closed")
    /\ UNCHANGED pool

(* close() returns, and what the body ended with goes on; or it raises in  *)
(* place of that, and nobody closes the client any more (the transport of  *)
(* a socket is gone all the same).                                         *)
Closed(c) ==
    /\ Runs(c, "closing")
    /\ KindOf(c) = "thread" => job[c] = "returned"
    /\ Leave(c, body[c].raised)
    /\ ClientBecomes(c, "closed")
    /\ UNCHANGED pool

ClosingFails(c) ==
    /\ Runs(c, "closing")
    /\ KindOf(c) = "thread" => job[c] = "raised"
    /\ \E raised \in {"exception", "timeout"} : Leave(c, raised)
    /\ ClientBecomes(c, IF KindOf(c) = "socket" THEN "closed" ELSE "abandoned")
    /\ UNCHANGED pool

(* Faulty variant: _check_client is shielded from cancellation.            *)
ThrownShielded(c) ==
    /\ body[c].thrown
    /\ \/ At(c, "opening") /\ EndOpening(c, "cancelled")
       \/ /\ At(c, "closing")
          /\ Leave(c, "cancelled")
          /\ ClientBecomes(c, "abandoned")
          /\ LetGo(c)

(* CancelledError arrives.  It interrupts close() as well, except where    *)
(* the closing goes on in a thread that has begun it or in the transport.  *)
Thrown(c) ==
    /\ body[c].thrown
    /\ \/ At(c, "opening") /\ EndOpening(c, "cancelled")
       \/ (At(c, "using") \/ At(c, "awaiting")) /\ EndUse(c, "cancelled")
       \/ /\ At(c, "closing")
          /\ Leave(c, "cancelled")
          /\ IF KindOf(c) = "socket" \/ job[c] \in {"running", "returned", "raised"}
             THEN UNCHANGED client
             ELSE ClientBecomes(c, "abandoned")
          /\ LetGo(c)

(* A thread is done, with a function or with close().                      *)
ThreadEnds(c) ==
    /\ \E outcome \in {"returned", "raised"} :
          /\ Finishes(c, outcome)
          /\ IF KindOf(c) = "thread"
             THEN ClientBecomes(c, IF outcome = "returned" THEN "closed" ELSE "abandoned")
             ELSE UNCHANGED client
    /\ UNCHANGED <<vars, around, body>>

(* The transport closes what the body did not wait for.                    *)
ClosedLater(c) ==
    /\ client[c] = "closing" /\ KindOf(c) = "socket" /\ NotInside(c)
    /\ ClientBecomes(c, "closed")
    /\ UNCHANGED <<vars, around, body, pool>>

BodyStep(c) ==
    \/ Opened(c) \/ OpeningFails(c)
    \/ Used(c) \/ Called(c) \/ AwaitedToo(c)
    \/ Closed(c) \/ ClosingFails(c)
    \/ Thrown(c) \/ NotEntered(c)

-----------------------------------------------------------------------------
(* wait_for() of 3.11 resumes.                                             *)

(* The body is over: its result or its exception is that of wait_for(),    *)
(* also if timer or cancellation came first; but TimeoutError stands for   *)
(* the CancelledError of a body that was told to stop by the timer.        *)
WaitForReturns(c) ==
    /\ body[c].st = "over"
    /\ \/ outer[c] \in {"waiting", "told"}
       \/ outer[c] = "stopping" /\ ~call[c].cancelled
    /\ RunCheckEnds(c, body[c].raised)
    /\ UNCHANGED <<bodyVars, pool>>

(* It is not: CancelledError is thrown into it.                            *)
WaitForStops(c) ==
    /\ outer[c] = "told" /\ body[c].st # "over"
    /\ outer' = [outer EXCEPT ![c] = "stopping"]
    /\ body' = [body EXCEPT ![c].thrown = TRUE]
    /\ UNCHANGED <<vars, python, kind, client, pool>>

(* The body that was told to stop by a cancellation is over, however it    *)
(* ended; or wait_for() does not wait for that any longer.                 *)
WaitForRaises(c) ==
    /\ \/ outer[c] = "leaving"
       \/ outer[c] = "stopping" /\ call[c].cancelled /\ body[c].st = "over"
    /\ CheckCancelled(c)
    /\ UNCHANGED <<bodyVars, pool>>

WaitForStep(c) == WaitForReturns(c) \/ WaitForStops(c) \/ WaitForRaises(c)

-----------------------------------------------------------------------------
(* The timer and cancellation reach a check whose body was entered.        *)
Interrupted(o) ==
    CASE o = "waiting"  -> "told"
      [] o = "stopping" -> "leaving"
      [] OTHER          -> o

Interrupt(S) ==
    LET reached == {c \in S : call[c].st = "checking" /\ body[c].st # "out"} IN
    /\ body' = [c \in Calls |-> IF c \in reached /\ outer[c] = "none"
                                THEN [body[c] EXCEPT !.thrown = TRUE] ELSE body[c]]
    /\ outer' = [c \in Calls |-> IF c \in reached THEN Interrupted(outer[c]) ELSE outer[c]]
    /\ UNCHANGED <<python, kind, client, pool>>

(* The timer of 3.11 wakes up wait_for() only while that waits for the     *)
(* body or for the timer.                                                  *)
TimerInterrupts(c) ==
    /\ TimerFires(c)
    /\ outer[c] \in {"none", "waiting"}
    /\ Interrupt({c})

ClientNext ==
    \/ \E p \in Probes, conf \in Configs : ConstructClientProbe(p, conf)
    \/ \E S \in SUBSET Calls :
          \/ /\ \E of \in [S -> Probes] : (\A c \in S : of[c] \in UsedFor[c]) /\ Create(of)
             /\ UNCHANGED <<bodyVars, pool>>
          \/ Cancel(S) /\ Interrupt(S)
    \/ \E c \in Calls :
          \/ ServeCached(c) /\ UNCHANGED <<bodyVars, pool>>
          \/ EnterCheck(c)
          \/ TimerInterrupts(c)
          \/ BodyStep(c)
          \/ WaitForStep(c)
          \/ ThreadEnds(c)
          \/ ClosedLater(c)
    \/ PickUp /\ UNCHANGED <<vars, bodyVars>>
    \/ Tick /\ UNCHANGED <<bodyVars, pool>>

(* As in module Probe for the event loop, and idle threads take jobs.  Of  *)
(* the client libraries only this is assumed: closing a client comes to an *)
(* end.  The function of a check may never return.                         *)
ClientFairness ==
    /\ WF_clientVars(Tick /\ UNCHANGED <<bodyVars, pool>>)
    /\ WF_clientVars(PickUp /\ UNCHANGED <<vars, bodyVars>>)
    /\ \A c \in Calls :
          /\ WF_clientVars((ServeCached(c) /\ UNCHANGED <<bodyVars, pool>>) \/ EnterCheck(c))
          /\ WF_clientVars(TimerInterrupts(c))
          /\ WF_clientVars(WaitForStep(c))
          /\ WF_clientVars(Thrown(c) \/ NotEntered(c))
          /\ WF_clientVars(Closed(c) \/ ClosingFails(c))
          /\ WF_clientVars(job[c] = "running" /\ KindOf(c) = "thread" /\ ThreadEnds(c))
          /\ WF_clientVars(ClosedLater(c))

ClientSpec == ClientInit /\ [][ClientNext]_clientVars /\ ClientFairness

-----------------------------------------------------------------------------
(* Properties.                                                             *)

ClientTypeOK ==
    /\ TypeOK
    /\ python \in {"3.11", "3.12"}
    /\ outer \in [Calls -> OuterState]
    /\ kind \in [Probes -> Kinds \cup {None}]
    /\ body \in [Calls -> [st : BodyState, raised : Exception, thrown : BOOLEAN]]
    /\ client \in [Calls -> ClientState]
    /\ PoolTypeOK

(* A body that is over has closed its client, or was interrupted or        *)
(* refused while it did; whether it failed to open, was used or was        *)
(* cancelled, and at whichever await; and so has a call that has ended,    *)
(* except that in 3.11 one that was cancelled again while it stopped its   *)
(* body leaves that to the body.  "An existing client is never closed by   *)
(* the probe" (ClientProbeBase).  A Motor client is given up only if its   *)
(* close() raised or was still queued when the check was cancelled.        *)
NoClientLeftOpen ==
    \A c \in Calls : call[c].probe # None =>
        /\ NotInside(c) => client[c] # "open"
        /\ Ended(c) => NotInside(c) \/ outer[c] = "leaving"
        /\ KindOf(c) \in {"existing", "sync"} => client[c] = "none"
        /\ KindOf(c) = "thread" =>
              /\ client[c] = "abandoned" => job[c] \in {"raised", "dropped"}
              /\ NotInside(c) /\ client[c] = "closing" => job[c] = "running"

(* These bodies do not swallow a cancellation: a check whose timer fired   *)
(* has failed, and one that was cancelled has no result, unless close()    *)
(* raised an exception of its own instead.  A function that returns after  *)
(* that in its thread changes nothing.  In 3.11 timer and cancellation may *)
(* find the body over; then its own result is that of the call, and only   *)
(* then does a call have a result although it was cancelled.               *)
CancellationPrevails ==
    \A c \in Calls : call[c].st = "returned" /\ call[c].start # None =>
        /\ call[c].expired => ~call[c].result.ok \/ outer[c] = "told"
        /\ call[c].cancelled => \/ outer[c] = "none" /\ client[c] = "abandoned"
                                \/ outer[c] = "told"
        /\ outer[c] # "none" => /\ body[c].st = "over"
                                /\ call[c].result.ok <=> body[c].raised = "none"

(* The queue holds no work that nobody waits for, so a check that timed    *)
(* out before a thread was free never calls its function; and each job     *)
(* that is waited for is in the queue once, or has started.                *)
QueueHoldsAwaitedWork ==
    /\ \A c \in Calls : job[c] = "queued" =>
          /\ call[c].st = "checking" \/ outer[c] = "leaving"
          /\ body[c].st = IF KindOf(c) = "sync" THEN "using" ELSE "closing"
          /\ Cardinality({i \in DOMAIN queue : queue[i] = c}) = 1
    /\ \A i \in DOMAIN queue : job[queue[i]] = "queued"

Timed(c) ==
    call[c].st \in {"ready", "checking"} /\ cfg[call[c].probe].timeout # None

ThreadsComeFree == \A d \in Calls : []<>(job[d] # "running")

(* With a timeout every call ends and its client is closed or given up,    *)
(* whatever the client libraries do except hang in close(), and although   *)
(* functions may hold their threads for ever; also if the body closes the  *)
(* client after the call.  The exception is a Motor client: its close()    *)
(* waits behind such functions, and the timer fires only once.             *)
ClientProbeEnds ==
    \A c \in Calls :
        LET inUse == client[c] \in {"open", "closing"}
            begun == Timed(c) \/ (Ended(c) /\ inUse)
            settled == Ended(c) /\ ~inUse
        IN  /\ (begun /\ KindOf(c) # "thread") ~> settled
            /\ ThreadsComeFree => (begun ~> settled)
=============================================================================
