------------------------------ MODULE Executor -------------------------------
(***************************************************************************)
(* The default executor of an event loop, as run_in_executor() uses it: a  *)
(* bounded pool of threads and one FIFO queue in front of them.  A call    *)
(* hands over at most one job, a function to run.                          *)
(*                                                                         *)
(* Cancelling the future of a job takes it out of the queue; a function    *)
(* that has started cannot be stopped, and nobody hears how it ended.      *)
(***************************************************************************)
EXTENDS Integers, FiniteSets, SequencesExt

CONSTANTS Calls, Workers

VARIABLES
    job,        \* the job of a call
    queue       \* calls whose job waits for a thread

poolVars == <<job, queue>>

JobState == {"none", "queued", "running", "returned", "raised", "dropped"}

Running == {c \in Calls : job[c] = "running"}

PoolInit ==
    /\ job = [c \in Calls |-> "none"]
    /\ queue = <<>>

Submit(c) ==
    /\ job' = [job EXCEPT ![c] = "queued"]
    /\ queue' = Append(queue, c)

(* An idle thread takes the job at the head of the queue.                  *)
PickUp ==
    /\ queue # <<>>
    /\ Cardinality(Running) < Workers
    /\ job' = [job EXCEPT ![Head(queue)] = "running"]
    /\ queue' = Tail(queue)

(* The function returns or raises.                                         *)
Finishes(c, outcome) ==
    /\ job[c] = "running"
    /\ outcome \in {"returned", "raised"}
    /\ job' = [job EXCEPT ![c] = outcome]
    /\ UNCHANGED queue

(* Faulty variant: the future is shielded, its job stays in the queue.     *)
LetGoShielded(c) == UNCHANGED poolVars

(* The future of the job is cancelled: whoever waited has gone away.       *)
LetGo(c) ==
    IF job[c] = "queued"
    THEN /\ job' = [job EXCEPT ![c] = "dropped"]
         /\ queue' = RemoveAt(queue, CHOOSE i \in DOMAIN queue : queue[i] = c)
    ELSE UNCHANGED poolVars

PoolTypeOK ==
    /\ job \in [Calls -> JobState]
    /\ queue \in Seq(Calls)
=============================================================================
