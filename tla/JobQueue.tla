------------------------------ MODULE JobQueue ------------------------------
(***************************************************************************)
(* One slot of a job queue: what enqueueing, fetching, failing, finishing  *)
(* and redelivering do to the job that holds a (queue, singletonKey) pair. *)
(*                                                                         *)
(* Every queue of the server is declared `exclusive` (jobs/definitions.ts): *)
(* at most one job per singletonKey is queued, waiting for a retry or      *)
(* running.  So a queue is a function from singleton keys to the job       *)
(* record of this module, and the components apply these operators to it.  *)
(* The states are those of pg-boss; `failed` is the copy the queue keeps   *)
(* of a job whose retries are spent (its dead letter is kept apart, by the *)
(* component that uses the queue).                                         *)
(***************************************************************************)
EXTENDS Naturals

CONSTANT RetryLimit     \* retryLimit of the queue (5 in the source)

ASSUME RetryLimitAssumption == RetryLimit \in Nat \ {0}

JobStates == {"none", "created", "retry", "active", "failed"}

\* The jobs whose payload is a member of Data.  A job waits for a retry only
\* while it has one left.
Job(Data) ==
    {j \in [st: JobStates, tries: 0..RetryLimit, data: Data] :
        j.st = "retry" => j.tries < RetryLimit}

\* Mutant of Queued: a failed attempt is not delivered again.
QueuedOnce(j) == j.st = "created"

Queued(j) == j.st \in {"created", "retry"}

\* The states in which the exclusive policy refuses another job.
Live(j) == Queued(j) \/ j.st = "active"

NewJob(d) == [st |-> "created", tries |-> 0, data |-> d]

\* Mutant of Enqueue: the singletonKey is spent by its first job for ever.
EnqueueOnce(j, d) == IF j.st # "none" THEN j ELSE NewJob(d)

\* JobQueue.enqueue: a second job for a live singletonKey is not created.
Enqueue(j, d) == IF Live(j) THEN j ELSE NewJob(d)

\* The next attempt starts; pg-boss counts the attempts after the first one.
Fetch(j) ==
    [st |-> "active",
     tries |-> IF j.st = "retry" THEN j.tries + 1 ELSE j.tries,
     data |-> j.data]

\* isFinalAttempt: the failure of this attempt sends the job to the dead letters.
IsFinalAttempt(j) == j.tries >= RetryLimit

\* An attempt that threw, or that outlived expireInSeconds.
Fail(j) == [j EXCEPT !.st = IF IsFinalAttempt(j) THEN "failed" ELSE "retry"]

Complete(j) == [j EXCEPT !.st = "none"]

Cancel(j) == [j EXCEPT !.st = "none"]

\* boss.retry on a failed job allows one more attempt.
Revive(j) == [st |-> "retry", tries |-> RetryLimit - 1, data |-> j.data]
=============================================================================
