--------------------------- MODULE JobQueueProofs ---------------------------
(* What the operators of JobQueue return and preserve, for every payload type *)
(* and every retry limit.                                                     *)
EXTENDS JobQueue, TLAPS

\* A job enters a slot with its own payload, unless a live job is there.
LEMMA EnqueueType ==
    ASSUME NEW Data, NEW j \in Job(Data), NEW d \in Data
    PROVE  /\ Enqueue(j, d) \in Job(Data)
           /\ Enqueue(j, d).st # "none"
           /\ Enqueue(j, d).data \in {j.data, d}
           /\ Enqueue(j, d).data # d => Live(j)
  BY RetryLimitAssumption DEF Enqueue, NewJob, Job, JobStates, Live, Queued

\* Fetching counts an attempt without passing the retry limit.
LEMMA FetchType ==
    ASSUME NEW Data, NEW j \in Job(Data), Queued(j)
    PROVE  Fetch(j) \in Job(Data) /\ Fetch(j).st = "active" /\ Fetch(j).data = j.data
<1> DEFINE n == IF j.st = "retry" THEN j.tries + 1 ELSE j.tries
<1>1. j \in [st: JobStates, tries: 0..RetryLimit, data: Data]
  BY DEF Job
<1>2. n \in 0..RetryLimit
  BY RetryLimitAssumption DEF Job
<1>3. Fetch(j) = [st |-> "active", tries |-> n, data |-> j.data]
  BY DEF Fetch
<1>4. "active" \in JobStates
  BY DEF JobStates
<1> QED
  BY <1>1, <1>2, <1>3, <1>4 DEF Job

\* A failed attempt waits for the next one only if there is a next one.
LEMMA FailType ==
    ASSUME NEW Data, NEW j \in Job(Data)
    PROVE  Fail(j) \in Job(Data) /\ Fail(j).data = j.data
  BY RetryLimitAssumption DEF Fail, Job, JobStates, IsFinalAttempt

\* Finishing, cancelling and reviving keep a job's payload.
LEMMA SettleType ==
    ASSUME NEW Data, NEW j \in Job(Data)
    PROVE  /\ Complete(j) \in Job(Data) /\ Complete(j).st = "none"
           /\ Cancel(j) \in Job(Data) /\ Cancel(j).st = "none"
           /\ Revive(j) \in Job(Data) /\ Revive(j).data = j.data
<1>1. Complete(j) \in Job(Data) /\ Complete(j).st = "none"
  BY DEF Complete, Job, JobStates
<1>2. Cancel(j) \in Job(Data) /\ Cancel(j).st = "none"
  BY DEF Cancel, Job, JobStates
<1>3. Revive(j) \in Job(Data) /\ Revive(j).data = j.data
  BY RetryLimitAssumption DEF Revive, Job, JobStates
<1> QED
  BY <1>1, <1>2, <1>3
=============================================================================
