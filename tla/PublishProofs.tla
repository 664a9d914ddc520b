---------------------------- MODULE PublishProofs ----------------------------
(***************************************************************************)
(* Theorems about Publish, for any number of requests, releases, labels,   *)
(* keys, workers, faults and operator actions and any retry limit.         *)
(***************************************************************************)
EXTENDS Publish, JobQueueProofs, SequenceTheorems
-----------------------------------------------------------------------------
(***************************************************************************)
(* The inductive invariant.  The properties that matter, label uniqueness, *)
(* key uniqueness and the audit log, are not inductive alone: that a       *)
(* handler finds its key unused says nothing unless the recorded keys are  *)
(* those of the decided releases, and a handler could decide a row that    *)
(* was never inserted unless every job and every handler names one.        *)
(***************************************************************************)

\* A running handler whose attempt has not been taken from it holds an active
\* job for its release.
HandlersHoldTheirJobs ==
    \A w \in Workers : workers[w] # Idle /\ workers[w].slot # None =>
        /\ jobs[workers[w].slot].st = "active"
        /\ jobs[workers[w].slot].data = workers[w].release

\* An active job has at most one handler.
JobsAreHeldOnce ==
    \A v, w \in Workers :
        /\ workers[v] # Idle /\ workers[w] # Idle
        /\ workers[v].slot # None /\ workers[v].slot = workers[w].slot
        => v = w

\* Only releases whose request was accepted have jobs, handlers or dead letters.
OnlyAcceptedReleasesRun ==
    /\ \A s \in Slots : jobs[s].st # "none" => Exists(jobs[s].data)
    /\ \A w \in Workers : workers[w] # Idle => Exists(workers[w].release)
    /\ \A r \in dead : Exists(r)

\* The job_effects key of a release is recorded with its outcome.
EffectsMarkOutcomes ==
    \A r \in Releases : r \in effects <=> releases[r].state \in {"done", "failed"}

IInv ==
    /\ TypeOK
    /\ HandlersHoldTheirJobs
    /\ JobsAreHeldOnce
    /\ OnlyAcceptedReleasesRun
    /\ EffectsMarkOutcomes
    /\ LabelHeldOnce
    /\ OneReleasePerKey
    /\ AuditTellsOutcome
-----------------------------------------------------------------------------
(* Types of the pieces. *)

\* The request handlers' records.
LEMMA AnswerType ==
    ASSUME NEW ask \in Ask, NEW kind \in AnswerKinds, NEW r \in Releases \cup {None}
    PROVE  AnswerFor(ask, kind, r) \in Answered
  BY DEF AnswerFor, Answered

\* A handler between its reads knows what it was asked.
LEMMA AskingType ==
    ASSUME TypeOK, NEW q \in Requests, requests[q].pc \in {"lookup", "select", "insert"}
    PROVE  requests[q] \in Asking /\ requests[q].ask \in Ask
  BY DEF TypeOK, NoAsk, Asking, Answered

\* A publish handler that runs knows its release and its slot.
LEMMA BusyType ==
    ASSUME TypeOK, NEW w \in Workers, workers[w] # Idle
    PROVE  /\ workers[w] \in Busy
           /\ workers[w].release \in Releases
           /\ workers[w].slot \in Slots \cup {None}
  BY DEF TypeOK, Busy

\* An execution whose program counter has a name of its own is busy.
LEMMA PcIsBusy ==
    ASSUME NEW w \in Workers, workers[w].pc \in {"start", "check", "write", "reject", "finish"}
    PROVE  workers[w] # Idle
  BY DEF Idle

\* A step of a publish handler's program counter keeps its record's type.
LEMMA StepType ==
    ASSUME TypeOK, NEW w \in Workers, workers[w] # Idle,
           NEW pc \in {"start", "check", "write", "reject", "finish"}, Step(w, pc)
    PROVE  workers' \in [Workers -> {Idle} \cup Busy]
  BY BusyType DEF TypeOK, Step, Busy

\* The queue after an attempt failed: the dead letter is a release.
LEMMA AttemptFailsType ==
    ASSUME TypeOK, NEW s \in Slots, jobs[s].data \in Releases, AttemptFails(s)
    PROVE  /\ jobs' \in [Slots -> Job(Releases \cup {None})]
           /\ \A t \in Slots : jobs'[t].data = jobs[t].data /\ (t # s => jobs'[t] = jobs[t])
           /\ dead' \subseteq dead \cup {jobs[s].data}
<1>1. Fail(jobs[s]) \in Job(Releases \cup {None}) /\ Fail(jobs[s]).data = jobs[s].data
  BY FailType DEF TypeOK
<1> QED
  BY <1>1 DEF TypeOK, AttemptFails

\* The row a request inserts.
LEMMA RowType == ASSUME NEW ask \in Ask PROVE RowOf(ask) \in Release
  BY DEF Ask, RowOf, Release

\* What a handler decides keeps the tables' types: Reject and Publish both change
\* one release's state, and append one audit entry.
LEMMA DecisionType ==
    ASSUME TypeOK, NEW r \in Releases, Exists(r), NEW st \in {"done", "failed"},
           NEW e \in AuditEvents
    PROVE  /\ [releases EXCEPT ![r].state = st] \in [Releases -> Release \cup {NoRelease}]
           /\ [audit EXCEPT ![r] = Append(@, e)] \in [Releases -> Seq(AuditEvents)]
<1>1. releases[r] \in Release
  BY DEF TypeOK, Exists, NoRelease
<1>2. [releases[r] EXCEPT !.state = st] \in Release
  BY <1>1 DEF Release
<1>3. Append(audit[r], e) \in Seq(AuditEvents)
  BY DEF TypeOK
<1> QED
  BY <1>2, <1>3 DEF TypeOK
\* An operator action stays within its bound.
LEMMA OperatorType == ASSUME TypeOK, Operator PROVE operator' \in 0..MaxOperator
  BY BoundsAssumption DEF TypeOK, Operator
-----------------------------------------------------------------------------
(* Type correctness is preserved. *)

LEMMA TypeStep == IInv /\ [Next]_vars => TypeOK'
<1> SUFFICES ASSUME IInv, [Next]_vars PROVE TypeOK'
  OBVIOUS
<1>t. TypeOK
  BY DEF IInv
<1> USE BoundsAssumption
<1>1. ASSUME NEW q \in Requests, NEW ask \in Ask, Send(q, ask) PROVE TypeOK'
  BY <1>t, <1>1 DEF TypeOK, Send, tables, queue, bounds, Asking
<1>2. ASSUME NEW q \in Requests, Lookup(q) PROVE TypeOK'
  <2>1. requests[q] \in Asking /\ requests[q].ask \in Ask
    BY <1>t, <1>2, AskingType DEF Lookup
  <2>2. requests' \in [Requests -> {NoAsk} \cup Asking \cup Answered]
    <3>1. CASE \E r \in Releases \cup {None}, k \in AnswerKinds : Answer(q, k, r)
      BY <1>t, <2>1, <3>1, AnswerType DEF TypeOK, Answer
    <3>2. CASE requests' = [requests EXCEPT ![q].pc = "select"]
      BY <1>t, <2>1, <3>2 DEF TypeOK, Asking
    <3> QED
      BY <1>2, <3>1, <3>2 DEF Lookup, AnswerKinds, WithKey
  <2> QED
    BY <1>t, <1>2, <2>2 DEF TypeOK, Lookup, tables, queue, bounds
<1>3. ASSUME NEW q \in Requests, SelectLabel(q) PROVE TypeOK'
  <2>1. requests[q] \in Asking /\ requests[q].ask \in Ask
    BY <1>t, <1>3, AskingType DEF SelectLabel
  <2>2. requests' \in [Requests -> {NoAsk} \cup Asking \cup Answered]
    <3>1. CASE \E r \in Releases \cup {None}, k \in AnswerKinds : Answer(q, k, r)
      BY <1>t, <2>1, <3>1, AnswerType DEF TypeOK, Answer
    <3>2. CASE requests' = [requests EXCEPT ![q].pc = "insert"]
      BY <1>t, <2>1, <3>2 DEF TypeOK, Asking
    <3> QED
      BY <1>3, <3>1, <3>2 DEF SelectLabel, AnswerKinds, Holders
  <2> QED
    BY <1>t, <1>3, <2>2 DEF TypeOK, SelectLabel, tables, queue, bounds
<1>4. ASSUME NEW q \in Requests, Insert(q) PROVE TypeOK'
  <2>1. requests[q].ask \in Ask
    BY <1>t, <1>4, AskingType DEF Insert
  <2>2. requests' \in [Requests -> {NoAsk} \cup Asking \cup Answered]
    <3>1. \E r \in Releases \cup {None}, k \in AnswerKinds : Answer(q, k, r)
      BY <1>4 DEF Insert, AnswerKinds
    <3> QED
      BY <1>t, <2>1, <3>1, AnswerType DEF TypeOK, Answer
  <2>3. CASE UNCHANGED <<releases, audit, jobs>>
    BY <1>t, <1>4, <2>2, <2>3 DEF TypeOK, Insert, bounds
  <2>4. ASSUME NEW r \in Releases,
               releases' = [releases EXCEPT ![r] = RowOf(requests[q].ask)],
               audit' = [audit EXCEPT ![r] = Append(@, "requested")],
               jobs' = [jobs EXCEPT ![r] = Enqueue(@, r)]
        PROVE  TypeOK'
    <3>1. releases' \in [Releases -> Release \cup {NoRelease}]
      BY <1>t, <2>1, <2>4, RowType DEF TypeOK
    <3>2. Append(audit[r], "requested") \in Seq(AuditEvents)
      BY <1>t DEF TypeOK, AuditEvents
    <3>3. audit' \in [Releases -> Seq(AuditEvents)]
      BY <1>t, <2>4, <3>2 DEF TypeOK
    <3>4. /\ jobs' \in [Slots -> Job(Releases \cup {None})]
          /\ \A s \in Slots : jobs'[s].st # "none" => jobs'[s].data \in Releases
      <4>1. r \in Slots /\ jobs[r] \in Job(Releases \cup {None})
        BY <1>t DEF TypeOK, Slots
      <4>2. /\ Enqueue(jobs[r], r) \in Job(Releases \cup {None})
            /\ Enqueue(jobs[r], r).data \in {jobs[r].data, r}
            /\ Enqueue(jobs[r], r).data # r => Live(jobs[r])
        BY <4>1, EnqueueType
      <4>3. Enqueue(jobs[r], r).data \in Releases
        BY <1>t, <4>1, <4>2 DEF TypeOK, Live, Queued
      <4> QED
        BY <1>t, <2>4, <4>1, <4>2, <4>3 DEF TypeOK
    <3> QED
      BY <1>t, <1>4, <2>2, <3>1, <3>3, <3>4 DEF TypeOK, Insert, bounds
  <2> QED
    BY <1>4, <2>3, <2>4 DEF Insert
<1>5. ASSUME NEW q \in Requests, Refuse(q) PROVE TypeOK'
  <2>1. requests[q].ask \in Ask
    BY <1>t, <1>5, AskingType DEF Refuse
  <2>2. AnswerFor(requests[q].ask, "refused", None) \in Answered
    BY <2>1, AnswerType DEF AnswerKinds
  <2> QED
    BY <1>t, <1>5, <2>2 DEF TypeOK, Refuse, Answer, tables, queue, bounds
<1>6. CASE ConfirmImport
  BY <1>t, <1>6 DEF TypeOK, ConfirmImport, tables, queue, bounds
<1>7. ASSUME NEW w \in Workers, NEW s \in Slots, Fetched(w, s) PROVE TypeOK'
  <2>1. /\ Fetch(jobs[s]) \in Job(Releases \cup {None})
        /\ Fetch(jobs[s]).data = jobs[s].data
    BY <1>t, <1>7, FetchType DEF TypeOK, Fetched
  <2>2. jobs[s].data \in Releases
    BY <1>t, <1>7 DEF TypeOK, Fetched, Queued
  <2>3. [pc |-> "start", release |-> jobs[s].data, slot |-> s] \in Busy
    BY <2>2 DEF Busy
  <2> QED
    BY <1>t, <1>7, <2>1, <2>2, <2>3 DEF TypeOK, Fetched, tables, bounds
<1>8. ASSUME NEW w \in Workers, Start(w) PROVE TypeOK'
  <2>1. workers' \in [Workers -> {Idle} \cup Busy]
    BY <1>t, <1>8, PcIsBusy, StepType DEF Start
  <2> QED
    BY <1>t, <1>8, <2>1 DEF TypeOK, Start, tables, queue, bounds
<1>9. ASSUME NEW w \in Workers, Check(w) PROVE TypeOK'
  <2>1. workers' \in [Workers -> {Idle} \cup Busy]
    BY <1>t, <1>9, PcIsBusy, StepType DEF Check
  <2> QED
    BY <1>t, <1>9, <2>1 DEF TypeOK, Check, tables, queue, bounds
<1>10. ASSUME NEW w \in Workers, Reject(w) PROVE TypeOK'
  <2> DEFINE r == workers[w].release
  <2>1. workers[w] # Idle /\ workers' \in [Workers -> {Idle} \cup Busy]
    BY <1>t, <1>10, PcIsBusy, StepType DEF Reject
  <2>2. r \in Releases /\ Exists(r)
    BY <1>t, <2>1, BusyType DEF IInv, OnlyAcceptedReleasesRun
  <2>3. /\ [releases EXCEPT ![r].state = "failed"] \in [Releases -> Release \cup {NoRelease}]
        /\ [audit EXCEPT ![r] = Append(@, "failed")] \in [Releases -> Seq(AuditEvents)]
    BY <1>t, <2>2, DecisionType DEF AuditEvents
  <2>4. /\ releases' \in {releases, [releases EXCEPT ![r].state = "failed"]}
        /\ audit' \in {audit, [audit EXCEPT ![r] = Append(@, "failed")]}
        /\ effects' \in {effects, effects \cup {r}}
    BY <1>10 DEF Reject, Once
  <2> QED
    BY <1>t, <1>10, <2>1, <2>2, <2>3, <2>4 DEF TypeOK, Reject, queue, bounds
<1>11. ASSUME NEW w \in Workers, Publish(w) PROVE TypeOK'
  <2> DEFINE r == workers[w].release
  <2>1. workers[w] # Idle /\ workers' \in [Workers -> {Idle} \cup Busy]
    BY <1>t, <1>11, PcIsBusy, StepType DEF Publish
  <2>2. r \in Releases /\ Exists(r)
    BY <1>t, <2>1, BusyType DEF IInv, OnlyAcceptedReleasesRun
  <2>3. /\ [releases EXCEPT ![r].state = "done"] \in [Releases -> Release \cup {NoRelease}]
        /\ [audit EXCEPT ![r] = Append(@, "published")] \in [Releases -> Seq(AuditEvents)]
    BY <1>t, <2>2, DecisionType DEF AuditEvents
  <2>4. /\ releases' \in {releases, [releases EXCEPT ![r].state = "done"]}
        /\ audit' \in {audit, [audit EXCEPT ![r] = Append(@, "published")]}
        /\ effects' \in {effects, effects \cup {r}}
        /\ latest' \in {latest, r}
    BY <1>11 DEF Publish, Once
  <2> QED
    BY <1>t, <1>11, <2>1, <2>2, <2>3, <2>4 DEF TypeOK, Publish, queue, bounds
<1>12. ASSUME NEW w \in Workers, Finish(w) PROVE TypeOK'
  <2>1. workers[w].slot \in Slots \cup {None}
    BY <1>t, <1>12, PcIsBusy, BusyType DEF Finish
  <2>2. \A s \in Slots : /\ Complete(jobs[s]) \in Job(Releases \cup {None})
                         /\ Complete(jobs[s]).st = "none"
    BY <1>t, SettleType DEF TypeOK
  <2> QED
    BY <1>t, <1>12, <2>1, <2>2 DEF TypeOK, Finish, tables, bounds
<1>13. ASSUME NEW w \in Workers, Abort(w) \/ Expire(w) PROVE TypeOK'
  <2>1. workers[w] # Idle
    BY <1>13 DEF Abort, Expire
  <2>2. workers[w] \in Busy /\ workers[w].slot \in Slots \cup {None}
    BY <1>t, <2>1, BusyType
  <2>3. workers' \in [Workers -> {Idle} \cup Busy]
    <3>1. [workers[w] EXCEPT !.slot = None] \in Busy
      BY <2>2 DEF Busy
    <3> QED
      BY <1>t, <1>13, <3>1 DEF TypeOK, Abort, Expire, Detached
  <2>4. faults' \in 0..MaxFaults
    BY <1>t, <1>13 DEF TypeOK, Abort, Expire
  <2>5. /\ jobs' \in [Slots -> Job(Releases \cup {None})]
        /\ \A s \in Slots : jobs'[s].st # "none" => jobs'[s].data \in Releases
        /\ dead' \subseteq Releases
    <3>1. CASE workers[w].slot = None
      BY <1>t, <1>13, <3>1 DEF TypeOK, Abort, Expire, queue
    <3>2. CASE workers[w].slot # None
      <4>1. /\ jobs[workers[w].slot].st = "active"
            /\ AttemptFails(workers[w].slot)
        BY <1>13, <2>1, <3>2 DEF Abort, Expire, IInv, HandlersHoldTheirJobs
      <4>2. jobs[workers[w].slot].data \in Releases
        BY <1>t, <2>2, <3>2, <4>1 DEF TypeOK
      <4> QED
        BY <1>t, <2>2, <3>2, <4>1, <4>2, AttemptFailsType DEF TypeOK
    <3> QED
      BY <3>1, <3>2
  <2> QED
    BY <1>t, <1>13, <2>3, <2>4, <2>5 DEF TypeOK, Abort, Expire, tables
<1>14. ASSUME NEW r \in Releases, Requeue(r) \/ Redeliver(r) PROVE TypeOK'
  <2>1. PICK s \in Slots : jobs' = [jobs EXCEPT ![s] = Enqueue(@, r)]
    BY <1>14 DEF Requeue, Redeliver, Slots
  <2>2. /\ Enqueue(jobs[s], r) \in Job(Releases \cup {None})
        /\ Enqueue(jobs[s], r).data \in {jobs[s].data, r}
        /\ Enqueue(jobs[s], r).data # r => Live(jobs[s])
    <3>1. jobs[s] \in Job(Releases \cup {None}) /\ r \in Releases \cup {None}
      BY <1>t DEF TypeOK
    <3> QED
      BY <3>1, EnqueueType
  <2>3. Enqueue(jobs[s], r).data \in Releases
    BY <1>t, <2>2 DEF TypeOK, Live, Queued
  <2>4. dead' \subseteq Releases /\ operator' \in 0..MaxOperator
    BY <1>t, <1>14, OperatorType DEF TypeOK, Requeue, Redeliver, queue, bounds
  <2> QED
    BY <1>t, <1>14, <2>1, <2>2, <2>3, <2>4
    DEF TypeOK, Requeue, Redeliver, tables, bounds
<1>15. ASSUME NEW r \in Releases, DiscardDead(r) PROVE TypeOK'
  BY <1>t, <1>15, OperatorType DEF TypeOK, DiscardDead, tables
<1>16. CASE FlipSwitch
  <2>1. publishOff' \in BOOLEAN
    BY <1>16, Zenon DEF FlipSwitch
  <2> QED
    BY <1>t, <1>16, <2>1, OperatorType DEF TypeOK, FlipSwitch, tables, queue
<1>17. ASSUME NEW s \in Slots, RetryFailed(s) PROVE TypeOK'
  <2>1. /\ Revive(jobs[s]) \in Job(Releases \cup {None})
        /\ Revive(jobs[s]).data = jobs[s].data
    BY <1>t, SettleType DEF TypeOK
  <2> QED
    BY <1>t, <1>17, <2>1, OperatorType DEF TypeOK, RetryFailed, tables
<1>18. ASSUME NEW s \in Slots, CancelJob(s) PROVE TypeOK'
  <2>1. Cancel(jobs[s]) \in Job(Releases \cup {None}) /\ Cancel(jobs[s]).st = "none"
    BY <1>t, SettleType DEF TypeOK
  <2>2. workers' \in [Workers -> {Idle} \cup Busy]
    BY <1>t, <1>18 DEF TypeOK, CancelJob, Busy
  <2> QED
    BY <1>t, <1>18, <2>1, <2>2, OperatorType DEF TypeOK, CancelJob, tables
<1>19. CASE UNCHANGED vars
  BY <1>t, <1>19 DEF TypeOK, vars
<1> QED
  BY <1>1, <1>2, <1>3, <1>4, <1>5, <1>6, <1>7, <1>8, <1>9, <1>10, <1>11, <1>12, <1>13,
     <1>14, <1>15, <1>16, <1>17, <1>18, <1>19 DEF Next, RequestStep, WorkerStep
-----------------------------------------------------------------------------
(* What a step does to the tables: it accepts a request, decides a release, or *)
(* leaves them alone.                                                          *)

Accepts(r, ask) ==
    /\ ~Exists(r) /\ ~Conflict(ask)
    /\ releases' = [releases EXCEPT ![r] = RowOf(ask)]
    /\ audit' = [audit EXCEPT ![r] = Append(@, "requested")]
    /\ UNCHANGED <<latest, effects>>

Decides(r, st, event) ==
    /\ <<st, event>> \in {<<"done", "published">>, <<"failed", "failed">>}
    /\ Pending(r)
    /\ releases' = [releases EXCEPT ![r].state = st]
    /\ audit' = [audit EXCEPT ![r] = Append(@, event)]
    /\ latest' = IF st = "done" THEN r ELSE latest
    /\ effects' = effects \cup {r}

\* runOnce and the guards of the two updates: a handler that reaches its last
\* transaction decides a pending release or changes nothing.
LEMMA HandlerDecides ==
    ASSUME IInv, NEW w \in Workers, Reject(w) \/ Publish(w)
    PROVE  \/ \E r \in Releases, st, event \in {"done", "published", "failed"} :
                Decides(r, st, event)
           \/ UNCHANGED tables
<1> DEFINE r == workers[w].release
<1>1. r \in Releases /\ Exists(r)
  BY PcIsBusy, BusyType DEF Reject, Publish, IInv, OnlyAcceptedReleasesRun
<1>2. r \notin effects => Pending(r)
  <2>1. releases[r] \in Release
    BY <1>1 DEF IInv, TypeOK, Exists, NoRelease
  <2> QED
    BY <1>1, <2>1 DEF IInv, EffectsMarkOutcomes, Pending, Release
<1>3. CASE r \in effects
  BY <1>3 DEF Reject, Publish, Once, tables
<1>4. CASE r \notin effects /\ Reject(w)
  <2>1. Decides(r, "failed", "failed")
    BY <1>2, <1>4 DEF Reject, Once, Decides
  <2> QED
    BY <1>1, <2>1
<1>5. CASE r \notin effects /\ Publish(w)
  <2>1. Decides(r, "done", "published")
    BY <1>2, <1>5 DEF Publish, Once, Decides
  <2> QED
    BY <1>1, <2>1
<1> QED
  BY <1>3, <1>4, <1>5

LEMMA TablesStep ==
    ASSUME IInv, [Next]_vars
    PROVE  \/ \E r \in Releases, ask \in Ask : Accepts(r, ask)
           \/ \E r \in Releases, st, event \in {"done", "published", "failed"} :
                Decides(r, st, event)
           \/ UNCHANGED tables
<1>1. ASSUME NEW q \in Requests, Insert(q)
      PROVE  \/ \E r \in Releases, ask \in Ask : Accepts(r, ask)
             \/ UNCHANGED tables
  <2>1. requests[q].ask \in Ask
    BY <1>1, AskingType DEF Insert, IInv
  <2> QED
    BY <1>1, <2>1 DEF Insert, Accepts, tables
<1>2. ASSUME NEW w \in Workers, Reject(w) \/ Publish(w)
      PROVE  \/ \E r \in Releases, st, event \in {"done", "published", "failed"} :
                Decides(r, st, event)
             \/ UNCHANGED tables
  BY <1>2, HandlerDecides
<1>3. ASSUME NEW q \in Requests,
             (\E ask \in Ask : Send(q, ask)) \/ Lookup(q) \/ SelectLabel(q) \/ Refuse(q)
      PROVE  UNCHANGED tables
  BY <1>3 DEF Send, Lookup, SelectLabel, Refuse
<1>4. ASSUME NEW w \in Workers,
             \/ \E s \in Slots : Fetched(w, s)
             \/ Start(w) \/ Check(w) \/ Finish(w) \/ Abort(w) \/ Expire(w)
      PROVE  UNCHANGED tables
  BY <1>4 DEF Fetched, Start, Check, Finish, Abort, Expire
<1>5. ASSUME \/ ConfirmImport \/ FlipSwitch
             \/ \E r \in Releases : Requeue(r) \/ Redeliver(r) \/ DiscardDead(r)
             \/ \E s \in Slots : RetryFailed(s) \/ CancelJob(s)
             \/ UNCHANGED vars
      PROVE  UNCHANGED tables
  BY <1>5 DEF ConfirmImport, FlipSwitch, Requeue, Redeliver, DiscardDead, RetryFailed,
              CancelJob, vars, tables
<1> QED
  BY <1>1, <1>2, <1>3, <1>4, <1>5 DEF Next, RequestStep, WorkerStep

\* A row is never deleted.
LEMMA RowsStay ==
    ASSUME IInv, [Next]_vars, NEW r \in Releases, Exists(r)
    PROVE  Exists(r)'
<1>1. ASSUME NEW x \in Releases, NEW ask \in Ask, Accepts(x, ask) PROVE Exists(r)'
  BY <1>1 DEF Accepts, Exists, RowOf, IInv, TypeOK
<1>2. ASSUME NEW x \in Releases, NEW st, NEW event, Decides(x, st, event) PROVE Exists(r)'
  <2>1. st # "absent"
    BY <1>2 DEF Decides
  <2> QED
    BY <1>2, <2>1 DEF Decides, Exists, IInv, TypeOK
<1>3. CASE UNCHANGED tables
  BY <1>3 DEF tables, Exists
<1> QED
  BY <1>1, <1>2, <1>3, TablesStep
-----------------------------------------------------------------------------
(* The ledger's invariants are preserved. *)

\* The audit log of every outcome.
LEMMA OutcomeIs ==
    /\ Outcome("absent") = <<>>
    /\ Outcome("pending") = <<"requested">>
    /\ Outcome("done") = <<"requested", "published">>
    /\ Outcome("failed") = <<"requested", "failed">>
<1>1. Outcome("absent") = <<>>
  BY DEF Outcome
<1>2. Outcome("pending") = <<"requested">>
  BY DEF Outcome
<1>3. Outcome("done") = <<"requested", "published">>
  BY DEF Outcome
<1>4. Outcome("failed") = <<"requested", "failed">>
  BY DEF Outcome
<1> QED
  BY <1>1, <1>2, <1>3, <1>4

\* A second event after a first one.
LEMMA AppendSecond ==
    ASSUME NEW S, NEW a \in S, NEW b \in S
    PROVE  Append(<<a>>, b) = <<a, b>>
<1> DEFINE s == Append(<<a>>, b)
           t == <<a, b>>
<1>1. s \in Seq(S) /\ t \in Seq(S)
  OBVIOUS
<1>2. Len(s) = 2 /\ Len(t) = 2
  OBVIOUS
<1>3. s[1] = a /\ s[2] = b /\ t[1] = a /\ t[2] = b
  OBVIOUS
<1>4. \A i \in 1..Len(s) : s[i] = t[i]
  BY <1>2, <1>3
<1> HIDE DEF s, t
<1>5. s = t
  BY <1>1, <1>2, <1>4, SeqEqual
<1> QED
  BY <1>5 DEF s, t

\* How an accepted request and an outcome extend it.
LEMMA OutcomeGrows ==
    /\ Append(Outcome("absent"), "requested") = Outcome("pending")
    /\ Append(Outcome("pending"), "published") = Outcome("done")
    /\ Append(Outcome("pending"), "failed") = Outcome("failed")
<1>e. "requested" \in AuditEvents /\ "published" \in AuditEvents /\ "failed" \in AuditEvents
  BY DEF AuditEvents
<1>1. Append(<<>>, "requested") = <<"requested">>
  OBVIOUS
<1>2. Append(<<"requested">>, "published") = <<"requested", "published">>
  BY <1>e, AppendSecond, Zenon
<1>3. Append(<<"requested">>, "failed") = <<"requested", "failed">>
  BY <1>e, AppendSecond, Zenon
<1> QED
  BY <1>1, <1>2, <1>3, OutcomeIs

LEMMA LedgerStep ==
    ASSUME IInv, [Next]_vars
    PROVE  /\ EffectsMarkOutcomes'
           /\ LabelHeldOnce'
           /\ OneReleasePerKey'
           /\ AuditTellsOutcome'
<1>1. ASSUME NEW r \in Releases, NEW ask \in Ask, Accepts(r, ask)
      PROVE  /\ EffectsMarkOutcomes' /\ LabelHeldOnce' /\ OneReleasePerKey'
             /\ AuditTellsOutcome'
  <2>1. /\ releases'[r] = RowOf(ask) /\ releases[r].state = "absent"
        /\ \A x \in Releases \ {r} : releases'[x] = releases[x]
        /\ audit'[r] = Append(audit[r], "requested")
        /\ \A x \in Releases \ {r} : audit'[x] = audit[x]
    BY <1>1 DEF Accepts, Exists, IInv, TypeOK
  <2>2. EffectsMarkOutcomes'
    BY <1>1, <2>1 DEF Accepts, EffectsMarkOutcomes, IInv, RowOf
  <2>3. LabelHeldOnce'
    <3>1. \A x \in Releases \ {r} : Holds(x) => releases[x].label # ask.label
      BY <1>1 DEF Accepts, Conflict, Holders
    <3> QED
      BY <2>1, <3>1 DEF LabelHeldOnce, Holds, IInv, RowOf
  <2>4. OneReleasePerKey'
    <3>1. \A x \in Releases \ {r} : Exists(x) => releases[x].key # ask.key
      BY <1>1 DEF Accepts, Conflict, WithKey
    <3> QED
      BY <2>1, <3>1 DEF OneReleasePerKey, Exists, IInv, RowOf
  <2>5. AuditTellsOutcome'
    <3>1. audit'[r] = Outcome(releases'[r].state)
      BY <2>1, OutcomeGrows DEF IInv, AuditTellsOutcome, RowOf
    <3> QED
      BY <2>1, <3>1 DEF IInv, AuditTellsOutcome, Outcome
  <2> QED
    BY <2>2, <2>3, <2>4, <2>5
<1>2. ASSUME NEW r \in Releases, NEW st, NEW event, Decides(r, st, event)
      PROVE  /\ EffectsMarkOutcomes' /\ LabelHeldOnce' /\ OneReleasePerKey'
             /\ AuditTellsOutcome'
  <2>1. /\ releases[r].state = "pending"
        /\ releases[r] \in Release
        /\ st \in {"done", "failed"}
    BY <1>2 DEF Decides, Pending, IInv, TypeOK, NoRelease
  <2>2. /\ releases'[r].state = st
        /\ releases'[r].label = releases[r].label
        /\ releases'[r].key = releases[r].key
        /\ \A x \in Releases \ {r} : releases'[x] = releases[x]
        /\ audit'[r] = Append(audit[r], event)
        /\ \A x \in Releases \ {r} : audit'[x] = audit[x]
    BY <1>2, <2>1 DEF Decides, IInv, TypeOK, Release
  <2>3. EffectsMarkOutcomes'
    BY <1>2, <2>1, <2>2 DEF Decides, EffectsMarkOutcomes, IInv
  <2>4. LabelHeldOnce'
    BY <2>1, <2>2 DEF LabelHeldOnce, Holds, IInv
  <2>5. OneReleasePerKey'
    BY <2>1, <2>2 DEF OneReleasePerKey, Exists, IInv
  <2>6. AuditTellsOutcome'
    <3>1. audit'[r] = Outcome(releases'[r].state)
      BY <1>2, <2>1, <2>2, OutcomeGrows DEF Decides, IInv, AuditTellsOutcome
    <3> QED
      BY <2>1, <2>2, <3>1 DEF IInv, AuditTellsOutcome, Outcome
  <2> QED
    BY <2>3, <2>4, <2>5, <2>6
<1>3. CASE UNCHANGED tables
  BY <1>3 DEF tables, IInv, EffectsMarkOutcomes, LabelHeldOnce, OneReleasePerKey,
              AuditTellsOutcome, Holds, Exists, Outcome
<1> QED
  BY <1>1, <1>2, <1>3, TablesStep
-----------------------------------------------------------------------------
(* The queue's invariants are preserved. *)

QueueInv == HandlersHoldTheirJobs /\ JobsAreHeldOnce /\ OnlyAcceptedReleasesRun

\* A slot that gets a job for an accepted release, if it has no live job.
LEMMA EnqueueStep ==
    ASSUME IInv, NEW s \in Slots, NEW r \in Releases, Exists(r)',
           \A x \in Releases : Exists(x) => Exists(x)',
           jobs' = [jobs EXCEPT ![s] = Enqueue(@, r)],
           dead' \subseteq dead, UNCHANGED workers
    PROVE  QueueInv'
<1>1. jobs \in [Slots -> Job(Releases \cup {None})]
  BY DEF IInv, TypeOK
<1>2. /\ Live(jobs[s]) => jobs'[s] = jobs[s]
      /\ ~Live(jobs[s]) => jobs'[s].data = r
      /\ \A t \in Slots \ {s} : jobs'[t] = jobs[t]
  BY <1>1 DEF Enqueue, NewJob
<1>3. HandlersHoldTheirJobs' /\ JobsAreHeldOnce'
  BY <1>2, BusyType DEF IInv, HandlersHoldTheirJobs, JobsAreHeldOnce, Live
<1>4. OnlyAcceptedReleasesRun'
  <2>1. \A t \in Slots : (jobs[t].st # "none" => Exists(jobs[t].data))'
    <3> TAKE t \in Slots
    <3>1. CASE t = s /\ ~Live(jobs[s])
      BY <1>2, <3>1
    <3>2. CASE jobs'[t] = jobs[t]
      BY <3>2 DEF IInv, TypeOK, OnlyAcceptedReleasesRun
    <3> QED
      BY <1>2, <3>1, <3>2
  <2>2. \A w \in Workers : (workers[w] # Idle => Exists(workers[w].release))'
    BY BusyType DEF IInv, OnlyAcceptedReleasesRun
  <2>3. \A x \in dead' : Exists(x)'
    BY DEF IInv, TypeOK, OnlyAcceptedReleasesRun
  <2> QED
    BY <2>1, <2>2, <2>3 DEF OnlyAcceptedReleasesRun
<1> QED
  BY <1>3, <1>4 DEF QueueInv

\* A handler takes its next step and keeps its release and its slot.
LEMMA HandlerStep ==
    ASSUME IInv, NEW w \in Workers, workers[w] # Idle,
           NEW pc \in {"start", "check", "write", "reject", "finish"}, Step(w, pc),
           \A x \in Releases : Exists(x) => Exists(x)',
           UNCHANGED queue
    PROVE  QueueInv'
<1>1. /\ workers[w] \in Busy /\ workers'[w] # Idle
      /\ workers'[w].release = workers[w].release /\ workers'[w].slot = workers[w].slot
      /\ \A v \in Workers \ {w} : workers'[v] = workers[v]
  BY BusyType DEF IInv, TypeOK, Step, Busy, Idle
<1>2. jobs' = jobs /\ dead' = dead
  BY DEF queue
<1>3. HandlersHoldTheirJobs'
  BY <1>1, <1>2 DEF IInv, HandlersHoldTheirJobs
<1>4. JobsAreHeldOnce'
  BY <1>1, <1>2 DEF IInv, JobsAreHeldOnce
<1>5. OnlyAcceptedReleasesRun'
  <2>1. \A v \in Workers : workers'[v] # Idle =>
          workers'[v].release \in Releases /\ Exists(workers'[v].release)
    BY <1>1, BusyType DEF IInv, OnlyAcceptedReleasesRun
  <2> QED
    BY <1>2, <2>1 DEF IInv, TypeOK, OnlyAcceptedReleasesRun
<1> QED
  BY <1>3, <1>4, <1>5 DEF QueueInv

\* A handler that held its job gives it up, or loses it, when the job fails or ends.
LEMMA DetachStep ==
    ASSUME IInv, NEW w \in Workers, workers[w] # Idle,
           \/ workers' = [workers EXCEPT ![w] = Idle]
           \/ workers' = Detached(w),
           \A s \in Slots : s # workers[w].slot => jobs'[s] = jobs[s],
           \A s \in Slots : jobs'[s].st # "none" =>
                jobs[s].st # "none" /\ jobs'[s].data = jobs[s].data,
           \A x \in Releases : Exists(x) => Exists(x)',
           dead' \subseteq dead \cup {workers[w].release}
    PROVE  QueueInv'
<1>1. workers[w] \in Busy /\ workers[w].release \in Releases
  BY BusyType DEF IInv
<1>2. /\ workers'[w] # Idle => /\ workers'[w].slot = None
                              /\ workers'[w].release = workers[w].release
      /\ \A v \in Workers \ {w} : workers'[v] = workers[v]
  BY <1>1 DEF IInv, TypeOK, Detached, Busy
<1>3. JobsAreHeldOnce'
  BY <1>2 DEF IInv, JobsAreHeldOnce
<1>4. HandlersHoldTheirJobs'
  <2> SUFFICES ASSUME NEW v \in Workers, workers'[v] # Idle, workers'[v].slot # None
               PROVE  /\ jobs'[workers'[v].slot].st = "active"
                      /\ jobs'[workers'[v].slot].data = workers'[v].release
    BY DEF HandlersHoldTheirJobs
  <2>1. v # w /\ workers'[v] = workers[v]
    BY <1>2
  <2>2. workers[v].slot \in Slots /\ workers[v].slot # workers[w].slot
    BY <2>1, BusyType DEF IInv, JobsAreHeldOnce
  <2> QED
    BY <2>1, <2>2 DEF IInv, HandlersHoldTheirJobs
<1>5. OnlyAcceptedReleasesRun'
  <2>1. \A v \in Workers : workers'[v] # Idle =>
          workers'[v].release \in Releases /\ Exists(workers'[v].release)
    BY <1>1, <1>2, BusyType DEF IInv, OnlyAcceptedReleasesRun
  <2>2. \A s \in Slots : jobs'[s].st # "none" =>
          jobs'[s].data \in Releases /\ Exists(jobs'[s].data)
    BY DEF IInv, TypeOK, OnlyAcceptedReleasesRun
  <2>3. \A x \in dead' : x \in Releases /\ Exists(x)
    BY <1>1 DEF IInv, TypeOK, OnlyAcceptedReleasesRun
  <2> QED
    BY <2>1, <2>2, <2>3 DEF OnlyAcceptedReleasesRun
<1> QED
  BY <1>3, <1>4, <1>5 DEF QueueInv

LEMMA QueueStep == ASSUME IInv, [Next]_vars PROVE QueueInv'
<1>x. \A r \in Releases : Exists(r) => Exists(r)'
  BY RowsStay
<1>t. TypeOK
  BY DEF IInv
<1>1. ASSUME UNCHANGED <<jobs, workers>>, dead' \subseteq dead PROVE QueueInv'
  <2>1. \A w \in Workers : (workers[w] # Idle => Exists(workers[w].release))'
    BY <1>t, <1>x, <1>1, BusyType DEF IInv, OnlyAcceptedReleasesRun
  <2>2. \A s \in Slots : (jobs[s].st # "none" => Exists(jobs[s].data))'
    BY <1>t, <1>x, <1>1 DEF IInv, TypeOK, OnlyAcceptedReleasesRun
  <2>3. \A r \in dead' : Exists(r)'
    BY <1>t, <1>x, <1>1 DEF IInv, TypeOK, OnlyAcceptedReleasesRun
  <2> QED
    BY <1>1, <2>1, <2>2, <2>3
    DEF IInv, QueueInv, HandlersHoldTheirJobs, JobsAreHeldOnce, OnlyAcceptedReleasesRun
<1>2. ASSUME NEW q \in Requests, (\E ask \in Ask : Send(q, ask)) \/ Lookup(q)
                                 \/ SelectLabel(q) \/ Refuse(q)
      PROVE  QueueInv'
  BY <1>1, <1>2 DEF Send, Lookup, SelectLabel, Refuse, queue
<1>3. ASSUME ConfirmImport \/ FlipSwitch \/ UNCHANGED vars PROVE QueueInv'
  BY <1>1, <1>3 DEF ConfirmImport, FlipSwitch, queue, vars
<1>4. ASSUME NEW r \in Releases, DiscardDead(r) PROVE QueueInv'
  BY <1>1, <1>4 DEF DiscardDead
<1>5. ASSUME NEW q \in Requests, Insert(q) PROVE QueueInv'
  <2>1. CASE UNCHANGED jobs
    BY <1>1, <1>5, <2>1 DEF Insert
  <2>2. ASSUME NEW r \in Releases,
               releases' = [releases EXCEPT ![r] = RowOf(requests[q].ask)],
               jobs' = [jobs EXCEPT ![r] = Enqueue(@, r)]
        PROVE  QueueInv'
    <3>1. Exists(r)' /\ r \in Slots
      BY <1>t, <2>2 DEF Exists, RowOf, TypeOK, Slots
    <3> QED
      BY <1>x, <1>5, <2>2, <3>1, EnqueueStep DEF Insert
  <2> QED
    BY <1>5, <2>1, <2>2 DEF Insert
<1>6. ASSUME NEW r \in Releases, Requeue(r) \/ Redeliver(r) PROVE QueueInv'
  <2>1. Exists(r)'
    BY <1>x, <1>6 DEF Requeue, Redeliver, Pending, Exists, IInv, OnlyAcceptedReleasesRun
  <2>2. PICK s \in Slots : jobs' = [jobs EXCEPT ![s] = Enqueue(@, r)]
    BY <1>6 DEF Requeue, Redeliver, Slots
  <2> QED
    BY <1>x, <1>6, <2>1, <2>2, EnqueueStep DEF Requeue, Redeliver
<1>7. ASSUME NEW w \in Workers, Start(w) \/ Check(w) \/ Reject(w) \/ Publish(w)
      PROVE  QueueInv'
  <2>1. PICK pc \in {"start", "check", "write", "reject", "finish"} : Step(w, pc)
    BY <1>7 DEF Start, Check, Reject, Publish
  <2>2. workers[w] # Idle /\ UNCHANGED queue
    BY <1>7, PcIsBusy DEF Start, Check, Reject, Publish
  <2> QED
    BY <1>x, <2>1, <2>2, HandlerStep
<1>8. ASSUME NEW w \in Workers, Finish(w) PROVE QueueInv'
  <2>1. workers[w] # Idle
    BY <1>8, PcIsBusy DEF Finish
  <2>2. \A s \in Slots : Complete(jobs[s]).st = "none"
    BY <1>t, SettleType DEF TypeOK
  <2>3. /\ workers' = [workers EXCEPT ![w] = Idle]
        /\ \A s \in Slots : s # workers[w].slot => jobs'[s] = jobs[s]
        /\ \A s \in Slots : jobs'[s].st # "none" =>
              jobs[s].st # "none" /\ jobs'[s].data = jobs[s].data
        /\ dead' = dead
    BY <1>t, <1>8, <2>2 DEF Finish, TypeOK
  <2> QED
    BY <1>x, <2>1, <2>3, DetachStep
<1>9. ASSUME NEW w \in Workers, Abort(w) \/ Expire(w) PROVE QueueInv'
  <2>1. /\ workers[w] # Idle
        /\ workers' = [workers EXCEPT ![w] = Idle] \/ workers' = Detached(w)
    BY <1>9 DEF Abort, Expire
  <2>2. workers[w].slot \in Slots \cup {None}
    BY <1>t, <2>1, BusyType
  <2>3. /\ \A s \in Slots : s # workers[w].slot => jobs'[s] = jobs[s]
        /\ \A s \in Slots : jobs'[s].st # "none" =>
              jobs[s].st # "none" /\ jobs'[s].data = jobs[s].data
        /\ dead' \subseteq dead \cup {workers[w].release}
    <3>1. CASE workers[w].slot = None
      BY <1>9, <3>1 DEF Abort, Expire, queue
    <3>2. CASE workers[w].slot # None
      <4>1. /\ AttemptFails(workers[w].slot)
            /\ jobs[workers[w].slot].st = "active"
            /\ jobs[workers[w].slot].data = workers[w].release
        BY <1>9, <2>1, <3>2 DEF Abort, Expire, IInv, HandlersHoldTheirJobs
      <4>2. jobs[workers[w].slot].data \in Releases
        BY <1>t, <2>1, <4>1, BusyType
      <4> QED
        BY <1>t, <2>2, <3>2, <4>1, <4>2, AttemptFailsType
    <3> QED
      BY <3>1, <3>2
  <2> QED
    BY <1>x, <2>1, <2>3, DetachStep
<1>10. ASSUME NEW w \in Workers, NEW s \in Slots, Fetched(w, s) PROVE QueueInv'
  <2>1. /\ Fetch(jobs[s]).st = "active" /\ Fetch(jobs[s]).data = jobs[s].data
        /\ jobs[s].st \in {"created", "retry"}
    BY <1>t, <1>10, FetchType DEF TypeOK, Fetched, Queued
  <2>2. /\ jobs[s].data \in Releases /\ Exists(jobs[s].data)
    BY <1>t, <2>1 DEF TypeOK, IInv, OnlyAcceptedReleasesRun
  <2>3. /\ jobs'[s].st = "active" /\ jobs'[s].data = jobs[s].data
        /\ \A t \in Slots \ {s} : jobs'[t] = jobs[t]
        /\ workers'[w].slot = s /\ workers'[w].release = jobs[s].data
        /\ workers'[w] # Idle
        /\ \A v \in Workers \ {w} : workers'[v] = workers[v]
        /\ dead' = dead
    BY <1>t, <1>10, <2>1 DEF TypeOK, Fetched, Idle
  <2>4. \A v \in Workers : workers[v] # Idle => workers[v].slot # s
    BY <1>t, <2>1, DistinctAssumption DEF IInv, HandlersHoldTheirJobs, Slots
  <2>5. HandlersHoldTheirJobs'
    BY <1>t, <2>3, <2>4, BusyType DEF IInv, HandlersHoldTheirJobs
  <2>6. JobsAreHeldOnce'
    BY <2>3, <2>4 DEF IInv, JobsAreHeldOnce
  <2>7. OnlyAcceptedReleasesRun'
    BY <1>t, <1>x, <2>2, <2>3, BusyType DEF TypeOK, IInv, OnlyAcceptedReleasesRun
  <2> QED
    BY <2>5, <2>6, <2>7 DEF QueueInv
<1>11. ASSUME NEW s \in Slots, RetryFailed(s) PROVE QueueInv'
  <2>1. /\ jobs'[s].data = jobs[s].data /\ jobs[s].st = "failed"
        /\ \A t \in Slots \ {s} : jobs'[t] = jobs[t]
        /\ workers' = workers /\ dead' = dead
    BY <1>t, <1>11 DEF TypeOK, RetryFailed, Revive
  <2>2. HandlersHoldTheirJobs' /\ JobsAreHeldOnce'
    BY <1>t, <2>1, BusyType DEF IInv, HandlersHoldTheirJobs, JobsAreHeldOnce
  <2>3. \A t \in Slots : jobs'[t].st # "none" =>
          jobs'[t].data \in Releases /\ Exists(jobs'[t].data)
    BY <1>t, <2>1 DEF IInv, TypeOK, OnlyAcceptedReleasesRun
  <2>4. OnlyAcceptedReleasesRun'
    BY <1>t, <1>x, <2>1, <2>3, BusyType DEF IInv, TypeOK, OnlyAcceptedReleasesRun
  <2> QED
    BY <2>2, <2>4 DEF QueueInv
<1>12. ASSUME NEW s \in Slots, CancelJob(s) PROVE QueueInv'
  <2>1. /\ jobs'[s].st = "none"
        /\ \A t \in Slots \ {s} : jobs'[t] = jobs[t]
        /\ dead' = dead
    BY <1>t, <1>12, SettleType DEF TypeOK, CancelJob
  <2>2. \A v \in Workers : workers'[v] # Idle =>
          /\ workers[v] # Idle
          /\ workers'[v].release = workers[v].release
          /\ workers'[v].slot # None =>
                workers'[v].slot = workers[v].slot /\ workers[v].slot # s
    <3> TAKE v \in Workers
    <3>1. CASE workers[v] # Idle /\ workers[v].slot = s
      <4>1. workers'[v] = [workers[v] EXCEPT !.slot = None]
        BY <1>12, <3>1 DEF CancelJob
      <4> QED
        BY <1>t, <3>1, <4>1, BusyType DEF Busy
    <3>2. CASE ~(workers[v] # Idle /\ workers[v].slot = s)
      BY <1>12, <3>2 DEF CancelJob
    <3> QED
      BY <3>1, <3>2
  <2>3. HandlersHoldTheirJobs'
    BY <1>t, <2>1, <2>2, BusyType DEF IInv, HandlersHoldTheirJobs
  <2>4. JobsAreHeldOnce'
    BY <2>2 DEF IInv, JobsAreHeldOnce
  <2>5. OnlyAcceptedReleasesRun'
    BY <1>t, <1>x, <2>1, <2>2, BusyType DEF IInv, TypeOK, OnlyAcceptedReleasesRun
  <2> QED
    BY <2>3, <2>4, <2>5 DEF QueueInv
<1> QED
  BY <1>2, <1>3, <1>4, <1>5, <1>6, <1>7, <1>8, <1>9, <1>10, <1>11, <1>12
  DEF Next, RequestStep, WorkerStep
-----------------------------------------------------------------------------
(* The theorems. *)

LEMMA InitEstablishes == Init => IInv
<1> SUFFICES ASSUME Init PROVE IInv
  OBVIOUS
<1>1. TypeOK
  <2>1. [st |-> "none", tries |-> 0, data |-> None] \in Job(Releases \cup {None})
    BY RetryLimitAssumption DEF Job, JobStates
  <2>2. 0 \in 0..MaxFaults /\ 0 \in 0..MaxOperator
    BY BoundsAssumption
  <2>3. <<>> \in Seq(AuditEvents)
    OBVIOUS
  <2> QED
    BY <2>1, <2>2, <2>3 DEF Init, TypeOK
<1>2. HandlersHoldTheirJobs /\ JobsAreHeldOnce /\ OnlyAcceptedReleasesRun
  BY DEF Init, HandlersHoldTheirJobs, JobsAreHeldOnce, OnlyAcceptedReleasesRun
<1>3. EffectsMarkOutcomes /\ LabelHeldOnce /\ OneReleasePerKey
  BY DEF Init, EffectsMarkOutcomes, LabelHeldOnce, OneReleasePerKey, Holds, Exists, NoRelease
<1>4. AuditTellsOutcome
  BY OutcomeIs DEF Init, AuditTellsOutcome, NoRelease
<1> QED
  BY <1>1, <1>2, <1>3, <1>4 DEF IInv

\* The inductive invariant holds in every behaviour of the publish protocol.
THEOREM InvariantHolds == Spec => []IInv
<1>1. Init => IInv
  BY InitEstablishes
<1>2. IInv /\ [Next]_vars => IInv'
  <2> SUFFICES ASSUME IInv, [Next]_vars PROVE IInv'
    OBVIOUS
  <2> QED
    BY TypeStep, QueueStep, LedgerStep DEF IInv, QueueInv
<1> QED
  BY <1>1, <1>2, PTL DEF Spec

\* Every table row, job, handler and answer has its type, whatever is retried,
\* redelivered or cancelled.
THEOREM TypeCorrect == Spec => []TypeOK
<1>1. IInv => TypeOK
  BY DEF IInv
<1> QED
  BY <1>1, InvariantHolds, PTL

\* A label is held by at most one pending or published release, for any number of
\* concurrent requests.
THEOREM LabelsAreHeldOnce == Spec => []LabelHeldOnce
<1>1. IInv => LabelHeldOnce
  BY DEF IInv
<1> QED
  BY <1>1, InvariantHolds, PTL

\* An Idempotency-Key names at most one release, failed ones included.
THEOREM KeysNameOneRelease == Spec => []OneReleasePerKey
<1>1. IInv => OneReleasePerKey
  BY DEF IInv
<1> QED
  BY <1>1, InvariantHolds, PTL

\* The audit log holds exactly one entry for the outcome of every release, for any
\* number of handlers working on it at the same time.
THEOREM AuditIsExact == Spec => []AuditTellsOutcome
<1>1. IInv => AuditTellsOutcome
  BY DEF IInv
<1> QED
  BY <1>1, InvariantHolds, PTL

\* A published or failed release never changes again.
THEOREM OutcomesAreFinal == Spec => OutcomeIsFinal
<1> DEFINE Final == \A r \in Releases :
              releases[r].state \in {"done", "failed"} => releases'[r] = releases[r]
<1>1. IInv /\ [Next]_vars => [Final]_vars
  <2> SUFFICES ASSUME IInv, [Next]_vars PROVE Final
    OBVIOUS
  <2>1. ASSUME NEW x \in Releases, NEW ask \in Ask, Accepts(x, ask) PROVE Final
    BY <2>1 DEF Accepts, Exists, IInv, TypeOK
  <2>2. ASSUME NEW x \in Releases, NEW st, NEW event, Decides(x, st, event) PROVE Final
    BY <2>2 DEF Decides, Pending, IInv, TypeOK
  <2>3. CASE UNCHANGED tables
    BY <2>3 DEF tables
  <2> QED
    BY <2>1, <2>2, <2>3, TablesStep
<1>2. Spec => [][Final]_vars
  BY <1>1, InvariantHolds, PTL DEF Spec
<1> QED
  BY <1>2 DEF OutcomeIsFinal
-----------------------------------------------------------------------------
(* Answers.  A request is answered once, and what its answer names keeps the   *)
(* label and the revision it had then.                                         *)

\* What an answered request was told, if it names a release, is a row of what it asked.
AnswersNameRows ==
    \A q \in Requests :
        requests[q].pc = "answered" /\ requests[q].release # None =>
            /\ Exists(requests[q].release)
            /\ SameAsk(releases[requests[q].release], requests[q].ask)

\* The label and the revision of a row never change.
LEMMA RowsKeepTheirContent ==
    ASSUME IInv, [Next]_vars, NEW r \in Releases, Exists(r)
    PROVE  releases'[r].label = releases[r].label /\ releases'[r].revision = releases[r].revision
<1>1. releases[r] \in Release
  BY DEF IInv, TypeOK, Exists, NoRelease
<1>2. ASSUME NEW x \in Releases, NEW ask \in Ask, Accepts(x, ask)
      PROVE  releases'[r] = releases[r]
  BY <1>2 DEF Accepts, IInv, TypeOK
<1>3. ASSUME NEW x \in Releases, NEW st, NEW event, Decides(x, st, event)
      PROVE  releases'[r] = releases[r] \/ releases'[r] = [releases[r] EXCEPT !.state = st]
  BY <1>3 DEF Decides, IInv, TypeOK
<1>4. CASE UNCHANGED tables
  BY <1>4 DEF tables
<1> QED
  BY <1>1, <1>2, <1>3, <1>4, TablesStep DEF Release

\* A request that stays as it is still names what it was told.
LEMMA AnswerStays ==
    ASSUME IInv, AnswersNameRows, [Next]_vars, NEW q \in Requests,
           requests'[q] = requests[q],
           requests'[q].pc = "answered", requests'[q].release # None
    PROVE  /\ Exists(requests[q].release)'
           /\ SameAsk(releases'[requests'[q].release], requests'[q].ask)
<1>1. requests[q].release \in Releases /\ Exists(requests[q].release)
  <2>1. requests[q] \in Answered
    BY DEF IInv, TypeOK, NoAsk, Asking
  <2> QED
    BY <2>1 DEF Answered, AnswersNameRows
<1> QED
  BY <1>1, RowsStay, RowsKeepTheirContent DEF AnswersNameRows, SameAsk

\* A request that is answered now is answered with a row of what it asked, as the
\* tables are after the step.
LEMMA AnswerIsRight ==
    ASSUME IInv, [Next]_vars, NEW q \in Requests, RequestStep(q) \/ Refuse(q),
           requests'[q].pc = "answered", requests'[q].release # None
    PROVE  /\ Exists(requests[q].release)'
           /\ SameAsk(releases'[requests'[q].release], requests'[q].ask)
<1> DEFINE ask == requests[q].ask
           Told(kind, r) == requests'[q] = AnswerFor(ask, kind, r)
           Row(r) == r \in Releases /\ Exists(r) /\ SameAsk(releases[r], ask)
<1>1. requests \in [Requests -> {NoAsk} \cup Asking \cup Answered]
  BY DEF IInv, TypeOK
<1>2. ASSUME NEW kind, NEW r, Answer(q, kind, r) PROVE Told(kind, r)
  BY <1>1, <1>2 DEF Answer
<1>3. CASE Lookup(q)
  <2>1. \E r \in WithKey(ask.key) : SameAsk(releases[r], ask) /\ Told("idempotent", r)
    <3>1. ASSUME Told("key_reused", None) PROVE FALSE
      BY <3>1 DEF AnswerFor
    <3>2. ASSUME Told("import_unconfirmed", None) PROVE FALSE
      BY <3>2 DEF AnswerFor
    <3>3. ASSUME requests' = [requests EXCEPT ![q].pc = "select"] PROVE FALSE
      BY <1>1, <1>3, <3>3 DEF Lookup, NoAsk, Asking, Answered
    <3> QED
      BY <1>2, <1>3, <3>1, <3>2, <3>3 DEF Lookup
  <2>2. PICK r \in WithKey(ask.key) : SameAsk(releases[r], ask) /\ Told("idempotent", r)
    BY <2>1
  <2>3. Row(r)
    BY <2>2 DEF WithKey
  <2>4. releases' = releases
    BY <1>3 DEF Lookup, tables
  <2> QED
    BY <2>2, <2>3, <2>4 DEF AnswerFor, Exists
<1>4. CASE SelectLabel(q)
  <2>1. \E r \in Holders(ask.label) : releases[r].revision = ask.revision /\ Told("same", r)
    <3>1. ASSUME Told("taken", None) PROVE FALSE
      BY <3>1 DEF AnswerFor
    <3>2. ASSUME requests' = [requests EXCEPT ![q].pc = "insert"] PROVE FALSE
      BY <1>1, <1>4, <3>2 DEF SelectLabel, NoAsk, Asking, Answered
    <3> QED
      BY <1>2, <1>4, <3>1, <3>2 DEF SelectLabel
  <2>2. PICK r \in Holders(ask.label) : releases[r].revision = ask.revision /\ Told("same", r)
    BY <2>1
  <2>3. Row(r)
    BY <2>2 DEF Holders, Holds, Exists, SameAsk
  <2>4. releases' = releases
    BY <1>4 DEF SelectLabel, tables
  <2> QED
    BY <2>2, <2>3, <2>4 DEF AnswerFor, Exists
<1>5. CASE Insert(q)
  <2>1. ASSUME Told("taken", None) PROVE FALSE
    BY <2>1 DEF AnswerFor
  <2>2. PICK r \in Releases : /\ releases' = [releases EXCEPT ![r] = RowOf(ask)]
                              /\ Told("created", r)
    BY <1>2, <1>5, <2>1 DEF Insert
  <2>3. releases'[r] = RowOf(ask)
    BY <2>2 DEF IInv, TypeOK
  <2> QED
    BY <2>2, <2>3 DEF AnswerFor, Exists, SameAsk, RowOf
<1>6. CASE Refuse(q)
  <2>1. Told("refused", None)
    BY <1>2, <1>6 DEF Refuse
  <2> QED
    BY <2>1 DEF AnswerFor
<1> QED
  BY <1>3, <1>4, <1>5, <1>6 DEF RequestStep

\* Which requests a step may change: the one that takes it.
LEMMA RequestsStep ==
    ASSUME IInv, [Next]_vars, NEW q \in Requests, requests'[q] # requests[q]
    PROVE  (\E ask \in Ask : Send(q, ask)) \/ RequestStep(q) \/ Refuse(q)
<1>1. ASSUME NEW p \in Requests, p # q,
             (\E ask \in Ask : Send(p, ask)) \/ RequestStep(p) \/ Refuse(p)
      PROVE  requests'[q] = requests[q]
  BY <1>1 DEF IInv, TypeOK, Send, RequestStep, Lookup, SelectLabel, Insert, Refuse, Answer
<1>2. ASSUME NEW w \in Workers,
             \/ \E s \in Slots : Fetched(w, s)
             \/ WorkerStep(w) \/ Abort(w) \/ Expire(w)
      PROVE  requests' = requests
  BY <1>2 DEF Fetched, WorkerStep, Start, Check, Reject, Publish, Finish, Abort, Expire
<1>3. ASSUME \/ ConfirmImport \/ FlipSwitch
             \/ \E r \in Releases : Requeue(r) \/ Redeliver(r) \/ DiscardDead(r)
             \/ \E s \in Slots : RetryFailed(s) \/ CancelJob(s)
             \/ UNCHANGED vars
      PROVE  requests' = requests
  BY <1>3 DEF ConfirmImport, FlipSwitch, Requeue, Redeliver, DiscardDead, RetryFailed,
              CancelJob, vars
<1> QED
  BY <1>1, <1>2, <1>3 DEF Next

\* A successful answer names a release made of what was asked for, also when the
\* label was freed and taken again between the reads of the request and its insert.
THEOREM AnswersNameWhatWasAsked == Spec => []AnswerNamesWhatWasAsked
<1>1. Init => AnswersNameRows
  BY DEF Init, AnswersNameRows, NoAsk
<1>2. IInv /\ AnswersNameRows /\ [Next]_vars => AnswersNameRows'
  <2> SUFFICES ASSUME IInv, AnswersNameRows, [Next]_vars, NEW q \in Requests,
                      requests'[q].pc = "answered", requests'[q].release # None
               PROVE  /\ Exists(requests[q].release)'
                      /\ SameAsk(releases'[requests'[q].release], requests'[q].ask)
    BY DEF AnswersNameRows
  <2>1. CASE requests'[q] = requests[q]
    BY <2>1, AnswerStays
  <2>2. ASSUME NEW ask \in Ask, Send(q, ask) PROVE FALSE
    BY <2>2 DEF Send, IInv, TypeOK
  <2> QED
    BY <2>1, <2>2, RequestsStep, AnswerIsRight
<1>3. AnswersNameRows => AnswerNamesWhatWasAsked
  BY DEF AnswersNameRows, AnswerNamesWhatWasAsked, SameAsk
<1> QED
  BY <1>1, <1>2, <1>3, InvariantHolds, PTL DEF Spec
-----------------------------------------------------------------------------
(* Refinement: the handlers implement the ledger of labels. *)

SlotMap == [l \in Labels |-> HeldSlot(l)]

\* A label with a holder shows it: the CHOOSE in the mapping has one candidate.
LEMMA HolderIsShown ==
    ASSUME LabelHeldOnce, NEW r \in Releases, Holds(r)
    PROVE  HeldSlot(releases[r].label) =
             [release |-> r, content |-> releases[r].revision, state |-> releases[r].state]
<1>1. r \in Holders(releases[r].label)
  BY DEF Holders
<1>2. \A x \in Holders(releases[r].label) : x = r
  BY DEF Holders, LabelHeldOnce
<1> QED
  BY <1>1, <1>2 DEF HeldSlot

\* The same of the state after a step.
LEMMA HolderIsShownNext ==
    ASSUME LabelHeldOnce', NEW r \in Releases, Holds(r)'
    PROVE  HeldSlot(releases[r].label)' =
             [release |-> r, content |-> releases'[r].revision, state |-> releases'[r].state]
<1>1. r \in Holders(releases[r].label)'
  BY DEF Holders
<1>2. \A x \in Holders(releases[r].label)' : x = r
  BY DEF Holders, LabelHeldOnce
<1> QED
  BY <1>1, <1>2 DEF HeldSlot

\* A label nobody holds is free.
LEMMA FreeIsShown ==
    ASSUME NEW l, Holders(l) = {}
    PROVE  HeldSlot(l) = [state |-> "free"]
  BY DEF HeldSlot

\* Accepting a request reserves its label.
LEMMA AcceptReserves ==
    ASSUME IInv, LabelHeldOnce', NEW r \in Releases, NEW ask \in Ask, Accepts(r, ask)
    PROVE  Ledger!Reserve(ask.label, r, ask.revision)
<1>1. /\ releases'[r] = RowOf(ask) /\ ~Holds(r)
      /\ \A x \in Releases \ {r} : releases'[x] = releases[x]
  BY DEF Accepts, Exists, Holds, IInv, TypeOK
<1>2. SlotMap[ask.label] = Ledger!Free
  BY FreeIsShown DEF SlotMap, Accepts, Conflict, Ledger!Free, Ask
<1>3. \A k \in Labels : SlotMap[k] # Ledger!Free => SlotMap[k].release # r
  <2> SUFFICES ASSUME NEW k \in Labels, SlotMap[k] # Ledger!Free
               PROVE  SlotMap[k].release # r
    OBVIOUS
  <2>1. PICK x \in Holders(k) : TRUE
    BY FreeIsShown DEF SlotMap, Ledger!Free
  <2>2. x \in Releases /\ Holds(x) /\ releases[x].label = k
    BY <2>1 DEF Holders
  <2>3. SlotMap[k].release = x
    <3>1. HeldSlot(releases[x].label) =
            [release |-> x, content |-> releases[x].revision, state |-> releases[x].state]
      BY <2>2, HolderIsShown DEF IInv
    <3> QED
      BY <2>2, <3>1 DEF SlotMap
  <2> QED
    BY <1>1, <2>2, <2>3
<1>4. SlotMap' = [SlotMap EXCEPT ![ask.label] = Ledger!Held(r, ask.revision, "pending")]
  <2>1. HeldSlot(ask.label)' = Ledger!Held(r, ask.revision, "pending")
    <3>1. Holds(r)' /\ releases'[r].label = ask.label
      BY <1>1 DEF Holds, RowOf
    <3>2. HeldSlot(releases[r].label)' =
            [release |-> r, content |-> releases'[r].revision, state |-> releases'[r].state]
      BY <3>1, HolderIsShownNext
    <3> QED
      BY <1>1, <3>1, <3>2 DEF Ledger!Held, RowOf
  <2>2. \A k \in Labels \ {ask.label} : HeldSlot(k)' = HeldSlot(k)
    <3> TAKE k \in Labels \ {ask.label}
    <3>1. Holders(k)' = Holders(k)
      BY <1>1 DEF Holders, Holds, RowOf
    <3>2. \A x \in Holders(k) : releases'[x] = releases[x]
      BY <1>1 DEF Holders
    <3>3. CASE Holders(k) = {}
      BY <3>1, <3>3 DEF HeldSlot
    <3>4. CASE Holders(k) # {}
      <4>1. (CHOOSE x \in Holders(k) : TRUE) \in Holders(k)
        BY <3>4
      <4> QED
        BY <3>1, <3>2, <3>4, <4>1 DEF HeldSlot
    <3> QED
      BY <3>3, <3>4
  <2> QED
    BY <2>1, <2>2 DEF SlotMap, Ask
<1> QED
  BY <1>2, <1>3, <1>4 DEF Ledger!Reserve, SlotMap, Accepts

\* Deciding a release makes its reservation permanent or gives it back.
LEMMA DecideSettles ==
    ASSUME IInv, LabelHeldOnce', NEW r \in Releases, NEW st, NEW event,
           Decides(r, st, event)
    PROVE  Ledger!Publish(releases[r].label) \/ Ledger!GiveBack(releases[r].label)
<1> DEFINE l == releases[r].label
<1>1. /\ releases[r] \in Release /\ l \in Labels /\ Holds(r)
      /\ releases'[r] = [releases[r] EXCEPT !.state = st]
      /\ \A x \in Releases \ {r} : releases'[x] = releases[x]
      /\ st \in {"done", "failed"}
  BY DEF Decides, Pending, Holds, IInv, TypeOK, NoRelease, Release
<1>2. SlotMap[l] = [release |-> r, content |-> releases[r].revision, state |-> "pending"]
  BY <1>1, HolderIsShown DEF SlotMap, IInv, Decides, Pending
<1>3. \A k \in Labels \ {l} : HeldSlot(k)' = HeldSlot(k)
  <2> TAKE k \in Labels \ {l}
  <2>1. Holders(k)' = Holders(k)
    BY <1>1 DEF Holders, Holds, Release
  <2>2. \A x \in Holders(k) : releases'[x] = releases[x]
    BY <1>1 DEF Holders
  <2>3. CASE Holders(k) = {}
    BY <2>1, <2>3 DEF HeldSlot
  <2>4. CASE Holders(k) # {}
    <3>1. (CHOOSE x \in Holders(k) : TRUE) \in Holders(k)
      BY <2>4
    <3> QED
      BY <2>1, <2>2, <2>4, <3>1 DEF HeldSlot
  <2> QED
    BY <2>3, <2>4
<1>4. CASE st = "done"
  <2>1. Holds(r)' /\ releases'[r].label = l /\ releases'[r].revision = releases[r].revision
        /\ releases'[r].state = "done"
    BY <1>1, <1>4 DEF Holds, Release
  <2>2. HeldSlot(releases[r].label)' =
          [release |-> r, content |-> releases'[r].revision, state |-> releases'[r].state]
    BY <2>1, HolderIsShownNext
  <2>3. HeldSlot(l)' = [release |-> r, content |-> releases[r].revision, state |-> "done"]
    BY <2>1, <2>2
  <2>4. SlotMap' = [SlotMap EXCEPT ![l].state = "done"]
    BY <1>1, <1>2, <1>3, <2>3 DEF SlotMap
  <2>5. latest' = SlotMap[l].release
    BY <1>2, <1>4 DEF Decides
  <2> QED
    BY <1>2, <2>4, <2>5 DEF Ledger!Publish, SlotMap
<1>5. CASE st = "failed"
  <2>1. Holders(releases[r].label) = {r}
    BY <1>1 DEF Holders, LabelHeldOnce, IInv
  <2>2. \A x \in Releases : Holds(x)' => releases'[x].label # l
    BY <1>1, <1>5, <2>1 DEF Holders, Holds, Release
  <2>3. SlotMap'[l] = [state |-> "free"]
    BY <1>1, <2>2 DEF SlotMap, HeldSlot, Holders
  <2>4. SlotMap' = [SlotMap EXCEPT ![l] = Ledger!Free]
    BY <1>1, <1>3, <2>3 DEF SlotMap, Ledger!Free
  <2> QED
    BY <1>2, <1>5, <2>4 DEF Ledger!GiveBack, SlotMap, Decides
<1> QED
  BY <1>1, <1>4, <1>5

\* Publishing implements the ledger of labels, for every number of requests,
\* releases, labels and handlers.
THEOREM LedgerIsImplemented == Spec => ImplementsLedger
<1>1. Init => Ledger!Init
  BY DEF Init, Ledger!Init, Ledger!Free, HeldSlot, Holders, Holds, NoRelease
<1>2. IInv /\ IInv' /\ [Next]_vars => [Ledger!Next]_(Ledger!vars)
  <2> SUFFICES ASSUME IInv, IInv', [Next]_vars PROVE [Ledger!Next]_(Ledger!vars)
    OBVIOUS
  <2>1. ASSUME NEW r \in Releases, NEW ask \in Ask, Accepts(r, ask) PROVE Ledger!Next
    <3>1. ask.label \in Labels /\ ask.revision \in Revisions
      BY DEF Ask
    <3> QED
      BY <2>1, <3>1, AcceptReserves DEF Ledger!Next, IInv
  <2>2. ASSUME NEW r \in Releases, NEW st, NEW event, Decides(r, st, event)
        PROVE  Ledger!Next
    <3>1. releases[r].label \in Labels
      BY <2>2 DEF Decides, Pending, IInv, TypeOK, NoRelease, Release
    <3> QED
      BY <2>2, <3>1, DecideSettles DEF Ledger!Next, IInv
  <2>3. CASE UNCHANGED tables
    BY <2>3 DEF tables, Ledger!vars, HeldSlot, Holders, Holds
  <2> QED
    BY <2>1, <2>2, <2>3, TablesStep
<1> QED
  BY <1>1, <1>2, InvariantHolds, PTL DEF Spec, ImplementsLedger, Ledger!Spec
=============================================================================
