------------------------------ MODULE Publish ------------------------------
(***************************************************************************)
(* Publishing the releases of one creation: the request handler            *)
(* (registry/publish.ts requestPublish), the publish job and its worker    *)
(* (worker/publish.ts), the requeue timer, the publish kill switch and the *)
(* job panel of the admin app (admin/routes/jobs.ts).                      *)
(*                                                                         *)
(* A handler is a sequence of database transactions and awaits; each       *)
(* transaction (READ COMMITTED) is one action, and what a handler has read *)
(* so far is kept in its own record.  Building a release, the closure and  *)
(* the objects it writes are in Takedown; here the worker's verdict is a   *)
(* free choice, because publishing must be right whatever the verdict is.  *)
(***************************************************************************)
EXTENDS JobQueue, Sequences

CONSTANTS Requests,     \* publish requests, each sent once
          Releases,     \* release ids, at least one per request
          Labels, Revisions, Keys, Visibilities,
          Workers,      \* handler executions that can run at the same time
          None,         \* no release, no slot
          Unkeyed,      \* the singletonKey of a job sent without one
          MaxFaults,    \* bound: crashes, timeouts, thrown attempts
          MaxOperator   \* bound: operator actions and switch flips

ASSUME DistinctAssumption ==
    None \notin Releases \cup {Unkeyed} /\ Unkeyed \notin Releases

ASSUME BoundsAssumption == MaxFaults \in Nat /\ MaxOperator \in Nat

VARIABLES
    releases,       \* table releases: the rows of this creation
    latest,         \* creations.latestReleaseId
    effects,        \* table job_effects: the releases whose key is recorded
    audit,          \* the audit entries of every release, in order
    jobs,           \* queue `publish`: singleton key -> job
    dead,           \* releases with a job in `publish.dead`
    unconfirmed,    \* an import of this creation awaits its author
    publishOff,     \* the kill switch, as the worker's flag cache shows it
    requests,       \* request handlers and their answers
    workers,        \* publish handlers
    faults, operator    \* what is used of the two bounds

vars == <<releases, latest, effects, audit, jobs, dead, unconfirmed, publishOff,
          requests, workers, faults, operator>>

tables == <<releases, latest, effects, audit>>
queue == <<jobs, dead>>
bounds == <<faults, operator>>

Slots == Releases \cup {Unkeyed}

NoRelease == [state |-> "absent"]
Release == [state: {"pending", "done", "failed"}, label: Labels,
            revision: Revisions, visibility: Visibilities, key: Keys]

Ask == [label: Labels, revision: Revisions, visibility: Visibilities, key: Keys]
NoAsk == [pc |-> "idle"]
Asking == [pc: {"lookup", "select", "insert"}, ask: Ask]
AnswerKinds == {"created", "same", "idempotent", "taken", "key_reused",
                "import_unconfirmed", "refused"}
Answered == [pc: {"answered"}, ask: Ask, kind: AnswerKinds,
             release: Releases \cup {None}]

Idle == [pc |-> "idle"]
\* slot = None: the job of this execution was timed out or cancelled under it.
Busy == [pc: {"start", "check", "write", "reject", "finish"},
         release: Releases, slot: Slots \cup {None}]

AuditEvents == {"requested", "published", "failed"}

Exists(r) == releases[r].state # "absent"
\* The rows the partial unique index releases_creation_label_uq covers.
Holds(r) == releases[r].state \in {"pending", "done"}

TypeOK ==
    /\ releases \in [Releases -> Release \cup {NoRelease}]
    /\ latest \in Releases \cup {None}
    /\ effects \subseteq Releases
    /\ audit \in [Releases -> Seq(AuditEvents)]
    /\ jobs \in [Slots -> Job(Releases \cup {None})]
    /\ \A s \in Slots : jobs[s].st # "none" => jobs[s].data \in Releases
    /\ dead \subseteq Releases
    /\ unconfirmed \in BOOLEAN
    /\ publishOff \in BOOLEAN
    /\ requests \in [Requests -> {NoAsk} \cup Asking \cup Answered]
    /\ workers \in [Workers -> {Idle} \cup Busy]
    /\ faults \in 0..MaxFaults
    /\ operator \in 0..MaxOperator

Init ==
    /\ releases = [r \in Releases |-> NoRelease]
    /\ latest = None
    /\ effects = {}
    /\ audit = [r \in Releases |-> <<>>]
    /\ jobs = [s \in Slots |-> [st |-> "none", tries |-> 0, data |-> None]]
    /\ dead = {}
    /\ unconfirmed \in BOOLEAN
    /\ publishOff = FALSE
    /\ requests = [q \in Requests |-> NoAsk]
    /\ workers = [w \in Workers |-> Idle]
    /\ faults = 0
    /\ operator = 0
-----------------------------------------------------------------------------
(* The request handler. *)

AnswerFor(ask, kind, r) == [pc |-> "answered", ask |-> ask, kind |-> kind, release |-> r]

Answer(q, kind, r) ==
    requests' = [requests EXCEPT ![q] = AnswerFor(@.ask, kind, r)]

Send(q, ask) ==
    /\ requests[q] = NoAsk
    /\ requests' = [requests EXCEPT ![q] = [pc |-> "lookup", ask |-> ask]]
    /\ UNCHANGED <<tables, queue, unconfirmed, publishOff, workers, bounds>>

\* Mutant of SameAsk: the revision is not compared.
SameAskLabelOnly(row, ask) == row.label = ask.label

\* What the stored row and the repeated request are compared on.
SameAsk(row, ask) == row.label = ask.label /\ row.revision = ask.revision

WithKey(k) == {r \in Releases : Exists(r) /\ releases[r].key = k}

\* The lookup by Idempotency-Key and the import check, before the transaction.
Lookup(q) ==
    /\ requests[q].pc = "lookup"
    /\ LET ask == requests[q].ask
       IN  \/ \E r \in WithKey(ask.key) :
                IF SameAsk(releases[r], ask)
                THEN Answer(q, "idempotent", r)
                ELSE Answer(q, "key_reused", None)
           \/ /\ WithKey(ask.key) = {}
              /\ unconfirmed
              /\ Answer(q, "import_unconfirmed", None)
           \/ /\ WithKey(ask.key) = {}
              /\ ~unconfirmed
              /\ requests' = [requests EXCEPT ![q].pc = "select"]
    /\ UNCHANGED <<tables, queue, unconfirmed, publishOff, workers, bounds>>

Holders(l) == {r \in Releases : Holds(r) /\ releases[r].label = l}

\* The transaction's SELECT ... FOR UPDATE on the label.
SelectLabel(q) ==
    /\ requests[q].pc = "select"
    /\ LET ask == requests[q].ask
       IN  \/ \E r \in Holders(ask.label) :
                IF releases[r].revision = ask.revision
                THEN Answer(q, "same", r)
                ELSE Answer(q, "taken", None)
           \/ /\ Holders(ask.label) = {}
              /\ requests' = [requests EXCEPT ![q].pc = "insert"]
    /\ UNCHANGED <<tables, queue, unconfirmed, publishOff, workers, bounds>>

\* Mutant of Conflict: no index over the labels that are held.
ConflictOfKeys(ask) == WithKey(ask.key) # {}

\* Either unique index refuses the row; onConflictDoNothing inserts nothing.
Conflict(ask) == Holders(ask.label) # {} \/ WithKey(ask.key) # {}

RowOf(ask) == [state |-> "pending", label |-> ask.label, revision |-> ask.revision,
               visibility |-> ask.visibility, key |-> ask.key]

\* The rest of the transaction: the row, its job and its audit entry.
Insert(q) ==
    /\ requests[q].pc = "insert"
    /\ LET ask == requests[q].ask
       IN  \/ /\ Conflict(ask)
              /\ Answer(q, "taken", None)
              /\ UNCHANGED <<releases, audit, jobs>>
           \/ /\ ~Conflict(ask)
              /\ \E r \in Releases :
                    /\ ~Exists(r)
                    /\ releases' = [releases EXCEPT ![r] = RowOf(ask)]
                    /\ audit' = [audit EXCEPT ![r] = Append(@, "requested")]
                    /\ jobs' = [jobs EXCEPT ![r] = Enqueue(@, r)]
                    /\ Answer(q, "created", r)
    /\ UNCHANGED <<latest, effects, dead, unconfirmed, publishOff, workers, bounds>>

\* The revision cannot be loaded, or it needs a default policy and the server
\* has none: the transaction ends without a row.
Refuse(q) ==
    /\ requests[q].pc = "insert"
    /\ Answer(q, "refused", None)
    /\ UNCHANGED <<tables, queue, unconfirmed, publishOff, workers, bounds>>

\* The author confirms what the import produced.
ConfirmImport ==
    /\ unconfirmed
    /\ unconfirmed' = FALSE
    /\ UNCHANGED <<tables, queue, publishOff, requests, workers, bounds>>
-----------------------------------------------------------------------------
(* The worker. *)

Fetched(w, s) ==
    /\ workers[w] = Idle
    /\ Queued(jobs[s])
    /\ jobs' = [jobs EXCEPT ![s] = Fetch(@)]
    /\ workers' = [workers EXCEPT ![w] =
                     [pc |-> "start", release |-> jobs[s].data, slot |-> s]]
    /\ UNCHANGED <<tables, dead, unconfirmed, publishOff, requests, bounds>>

Step(w, pc) == workers' = [workers EXCEPT ![w].pc = pc]

\* The row is read once, before everything else the handler awaits.  A row that
\* is not pending is skipped, and with the switch off the job is deferred: both
\* end the job.
Start(w) ==
    /\ workers[w].pc = "start"
    /\ IF releases[workers[w].release].state # "pending" \/ publishOff
       THEN Step(w, "finish")
       ELSE Step(w, "check")
    /\ UNCHANGED <<tables, queue, unconfirmed, publishOff, requests, bounds>>

OtherHolder(r) == \E x \in Holders(releases[r].label) : x # r

\* checkPublish and the checks around it.  Another release under the label is
\* an error; everything else is the free verdict.
Check(w) ==
    /\ workers[w].pc = "check"
    /\ \/ Step(w, "reject")
       \/ ~OtherHolder(workers[w].release) /\ Step(w, "write")
    /\ UNCHANGED <<tables, queue, unconfirmed, publishOff, requests, bounds>>

\* Mutant of Once: the key is recorded but not looked at.
OnceEveryTime(r, effect, otherwise) == effect /\ effects' = effects \cup {r}

\* runOnce: the effect happens with its key, and only if the key is new.
Once(r, effect, otherwise) ==
    IF r \in effects
    THEN otherwise /\ UNCHANGED effects
    ELSE effect /\ effects' = effects \cup {r}

Pending(r) == releases[r].state = "pending"

\* Mutant of Reject: neither the key nor the row's state is looked at.
RejectUnguarded(w) ==
    /\ workers[w].pc = "reject"
    /\ releases' = [releases EXCEPT ![workers[w].release].state = "failed"]
    /\ audit' = [audit EXCEPT ![workers[w].release] = Append(@, "failed")]
    /\ Step(w, "finish")
    /\ UNCHANGED <<latest, effects, queue, unconfirmed, publishOff, requests, bounds>>

\* markFailed: the update has its own guard, the audit entry has only the key.
Reject(w) ==
    /\ workers[w].pc = "reject"
    /\ LET r == workers[w].release
       IN  Once(r,
             /\ releases' = IF Pending(r)
                            THEN [releases EXCEPT ![r].state = "failed"] ELSE releases
             /\ audit' = [audit EXCEPT ![r] = Append(@, "failed")],
             UNCHANGED <<releases, audit>>)
    /\ Step(w, "finish")
    /\ UNCHANGED <<latest, queue, unconfirmed, publishOff, requests, bounds>>

\* writeArtifacts' transaction.
Publish(w) ==
    /\ workers[w].pc = "write"
    /\ LET r == workers[w].release
       IN  Once(r,
             IF Pending(r)
             THEN /\ releases' = [releases EXCEPT ![r].state = "done"]
                  /\ latest' = r
                  /\ audit' = [audit EXCEPT ![r] = Append(@, "published")]
             ELSE UNCHANGED <<releases, latest, audit>>,
             UNCHANGED <<releases, latest, audit>>)
    /\ Step(w, "finish")
    /\ UNCHANGED <<queue, unconfirmed, publishOff, requests, bounds>>

\* The handler returned: pg-boss completes the job if it is still this one.
Finish(w) ==
    /\ workers[w].pc = "finish"
    /\ workers' = [workers EXCEPT ![w] = Idle]
    /\ jobs' = IF workers[w].slot = None THEN jobs
               ELSE [jobs EXCEPT ![workers[w].slot] = Complete(@)]
    /\ UNCHANGED <<tables, dead, unconfirmed, publishOff, requests, bounds>>
-----------------------------------------------------------------------------
(* What goes wrong, the timer that repairs it and the operator. *)

\* The attempt at slot s fails; a spent job leaves a dead letter.
AttemptFails(s) ==
    /\ jobs' = [jobs EXCEPT ![s] = Fail(@)]
    /\ dead' = IF IsFinalAttempt(jobs[s]) THEN dead \cup {jobs[s].data} ELSE dead

\* The handler threw, or its process died (the job expires): the execution is
\* gone and the attempt, if it is still this execution's, has failed.
Abort(w) ==
    /\ workers[w] # Idle
    /\ faults < MaxFaults
    /\ faults' = faults + 1
    /\ workers' = [workers EXCEPT ![w] = Idle]
    /\ IF workers[w].slot = None THEN UNCHANGED queue ELSE AttemptFails(workers[w].slot)
    /\ UNCHANGED <<tables, unconfirmed, publishOff, requests, operator>>

Detached(w) == [workers EXCEPT ![w].slot = None]

\* expireInSeconds passes while the handler still runs: the attempt has failed
\* but the handler goes on.
Expire(w) ==
    /\ workers[w] # Idle
    /\ workers[w].slot # None
    /\ faults < MaxFaults
    /\ faults' = faults + 1
    /\ workers' = Detached(w)
    /\ AttemptFails(workers[w].slot)
    /\ UNCHANGED <<tables, unconfirmed, publishOff, requests, operator>>

\* requeuePendingPublishes on one row, every five minutes unless the switch is off.
Requeue(r) ==
    /\ ~publishOff
    /\ Pending(r)
    /\ ~Live(jobs[r])
    /\ jobs' = [jobs EXCEPT ![r] = Enqueue(@, r)]
    /\ UNCHANGED <<tables, dead, unconfirmed, publishOff, requests, workers, bounds>>

Operator == operator < MaxOperator /\ operator' = operator + 1

FlipSwitch ==
    /\ Operator
    /\ publishOff' = ~publishOff
    /\ UNCHANGED <<tables, queue, unconfirmed, requests, workers, faults>>

\* A dead letter is sent again without its singletonKey, then completed; the
\* second call can be lost.
Redeliver(r) ==
    /\ Operator
    /\ r \in dead
    /\ jobs' = [jobs EXCEPT ![Unkeyed] = Enqueue(@, r)]
    /\ dead' \in {dead, dead \ {r}}
    /\ UNCHANGED <<tables, unconfirmed, publishOff, requests, workers, faults>>

RetryFailed(s) ==
    /\ Operator
    /\ jobs[s].st = "failed"
    /\ jobs' = [jobs EXCEPT ![s] = Revive(@)]
    /\ UNCHANGED <<tables, dead, unconfirmed, publishOff, requests, workers, faults>>

\* A dead letter is thrown away.
DiscardDead(r) ==
    /\ Operator
    /\ r \in dead
    /\ dead' = dead \ {r}
    /\ UNCHANGED <<tables, jobs, unconfirmed, publishOff, requests, workers, faults>>

\* A cancelled job may be running: its handler is not interrupted.
CancelJob(s) ==
    /\ Operator
    /\ Live(jobs[s])
    /\ jobs' = [jobs EXCEPT ![s] = Cancel(@)]
    /\ workers' = [w \in Workers |->
                     IF workers[w] # Idle /\ workers[w].slot = s
                     THEN [workers[w] EXCEPT !.slot = None] ELSE workers[w]]
    /\ UNCHANGED <<tables, dead, unconfirmed, publishOff, requests, faults>>
-----------------------------------------------------------------------------
RequestStep(q) == Lookup(q) \/ SelectLabel(q) \/ Insert(q)

WorkerStep(w) == Start(w) \/ Check(w) \/ Reject(w) \/ Publish(w) \/ Finish(w)

Next ==
    \/ \E q \in Requests : \/ \E ask \in Ask : Send(q, ask)
                           \/ RequestStep(q)
                           \/ Refuse(q)
    \/ ConfirmImport
    \/ \E w \in Workers : \/ \E s \in Slots : Fetched(w, s)
                          \/ WorkerStep(w)
                          \/ Abort(w)
                          \/ Expire(w)
    \/ \E r \in Releases : Requeue(r) \/ Redeliver(r) \/ DiscardDead(r)
    \/ FlipSwitch
    \/ \E s \in Slots : RetryFailed(s) \/ CancelJob(s)

Spec == Init /\ [][Next]_vars

(***************************************************************************)
(* Fairness.  A worker process keeps polling and a handler that neither    *)
(* throws nor dies returns; the requeue timer fires every five minutes.    *)
(* Nothing is assumed of clients, of the operator or of the faults.        *)
(***************************************************************************)
Fairness ==
    /\ \A w \in Workers : WF_vars(WorkerStep(w))
    /\ \A w \in Workers, s \in Slots : WF_vars(Fetched(w, s))
    /\ \A r \in Releases : WF_vars(Requeue(r))

LiveSpec == Spec /\ Fairness
-----------------------------------------------------------------------------
(* What publishing guarantees. *)

\* A label is held by one release at a time, however requests interleave
\* between the handler's reads and its insert.
LabelHeldOnce ==
    \A x, y \in Releases :
        Holds(x) /\ Holds(y) /\ releases[x].label = releases[y].label => x = y

\* An Idempotency-Key never names two releases, not even when the first one has
\* failed and has given its label back before the duplicate's insert.
OneReleasePerKey ==
    \A x, y \in Releases :
        Exists(x) /\ Exists(y) /\ releases[x].key = releases[y].key => x = y

Outcome(s) == CASE s = "absent"  -> <<>>
                [] s = "pending" -> <<"requested">>
                [] s = "done"    -> <<"requested", "published">>
                [] s = "failed"  -> <<"requested", "failed">>

\* The audit log tells what became of every release: one request entry, and
\* exactly one entry for its outcome, with every redelivery, timed-out handler
\* and second job that ran for it.
AuditTellsOutcome ==
    \A r \in Releases : audit[r] = Outcome(releases[r].state)

\* A successful answer names a release made of the label and the revision that
\* were asked for.
AnswerNamesWhatWasAsked ==
    \A q \in Requests :
        requests[q].pc = "answered" /\ requests[q].release # None =>
            LET row == releases[requests[q].release]
            IN  row.label = requests[q].ask.label /\ row.revision = requests[q].ask.revision

\* A published or failed release is never rebuilt, un-published or failed again,
\* whichever handlers are still running for it.
OutcomeIsFinal ==
    [][\A r \in Releases :
          releases[r].state \in {"done", "failed"} => releases'[r] = releases[r]]_vars

HeldSlot(l) ==
    IF Holders(l) = {} THEN [state |-> "free"]
    ELSE LET r == CHOOSE x \in Holders(l) : TRUE
         IN  [release |-> r, content |-> releases[r].revision, state |-> releases[r].state]

Ledger == INSTANCE ReleaseLedger
            WITH slot <- [l \in Labels |-> HeldSlot(l)], newest <- latest

\* The handlers, the queue and the operator together implement the ledger of
\* labels: reserved once, then permanent with the reserved content or free again.
ImplementsLedger == Ledger!Spec

\* With publishing switched on for good, every accepted request is published or
\* failed: through retries, dead letters, cancelled jobs and the requeue timer.
PendingIsResolved ==
    <>[](~publishOff) => \A r \in Releases : Pending(r) ~> ~Pending(r)
=============================================================================
