----------------------------- MODULE Takedown ------------------------------
(***************************************************************************)
(* Removing published content: the takedown transaction                    *)
(* (registry/tombstone.ts), the job that deletes the copies                *)
(* (worker/tombstone.ts), and what runs beside them: publish handlers that *)
(* load a dependency closure, write objects and commit                     *)
(* (worker/publish.ts, registry/closure.ts, storage/cas.ts), and an author *)
(* who yanks a release (api/routes/yank.ts).                               *)
(*                                                                         *)
(* What a release is made of is fixed when it is requested, so it is given *)
(* by constants: its pinned dependencies, its manifest (the object named   *)
(* by its semantic digest), its fragments, its assets and the artifact its *)
(* build produces (snapshot, IR and artifact have the same life and are    *)
(* one object).  A release whose publication fails stays failed; that the  *)
(* rows themselves are treated correctly is Publish's subject.             *)
(***************************************************************************)
EXTENDS JobQueue

CONSTANTS Releases, Objects,
          Deps,         \* release -> the releases it pins
          Manifest,     \* release -> object
          Fragments,    \* release -> its own fragments
          Assets,       \* release -> its own assets
          Artifact,     \* release -> object
          IsPublic,     \* release -> is it published publicly?
          Subjects,     \* what staff may take down
          Actions,      \* takedown ids; their number bounds the takedowns
          Builders,     \* publish handlers running at the same time
          Yankers,      \* yank requests
          None,
          Unkeyed,      \* the singletonKey of a job sent without one
          MaxFaults     \* bound: cascade attempts that die, failed jobs tried again

ASSUME ContentAssumption ==
    /\ Deps \in [Releases -> SUBSET Releases]
    /\ Manifest \in [Releases -> Objects]
    /\ Fragments \in [Releases -> SUBSET Objects]
    /\ Assets \in [Releases -> SUBSET Objects]
    /\ Artifact \in [Releases -> Objects]
    /\ IsPublic \in [Releases -> BOOLEAN]
    /\ None \notin Objects

\* A fragment or an asset by its digest, or whole releases: one of them or all
\* those of a creation.  Contents and what a build produces differ.
ASSUME SubjectsAssumption ==
    /\ Subjects \subseteq [digest: Objects \cup {None}, whole: SUBSET Releases]
    /\ \A s \in Subjects, r \in Releases : s.digest \notin {Artifact[r], Manifest[r]}

\* An object is known by the hash of its bytes.  So a manifest tells a revision's
\* contents, and an artifact, which lists the revision and every dependency, tells
\* all of it; a manifest does not tell the pins: the server adds its default policy.
ASSUME DocumentsAssumption ==
    \A r, x \in Releases :
        /\ {Manifest[r], Artifact[r]} \cap (Fragments[x] \cup Assets[x]) = {}
        /\ Manifest[r] # Artifact[x]
        /\ Manifest[r] = Manifest[x] => Fragments[r] = Fragments[x] /\ Assets[r] = Assets[x]
        /\ Artifact[r] = Artifact[x] => Manifest[r] = Manifest[x] /\ Deps[r] = Deps[x]

ASSUME FaultsAssumption == MaxFaults \in Nat

Buckets == {"public", "private"}

VARIABLES
    build,      \* releases.publish_state, "absent" before the request
    status,     \* releases.status
    locks,      \* table release_locks
    blocked,    \* table blocked_digests
    takedowns,  \* the takedown transactions that run, and what they have read
    stored,     \* the buckets that hold an object
    recorded,   \* blobs.in_public and blobs.in_private
    jobs,       \* queue `tombstone.cascade`: singleton key -> job
    removed,    \* job_effects: the actions whose copies were removed
    dead,       \* actions with a dead letter
    cascades,   \* the cascade handlers, one per running job
    builders,   \* the publish handlers
    yankers,    \* the yank requests
    faults

vars == <<build, status, locks, blocked, takedowns, stored, recorded, jobs, removed, dead,
          cascades, builders, yankers, faults>>

\* Everything but what running takedowns have read.
world == <<build, status, locks, blocked, stored, recorded, jobs, removed, dead,
           cascades, builders, yankers, faults>>

rows == <<build, status, locks>>
objects == <<stored, recorded>>
removal == <<takedowns, jobs, removed, dead, cascades, faults>>

Slots == Actions \cup {Unkeyed}

Own(r) == Fragments[r] \cup Assets[r]
ContentOf(R) == {Manifest[r] : r \in R} \cup UNION {Own(r) : r \in R}

\* The payload of a cascade: the objects of one takedown, with the buckets they were recorded in.
Targets == [action: Actions, objects: SUBSET Objects, recorded: [Objects -> SUBSET Buckets]]

ASSUME DistinctAssumption == Unkeyed \notin Actions /\ None \notin Targets

Idle == [pc |-> "idle"]
Building == [pc: {"check", "reject", "write", "copy"}, release: Releases,
             closure: SUBSET Releases, todo: SUBSET Objects]
Yanking == [pc: {"yank"}, release: Releases]

\* A takedown transaction: what its statements have read so far.  `before` is kept
\* for the properties only: the releases published when it began.
TakingDown == [pc: {"closure", "refs", "shared", "copies", "write"}, subject: Subjects,
               before: SUBSET Releases, direct: SUBSET Releases, frontier: SUBSET Releases,
               all: SUBSET Releases, objects: SUBSET Objects,
               recorded: [Objects -> SUBSET Buckets]]

TypeOK ==
    /\ build \in [Releases -> {"absent", "pending", "done", "failed"}]
    /\ status \in [Releases -> {"active", "yanked", "tombstoned"}]
    /\ locks \in [Releases -> SUBSET Releases]
    /\ blocked \subseteq Objects
    /\ takedowns \in [Actions -> {Idle} \cup TakingDown]
    /\ stored \in [Objects -> SUBSET Buckets]
    /\ recorded \in [Objects -> SUBSET Buckets]
    /\ jobs \in [Slots -> Job(Targets \cup {None})]
    /\ removed \subseteq Actions
    /\ dead \subseteq Actions
    /\ cascades \in [Slots -> {"idle", "delete", "verify", "commit"}]
    /\ builders \in [Builders -> {Idle} \cup Building]
    /\ yankers \in [Yankers -> {Idle} \cup Yanking]
    /\ faults \in 0..MaxFaults

\* Revisions and uploads are stored privately before anything is published.
Uploaded == ContentOf(Releases)

Init ==
    /\ build = [r \in Releases |-> "absent"]
    /\ status = [r \in Releases |-> "active"]
    /\ locks = [r \in Releases |-> {}]
    /\ blocked = {}
    /\ takedowns = [a \in Actions |-> Idle]
    /\ stored = [o \in Objects |-> IF o \in Uploaded THEN {"private"} ELSE {}]
    /\ recorded = stored
    /\ jobs = [s \in Slots |-> [st |-> "none", tries |-> 0, data |-> None]]
    /\ removed = {}
    /\ dead = {}
    /\ cascades = [s \in Slots |-> "idle"]
    /\ builders = [w \in Builders |-> Idle]
    /\ yankers = [y \in Yankers |-> Idle]
    /\ faults = 0
-----------------------------------------------------------------------------
(* Publishing. *)

Request(r) ==
    /\ build[r] = "absent"
    /\ build' = [build EXCEPT ![r] = "pending"]
    /\ UNCHANGED <<status, locks, blocked, objects, removal, builders, yankers>>

Done(r) == build[r] = "done"

Bucket(r) == IF IsPublic[r] THEN "public" ELSE "private"

\* Mutant of Closure: what the snapshots list is left out.
ClosureOfPins(r) == Deps[r]

\* loadClosure: the direct dependencies, and what their snapshots list.
Closure(r) == Deps[r] \cup UNION {locks[d] : d \in Deps[r]}

\* loadRevisionContent: the manifest and the fragments are in the private bucket.
Readable(r) == \A o \in {Manifest[r]} \cup Fragments[r] : "private" \in stored[o]

\* Every direct dependency is published and its snapshot can be read.
Loadable(r) ==
    \A d \in Deps[r] : Done(d) /\ Bucket(d) \in stored[Artifact[d]]

\* The resolver stops at a tombstoned release; a yanked one is only a warning.
Resolvable(r) == \A d \in Closure(r) : status[d] # "tombstoned"

\* A public release depends on public releases only.
VisibilityAllows(r) == IsPublic[r] => \A d \in Closure(r) : IsPublic[d]

BuilderAt(w, pc, r, C, todo) ==
    builders' = [builders EXCEPT ![w] =
                   [pc |-> pc, release |-> r, closure |-> C, todo |-> todo]]

\* The handler reads the row, its revision, the closure and the status of every member.
Load(w, r) ==
    /\ builders[w] = Idle
    /\ build[r] = "pending"
    /\ IF Readable(r) /\ Loadable(r) /\ Resolvable(r) /\ VisibilityAllows(r)
       THEN BuilderAt(w, "check", r, Closure(r), {})
       ELSE BuilderAt(w, "reject", r, {}, {})
    /\ UNCHANGED <<rows, blocked, objects, removal, yankers>>

\* Mutant of Check: the blacklist is not looked at.
CheckBlindly(w) ==
    /\ builders[w].pc = "check"
    /\ LET r == builders[w].release
           C == builders[w].closure
       IN  BuilderAt(w, "reject", r, {}, {}) \/ BuilderAt(w, "write", r, C, {})
    /\ UNCHANGED <<rows, blocked, objects, removal, yankers>>

\* loadRegistryState, after the closure: the blacklist.  The remaining checks
\* may reject anything.
Check(w) ==
    /\ builders[w].pc = "check"
    /\ LET r == builders[w].release
           C == builders[w].closure
       IN  \/ BuilderAt(w, "reject", r, {}, {})
           \/ /\ blocked \cap ContentOf(C \cup {r}) = {}
              /\ BuilderAt(w, "write", r, C, {})
    /\ UNCHANGED <<rows, blocked, objects, removal, yankers>>

\* markFailed.
Reject(w) ==
    /\ builders[w].pc = "reject"
    /\ build' = [build EXCEPT ![builders[w].release] = IF @ = "pending" THEN "failed" ELSE @]
    /\ builders' = [builders EXCEPT ![w] = Idle]
    /\ UNCHANGED <<status, locks, blocked, objects, removal, yankers>>

Put(o, b) == /\ stored' = [stored EXCEPT ![o] = @ \cup {b}]
             /\ recorded' = [recorded EXCEPT ![o] = @ \cup {b}]

\* What becomes public with a public release: its own fragments and manifest,
\* and the assets of its whole closure.
Published(r, C) ==
    IF IsPublic[r]
    THEN {Manifest[r]} \cup Fragments[r] \cup UNION {Assets[x] : x \in C \cup {r}}
    ELSE {}

\* putBlob of the build's own object.
WriteArtifact(w) ==
    /\ builders[w].pc = "write"
    /\ LET r == builders[w].release
           C == builders[w].closure
       IN  /\ Put(Artifact[r], Bucket(r))
           /\ BuilderAt(w, "copy", r, C, Published(r, C))
    /\ UNCHANGED <<rows, blocked, removal, yankers>>

\* copyToPublic: an object already public is only recorded.
Copy(w, o) ==
    /\ builders[w].pc = "copy"
    /\ o \in builders[w].todo
    /\ stored[o] # {}
    /\ Put(o, "public")
    /\ builders' = [builders EXCEPT ![w].todo = @ \ {o}]
    /\ UNCHANGED <<rows, blocked, removal, yankers>>

\* Mutant of Commit: the row is written whole, with the status of a new release.
CommitActive(w) ==
    /\ builders[w].pc = "copy"
    /\ builders[w].todo = {}
    /\ LET r == builders[w].release
       IN  IF build[r] = "pending"
           THEN /\ build' = [build EXCEPT ![r] = "done"]
                /\ status' = [status EXCEPT ![r] = "active"]
                /\ locks' = [locks EXCEPT ![r] = builders[w].closure]
           ELSE UNCHANGED rows
    /\ builders' = [builders EXCEPT ![w] = Idle]
    /\ UNCHANGED <<blocked, objects, removal, yankers>>

\* Mutant of Commit: it does not wait for the copies.
CommitEarly(w) ==
    /\ builders[w].pc = "copy"
    /\ LET r == builders[w].release
       IN  IF build[r] = "pending"
           THEN /\ build' = [build EXCEPT ![r] = "done"]
                /\ locks' = [locks EXCEPT ![r] = builders[w].closure]
           ELSE UNCHANGED <<build, locks>>
    /\ builders' = [builders EXCEPT ![w] = Idle]
    /\ UNCHANGED <<status, blocked, objects, removal, yankers>>

\* writeArtifacts' transaction.  The status of the row is neither read nor written.
Commit(w) ==
    /\ builders[w].pc = "copy"
    /\ builders[w].todo = {}
    /\ LET r == builders[w].release
       IN  IF build[r] = "pending"
           THEN /\ build' = [build EXCEPT ![r] = "done"]
                /\ locks' = [locks EXCEPT ![r] = builders[w].closure]
           ELSE UNCHANGED <<build, locks>>
    /\ builders' = [builders EXCEPT ![w] = Idle]
    /\ UNCHANGED <<status, blocked, objects, removal, yankers>>

\* The handler throws (copyToPublic finds no copy, say) or dies; its job is
\* redelivered and loads everything again.
Abort(w) ==
    /\ builders[w] # Idle
    /\ builders' = [builders EXCEPT ![w] = Idle]
    /\ UNCHANGED <<rows, blocked, objects, removal, yankers>>
-----------------------------------------------------------------------------
(* The takedown transaction. *)

\* blob_refs of a published release.
ArtifactRefs(r) == {Artifact[r], Manifest[r]}
ContentRefs(r) == UNION {Own(x) : x \in locks[r] \cup {r}}
Refs(r) == IF Done(r) THEN ArtifactRefs(r) \cup ContentRefs(r) ELSE {}

\* directReleases.
Direct(s) ==
    IF s.digest # None THEN {r \in Releases : s.digest \in Refs(r)}
    ELSE {r \in s.whole : build[r] # "absent"}

\* Who has one of R in release_locks or pins one (reverse_edges).
Dependents(R) == {r \in Releases : Done(r) /\ (locks[r] \cup Deps[r]) \cap R # {}}

Blacklisted(t) ==
    IF t.subject.digest # None THEN {t.subject.digest} ELSE {Manifest[r] : r \in t.direct}

TakedownAt(a, t) == takedowns' = [takedowns EXCEPT ![a] = t]

\* executeTombstone begins with the preview it is based on: directReleases.
TakedownBegins(a, s) ==
    /\ takedowns[a] = Idle
    /\ jobs[a].data = None
    /\ Direct(s) # {}
    /\ TakedownAt(a, [pc |-> "closure", subject |-> s, before |-> {r \in Releases : Done(r)},
                      direct |-> Direct(s), frontier |-> Direct(s), all |-> Direct(s),
                      objects |-> {}, recorded |-> [o \in Objects |-> {}]])
    /\ UNCHANGED world

\* Mutant of ClosureRound: the downstream is looked up by its pins only, once.
PinsOnce(a) ==
    /\ takedowns[a].pc = "closure"
    /\ TakedownAt(a, [takedowns[a] EXCEPT
          !.pc = "refs",
          !.frontier = {},
          !.all = @ \cup {r \in Releases : Done(r) /\ Deps[r] \cap @ # {}}])
    /\ UNCHANGED world

\* A round of closureReleases: who depends on what the last round found.
ClosureRound(a) ==
    /\ takedowns[a].pc = "closure"
    /\ LET t == takedowns[a]
           found == Dependents(t.frontier) \ t.all
       IN  TakedownAt(a, [t EXCEPT !.pc = IF found = {} THEN "refs" ELSE "closure",
                                   !.frontier = found,
                                   !.all = @ \cup found])
    /\ UNCHANGED world

\* What a takedown may stop distributing: the artifacts of the affected releases, the
\* contents of a release taken down as a whole, and the digest taken down.
Candidates(t) ==
    (UNION {IF Done(r) THEN ArtifactRefs(r) ELSE {} : r \in t.all})
      \cup (IF t.subject.digest = None THEN UNION {Refs(r) : r \in t.direct}
            ELSE {t.subject.digest})

ReadRefs(a) ==
    /\ takedowns[a].pc = "refs"
    /\ TakedownAt(a, [takedowns[a] EXCEPT !.pc = "shared",
                                          !.objects = Candidates(takedowns[a])])
    /\ UNCHANGED world

\* Mutant of ReadStillUsed: objects that other releases use are removed with the rest.
SharedAreRemoved(a) ==
    /\ takedowns[a].pc = "shared"
    /\ TakedownAt(a, [takedowns[a] EXCEPT !.pc = "copies"])
    /\ UNCHANGED world

\* stillUsed: what an unaffected release refers to is kept, but for the digest taken
\* down, whoever refers to it.
ReadStillUsed(a) ==
    /\ takedowns[a].pc = "shared"
    /\ LET t == takedowns[a]
           stillUsed == UNION {Refs(r) : r \in Releases \ t.all}
       IN  TakedownAt(a, [t EXCEPT !.pc = "copies",
                                   !.objects = @ \ (stillUsed \ {t.subject.digest})])
    /\ UNCHANGED world

\* The rows of the objects: the copies that will be deleted.
ReadBlobs(a) ==
    /\ takedowns[a].pc = "copies"
    /\ LET t == takedowns[a]
       IN  TakedownAt(a, [t EXCEPT
              !.pc = "write",
              !.recorded = [o \in Objects |-> IF o \in t.objects THEN recorded[o] ELSE {}]])
    /\ UNCHANGED world

\* The statements that write, by the ids and digests read above, up to the commit.
\* The rows are locked from the first of them on, and the id of a takedown is the
\* primary key of moderation_actions.
TakedownCommits(a) ==
    /\ takedowns[a].pc = "write"
    /\ jobs[a].data = None
    /\ LET t == takedowns[a]
       IN  /\ status' = [r \in Releases |-> IF r \in t.all THEN "tombstoned" ELSE status[r]]
           /\ blocked' = blocked \cup Blacklisted(t)
           /\ jobs' = [jobs EXCEPT ![a] =
                         Enqueue(@, [action |-> a, objects |-> t.objects,
                                     recorded |-> t.recorded])]
    /\ TakedownAt(a, Idle)
    /\ UNCHANGED <<build, locks, objects, removed, dead, cascades, builders, yankers, faults>>

\* The transaction is rolled back: an error, a deadlock, the process ends.
TakedownFails(a) ==
    /\ takedowns[a] # Idle
    /\ TakedownAt(a, Idle)
    /\ UNCHANGED world
-----------------------------------------------------------------------------
(* The job that removes the copies: runOnce around deleting, verifying and    *)
(* purging; the transaction commits at the end of a successful attempt.       *)

CascadeAt(s, pc) == cascades' = [cascades EXCEPT ![s] = pc]

CascadeFetched(s) ==
    /\ Queued(jobs[s])
    /\ cascades[s] = "idle"
    /\ jobs' = [jobs EXCEPT ![s] = Fetch(@)]
    /\ CascadeAt(s, "delete")
    /\ UNCHANGED <<rows, blocked, takedowns, objects, removed, dead, builders, yankers, faults>>

Target(s) == jobs[s].data

\* The key is inserted first, and its row makes a second handler of the same
\* takedown wait for the end of the first one's transaction.
KeyIsFree(s) ==
    \A t \in Slots \ {s} :
        cascades[t] \in {"verify", "commit"} => Target(t).action # Target(s).action

\* The buckets that still hold o after the deletions: only the copies recorded
\* when the takedown ran are deleted.
Kept(o, t) == IF o \in t.objects THEN stored[o] \ t.recorded[o] ELSE stored[o]

Delete(s) ==
    /\ cascades[s] = "delete"
    /\ KeyIsFree(s)
    /\ IF Target(s).action \in removed
       THEN /\ UNCHANGED stored
            /\ CascadeAt(s, "commit")
       ELSE /\ stored' = [o \in Objects |-> Kept(o, Target(s))]
            /\ CascadeAt(s, "verify")
    /\ UNCHANGED <<rows, blocked, takedowns, recorded, jobs, removed, dead>>
    /\ UNCHANGED <<builders, yankers, faults>>

AttemptFails(s) ==
    /\ jobs' = [jobs EXCEPT ![s] = Fail(@)]
    /\ dead' = IF IsFinalAttempt(jobs[s]) THEN dead \cup {Target(s).action} ELSE dead
    /\ CascadeAt(s, "idle")

Gone(O) == \A o \in O : stored[o] = {}

\* HEAD on both buckets; an object that is still there fails the attempt.
Verify(s) ==
    /\ cascades[s] = "verify"
    /\ IF Gone(Target(s).objects)
       THEN CascadeAt(s, "commit") /\ UNCHANGED <<jobs, dead>>
       ELSE AttemptFails(s)
    /\ UNCHANGED <<rows, blocked, takedowns, objects, removed, builders, yankers, faults>>

\* After the purge of the CDN: the blobs are recorded nowhere, the key is kept.
Removed(s) ==
    /\ cascades[s] = "commit"
    /\ recorded' = IF Target(s).action \in removed THEN recorded
                   ELSE [o \in Objects |->
                           IF o \in Target(s).objects THEN {} ELSE recorded[o]]
    /\ removed' = removed \cup {Target(s).action}
    /\ jobs' = [jobs EXCEPT ![s] = Complete(@)]
    /\ CascadeAt(s, "idle")
    /\ UNCHANGED <<rows, blocked, takedowns, stored, dead, builders, yankers, faults>>

Fault == faults < MaxFaults /\ faults' = faults + 1

\* The attempt dies or cannot reach the object store or the CDN.
CascadeDies(s) ==
    /\ Fault
    /\ cascades[s] # "idle"
    /\ AttemptFails(s)
    /\ UNCHANGED <<rows, blocked, takedowns, objects, removed, builders, yankers>>

\* The job panel sends a dead letter again, without its singletonKey, then
\* completes it: while another job without a key is live, nothing is created.
Redeliver(a) ==
    /\ Fault
    /\ a \in dead
    /\ jobs' = [jobs EXCEPT ![Unkeyed] = Enqueue(@, Target(a))]
    /\ dead' = dead \ {a}
    /\ UNCHANGED <<rows, blocked, takedowns, objects, removed, cascades, builders, yankers>>

\* The job panel retries a failed job.
RetryFailed(s) ==
    /\ Fault
    /\ jobs[s].st = "failed"
    /\ jobs' = [jobs EXCEPT ![s] = Revive(@)]
    /\ UNCHANGED <<rows, blocked, takedowns, objects, removed, dead, cascades, builders, yankers>>
-----------------------------------------------------------------------------
(* Yanking: authorized on the row as it was read, written by id. *)

YankRead(y, r) ==
    /\ yankers[y] = Idle
    /\ Done(r)
    /\ status[r] = "active"
    /\ yankers' = [yankers EXCEPT ![y] = [pc |-> "yank", release |-> r]]
    /\ UNCHANGED <<rows, blocked, objects, removal, builders>>

YankWrite(y) ==
    /\ yankers[y].pc = "yank"
    /\ status' = [status EXCEPT ![yankers[y].release] = "yanked"]
    /\ yankers' = [yankers EXCEPT ![y] = Idle]
    /\ UNCHANGED <<build, locks, blocked, objects, removal, builders>>
-----------------------------------------------------------------------------
CascadeStep(s) == CascadeFetched(s) \/ Delete(s) \/ Verify(s) \/ Removed(s)

Next ==
    \/ \E r \in Releases : Request(r)
    \/ \E w \in Builders : \/ \E r \in Releases : Load(w, r)
                           \/ Check(w) \/ Reject(w) \/ WriteArtifact(w)
                           \/ \E o \in Objects : Copy(w, o)
                           \/ Commit(w) \/ Abort(w)
    \/ \E a \in Actions : \/ \E s \in Subjects : TakedownBegins(a, s)
                          \/ ClosureRound(a) \/ ReadRefs(a) \/ ReadStillUsed(a)
                          \/ ReadBlobs(a) \/ TakedownCommits(a) \/ TakedownFails(a)
                          \/ Redeliver(a)
    \/ \E s \in Slots : CascadeStep(s) \/ CascadeDies(s) \/ RetryFailed(s)
    \/ \E y \in Yankers : \/ \E r \in Releases : YankRead(y, r)
                          \/ YankWrite(y)

Spec == Init /\ [][Next]_vars

(***************************************************************************)
(* The cascade worker keeps polling, and pg-boss delivers a failed attempt *)
(* again; nothing is assumed of the builders.                              *)
(***************************************************************************)
Fairness == \A s \in Slots : WF_vars(CascadeStep(s))

LiveSpec == Spec /\ Fairness
-----------------------------------------------------------------------------
(* What a takedown guarantees. *)

PinsClosed(S) == \A x \in S : Deps[x] \subseteq S

\* The releases r is made of, from the pins alone: its own, theirs, and so on.
Needs(r) ==
    {x \in Releases :
        \A S \in SUBSET Releases : Deps[r] \subseteq S /\ PinsClosed(S) => x \in S}

\* r is, or is made of, what s names.
Contains(r, s) ==
    IF s.digest # None THEN s.digest \in UNION {Own(x) : x \in Needs(r) \cup {r}}
    ELSE (Needs(r) \cup {r}) \cap s.whole # {}

\* release_locks hold the whole closure of a published release: that is what
\* lets a takedown find everything downstream of its target.
LocksAreTheClosure == \A r \in Releases : Done(r) => locks[r] = Needs(r)

\* closureReleases' comment: because the whole closure is in release_locks, one
\* round finds everything downstream, and the others are a safety net.
OneRoundFindsAll ==
    \A s \in Subjects : LET all == Direct(s) \cup Dependents(Direct(s))
                        IN  Dependents(all) \subseteq all

\* A takedown reaches every release made of its target, through any number of
\* dependencies, that was published when its transaction began; publish handlers
\* go on beside it, and what they commit since is reached or not.
TakedownReachesDownstream ==
    [][\A a \in Actions : TakedownCommits(a) =>
         \A r \in takedowns[a].before :
            Contains(r, takedowns[a].subject) => status'[r] = "tombstoned"]_vars

\* A takedown removes no object of a release that is not made of its target and was
\* published when its transaction began.
SharedObjectsAreKept ==
    [][\A a \in Actions : TakedownCommits(a) =>
         \A r \in takedowns[a].before :
            ~Contains(r, takedowns[a].subject) => Refs(r) \cap jobs'[a].data.objects = {}]_vars

\* Nothing but a yank brings a tombstoned release back: neither its own publish
\* handler, which may still be running, nor a later takedown.
OnlyYankUndoesTakedown ==
    [][\A r \in Releases :
         status[r] = "tombstoned" /\ status'[r] # "tombstoned"
            => \E y \in Yankers : YankWrite(y)]_vars

Taken(a) == jobs[a].data # None
Targeted == UNION {jobs[a].data.objects : a \in {x \in Actions : Taken(x)}}

\* The objects of a published release are where its readers look for them, the
\* copies of its dependencies included, unless a takedown named them.
PublishedObjectsAreServed ==
    \A r \in Releases : Done(r) =>
        \A o \in Refs(r) \ Targeted : Bucket(r) \in stored[o]

\* Every cascade ends: with its copies removed, or as a failed job that the job
\* panel shows, whatever became of its dead letter.
CascadeEnds ==
    \A a \in Actions : Taken(a) ~> (a \in removed \/ jobs[a].st = "failed")
-----------------------------------------------------------------------------
(* What holds when no publish handler is writing while a takedown runs, and no *)
(* yank authorized before a takedown is written after it.  Neither is enforced *)
(* by the code: see the claims below.                                          *)

NobodyWrites == \A w \in Builders : builders[w].pc \notin {"write", "copy"}

Quiet == (\E a \in Actions : takedowns[a] # Idle) => NobodyWrites

QuietNext ==
    /\ Next
    /\ Quiet'
    /\ \A y \in Yankers : YankWrite(y) => status[yankers[y].release] # "tombstoned"

QuietSpec == Init /\ [][QuietNext]_vars /\ Fairness

IsLive(r) == Done(r) /\ status[r] # "tombstoned"

\* registry/tombstone.ts: every release made of what was taken down is
\* tombstoned with it.  So none is live, whenever it was published.  (A manifest
\* is blacklisted too, but only against later publication: a second label of a
\* release taken down by its id stays.)
NothingLiveIsMadeOfBlocked ==
    \A r \in Releases : IsLive(r) =>
        /\ \A d \in Needs(r) : status[d] # "tombstoned"
        /\ blocked \cap UNION {Own(x) : x \in Needs(r) \cup {r}} = {}

\* The releases of a revision pin the same, its default policy included.
SamePins(r) == \A x \in Releases : Manifest[x] = Manifest[r] => Deps[x] = Deps[r]

\* registry/tombstone.ts: an object that an unaffected release refers to is kept.
\* A manifest only if its releases differ in nothing but their label: one that is
\* being published with another default policy has no blob_refs yet.
LiveReleasesAreWhole ==
    \A r \in Releases : IsLive(r) =>
        /\ Bucket(r) \in stored[Artifact[r]]
        /\ SamePins(r) => Bucket(r) \in stored[Manifest[r]]

\* Removed copies do not come back.
RemovedCopiesStayGone == \A a \in removed : Gone(jobs[a].data.objects)
-----------------------------------------------------------------------------
(* Claims of the documentation that the code does not keep: the first of the   *)
(* three invariants above without QuietSpec's condition, and this one.         *)

\* api/routes/yank.ts: a tombstoned release cannot be yanked.
TombstonedIsNotYanked ==
    [][\A r \in Releases : status[r] = "tombstoned" => status'[r] # "yanked"]_vars
=============================================================================
