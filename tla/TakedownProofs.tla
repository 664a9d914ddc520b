--------------------------- MODULE TakedownProofs ---------------------------
(***************************************************************************)
(* Theorems about Takedown, for any releases, objects, pins, subjects and  *)
(* any number of publish handlers, takedowns, yanks and faults.            *)
(***************************************************************************)
EXTENDS Takedown, JobQueueProofs
-----------------------------------------------------------------------------
(***************************************************************************)
(* The inductive invariant, in parts: what the cascade's jobs carry, what  *)
(* is known of the closures (LocksAreTheClosure is not inductive without   *)
(* the handlers that are about to commit one), and where the objects are   *)
(* (what a handler has copied so far, and what the private bucket still    *)
(* holds for the copies that are to come).                                 *)
(***************************************************************************)

\* A cascade handler runs an active job.
HandlersRunJobs ==
    \A s \in Slots : cascades[s] # "idle" => jobs[s].st = "active"

\* Every job, the one sent without its key included, carries the payload its
\* takedown was enqueued with.
JobsCarryTheirTakedown ==
    /\ \A s \in Slots : jobs[s].st # "none" => jobs[s].data # None
    /\ \A s \in Slots : jobs[s].data # None =>
          /\ jobs[s].data \in Targets
          /\ jobs[jobs[s].data.action].data = jobs[s].data
    /\ \A a \in dead : Taken(a)

Handling(w) == builders[w].pc \in {"check", "write", "copy"}

\* A published release, and one whose handler goes on, has its whole closure,
\* and all of it is published.
ClosuresAreComplete ==
    /\ LocksAreTheClosure
    /\ \A r \in Releases : Done(r) => \A d \in Needs(r) : Done(d)
    /\ \A w \in Builders : Handling(w) =>
          /\ builders[w].closure = Needs(builders[w].release)
          /\ \A d \in builders[w].closure : Done(d)

\* A public release is made of public releases.
PublicOnPublic ==
    /\ \A r \in Releases : Done(r) /\ IsPublic[r] => \A d \in Needs(r) : IsPublic[d]
    /\ \A w \in Builders : Handling(w) /\ IsPublic[builders[w].release] =>
          \A d \in builders[w].closure : IsPublic[d]

\* o is in bucket b, or a takedown has named it.
Served(o, b) == b \in stored[o] \/ o \in Targeted

\* What a handler has written and what it has copied.
CopiedSoFar(w) ==
    builders[w].pc = "copy" =>
        /\ Served(Artifact[builders[w].release], Bucket(builders[w].release))
        /\ \A o \in Published(builders[w].release, builders[w].closure) \ builders[w].todo :
              Served(o, "public")

\* Where the objects are while their releases are built and afterwards.
ObjectsAreInPlace ==
    /\ \A o \in Uploaded : Served(o, "private")
    /\ \A r \in Releases : Done(r) => \A o \in Refs(r) : Served(o, Bucket(r))
    /\ \A w \in Builders : CopiedSoFar(w)

Running(a) == takedowns[a] # Idle

\* What a release refers to once it is published.
Made(r) == ArtifactRefs(r) \cup UNION {Own(x) : x \in Needs(r) \cup {r}}

\* What a takedown has read, as far as it does not change: everything it will stop is
\* made of its target, it finds all that was published when it began, and it will
\* remove the objects of what it stops, but of nothing else published by then.
Known ==
    {t \in TakingDown :
        /\ t.direct \subseteq t.all /\ t.frontier \subseteq t.all
        /\ t.subject.digest = None => t.direct \subseteq t.subject.whole
        /\ \A r \in t.all :
              IF t.subject.digest # None THEN Contains(r, t.subject)
              ELSE (Needs(r) \cup {r}) \cap t.direct # {}
        /\ \A r \in t.before : Contains(r, t.subject) =>
              r \in t.all \/ (t.pc = "closure" /\ Needs(r) \cap t.frontier # {})
        /\ \A o \in t.objects : o = t.subject.digest \/ \E x \in t.all : o \in Made(x)
        /\ t.pc \in {"copies", "write"} =>
              \A o \in t.objects, r \in t.before \ t.all :
                 o # t.subject.digest => o \notin Made(r)}

TakedownsAreKnown ==
    \A a \in Actions : Running(a) =>
        /\ takedowns[a] \in Known
        /\ \A r \in takedowns[a].before : Done(r)
        /\ \A r \in takedowns[a].all :
              build[r] # "absent" /\ (takedowns[a].subject.digest # None => Done(r))

IInv ==
    /\ TypeOK
    /\ HandlersRunJobs
    /\ JobsCarryTheirTakedown
    /\ ClosuresAreComplete
    /\ PublicOnPublic
    /\ ObjectsAreInPlace
    /\ TakedownsAreKnown
-----------------------------------------------------------------------------
(* The steps, by who takes them. *)

PublisherStep(w) ==
    \/ \E r \in Releases : Load(w, r)
    \/ Check(w) \/ Reject(w) \/ WriteArtifact(w)
    \/ \E o \in Objects : Copy(w, o)
    \/ Commit(w) \/ Abort(w)

\* A takedown reads, or is rolled back.
ReadingStep(a) ==
    \/ \E s \in Subjects : TakedownBegins(a, s)
    \/ ClosureRound(a) \/ ReadRefs(a) \/ ReadStillUsed(a) \/ ReadBlobs(a) \/ TakedownFails(a)

RemovalStep ==
    \/ \E a \in Actions : TakedownCommits(a) \/ Redeliver(a)
    \/ \E s \in Slots : CascadeStep(s) \/ CascadeDies(s) \/ RetryFailed(s)

YankStep == \E y \in Yankers : YankWrite(y) \/ \E r \in Releases : YankRead(y, r)

\* Every step is a request, a publish handler's, one that a takedown or its cascade
\* writes, a yank's, or changes nothing but what running takedowns have read.
LEMMA StepKinds ==
    ASSUME [Next]_vars
    PROVE  \/ \E r \in Releases : Request(r)
           \/ \E w \in Builders : PublisherStep(w)
           \/ RemovalStep
           \/ YankStep
           \/ UNCHANGED world
<1>1. (\E a \in Actions : ReadingStep(a)) => UNCHANGED world
  BY DEF ReadingStep, TakedownBegins, ClosureRound, ReadRefs, ReadStillUsed, ReadBlobs,
         TakedownFails
<1>2. UNCHANGED vars => UNCHANGED world
  BY DEF vars, world
<1> QED
  BY <1>1, <1>2 DEF Next, PublisherStep, RemovalStep, YankStep, ReadingStep

\* A request changes its row only.
LEMMA RequestKeeps ==
    ASSUME NEW r \in Releases, Request(r)
    PROVE  UNCHANGED <<status, locks, blocked, takedowns, stored, recorded, jobs, removed,
                       dead, cascades, builders, yankers, faults>>
  BY DEF Request, objects, removal

\* Publish handlers leave takedowns and yanks alone, and the status of the rows.
LEMMA PublisherKeeps ==
    ASSUME NEW w \in Builders, PublisherStep(w)
    PROVE  UNCHANGED <<status, blocked, takedowns, jobs, removed, dead, cascades, yankers,
                       faults>>
  BY DEF PublisherStep, Load, Check, Reject, WriteArtifact, Copy, Commit, Abort,
         rows, removal

\* Takedowns and their cascades leave the publish handlers and what they commit alone.
LEMMA RemovalKeeps ==
    ASSUME RemovalStep
    PROVE  UNCHANGED <<build, locks, builders, yankers>>
  BY DEF RemovalStep, TakedownCommits, Redeliver, CascadeStep, CascadeFetched, Delete, Verify,
         Removed, CascadeDies, RetryFailed, rows

\* A yank changes the status of a row only.
LEMMA YankKeeps ==
    ASSUME YankStep
    PROVE  UNCHANGED <<build, locks, blocked, takedowns, stored, recorded, jobs, removed,
                       dead, cascades, builders, faults>>
  BY DEF YankStep, YankRead, YankWrite, rows, objects, removal
-----------------------------------------------------------------------------
(* What releases need and refer to. *)

\* Needs(r) holds the pins of r and is closed under pinning.
LEMMA NeedsIsClosed ==
    ASSUME NEW r \in Releases
    PROVE  /\ Needs(r) \subseteq Releases
           /\ Deps[r] \subseteq Needs(r)
           /\ PinsClosed(Needs(r))
<1>1. Needs(r) \subseteq Releases
  BY DEF Needs
<1>2. Deps[r] \subseteq Needs(r)
  BY ContentAssumption DEF Needs
<1>3. ASSUME NEW x \in Needs(r), NEW y \in Deps[x] PROVE y \in Needs(r)
  <2>1. y \in Releases
    BY <1>1, ContentAssumption
  <2>2. ASSUME NEW S \in SUBSET Releases, Deps[r] \subseteq S, PinsClosed(S) PROVE y \in S
    <3>1. x \in S
      BY <2>2 DEF Needs
    <3> QED
      BY <2>2, <3>1 DEF PinsClosed
  <2> QED
    BY <2>1, <2>2 DEF Needs
<1> QED
  BY <1>1, <1>2, <1>3 DEF PinsClosed

\* Needs(r) is the least such set.
LEMMA NeedsIsLeast ==
    ASSUME NEW r \in Releases, NEW S \in SUBSET Releases, Deps[r] \subseteq S, PinsClosed(S)
    PROVE  Needs(r) \subseteq S
  BY DEF Needs

\* What r needs needs nothing that r does not need.
LEMMA NeedsIsTransitive ==
    ASSUME NEW r \in Releases, NEW d \in Needs(r)
    PROVE  d \in Releases /\ Needs(d) \subseteq Needs(r)
<1>1. Needs(r) \in SUBSET Releases /\ PinsClosed(Needs(r))
  BY NeedsIsClosed
<1>2. d \in Releases /\ Deps[d] \subseteq Needs(r)
  BY <1>1 DEF PinsClosed
<1> QED
  BY <1>1, <1>2, NeedsIsLeast

\* A published release depends, through locks and pins, on what it needs.
LEMMA DependentsNeed ==
    ASSUME IInv, NEW R, NEW r \in Releases
    PROVE  r \in Dependents(R) <=> Done(r) /\ Needs(r) \cap R # {}
<1>1. Done(r) => locks[r] \cup Deps[r] = Needs(r)
  BY NeedsIsClosed DEF IInv, ClosuresAreComplete, LocksAreTheClosure
<1> QED
  BY <1>1 DEF Dependents

\* The contents of a published release, its dependencies' included, are what its
\* references name, apart from what its own build produced.
LEMMA RefsAreContents ==
    ASSUME IInv, NEW s \in Subjects, NEW r \in Releases, s.digest # None
    PROVE  s.digest \in Refs(r) <=> Done(r) /\ Contains(r, s)
<1>1. s.digest \notin ArtifactRefs(r)
  BY SubjectsAssumption DEF ArtifactRefs
<1>2. Done(r) => locks[r] = Needs(r)
  BY DEF IInv, ClosuresAreComplete, LocksAreTheClosure
<1> QED
  BY <1>1, <1>2 DEF Refs, ContentRefs, Contains

\* A published release refers to what it is made of.
LEMMA MadeOfRefs ==
    ASSUME IInv, NEW r \in Releases, Done(r)
    PROVE  Refs(r) = Made(r)
<1>1. locks[r] = Needs(r)
  BY DEF IInv, ClosuresAreComplete, LocksAreTheClosure
<1> QED
  BY <1>1 DEF Refs, ContentRefs, Made

\* A published release made of the target holds it, or depends on one that does.
LEMMA AffectedAreFound ==
    ASSUME IInv, NEW s \in Subjects, NEW r \in Releases, Done(r), Contains(r, s)
    PROVE  r \in Direct(s) \cup Dependents(Direct(s))
<1>1. CASE s.digest # None
  BY <1>1, RefsAreContents DEF Direct
<1>2. CASE s.digest = None
  <2>1. PICK x \in Needs(r) \cup {r} : x \in s.whole
    BY <1>2 DEF Contains
  <2>2. x \in Releases /\ Done(x)
    BY <2>1, NeedsIsClosed DEF IInv, ClosuresAreComplete
  <2>3. x \in Direct(s)
    BY <1>2, <2>1, <2>2 DEF Direct, Done
  <2> QED
    BY <2>1, <2>3, DependentsNeed
<1> QED
  BY <1>1, <1>2

\* What contains a dependency's contents contains its target.
LEMMA ContainsGrows ==
    ASSUME NEW s \in Subjects, NEW r \in Releases, NEW d \in Needs(r), Contains(d, s)
    PROVE  Contains(r, s)
<1>1. Needs(d) \cup {d} \subseteq Needs(r) \cup {r}
  BY NeedsIsTransitive
<1>2. CASE s.digest # None
  BY <1>1, <1>2 DEF Contains
<1>3. CASE s.digest = None
  BY <1>1, <1>3 DEF Contains
<1> QED
  BY <1>2, <1>3

\* Everything a takedown will stop is made of its target.
LEMMA KnownContains ==
    ASSUME NEW t \in Known, NEW r \in t.all
    PROVE  r \in Releases /\ t.subject \in Subjects /\ Contains(r, t.subject)
<1>1. t \in TakingDown /\ t.subject \in Subjects /\ r \in Releases
  BY DEF Known, TakingDown
<1>2. CASE t.subject.digest # None
  BY <1>1, <1>2 DEF Known
<1>3. CASE t.subject.digest = None
  BY <1>1, <1>3 DEF Known, Contains
<1> QED
  BY <1>1, <1>2, <1>3

\* A release whose dependency a takedown will stop is made of the target as well.
LEMMA ReachedGrows ==
    ASSUME NEW t \in Known, NEW d \in t.all, NEW r \in Releases, d \in Needs(r)
    PROVE  IF t.subject.digest # None THEN Contains(r, t.subject)
           ELSE (Needs(r) \cup {r}) \cap t.direct # {}
<1>1. t.subject \in Subjects /\ Contains(d, t.subject)
  BY KnownContains
<1>2. CASE t.subject.digest # None
  BY <1>1, <1>2, ContainsGrows
<1>3. CASE t.subject.digest = None
  <2>1. (Needs(d) \cup {d}) \cap t.direct # {}
    BY <1>3 DEF Known
  <2>2. Needs(d) \cup {d} \subseteq Needs(r)
    BY NeedsIsTransitive
  <2> QED
    BY <1>3, <2>1, <2>2
<1> QED
  BY <1>2, <1>3
-----------------------------------------------------------------------------
(* What a takedown reads. *)

\* A takedown that runs has the type of one, and what is known of it.
LEMMA RunningType ==
    ASSUME IInv, NEW a \in Actions, takedowns[a] # Idle \/ takedowns[a].pc # "idle"
    PROVE  /\ Running(a)
           /\ takedowns[a] \in Known /\ takedowns[a] \in TakingDown
<1>1. Running(a)
  BY DEF Running, Idle
<1> QED
  BY <1>1 DEF IInv, TakedownsAreKnown, Known

\* What it may remove, and what it blacklists, are objects.
LEMMA CandidatesType ==
    ASSUME IInv, NEW t \in TakingDown
    PROVE  Candidates(t) \subseteq Objects /\ Blacklisted(t) \subseteq Objects
<1>1. ASSUME NEW r \in Releases PROVE Refs(r) \subseteq Objects
  <2>1. UNION {Own(x) : x \in locks[r] \cup {r}} \subseteq Objects
    BY ContentAssumption DEF IInv, TypeOK, Own
  <2> QED
    BY <2>1, ContentAssumption DEF Refs, ArtifactRefs, ContentRefs
<1>2. t.direct \subseteq Releases /\ t.all \subseteq Releases /\ t.subject \in Subjects
  BY DEF TakingDown
<1>3. t.subject.digest \in Objects \cup {None}
  BY <1>2, SubjectsAssumption
<1>4. UNION {Refs(r) : r \in t.direct} \subseteq Objects
  BY <1>1, <1>2
<1>5. UNION {IF Done(r) THEN ArtifactRefs(r) ELSE {} : r \in t.all} \subseteq Objects
  BY <1>2, ContentAssumption DEF ArtifactRefs
<1>6. Candidates(t) \subseteq Objects
  BY <1>3, <1>4, <1>5 DEF Candidates
<1>7. Blacklisted(t) \subseteq Objects
  BY <1>2, <1>3, ContentAssumption DEF Blacklisted
<1> QED
  BY <1>6, <1>7

\* After a statement a takedown is over, or what it has read is as it should be.
KnownAfter(t) ==
    t # Idle =>
        /\ t \in Known
        /\ \A r \in t.before : Done(r)
        /\ \A r \in t.all : build[r] # "absent" /\ (t.subject.digest # None => Done(r))

\* The first statement finds the releases that hold the target.
LEMMA BeginsKnown ==
    ASSUME IInv, NEW a \in Actions, NEW s \in Subjects, TakedownBegins(a, s)
    PROVE  \E t : TakedownAt(a, t) /\ KnownAfter(t)
<1> DEFINE D == Direct(s)
           B == {r \in Releases : Done(r)}
           t == [pc |-> "closure", subject |-> s, before |-> B, direct |-> D, frontier |-> D,
                 all |-> D, objects |-> {}, recorded |-> [o \in Objects |-> {}]]
<1>1. TakedownAt(a, t)
  BY DEF TakedownBegins
<1>2. D \in SUBSET Releases /\ B \in SUBSET Releases
  BY SubjectsAssumption DEF Direct
<1>3. [o \in Objects |-> {}] \in [Objects -> SUBSET Buckets]
  OBVIOUS
<1>4. t \in TakingDown
  BY <1>2, <1>3 DEF TakingDown
<1>5. s.digest = None => D \subseteq s.whole
  BY DEF Direct
<1>6. \A r \in D : IF s.digest # None THEN Contains(r, s) ELSE (Needs(r) \cup {r}) \cap D # {}
  BY <1>2, RefsAreContents DEF Direct
<1>7. \A r \in B : Contains(r, s) => r \in D \/ Needs(r) \cap D # {}
  BY AffectedAreFound, DependentsNeed
<1>8. t \in Known
  BY <1>4, <1>5, <1>6, <1>7 DEF Known
<1>9. \A r \in D : build[r] # "absent" /\ (s.digest # None => Done(r))
  BY DEF Direct, Refs, Done
<1>10. KnownAfter(t)
  BY <1>8, <1>9 DEF KnownAfter
<1> QED
  BY <1>1, <1>10

\* A round finds the dependents of what the last one found.
LEMMA RoundKnown ==
    ASSUME IInv, NEW a \in Actions, ClosureRound(a)
    PROVE  \E t : TakedownAt(a, t) /\ KnownAfter(t)
<1> DEFINE u == takedowns[a]
           found == Dependents(u.frontier) \ u.all
           t == [u EXCEPT !.pc = IF found = {} THEN "refs" ELSE "closure",
                          !.frontier = found, !.all = @ \cup found]
<1>0. u \in Known /\ u \in TakingDown /\ u # Idle /\ u.pc = "closure"
  BY RunningType DEF ClosureRound, Running
<1>1. TakedownAt(a, t)
  BY DEF ClosureRound
<1>2. found \in SUBSET Releases
  BY DEF Dependents
<1>3. /\ t \in TakingDown
      /\ t.pc = (IF found = {} THEN "refs" ELSE "closure")
      /\ t.subject = u.subject /\ t.before = u.before /\ t.direct = u.direct
      /\ t.frontier = found /\ t.all = u.all \cup found /\ t.objects = u.objects
  BY <1>0, <1>2 DEF TakingDown
<1>4. \A r \in found : r \in Releases /\ Done(r) /\ Needs(r) \cap u.frontier # {}
  BY DependentsNeed DEF Dependents
<1>5. ASSUME NEW r \in found
      PROVE  IF u.subject.digest # None THEN Contains(r, u.subject)
             ELSE (Needs(r) \cup {r}) \cap u.direct # {}
  <2>1. PICK d \in u.frontier : d \in Needs(r)
    BY <1>4
  <2>2. d \in u.all
    BY <1>0 DEF Known
  <2> QED
    BY <1>0, <1>4, <2>1, <2>2, ReachedGrows
<1>6. ASSUME NEW r \in u.before, Contains(r, u.subject) PROVE r \in u.all \cup found
  <2>1. r \in Releases /\ Done(r)
    BY <1>0 DEF TakingDown, IInv, TakedownsAreKnown, Running
  <2>2. r \in u.all \/ Needs(r) \cap u.frontier # {}
    BY <1>0, <1>6 DEF Known
  <2> QED
    BY <2>1, <2>2, DependentsNeed
<1>7. t \in Known
  <2>1. t.direct \subseteq t.all /\ t.frontier \subseteq t.all
        /\ (t.subject.digest = None => t.direct \subseteq t.subject.whole)
    BY <1>0, <1>3 DEF Known
  <2>2. \A r \in t.all :
           IF t.subject.digest # None THEN Contains(r, t.subject)
           ELSE (Needs(r) \cup {r}) \cap t.direct # {}
    BY <1>0, <1>3, <1>5 DEF Known
  <2>3. \A r \in t.before : Contains(r, t.subject) => r \in t.all
    BY <1>3, <1>6
  <2>4. \A o \in t.objects : o = t.subject.digest \/ \E x \in t.all : o \in Made(x)
    BY <1>0, <1>3 DEF Known
  <2>5. \A r \in t.before : Contains(r, t.subject) =>
           r \in t.all \/ Needs(r) \cap t.frontier # {}
    BY <2>3
  <2>6. t.pc \notin {"copies", "write"}
    BY <1>3
  <2>7. t.pc # "closure" => t.frontier = {}
    BY <1>3
  <2> HIDE DEF t
  <2> QED
    BY <1>3, <2>1, <2>2, <2>3, <2>4, <2>5, <2>6, <2>7 DEF Known
<1>8. /\ \A r \in u.before : Done(r)
      /\ \A r \in u.all : build[r] # "absent" /\ (u.subject.digest # None => Done(r))
  BY <1>0 DEF IInv, TakedownsAreKnown, Running
<1>9. KnownAfter(t)
  BY <1>3, <1>4, <1>7, <1>8 DEF KnownAfter, Done
<1> QED
  BY <1>1, <1>9

\* The three later reads: each changes what will be removed, or only how far it is.
LEMMA ObjectsKnown ==
    ASSUME IInv, NEW a \in Actions, ReadRefs(a) \/ ReadStillUsed(a) \/ ReadBlobs(a)
    PROVE  \E t : TakedownAt(a, t) /\ KnownAfter(t)
<1> DEFINE u == takedowns[a]
<1>0. u \in Known /\ u \in TakingDown /\ u # Idle /\ u.pc # "closure"
  BY RunningType DEF ReadRefs, ReadStillUsed, ReadBlobs, Running
<1>1. /\ \A r \in u.before : r \in Releases /\ Done(r)
      /\ \A r \in u.all : r \in Releases
      /\ \A r \in u.all : build[r] # "absent" /\ (u.subject.digest # None => Done(r))
  BY <1>0 DEF IInv, TakedownsAreKnown, Running, TakingDown
<1>2. ASSUME NEW t \in TakingDown, t.subject = u.subject, t.before = u.before,
             t.direct = u.direct, t.frontier = u.frontier, t.all = u.all,
             \A o \in t.objects : o = u.subject.digest \/ \E x \in u.all : o \in Made(x),
             t.pc \in {"copies", "write"} =>
                \A o \in t.objects, r \in u.before \ u.all :
                   o # u.subject.digest => o \notin Made(r)
      PROVE  KnownAfter(t)
  <2>1. t \in Known
    BY <1>0, <1>2 DEF Known
  <2> QED
    BY <1>1, <1>2, <2>1 DEF KnownAfter
<1>3. CASE ReadRefs(a)
  <2> DEFINE t == [u EXCEPT !.pc = "shared", !.objects = Candidates(u)]
  <2>1. \A o \in Candidates(u) : o = u.subject.digest \/ \E x \in u.all : o \in Made(x)
    <3>1. \A r \in u.all : Done(r) => ArtifactRefs(r) \subseteq Made(r)
      BY DEF Made
    <3>2. \A r \in u.direct : r \in u.all /\ Refs(r) \subseteq Made(r)
      BY <1>0, <1>1, MadeOfRefs DEF Known, Refs
    <3> QED
      BY <3>1, <3>2 DEF Candidates
  <2>2. Candidates(u) \subseteq Objects
    BY <1>0, <1>1, CandidatesType
  <2>3. t \in TakingDown /\ t.pc = "shared" /\ t.objects = Candidates(u)
        /\ t.subject = u.subject /\ t.before = u.before
        /\ t.direct = u.direct /\ t.frontier = u.frontier /\ t.all = u.all
    BY <1>0, <2>2 DEF TakingDown
  <2>4. TakedownAt(a, t)
    BY <1>3 DEF ReadRefs
  <2>5. KnownAfter(t)
    BY <1>2, <2>1, <2>3
  <2> QED
    BY <2>4, <2>5
<1>4. CASE ReadStillUsed(a)
  <2> DEFINE used == UNION {Refs(r) : r \in Releases \ u.all}
             O == u.objects \ (used \ {u.subject.digest})
             t == [u EXCEPT !.pc = "copies", !.objects = O]
  <2>1. TakedownAt(a, t)
    BY <1>4 DEF ReadStillUsed
  <2>2. t \in TakingDown /\ t.pc = "copies" /\ t.objects = O
        /\ t.subject = u.subject /\ t.before = u.before
        /\ t.direct = u.direct /\ t.frontier = u.frontier /\ t.all = u.all
    BY <1>0 DEF TakingDown
  <2>3. \A o \in O : o = u.subject.digest \/ \E x \in u.all : o \in Made(x)
    BY <1>0 DEF Known
  <2>4. ASSUME NEW o \in O, NEW r \in u.before \ u.all, o # u.subject.digest
        PROVE  o \notin Made(r)
    <3>1. r \in Releases \ u.all /\ Made(r) = Refs(r)
      BY <1>1, MadeOfRefs
    <3> QED
      BY <2>4, <3>1
  <2>5. KnownAfter(t)
    BY <1>2, <2>2, <2>3, <2>4
  <2> QED
    BY <2>1, <2>5
<1>5. CASE ReadBlobs(a)
  <2> DEFINE R == [o \in Objects |-> IF o \in u.objects THEN recorded[o] ELSE {}]
             t == [u EXCEPT !.pc = "write", !.recorded = R]
  <2>1. TakedownAt(a, t)
    BY <1>5 DEF ReadBlobs
  <2>2. R \in [Objects -> SUBSET Buckets]
    BY DEF IInv, TypeOK
  <2>3. t \in TakingDown /\ t.objects = u.objects
        /\ t.subject = u.subject /\ t.before = u.before
        /\ t.direct = u.direct /\ t.frontier = u.frontier /\ t.all = u.all
    BY <1>0, <2>2 DEF TakingDown
  <2>4. /\ \A o \in u.objects : o = u.subject.digest \/ \E x \in u.all : o \in Made(x)
        /\ \A o \in u.objects, r \in u.before \ u.all :
              o # u.subject.digest => o \notin Made(r)
    BY <1>0, <1>5 DEF Known, ReadBlobs
  <2>5. KnownAfter(t)
    BY <1>2, <2>3, <2>4
  <2> QED
    BY <2>1, <2>5
<1> QED
  BY <1>3, <1>4, <1>5

\* Each statement keeps what is known of its takedown.
LEMMA ReadingKnown ==
    ASSUME IInv, NEW a \in Actions, ReadingStep(a)
    PROVE  \E t : TakedownAt(a, t) /\ KnownAfter(t)
<1>1. TakedownFails(a) => TakedownAt(a, Idle) /\ KnownAfter(Idle)
  BY DEF TakedownFails, KnownAfter
<1> QED
  BY <1>1, BeginsKnown, RoundKnown, ObjectsKnown DEF ReadingStep

\* A running takedown changes when it reads, and when it commits.
LEMMA TakedownSteps ==
    ASSUME [Next]_vars
    PROVE  \/ UNCHANGED takedowns
           \/ \E a \in Actions : ReadingStep(a) \/ TakedownCommits(a)
<1>1. RemovalStep => UNCHANGED takedowns \/ \E a \in Actions : TakedownCommits(a)
  BY DEF RemovalStep, Redeliver, CascadeStep, CascadeFetched, Delete, Verify, Removed,
         CascadeDies, RetryFailed
<1>2. \/ \E r \in Releases : Request(r)
      \/ \E w \in Builders : PublisherStep(w)
      \/ RemovalStep
      \/ YankStep
      \/ \E a \in Actions : ReadingStep(a)
      \/ UNCHANGED takedowns
  BY DEF Next, PublisherStep, RemovalStep, YankStep, ReadingStep, vars
<1> QED
  BY <1>1, <1>2, RequestKeeps, PublisherKeeps, YankKeeps

\* So what is known of takedowns is known after every step.
LEMMA TakedownKinds ==
    ASSUME IInv, [Next]_vars
    PROVE  UNCHANGED takedowns \/ \E a \in Actions : \E t : TakedownAt(a, t) /\ KnownAfter(t)
<1>1. ASSUME NEW a \in Actions, TakedownCommits(a)
      PROVE  TakedownAt(a, Idle) /\ KnownAfter(Idle)
  BY <1>1 DEF TakedownCommits, KnownAfter
<1> QED
  BY <1>1, TakedownSteps, ReadingKnown

\* A takedown that goes on was read for by one of its own statements.
LEMMA OwnStatements ==
    ASSUME IInv, [Next]_vars, NEW a \in Actions, takedowns'[a] # Idle,
           takedowns'[a] # takedowns[a]
    PROVE  ReadingStep(a)
<1>t. takedowns \in [Actions -> {Idle} \cup TakingDown]
  BY DEF IInv, TypeOK
<1>1. ASSUME NEW b \in Actions, ReadingStep(b), b # a PROVE FALSE
  <2>1. PICK t : TakedownAt(b, t)
    BY <1>1, ReadingKnown
  <2> QED
    BY <1>t, <1>1, <2>1 DEF TakedownAt
<1>2. ASSUME NEW b \in Actions, TakedownCommits(b) PROVE FALSE
  BY <1>t, <1>2 DEF TakedownCommits, TakedownAt
<1> QED
  BY <1>1, <1>2, TakedownSteps

\* The releases published when a takedown began do not change while it reads.
LEMMA ReadingKeepsBefore ==
    ASSUME IInv, NEW a \in Actions, ReadingStep(a), takedowns'[a] # Idle
    PROVE  \/ \E s \in Subjects : TakedownBegins(a, s)
           \/ takedowns[a] # Idle /\ takedowns'[a].before = takedowns[a].before
<1>t. takedowns \in [Actions -> {Idle} \cup TakingDown]
  BY DEF IInv, TypeOK
<1>1. CASE TakedownFails(a)
  BY <1>t, <1>1 DEF TakedownFails, TakedownAt
<1>2. CASE ClosureRound(a) \/ ReadRefs(a) \/ ReadStillUsed(a) \/ ReadBlobs(a)
  <2>1. takedowns[a] # Idle /\ takedowns[a] \in TakingDown
    BY <1>2, RunningType DEF ClosureRound, ReadRefs, ReadStillUsed, ReadBlobs, Running
  <2>2. CASE ClosureRound(a)
    BY <1>t, <2>1, <2>2 DEF ClosureRound, TakedownAt, TakingDown
  <2>3. CASE ReadRefs(a)
    BY <1>t, <2>1, <2>3 DEF ReadRefs, TakedownAt, TakingDown
  <2>4. CASE ReadStillUsed(a)
    BY <1>t, <2>1, <2>4 DEF ReadStillUsed, TakedownAt, TakingDown
  <2>5. CASE ReadBlobs(a)
    BY <1>t, <2>1, <2>5 DEF ReadBlobs, TakedownAt, TakingDown
  <2> QED
    BY <1>2, <2>1, <2>2, <2>3, <2>4, <2>5
<1> QED
  BY <1>1, <1>2 DEF ReadingStep

\* Takedowns keep their type.
LEMMA TakedownsType ==
    ASSUME IInv, [Next]_vars
    PROVE  takedowns' \in [Actions -> {Idle} \cup TakingDown]
<1>1. takedowns \in [Actions -> {Idle} \cup TakingDown]
  BY DEF IInv, TypeOK
<1>2. \A t : KnownAfter(t) => t \in {Idle} \cup TakingDown
  BY DEF KnownAfter, Known
<1> QED
  BY <1>1, <1>2, TakedownKinds DEF TakedownAt

-----------------------------------------------------------------------------
(* Types. *)

\* A publish handler that runs knows its release, closure and objects to copy.
LEMMA BuildingType ==
    ASSUME TypeOK, NEW w \in Builders,
           builders[w].pc \in {"check", "reject", "write", "copy"}
    PROVE  builders[w] \in Building
  BY DEF TypeOK, Idle

\* Closures are sets of releases, and what a handler copies are objects.
LEMMA ClosureType ==
    ASSUME TypeOK, NEW r \in Releases
    PROVE  /\ Closure(r) \subseteq Releases
           /\ \A C \in SUBSET Releases : Published(r, C) \subseteq Objects
           /\ Bucket(r) \in Buckets
<1>1. Closure(r) \subseteq Releases
  BY ContentAssumption DEF TypeOK, Closure
<1>2. ASSUME NEW C \in SUBSET Releases PROVE Published(r, C) \subseteq Objects
  <2>1. UNION {Assets[x] : x \in C \cup {r}} \subseteq Objects
    BY ContentAssumption
  <2> QED
    BY <2>1, ContentAssumption DEF Published
<1>3. Bucket(r) \in Buckets
  BY DEF Bucket, Buckets
<1> QED
  BY <1>1, <1>2, <1>3

\* A handler's new record has its type.
LEMMA BuilderAtType ==
    ASSUME TypeOK, NEW w \in Builders, NEW pc \in {"check", "reject", "write", "copy"},
           NEW r \in Releases, NEW C \in SUBSET Releases, NEW todo \in SUBSET Objects,
           BuilderAt(w, pc, r, C, todo)
    PROVE  builders' \in [Builders -> {Idle} \cup Building]
<1>1. [pc |-> pc, release |-> r, closure |-> C, todo |-> todo] \in Building
  BY DEF Building
<1> QED
  BY <1>1 DEF TypeOK, BuilderAt

\* Storing an object keeps the buckets' types.
LEMMA PutType ==
    ASSUME TypeOK, NEW o \in Objects, NEW b \in Buckets, Put(o, b)
    PROVE  stored' \in [Objects -> SUBSET Buckets] /\ recorded' \in [Objects -> SUBSET Buckets]
  BY DEF TypeOK, Put

\* The payload of a running cascade, or of any job that is there, is a payload.
LEMMA TargetType ==
    ASSUME IInv, NEW s \in Slots, jobs[s].st # "none" \/ cascades[s] # "idle"
    PROVE  Target(s) \in Targets /\ Target(s).action \in Actions
  BY DEF IInv, HandlersRunJobs, JobsCarryTheirTakedown, Target, Targets

\* A failing attempt keeps types and payloads.
LEMMA AttemptFailsType ==
    ASSUME IInv, NEW s \in Slots, cascades[s] # "idle", AttemptFails(s)
    PROVE  /\ jobs' \in [Slots -> Job(Targets \cup {None})]
           /\ dead' \subseteq Actions
           /\ cascades' \in [Slots -> {"idle", "delete", "verify", "commit"}]
<1>1. jobs[s] \in Job(Targets \cup {None})
  BY DEF IInv, TypeOK
<1>2. Fail(jobs[s]) \in Job(Targets \cup {None})
  BY <1>1, FailType
<1>3. Target(s).action \in Actions
  BY TargetType
<1>4. TypeOK
  BY DEF IInv
<1>5. jobs' \in [Slots -> Job(Targets \cup {None})]
  BY <1>2, <1>4 DEF TypeOK, AttemptFails
<1>6. dead' \subseteq Actions
  BY <1>3, <1>4 DEF TypeOK, AttemptFails
<1>7. cascades' \in [Slots -> {"idle", "delete", "verify", "commit"}]
  BY <1>4 DEF TypeOK, AttemptFails, CascadeAt
<1> QED
  BY <1>5, <1>6, <1>7
-----------------------------------------------------------------------------
(* Type correctness is preserved, by who takes the step. *)

\* A publish handler's step keeps every type.
LEMMA PublisherType ==
    ASSUME IInv, NEW w \in Builders, PublisherStep(w)
    PROVE  TypeOK'
<1>t. TypeOK
  BY DEF IInv
<1>k. UNCHANGED <<status, blocked, takedowns, jobs, removed, dead, cascades, yankers, faults>>
  BY PublisherKeeps
<1> SUFFICES /\ build' \in [Releases -> {"absent", "pending", "done", "failed"}]
             /\ locks' \in [Releases -> SUBSET Releases]
             /\ stored' \in [Objects -> SUBSET Buckets]
             /\ recorded' \in [Objects -> SUBSET Buckets]
             /\ builders' \in [Builders -> {Idle} \cup Building]
  BY <1>t, <1>k DEF TypeOK
<1>1. ASSUME NEW r \in Releases, Load(w, r)
      PROVE  /\ UNCHANGED <<build, locks, stored, recorded>>
             /\ builders' \in [Builders -> {Idle} \cup Building]
  <2>1. UNCHANGED <<build, locks, stored, recorded>>
    BY <1>1 DEF Load, rows, objects
  <2>2. Closure(r) \in SUBSET Releases
    BY <1>t, ClosureType
  <2>3. CASE BuilderAt(w, "check", r, Closure(r), {})
    BY <1>t, <2>1, <2>2, <2>3, BuilderAtType
  <2>4. CASE BuilderAt(w, "reject", r, {}, {})
    BY <1>t, <2>1, <2>4, BuilderAtType
  <2> QED
    BY <1>1, <2>3, <2>4, <2>1 DEF Load
<1>2. CASE Check(w)
  <2>1. builders[w] \in Building /\ UNCHANGED <<build, locks, stored, recorded>>
    BY <1>t, <1>2, BuildingType DEF Check, rows, objects
  <2>2. builders[w].release \in Releases /\ builders[w].closure \in SUBSET Releases
    BY <2>1 DEF Building
  <2>3. builders' \in [Builders -> {Idle} \cup Building]
    <3>1. CASE BuilderAt(w, "reject", builders[w].release, {}, {})
      BY <1>t, <2>2, <3>1, BuilderAtType
    <3>2. CASE BuilderAt(w, "write", builders[w].release, builders[w].closure, {})
      BY <1>t, <2>2, <3>2, BuilderAtType
    <3> QED
      BY <1>2, <3>1, <3>2 DEF Check
  <2> QED
    BY <1>t, <2>1, <2>3 DEF TypeOK
<1>3. CASE Reject(w)
  <2>1. builders[w] \in Building
    BY <1>t, <1>3, BuildingType DEF Reject
  <2>2. builders[w].release \in Releases
    BY <2>1 DEF Building
  <2>3. build' \in [Releases -> {"absent", "pending", "done", "failed"}]
    BY <1>t, <1>3, <2>2 DEF Reject, TypeOK
  <2> QED
    BY <1>t, <1>3, <2>3 DEF Reject, TypeOK, objects
<1>4. CASE WriteArtifact(w)
  <2>1. builders[w] \in Building /\ UNCHANGED <<build, locks>>
    BY <1>t, <1>4, BuildingType DEF WriteArtifact, rows
  <2> DEFINE r == builders[w].release
             C == builders[w].closure
  <2>2. r \in Releases /\ C \in SUBSET Releases
    BY <2>1 DEF Building
  <2>3. Published(r, C) \in SUBSET Objects /\ Bucket(r) \in Buckets /\ Artifact[r] \in Objects
    BY <1>t, <2>2, ClosureType, ContentAssumption
  <2>4. Put(Artifact[r], Bucket(r)) /\ BuilderAt(w, "copy", r, C, Published(r, C))
    BY <1>4 DEF WriteArtifact
  <2>5. stored' \in [Objects -> SUBSET Buckets] /\ recorded' \in [Objects -> SUBSET Buckets]
    BY <1>t, <2>3, <2>4, PutType
  <2>6. builders' \in [Builders -> {Idle} \cup Building]
    BY <1>t, <2>2, <2>3, <2>4, BuilderAtType
  <2> QED
    BY <1>t, <2>1, <2>5, <2>6 DEF TypeOK
<1>5. ASSUME NEW o \in Objects, Copy(w, o)
      PROVE  /\ UNCHANGED <<build, locks>>
             /\ stored' \in [Objects -> SUBSET Buckets]
             /\ recorded' \in [Objects -> SUBSET Buckets]
             /\ builders' \in [Builders -> {Idle} \cup Building]
  <2>1. builders[w] \in Building /\ UNCHANGED <<build, locks>>
    BY <1>t, <1>5, BuildingType DEF Copy, rows
  <2>2. stored' \in [Objects -> SUBSET Buckets] /\ recorded' \in [Objects -> SUBSET Buckets]
    BY <1>t, <1>5, PutType DEF Copy, Buckets
  <2>3. [builders[w] EXCEPT !.todo = @ \ {o}] \in Building
    BY <2>1 DEF Building
  <2>4. builders' \in [Builders -> {Idle} \cup Building]
    BY <1>t, <1>5, <2>3 DEF TypeOK, Copy
  <2> QED
    BY <2>1, <2>2, <2>4
<1>6. CASE Commit(w)
  <2>1. builders[w] \in Building
    BY <1>t, <1>6, BuildingType DEF Commit
  <2>2. builders[w].release \in Releases /\ builders[w].closure \in SUBSET Releases
    BY <2>1 DEF Building
  <2>3. build' \in [Releases -> {"absent", "pending", "done", "failed"}]
    BY <1>t, <1>6, <2>2 DEF Commit, TypeOK
  <2>4. locks' \in [Releases -> SUBSET Releases]
    BY <1>t, <1>6, <2>2 DEF Commit, TypeOK
  <2> QED
    BY <1>t, <1>6, <2>3, <2>4 DEF Commit, TypeOK, objects
<1>7. CASE Abort(w)
  BY <1>t, <1>7 DEF Abort, TypeOK, rows, objects
<1> QED
  BY <1>t, <1>1, <1>2, <1>3, <1>4, <1>5, <1>6, <1>7 DEF PublisherStep, TypeOK

\* The frame of a step of the cascade's queue.
QueueTypes ==
    /\ jobs \in [Slots -> Job(Targets \cup {None})]
    /\ removed \subseteq Actions
    /\ dead \subseteq Actions
    /\ cascades \in [Slots -> {"idle", "delete", "verify", "commit"}]
    /\ faults \in 0..MaxFaults

\* A step of the takedown side keeps every type.
LEMMA RemovalType ==
    ASSUME IInv, RemovalStep, takedowns' \in [Actions -> {Idle} \cup TakingDown]
    PROVE  TypeOK'
<1>t. TypeOK
  BY DEF IInv
<1>k. UNCHANGED <<build, locks, builders, yankers>>
  BY RemovalKeeps
<1> SUFFICES /\ status' \in [Releases -> {"active", "yanked", "tombstoned"}]
             /\ blocked' \subseteq Objects
             /\ stored' \in [Objects -> SUBSET Buckets]
             /\ recorded' \in [Objects -> SUBSET Buckets]
             /\ QueueTypes'
  BY <1>t, <1>k DEF TypeOK, QueueTypes
<1>q. QueueTypes
  BY <1>t DEF TypeOK, QueueTypes
<1>f. ASSUME Fault PROVE faults' \in 0..MaxFaults
  BY <1>f, <1>t, FaultsAssumption DEF Fault, TypeOK
<1>1. ASSUME NEW a \in Actions, TakedownCommits(a)
      PROVE  /\ status' \in [Releases -> {"active", "yanked", "tombstoned"}]
             /\ blocked' \subseteq Objects
             /\ UNCHANGED <<stored, recorded>>
             /\ QueueTypes'
  <2> DEFINE t == takedowns[a]
             p == [action |-> a, objects |-> t.objects, recorded |-> t.recorded]
  <2>1. t \in TakingDown
    BY <1>1, RunningType DEF TakedownCommits
  <2>2. Blacklisted(t) \subseteq Objects
    BY <2>1, CandidatesType
  <2>3. p \in Targets
    BY <2>1 DEF Targets, TakingDown
  <2>4. jobs[a] \in Job(Targets \cup {None}) /\ a \in Slots
    BY <1>t DEF TypeOK, Slots
  <2>5. Enqueue(jobs[a], p) \in Job(Targets \cup {None})
    BY <2>3, <2>4, EnqueueType
  <2>6. jobs' = [jobs EXCEPT ![a] = Enqueue(@, p)]
    BY <1>1 DEF TakedownCommits
  <2>7. jobs' \in [Slots -> Job(Targets \cup {None})]
    BY <1>t, <2>4, <2>5, <2>6 DEF TypeOK
  <2>8. status' \in [Releases -> {"active", "yanked", "tombstoned"}]
    BY <1>t, <1>1 DEF TakedownCommits, TypeOK
  <2>9. blocked' \subseteq Objects
    BY <1>t, <1>1, <2>2 DEF TakedownCommits, TypeOK
  <2> QED
    BY <1>q, <1>1, <2>7, <2>8, <2>9 DEF TakedownCommits, objects, QueueTypes
<1>2. ASSUME NEW a \in Actions, Redeliver(a)
      PROVE  UNCHANGED <<status, blocked, stored, recorded>> /\ QueueTypes'
  <2>1. Target(a) \in Targets
    BY <1>2 DEF Redeliver, IInv, JobsCarryTheirTakedown, Taken, Target, Slots
  <2>2. jobs[Unkeyed] \in Job(Targets \cup {None}) /\ Unkeyed \in Slots
    BY <1>t DEF TypeOK, Slots
  <2>3. Enqueue(jobs[Unkeyed], Target(a)) \in Job(Targets \cup {None})
    BY <2>1, <2>2, EnqueueType
  <2>4. jobs' \in [Slots -> Job(Targets \cup {None})]
    BY <1>t, <1>2, <2>2, <2>3 DEF TypeOK, Redeliver
  <2>5. faults' \in 0..MaxFaults
    BY <1>2, <1>f DEF Redeliver
  <2> QED
    BY <1>q, <1>2, <2>4, <2>5 DEF Redeliver, rows, objects, QueueTypes
<1>3. ASSUME NEW s \in Slots, CascadeFetched(s)
      PROVE  UNCHANGED <<status, blocked, stored, recorded>> /\ QueueTypes'
  <2>1. jobs[s] \in Job(Targets \cup {None})
    BY <1>t DEF TypeOK
  <2>2. Fetch(jobs[s]) \in Job(Targets \cup {None})
    BY <1>3, <2>1, FetchType DEF CascadeFetched
  <2> QED
    BY <1>q, <1>3, <2>2 DEF CascadeFetched, CascadeAt, rows, objects, QueueTypes
<1>4. ASSUME NEW s \in Slots, Delete(s)
      PROVE  /\ UNCHANGED <<status, blocked, recorded>>
             /\ stored' \in [Objects -> SUBSET Buckets]
             /\ QueueTypes'
  <2>1. stored' \in [Objects -> SUBSET Buckets]
    BY <1>t, <1>4 DEF Delete, Kept, TypeOK
  <2> QED
    BY <1>q, <1>4, <2>1 DEF Delete, CascadeAt, rows, QueueTypes
<1>5. ASSUME NEW s \in Slots, Verify(s)
      PROVE  UNCHANGED <<status, blocked, stored, recorded>> /\ QueueTypes'
  <2>1. CASE AttemptFails(s)
    <3>1. cascades[s] # "idle"
      BY <1>5 DEF Verify
    <3> QED
      BY <1>q, <1>5, <2>1, <3>1, AttemptFailsType DEF Verify, rows, objects, QueueTypes
  <2>2. CASE CascadeAt(s, "commit") /\ UNCHANGED <<jobs, dead>>
    BY <1>q, <1>5, <2>2 DEF Verify, CascadeAt, rows, objects, QueueTypes
  <2> QED
    BY <1>5, <2>1, <2>2 DEF Verify
<1>6. ASSUME NEW s \in Slots, Removed(s)
      PROVE  /\ UNCHANGED <<status, blocked, stored>>
             /\ recorded' \in [Objects -> SUBSET Buckets]
             /\ QueueTypes'
  <2>1. Target(s).action \in Actions
    BY <1>6, TargetType DEF Removed
  <2>2. recorded' \in [Objects -> SUBSET Buckets]
    BY <1>t, <1>6 DEF Removed, TypeOK
  <2>3. jobs[s] \in Job(Targets \cup {None})
    BY <1>t DEF TypeOK
  <2>4. Complete(jobs[s]) \in Job(Targets \cup {None})
    BY <2>3, SettleType
  <2> QED
    BY <1>q, <1>6, <2>1, <2>2, <2>4 DEF Removed, CascadeAt, rows, QueueTypes
<1>7. ASSUME NEW s \in Slots, CascadeDies(s)
      PROVE  UNCHANGED <<status, blocked, stored, recorded>> /\ QueueTypes'
  BY <1>q, <1>f, <1>7, AttemptFailsType DEF CascadeDies, rows, objects, QueueTypes
<1>8. ASSUME NEW s \in Slots, RetryFailed(s)
      PROVE  UNCHANGED <<status, blocked, stored, recorded>> /\ QueueTypes'
  <2>1. jobs[s] \in Job(Targets \cup {None})
    BY <1>t DEF TypeOK
  <2>2. Revive(jobs[s]) \in Job(Targets \cup {None})
    BY <2>1, SettleType
  <2> QED
    BY <1>q, <1>f, <1>8, <2>2 DEF RetryFailed, rows, objects, QueueTypes
<1> QED
  BY <1>t, <1>1, <1>2, <1>3, <1>4, <1>5, <1>6, <1>7, <1>8
  DEF RemovalStep, CascadeStep, TypeOK

\* A yank's step keeps every type.
LEMMA YankType ==
    ASSUME IInv, YankStep
    PROVE  TypeOK'
<1>t. TypeOK
  BY DEF IInv
<1>1. ASSUME NEW y \in Yankers, NEW r \in Releases, YankRead(y, r) PROVE TypeOK'
  BY <1>t, <1>1 DEF YankRead, TypeOK, Yanking, rows, objects, removal
<1>2. ASSUME NEW y \in Yankers, YankWrite(y) PROVE TypeOK'
  BY <1>t, <1>2 DEF YankWrite, TypeOK, objects, removal
<1> QED
  BY <1>1, <1>2 DEF YankStep

\* Every step keeps every type.
LEMMA TypeStep == IInv /\ [Next]_vars => TypeOK'
<1> SUFFICES ASSUME IInv, [Next]_vars PROVE TypeOK'
  OBVIOUS
<1>1. ASSUME NEW r \in Releases, Request(r) PROVE TypeOK'
  BY <1>1 DEF IInv, Request, TypeOK, objects, removal
<1>2. CASE UNCHANGED world
  BY <1>2, TakedownsType DEF IInv, world, TypeOK
<1> QED
  BY <1>1, <1>2, StepKinds, PublisherType, RemovalType, YankType, TakedownsType
-----------------------------------------------------------------------------
(* The cascade's queue. *)

\* A job put into a slot with a takedown's payload keeps what is known of payloads.
QueueInv == HandlersRunJobs /\ JobsCarryTheirTakedown

\* A payload, once given to a takedown, is never changed or dropped.
PayloadsStay ==
    \A a \in Actions : jobs[a].data # None => jobs'[a].data = jobs[a].data

\* A step that changes one slot without its payload keeps the payload facts.
LEMMA SlotStep ==
    ASSUME IInv, NEW s \in Slots, NEW j, jobs' = [jobs EXCEPT ![s] = j],
           j.data = jobs[s].data, j.st # "none" => jobs[s].st # "none",
           dead' \subseteq dead \cup {a \in Actions : Taken(a)}
    PROVE  JobsCarryTheirTakedown' /\ PayloadsStay
<1>1. jobs \in [Slots -> Job(Targets \cup {None})] /\ Actions \subseteq Slots
  BY DEF IInv, TypeOK, Slots
<1>2. \A t \in Slots : jobs'[t].data = jobs[t].data
  BY <1>1
<1>3. \A t \in Slots : jobs'[t].st # "none" => jobs[t].st # "none"
  BY <1>1
<1>4. JobsCarryTheirTakedown
  BY DEF IInv
<1>5. \A t \in Targets : t.action \in Slots
  BY DEF Targets, Slots
<1>6. \A t \in Slots : jobs'[t].st # "none" => jobs'[t].data # None
  BY <1>2, <1>3, <1>4 DEF JobsCarryTheirTakedown
<1>7. \A t \in Slots : jobs'[t].data # None =>
         jobs'[t].data \in Targets /\ jobs'[jobs'[t].data.action].data = jobs'[t].data
  BY <1>2, <1>4, <1>5 DEF JobsCarryTheirTakedown
<1>8. \A a \in dead' : Taken(a)'
  BY <1>1, <1>2, <1>4 DEF JobsCarryTheirTakedown, Taken, IInv, TypeOK
<1>9. PayloadsStay
  BY <1>1, <1>2 DEF PayloadsStay
<1> QED
  BY <1>6, <1>7, <1>8, <1>9 DEF JobsCarryTheirTakedown

\* A failing attempt keeps the payload facts, and leaves a dead letter of a takedown.
LEMMA FailingStep ==
    ASSUME IInv, NEW s \in Slots, cascades[s] # "idle", AttemptFails(s)
    PROVE  HandlersRunJobs' /\ JobsCarryTheirTakedown' /\ PayloadsStay
<1>1. TypeOK /\ HandlersRunJobs /\ JobsCarryTheirTakedown
  BY DEF IInv
<1>2. jobs[s] \in Job(Targets \cup {None}) /\ jobs[s].st = "active"
  BY <1>1 DEF TypeOK, HandlersRunJobs
<1>3. Fail(jobs[s]).data = jobs[s].data
  BY <1>2, FailType
<1>4. Target(s).action \in Actions /\ Taken(Target(s).action)
  BY <1>1, <1>2, TargetType DEF JobsCarryTheirTakedown, Taken, Target
<1>5. dead' \subseteq dead \cup {a \in Actions : Taken(a)}
  BY <1>4 DEF AttemptFails
<1>6. JobsCarryTheirTakedown' /\ PayloadsStay
  BY <1>2, <1>3, <1>5, SlotStep DEF AttemptFails
<1>7. HandlersRunJobs'
  BY <1>1 DEF AttemptFails, CascadeAt, HandlersRunJobs, TypeOK
<1> QED
  BY <1>6, <1>7

\* What the queue's jobs carry is preserved by every step, and no takedown's payload
\* is ever replaced.
LEMMA QueueStep ==
    ASSUME IInv, [Next]_vars
    PROVE  QueueInv' /\ PayloadsStay
<1>t. TypeOK /\ HandlersRunJobs /\ JobsCarryTheirTakedown
  BY DEF IInv
<1>u. CASE UNCHANGED <<jobs, dead, cascades>>
  BY <1>t, <1>u DEF QueueInv, HandlersRunJobs, JobsCarryTheirTakedown, Taken, PayloadsStay
<1>s. Actions \subseteq Slots /\ Unkeyed \in Slots /\ Unkeyed \notin Actions
  BY DistinctAssumption DEF Slots
<1>1. ASSUME NEW a \in Actions, TakedownCommits(a)
      PROVE  QueueInv' /\ PayloadsStay
  <2> DEFINE t == [action |-> a, objects |-> takedowns[a].objects,
                   recorded |-> takedowns[a].recorded]
  <2>1. jobs[a].data = None /\ jobs[a].st = "none"
    BY <1>t, <1>s, <1>1 DEF TakedownCommits, JobsCarryTheirTakedown
  <2>2. Enqueue(jobs[a], t) = NewJob(t)
    BY <2>1 DEF Enqueue, Live, Queued
  <2>3. jobs' = [jobs EXCEPT ![a] = NewJob(t)] /\ UNCHANGED <<dead, cascades>>
    BY <1>1, <2>2 DEF TakedownCommits
  <2>4. NewJob(t).data = t /\ NewJob(t).st = "created"
    BY DEF NewJob
  <2>5. t \in Targets /\ t # None
    <3>1. takedowns[a] \in TakingDown
      BY <1>1, RunningType DEF TakedownCommits
    <3> QED
      BY <3>1, DistinctAssumption DEF Targets, TakingDown
  <2>6. cascades[a] = "idle"
    BY <1>t, <1>s, <2>1 DEF HandlersRunJobs
  <2>7. HandlersRunJobs'
    BY <1>t, <2>3, <2>6 DEF HandlersRunJobs, TypeOK
  <2>8. jobs'[a] = NewJob(t) /\ \A x \in Slots \ {a} : jobs'[x] = jobs[x]
    BY <1>t, <1>s, <2>3 DEF TypeOK
  <2>9. \A x \in Slots : jobs[x].data # None => jobs[x].data.action # a
    BY <1>t, <2>1 DEF JobsCarryTheirTakedown
  <2>10. \A x \in Slots : jobs[x].data # None => jobs[x].data.action \in Slots
    BY <1>t, <1>s DEF JobsCarryTheirTakedown, Targets
  <2>11. \A x \in Slots : jobs'[x].st # "none" => jobs'[x].data # None
    BY <1>t, <2>4, <2>5, <2>8 DEF JobsCarryTheirTakedown
  <2>12. \A x \in Slots : jobs'[x].data # None =>
            jobs'[x].data \in Targets /\ jobs'[jobs'[x].data.action].data = jobs'[x].data
    <3>1. ASSUME NEW x \in Slots \ {a}, jobs'[x].data # None
          PROVE  jobs'[x].data \in Targets /\ jobs'[jobs'[x].data.action].data = jobs'[x].data
      BY <1>t, <2>8, <2>9, <2>10, <3>1 DEF JobsCarryTheirTakedown
    <3>2. jobs'[a].data \in Targets /\ jobs'[jobs'[a].data.action].data = jobs'[a].data
      <4>1. t.action = a
        OBVIOUS
      <4>2. jobs'[a].data = t
        BY <2>4, <2>8
      <4> QED
        BY <2>5, <4>1, <4>2
    <3> QED
      BY <3>1, <3>2
  <2>13. \A x \in dead' : Taken(x)'
    BY <1>t, <1>s, <2>1, <2>3, <2>8 DEF JobsCarryTheirTakedown, Taken, TypeOK
  <2>14. PayloadsStay
    BY <1>s, <2>1, <2>8 DEF PayloadsStay
  <2> QED
    BY <2>7, <2>11, <2>12, <2>13, <2>14 DEF QueueInv, JobsCarryTheirTakedown
<1>2. ASSUME NEW a \in Actions, Redeliver(a) PROVE QueueInv' /\ PayloadsStay
  <2>1. jobs[a].data \in Targets /\ jobs[a].data # None
    BY <1>t, <1>s, <1>2 DEF Redeliver, JobsCarryTheirTakedown, Taken
  <2>2. jobs' = [jobs EXCEPT ![Unkeyed] = Enqueue(@, Target(a))] /\ dead' = dead \ {a}
        /\ UNCHANGED cascades
    BY <1>2 DEF Redeliver
  <2>3. CASE Live(jobs[Unkeyed])
    <3>1. jobs' = [jobs EXCEPT ![Unkeyed] = jobs[Unkeyed]]
      BY <2>2, <2>3 DEF Enqueue
    <3>2. JobsCarryTheirTakedown' /\ PayloadsStay
      BY <1>s, <2>2, <3>1, SlotStep
    <3>3. jobs' = jobs
      BY <1>t, <3>1 DEF TypeOK
    <3> QED
      BY <1>t, <2>2, <3>2, <3>3 DEF QueueInv, HandlersRunJobs
  <2>4. CASE ~Live(jobs[Unkeyed])
    <3>1. jobs' = [jobs EXCEPT ![Unkeyed] = NewJob(Target(a))]
      BY <2>2, <2>4 DEF Enqueue
    <3>2. NewJob(Target(a)).data = jobs[a].data
      BY DEF NewJob, Target
    <3>3. jobs'[Unkeyed] = NewJob(Target(a)) /\ \A x \in Slots \ {Unkeyed} : jobs'[x] = jobs[x]
      BY <1>t, <1>s, <3>1 DEF TypeOK
    <3>4. cascades[Unkeyed] = "idle"
      BY <1>t, <1>s, <2>4 DEF HandlersRunJobs, Live
    <3>5. HandlersRunJobs'
      BY <1>t, <2>2, <3>3, <3>4 DEF HandlersRunJobs
    <3>6. \A t \in Targets : t.action \in Slots \ {Unkeyed}
      BY <1>s DEF Targets
    <3>7. \A x \in Slots : jobs'[x].st # "none" => jobs'[x].data # None
      BY <1>t, <2>1, <3>2, <3>3 DEF JobsCarryTheirTakedown
    <3>8. \A x \in Slots : jobs'[x].data # None =>
             jobs'[x].data \in Targets /\ jobs'[jobs'[x].data.action].data = jobs'[x].data
      BY <1>t, <1>s, <2>1, <3>2, <3>3, <3>6 DEF JobsCarryTheirTakedown
    <3>9. \A x \in dead' : Taken(x)'
      BY <1>t, <1>s, <2>2, <3>3 DEF JobsCarryTheirTakedown, Taken, TypeOK
    <3>10. PayloadsStay
      BY <1>s, <3>3 DEF PayloadsStay
    <3> QED
      BY <3>5, <3>7, <3>8, <3>9, <3>10 DEF QueueInv, JobsCarryTheirTakedown
  <2> QED
    BY <2>3, <2>4
<1>3. ASSUME NEW s \in Slots, CascadeFetched(s) PROVE QueueInv' /\ PayloadsStay
  <2>1. jobs[s] \in Job(Targets \cup {None})
    BY <1>t DEF TypeOK
  <2>2. Fetch(jobs[s]).data = jobs[s].data /\ Fetch(jobs[s]).st = "active"
        /\ jobs[s].st # "none"
    BY <1>3, <2>1, FetchType DEF CascadeFetched, Queued
  <2>3. JobsCarryTheirTakedown' /\ PayloadsStay
    BY <1>3, <2>2, SlotStep DEF CascadeFetched
  <2>4. HandlersRunJobs'
    BY <1>t, <1>3, <2>2 DEF CascadeFetched, CascadeAt, HandlersRunJobs, TypeOK
  <2> QED
    BY <2>3, <2>4 DEF QueueInv
<1>4. ASSUME NEW s \in Slots, cascades[s] # "idle", UNCHANGED <<jobs, dead>>,
             NEW pc, CascadeAt(s, pc)
      PROVE  QueueInv' /\ PayloadsStay
  BY <1>t, <1>4
  DEF CascadeAt, QueueInv, HandlersRunJobs, JobsCarryTheirTakedown, Taken, PayloadsStay, TypeOK
<1>5. ASSUME NEW s \in Slots, Removed(s) PROVE QueueInv' /\ PayloadsStay
  <2>1. jobs[s] \in Job(Targets \cup {None})
    BY <1>t DEF TypeOK
  <2>2. Complete(jobs[s]).data = jobs[s].data /\ Complete(jobs[s]).st = "none"
    BY <2>1, SettleType DEF Complete, Job
  <2>3. JobsCarryTheirTakedown' /\ PayloadsStay
    BY <1>5, <2>2, SlotStep DEF Removed
  <2>4. HandlersRunJobs'
    BY <1>t, <1>5 DEF Removed, CascadeAt, HandlersRunJobs, TypeOK
  <2> QED
    BY <2>3, <2>4 DEF QueueInv
<1>6. ASSUME NEW s \in Slots, RetryFailed(s) PROVE QueueInv' /\ PayloadsStay
  <2>1. jobs[s] \in Job(Targets \cup {None})
    BY <1>t DEF TypeOK
  <2>2. Revive(jobs[s]).data = jobs[s].data /\ jobs[s].st = "failed"
    BY <1>6, <2>1, SettleType DEF RetryFailed
  <2>3. JobsCarryTheirTakedown' /\ PayloadsStay
    BY <1>6, <2>2, SlotStep DEF RetryFailed
  <2>4. cascades[s] = "idle" /\ UNCHANGED cascades
    BY <1>t, <1>6, <2>2 DEF RetryFailed, HandlersRunJobs
  <2>5. HandlersRunJobs'
    BY <1>t, <1>6, <2>4 DEF RetryFailed, HandlersRunJobs, TypeOK
  <2> QED
    BY <2>3, <2>5 DEF QueueInv
<1>7. ASSUME NEW s \in Slots, cascades[s] # "idle", AttemptFails(s)
      PROVE  QueueInv' /\ PayloadsStay
  BY <1>7, FailingStep DEF QueueInv
<1>8. ASSUME NEW s \in Slots, CascadeStep(s) \/ CascadeDies(s) \/ RetryFailed(s)
      PROVE  QueueInv' /\ PayloadsStay
  <2>1. CASE Delete(s)
    BY <1>4, <2>1 DEF Delete
  <2>2. CASE Verify(s)
    BY <1>4, <1>7, <2>2 DEF Verify
  <2>3. CASE CascadeDies(s)
    BY <1>7, <2>3 DEF CascadeDies
  <2> QED
    BY <1>3, <1>5, <1>6, <1>8, <2>1, <2>2, <2>3 DEF CascadeStep
<1>9. CASE \E r \in Releases : Request(r)
  BY <1>9, <1>u, RequestKeeps
<1>10. CASE \E w \in Builders : PublisherStep(w)
  BY <1>10, <1>u, PublisherKeeps
<1>11. CASE YankStep
  BY <1>11, <1>u, YankKeeps
<1>12. CASE UNCHANGED world
  BY <1>12, <1>u DEF world
<1> QED
  BY <1>1, <1>2, <1>8, <1>9, <1>10, <1>11, <1>12, StepKinds DEF RemovalStep
-----------------------------------------------------------------------------
(* Closures. *)

\* One level of locks over the pins is the whole closure: what loadClosure reads from
\* the snapshots of the direct dependencies is enough.
LEMMA OneLevelIsEnough ==
    ASSUME NEW r \in Releases, \A d \in Deps[r] : locks[d] = Needs(d)
    PROVE  Closure(r) = Needs(r)
<1>1. Deps[r] \subseteq Releases
  BY ContentAssumption
<1>2. \A d \in Deps[r] : d \in Needs(r)
  BY NeedsIsClosed
<1>3. \A d \in Deps[r] : Needs(d) \subseteq Needs(r)
  BY <1>2, NeedsIsTransitive
<1>4. Closure(r) \subseteq Needs(r)
  BY <1>2, <1>3 DEF Closure
<1>5. Closure(r) \in SUBSET Releases
  BY <1>4, NeedsIsClosed
<1>6. ASSUME NEW x \in Closure(r), NEW y \in Deps[x] PROVE y \in Closure(r)
  <2>1. CASE x \in Deps[r]
    <3>1. y \in locks[x]
      BY <1>1, <1>6, <2>1, NeedsIsClosed
    <3> QED
      BY <2>1, <3>1 DEF Closure
  <2>2. ASSUME NEW d \in Deps[r], x \in locks[d] PROVE y \in Closure(r)
    <3>1. y \in locks[d]
      BY <1>1, <1>6, <2>2, NeedsIsClosed DEF PinsClosed
    <3> QED
      BY <3>1 DEF Closure
  <2> QED
    BY <1>6, <2>1, <2>2 DEF Closure
<1>7. PinsClosed(Closure(r)) /\ Deps[r] \subseteq Closure(r)
  BY <1>6 DEF PinsClosed, Closure
<1> QED
  BY <1>4, <1>5, <1>7, NeedsIsLeast

\* Whoever is published stays published, with the same locks.
LEMMA DoneStays ==
    ASSUME IInv, [Next]_vars, NEW r \in Releases, Done(r)
    PROVE  Done(r)' /\ locks'[r] = locks[r]
<1>t. TypeOK
  BY DEF IInv
<1>1. CASE UNCHANGED <<build, locks>>
  BY <1>1 DEF Done
<1>2. ASSUME NEW x \in Releases, Request(x) PROVE Done(r)' /\ locks'[r] = locks[r]
  BY <1>t, <1>2 DEF Request, Done, TypeOK
<1>3. ASSUME NEW w \in Builders, PublisherStep(w) PROVE Done(r)' /\ locks'[r] = locks[r]
  <2>1. CASE Reject(w)
    BY <1>t, <2>1 DEF Reject, Done, TypeOK
  <2>2. CASE Commit(w)
    BY <1>t, <2>2 DEF Commit, Done, TypeOK
  <2>3. CASE ~(Reject(w) \/ Commit(w))
    <3>1. UNCHANGED <<build, locks>>
      BY <1>3, <2>3 DEF PublisherStep, Load, Check, WriteArtifact, Copy, Abort, rows
    <3> QED
      BY <1>1, <3>1
  <2> QED
    BY <2>1, <2>2, <2>3
<1> QED
  BY <1>1, <1>2, <1>3, StepKinds, RemovalKeeps, YankKeeps DEF world

\* A release that has been requested has a row ever after.
LEMMA RequestedStays ==
    ASSUME IInv, [Next]_vars, NEW r \in Releases, build[r] # "absent"
    PROVE  build'[r] # "absent"
<1>t. TypeOK
  BY DEF IInv
<1>1. ASSUME NEW x \in Releases, Request(x) PROVE build'[r] # "absent"
  BY <1>t, <1>1 DEF Request, TypeOK
<1>2. ASSUME NEW w \in Builders, PublisherStep(w) PROVE build'[r] # "absent"
  <2>1. CASE Reject(w)
    BY <1>t, <2>1 DEF Reject, TypeOK
  <2>2. CASE Commit(w)
    BY <1>t, <2>2 DEF Commit, TypeOK
  <2>3. CASE ~(Reject(w) \/ Commit(w))
    BY <1>2, <2>3 DEF PublisherStep, Load, Check, WriteArtifact, Copy, Abort, rows
  <2> QED
    BY <2>1, <2>2, <2>3
<1> QED
  BY <1>1, <1>2, StepKinds, RemovalKeeps, YankKeeps DEF world

\* What running takedowns have read stays known.
LEMMA TakedownsStep ==
    ASSUME IInv, [Next]_vars
    PROVE  TakedownsAreKnown'
<1>t. takedowns \in [Actions -> {Idle} \cup TakingDown]
  BY DEF IInv, TypeOK
<1> SUFFICES ASSUME NEW a \in Actions, takedowns'[a] # Idle
             PROVE  /\ takedowns'[a] \in Known
                    /\ \A r \in takedowns'[a].before : Done(r)'
                    /\ \A r \in takedowns'[a].all :
                          /\ build'[r] # "absent"
                          /\ takedowns'[a].subject.digest # None => Done(r)'
  BY DEF TakedownsAreKnown, Running
<1>1. KnownAfter(takedowns'[a])
  <2>1. KnownAfter(takedowns[a])
    BY DEF IInv, TakedownsAreKnown, Running, KnownAfter
  <2> QED
    BY <1>t, <2>1, TakedownKinds DEF TakedownAt
<1>2. takedowns'[a].before \subseteq Releases /\ takedowns'[a].all \subseteq Releases
  BY <1>1 DEF KnownAfter, Known, TakingDown
<1> QED
  BY <1>1, <1>2, DoneStays, RequestedStays DEF KnownAfter

\* A handler that goes on past its load knows the whole closure, all of it published,
\* and public if its release is.
ClosureIsKnown(w) ==
    Handling(w) =>
        /\ builders[w].closure = Needs(builders[w].release)
        /\ \A d \in builders[w].closure : Done(d)
        /\ IsPublic[builders[w].release] => \A d \in builders[w].closure : IsPublic[d]

\* The handlers' knowledge is preserved.
LEMMA KnownClosures ==
    ASSUME IInv, [Next]_vars, NEW v \in Builders
    PROVE  ClosureIsKnown(v)'
<1>t. TypeOK
  BY DEF IInv
<1>c. ClosureIsKnown(v)
  BY DEF IInv, ClosuresAreComplete, PublicOnPublic, ClosureIsKnown
<1>d. ASSUME NEW d \in Releases, Done(d) PROVE Done(d)'
  BY <1>d, DoneStays
<1>n. \A r \in Releases : Needs(r)' = Needs(r) /\ Needs(r) \subseteq Releases
  BY DEF Needs, PinsClosed
<1>r. Handling(v) => builders[v].release \in Releases
  BY <1>t, BuildingType DEF Handling, Building
<1>1. CASE builders'[v] = builders[v]
  BY <1>1, <1>c, <1>d, <1>n, <1>r DEF ClosureIsKnown, Handling
<1>2. ASSUME NEW r \in Releases, Load(v, r) PROVE ClosureIsKnown(v)'
  <2>1. CASE Readable(r) /\ Loadable(r) /\ Resolvable(r) /\ VisibilityAllows(r)
    <3>1. builders'[v] = [pc |-> "check", release |-> r, closure |-> Closure(r), todo |-> {}]
      BY <1>t, <1>2, <2>1 DEF Load, BuilderAt, TypeOK
    <3>2. \A d \in Deps[r] : d \in Releases /\ Done(d)
      BY <2>1, ContentAssumption DEF Loadable
    <3>3. Closure(r) = Needs(r)
      BY <3>2, OneLevelIsEnough DEF IInv, ClosuresAreComplete, LocksAreTheClosure
    <3>4. \A d \in Closure(r) : Done(d)
      BY <3>2 DEF Closure, IInv, ClosuresAreComplete, LocksAreTheClosure
    <3>5. IsPublic[r] => \A d \in Closure(r) : IsPublic[d]
      BY <2>1 DEF VisibilityAllows
    <3> QED
      BY <1>d, <1>n, <3>1, <3>3, <3>4, <3>5 DEF ClosureIsKnown, Handling
  <2>2. CASE ~(Readable(r) /\ Loadable(r) /\ Resolvable(r) /\ VisibilityAllows(r))
    <3>1. builders'[v].pc = "reject"
      BY <1>t, <1>2, <2>2 DEF Load, BuilderAt, TypeOK
    <3> QED
      BY <3>1 DEF ClosureIsKnown, Handling
  <2> QED
    BY <2>1, <2>2
<1>3. ASSUME Handling(v), builders'[v].release = builders[v].release,
             builders'[v].closure = builders[v].closure
      PROVE  ClosureIsKnown(v)'
  BY <1>3, <1>c, <1>d, <1>n, <1>r DEF ClosureIsKnown
<1>4. ASSUME builders'[v].pc \in {"reject", "idle"} PROVE ClosureIsKnown(v)'
  BY <1>4 DEF ClosureIsKnown, Handling
<1>5. CASE Check(v)
  <2>1. CASE BuilderAt(v, "reject", builders[v].release, {}, {})
    BY <1>t, <1>4, <2>1 DEF BuilderAt, TypeOK
  <2>2. CASE BuilderAt(v, "write", builders[v].release, builders[v].closure, {})
    BY <1>t, <1>3, <1>5, <2>2 DEF BuilderAt, TypeOK, Check, Handling
  <2> QED
    BY <1>5, <2>1, <2>2 DEF Check
<1>6. CASE WriteArtifact(v)
  BY <1>t, <1>3, <1>6 DEF WriteArtifact, BuilderAt, TypeOK, Handling
<1>7. ASSUME NEW o \in Objects, Copy(v, o) PROVE ClosureIsKnown(v)'
  <2>1. builders[v] \in Building
    BY <1>t, <1>7, BuildingType DEF Copy
  <2>2. builders'[v] = [builders[v] EXCEPT !.todo = @ \ {o}]
    BY <1>t, <1>7 DEF Copy, TypeOK
  <2> QED
    BY <1>3, <1>7, <2>1, <2>2 DEF Copy, Handling, Building
<1>8. CASE Reject(v) \/ Commit(v) \/ Abort(v)
  <2>1. builders'[v] = Idle
    BY <1>t, <1>8 DEF Reject, Commit, Abort, TypeOK
  <2> QED
    BY <1>4, <2>1 DEF Idle
<1>9. ASSUME NEW w \in Builders, PublisherStep(w), w # v PROVE builders'[v] = builders[v]
  BY <1>t, <1>9 DEF PublisherStep, Load, Check, Reject, WriteArtifact, Copy, Commit, Abort,
                   BuilderAt, TypeOK
<1>10. CASE PublisherStep(v)
  BY <1>2, <1>5, <1>6, <1>7, <1>8, <1>10 DEF PublisherStep
<1>11. CASE UNCHANGED builders
  BY <1>1, <1>11
<1> QED
  BY <1>1, <1>9, <1>10, <1>11, StepKinds, RemovalKeeps, YankKeeps DEF Request, world

\* The closures stay complete and public releases stay made of public ones.
LEMMA ClosureStep ==
    ASSUME IInv, [Next]_vars
    PROVE  ClosuresAreComplete' /\ PublicOnPublic'
<1>t. TypeOK
  BY DEF IInv
<1>n. \A r \in Releases : Needs(r)' = Needs(r) /\ Needs(r) \subseteq Releases
  BY DEF Needs, PinsClosed
<1>1. ASSUME NEW r \in Releases, Done(r)'
      PROVE  /\ locks'[r] = Needs(r)
             /\ \A d \in Needs(r) : Done(d)
             /\ IsPublic[r] => \A d \in Needs(r) : IsPublic[d]
  <2>1. CASE Done(r)
    <3>1. locks'[r] = locks[r]
      BY <2>1, DoneStays
    <3> QED
      BY <2>1, <3>1 DEF IInv, ClosuresAreComplete, PublicOnPublic, LocksAreTheClosure
  <2>2. CASE ~Done(r)
    <3>1. PICK w \in Builders : Commit(w)
      <4>1. build'[r] = "done" /\ build[r] # "done"
        BY <1>1, <2>2 DEF Done
      <4>2. ASSUME NEW x \in Releases, Request(x) PROVE FALSE
        BY <1>t, <4>1, <4>2 DEF Request, TypeOK
      <4>3. ASSUME NEW w \in Builders, PublisherStep(w), ~Commit(w) PROVE FALSE
        <5>1. CASE Reject(w)
          BY <1>t, <4>1, <5>1 DEF Reject, TypeOK
        <5>2. CASE ~Reject(w)
          BY <4>1, <4>3, <5>2 DEF PublisherStep, Load, Check, WriteArtifact, Copy, Abort, rows
        <5> QED
          BY <5>1, <5>2
      <4> QED
        BY <4>1, <4>2, <4>3, StepKinds, RemovalKeeps, YankKeeps DEF world
    <3>2. r = builders[w].release /\ locks'[r] = builders[w].closure
      BY <1>t, <1>1, <2>2, <3>1 DEF Commit, Done, TypeOK
    <3>3. Handling(w)
      BY <3>1 DEF Commit, Handling
    <3> QED
      BY <3>2, <3>3 DEF IInv, ClosuresAreComplete, PublicOnPublic
  <2> QED
    BY <2>1, <2>2
<1>2. \A r \in Releases : Done(r) => Done(r)'
  BY DoneStays
<1>3. ClosuresAreComplete'
  BY <1>1, <1>2, <1>n, KnownClosures
  DEF ClosuresAreComplete, LocksAreTheClosure, ClosureIsKnown
<1>4. PublicOnPublic'
  BY <1>1, <1>n, KnownClosures DEF PublicOnPublic, ClosureIsKnown
<1> QED
  BY <1>3, <1>4
-----------------------------------------------------------------------------
(* Objects. *)

\* What a takedown has named stays named.
LEMMA TargetedGrows ==
    ASSUME IInv, [Next]_vars
    PROVE  Targeted \subseteq Targeted'
<1>1. PayloadsStay
  BY QueueStep
<1>2. ASSUME NEW a \in Actions, Taken(a) PROVE Taken(a)' /\ jobs'[a].data = jobs[a].data
  BY <1>1, <1>2 DEF PayloadsStay, Taken
<1> QED
  BY <1>2 DEF Targeted

\* An object that leaves a bucket was named by a takedown: the cascade deletes what
\* its payload lists and nothing else.
LEMMA ServedStays ==
    ASSUME IInv, [Next]_vars, NEW o \in Objects, NEW b, Served(o, b)
    PROVE  Served(o, b)'
<1>t. TypeOK
  BY DEF IInv
<1>g. o \in Targeted => o \in Targeted'
  BY TargetedGrows
<1>1. CASE stored[o] \subseteq stored'[o]
  BY <1>1, <1>g DEF Served
<1>2. ASSUME NEW w \in Builders, PublisherStep(w) PROVE stored[o] \subseteq stored'[o]
  <2>1. CASE WriteArtifact(w)
    BY <1>t, <2>1 DEF WriteArtifact, Put, TypeOK
  <2>2. ASSUME NEW x \in Objects, Copy(w, x) PROVE stored[o] \subseteq stored'[o]
    BY <1>t, <2>2 DEF Copy, Put, TypeOK
  <2>3. CASE ~WriteArtifact(w) /\ ~\E x \in Objects : Copy(w, x)
    BY <1>2, <2>3 DEF PublisherStep, Load, Check, Reject, Commit, Abort, objects
  <2> QED
    BY <2>1, <2>2, <2>3
<1>3. ASSUME NEW s \in Slots, Delete(s) PROVE Served(o, b)'
  <2>1. Target(s) \in Targets /\ Target(s).action \in Actions
    BY <1>3, TargetType DEF Delete
  <2>2. jobs[Target(s).action].data = Target(s) /\ Taken(Target(s).action)
    BY <2>1, DistinctAssumption DEF IInv, JobsCarryTheirTakedown, Target, Taken
  <2>3. CASE o \in Target(s).objects
    <3>1. o \in Targeted
      BY <2>1, <2>2, <2>3 DEF Targeted
    <3> QED
      BY <1>g, <3>1 DEF Served
  <2>4. CASE o \notin Target(s).objects
    BY <1>1, <1>3, <2>4 DEF Delete, Kept
  <2> QED
    BY <2>3, <2>4
<1>4. CASE RemovalStep /\ ~\E s \in Slots : Delete(s)
  <2>1. UNCHANGED stored
    BY <1>4 DEF RemovalStep, TakedownCommits, Redeliver, CascadeStep, CascadeFetched, Verify,
               Removed, CascadeDies, RetryFailed, objects
  <2> QED
    BY <1>1, <2>1
<1> QED
  BY <1>1, <1>2, <1>3, <1>4, StepKinds, RequestKeeps, YankKeeps DEF world

\* A release that commits finds everything it refers to in its readers' bucket: its own
\* objects and its closure's assets because they were copied, its dependencies'
\* fragments because the dependencies are published there.
LEMMA CommitServes ==
    ASSUME IInv, NEW w \in Builders, Commit(w), ~Done(builders[w].release),
           NEW o \in ArtifactRefs(builders[w].release) \cup
                     UNION {Own(x) : x \in builders[w].closure \cup {builders[w].release}}
    PROVE  Served(o, Bucket(builders[w].release))
<1> DEFINE r == builders[w].release
           C == builders[w].closure
<1>t. TypeOK
  BY DEF IInv
<1>1. r \in Releases /\ C \in SUBSET Releases /\ builders[w].pc = "copy"
  BY <1>t, BuildingType DEF Commit, Building
<1>2. Served(Artifact[r], Bucket(r))
  BY <1>1 DEF IInv, ObjectsAreInPlace, CopiedSoFar
<1>3. \A x \in Published(r, C) : Served(x, "public")
  <2>1. builders[w].todo = {}
    BY DEF Commit
  <2> QED
    BY <1>1, <2>1 DEF IInv, ObjectsAreInPlace, CopiedSoFar
<1>4. C = Needs(r) /\ \A d \in C : Done(d) /\ (IsPublic[r] => IsPublic[d])
  BY <1>1 DEF IInv, ClosuresAreComplete, PublicOnPublic, Handling
<1>5. CASE ~IsPublic[r]
  <2>1. o \in {Artifact[r]} \cup Uploaded
    BY <1>1 DEF ArtifactRefs, Uploaded, ContentOf
  <2>2. Bucket(r) = "private"
    BY <1>5 DEF Bucket
  <2> QED
    BY <1>2, <2>1, <2>2 DEF IInv, ObjectsAreInPlace
<1>6. CASE IsPublic[r]
  <2>1. Bucket(r) = "public"
    BY <1>6 DEF Bucket
  <2>2. Published(r, C) =
          {Manifest[r]} \cup Fragments[r] \cup UNION {Assets[x] : x \in C \cup {r}}
    BY <1>6 DEF Published
  <2>3. CASE o \in {Artifact[r], Manifest[r]} \cup Own(r)
    <3>1. CASE o = Artifact[r]
      BY <1>2, <3>1
    <3>2. CASE o \in {Manifest[r]} \cup Fragments[r]
      BY <1>3, <2>1, <2>2, <3>2
    <3>3. CASE o \in Assets[r]
      BY <1>3, <2>1, <2>2, <3>3
    <3> QED
      BY <2>3, <3>1, <3>2, <3>3 DEF Own
  <2>4. ASSUME NEW d \in C, o \in Own(d) PROVE Served(o, Bucket(r))
    <3>1. CASE o \in Assets[d]
      BY <1>3, <2>1, <2>2, <2>4, <3>1
    <3>2. CASE o \in Fragments[d]
      <4>1. d \in Releases /\ Done(d) /\ Bucket(d) = "public"
        BY <1>1, <1>4, <1>6, <2>4 DEF Bucket
      <4>2. o \in Refs(d)
        BY <3>2, <4>1 DEF Refs, ContentRefs, Own
      <4> QED
        BY <2>1, <4>1, <4>2 DEF IInv, ObjectsAreInPlace
    <3> QED
      BY <2>4, <3>1, <3>2 DEF Own
  <2> QED
    BY <2>3, <2>4 DEF ArtifactRefs
<1> QED
  BY <1>5, <1>6

\* Contents, artifacts and manifests are objects.
LEMMA ObjectTypes ==
    ASSUME TypeOK, NEW r \in Releases
    PROVE  /\ Refs(r) \subseteq Objects
           /\ Artifact[r] \in Objects
           /\ Uploaded \subseteq Objects
<1>1. ASSUME NEW x \in Releases PROVE Own(x) \subseteq Objects
  BY ContentAssumption DEF Own
<1>2. Refs(r) \subseteq Objects
  <2>1. locks[r] \subseteq Releases
    BY DEF TypeOK
  <2> QED
    BY <1>1, <2>1, ContentAssumption DEF Refs, ArtifactRefs, ContentRefs
<1>3. Uploaded \subseteq Objects
  BY <1>1, ContentAssumption DEF Uploaded, ContentOf
<1> QED
  BY <1>2, <1>3, ContentAssumption

\* The same of the next state.
ServedAfter(o, b) == b \in stored'[o] \/ o \in Targeted'

\* What a handler has copied stays copied, and each copy adds to it.
LEMMA CopiesStep ==
    ASSUME IInv, [Next]_vars, NEW v \in Builders
    PROVE  CopiedSoFar(v)'
<1>t. TypeOK /\ CopiedSoFar(v)
  BY DEF IInv, ObjectsAreInPlace
<1>s. ASSUME NEW o \in Objects, NEW b, Served(o, b) PROVE ServedAfter(o, b)
  BY <1>s, ServedStays DEF Served, ServedAfter
<1> SUFFICES ASSUME NEW r, NEW C, NEW todo,
                    builders'[v].pc = "copy", r = builders'[v].release,
                    C = builders'[v].closure, todo = builders'[v].todo
             PROVE  /\ ServedAfter(Artifact[r], Bucket(r))
                    /\ \A o \in Published(r, C) \ todo : ServedAfter(o, "public")
  BY DEF CopiedSoFar, Served, ServedAfter, Bucket, Published
<1>r. r \in Releases /\ C \in SUBSET Releases
  <2>1. builders'[v] \in Building
    BY TypeStep DEF TypeOK, Idle
  <2> QED
    BY <2>1 DEF Building
<1>o. Published(r, C) \subseteq Objects /\ Artifact[r] \in Objects
  BY <1>t, <1>r, ClosureType, ContentAssumption
<1>1. CASE builders'[v] = builders[v]
  <2>1. Served(Artifact[r], Bucket(r)) /\ \A o \in Published(r, C) \ todo : Served(o, "public")
    BY <1>t, <1>1 DEF CopiedSoFar
  <2> QED
    BY <1>s, <1>o, <2>1
<1>2. CASE WriteArtifact(v)
  <2>1. r = builders[v].release /\ C = builders[v].closure /\ todo = Published(r, C)
    BY <1>t, <1>2 DEF WriteArtifact, BuilderAt, TypeOK
  <2>2. Bucket(r) \in stored'[Artifact[r]]
    BY <1>t, <1>2, <1>o, <2>1 DEF WriteArtifact, Put, TypeOK
  <2> QED
    BY <2>1, <2>2 DEF ServedAfter
<1>3. ASSUME NEW x \in Objects, Copy(v, x)
      PROVE  /\ ServedAfter(Artifact[r], Bucket(r))
             /\ \A o \in Published(r, C) \ todo : ServedAfter(o, "public")
  <2>1. builders[v] \in Building /\ builders[v].pc = "copy"
    BY <1>t, <1>3, BuildingType DEF Copy
  <2>2. r = builders[v].release /\ C = builders[v].closure /\ todo = builders[v].todo \ {x}
    BY <1>t, <1>3, <2>1 DEF Copy, TypeOK, Building
  <2>3. /\ Served(Artifact[r], Bucket(r))
        /\ \A o \in Published(r, C) \ builders[v].todo : Served(o, "public")
    BY <1>t, <2>1, <2>2 DEF CopiedSoFar
  <2>4. ServedAfter(x, "public")
    BY <1>t, <1>3 DEF Copy, Put, ServedAfter, TypeOK
  <2> QED
    BY <1>s, <1>o, <2>2, <2>3, <2>4
<1>4. CASE Check(v) \/ Reject(v) \/ Commit(v) \/ Abort(v) \/ \E x \in Releases : Load(v, x)
  <2>1. builders'[v].pc # "copy"
    BY <1>t, <1>4 DEF Check, Reject, Commit, Abort, Load, BuilderAt, TypeOK, Idle
  <2> QED
    BY <2>1
<1>5. ASSUME NEW w \in Builders, PublisherStep(w), w # v PROVE builders'[v] = builders[v]
  BY <1>t, <1>5 DEF PublisherStep, Load, Check, Reject, WriteArtifact, Copy, Commit,
                   Abort, BuilderAt, TypeOK
<1>6. CASE UNCHANGED builders
  BY <1>1, <1>6
<1>7. CASE PublisherStep(v)
  BY <1>2, <1>3, <1>4, <1>7 DEF PublisherStep
<1> QED
  BY <1>1, <1>5, <1>6, <1>7, StepKinds, RemovalKeeps, YankKeeps DEF Request, world

\* The objects are in place after every step.
LEMMA ObjectsStep ==
    ASSUME IInv, [Next]_vars
    PROVE  ObjectsAreInPlace'
<1>t. TypeOK
  BY DEF IInv
<1>s. \A o \in Objects, b \in Buckets : Served(o, b) => Served(o, b)'
  BY ServedStays
<1>b. \A r \in Releases : Bucket(r) \in Buckets /\ Bucket(r)' = Bucket(r)
  BY DEF Bucket, Buckets
<1>1. \A o \in Uploaded : Served(o, "private")'
  <2>1. Uploaded \subseteq Objects
    BY <1>t, ContentAssumption DEF Uploaded, ContentOf, Own
  <2> QED
    BY <1>s, <2>1 DEF IInv, ObjectsAreInPlace, Buckets
<1>2. ASSUME NEW r \in Releases, Done(r)', NEW o \in Refs(r)' PROVE Served(o, Bucket(r))'
  <2>1. CASE Done(r)
    <3>1. Refs(r)' = Refs(r)
      BY <1>2, <2>1, DoneStays DEF Refs, ArtifactRefs, ContentRefs, Own
    <3> QED
      BY <1>s, <1>t, <1>b, <1>2, <2>1, <3>1, ObjectTypes DEF IInv, ObjectsAreInPlace
  <2>2. CASE ~Done(r)
    <3>1. PICK w \in Builders : Commit(w)
      <4>1. build'[r] = "done" /\ build[r] # "done"
        BY <1>2, <2>2 DEF Done
      <4>2. ASSUME NEW x \in Releases, Request(x) PROVE FALSE
        BY <1>t, <4>1, <4>2 DEF Request, TypeOK
      <4>3. ASSUME NEW w \in Builders, PublisherStep(w), ~Commit(w) PROVE FALSE
        <5>1. CASE Reject(w)
          BY <1>t, <4>1, <5>1 DEF Reject, TypeOK
        <5>2. CASE ~Reject(w)
          BY <4>1, <4>3, <5>2 DEF PublisherStep, Load, Check, WriteArtifact, Copy, Abort, rows
        <5> QED
          BY <5>1, <5>2
      <4> QED
        BY <4>1, <4>2, <4>3, StepKinds, RemovalKeeps, YankKeeps DEF world
    <3>2. r = builders[w].release /\ locks'[r] = builders[w].closure
      BY <1>t, <1>2, <2>2, <3>1 DEF Commit, Done, TypeOK
    <3>3. o \in ArtifactRefs(r) \cup UNION {Own(x) : x \in builders[w].closure \cup {r}}
      BY <1>2, <3>2 DEF Refs, ArtifactRefs, ContentRefs, Own
    <3>4. Served(o, Bucket(r))
      BY <2>2, <3>1, <3>2, <3>3, CommitServes
    <3>5. o \in Objects
      <4>1. builders[w].closure \subseteq Releases
        BY <1>t, <3>1, BuildingType DEF Commit, Building
      <4> QED
        BY <3>3, <4>1, ContentAssumption DEF ArtifactRefs, Own
    <3> QED
      BY <1>s, <1>b, <3>4, <3>5
  <2> QED
    BY <2>1, <2>2
<1>3. \A w \in Builders : CopiedSoFar(w)'
  BY CopiesStep
<1> QED
  BY <1>1, <1>2, <1>3 DEF ObjectsAreInPlace
-----------------------------------------------------------------------------
(* The theorems. *)

\* Before the first request nothing is published, running or taken down.
LEMMA InitEstablishes == Init => IInv
<1> SUFFICES ASSUME Init PROVE IInv
  OBVIOUS
<1>1. Uploaded \subseteq Objects
  BY ContentAssumption DEF Uploaded, ContentOf, Own
<1>2. TypeOK
  <2>1. [st |-> "none", tries |-> 0, data |-> None] \in Job(Targets \cup {None})
    BY RetryLimitAssumption DEF Job, JobStates
  <2>2. stored \in [Objects -> SUBSET Buckets]
    BY DEF Init, Buckets
  <2> QED
    BY <2>1, <2>2, FaultsAssumption DEF Init, TypeOK
<1>3. HandlersRunJobs /\ JobsCarryTheirTakedown
  BY DEF Init, HandlersRunJobs, JobsCarryTheirTakedown
<1>4. \A r \in Releases : ~Done(r)
  BY DEF Init, Done
<1>5. \A w \in Builders : builders[w].pc = "idle"
  BY DEF Init, Idle
<1>6. ClosuresAreComplete /\ PublicOnPublic
  BY <1>4, <1>5 DEF ClosuresAreComplete, LocksAreTheClosure, PublicOnPublic, Handling
<1>7. ObjectsAreInPlace
  BY <1>1, <1>4, <1>5 DEF Init, ObjectsAreInPlace, CopiedSoFar, Served
<1>8. TakedownsAreKnown
  BY DEF Init, TakedownsAreKnown, Running
<1> QED
  BY <1>2, <1>3, <1>6, <1>7, <1>8 DEF IInv

\* The inductive invariant holds in every behaviour.
THEOREM InvariantHolds == Spec => []IInv
<1>1. Init => IInv
  BY InitEstablishes
<1>2. IInv /\ [Next]_vars => IInv'
  <2> SUFFICES ASSUME IInv, [Next]_vars PROVE IInv'
    OBVIOUS
  <2> QED
    BY TypeStep, QueueStep, ClosureStep, ObjectsStep, TakedownsStep DEF IInv, QueueInv
<1> QED
  BY <1>1, <1>2, PTL DEF Spec

\* Every row, object, job and handler has its type.
THEOREM TypeCorrect == Spec => []TypeOK
<1>1. IInv => TypeOK
  BY DEF IInv
<1> QED
  BY <1>1, InvariantHolds, PTL

\* The locks of every published release are its whole closure, however deep.
THEOREM LocksAreComplete == Spec => []LocksAreTheClosure
<1>1. IInv => LocksAreTheClosure
  BY DEF IInv, ClosuresAreComplete
<1> QED
  BY <1>1, InvariantHolds, PTL

\* Readers of a published release find its objects, whatever was taken down beside it.
THEOREM ObjectsAreServed == Spec => []PublishedObjectsAreServed
<1>1. IInv => PublishedObjectsAreServed
  BY DEF IInv, ObjectsAreInPlace, PublishedObjectsAreServed, Served
<1> QED
  BY <1>1, InvariantHolds, PTL

\* closureReleases' comment: one round of the locks finds everything downstream.
THEOREM OneRoundIsEnough == Spec => []OneRoundFindsAll
<1>1. IInv => OneRoundFindsAll
  <2> SUFFICES ASSUME IInv, NEW s \in Subjects,
                      NEW r \in Dependents(Direct(s) \cup Dependents(Direct(s)))
               PROVE  r \in Dependents(Direct(s))
    BY DEF OneRoundFindsAll
  <2> DEFINE D == Direct(s)
  <2>1. r \in Releases /\ Done(r)
    BY DEF Dependents
  <2>2. PICK d \in Needs(r) : d \in D \cup Dependents(D)
    BY <2>1, DependentsNeed
  <2>3. CASE d \in D
    BY <2>1, <2>2, <2>3, DependentsNeed
  <2>4. CASE d \in Dependents(D)
    <3>1. d \in Releases /\ Needs(d) \subseteq Needs(r)
      BY <2>1, <2>2, NeedsIsTransitive
    <3>2. Needs(d) \cap D # {}
      BY <2>4, <3>1, DependentsNeed
    <3> QED
      BY <2>1, <3>1, <3>2, DependentsNeed
  <2> QED
    BY <2>2, <2>3, <2>4
<1> QED
  BY <1>1, InvariantHolds, PTL

\* What is known of a takedown when it commits.
LEMMA CommitKnows ==
    ASSUME IInv, NEW a \in Actions, TakedownCommits(a)
    PROVE  /\ takedowns[a] \in Known /\ takedowns[a] \in TakingDown
           /\ takedowns[a].subject \in Subjects
           /\ takedowns[a].pc = "write"
           /\ \A r \in takedowns[a].before : r \in Releases /\ Done(r)
           /\ \A r \in takedowns[a].all :
                 /\ r \in Releases /\ build[r] # "absent"
                 /\ takedowns[a].subject.digest # None => Done(r)
<1>1. Running(a) /\ takedowns[a] \in Known /\ takedowns[a] \in TakingDown
  BY RunningType DEF TakedownCommits
<1> QED
  BY <1>1 DEF TakedownCommits, IInv, TakedownsAreKnown, TakingDown

\* A takedown that commits leaves its objects to its cascade.
LEMMA CommitEnqueues ==
    ASSUME IInv, NEW a \in Actions, TakedownCommits(a)
    PROVE  /\ ~Taken(a) /\ jobs'[a].data.objects = takedowns[a].objects
           /\ \A x \in Actions \ {a} : jobs'[x] = jobs[x]
<1> DEFINE t == [action |-> a, objects |-> takedowns[a].objects,
                 recorded |-> takedowns[a].recorded]
<1>1. jobs \in [Slots -> Job(Targets \cup {None})] /\ Actions \subseteq Slots
  BY DEF IInv, TypeOK, Slots
<1>2. ~Live(jobs[a])
  BY <1>1 DEF TakedownCommits, IInv, JobsCarryTheirTakedown, Live, Queued
<1>3. jobs' = [jobs EXCEPT ![a] = NewJob(t)]
  BY <1>2 DEF TakedownCommits, Enqueue
<1>4. jobs'[a] = NewJob(t) /\ \A x \in Actions \ {a} : jobs'[x] = jobs[x]
  BY <1>1, <1>3
<1> QED
  BY <1>4 DEF NewJob, TakedownCommits, Taken

\* A takedown tombstones every release made of its target that was published when its
\* transaction began, whatever is published while it reads.
THEOREM TakedownIsComplete == Spec => TakedownReachesDownstream
<1> DEFINE Reaches ==
             \A a \in Actions : TakedownCommits(a) =>
                \A r \in takedowns[a].before :
                   Contains(r, takedowns[a].subject) => status'[r] = "tombstoned"
<1>1. IInv => Reaches
  <2> SUFFICES ASSUME IInv, NEW a \in Actions, TakedownCommits(a),
                      NEW r \in takedowns[a].before, Contains(r, takedowns[a].subject)
               PROVE  status'[r] = "tombstoned"
    OBVIOUS
  <2>1. r \in Releases /\ r \in takedowns[a].all
    BY CommitKnows DEF Known
  <2> QED
    BY <2>1 DEF TakedownCommits
<1>2. Spec => [][Reaches]_vars
  BY <1>1, InvariantHolds, PTL DEF Spec
<1> QED
  BY <1>2 DEF TakedownReachesDownstream

\* A takedown removes no object of a release that is not made of its target and was
\* published when its transaction began.
THEOREM TakedownSparesOthers == Spec => SharedObjectsAreKept
<1> DEFINE Spares ==
             \A a \in Actions : TakedownCommits(a) =>
                \A r \in takedowns[a].before :
                   ~Contains(r, takedowns[a].subject) =>
                      Refs(r) \cap jobs'[a].data.objects = {}
<1>1. IInv => Spares
  <2> SUFFICES ASSUME IInv, NEW a \in Actions, TakedownCommits(a),
                      NEW r \in takedowns[a].before, ~Contains(r, takedowns[a].subject),
                      NEW o \in takedowns[a].objects
               PROVE  o \notin Refs(r)
    BY CommitEnqueues
  <2> DEFINE t == takedowns[a]
  <2>1. t \in Known /\ t \in TakingDown /\ t.pc = "write" /\ t.subject \in Subjects
        /\ r \in Releases /\ Done(r)
    BY CommitKnows
  <2>2. r \notin t.all
    BY <2>1, KnownContains
  <2>3. CASE o # t.subject.digest
    BY <2>1, <2>2, <2>3, MadeOfRefs DEF Known
  <2>4. CASE o = t.subject.digest
    <3>1. o # None
      BY <2>1, ContentAssumption DEF TakingDown
    <3> QED
      BY <2>1, <2>4, <3>1, RefsAreContents
  <2> QED
    BY <2>3, <2>4
<1>2. Spec => [][Spares]_vars
  BY <1>1, InvariantHolds, PTL DEF Spec
<1> QED
  BY <1>2 DEF SharedObjectsAreKept

\* Only a yank brings a tombstoned release back.
THEOREM OnlyYankUndoes == Spec => OnlyYankUndoesTakedown
<1> DEFINE OnlyYank ==
             \A r \in Releases :
                status[r] = "tombstoned" /\ status'[r] # "tombstoned"
                   => \E y \in Yankers : YankWrite(y)
<1>1. IInv /\ [Next]_vars => OnlyYank
  <2> SUFFICES ASSUME IInv, [Next]_vars, NEW r \in Releases,
                      status[r] = "tombstoned", status'[r] # "tombstoned"
               PROVE  \E y \in Yankers : YankWrite(y)
    OBVIOUS
  <2>1. ASSUME NEW a \in Actions, TakedownCommits(a) PROVE FALSE
    BY <2>1 DEF TakedownCommits
  <2>2. RemovalStep => \E a \in Actions : TakedownCommits(a)
    BY DEF RemovalStep, Redeliver, CascadeStep, CascadeFetched, Delete, Verify, Removed,
           CascadeDies, RetryFailed, rows
  <2>3. YankStep => \E y \in Yankers : YankWrite(y)
    BY DEF YankStep, YankRead, rows
  <2> QED
    BY <2>1, <2>2, <2>3, StepKinds, RequestKeeps, PublisherKeeps DEF world
<1>2. Spec => [][OnlyYank]_vars
  BY <1>1, InvariantHolds, PTL DEF Spec
<1> QED
  BY <1>2 DEF OnlyYankUndoesTakedown
-----------------------------------------------------------------------------
(***************************************************************************)
(* Tombstoned releases and removed documents are blacklisted, so the check *)
(* of the blacklist alone keeps later publications away from them.         *)
(***************************************************************************)

\* All r is made of, by content.
Below(r) == ContentOf(Needs(r) \cup {r})

Blocks(r) == blocked \cap Below(r) # {}

\* What belongs to r's own publication: its artifact, and its manifest unless another
\* release of the same revision pins something else.
Documents(r) == {Artifact[r]} \cup (IF SamePins(r) THEN {Manifest[r]} ELSE {})

TombstonedIsBlocked ==
    \A r \in Releases : status[r] = "tombstoned" => build[r] # "absent" /\ Blocks(r)

TargetedIsBlocked ==
    \A r \in Releases : Documents(r) \cap Targeted # {} => Blocks(r)

\* What a release is made of does not change with the state.
LEMMA ContentStays ==
    ASSUME NEW r \in Releases
    PROVE  /\ Below(r)' = Below(r)
           /\ Documents(r)' = Documents(r)
           /\ Needs(r)' = Needs(r)
  BY DEF Below, ContentOf, Own, Needs, PinsClosed, Documents, SamePins

\* Contents are objects, and documents are no contents.
LEMMA DocumentsAreApart ==
    ASSUME NEW r \in Releases, NEW x \in Releases
    PROVE  /\ Documents(r) \cap Own(x) = {}
           /\ Manifest[r] \notin Own(x)
           /\ \A s \in Subjects : s.digest \notin Documents(r)
           /\ Documents(r) \subseteq ArtifactRefs(r) /\ Documents(r) \subseteq Objects
  BY DocumentsAssumption, SubjectsAssumption, ContentAssumption
  DEF Documents, Own, ArtifactRefs

\* Releases that share a document are made of the same.
LEMMA SharedDocument ==
    ASSUME NEW r \in Releases, NEW x \in Releases, Documents(r) \cap ArtifactRefs(x) # {}
    PROVE  Below(r) = Below(x)
<1>1. Manifest[r] = Manifest[x] /\ Deps[r] = Deps[x]
  BY DocumentsAssumption DEF Documents, ArtifactRefs, SamePins
<1>2. Needs(r) = Needs(x)
  BY <1>1 DEF Needs
<1>3. Own(r) = Own(x)
  BY <1>1, DocumentsAssumption DEF Own
<1> DEFINE N == Needs(r)
<1>4. \A o : o \in Below(r) <=>
          (\E d \in N : o = Manifest[d] \/ o \in Own(d)) \/ o = Manifest[r] \/ o \in Own(r)
  BY DEF Below, ContentOf
<1>5. \A o : o \in Below(x) <=>
          (\E d \in N : o = Manifest[d] \/ o \in Own(d)) \/ o = Manifest[x] \/ o \in Own(x)
  BY <1>2 DEF Below, ContentOf
<1>6. \A o : o \in Below(r) <=> o \in Below(x)
  BY <1>1, <1>3, <1>4, <1>5
<1> QED
  BY <1>6

\* A release is made of what its dependencies are made of.
LEMMA BelowGrows ==
    ASSUME NEW r \in Releases, NEW d \in Needs(r) \cup {r}
    PROVE  /\ d \in Releases /\ Below(d) \subseteq Below(r)
           /\ Manifest[d] \in Below(r) /\ Own(d) \subseteq Below(r)
<1>1. d \in Releases /\ Needs(d) \cup {d} \subseteq Needs(r) \cup {r}
  BY NeedsIsTransitive
<1>2. \A x \in Needs(r) \cup {r} : Manifest[x] \in Below(r) /\ Own(x) \subseteq Below(r)
  BY DEF Below, ContentOf
<1>3. \A o \in Below(d) : \E x \in Needs(d) \cup {d} : o = Manifest[x] \/ o \in Own(x)
  BY DEF Below, ContentOf
<1> QED
  BY <1>1, <1>2, <1>3

\* A takedown blacklists something that every release it stops is made of.
LEMMA AffectedAreBlocked ==
    ASSUME IInv, NEW a \in Actions, TakedownCommits(a), NEW r \in takedowns[a].all
    PROVE  r \in Releases /\ build[r] # "absent" /\ blocked' \cap Below(r) # {}
<1> DEFINE t == takedowns[a]
<1>1. t \in Known /\ t \in TakingDown /\ r \in Releases /\ build[r] # "absent"
  BY CommitKnows
<1>2. blocked' = blocked \cup Blacklisted(t)
  BY DEF TakedownCommits
<1>3. CASE t.subject.digest # None
  <2>1. PICK x \in Needs(r) \cup {r} : t.subject.digest \in Own(x)
    BY <1>1, <1>3, KnownContains DEF Contains
  <2>2. t.subject.digest \in Below(r)
    BY <1>1, <2>1, BelowGrows
  <2> QED
    BY <1>1, <1>2, <1>3, <2>2 DEF Blacklisted
<1>4. CASE t.subject.digest = None
  <2>1. PICK x \in Needs(r) \cup {r} : x \in t.direct
    BY <1>1, <1>4 DEF Known
  <2>2. Manifest[x] \in Below(r)
    BY <1>1, <2>1, BelowGrows
  <2> QED
    BY <1>1, <1>2, <1>4, <2>1, <2>2 DEF Blacklisted
<1> QED
  BY <1>3, <1>4

\* What a takedown adds to the objects that takedowns have named.
LEMMA NewlyTargeted ==
    ASSUME IInv, NEW a \in Actions, TakedownCommits(a)
    PROVE  Targeted' \subseteq Targeted \cup takedowns[a].objects
  BY CommitEnqueues DEF Targeted, Taken

\* A cascade changes the state of jobs, never their payload.
LEMMA CascadeKeepsData ==
    ASSUME IInv, NEW s \in Slots, CascadeStep(s) \/ CascadeDies(s) \/ RetryFailed(s)
    PROVE  \A x \in Slots : jobs'[x].data = jobs[x].data
<1>t. jobs \in [Slots -> Job(Targets \cup {None})]
  BY DEF IInv, TypeOK
<1>1. Queued(jobs[s]) => Fetch(jobs[s]).data = jobs[s].data
  BY <1>t, FetchType
<1>2. Fail(jobs[s]).data = jobs[s].data
  BY <1>t, FailType
<1>3. Complete(jobs[s]).data = jobs[s].data
  BY <1>t DEF Complete, Job
<1>4. Revive(jobs[s]).data = jobs[s].data
  BY <1>t, SettleType
<1>5. jobs' = jobs \/ \E j : j.data = jobs[s].data /\ jobs' = [jobs EXCEPT ![s] = j]
  BY <1>1, <1>2, <1>3, <1>4
  DEF CascadeStep, CascadeFetched, Delete, Verify, Removed, CascadeDies, RetryFailed, AttemptFails
<1> QED
  BY <1>t, <1>5

\* Only takedowns blacklist, and only takedowns name objects.
LEMMA OnlyTakedownsBlock ==
    ASSUME IInv, [Next]_vars, ~\E a \in Actions : TakedownCommits(a)
    PROVE  blocked' = blocked /\ Targeted' = Targeted
<1>1. PayloadsStay
  BY QueueStep
<1>2. blocked' = blocked
  <2>1. RemovalStep => UNCHANGED blocked
    BY DEF RemovalStep, Redeliver, CascadeStep, CascadeFetched, Delete, Verify, Removed,
           CascadeDies, RetryFailed
  <2> QED
    BY <2>1, StepKinds, RequestKeeps, PublisherKeeps, YankKeeps DEF world
<1>3. \A a \in Actions : jobs'[a].data = jobs[a].data
  <2>t. jobs \in [Slots -> Job(Targets \cup {None})] /\ Actions \subseteq Slots \ {Unkeyed}
    BY DistinctAssumption DEF IInv, TypeOK, Slots
  <2>1. ASSUME NEW x \in Actions, Redeliver(x), NEW a \in Actions
        PROVE  jobs'[a].data = jobs[a].data
    BY <2>t, <2>1 DEF Redeliver
  <2>2. ASSUME NEW s \in Slots, CascadeStep(s) \/ CascadeDies(s) \/ RetryFailed(s),
               NEW a \in Actions
        PROVE  jobs'[a].data = jobs[a].data
    BY <2>t, <2>2, CascadeKeepsData
  <2>3. RemovalStep => \A a \in Actions : jobs'[a].data = jobs[a].data
    BY <2>1, <2>2 DEF RemovalStep
  <2> QED
    BY <2>3, StepKinds, RequestKeeps, PublisherKeeps, YankKeeps DEF world
<1>4. Targeted' = Targeted
  BY <1>3 DEF Targeted, Taken
<1> QED
  BY <1>2, <1>4

\* Only takedowns tombstone.
LEMMA OnlyTakedownsTombstone ==
    ASSUME IInv, [Next]_vars, ~\E a \in Actions : TakedownCommits(a)
    PROVE  \A r \in Releases : status'[r] = "tombstoned" => status[r] = "tombstoned"
<1>1. RemovalStep => UNCHANGED status
  BY DEF RemovalStep, Redeliver, CascadeStep, CascadeFetched, Delete, Verify, Removed,
         CascadeDies, RetryFailed, rows
<1>2. ASSUME YankStep, NEW r \in Releases
      PROVE  status'[r] = "tombstoned" => status[r] = "tombstoned"
  BY <1>2 DEF IInv, YankStep, YankRead, YankWrite, TypeOK, rows
<1> QED
  BY <1>1, <1>2, StepKinds, RequestKeeps, PublisherKeeps DEF world

\* Whatever is tombstoned is blacklisted, by a step of any kind.
LEMMA TombstonedStep ==
    ASSUME IInv, TombstonedIsBlocked, [Next]_vars
    PROVE  TombstonedIsBlocked'
<1>t. TypeOK
  BY DEF IInv
<1>p. \A r \in Releases : build[r] # "absent" => build'[r] # "absent"
  BY RequestedStays
<1>1. ASSUME NEW a \in Actions, TakedownCommits(a) PROVE TombstonedIsBlocked'
  <2> SUFFICES ASSUME NEW r \in Releases, status'[r] = "tombstoned"
               PROVE  build'[r] # "absent" /\ blocked' \cap Below(r) # {}
    BY ContentStays DEF TombstonedIsBlocked, Blocks
  <2>1. CASE r \in takedowns[a].all
    BY <1>1, <1>p, <2>1, AffectedAreBlocked
  <2>2. CASE r \notin takedowns[a].all
    <3>1. status[r] = "tombstoned" /\ blocked \subseteq blocked'
      BY <1>1, <2>2 DEF TakedownCommits
    <3> QED
      BY <1>p, <3>1 DEF TombstonedIsBlocked, Blocks
  <2> QED
    BY <2>1, <2>2
<1>2. CASE ~\E a \in Actions : TakedownCommits(a)
  <2>1. \A r \in Releases : status'[r] = "tombstoned" => status[r] = "tombstoned"
    BY <1>2, OnlyTakedownsTombstone
  <2>2. blocked' = blocked
    BY <1>2, OnlyTakedownsBlock
  <2> QED
    BY <1>p, <2>1, <2>2, ContentStays DEF TombstonedIsBlocked, Blocks
<1> QED
  BY <1>1, <1>2

\* Whatever a takedown removes of a publication blacklists it.
LEMMA TargetedStep ==
    ASSUME IInv, TargetedIsBlocked, [Next]_vars
    PROVE  TargetedIsBlocked'
<1>1. ASSUME NEW a \in Actions, TakedownCommits(a) PROVE TargetedIsBlocked'
  <2> DEFINE t == takedowns[a]
  <2> SUFFICES ASSUME NEW r \in Releases, NEW o \in Documents(r), o \in Targeted'
               PROVE  blocked' \cap Below(r) # {}
    BY ContentStays DEF TargetedIsBlocked, Blocks
  <2>1. CASE o \in Targeted
    BY <1>1, <2>1 DEF TargetedIsBlocked, Blocks, TakedownCommits
  <2>2. CASE o \in t.objects
    <3>1. t \in Known /\ t.subject \in Subjects /\ t.all \subseteq Releases
      BY <1>1, CommitKnows
    <3>2. o # t.subject.digest
      BY <3>1, DocumentsAreApart
    <3>3. PICK x \in t.all : o \in Made(x)
      BY <2>2, <3>1, <3>2 DEF Known
    <3>4. o \in ArtifactRefs(x)
      BY <3>1, <3>3, DocumentsAreApart, NeedsIsClosed DEF Made
    <3>5. Below(r) = Below(x)
      BY <3>1, <3>4, SharedDocument
    <3> QED
      BY <1>1, <3>5, AffectedAreBlocked
  <2> QED
    BY <1>1, <2>1, <2>2, NewlyTargeted
<1>2. CASE ~\E a \in Actions : TakedownCommits(a)
  BY <1>2, OnlyTakedownsBlock, ContentStays DEF TargetedIsBlocked, Blocks
<1> QED
  BY <1>1, <1>2

BlacklistInv == TombstonedIsBlocked /\ TargetedIsBlocked

\* Every tombstoned release, and every one whose artifact a takedown removed, is made
\* of something blacklisted: no later publish request of it passes the check.
THEOREM RemovalsAreBlacklisted == Spec => []BlacklistInv
<1>1. Init => BlacklistInv
  BY DEF Init, BlacklistInv, TombstonedIsBlocked, TargetedIsBlocked, Targeted, Taken, Slots
<1>2. IInv /\ BlacklistInv /\ [Next]_vars => BlacklistInv'
  BY TombstonedStep, TargetedStep DEF BlacklistInv
<1> QED
  BY <1>1, <1>2, InvariantHolds, PTL DEF Spec
-----------------------------------------------------------------------------
(***************************************************************************)
(* The quiet behaviours: nothing is being written while a takedown runs,   *)
(* and no yank undoes one.  A handler past the check of the blacklist is   *)
(* then making something that is still allowed when it commits.            *)
(***************************************************************************)

WritersAreAllowed ==
    \A w \in Builders :
        builders[w].pc \in {"write", "copy"} => ~Blocks(builders[w].release)

LiveDocumentsAreKept ==
    \A r \in Releases : IsLive(r) => Documents(r) \cap Targeted = {}

\* The copies of a finished cascade are gone, and so are those of a handler that
\* has verified them.
RemovedIsGone ==
    /\ \A a \in removed : Taken(a) /\ Gone(jobs[a].data.objects)
    /\ \A s \in Slots : cascades[s] = "commit" => Gone(Target(s).objects)

\* While a takedown runs nothing is published.
NothingIsAdded ==
    \A a \in Actions : Running(a) => \A r \in Releases : Done(r) => r \in takedowns[a].before

QuietInv ==
    /\ Quiet
    /\ NothingIsAdded
    /\ WritersAreAllowed
    /\ NothingLiveIsMadeOfBlocked
    /\ LiveDocumentsAreKept
    /\ RemovedIsGone

\* A quiet step is a step.
LEMMA QuietIsNext == [QuietNext]_vars => [Next]_vars
  BY DEF QuietNext

\* A takedown runs while nobody writes.
LEMMA QuietStep ==
    ASSUME Quiet, [QuietNext]_vars
    PROVE  Quiet'
<1>1. CASE QuietNext
  BY <1>1 DEF QuietNext
<1>2. CASE UNCHANGED vars
  BY <1>2 DEF Quiet, NobodyWrites, vars
<1> QED
  BY <1>1, <1>2

\* A release is published by a handler that writes.
LEMMA PublishedByWriter ==
    ASSUME IInv, [Next]_vars, NEW r \in Releases, ~Done(r), Done(r)'
    PROVE  \E w \in Builders : Commit(w) /\ builders[w].release = r
<1>t. TypeOK
  BY DEF IInv
<1>1. build'[r] = "done" /\ build[r] # "done"
  BY DEF Done
<1>2. ASSUME NEW x \in Releases, Request(x) PROVE FALSE
  BY <1>t, <1>1, <1>2 DEF Request, TypeOK
<1>3. ASSUME NEW w \in Builders, PublisherStep(w) PROVE Commit(w) /\ builders[w].release = r
  <2>1. CASE Commit(w)
    BY <1>t, <1>1, <2>1 DEF Commit, TypeOK
  <2>2. CASE Reject(w)
    BY <1>t, <1>1, <2>2 DEF Reject, TypeOK
  <2>3. CASE ~(Reject(w) \/ Commit(w))
    BY <1>1, <1>3, <2>3 DEF PublisherStep, Load, Check, WriteArtifact, Copy, Abort, rows
  <2> QED
    BY <2>1, <2>2, <2>3
<1> QED
  BY <1>1, <1>2, <1>3, StepKinds, RemovalKeeps, YankKeeps DEF world

\* So nothing is published while it runs.
LEMMA NothingAddedStep ==
    ASSUME IInv, QuietInv, [QuietNext]_vars
    PROVE  NothingIsAdded'
<1>t. [Next]_vars
  BY QuietIsNext
<1> SUFFICES ASSUME NEW a \in Actions, takedowns'[a] # Idle, NEW r \in Releases, Done(r)'
             PROVE  r \in takedowns'[a].before
  BY DEF NothingIsAdded, Running
<1>1. CASE ~Done(r)
  <2>1. PICK w \in Builders : Commit(w) /\ builders[w].release = r
    BY <1>t, <1>1, PublishedByWriter
  <2>2. UNCHANGED takedowns /\ builders[w].pc = "copy"
    BY <2>1 DEF Commit, removal
  <2> QED
    BY <2>2 DEF QuietInv, Quiet, NobodyWrites
<1>2. CASE Done(r)
  <2>1. CASE takedowns'[a] = takedowns[a]
    BY <1>2, <2>1 DEF QuietInv, NothingIsAdded, Running
  <2>2. CASE takedowns'[a] # takedowns[a]
    <3>1. ReadingStep(a)
      BY <1>t, <2>2, OwnStatements
    <3>2. \/ \E s \in Subjects : TakedownBegins(a, s)
          \/ takedowns[a] # Idle /\ takedowns'[a].before = takedowns[a].before
      BY <3>1, ReadingKeepsBefore
    <3>3. ASSUME NEW s \in Subjects, TakedownBegins(a, s) PROVE r \in takedowns'[a].before
      BY <1>2, <3>3 DEF TakedownBegins, TakedownAt, IInv, TypeOK
    <3> QED
      BY <1>2, <3>2, <3>3 DEF QuietInv, NothingIsAdded, Running
  <2> QED
    BY <2>1, <2>2
<1> QED
  BY <1>1, <1>2

\* Who is at "write" or "copy" after a step was there before, or has just passed the
\* check of the blacklist.
LEMMA WritersStep ==
    ASSUME IInv, Quiet, WritersAreAllowed, [QuietNext]_vars
    PROVE  WritersAreAllowed'
<1>t. TypeOK /\ [Next]_vars
  BY QuietIsNext DEF IInv
<1> SUFFICES ASSUME NEW v \in Builders, builders'[v].pc \in {"write", "copy"}
             PROVE  blocked' \cap Below(builders'[v].release) = {}
  <2>1. \A v \in Builders :
           builders'[v].pc \in {"write", "copy"} => builders'[v].release \in Releases
    BY <1>t, TypeStep DEF TypeOK, Idle, Building
  <2> QED
    BY <2>1, ContentStays DEF WritersAreAllowed, Blocks, Below, ContentOf, Own, Needs, PinsClosed
<1>1. ASSUME NEW a \in Actions, TakedownCommits(a) PROVE FALSE
  <2>1. takedowns[a] # Idle /\ UNCHANGED builders
    BY <1>1 DEF TakedownCommits, Idle
  <2> QED
    BY <2>1 DEF Quiet, NobodyWrites
<1>2. blocked' = blocked
  BY <1>1, <1>t, OnlyTakedownsBlock
<1>3. CASE builders[v].pc \in {"write", "copy"} /\ builders'[v].release = builders[v].release
  BY <1>2, <1>3 DEF WritersAreAllowed, Blocks
<1>4. CASE builders'[v] = builders[v]
  BY <1>3, <1>4
<1>5. CASE Check(v)
  <2>1. builders[v] \in Building
    BY <1>t, <1>5, BuildingType DEF Check
  <2>2. builders[v].closure = Needs(builders[v].release)
    BY <1>5 DEF Check, IInv, ClosuresAreComplete, Handling
  <2>3. CASE BuilderAt(v, "reject", builders[v].release, {}, {})
    BY <1>t, <2>3 DEF BuilderAt, TypeOK
  <2>4. CASE blocked \cap ContentOf(builders[v].closure \cup {builders[v].release}) = {}
             /\ BuilderAt(v, "write", builders[v].release, builders[v].closure, {})
    <3>1. builders'[v].release = builders[v].release
      BY <1>t, <2>4 DEF BuilderAt, TypeOK
    <3> QED
      BY <1>2, <2>2, <2>4, <3>1 DEF Below
  <2> QED
    BY <1>5, <2>3, <2>4 DEF Check
<1>6. CASE WriteArtifact(v)
  <2>1. builders'[v].release = builders[v].release /\ builders[v].pc = "write"
    BY <1>t, <1>6 DEF WriteArtifact, BuilderAt, TypeOK
  <2> QED
    BY <1>3, <2>1
<1>7. ASSUME NEW o \in Objects, Copy(v, o)
      PROVE  builders[v].pc \in {"write", "copy"} /\ builders'[v].release = builders[v].release
  <2>1. builders[v] \in Building
    BY <1>t, <1>7, BuildingType DEF Copy
  <2>2. builders'[v] = [builders[v] EXCEPT !.todo = @ \ {o}]
    BY <1>t, <1>7 DEF Copy, TypeOK
  <2> QED
    BY <1>7, <2>1, <2>2 DEF Copy, Building
<1>8. CASE Reject(v) \/ Commit(v) \/ Abort(v) \/ \E x \in Releases : Load(v, x)
  <2>1. builders'[v].pc \notin {"write", "copy"}
    BY <1>t, <1>8 DEF Reject, Commit, Abort, Load, BuilderAt, TypeOK, Idle
  <2> QED
    BY <2>1
<1>9. ASSUME NEW w \in Builders, PublisherStep(w), w # v PROVE builders'[v] = builders[v]
  BY <1>t, <1>9 DEF PublisherStep, Load, Check, Reject, WriteArtifact, Copy, Commit, Abort,
                   BuilderAt, TypeOK
<1>10. CASE PublisherStep(v)
  BY <1>3, <1>5, <1>6, <1>7, <1>8, <1>10 DEF PublisherStep
<1>11. CASE UNCHANGED builders
  BY <1>4, <1>11
<1> QED
  BY <1>t, <1>4, <1>9, <1>10, <1>11, StepKinds, RemovalKeeps, YankKeeps DEF Request, world

\* A release that is live after a quiet step was live before, or a writer has just
\* committed it.
LEMMA LiveBefore ==
    ASSUME IInv, [QuietNext]_vars, NEW r \in Releases, IsLive(r)'
    PROVE  \/ IsLive(r)
           \/ /\ ~\E a \in Actions : TakedownCommits(a)
              /\ status[r] # "tombstoned"
              /\ \E w \in Builders : builders[w].pc = "copy" /\ builders[w].release = r
<1>t. TypeOK /\ [Next]_vars
  BY QuietIsNext DEF IInv
<1>1. status[r] # "tombstoned"
  <2> SUFFICES ASSUME status[r] = "tombstoned" PROVE FALSE
    OBVIOUS
  <2>1. ASSUME NEW a \in Actions, TakedownCommits(a) PROVE FALSE
    BY <2>1 DEF TakedownCommits, IsLive
  <2>2. RemovalStep => UNCHANGED status
    BY <2>1 DEF RemovalStep, Redeliver, CascadeStep, CascadeFetched, Delete, Verify,
                Removed, CascadeDies, RetryFailed, rows
  <2>3. ASSUME NEW y \in Yankers, YankWrite(y) PROVE FALSE
    <3>1. status' # status
      BY <1>t, <2>3 DEF IsLive
    <3>2. status[yankers[y].release] # "tombstoned"
      BY <2>3, <3>1 DEF QuietNext, vars
    <3>3. status'[r] = status[r]
      BY <1>t, <2>3, <3>2 DEF YankWrite, TypeOK
    <3> QED
      BY <3>3 DEF IsLive
  <2>4. YankStep => UNCHANGED status
    BY <2>3 DEF YankStep, YankRead, rows
  <2> QED
    BY <1>t, <2>2, <2>4, StepKinds, RequestKeeps, PublisherKeeps DEF IsLive, world
<1>2. CASE Done(r)
  BY <1>1, <1>2 DEF IsLive
<1>3. CASE ~Done(r)
  <2>1. PICK w \in Builders : Commit(w) /\ builders[w].release = r
    BY <1>t, <1>3, PublishedByWriter DEF IsLive
  <2>2. builders[w].pc = "copy"
    BY <2>1 DEF Commit
  <2>3. ASSUME NEW a \in Actions, TakedownCommits(a) PROVE FALSE
    BY <1>3, <2>3 DEF TakedownCommits, IsLive, Done
  <2> QED
    BY <1>1, <2>1, <2>2, <2>3
<1> QED
  BY <1>2, <1>3

\* Nothing live is made of what is tombstoned or blacklisted after a quiet step.
LEMMA NothingLiveStep ==
    ASSUME IInv, BlacklistInv, QuietInv, [QuietNext]_vars
    PROVE  NothingLiveIsMadeOfBlocked'
<1>t. [Next]_vars
  BY QuietIsNext
<1> SUFFICES ASSUME NEW r \in Releases, IsLive(r)'
             PROVE  /\ \A d \in Needs(r) : status'[d] # "tombstoned"
                    /\ \A x \in Needs(r) \cup {r} : blocked' \cap Own(x) = {}
  BY DEF NothingLiveIsMadeOfBlocked, Needs, PinsClosed, Own
<1>1. ASSUME NEW a \in Actions, TakedownCommits(a)
      PROVE  /\ \A d \in Needs(r) : status'[d] # "tombstoned"
             /\ \A x \in Needs(r) \cup {r} : blocked' \cap Own(x) = {}
  <2> DEFINE t == takedowns[a]
  <2>0. t \in Known /\ t \in TakingDown /\ t.subject \in Subjects /\ t.pc = "write"
    BY <1>1, CommitKnows
  <2>1. IsLive(r) /\ Done(r) /\ r \notin t.all
    <3>1. IsLive(r) /\ Done(r)
      BY <1>1, LiveBefore DEF IsLive
    <3>2. r \notin t.all
      BY <1>1 DEF TakedownCommits, IsLive
    <3> QED
      BY <3>1, <3>2
  <2>2. ~Contains(r, t.subject)
    <3>1. r \in t.before
      BY <1>1, <2>1 DEF QuietInv, NothingIsAdded, Running, TakedownCommits, Idle
    <3> QED
      BY <2>0, <2>1, <3>1 DEF Known
  <2>3. ASSUME NEW d \in Needs(r) PROVE status'[d] # "tombstoned"
    <3>1. d \notin t.all
      BY <2>0, <2>2, KnownContains, ContainsGrows
    <3>2. d \in Releases /\ status[d] # "tombstoned"
      BY <2>1, NeedsIsClosed DEF QuietInv, NothingLiveIsMadeOfBlocked
    <3> QED
      BY <1>1, <3>1, <3>2 DEF TakedownCommits
  <2>4. ASSUME NEW x \in Needs(r) \cup {r} PROVE blocked' \cap Own(x) = {}
    <3>1. x \in Releases /\ t.direct \subseteq Releases
      BY <2>0, NeedsIsClosed DEF TakingDown
    <3>2. blocked \cap Own(x) = {}
      BY <2>1 DEF QuietInv, NothingLiveIsMadeOfBlocked
    <3>3. Blacklisted(t) \cap Own(x) = {}
      <4>1. CASE t.subject.digest # None
        BY <2>2, <4>1 DEF Blacklisted, Contains
      <4>2. CASE t.subject.digest = None
        BY <3>1, <4>2, DocumentsAreApart DEF Blacklisted
      <4> QED
        BY <4>1, <4>2
    <3> QED
      BY <1>1, <3>2, <3>3 DEF TakedownCommits
  <2> QED
    BY <2>3, <2>4
<1>2. CASE ~\E a \in Actions : TakedownCommits(a)
  <2>1. blocked' = blocked
    BY <1>2, <1>t, OnlyTakedownsBlock
  <2>2. \A d \in Needs(r) : status'[d] = "tombstoned" => status[d] = "tombstoned"
    BY <1>2, <1>t, OnlyTakedownsTombstone, NeedsIsClosed
  <2>3. CASE IsLive(r)
    BY <2>1, <2>2, <2>3 DEF QuietInv, NothingLiveIsMadeOfBlocked
  <2>4. CASE ~IsLive(r)
    <3>1. blocked \cap Below(r) = {}
      BY <2>4, LiveBefore DEF QuietInv, WritersAreAllowed, Blocks
    <3>2. \A x \in Needs(r) \cup {r} : x \in Releases /\ Below(x) \subseteq Below(r)
                                       /\ Own(x) \subseteq Below(r)
      BY BelowGrows
    <3>3. \A d \in Needs(r) : status[d] # "tombstoned"
      BY <3>1, <3>2 DEF BlacklistInv, TombstonedIsBlocked, Blocks
    <3> QED
      BY <2>1, <2>2, <3>1, <3>2, <3>3
  <2> QED
    BY <2>3, <2>4
<1> QED
  BY <1>1, <1>2

\* No takedown has named a document of a live release, after a quiet step.
LEMMA LiveDocumentsStep ==
    ASSUME IInv, BlacklistInv, QuietInv, [QuietNext]_vars
    PROVE  LiveDocumentsAreKept'
<1>t. [Next]_vars
  BY QuietIsNext
<1> SUFFICES ASSUME NEW r \in Releases, IsLive(r)'
             PROVE  Documents(r) \cap Targeted' = {}
  BY ContentStays DEF LiveDocumentsAreKept
<1>1. ASSUME NEW a \in Actions, TakedownCommits(a)
      PROVE  Documents(r) \cap Targeted' = {}
  <2> DEFINE t == takedowns[a]
  <2>0. t \in Known /\ t.subject \in Subjects /\ t.pc = "write"
    BY <1>1, CommitKnows
  <2>1. IsLive(r) /\ Done(r)
    BY <1>1, LiveBefore DEF IsLive
  <2>2. r \in t.before \ t.all
    <3>1. r \notin t.all
      BY <1>1 DEF TakedownCommits, IsLive
    <3>2. r \in t.before
      BY <1>1, <2>1 DEF QuietInv, NothingIsAdded, Running, TakedownCommits, Idle
    <3> QED
      BY <3>1, <3>2
  <2>3. Documents(r) \subseteq Made(r)
    BY DocumentsAreApart DEF Made
  <2>4. Documents(r) \cap t.objects = {}
    BY <2>0, <2>2, <2>3, DocumentsAreApart DEF Known
  <2>5. Documents(r) \cap Targeted = {}
    BY <2>1 DEF QuietInv, LiveDocumentsAreKept
  <2> QED
    BY <1>1, <2>4, <2>5, NewlyTargeted
<1>2. CASE ~\E a \in Actions : TakedownCommits(a)
  <2>1. Targeted' = Targeted
    BY <1>2, <1>t, OnlyTakedownsBlock
  <2>2. CASE ~IsLive(r)
    <3>1. ~Blocks(r)
      BY <2>2, LiveBefore DEF QuietInv, WritersAreAllowed
    <3> QED
      BY <2>1, <3>1 DEF BlacklistInv, TargetedIsBlocked
  <2> QED
    BY <2>1, <2>2 DEF QuietInv, LiveDocumentsAreKept
<1> QED
  BY <1>1, <1>2

\* A handler works on the payload it started with.
LEMMA TargetStays ==
    ASSUME IInv, [Next]_vars, NEW s \in Slots, cascades[s] # "idle"
    PROVE  Target(s)' = Target(s)
<1>t. jobs \in [Slots -> Job(Targets \cup {None})] /\ jobs[s].st = "active"
  BY DEF IInv, TypeOK, HandlersRunJobs
<1>1. ASSUME NEW a \in Actions, TakedownCommits(a) PROVE jobs'[s] = jobs[s]
  <2>1. a # s
    BY <1>t, <1>1 DEF TakedownCommits, IInv, JobsCarryTheirTakedown
  <2> QED
    BY <1>t, <1>1, <2>1 DEF TakedownCommits
<1>2. ASSUME NEW a \in Actions, Redeliver(a) PROVE jobs'[s] = jobs[s]
  BY <1>t, <1>2 DEF Redeliver, Enqueue, Live
<1>3. RemovalStep => jobs'[s].data = jobs[s].data
  BY <1>1, <1>2, CascadeKeepsData DEF RemovalStep
<1>4. jobs'[s].data = jobs[s].data
  BY <1>3, StepKinds, RequestKeeps, PublisherKeeps, YankKeeps DEF world
<1> QED
  BY <1>4 DEF Target

\* The objects of a running cascade are those its takedown named.
LEMMA TargetIsTargeted ==
    ASSUME IInv, NEW s \in Slots, cascades[s] # "idle"
    PROVE  /\ Target(s).action \in Actions /\ Taken(Target(s).action)
           /\ jobs[Target(s).action].data = Target(s)
           /\ Target(s).objects \subseteq Targeted
<1>1. Target(s) \in Targets /\ Target(s).action \in Actions
  BY TargetType
<1>2. jobs[Target(s).action].data = Target(s) /\ Taken(Target(s).action)
  BY <1>1, DistinctAssumption DEF IInv, JobsCarryTheirTakedown, Target, Taken
<1> QED
  BY <1>1, <1>2 DEF Targeted

\* An object that is gone and was named by a takedown is not written again: a handler
\* that would write it as its own artifact has been stopped, and no copy is left.
LEMMA GoneStays ==
    ASSUME IInv, BlacklistInv, WritersAreAllowed, [Next]_vars,
           NEW o \in Targeted, stored[o] = {}
    PROVE  stored'[o] = {}
<1>t. TypeOK
  BY DEF IInv
<1>o. o \in Objects
  BY DEF Targeted, Taken, IInv, JobsCarryTheirTakedown, Targets, Slots
<1>1. CASE stored'[o] = stored[o]
  BY <1>1
<1>2. ASSUME NEW w \in Builders, PublisherStep(w) PROVE stored'[o] = stored[o]
  <2>1. CASE WriteArtifact(w)
    <3>1. builders[w].release \in Releases /\ builders[w].pc = "write"
      BY <1>t, <2>1, BuildingType DEF WriteArtifact, Building
    <3>2. o \notin Documents(builders[w].release)
      BY <3>1 DEF WritersAreAllowed, BlacklistInv, TargetedIsBlocked
    <3>3. o # Artifact[builders[w].release]
      BY <3>2 DEF Documents
    <3> QED
      BY <1>t, <1>o, <2>1, <3>3 DEF WriteArtifact, Put, TypeOK
  <2>2. ASSUME NEW x \in Objects, Copy(w, x) PROVE stored'[o] = stored[o]
    BY <1>t, <1>o, <2>2 DEF Copy, Put, TypeOK
  <2>3. CASE ~WriteArtifact(w) /\ ~\E x \in Objects : Copy(w, x)
    BY <1>2, <2>3 DEF PublisherStep, Load, Check, Reject, Commit, Abort, objects
  <2> QED
    BY <2>1, <2>2, <2>3
<1>3. ASSUME NEW s \in Slots, Delete(s) PROVE stored'[o] = {}
  BY <1>o, <1>3 DEF Delete, Kept
<1>4. CASE RemovalStep /\ ~\E s \in Slots : Delete(s)
  <2>1. UNCHANGED stored
    BY <1>4 DEF RemovalStep, TakedownCommits, Redeliver, CascadeStep, CascadeFetched, Verify,
               Removed, CascadeDies, RetryFailed, objects
  <2> QED
    BY <1>1, <2>1
<1> QED
  BY <1>1, <1>2, <1>3, <1>4, StepKinds, RequestKeeps, YankKeeps DEF world

\* What was removed stays removed.
LEMMA RemovedStep ==
    ASSUME IInv, BlacklistInv, QuietInv, [Next]_vars
    PROVE  RemovedIsGone'
<1>t. TypeOK /\ PayloadsStay
  BY QueueStep DEF IInv
<1>g. \A O \in SUBSET Targeted : Gone(O) => \A o \in O : stored'[o] = {}
  BY GoneStays DEF QuietInv, Gone
<1>1. ASSUME NEW a \in removed
      PROVE  a \in Actions /\ Taken(a)' /\ \A o \in jobs'[a].data.objects : stored'[o] = {}
  <2>1. a \in Actions /\ Taken(a) /\ Gone(jobs[a].data.objects)
    BY <1>t DEF TypeOK, QuietInv, RemovedIsGone
  <2>2. jobs'[a].data = jobs[a].data
    BY <1>t, <2>1 DEF PayloadsStay, Taken
  <2>3. jobs[a].data.objects \in SUBSET Targeted
    BY <2>1 DEF Targeted
  <2> QED
    BY <1>g, <2>1, <2>2, <2>3 DEF Taken
<1>2. ASSUME NEW a \in removed', a \notin removed
      PROVE  Taken(a)' /\ \A o \in jobs'[a].data.objects : stored'[o] = {}
  <2>1. PICK s \in Slots : Removed(s)
    <3>1. (\E s \in Slots : Removed(s)) \/ ~RemovalStep
      BY <1>2 DEF RemovalStep, TakedownCommits, Redeliver, CascadeStep, CascadeFetched, Delete,
                  Verify, CascadeDies, RetryFailed
    <3> QED
      BY <1>2, <3>1, StepKinds, RequestKeeps, PublisherKeeps, YankKeeps DEF world
  <2>2. a = Target(s).action /\ cascades[s] = "commit" /\ UNCHANGED stored
    BY <1>2, <2>1 DEF Removed
  <2>3. a \in Actions /\ Taken(a) /\ jobs[a].data = Target(s)
    BY <2>2, TargetIsTargeted
  <2>4. jobs'[a].data = jobs[a].data
    BY <1>t, <2>3 DEF PayloadsStay, Taken
  <2>5. Gone(Target(s).objects)
    BY <2>2 DEF QuietInv, RemovedIsGone
  <2> QED
    BY <2>2, <2>3, <2>4, <2>5 DEF Taken, Gone
<1>3. ASSUME NEW s \in Slots, cascades'[s] = "commit"
      PROVE  \A o \in Target(s)'.objects : stored'[o] = {}
  <2>1. CASE cascades[s] = "commit"
    <3>1. Target(s)' = Target(s) /\ Target(s).objects \subseteq Targeted
      BY <2>1, TargetStays, TargetIsTargeted
    <3> QED
      BY <1>g, <2>1, <3>1 DEF QuietInv, RemovedIsGone
  <2>2. CASE cascades[s] # "commit"
    <3>1. Delete(s) \/ Verify(s)
      <4>1. ASSUME NEW x \in Slots, CascadeStep(x) \/ CascadeDies(x) \/ RetryFailed(x)
            PROVE  Delete(s) \/ Verify(s)
        BY <1>t, <1>3, <2>2, <4>1
        DEF CascadeStep, CascadeFetched, Delete, Verify, Removed, CascadeDies, RetryFailed,
            AttemptFails, CascadeAt, TypeOK
      <4>2. RemovalStep => Delete(s) \/ Verify(s)
        BY <1>3, <2>2, <4>1 DEF RemovalStep, TakedownCommits, Redeliver
      <4> QED
        BY <1>3, <2>2, <4>2, StepKinds, RequestKeeps, PublisherKeeps, YankKeeps DEF world
    <3>2. cascades[s] # "idle"
      BY <3>1 DEF Delete, Verify
    <3>3. Target(s)' = Target(s)
      BY <3>2, TargetStays
    <3>4. stored' = stored
      BY <1>t, <1>3, <3>1 DEF Delete, Verify, CascadeAt, TypeOK, objects
    <3>5. Gone(Target(s).objects)
      <4>1. CASE Delete(s)
        <5>1. Target(s).action \in removed
          BY <1>t, <1>3, <4>1 DEF Delete, CascadeAt, TypeOK
        <5> QED
          BY <3>2, <5>1, TargetIsTargeted DEF QuietInv, RemovedIsGone
      <4>2. CASE Verify(s)
        BY <1>t, <1>3, <4>2 DEF Verify, AttemptFails, CascadeAt, TypeOK
      <4> QED
        BY <3>1, <4>1, <4>2
    <3> QED
      BY <3>3, <3>4, <3>5 DEF Gone
  <2> QED
    BY <2>1, <2>2
<1> QED
  BY <1>1, <1>2, <1>3 DEF RemovedIsGone, Gone

\* The invariants of the quiet behaviours.
THEOREM QuietInvariantHolds == QuietSpec => [](IInv /\ BlacklistInv /\ QuietInv)
<1>1. QuietSpec => [](IInv /\ BlacklistInv)
  <2>1. QuietSpec => Spec
    BY QuietIsNext, PTL DEF QuietSpec, Spec
  <2> QED
    BY <2>1, InvariantHolds, RemovalsAreBlacklisted, PTL
<1>2. Init => QuietInv
  <2>1. ASSUME Init PROVE \A r \in Releases : ~Done(r)
    BY <2>1 DEF Init, Done
  <2>2. ASSUME Init PROVE \A w \in Builders : builders[w].pc = "idle"
    BY <2>2 DEF Init, Idle
  <2>3. ASSUME Init PROVE \A a \in Actions : takedowns[a] = Idle
    BY <2>3 DEF Init
  <2> QED
    BY <2>1, <2>2, <2>3
    DEF Init, QuietInv, Quiet, NothingIsAdded, Running, WritersAreAllowed,
        NothingLiveIsMadeOfBlocked, LiveDocumentsAreKept, RemovedIsGone, IsLive
<1>3. IInv /\ BlacklistInv /\ QuietInv /\ [QuietNext]_vars => QuietInv'
  BY QuietIsNext, QuietStep, NothingAddedStep, WritersStep, NothingLiveStep,
     LiveDocumentsStep, RemovedStep DEF QuietInv
<1> QED
  BY <1>1, <1>2, <1>3, PTL DEF QuietSpec

\* In a quiet behaviour nothing live is made of anything tombstoned or taken down.
THEOREM NothingLiveIsBlocked == QuietSpec => []NothingLiveIsMadeOfBlocked
<1>1. QuietInv => NothingLiveIsMadeOfBlocked
  BY DEF QuietInv
<1> QED
  BY <1>1, QuietInvariantHolds, PTL

\* In a quiet behaviour the documents of a live release are where its readers look.
THEOREM LiveReleasesStayWhole == QuietSpec => []LiveReleasesAreWhole
<1>1. IInv /\ QuietInv => LiveReleasesAreWhole
  <2> SUFFICES ASSUME IInv, QuietInv, NEW r \in Releases, IsLive(r), NEW o \in Documents(r)
               PROVE  Bucket(r) \in stored[o]
    BY DEF LiveReleasesAreWhole, Documents
  <2>1. o \in Refs(r) /\ Done(r)
    BY DocumentsAreApart DEF Refs, IsLive
  <2>2. o \notin Targeted
    BY DEF QuietInv, LiveDocumentsAreKept
  <2> QED
    BY <2>1, <2>2 DEF IInv, ObjectsAreInPlace, Served
<1> QED
  BY <1>1, QuietInvariantHolds, PTL

\* In a quiet behaviour the copies a cascade has removed stay gone.
THEOREM RemovedStaysGone == QuietSpec => []RemovedCopiesStayGone
<1>1. QuietInv => RemovedCopiesStayGone
  BY DEF QuietInv, RemovedIsGone, RemovedCopiesStayGone
<1> QED
  BY <1>1, QuietInvariantHolds, PTL
=============================================================================
