--------------------------- MODULE ImportsProofs ---------------------------
(***************************************************************************)
(* Theorems about Uploads and Imports, for any uploads, contents, imports  *)
(* and any number of workers, clients, staff, rescans and faults.          *)
(***************************************************************************)
EXTENDS Imports, JobQueueProofs
-----------------------------------------------------------------------------
(* Types. *)

ActorStates == {Idle} \cup Handling \cup Rescanning \cup Disposing \cup Importing

\* Where an actor is tells what its record holds.
LEMMA ByPc ==
    ASSUME NEW s \in ActorStates
    PROVE  /\ s.pc = "idle" => s = Idle
           /\ s.pc \in {"complete", "load", "reject", "store", "commit", "discard", "hit",
                        "delete", "expire"} <=> s \in Handling
           /\ s.pc = "clean" <=> s \in Rescanning
           /\ s.pc \in {"evidence", "record", "remove"} <=> s \in Disposing
           /\ s.pc \in {"open", "parse", "keep", "import", "fail", "drop"} <=> s \in Importing
           /\ s \in Handling \cup Rescanning \cup Disposing \cup Importing => s.pc # "idle"
  BY DEF ActorStates, Idle, Handling, Rescanning, Disposing, Importing

\* A record keeps its type when its handler goes to another place of the same kind.
LEMMA MoveType ==
    ASSUME NEW s \in ActorStates, NEW pc
    PROVE  /\ s \in Handling /\ pc \in {"complete", "load", "reject", "store", "commit",
                                         "discard", "hit", "delete", "expire"}
                 => /\ [s EXCEPT !.pc = pc] \in Handling
                    /\ [s EXCEPT !.pc = pc].pc = pc
                    /\ [s EXCEPT !.pc = pc].upload = s.upload
           /\ s \in Disposing /\ pc \in {"record", "remove"}
                 => /\ [s EXCEPT !.pc = pc] \in Disposing
                    /\ [s EXCEPT !.pc = pc].pc = pc
                    /\ [s EXCEPT !.pc = pc].upload = s.upload
                    /\ [s EXCEPT !.pc = pc].todo = s.todo
                    /\ [s EXCEPT !.pc = pc].task = s.task
           /\ s \in Importing /\ pc \in {"open", "parse", "keep", "import", "fail", "drop"}
                 => /\ [s EXCEPT !.pc = pc] \in Importing
                    /\ [s EXCEPT !.pc = pc].pc = pc
                    /\ [s EXCEPT !.pc = pc].import = s.import
                    /\ [s EXCEPT !.pc = pc].seen = s.seen
                    /\ [s EXCEPT !.pc = pc].bytes = s.bytes
  BY DEF Handling, Disposing, Importing

\* An actor goes to a state, and the others stay where they are.
LEMMA GoToIs ==
    ASSUME TypeOK, NEW a \in Actors, NEW s, GoTo(a, s)
    PROVE  /\ actors'[a] = s
           /\ \A b \in Actors \ {a} : actors'[b] = actors[b]
           /\ s \in ActorStates => actors' \in [Actors -> ActorStates]
  BY DEF TypeOK, GoTo, ActorStates

\* The handler's job is completed or has failed, and the handler is idle.
LEMMA ReturnIs ==
    ASSUME TypeOK, NEW a \in Actors, Finish(a) \/ Throw(a)
    PROVE  /\ actors'[a] = Idle
           /\ \A b \in Actors \ {a} : actors'[b] = actors[b]
           /\ actors' \in [Actors -> ActorStates]
           /\ jobs' \in [Jobs -> Job(Jobs)]
<1>1. GoTo(a, Idle) /\ Idle \in ActorStates
  BY DEF Finish, Throw, ActorStates
<1>2. ASSUME NEW j \in Jobs
      PROVE  jobs[j] \in Job(Jobs) /\ Complete(jobs[j]) \in Job(Jobs) /\ Fail(jobs[j]) \in Job(Jobs)
  BY <1>2, SettleType, FailType DEF TypeOK, UploadsTypeOK
<1>3. jobs' \in [Jobs -> Job(Jobs)]
  BY <1>2 DEF Finish, Throw, EndJob
<1> QED
  BY <1>1, <1>3, GoToIs

-----------------------------------------------------------------------------
(* The steps, by what they are part of. *)

UploaderStep ==
    \/ \E u \in Uploads, k \in Kinds : Create(u, k)
    \/ \E u \in Uploads, bytes \in {"declared", "other"} : PutOriginal(u, bytes)
    \/ \E u \in Uploads : UrlExpires(u) \/ TtlPasses(u)
    \/ \E j \in Jobs : Redeliver(j)

AuthorStep ==
    \/ \E n \in Names : TakeName(n)
    \/ \E i \in Imports, u \in Uploads : CreateImport(i, u)

\* A handler of the upload pipeline.
PipelineStep(a) ==
    \/ \E u \in Uploads : CompleteRead(a, u)
    \/ CompleteWrite(a)
    \/ \E u \in Uploads : ProcessStart(a, u)
    \/ ProcessSteps(a)
    \/ a = Sweeper /\ (SweepDelete \/ SweepMark \/ \E u \in Uploads : SweepRead(u))

\* A disposal or a rescan.
DisposalStep(a) ==
    \/ \E d \in Digests : DisposeBlob(a, d) \/ RescanClear(a, d)
    \/ RescanWrites(a)
    \/ DisposeSteps(a)

ImportStep(a) ==
    \/ \E i \in Imports : ImportStart(a, i)
    \/ ImportHandler(a) \/ ImportThrows(a)

FaultStep(a) == Die(a) \/ (a \in Workers /\ Outlive(a))

LEMMA StepKinds ==
    ASSUME [Next]_vars
    PROVE  \/ UploaderStep /\ UNCHANGED importVars /\ Noted
           \/ AuthorStep /\ Noted
           \/ \E a \in Actors : /\ Noted
                                /\ \/ ImportStep(a)
                                   \/ /\ PipelineStep(a) \/ DisposalStep(a) \/ FaultStep(a)
                                      /\ UNCHANGED importVars
           \/ UNCHANGED vars
<1>a. /\ Workers \subseteq Actors /\ Clients \subseteq Actors /\ Sweeper \in Actors
      /\ Staff \subseteq Actors /\ Rescans \subseteq Actors
  BY DEF Actors
<1>1. ASSUME UploadsNext
      PROVE  UploaderStep \/ \E a \in Actors : PipelineStep(a) \/ DisposalStep(a) \/ FaultStep(a)
  <2>1. ASSUME NEW a \in Actors, UploadHandler(a) PROVE PipelineStep(a) \/ DisposalStep(a)
    BY <2>1 DEF UploadHandler, PipelineStep, DisposalStep
  <2>2. ASSUME NEW a \in Staff \cup Rescans, NEW d \in Digests, DisposeBlob(a, d)
        PROVE  a \in Actors /\ DisposalStep(a)
    BY <2>2, <1>a DEF DisposalStep
  <2>3. ASSUME NEW a \in Rescans, NEW d \in Digests, RescanClear(a, d)
        PROVE  a \in Actors /\ DisposalStep(a)
    BY <2>3, <1>a DEF DisposalStep
  <2>4. ASSUME NEW a \in Workers, Outlive(a) PROVE a \in Actors /\ FaultStep(a)
    BY <2>4, <1>a DEF FaultStep
  <2>5. ASSUME NEW c \in Clients, NEW u \in Uploads, CompleteRead(c, u)
        PROVE  c \in Actors /\ PipelineStep(c)
    BY <2>5, <1>a DEF PipelineStep
  <2>6. ASSUME NEW w \in Workers, NEW u \in Uploads, ProcessStart(w, u)
        PROVE  w \in Actors /\ PipelineStep(w)
    BY <2>6, <1>a DEF PipelineStep
  <2>7. ASSUME NEW u \in Uploads, SweepRead(u) PROVE Sweeper \in Actors /\ PipelineStep(Sweeper)
    BY <2>7, <1>a DEF PipelineStep
  <2>8. ASSUME NEW a \in Actors, Die(a) PROVE FaultStep(a)
    BY <2>8 DEF FaultStep
  <2> QED
    BY <1>1, <2>1, <2>2, <2>3, <2>4, <2>5, <2>6, <2>7, <2>8 DEF UploadsNext, UploaderStep
<1>2. ASSUME ImportNext PROVE AuthorStep \/ \E a \in Actors : ImportStep(a)
  <2>1. ASSUME NEW w \in Workers, NEW i \in Imports, ImportStart(w, i)
        PROVE  w \in Actors /\ ImportStep(w)
    BY <2>1, <1>a DEF ImportStep
  <2>2. ASSUME NEW w \in Workers, ImportHandler(w) \/ ImportThrows(w)
        PROVE  w \in Actors /\ ImportStep(w)
    BY <2>2, <1>a DEF ImportStep
  <2> QED
    BY <1>2, <2>1, <2>2 DEF ImportNext, AuthorStep
<1>3. CASE Next
  BY <1>1, <1>2, <1>3 DEF Next
<1> QED
  BY <1>3
-----------------------------------------------------------------------------
(* Type correctness. *)

\* What a step must type: every variable.
TypesAfter ==
    /\ status' \in [Uploads -> UploadStatuses]
    /\ kind' \in [Uploads -> {"image", "text", "card"}]
    /\ url' \subseteq Uploads /\ late' \subseteq Uploads
    /\ staged' \in [Uploads -> {"none", "declared", "other"}]
    /\ result' \in [Uploads -> SUBSET Digests]
    /\ meta' \in [Digests -> ScanStatuses]
    /\ stored' \subseteq Storable /\ blocked' \subseteq Digests
    /\ banned' \in BOOLEAN
    /\ jobs' \in [Jobs -> Job(Jobs)]
    /\ faults' \in 0..MaxFaults
    /\ actors' \in [Actors -> ActorStates]

LEMMA TypesNow ==
    ASSUME TypeOK
    PROVE  /\ \A u \in Uploads : Original(u) \in Storable /\ Image(u) \in Storable /\ Blob(u) \in Storable
           /\ \A u \in Uploads : Raw(u) \in Digests
           /\ Storable \subseteq Digests
           /\ Uploads \subseteq Jobs /\ Imports \subseteq Jobs
           /\ actors \in [Actors -> ActorStates]
           /\ \A j \in Jobs : jobs[j] \in Job(Jobs)
<1>1. /\ \A u \in Uploads : Original(u) \in Storable /\ Image(u) \in Storable /\ Raw(u) \in Digests
      /\ Storable \subseteq Digests
  BY UploadsAssumption DEF Original, Image, Raw, Digests, Storable
<1> QED
  BY <1>1, UploadsAssumption, ImportsAssumption DEF Blob, TypeOK, UploadsTypeOK, ActorStates

\* The uploader's requests, the clock and the job panel.
LEMMA UploaderTypes ==
    ASSUME TypeOK, UploaderStep
    PROVE  TypesAfter
<1>t. TypeOK /\ actors \in [Actors -> ActorStates]
  BY TypesNow
<1>1. ASSUME NEW u \in Uploads, NEW k \in Kinds, Create(u, k) PROVE TypesAfter
  BY <1>t, <1>1, UploadsAssumption DEF Create, TypeOK, UploadsTypeOK, TypesAfter, UploadStatuses, moderation
<1>2. ASSUME NEW u \in Uploads, NEW bytes \in {"declared", "other"}, PutOriginal(u, bytes)
      PROVE  TypesAfter
  BY <1>t, <1>2 DEF PutOriginal, TypeOK, UploadsTypeOK, TypesAfter, rows, clock, moderation
<1>3. ASSUME NEW u \in Uploads, UrlExpires(u) \/ TtlPasses(u) PROVE TypesAfter
  BY <1>t, <1>3 DEF UrlExpires, TtlPasses, TypeOK, UploadsTypeOK, TypesAfter, rows, moderation
<1>4. ASSUME NEW j \in Jobs, Redeliver(j) PROVE TypesAfter
  <2>1. Revive(jobs[j]) \in Job(Jobs)
    BY <1>t, SettleType DEF TypeOK, UploadsTypeOK
  <2> QED
    BY <1>t, <1>4, <2>1 DEF Redeliver, TypeOK, UploadsTypeOK, TypesAfter, rows, clock, moderation
<1> QED
  BY <1>1, <1>2, <1>3, <1>4 DEF UploaderStep

\* The handlers of the upload pipeline.
LEMMA PipelineTypes ==
    ASSUME TypeOK, NEW a \in Actors, PipelineStep(a)
    PROVE  TypesAfter
<1>t. TypeOK /\ UploadsTypeOK /\ actors \in [Actors -> ActorStates]
  BY TypesNow DEF TypeOK
<1>s. actors[a] \in ActorStates
  BY <1>t
<1>d. /\ \A u \in Uploads : Original(u) \in Storable /\ Image(u) \in Storable /\ Blob(u) \in Storable
      /\ Storable \subseteq Digests
      /\ Uploads \subseteq Jobs /\ \A j \in Jobs : jobs[j] \in Job(Jobs)
  BY TypesNow
<1>h. actors[a] \in Handling => actors[a].upload \in Uploads
  BY DEF Handling
<1>n. ASSUME NEW u \in Uploads, NEW pc \in {"complete", "load", "delete"}, NEW j \in Held,
             GoTo(a, [pc |-> pc, upload |-> u, job |-> j, scan |-> "none"])
      PROVE  actors' \in [Actors -> ActorStates]
  <2>1. [pc |-> pc, upload |-> u, job |-> j, scan |-> "none"] \in Handling
    BY DEF Handling
  <2> QED
    BY <1>n, <2>1, GoToIs DEF ActorStates
<1>m. ASSUME actors[a] \in Handling, NEW pc \in {"reject", "store", "commit", "discard", "hit", "expire"},
             Step(a, pc)
      PROVE  actors' \in [Actors -> ActorStates]
  <2>1. [actors[a] EXCEPT !.pc = pc] \in Handling
    BY <1>m, <1>s, MoveType
  <2> QED
    BY <1>m, <2>1, GoToIs DEF Step, ActorStates
<1>1. ASSUME NEW u \in Uploads, CompleteRead(a, u) \/ ProcessStart(a, u) \/ (a = Sweeper /\ SweepRead(u))
      PROVE  TypesAfter
  <2>1. CASE CompleteRead(a, u)
    BY <1>t, <1>n, <2>1 DEF CompleteRead, UploadsTypeOK, TypesAfter, Held, rows, clock, moderation
  <2>2. CASE ProcessStart(a, u)
    <3>1. jobs[u] \in Job(Jobs) /\ Complete(jobs[u]) \in Job(Jobs)
      BY <1>d, SettleType
    <3>2. Queued(jobs[u]) => Fetch(jobs[u]) \in Job(Jobs)
      BY <3>1, FetchType
    <3>3. jobs' \in [Jobs -> Job(Jobs)]
      BY <1>t, <1>d, <2>2, <3>1, <3>2 DEF ProcessStart, UploadsTypeOK
    <3>4. actors' \in [Actors -> ActorStates]
      BY <1>t, <1>d, <1>n, <2>2 DEF ProcessStart, Held
    <3> QED
      BY <1>t, <2>2, <3>3, <3>4 DEF ProcessStart, UploadsTypeOK, TypesAfter, rows, clock, moderation
  <2>3. CASE a = Sweeper /\ SweepRead(u)
    BY <1>t, <1>n, <2>3 DEF SweepRead, UploadsTypeOK, TypesAfter, Held, rows, clock, moderation
  <2> QED
    BY <1>1, <2>1, <2>2, <2>3
<1>2. CASE CompleteWrite(a)
  <2>1. actors[a] \in Handling
    BY <1>s, <1>2, ByPc DEF CompleteWrite, At
  <2> DEFINE u == actors[a].upload
  <2>2. Enqueue(jobs[u], u) \in Job(Jobs)
    BY <1>d, <1>h, <2>1, EnqueueType
  <2>3. jobs' \in [Jobs -> Job(Jobs)]
    BY <1>t, <1>2, <2>2 DEF CompleteWrite, UploadsTypeOK
  <2>4. actors' \in [Actors -> ActorStates]
    BY <1>t, <1>2, GoToIs DEF CompleteWrite, ActorStates
  <2> QED
    BY <1>t, <1>2, <2>3, <2>4 DEF CompleteWrite, UploadsTypeOK, TypesAfter, UploadStatuses, clock, moderation
<1>3. CASE LoadRejects(a) \/ LoadPasses(a)
  <2>1. actors[a] \in Handling
    BY <1>s, <1>3, ByPc DEF LoadRejects, LoadPasses, At
  <2> QED
    BY <1>t, <1>m, <1>3, <2>1
    DEF LoadRejects, LoadPasses, UploadsTypeOK, TypesAfter, rows, clock, moderation
<1>4. ASSUME NEW scan \in Scans, LoadScans(a, scan) PROVE TypesAfter
  <2>1. actors[a] \in Handling
    BY <1>s, <1>4, ByPc DEF LoadScans, At
  <2>2. CASE Throw(a)
    BY <1>t, <1>4, <2>2, ReturnIs DEF LoadScans, UploadsTypeOK, TypesAfter, rows, clock, moderation
  <2>3. CASE Step(a, "hit") /\ UNCHANGED jobs
    BY <1>t, <1>m, <1>4, <2>1, <2>3 DEF LoadScans, UploadsTypeOK, TypesAfter, rows, clock, moderation
  <2>4. CASE scan \in {"none", "clear"} /\ UNCHANGED jobs
             /\ GoTo(a, [actors[a] EXCEPT !.pc = "store", !.scan = scan])
    <3>1. [actors[a] EXCEPT !.pc = "store", !.scan = scan] \in Handling
      BY <2>1, <2>4 DEF Handling
    <3>2. actors' \in [Actors -> ActorStates]
      BY <1>t, <2>4, <3>1, GoToIs DEF ActorStates
    <3> QED
      BY <1>t, <1>4, <2>4, <3>2 DEF LoadScans, UploadsTypeOK, TypesAfter, rows, clock, moderation
  <2> QED
    BY <1>4, <2>2, <2>3, <2>4 DEF LoadScans, Scans
<1>5. CASE Reject(a) \/ Store(a)
  <2>1. actors[a] \in Handling
    BY <1>s, <1>5, ByPc DEF Reject, Store, At
  <2> QED
    BY <1>t, <1>m, <1>d, <1>h, <1>5, <2>1
    DEF Reject, Store, UploadsTypeOK, TypesAfter, UploadStatuses, rows, clock, moderation
<1>6. CASE Commit(a)
  <2>1. actors[a] \in Handling
    BY <1>s, <1>6, ByPc DEF Commit, At
  <2> DEFINE u == actors[a].upload
  <2>2. u \in Uploads /\ Original(u) \in Digests /\ Image(u) \in Digests /\ Blob(u) \in Digests
    BY <1>d, <1>h, <2>1
  <2>3. status' \in [Uploads -> UploadStatuses]
    BY <1>t, <1>6 DEF Commit, UploadsTypeOK, UploadStatuses
  <2>4. result' \in [Uploads -> SUBSET Digests]
    BY <1>t, <1>6, <2>2 DEF Commit, UploadsTypeOK
  <2>5. meta' \in [Digests -> ScanStatuses]
    BY <1>t, <1>6 DEF Commit, UploadsTypeOK, AssetMeta, ScanStatuses
  <2>6. actors' \in [Actors -> ActorStates] /\ jobs' \in [Jobs -> Job(Jobs)]
    <3>1. CASE Finish(a)
      BY <1>t, <3>1, ReturnIs
    <3>2. CASE Step(a, "discard") /\ UNCHANGED jobs
      BY <1>t, <1>m, <2>1, <3>2 DEF UploadsTypeOK
    <3> QED
      BY <1>6, <3>1, <3>2 DEF Commit
  <2> QED
    BY <1>t, <1>6, <2>3, <2>4, <2>5, <2>6 DEF Commit, UploadsTypeOK, TypesAfter, clock
<1>7. CASE Discard(a)
  BY <1>t, <1>7, ReturnIs DEF Discard, UploadsTypeOK, TypesAfter, rows, clock, moderation
<1>8. CASE Hit(a)
  <2>1. actors[a] \in Handling
    BY <1>s, <1>8, ByPc DEF Hit, At
  <2> DEFINE s == [pc |-> "evidence", upload |-> actors[a].upload, job |-> actors[a].job,
                   task |-> "upload", todo |-> {Original(actors[a].upload)}]
  <2>2. s \in Disposing
    BY <1>d, <1>h, <2>1 DEF Disposing, Handling
  <2>3. actors' \in [Actors -> ActorStates]
    BY <1>t, <1>8, <2>2, GoToIs DEF Hit, ActorStates
  <2>4. result' \in [Uploads -> SUBSET Digests]
    BY <1>t, <1>8, <1>d, <1>h, <2>1 DEF Hit, UploadsTypeOK
  <2> QED
    BY <1>t, <1>8, <2>3, <2>4 DEF Hit, UploadsTypeOK, TypesAfter, clock, moderation
<1>9. CASE a = Sweeper /\ (SweepDelete \/ SweepMark)
  <2>1. actors[a] \in Handling
    BY <1>s, <1>9, ByPc DEF SweepDelete, SweepMark, At
  <2>2. CASE SweepDelete
    BY <1>t, <1>m, <1>9, <2>1, <2>2
    DEF SweepDelete, UploadsTypeOK, TypesAfter, rows, clock, moderation
  <2>3. CASE SweepMark
    <3>1. actors' \in [Actors -> ActorStates]
      BY <1>t, <1>9, <2>3, GoToIs DEF SweepMark, ActorStates
    <3> QED
      BY <1>t, <2>3, <3>1 DEF SweepMark, UploadsTypeOK, TypesAfter, UploadStatuses, clock, moderation
  <2> QED
    BY <1>9, <2>2, <2>3
<1> QED
  BY <1>1, <1>2, <1>3, <1>4, <1>5, <1>6, <1>7, <1>8, <1>9 DEF PipelineStep, ProcessSteps

\* Disposals and rescans.
LEMMA DisposalTypes ==
    ASSUME TypeOK, NEW a \in Actors, DisposalStep(a)
    PROVE  TypesAfter
<1>t. TypeOK /\ UploadsTypeOK /\ actors \in [Actors -> ActorStates]
  BY TypesNow DEF TypeOK
<1>s. actors[a] \in ActorStates
  BY <1>t
<1>d. actors[a] \in Disposing => /\ actors[a].upload \in Uploads \cup {"none"}
                                 /\ actors[a].todo \subseteq Digests
  BY DEF Disposing
<1>m. ASSUME NEW s \in Disposing \cup Rescanning, GoTo(a, s) PROVE actors' \in [Actors -> ActorStates]
  BY <1>m, GoToIs DEF ActorStates
<1>1. ASSUME NEW d \in Digests, DisposeBlob(a, d) PROVE TypesAfter
  <2>1. PICK u \in IF Sources(d) = {} THEN {"none"} ELSE Sources(d) :
           GoTo(a, [pc |-> "record", upload |-> u, job |-> "none", task |-> "staff",
                    todo |-> {d} \cup IF u = "none" THEN {} ELSE result[u]])
    BY <1>1 DEF DisposeBlob
  <2>2. u \in Uploads \cup {"none"}
    BY DEF Sources
  <2>3. u # "none" => result[u] \subseteq Digests
    BY <1>t, <2>2 DEF UploadsTypeOK
  <2>4. [pc |-> "record", upload |-> u, job |-> "none", task |-> "staff",
         todo |-> {d} \cup IF u = "none" THEN {} ELSE result[u]] \in Disposing
    BY <2>2, <2>3 DEF Disposing, Held
  <2>5. actors' \in [Actors -> ActorStates]
    BY <1>m, <2>1, <2>4
  <2> QED
    BY <1>t, <1>1, <2>5 DEF DisposeBlob, UploadsTypeOK, TypesAfter, rows, clock, moderation
<1>2. ASSUME NEW d \in Digests, RescanClear(a, d) PROVE TypesAfter
  <2>1. [pc |-> "clean", upload |-> "none", job |-> "none", todo |-> {d}] \in Rescanning
    BY <1>2 DEF Rescanning
  <2>2. actors' \in [Actors -> ActorStates]
    BY <1>m, <1>2, <2>1 DEF RescanClear
  <2> QED
    BY <1>t, <1>2, <2>2 DEF RescanClear, UploadsTypeOK, TypesAfter, rows, clock, moderation
<1>3. CASE RescanWrites(a)
  <2>1. actors' \in [Actors -> ActorStates]
    BY <1>t, <1>3, GoToIs DEF RescanWrites, ActorStates
  <2> QED
    BY <1>t, <1>3, <2>1 DEF RescanWrites, UploadsTypeOK, TypesAfter, ScanStatuses, rows, clock
<1>4. CASE DisposeLoad(a)
  <2>1. actors[a] \in Disposing
    BY <1>s, <1>4, ByPc DEF DisposeLoad, At
  <2> DEFINE s == [actors[a] EXCEPT !.pc = "record", !.todo = @ \cup result[actors[a].upload]]
  <2>2. actors[a].upload \in Uploads /\ result[actors[a].upload] \subseteq Digests
    BY <1>t, <1>4, <2>1 DEF DisposeLoad, At, Disposing, UploadsTypeOK
  <2>3. s \in Disposing
    BY <1>d, <2>1, <2>2 DEF Disposing
  <2> QED
    BY <1>t, <1>m, <1>4, <2>3 DEF DisposeLoad, UploadsTypeOK, TypesAfter, rows, clock, moderation
<1>5. CASE Record(a)
  <2>1. actors[a] \in Disposing
    BY <1>s, <1>5, ByPc DEF Record, At
  <2>2. actors' \in [Actors -> ActorStates]
    BY <1>m, <1>s, <1>5, <2>1, MoveType DEF Record, Step
  <2>3. status' \in [Uploads -> UploadStatuses] /\ meta' \in [Digests -> ScanStatuses]
    BY <1>t, <1>5 DEF Record, UploadsTypeOK, UploadStatuses, ScanStatuses
  <2>4. blocked' \subseteq Digests /\ banned' \in BOOLEAN
    BY <1>t, <1>5, <1>d, <2>1 DEF Record, UploadsTypeOK
  <2> QED
    BY <1>t, <1>5, <2>2, <2>3, <2>4 DEF Record, UploadsTypeOK, TypesAfter, clock
<1>6. ASSUME NEW d \in Digests, RemoveCopy(a, d) PROVE TypesAfter
  <2>1. actors[a] \in Disposing
    BY <1>s, <1>6, ByPc DEF RemoveCopy, At
  <2>2. [actors[a] EXCEPT !.todo = @ \ {d}] \in Disposing
    BY <2>1 DEF Disposing
  <2>3. actors' \in [Actors -> ActorStates]
    BY <1>m, <1>6, <2>2 DEF RemoveCopy
  <2> QED
    BY <1>t, <1>6, <2>3 DEF RemoveCopy, UploadsTypeOK, TypesAfter, rows, clock, moderation
<1>7. CASE DisposeEnds(a)
  <2>1. staged' \in [Uploads -> {"none", "declared", "other"}]
    BY <1>t, <1>7 DEF DisposeEnds, ForgetOriginal, UploadsTypeOK
  <2> QED
    BY <1>t, <1>7, <2>1, ReturnIs DEF DisposeEnds, UploadsTypeOK, TypesAfter, rows, clock, moderation
<1> QED
  BY <1>1, <1>2, <1>3, <1>4, <1>5, <1>6, <1>7 DEF DisposalStep, DisposeSteps

\* Faults.
LEMMA FaultTypes ==
    ASSUME TypeOK, NEW a \in Actors, FaultStep(a)
    PROVE  TypesAfter
<1>t. TypeOK /\ UploadsTypeOK /\ actors \in [Actors -> ActorStates] /\ actors[a] \in ActorStates
  BY TypesNow DEF TypeOK
<1>f. faults < MaxFaults => faults + 1 \in 0..MaxFaults
  BY <1>t, UploadsAssumption DEF UploadsTypeOK
<1>1. CASE Die(a)
  BY <1>t, <1>f, <1>1, ReturnIs DEF Die, UploadsTypeOK, TypesAfter, rows, clock, moderation
<1>2. CASE Outlive(a)
  <2>1. [actors[a] EXCEPT !.job = "none"] \in ActorStates
    BY <1>t DEF ActorStates, Idle, Handling, Rescanning, Disposing, Importing, Held
  <2>2. actors' \in [Actors -> ActorStates]
    BY <1>t, <1>2, <2>1, GoToIs DEF Outlive
  <2>3. jobs' \in [Jobs -> Job(Jobs)]
    <3>1. \A j \in Jobs : jobs[j] \in Job(Jobs) /\ Fail(jobs[j]) \in Job(Jobs)
      BY <1>t, FailType DEF UploadsTypeOK
    <3> QED
      BY <1>2, <3>1 DEF Outlive, EndJob
  <2> QED
    BY <1>t, <1>f, <1>2, <2>2, <2>3 DEF Outlive, UploadsTypeOK, TypesAfter, rows, clock, moderation
<1> QED
  BY <1>1, <1>2 DEF FaultStep

ImportTypesAfter ==
    /\ imports' \in [Imports -> [st: ImportStatuses, error: ImportErrors, upload: Uploads \cup {"none"}]]
    /\ creations' \in [Imports -> Seq({"declared", "other"})]
    /\ taken' \subseteq Names
    /\ effects' \subseteq Imports

\* Writing a row's status and error leaves its upload.
LEMMA RowFields ==
    ASSUME NEW U, NEW r \in [st: ImportStatuses, error: ImportErrors, upload: U],
           NEW st \in ImportStatuses, NEW error \in ImportErrors
    PROVE  /\ r = [st |-> r.st, error |-> r.error, upload |-> r.upload]
           /\ [r EXCEPT !.st = st] = [st |-> st, error |-> r.error, upload |-> r.upload]
           /\ [r EXCEPT !.st = st, !.error = error] = [st |-> st, error |-> error, upload |-> r.upload]
<1> DEFINE q == [r EXCEPT !.st = st, !.error = error]
<1>1. /\ q \in [st: ImportStatuses, error: ImportErrors, upload: U]
      /\ q.st = st /\ q.error = error /\ q.upload = r.upload
  OBVIOUS
<1>2. ASSUME NEW p \in [st: ImportStatuses, error: ImportErrors, upload: U]
      PROVE  p = [st |-> p.st, error |-> p.error, upload |-> p.upload]
  OBVIOUS
<1>3. [r EXCEPT !.st = st] = [st |-> st, error |-> r.error, upload |-> r.upload]
  OBVIOUS
<1> HIDE DEF q
<1>4. q = [st |-> st, error |-> error, upload |-> r.upload]
  BY <1>1, <1>2
<1> QED
  BY <1>2, <1>3, <1>4 DEF q

\* What a step that writes an import's row changes: its status and error.
LEMMA RowIs ==
    ASSUME TypeOK, NEW i \in Imports, NEW st \in ImportStatuses, NEW error \in ImportErrors,
           \/ imports' = [imports EXCEPT ![i].st = st, ![i].error = error]
           \/ imports' = [imports EXCEPT ![i].st = st] /\ error = imports[i].error
    PROVE  /\ imports' \in [Imports -> [st: ImportStatuses, error: ImportErrors,
                                        upload: Uploads \cup {"none"}]]
           /\ imports'[i].st = st /\ imports'[i].error = error
           /\ imports'[i].upload = imports[i].upload
           /\ \A j \in Imports \ {i} : imports'[j] = imports[j]
<1>1. imports \in [Imports -> [st: ImportStatuses, error: ImportErrors, upload: Uploads \cup {"none"}]]
  BY DEF TypeOK
<1> DEFINE row == [st |-> st, error |-> error, upload |-> imports[i].upload]
<1>2. imports' = [imports EXCEPT ![i] = row]
  <2>1. CASE imports' = [imports EXCEPT ![i].st = st, ![i].error = error]
    BY <1>1, <2>1, RowFields
  <2>2. CASE imports' = [imports EXCEPT ![i].st = st] /\ error = imports[i].error
    <3>1. imports[i] \in [st: ImportStatuses, error: ImportErrors, upload: Uploads \cup {"none"}]
      BY <1>1
    <3>2. [imports[i] EXCEPT !.st = st] = row
      BY <2>2, <3>1, RowFields
    <3> QED
      BY <2>2, <3>2
  <2> QED
    BY <2>1, <2>2
<1>3. row \in [st: ImportStatuses, error: ImportErrors, upload: Uploads \cup {"none"}]
  BY <1>1
<1> QED
  BY <1>1, <1>2, <1>3

\* The author's requests.
LEMMA AuthorTypes ==
    ASSUME TypeOK, AuthorStep
    PROVE  TypesAfter /\ ImportTypesAfter
<1>t. TypeOK /\ UploadsTypeOK /\ actors \in [Actors -> ActorStates]
  BY TypesNow DEF TypeOK
<1>1. ASSUME NEW n \in Names, TakeName(n) PROVE TypesAfter /\ ImportTypesAfter
  BY <1>t, <1>1
  DEF TakeName, TypeOK, UploadsTypeOK, TypesAfter, ImportTypesAfter, rows, clock, moderation
<1>2. ASSUME NEW i \in Imports, NEW u \in Uploads, CreateImport(i, u)
      PROVE  TypesAfter /\ ImportTypesAfter
  <2>1. jobs[i] \in Job(Jobs) /\ i \in Jobs
    BY <1>t, ImportsAssumption DEF UploadsTypeOK
  <2>2. Enqueue(jobs[i], i) \in Job(Jobs)
    BY <2>1, EnqueueType
  <2>3. jobs' \in [Jobs -> Job(Jobs)]
    BY <1>t, <1>2, <2>2 DEF CreateImport, UploadsTypeOK
  <2>4. ImportTypesAfter
    BY <1>t, <1>2 DEF CreateImport, TypeOK, ImportTypesAfter, ImportStatuses, ImportErrors
  <2> QED
    BY <1>t, <1>2, <2>3, <2>4 DEF CreateImport, UploadsTypeOK, TypesAfter, rows, clock, moderation
<1> QED
  BY <1>1, <1>2 DEF AuthorStep

\* An import knows the card it was made of, and what a handler works on exists.
ImportsKnow ==
    \A i \in Imports :
        IF imports[i].st = "absent" THEN imports[i].upload = "none"
        ELSE /\ imports[i].upload \in Uploads
             /\ kind[imports[i].upload] = "card" /\ status[imports[i].upload] # "absent"

Knows(a) ==
    /\ actors[a] \in Importing => imports[actors[a].import].st # "absent"
    /\ actors[a].pc \in {"keep", "import"} => actors[a].bytes = "declared"
    /\ actors[a] \in Disposing /\ actors[a].task \in Imports =>
           imports[actors[a].task].st # "absent"
    /\ actors[a] \in Handling \cup Disposing =>
           actors[a].upload = "none" \/ status[actors[a].upload] # "absent"

HandlersKnow == \A a \in Actors : Knows(a)

Known == ImportsKnow /\ HandlersKnow

\* The executions of an import.
LEMMA ImportTypes ==
    ASSUME TypeOK, Known, NEW a \in Actors, ImportStep(a)
    PROVE  TypesAfter /\ ImportTypesAfter
<1>t. /\ TypeOK /\ UploadsTypeOK /\ actors \in [Actors -> ActorStates] /\ actors[a] \in ActorStates
      /\ \A u \in Uploads : Original(u) \in Storable /\ Image(u) \in Storable /\ Raw(u) \in Digests
      /\ Storable \subseteq Digests
      /\ Imports \subseteq Jobs /\ \A j \in Jobs : jobs[j] \in Job(Jobs)
  BY TypesNow DEF TypeOK
<1>i. ASSUME actors[a] \in Importing
      PROVE  /\ actors[a].import \in Imports /\ UploadOf(a) \in Uploads
             /\ actors[a].job \in Held /\ actors[a].seen \subseteq Digests
             /\ staged[UploadOf(a)] \in {"none", "declared", "other"}
             /\ result[UploadOf(a)] \subseteq Digests
  <2>1. actors[a].import \in Imports /\ actors[a].job \in Held /\ actors[a].seen \subseteq Digests
    BY <1>i DEF Importing
  <2>2. UploadOf(a) \in Uploads
    BY <1>i, <2>1 DEF Known, ImportsKnow, HandlersKnow, Knows, UploadOf
  <2> QED
    BY <1>t, <2>1, <2>2 DEF UploadsTypeOK
<1>m. ASSUME NEW s \in Importing \cup Disposing, GoTo(a, s) PROVE actors' \in [Actors -> ActorStates]
  BY <1>m, GoToIs DEF ActorStates
<1>p. ASSUME actors[a] \in Importing, NEW pc \in {"import", "fail", "drop"}, Step(a, pc)
      PROVE  actors' \in [Actors -> ActorStates]
  <2>1. [actors[a] EXCEPT !.pc = pc] \in Importing
    BY <1>t, <1>p, MoveType
  <2> QED
    BY <1>p, <1>m, <2>1 DEF Step
<1>1. ASSUME NEW i \in Imports, ImportStart(a, i) PROVE TypesAfter /\ ImportTypesAfter
  <2>1. jobs[i] \in Job(Jobs) /\ Complete(jobs[i]) \in Job(Jobs) /\ Fetch(jobs[i]) \in Job(Jobs)
    BY <1>t, <1>1, SettleType, FetchType DEF ImportStart
  <2>2. jobs' \in [Jobs -> Job(Jobs)]
    BY <1>t, <1>1, <2>1 DEF ImportStart, UploadsTypeOK
  <2> DEFINE s == [pc |-> "open", import |-> i, job |-> i, bytes |-> "none", scan |-> "none",
                   final |-> IsFinalAttempt(Fetch(jobs[i])), seen |-> {}]
  <2>3. s \in Importing
    BY <1>t DEF Importing, Held, IsFinalAttempt
  <2>4. actors' \in [Actors -> ActorStates]
    BY <1>t, <1>1, <1>m, <2>3 DEF ImportStart
  <2>5. ImportTypesAfter
    <3>1. imports' \in [Imports -> [st: ImportStatuses, error: ImportErrors, upload: Uploads \cup {"none"}]]
      BY <1>t, <1>1, RowIs DEF ImportStart, TypeOK, ImportStatuses, ImportErrors
    <3> QED
      BY <1>t, <1>1, <3>1 DEF ImportStart, TypeOK, ImportTypesAfter
  <2> QED
    BY <1>t, <1>1, <2>2, <2>4, <2>5 DEF ImportStart, UploadsTypeOK, TypesAfter, rows, clock, moderation
<1>2. CASE ImportOpen(a)
  <2>1. actors[a] \in Importing
    BY <1>t, <1>2, ByPc DEF ImportOpen, At
  <2>2. [actors[a] EXCEPT !.pc = "parse", !.seen = result[UploadOf(a)]] \in Importing
    BY <1>i, <2>1 DEF Importing
  <2>3. actors' \in [Actors -> ActorStates]
    BY <1>2, <1>m, <1>p, <2>1, <2>2 DEF ImportOpen
  <2>4. ImportTypesAfter
    <3>1. imports[actors[a].import].error \in ImportErrors
      BY <1>t, <1>i, <2>1 DEF TypeOK
    <3>2. imports' \in [Imports -> [st: ImportStatuses, error: ImportErrors, upload: Uploads \cup {"none"}]]
      BY <1>t, <1>i, <1>2, <2>1, <3>1, RowIs DEF ImportOpen, TypeOK, ImportStatuses
    <3> QED
      BY <1>t, <1>2, <3>2 DEF ImportOpen, TypeOK, ImportTypesAfter
  <2> QED
    BY <1>t, <1>2, <2>3, <2>4 DEF ImportOpen, UploadsTypeOK, TypesAfter, rows, clock, moderation
<1>3. CASE ImportRejects(a)
  <2>1. actors[a] \in Importing
    BY <1>t, <1>3, ByPc DEF ImportRejects, At
  <2>2. actors' \in [Actors -> ActorStates]
    BY <1>3, <1>p, <2>1 DEF ImportRejects
  <2> QED
    BY <1>t, <1>3, <2>2
    DEF ImportRejects, TypeOK, UploadsTypeOK, TypesAfter, ImportTypesAfter, importVars, rows, clock, moderation
<1>4. CASE ImportMatches(a)
  <2>1. actors[a] \in Importing
    BY <1>t, <1>4, ByPc DEF ImportMatches, At
  <2> DEFINE s == [pc |-> "evidence", upload |-> UploadOf(a), job |-> actors[a].job,
                   task |-> actors[a].import, todo |-> {Original(UploadOf(a))}]
  <2>2. s \in Disposing
    BY <1>t, <1>i, <2>1 DEF Disposing
  <2>3. actors' \in [Actors -> ActorStates]
    BY <1>4, <1>m, <2>2 DEF ImportMatches
  <2>4. result' \in [Uploads -> SUBSET Digests]
    BY <1>t, <1>i, <1>4, <2>1 DEF ImportMatches, Derives, UploadsTypeOK
  <2> QED
    BY <1>t, <1>4, <2>3, <2>4
    DEF ImportMatches, TypeOK, UploadsTypeOK, TypesAfter, ImportTypesAfter, importVars, clock, moderation
<1>5. ASSUME NEW scan \in {"none", "clear"}, ImportPasses(a, scan) PROVE TypesAfter /\ ImportTypesAfter
  <2>1. actors[a] \in Importing
    BY <1>t, <1>5, ByPc DEF ImportPasses, At
  <2>2. [actors[a] EXCEPT !.pc = "keep", !.bytes = staged[UploadOf(a)], !.scan = scan] \in Importing
    BY <1>i, <2>1 DEF Importing
  <2>3. actors' \in [Actors -> ActorStates]
    BY <1>5, <1>m, <2>2 DEF ImportPasses
  <2> QED
    BY <1>t, <1>5, <2>3
    DEF ImportPasses, TypeOK, UploadsTypeOK, TypesAfter, ImportTypesAfter, importVars, rows, clock, moderation
<1>6. CASE ImportKeeps(a)
  <2>1. actors[a] \in Importing
    BY <1>t, <1>6, ByPc DEF ImportKeeps, At
  <2>2. actors' \in [Actors -> ActorStates]
    BY <1>6, <1>p, <2>1 DEF ImportKeeps
  <2>3. stored' \subseteq Storable
    BY <1>t, <1>i, <1>6, <2>1 DEF ImportKeeps, UploadsTypeOK
  <2> QED
    BY <1>t, <1>6, <2>2, <2>3
    DEF ImportKeeps, TypeOK, UploadsTypeOK, TypesAfter, ImportTypesAfter, importVars, rows, clock, moderation
<1>7. CASE ImportCommit(a)
  <2>1. actors[a] \in Importing
    BY <1>t, <1>7, ByPc DEF ImportCommit, At
  <2>2. actors' \in [Actors -> ActorStates] /\ jobs' \in [Jobs -> Job(Jobs)]
    <3>1. CASE Finish(a)
      BY <1>t, <3>1, ReturnIs
    <3>2. ASSUME NEW pc \in {"fail", "drop"}, Step(a, pc), UNCHANGED jobs
          PROVE  actors' \in [Actors -> ActorStates] /\ jobs' \in [Jobs -> Job(Jobs)]
      BY <1>t, <1>p, <2>1, <3>2 DEF UploadsTypeOK
    <3> QED
      BY <1>7, <3>1, <3>2 DEF ImportCommit
  <2>3. result' \in [Uploads -> SUBSET Digests] /\ meta' \in [Digests -> ScanStatuses]
    BY <1>t, <1>i, <1>7, <2>1 DEF ImportCommit, Derives, AssetMeta, UploadsTypeOK, ScanStatuses
  <2>4. imports' \in [Imports -> [st: ImportStatuses, error: ImportErrors, upload: Uploads \cup {"none"}]]
    <3>1. imports[actors[a].import].error \in ImportErrors
      BY <1>t, <1>i, <2>1 DEF TypeOK
    <3>2. \/ UNCHANGED imports
          \/ imports' = [imports EXCEPT ![actors[a].import].st = "succeeded"]
      BY <1>7 DEF ImportCommit
    <3> QED
      BY <1>t, <1>i, <2>1, <3>1, <3>2, RowIs DEF TypeOK, ImportStatuses
  <2>5. creations' \in [Imports -> Seq({"declared", "other"})]
    <3>1. actors[a].bytes = "declared"
      BY <1>7 DEF ImportCommit, At, Known, HandlersKnow, Knows
    <3>2. creations[actors[a].import] \in Seq({"declared", "other"})
      BY <1>t, <1>i, <2>1 DEF TypeOK
    <3>3. Append(creations[actors[a].import], actors[a].bytes) \in Seq({"declared", "other"})
      BY <3>1, <3>2
    <3>4. \/ UNCHANGED creations
          \/ creations' = [creations EXCEPT ![actors[a].import] = Append(@, actors[a].bytes)]
      BY <1>7 DEF ImportCommit
    <3> QED
      BY <1>t, <3>3, <3>4 DEF TypeOK
  <2>6. effects' \subseteq Imports /\ taken' \subseteq Names
    BY <1>t, <1>i, <1>7, <2>1 DEF ImportCommit, TypeOK
  <2> QED
    BY <1>t, <1>7, <2>2, <2>3, <2>4, <2>5, <2>6 DEF ImportCommit, UploadsTypeOK, TypesAfter, ImportTypesAfter, clock
<1>8. CASE ImportFails(a)
  <2>1. actors[a] \in Importing
    BY <1>t, <1>8, ByPc DEF ImportFails, At
  <2>2. actors' \in [Actors -> ActorStates]
    BY <1>8, <1>p, <2>1 DEF ImportFails
  <2>3. ImportTypesAfter
    <3>1. imports' \in [Imports -> [st: ImportStatuses, error: ImportErrors, upload: Uploads \cup {"none"}]]
      BY <1>t, <1>i, <1>8, <2>1, RowIs DEF ImportFails, TypeOK, ImportStatuses, ImportErrors
    <3> QED
      BY <1>t, <1>8, <3>1 DEF ImportFails, TypeOK, ImportTypesAfter
  <2> QED
    BY <1>t, <1>8, <2>2, <2>3 DEF ImportFails, UploadsTypeOK, TypesAfter, rows, clock, moderation
<1>9. CASE ImportDrops(a)
  BY <1>t, <1>9, ReturnIs
  DEF ImportDrops, TypeOK, UploadsTypeOK, TypesAfter, ImportTypesAfter, importVars, rows, clock, moderation
<1>10. CASE ImportDisposed(a)
  <2>1. actors[a] \in Disposing
    BY <1>t, <1>10, ByPc DEF ImportDisposed, ForgetOriginal, At
  <2>2. [pc |-> "fail", import |-> actors[a].task, job |-> actors[a].job, bytes |-> "none",
         scan |-> "none", final |-> FALSE, seen |-> {}] \in Importing
    BY <1>10, <2>1 DEF ImportDisposed, Importing, Disposing
  <2>3. actors' \in [Actors -> ActorStates]
    BY <1>10, <1>m, <2>2 DEF ImportDisposed
  <2>4. staged' \in [Uploads -> {"none", "declared", "other"}]
    BY <1>t, <1>10 DEF ImportDisposed, ForgetOriginal, UploadsTypeOK
  <2> QED
    BY <1>t, <1>10, <2>3, <2>4
    DEF ImportDisposed, TypeOK, UploadsTypeOK, TypesAfter, ImportTypesAfter, importVars, rows, clock, moderation
<1>11. CASE ImportThrows(a)
  <2>1. ImportTypesAfter
    <3>1. actors[a] \in Importing
      BY <1>t, <1>11, ByPc DEF ImportThrows, At
    <3>2. imports' \in [Imports -> [st: ImportStatuses, error: ImportErrors, upload: Uploads \cup {"none"}]]
      BY <1>t, <1>i, <1>11, <3>1, RowIs DEF ImportThrows, TypeOK, ImportStatuses, ImportErrors
    <3> QED
      BY <1>t, <1>11, <3>2 DEF ImportThrows, TypeOK, ImportTypesAfter
  <2>2. faults' \in 0..MaxFaults
    BY <1>t, <1>11, UploadsAssumption DEF ImportThrows, UploadsTypeOK
  <2> QED
    BY <1>t, <1>11, <2>1, <2>2, ReturnIs DEF ImportThrows, UploadsTypeOK, TypesAfter, rows, clock, moderation
<1> QED
  BY <1>1, <1>2, <1>3, <1>4, <1>5, <1>6, <1>7, <1>8, <1>9, <1>10, <1>11 DEF ImportStep, ImportHandler
-----------------------------------------------------------------------------
(* What the handlers know. *)

\* The step of an actor leaves the others where they are.
LEMMA OthersStay ==
    ASSUME TypeOK, NEW a \in Actors,
           PipelineStep(a) \/ DisposalStep(a) \/ FaultStep(a) \/ ImportStep(a)
    PROVE  \A b \in Actors \ {a} : actors'[b] = actors[b]
<1>1. ASSUME NEW s, GoTo(a, s) PROVE \A b \in Actors \ {a} : actors'[b] = actors[b]
  BY <1>1, GoToIs
<1>2. CASE PipelineStep(a)
  BY <1>1, <1>2
  DEF PipelineStep, ProcessSteps, CompleteRead, CompleteWrite, ProcessStart, SweepDelete, SweepMark, SweepRead,
      LoadRejects, LoadPasses, LoadScans, Reject, Store, Commit, Discard, Hit, Step, Finish, Throw
<1>3. CASE DisposalStep(a)
  BY <1>1, <1>3
  DEF DisposalStep, DisposeSteps, DisposeBlob, RescanClear, RescanWrites, DisposeLoad, Record, RemoveCopy,
      DisposeEnds, Step, Finish
<1>4. CASE FaultStep(a)
  BY <1>1, <1>4 DEF FaultStep, Die, Outlive, Throw
<1>5. CASE ImportStep(a)
  BY <1>1, <1>5
  DEF ImportStep, ImportHandler, ImportStart, ImportOpen, ImportRejects, ImportMatches, ImportPasses,
      ImportKeeps, ImportCommit, ImportFails, ImportDrops, ImportDisposed, ImportThrows, Step, Finish, Throw
<1> QED
  BY <1>2, <1>3, <1>4, <1>5

\* What exists stays, whatever an actor does: an upload, its kind, and the upload of an import.
Stays ==
    /\ UNCHANGED kind
    /\ \A u \in Uploads : status[u] # "absent" => status'[u] # "absent"
    /\ \A i \in Imports : /\ imports[i].st = "absent" <=> imports'[i].st = "absent"
                          /\ imports'[i].upload = imports[i].upload

LEMMA ThingsStay ==
    ASSUME TypeOK, Known, NEW a \in Actors,
           \/ (PipelineStep(a) \/ DisposalStep(a) \/ FaultStep(a)) /\ UNCHANGED importVars
           \/ ImportStep(a)
    PROVE  Stays
<1>t. UploadsTypeOK /\ actors[a] \in ActorStates
  BY TypesNow DEF TypeOK
<1>1. CASE PipelineStep(a) /\ UNCHANGED importVars
  BY <1>t, <1>1
  DEF Stays, PipelineStep, ProcessSteps, CompleteRead, CompleteWrite, ProcessStart, SweepDelete, SweepMark,
      SweepRead, LoadRejects, LoadPasses, LoadScans, Reject, Store, Commit, Discard, Hit, rows, importVars,
      UploadsTypeOK
<1>2. CASE DisposalStep(a) /\ UNCHANGED importVars
  BY <1>t, <1>2
  DEF Stays, DisposalStep, DisposeSteps, DisposeBlob, RescanClear, RescanWrites, DisposeLoad, Record, RemoveCopy,
      DisposeEnds, rows, importVars, UploadsTypeOK
<1>3. CASE FaultStep(a) /\ UNCHANGED importVars
  BY <1>3 DEF Stays, FaultStep, Die, Outlive, rows, importVars
<1>4. CASE ImportStep(a)
  <2>u. UNCHANGED <<kind, status>>
    BY <1>4
    DEF ImportStep, ImportHandler, ImportStart, ImportOpen, ImportRejects, ImportMatches, ImportPasses, ImportKeeps,
        ImportCommit, ImportFails, ImportDrops, ImportDisposed, ImportThrows, rows
  <2> DEFINE Row == \A i \in Imports : /\ imports[i].st = "absent" <=> imports'[i].st = "absent"
                                       /\ imports'[i].upload = imports[i].upload
  <2>r. ASSUME NEW i \in Imports, imports[i].st # "absent", NEW st \in ImportStatuses \ {"absent"},
               NEW error \in ImportErrors,
               \/ imports' = [imports EXCEPT ![i].st = st, ![i].error = error]
               \/ imports' = [imports EXCEPT ![i].st = st] /\ error = imports[i].error
        PROVE  Row
    <3>1. /\ imports'[i].st = st /\ imports'[i].upload = imports[i].upload
          /\ \A j \in Imports \ {i} : imports'[j] = imports[j]
      BY <2>r, RowIs
    <3> QED
      BY <2>r, <3>1
  <2>s. /\ {"processing", "succeeded", "failed"} \subseteq ImportStatuses \ {"absent"}
        /\ {"none", "internal", "final"} \subseteq ImportErrors
        /\ \A i \in Imports : imports[i].error \in ImportErrors
    BY DEF TypeOK, ImportStatuses, ImportErrors
  <2>i. actors[a] \in Importing => /\ actors[a].import \in Imports
                                   /\ imports[actors[a].import].st # "absent"
    BY DEF Importing, Known, HandlersKnow, Knows
  <2>1. ASSUME NEW i \in Imports, ImportStart(a, i) PROVE Row
    BY <2>1, <2>r, <2>s DEF ImportStart, Revived
  <2>2. ASSUME ImportOpen(a) PROVE Row
    BY <1>t, <2>2, <2>r, <2>s, <2>i, ByPc DEF ImportOpen, At
  <2>3. ASSUME ImportCommit(a) PROVE Row
    <3>1. \/ UNCHANGED imports
          \/ imports' = [imports EXCEPT ![actors[a].import].st = "succeeded"]
      BY <2>3 DEF ImportCommit
    <3> QED
      BY <1>t, <2>3, <2>r, <2>s, <2>i, <3>1, ByPc DEF ImportCommit, At
  <2>4. ASSUME ImportFails(a) \/ ImportThrows(a) PROVE Row
    BY <1>t, <2>4, <2>r, <2>s, <2>i, ByPc DEF ImportFails, ImportThrows, At
  <2>5. ASSUME UNCHANGED imports PROVE Row
    BY <2>5
  <2>6. Row
    BY <1>4, <2>1, <2>2, <2>3, <2>4, <2>5
    DEF ImportStep, ImportHandler, ImportRejects, ImportMatches, ImportPasses, ImportKeeps, ImportDrops,
        ImportDisposed, importVars
  <2> QED
    BY <2>u, <2>6 DEF Stays
<1> QED
  BY <1>1, <1>2, <1>3, <1>4

\* A handler knows what it goes on with.
LEMMA HandlerKnows ==
    ASSUME TypeOK, Known, Stays, NEW a \in Actors,
           PipelineStep(a) \/ DisposalStep(a) \/ FaultStep(a) \/ ImportStep(a)
    PROVE  Knows(a)'
<1>t. /\ UploadsTypeOK /\ actors[a] \in ActorStates /\ Knows(a)
      /\ Uploads \subseteq Jobs /\ Imports \subseteq Jobs /\ {"none", "upload", "staff"} \cap Jobs = {}
  BY TypesNow, UploadsAssumption DEF TypeOK, Known, HandlersKnow
<1>s. Stays
  OBVIOUS
<1>g. ASSUME NEW s, GoTo(a, s) PROVE actors'[a] = s
  BY <1>g, GoToIs
<1>0. ASSUME actors'[a] = Idle \/ actors'[a] \in Rescanning PROVE Knows(a)'
  BY <1>0 DEF Knows, Idle, Handling, Rescanning, Disposing, Importing
<1>h. ASSUME actors'[a] \in Handling, status'[actors'[a].upload] # "absent" PROVE Knows(a)'
  BY <1>h DEF Knows, Handling, Disposing, Importing
<1>d. ASSUME actors'[a] \in Disposing,
             actors'[a].upload = "none" \/ status'[actors'[a].upload] # "absent",
             actors'[a].task \in Imports => imports'[actors'[a].task].st # "absent"
      PROVE  Knows(a)'
  BY <1>d DEF Knows, Disposing, Importing
<1>i. ASSUME actors'[a] \in Importing, imports'[actors'[a].import].st # "absent",
             actors'[a].pc \in {"keep", "import"} => actors'[a].bytes = "declared"
      PROVE  Knows(a)'
  BY <1>i DEF Knows, Handling, Disposing, Importing
<1>H. actors[a] \in Handling => /\ actors[a].upload \in Uploads
                                /\ status[actors[a].upload] # "absent"
                                /\ status'[actors[a].upload] # "absent"
  BY <1>t, <1>s, UploadsAssumption DEF Knows, Handling, Stays
<1>D. actors[a] \in Disposing =>
        /\ actors[a].upload = "none" \/ status'[actors[a].upload] # "absent"
        /\ actors[a].task \in Imports => imports'[actors[a].task].st # "absent"
  BY <1>t, <1>s DEF Knows, Disposing, Stays
<1>I. actors[a] \in Importing => /\ actors[a].import \in Imports
                                 /\ imports'[actors[a].import].st # "absent"
                                 /\ UploadOf(a) \in Uploads /\ status'[UploadOf(a)] # "absent"
  BY <1>t, <1>s DEF Knows, Importing, Stays, Known, ImportsKnow, UploadOf
<1>m. ASSUME actors[a] \in Handling, NEW pc \in {"reject", "store", "commit", "discard", "hit", "expire"},
             Step(a, pc)
      PROVE  Knows(a)'
  <2> DEFINE s == [actors[a] EXCEPT !.pc = pc]
  <2>1. s \in Handling /\ s.upload = actors[a].upload
    BY <1>t, <1>m, MoveType
  <2>2. actors'[a] = s
    BY <1>g, <1>m DEF Step
  <2> HIDE DEF s
  <2> QED
    BY <1>h, <1>H, <1>m, <2>1, <2>2
<1>1. CASE PipelineStep(a)
  <2>1. ASSUME NEW u \in Uploads, CompleteRead(a, u) PROVE Knows(a)'
    <3>1. [pc |-> "complete", upload |-> u, job |-> "none", scan |-> "none"] \in Handling
      BY DEF Handling, Held
    <3> QED
      BY <1>g, <1>h, <2>1, <3>1 DEF CompleteRead, rows
  <2>2. ASSUME NEW u \in Uploads, ProcessStart(a, u) PROVE Knows(a)'
    <3>1. [pc |-> "load", upload |-> u, job |-> u, scan |-> "none"] \in Handling
      BY <1>t DEF Handling, Held
    <3>2. CASE UNCHANGED actors
      BY <1>t, <1>0, <2>2, <3>2, ByPc DEF ProcessStart, At
    <3> QED
      BY <1>g, <1>h, <2>2, <3>1, <3>2 DEF ProcessStart, rows
  <2>3. ASSUME NEW u \in Uploads, a = Sweeper, SweepRead(u) PROVE Knows(a)'
    <3>1. [pc |-> "delete", upload |-> u, job |-> "none", scan |-> "none"] \in Handling
      BY DEF Handling, Held
    <3> QED
      BY <1>g, <1>h, <2>3, <3>1 DEF SweepRead, rows
  <2>4. CASE CompleteWrite(a) \/ Discard(a) \/ (a = Sweeper /\ SweepMark)
    BY <1>g, <1>0, <2>4 DEF CompleteWrite, Discard, SweepMark, Finish
  <2>5. CASE LoadRejects(a) \/ LoadPasses(a) \/ Reject(a) \/ Store(a)
    BY <1>t, <1>m, <2>5, ByPc DEF LoadRejects, LoadPasses, Reject, Store, At
  <2>6. ASSUME NEW scan \in Scans, LoadScans(a, scan) PROVE Knows(a)'
    <3>1. actors[a] \in Handling
      BY <1>t, <2>6, ByPc DEF LoadScans, At
    <3>2. CASE GoTo(a, [actors[a] EXCEPT !.pc = "store", !.scan = scan]) /\ scan \in {"none", "clear"}
      <4>1. /\ [actors[a] EXCEPT !.pc = "store", !.scan = scan] \in Handling
            /\ [actors[a] EXCEPT !.pc = "store", !.scan = scan].upload = actors[a].upload
        BY <3>1, <3>2 DEF Handling
      <4> QED
        BY <1>g, <1>h, <1>H, <3>1, <3>2, <4>1
    <3>3. CASE Throw(a)
      BY <1>g, <1>0, <3>3 DEF Throw
    <3>4. CASE Step(a, "hit")
      BY <1>m, <3>1, <3>4
    <3> QED
      BY <2>6, <3>2, <3>3, <3>4 DEF LoadScans, Scans
  <2>7. CASE Commit(a)
    <3>1. actors[a] \in Handling
      BY <1>t, <2>7, ByPc DEF Commit, At
    <3>2. CASE Finish(a)
      BY <1>g, <1>0, <3>2 DEF Finish
    <3> QED
      BY <1>m, <2>7, <3>1, <3>2 DEF Commit
  <2>8. CASE Hit(a)
    <3>1. actors[a] \in Handling
      BY <1>t, <2>8, ByPc DEF Hit, At
    <3> DEFINE s == [pc |-> "evidence", upload |-> actors[a].upload, job |-> actors[a].job,
                     task |-> "upload", todo |-> {Original(actors[a].upload)}]
    <3>2. s \in Disposing
      BY <3>1, TypesNow DEF Disposing, Handling
    <3>3. actors'[a] = s
      BY <1>g, <2>8 DEF Hit
    <3> QED
      BY <1>t, <1>d, <1>H, <3>1, <3>2, <3>3
  <2>9. CASE a = Sweeper /\ SweepDelete
    BY <1>t, <1>m, <2>9, ByPc DEF SweepDelete, At
  <2> QED
    BY <1>1, <2>1, <2>2, <2>3, <2>4, <2>5, <2>6, <2>7, <2>8, <2>9 DEF PipelineStep, ProcessSteps
<1>2. CASE DisposalStep(a)
  <2>1. ASSUME NEW d \in Digests, DisposeBlob(a, d) PROVE Knows(a)'
    <3>1. PICK u \in IF Sources(d) = {} THEN {"none"} ELSE Sources(d) :
             GoTo(a, [pc |-> "record", upload |-> u, job |-> "none", task |-> "staff",
                      todo |-> {d} \cup IF u = "none" THEN {} ELSE result[u]])
      BY <2>1 DEF DisposeBlob
    <3>2. /\ u \in Uploads \cup {"none"}
          /\ u = "none" \/ status[u] # "absent"
          /\ u # "none" => result[u] \subseteq Digests
      BY <1>t DEF Sources, UploadsTypeOK
    <3> DEFINE s == [pc |-> "record", upload |-> u, job |-> "none", task |-> "staff",
                     todo |-> {d} \cup IF u = "none" THEN {} ELSE result[u]]
    <3>3. s \in Disposing /\ s.upload = u /\ s.task = "staff"
      BY <3>2 DEF Disposing, Held
    <3>4. actors'[a] = s
      BY <1>g, <3>1
    <3>5. UNCHANGED status
      BY <2>1 DEF DisposeBlob, rows
    <3> HIDE DEF s
    <3> QED
      BY <1>t, <1>d, <3>2, <3>3, <3>4, <3>5
  <2>2. ASSUME NEW d \in Digests, RescanClear(a, d) PROVE Knows(a)'
    <3>1. [pc |-> "clean", upload |-> "none", job |-> "none", todo |-> {d}] \in Rescanning
      BY DEF Rescanning
    <3> QED
      BY <1>g, <1>0, <2>2, <3>1 DEF RescanClear
  <2>3. CASE RescanWrites(a) \/ DisposeEnds(a)
    BY <1>g, <1>0, <2>3 DEF RescanWrites, DisposeEnds, Finish
  <2>4. CASE DisposeLoad(a)
    <3>1. actors[a] \in Disposing /\ actors[a].upload \in Uploads
      BY <1>t, <2>4, ByPc DEF DisposeLoad, At, Disposing
    <3> DEFINE s == [actors[a] EXCEPT !.pc = "record", !.todo = @ \cup result[actors[a].upload]]
    <3>2. s \in Disposing /\ s.upload = actors[a].upload /\ s.task = actors[a].task
      BY <1>t, <3>1 DEF Disposing, UploadsTypeOK
    <3>3. actors'[a] = s
      BY <1>g, <2>4 DEF DisposeLoad
    <3> HIDE DEF s
    <3> QED
      BY <1>d, <1>D, <3>1, <3>2, <3>3
  <2>5. CASE Record(a)
    <3>1. actors[a] \in Disposing
      BY <1>t, <2>5, ByPc DEF Record, At
    <3> DEFINE s == [actors[a] EXCEPT !.pc = "remove"]
    <3>2. s \in Disposing /\ s.upload = actors[a].upload /\ s.task = actors[a].task
      BY <1>t, <3>1, MoveType
    <3>3. actors'[a] = s
      BY <1>g, <2>5 DEF Record, Step
    <3> HIDE DEF s
    <3> QED
      BY <1>d, <1>D, <3>1, <3>2, <3>3
  <2>6. ASSUME NEW d \in Digests, RemoveCopy(a, d) PROVE Knows(a)'
    <3>1. actors[a] \in Disposing
      BY <1>t, <2>6, ByPc DEF RemoveCopy, At
    <3> DEFINE s == [actors[a] EXCEPT !.todo = @ \ {d}]
    <3>2. s \in Disposing /\ s.upload = actors[a].upload /\ s.task = actors[a].task
      BY <3>1 DEF Disposing
    <3>3. actors'[a] = s
      BY <1>g, <2>6 DEF RemoveCopy
    <3> HIDE DEF s
    <3> QED
      BY <1>d, <1>D, <3>1, <3>2, <3>3
  <2> QED
    BY <1>2, <2>1, <2>2, <2>3, <2>4, <2>5, <2>6 DEF DisposalStep, DisposeSteps
<1>3. CASE FaultStep(a)
  <2>1. CASE Die(a)
    BY <1>g, <1>0, <2>1 DEF Die, Throw
  <2>2. CASE Outlive(a)
    <3> DEFINE s == [actors[a] EXCEPT !.job = "none"]
    <3>1. actors'[a] = s /\ UNCHANGED status
      BY <1>g, <2>2 DEF Outlive, rows
    <3>2. CASE actors[a] \in Handling
      <4>1. s \in Handling /\ s.upload = actors[a].upload
        BY <3>2 DEF Handling, Held
      <4> QED
        BY <1>h, <1>H, <3>1, <3>2, <4>1
    <3>3. CASE actors[a] \in Disposing
      <4>1. s \in Disposing /\ s.upload = actors[a].upload /\ s.task = actors[a].task
        BY <3>3 DEF Disposing, Held
      <4> QED
        BY <1>d, <1>D, <3>1, <3>3, <4>1
    <3>4. CASE actors[a] \in Importing
      <4>1. s \in Importing /\ s.import = actors[a].import /\ s.pc = actors[a].pc /\ s.bytes = actors[a].bytes
        BY <3>4 DEF Importing, Held
      <4> QED
        BY <1>t, <1>i, <1>I, <3>1, <3>4, <4>1 DEF Knows
    <3>5. CASE actors[a] = Idle \/ actors[a] \in Rescanning
      BY <2>2, <3>5 DEF Outlive, Idle, Rescanning
    <3> QED
      BY <1>t, <3>2, <3>3, <3>4, <3>5 DEF ActorStates
  <2> QED
    BY <1>3, <2>1, <2>2 DEF FaultStep
<1>4. CASE ImportStep(a)
  <2>p. ASSUME actors[a] \in Importing, NEW pc \in {"fail", "drop"}, Step(a, pc) PROVE Knows(a)'
    <3> DEFINE s == [actors[a] EXCEPT !.pc = pc]
    <3>1. s \in Importing /\ s.import = actors[a].import /\ s.pc = pc
      BY <1>t, <2>p, MoveType
    <3>2. actors'[a] = s
      BY <1>g, <2>p DEF Step
    <3> HIDE DEF s
    <3> QED
      BY <1>i, <1>I, <2>p, <3>1, <3>2
  <2>1. ASSUME NEW i \in Imports, ImportStart(a, i) PROVE Knows(a)'
    <3> DEFINE s == [pc |-> "open", import |-> i, job |-> i, bytes |-> "none", scan |-> "none",
                     final |-> IsFinalAttempt(Fetch(jobs[i])), seen |-> {}]
    <3>1. s \in Importing /\ s.import = i /\ s.pc = "open"
      BY <1>t DEF Importing, Held, IsFinalAttempt
    <3>2. CASE UNCHANGED actors
      BY <1>t, <1>0, <2>1, <3>2, ByPc DEF ImportStart, At
    <3>3. CASE actors'[a] = s
      <4>1. CASE ~(InProgress(i) \/ Revived(i))
        BY <2>1, <3>2, <4>1 DEF ImportStart
      <4>2. CASE InProgress(i) \/ Revived(i)
        <5>1. imports'[i].st # "absent"
          BY <1>s, <4>2 DEF InProgress, Revived, Stays
        <5> HIDE DEF s
        <5> QED
          BY <1>i, <3>1, <3>3, <5>1
      <4> QED
        BY <4>1, <4>2
    <3> QED
      BY <1>g, <2>1, <3>2, <3>3 DEF ImportStart
  <2>2. CASE ImportOpen(a)
    <3>1. actors[a] \in Importing
      BY <1>t, <2>2, ByPc DEF ImportOpen, At
    <3> DEFINE s == [actors[a] EXCEPT !.pc = "parse", !.seen = result[UploadOf(a)]]
    <3>2. s \in Importing /\ s.import = actors[a].import /\ s.pc = "parse"
      BY <1>t, <1>I, <3>1 DEF Importing, UploadsTypeOK
    <3>3. CASE actors'[a] = s
      <4> HIDE DEF s
      <4> QED
        BY <1>i, <1>I, <3>1, <3>2, <3>3
    <3> QED
      BY <1>g, <2>2, <2>p, <3>1, <3>3 DEF ImportOpen
  <2>3. CASE ImportRejects(a) \/ ImportFails(a)
    BY <1>t, <2>3, <2>p, ByPc DEF ImportRejects, ImportFails, At
  <2>4. CASE ImportMatches(a)
    <3>1. actors[a] \in Importing
      BY <1>t, <2>4, ByPc DEF ImportMatches, At
    <3> DEFINE s == [pc |-> "evidence", upload |-> UploadOf(a), job |-> actors[a].job,
                     task |-> actors[a].import, todo |-> {Original(UploadOf(a))}]
    <3>2. s \in Disposing /\ s.upload = UploadOf(a) /\ s.task = actors[a].import
      BY <1>t, <1>I, <3>1, TypesNow DEF Disposing, Importing
    <3>3. actors'[a] = s
      BY <1>g, <2>4 DEF ImportMatches
    <3> HIDE DEF s
    <3> QED
      BY <1>d, <1>I, <3>1, <3>2, <3>3
  <2>5. ASSUME NEW scan \in {"none", "clear"}, ImportPasses(a, scan) PROVE Knows(a)'
    <3>1. actors[a] \in Importing
      BY <1>t, <2>5, ByPc DEF ImportPasses, At
    <3> DEFINE s == [actors[a] EXCEPT !.pc = "keep", !.bytes = staged[UploadOf(a)], !.scan = scan]
    <3>2. s \in Importing /\ s.import = actors[a].import /\ s.bytes = "declared"
      BY <1>t, <1>I, <2>5, <3>1 DEF Importing, UploadsTypeOK, ImportPasses, Parses
    <3>3. actors'[a] = s
      BY <1>g, <2>5 DEF ImportPasses
    <3> HIDE DEF s
    <3> QED
      BY <1>i, <1>I, <3>1, <3>2, <3>3
  <2>6. CASE ImportKeeps(a)
    <3>1. actors[a] \in Importing /\ actors[a].bytes = "declared"
      BY <1>t, <2>6, ByPc DEF ImportKeeps, At, Knows
    <3> DEFINE s == [actors[a] EXCEPT !.pc = "import"]
    <3>2. s \in Importing /\ s.import = actors[a].import /\ s.bytes = actors[a].bytes
      BY <1>t, <3>1, MoveType
    <3>3. actors'[a] = s
      BY <1>g, <2>6 DEF ImportKeeps, Step
    <3> HIDE DEF s
    <3> QED
      BY <1>i, <1>I, <3>1, <3>2, <3>3
  <2>7. CASE ImportCommit(a)
    <3>1. actors[a] \in Importing
      BY <1>t, <2>7, ByPc DEF ImportCommit, At
    <3>2. CASE Finish(a)
      BY <1>g, <1>0, <3>2 DEF Finish
    <3> QED
      BY <2>7, <2>p, <3>1, <3>2 DEF ImportCommit
  <2>8. CASE ImportDrops(a) \/ ImportThrows(a)
    BY <1>g, <1>0, <2>8 DEF ImportDrops, ImportThrows, Finish, Throw
  <2>9. CASE ImportDisposed(a)
    <3>1. actors[a] \in Disposing
      BY <1>t, <2>9, ByPc DEF ImportDisposed, ForgetOriginal, At
    <3> DEFINE s == [pc |-> "fail", import |-> actors[a].task, job |-> actors[a].job, bytes |-> "none",
                     scan |-> "none", final |-> FALSE, seen |-> {}]
    <3>2. s \in Importing /\ s.import = actors[a].task /\ s.pc = "fail"
      BY <2>9, <3>1 DEF ImportDisposed, Importing, Disposing
    <3>3. actors'[a] = s
      BY <1>g, <2>9 DEF ImportDisposed
    <3> HIDE DEF s
    <3> QED
      BY <1>i, <1>D, <2>9, <3>1, <3>2, <3>3 DEF ImportDisposed
  <2> QED
    BY <1>4, <2>1, <2>2, <2>3, <2>4, <2>5, <2>6, <2>7, <2>8, <2>9 DEF ImportStep, ImportHandler
<1> QED
  BY <1>1, <1>2, <1>3, <1>4

\* Nothing of it depends on who takes the step.
LEMMA KnownStep ==
    ASSUME TypeOK, Known, [Next]_vars
    PROVE  Known'
<1>1. CASE UploaderStep /\ UNCHANGED importVars
  <2>1. /\ UNCHANGED <<imports, actors>>
        /\ \A u \in Uploads : status[u] # "absent" => status'[u] = status[u] /\ kind'[u] = kind[u]
    BY <1>1
    DEF UploaderStep, Create, PutOriginal, UrlExpires, TtlPasses, Redeliver, rows, importVars, TypeOK, UploadsTypeOK
  <2>2. ImportsKnow'
    BY <2>1 DEF Known, ImportsKnow
  <2>3. ASSUME NEW a \in Actors PROVE Knows(a)'
    BY <2>1 DEF Known, HandlersKnow, Knows, Handling, Disposing
  <2> QED
    BY <2>2, <2>3 DEF Known, HandlersKnow
<1>2. CASE AuthorStep
  <2>1. /\ UNCHANGED <<rows, actors>>
        /\ \A i \in Imports : imports[i].st # "absent" => imports'[i] = imports[i]
        /\ \A i \in Imports : \/ imports'[i] = imports[i]
                              \/ /\ imports'[i].st = "pending"
                                 /\ imports'[i].upload \in Uploads
                                 /\ kind[imports'[i].upload] = "card"
                                 /\ status[imports'[i].upload] = "ready"
    BY <1>2 DEF AuthorStep, TakeName, CreateImport, Absent, TypeOK
  <2>2. ImportsKnow'
    BY <2>1 DEF Known, ImportsKnow, rows
  <2>3. ASSUME NEW a \in Actors PROVE Knows(a)'
    BY <2>1 DEF Known, HandlersKnow, Knows, Handling, Disposing, Importing, rows
  <2> QED
    BY <2>2, <2>3 DEF Known, HandlersKnow
<1>3. ASSUME NEW a \in Actors,
             \/ (PipelineStep(a) \/ DisposalStep(a) \/ FaultStep(a)) /\ UNCHANGED importVars
             \/ ImportStep(a)
      PROVE  Known'
  <2>1. Stays /\ Knows(a)' /\ \A b \in Actors \ {a} : actors'[b] = actors[b]
    BY <1>3, ThingsStay, HandlerKnows, OthersStay
  <2>2. ImportsKnow'
    BY <2>1 DEF Known, ImportsKnow, Stays
  <2>3. ASSUME NEW b \in Actors \ {a} PROVE Knows(b)'
    BY <2>1 DEF Known, HandlersKnow, Knows, Handling, Disposing, Importing, Stays
  <2> QED
    BY <2>1, <2>2, <2>3 DEF Known, HandlersKnow
<1>4. CASE UNCHANGED vars
  BY <1>4 DEF vars, importVars, Known, ImportsKnow, HandlersKnow, Knows
<1> QED
  BY <1>1, <1>2, <1>3, <1>4, StepKinds

LEMMA TypeStep ==
    ASSUME TypeOK, Known, [Next]_vars
    PROVE  TypeOK'
<1>t. TypeOK /\ UploadsTypeOK
  BY DEF TypeOK
<1>q. ASSUME TypesAfter, ImportTypesAfter, raced' \subseteq Contents PROVE TypeOK'
  BY <1>q DEF TypesAfter, ImportTypesAfter, TypeOK, UploadsTypeOK, ActorStates
<1>n. Noted => raced' \subseteq Contents
  BY <1>t DEF Noted, UploadsTypeOK
<1>u. UNCHANGED importVars => ImportTypesAfter
  BY <1>t DEF importVars, ImportTypesAfter, TypeOK
<1>1. CASE UploaderStep /\ UNCHANGED importVars /\ Noted
  BY <1>1, <1>q, <1>n, <1>u, UploaderTypes
<1>2. CASE AuthorStep /\ Noted
  BY <1>2, <1>q, <1>n, AuthorTypes
<1>3. ASSUME NEW a \in Actors, Noted,
             \/ (PipelineStep(a) \/ DisposalStep(a) \/ FaultStep(a)) /\ UNCHANGED importVars
             \/ ImportStep(a)
      PROVE  TypeOK'
  BY <1>3, <1>q, <1>n, <1>u, PipelineTypes, DisposalTypes, FaultTypes, ImportTypes
<1>4. CASE UNCHANGED vars
  BY <1>t, <1>4 DEF vars, importVars, TypeOK, UploadsTypeOK
<1> QED
  BY <1>1, <1>2, <1>3, <1>4, StepKinds

-----------------------------------------------------------------------------
(* The outcome of an import. *)

\* What has become of an import: a creation made of bytes that were checked exactly
\* if it says so.
LEMMA OutcomeStep ==
    ASSUME TypeOK, Known, ImportOutcome, ImportsCheckedBytes, [Next]_vars
    PROVE  ImportOutcome' /\ ImportsCheckedBytes'
<1>t. TypeOK /\ \A i \in Imports : creations[i] \in Seq({"declared", "other"})
  BY DEF TypeOK
<1>k. ASSUME UNCHANGED creations,
             \A i \in Imports : imports'[i].st = "succeeded" <=> imports[i].st = "succeeded"
      PROVE  ImportOutcome' /\ ImportsCheckedBytes'
  BY <1>k DEF ImportOutcome, ImportsCheckedBytes
<1>r. ASSUME NEW i \in Imports, imports[i].st # "succeeded", NEW st \in ImportStatuses \ {"succeeded"},
             NEW error \in ImportErrors, UNCHANGED creations,
             \/ imports' = [imports EXCEPT ![i].st = st, ![i].error = error]
             \/ imports' = [imports EXCEPT ![i].st = st] /\ error = imports[i].error
      PROVE  ImportOutcome' /\ ImportsCheckedBytes'
  <2>1. imports'[i].st = st /\ \A j \in Imports \ {i} : imports'[j] = imports[j]
    BY <1>r, RowIs
  <2>2. \A j \in Imports : imports'[j].st = "succeeded" <=> imports[j].st = "succeeded"
    BY <1>r, <2>1
  <2> QED
    BY <1>k, <1>r, <2>2
<1>s. /\ {"processing", "failed"} \subseteq ImportStatuses \ {"succeeded"}
      /\ {"none", "internal", "final"} \subseteq ImportErrors
      /\ \A i \in Imports : imports[i].error \in ImportErrors
  BY DEF TypeOK, ImportStatuses, ImportErrors
<1>i. \A a \in Actors : actors[a] \in Importing => actors[a].import \in Imports
  BY DEF Importing
<1>1. CASE UNCHANGED importVars
  BY <1>1, <1>k DEF importVars
<1>2. CASE AuthorStep
  <2>1. UNCHANGED creations
    BY <1>2 DEF AuthorStep, TakeName, CreateImport
  <2>2. \A i \in Imports : \/ imports'[i] = imports[i]
                           \/ imports[i].st = "absent" /\ imports'[i].st = "pending"
    BY <1>2 DEF AuthorStep, TakeName, CreateImport, Absent, TypeOK
  <2>3. \A i \in Imports : imports'[i].st = "succeeded" <=> imports[i].st = "succeeded"
    BY <2>2
  <2> QED
    BY <1>k, <2>1, <2>3
<1>3. ASSUME NEW a \in Actors, ImportStep(a) PROVE ImportOutcome' /\ ImportsCheckedBytes'
  <2>t. actors[a] \in ActorStates
    BY TypesNow
  <2>1. ASSUME NEW i \in Imports, ImportStart(a, i) PROVE ImportOutcome' /\ ImportsCheckedBytes'
    BY <1>k, <1>r, <1>s, <2>1 DEF ImportStart, Revived
  <2>2. CASE ImportOpen(a)
    BY <1>k, <1>r, <1>s, <1>i, <2>t, <2>2, ByPc DEF ImportOpen, At
  <2>3. CASE ImportFails(a) \/ ImportThrows(a)
    BY <1>k, <1>r, <1>s, <1>i, <2>t, <2>3, ByPc DEF ImportFails, ImportThrows, InProgress, At
  <2>4. CASE ImportCommit(a)
    <3>1. actors[a] \in Importing /\ actors[a].import \in Imports /\ actors[a].bytes = "declared"
      BY <1>i, <2>t, <2>4, ByPc DEF ImportCommit, At, Known, HandlersKnow, Knows
    <3> DEFINE i == actors[a].import
    <3>2. CASE UNCHANGED <<imports, creations>>
      BY <1>k, <3>2
    <3>3. CASE /\ imports[i].st = "processing"
               /\ creations' = [creations EXCEPT ![i] = Append(@, actors[a].bytes)]
               /\ imports' = [imports EXCEPT ![i].st = "succeeded"]
      <4>1. imports'[i].st = "succeeded" /\ \A j \in Imports \ {i} : imports'[j] = imports[j]
        <5>1. imports[i].error \in ImportErrors /\ "succeeded" \in ImportStatuses
          BY <1>s, <3>1 DEF ImportStatuses
        <5> HIDE DEF i
        <5> QED
          BY <3>1, <3>3, <5>1, RowIs DEF i
      <4>2. /\ Len(creations[i]) = 0
            /\ creations'[i] = Append(creations[i], "declared")
            /\ \A j \in Imports \ {i} : creations'[j] = creations[j]
        BY <3>1, <3>3 DEF ImportOutcome, TypeOK
      <4>3. Len(creations'[i]) = 1 /\ creations'[i][1] = "declared" /\ DOMAIN creations'[i] = {1}
        BY <1>t, <3>1, <4>2
      <4> QED
        BY <4>1, <4>2, <4>3 DEF ImportOutcome, ImportsCheckedBytes
    <3> QED
      BY <2>4, <3>2, <3>3 DEF ImportCommit
  <2>5. CASE UNCHANGED importVars
    BY <1>1, <2>5
  <2> QED
    BY <1>3, <2>1, <2>2, <2>3, <2>4, <2>5
    DEF ImportStep, ImportHandler, ImportRejects, ImportMatches, ImportPasses, ImportKeeps, ImportDrops, ImportDisposed
<1>4. CASE UNCHANGED vars
  BY <1>1, <1>4 DEF vars
<1> QED
  BY <1>1, <1>2, <1>3, <1>4, StepKinds

Base == TypeOK /\ Known /\ ImportOutcome /\ ImportsCheckedBytes

LEMMA BaseInit == ASSUME Init PROVE Base
<1>1. \A j \in Jobs : [st |-> "none", tries |-> 0, data |-> j] \in Job(Jobs)
  BY RetryLimitAssumption DEF Job, JobStates
<1>2. UploadsTypeOK
  <2>1. jobs \in [Jobs -> Job(Jobs)]
    BY <1>1 DEF Init, UploadsInit
  <2>2. faults \in 0..MaxFaults
    BY UploadsAssumption DEF Init, UploadsInit
  <2>3. /\ status \in [Uploads -> UploadStatuses]
        /\ kind \in [Uploads -> {"image", "text", "card"}]
        /\ staged \in [Uploads -> {"none", "declared", "other"}]
        /\ result \in [Uploads -> SUBSET Digests]
        /\ meta \in [Digests -> ScanStatuses]
    BY DEF Init, UploadsInit, UploadStatuses, ScanStatuses
  <2> QED
    BY <2>1, <2>2, <2>3 DEF Init, UploadsInit, UploadsTypeOK
<1>3. TypeOK
  BY <1>2
  DEF Init, UploadsInit, TypeOK, Absent, ImportStatuses, ImportErrors
<1>4. Known
  BY DEF Init, UploadsInit, Known, ImportsKnow, HandlersKnow, Knows, Absent, Idle, Handling, Disposing, Importing
<1>5. ImportOutcome /\ ImportsCheckedBytes
  BY DEF Init, ImportOutcome, ImportsCheckedBytes, Absent
<1> QED
  BY <1>3, <1>4, <1>5 DEF Base

\* Types, what handlers know, and the outcome of imports, in every behaviour.
THEOREM BaseHolds == Spec => []Base
<1>1. Base /\ [Next]_vars => Base'
  BY TypeStep, KnownStep, OutcomeStep DEF Base
<1> QED
  BY BaseInit, <1>1, PTL DEF Spec

\* Every variable keeps its type.
THEOREM TypesHold == Spec => []TypeOK
<1>1. Base => TypeOK
  BY DEF Base
<1> QED
  BY BaseHolds, <1>1, PTL

\* An import says `succeeded` exactly when one creation was made of it.
THEOREM ImportOutcomeHolds == Spec => []ImportOutcome
<1>1. Base => ImportOutcome
  BY DEF Base
<1> QED
  BY BaseHolds, <1>1, PTL

\* Only bytes the upload's checks have seen become a creation.
THEOREM CheckedBytesHold == Spec => []ImportsCheckedBytes
<1>1. Base => ImportsCheckedBytes
  BY DEF Base
<1> QED
  BY BaseHolds, <1>1, PTL
-----------------------------------------------------------------------------
(* Where a step leads. *)

HandlesNow(a, pc) ==
    actors'[a] \in Handling /\ actors'[a].pc = pc /\ actors'[a].upload = actors[a].upload

DisposesNow(a, pc, todo) ==
    /\ actors'[a] \in Disposing /\ actors'[a].pc = pc
    /\ actors'[a].upload = actors[a].upload /\ actors'[a].todo = todo

ImportsNow(a, pc) ==
    actors'[a] \in Importing /\ actors'[a].pc = pc /\ actors'[a].import = actors[a].import

\* The places of a handler's next step.
LEMMA Moves ==
    ASSUME TypeOK, Known, NEW a \in Actors
    PROVE  /\ \A s : GoTo(a, s) => actors'[a] = s
           /\ LoadRejects(a) => At(a, "load") /\ actors[a] \in Handling /\ HandlesNow(a, "reject")
           /\ LoadPasses(a) => /\ At(a, "load") /\ actors[a] \in Handling
                               /\ \E pc \in {"commit", "store"} : HandlesNow(a, pc)
           /\ Reject(a) => At(a, "reject") /\ actors[a] \in Handling /\ HandlesNow(a, "discard")
           /\ Store(a) => At(a, "store") /\ actors[a] \in Handling /\ HandlesNow(a, "commit")
           /\ \A scan \in Scans : LoadScans(a, scan) =>
                 /\ At(a, "load") /\ actors[a] \in Handling
                 /\ actors'[a] = Idle \/ HandlesNow(a, "hit") \/ HandlesNow(a, "store")
           /\ Commit(a) => /\ At(a, "commit") /\ actors[a] \in Handling
                           /\ actors'[a] = Idle \/ HandlesNow(a, "discard")
           /\ Hit(a) => /\ At(a, "hit") /\ actors[a] \in Handling
                        /\ DisposesNow(a, "evidence", {Original(actors[a].upload)})
           /\ SweepDelete /\ a = Sweeper => /\ At(a, "delete") /\ actors[a] \in Handling
                                            /\ HandlesNow(a, "expire")
           /\ DisposeLoad(a) => /\ At(a, "evidence") /\ actors[a] \in Disposing
                                /\ actors[a].upload \in Uploads
                                /\ DisposesNow(a, "record", actors[a].todo \cup result[actors[a].upload])
           /\ Record(a) => /\ At(a, "record") /\ actors[a] \in Disposing
                           /\ DisposesNow(a, "remove", actors[a].todo)
           /\ \A d \in Digests : RemoveCopy(a, d) =>
                 /\ At(a, "remove") /\ actors[a] \in Disposing
                 /\ DisposesNow(a, "remove", actors[a].todo \ {d})
           /\ ImportOpen(a) => /\ At(a, "open") /\ actors[a] \in Importing
                               /\ \/ /\ status[UploadOf(a)] = "ready"
                                     /\ ImportsNow(a, "parse") /\ actors'[a].seen = result[UploadOf(a)]
                                  \/ ImportsNow(a, "fail")
           /\ \A scan \in {"none", "clear"} : ImportPasses(a, scan) =>
                 /\ At(a, "parse") /\ actors[a] \in Importing
                 /\ ImportsNow(a, "keep") /\ actors'[a].seen = actors[a].seen
           /\ ImportKeeps(a) => /\ At(a, "keep") /\ actors[a] \in Importing
                                /\ ImportsNow(a, "import") /\ actors'[a].seen = actors[a].seen
           /\ ImportRejects(a) => At(a, "parse") /\ actors[a] \in Importing /\ ImportsNow(a, "fail")
           /\ ImportFails(a) => At(a, "fail") /\ actors[a] \in Importing /\ ImportsNow(a, "drop")
           /\ ImportCommit(a) => /\ At(a, "import") /\ actors[a] \in Importing
                                 /\ actors'[a] = Idle \/ ImportsNow(a, "fail") \/ ImportsNow(a, "drop")
<1>t. actors[a] \in ActorStates /\ UploadsTypeOK
  BY TypesNow DEF TypeOK
<1>g. ASSUME NEW s, GoTo(a, s) PROVE actors'[a] = s
  BY <1>g, GoToIs
<1>H. ASSUME actors[a] \in Handling, NEW pc \in {"reject", "store", "commit", "discard", "hit", "expire"},
             Step(a, pc)
      PROVE  HandlesNow(a, pc)
  <2> DEFINE s == [actors[a] EXCEPT !.pc = pc]
  <2>1. s \in Handling /\ s.pc = pc /\ s.upload = actors[a].upload
    BY <1>t, <1>H, MoveType
  <2>2. actors'[a] = s
    BY <1>g, <1>H DEF Step
  <2> HIDE DEF s
  <2> QED
    BY <2>1, <2>2 DEF HandlesNow
<1>I. ASSUME actors[a] \in Importing, NEW pc \in {"import", "fail", "drop"}, Step(a, pc)
      PROVE  ImportsNow(a, pc) /\ actors'[a].seen = actors[a].seen
  <2> DEFINE s == [actors[a] EXCEPT !.pc = pc]
  <2>1. s \in Importing /\ s.pc = pc /\ s.import = actors[a].import /\ s.seen = actors[a].seen
    BY <1>t, <1>I, MoveType
  <2>2. actors'[a] = s
    BY <1>g, <1>I DEF Step
  <2> HIDE DEF s
  <2> QED
    BY <2>1, <2>2 DEF ImportsNow
<1>1. LoadRejects(a) => At(a, "load") /\ actors[a] \in Handling /\ HandlesNow(a, "reject")
  BY <1>t, <1>H, ByPc DEF LoadRejects, At
<1>2. LoadPasses(a) => /\ At(a, "load") /\ actors[a] \in Handling
                       /\ \E pc \in {"commit", "store"} : HandlesNow(a, pc)
  BY <1>t, <1>H, ByPc DEF LoadPasses, At
<1>3. Reject(a) => At(a, "reject") /\ actors[a] \in Handling /\ HandlesNow(a, "discard")
  BY <1>t, <1>H, ByPc DEF Reject, At
<1>4. Store(a) => At(a, "store") /\ actors[a] \in Handling /\ HandlesNow(a, "commit")
  BY <1>t, <1>H, ByPc DEF Store, At
<1>5. ASSUME NEW scan \in Scans, LoadScans(a, scan)
      PROVE  /\ At(a, "load") /\ actors[a] \in Handling
             /\ actors'[a] = Idle \/ HandlesNow(a, "hit") \/ HandlesNow(a, "store")
  <2>1. At(a, "load") /\ actors[a] \in Handling
    BY <1>t, <1>5, ByPc DEF LoadScans, At
  <2>2. CASE GoTo(a, [actors[a] EXCEPT !.pc = "store", !.scan = scan]) /\ scan \in {"none", "clear"}
    <3>1. [actors[a] EXCEPT !.pc = "store", !.scan = scan] \in Handling
      BY <2>1, <2>2 DEF Handling
    <3>2. /\ [actors[a] EXCEPT !.pc = "store", !.scan = scan].pc = "store"
          /\ [actors[a] EXCEPT !.pc = "store", !.scan = scan].upload = actors[a].upload
      BY <2>1, <2>2 DEF Handling
    <3> QED
      BY <1>g, <2>1, <2>2, <3>1, <3>2 DEF HandlesNow
  <2>3. CASE Throw(a)
    BY <1>g, <2>1, <2>3 DEF Throw
  <2>4. CASE Step(a, "hit")
    BY <1>H, <2>1, <2>4
  <2> QED
    BY <1>5, <2>2, <2>3, <2>4 DEF LoadScans, Scans
<1>6. Commit(a) => /\ At(a, "commit") /\ actors[a] \in Handling
                   /\ actors'[a] = Idle \/ HandlesNow(a, "discard")
  BY <1>t, <1>g, <1>H, ByPc DEF Commit, At, Finish
<1>7. Hit(a) => /\ At(a, "hit") /\ actors[a] \in Handling
                /\ DisposesNow(a, "evidence", {Original(actors[a].upload)})
  <2> SUFFICES ASSUME Hit(a)
               PROVE  /\ At(a, "hit") /\ actors[a] \in Handling
                      /\ DisposesNow(a, "evidence", {Original(actors[a].upload)})
    OBVIOUS
  <2>1. At(a, "hit") /\ actors[a] \in Handling
    BY <1>t, ByPc DEF Hit, At
  <2> DEFINE s == [pc |-> "evidence", upload |-> actors[a].upload, job |-> actors[a].job,
                   task |-> "upload", todo |-> {Original(actors[a].upload)}]
  <2>2. s \in Disposing
    BY <2>1, TypesNow DEF Disposing, Handling
  <2>3. actors'[a] = s
    BY <1>g DEF Hit
  <2> QED
    BY <2>1, <2>2, <2>3 DEF DisposesNow
<1>8. SweepDelete /\ a = Sweeper => /\ At(a, "delete") /\ actors[a] \in Handling /\ HandlesNow(a, "expire")
  BY <1>t, <1>H, ByPc DEF SweepDelete, At
<1>9. ASSUME DisposeLoad(a)
      PROVE  /\ At(a, "evidence") /\ actors[a] \in Disposing /\ actors[a].upload \in Uploads
             /\ DisposesNow(a, "record", actors[a].todo \cup result[actors[a].upload])
  <2>1. At(a, "evidence") /\ actors[a] \in Disposing /\ actors[a].upload \in Uploads
    BY <1>t, <1>9, ByPc DEF DisposeLoad, At, Disposing
  <2> DEFINE s == [actors[a] EXCEPT !.pc = "record", !.todo = @ \cup result[actors[a].upload]]
  <2>2. /\ s \in Disposing /\ s.upload = actors[a].upload /\ s.pc = "record"
        /\ s.todo = actors[a].todo \cup result[actors[a].upload]
    BY <1>t, <2>1 DEF Disposing, UploadsTypeOK
  <2>3. actors'[a] = s
    BY <1>g, <1>9 DEF DisposeLoad
  <2> HIDE DEF s
  <2> QED
    BY <2>1, <2>2, <2>3 DEF DisposesNow
<1>10. ASSUME Record(a)
       PROVE  At(a, "record") /\ actors[a] \in Disposing /\ DisposesNow(a, "remove", actors[a].todo)
  <2>1. At(a, "record") /\ actors[a] \in Disposing
    BY <1>t, <1>10, ByPc DEF Record, At
  <2> QED
    <3> DEFINE s == [actors[a] EXCEPT !.pc = "remove"]
    <3>1. s \in Disposing /\ s.pc = "remove" /\ s.upload = actors[a].upload /\ s.todo = actors[a].todo
      BY <1>t, <2>1, MoveType
    <3>2. actors'[a] = s
      BY <1>g, <1>10 DEF Record, Step
    <3> HIDE DEF s
    <3> QED
      BY <2>1, <3>1, <3>2 DEF DisposesNow
<1>11. ASSUME NEW d \in Digests, RemoveCopy(a, d)
       PROVE  /\ At(a, "remove") /\ actors[a] \in Disposing
              /\ DisposesNow(a, "remove", actors[a].todo \ {d})
  <2>1. At(a, "remove") /\ actors[a] \in Disposing
    BY <1>t, <1>11, ByPc DEF RemoveCopy, At
  <2> DEFINE s == [actors[a] EXCEPT !.todo = @ \ {d}]
  <2>2. s \in Disposing /\ s.upload = actors[a].upload /\ s.pc = actors[a].pc /\ s.todo = actors[a].todo \ {d}
    BY <2>1 DEF Disposing
  <2>3. actors'[a] = s
    BY <1>g, <1>11 DEF RemoveCopy
  <2> HIDE DEF s
  <2> QED
    BY <2>1, <2>2, <2>3 DEF DisposesNow, At
<1>12. ASSUME ImportOpen(a)
       PROVE  /\ At(a, "open") /\ actors[a] \in Importing
              /\ \/ /\ status[UploadOf(a)] = "ready"
                    /\ ImportsNow(a, "parse") /\ actors'[a].seen = result[UploadOf(a)]
                 \/ ImportsNow(a, "fail")
  <2>1. At(a, "open") /\ actors[a] \in Importing /\ actors[a].import \in Imports
    BY <1>t, <1>12, ByPc DEF ImportOpen, At, Importing
  <2>2. result[UploadOf(a)] \subseteq Digests
    BY <1>t, <2>1 DEF UploadsTypeOK, Known, HandlersKnow, Knows, ImportsKnow, UploadOf
  <2> DEFINE s == [actors[a] EXCEPT !.pc = "parse", !.seen = result[UploadOf(a)]]
  <2>3. s \in Importing /\ s.import = actors[a].import /\ s.pc = "parse" /\ s.seen = result[UploadOf(a)]
    BY <2>1, <2>2 DEF Importing
  <2>4. CASE status[UploadOf(a)] = "ready" /\ actors'[a] = s
    <3> HIDE DEF s
    <3> QED
      BY <2>1, <2>3, <2>4 DEF ImportsNow
  <2> QED
    BY <1>g, <1>I, <1>12, <2>1, <2>4 DEF ImportOpen
<1>13. ASSUME NEW scan \in {"none", "clear"}, ImportPasses(a, scan)
       PROVE  /\ At(a, "parse") /\ actors[a] \in Importing
              /\ ImportsNow(a, "keep") /\ actors'[a].seen = actors[a].seen
  <2>1. At(a, "parse") /\ actors[a] \in Importing
    BY <1>t, <1>13, ByPc DEF ImportPasses, At
  <2>2. staged[UploadOf(a)] = "declared"
    BY <1>13 DEF ImportPasses, Parses
  <2> DEFINE s == [actors[a] EXCEPT !.pc = "keep", !.bytes = staged[UploadOf(a)], !.scan = scan]
  <2>3. s \in Importing /\ s.import = actors[a].import /\ s.pc = "keep" /\ s.seen = actors[a].seen
    BY <2>1, <2>2 DEF Importing
  <2>4. actors'[a] = s
    BY <1>g, <1>13 DEF ImportPasses
  <2> HIDE DEF s
  <2> QED
    BY <2>1, <2>3, <2>4 DEF ImportsNow
<1>14. ImportKeeps(a) => /\ At(a, "keep") /\ actors[a] \in Importing
                         /\ ImportsNow(a, "import") /\ actors'[a].seen = actors[a].seen
  BY <1>t, <1>I, ByPc DEF ImportKeeps, At
<1>15. ImportRejects(a) => At(a, "parse") /\ actors[a] \in Importing /\ ImportsNow(a, "fail")
  BY <1>t, <1>I, ByPc DEF ImportRejects, At
<1>16. ImportFails(a) => At(a, "fail") /\ actors[a] \in Importing /\ ImportsNow(a, "drop")
  BY <1>t, <1>I, ByPc DEF ImportFails, At
<1>17. ImportCommit(a) => /\ At(a, "import") /\ actors[a] \in Importing
                          /\ actors'[a] = Idle \/ ImportsNow(a, "fail") \/ ImportsNow(a, "drop")
  <2> SUFFICES ASSUME ImportCommit(a)
               PROVE  /\ At(a, "import") /\ actors[a] \in Importing
                      /\ actors'[a] = Idle \/ ImportsNow(a, "fail") \/ ImportsNow(a, "drop")
    OBVIOUS
  <2>1. At(a, "import") /\ actors[a] \in Importing
    BY <1>t, ByPc DEF ImportCommit, At
  <2>2. Finish(a) \/ Step(a, "fail") \/ Step(a, "drop")
    BY DEF ImportCommit
  <2> QED
    BY <1>g, <1>I, <2>1, <2>2 DEF Finish
<1> QED
  BY <1>g, <1>1, <1>2, <1>3, <1>4, <1>5, <1>6, <1>7, <1>8, <1>9, <1>10, <1>11, <1>12, <1>13, <1>14,
     <1>15, <1>16, <1>17

\* Where a handler starts, and where it ends.
LEMMA Starts ==
    ASSUME TypeOK, Known, NEW a \in Actors
    PROVE  /\ \A u \in Uploads : CompleteRead(a, u) =>
                 /\ At(a, "idle") /\ status[u] = "uploaded"
                 /\ actors'[a] \in Handling /\ actors'[a].pc = "complete" /\ actors'[a].upload = u
           /\ \A u \in Uploads : ProcessStart(a, u) =>
                 /\ At(a, "idle")
                 /\ \/ UNCHANGED actors
                    \/ /\ status[u] = "processing"
                       /\ actors'[a] \in Handling /\ actors'[a].pc = "load" /\ actors'[a].upload = u
           /\ \A u \in Uploads : SweepRead(u) /\ a = Sweeper =>
                 /\ At(a, "idle") /\ status[u] \in {"uploaded", "processing"}
                 /\ actors'[a] \in Handling /\ actors'[a].pc = "delete" /\ actors'[a].upload = u
           /\ \A d \in Digests : DisposeBlob(a, d) =>
                 /\ At(a, "idle")
                 /\ actors'[a] \in Disposing /\ actors'[a].pc = "record"
                 /\ \/ Sources(d) = {} /\ actors'[a].upload = "none" /\ actors'[a].todo = {d}
                    \/ /\ actors'[a].upload \in Sources(d)
                       /\ actors'[a].todo = {d} \cup result[actors'[a].upload]
           /\ \A d \in Digests : RescanClear(a, d) =>
                 At(a, "idle") /\ actors'[a] \in Rescanning /\ actors'[a].todo = {d}
           /\ \A i \in Imports : ImportStart(a, i) =>
                 /\ At(a, "idle")
                 /\ \/ UNCHANGED actors
                    \/ /\ actors'[a] \in Importing /\ actors'[a].pc = "open" /\ actors'[a].import = i
                       /\ imports'[i].st # "succeeded"
           /\ ImportMatches(a) =>
                 /\ At(a, "parse") /\ actors[a] \in Importing
                 /\ actors'[a] \in Disposing /\ actors'[a].pc = "evidence"
                 /\ actors'[a].upload = UploadOf(a) /\ actors'[a].todo = {Original(UploadOf(a))}
           /\ ImportDisposed(a) =>
                 /\ At(a, "remove") /\ actors[a] \in Disposing /\ actors[a].task \in Imports
                 /\ actors'[a] \in Importing /\ actors'[a].pc = "fail"
                 /\ actors'[a].import = actors[a].task
           /\ \/ CompleteWrite(a) \/ Discard(a) \/ (a = Sweeper /\ SweepMark) \/ RescanWrites(a)
              \/ DisposeEnds(a) \/ ImportDrops(a) \/ ImportThrows(a) \/ Die(a)
              => actors'[a] = Idle
           /\ CompleteWrite(a) => At(a, "complete") /\ actors[a] \in Handling
           /\ SweepMark /\ a = Sweeper => At(a, "expire") /\ actors[a] \in Handling
           /\ Outlive(a) => \/ /\ actors[a] \in Handling /\ actors'[a] \in Handling
                               /\ actors'[a].pc = actors[a].pc /\ actors'[a].upload = actors[a].upload
                            \/ /\ actors[a] \in Disposing
                               /\ DisposesNow(a, actors[a].pc, actors[a].todo)
                            \/ /\ actors[a] \in Importing /\ ImportsNow(a, actors[a].pc)
                               /\ actors'[a].seen = actors[a].seen
<1>t. /\ actors[a] \in ActorStates /\ UploadsTypeOK
      /\ Uploads \subseteq Jobs /\ Imports \subseteq Jobs
      /\ \A u \in Uploads : Original(u) \in Digests
  BY TypesNow DEF TypeOK
<1>g. ASSUME NEW s, GoTo(a, s) PROVE actors'[a] = s
  BY <1>g, GoToIs
<1>1. ASSUME NEW u \in Uploads, CompleteRead(a, u)
      PROVE  /\ At(a, "idle") /\ status[u] = "uploaded"
             /\ actors'[a] \in Handling /\ actors'[a].pc = "complete" /\ actors'[a].upload = u
  BY <1>g, <1>1 DEF CompleteRead, Handling, Held
<1>2. ASSUME NEW u \in Uploads, ProcessStart(a, u)
      PROVE  /\ At(a, "idle")
             /\ \/ UNCHANGED actors
                \/ /\ status[u] = "processing"
                   /\ actors'[a] \in Handling /\ actors'[a].pc = "load" /\ actors'[a].upload = u
  BY <1>t, <1>g, <1>2 DEF ProcessStart, Handling, Held
<1>3. ASSUME NEW u \in Uploads, SweepRead(u), a = Sweeper
      PROVE  /\ At(a, "idle") /\ status[u] \in {"uploaded", "processing"}
             /\ actors'[a] \in Handling /\ actors'[a].pc = "delete" /\ actors'[a].upload = u
  BY <1>g, <1>3 DEF SweepRead, Handling, Held
<1>4. ASSUME NEW d \in Digests, DisposeBlob(a, d)
      PROVE  /\ At(a, "idle")
             /\ actors'[a] \in Disposing /\ actors'[a].pc = "record"
             /\ \/ Sources(d) = {} /\ actors'[a].upload = "none" /\ actors'[a].todo = {d}
                \/ /\ actors'[a].upload \in Sources(d)
                   /\ actors'[a].todo = {d} \cup result[actors'[a].upload]
  <2>1. PICK u \in IF Sources(d) = {} THEN {"none"} ELSE Sources(d) :
           GoTo(a, [pc |-> "record", upload |-> u, job |-> "none", task |-> "staff",
                    todo |-> {d} \cup IF u = "none" THEN {} ELSE result[u]])
    BY <1>4 DEF DisposeBlob
  <2> DEFINE s == [pc |-> "record", upload |-> u, job |-> "none", task |-> "staff",
                   todo |-> {d} \cup IF u = "none" THEN {} ELSE result[u]]
  <2>2. CASE Sources(d) = {}
    <3>1. u = "none" /\ s.todo = {d} /\ s.upload = "none" /\ s \in Disposing /\ s.pc = "record"
      BY <2>1, <2>2 DEF Disposing, Held
    <3>2. actors'[a] = s
      BY <1>g, <2>1
    <3> HIDE DEF s
    <3> QED
      BY <1>4, <2>2, <3>1, <3>2 DEF DisposeBlob
  <2>3. CASE Sources(d) # {}
    <3>1. u \in Sources(d) /\ u \in Uploads /\ u # "none" /\ result[u] \subseteq Digests
      BY <1>t, <2>1, <2>3, UploadsAssumption DEF Sources, UploadsTypeOK
    <3>2. s.todo = {d} \cup result[u] /\ s.upload = u /\ s \in Disposing /\ s.pc = "record"
      BY <3>1 DEF Disposing, Held
    <3>3. actors'[a] = s
      BY <1>g, <2>1
    <3> HIDE DEF s
    <3> QED
      BY <1>4, <3>1, <3>2, <3>3 DEF DisposeBlob
  <2> QED
    BY <2>2, <2>3
<1>5. ASSUME NEW d \in Digests, RescanClear(a, d)
      PROVE  At(a, "idle") /\ actors'[a] \in Rescanning /\ actors'[a].todo = {d}
  BY <1>g, <1>5 DEF RescanClear, Rescanning
<1>6. ASSUME NEW i \in Imports, ImportStart(a, i)
      PROVE  /\ At(a, "idle")
             /\ \/ UNCHANGED actors
                \/ /\ actors'[a] \in Importing /\ actors'[a].pc = "open" /\ actors'[a].import = i
                   /\ imports'[i].st # "succeeded"
  <2> DEFINE s == [pc |-> "open", import |-> i, job |-> i, bytes |-> "none", scan |-> "none",
                   final |-> IsFinalAttempt(Fetch(jobs[i])), seen |-> {}]
  <2>1. s \in Importing
    BY <1>t DEF Importing, Held, IsFinalAttempt
  <2>2. /\ At(a, "idle")
        /\ UNCHANGED actors \/ (actors'[a] = s /\ (InProgress(i) \/ Revived(i)))
    BY <1>g, <1>6 DEF ImportStart
  <2>3. InProgress(i) \/ Revived(i) => imports'[i].st # "succeeded"
    <3>1. CASE Revived(i)
      BY <1>6, <3>1, RowIs DEF ImportStart, ImportStatuses, ImportErrors, TypeOK
    <3>2. CASE ~Revived(i)
      BY <1>6, <3>2 DEF ImportStart, InProgress
    <3> QED
      BY <3>1, <3>2
  <2> QED
    BY <2>1, <2>2, <2>3
<1>i. actors[a] \in Importing => actors[a].import \in Imports /\ UploadOf(a) \in Uploads
  BY DEF Importing, Known, HandlersKnow, Knows, ImportsKnow, UploadOf
<1>7. ASSUME ImportMatches(a)
      PROVE  /\ At(a, "parse") /\ actors[a] \in Importing
             /\ actors'[a] \in Disposing /\ actors'[a].pc = "evidence"
             /\ actors'[a].upload = UploadOf(a) /\ actors'[a].todo = {Original(UploadOf(a))}
  <2>1. At(a, "parse") /\ actors[a] \in Importing
    BY <1>t, <1>7, ByPc DEF ImportMatches, At
  <2> DEFINE s == [pc |-> "evidence", upload |-> UploadOf(a), job |-> actors[a].job,
                   task |-> actors[a].import, todo |-> {Original(UploadOf(a))}]
  <2>2. s \in Disposing
    BY <1>t, <1>i, <2>1 DEF Disposing, Importing
  <2>3. actors'[a] = s
    BY <1>g, <1>7 DEF ImportMatches
  <2> QED
    BY <2>1, <2>2, <2>3
<1>8. ASSUME ImportDisposed(a)
      PROVE  /\ At(a, "remove") /\ actors[a] \in Disposing /\ actors[a].task \in Imports
             /\ actors'[a] \in Importing /\ actors'[a].pc = "fail"
             /\ actors'[a].import = actors[a].task
  <2>1. At(a, "remove") /\ actors[a] \in Disposing
    BY <1>t, <1>8, ByPc DEF ImportDisposed, ForgetOriginal, At
  <2> DEFINE s == [pc |-> "fail", import |-> actors[a].task, job |-> actors[a].job, bytes |-> "none",
                   scan |-> "none", final |-> FALSE, seen |-> {}]
  <2>2. s \in Importing
    BY <1>8, <2>1 DEF ImportDisposed, Importing, Disposing
  <2>3. actors'[a] = s
    BY <1>g, <1>8 DEF ImportDisposed
  <2> QED
    BY <1>8, <2>1, <2>2, <2>3 DEF ImportDisposed
<1>9. ASSUME \/ CompleteWrite(a) \/ Discard(a) \/ (a = Sweeper /\ SweepMark) \/ RescanWrites(a)
             \/ DisposeEnds(a) \/ ImportDrops(a) \/ ImportThrows(a) \/ Die(a)
      PROVE  actors'[a] = Idle
  BY <1>g, <1>9
  DEF CompleteWrite, Discard, SweepMark, RescanWrites, DisposeEnds, ImportDrops, ImportThrows, Die, Finish, Throw
<1>10. CompleteWrite(a) => At(a, "complete") /\ actors[a] \in Handling
  BY <1>t, ByPc DEF CompleteWrite, At
<1>11. SweepMark /\ a = Sweeper => At(a, "expire") /\ actors[a] \in Handling
  BY <1>t, ByPc DEF SweepMark, At
<1>12. ASSUME Outlive(a)
       PROVE  \/ /\ actors[a] \in Handling /\ actors'[a] \in Handling
                 /\ actors'[a].pc = actors[a].pc /\ actors'[a].upload = actors[a].upload
              \/ /\ actors[a] \in Disposing
                 /\ DisposesNow(a, actors[a].pc, actors[a].todo)
              \/ /\ actors[a] \in Importing /\ ImportsNow(a, actors[a].pc)
                 /\ actors'[a].seen = actors[a].seen
  <2> DEFINE s == [actors[a] EXCEPT !.job = "none"]
  <2>1. actors'[a] = s
    BY <1>g, <1>12 DEF Outlive
  <2>2. CASE actors[a] \in Handling
    <3>1. s \in Handling /\ s.pc = actors[a].pc /\ s.upload = actors[a].upload
      BY <2>2 DEF Handling, Held
    <3> HIDE DEF s
    <3> QED
      BY <2>1, <2>2, <3>1
  <2>3. CASE actors[a] \in Disposing
    <3>1. s \in Disposing /\ s.pc = actors[a].pc /\ s.upload = actors[a].upload /\ s.todo = actors[a].todo
      BY <2>3 DEF Disposing, Held
    <3> HIDE DEF s
    <3> QED
      BY <2>1, <2>3, <3>1 DEF DisposesNow
  <2>4. CASE actors[a] \in Importing
    <3>1. s \in Importing /\ s.pc = actors[a].pc /\ s.import = actors[a].import /\ s.seen = actors[a].seen
      BY <2>4 DEF Importing, Held
    <3> HIDE DEF s
    <3> QED
      BY <2>1, <2>4, <3>1 DEF ImportsNow
  <2>5. CASE actors[a] = Idle \/ actors[a] \in Rescanning
    BY <1>12, <2>5 DEF Outlive, Idle, Rescanning
  <2> QED
    BY <1>t, <2>2, <2>3, <2>4, <2>5 DEF ActorStates
<1> QED
  BY <1>1, <1>2, <1>3, <1>4, <1>5, <1>6, <1>7, <1>8, <1>9, <1>10, <1>11, <1>12
-----------------------------------------------------------------------------
(* What a step writes. *)

\* Only a handler at work on an upload writes the upload's status.
StatusWritten(a, u) ==
    /\ actors[a] \in Handling \cup Disposing /\ actors[a].upload = u
    /\ \/ At(a, "complete") /\ status'[u] = "processing"
       \/ (At(a, "reject") \/ At(a, "expire")) /\ status'[u] = "rejected"
       \/ At(a, "commit") /\ Commit(a) /\ status[u] = "processing" /\ status'[u] = "ready"
       \/ At(a, "record") /\ status'[u] = "quarantined"

LEMMA StatusStep ==
    ASSUME TypeOK, Known, NEW a \in Actors,
           PipelineStep(a) \/ DisposalStep(a) \/ FaultStep(a) \/ ImportStep(a)
    PROVE  \A u \in Uploads : status'[u] = status[u] \/ StatusWritten(a, u)
<1>t. actors[a] \in ActorStates /\ status \in [Uploads -> UploadStatuses]
  BY TypesNow DEF TypeOK, UploadsTypeOK
<1>u. ASSUME UNCHANGED status PROVE \A u \in Uploads : status'[u] = status[u] \/ StatusWritten(a, u)
  BY <1>u
<1>1. CASE PipelineStep(a)
  <2>1. CASE CompleteWrite(a) \/ Reject(a) \/ (a = Sweeper /\ SweepMark) \/ Commit(a)
    <3> DEFINE v == actors[a].upload
    <3>1. CASE CompleteWrite(a)
      <4>1. At(a, "complete") /\ actors[a] \in Handling /\ status' = [status EXCEPT ![v] = "processing"]
        BY <3>1, Starts DEF CompleteWrite
      <4> QED
        BY <1>t, <4>1 DEF StatusWritten
    <3>2. CASE Reject(a)
      <4>1. At(a, "reject") /\ actors[a] \in Handling /\ status' = [status EXCEPT ![v] = "rejected"]
        BY <3>2, Moves DEF Reject
      <4> QED
        BY <1>t, <4>1 DEF StatusWritten
    <3>3. CASE a = Sweeper /\ SweepMark
      <4>1. At(a, "expire") /\ actors[a] \in Handling /\ status' = [status EXCEPT ![v] = "rejected"]
        BY <3>3, Starts DEF SweepMark
      <4> QED
        BY <1>t, <4>1 DEF StatusWritten
    <3>4. CASE Commit(a)
      <4>1. At(a, "commit") /\ actors[a] \in Handling
        BY <3>4, Moves
      <4>2. \/ UNCHANGED status
            \/ status[v] = "processing" /\ status' = [status EXCEPT ![v] = "ready"]
        BY <3>4 DEF Commit
      <4> QED
        BY <1>t, <3>4, <4>1, <4>2 DEF StatusWritten
    <3> QED
      BY <2>1, <3>1, <3>2, <3>3, <3>4
  <2> QED
    BY <1>1, <1>u, <2>1
    DEF PipelineStep, ProcessSteps, CompleteRead, ProcessStart, SweepDelete,
        SweepRead, LoadRejects, LoadPasses, LoadScans, Store, Discard, Hit, rows
<1>2. CASE DisposalStep(a)
  <2>1. CASE Record(a)
    BY <1>t, <2>1, Moves DEF Record, StatusWritten
  <2> QED
    BY <1>2, <1>u, <2>1
    DEF DisposalStep, DisposeSteps, DisposeBlob, RescanClear, RescanWrites, DisposeLoad, RemoveCopy, DisposeEnds, rows
<1>3. CASE FaultStep(a)
  BY <1>3, <1>u DEF FaultStep, Die, Outlive, rows
<1>4. CASE ImportStep(a)
  BY <1>4, <1>u
  DEF ImportStep, ImportHandler, ImportStart, ImportOpen, ImportRejects, ImportMatches, ImportPasses, ImportKeeps,
      ImportCommit, ImportFails, ImportDrops, ImportDisposed, ImportThrows, rows
<1> QED
  BY <1>1, <1>2, <1>3, <1>4

\* The digests an upload's row names.
ResultWritten(a, u) ==
    \/ /\ actors[a] \in Handling /\ actors[a].upload = u
       /\ \/ /\ At(a, "commit") /\ status[u] = "processing" /\ status'[u] = "ready"
             /\ result'[u] = {Original(u)} \cup IF kind[u] = "image" THEN {Image(u)} ELSE {}
          \/ At(a, "hit") /\ result'[u] = {Original(u)}
    \/ /\ actors[a] \in Importing /\ UploadOf(a) = u
       /\ \/ At(a, "parse") /\ result'[u] = (actors[a].seen \ {Raw(u), Image(u)}) \cup {Raw(u)}
          \/ At(a, "import") /\ result'[u] = (actors[a].seen \ {Raw(u), Image(u)}) \cup {Image(u)}

LEMMA ResultStep ==
    ASSUME TypeOK, Known, NEW a \in Actors,
           PipelineStep(a) \/ DisposalStep(a) \/ FaultStep(a) \/ ImportStep(a)
    PROVE  \A u \in Uploads : result'[u] = result[u] \/ ResultWritten(a, u)
<1>t. actors[a] \in ActorStates /\ UploadsTypeOK
  BY TypesNow DEF TypeOK
<1>u. ASSUME UNCHANGED result PROVE \A u \in Uploads : result'[u] = result[u] \/ ResultWritten(a, u)
  BY <1>u
<1>1. CASE PipelineStep(a)
  <2>1. CASE Commit(a)
    <3> DEFINE v == actors[a].upload
               D == {Original(v)} \cup IF kind[v] = "image" THEN {Image(v)} ELSE {}
    <3>1. At(a, "commit") /\ actors[a] \in Handling
      BY <2>1, Moves
    <3>2. \/ UNCHANGED result
          \/ /\ status[v] = "processing" /\ status' = [status EXCEPT ![v] = "ready"]
             /\ result' = [result EXCEPT ![v] = D]
      BY <2>1 DEF Commit
    <3>3. \A u \in Uploads : u # v /\ ~(UNCHANGED result) => result'[u] = result[u]
      BY <1>t, <3>2 DEF UploadsTypeOK
    <3>4. v \in Uploads
      BY <3>1 DEF Handling
    <3>5. \/ UNCHANGED result
          \/ status[v] = "processing" /\ status'[v] = "ready" /\ result'[v] = D
      BY <1>t, <3>2, <3>4 DEF UploadsTypeOK
    <3> QED
      BY <1>u, <3>1, <3>3, <3>5 DEF ResultWritten
  <2>2. CASE Hit(a)
    BY <1>t, <2>2, Moves DEF Hit, ResultWritten, UploadsTypeOK
  <2> QED
    BY <1>1, <1>u, <2>1, <2>2
    DEF PipelineStep, ProcessSteps, CompleteRead, CompleteWrite, ProcessStart, SweepDelete, SweepMark,
        SweepRead, LoadRejects, LoadPasses, LoadScans, Reject, Store, Discard, rows
<1>2. CASE DisposalStep(a)
  BY <1>2, <1>u
  DEF DisposalStep, DisposeSteps, DisposeBlob, RescanClear, RescanWrites, DisposeLoad, Record, RemoveCopy, DisposeEnds, rows
<1>3. CASE FaultStep(a)
  BY <1>3, <1>u DEF FaultStep, Die, Outlive, rows
<1>4. CASE ImportStep(a)
  <2>1. CASE ImportMatches(a)
    BY <1>t, <2>1, Starts DEF ImportMatches, Derives, ResultWritten, UploadsTypeOK
  <2>2. CASE ImportCommit(a)
    <3>1. \/ UNCHANGED result
          \/ Derives(a, Image(UploadOf(a)))
      BY <2>2 DEF ImportCommit
    <3> QED
      BY <1>t, <2>2, <3>1, Moves DEF Derives, ResultWritten, UploadsTypeOK
  <2> QED
    BY <1>4, <1>u, <2>1, <2>2
    DEF ImportStep, ImportHandler, ImportStart, ImportOpen, ImportRejects, ImportPasses, ImportKeeps,
        ImportFails, ImportDrops, ImportDisposed, ImportThrows, rows
<1> QED
  BY <1>1, <1>2, <1>3, <1>4

\* What enters and leaves the store and the blacklist.
StoreWritten(a) ==
    \/ UNCHANGED <<stored, blocked>>
    \/ /\ UNCHANGED blocked /\ At(a, "store") /\ actors[a] \in Handling
       /\ HandlesNow(a, "commit")
       /\ stored' = stored \cup {Blob(actors[a].upload)}
    \/ /\ UNCHANGED blocked /\ At(a, "keep") /\ actors[a] \in Importing
       /\ ImportsNow(a, "import")
       /\ stored' = stored \cup {Image(UploadOf(a)), Original(UploadOf(a))}
    \/ /\ UNCHANGED blocked /\ At(a, "remove") /\ actors[a] \in Disposing
       /\ \E d \in actors[a].todo : /\ stored' = stored \ {d}
                                    /\ DisposesNow(a, "remove", actors[a].todo \ {d})
    \/ /\ UNCHANGED stored /\ At(a, "record") /\ actors[a] \in Disposing
       /\ DisposesNow(a, "remove", actors[a].todo)
       /\ blocked' = blocked \cup actors[a].todo
       /\ IF actors[a].upload = "none" THEN UNCHANGED status
          ELSE status'[actors[a].upload] = "quarantined"

LEMMA StoreStep ==
    ASSUME TypeOK, Known, NEW a \in Actors,
           PipelineStep(a) \/ DisposalStep(a) \/ FaultStep(a) \/ ImportStep(a)
    PROVE  StoreWritten(a)
<1>u. ASSUME UNCHANGED <<stored, blocked>> PROVE StoreWritten(a)
  BY <1>u DEF StoreWritten
<1>1. CASE PipelineStep(a)
  <2>1. CASE Store(a)
    BY <2>1, Moves DEF Store, StoreWritten, moderation
  <2> QED
    BY <1>1, <1>u, <2>1
    DEF PipelineStep, ProcessSteps, CompleteRead, CompleteWrite, ProcessStart, SweepDelete, SweepMark,
        SweepRead, LoadRejects, LoadPasses, LoadScans, Reject, Commit, Discard, Hit, moderation
<1>2. CASE DisposalStep(a)
  <2>1. CASE Record(a)
    <3>1. At(a, "record") /\ actors[a] \in Disposing /\ DisposesNow(a, "remove", actors[a].todo)
      BY <2>1, Moves
    <3>2. IF actors[a].upload = "none" THEN UNCHANGED status
          ELSE status'[actors[a].upload] = "quarantined"
      BY <2>1, <3>1 DEF Record, Disposing, TypeOK, UploadsTypeOK
    <3> QED
      BY <2>1, <3>1, <3>2 DEF Record, StoreWritten
  <2>2. ASSUME NEW d \in Digests, RemoveCopy(a, d) PROVE StoreWritten(a)
    BY <2>2, Moves DEF RemoveCopy, StoreWritten, moderation
  <2> QED
    BY <1>2, <1>u, <2>1, <2>2
    DEF DisposalStep, DisposeSteps, DisposeBlob, RescanClear, RescanWrites, DisposeLoad, DisposeEnds, moderation
<1>3. CASE FaultStep(a)
  BY <1>3, <1>u DEF FaultStep, Die, Outlive, moderation
<1>4. CASE ImportStep(a)
  <2>1. CASE ImportKeeps(a)
    BY <2>1, Moves DEF ImportKeeps, StoreWritten, moderation
  <2> QED
    BY <1>4, <1>u, <2>1
    DEF ImportStep, ImportHandler, ImportStart, ImportOpen, ImportRejects, ImportMatches, ImportPasses,
        ImportCommit, ImportFails, ImportDrops, ImportDisposed, ImportThrows, moderation
<1> QED
  BY <1>1, <1>2, <1>3, <1>4
-----------------------------------------------------------------------------
(* How a handler gets where it is. *)

\* The places of a handler of an upload, each with the one before it.
HandlingMoves == {<<"load", "reject">>, <<"load", "store">>, <<"load", "hit">>, <<"reject", "discard">>,
                  <<"commit", "discard">>, <<"delete", "expire">>}

ToHandling(a) ==
    /\ actors'[a] \in Handling
    /\ \/ /\ At(a, "idle")
          /\ \/ actors'[a].pc = "complete" /\ status[actors'[a].upload] = "uploaded"
             \/ actors'[a].pc = "load" /\ status[actors'[a].upload] = "processing"
             \/ actors'[a].pc = "delete" /\ status[actors'[a].upload] \in {"uploaded", "processing"}
       \/ /\ actors[a] \in Handling /\ actors'[a].upload = actors[a].upload
          /\ \/ <<actors[a].pc, actors'[a].pc>> \in HandlingMoves
             \/ At(a, "load") /\ actors'[a].pc = "commit" /\ kind[actors[a].upload] = "card"
             \/ /\ At(a, "store") /\ actors'[a].pc = "commit"
                /\ stored' = stored \cup {Blob(actors[a].upload)}
             \/ actors'[a].pc = actors[a].pc /\ UNCHANGED <<rows, stored, blocked>>

ToDisposing(a) ==
    /\ actors'[a] \in Disposing
    /\ \/ /\ At(a, "idle") /\ actors'[a].pc = "record" /\ UNCHANGED <<rows, stored, blocked>>
          /\ \E d \in stored :
                \/ Sources(d) = {} /\ actors'[a].upload = "none" /\ actors'[a].todo = {d}
                \/ /\ actors'[a].upload \in Sources(d)
                   /\ actors'[a].todo = {d} \cup result[actors'[a].upload]
       \/ /\ At(a, "hit") /\ actors[a] \in Handling
          /\ DisposesNow(a, "evidence", {Original(actors[a].upload)})
          /\ result'[actors[a].upload] = {Original(actors[a].upload)}
       \/ /\ At(a, "parse") /\ actors[a] \in Importing
          /\ actors'[a].pc = "evidence" /\ actors'[a].upload = UploadOf(a)
          /\ actors'[a].todo = {Original(UploadOf(a))}
          /\ Original(UploadOf(a)) \in actors[a].seen => Original(UploadOf(a)) \in result'[UploadOf(a)]
       \/ /\ At(a, "evidence") /\ actors[a] \in Disposing /\ actors[a].upload \in Uploads
          /\ DisposesNow(a, "record", actors[a].todo \cup result[actors[a].upload])
       \/ /\ At(a, "record") /\ actors[a] \in Disposing
          /\ DisposesNow(a, "remove", actors[a].todo)
          /\ blocked' = blocked \cup actors[a].todo /\ UNCHANGED stored
          /\ actors[a].upload # "none" => status'[actors[a].upload] = "quarantined"
       \/ /\ At(a, "remove") /\ actors[a] \in Disposing
          /\ \E d \in actors[a].todo : /\ stored' = stored \ {d}
                                       /\ DisposesNow(a, "remove", actors[a].todo \ {d})
          /\ UNCHANGED <<rows, blocked>>
       \/ /\ actors[a] \in Disposing /\ DisposesNow(a, actors[a].pc, actors[a].todo)
          /\ UNCHANGED <<rows, stored, blocked>>

ToImporting(a) ==
    /\ actors'[a] \in Importing
    /\ \/ /\ At(a, "idle") /\ actors'[a].pc = "open"
          /\ imports'[actors'[a].import].st # "succeeded"
       \/ /\ At(a, "open") /\ actors[a] \in Importing /\ ImportsNow(a, "parse")
          /\ status[UploadOf(a)] = "ready" /\ actors'[a].seen = result[UploadOf(a)]
       \/ /\ actors[a] \in Importing /\ actors'[a].import = actors[a].import
          /\ actors'[a].pc \in {"fail", "drop"}
       \/ /\ At(a, "parse") /\ actors[a] \in Importing /\ ImportsNow(a, "keep")
          /\ actors'[a].seen = actors[a].seen
          /\ UNCHANGED <<rows, stored, blocked>> /\ Image(UploadOf(a)) \notin blocked
       \/ /\ At(a, "keep") /\ actors[a] \in Importing /\ ImportsNow(a, "import")
          /\ actors'[a].seen = actors[a].seen /\ UNCHANGED <<rows, blocked>>
          /\ stored' = stored \cup {Image(UploadOf(a)), Original(UploadOf(a))}
       \/ /\ At(a, "remove") /\ actors[a] \in Disposing /\ actors'[a].pc = "fail"
          /\ actors[a].todo = {} /\ actors'[a].import = actors[a].task
       \/ /\ actors[a] \in Importing /\ ImportsNow(a, actors[a].pc)
          /\ actors'[a].seen = actors[a].seen /\ UNCHANGED <<rows, stored, blocked>>

Arrives(a) ==
    \/ UNCHANGED <<actors, rows, stored, blocked>>
    \/ actors'[a] = Idle
    \/ actors'[a] \in Rescanning /\ At(a, "idle")
    \/ ToHandling(a) \/ ToDisposing(a) \/ ToImporting(a)

LEMMA Arrival ==
    ASSUME TypeOK, Known, NEW a \in Actors,
           PipelineStep(a) \/ DisposalStep(a) \/ FaultStep(a) \/ ImportStep(a)
    PROVE  Arrives(a)
<1>t. actors[a] \in ActorStates /\ UploadsTypeOK
  BY TypesNow DEF TypeOK
<1>0. ASSUME UNCHANGED <<actors, rows, stored, blocked>> \/ actors'[a] = Idle PROVE Arrives(a)
  BY <1>0 DEF Arrives
<1>h. ASSUME NEW p, NEW q, At(a, p), actors[a] \in Handling, HandlesNow(a, q), <<p, q>> \in HandlingMoves
      PROVE  Arrives(a)
  BY <1>h DEF HandlesNow, At, Arrives, ToHandling
<1>1. CASE PipelineStep(a)
  <2>1. ASSUME NEW u \in Uploads, CompleteRead(a, u) \/ ProcessStart(a, u) \/ (a = Sweeper /\ SweepRead(u))
        PROVE  Arrives(a)
    <3>1. UNCHANGED <<rows, stored, blocked>>
      BY <2>1 DEF CompleteRead, ProcessStart, SweepRead, moderation
    <3> QED
      BY <1>0, <2>1, <3>1, Starts DEF Arrives, ToHandling
  <2>2. CASE CompleteWrite(a) \/ Discard(a) \/ (a = Sweeper /\ SweepMark)
    BY <1>0, <2>2, Starts
  <2>3. CASE LoadPasses(a)
    <3>1. At(a, "load") /\ actors[a] \in Handling
      BY <2>3, Moves
    <3>2. \/ kind[actors[a].upload] = "card" /\ HandlesNow(a, "commit")
          \/ HandlesNow(a, "store")
      <4>1. Step(a, IF kind[actors[a].upload] = "card" THEN "commit" ELSE "store")
        BY <2>3 DEF LoadPasses
      <4>2. CASE kind[actors[a].upload] = "card"
        <5>1. actors'[a] = [actors[a] EXCEPT !.pc = "commit"]
          BY <4>1, <4>2, Moves DEF Step
        <5> QED
          BY <1>t, <3>1, <4>2, <5>1, MoveType DEF HandlesNow
      <4>3. CASE kind[actors[a].upload] # "card"
        <5>1. actors'[a] = [actors[a] EXCEPT !.pc = "store"]
          BY <4>1, <4>3, Moves DEF Step
        <5> QED
          BY <1>t, <3>1, <5>1, MoveType DEF HandlesNow
      <4> QED
        BY <4>2, <4>3
    <3>3. CASE kind[actors[a].upload] = "card" /\ HandlesNow(a, "commit")
      BY <3>1, <3>3 DEF HandlesNow, Arrives, ToHandling
    <3>4. CASE HandlesNow(a, "store")
      BY <1>h, <3>1, <3>4 DEF HandlingMoves
    <3> QED
      BY <3>2, <3>3, <3>4
  <2>4. CASE LoadRejects(a) \/ Reject(a) \/ Commit(a) \/ (a = Sweeper /\ SweepDelete)
    BY <1>0, <1>h, <2>4, Moves DEF HandlingMoves
  <2>5. ASSUME NEW scan \in Scans, LoadScans(a, scan) PROVE Arrives(a)
    BY <1>0, <1>h, <2>5, Moves DEF HandlingMoves
  <2>6. CASE Store(a)
    BY <2>6, Moves DEF Store, HandlesNow, Arrives, ToHandling
  <2>7. CASE Hit(a)
    <3>1. /\ At(a, "hit") /\ actors[a] \in Handling
          /\ DisposesNow(a, "evidence", {Original(actors[a].upload)})
      BY <2>7, Moves
    <3>2. result'[actors[a].upload] = {Original(actors[a].upload)}
      BY <1>t, <2>7, <3>1 DEF Hit, Handling, UploadsTypeOK
    <3> QED
      BY <3>1, <3>2 DEF DisposesNow, Arrives, ToDisposing
  <2> QED
    BY <1>1, <2>1, <2>2, <2>3, <2>4, <2>5, <2>6, <2>7 DEF PipelineStep, ProcessSteps
<1>2. CASE DisposalStep(a)
  <2>1. ASSUME NEW d \in Digests, DisposeBlob(a, d) PROVE Arrives(a)
    <3>1. d \in stored /\ UNCHANGED <<rows, stored, blocked>>
      BY <2>1 DEF DisposeBlob, moderation
    <3> QED
      BY <2>1, <3>1, Starts DEF Arrives, ToDisposing
  <2>2. ASSUME NEW d \in Digests, RescanClear(a, d) PROVE Arrives(a)
    BY <2>2, Starts DEF Arrives
  <2>3. CASE RescanWrites(a) \/ DisposeEnds(a)
    BY <1>0, <2>3, Starts
  <2>4. CASE DisposeLoad(a)
    BY <2>4, Moves DEF DisposesNow, Arrives, ToDisposing
  <2>5. CASE Record(a)
    <3>1. /\ blocked' = blocked \cup actors[a].todo /\ UNCHANGED stored
          /\ actors[a].upload # "none" => status' = [status EXCEPT ![actors[a].upload] = "quarantined"]
      BY <2>5 DEF Record
    <3>2. At(a, "record") /\ actors[a] \in Disposing /\ DisposesNow(a, "remove", actors[a].todo)
      BY <2>5, Moves
    <3>3. actors[a].upload # "none" => status'[actors[a].upload] = "quarantined"
      BY <1>t, <3>1, <3>2 DEF Disposing, UploadsTypeOK
    <3> QED
      BY <3>1, <3>2, <3>3 DEF DisposesNow, Arrives, ToDisposing
  <2>6. ASSUME NEW d \in Digests, RemoveCopy(a, d) PROVE Arrives(a)
    <3>1. d \in actors[a].todo /\ stored' = stored \ {d} /\ UNCHANGED <<rows, blocked>>
      BY <2>6 DEF RemoveCopy, moderation
    <3>2. /\ At(a, "remove") /\ actors[a] \in Disposing
          /\ DisposesNow(a, "remove", actors[a].todo \ {d})
      BY <2>6, Moves
    <3> QED
      BY <3>1, <3>2 DEF DisposesNow, Arrives, ToDisposing
  <2> QED
    BY <1>2, <2>1, <2>2, <2>3, <2>4, <2>5, <2>6 DEF DisposalStep, DisposeSteps
<1>3. CASE FaultStep(a)
  <2>1. CASE Die(a)
    BY <1>0, <2>1, Starts
  <2>2. CASE Outlive(a)
    <3>1. UNCHANGED <<rows, stored, blocked>>
      BY <2>2 DEF Outlive, moderation
    <3> QED
      BY <2>2, <3>1, Starts DEF DisposesNow, ImportsNow, Arrives, ToHandling, ToDisposing, ToImporting
  <2> QED
    BY <1>3, <2>1, <2>2 DEF FaultStep
<1>4. CASE ImportStep(a)
  <2>1. ASSUME NEW i \in Imports, ImportStart(a, i) PROVE Arrives(a)
    <3>1. UNCHANGED <<rows, stored, blocked>>
      BY <2>1 DEF ImportStart, moderation
    <3> QED
      BY <1>0, <2>1, <3>1, Starts DEF Arrives, ToImporting
  <2>2. CASE ImportOpen(a) \/ ImportRejects(a) \/ ImportFails(a) \/ ImportCommit(a)
    BY <1>0, <2>2, Moves DEF ImportsNow, Arrives, ToImporting
  <2>3. CASE ImportMatches(a)
    <3>1. UploadOf(a) \in Uploads
      BY <2>3, Starts DEF Known, HandlersKnow, Knows, ImportsKnow, UploadOf, Importing
    <3>2. Original(UploadOf(a)) \in actors[a].seen => Original(UploadOf(a)) \in result'[UploadOf(a)]
      BY <1>t, <2>3, <3>1 DEF ImportMatches, Derives, UploadsTypeOK, Original, Raw, Image
    <3> QED
      BY <2>3, <3>2, Starts DEF Arrives, ToDisposing
  <2>4. ASSUME NEW scan \in {"none", "clear"}, ImportPasses(a, scan) PROVE Arrives(a)
    <3>1. UNCHANGED <<rows, stored, blocked>> /\ Image(UploadOf(a)) \notin blocked
      BY <2>4 DEF ImportPasses, Parses, moderation
    <3> QED
      BY <2>4, <3>1, Moves DEF ImportsNow, Arrives, ToImporting
  <2>5. CASE ImportKeeps(a)
    <3>1. /\ UNCHANGED <<rows, blocked>>
          /\ stored' = stored \cup {Image(UploadOf(a)), Original(UploadOf(a))}
      BY <2>5 DEF ImportKeeps, moderation
    <3> QED
      BY <2>5, <3>1, Moves DEF ImportsNow, Arrives, ToImporting
  <2>6. CASE ImportDrops(a) \/ ImportThrows(a)
    BY <1>0, <2>6, Starts
  <2>7. CASE ImportDisposed(a)
    <3>1. actors[a].todo = {}
      BY <2>7 DEF ImportDisposed, ForgetOriginal
    <3> QED
      BY <2>7, <3>1, Starts DEF Arrives, ToImporting
  <2> QED
    BY <1>4, <2>1, <2>2, <2>3, <2>4, <2>5, <2>6, <2>7 DEF ImportStep, ImportHandler
<1> QED
  BY <1>1, <1>2, <1>3, <1>4
-----------------------------------------------------------------------------
(* What is ready has its bytes. *)

\* The blob is written before the row, and only what is blocked is removed.
Blobs ==
    /\ ReadyHasItsBytes
    /\ \A a \in Actors : At(a, "commit") /\ kind[actors[a].upload] # "card" =>
                             Blob(actors[a].upload) \in stored \cup blocked
    /\ \A a \in Actors : At(a, "remove") => actors[a].todo \subseteq blocked

LEMMA BlobsStep ==
    ASSUME TypeOK, Known, Blobs, [Next]_vars
    PROVE  Blobs'
<1>t. /\ UploadsTypeOK
      /\ \A a \in Actors : /\ At(a, "commit") => actors[a] \in Handling
                           /\ actors[a] \in Handling => /\ actors[a].upload \in Uploads
                                                        /\ status[actors[a].upload] # "absent"
  BY TypesNow, ByPc, UploadsAssumption
  DEF TypeOK, At, Known, HandlersKnow, Knows, Handling
<1>1. CASE UploaderStep
  <2>1. /\ UNCHANGED <<stored, blocked, actors>>
        /\ \A u \in Uploads : status[u] # "absent" => status'[u] = status[u] /\ kind'[u] = kind[u]
        /\ \A u \in Uploads : status'[u] = "ready" => status[u] = "ready"
    BY <1>1, <1>t
    DEF UploaderStep, Create, PutOriginal, UrlExpires, TtlPasses, Redeliver, rows, moderation, UploadsTypeOK
  <2> QED
    BY <1>t, <2>1 DEF Blobs, ReadyHasItsBytes, At, Blob, Image, Original
<1>2. CASE AuthorStep
  <2>1. UNCHANGED <<rows, stored, moderation, actors>>
    BY <1>2 DEF AuthorStep, TakeName, CreateImport
  <2> QED
    BY <2>1 DEF Blobs, ReadyHasItsBytes, At, Blob, Image, Original, rows, moderation
<1>3. ASSUME NEW a \in Actors,
             \/ (PipelineStep(a) \/ DisposalStep(a) \/ FaultStep(a)) /\ UNCHANGED importVars
             \/ ImportStep(a)
      PROVE  Blobs'
  <2>1. /\ Stays /\ Arrives(a) /\ StoreWritten(a)
        /\ \A b \in Actors \ {a} : actors'[b] = actors[b]
        /\ \A u \in Uploads : status'[u] = status[u] \/ StatusWritten(a, u)
    BY <1>3, ThingsStay, Arrival, StoreStep, StatusStep, OthersStay
  <2>k. UNCHANGED kind /\ \A u \in Uploads : Blob(u)' = Blob(u)
    BY <2>1 DEF Stays, Blob, Image, Original
  <2>2. stored \cup blocked \subseteq stored' \cup blocked' /\ blocked \subseteq blocked'
    BY <2>1 DEF StoreWritten, Blobs
  <2>3. ReadyHasItsBytes'
    <3> SUFFICES ASSUME NEW u \in Uploads, status'[u] = "ready", kind[u] # "card"
                 PROVE  Blob(u) \in stored' \cup blocked'
      BY <2>k DEF ReadyHasItsBytes
    <3>1. CASE status[u] = "ready"
      BY <2>2, <3>1 DEF Blobs, ReadyHasItsBytes
    <3>2. CASE status[u] # "ready"
      <4>1. At(a, "commit") /\ actors[a].upload = u
        BY <2>1, <3>2 DEF StatusWritten
      <4> QED
        BY <2>2, <4>1 DEF Blobs
    <3> QED
      BY <3>1, <3>2
  <2>4. ASSUME NEW b \in Actors, actors'[b].pc = "commit", kind[actors'[b].upload] # "card"
        PROVE  Blob(actors'[b].upload) \in stored' \cup blocked'
    <3>1. CASE b # a \/ UNCHANGED actors
      BY <2>1, <2>2, <2>4, <3>1 DEF Blobs, At
    <3>2. CASE b = a /\ ~UNCHANGED actors
      <4>1. ToHandling(a)
        BY <2>1, <2>4, <3>2
        DEF Arrives, Idle, Rescanning, ToDisposing, ToImporting, Disposing, Importing
      <4>2. \/ stored' = stored \cup {Blob(actors'[a].upload)}
            \/ At(a, "commit") /\ actors'[a].upload = actors[a].upload
        BY <2>4, <3>2, <4>1 DEF ToHandling, HandlingMoves, At
      <4> QED
        BY <2>2, <2>4, <3>2, <4>2 DEF Blobs
    <3> QED
      BY <3>1, <3>2
  <2>5. ASSUME NEW b \in Actors, actors'[b].pc = "remove" PROVE actors'[b].todo \subseteq blocked'
    <3>1. CASE b # a \/ UNCHANGED actors
      BY <2>1, <2>2, <2>5, <3>1 DEF Blobs, At
    <3>2. CASE b = a /\ ~UNCHANGED actors
      <4>1. ToDisposing(a)
        BY <2>1, <2>5, <3>2
        DEF Arrives, Idle, Rescanning, ToHandling, ToImporting, Handling, Importing
      <4> QED
        BY <2>2, <2>5, <3>2, <4>1 DEF ToDisposing, DisposesNow, Blobs, At
    <3> QED
      BY <3>1, <3>2
  <2> QED
    BY <2>k, <2>3, <2>4, <2>5 DEF Blobs, At, Blob, Image, Original
<1>4. CASE UNCHANGED vars
  BY <1>4 DEF vars, Blobs, ReadyHasItsBytes, At, Blob, Image, Original
<1> QED
  BY <1>1, <1>2, <1>3, <1>4, StepKinds

\* A ready upload's blob is in the store, unless it has been blocked since.
THEOREM ReadyBytesHold == Spec => []ReadyHasItsBytes
<1>1. Init => Blobs
  BY DEF Init, UploadsInit, Blobs, ReadyHasItsBytes, At, Idle
<1>2. Base /\ Blobs /\ [Next]_vars => Blobs'
  BY BlobsStep DEF Base
<1>3. Blobs => ReadyHasItsBytes
  BY DEF Blobs
<1> QED
  BY BaseHolds, <1>1, <1>2, <1>3, PTL DEF Spec
-----------------------------------------------------------------------------
(* Handlers that have a content to themselves. *)

\* Who has been at work together is noted.
Overlaps == \A c \in Contents : Overlap(c) => c \in raced

LEMMA OverlapStep ==
    ASSUME Overlaps, [Next]_vars
    PROVE  Overlaps' /\ raced \subseteq raced'
<1>1. CASE Next
  BY <1>1 DEF Next, Noted, Overlaps
<1>2. CASE UNCHANGED vars
  BY <1>2 DEF vars, importVars, Overlaps, Overlap, Works, At, UploadOfActor, UploadOf
<1> QED
  BY <1>1, <1>2

\* A handler of an upload works on its content.
LEMMA WorksOn ==
    ASSUME NEW a \in Actors
    PROVE  /\ actors[a] \in Handling => Works(a, Content[actors[a].upload])
           /\ actors[a] \in Disposing /\ actors[a].upload \in Uploads => Works(a, Content[actors[a].upload])
           /\ actors[a] \in Importing /\ UploadOf(a) \in Uploads => Works(a, Content[UploadOf(a)])
<1>n. "none" \notin Uploads
  BY UploadsAssumption
<1>1. ASSUME actors[a] \in Handling
      PROVE  "import" \notin DOMAIN actors[a] /\ actors[a].upload \in Uploads /\ actors[a].pc # "idle"
  BY <1>1 DEF Handling
<1>2. ASSUME actors[a] \in Disposing
      PROVE  "import" \notin DOMAIN actors[a] /\ actors[a].pc # "idle"
  BY <1>2 DEF Disposing
<1>3. ASSUME actors[a] \in Importing
      PROVE  "import" \in DOMAIN actors[a] /\ actors[a].pc # "idle"
  BY <1>3 DEF Importing
<1> QED
  BY <1>n, <1>1, <1>2, <1>3 DEF Works, UploadOfActor, At

\* Two handlers of one upload are noted.
LEMMA Alone ==
    ASSUME TypeOK, Known, Overlaps, NEW a \in Actors, NEW b \in Actors, a # b, NEW u \in Uploads,
           actors[a] \in Handling \cup Disposing, actors[a].upload = u,
           \/ actors[b] \in Handling \cup Disposing /\ actors[b].upload = u
           \/ actors[b] \in Importing /\ UploadOf(b) = u
    PROVE  Content[u] \in raced
<1>1. Content[u] \in Contents
  BY UploadsAssumption
<1>2. Works(a, Content[u]) /\ Works(b, Content[u])
  BY WorksOn
<1> QED
  BY <1>1, <1>2 DEF Overlaps, Overlap

\* What a handler has read of its upload's status still holds.
FitHandling(a) ==
    actors[a] \in Handling /\ Content[actors[a].upload] \notin raced =>
        /\ At(a, "complete") => status[actors[a].upload] = "uploaded"
        /\ actors[a].pc \in {"load", "reject", "store", "commit", "hit"} =>
               status[actors[a].upload] = "processing"
        /\ actors[a].pc \in {"delete", "expire"} => status[actors[a].upload] \in {"uploaded", "processing"}

FitImporting(a) ==
    /\ actors[a] \in Importing /\ Content[UploadOf(a)] \notin raced
    /\ actors[a].pc \in {"parse", "keep", "import"}
    => status[UploadOf(a)] = "ready"

Fit == \A a \in Actors : FitHandling(a) /\ FitImporting(a)

LEMMA FitStep ==
    ASSUME TypeOK, Known, Overlaps, Fit, [Next]_vars
    PROVE  Fit'
<1>t. /\ UploadsTypeOK
      /\ \A a \in Actors : /\ actors[a] \in Handling => /\ actors[a].upload \in Uploads
                                                        /\ status[actors[a].upload] # "absent"
                           /\ actors[a] \in Importing => /\ actors[a].import \in Imports
                                                         /\ imports[actors[a].import].st # "absent"
                                                         /\ UploadOf(a) \in Uploads
                                                         /\ status[UploadOf(a)] # "absent"
  BY UploadsAssumption
  DEF TypeOK, Known, HandlersKnow, Knows, ImportsKnow, UploadOf, Handling, Importing
<1>r. raced \subseteq raced'
  BY OverlapStep
<1>1. ASSUME UNCHANGED actors,
             \A u \in Uploads : status[u] # "absent" => status'[u] = status[u],
             \A i \in Imports : imports[i].st # "absent" => imports'[i].upload = imports[i].upload
      PROVE  Fit'
  <2>1. ASSUME NEW a \in Actors PROVE FitHandling(a)'
    BY <1>t, <1>r, <1>1 DEF Fit, FitHandling, At
  <2>2. ASSUME NEW a \in Actors PROVE FitImporting(a)'
    BY <1>t, <1>r, <1>1 DEF Fit, FitImporting, UploadOf
  <2> QED
    BY <2>1, <2>2 DEF Fit
<1>2. CASE UploaderStep /\ UNCHANGED importVars
  <2>1. /\ UNCHANGED <<actors, imports>>
        /\ \A u \in Uploads : status[u] # "absent" => status'[u] = status[u]
    BY <1>t, <1>2
    DEF UploaderStep, Create, PutOriginal, UrlExpires, TtlPasses, Redeliver, rows, importVars, UploadsTypeOK
  <2> QED
    BY <1>1, <2>1
<1>3. CASE AuthorStep
  <2>1. /\ UNCHANGED <<actors, status>>
        /\ \A i \in Imports : imports[i].st # "absent" => imports'[i] = imports[i]
    BY <1>3 DEF AuthorStep, TakeName, CreateImport, Absent, rows, TypeOK
  <2> QED
    BY <1>1, <2>1
<1>4. ASSUME NEW a \in Actors,
             \/ (PipelineStep(a) \/ DisposalStep(a) \/ FaultStep(a)) /\ UNCHANGED importVars
             \/ ImportStep(a)
      PROVE  Fit'
  <2>1. /\ Stays /\ Arrives(a)
        /\ \A b \in Actors \ {a} : actors'[b] = actors[b]
        /\ \A u \in Uploads : status'[u] = status[u] \/ StatusWritten(a, u)
    BY <1>4, ThingsStay, Arrival, StatusStep, OthersStay
  <2>2. ASSUME NEW b \in Actors \ {a} PROVE FitHandling(b)' /\ FitImporting(b)'
    <3>1. ASSUME actors[b] \in Handling, Content[actors[b].upload] \notin raced
          PROVE  status'[actors[b].upload] = status[actors[b].upload]
      BY <1>t, <2>1, <3>1, Alone DEF StatusWritten
    <3>2. ASSUME actors[b] \in Importing, Content[UploadOf(b)] \notin raced
          PROVE  status'[UploadOf(b)] = status[UploadOf(b)]
      BY <1>t, <2>1, <3>2, Alone DEF StatusWritten
    <3>3. actors[b] \in Importing => UploadOf(b)' = UploadOf(b)
      BY <1>t, <2>1 DEF Stays, UploadOf
    <3>4. FitHandling(b)'
      BY <1>r, <2>1, <3>1 DEF Fit, FitHandling, At
    <3>5. FitImporting(b)'
      BY <1>r, <2>1, <3>2, <3>3 DEF Fit, FitImporting
    <3> QED
      BY <3>4, <3>5
  <2>3. CASE UNCHANGED <<actors, rows, stored, blocked>>
    BY <1>1, <2>1, <2>3 DEF Stays, rows
  <2>4. CASE ToHandling(a)
    <3>1. FitImporting(a)'
      BY <2>4 DEF ToHandling, FitImporting, Handling, Importing
    <3>2. FitHandling(a)'
      BY <1>r, <1>t, <2>1, <2>4
      DEF ToHandling, HandlingMoves, Fit, FitHandling, At, StatusWritten, rows, Handling, Disposing
    <3> QED
      BY <2>2, <3>1, <3>2 DEF Fit
  <2>5. CASE ToImporting(a)
    <3>1. FitHandling(a)'
      BY <2>5 DEF ToImporting, FitHandling, Handling, Importing
    <3>2. FitImporting(a)'
      BY <1>r, <1>t, <2>1, <2>5
      DEF ToImporting, ImportsNow, Fit, FitImporting, At, StatusWritten, rows, Stays, UploadOf
    <3> QED
      BY <2>2, <3>1, <3>2 DEF Fit
  <2>6. CASE actors'[a] = Idle \/ actors'[a] \in Rescanning \/ ToDisposing(a)
    <3>1. actors'[a] \notin Handling /\ actors'[a] \notin Importing
      BY <2>6 DEF Idle, Rescanning, ToDisposing, Disposing, Handling, Importing
    <3>2. FitHandling(a)' /\ FitImporting(a)'
      BY <3>1 DEF FitHandling, FitImporting
    <3> QED
      BY <2>2, <3>2 DEF Fit
  <2> QED
    BY <2>1, <2>3, <2>4, <2>5, <2>6 DEF Arrives
<1>5. CASE UNCHANGED vars
  BY <1>1, <1>5 DEF vars, importVars
<1> QED
  BY <1>2, <1>3, <1>4, <1>5, StepKinds
-----------------------------------------------------------------------------
(* What an import leaves can be traced, and what is ready is kept. *)

\* The upload of an import was ready, and names what a creation was made with.
Traced ==
    \A i \in Imports :
        imports[i].st # "absent" /\ Content[imports[i].upload] \notin raced =>
            /\ status[imports[i].upload] \in {"ready", "quarantined"}
            /\ imports[i].st = "succeeded" => Image(imports[i].upload) \in result[imports[i].upload]

\* A handler that has the content to itself works on an import that has not succeeded.
Undecided(a) ==
    /\ actors[a] \in Importing /\ actors[a].pc \in {"open", "parse", "keep", "import"}
    /\ Content[UploadOf(a)] \notin raced
    => imports[actors[a].import].st # "succeeded"

\* An upload is imported once.
Once ==
    \A i, j \in Imports :
        /\ imports[i].st # "absent" /\ imports[j].st # "absent"
        /\ imports[i].upload = imports[j].upload
        => i = j

Working == Once /\ \A a \in Actors : Undecided(a)

\* An import that has succeeded in this step wrote its upload's row, and its handler
\* has nothing left but to drop the original.
LEMMA SucceededStep ==
    ASSUME TypeOK, Known, NEW a \in Actors, NEW i \in Imports,
           \/ (PipelineStep(a) \/ DisposalStep(a) \/ FaultStep(a)) /\ UNCHANGED importVars
           \/ ImportStep(a),
           imports'[i].st = "succeeded", imports[i].st # "succeeded"
    PROVE  /\ imports[i].upload \in Uploads /\ Image(imports[i].upload) \in result'[imports[i].upload]
           /\ actors[a] \in Importing /\ actors[a].import = i /\ actors'[a].pc = "drop"
<1>t. actors[a] \in ActorStates /\ UploadsTypeOK
  BY TypesNow DEF TypeOK
<1>s. /\ {"processing", "failed", "succeeded"} \subseteq ImportStatuses
      /\ {"none", "internal", "final"} \subseteq ImportErrors
      /\ \A j \in Imports : imports[j].error \in ImportErrors
  BY DEF TypeOK, ImportStatuses, ImportErrors
<1>r. ASSUME NEW j \in Imports, NEW st \in ImportStatuses \ {"succeeded"}, NEW error \in ImportErrors,
             \/ imports' = [imports EXCEPT ![j].st = st, ![j].error = error]
             \/ imports' = [imports EXCEPT ![j].st = st] /\ error = imports[j].error
      PROVE  FALSE
  <2>1. imports'[j].st = st /\ \A k \in Imports \ {j} : imports'[k] = imports[k]
    BY <1>r, RowIs
  <2> QED
    BY <1>r, <2>1
<1>u. ~ UNCHANGED imports
  OBVIOUS
<1>1. ASSUME NEW j \in Imports, ImportStart(a, j) PROVE FALSE
  BY <1>u, <1>r, <1>s, <1>1 DEF ImportStart
<1>2. ASSUME actors[a] \in Importing PROVE actors[a].import \in Imports
  BY <1>2 DEF Importing
<1>3. ASSUME ImportOpen(a) \/ ImportFails(a) \/ ImportThrows(a) PROVE FALSE
  BY <1>t, <1>u, <1>r, <1>s, <1>2, <1>3, ByPc DEF ImportOpen, ImportFails, ImportThrows, At
<1>4. ImportCommit(a)
  BY <1>u, <1>1, <1>3
  DEF ImportStep, ImportHandler, ImportRejects, ImportMatches, ImportPasses, ImportKeeps, ImportDrops,
      ImportDisposed, importVars
<1>5. actors[a] \in Importing
  BY <1>4, Moves
<1> DEFINE k == actors[a].import
<1>6. /\ imports' = [imports EXCEPT ![k].st = "succeeded"]
      /\ Derives(a, Image(UploadOf(a)))
      /\ Step(a, "drop")
  BY <1>u, <1>4 DEF ImportCommit
<1>7. i = k
  <2>1. k \in Imports /\ imports[k].error \in ImportErrors /\ "succeeded" \in ImportStatuses
    BY <1>s, <1>2, <1>5
  <2> HIDE DEF k
  <2>2. \A j \in Imports \ {k} : imports'[j] = imports[j]
    BY <1>6, <2>1, RowIs DEF k
  <2> QED
    BY <2>2
<1>8. UploadOf(a) = imports[i].upload /\ imports[i].upload \in Uploads
  BY <1>5, <1>7 DEF UploadOf, Known, ImportsKnow, HandlersKnow, Knows
<1>9. Image(imports[i].upload) \in result'[imports[i].upload]
  BY <1>t, <1>6, <1>8 DEF Derives, UploadsTypeOK
<1>10. actors'[a].pc = "drop"
  <2>1. actors'[a] = [actors[a] EXCEPT !.pc = "drop"]
    BY <1>6, Moves DEF Step
  <2>2. [actors[a] EXCEPT !.pc = "drop"].pc = "drop"
    BY <1>t, <1>5, MoveType
  <2> QED
    BY <2>1, <2>2
<1> QED
  BY <1>5, <1>7, <1>8, <1>9, <1>10

LEMMA WorkingStep ==
    ASSUME TypeOK, Known, Overlaps, Working, [Next]_vars
    PROVE  Working'
<1>t. \A a \in Actors : actors[a] \in Importing => /\ actors[a].import \in Imports
                                                  /\ imports[actors[a].import].st # "absent"
                                                  /\ UploadOf(a) \in Uploads
  BY DEF TypeOK, Known, HandlersKnow, Knows, ImportsKnow, UploadOf, Importing
<1>r. raced \subseteq raced'
  BY OverlapStep
<1>1. ASSUME UNCHANGED actors, Once',
             \A i \in Imports : imports[i].st # "absent" =>
                 imports'[i].upload = imports[i].upload /\ imports'[i].st = imports[i].st
      PROVE  Working'
  BY <1>t, <1>r, <1>1 DEF Working, Undecided, UploadOf
<1>2. CASE UploaderStep /\ UNCHANGED importVars
  <2>1. UNCHANGED <<actors, imports>>
    BY <1>2 DEF UploaderStep, Create, PutOriginal, UrlExpires, TtlPasses, Redeliver, importVars
  <2> QED
    BY <1>1, <2>1 DEF Working, Once
<1>3. CASE AuthorStep
  <2>1. /\ UNCHANGED actors
        /\ \A i \in Imports : imports[i].st # "absent" => imports'[i] = imports[i]
        /\ Once'
    BY <1>3, UploadsAssumption DEF AuthorStep, TakeName, CreateImport, Absent, TypeOK, Working, Once, Known, ImportsKnow
  <2> QED
    BY <1>1, <2>1
<1>4. ASSUME NEW a \in Actors,
             \/ (PipelineStep(a) \/ DisposalStep(a) \/ FaultStep(a)) /\ UNCHANGED importVars
             \/ ImportStep(a)
      PROVE  Working'
  <2>1. /\ Stays /\ Arrives(a)
        /\ \A b \in Actors \ {a} : actors'[b] = actors[b]
    BY <1>4, ThingsStay, Arrival, OthersStay
  <2>2. Once'
    BY <2>1 DEF Stays, Working, Once
  <2>3. ASSUME NEW b \in Actors, actors'[b] \in Importing,
               actors'[b].pc \in {"open", "parse", "keep", "import"},
               Content[UploadOf(b)'] \notin raced',
               imports'[actors'[b].import].st = "succeeded"
        PROVE  FALSE
    <3> DEFINE i == actors'[b].import
    <3>1. i \in Imports /\ UploadOf(b)' = imports[i].upload /\ Content[imports[i].upload] \notin raced
      BY <1>r, <2>1, <2>3 DEF Importing, Stays, UploadOf
    <3>2. CASE imports[i].st # "succeeded"
      <4>1. actors[a] \in Importing /\ actors[a].import = i /\ actors'[a].pc = "drop"
        BY <1>4, <2>3, <3>1, <3>2, SucceededStep
      <4>2. a # b /\ actors[b] \in Importing /\ actors[b].import = i
        BY <2>1, <2>3, <4>1
      <4>3. UploadOf(a) = imports[i].upload /\ UploadOf(b) = imports[i].upload /\ imports[i].upload \in Uploads
        BY <1>t, <4>1, <4>2 DEF UploadOf
      <4>4. Works(a, Content[imports[i].upload]) /\ Works(b, Content[imports[i].upload])
        BY <4>1, <4>2, <4>3, WorksOn
      <4> QED
        BY <3>1, <4>2, <4>3, <4>4, UploadsAssumption DEF Overlaps, Overlap
    <3>3. CASE imports[i].st = "succeeded"
      <4>1. CASE actors'[b] = actors[b]
        BY <2>3, <3>1, <3>3, <4>1 DEF Working, Undecided, UploadOf
      <4>2. CASE a = b /\ ToImporting(a)
        <5>1. /\ actors[a] \in Importing /\ actors[a].import = i
              /\ actors[a].pc \in {"open", "parse", "keep", "import"}
          BY <2>3, <4>2 DEF ToImporting, ImportsNow, At
        <5> QED
          BY <3>1, <3>3, <5>1 DEF Working, Undecided, UploadOf
      <4>3. a = b => ToImporting(a) \/ UNCHANGED actors
        BY <2>1, <2>3
        DEF Arrives, ToHandling, ToDisposing, Idle, Handling, Rescanning, Disposing, Importing
      <4> QED
        BY <2>1, <4>1, <4>2, <4>3
    <3> QED
      BY <3>2, <3>3
  <2> QED
    BY <2>2, <2>3 DEF Working, Undecided
<1>5. CASE UNCHANGED vars
  BY <1>1, <1>5 DEF vars, importVars, Working, Once
<1> QED
  BY <1>2, <1>3, <1>4, <1>5, StepKinds

LEMMA TracedStep ==
    ASSUME TypeOK, Known, Overlaps, Fit, Working, Traced, [Next]_vars
    PROVE  Traced'
<1>t. /\ UploadsTypeOK
      /\ \A i \in Imports : imports[i].st # "absent" => /\ imports[i].upload \in Uploads
                                                        /\ status[imports[i].upload] # "absent"
  BY DEF TypeOK, Known, ImportsKnow
<1>r. raced \subseteq raced'
  BY OverlapStep
<1>1. CASE UploaderStep /\ UNCHANGED importVars
  <2>1. /\ UNCHANGED <<imports, result>>
        /\ \A u \in Uploads : status[u] # "absent" => status'[u] = status[u]
    BY <1>t, <1>1
    DEF UploaderStep, Create, PutOriginal, UrlExpires, TtlPasses, Redeliver, rows, importVars, UploadsTypeOK
  <2> QED
    BY <1>t, <1>r, <2>1 DEF Traced, Image
<1>2. CASE AuthorStep
  <2>1. /\ UNCHANGED <<status, result>>
        /\ \A i \in Imports : \/ imports'[i] = imports[i]
                              \/ imports'[i].st = "pending" /\ status[imports'[i].upload] = "ready"
    BY <1>2 DEF AuthorStep, TakeName, CreateImport, Absent, rows, TypeOK
  <2> QED
    BY <1>t, <1>r, <2>1 DEF Traced, Image
<1>3. ASSUME NEW a \in Actors,
             \/ (PipelineStep(a) \/ DisposalStep(a) \/ FaultStep(a)) /\ UNCHANGED importVars
             \/ ImportStep(a)
      PROVE  Traced'
  <2>1. /\ Stays
        /\ \A u \in Uploads : status'[u] = status[u] \/ StatusWritten(a, u)
        /\ \A u \in Uploads : result'[u] = result[u] \/ ResultWritten(a, u)
    BY <1>3, ThingsStay, StatusStep, ResultStep
  <2> SUFFICES ASSUME NEW i \in Imports, imports'[i].st # "absent", Content[imports'[i].upload] \notin raced'
               PROVE  /\ status'[imports[i].upload] \in {"ready", "quarantined"}
                      /\ imports'[i].st = "succeeded" => Image(imports[i].upload) \in result'[imports[i].upload]
    BY <2>1 DEF Traced, Stays, Image
  <2> DEFINE u == imports[i].upload
  <2>2. /\ u \in Uploads /\ Content[u] \notin raced
        /\ status[u] \in {"ready", "quarantined"}
        /\ imports[i].st = "succeeded" => Image(u) \in result[u]
    BY <1>t, <1>r, <2>1 DEF Stays, Traced
  <2>3. status'[u] \in {"ready", "quarantined"}
    BY <2>1, <2>2 DEF StatusWritten, Fit, FitHandling, At, Handling, Disposing
  <2>4. ASSUME imports'[i].st = "succeeded" PROVE Image(u) \in result'[u]
    <3>1. CASE imports[i].st # "succeeded"
      BY <1>3, <2>4, <3>1, SucceededStep
    <3>2. CASE imports[i].st = "succeeded" /\ result'[u] = result[u]
      BY <2>2, <3>2
    <3>3. CASE ResultWritten(a, u) /\ imports[i].st = "succeeded"
      <4>1. CASE actors[a] \in Handling
        BY <2>2, <3>3, <4>1 DEF ResultWritten, Fit, FitHandling, At, Handling, Importing
      <4>2. CASE actors[a] \in Importing /\ UploadOf(a) = u /\ (At(a, "parse") \/ At(a, "import"))
        <5>1. actors[a].import = i
          BY <2>2, <3>3, <4>2 DEF Working, Once, UploadOf, Importing, Known, HandlersKnow, Knows
        <5> QED
          BY <2>2, <3>3, <4>2, <5>1 DEF Working, Undecided, At
      <4> QED
        BY <3>3, <4>1, <4>2 DEF ResultWritten
    <3> QED
      BY <2>1, <2>2, <3>1, <3>2, <3>3
  <2> QED
    BY <2>3, <2>4
<1>4. CASE UNCHANGED vars
  BY <1>4 DEF vars, importVars, Traced, Image
<1> QED
  BY <1>1, <1>2, <1>3, <1>4, StepKinds

\* What is inductive of contents that one handler at a time has worked on.
Orderly == Base /\ Overlaps /\ Fit /\ Working /\ Traced

THEOREM OrderlyHolds == Spec => []Orderly
<1>1. Init => Overlaps /\ Fit /\ Working /\ Traced
  <2> SUFFICES ASSUME Init PROVE Overlaps /\ Fit /\ Working /\ Traced
    OBVIOUS
  <2>1. Overlaps
    BY DEF Init, UploadsInit, Overlaps, Overlap, Works, At, Idle
  <2>2. Fit
    BY DEF Init, UploadsInit, Fit, FitHandling, FitImporting, Idle, Handling, Importing
  <2>3. Traced
    BY DEF Init, Traced, Absent
  <2>4. Working
    BY DEF Init, UploadsInit, Working, Once, Undecided, Absent, Idle, Importing
  <2> QED
    BY <2>1, <2>2, <2>3, <2>4
<1>2. /\ Base /\ (Overlaps /\ Fit /\ Working /\ Traced) /\ [Next]_vars
      => (Overlaps /\ Fit /\ Working /\ Traced)'
  BY OverlapStep, FitStep, WorkingStep, TracedStep DEF Base
<1> QED
  BY BaseHolds, <1>1, <1>2, PTL DEF Spec, Orderly

\* The images an import took out of a card can be traced to its upload, unless two
\* handlers have worked on the content at the same time.
THEOREM DerivedTraceable == Spec => []DerivedIsTraceable
<1>1. Orderly => DerivedIsTraceable
  BY DEF Orderly, Traced, DerivedIsTraceable
<1> QED
  BY OrderlyHolds, <1>1, PTL

\* A redelivered job does not undo what an earlier delivery did: a ready upload
\* stays ready or is quarantined, unless two handlers have overlapped on it.
THEOREM ReadyKept == Spec => ReadyIsKept
<1>1. ASSUME Orderly, [Next]_vars, NEW u \in Uploads, status[u] = "ready", Content[u] \notin raced'
      PROVE  status'[u] \in {"ready", "quarantined"}
  <2>t. TypeOK /\ Known /\ Overlaps /\ Fit /\ UploadsTypeOK
    BY <1>1 DEF Orderly, Base, TypeOK
  <2>r. Content[u] \notin raced
    BY <1>1, <2>t, OverlapStep
  <2>1. CASE UploaderStep
    BY <1>1, <2>t, <2>1
    DEF UploaderStep, Create, PutOriginal, UrlExpires, TtlPasses, Redeliver, rows, UploadsTypeOK
  <2>2. CASE AuthorStep
    BY <1>1, <2>2 DEF AuthorStep, TakeName, CreateImport, rows
  <2>3. ASSUME NEW a \in Actors, ImportStep(a) \/ PipelineStep(a) \/ DisposalStep(a) \/ FaultStep(a)
        PROVE  status'[u] \in {"ready", "quarantined"}
    <3>1. status'[u] = status[u] \/ StatusWritten(a, u)
      BY <2>t, <2>3, StatusStep
    <3> QED
      BY <1>1, <2>t, <2>r, <3>1 DEF StatusWritten, Fit, FitHandling, At, Handling, Disposing
  <2>4. CASE UNCHANGED vars
    BY <1>1, <2>4 DEF vars
  <2> QED
    BY <1>1, <2>1, <2>2, <2>3, <2>4, StepKinds
<1>2. Orderly /\ [Next]_vars =>
        [\A u \in Uploads :
            status[u] = "ready" /\ Content[u] \notin raced' => status'[u] \in {"ready", "quarantined"}]_vars
  BY <1>1
<1> QED
  BY OrderlyHolds, <1>2, PTL DEF Spec, ReadyIsKept
-----------------------------------------------------------------------------
(* What the rows name. *)

\* The digests of a content, and no others; two of them are ever stored.
LEMMA DigestsOf ==
    ASSUME NEW u \in Uploads
    PROVE  /\ {Original(u), Image(u), Raw(u)} \subseteq Digests
           /\ Original(u) # Image(u) /\ Original(u) # Raw(u) /\ Image(u) # Raw(u)
           /\ Original(u)[1] = Content[u] /\ Image(u)[1] = Content[u] /\ Raw(u)[1] = Content[u]
           /\ Blob(u) \in {Original(u), Image(u)} /\ Raw(u) \notin Storable
           /\ \A d \in Storable : d[1] = Content[u] => d \in {Original(u), Image(u)}
  BY UploadsAssumption DEF Original, Image, Raw, Digests, Storable, Blob

Named(u) == {Original(u), Image(u), Raw(u)}
Free(u) == Content[u] \notin raced

\* An upload's row names digests of its content, the original among them once the
\* upload is usable; so does what a handler has taken from the row.
RowNames(u) ==
    /\ result[u] \subseteq Named(u)
    /\ Free(u) /\ status[u] \in {"ready", "quarantined"} => Original(u) \in result[u]

SeenNames(a) ==
    actors[a] \in Importing /\ actors[a].pc \in {"parse", "keep", "import"} =>
        /\ actors[a].seen \subseteq Named(UploadOf(a))
        /\ Free(UploadOf(a)) => Original(UploadOf(a)) \in actors[a].seen

TodoNames(a) ==
    actors[a] \in Disposing /\ actors[a].upload \in Uploads =>
        /\ actors[a].todo \subseteq Named(actors[a].upload)
        /\ actors[a].pc \in {"evidence", "record"} /\ Free(actors[a].upload) =>
               Original(actors[a].upload) \in result[actors[a].upload]

RowsName == /\ \A u \in Uploads : RowNames(u)
          /\ \A a \in Actors : SeenNames(a) /\ TodoNames(a)

LEMMA NamesStep ==
    ASSUME TypeOK, Known, Overlaps, RowsName, [Next]_vars
    PROVE  RowsName'
<1>t. /\ UploadsTypeOK
      /\ \A a \in Actors : actors[a] \in Importing => /\ actors[a].import \in Imports
                                                      /\ imports[actors[a].import].st # "absent"
                                                      /\ UploadOf(a) \in Uploads
  BY DEF TypeOK, Known, HandlersKnow, Knows, ImportsKnow, UploadOf, Importing
<1>r. raced \subseteq raced' /\ \A u \in Uploads : Free(u)' => Free(u)
  BY OverlapStep DEF Free
<1>c. \A u : Original(u)' = Original(u) /\ Image(u)' = Image(u) /\ Named(u)' = Named(u)
  BY DEF Original, Image, Raw, Named
<1>1. ASSUME UNCHANGED <<result, actors>>,
             \A u \in Uploads : status'[u] \in {"ready", "quarantined"} => status'[u] = status[u],
             \A i \in Imports : imports[i].st # "absent" => imports'[i].upload = imports[i].upload
      PROVE  RowsName'
  <2>1. ASSUME NEW u \in Uploads PROVE RowNames(u)'
    BY <1>r, <1>c, <1>1 DEF RowsName, RowNames
  <2>2. ASSUME NEW a \in Actors PROVE SeenNames(a)'
    BY <1>t, <1>r, <1>c, <1>1 DEF RowsName, SeenNames, UploadOf
  <2>3. ASSUME NEW a \in Actors PROVE TodoNames(a)'
    BY <1>r, <1>c, <1>1 DEF RowsName, TodoNames
  <2> QED
    BY <2>1, <2>2, <2>3 DEF RowsName
<1>2. CASE UploaderStep /\ UNCHANGED importVars
  <2>1. /\ UNCHANGED <<result, actors, imports>>
        /\ \A u \in Uploads : status'[u] \in {"ready", "quarantined"} => status'[u] = status[u]
    BY <1>t, <1>2
    DEF UploaderStep, Create, PutOriginal, UrlExpires, TtlPasses, Redeliver, rows, importVars, UploadsTypeOK
  <2> QED
    BY <1>1, <2>1
<1>3. CASE AuthorStep
  <2>1. /\ UNCHANGED <<rows, actors>>
        /\ \A i \in Imports : imports[i].st # "absent" => imports'[i] = imports[i]
    BY <1>3 DEF AuthorStep, TakeName, CreateImport, Absent, TypeOK
  <2> QED
    BY <1>1, <2>1 DEF rows
<1>4. ASSUME NEW a \in Actors,
             \/ (PipelineStep(a) \/ DisposalStep(a) \/ FaultStep(a)) /\ UNCHANGED importVars
             \/ ImportStep(a)
      PROVE  RowsName'
  <2>1. /\ Stays /\ Arrives(a)
        /\ \A b \in Actors \ {a} : actors'[b] = actors[b]
        /\ \A u \in Uploads : status'[u] = status[u] \/ StatusWritten(a, u)
        /\ \A u \in Uploads : result'[u] = result[u] \/ ResultWritten(a, u)
    BY <1>4, ThingsStay, Arrival, StatusStep, ResultStep, OthersStay
  <2>u. /\ \A b \in Actors : actors[b] \in Importing => imports'[actors[b].import].upload = UploadOf(b)
        /\ \A b \in Actors \ {a} : actors'[b] \in Importing => UploadOf(b)' = UploadOf(b)
    BY <1>t, <2>1 DEF Stays, UploadOf
  <2>w. ASSUME NEW u \in Uploads, ResultWritten(a, u)
        PROVE  result'[u] \subseteq Named(u) /\ (Free(u) => Original(u) \in result'[u])
    <3>1. CASE actors[a] \in Handling
      BY <2>w, <3>1 DEF ResultWritten, Named, Importing, Handling
    <3>2. CASE actors[a] \in Importing /\ UploadOf(a) = u
      BY <2>w, <3>2, DigestsOf DEF ResultWritten, RowsName, SeenNames, Named, At, Importing, Handling
    <3> QED
      BY <2>w, <3>1, <3>2 DEF ResultWritten
  <2>2. ASSUME NEW u \in Uploads PROVE RowNames(u)'
    <3>1. result'[u] \subseteq Named(u)
      BY <2>1, <2>w DEF RowsName, RowNames
    <3>2. ASSUME Free(u), status'[u] \in {"ready", "quarantined"} PROVE Original(u) \in result'[u]
      <4>1. CASE ResultWritten(a, u)
        BY <2>w, <3>2, <4>1
      <4>2. CASE result'[u] = result[u] /\ status'[u] = status[u]
        BY <3>2, <4>2 DEF RowsName, RowNames
      <4>3. CASE StatusWritten(a, u) /\ status'[u] = "quarantined" /\ result'[u] = result[u]
        BY <1>t, <3>2, <4>3, TypesNow, ByPc DEF StatusWritten, RowsName, TodoNames, At, Disposing
      <4>4. CASE StatusWritten(a, u) /\ status'[u] = "ready"
        <5>1. /\ Commit(a) /\ actors[a].upload = u /\ status[u] = "processing"
          BY <4>4 DEF StatusWritten
        <5>2. result' = [result EXCEPT ![u] = {Original(u)} \cup IF kind[u] = "image" THEN {Image(u)} ELSE {}]
          BY <5>1 DEF Commit
        <5> QED
          BY <1>t, <5>2 DEF UploadsTypeOK
      <4> QED
        BY <2>1, <3>2, <4>1, <4>2, <4>3, <4>4
    <3> QED
      BY <1>r, <1>c, <3>1, <3>2 DEF RowNames
  <2>3. ASSUME NEW b \in Actors \ {a} PROVE SeenNames(b)' /\ TodoNames(b)'
    <3>1. SeenNames(b)'
      BY <1>t, <1>r, <1>c, <2>1, <2>u DEF RowsName, SeenNames
    <3>2. TodoNames(b)'
      BY <1>r, <1>c, <2>1, <2>w DEF RowsName, TodoNames
    <3> QED
      BY <3>1, <3>2
  <2>4. CASE UNCHANGED <<actors, rows, stored, blocked>>
    BY <1>1, <2>1, <2>4 DEF Stays, rows
  <2>5. CASE ToDisposing(a)
    <3>1. SeenNames(a)'
      BY <2>5 DEF ToDisposing, SeenNames, Disposing, Importing
    <3>2. ASSUME actors'[a].upload \in Uploads PROVE actors'[a].todo \subseteq Named(actors'[a].upload)
      <4>1. \/ \E d \in stored : /\ actors'[a].upload \in Sources(d)
                                 /\ actors'[a].todo = {d} \cup result[actors'[a].upload]
            \/ actors'[a].todo = {Original(actors'[a].upload)}
            \/ /\ actors[a] \in Disposing /\ actors'[a].upload = actors[a].upload
               /\ \/ actors'[a].todo = actors[a].todo \cup result[actors[a].upload]
                  \/ actors'[a].todo \subseteq actors[a].todo
        BY <2>5, <3>2, UploadsAssumption DEF ToDisposing, DisposesNow
      <4> QED
        BY <3>2, <4>1 DEF Sources, RowsName, RowNames, TodoNames, Named
    <3>3. ASSUME actors'[a].upload \in Uploads, actors'[a].pc \in {"evidence", "record"},
                 Free(actors'[a].upload)
          PROVE  Original(actors'[a].upload) \in result'[actors'[a].upload]
      <4> DEFINE u == actors'[a].upload
      <4>1. CASE ResultWritten(a, u)
        BY <2>w, <3>3, <4>1
      <4>2. CASE result'[u] = result[u]
        <5>1. CASE actors[a] \in Disposing /\ actors[a].upload = u /\ actors[a].pc \in {"evidence", "record"}
          BY <3>3, <4>2, <5>1 DEF RowsName, TodoNames
        <5>2. CASE \E d \in stored : u \in Sources(d)
          BY <3>3, <4>2, <5>2 DEF Sources, RowsName, RowNames
        <5>3. CASE Original(u) \in result'[u]
          BY <5>3
        <5>4. CASE /\ actors[a] \in Importing /\ At(a, "parse") /\ u = UploadOf(a)
                   /\ Original(u) \in actors[a].seen => Original(u) \in result'[u]
          BY <3>3, <5>4 DEF RowsName, SeenNames, At
        <5> QED
          BY <2>5, <3>3, <5>1, <5>2, <5>3, <5>4, UploadsAssumption DEF ToDisposing, DisposesNow, At
      <4> QED
        BY <2>1, <3>3, <4>1, <4>2
    <3>4. TodoNames(a)'
      BY <1>r, <1>c, <3>2, <3>3 DEF TodoNames
    <3> QED
      BY <2>2, <2>3, <3>1, <3>4 DEF RowsName
  <2>6. CASE ToImporting(a)
    <3>1. TodoNames(a)'
      BY <2>6 DEF ToImporting, TodoNames, Disposing, Importing
    <3>2. SeenNames(a)'
      <4> SUFFICES ASSUME actors'[a].pc \in {"parse", "keep", "import"}
                   PROVE  /\ actors'[a].seen \subseteq Named(UploadOf(a)')
                          /\ Free(UploadOf(a)') => Original(UploadOf(a)') \in actors'[a].seen
        BY <1>r, <1>c DEF SeenNames, Free
      <4>1. /\ actors[a] \in Importing /\ UploadOf(a)' = UploadOf(a) /\ UploadOf(a) \in Uploads
            /\ \/ status[UploadOf(a)] = "ready" /\ actors'[a].seen = result[UploadOf(a)]
               \/ actors'[a].seen = actors[a].seen /\ actors[a].pc \in {"parse", "keep", "import"}
        BY <1>t, <2>1, <2>6 DEF ToImporting, ImportsNow, At, Stays, UploadOf
      <4> QED
        BY <4>1 DEF RowsName, RowNames, SeenNames
    <3> QED
      BY <2>2, <2>3, <3>1, <3>2 DEF RowsName
  <2>7. CASE actors'[a] = Idle \/ actors'[a] \in Rescanning \/ ToHandling(a)
    <3>1. actors'[a] \notin Disposing /\ actors'[a] \notin Importing
      BY <2>7 DEF Idle, Rescanning, ToHandling, Disposing, Importing, Handling
    <3>2. SeenNames(a)' /\ TodoNames(a)'
      BY <3>1 DEF SeenNames, TodoNames
    <3> QED
      BY <2>2, <2>3, <3>2 DEF RowsName
  <2> QED
    BY <2>1, <2>4, <2>5, <2>6, <2>7 DEF Arrives
<1>5. CASE UNCHANGED vars
  BY <1>1, <1>5 DEF vars, importVars, rows
<1> QED
  BY <1>2, <1>3, <1>4, <1>5, StepKinds
-----------------------------------------------------------------------------
(* What is blocked is gone. *)

\* The hypotheses of BlockedIsGone, of the upload that brought the content.
Sure(u) == faults = 0 /\ Free(u) /\ Single(Content[u])

\* A blocked content has been dealt with: its upload is quarantined, or the image that
\* is blocked came out of a card, which an upload does not store.
ImageSettled(u) == status[u] = "quarantined" \/ (kind[u] = "card" /\ status[u] = "ready")

BlockedKnown(u) ==
    Sure(u) => /\ Original(u) \in blocked => status[u] = "quarantined"
               /\ Image(u) \in blocked => ImageSettled(u)

\* What is stored has an upload that a flag finds, or one that is about to be usable.
Commits(u) == \E a \in Actors : actors[a] \in Handling /\ At(a, "commit") /\ actors[a].upload = u

OriginalKnown(u) ==
    Sure(u) /\ Original(u) \in stored => status[u] \in {"ready", "quarantined"} \/ Commits(u)

ImageKnown(u) ==
    Sure(u) /\ Image(u) \in stored =>
        /\ kind[u] \in {"image", "card"}
        /\ ImageSettled(u) \/ (status[u] = "ready" /\ Image(u) \in result[u]) \/ Commits(u)

\* A flag that found no source is of an image that came out of a card.
FlagKnown(a) ==
    actors[a] \in Disposing /\ At(a, "record") /\ actors[a].upload = "none" =>
        \A u \in Uploads : \A d \in actors[a].todo :
            Sure(u) /\ d[1] = Content[u] => d = Image(u) /\ ImageSettled(u)

\* An import stores no image that is blocked.
KeepKnown(a) ==
    actors[a] \in Importing /\ At(a, "keep") /\ Free(UploadOf(a)) => Image(UploadOf(a)) \notin blocked

\* Whoever blocks a digest removes it.
Removing ==
    \A d \in blocked \cap stored :
        faults = 0 /\ d[1] \notin raced /\ Single(d[1]) =>
            \E a \in Actors : actors[a] \in Disposing /\ At(a, "remove") /\ d \in actors[a].todo

UploadKnown(u) == BlockedKnown(u) /\ OriginalKnown(u) /\ ImageKnown(u)

Disposed ==
    /\ \A u \in Uploads : UploadKnown(u)
    /\ \A a \in Actors : FlagKnown(a) /\ KeepKnown(a)
    /\ Removing

\* A handler works on every content it removes a digest of.
LEMMA WorksTodo ==
    ASSUME NEW a \in Actors
    PROVE  /\ \A d : actors[a] \in Disposing /\ d \in actors[a].todo => Works(a, d[1])
           /\ \A d : actors'[a] \in Disposing /\ d \in actors'[a].todo => Works(a, d[1])'
           /\ \A c : actors'[a] \in Handling /\ Content[actors'[a].upload] = c => Works(a, c)'
<1>n. "none" \notin Uploads
  BY UploadsAssumption
<1>1. \A s : s \in Disposing => "todo" \in DOMAIN s /\ s.pc # "idle"
  BY DEF Disposing
<1>2. \A s : s \in Handling => "import" \notin DOMAIN s /\ s.pc # "idle" /\ s.upload \in Uploads
  BY DEF Handling
<1> QED
  BY <1>n, <1>1, <1>2 DEF Works, At, UploadOfActor

\* No step of a handler that is neither killed nor given up leaves a commit undone or
\* a digest behind.
LEMMA Faultless ==
    ASSUME TypeOK, Known, NEW a \in Actors, faults' = 0,
           PipelineStep(a) \/ DisposalStep(a) \/ FaultStep(a) \/ ImportStep(a)
    PROVE  /\ faults = 0
           /\ At(a, "commit") => Commit(a)
           /\ At(a, "remove") => \/ actors[a].todo = {}
                                 \/ \E d \in Digests : RemoveCopy(a, d)
<1>f. faults \in Nat
  BY DEF TypeOK, UploadsTypeOK
<1>1. CASE PipelineStep(a)
  BY <1>1
  DEF PipelineStep, ProcessSteps, CompleteRead, CompleteWrite, ProcessStart, SweepDelete, SweepMark,
      SweepRead, LoadRejects, LoadPasses, LoadScans, Reject, Store, Commit, Discard, Hit, At
<1>2. CASE DisposalStep(a)
  BY <1>2
  DEF DisposalStep, DisposeSteps, DisposeBlob, RescanClear, RescanWrites, DisposeLoad, Record, RemoveCopy,
      DisposeEnds, ForgetOriginal, At
<1>3. CASE FaultStep(a)
  BY <1>f, <1>3 DEF FaultStep, Die, Outlive
<1>4. CASE ImportStep(a)
  <2>1. CASE ImportThrows(a)
    BY <1>f, <2>1 DEF ImportThrows, At
  <2>2. CASE ImportDisposed(a)
    BY <2>2 DEF ImportDisposed, ForgetOriginal, At
  <2>3. CASE ImportMatches(a) \/ ImportRejects(a) \/ \E scan \in {"none", "clear"} : ImportPasses(a, scan)
    BY <2>3 DEF ImportMatches, ImportRejects, ImportPasses, At
  <2>4. CASE ImportOpen(a) \/ ImportCommit(a)
    BY <2>4 DEF ImportOpen, ImportCommit, At
  <2>5. CASE ImportKeeps(a) \/ ImportFails(a) \/ ImportDrops(a)
    BY <2>5 DEF ImportKeeps, ImportFails, ImportDrops, At
  <2>6. CASE \E i \in Imports : ImportStart(a, i)
    BY <2>6 DEF ImportStart, At
  <2> QED
    BY <1>4, <2>1, <2>2, <2>3, <2>4, <2>5, <2>6 DEF ImportStep, ImportHandler
<1> QED
  BY <1>1, <1>2, <1>3, <1>4

\* An upload that is usable stays so, and its row goes on naming what it names.
LEMMA UsableKept ==
    ASSUME TypeOK, Known, Fit, NEW u \in Uploads, Free(u), NEW a \in Actors,
           \/ (PipelineStep(a) \/ DisposalStep(a) \/ FaultStep(a)) /\ UNCHANGED importVars
           \/ ImportStep(a)
    PROVE  /\ status[u] = "quarantined" => status'[u] = "quarantined"
           /\ status[u] = "ready" => status'[u] \in {"ready", "quarantined"}
           /\ ImageSettled(u) => ImageSettled(u)'
           /\ status[u] = "ready" /\ kind[u] # "card" /\ Image(u) \in result[u] => Image(u) \in result'[u]
<1>1. /\ Stays
      /\ status'[u] = status[u] \/ StatusWritten(a, u)
      /\ result'[u] = result[u] \/ ResultWritten(a, u)
  BY ThingsStay, StatusStep, ResultStep
<1>2. /\ status[u] = "quarantined" => status'[u] = "quarantined"
      /\ status[u] = "ready" => status'[u] \in {"ready", "quarantined"}
  BY <1>1 DEF StatusWritten, Fit, FitHandling, At, Handling, Disposing, Free
<1>3. ImageSettled(u) => ImageSettled(u)'
  BY <1>1, <1>2 DEF ImageSettled, Stays
<1>4. status[u] = "ready" /\ kind[u] # "card" /\ Image(u) \in result[u] => Image(u) \in result'[u]
  <2>1. actors[a] \in Importing => kind[UploadOf(a)] = "card"
    BY DEF Known, HandlersKnow, Knows, ImportsKnow, UploadOf, Importing
  <2> QED
    BY <1>1, <2>1 DEF ResultWritten, Fit, FitHandling, At, Free
<1> QED
  BY <1>2, <1>3, <1>4

\* Of two uploads, only one brings a content that was brought once.
LEMMA OneSource ==
    ASSUME NEW u \in Uploads, NEW v \in Uploads, Single(Content[u]),
           Named(u) \cap Named(v) # {}
    PROVE  u = v
<1>1. Content[u] = Content[v]
  BY DigestsOf DEF Named
<1> QED
  BY <1>1 DEF Single

\* What a step of a handler says of an upload it may write.
LEMMA StepFacts ==
    ASSUME TypeOK, Known, NEW a \in Actors,
           \/ (PipelineStep(a) \/ DisposalStep(a) \/ FaultStep(a)) /\ UNCHANGED importVars
           \/ ImportStep(a)
    PROVE  /\ Stays /\ StoreWritten(a) /\ Arrives(a)
           /\ \A b \in Actors \ {a} : actors'[b] = actors[b]
           /\ \A b \in Actors : actors[b] \in Importing =>
                 /\ UploadOf(b) \in Uploads /\ kind[UploadOf(b)] = "card"
                 /\ actors'[b] \in Importing /\ actors'[b].import = actors[b].import => UploadOf(b)' = UploadOf(b)
           /\ "none" \notin Uploads
<1>1. /\ Stays /\ StoreWritten(a) /\ Arrives(a)
      /\ \A b \in Actors \ {a} : actors'[b] = actors[b]
  BY ThingsStay, StoreStep, Arrival, OthersStay
<1>2. ASSUME NEW b \in Actors, actors[b] \in Importing
      PROVE  UploadOf(b) \in Uploads /\ kind[UploadOf(b)] = "card" /\ actors[b].import \in Imports
  BY <1>2 DEF Known, HandlersKnow, Knows, ImportsKnow, UploadOf, Importing
<1>3. ASSUME NEW b \in Actors, actors[b] \in Importing,
             actors'[b] \in Importing /\ actors'[b].import = actors[b].import
      PROVE  UploadOf(b)' = UploadOf(b)
  BY <1>1, <1>2, <1>3 DEF Stays, UploadOf
<1> QED
  BY <1>1, <1>2, <1>3, UploadsAssumption

\* A digest is blocked with its upload quarantined, or without a source.
LEMMA BlockedStep ==
    ASSUME TypeOK, Known, Fit, RowsName, Disposed, NEW a \in Actors,
           \/ (PipelineStep(a) \/ DisposalStep(a) \/ FaultStep(a)) /\ UNCHANGED importVars
           \/ ImportStep(a),
           NEW u \in Uploads, Sure(u), Sure(u)'
    PROVE  BlockedKnown(u)'
<1>1. StoreWritten(a) /\ "none" \notin Uploads /\ Free(u) /\ Single(Content[u])
  BY StepFacts DEF Sure
<1>2. /\ status[u] = "quarantined" => status'[u] = "quarantined"
      /\ ImageSettled(u) => ImageSettled(u)'
  BY <1>1, UsableKept
<1>3. BlockedKnown(u)
  BY DEF Disposed, UploadKnown
<1>c. Original(u)' = Original(u) /\ Image(u)' = Image(u)
  BY DEF Original, Image
<1>4. CASE UNCHANGED blocked
  BY <1>2, <1>3, <1>4, <1>c DEF BlockedKnown
<1>5. CASE /\ At(a, "record") /\ actors[a] \in Disposing
           /\ blocked' = blocked \cup actors[a].todo
           /\ IF actors[a].upload = "none" THEN UNCHANGED status
              ELSE status'[actors[a].upload] = "quarantined"
  <2>1. CASE actors[a].upload = "none"
    <3>1. \A d \in actors[a].todo : d[1] = Content[u] => d = Image(u) /\ ImageSettled(u)
      BY <1>5, <2>1 DEF Disposed, FlagKnown
    <3>2. Original(u)[1] = Content[u] /\ Image(u)[1] = Content[u] /\ Original(u) # Image(u)
      BY DigestsOf
    <3> QED
      BY <1>2, <1>3, <1>5, <1>c, <3>1, <3>2 DEF BlockedKnown
  <2>2. CASE actors[a].upload \in Uploads
    <3>1. actors[a].todo \subseteq Named(actors[a].upload)
      BY <1>5, <2>2 DEF RowsName, TodoNames
    <3>2. ASSUME actors[a].todo \cap Named(u) # {} PROVE status'[u] = "quarantined"
      <4>1. actors[a].upload = u
        BY <1>1, <2>2, <3>1, <3>2, OneSource
      <4> QED
        BY <1>1, <1>5, <2>2, <4>1
    <3> QED
      BY <1>2, <1>3, <1>5, <1>c, <3>2 DEF BlockedKnown, ImageSettled, Named
  <2> QED
    BY <1>5, <2>1, <2>2 DEF Disposing
<1> QED
  BY <1>1, <1>4, <1>5 DEF StoreWritten

\* A handler about to commit an upload stays there, or has made it usable.
LEMMA CommitMakes ==
    ASSUME TypeOK, Known, Fit, NEW a \in Actors,
           \/ (PipelineStep(a) \/ DisposalStep(a) \/ FaultStep(a)) /\ UNCHANGED importVars
           \/ ImportStep(a),
           NEW u \in Uploads, Sure(u), Sure(u)', Commits(u)
    PROVE  \/ Commits(u)'
           \/ /\ status'[u] = "ready"
              /\ kind[u] = "image" => Image(u) \in result'[u]
<1> PICK b \in Actors : actors[b] \in Handling /\ At(b, "commit") /\ actors[b].upload = u
  BY DEF Commits
<1>1. CASE a # b
  BY <1>1, OthersStay DEF Commits, At
<1>2. CASE a = b
  <2>1. Commit(a)
    BY <1>2, Faultless DEF Sure
  <2>2. status[u] = "processing"
    BY <1>2 DEF Fit, FitHandling, Sure, Free, At
  <2> QED
    BY <1>2, <2>1, <2>2 DEF Commit, TypeOK, UploadsTypeOK
<1> QED
  BY <1>1, <1>2

\* A digest is stored by a handler about to commit its upload, or by the import of a
\* card that is ready.
LEMMA StoredStep ==
    ASSUME TypeOK, Known, Fit, Disposed, NEW a \in Actors,
           \/ (PipelineStep(a) \/ DisposalStep(a) \/ FaultStep(a)) /\ UNCHANGED importVars
           \/ ImportStep(a),
           NEW u \in Uploads, Sure(u), Sure(u)'
    PROVE  OriginalKnown(u)' /\ ImageKnown(u)'
<1>1. /\ Stays /\ StoreWritten(a) /\ Free(u) /\ Single(Content[u])
      /\ \A b \in Actors : actors[b] \in Importing =>
            UploadOf(b) \in Uploads /\ kind[UploadOf(b)] = "card"
  BY StepFacts DEF Sure
<1>2. /\ status[u] = "quarantined" => status'[u] = "quarantined"
      /\ status[u] = "ready" => status'[u] \in {"ready", "quarantined"}
      /\ ImageSettled(u) => ImageSettled(u)'
      /\ status[u] = "ready" /\ kind[u] # "card" /\ Image(u) \in result[u] => Image(u) \in result'[u]
  BY <1>1, UsableKept
<1>3. Commits(u) => \/ Commits(u)'
                    \/ /\ status'[u] = "ready"
                       /\ kind[u] = "image" => Image(u) \in result'[u]
  BY CommitMakes
<1>4. OriginalKnown(u) /\ ImageKnown(u)
  BY DEF Disposed, UploadKnown
<1>c. /\ Original(u)' = Original(u) /\ Image(u)' = Image(u) /\ kind' = kind
      /\ Original(u) # Image(u)
  BY <1>1, DigestsOf DEF Original, Image, Stays
<1>5. \* what is newly stored, and by whom
      \/ stored' \cap Named(u) \subseteq stored
      \/ /\ Commits(u)'
         /\ Image(u) \in stored' => Image(u) \in stored \/ kind[u] = "image"
      \/ kind[u] = "card" /\ status[u] = "ready"
  <2>1. CASE stored' \subseteq stored
    BY <2>1
  <2>2. CASE /\ At(a, "store") /\ actors[a] \in Handling
             /\ HandlesNow(a, "commit")
             /\ stored' = stored \cup {Blob(actors[a].upload)}
    <3>1. actors[a].upload \in Uploads
      BY <2>2 DEF Handling
    <3>2. CASE actors[a].upload = u
      BY <2>2, <3>2, <1>c DEF HandlesNow, Commits, At, Blob
    <3>3. CASE actors[a].upload # u
      <4>1. Blob(actors[a].upload) \in Named(actors[a].upload)
        BY <3>1, DigestsOf DEF Named
      <4> QED
        BY <1>1, <2>2, <3>1, <3>3, <4>1, OneSource
    <3> QED
      BY <3>2, <3>3
  <2>3. CASE /\ At(a, "keep") /\ actors[a] \in Importing
             /\ stored' = stored \cup {Image(UploadOf(a)), Original(UploadOf(a))}
    <3>1. CASE UploadOf(a) = u
      BY <1>1, <2>3, <3>1 DEF Fit, FitImporting, At, Free
    <3>2. CASE UploadOf(a) # u
      BY <1>1, <2>3, <3>2, OneSource DEF Named
    <3> QED
      BY <3>1, <3>2
  <2> QED
    BY <1>1, <2>1, <2>2, <2>3 DEF StoreWritten
<1>6. OriginalKnown(u)'
  BY <1>2, <1>3, <1>4, <1>5, <1>c DEF OriginalKnown, Named
<1>7. ImageKnown(u)'
  <2>1. CASE Image(u) \in stored
    <3>1. /\ kind[u] \in {"image", "card"}
          /\ ImageSettled(u) \/ (status[u] = "ready" /\ Image(u) \in result[u]) \/ Commits(u)
      BY <1>4, <2>1 DEF ImageKnown
    <3>2. status'[u] = "ready" /\ kind[u] = "card" => ImageSettled(u)'
      BY <1>c DEF ImageSettled
    <3>3. status'[u] = "quarantined" => ImageSettled(u)'
      BY DEF ImageSettled
    <3> QED
      BY <1>2, <1>3, <1>c, <3>1, <3>2, <3>3 DEF ImageKnown
  <2>2. CASE Image(u) \notin stored
    BY <1>2, <1>5, <1>c, <2>2 DEF ImageKnown, ImageSettled, Named
  <2> QED
    BY <2>1, <2>2
<1> QED
  BY <1>6, <1>7

\* A flag finds the upload that brought an original, and one of an image it has stored.
LEMMA FlagStep ==
    ASSUME TypeOK, Known, Fit, RowsName, Overlaps', Disposed, NEW a \in Actors,
           \/ (PipelineStep(a) \/ DisposalStep(a) \/ FaultStep(a)) /\ UNCHANGED importVars
           \/ ImportStep(a),
           \A u \in Uploads : Sure(u)' => Sure(u),
           NEW b \in Actors
    PROVE  FlagKnown(b)'
<1>1. SUFFICES ASSUME actors'[b] \in Disposing, actors'[b].pc = "record", actors'[b].upload = "none",
                      NEW u \in Uploads, NEW d \in actors'[b].todo, Sure(u)', d[1] = Content[u]
               PROVE  d = Image(u) /\ ImageSettled(u)'
  BY DEF FlagKnown, At, Image
<1>2. Sure(u) /\ Free(u) /\ Content[u] \in Contents /\ Content[u] \notin raced'
  BY <1>1, UploadsAssumption DEF Sure, Free
<1>3. ImageSettled(u) => ImageSettled(u)'
  BY <1>2, UsableKept
<1>4. /\ Arrives(a) /\ "none" \notin Uploads
      /\ \A c \in Actors \ {a} : actors'[c] = actors[c]
  BY StepFacts
<1>5. CASE actors'[b] = actors[b]
  BY <1>1, <1>2, <1>3, <1>5 DEF Disposed, FlagKnown, At
<1>6. CASE a = b
  <2>1. CASE /\ At(a, "idle") /\ UNCHANGED <<rows, stored, blocked>>
             /\ d \in stored /\ Sources(d) = {}
    <3>1. ~Commits(u)
      <4> SUFFICES ASSUME NEW c \in Actors, actors[c] \in Handling, At(c, "commit"), actors[c].upload = u
                   PROVE  FALSE
        BY DEF Commits
      <4>1. c # a /\ actors'[c] = actors[c]
        BY <1>4, <2>1 DEF At
      <4>2. Works(c, Content[u])' /\ Works(a, Content[u])'
        BY <1>1, <1>6, <4>1, WorksTodo
      <4> QED
        BY <1>2, <4>1, <4>2 DEF Overlaps, Overlap
    <3>2. d \in {Original(u), Image(u)}
      BY <1>1, <2>1, DigestsOf DEF TypeOK, UploadsTypeOK
    <3>3. ~(status[u] \in {"ready", "quarantined"} /\ d \in result[u])
      BY <2>1 DEF Sources
    <3>4. d # Original(u)
      BY <1>2, <2>1, <3>1, <3>3 DEF Disposed, UploadKnown, OriginalKnown, RowsName, RowNames
    <3>5. ImageSettled(u)
      BY <1>2, <2>1, <3>1, <3>2, <3>3, <3>4 DEF Disposed, UploadKnown, ImageKnown
    <3> QED
      BY <1>3, <3>2, <3>4, <3>5
  <2>2. CASE actors[a] \in Disposing /\ DisposesNow(a, actors[a].pc, actors[a].todo)
    BY <1>1, <1>2, <1>3, <1>6, <2>2 DEF Disposed, FlagKnown, At, DisposesNow
  <2>3. CASE UNCHANGED actors
    BY <1>5, <2>3
  <2>4. ToDisposing(a) \/ UNCHANGED actors
    BY <1>1, <1>4, <1>6
    DEF Arrives, ToHandling, ToImporting, Idle, Handling, Rescanning, Disposing, Importing
  <2>5. ASSUME ToDisposing(a)
        PROVE  \/ At(a, "idle") /\ UNCHANGED <<rows, stored, blocked>> /\ d \in stored /\ Sources(d) = {}
               \/ actors[a] \in Disposing /\ DisposesNow(a, actors[a].pc, actors[a].todo)
    <3>1. \A e : Sources(e) \subseteq Uploads
      BY DEF Sources
    <3> QED
      BY <1>1, <1>4, <1>6, <2>5, <3>1 DEF ToDisposing, DisposesNow
  <2> QED
    BY <2>1, <2>2, <2>3, <2>4, <2>5
<1> QED
  BY <1>4, <1>5, <1>6

\* An import that has looked its images up is alone with their content until it stores them.
LEMMA KeepStep ==
    ASSUME TypeOK, Known, Overlaps, Disposed, raced \subseteq raced', NEW a \in Actors,
           \/ (PipelineStep(a) \/ DisposalStep(a) \/ FaultStep(a)) /\ UNCHANGED importVars
           \/ ImportStep(a),
           NEW b \in Actors
    PROVE  KeepKnown(b)'
<1>1. SUFFICES ASSUME actors'[b] \in Importing, actors'[b].pc = "keep", UploadOf(b)' = UploadOf(b),
                      Free(UploadOf(b)), actors[b] \in Importing
               PROVE  Image(UploadOf(b)) \notin blocked'
  <2> SUFFICES ASSUME actors'[b] \in Importing, actors'[b].pc = "keep", Free(UploadOf(b))'
               PROVE  Image(UploadOf(b))' \notin blocked'
    BY DEF KeepKnown, At
  <2>1. actors[b] \in Importing /\ actors'[b].import = actors[b].import
    <3>1. CASE actors'[b] = actors[b]
      BY <3>1
    <3>2. CASE a = b
      <4>1. actors'[b] \notin {Idle} \cup Handling \cup Rescanning \cup Disposing
        BY DEF Idle, Handling, Rescanning, Disposing, Importing
      <4>2. Arrives(a)
        BY StepFacts
      <4>3. ToImporting(a) \/ UNCHANGED actors
        BY <3>2, <4>1, <4>2 DEF Arrives, ToHandling, ToDisposing
      <4> QED
        BY <3>1, <3>2, <4>3 DEF ToImporting, ImportsNow
    <3> QED
      BY <3>1, <3>2, OthersStay
  <2>2. UploadOf(b)' = UploadOf(b)
    BY <2>1, StepFacts
  <2> QED
    BY <2>1, <2>2 DEF Free, Image
<1>2. /\ StoreWritten(a) /\ Arrives(a) /\ UploadOf(b) \in Uploads
      /\ \A c \in Actors \ {a} : actors'[c] = actors[c]
  BY <1>1, StepFacts
<1>3. CASE actors'[b] = actors[b]
  <2>1. Image(UploadOf(b)) \notin blocked
    BY <1>1, <1>3 DEF Disposed, KeepKnown, At
  <2>2. ASSUME At(a, "record"), actors[a] \in Disposing, Image(UploadOf(b)) \in actors[a].todo
        PROVE  FALSE
    <3>1. a # b
      BY <1>1, <2>2 DEF Disposing, Importing
    <3>2. Works(a, Content[UploadOf(b)])
      BY <1>2, <2>2, WorksTodo, DigestsOf
    <3>3. Works(b, Content[UploadOf(b)])
      BY <1>1, <1>2, WorksOn
    <3> QED
      BY <1>1, <1>2, <3>1, <3>2, <3>3, UploadsAssumption DEF Overlaps, Overlap, Free
  <2> QED
    BY <1>2, <2>1, <2>2 DEF StoreWritten
<1>4. CASE a = b
  <2>1. CASE UNCHANGED blocked /\ Image(UploadOf(a)) \notin blocked
    BY <1>4, <2>1
  <2>2. CASE UNCHANGED <<actors, rows, stored, blocked>>
    BY <1>1, <2>2 DEF Disposed, KeepKnown, At
  <2>3. CASE ImportsNow(a, actors[a].pc) /\ UNCHANGED <<rows, stored, blocked>>
    BY <1>1, <1>4, <2>3 DEF Disposed, KeepKnown, At, ImportsNow
  <2>4. ToImporting(a) \/ UNCHANGED <<actors, rows, stored, blocked>>
    BY <1>1, <1>2, <1>4
    DEF Arrives, ToHandling, ToDisposing, Idle, Handling, Rescanning, Disposing, Importing
  <2> QED
    BY <1>1, <1>4, <2>1, <2>2, <2>3, <2>4 DEF ToImporting, ImportsNow, At, Importing, Disposing
<1> QED
  BY <1>2, <1>3, <1>4

\* What is blocked is not stored again, and what is stored is removed by whoever blocks it.
LEMMA RemovingStep ==
    ASSUME TypeOK, Known, Fit, Disposed, NEW a \in Actors,
           \/ (PipelineStep(a) \/ DisposalStep(a) \/ FaultStep(a)) /\ UNCHANGED importVars
           \/ ImportStep(a),
           raced \subseteq raced'
    PROVE  Removing'
<1>1. SUFFICES ASSUME NEW d \in blocked' \cap stored', faults' = 0, d[1] \notin raced', Single(d[1])
               PROVE  \E b \in Actors : /\ actors'[b] \in Disposing /\ actors'[b].pc = "remove"
                                        /\ d \in actors'[b].todo
  BY DEF Removing, At, Single
<1>2. /\ StoreWritten(a) /\ faults = 0
      /\ \A b \in Actors \ {a} : actors'[b] = actors[b]
      /\ \A b \in Actors : actors[b] \in Importing => UploadOf(b) \in Uploads /\ kind[UploadOf(b)] = "card"
  BY <1>1, StepFacts, Faultless
<1>3. CASE d \in stored /\ d \in blocked
  <2>1. PICK b \in Actors : actors[b] \in Disposing /\ At(b, "remove") /\ d \in actors[b].todo
    BY <1>1, <1>2, <1>3 DEF Removing, Disposed
  <2>2. CASE a # b
    BY <1>2, <2>1, <2>2 DEF At
  <2>3. CASE a = b
    <3>1. PICK e \in Digests : RemoveCopy(a, e)
      BY <1>1, <2>1, <2>3, Faultless
    <3>2. DisposesNow(a, "remove", actors[a].todo \ {e}) /\ stored' = stored \ {e}
      BY <3>1, Moves DEF RemoveCopy
    <3> QED
      BY <1>1, <2>1, <2>3, <3>2 DEF DisposesNow
  <2> QED
    BY <2>2, <2>3
<1>4. CASE d \notin stored
  <2>b. ASSUME NEW u \in Uploads, d \in Named(u)
        PROVE  Sure(u) /\ BlockedKnown(u)
    <3>1. d[1] = Content[u]
      BY <2>b, DigestsOf DEF Named
    <3> QED
      BY <1>1, <1>2, <3>1 DEF Sure, Free, Disposed, UploadKnown
  <2>1. CASE /\ UNCHANGED blocked /\ At(a, "store") /\ actors[a] \in Handling
             /\ stored' = stored \cup {Blob(actors[a].upload)}
    <3> DEFINE u == actors[a].upload
    <3>1. u \in Uploads /\ d = Blob(u) /\ d \in blocked
      BY <1>1, <1>4, <2>1 DEF Handling
    <3>2. Sure(u) /\ BlockedKnown(u)
      BY <2>b, <3>1, DigestsOf DEF Named
    <3>3. status[u] = "processing"
      BY <2>1, <3>1, <3>2 DEF Fit, FitHandling, Sure, Free, At
    <3> QED
      BY <3>1, <3>2, <3>3 DEF BlockedKnown, ImageSettled, Blob
  <2>2. CASE /\ UNCHANGED blocked /\ At(a, "keep") /\ actors[a] \in Importing
             /\ stored' = stored \cup {Image(UploadOf(a)), Original(UploadOf(a))}
    <3> DEFINE u == UploadOf(a)
    <3>1. u \in Uploads /\ d \in Named(u) /\ d \in blocked /\ d \in {Original(u), Image(u)}
      BY <1>1, <1>2, <1>4, <2>2 DEF Named
    <3>2. Sure(u) /\ BlockedKnown(u) /\ Free(u)
      BY <2>b, <3>1 DEF Sure
    <3>3. status[u] = "ready"
      BY <2>2, <3>2 DEF Fit, FitImporting, Free, At
    <3>4. Image(u) \notin blocked
      BY <2>2, <3>2 DEF Disposed, KeepKnown
    <3> QED
      BY <3>1, <3>2, <3>3, <3>4 DEF BlockedKnown
  <2> QED
    BY <1>1, <1>2, <1>4, <2>1, <2>2 DEF StoreWritten
<1>5. CASE d \in stored /\ d \notin blocked
  BY <1>1, <1>2, <1>5 DEF StoreWritten, DisposesNow
<1> QED
  BY <1>3, <1>4, <1>5

LEMMA DisposedStep ==
    ASSUME TypeOK, Known, Overlaps, Fit, RowsName, Disposed, [Next]_vars
    PROVE  Disposed'
<1>t. /\ UploadsTypeOK /\ TypeOK'
      /\ \A a \in Actors : actors[a] \in Importing => /\ actors[a].import \in Imports
                                                      /\ imports[actors[a].import].st # "absent"
                                                      /\ UploadOf(a) \in Uploads
  BY TypeStep DEF TypeOK, Known, HandlersKnow, Knows, ImportsKnow, UploadOf, Importing
<1>r. raced \subseteq raced' /\ Overlaps' /\ \A u \in Uploads : Free(u)' => Free(u)
  BY OverlapStep DEF Free
<1>c. \A u : Original(u)' = Original(u) /\ Image(u)' = Image(u)
  BY DEF Original, Image
<1>1. ASSUME UNCHANGED <<result, actors, stored, blocked, faults>>,
             \A u \in Uploads : \/ status'[u] = status[u] /\ kind'[u] = kind[u]
                                \/ status[u] = "absent",
             \A i \in Imports : imports[i].st # "absent" => imports'[i].upload = imports[i].upload
      PROVE  Disposed'
  <2>s. \A u \in Uploads : Sure(u)' => Sure(u)
    BY <1>r, <1>1 DEF Sure, Single
  <2>k. \A u \in Uploads : Commits(u) => status[u] # "absent"
    BY <1>t, UploadsAssumption DEF Commits, Known, HandlersKnow, Knows
  <2>1. ASSUME NEW u \in Uploads, Sure(u)'
        PROVE  BlockedKnown(u)' /\ OriginalKnown(u)' /\ ImageKnown(u)'
    <3>1. Sure(u) /\ BlockedKnown(u) /\ OriginalKnown(u) /\ ImageKnown(u)
      BY <2>s, <2>1 DEF Disposed, UploadKnown
    <3>2. Commits(u)' = Commits(u)
      BY <1>1 DEF Commits, At
    <3>3. CASE status[u] = "absent"
      <4>1. {Original(u), Image(u)} \cap (blocked \cup stored) = {}
        BY <2>k, <3>1, <3>3 DEF BlockedKnown, OriginalKnown, ImageKnown, ImageSettled
      <4> QED
        BY <1>c, <1>1, <4>1 DEF BlockedKnown, OriginalKnown, ImageKnown
    <3>4. CASE status'[u] = status[u] /\ kind'[u] = kind[u]
      BY <1>c, <1>1, <3>1, <3>2, <3>4 DEF BlockedKnown, OriginalKnown, ImageKnown, ImageSettled
    <3> QED
      BY <1>1, <3>3, <3>4
  <2>2. \A u \in Uploads : UploadKnown(u)'
    BY <2>1 DEF UploadKnown, BlockedKnown, OriginalKnown, ImageKnown
  <2>3. ASSUME NEW a \in Actors PROVE FlagKnown(a)'
    <3>1. \A u \in Uploads : status[u] = "absent" => ~ImageSettled(u)
      BY DEF ImageSettled
    <3>2. \A u \in Uploads : ImageSettled(u) => ImageSettled(u)'
      BY <1>1, <3>1 DEF ImageSettled
    <3> QED
      BY <1>c, <1>1, <2>s, <3>2 DEF Disposed, FlagKnown, At
  <2>4. ASSUME NEW a \in Actors PROVE KeepKnown(a)'
    <3>1. actors[a] \in Importing => UploadOf(a)' = UploadOf(a)
      BY <1>t, <1>1 DEF UploadOf
    <3> QED
      BY <1>t, <1>r, <1>c, <1>1, <3>1 DEF Disposed, KeepKnown, At
  <2>5. Removing'
    BY <1>r, <1>1 DEF Disposed, Removing, At, Single
  <2> QED
    BY <2>2, <2>3, <2>4, <2>5 DEF Disposed
<1>2. CASE UploaderStep /\ UNCHANGED importVars
  <2>1. /\ UNCHANGED <<result, actors, stored, blocked, faults, imports>>
        /\ \A u \in Uploads : \/ status'[u] = status[u] /\ kind'[u] = kind[u]
                              \/ status[u] = "absent"
    BY <1>t, <1>2
    DEF UploaderStep, Create, PutOriginal, UrlExpires, TtlPasses, Redeliver, rows, moderation, importVars,
        UploadsTypeOK
  <2> QED
    BY <1>1, <2>1
<1>3. CASE AuthorStep
  <2>1. /\ UNCHANGED <<rows, actors, stored, blocked, faults>>
        /\ \A i \in Imports : imports[i].st # "absent" => imports'[i] = imports[i]
    BY <1>3 DEF AuthorStep, TakeName, CreateImport, Absent, TypeOK, moderation
  <2> QED
    BY <1>1, <2>1 DEF rows
<1>4. ASSUME NEW a \in Actors,
             \/ (PipelineStep(a) \/ DisposalStep(a) \/ FaultStep(a)) /\ UNCHANGED importVars
             \/ ImportStep(a)
      PROVE  Disposed'
  <2>s. \A u \in Uploads : Sure(u)' => Sure(u)
    BY <1>r, <1>4, Faultless DEF Sure, Single
  <2>1. ASSUME NEW u \in Uploads PROVE UploadKnown(u)'
    <3>1. CASE Sure(u)'
      BY <1>4, <2>s, <3>1, BlockedStep, StoredStep DEF UploadKnown
    <3>2. CASE ~Sure(u)'
      BY <3>2 DEF UploadKnown, BlockedKnown, OriginalKnown, ImageKnown
    <3> QED
      BY <3>1, <3>2
  <2>2. \A b \in Actors : FlagKnown(b)' /\ KeepKnown(b)'
    BY <1>r, <1>4, <2>s, FlagStep, KeepStep
  <2>3. Removing'
    BY <1>r, <1>4, RemovingStep
  <2> QED
    BY <2>1, <2>2, <2>3 DEF Disposed
<1>5. CASE UNCHANGED vars
  BY <1>1, <1>5 DEF vars, importVars, rows
<1> QED
  BY <1>2, <1>3, <1>4, <1>5, StepKinds

\* What a match or a flag has blocked is gone from the store once nobody is at work on
\* it: no execution died, no two handlers overlapped on it, one upload brought it.
THEOREM BlockedGone == Spec => []BlockedIsGone
<1>1. Init => RowsName /\ Disposed
  <2> SUFFICES ASSUME Init PROVE RowsName /\ Disposed
    OBVIOUS
  <2>1. RowsName
    BY DEF Init, UploadsInit, RowsName, RowNames, SeenNames, TodoNames, Idle, Importing, Disposing
  <2>2. Disposed
    BY DEF Init, UploadsInit, Disposed, UploadKnown, BlockedKnown, OriginalKnown, ImageKnown, FlagKnown,
           KeepKnown, Removing, Idle, Importing, Disposing
  <2> QED
    BY <2>1, <2>2
<1>2. Orderly /\ (RowsName /\ Disposed) /\ [Next]_vars => (RowsName /\ Disposed)'
  BY NamesStep, DisposedStep DEF Orderly, Base
<1>3. Disposed => BlockedIsGone
  BY WorksTodo DEF Disposed, Removing, BlockedIsGone
<1> QED
  BY OrderlyHolds, <1>1, <1>2, <1>3, PTL DEF Spec
-----------------------------------------------------------------------------
(* The jobs of imports. *)

\* An import in progress has its job: queued, running, waiting for a retry, or in the
\* dead letters, where staff find it.
ImportsHaveJobs == \A i \in Imports : InProgress(i) => jobs[i].st # "none"

\* The job of an import is held by who runs the import, or disposes of what it found.
HoldsRight(s) ==
    s.job \in Imports => \/ s \in Importing /\ s.import = s.job
                         \/ s \in Disposing /\ s.task = s.job

\* What a handler knows of the row of the import it runs.
RowKnown(a) ==
    actors[a] \in Importing =>
        /\ actors[a].pc \in {"parse", "keep", "import"} => imports[actors[a].import].st # "pending"
        /\ At(a, "drop") /\ actors[a].job = actors[a].import => ~InProgress(actors[a].import)

\* What a step of a handler does to the jobs, and which one it holds after it.
JobsTaken(a) ==
    /\ HoldsRight(actors'[a])
    /\ \/ UNCHANGED jobs /\ actors'[a].job \in {actors[a].job, "none"}
       \/ \E j \in Jobs : jobs' = [jobs EXCEPT ![j] = Enqueue(@, j)] /\ actors'[a].job = "none"
       \/ \E j \in Jobs : /\ Queued(jobs[j]) /\ UNCHANGED actors
                          /\ jobs' = [jobs EXCEPT ![j] = Complete(@)]
                          /\ j \in Imports => imports'[j].st \notin {"pending", "processing"}
       \/ \E j \in Jobs : /\ Queued(jobs[j]) /\ actors'[a].job = j
                          /\ jobs' = [jobs EXCEPT ![j] = Fetch(@)]
       \/ /\ actors'[a].job = "none"
          /\ jobs' = [j \in Jobs |-> IF j = actors[a].job THEN Fail(jobs[j]) ELSE jobs[j]]
       \/ /\ actors'[a].job = "none"
          /\ jobs' = [j \in Jobs |-> IF j = actors[a].job THEN Complete(jobs[j]) ELSE jobs[j]]
          /\ actors[a].job \in Imports =>
                 imports'[actors[a].job].st \notin {"pending", "processing"}

\* A handler that goes on holds the job it held.
LEMMA MoveJob ==
    ASSUME NEW s \in ActorStates, NEW pc
    PROVE  [s EXCEPT !.pc = pc].job = s.job
  BY DEF ActorStates, Idle, Handling, Rescanning, Disposing, Importing

LEMMA NoJob ==
    /\ "none" \notin Imports /\ {"upload", "staff"} \cap Imports = {}
    /\ \A s : s.job = "none" => HoldsRight(s)
    /\ Idle.job = "none"
    /\ \A s \in Handling : HoldsRight(s) <=> s.job \notin Imports
<1>1. "none" \notin Imports /\ {"upload", "staff"} \cap Imports = {}
  BY UploadsAssumption, ImportsAssumption
<1>2. \A s \in Handling : s \notin Importing /\ s \notin Disposing
  BY DEF Handling, Importing, Disposing
<1> QED
  BY <1>1, <1>2 DEF HoldsRight, Idle

\* A handler that returns completes its job, one that throws fails it.
LEMMA ReturnJobs ==
    ASSUME TypeOK, NEW a \in Actors
    PROVE  /\ Throw(a) => JobsTaken(a)
           /\ Finish(a) /\ (actors[a].job \in Imports =>
                                imports'[actors[a].job].st \notin {"pending", "processing"})
                  => JobsTaken(a)
<1>1. Finish(a) \/ Throw(a) => actors'[a].job = "none" /\ HoldsRight(actors'[a])
  BY ReturnIs, NoJob
<1> QED
  BY <1>1 DEF JobsTaken, Finish, Throw, EndJob

\* The upload pipeline completes the jobs of uploads alone.
LEMMA PipelineJobs ==
    ASSUME TypeOK, NEW a \in Actors, HoldsRight(actors[a]), PipelineStep(a)
    PROVE  JobsTaken(a)
<1>s. actors[a] \in ActorStates /\ Uploads \subseteq Jobs /\ Uploads \cap Imports = {}
  BY TypesNow, ImportsAssumption
<1>h. actors[a] \in Handling => actors[a].upload \in Uploads /\ actors[a].job \notin Imports
  BY NoJob DEF Handling
<1>m. ASSUME actors[a] \in Handling, NEW pc, Step(a, pc), UNCHANGED jobs
      PROVE  JobsTaken(a)
  <2>1. actors'[a] = [actors[a] EXCEPT !.pc = pc]
    BY <1>m, GoToIs DEF Step
  <2>2. actors'[a].job = actors[a].job
    BY <1>s, <2>1, MoveJob
  <2> QED
    BY <1>h, <1>m, <2>2 DEF JobsTaken, HoldsRight
<1>f. ASSUME actors[a] \in Handling, Finish(a) PROVE JobsTaken(a)
  BY <1>h, <1>f, ReturnJobs
<1>n. ASSUME NEW u \in Uploads, NEW pc, NEW j \in {"none", u},
             GoTo(a, [pc |-> pc, upload |-> u, job |-> j, scan |-> "none"])
      PROVE  actors'[a].job = j /\ HoldsRight(actors'[a])
  <2>1. actors'[a] = [pc |-> pc, upload |-> u, job |-> j, scan |-> "none"]
    BY <1>n, GoToIs
  <2> QED
    BY <1>s, <2>1, NoJob DEF HoldsRight
<1>1. ASSUME NEW u \in Uploads, CompleteRead(a, u) \/ (a = Sweeper /\ SweepRead(u))
      PROVE  JobsTaken(a)
  BY <1>n, <1>1 DEF CompleteRead, SweepRead, JobsTaken
<1>2. ASSUME NEW u \in Uploads, ProcessStart(a, u) PROVE JobsTaken(a)
  <2>1. CASE UNCHANGED actors /\ jobs' = [jobs EXCEPT ![u] = Complete(@)]
    BY <1>s, <1>2, <2>1 DEF ProcessStart, JobsTaken
  <2>2. CASE /\ jobs' = [jobs EXCEPT ![u] = Fetch(@)]
             /\ GoTo(a, [pc |-> "load", upload |-> u, job |-> u, scan |-> "none"])
    BY <1>s, <1>n, <1>2, <2>2 DEF ProcessStart, JobsTaken
  <2> QED
    BY <1>2, <2>1, <2>2 DEF ProcessStart
<1>3. CASE CompleteWrite(a)
  <2>1. actors[a] \in Handling
    BY <1>s, <1>3, ByPc DEF CompleteWrite, At
  <2>2. actors'[a].job = "none" /\ HoldsRight(actors'[a])
    BY <1>3, GoToIs, NoJob DEF CompleteWrite
  <2> QED
    BY <1>s, <1>h, <1>3, <2>1, <2>2 DEF CompleteWrite, JobsTaken
<1>4. CASE LoadRejects(a) \/ LoadPasses(a) \/ Reject(a) \/ Store(a)
  BY <1>s, <1>m, <1>4, ByPc DEF LoadRejects, LoadPasses, Reject, Store, At
<1>5. ASSUME NEW scan \in Scans, LoadScans(a, scan) PROVE JobsTaken(a)
  <2>1. actors[a] \in Handling
    BY <1>s, <1>5, ByPc DEF LoadScans, At
  <2>2. CASE GoTo(a, [actors[a] EXCEPT !.pc = "store", !.scan = scan]) /\ UNCHANGED jobs
    <3>1. actors'[a] = [actors[a] EXCEPT !.pc = "store", !.scan = scan]
      BY <2>2, GoToIs
    <3>2. actors'[a].job = actors[a].job
      BY <2>1, <3>1 DEF Handling
    <3> QED
      BY <1>h, <2>1, <2>2, <3>2 DEF JobsTaken, HoldsRight
  <2> QED
    BY <1>m, <1>5, <2>1, <2>2, ReturnJobs DEF LoadScans
<1>6. CASE Commit(a)
  BY <1>s, <1>m, <1>f, <1>6, ByPc DEF Commit, At
<1>7. CASE Discard(a)
  BY <1>s, <1>f, <1>7, ByPc DEF Discard, At
<1>8. CASE Hit(a)
  <2>1. actors[a] \in Handling
    BY <1>s, <1>8, ByPc DEF Hit, At
  <2>2. actors'[a].job = actors[a].job
    BY <1>8, GoToIs DEF Hit
  <2> QED
    BY <1>h, <1>8, <2>1, <2>2 DEF Hit, JobsTaken, HoldsRight
<1>9. CASE a = Sweeper /\ (SweepDelete \/ SweepMark)
  <2>1. CASE SweepDelete
    BY <1>s, <1>m, <1>9, <2>1, ByPc DEF SweepDelete, At
  <2>2. CASE SweepMark
    BY <1>9, <2>2, GoToIs, NoJob DEF SweepMark, JobsTaken
  <2> QED
    BY <1>9, <2>1, <2>2
<1> QED
  BY <1>1, <1>2, <1>3, <1>4, <1>5, <1>6, <1>7, <1>8, <1>9 DEF PipelineStep, ProcessSteps

\* A disposal keeps the job it was started with, and a fault never completes one.
LEMMA DisposalJobs ==
    ASSUME TypeOK, NEW a \in Actors, HoldsRight(actors[a]), DisposalStep(a) \/ FaultStep(a)
    PROVE  JobsTaken(a)
<1>s. actors[a] \in ActorStates
  BY TypesNow
<1>m. ASSUME actors[a] \in Disposing, NEW s \in Disposing, GoTo(a, s), UNCHANGED jobs,
             s.job = actors[a].job, s.task = actors[a].task
      PROVE  JobsTaken(a)
  <2>1. actors'[a] = s
    BY <1>m, GoToIs
  <2>2. HoldsRight(s)
    BY <1>m DEF HoldsRight, Disposing, Importing
  <2> QED
    BY <1>m, <2>1, <2>2 DEF JobsTaken
<1>n. ASSUME NEW s, GoTo(a, s), s.job = "none", UNCHANGED jobs PROVE JobsTaken(a)
  <2>1. actors'[a] = s
    BY <1>n, GoToIs
  <2> QED
    BY <1>n, <2>1, NoJob DEF JobsTaken
<1>1. ASSUME NEW d \in Digests, DisposeBlob(a, d) \/ RescanClear(a, d) PROVE JobsTaken(a)
  BY <1>n, <1>1 DEF DisposeBlob, RescanClear
<1>2. CASE RescanWrites(a)
  BY <1>n, <1>2, NoJob DEF RescanWrites
<1>3. CASE DisposeLoad(a)
  <2>1. actors[a] \in Disposing
    BY <1>s, <1>3, ByPc DEF DisposeLoad, At
  <2> DEFINE s == [actors[a] EXCEPT !.pc = "record", !.todo = @ \cup result[actors[a].upload]]
  <2>2. actors[a].upload \in Uploads /\ result[actors[a].upload] \subseteq Digests
    BY <1>3, <2>1 DEF DisposeLoad, At, Disposing, TypeOK, UploadsTypeOK
  <2>3. actors[a].todo \subseteq Digests
    BY <2>1 DEF Disposing
  <2>4. s \in Disposing /\ s.job = actors[a].job /\ s.task = actors[a].task
    BY <2>1, <2>2, <2>3 DEF Disposing
  <2> QED
    BY <1>m, <1>3, <2>1, <2>4 DEF DisposeLoad
<1>4. CASE Record(a)
  <2>1. actors[a] \in Disposing
    BY <1>s, <1>4, ByPc DEF Record, At
  <2> DEFINE s == [actors[a] EXCEPT !.pc = "remove"]
  <2>2. s \in Disposing /\ s.task = actors[a].task /\ s.job = actors[a].job
    BY <1>s, <2>1, MoveType, MoveJob
  <2> QED
    BY <1>m, <1>4, <2>1, <2>2 DEF Record, Step
<1>5. ASSUME NEW d \in Digests, RemoveCopy(a, d) PROVE JobsTaken(a)
  <2>1. actors[a] \in Disposing
    BY <1>s, <1>5, ByPc DEF RemoveCopy, At
  <2> DEFINE s == [actors[a] EXCEPT !.todo = @ \ {d}]
  <2>2. s \in Disposing /\ s.task = actors[a].task /\ s.job = actors[a].job
    BY <2>1 DEF Disposing
  <2> QED
    BY <1>m, <1>5, <2>1, <2>2 DEF RemoveCopy
<1>6. CASE DisposeEnds(a)
  <2>1. actors[a] \in Disposing
    BY <1>s, <1>6, ByPc DEF DisposeEnds, ForgetOriginal, At
  <2>2. actors[a].job \notin Imports
    BY <1>6, <2>1, NoJob DEF DisposeEnds, HoldsRight, Disposing, Importing
  <2> QED
    BY <1>6, <2>2, ReturnJobs DEF DisposeEnds
<1>7. CASE Die(a)
  BY <1>7, ReturnJobs DEF Die
<1>8. CASE Outlive(a)
  <2>1. actors'[a] = [actors[a] EXCEPT !.job = "none"]
    BY <1>8, GoToIs DEF Outlive
  <2>2. actors'[a].job = "none"
    BY <1>s, <2>1 DEF ActorStates, Idle, Handling, Rescanning, Disposing, Importing
  <2> QED
    BY <1>8, <2>2, NoJob DEF Outlive, EndJob, JobsTaken
<1> QED
  BY <1>1, <1>2, <1>3, <1>4, <1>5, <1>6, <1>7, <1>8 DEF DisposalStep, DisposeSteps, FaultStep

\* An execution of an import completes its job only when the import is decided.
LEMMA ImportJobs ==
    ASSUME TypeOK, Known, NEW a \in Actors, HoldsRight(actors[a]), RowKnown(a), ImportStep(a),
           \A i \in effects : imports[i].st = "succeeded"
    PROVE  JobsTaken(a)
<1>s. /\ actors[a] \in ActorStates /\ Imports \subseteq Jobs
      /\ \A u \in Uploads : Original(u) \in Digests /\ Image(u) \in Digests
  BY TypesNow
<1>h. ASSUME actors[a] \in Importing
      PROVE  /\ actors[a].import \in Imports /\ UploadOf(a) \in Uploads
             /\ actors[a].job \in Imports => actors[a].job = actors[a].import
  <2>1. actors[a].import \in Imports /\ (actors[a].job \in Imports => actors[a].job = actors[a].import)
    BY <1>h DEF HoldsRight, Importing, Disposing
  <2>2. UploadOf(a) \in Uploads
    BY <1>h, <2>1 DEF Known, ImportsKnow, HandlersKnow, Knows, UploadOf
  <2> QED
    BY <2>1, <2>2
<1>m. ASSUME actors[a] \in Importing, NEW s, GoTo(a, s), UNCHANGED jobs, s.job = actors[a].job,
             s \in Importing => s.import = actors[a].import,
             s \in Importing \/ (s \in Disposing /\ s.task = actors[a].import)
      PROVE  JobsTaken(a)
  <2>1. actors'[a] = s
    BY <1>m, GoToIs
  <2>2. HoldsRight(s)
    BY <1>h, <1>m DEF HoldsRight
  <2> QED
    BY <1>m, <2>1, <2>2 DEF JobsTaken
<1>p. ASSUME actors[a] \in Importing, NEW pc \in {"import", "fail", "drop"}, Step(a, pc), UNCHANGED jobs
      PROVE  JobsTaken(a)
  <2> DEFINE s == [actors[a] EXCEPT !.pc = pc]
  <2>1. s \in Importing /\ s.import = actors[a].import /\ s.job = actors[a].job
    BY <1>s, <1>p, MoveType, MoveJob
  <2> QED
    BY <1>m, <1>p, <2>1 DEF Step
<1>1. ASSUME NEW i \in Imports, ImportStart(a, i) PROVE JobsTaken(a)
  <2>1. CASE InProgress(i) \/ Revived(i)
    <3> DEFINE s == [pc |-> "open", import |-> i, job |-> i, bytes |-> "none", scan |-> "none",
                     final |-> IsFinalAttempt(Fetch(jobs[i])), seen |-> {}]
    <3>1. s \in Importing /\ s.job = i /\ s.import = i
      BY <1>s DEF Importing, Held, IsFinalAttempt
    <3>2. GoTo(a, s) /\ jobs' = [jobs EXCEPT ![i] = Fetch(@)] /\ Queued(jobs[i])
      BY <1>1, <2>1 DEF ImportStart
    <3>3. actors'[a] = s
      BY <3>2, GoToIs
    <3>4. HoldsRight(s)
      BY <3>1 DEF HoldsRight
    <3> QED
      BY <1>s, <3>1, <3>2, <3>3, <3>4 DEF JobsTaken
  <2>2. CASE ~(InProgress(i) \/ Revived(i))
    <3>1. UNCHANGED <<actors, imports>> /\ jobs' = [jobs EXCEPT ![i] = Complete(@)] /\ Queued(jobs[i])
      BY <1>1, <2>2 DEF ImportStart
    <3>2. imports'[i].st \notin {"pending", "processing"}
      BY <2>2, <3>1 DEF InProgress
    <3> QED
      BY <1>s, <3>1, <3>2 DEF JobsTaken
  <2> QED
    BY <2>1, <2>2
<1>2. CASE ImportOpen(a)
  <2>1. actors[a] \in Importing
    BY <1>s, <1>2, ByPc DEF ImportOpen, At
  <2> DEFINE s == [actors[a] EXCEPT !.pc = "parse", !.seen = result[UploadOf(a)]]
  <2>2. result[UploadOf(a)] \subseteq Digests
    BY <1>h, <2>1 DEF TypeOK, UploadsTypeOK
  <2>3. s \in Importing /\ s.job = actors[a].job /\ s.import = actors[a].import
    BY <2>1, <2>2 DEF Importing
  <2>4. CASE GoTo(a, s) /\ UNCHANGED jobs
    BY <1>m, <2>1, <2>3, <2>4
  <2> QED
    BY <1>2, <1>p, <2>1, <2>4 DEF ImportOpen
<1>3. CASE ImportRejects(a) \/ ImportKeeps(a) \/ ImportFails(a)
  BY <1>s, <1>3, <1>p, ByPc DEF ImportRejects, ImportKeeps, ImportFails, At
<1>4. CASE ImportMatches(a)
  <2>1. actors[a] \in Importing
    BY <1>s, <1>4, ByPc DEF ImportMatches, At
  <2> DEFINE s == [pc |-> "evidence", upload |-> UploadOf(a), job |-> actors[a].job,
                   task |-> actors[a].import, todo |-> {Original(UploadOf(a))}]
  <2>2. s \in Disposing /\ s \notin Importing
    BY <1>s, <1>h, <2>1 DEF Disposing, Importing
  <2> QED
    BY <1>4, <1>m, <2>1, <2>2 DEF ImportMatches
<1>5. ASSUME NEW scan \in {"none", "clear"}, ImportPasses(a, scan) PROVE JobsTaken(a)
  <2>1. actors[a] \in Importing
    BY <1>s, <1>5, ByPc DEF ImportPasses, At
  <2> DEFINE s == [actors[a] EXCEPT !.pc = "keep", !.bytes = staged[UploadOf(a)], !.scan = scan]
  <2>2. staged[UploadOf(a)] = "declared"
    BY <1>5 DEF ImportPasses, Parses
  <2>3. s \in Importing /\ s.job = actors[a].job /\ s.import = actors[a].import
    BY <2>1, <2>2 DEF Importing
  <2> QED
    BY <1>5, <1>m, <2>1, <2>3 DEF ImportPasses
<1>6. CASE ImportCommit(a)
  <2>1. actors[a] \in Importing /\ actors[a].pc = "import"
    BY <1>s, <1>6, ByPc DEF ImportCommit, At
  <2>2. CASE Finish(a) /\ UNCHANGED imports
             /\ (imports[actors[a].import].st # "processing" \/ actors[a].import \in effects)
    <3>1. imports'[actors[a].import].st \notin {"pending", "processing"}
      BY <2>1, <2>2 DEF RowKnown
    <3> QED
      BY <1>h, <2>1, <2>2, <3>1, ReturnJobs
  <2> QED
    BY <1>6, <1>p, <2>1, <2>2 DEF ImportCommit
<1>7. CASE ImportDrops(a)
  <2>1. actors[a] \in Importing /\ At(a, "drop")
    BY <1>s, <1>7, ByPc DEF ImportDrops, At
  <2>2. actors[a].job \in Imports => imports'[actors[a].job].st \notin {"pending", "processing"}
    BY <1>h, <1>7, <2>1 DEF RowKnown, InProgress, ImportDrops, importVars
  <2> QED
    BY <1>7, <2>2, ReturnJobs DEF ImportDrops
<1>8. CASE ImportDisposed(a)
  <2>1. actors[a] \in Disposing
    BY <1>s, <1>8, ByPc DEF ImportDisposed, ForgetOriginal, At
  <2> DEFINE s == [pc |-> "fail", import |-> actors[a].task, job |-> actors[a].job, bytes |-> "none",
                   scan |-> "none", final |-> FALSE, seen |-> {}]
  <2>2. s \in Importing /\ s.job = actors[a].job /\ s.import = actors[a].task
    BY <1>8, <2>1 DEF ImportDisposed, Importing, Disposing
  <2>3. actors'[a] = s /\ UNCHANGED jobs
    BY <1>8, GoToIs DEF ImportDisposed
  <2>4. HoldsRight(s)
    BY <2>1, <2>2 DEF HoldsRight, Disposing, Importing
  <2> QED
    BY <2>2, <2>3, <2>4 DEF JobsTaken
<1>9. CASE ImportThrows(a)
  BY <1>9, ReturnJobs DEF ImportThrows
<1> QED
  BY <1>1, <1>2, <1>3, <1>4, <1>5, <1>6, <1>7, <1>8, <1>9 DEF ImportStep, ImportHandler

\* What a step of a handler makes of the rows of the imports.
RowMoves ==
    \A i \in Imports :
        \/ imports'[i].st = imports[i].st
        \/ /\ imports[i].st = "failed" /\ imports'[i].st = "processing"
           /\ Queued(jobs[i]) /\ jobs'[i].st = "active"
        \/ InProgress(i) /\ imports'[i].st \in {"processing", "succeeded", "failed"}

LEMMA RowsMove ==
    ASSUME TypeOK, Known, NEW a \in Actors, ImportStep(a)
    PROVE  RowMoves
<1>t. actors[a] \in ActorStates /\ Imports \subseteq Jobs /\ \A j \in Jobs : jobs[j] \in Job(Jobs)
  BY TypesNow
<1>s. /\ {"processing", "failed", "succeeded"} \subseteq ImportStatuses
      /\ {"none", "internal", "final"} \subseteq ImportErrors
      /\ \A j \in Imports : imports[j].error \in ImportErrors
  BY DEF TypeOK, ImportStatuses, ImportErrors
<1>r. ASSUME NEW i \in Imports, InProgress(i), NEW st \in {"processing", "succeeded", "failed"},
             NEW error \in ImportErrors,
             \/ imports' = [imports EXCEPT ![i].st = st, ![i].error = error]
             \/ imports' = [imports EXCEPT ![i].st = st] /\ error = imports[i].error
      PROVE  RowMoves
  <2>1. imports'[i].st = st /\ \A j \in Imports \ {i} : imports'[j] = imports[j]
    BY <1>r, <1>s, RowIs
  <2> QED
    BY <1>r, <2>1 DEF RowMoves
<1>u. UNCHANGED imports => RowMoves
  BY DEF RowMoves
<1>i. actors[a] \in Importing => actors[a].import \in Imports
  BY DEF Importing
<1>1. ASSUME NEW i \in Imports, ImportStart(a, i) PROVE RowMoves
  <2>1. CASE Revived(i)
    <3>1. imports'[i].st = "processing" /\ \A j \in Imports \ {i} : imports'[j] = imports[j]
      BY <1>1, <1>s, <2>1, RowIs DEF ImportStart
    <3>2. Queued(jobs[i]) /\ jobs' = [jobs EXCEPT ![i] = Fetch(@)]
      BY <1>1, <2>1 DEF ImportStart
    <3>3. jobs'[i].st = "active"
      BY <1>t, <3>2 DEF Fetch, TypeOK, UploadsTypeOK
    <3> QED
      BY <2>1, <3>1, <3>2, <3>3 DEF RowMoves, Revived
  <2> QED
    BY <1>1, <1>u, <2>1 DEF ImportStart
<1>2. CASE ImportOpen(a)
  BY <1>t, <1>2, <1>u, <1>r, <1>s, <1>i, ByPc DEF ImportOpen, At, InProgress
<1>3. CASE ImportCommit(a)
  <2>1. CASE /\ imports[actors[a].import].st = "processing"
             /\ imports' = [imports EXCEPT ![actors[a].import].st = "succeeded"]
    BY <1>t, <1>3, <1>r, <1>s, <1>i, <2>1, ByPc DEF ImportCommit, At, InProgress
  <2> QED
    BY <1>3, <1>u, <2>1 DEF ImportCommit
<1>4. CASE ImportFails(a) \/ ImportThrows(a)
  BY <1>t, <1>4, <1>u, <1>r, <1>s, <1>i, ByPc DEF ImportFails, ImportThrows, At
<1> QED
  BY <1>1, <1>2, <1>3, <1>4, <1>u
  DEF ImportStep, ImportHandler, ImportRejects, ImportMatches, ImportPasses, ImportKeeps, ImportDrops,
      ImportDisposed, importVars

\* What a handler knows of its row after its own step.
LEMMA OwnRow ==
    ASSUME TypeOK, Known, NEW a \in Actors, RowKnown(a),
           \/ (PipelineStep(a) \/ DisposalStep(a) \/ FaultStep(a)) /\ UNCHANGED importVars
           \/ ImportStep(a)
    PROVE  RowKnown(a)'
<1>t. /\ actors[a] \in ActorStates /\ Imports \subseteq Jobs /\ "none" \notin Imports
      /\ Idle \notin Importing /\ Handling \cap Importing = {} /\ Disposing \cap Importing = {}
      /\ Rescanning \cap Importing = {}
  BY TypesNow, NoJob DEF Idle, Handling, Disposing, Rescanning, Importing
<1>n. actors'[a] \notin Importing => RowKnown(a)'
  BY DEF RowKnown
<1>u. UNCHANGED <<actors, imports>> => RowKnown(a)'
  BY DEF RowKnown, At, InProgress
<1>f. actors'[a].pc \in {"open", "fail"} => RowKnown(a)'
  BY DEF RowKnown, At
<1>1. CASE PipelineStep(a) /\ UNCHANGED importVars
  BY <1>t, <1>1, <1>n, <1>u, Moves, Starts
  DEF PipelineStep, ProcessSteps, HandlesNow, DisposesNow, importVars
<1>2. CASE DisposalStep(a) /\ UNCHANGED importVars
  BY <1>t, <1>2, <1>n, Moves, Starts DEF DisposalStep, DisposeSteps, DisposesNow
<1>3. CASE Die(a)
  BY <1>t, <1>3, <1>n, Starts
<1>4. CASE Outlive(a) /\ UNCHANGED importVars
  <2>1. actors'[a] = [actors[a] EXCEPT !.job = "none"]
    BY <1>4, GoToIs DEF Outlive
  <2>2. CASE actors[a] \in Importing
    <3>1. /\ actors'[a] \in Importing /\ actors'[a].pc = actors[a].pc
          /\ actors'[a].import = actors[a].import /\ actors'[a].job = "none"
          /\ actors[a].import \in Imports
      BY <2>1, <2>2 DEF Importing, Held
    <3> QED
      BY <1>t, <1>4, <2>2, <3>1 DEF RowKnown, At, importVars
  <2> QED
    BY <1>t, <1>4, <1>n, <2>2, Starts DEF DisposesNow, ImportsNow
<1>5. CASE ImportStep(a)
  <2>1. ASSUME NEW i \in Imports, ImportStart(a, i) PROVE RowKnown(a)'
    <3>1. CASE InProgress(i) \/ Revived(i)
      <4>1. actors'[a].pc = "open"
        BY <2>1, <3>1, GoToIs DEF ImportStart
      <4> QED
        BY <1>f, <4>1
    <3>2. CASE ~(InProgress(i) \/ Revived(i))
      BY <2>1, <1>u, <3>2 DEF ImportStart
    <3> QED
      BY <3>1, <3>2
  <2>2. CASE ImportOpen(a)
    <3>1. actors[a] \in Importing /\ actors[a].import \in Imports
      BY <2>2, Moves DEF Importing
    <3>2. CASE ImportsNow(a, "parse") /\ status[UploadOf(a)] = "ready"
      <4> DEFINE i == actors[a].import
      <4>1. /\ i \in Imports /\ imports[i].error \in ImportErrors /\ "processing" \in ImportStatuses
            /\ imports' = IF imports[i].st = "pending" THEN [imports EXCEPT ![i].st = "processing"]
                          ELSE imports
        BY <2>2, <3>1, <3>2 DEF ImportOpen, TypeOK, ImportStatuses
      <4>2. imports'[i].st # "pending"
        <5> HIDE DEF i
        <5>1. CASE imports' = [imports EXCEPT ![i].st = "processing"]
          <6>1. imports'[i].st = "processing"
            BY <4>1, <5>1, RowIs
          <6> QED
            BY <6>1
        <5> QED
          BY <4>1, <5>1
      <4> QED
        BY <3>2, <4>2 DEF ImportsNow, RowKnown, At
    <3> QED
      BY <2>2, <1>f, <3>2, Moves DEF ImportsNow
  <2>3. ASSUME NEW scan \in {"none", "clear"}, ImportPasses(a, scan) PROVE RowKnown(a)'
    BY <2>3, Moves DEF ImportsNow, RowKnown, At, ImportPasses, importVars
  <2>4. CASE ImportKeeps(a)
    BY <2>4, Moves DEF ImportsNow, RowKnown, At, ImportKeeps, importVars
  <2>5. CASE ImportRejects(a) \/ ImportDisposed(a)
    BY <2>5, <1>f, Moves, Starts DEF ImportsNow
  <2>6. CASE ImportMatches(a) \/ ImportDrops(a) \/ ImportThrows(a)
    BY <1>t, <2>6, <1>n, Starts
  <2>7. CASE ImportFails(a)
    <3>1. actors[a] \in Importing /\ actors[a].import \in Imports /\ ImportsNow(a, "drop")
      BY <2>7, Moves DEF Importing
    <3> DEFINE i == actors[a].import
    <3>2. imports'[i].st \notin {"pending", "processing"}
      <4>1. "failed" \in ImportStatuses /\ "final" \in ImportErrors
        BY DEF ImportStatuses, ImportErrors
      <4>2. CASE InProgress(i)
        <5>1. imports' = [imports EXCEPT ![i].st = "failed", ![i].error = "final"]
          BY <2>7, <4>2 DEF ImportFails
        <5>2. i \in Imports
          BY <3>1
        <5> HIDE DEF i
        <5>3. imports'[i].st = "failed"
          BY <4>1, <5>1, <5>2, RowIs
        <5> QED
          BY <5>3
      <4> QED
        BY <2>7, <4>2 DEF ImportFails, InProgress
    <3> QED
      BY <3>1, <3>2 DEF ImportsNow, RowKnown, At, InProgress
  <2>8. CASE ImportCommit(a)
    <3>1. actors[a] \in Importing /\ actors[a].import \in Imports
      BY <2>8, Moves DEF Importing
    <3>2. CASE Step(a, "drop") /\ imports' = [imports EXCEPT ![actors[a].import].st = "succeeded"]
      <4> DEFINE i == actors[a].import
      <4>1. i \in Imports /\ imports[i].error \in ImportErrors /\ "succeeded" \in ImportStatuses
        BY <3>1 DEF TypeOK, ImportStatuses
      <4>2. imports' = [imports EXCEPT ![i].st = "succeeded"]
        BY <3>2
      <4>3. imports'[i].st = "succeeded"
        <5> HIDE DEF i
        <5> QED
          BY <4>1, <4>2, RowIs
      <4>4. actors'[a] = [actors[a] EXCEPT !.pc = "drop"]
        BY <3>2, GoToIs DEF Step
      <4>5. actors'[a].import = i /\ actors'[a].pc = "drop"
        BY <1>t, <3>1, <4>4, MoveType
      <4> QED
        BY <4>3, <4>5 DEF RowKnown, At, InProgress
    <3>3. CASE Finish(a)
      BY <1>t, <1>n, <3>3, ReturnIs
    <3>4. CASE Step(a, "fail")
      <4>1. actors'[a] = [actors[a] EXCEPT !.pc = "fail"]
        BY <3>4, GoToIs DEF Step
      <4> QED
        BY <1>t, <1>f, <3>1, <4>1, MoveType
    <3> QED
      BY <2>8, <3>2, <3>3, <3>4 DEF ImportCommit
  <2> QED
    BY <1>5, <2>1, <2>2, <2>3, <2>4, <2>5, <2>6, <2>7, <2>8 DEF ImportStep, ImportHandler
<1> QED
  BY <1>1, <1>2, <1>3, <1>4, <1>5 DEF FaultStep

\* A job an execution holds runs, and for nobody else.
JobsAreHeld ==
    /\ \A a \in Actors : actors[a].job # "none" => jobs[actors[a].job].st = "active"
    /\ \A a, b \in Actors : a # b /\ actors[a].job = actors[b].job => actors[a].job = "none"

\* An import that ran its effect has succeeded.
EffectsAre == \A i \in effects : imports[i].st = "succeeded"

\* The inductive invariant of the jobs of imports.
HandlersHold == \A a \in Actors : HoldsRight(actors[a]) /\ RowKnown(a)

Kept == HandlersHold /\ JobsAreHeld /\ EffectsAre /\ ImportsHaveJobs

\* The effect of an import is written with its outcome.
LEMMA NewEffects ==
    ASSUME TypeOK, Known, NEW a \in Actors,
           \/ (PipelineStep(a) \/ DisposalStep(a) \/ FaultStep(a)) /\ UNCHANGED importVars
           \/ ImportStep(a)
    PROVE  \A i \in effects' : i \in effects \/ (i \in Imports /\ imports'[i].st = "succeeded")
<1>1. CASE UNCHANGED effects
  BY <1>1
<1>2. CASE ImportCommit(a)
  <2> DEFINE i == actors[a].import
  <2>1. i \in Imports /\ imports[i].error \in ImportErrors /\ "succeeded" \in ImportStatuses
    <3>1. i \in Imports
      BY <1>2, Moves DEF Importing
    <3> QED
      BY <3>1 DEF TypeOK, ImportStatuses
  <2>2. \/ UNCHANGED effects
        \/ effects' = effects \cup {i} /\ imports' = [imports EXCEPT ![i].st = "succeeded"]
    BY <1>2 DEF ImportCommit
  <2> HIDE DEF i
  <2>3. CASE effects' = effects \cup {i} /\ imports' = [imports EXCEPT ![i].st = "succeeded"]
    <3>1. imports'[i].st = "succeeded"
      BY <2>1, <2>3, RowIs
    <3> QED
      BY <2>1, <2>3, <3>1
  <2> QED
    BY <1>1, <2>2, <2>3
<1> QED
  BY <1>1, <1>2
  DEF ImportStep, ImportHandler, ImportStart, ImportOpen, ImportRejects, ImportMatches, ImportPasses,
      ImportKeeps, ImportFails, ImportDrops, ImportDisposed, ImportThrows, importVars

\* A step of a handler.
LEMMA KeptByHandlers ==
    ASSUME TypeOK, Known, Kept, NEW a \in Actors,
           \/ (PipelineStep(a) \/ DisposalStep(a) \/ FaultStep(a)) /\ UNCHANGED importVars
           \/ ImportStep(a)
    PROVE  Kept'
<1>t. /\ actors \in [Actors -> ActorStates] /\ jobs \in [Jobs -> Job(Jobs)]
      /\ Imports \subseteq Jobs /\ "none" \notin Jobs
  BY TypesNow, UploadsAssumption DEF TypeOK, UploadsTypeOK
<1>y. \A j \in Jobs : jobs[j] \in Job(Jobs)
  BY <1>t
<1>j. \A b \in Actors : actors[b].job \in Jobs \cup {"none"}
  BY <1>t DEF ActorStates, Idle, Handling, Rescanning, Disposing, Importing, Held
<1>h. HoldsRight(actors[a]) /\ RowKnown(a) /\ \A i \in effects : imports[i].st = "succeeded"
  BY DEF Kept, HandlersHold, EffectsAre
<1>1. JobsTaken(a)
  BY <1>h, PipelineJobs, DisposalJobs, ImportJobs
<1>2. \A b \in Actors \ {a} : actors'[b] = actors[b]
  BY OthersStay
<1>3. Stays /\ RowMoves
  BY ThingsStay, RowsMove DEF RowMoves, importVars
<1>4. HandlersHold'
  <2>1. HoldsRight(actors'[a]) /\ RowKnown(a)'
    BY <1>h, <1>1, OwnRow DEF JobsTaken
  <2>2. ASSUME NEW b \in Actors \ {a} PROVE HoldsRight(actors'[b]) /\ RowKnown(b)'
    <3>1. HoldsRight(actors[b]) /\ RowKnown(b) /\ actors'[b] = actors[b]
      BY <1>2 DEF Kept, HandlersHold
    <3>2. CASE actors[b] \in Importing
      <4> DEFINE i == actors[b].import
      <4>1. i \in Imports /\ imports[i].st # "absent"
        BY <3>2 DEF Importing, Known, HandlersKnow, Knows
      <4>2. imports[i].st # "pending" => imports'[i].st # "pending"
        BY <1>3, <4>1 DEF RowMoves
      <4>3. ASSUME actors[b].job = i, ~InProgress(i) PROVE imports'[i].st \notin {"pending", "processing"}
        <5>1. jobs[i].st = "active" /\ actors[a].job # i
          BY <1>t, <4>1, <4>3 DEF Kept, JobsAreHeld
        <5>2. ~Queued(jobs[i])
          BY <5>1 DEF Queued
        <5>3. CASE ImportStep(a)
          BY <1>3, <4>1, <4>3, <5>2, <5>3 DEF RowMoves, InProgress
        <5> QED
          BY <4>3, <5>3 DEF InProgress, importVars
      <4> QED
        BY <3>1, <4>2, <4>3 DEF RowKnown, At, InProgress
    <3> QED
      BY <3>1, <3>2 DEF RowKnown
  <2> QED
    BY <2>1, <2>2 DEF HandlersHold
<1>5. JobsAreHeld'
  <2>1. ASSUME NEW b \in Actors \ {a}, actors[b].job # "none"
        PROVE  jobs'[actors[b].job].st = "active" /\ actors'[a].job # actors[b].job
    <3> DEFINE j == actors[b].job
    <3>1. j \in Jobs /\ jobs[j].st = "active" /\ actors[a].job # j
      BY <1>j, <2>1 DEF Kept, JobsAreHeld
    <3>2. ~Queued(jobs[j]) /\ \A d : Enqueue(jobs[j], d) = jobs[j]
      BY <3>1 DEF Queued, Enqueue, Live
    <3> HIDE DEF j
    <3>3. jobs'[j].st = "active" /\ actors'[a].job # j
      <4>1. CASE UNCHANGED jobs /\ actors'[a].job \in {actors[a].job, "none"}
        BY <2>1, <3>1, <4>1 DEF j
      <4>2. ASSUME NEW k \in Jobs, jobs' = [jobs EXCEPT ![k] = Enqueue(@, k)], actors'[a].job = "none"
            PROVE  jobs'[j].st = "active" /\ actors'[a].job # j
        BY <1>t, <2>1, <3>1, <3>2, <4>2 DEF j
      <4>3. ASSUME NEW k \in Jobs, Queued(jobs[k]), UNCHANGED actors,
                   jobs' = [jobs EXCEPT ![k] = Complete(@)]
            PROVE  jobs'[j].st = "active" /\ actors'[a].job # j
        BY <1>t, <3>1, <3>2, <4>3
      <4>4. ASSUME NEW k \in Jobs, Queued(jobs[k]), actors'[a].job = k,
                   jobs' = [jobs EXCEPT ![k] = Fetch(@)]
            PROVE  jobs'[j].st = "active" /\ actors'[a].job # j
        BY <1>t, <3>1, <3>2, <4>4
      <4>5. CASE /\ actors'[a].job = "none"
                 /\ \/ jobs' = [k \in Jobs |-> IF k = actors[a].job THEN Fail(jobs[k]) ELSE jobs[k]]
                    \/ jobs' = [k \in Jobs |-> IF k = actors[a].job THEN Complete(jobs[k]) ELSE jobs[k]]
        BY <2>1, <3>1, <4>5 DEF j
      <4> QED
        BY <1>1, <4>1, <4>2, <4>3, <4>4, <4>5 DEF JobsTaken
    <3> QED
      BY <3>3 DEF j
  <2>2. actors'[a].job # "none" => jobs'[actors'[a].job].st = "active"
    <3>1. CASE UNCHANGED jobs /\ actors'[a].job \in {actors[a].job, "none"}
      BY <3>1 DEF Kept, JobsAreHeld
    <3>2. ASSUME NEW k \in Jobs, Queued(jobs[k]), UNCHANGED actors,
                 jobs' = [jobs EXCEPT ![k] = Complete(@)], actors[a].job # "none"
          PROVE  jobs'[actors[a].job].st = "active"
      <4>1. actors[a].job \in Jobs /\ jobs[actors[a].job].st = "active"
        BY <1>j, <3>2 DEF Kept, JobsAreHeld
      <4> QED
        BY <1>t, <3>2, <4>1 DEF Queued
    <3>3. ASSUME NEW k \in Jobs, actors'[a].job = k, jobs' = [jobs EXCEPT ![k] = Fetch(@)]
          PROVE  jobs'[k].st = "active"
      BY <1>t, <3>3 DEF Fetch
    <3> QED
      BY <1>1, <3>1, <3>2, <3>3 DEF JobsTaken
  <2> QED
    BY <1>2, <2>1, <2>2 DEF JobsAreHeld, Kept
<1>6. EffectsAre'
  <2>1. \A i \in Imports : imports[i].st = "succeeded" => imports'[i].st = "succeeded"
    BY <1>3 DEF RowMoves, InProgress
  <2>2. \A i \in effects' : i \in effects \/ (i \in Imports /\ imports'[i].st = "succeeded")
    BY NewEffects
  <2> QED
    BY <1>h, <2>1, <2>2 DEF EffectsAre, TypeOK
<1>7. ASSUME NEW i \in Imports, imports'[i].st \in {"pending", "processing"} PROVE jobs'[i].st # "none"
  <2>1. CASE InProgress(i)
    <3>1. jobs[i].st # "none" /\ i \in Jobs
      BY <1>t, <2>1 DEF Kept, ImportsHaveJobs
    <3>2. CASE UNCHANGED jobs
      BY <3>1, <3>2
    <3>3. ASSUME NEW k \in Jobs, \/ jobs' = [jobs EXCEPT ![k] = Enqueue(@, k)]
                                 \/ jobs' = [jobs EXCEPT ![k] = Fetch(@)]
                                 \/ jobs' = [jobs EXCEPT ![k] = Complete(@)] /\ k # i
          PROVE  jobs'[i].st # "none"
      <4>1. Enqueue(jobs[k], k).st # "none" /\ Fetch(jobs[k]).st # "none"
        BY <1>y, EnqueueType DEF Fetch
      <4> QED
        BY <1>t, <3>1, <3>3, <4>1
    <3>4. CASE \/ jobs' = [k \in Jobs |-> IF k = actors[a].job THEN Fail(jobs[k]) ELSE jobs[k]]
               \/ /\ jobs' = [k \in Jobs |-> IF k = actors[a].job THEN Complete(jobs[k]) ELSE jobs[k]]
                  /\ actors[a].job # i
      <4>1. Fail(jobs[i]).st # "none"
        BY <1>y, <3>1 DEF Fail, Job
      <4> QED
        BY <3>1, <3>4, <4>1
    <3> QED
      BY <1>1, <1>7, <3>2, <3>3, <3>4 DEF JobsTaken
  <2>2. CASE ~InProgress(i)
    BY <1>3, <1>7, <2>2 DEF RowMoves, InProgress
  <2> QED
    BY <2>1, <2>2
<1> QED
  BY <1>4, <1>5, <1>6, <1>7 DEF Kept, ImportsHaveJobs, InProgress

\* A step of nobody's handler.
LEMMA KeptByRequests ==
    ASSUME TypeOK, Known, Kept, (UploaderStep /\ UNCHANGED importVars) \/ AuthorStep
    PROVE  Kept'
<1>t. /\ jobs \in [Jobs -> Job(Jobs)] /\ Imports \subseteq Jobs /\ "none" \notin Jobs
      /\ \A j \in Jobs : jobs[j] \in Job(Jobs)
      /\ actors \in [Actors -> ActorStates]
  BY TypesNow, UploadsAssumption DEF TypeOK, UploadsTypeOK
<1>j. \A a \in Actors : actors[a].job \in Jobs \cup {"none"}
  BY <1>t DEF ActorStates, Idle, Handling, Rescanning, Disposing, Importing, Held
<1>1. UNCHANGED <<actors, effects>>
  BY DEF UploaderStep, Create, PutOriginal, UrlExpires, TtlPasses, Redeliver, AuthorStep, TakeName, CreateImport,
         importVars
<1>2. \/ UNCHANGED jobs
      \/ \E j \in Jobs : \/ jobs[j].st = "failed" /\ jobs' = [jobs EXCEPT ![j] = Revive(@)]
                         \/ jobs' = [jobs EXCEPT ![j] = Enqueue(@, j)]
  BY <1>t DEF UploaderStep, Create, PutOriginal, UrlExpires, TtlPasses, Redeliver, AuthorStep, TakeName, CreateImport
<1>3. \A i \in Imports : \/ imports'[i].st = imports[i].st
                         \/ imports[i].st = "absent" /\ jobs' = [jobs EXCEPT ![i] = Enqueue(@, i)]
  <2>1. ASSUME NEW i \in Imports, NEW u \in Uploads, CreateImport(i, u), NEW k \in Imports
        PROVE  \/ imports'[k].st = imports[k].st
               \/ imports[k].st = "absent" /\ jobs' = [jobs EXCEPT ![k] = Enqueue(@, k)]
    <3>1. imports[i].st = "absent" /\ jobs' = [jobs EXCEPT ![i] = Enqueue(@, i)]
      BY <2>1 DEF CreateImport, Absent
    <3>2. k # i => imports'[k] = imports[k]
      BY <2>1 DEF CreateImport, TypeOK
    <3> QED
      BY <3>1, <3>2
  <2>2. CASE UNCHANGED imports
    BY <2>2
  <2> QED
    BY <2>1, <2>2 DEF AuthorStep, TakeName, importVars
<1>4. \A j \in Jobs : /\ jobs[j].st = "active" => jobs'[j].st = "active"
                      /\ jobs[j].st # "none" => jobs'[j].st # "none"
  <2>1. ASSUME NEW j \in Jobs
        PROVE  /\ Revive(jobs[j]).st = "retry" /\ Enqueue(jobs[j], j).st # "none"
               /\ jobs[j].st = "active" => Enqueue(jobs[j], j) = jobs[j]
    BY <1>t, EnqueueType DEF Revive, Enqueue, Live
  <2> QED
    BY <1>t, <1>2, <2>1
<1>5. HandlersHold'
  <2>1. ASSUME NEW a \in Actors PROVE HoldsRight(actors'[a]) /\ RowKnown(a)'
    <3>1. HoldsRight(actors[a]) /\ RowKnown(a)
      BY DEF Kept, HandlersHold
    <3>2. ASSUME actors[a] \in Importing PROVE imports'[actors[a].import].st = imports[actors[a].import].st
      BY <1>3, <3>2 DEF Importing, Known, HandlersKnow, Knows
    <3> QED
      BY <1>1, <3>1, <3>2 DEF RowKnown, At, InProgress
  <2> QED
    BY <2>1 DEF HandlersHold
<1>6. JobsAreHeld'
  BY <1>1, <1>4, <1>j DEF Kept, JobsAreHeld
<1>7. EffectsAre'
  BY <1>1, <1>3 DEF Kept, EffectsAre, TypeOK
<1>8. ASSUME NEW i \in Imports, imports'[i].st \in {"pending", "processing"} PROVE jobs'[i].st # "none"
  <2>1. CASE imports'[i].st = imports[i].st
    BY <1>t, <1>4, <1>8, <2>1 DEF Kept, ImportsHaveJobs, InProgress
  <2>2. CASE jobs' = [jobs EXCEPT ![i] = Enqueue(@, i)]
    <3>1. i \in Jobs /\ Enqueue(jobs[i], i).st # "none"
      BY <1>t, EnqueueType
    <3> QED
      BY <1>t, <2>2, <3>1
  <2> QED
    BY <1>3, <2>1, <2>2
<1> QED
  BY <1>5, <1>6, <1>7, <1>8 DEF Kept, ImportsHaveJobs, InProgress

\* What the handlers of imports hold and know, in every behaviour.
THEOREM KeptHolds == Spec => []Kept
<1>1. Init => Kept
  BY NoJob
  DEF Init, UploadsInit, Kept, HandlersHold, RowKnown, JobsAreHeld, EffectsAre, ImportsHaveJobs, InProgress,
      Absent, Idle, Importing
<1>2. Base /\ Kept /\ [Next]_vars => Kept'
  <2>1. CASE UNCHANGED vars
    BY <2>1
    DEF vars, importVars, Kept, HandlersHold, RowKnown, HoldsRight, At, JobsAreHeld, EffectsAre,
        ImportsHaveJobs, InProgress
  <2> QED
    BY <2>1, StepKinds, KeptByHandlers, KeptByRequests DEF Base
<1> QED
  BY BaseHolds, <1>1, <1>2, PTL DEF Spec

\* A job an execution still holds is running, and no other execution holds it, though
\* those that have outlived their job go on beside the one it was delivered to again.
THEOREM JobsHeldOnce == Spec => []JobsAreHeld
<1>1. Kept => JobsAreHeld
  BY DEF Kept
<1> QED
  BY KeptHolds, <1>1, PTL

\* An import in progress has its job, so that what becomes of it is up to the queue,
\* its retries and staff: through deliveries that run twice, executions that outlive
\* their job, handlers that die and jobs that staff revive, no execution completes the
\* job of an import it leaves undecided.
THEOREM ImportsKeepTheirJobs == Spec => []ImportsHaveJobs
<1>1. Kept => ImportsHaveJobs
  BY DEF Kept
<1> QED
  BY KeptHolds, <1>1, PTL
=============================================================================
