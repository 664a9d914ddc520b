------------------------------ MODULE Uploads ------------------------------
(***************************************************************************)
(* From a client's file to a usable blob: the upload requests              *)
(* (api/routes/uploads.ts), the job that checks, scans and stores a file   *)
(* (upload/pipeline.ts), the hourly sweep of expired uploads, the rescan   *)
(* of unscanned images, and what a match or a flag by staff does           *)
(* (moderation/csam.ts).                                                   *)
(*                                                                         *)
(* Re-encoding is deterministic, so what an upload stores is a function of *)
(* its content: the original, and the image made of it (the WebP and its   *)
(* thumbnail have the same life and are one digest; for a card, of the     *)
(* images taken out of it, which have digests of their own but are never   *)
(* stored as they are).  Handlers of any kind are actors: a record of      *)
(* where the handler is and what it has read.                              *)
(***************************************************************************)
EXTENDS JobQueue

CONSTANTS Uploads,
          Kinds,        \* what a client may upload, of "image", "text" and "card"
          Contents,
          Content,      \* upload -> content: two uploads may bring the same bytes
          Workers,      \* executions of jobs, those that outlive their job included
          Clients,      \* concurrent `complete` requests
          Sweeper,      \* the hourly `upload.expire` job
          Staff,        \* who flag a stored blob
          Rescans,      \* the rescans of unscanned images they start
          Jobs,         \* the singleton keys of the jobs; an upload is the key of its own
          MaxFaults     \* bound: executions that die or outlive their job

ASSUME UploadsAssumption ==
    /\ Kinds \subseteq {"image", "text", "card"}
    /\ Content \in [Uploads -> Contents]
    /\ Uploads \subseteq Jobs /\ {"none", "upload", "staff"} \cap Jobs = {}
    /\ MaxFaults \in Nat

Actors == Workers \cup Clients \cup {Sweeper} \cup Staff \cup Rescans

Digests == Contents \X {"original", "image", "raw"}
Original(u) == <<Content[u], "original">>
Image(u) == <<Content[u], "image">>
Raw(u) == <<Content[u], "raw">>     \* the images of a card as the card has them

\* The digests of what is ever written to the store.
Storable == {d \in Digests : d[2] # "raw"}

VARIABLES
    status,     \* uploads.status
    kind,       \* purpose and declared type
    url,        \* the signed PUT url still works
    late,       \* expiresAt has passed
    staged,     \* the object in the uploads bucket
    result,     \* the digests uploads.result names
    meta,       \* asset_meta.scan_status
    stored,     \* the private bucket, with its rows in `blobs`
    blocked,    \* blocked_digests
    banned,     \* the owner of the uploads is banned
    jobs,       \* the queues
    actors,
    faults,
    raced       \* history: the contents two actors have worked on at the same time

rows == <<status, kind, result>>
clock == <<url, late>>
moderation == <<meta, blocked, banned>>

Idle == [pc |-> "idle", job |-> "none"]

\* Where an actor is; `job`: the job it was started by, while it is still its own.
Held == Jobs \cup {"none"}
Handling ==
    [pc: {"complete", "load", "reject", "store", "commit", "discard", "hit", "delete", "expire"},
     upload: Uploads, job: Held, scan: {"none", "clear"}]
Rescanning == [pc: {"clean"}, upload: {"none"}, job: {"none"}, todo: SUBSET Digests]

\* A disposal (handleCsamHit), and the handler it returns to.  Only an upload whose
\* bytes are at hand leaves evidence.
Disposing ==
    {s \in [pc: {"evidence", "record", "remove"}, upload: Uploads \cup {"none"},
             job: Held, task: {"upload", "staff"} \cup Jobs, todo: SUBSET Digests] :
        s.pc = "evidence" => s.upload \in Uploads}

UploadStatuses == {"absent", "uploaded", "processing", "ready", "rejected", "quarantined"}
ScanStatuses == {"absent", "not_scanned", "clean", "matched"}

UploadsTypeOK ==
    /\ status \in [Uploads -> UploadStatuses]
    /\ kind \in [Uploads -> {"image", "text", "card"}]
    /\ url \subseteq Uploads /\ late \subseteq Uploads /\ raced \subseteq Contents
    /\ staged \in [Uploads -> {"none", "declared", "other"}]
    /\ result \in [Uploads -> SUBSET Digests]
    /\ meta \in [Digests -> ScanStatuses]
    /\ stored \subseteq Storable /\ blocked \subseteq Digests
    /\ banned \in BOOLEAN
    /\ jobs \in [Jobs -> Job(Jobs)]
    /\ faults \in 0..MaxFaults

UploadsInit ==
    /\ status = [u \in Uploads |-> "absent"]
    /\ kind = [u \in Uploads |-> "image"]
    /\ url = {}
    /\ late = {}
    /\ staged = [u \in Uploads |-> "none"]
    /\ result = [u \in Uploads |-> {}]
    /\ meta = [d \in Digests |-> "absent"]
    /\ stored = {}
    /\ blocked = {}
    /\ banned = FALSE
    /\ jobs = [j \in Jobs |-> [st |-> "none", tries |-> 0, data |-> j]]
    /\ actors = [a \in Actors |-> Idle]
    /\ faults = 0
    /\ raced = {}
-----------------------------------------------------------------------------
At(a, pc) == actors[a].pc = pc
GoTo(a, state) == actors' = [actors EXCEPT ![a] = state]
Step(a, pc) == GoTo(a, [actors[a] EXCEPT !.pc = pc])

\* The job an actor holds, if it still holds one, is complete, or has failed.
EndJob(a, End(_)) ==
    jobs' = [j \in Jobs |-> IF j = actors[a].job THEN End(jobs[j]) ELSE jobs[j]]

\* The handler returns, or throws.
Finish(a) == GoTo(a, Idle) /\ EndJob(a, Complete)
Throw(a) == GoTo(a, Idle) /\ EndJob(a, Fail)

-----------------------------------------------------------------------------
(* Requests of the uploader. *)

\* POST /v1/uploads: the declared digest is looked up in the blacklist.
Create(u, k) ==
    /\ status[u] = "absent" /\ ~banned
    /\ Original(u) \notin blocked
    /\ status' = [status EXCEPT ![u] = "uploaded"]
    /\ kind' = [kind EXCEPT ![u] = k]
    /\ url' = url \cup {u}
    /\ UNCHANGED <<late, staged, result, stored, moderation, jobs, actors, faults>>

\* The client writes to the signed url, as often as it likes: the file it
\* declared, or something else.
PutOriginal(u, bytes) ==
    /\ u \in url
    /\ staged' = [staged EXCEPT ![u] = bytes]
    /\ UNCHANGED <<rows, clock, stored, moderation, jobs, actors, faults>>

UrlExpires(u) ==
    /\ u \in url
    /\ url' = url \ {u}
    /\ UNCHANGED <<rows, late, staged, stored, moderation, jobs, actors, faults>>

TtlPasses(u) ==
    /\ status[u] # "absent" /\ u \notin late /\ u \notin url
    /\ late' = late \cup {u}
    /\ UNCHANGED <<rows, url, staged, stored, moderation, jobs, actors, faults>>

\* POST /v1/uploads/:id/complete reads the row ...
CompleteRead(c, u) ==
    /\ At(c, "idle") /\ ~banned
    /\ status[u] = "uploaded" /\ u \notin late /\ staged[u] # "none"
    /\ GoTo(c, [pc |-> "complete", upload |-> u, job |-> "none", scan |-> "none"])
    /\ UNCHANGED <<rows, clock, staged, stored, moderation, jobs, faults>>

\* ... and writes it without looking at its status again.
CompleteWrite(c) ==
    LET u == actors[c].upload IN
    /\ At(c, "complete")
    /\ status' = [status EXCEPT ![u] = "processing"]
    /\ jobs' = [jobs EXCEPT ![u] = Enqueue(@, u)]
    /\ GoTo(c, Idle)
    /\ UNCHANGED <<kind, result, clock, staged, stored, moderation, faults>>
-----------------------------------------------------------------------------
(* processUpload: one execution of an `upload.process` job. *)

\* Mutant of ProcessStart: an execution takes the row in whatever status it is.
ProcessStartAnyStatus(w, u) ==
    /\ At(w, "idle") /\ Queued(jobs[u])
    /\ jobs' = [jobs EXCEPT ![u] = Fetch(@)]
    /\ GoTo(w, [pc |-> "load", upload |-> u, job |-> u, scan |-> "none"])
    /\ UNCHANGED <<rows, clock, staged, stored, moderation, faults>>

\* An execution reads the row: anything but `processing` is skipped.
ProcessStart(w, u) ==
    /\ At(w, "idle") /\ Queued(jobs[u])
    /\ IF status[u] = "processing"
       THEN /\ jobs' = [jobs EXCEPT ![u] = Fetch(@)]
            /\ GoTo(w, [pc |-> "load", upload |-> u, job |-> u, scan |-> "none"])
       ELSE /\ jobs' = [jobs EXCEPT ![u] = Complete(@)]
            /\ UNCHANGED actors
    /\ UNCHANGED <<rows, clock, staged, stored, moderation, faults>>

\* What a scanner says: nothing before a real one is connected; its lists grow, so a
\* content that passed may match later.
Scans == {"none", "unavailable", "clear", "match"}

\* The original is read, compared with what was declared and looked up in the blacklist.
\* Any upload may be rejected: when its bytes are not the text or the image they claim to
\* be, and whatever they are when the store cannot be read, which is taken for an
\* original that is missing.
LoadRejects(w) ==
    /\ At(w, "load")
    /\ Step(w, "reject")
    /\ UNCHANGED <<rows, clock, staged, stored, moderation, jobs, faults>>

\* A card is only checked here; its images are the import's business.  Text is not scanned.
LoadPasses(w) ==
    LET u == actors[w].upload IN
    /\ At(w, "load")
    /\ staged[u] = "declared" /\ Original(u) \notin blocked /\ kind[u] # "image"
    /\ Step(w, IF kind[u] = "card" THEN "commit" ELSE "store")
    /\ UNCHANGED <<rows, clock, staged, stored, moderation, jobs, faults>>

\* An image is scanned; a scanner that is unavailable fails the attempt.
LoadScans(w, scan) ==
    LET u == actors[w].upload IN
    /\ At(w, "load")
    /\ staged[u] = "declared" /\ Original(u) \notin blocked /\ kind[u] = "image"
    /\ CASE scan = "unavailable" -> Throw(w)
         [] scan = "match" -> Step(w, "hit") /\ UNCHANGED jobs
         [] OTHER -> GoTo(w, [actors[w] EXCEPT !.pc = "store", !.scan = scan]) /\ UNCHANGED jobs
    /\ UNCHANGED <<rows, clock, staged, stored, moderation, faults>>

\* `reject` writes the row by its id, whatever its status has become.
Reject(w) ==
    /\ At(w, "reject")
    /\ status' = [status EXCEPT ![actors[w].upload] = "rejected"]
    /\ Step(w, "discard")
    /\ UNCHANGED <<kind, result, clock, staged, stored, moderation, jobs, faults>>

\* The digest of the usable blob: an image is re-encoded, text is kept as it is.
Blob(u) == IF kind[u] = "image" THEN Image(u) ELSE Original(u)

\* Mutant of Store: the blob is not stored.
StoreNothing(w) ==
    /\ At(w, "store")
    /\ Step(w, "commit")
    /\ UNCHANGED <<rows, clock, staged, stored, moderation, jobs, faults>>

\* The blob is written before the row says that it exists.
Store(w) ==
    /\ At(w, "store")
    /\ stored' = stored \cup {Blob(actors[w].upload)}
    /\ Step(w, "commit")
    /\ UNCHANGED <<rows, clock, staged, moderation, jobs, faults>>

\* asset_meta rows are inserted once, and keep the status they have.
AssetMeta(d, scan) ==
    meta' = [meta EXCEPT ![d] = IF @ # "absent" THEN @
                                ELSE IF scan = "clear" THEN "clean" ELSE "not_scanned"]

\* The transaction that makes the upload usable, if the row is still `processing`.
Commit(w) ==
    LET u == actors[w].upload IN
    /\ At(w, "commit")
    /\ IF status[u] = "processing"
       THEN /\ status' = [status EXCEPT ![u] = "ready"]
            /\ result' = [result EXCEPT ![u] = {Original(u)} \cup IF kind[u] = "image"
                                                                  THEN {Image(u)} ELSE {}]
            /\ IF kind[u] = "card" THEN UNCHANGED meta ELSE AssetMeta(Blob(u), actors[w].scan)
       ELSE UNCHANGED <<status, result, meta>>
    /\ IF kind[u] = "card" THEN Finish(w) ELSE Step(w, "discard") /\ UNCHANGED jobs
    /\ UNCHANGED <<kind, clock, staged, stored, blocked, banned, faults>>

\* The original is deleted last.
Discard(w) ==
    /\ At(w, "discard")
    /\ staged' = [staged EXCEPT ![actors[w].upload] = "none"]
    /\ Finish(w)
    /\ UNCHANGED <<rows, clock, stored, moderation, faults>>

\* A match writes what is known of the upload, then disposes of it.
Hit(w) ==
    LET u == actors[w].upload IN
    /\ At(w, "hit")
    /\ result' = [result EXCEPT ![u] = {Original(u)}]
    /\ GoTo(w, [pc |-> "evidence", upload |-> u, job |-> actors[w].job,
                task |-> "upload", todo |-> {Original(u)}])
    /\ UNCHANGED <<status, kind, clock, staged, stored, moderation, jobs, faults>>
-----------------------------------------------------------------------------
(* handleCsamHit: what a match or a flag by staff does. *)

\* loadSubject for an upload whose bytes are at hand: the digests the row names now.
DisposeLoad(a) ==
    LET u == actors[a].upload IN
    /\ At(a, "evidence")
    /\ GoTo(a, [actors[a] EXCEPT !.pc = "record", !.todo = @ \cup result[u]])
    /\ UNCHANGED <<rows, clock, staged, stored, moderation, jobs, faults>>

\* The uploads a blob may come from.
Sources(d) == {u \in Uploads : status[u] \in {"ready", "quarantined"} /\ d \in result[u]}

\* What a rescan looks at: images no scanner has seen.
Unscanned(d) == d[2] = "image" /\ meta[d] = "not_scanned"

\* A stored blob is flagged, or matches in a rescan: the upload it came from is looked for.
DisposeBlob(a, d) ==
    /\ At(a, "idle") /\ d \in stored
    /\ a \in Rescans => Unscanned(d)
    /\ \E u \in IF Sources(d) = {} THEN {"none"} ELSE Sources(d) :
           GoTo(a, [pc |-> "record", upload |-> u, job |-> "none", task |-> "staff",
                    todo |-> {d} \cup IF u = "none" THEN {} ELSE result[u]])
    /\ UNCHANGED <<rows, clock, staged, stored, moderation, jobs, faults>>

\* The transaction: quarantine, scan status, blacklist, ban.
Record(a) ==
    LET u == actors[a].upload
        D == actors[a].todo
    IN
    /\ At(a, "record")
    /\ status' = IF u = "none" THEN status ELSE [status EXCEPT ![u] = "quarantined"]
    /\ meta' = [d \in Digests |-> IF d \in D /\ meta[d] # "absent" THEN "matched" ELSE meta[d]]
    /\ blocked' = blocked \cup D
    /\ banned' = (banned \/ u # "none")
    /\ Step(a, "remove")
    /\ UNCHANGED <<kind, result, clock, staged, stored, jobs, faults>>

\* Mutant of RemoveCopy: a deletion that fails is taken for done.
RemoveCopyForgiving(a, d) ==
    /\ At(a, "remove") /\ d \in actors[a].todo
    /\ stored' \in {stored, stored \ {d}}
    /\ GoTo(a, [actors[a] EXCEPT !.todo = @ \ {d}])
    /\ UNCHANGED <<rows, clock, staged, moderation, jobs, faults>>

\* After the commit, the copies go one by one ...
RemoveCopy(a, d) ==
    /\ At(a, "remove") /\ d \in actors[a].todo
    /\ stored' = stored \ {d}
    /\ GoTo(a, [actors[a] EXCEPT !.todo = @ \ {d}])
    /\ UNCHANGED <<rows, clock, staged, moderation, jobs, faults>>

\* ... and the original last.
ForgetOriginal(a) ==
    /\ At(a, "remove") /\ actors[a].todo = {}
    /\ staged' = IF actors[a].upload = "none" THEN staged
                 ELSE [staged EXCEPT ![actors[a].upload] = "none"]

DisposeEnds(a) ==
    /\ ForgetOriginal(a)
    /\ actors[a].task \in {"upload", "staff"}
    /\ Finish(a)
    /\ UNCHANGED <<rows, clock, stored, moderation, faults>>

\* rescanAll: an unscanned image is scanned, and what comes back clear is written
\* without looking at the status another disposal may have set.
RescanClear(a, d) ==
    /\ At(a, "idle") /\ d \in stored
    /\ Unscanned(d)
    /\ GoTo(a, [pc |-> "clean", upload |-> "none", job |-> "none", todo |-> {d}])
    /\ UNCHANGED <<rows, clock, staged, stored, moderation, jobs, faults>>

RescanWrites(a) ==
    /\ At(a, "clean")
    /\ meta' = [d \in Digests |-> IF d \in actors[a].todo THEN "clean" ELSE meta[d]]
    /\ GoTo(a, Idle)
    /\ UNCHANGED <<rows, clock, staged, stored, blocked, banned, jobs, faults>>
-----------------------------------------------------------------------------
(* expireUploads: the list is read, then each original deleted and each row written. *)

\* Mutant of SweepRead: only uploads that were never completed expire.
SweepReadUploaded(u) ==
    /\ At(Sweeper, "idle")
    /\ status[u] = "uploaded" /\ u \in late
    /\ GoTo(Sweeper, [pc |-> "delete", upload |-> u, job |-> "none", scan |-> "none"])
    /\ UNCHANGED <<rows, clock, staged, stored, moderation, jobs, faults>>

SweepRead(u) ==
    /\ At(Sweeper, "idle")
    /\ status[u] \in {"uploaded", "processing"} /\ u \in late
    /\ GoTo(Sweeper, [pc |-> "delete", upload |-> u, job |-> "none", scan |-> "none"])
    /\ UNCHANGED <<rows, clock, staged, stored, moderation, jobs, faults>>

SweepDelete ==
    /\ At(Sweeper, "delete")
    /\ staged' = [staged EXCEPT ![actors[Sweeper].upload] = "none"]
    /\ Step(Sweeper, "expire")
    /\ UNCHANGED <<rows, clock, stored, moderation, jobs, faults>>

SweepMark ==
    /\ At(Sweeper, "expire")
    /\ status' = [status EXCEPT ![actors[Sweeper].upload] = "rejected"]
    /\ GoTo(Sweeper, Idle)
    /\ UNCHANGED <<kind, result, clock, staged, stored, moderation, jobs, faults>>
-----------------------------------------------------------------------------
(* Faults. *)

\* The process dies: what it had not written is lost, its job is delivered again.
Die(a) ==
    /\ ~At(a, "idle") /\ faults < MaxFaults
    /\ Throw(a)
    /\ faults' = faults + 1
    /\ UNCHANGED <<rows, clock, staged, stored, moderation>>

\* The execution outlives expireInSeconds: its job fails, the handler goes on.
Outlive(w) ==
    /\ actors[w].job # "none" /\ faults < MaxFaults
    /\ EndJob(w, Fail)
    /\ GoTo(w, [actors[w] EXCEPT !.job = "none"])
    /\ faults' = faults + 1
    /\ UNCHANGED <<rows, clock, staged, stored, moderation>>

\* Staff deliver a dead job again.
Redeliver(j) ==
    /\ jobs[j].st = "failed"
    /\ jobs' = [jobs EXCEPT ![j] = Revive(@)]
    /\ UNCHANGED <<rows, clock, staged, stored, moderation, actors, faults>>
-----------------------------------------------------------------------------
ProcessSteps(w) ==
    \/ LoadRejects(w) \/ LoadPasses(w)
    \/ \E scan \in Scans : LoadScans(w, scan)
    \/ Reject(w) \/ Store(w) \/ Commit(w) \/ Discard(w) \/ Hit(w)

DisposeSteps(a) ==
    \/ DisposeLoad(a) \/ Record(a) \/ DisposeEnds(a)
    \/ \E d \in Digests : RemoveCopy(a, d)

\* What a handler that has started does next.
UploadHandler(a) ==
    \/ a \in Clients /\ CompleteWrite(a)
    \/ a \in Workers /\ ProcessSteps(a)
    \/ a = Sweeper /\ (SweepDelete \/ SweepMark)
    \/ a \in Rescans /\ RescanWrites(a)
    \/ DisposeSteps(a)

UploadsNext ==
    \/ \E u \in Uploads, k \in Kinds : Create(u, k)
    \/ \E u \in Uploads, bytes \in {"declared", "other"} : PutOriginal(u, bytes)
    \/ \E u \in Uploads : UrlExpires(u) \/ TtlPasses(u)
    \/ \E c \in Clients, u \in Uploads : CompleteRead(c, u)
    \/ \E w \in Workers, u \in Uploads : ProcessStart(w, u)
    \/ \E u \in Uploads : SweepRead(u)
    \/ \E a \in Staff \cup Rescans, d \in Digests : DisposeBlob(a, d)
    \/ \E a \in Rescans, d \in Digests : RescanClear(a, d)
    \/ \E a \in Actors : UploadHandler(a) \/ Die(a)
    \/ \E w \in Workers : Outlive(w)
    \/ \E j \in Jobs : Redeliver(j)
=============================================================================
