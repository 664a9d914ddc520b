------------------------------ MODULE Imports ------------------------------
(***************************************************************************)
(* Importing a character card (api/routes/imports.ts, worker/import.ts) on *)
(* top of the upload pipeline: an uploaded card that passed its checks is  *)
(* parsed by a job, its images are scanned and stored, and a creation with *)
(* a draft is made of it.                                                  *)
(***************************************************************************)
EXTENDS Uploads, Sequences

CONSTANTS Imports,      \* import ids; each is the singleton key of its job
          Names,
          Name          \* import -> the name asked for

ASSUME ImportsAssumption ==
    /\ Imports \subseteq Jobs /\ Imports \cap Uploads = {}
    /\ Name \in [Imports -> Names]

VARIABLES
    imports,    \* table `imports`
    creations,  \* import -> the creations made of it, as the bytes they were made of
    taken,      \* the names other creations have
    effects     \* job_effects: the imports that ran their effect

importVars == <<imports, creations, taken, effects>>
vars == <<status, kind, url, late, staged, result, meta, stored, blocked, banned,
          jobs, actors, faults, raced, importVars>>

Absent == [st |-> "absent", error |-> "none", upload |-> "none"]
Importing ==
    [pc: {"open", "parse", "keep", "import", "fail", "drop"}, import: Imports, job: Held,
     final: BOOLEAN, bytes: {"none", "declared", "other"}, scan: {"none", "clear"},
     seen: SUBSET Digests]

ImportStatuses == {"absent", "pending", "processing", "succeeded", "failed"}
ImportErrors == {"none", "internal", "final"}

TypeOK ==
    /\ UploadsTypeOK
    /\ actors \in [Actors -> {Idle} \cup Handling \cup Rescanning \cup Disposing \cup Importing]
    /\ imports \in [Imports -> [st: ImportStatuses, error: ImportErrors, upload: Uploads \cup {"none"}]]
    /\ creations \in [Imports -> Seq({"declared", "other"})]
    /\ taken \subseteq Names
    /\ effects \subseteq Imports

Init ==
    /\ UploadsInit
    /\ imports = [i \in Imports |-> Absent]
    /\ creations = [i \in Imports |-> << >>]
    /\ taken = {}
    /\ effects = {}
-----------------------------------------------------------------------------
InProgress(i) == imports[i].st \in {"pending", "processing"}

\* imports_pending_name_uq: one import in progress per name.
NameFree(i) == \A j \in Imports \ {i} : Name[j] = Name[i] => ~InProgress(j)

NameTaken(n) == n \in taken \/ \E i \in Imports : Name[i] = n /\ creations[i] # << >>

\* An author creates or renames something under the name.
TakeName(n) ==
    /\ ~NameTaken(n)
    /\ taken' = taken \cup {n}
    /\ UNCHANGED <<rows, clock, staged, stored, moderation, jobs, actors, faults,
                   imports, creations, effects>>

\* POST /v1/imports.  An upload is imported once (imports_upload_uq).
CreateImport(i, u) ==
    /\ imports[i] = Absent /\ ~banned
    /\ kind[u] = "card" /\ status[u] = "ready"
    /\ \A j \in Imports : imports[j].upload # u
    /\ NameFree(i) /\ ~NameTaken(Name[i])
    /\ imports' = [imports EXCEPT ![i] = [st |-> "pending", error |-> "none", upload |-> u]]
    /\ jobs' = [jobs EXCEPT ![i] = Enqueue(@, i)]
    /\ UNCHANGED <<rows, clock, staged, stored, moderation, actors, faults,
                   creations, taken, effects>>

\* reviveImport: a job staff deliver again puts an import that failed for an
\* internal reason back in progress, unless its name went to another one.
Revived(i) == imports[i].st = "failed" /\ imports[i].error = "internal" /\ NameFree(i)

\* An execution reads the row and goes on only with an import in progress.
ImportStart(w, i) ==
    /\ At(w, "idle") /\ Queued(jobs[i])
    /\ imports' = IF Revived(i)
                  THEN [imports EXCEPT ![i].st = "processing", ![i].error = "none"]
                  ELSE imports
    /\ IF InProgress(i) \/ Revived(i)
       THEN /\ jobs' = [jobs EXCEPT ![i] = Fetch(@)]
            /\ GoTo(w, [pc |-> "open", import |-> i, job |-> i, bytes |-> "none", scan |-> "none",
                        final |-> IsFinalAttempt(Fetch(jobs[i])), seen |-> {}])
       ELSE /\ jobs' = [jobs EXCEPT ![i] = Complete(@)]
            /\ UNCHANGED actors
    /\ UNCHANGED <<rows, clock, staged, stored, moderation, faults, creations, taken, effects>>

UploadOf(w) == imports[actors[w].import].upload

\* The upload must still be ready; the row leaves `pending`.
ImportOpen(w) ==
    LET i == actors[w].import IN
    /\ At(w, "open")
    /\ IF status[UploadOf(w)] = "ready"
       THEN /\ imports' = IF imports[i].st = "pending"
                          THEN [imports EXCEPT ![i].st = "processing"] ELSE imports
            /\ GoTo(w, [actors[w] EXCEPT !.pc = "parse", !.seen = result[UploadOf(w)]])
       ELSE /\ Step(w, "fail")
            /\ UNCHANGED imports
    /\ UNCHANGED <<rows, clock, staged, stored, moderation, jobs, faults, creations, taken, effects>>

\* Mutant of Parses: the bytes are not compared with what the upload checked.
ParsesAnything(w) ==
    staged[UploadOf(w)] # "none" /\ {Raw(UploadOf(w)), Image(UploadOf(w))} \cap blocked = {}

\* The original is there, is what the upload checked, and none of its images is blocked,
\* as the card has them or re-encoded.
Parses(w) ==
    staged[UploadOf(w)] = "declared" /\ {Raw(UploadOf(w)), Image(UploadOf(w))} \cap blocked = {}

\* uploads.result as it was read, with other images for `derived`.
Derives(w, d) ==
    LET u == UploadOf(w) IN
    result' = [result EXCEPT ![u] = (actors[w].seen \ {Raw(u), Image(u)}) \cup {d}]

\* Missing, changed or unreadable: the import fails.
ImportRejects(w) ==
    /\ At(w, "parse")
    /\ Step(w, "fail")
    /\ UNCHANGED <<rows, clock, staged, stored, moderation, jobs, faults, importVars>>

\* A match names the images of the card, as the card has them, in uploads.result, then
\* disposes of the upload.  What an earlier execution stored of them, re-encoded, is
\* neither named nor removed.
ImportMatches(w) ==
    LET u == UploadOf(w) IN
    /\ At(w, "parse") /\ staged[u] = "declared" /\ Raw(u) \notin blocked
    /\ Derives(w, Raw(u))
    /\ GoTo(w, [pc |-> "evidence", upload |-> u, job |-> actors[w].job,
                task |-> actors[w].import, todo |-> {Original(u)}])
    /\ UNCHANGED <<status, kind, clock, staged, stored, moderation, jobs, faults, importVars>>

ImportPasses(w, scan) ==
    /\ At(w, "parse") /\ Parses(w)
    /\ GoTo(w, [actors[w] EXCEPT !.pc = "keep", !.bytes = staged[UploadOf(w)], !.scan = scan])
    /\ UNCHANGED <<rows, clock, staged, stored, moderation, jobs, faults, importVars>>

\* The images, the original and the report are stored.
ImportKeeps(w) ==
    /\ At(w, "keep")
    /\ stored' = stored \cup {Image(UploadOf(w)), Original(UploadOf(w))}
    /\ Step(w, "import")
    /\ UNCHANGED <<rows, clock, staged, moderation, jobs, faults, importVars>>

\* Mutant of ImportCommit: the row is not locked and looked at again.
ImportCommitAnyStatus(w) ==
    LET i == actors[w].import
        u == UploadOf(w)
    IN
    /\ At(w, "import")
    /\ creations' = [creations EXCEPT ![i] = Append(@, actors[w].bytes)]
    /\ effects' = effects \cup {i}
    /\ imports' = [imports EXCEPT ![i].st = "succeeded", ![i].error = "none"]
    /\ Derives(w, Image(u))
    /\ AssetMeta(Image(u), actors[w].scan)
    /\ Step(w, "drop")
    /\ UNCHANGED <<status, kind, clock, staged, stored, blocked, banned, jobs, faults, taken>>

\* Mutant of ImportCommit: uploads.result is written as it was read.
ImportCommitForgets(w) ==
    LET i == actors[w].import
        u == UploadOf(w)
    IN
    /\ At(w, "import")
    /\ creations' = [creations EXCEPT ![i] = Append(@, actors[w].bytes)]
    /\ effects' = effects \cup {i}
    /\ imports' = [imports EXCEPT ![i].st = "succeeded"]
    /\ result' = [result EXCEPT ![u] = actors[w].seen]
    /\ AssetMeta(Image(u), actors[w].scan)
    /\ Step(w, "drop")
    /\ UNCHANGED <<status, kind, clock, staged, stored, blocked, banned, jobs, faults, taken>>

\* The transaction: the row, locked, must still be processing, the name free, and
\* the effect not have run; then the creation, the row and uploads.result are written.
ImportCommit(w) ==
    LET i == actors[w].import
        u == UploadOf(w)
    IN
    /\ At(w, "import")
    /\ CASE imports[i].st # "processing" \/ (i \in effects /\ ~NameTaken(Name[i])) ->
              Finish(w) /\ UNCHANGED <<meta, result, imports, creations, effects>>
         [] imports[i].st = "processing" /\ NameTaken(Name[i]) ->
              Step(w, "fail") /\ UNCHANGED <<jobs, meta, result, imports, creations, effects>>
         [] OTHER ->
              /\ effects' = effects \cup {i}
              /\ creations' = [creations EXCEPT ![i] = Append(@, actors[w].bytes)]
              /\ imports' = [imports EXCEPT ![i].st = "succeeded"]
              /\ Derives(w, Image(u))
              /\ AssetMeta(Image(u), actors[w].scan)
              /\ Step(w, "drop")
              /\ UNCHANGED jobs
    /\ UNCHANGED <<status, kind, clock, staged, stored, blocked, banned, faults, taken>>

\* `fail` writes the row if it is still in progress ...
ImportFails(w) ==
    LET i == actors[w].import IN
    /\ At(w, "fail")
    /\ imports' = IF InProgress(i) THEN [imports EXCEPT ![i].st = "failed", ![i].error = "final"]
                  ELSE imports
    /\ Step(w, "drop")
    /\ UNCHANGED <<rows, clock, staged, stored, moderation, jobs, faults, creations, taken, effects>>

\* ... and deletes the original, as an import that succeeded does.
ImportDrops(w) ==
    /\ At(w, "drop")
    /\ staged' = [staged EXCEPT ![UploadOf(w)] = "none"]
    /\ Finish(w)
    /\ UNCHANGED <<rows, clock, stored, moderation, faults, importVars>>

\* After a match has been disposed of, the import fails.
ImportDisposed(w) ==
    /\ ForgetOriginal(w) /\ actors[w].task \in Imports
    /\ GoTo(w, [pc |-> "fail", import |-> actors[w].task, job |-> actors[w].job, bytes |-> "none",
                scan |-> "none", final |-> FALSE, seen |-> {}])
    /\ UNCHANGED <<rows, clock, stored, moderation, jobs, faults, importVars>>

\* The handler throws: storage, database or scanner unavailable, at any attempt.  On
\* the last one markImportInternalError tells the author so.
ImportThrows(w) ==
    LET i == actors[w].import IN
    /\ \E pc \in {"open", "parse", "keep", "import"} : At(w, pc)
    /\ Throw(w)
    /\ imports' = IF actors[w].final /\ InProgress(i)
                  THEN [imports EXCEPT ![i].st = "failed", ![i].error = "internal"] ELSE imports
    /\ UNCHANGED <<rows, clock, staged, stored, moderation, faults, creations, taken, effects>>
-----------------------------------------------------------------------------
\* What an import's handler that has started does next.
ImportHandler(w) ==
    \/ ImportOpen(w) \/ ImportRejects(w) \/ ImportMatches(w)
    \/ \E scan \in {"none", "clear"} : ImportPasses(w, scan)
    \/ ImportKeeps(w) \/ ImportCommit(w)
    \/ ImportFails(w) \/ ImportDrops(w) \/ ImportDisposed(w)

ImportNext ==
    \/ \E n \in Names : TakeName(n)
    \/ \E i \in Imports, u \in Uploads : CreateImport(i, u)
    \/ \E w \in Workers, i \in Imports : ImportStart(w, i)
    \/ \E w \in Workers : ImportHandler(w) \/ ImportThrows(w)

\* Two actors work on a content at the same time, after this step.
UploadOfActor(a) == IF "import" \in DOMAIN actors[a] THEN UploadOf(a) ELSE actors[a].upload
Works(a, c) ==
    /\ ~At(a, "idle")
    /\ \/ UploadOfActor(a) # "none" /\ Content[UploadOfActor(a)] = c
       \/ "todo" \in DOMAIN actors[a] /\ \E d \in actors[a].todo : d[1] = c
Overlap(c) == \E a, b \in Actors : a # b /\ Works(a, c) /\ Works(b, c)
Noted == raced' = raced \cup {c \in Contents : Overlap(c)'}

Next == (ImportNext \/ (UploadsNext /\ UNCHANGED importVars)) /\ Noted

Spec == Init /\ [][Next]_vars

\* A handler that is alive goes on, whatever it is told.
Goes(a) == (a \in Workers /\ ImportHandler(a)) \/ UploadHandler(a)

ProcessStarts(u) == \E w \in Workers : ProcessStart(w, u)
ImportStarts(i) == \E w \in Workers : ImportStart(w, i)

\* Each queue is polled by its own worker and redelivers what it holds; the sweep
\* runs every hour, and time passes.
Fairness ==
    /\ \A a \in Workers \cup {Sweeper} : WF_actors(Goes(a))
    /\ \A u \in Uploads : /\ SF_jobs(ProcessStarts(u)) /\ SF_actors(SweepRead(u))
                          /\ WF_clock(UrlExpires(u) \/ TtlPasses(u))
    /\ \A i \in Imports : SF_jobs(ImportStarts(i))

LiveSpec == Spec /\ Fairness
-----------------------------------------------------------------------------
(***************************************************************************)
(* Properties.                                                             *)
(***************************************************************************)

\* An import says `succeeded` exactly when one creation was made of it, through
\* redelivery, revival from the dead letters and executions that outlived their job.
ImportOutcome ==
    \A i \in Imports : Len(creations[i]) = IF imports[i].st = "succeeded" THEN 1 ELSE 0

\* Only bytes the upload's checks have seen become a creation, though the client
\* can write to the signed url again between the two jobs.
ImportsCheckedBytes ==
    \A i \in Imports : \A n \in DOMAIN creations[i] : creations[i][n] = "declared"

\* A ready upload's blob is in the store, unless it has been blocked since.
ReadyHasItsBytes ==
    \A u \in Uploads :
        status[u] = "ready" /\ kind[u] # "card" => Blob(u) \in stored \cup blocked

\* The images an import took out of a card can be traced to the upload and so to
\* its owner, unless two handlers have worked on its content at the same time.
DerivedIsTraceable ==
    \A i \in Imports :
        LET u == imports[i].upload IN
        imports[i].st = "succeeded" /\ Content[u] \notin raced => Image(u) \in result[u]

\* Only one upload has brought the content.
Single(c) == \A u, v \in Uploads : Content[u] = c /\ Content[v] = c => u = v

\* What a match or a flag has blocked is gone from the store once nobody is at work
\* on it, unless a handler died, or two have worked on the content at the same time:
\* neither the retry of the job nor a rescan completes a disposal that was cut off.
\* Nor does it hold of a content that was uploaded twice: a flag that finds no source
\* blocks the image alone, which an upload does not look up, and a match of an image
\* blocks the original alone, which an import does not look up.
BlockedIsGone ==
    \A d \in blocked \cap stored :
        faults = 0 /\ d[1] \notin raced /\ Single(d[1]) => \E a \in Actors : Works(a, d[1])

\* A redelivered job does not undo what an earlier delivery did: a ready upload
\* stays ready or is quarantined, unless two handlers have overlapped on it.
ReadyIsKept ==
    [][\A u \in Uploads :
           status[u] = "ready" /\ Content[u] \notin raced' => status'[u] \in {"ready", "quarantined"}]_vars

\* An upload that was completed is decided: by its job or, when its job is dead,
\* by the sweep.
UploadSettles ==
    \A u \in Uploads : status[u] = "processing" ~> status[u] \in {"ready", "rejected", "quarantined"}

\* An import is never forgotten: it is decided, or its job waits in the dead letters
\* where staff see it.
ImportIsNotForgotten ==
    \A i \in Imports : InProgress(i) ~> (~InProgress(i) \/ jobs[i].st = "failed")
=============================================================================
