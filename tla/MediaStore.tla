----------------------------- MODULE MediaStore -----------------------------
(***************************************************************************)
(* The media files of the gateway and the rows that name them: downloads   *)
(* through OUTPUT_DIR/.tmp (media.py), the assets, generations and uploads *)
(* tables, and the storage endpoints that delete files and rows            *)
(* (routes/storage.py, maintenance_retention.py).                          *)
(*                                                                         *)
(* The API process and the worker processes share the directory and the    *)
(* database.  The API is one event loop: a deletion it serves and the end  *)
(* of an import it runs do not overlap, but worker steps fall between any  *)
(* two of their file and database operations, and a process may die.       *)
(***************************************************************************)
EXTENDS FiniteSets

CONSTANTS
    Job, KindOf,          \* jobs and their kinds, "image" or "video"
    Submissions,          \* which sets of jobs may have been submitted to the queue
    Name, NameOf,         \* file names in OUTPUT_DIR; stable_filename of a job's result
    Upload,               \* file names in UPLOAD_DIR (a fresh uuid each)
    Importer, ProcessOf,  \* imports in progress and the process each runs in
    Api,                  \* the API process; the other processes are workers
    NoJob, NoAsset, Unlinked

ASSUME MediaAssumption ==
    /\ KindOf \in [Job -> {"image", "video"}]
    /\ NameOf \in [Job -> Name]
    /\ Submissions \subseteq SUBSET Job
    /\ Name \cap Upload = {}
    /\ DOMAIN ProcessOf = Importer
    /\ NoJob \notin Job /\ NoAsset \notin Job /\ Unlinked \notin Job
    /\ NoAsset # Unlinked

VARIABLES
    disk,      \* the file under its final name: "none", "partial", "complete"
    part,      \* the .tmp/*.part file of an import
    imp,       \* the imports in progress
    job,       \* job statuses
    managed,   \* the jobs a worker executes (worker-managed payload); never changes
    history,   \* generations rows with a local_path, by the job that wrote them
    asset,     \* the assets row of a file: its job, Unlinked (NULL), or NoAsset
    admin,     \* the deletion the API is serving
    upload     \* the uploads and their rows

vars == <<disk, part, imp, job, managed, history, asset, admin, upload>>

File == Name \cup Upload
Contents == {"none", "partial", "complete"}
Process == {ProcessOf[i] : i \in Importer} \cup {Api}

\* The states the files, rows and handlers of the media store can be in.
MediaTypeOK ==
    /\ disk \in [File -> Contents]
    /\ part \in [Importer -> Contents]
    /\ imp \in [Importer -> [pc: {"idle", "stream", "replace", "check", "inspect", "commit", "down"},
                             job: Job \cup {NoJob}, saved: BOOLEAN]]
    /\ job \in [Job -> {"queued", "running", "succeeded", "failed", "deleted"}]
    /\ managed \in Submissions
    /\ history \subseteq Job
    /\ asset \in [File -> Job \cup {NoAsset, Unlinked}]
    /\ admin \in [op: {"none", "sweep", "unlink", "asset", "row"}, names: SUBSET File]
    /\ upload \in [Upload -> [pc: {"none", "writing", "row", "asset"}, row: BOOLEAN]]

IdleImport == [pc |-> "idle", job |-> NoJob, saved |-> FALSE]
NoAdmin == [op |-> "none", names |-> {}]

\* Image jobs wait for their one execution; the provider has finished the
\* videos, whose import may be repeated.
MediaInit ==
    /\ disk = [f \in File |-> "none"]
    /\ part = [i \in Importer |-> "none"]
    /\ imp = [i \in Importer |-> IdleImport]
    /\ job = [j \in Job |-> IF KindOf[j] = "image" THEN "queued" ELSE "running"]
    /\ managed \in Submissions
    /\ history = {}
    /\ asset = [f \in File |-> NoAsset]
    /\ admin = NoAdmin
    /\ upload = [u \in Upload |-> [pc |-> "none", row |-> FALSE]]

OfApi(i) == ProcessOf[i] = Api
Target(i) == NameOf[imp[i].job]

\* The handlers of the API share one event loop: until the running one awaits,
\* no other moves.  A process that is down serves nothing.
LoopFree ==
    /\ admin = NoAdmin
    /\ \A i \in Importer : OfApi(i) => imp[i].pc \notin {"inspect", "commit", "down"}
    /\ \A u \in Upload : upload[u].pc \notin {"row", "asset"}

\* An import step that follows an await.
Resumes(i, pc) == imp[i].pc = pc /\ (OfApi(i) => LoopFree)

-----------------------------------------------------------------------------
(* download_remote_media, localize_image_result, localize_video_result *)

\* The executions of a job: one for an image, any number for the import of a
\* finished video until the job is terminal.
Importable(i, j) ==
    /\ OfApi(i) <=> j \notin managed
    /\ job[j] = IF KindOf[j] = "image" THEN "queued" ELSE "running"
    /\ j \in managed => \A k \in Importer : imp[k].job = j => imp[k].pc = "down"

\* Mutant: the download is streamed to its final name.
StartDownloadInPlace(i, j) ==
    /\ Resumes(i, "idle") /\ Importable(i, j)
    /\ imp' = [imp EXCEPT ![i] = [pc |-> "stream", job |-> j, saved |-> FALSE]]
    /\ part' = [part EXCEPT ![i] = "partial"]
    /\ disk' = [disk EXCEPT ![NameOf[j]] = IF @ = "none" THEN "partial" ELSE @]
    /\ job' = [job EXCEPT ![j] = "running"]
    /\ UNCHANGED <<history, asset, admin, upload>>

\* The result is streamed to a .part file of its own.
StartDownload(i, j) ==
    /\ Resumes(i, "idle") /\ Importable(i, j)
    /\ imp' = [imp EXCEPT ![i] = [pc |-> "stream", job |-> j, saved |-> FALSE]]
    /\ part' = [part EXCEPT ![i] = "partial"]
    /\ job' = [job EXCEPT ![j] = "running"]
    /\ UNCHANGED <<disk, history, asset, admin, upload>>

\* The last chunk; a .part file unlinked meanwhile stays gone.
FinishStream(i) ==
    /\ Resumes(i, "stream")
    /\ imp' = [imp EXCEPT ![i].pc = "replace"]
    /\ part' = [part EXCEPT ![i] = IF @ = "partial" THEN "complete" ELSE @]
    /\ UNCHANGED <<disk, job, history, asset, admin, upload>>

\* Mutant: the provider's word is stored as the job status.
AfterFailedImportRaw(i) == {"error"}

\* The statuses a failed localisation may leave: a worker fails its image and
\* retries a video; the API keeps the remote URL unless LOCALIZE_STRICT is set,
\* and leaves a video for the next refresh.
AfterFailedImport(i) ==
    LET j == imp[i].job
    IN  CASE KindOf[j] = "video" -> {job[j]}
          [] KindOf[j] = "image" /\ OfApi(i) -> {"failed", "succeeded"}
          [] KindOf[j] = "image" /\ ~OfApi(i) -> {"failed"}

ImportFails(i) ==
    /\ \E s \in AfterFailedImport(i) : job' = [job EXCEPT ![imp[i].job] = s]
    /\ imp' = [imp EXCEPT ![i] = IdleImport]

\* HTTP error, size limit, full disk, cancellation: the .part file is unlinked.
DownloadFails(i) ==
    /\ Resumes(i, "stream")
    /\ part' = [part EXCEPT ![i] = "none"]
    /\ ImportFails(i)
    /\ UNCHANGED <<disk, history, asset, admin, upload>>

\* Mutant: a missing .part file is not an error.
ReplaceUnchecked(i) ==
    /\ Resumes(i, "replace")
    /\ disk' = [disk EXCEPT ![Target(i)] = IF @ = "none" THEN part[i] ELSE @]
    /\ part' = [part EXCEPT ![i] = "none"]
    /\ imp' = [imp EXCEPT ![i].pc = "inspect"]
    /\ UNCHANGED <<job, history, asset, admin, upload>>

\* An existing file is kept and the .part dropped; otherwise os.replace, which
\* raises FileNotFoundError when the .part file is gone.
Replace(i) ==
    LET present == disk[Target(i)] # "none"
        next == IF ~OfApi(i) /\ KindOf[imp[i].job] = "video" THEN "check" ELSE "inspect"
    IN  /\ Resumes(i, "replace")
        /\ part' = [part EXCEPT ![i] = "none"]
        /\ \/ /\ present \/ part[i] # "none"
              /\ disk' = [disk EXCEPT ![Target(i)] = IF present THEN @ ELSE part[i]]
              /\ imp' = [imp EXCEPT ![i].pc = next]
              /\ UNCHANGED job
           \/ /\ ~present /\ part[i] = "none"
              /\ ImportFails(i)
              /\ UNCHANGED disk
        /\ UNCHANGED <<history, asset, admin, upload>>

-----------------------------------------------------------------------------
(* The rows of a finished import *)

\* VideoAssetImportService: a file that is gone again is an import failure.
CheckLocalized(i) ==
    /\ imp[i].pc = "check"
    /\ IF disk[Target(i)] # "none"
       THEN imp' = [imp EXCEPT ![i].pc = "inspect"] /\ UNCHANGED job
       ELSE ImportFails(i)
    /\ UNCHANGED <<disk, part, history, asset, admin, upload>>

\* generated_output_files: only a file that exists gets an assets row.
Inspect(i) ==
    /\ imp[i].pc = "inspect"
    /\ imp' = [imp EXCEPT ![i].pc = "commit", ![i].saved = disk[Target(i)] # "none"]
    /\ UNCHANGED <<disk, part, job, history, asset, admin, upload>>

\* save_asset: the first job of a file keeps it.
Linked(f, j) == [asset EXCEPT ![f] = IF @ \in {NoAsset, Unlinked} THEN j ELSE @]

\* Mutant: asset_count is not looked at.
RefusesUncounted(i) == FALSE

\* ImageJobWorker._persist_success raises ImageAssetMissing; the video
\* finalizer and the synchronous flow do not count.
Refuses(i) == ~OfApi(i) /\ KindOf[imp[i].job] = "image" /\ ~imp[i].saved

\* A worker writes history, asset and status in one transaction that needs the
\* job version it claimed.
PersistManaged(i) ==
    LET j == imp[i].job
    IN  /\ imp[i].pc = "commit" /\ ~OfApi(i)
        /\ imp' = [imp EXCEPT ![i] = IdleImport]
        /\ \/ /\ Refuses(i)
              /\ job' = [job EXCEPT ![j] = "failed"]
              /\ UNCHANGED <<history, asset>>
           \/ /\ ~Refuses(i)
              /\ job' = [job EXCEPT ![j] = "succeeded"]
              /\ history' = history \cup {j}
              /\ asset' = IF imp[i].saved THEN Linked(NameOf[j], j) ELSE asset
        /\ UNCHANGED <<disk, part, admin, upload>>

\* The API links the asset whatever became of the job during its awaits.  An
\* image is recorded and succeeds; a refreshed video succeeds, if it is still
\* there and running, when an asset is linked to it.
PersistDirect(i) ==
    LET j == imp[i].job
        linked == IF imp[i].saved THEN Linked(NameOf[j], j) ELSE asset
        image == KindOf[j] = "image"
        done == image \/ \E f \in File : linked[f] = j
    IN  /\ imp[i].pc = "commit" /\ OfApi(i)
        /\ imp' = [imp EXCEPT ![i] = IdleImport]
        /\ asset' = linked
        /\ history' = IF image THEN history \cup {j} ELSE history
        /\ job' = [job EXCEPT ![j] = IF @ = "running" /\ done THEN "succeeded" ELSE @]
        /\ UNCHANGED <<disk, part, admin, upload>>

ImportStep(i) ==
    \/ \E j \in Job : StartDownload(i, j)
    \/ FinishStream(i) \/ DownloadFails(i) \/ Replace(i)
    \/ CheckLocalized(i) \/ Inspect(i) \/ PersistManaged(i) \/ PersistDirect(i)

-----------------------------------------------------------------------------
(* Uploads *)

\* write_upload_file_limited writes to the final name, chunk by chunk.
StartUpload(u) ==
    /\ LoopFree
    /\ upload[u] = [pc |-> "none", row |-> FALSE] /\ disk[u] = "none" /\ asset[u] = NoAsset
    /\ upload' = [upload EXCEPT ![u].pc = "writing"]
    /\ disk' = [disk EXCEPT ![u] = "partial"]
    /\ UNCHANGED <<part, imp, job, history, asset, admin>>

\* Too large, or the client's data ends in an error.
UploadFails(u) ==
    /\ LoopFree /\ upload[u].pc = "writing"
    /\ upload' = [upload EXCEPT ![u].pc = "none"]
    /\ disk' = [disk EXCEPT ![u] = "none"]
    /\ UNCHANGED <<part, imp, job, history, asset, admin>>

FinishUpload(u) ==
    /\ LoopFree /\ upload[u].pc = "writing"
    /\ upload' = [upload EXCEPT ![u].pc = "row"]
    /\ disk' = [disk EXCEPT ![u] = "complete"]
    /\ UNCHANGED <<part, imp, job, history, asset, admin>>

SaveUpload(u) ==
    /\ upload[u].pc = "row"
    /\ upload' = [upload EXCEPT ![u] = [pc |-> "asset", row |-> TRUE]]
    /\ UNCHANGED <<disk, part, imp, job, history, asset, admin>>

\* save_asset for the image and video suffixes only.
SaveUploadAsset(u) ==
    /\ upload[u].pc = "asset"
    /\ upload' = [upload EXCEPT ![u].pc = "none"]
    /\ asset' \in {asset, [asset EXCEPT ![u] = Unlinked]}
    /\ UNCHANGED <<disk, part, imp, job, history, admin>>

UploadStep(u) ==
    \/ StartUpload(u) \/ UploadFails(u) \/ FinishUpload(u)
    \/ SaveUpload(u) \/ SaveUploadAsset(u)

-----------------------------------------------------------------------------
(* Deletions served by the API *)

Serve(op, names) == admin' = [op |-> op, names |-> names]
HistoryNames == {NameOf[j] : j \in history}

\* delete_orphan_generated_files, its query of the generations table.
DeleteOrphans ==
    /\ LoopFree
    /\ Serve("sweep", HistoryNames)
    /\ UNCHANGED <<disk, part, imp, job, history, asset, upload>>

\* Its listing of the directory; the assets table is not consulted.
ListOrphans ==
    /\ admin.op = "sweep"
    /\ Serve("unlink", {n \in Name : disk[n] # "none"} \ admin.names)
    /\ UNCHANGED <<disk, part, imp, job, history, asset, upload>>

DeleteGeneratedFile(n) ==
    /\ LoopFree /\ disk[n] # "none"
    /\ history' = {j \in history : NameOf[j] # n}
    /\ Serve("unlink", {n})
    /\ UNCHANGED <<disk, part, imp, job, asset, upload>>

ClearHistory(alsoDeleteFiles) ==
    /\ LoopFree
    /\ history' = {}
    /\ Serve("unlink", IF alsoDeleteFiles THEN HistoryNames ELSE {})
    /\ UNCHANGED <<disk, part, imp, job, asset, upload>>

\* The row of the upload goes first; its asset row stays.
DeleteUpload(u) ==
    /\ LoopFree /\ upload[u] = [pc |-> "none", row |-> TRUE]
    /\ upload' = [upload EXCEPT ![u].row = FALSE]
    /\ Serve("unlink", {u})
    /\ UNCHANGED <<disk, part, imp, job, history, asset>>

\* delete_asset: query, unlink, delete the row.
DeleteAsset(f) ==
    /\ LoopFree /\ asset[f] # NoAsset
    /\ Serve("asset", {f})
    /\ UNCHANGED <<disk, part, imp, job, history, asset, upload>>

DeleteAssetRow ==
    /\ admin.op = "row"
    /\ asset' = [f \in File |-> IF f \in admin.names THEN NoAsset ELSE asset[f]]
    /\ admin' = NoAdmin
    /\ UNCHANGED <<disk, part, imp, job, history, upload>>

\* safe_unlink_under: an OSError leaves the file and is only a return value.
Unlink(f) ==
    /\ f \in admin.names /\ admin.op \in {"unlink", "asset"}
    /\ disk' \in {disk, [disk EXCEPT ![f] = "none"]}
    /\ IF admin.op = "asset" THEN Serve("row", admin.names)
                             ELSE Serve("unlink", admin.names \ {f})
    /\ UNCHANGED <<part, imp, job, history, asset, upload>>

Respond ==
    /\ admin.op = "unlink" /\ admin.names = {}
    /\ admin' = NoAdmin
    /\ UNCHANGED <<disk, part, imp, job, history, asset, upload>>

\* cleanup_jobs and retention_cleanup: one transaction, assets and generations
\* keep their rows with job_id NULL, files are not touched.
CleanupJob(j) ==
    /\ LoopFree /\ job[j] \in {"succeeded", "failed"}
    /\ job' = [job EXCEPT ![j] = "deleted"]
    /\ asset' = [f \in File |-> IF asset[f] = j THEN Unlinked ELSE asset[f]]
    /\ UNCHANGED <<disk, part, imp, history, admin, upload>>

AdminStep ==
    \/ DeleteOrphans \/ ListOrphans \/ DeleteAssetRow \/ Respond
    \/ \E n \in Name : DeleteGeneratedFile(n)
    \/ \E b \in BOOLEAN : ClearHistory(b)
    \/ \E u \in Upload : DeleteUpload(u)
    \/ \E f \in File : DeleteAsset(f) \/ Unlink(f)
    \/ \E j \in Job : CleanupJob(j)

-----------------------------------------------------------------------------
(* Crashes *)

\* Files stay as they are, .part files and half-written uploads included.
Crash(p) ==
    /\ \E i \in Importer : ProcessOf[i] = p /\ imp[i].pc # "down"
    /\ imp' = [i \in Importer |-> IF ProcessOf[i] = p THEN [imp[i] EXCEPT !.pc = "down"] ELSE imp[i]]
    /\ IF p = Api
       THEN /\ admin' = NoAdmin
            /\ upload' = [u \in Upload |-> [upload[u] EXCEPT !.pc = "none"]]
       ELSE UNCHANGED <<admin, upload>>
    /\ UNCHANGED <<disk, part, job, history, asset>>

Forget(p) == imp' = [i \in Importer |-> IF ProcessOf[i] = p THEN IdleImport ELSE imp[i]]

\* Mutant: only downloads of a foreign process are cleaned up.
RestartKeepsOwn(p) ==
    /\ \E i \in Importer : ProcessOf[i] = p /\ imp[i].pc = "down"
    /\ Forget(p)
    /\ part' = [i \in Importer |-> IF ProcessOf[i] = p THEN part[i] ELSE "none"]
    /\ UNCHANGED <<disk, job, history, asset, admin, upload>>

\* Importing the runtime module runs cleanup_controlled_download_tmp_dir, which
\* removes every .part file, those of other live processes too (a file it
\* cannot unlink is counted and stays; not modelled).
Restart(p) ==
    /\ \E i \in Importer : ProcessOf[i] = p /\ imp[i].pc = "down"
    /\ Forget(p)
    /\ part' = [i \in Importer |-> "none"]
    /\ UNCHANGED <<disk, job, history, asset, admin, upload>>

MediaNext ==
    /\ \/ \E i \in Importer : ImportStep(i)
       \/ \E u \in Upload : UploadStep(u)
       \/ AdminStep
       \/ \E p \in Process : Crash(p) \/ Restart(p)
    /\ UNCHANGED managed

MediaSpec == MediaInit /\ [][MediaNext]_vars

-----------------------------------------------------------------------------
(* Properties *)

\* No generated file is ever incomplete under the name the gateway serves it
\* by: downloads go through .part files (media.py), whoever crashes, restarts
\* or deletes meanwhile.  An upload is written under its final name, where
\* /uploads/{filename} finds it half-written, but never with an uploads row.
FinalFileComplete ==
    /\ \A n \in Name : disk[n] # "partial"
    /\ \A u \in Upload : upload[u].row => disk[u] # "partial"

\* A .part file belongs to a download in progress or to a process that is down:
\* no error path and no restart leaks one.
PartHasOwner ==
    \A i \in Importer : part[i] # "none" => imp[i].pc \in {"stream", "replace", "down"}

\* An import goes on to its rows only with the whole file in place, although the
\* restart of another process may have removed its .part file.
DownloadedIsComplete ==
    [][\A i \in Importer :
          imp[i].pc = "replace" /\ imp'[i].pc \in {"check", "inspect"}
          => disk'[Target(i)] = "complete"]_vars

\* An image job of a worker succeeds only with an assets row of its file, even
\* when an orphan sweep took the file between download and commit.
ImageSuccessSavesAsset ==
    [][\A j \in managed :
          KindOf[j] = "image" /\ job[j] # "succeeded" /\ job'[j] = "succeeded"
          => asset'[NameOf[j]] # NoAsset]_vars
=============================================================================
