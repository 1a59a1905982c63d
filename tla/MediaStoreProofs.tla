-------------------------- MODULE MediaStoreProofs --------------------------
(***************************************************************************)
(* No half-written file under a served name, no leaked .part file, and no  *)
(* managed image that succeeds without its asset, for any number of jobs,  *)
(* files and processes.                                                    *)
(***************************************************************************)
EXTENDS MediaStore, TLAPS

-----------------------------------------------------------------------------
(* The inductive invariant *)

\* A download that is over is whole, or gone.
StreamedIsWhole == \A i \in Importer : imp[i].pc = "replace" => part[i] # "partial"

\* An import under way has a job, of the API or of a worker as the job says.
ImportHasJob ==
    \A i \in Importer :
        /\ imp[i].pc \notin {"idle", "down"} => imp[i].job # NoJob
        /\ imp[i].job # NoJob => (OfApi(i) <=> imp[i].job \notin managed)

\* The row of an upload is written once its file is.
UploadIsWhole ==
    \A u \in Upload :
        /\ upload[u].row => upload[u].pc \notin {"writing", "row"}
        /\ upload[u].row \/ upload[u].pc = "row" => disk[u] # "partial"

\* Nothing is half-written under the name of a generated file.
FilesAreWhole == \A n \in Name : disk[n] # "partial"

MediaInv ==
    /\ MediaTypeOK /\ FilesAreWhole /\ PartHasOwner /\ StreamedIsWhole
    /\ ImportHasJob /\ UploadIsWhole

-----------------------------------------------------------------------------
(* Every action keeps it *)

Imports == [pc: {"idle", "stream", "replace", "check", "inspect", "commit", "down"},
            job: Job \cup {NoJob}, saved: BOOLEAN]
Uploads == [pc: {"none", "writing", "row", "asset"}, row: BOOLEAN]
Statuses == {"queued", "running", "succeeded", "failed", "deleted"}

\* A failed import leaves a status of the table.
LEMMA FailureTyped ==
    ASSUME MediaTypeOK, NEW i \in Importer, imp[i].job \in Job, ImportFails(i)
    PROVE  job' \in [Job -> Statuses] /\ imp' \in [Importer -> Imports]
<1>1. job \in [Job -> Statuses] /\ imp \in [Importer -> Imports]
  BY DEF MediaTypeOK, Statuses, Imports
<1>2. KindOf[imp[i].job] \in {"image", "video"}
  BY MediaAssumption
<1>3. AfterFailedImport(i) \subseteq Statuses
  <2>1. CASE KindOf[imp[i].job] = "video"
    BY <1>1, <2>1 DEF AfterFailedImport
  <2>2. CASE KindOf[imp[i].job] = "image" /\ OfApi(i)
    BY <2>2 DEF AfterFailedImport, Statuses
  <2>3. CASE KindOf[imp[i].job] = "image" /\ ~OfApi(i)
    BY <2>3 DEF AfterFailedImport, Statuses
  <2>4. QED
    BY <1>2, <2>1, <2>2, <2>3
<1>4. IdleImport \in Imports
  BY DEF IdleImport, Imports
<1>5. QED
  BY <1>1, <1>3, <1>4 DEF ImportFails

\* An import moves to its next step.
LEMMA MoveTyped ==
    ASSUME MediaTypeOK, NEW i \in Importer, NEW pc \in {"check", "inspect", "commit"},
           NEW saved \in BOOLEAN
    PROVE  /\ [imp EXCEPT ![i].pc = pc] \in [Importer -> Imports]
           /\ [imp EXCEPT ![i].pc = pc, ![i].saved = saved] \in [Importer -> Imports]
           /\ [imp EXCEPT ![i] = IdleImport] \in [Importer -> Imports]
<1>1. imp \in [Importer -> Imports] /\ imp[i] \in Imports
  BY DEF MediaTypeOK, Imports
<1>2. [imp[i] EXCEPT !.pc = pc] \in Imports
  BY <1>1 DEF Imports
<1>3. [imp[i] EXCEPT !.pc = pc, !.saved = saved] \in Imports
  BY <1>1 DEF Imports
<1>4. IdleImport \in Imports
  BY DEF Imports, IdleImport
<1>5. QED
  BY <1>1, <1>2, <1>3, <1>4

\* Linking an asset keeps the column typed.
LEMMA LinkTyped ==
    ASSUME MediaTypeOK, NEW j \in Job, NEW f \in File
    PROVE  Linked(f, j) \in [File -> Job \cup {NoAsset, Unlinked}]
BY DEF MediaTypeOK, Linked

\* A download streams to a .part file of its own.
LEMMA StartDownloadKeeps ==
    ASSUME MediaInv, NEW i \in Importer, NEW j \in Job, StartDownload(i, j), UNCHANGED managed
    PROVE  MediaInv'
<1>1. MediaTypeOK'
  BY MediaAssumption DEF MediaInv, MediaTypeOK, ImportHasJob, File, Contents,
         StartDownload, Resumes, Importable
<1>2. FilesAreWhole' /\ UploadIsWhole'
  BY MediaAssumption DEF MediaInv, MediaTypeOK, FilesAreWhole, UploadIsWhole,
         StreamedIsWhole, ImportHasJob, File, Contents, StartDownload, Resumes,
         Importable
<1>3. PartHasOwner' /\ StreamedIsWhole'
  BY MediaAssumption DEF MediaInv, MediaTypeOK, PartHasOwner, StreamedIsWhole,
         StartDownload, Resumes, Importable
<1>4. ImportHasJob'
  BY MediaAssumption DEF MediaInv, MediaTypeOK, ImportHasJob, OfApi, StartDownload,
         Resumes, Importable
<1>5. QED
  BY <1>1, <1>2, <1>3, <1>4 DEF MediaInv

\* The last chunk makes the .part file whole.
LEMMA FinishStreamKeeps ==
    ASSUME MediaInv, NEW i \in Importer, FinishStream(i), UNCHANGED managed
    PROVE  MediaInv'
<1>1. MediaTypeOK'
  BY MediaAssumption DEF MediaInv, MediaTypeOK, ImportHasJob, File, Contents,
         FinishStream, Resumes
<1>2. FilesAreWhole' /\ UploadIsWhole'
  BY MediaAssumption DEF MediaInv, MediaTypeOK, FilesAreWhole, UploadIsWhole,
         StreamedIsWhole, ImportHasJob, File, Contents, FinishStream, Resumes
<1>3. PartHasOwner' /\ StreamedIsWhole'
  BY MediaAssumption DEF MediaInv, MediaTypeOK, PartHasOwner, StreamedIsWhole,
         FinishStream, Resumes
<1>4. ImportHasJob'
  BY MediaAssumption DEF MediaInv, MediaTypeOK, ImportHasJob, OfApi, FinishStream, Resumes
<1>5. QED
  BY <1>1, <1>2, <1>3, <1>4 DEF MediaInv

\* A failed download leaves no .part file.
LEMMA DownloadFailsKeeps ==
    ASSUME MediaInv, NEW i \in Importer, DownloadFails(i), UNCHANGED managed
    PROVE  MediaInv'
<1>1. MediaTypeOK'
  <2>1. imp[i].job \in Job
    BY DEF DownloadFails, Resumes, MediaInv, MediaTypeOK, ImportHasJob
  <2>2. job' \in [Job -> Statuses] /\ imp' \in [Importer -> Imports]
    BY <2>1, FailureTyped DEF DownloadFails, MediaInv
  <2>3. part' \in [Importer -> Contents]
    BY DEF DownloadFails, MediaInv, MediaTypeOK, Contents
  <2>4. QED
    BY <2>2, <2>3 DEF DownloadFails, MediaInv, MediaTypeOK, Statuses, Imports
<1>2. FilesAreWhole' /\ UploadIsWhole'
  BY MediaAssumption DEF MediaInv, MediaTypeOK, FilesAreWhole, UploadIsWhole,
         StreamedIsWhole, ImportHasJob, File, Contents, DownloadFails, Resumes,
         ImportFails, AfterFailedImport, IdleImport
<1>3. PartHasOwner' /\ StreamedIsWhole'
  BY MediaAssumption DEF MediaInv, MediaTypeOK, PartHasOwner, StreamedIsWhole,
         DownloadFails, Resumes, ImportFails, AfterFailedImport, IdleImport
<1>4. ImportHasJob'
  BY MediaAssumption DEF MediaInv, MediaTypeOK, ImportHasJob, OfApi, DownloadFails,
         Resumes, ImportFails, AfterFailedImport, IdleImport
<1>5. QED
  BY <1>1, <1>2, <1>3, <1>4 DEF MediaInv

\* A whole .part file becomes the served file, or an existing file stays.
LEMMA ReplaceKeeps ==
    ASSUME MediaInv, NEW i \in Importer, Replace(i), UNCHANGED managed
    PROVE  MediaInv'
<1>1. MediaTypeOK'
  <2>1. imp[i].job \in Job
    BY DEF Replace, Resumes, MediaInv, MediaTypeOK, ImportHasJob
  <2>2. Target(i) \in File
    BY <2>1, MediaAssumption DEF Target, File
  <2>3. disk' \in [File -> Contents] /\ part' \in [Importer -> Contents]
    BY <2>2 DEF Replace, MediaInv, MediaTypeOK, Contents
  <2>4. job' \in [Job -> Statuses] /\ imp' \in [Importer -> Imports]
    <3>1. CASE ImportFails(i)
      BY <2>1, <3>1, FailureTyped DEF MediaInv
    <3>2. CASE UNCHANGED job /\ \E pc \in {"check", "inspect"} : imp' = [imp EXCEPT ![i].pc = pc]
      <4>1. job' \in [Job -> Statuses]
        BY <3>2 DEF MediaInv, MediaTypeOK, Statuses
      <4>2. PICK pc \in {"check", "inspect"} : imp' = [imp EXCEPT ![i].pc = pc]
        BY <3>2
      <4>3. imp' \in [Importer -> Imports]
        BY <4>2, MoveTyped DEF MediaInv
      <4>4. QED
        BY <4>1, <4>3
    <3>3. QED
      BY <3>1, <3>2 DEF Replace
  <2>5. QED
    BY <2>3, <2>4 DEF Replace, MediaInv, MediaTypeOK, Statuses, Imports
<1>2. FilesAreWhole' /\ UploadIsWhole'
  BY MediaAssumption DEF MediaInv, MediaTypeOK, FilesAreWhole, UploadIsWhole,
         StreamedIsWhole, ImportHasJob, File, Contents, Replace, Resumes, Target,
         ImportFails, AfterFailedImport, IdleImport
<1>3. PartHasOwner' /\ StreamedIsWhole'
  BY MediaAssumption DEF MediaInv, MediaTypeOK, PartHasOwner, StreamedIsWhole, Replace,
         Resumes, Target, ImportFails, AfterFailedImport, IdleImport
<1>4. ImportHasJob'
  BY MediaAssumption DEF MediaInv, MediaTypeOK, ImportHasJob, OfApi, Replace, Resumes,
         Target, ImportFails, AfterFailedImport, IdleImport
<1>5. QED
  BY <1>1, <1>2, <1>3, <1>4 DEF MediaInv

\* A worker looks for the file of its video.
LEMMA CheckLocalizedKeeps ==
    ASSUME MediaInv, NEW i \in Importer, CheckLocalized(i), UNCHANGED managed
    PROVE  MediaInv'
<1>1. MediaTypeOK'
  <2>1. imp[i].job \in Job
    BY DEF CheckLocalized, MediaInv, MediaTypeOK, ImportHasJob
  <2>2. job' \in [Job -> Statuses] /\ imp' \in [Importer -> Imports]
    <3>1. CASE ImportFails(i)
      BY <2>1, <3>1, FailureTyped DEF MediaInv
    <3>2. CASE UNCHANGED job /\ imp' = [imp EXCEPT ![i].pc = "inspect"]
      BY <3>2, MoveTyped DEF MediaInv, MediaTypeOK, Statuses
    <3>3. QED
      BY <3>1, <3>2 DEF CheckLocalized
  <2>3. QED
    BY <2>2 DEF CheckLocalized, MediaInv, MediaTypeOK, Statuses, Imports
<1>2. FilesAreWhole' /\ UploadIsWhole'
  BY MediaAssumption DEF MediaInv, MediaTypeOK, FilesAreWhole, UploadIsWhole,
         StreamedIsWhole, ImportHasJob, File, Contents, CheckLocalized, Target,
         ImportFails, AfterFailedImport, IdleImport
<1>3. PartHasOwner' /\ StreamedIsWhole'
  <2>1. part' = part /\ imp[i].pc = "check"
    BY DEF CheckLocalized
  <2>2. \/ imp' = [imp EXCEPT ![i] = IdleImport]
        \/ imp' = [imp EXCEPT ![i].pc = "inspect"]
    BY DEF CheckLocalized, ImportFails
  <2>3. QED
    BY <2>1, <2>2 DEF MediaInv, MediaTypeOK, PartHasOwner, StreamedIsWhole, IdleImport
<1>4. ImportHasJob'
  BY MediaAssumption DEF MediaInv, MediaTypeOK, ImportHasJob, OfApi, CheckLocalized,
         Target, ImportFails, AfterFailedImport, IdleImport
<1>5. QED
  BY <1>1, <1>2, <1>3, <1>4 DEF MediaInv

\* The file is looked for before its asset row is written.
LEMMA InspectKeeps ==
    ASSUME MediaInv, NEW i \in Importer, Inspect(i), UNCHANGED managed
    PROVE  MediaInv'
<1>1. MediaTypeOK'
  <2>1. imp' \in [Importer -> Imports]
    <3>1. (disk[Target(i)] # "none") \in BOOLEAN
      OBVIOUS
    <3>2. QED
      BY <3>1, MoveTyped DEF Inspect, MediaInv
  <2>2. QED
    BY <2>1 DEF Inspect, MediaInv, MediaTypeOK, Imports
<1>2. FilesAreWhole' /\ UploadIsWhole'
  BY MediaAssumption DEF MediaInv, MediaTypeOK, FilesAreWhole, UploadIsWhole,
         StreamedIsWhole, ImportHasJob, File, Contents, Inspect, Target
<1>3. PartHasOwner' /\ StreamedIsWhole'
  BY MediaAssumption DEF MediaInv, MediaTypeOK, PartHasOwner, StreamedIsWhole, Inspect,
         Target
<1>4. ImportHasJob'
  BY MediaAssumption DEF MediaInv, MediaTypeOK, ImportHasJob, OfApi, Inspect, Target
<1>5. QED
  BY <1>1, <1>2, <1>3, <1>4 DEF MediaInv

\* The transaction of a worker.
LEMMA PersistManagedKeeps ==
    ASSUME MediaInv, NEW i \in Importer, PersistManaged(i), UNCHANGED managed
    PROVE  MediaInv'
<1>1. MediaTypeOK'
  <2>1. imp[i].job \in Job
    BY DEF PersistManaged, MediaInv, MediaTypeOK, ImportHasJob
  <2>2. NameOf[imp[i].job] \in File
    BY <2>1, MediaAssumption DEF File
  <2>3. job' \in [Job -> Statuses] /\ history' \subseteq Job
    BY <2>1 DEF PersistManaged, MediaInv, MediaTypeOK, Statuses
  <2>4. asset' \in [File -> Job \cup {NoAsset, Unlinked}]
    BY <2>1, <2>2, LinkTyped DEF PersistManaged, MediaInv, MediaTypeOK
  <2>5. imp' \in [Importer -> Imports]
    BY MoveTyped DEF PersistManaged, MediaInv
  <2>6. QED
    BY <2>3, <2>4, <2>5 DEF PersistManaged, MediaInv, MediaTypeOK, Statuses, Imports
<1>2. FilesAreWhole' /\ UploadIsWhole'
  BY MediaAssumption DEF MediaInv, MediaTypeOK, FilesAreWhole, UploadIsWhole,
         StreamedIsWhole, ImportHasJob, File, Contents, PersistManaged, Refuses,
         Linked, IdleImport
<1>3. PartHasOwner' /\ StreamedIsWhole'
  BY MediaAssumption DEF MediaInv, MediaTypeOK, PartHasOwner, StreamedIsWhole,
         PersistManaged, Refuses, Linked, IdleImport
<1>4. ImportHasJob'
  BY MediaAssumption DEF MediaInv, MediaTypeOK, ImportHasJob, OfApi, PersistManaged,
         Refuses, Linked, IdleImport
<1>5. QED
  BY <1>1, <1>2, <1>3, <1>4 DEF MediaInv

\* The rows the API writes.
LEMMA PersistDirectKeeps ==
    ASSUME MediaInv, NEW i \in Importer, PersistDirect(i), UNCHANGED managed
    PROVE  MediaInv'
<1>1. MediaTypeOK'
  <2>1. imp[i].job \in Job
    BY DEF PersistDirect, MediaInv, MediaTypeOK, ImportHasJob
  <2>2. NameOf[imp[i].job] \in File
    BY <2>1, MediaAssumption DEF File
  <2>3. job' \in [Job -> Statuses] /\ history' \subseteq Job
    BY <2>1 DEF PersistDirect, MediaInv, MediaTypeOK, Statuses
  <2>4. asset' \in [File -> Job \cup {NoAsset, Unlinked}]
    BY <2>1, <2>2, LinkTyped DEF PersistDirect, MediaInv, MediaTypeOK
  <2>5. imp' \in [Importer -> Imports]
    BY MoveTyped DEF PersistDirect, MediaInv
  <2>6. QED
    BY <2>3, <2>4, <2>5 DEF PersistDirect, MediaInv, MediaTypeOK, Statuses, Imports
<1>2. FilesAreWhole' /\ UploadIsWhole'
  BY MediaAssumption DEF MediaInv, MediaTypeOK, FilesAreWhole, UploadIsWhole,
         StreamedIsWhole, ImportHasJob, File, Contents, PersistDirect, Linked,
         IdleImport
<1>3. PartHasOwner' /\ StreamedIsWhole'
  BY MediaAssumption DEF MediaInv, MediaTypeOK, PartHasOwner, StreamedIsWhole,
         PersistDirect, Linked, IdleImport
<1>4. ImportHasJob'
  BY MediaAssumption DEF MediaInv, MediaTypeOK, ImportHasJob, OfApi, PersistDirect,
         Linked, IdleImport
<1>5. QED
  BY <1>1, <1>2, <1>3, <1>4 DEF MediaInv

\* An upload is written under its own name, and its row after it.
LEMMA UploadKeeps ==
    ASSUME MediaInv, NEW u \in Upload, UploadStep(u), UNCHANGED managed
    PROVE  MediaInv'
<1>1. MediaTypeOK'
  <2>1. u \in File
    BY DEF File
  <2>2. upload' \in [Upload -> Uploads]
    <3>1. upload \in [Upload -> Uploads]
      BY DEF MediaInv, MediaTypeOK, Uploads
    <3>2. \A pc \in {"none", "writing", "row"} : [upload EXCEPT ![u].pc = pc] \in [Upload -> Uploads]
      BY <3>1 DEF Uploads
    <3>3. [pc |-> "asset", row |-> TRUE] \in Uploads
      BY DEF Uploads
    <3>4. QED
      BY <3>1, <3>2, <3>3
      DEF UploadStep, StartUpload, UploadFails, FinishUpload, SaveUpload, SaveUploadAsset
  <2>3. disk' \in [File -> Contents]
    BY <2>1 DEF UploadStep, StartUpload, UploadFails, FinishUpload, SaveUpload,
           SaveUploadAsset,
                MediaInv, MediaTypeOK, Contents
  <2>4. asset' \in [File -> Job \cup {NoAsset, Unlinked}]
    BY <2>1 DEF UploadStep, StartUpload, UploadFails, FinishUpload, SaveUpload,
           SaveUploadAsset,
                MediaInv, MediaTypeOK
  <2>5. UNCHANGED <<part, imp, job, history, admin>>
    BY DEF UploadStep, StartUpload, UploadFails, FinishUpload, SaveUpload, SaveUploadAsset
  <2>6. QED
    BY <2>2, <2>3, <2>4, <2>5 DEF MediaInv, MediaTypeOK, Uploads
<1>2. FilesAreWhole' /\ UploadIsWhole'
  BY MediaAssumption DEF MediaInv, MediaTypeOK, FilesAreWhole, UploadIsWhole,
         StreamedIsWhole, ImportHasJob, File, Contents, UploadStep, StartUpload,
         UploadFails, FinishUpload, SaveUpload, SaveUploadAsset
<1>3. PartHasOwner' /\ StreamedIsWhole'
  BY MediaAssumption DEF MediaInv, MediaTypeOK, PartHasOwner, StreamedIsWhole,
         UploadStep, StartUpload, UploadFails, FinishUpload, SaveUpload,
         SaveUploadAsset
<1>4. ImportHasJob'
  BY MediaAssumption DEF MediaInv, MediaTypeOK, ImportHasJob, OfApi, UploadStep,
         StartUpload, UploadFails, FinishUpload, SaveUpload, SaveUploadAsset
<1>5. QED
  BY <1>1, <1>2, <1>3, <1>4 DEF MediaInv

\* A deletion only ever removes files and rows.
LEMMA DeletionKeeps ==
    ASSUME MediaInv, AdminStep, UNCHANGED managed
    PROVE  MediaInv'
<1>1. MediaTypeOK'
  <2>1. UNCHANGED <<part, imp>>
    BY DEF AdminStep, DeleteOrphans, ListOrphans, DeleteAssetRow, Respond, DeleteGeneratedFile,
           ClearHistory, DeleteUpload, DeleteAsset, Unlink, CleanupJob
  <2>2. HistoryNames \subseteq File
    BY MediaAssumption DEF HistoryNames, File, MediaInv, MediaTypeOK
  <2>3. NoAdmin \in [op: {"none", "sweep", "unlink", "asset", "row"}, names: SUBSET File]
    BY DEF NoAdmin
  <2>4. ASSUME NEW op \in {"sweep", "unlink", "asset", "row"}, NEW names \in SUBSET File,
               Serve(op, names)
        PROVE  admin' \in [op: {"none", "sweep", "unlink", "asset", "row"}, names: SUBSET File]
    BY <2>4 DEF Serve
  <2>5. admin.names \subseteq File
    BY DEF MediaInv, MediaTypeOK
  <2>6. CASE DeleteOrphans \/ ListOrphans
    <3>1. {n \in Name : disk[n] # "none"} \ admin.names \in SUBSET File
      BY DEF File
    <3>2. QED
      BY <2>2, <2>4, <2>6, <3>1 DEF DeleteOrphans, ListOrphans, MediaInv, MediaTypeOK
  <2>7. CASE DeleteAssetRow \/ Respond
    BY <2>3, <2>7 DEF DeleteAssetRow, Respond, MediaInv, MediaTypeOK
  <2>8. CASE \/ \E n \in Name : DeleteGeneratedFile(n)
             \/ \E b \in BOOLEAN : ClearHistory(b)
    <3>1. \A n \in Name : {n} \in SUBSET File
      BY DEF File
    <3>2. history' \subseteq Job
      BY <2>8 DEF DeleteGeneratedFile, ClearHistory, MediaInv, MediaTypeOK
    <3>3. admin' \in [op: {"none", "sweep", "unlink", "asset", "row"}, names: SUBSET File]
      BY <2>2, <2>4, <2>8, <3>1 DEF DeleteGeneratedFile, ClearHistory
    <3>4. QED
      BY <2>8, <3>2, <3>3 DEF DeleteGeneratedFile, ClearHistory, MediaInv, MediaTypeOK
  <2>9. CASE \E u \in Upload : DeleteUpload(u)
    <3>1. \A u \in Upload : {u} \in SUBSET File
      BY DEF File
    <3>2. admin' \in [op: {"none", "sweep", "unlink", "asset", "row"}, names: SUBSET File]
      BY <2>4, <2>9, <3>1 DEF DeleteUpload
    <3>3. upload \in [Upload -> Uploads]
      BY DEF MediaInv, MediaTypeOK, Uploads
    <3>4. upload' \in [Upload -> Uploads]
      BY <2>9, <3>3 DEF DeleteUpload, Uploads
    <3>5. QED
      BY <2>9, <3>2, <3>4 DEF DeleteUpload, MediaInv, MediaTypeOK, Uploads
  <2>10. CASE \E f \in File : DeleteAsset(f) \/ Unlink(f)
    <3>1. admin' \in [op: {"none", "sweep", "unlink", "asset", "row"}, names: SUBSET File]
      BY <2>4, <2>5, <2>10 DEF DeleteAsset, Unlink
    <3>2. disk' \in [File -> Contents]
      BY <2>10 DEF DeleteAsset, Unlink, MediaInv, MediaTypeOK, Contents
    <3>3. QED
      BY <2>10, <3>1, <3>2 DEF DeleteAsset, Unlink, MediaInv, MediaTypeOK
  <2>11. CASE \E j \in Job : CleanupJob(j)
    BY <2>11 DEF CleanupJob, MediaInv, MediaTypeOK
  <2>12. QED
    BY <2>6, <2>7, <2>8, <2>9, <2>10, <2>11 DEF AdminStep
<1>2. FilesAreWhole' /\ UploadIsWhole'
  BY MediaAssumption DEF MediaInv, MediaTypeOK, FilesAreWhole, UploadIsWhole,
         StreamedIsWhole, ImportHasJob, File, Contents, AdminStep, DeleteOrphans,
         ListOrphans, DeleteAssetRow, Respond, DeleteGeneratedFile, ClearHistory,
         DeleteUpload, DeleteAsset, Unlink, CleanupJob, Serve, HistoryNames, NoAdmin
<1>3. PartHasOwner' /\ StreamedIsWhole'
  BY MediaAssumption DEF MediaInv, MediaTypeOK, PartHasOwner, StreamedIsWhole,
         AdminStep, DeleteOrphans, ListOrphans, DeleteAssetRow, Respond,
         DeleteGeneratedFile, ClearHistory, DeleteUpload, DeleteAsset, Unlink,
         CleanupJob, Serve, HistoryNames, NoAdmin
<1>4. ImportHasJob'
  BY MediaAssumption DEF MediaInv, MediaTypeOK, ImportHasJob, OfApi, AdminStep,
         DeleteOrphans, ListOrphans, DeleteAssetRow, Respond, DeleteGeneratedFile,
         ClearHistory, DeleteUpload, DeleteAsset, Unlink, CleanupJob, Serve,
         HistoryNames, NoAdmin
<1>5. QED
  BY <1>1, <1>2, <1>3, <1>4 DEF MediaInv

\* A crash leaves the files as they are.
LEMMA CrashKeeps ==
    ASSUME MediaInv, NEW p \in Process, Crash(p), UNCHANGED managed
    PROVE  MediaInv'
<1>1. MediaTypeOK'
  <2>1. imp' \in [Importer -> Imports]
    BY DEF Crash, MediaInv, MediaTypeOK, Imports
  <2>2. upload' \in [Upload -> [pc: {"none", "writing", "row", "asset"}, row: BOOLEAN]]
    BY DEF Crash, MediaInv, MediaTypeOK
  <2>3. admin' \in [op: {"none", "sweep", "unlink", "asset", "row"}, names: SUBSET File]
    BY DEF Crash, NoAdmin, MediaInv, MediaTypeOK
  <2>4. QED
    BY <2>1, <2>2, <2>3 DEF Crash, MediaInv, MediaTypeOK, Imports
<1>2. FilesAreWhole' /\ UploadIsWhole'
  BY MediaAssumption DEF MediaInv, MediaTypeOK, FilesAreWhole, UploadIsWhole,
         StreamedIsWhole, ImportHasJob, File, Contents, Crash, NoAdmin
<1>3. PartHasOwner' /\ StreamedIsWhole'
  BY MediaAssumption DEF MediaInv, MediaTypeOK, PartHasOwner, StreamedIsWhole, Crash,
         NoAdmin
<1>4. ImportHasJob'
  BY MediaAssumption DEF MediaInv, MediaTypeOK, ImportHasJob, OfApi, Crash, NoAdmin
<1>5. QED
  BY <1>1, <1>2, <1>3, <1>4 DEF MediaInv

\* A restart removes every .part file.
LEMMA RestartKeeps ==
    ASSUME MediaInv, NEW p \in Process, Restart(p), UNCHANGED managed
    PROVE  MediaInv'
<1>1. MediaTypeOK'
  BY MediaAssumption DEF MediaInv, MediaTypeOK, ImportHasJob, File, Contents, Restart,
         Forget, IdleImport
<1>2. FilesAreWhole' /\ UploadIsWhole'
  BY MediaAssumption DEF MediaInv, MediaTypeOK, FilesAreWhole, UploadIsWhole,
         StreamedIsWhole, ImportHasJob, File, Contents, Restart, Forget, IdleImport
<1>3. PartHasOwner' /\ StreamedIsWhole'
  BY MediaAssumption DEF MediaInv, MediaTypeOK, PartHasOwner, StreamedIsWhole, Restart,
         Forget, IdleImport
<1>4. ImportHasJob'
  BY MediaAssumption DEF MediaInv, MediaTypeOK, ImportHasJob, OfApi, Restart, Forget,
         IdleImport
<1>5. QED
  BY <1>1, <1>2, <1>3, <1>4 DEF MediaInv

-----------------------------------------------------------------------------
(* Theorems *)

\* The inductive invariant of the media store.
THEOREM MediaInvariant == MediaSpec => []MediaInv
<1>1. MediaInit => MediaInv
  BY MediaAssumption
  DEF MediaInit, MediaInv, MediaTypeOK, FilesAreWhole, PartHasOwner, StreamedIsWhole,
      ImportHasJob, UploadIsWhole, IdleImport, NoAdmin, Contents, File
<1>2. MediaInv /\ [MediaNext]_vars => MediaInv'
  <2> SUFFICES ASSUME MediaInv, [MediaNext]_vars
               PROVE  MediaInv'
    OBVIOUS
  <2>1. CASE UNCHANGED vars
    BY <2>1 DEF vars, MediaInv, MediaTypeOK, FilesAreWhole, PartHasOwner, StreamedIsWhole,
                ImportHasJob, UploadIsWhole
  <2>2. CASE UNCHANGED managed /\ \E i \in Importer : ImportStep(i)
    BY <2>2, StartDownloadKeeps, FinishStreamKeeps, DownloadFailsKeeps, ReplaceKeeps,
       CheckLocalizedKeeps, InspectKeeps, PersistManagedKeeps, PersistDirectKeeps
    DEF ImportStep
  <2>3. CASE /\ UNCHANGED managed
             /\ \/ \E u \in Upload : UploadStep(u)
                \/ AdminStep
                \/ \E p \in Process : Crash(p) \/ Restart(p)
    BY <2>3, UploadKeeps, DeletionKeeps, CrashKeeps, RestartKeeps
  <2>4. QED
    BY <2>1, <2>2, <2>3 DEF MediaNext
<1>3. QED
  BY <1>1, <1>2, PTL DEF MediaSpec

\* Files, rows, imports and deletions keep their types.
THEOREM MediaTypeCorrect == MediaSpec => []MediaTypeOK
<1>1. MediaInv => MediaTypeOK
  BY DEF MediaInv
<1>2. QED
  BY <1>1, MediaInvariant, PTL

\* A served file is never half-written, whoever crashes, restarts or deletes
\* (download_remote_media, save_upload).
THEOREM ServedFilesAreWhole == MediaSpec => []FinalFileComplete
<1>1. MediaInv => FinalFileComplete
  BY DEF MediaInv, FilesAreWhole, UploadIsWhole, FinalFileComplete
<1>2. QED
  BY <1>1, MediaInvariant, PTL

\* No .part file outlives its download and the process that ran it.
THEOREM NoPartFileLeaks == MediaSpec => []PartHasOwner
<1>1. MediaInv => PartHasOwner
  BY DEF MediaInv
<1>2. QED
  BY <1>1, MediaInvariant, PTL

\* What an import records is a whole file: os.replace of a .part file that a
\* restart removed raises instead.
THEOREM ImportedIsWhole == MediaSpec => DownloadedIsComplete
<1> DEFINE Whole == \A i \in Importer :
                       imp[i].pc = "replace" /\ imp'[i].pc \in {"check", "inspect"}
                       => disk'[Target(i)] = "complete"
<1>1. MediaInv /\ [MediaNext]_vars => [Whole]_vars
  <2> SUFFICES ASSUME MediaInv, MediaNext, NEW i \in Importer,
                      imp[i].pc = "replace", imp'[i].pc \in {"check", "inspect"}
               PROVE  disk'[Target(i)] = "complete"
    OBVIOUS
  <2>0. imp \in [Importer -> Imports]
    BY DEF MediaInv, MediaTypeOK, Imports
  <2>1. Replace(i)
    <3>1. ASSUME NEW k \in Importer, ImportStep(k)
          PROVE  Replace(i)
      <4>1. k = i
        BY <2>0, <3>1 DEF ImportStep, StartDownload, FinishStream, DownloadFails, Replace,
               CheckLocalized, Inspect, PersistManaged, PersistDirect, ImportFails
      <4>2. QED
        BY <2>0, <3>1, <4>1 DEF ImportStep, StartDownload, FinishStream, DownloadFails,
               Resumes,
               CheckLocalized, Inspect, PersistManaged, PersistDirect
    <3>2. ASSUME NEW p \in Process, Crash(p) \/ Restart(p)
          PROVE  FALSE
      <4>1. imp[i] \in Imports
        BY <2>0
      <4>2. imp'[i] \in {imp[i], [imp[i] EXCEPT !.pc = "down"], IdleImport}
        BY <3>2 DEF Crash, Restart, Forget
      <4>3. imp'[i].pc \in {"replace", "down", "idle"}
        BY <4>1, <4>2 DEF Imports, IdleImport
      <4>4. QED
        BY <4>3
    <3>3. ASSUME AdminStep \/ \E u \in Upload : UploadStep(u)
          PROVE  FALSE
      BY <3>3 DEF AdminStep, DeleteOrphans, ListOrphans, DeleteAssetRow, Respond,
             DeleteGeneratedFile, ClearHistory, DeleteUpload, DeleteAsset, Unlink, CleanupJob,
             UploadStep, StartUpload, UploadFails, FinishUpload, SaveUpload, SaveUploadAsset
    <3>4. QED
      BY <3>1, <3>2, <3>3 DEF MediaNext
  <2>2. imp[i].job \in Job
    BY <2>0 DEF MediaInv, ImportHasJob, Imports
  <2>3. Target(i) \in Name /\ Target(i) \in File
    BY <2>2, MediaAssumption DEF Target, File
  <2>4. disk[Target(i)] \in {"none", "complete"} /\ part[i] \in {"none", "complete"}
    BY <2>3 DEF MediaInv, MediaTypeOK, FilesAreWhole, StreamedIsWhole, Contents
  <2>5. ~ImportFails(i)
    BY <2>0 DEF ImportFails, IdleImport
  <2>6. QED
    BY <2>1, <2>3, <2>4, <2>5 DEF Replace, MediaInv, MediaTypeOK
<1>2. QED
  BY <1>1, MediaInvariant, PTL DEF MediaSpec, DownloadedIsComplete

\* An image of a worker succeeds only with the assets row of its file
\* (_persist_success), although sweeps and restarts remove files meanwhile.
THEOREM ManagedImageHasAsset == MediaSpec => ImageSuccessSavesAsset
<1> DEFINE Saved == \A j \in managed :
                       KindOf[j] = "image" /\ job[j] # "succeeded" /\ job'[j] = "succeeded"
                       => asset'[NameOf[j]] # NoAsset
<1>1. MediaInv /\ [MediaNext]_vars => [Saved]_vars
  <2> SUFFICES ASSUME MediaInv, MediaNext, NEW j \in managed, KindOf[j] = "image",
                      job[j] # "succeeded", job'[j] = "succeeded"
               PROVE  asset'[NameOf[j]] # NoAsset
    OBVIOUS
  <2>0. /\ imp \in [Importer -> Imports] /\ job \in [Job -> Statuses] /\ j \in Job
        /\ asset \in [File -> Job \cup {NoAsset, Unlinked}]
    BY MediaAssumption DEF MediaInv, MediaTypeOK, Imports, Statuses
  <2>1. ASSUME NEW i \in Importer, ImportFails(i), imp[i].pc \notin {"idle", "down"}
        PROVE  FALSE
    <3>1. imp[i].job \in Job /\ (OfApi(i) <=> imp[i].job \notin managed)
      BY <2>0, <2>1 DEF MediaInv, ImportHasJob, Imports
    <3>2. PICK s \in AfterFailedImport(i) : job' = [job EXCEPT ![imp[i].job] = s]
      BY <2>1 DEF ImportFails
    <3>3. imp[i].job = j /\ s = "succeeded"
      BY <2>0, <3>1, <3>2
    <3>4. ~OfApi(i)
      BY <3>1, <3>3
    <3>5. s = "failed"
      BY <3>3, <3>4, <3>2 DEF AfterFailedImport
    <3>6. QED
      BY <3>3, <3>5
  <2>2. PICK i \in Importer : imp[i].job = j /\ PersistManaged(i)
    <3>1. ASSUME NEW i \in Importer, PersistDirect(i)
          PROVE  FALSE
      <4>1. imp[i].job \in Job /\ (OfApi(i) <=> imp[i].job \notin managed)
        BY <2>0, <3>1 DEF PersistDirect, MediaInv, ImportHasJob, Imports
      <4>2. imp[i].job # j
        BY <3>1, <4>1 DEF PersistDirect
      <4>3. QED
        BY <2>0, <3>1, <4>1, <4>2 DEF PersistDirect
    <3>2. ASSUME NEW i \in Importer, PersistManaged(i)
          PROVE  imp[i].job = j
      <4>1. imp[i].job \in Job
        BY <2>0, <3>2 DEF PersistManaged, MediaInv, ImportHasJob, Imports
      <4>2. QED
        BY <2>0, <3>2, <4>1 DEF PersistManaged
    <3>3. ASSUME NEW i \in Importer, ImportStep(i)
          PROVE  PersistManaged(i)
      <4>1. CASE ImportFails(i)
        <5>1. imp'[i].pc = "idle"
          BY <2>0, <4>1 DEF ImportFails, IdleImport
        <5>2. imp[i].pc \notin {"idle", "down"}
          BY <2>0, <3>3, <5>1 DEF ImportStep, StartDownload, FinishStream,
                 DownloadFails, Replace,
                 CheckLocalized, Inspect, PersistManaged, PersistDirect, Resumes
        <5>3. QED
          BY <2>1, <4>1, <5>2
      <4>2. CASE \E k \in Job : StartDownload(i, k)
        BY <2>0, <4>2 DEF StartDownload
      <4>3. CASE UNCHANGED job
        BY <4>3
      <4>4. QED
        BY <3>1, <3>3, <4>1, <4>2, <4>3 DEF ImportStep, FinishStream, DownloadFails,
               Replace,
               CheckLocalized, Inspect
    <3>4. ASSUME \/ AdminStep \/ \E u \in Upload : UploadStep(u)
                 \/ \E p \in Process : Crash(p) \/ Restart(p)
          PROVE  FALSE
      <4>1. CASE \E k \in Job : CleanupJob(k)
        BY <2>0, <4>1 DEF CleanupJob
      <4>2. CASE UNCHANGED job
        BY <4>2
      <4>3. QED
        BY <3>4, <4>1, <4>2
        DEF AdminStep, DeleteOrphans, ListOrphans, DeleteAssetRow, Respond, DeleteGeneratedFile,
            ClearHistory, DeleteUpload, DeleteAsset, Unlink, UploadStep, StartUpload,
            UploadFails, FinishUpload, SaveUpload, SaveUploadAsset, Crash, Restart
    <3>5. QED
      BY <3>2, <3>3, <3>4 DEF MediaNext
  <2>3. ~Refuses(i)
    BY <2>0, <2>2 DEF PersistManaged
  <2>4. imp[i].saved /\ asset' = Linked(NameOf[j], j)
    BY <2>2, <2>3 DEF PersistManaged, Refuses
  <2>5. NameOf[j] \in File
    BY <2>0, MediaAssumption DEF File
  <2>6. QED
    BY <2>0, <2>4, <2>5, MediaAssumption DEF Linked
<1>2. QED
  BY <1>1, MediaInvariant, PTL DEF MediaSpec, ImageSuccessSavesAsset
=============================================================================
