------------------------- MODULE AutomationUploads -------------------------
(***************************************************************************)
(* Agent uploads in chunks (AutomationUploads, SqlAlchemyUploads,          *)
(* StagedUploadFiles and the gateways that publish): a new book file, the  *)
(* replacement of a source file, or a cover.  Every operation on one       *)
(* upload holds its file lock, so an upload has one worker at a time; the  *)
(* staged bytes and the row are not written together, and publishing and   *)
(* journalling it are not either.                                          *)
(***************************************************************************)
EXTENDS Integers, Sequences, FiniteSets

CONSTANTS
    Upload,         \* one per begin_upload request; all of one grant
    Purpose,        \* "book", "replace" or "cover"
    UploadLibrary,  \* the library of the target
    Chunk,          \* the chunks clients send
    Promised,       \* the chunks whose digest the request announced
    UploadCount,    \* UPLOAD_COUNT
    MaxUploadFault  \* bound: crashes of the process

ASSUME UploadAssumption ==
    /\ Purpose \in [Upload -> {"book", "replace", "cover"}]
    /\ DOMAIN UploadLibrary = Upload
    /\ Promised \in [Upload -> Seq(Chunk)] /\ \A u \in Upload : Promised[u] # <<>>
    /\ UploadCount \in Nat \ {0} /\ MaxUploadFault \in Nat

VARIABLES
    uploads,    \* the rows: status, offset, publication, file_saved, ...
    part,       \* the chunks in the staging file
    target,     \* what this upload left at its target: nothing or chunks
    attempts,   \* history: how often the publication was started
    scans,      \* the uploads whose scan request is committed
    elapsed,    \* the uploads whose expires_at has passed
    astray,     \* the uploads whose target directory was replaced, removed or
                \* made unusable
    uploader,   \* what the holder of each upload's lock does next
    uploadFaults

uploadVars == <<uploads, part, target, attempts, scans, elapsed, astray, uploader, uploadFaults>>

TransferStates == {"RECEIVING", "UPLOADED", "PUBLISHING"}
UploadStatus == TransferStates \cup {"SAVED", "QUEUED", "COMPLETED", "FAILED", "CANCELLED",
                                     "EXPIRED", "RECOVERY_REQUIRED"}
Row == [status : UploadStatus \cup {"ABSENT"}, offset : Nat, publication : BOOLEAN,
        saved : BOOLEAN, cleaned : BOOLEAN]
UploaderPc == {"idle", "appended", "prepare", "publish", "published", "register",
               "refused", "journalled", "kept", "clean"}

UploadsTypeOK ==
    /\ uploads \in [Upload -> Row]
    /\ \A u \in Upload : /\ uploads[u].offset \in 0..Len(Promised[u])
                         /\ uploads[u].status = "UPLOADED" =>
                               uploads[u].offset = Len(Promised[u])
    /\ part \in [Upload -> Seq(Chunk)] /\ target \in [Upload -> Seq(Chunk)]
    /\ attempts \in [Upload -> Nat] /\ scans \subseteq Upload /\ elapsed \subseteq Upload
    /\ astray \subseteq Upload
    /\ uploader \in [Upload -> UploaderPc] /\ uploadFaults \in 0..MaxUploadFault

UploadsInit ==
    /\ uploads = [u \in Upload |-> [status |-> "ABSENT", offset |-> 0, publication |-> FALSE,
                                    saved |-> FALSE, cleaned |-> FALSE]]
    /\ part = [u \in Upload |-> <<>>] /\ target = [u \in Upload |-> <<>>]
    /\ attempts = [u \in Upload |-> 0] /\ scans = {} /\ elapsed = {} /\ astray = {}
    /\ uploader = [u \in Upload |-> "idle"] /\ uploadFaults = 0

(* file_operation_blocks_library, the replacements of it *)
Replaces(u) ==
    /\ Purpose[u] = "replace"
    /\ uploads[u].status \in {"PUBLISHING", "SAVED", "RECOVERY_REQUIRED"}
UploadsBlock == {UploadLibrary[u] : u \in {v \in Upload : Replaces(v)}}

Unlocked(u) == uploader[u] = "idle"
Status(u) == uploads[u].status
ToPc(u, pc) == uploader' = [uploader EXCEPT ![u] = pc]
Journalled(u) == Purpose[u] # "cover"

----------------------------------------------------------------------------
(* capacity: what counts against the grant *)
Occupying == {u \in Upload : Status(u) \in TransferStates \cup {"SAVED"}}

(* The receipt, the capacity and the row are one write transaction. *)
BeginUpload(u) ==
    /\ Status(u) = "ABSENT" /\ Cardinality(Occupying) < UploadCount
    /\ uploads' = [uploads EXCEPT ![u].status = "RECEIVING"]
    /\ UNCHANGED <<part, target, attempts, scans, elapsed, astray, uploader, uploadFaults>>

Appended_Restart(u, c) == Append(SubSeq(part[u], 1, uploads[u].offset - 1), c)

(* append: bytes beyond the confirmed offset are of an unconfirmed chunk *)
Appended(u, c) == Append(SubSeq(part[u], 1, uploads[u].offset), c)

(* A repeated chunk is compared with the confirmed one and changes no byte. *)
AppendChunk(u, c) ==
    /\ Unlocked(u) /\ Status(u) \in {"RECEIVING", "UPLOADED"} /\ u \notin elapsed
    /\ uploads[u].offset < Len(Promised[u])
    /\ part' = [part EXCEPT ![u] = Appended(u, c)]
    /\ ToPc(u, "appended")
    /\ UNCHANGED <<uploads, target, attempts, scans, elapsed, astray, uploadFaults>>

ConfirmChunk(u) ==
    /\ uploader[u] = "appended"
    /\ uploads' = [uploads EXCEPT ![u].offset = @ + 1,
          ![u].status = IF uploads[u].offset + 1 = Len(Promised[u]) THEN "UPLOADED"
                        ELSE "RECEIVING"]
    /\ elapsed' = elapsed \ {u}
    /\ ToPc(u, "idle")
    /\ UNCHANGED <<part, target, attempts, scans, astray, uploadFaults>>

(* The same chunk again, after an answer that was lost: more time, no bytes. *)
RepeatChunk(u, i, c) ==
    /\ Unlocked(u) /\ Status(u) \in {"RECEIVING", "UPLOADED"} /\ u \notin elapsed
    /\ i <= uploads[u].offset /\ part[u][i] = c
    /\ elapsed' = elapsed \ {u}
    /\ UNCHANGED <<uploads, part, target, attempts, scans, astray, uploader, uploadFaults>>

----------------------------------------------------------------------------
(* complete *)

(* The in-memory SAVED of a row that needs recovery is not written back. *)
Registrable(u) ==
    \/ Status(u) = "SAVED"
    \/ Status(u) = "RECOVERY_REQUIRED" /\ Journalled(u) /\ uploads[u].saved

CompleteUpload_Replay(u) ==
    /\ Unlocked(u)
    /\ \/ Registrable(u) /\ ToPc(u, "register")
       \/ Status(u) = "UPLOADED" /\ u \notin elapsed /\ ToPc(u, "prepare")
       \/ Status(u) = "PUBLISHING" /\ ToPc(u, "publish")
    /\ UNCHANGED <<uploads, part, target, attempts, scans, elapsed, astray, uploadFaults>>

CompleteUpload(u) ==
    /\ Unlocked(u)
    /\ \/ Registrable(u) /\ ToPc(u, "register")
       \/ /\ Status(u) = "UPLOADED" /\ u \notin elapsed
          /\ ToPc(u, "prepare")
       \/ Status(u) = "PUBLISHING" /\ Journalled(u) /\ ToPc(u, "refused")
       \/ Status(u) = "PUBLISHING" /\ ~Journalled(u) /\ ToPc(u, "publish")
    /\ UNCHANGED <<uploads, part, target, attempts, scans, elapsed, astray, uploadFaults>>

Verified_Size(u) == Len(part[u]) = Len(Promised[u])

Verified(u) == part[u] = Promised[u]
(* The conflict check of save: a replacement needs its library for itself. *)
MayReplace(u, busy) == Purpose[u] # "replace" \/ UploadLibrary[u] \notin busy

PreparePublication(u, busy) ==
    /\ uploader[u] = "prepare"
    /\ \/ /\ Verified(u) /\ MayReplace(u, busy) /\ u \notin astray
          /\ uploads' = [uploads EXCEPT ![u].status = "PUBLISHING", ![u].publication = TRUE]
          /\ ToPc(u, "publish")
       \/ ToPc(u, "refused") /\ UNCHANGED uploads
    /\ UNCHANGED <<part, target, attempts, scans, elapsed, astray, uploadFaults>>

(* Access and target are checked once more.  The rename is atomic, but an    *)
(* error may follow it; a cover already at its place is left there.          *)
PublishUpload(u) ==
    /\ uploader[u] = "publish"
    /\ \/ /\ u \notin astray
          /\ attempts' = [attempts EXCEPT ![u] = IF Journalled(u) THEN @ + 1 ELSE @]
          /\ \/ target' = [target EXCEPT ![u] = part[u]] /\ ToPc(u, "published")
             \/ target' \in {target, [target EXCEPT ![u] = part[u]]} /\ ToPc(u, "refused")
       \/ ToPc(u, "refused") /\ UNCHANGED <<target, attempts>>
    /\ UNCHANGED <<uploads, part, scans, elapsed, astray, uploadFaults>>

SaveUpload(u) ==
    /\ uploader[u] = "published"
    /\ uploads' = [uploads EXCEPT ![u].status = "SAVED", ![u].saved = TRUE]
    /\ ToPc(u, "register")
    /\ UNCHANGED <<part, target, attempts, scans, elapsed, astray, uploadFaults>>

(* The scan request, or the cover of the Book, and the status together *)
RegisterUpload(u) ==
    /\ uploader[u] = "register"
    /\ \/ /\ uploads' = [uploads EXCEPT ![u].status =
                            IF Journalled(u) THEN "QUEUED" ELSE "COMPLETED"]
          /\ scans' = scans \cup {u}
          /\ ToPc(u, "clean")
       \/ ToPc(u, "refused") /\ UNCHANGED <<uploads, scans>>
    /\ UNCHANGED <<part, target, attempts, elapsed, astray, uploadFaults>>

(* A commit that fails: the row is as before, the record in memory is ahead. *)
SaveFails(u) ==
    /\ uploader[u] \in {"prepare", "published"} /\ uploadFaults < MaxUploadFault
    /\ uploader[u] = "prepare" => Verified(u) /\ u \notin astray
    /\ uploadFaults' = uploadFaults + 1
    /\ ToPc(u, IF uploader[u] = "prepare" THEN "journalled" ELSE "kept")
    /\ UNCHANGED <<uploads, part, target, attempts, scans, elapsed, astray>>

(* The record in memory when complete failed *)
Remembered(u) ==
    [uploads[u] EXCEPT !.publication = @ \/ uploader[u] = "journalled",
                       !.saved = @ \/ uploader[u] = "kept"]

SaveRefusal_Failed(u) ==
    /\ uploader[u] \in {"refused", "journalled", "kept"}
    /\ uploads' = [uploads EXCEPT ![u] = [Remembered(u) EXCEPT !.status = "FAILED"]]
    /\ ToPc(u, "idle")
    /\ UNCHANGED <<part, target, attempts, scans, elapsed, astray, uploadFaults>>

(* An error other than an UploadError leaves a cover as it was. *)
SaveRefusal(u) ==
    /\ uploader[u] \in {"refused", "journalled", "kept"}
    /\ \/ uploads' = [uploads EXCEPT ![u] = [Remembered(u) EXCEPT !.status =
             IF Journalled(u) /\ Remembered(u).publication THEN "RECOVERY_REQUIRED"
             ELSE "FAILED"]]
       \/ ~Journalled(u) /\ UNCHANGED uploads
    /\ ToPc(u, "idle")
    /\ UNCHANGED <<part, target, attempts, scans, elapsed, astray, uploadFaults>>

(* discard, remove and staging_cleaned *)
CleanStaging(u) ==
    /\ uploader[u] = "clean" /\ u \notin astray
    /\ part' = [part EXCEPT ![u] = <<>>]
    /\ uploads' = [uploads EXCEPT ![u].cleaned = TRUE]
    /\ ToPc(u, "idle")
    /\ UNCHANGED <<target, attempts, scans, elapsed, astray, uploadFaults>>

(* The discard of a file finds another directory than the one the copy was    *)
(* staged in, or none, and keeps the staging; cleanup tries again later.      *)
DiscardRefused(u) ==
    /\ uploader[u] = "clean" /\ u \in astray
    /\ ToPc(u, "idle")
    /\ UNCHANGED <<uploads, part, target, attempts, scans, elapsed, astray, uploadFaults>>

(* Somebody replaces, removes or locks the directory of a file, or puts it     *)
(* back.  A cover is staged in the application's own storage.                 *)
ParentChanges(u) ==
    /\ Journalled(u) /\ Status(u) # "ABSENT" /\ ~uploads[u].cleaned
    /\ astray' = IF u \in astray THEN astray \ {u} ELSE astray \cup {u}
    /\ UNCHANGED <<uploads, part, target, attempts, scans, elapsed, uploader, uploadFaults>>

----------------------------------------------------------------------------
CancelUpload(u) ==
    /\ Unlocked(u) /\ Status(u) \in {"RECEIVING", "UPLOADED"}
    /\ uploads' = [uploads EXCEPT ![u].status = "CANCELLED"]
    /\ ToPc(u, "clean")
    /\ UNCHANGED <<part, target, attempts, scans, elapsed, astray, uploadFaults>>

UploadElapses(u) ==
    /\ Status(u) # "ABSENT" /\ ~uploads[u].cleaned /\ u \notin elapsed
    /\ elapsed' = elapsed \cup {u}
    /\ UNCHANGED <<uploads, part, target, attempts, scans, astray, uploader, uploadFaults>>

(* A publication that may have happened keeps its staging and its journal. *)
Uncertain(u) == Journalled(u) /\ uploads[u].publication /\ ~uploads[u].saved

CleanupUpload_Running(u) ==
    /\ Unlocked(u) /\ u \in elapsed /\ ~uploads[u].cleaned /\ ~Uncertain(u)
    /\ Status(u) \in TransferStates \cup {"SAVED"}
    /\ uploads' = [uploads EXCEPT ![u].status = "EXPIRED"]
    /\ ToPc(u, "clean")
    /\ UNCHANGED <<part, target, attempts, scans, elapsed, astray, uploadFaults>>

CleanupUpload(u) ==
    /\ Unlocked(u) /\ u \in elapsed /\ ~uploads[u].cleaned /\ ~Uncertain(u)
    /\ uploads' = IF Status(u) \in TransferStates \cup {"SAVED"}
                  THEN [uploads EXCEPT ![u].status = "EXPIRED"] ELSE uploads
    /\ ToPc(u, "clean")
    /\ UNCHANGED <<part, target, attempts, scans, elapsed, astray, uploadFaults>>

(* A crash, or a failed commit or removal outside the handler *)
UploadBreaks(u) ==
    /\ ~Unlocked(u) /\ uploadFaults < MaxUploadFault
    /\ uploadFaults' = uploadFaults + 1
    /\ ToPc(u, "idle")
    /\ UNCHANGED <<uploads, part, target, attempts, scans, elapsed, astray>>

TransferUpload(u) ==
    \/ BeginUpload(u) \/ ConfirmChunk(u) \/ CancelUpload(u)
    \/ \E c \in Chunk : AppendChunk(u, c) \/ \E i \in 1..uploads[u].offset : RepeatChunk(u, i, c)
FinishUpload(u, busy) ==
    \/ CompleteUpload(u) \/ PreparePublication(u, busy) \/ PublishUpload(u)
    \/ SaveUpload(u) \/ RegisterUpload(u) \/ SaveRefusal(u) \/ CleanStaging(u)
    \/ DiscardRefused(u) \/ SaveFails(u)
ExpireUpload(u) == UploadElapses(u) \/ CleanupUpload(u) \/ ParentChanges(u)

(* busy: what the publication of a replacement finds taken *)
UploadsNext ==
    \E u \in Upload :
        \/ TransferUpload(u) \/ ExpireUpload(u) \/ UploadBreaks(u)
        \/ \E busy \in SUBSET {UploadLibrary[v] : v \in Upload} : FinishUpload(u, busy)
UploadsSpec == UploadsInit /\ [][UploadsNext]_uploadVars

----------------------------------------------------------------------------
(* Properties *)

(* What is at the target is exactly what the request announced: no chunk    *)
(* is lost, repeated or left over from an answer that was never committed.  *)
PublishedIsPromised ==
    \A u \in Upload : target[u] \in {<<>>, Promised[u]}

(* An outcome that tells the agent nothing was written is true, and a file  *)
(* journalled as saved is there.  A cover may fail after its file is in     *)
(* place; a SAVED file may expire before its scan is requested.             *)
UploadOutcomeIsTrue ==
    \A u \in Upload : Journalled(u) =>
        /\ Status(u) \in {"RECEIVING", "UPLOADED", "CANCELLED", "FAILED"} => target[u] = <<>>
        /\ Status(u) = "EXPIRED" /\ target[u] # <<>> => uploads[u].saved
        /\ uploads[u].saved => target[u] # <<>>
        /\ Status(u) = "QUEUED" => uploads[u].saved /\ u \in scans

(* The publication of a file runs at most once, whatever fails and however  *)
(* often complete is called: it is never replayed.                          *)
PublishedOnce == \A u \in Upload : attempts[u] <= 1

(* A chunk that was confirmed to the agent is never changed while the       *)
(* transfer may still complete.                                             *)
ConfirmedChunksStay ==
    [][\A u \in Upload : Status(u) \in TransferStates /\ uploads'[u].status \in TransferStates =>
          SubSeq(part'[u], 1, uploads[u].offset) = SubSeq(part[u], 1, uploads[u].offset)]_uploadVars

(* The staging of an upload that is over is removed in the end, even when   *)
(* the removal that belongs to its last step was interrupted, for cleanup   *)
(* comes back to it.  It is retained only while the directory it is staged  *)
(* in cannot be found at its place, and removed once it is back.            *)
Over == {"QUEUED", "COMPLETED", "FAILED", "CANCELLED", "EXPIRED"}
StagingIsRemoved ==
    \A u \in Upload :
        (Status(u) \in Over /\ ~Uncertain(u)) ~> (uploads[u].cleaned \/ u \in astray)
=============================================================================
