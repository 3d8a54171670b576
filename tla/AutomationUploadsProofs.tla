---------------------- MODULE AutomationUploadsProofs ----------------------
(***************************************************************************)
(* Theorems about agent uploads: what is at a target was announced, it is  *)
(* put there at most once, and what the row tells the agent is true.       *)
(***************************************************************************)
EXTENDS AutomationUploads, TLAPS

\* One step of one upload, whatever its library is busy with.
UploadStep(u) ==
    \/ TransferUpload(u) \/ ExpireUpload(u) \/ UploadBreaks(u)
    \/ \E busy : FinishUpload(u, busy)

\* What a row, its staging and the holder of its lock say of each other.
RowInv(u) ==
    /\ Status(u) = "ABSENT" => /\ uploader[u] = "idle" /\ ~uploads[u].publication
                               /\ ~uploads[u].saved /\ uploads[u].offset = 0 /\ u \notin elapsed
    /\ Status(u) \in {"RECEIVING", "UPLOADED"} =>
          ~uploads[u].publication /\ ~uploads[u].saved /\ uploads[u].offset <= Len(part[u])
    /\ Status(u) = "PUBLISHING" => part[u] = Promised[u] /\ uploads[u].publication
    /\ uploader[u] = "appended" => /\ Status(u) = "RECEIVING"
                                   /\ uploads[u].offset < Len(Promised[u])
                                   /\ uploads[u].offset + 1 <= Len(part[u])
    /\ uploader[u] \in {"prepare", "journalled"} => Status(u) = "UPLOADED"
    /\ uploader[u] \in {"publish", "published", "kept"} => Status(u) = "PUBLISHING"
    /\ uploader[u] = "refused" =>
          Status(u) \in {"UPLOADED", "PUBLISHING", "SAVED", "RECOVERY_REQUIRED"}
    /\ uploader[u] = "register" => Status(u) \in {"SAVED", "RECOVERY_REQUIRED"}
    /\ uploader[u] = "clean" => Status(u) \notin TransferStates \cup {"SAVED", "ABSENT"}

\* What the journal of a file that is published says of its target.
JournalInv(u) ==
    /\ attempts[u] <= 1
    /\ ~uploads[u].publication => attempts[u] = 0 /\ target[u] = <<>> /\ ~uploads[u].saved
    /\ uploader[u] = "publish" => attempts[u] = 0
    /\ uploader[u] \in {"published", "kept"} => target[u] = Promised[u]
    /\ uploader[u] = "register" => uploads[u].saved
    /\ uploads[u].saved => target[u] # <<>>
    /\ Status(u) \in {"CANCELLED", "FAILED"} => ~uploads[u].publication
    /\ Status(u) = "EXPIRED" => ~uploads[u].publication \/ uploads[u].saved
    /\ Status(u) = "SAVED" => uploads[u].saved
    /\ Status(u) = "QUEUED" => uploads[u].saved /\ u \in scans

UploadOK(u) ==
    /\ RowInv(u) /\ target[u] \in {<<>>, Promised[u]}
    /\ IF Journalled(u) THEN JournalInv(u) ELSE attempts[u] = 0

UploadInv == \A u \in Upload : UploadOK(u)

\* A step of one upload leaves the others as they are.
Untouched(u) ==
    /\ uploads'[u] = uploads[u] /\ part'[u] = part[u] /\ target'[u] = target[u]
    /\ attempts'[u] = attempts[u] /\ uploader'[u] = uploader[u]
    /\ u \in scans' <=> u \in scans
    /\ u \in elapsed' <=> u \in elapsed

\* A step of one upload changes nothing of another.
LEMMA OthersUntouched ==
    ASSUME UploadsTypeOK, NEW u \in Upload, UploadStep(u), NEW v \in Upload, v # u
    PROVE  Untouched(v)
<1> USE DEF ToPc, UploadsTypeOK
<1>1. CASE TransferUpload(u)
  BY <1>1 DEF TransferUpload, BeginUpload, ConfirmChunk, CancelUpload, AppendChunk, RepeatChunk,
              Untouched
<1>2. CASE ExpireUpload(u)
  BY <1>2 DEF ExpireUpload, UploadElapses, CleanupUpload, ParentChanges, Untouched
<1>3. CASE UploadBreaks(u)
  BY <1>3 DEF UploadBreaks, Untouched
<1>4. ASSUME NEW busy, FinishUpload(u, busy)
      PROVE  Untouched(v)
  <2>1. CASE CompleteUpload(u) \/ PreparePublication(u, busy)
    BY <2>1 DEF CompleteUpload, PreparePublication, Untouched
  <2>2. CASE PublishUpload(u)
    BY <2>2 DEF PublishUpload, Untouched
  <2>3. CASE SaveUpload(u) \/ RegisterUpload(u) \/ CleanStaging(u) \/ DiscardRefused(u)
             \/ SaveFails(u)
    BY <2>3 DEF SaveUpload, RegisterUpload, CleanStaging, DiscardRefused, SaveFails, Untouched
  <2>4. CASE SaveRefusal(u)
    BY <2>4 DEF SaveRefusal, Untouched
  <2> QED
    BY <1>4, <2>1, <2>2, <2>3, <2>4 DEF FinishUpload
<1> QED
  BY <1>1, <1>2, <1>3, <1>4 DEF UploadStep

----------------------------------------------------------------------------
(* Types *)

\* A chunk appended to the confirmed part of a file keeps that part.
LEMMA AppendedType ==
    ASSUME NEW p \in Seq(Chunk), NEW n \in 0..Len(p), NEW c \in Chunk
    PROVE  /\ Append(SubSeq(p, 1, n), c) \in Seq(Chunk)
           /\ Len(Append(SubSeq(p, 1, n), c)) = n + 1
           /\ SubSeq(Append(SubSeq(p, 1, n), c), 1, n) = SubSeq(p, 1, n)
<1>1. SubSeq(p, 1, n) \in Seq(Chunk) /\ Len(SubSeq(p, 1, n)) = n
  OBVIOUS
<1> DEFINE q == SubSeq(p, 1, n)
           r == Append(q, c)
<1>2. r \in Seq(Chunk) /\ Len(r) = n + 1 /\ \A i \in 1..n : r[i] = q[i]
  BY <1>1
<1>3. SubSeq(r, 1, n) \in Seq(Chunk) /\ Len(SubSeq(r, 1, n)) = n
  BY <1>2
<1>4. \A i \in 1..n : SubSeq(r, 1, n)[i] = q[i]
  BY <1>1, <1>2
<1>5. SubSeq(r, 1, n) = q
  BY <1>1, <1>3, <1>4
<1> QED
  BY <1>2, <1>5

RowsOK ==
    /\ uploads \in [Upload -> Row]
    /\ \A u \in Upload : /\ uploads[u].offset \in 0..Len(Promised[u])
                         /\ uploads[u].status = "UPLOADED" =>
                               uploads[u].offset = Len(Promised[u])

\* What is kept of a row by any change of its fields
Fields(u) ==
    /\ uploads'[u] \in Row /\ uploads'[u].offset \in 0..Len(Promised[u])
    /\ uploads'[u].status = "UPLOADED" => uploads'[u].offset = Len(Promised[u])

\* A write to one upload's row keeps the rows' types.
LEMMA TypeKept ==
    ASSUME UploadsTypeOK, NEW u \in Upload, NEW r,
           uploads' = [uploads EXCEPT ![u] = r], Fields(u)
    PROVE  RowsOK'
<1>1. uploads'[u] = r /\ r \in Row
  BY DEF UploadsTypeOK, Fields
<1>2. \A v \in Upload : v # u => uploads'[v] = uploads[v]
  BY DEF UploadsTypeOK
<1>3. uploads' \in [Upload -> Row]
  BY <1>1 DEF UploadsTypeOK
<1> QED
  BY <1>2, <1>3 DEF UploadsTypeOK, Fields, RowsOK

\* A row that keeps its offset and does not become UPLOADED
LEMMA OffsetKept ==
    ASSUME UploadsTypeOK, NEW u \in Upload, NEW r \in Row, r.offset = uploads[u].offset,
           r.status # "UPLOADED" \/ r.status = uploads[u].status,
           uploads' = [uploads EXCEPT ![u] = r]
    PROVE  RowsOK'
<1>1. uploads'[u] = r
  BY DEF UploadsTypeOK
<1>2. Fields(u)
  BY <1>1 DEF UploadsTypeOK, Fields
<1> QED
  BY <1>2, TypeKept

\* Staged and published files stay sequences of chunks.
LEMMA FilesKept ==
    ASSUME UploadsTypeOK, UploadInv, NEW u \in Upload, UploadStep(u)
    PROVE  part' \in [Upload -> Seq(Chunk)] /\ target' \in [Upload -> Seq(Chunk)]
<1> USE DEF UploadsTypeOK
<1>1. CASE part' = part /\ target' = target
  BY <1>1
<1>2. ASSUME NEW c \in Chunk, AppendChunk(u, c)
      PROVE  part' \in [Upload -> Seq(Chunk)] /\ target' = target
  <2>1. uploads[u].offset \in 0..Len(part[u])
    BY <1>2 DEF AppendChunk, UploadInv, UploadOK, RowInv, Row
  <2>2. Appended(u, c) \in Seq(Chunk)
    BY <2>1, AppendedType DEF Appended
  <2> QED
    BY <1>2, <2>2 DEF AppendChunk
<1>3. CASE PublishUpload(u)
  BY <1>3 DEF PublishUpload
<1>4. CASE CleanStaging(u)
  BY <1>4 DEF CleanStaging
<1>5. CASE TransferUpload(u)
  BY <1>1, <1>2, <1>5
     DEF TransferUpload, BeginUpload, ConfirmChunk, CancelUpload, RepeatChunk
<1>6. CASE ExpireUpload(u) \/ UploadBreaks(u)
  BY <1>1, <1>6 DEF ExpireUpload, UploadElapses, CleanupUpload, ParentChanges, UploadBreaks
<1>7. ASSUME NEW busy, FinishUpload(u, busy)
      PROVE  part' \in [Upload -> Seq(Chunk)] /\ target' \in [Upload -> Seq(Chunk)]
  BY <1>1, <1>3, <1>4, <1>7
     DEF FinishUpload, CompleteUpload, PreparePublication, SaveUpload, RegisterUpload,
         SaveRefusal, DiscardRefused, SaveFails
<1> QED
  BY <1>5, <1>6, <1>7 DEF UploadStep

ControlOK ==
    /\ attempts \in [Upload -> Nat] /\ scans \subseteq Upload /\ elapsed \subseteq Upload
    /\ astray \subseteq Upload /\ uploader \in [Upload -> UploaderPc]
    /\ uploadFaults \in 0..MaxUploadFault

\* The requests' control state keeps its type.
LEMMA ControlKept ==
    ASSUME UploadsTypeOK, NEW u \in Upload, UploadStep(u)
    PROVE  ControlOK'
<1>1. ControlOK /\ MaxUploadFault \in Nat
  BY UploadAssumption DEF UploadsTypeOK, ControlOK
<1> USE <1>1 DEF ControlOK, ToPc, UploaderPc
<1>2. CASE BeginUpload(u) \/ ConfirmChunk(u) \/ CancelUpload(u)
  BY <1>2 DEF BeginUpload, ConfirmChunk, CancelUpload
<1>3. ASSUME NEW c, AppendChunk(u, c)
      PROVE  ControlOK'
  BY <1>3 DEF AppendChunk
<1>4. ASSUME NEW c, NEW i, RepeatChunk(u, i, c)
      PROVE  ControlOK'
  BY <1>4 DEF RepeatChunk
<1>5. CASE ExpireUpload(u)
  BY <1>5 DEF ExpireUpload, UploadElapses, CleanupUpload, ParentChanges
<1>6. CASE UploadBreaks(u)
  BY <1>6 DEF UploadBreaks
<1>7. ASSUME NEW busy, FinishUpload(u, busy)
      PROVE  ControlOK'
  <2>1. CASE CompleteUpload(u) \/ PreparePublication(u, busy) \/ SaveUpload(u)
    BY <2>1 DEF CompleteUpload, PreparePublication, SaveUpload
  <2>2. CASE PublishUpload(u)
    BY <2>2 DEF PublishUpload
  <2>3. CASE RegisterUpload(u) \/ CleanStaging(u) \/ DiscardRefused(u) \/ SaveRefusal(u)
    BY <2>3 DEF RegisterUpload, CleanStaging, DiscardRefused, SaveRefusal
  <2>4. CASE SaveFails(u)
    BY <2>4 DEF SaveFails
  <2> QED
    BY <1>7, <2>1, <2>2, <2>3, <2>4 DEF FinishUpload
<1> QED
  BY <1>2, <1>3, <1>4, <1>5, <1>6, <1>7 DEF UploadStep, TransferUpload

\* Every step writes rows of the rows' types.
LEMMA RowsKept ==
    ASSUME UploadsTypeOK, UploadInv, NEW u \in Upload, UploadStep(u)
    PROVE  RowsOK'
<1> DEFINE row == uploads[u]
<1>1. row \in Row
  BY DEF UploadsTypeOK
<1>2. CASE uploads' = uploads
  BY <1>2 DEF UploadsTypeOK, RowsOK
<1>3. ASSUME NEW s \in UploadStatus \ {"UPLOADED"}, uploads' = [uploads EXCEPT ![u].status = s]
      PROVE  RowsOK'
  <2>1. [row EXCEPT !.status = s] \in Row
    BY <1>1 DEF Row
  <2> QED
    BY <1>1, <1>3, <2>1, OffsetKept DEF Row
<1>4. CASE BeginUpload(u)
  BY <1>3, <1>4 DEF BeginUpload, UploadStatus, TransferStates
<1>5. CASE CancelUpload(u)
  BY <1>3, <1>5 DEF CancelUpload, UploadStatus
<1>6. CASE ExpireUpload(u)
  BY <1>2, <1>3, <1>6 DEF ExpireUpload, UploadElapses, CleanupUpload, ParentChanges, UploadStatus
<1>7. CASE ConfirmChunk(u)
  <2> DEFINE n == row.offset + 1
             s == IF n = Len(Promised[u]) THEN "UPLOADED" ELSE "RECEIVING"
             r == [row EXCEPT !.offset = n, !.status = s]
  <2>1. row.offset \in Nat /\ row.offset < Len(Promised[u]) /\ Len(Promised[u]) \in Nat
    BY <1>1, <1>7, UploadAssumption DEF ConfirmChunk, UploadInv, UploadOK, RowInv, Row
  <2>2. r \in Row /\ r.offset = n /\ r.status = s
    <3>1. s \in UploadStatus /\ n \in Nat
      BY <2>1 DEF UploadStatus, TransferStates
    <3> HIDE DEF s, n
    <3> QED
      BY <1>1, <3>1 DEF Row
  <2>3. uploads' = [uploads EXCEPT ![u] = r]
    BY <1>7 DEF ConfirmChunk
  <2>4. uploads'[u] = r
    BY <2>3 DEF UploadsTypeOK
  <2>5. Fields(u)
    BY <2>1, <2>2, <2>4 DEF Fields
  <2> QED
    BY <2>3, <2>5, TypeKept
<1>8. CASE UploadBreaks(u) \/ \E c \in Chunk : AppendChunk(u, c)
  BY <1>2, <1>8 DEF UploadBreaks, AppendChunk
<1>9. CASE \E c \in Chunk : \E i \in 1..uploads[u].offset : RepeatChunk(u, i, c)
  BY <1>2, <1>9 DEF RepeatChunk
<1>10. ASSUME NEW busy, FinishUpload(u, busy)
       PROVE  RowsOK'
  <2>1. CASE PreparePublication(u, busy)
    <3> DEFINE r == [row EXCEPT !.status = "PUBLISHING", !.publication = TRUE]
    <3>1. r \in Row /\ r.offset = row.offset /\ r.status = "PUBLISHING"
      BY <1>1 DEF Row, UploadStatus, TransferStates
    <3>2. uploads' = uploads \/ uploads' = [uploads EXCEPT ![u] = r]
      BY <2>1 DEF PreparePublication
    <3> QED
      BY <1>2, <3>1, <3>2, OffsetKept
  <2>2. CASE SaveUpload(u)
    <3> DEFINE r == [row EXCEPT !.status = "SAVED", !.saved = TRUE]
    <3>1. r \in Row /\ r.offset = row.offset /\ r.status = "SAVED"
      BY <1>1 DEF Row, UploadStatus
    <3>2. uploads' = [uploads EXCEPT ![u] = r]
      BY <2>2 DEF SaveUpload
    <3> QED
      BY <3>1, <3>2, OffsetKept
  <2>3. CASE RegisterUpload(u)
    <3> DEFINE s == IF Journalled(u) THEN "QUEUED" ELSE "COMPLETED"
    <3>1. CASE uploads' = [uploads EXCEPT ![u].status = s]
      <4>1. s \in UploadStatus \ {"UPLOADED"}
        BY DEF UploadStatus
      <4> HIDE DEF s
      <4> QED
        BY <1>3, <3>1, <4>1
    <3> QED
      BY <1>2, <2>3, <3>1 DEF RegisterUpload
  <2>4. CASE CleanStaging(u)
    <3> DEFINE r == [row EXCEPT !.cleaned = TRUE]
    <3>1. r \in Row /\ r.offset = row.offset /\ r.status = row.status
      BY <1>1 DEF Row
    <3>2. uploads' = [uploads EXCEPT ![u] = r]
      BY <2>4 DEF CleanStaging
    <3> QED
      BY <3>1, <3>2, OffsetKept
  <2>5. CASE SaveRefusal(u)
    <3> DEFINE s == IF Journalled(u) /\ Remembered(u).publication THEN "RECOVERY_REQUIRED"
                    ELSE "FAILED"
               r == [Remembered(u) EXCEPT !.status = s]
    <3>1. Remembered(u) \in Row /\ Remembered(u).offset = row.offset
      BY <1>1 DEF Remembered, Row
    <3>2. r \in Row /\ r.offset = row.offset /\ r.status # "UPLOADED"
      BY <3>1 DEF Row, UploadStatus
    <3>3. uploads' = uploads \/ uploads' = [uploads EXCEPT ![u] = r]
      BY <2>5 DEF SaveRefusal
    <3> QED
      BY <1>2, <3>2, <3>3, OffsetKept
  <2>6. CASE CompleteUpload(u) \/ PublishUpload(u) \/ DiscardRefused(u) \/ SaveFails(u)
    BY <1>2, <2>6 DEF CompleteUpload, PublishUpload, DiscardRefused, SaveFails
  <2> QED
    BY <1>10, <2>1, <2>2, <2>3, <2>4, <2>5, <2>6 DEF FinishUpload
<1> QED
  BY <1>4, <1>5, <1>6, <1>7, <1>8, <1>9, <1>10 DEF UploadStep, TransferUpload

\* Every step of an upload keeps the types.
LEMMA TypeStep ==
    ASSUME UploadsTypeOK, UploadInv, NEW u \in Upload, UploadStep(u)
    PROVE  UploadsTypeOK'
BY RowsKept, FilesKept, ControlKept DEF UploadsTypeOK, RowsOK, ControlOK

----------------------------------------------------------------------------
(* The invariant *)

\* What is true of an upload stays true while others move.
LEMMA OtherUploads ==
    ASSUME UploadInv, NEW v \in Upload, Untouched(v)
    PROVE  UploadOK(v)'
BY DEF UploadInv, UploadOK, Untouched, RowInv, JournalInv, Status, Journalled

\* The staging file and the target of one upload
LEMMA ThisTransfer ==
    ASSUME UploadsTypeOK, UploadInv, NEW u \in Upload, TransferUpload(u)
    PROVE  UploadOK(u)'
<1>1. UploadOK(u) /\ uploads[u] \in Row /\ uploads[u].offset \in 0..Len(Promised[u])
      /\ Promised[u] \in Seq(Chunk) /\ part[u] \in Seq(Chunk)
      /\ (Status(u) = "UPLOADED" => uploads[u].offset = Len(Promised[u]))
  BY UploadAssumption DEF UploadInv, UploadOK, UploadsTypeOK, Status
<1> USE DEF ToPc, Status, Journalled, TransferStates
<1>2. CASE BeginUpload(u)
  <2>1. uploads'[u] = [uploads[u] EXCEPT !.status = "RECEIVING"] /\ uploads[u].status = "ABSENT"
        /\ part' = part /\ target' = target /\ attempts' = attempts /\ uploader' = uploader
        /\ Len(part[u]) \in Nat
    BY <1>1, <1>2 DEF BeginUpload, UploadsTypeOK
  <2>2. RowInv(u)'
    BY <1>1, <2>1 DEF UploadOK, RowInv, Row
  <2> QED
    BY <1>1, <2>1, <2>2 DEF UploadOK, RowInv, JournalInv, Row
<1>3. CASE ConfirmChunk(u)
  <2>1. uploads'[u] = [uploads[u] EXCEPT !.offset = @ + 1,
          !.status = IF uploads[u].offset + 1 = Len(Promised[u]) THEN "UPLOADED" ELSE "RECEIVING"]
        /\ uploader'[u] = "idle" /\ part' = part /\ target' = target /\ attempts' = attempts
    BY <1>3 DEF ConfirmChunk, UploadsTypeOK
  <2>2. /\ uploads'[u].status \in {"UPLOADED", "RECEIVING"}
        /\ uploads'[u].offset = uploads[u].offset + 1
        /\ uploads'[u].publication = uploads[u].publication
        /\ uploads'[u].saved = uploads[u].saved
    BY <1>1, <2>1 DEF Row
  <2>3. uploads[u].status = "RECEIVING" /\ uploads[u].offset + 1 <= Len(part[u])
    BY <1>1, <1>3 DEF ConfirmChunk, UploadOK, RowInv
  <2>4. RowInv(u)'
    BY <1>1, <2>1, <2>2, <2>3 DEF UploadOK, RowInv
  <2> QED
    BY <1>1, <2>1, <2>2, <2>3, <2>4 DEF UploadOK, RowInv, JournalInv
<1>4. CASE CancelUpload(u)
  <2>1. uploads'[u] = [uploads[u] EXCEPT !.status = "CANCELLED"] /\ uploader'[u] = "clean"
    BY <1>4 DEF CancelUpload, UploadsTypeOK
  <2> QED
    BY <1>1, <1>4, <2>1 DEF CancelUpload, UploadOK, RowInv, JournalInv, Row
<1>5. ASSUME NEW c \in Chunk, AppendChunk(u, c)
      PROVE  UploadOK(u)'
  <2>1. uploads[u].offset \in 0..Len(part[u]) /\ Status(u) = "RECEIVING"
    BY <1>1, <1>5 DEF AppendChunk, UploadOK, RowInv, Row
  <2>2. Len(Appended(u, c)) = uploads[u].offset + 1
    BY <1>1, <2>1, AppendedType DEF Appended
  <2>3. part'[u] = Appended(u, c) /\ uploader'[u] = "appended" /\ uploads' = uploads
    BY <1>5 DEF AppendChunk, UploadsTypeOK
  <2> QED
    BY <1>1, <1>5, <2>1, <2>2, <2>3 DEF AppendChunk, UploadOK, RowInv, JournalInv, Row
<1>6. ASSUME NEW c, NEW i, RepeatChunk(u, i, c)
      PROVE  UploadOK(u)'
  BY <1>1, <1>6 DEF RepeatChunk, UploadOK, RowInv, JournalInv
<1> QED
  BY <1>2, <1>3, <1>4, <1>5, <1>6 DEF TransferUpload

\* Expiry, cleanup and the death of a request tell the truth.
LEMMA ThisExpiry ==
    ASSUME UploadsTypeOK, UploadInv, NEW u \in Upload, ExpireUpload(u) \/ UploadBreaks(u)
    PROVE  UploadOK(u)'
<1>1. UploadOK(u) /\ uploads[u] \in Row
  BY DEF UploadInv, UploadsTypeOK
<1> USE DEF ToPc, Status, Journalled, TransferStates
<1>2. CASE UploadElapses(u) \/ ParentChanges(u)
  BY <1>1, <1>2 DEF UploadElapses, ParentChanges, UploadOK, RowInv, JournalInv
<1>3. CASE UploadBreaks(u)
  <2>1. uploader'[u] = "idle"
    BY <1>3 DEF UploadBreaks, UploadsTypeOK
  <2> QED
    BY <1>1, <1>3, <2>1 DEF UploadBreaks, UploadOK, RowInv, JournalInv
<1>4. CASE CleanupUpload(u)
  <2>1. uploader'[u] = "clean"
    BY <1>4 DEF CleanupUpload, UploadsTypeOK
  <2>2. CASE Status(u) \in TransferStates \cup {"SAVED"}
    <3>1. uploads'[u] = [uploads[u] EXCEPT !.status = "EXPIRED"]
      BY <1>4, <2>2 DEF CleanupUpload, UploadsTypeOK
    <3> QED
      BY <1>1, <1>4, <2>1, <2>2, <3>1
         DEF CleanupUpload, UploadOK, RowInv, JournalInv, Row, Uncertain
  <2>3. CASE Status(u) \notin TransferStates \cup {"SAVED"}
    BY <1>1, <1>4, <2>1, <2>3 DEF CleanupUpload, UploadOK, RowInv, JournalInv
  <2> QED
    BY <2>2, <2>3
<1> QED
  BY <1>2, <1>3, <1>4 DEF ExpireUpload

\* A completing request keeps its promise at every checkpoint.
LEMMA ThisCompletion ==
    ASSUME UploadsTypeOK, UploadInv, NEW u \in Upload, NEW busy, FinishUpload(u, busy)
    PROVE  UploadOK(u)'
<1>1. UploadOK(u) /\ uploads[u] \in Row /\ attempts[u] \in Nat /\ Promised[u] # <<>>
  BY UploadAssumption DEF UploadInv, UploadsTypeOK
<1> USE DEF ToPc, Status, Journalled, TransferStates
<1>2. CASE CompleteUpload(u)
  <2>1. uploader'[u] \in {"register", "prepare", "refused", "publish"}
        /\ (uploader'[u] = "register" => Registrable(u))
        /\ (uploader'[u] = "prepare" => Status(u) = "UPLOADED")
        /\ (uploader'[u] = "refused" => Status(u) = "PUBLISHING")
        /\ (uploader'[u] = "publish" => Status(u) = "PUBLISHING" /\ ~Journalled(u))
    BY <1>2 DEF CompleteUpload, UploadsTypeOK
  <2>2. uploads' = uploads /\ part' = part /\ target' = target /\ attempts' = attempts
        /\ scans' = scans /\ elapsed' = elapsed
    BY <1>2 DEF CompleteUpload
  <2>3. RowInv(u)'
    BY <1>1, <2>1, <2>2 DEF Registrable, UploadOK, RowInv
  <2> QED
    BY <1>1, <2>1, <2>2, <2>3 DEF Registrable, UploadOK, JournalInv
<1>3. CASE PreparePublication(u, busy)
  <2>1. CASE uploads' = uploads
    <3>1. uploads[u].status = "UPLOADED"
      BY <1>1, <1>3 DEF PreparePublication, UploadOK, RowInv
    <3>2. uploads' # [uploads EXCEPT ![u].status = "PUBLISHING", ![u].publication = TRUE]
      BY <1>1, <2>1, <3>1 DEF UploadsTypeOK, Row
    <3>3. uploader'[u] = "refused"
      BY <1>3, <3>2 DEF PreparePublication, UploadsTypeOK
    <3> QED
      BY <1>1, <1>3, <2>1, <3>1, <3>3 DEF PreparePublication, UploadOK, RowInv, JournalInv
  <2>2. CASE uploads' # uploads
    <3>1. /\ uploads'[u] = [uploads[u] EXCEPT !.status = "PUBLISHING", !.publication = TRUE]
          /\ uploader'[u] = "publish" /\ part[u] = Promised[u]
      BY <1>3, <2>2 DEF PreparePublication, UploadsTypeOK, Verified
    <3> QED
      BY <1>1, <1>3, <3>1 DEF PreparePublication, UploadOK, RowInv, JournalInv, Row
  <2> QED
    BY <2>1, <2>2
<1>4. CASE PublishUpload(u)
  <2>1. /\ attempts'[u] \in {attempts[u], IF Journalled(u) THEN attempts[u] + 1 ELSE attempts[u]}
        /\ target'[u] \in {target[u], part[u]}
        /\ uploader'[u] = "refused" \/ (uploader'[u] = "published" /\ target'[u] = part[u])
    <3>1. attempts' = attempts
          \/ attempts' = [attempts EXCEPT ![u] = IF Journalled(u) THEN @ + 1 ELSE @]
      BY <1>4 DEF PublishUpload
    <3>2. attempts'[u] \in {attempts[u], IF Journalled(u) THEN attempts[u] + 1 ELSE attempts[u]}
      BY <3>1 DEF UploadsTypeOK
    <3>3. target' = target \/ target' = [target EXCEPT ![u] = part[u]]
      BY <1>4 DEF PublishUpload
    <3>4. target'[u] \in {target[u], part[u]}
      BY <3>3 DEF UploadsTypeOK
    <3>5. uploader'[u] = "refused" \/ (uploader'[u] = "published" /\ target'[u] = part[u])
      BY <1>4 DEF PublishUpload, UploadsTypeOK
    <3> QED
      BY <3>2, <3>4, <3>5
  <2> QED
    BY <1>1, <1>4, <2>1 DEF PublishUpload, UploadOK, RowInv, JournalInv
<1>5. CASE SaveUpload(u)
  <2>1. /\ uploads'[u] = [uploads[u] EXCEPT !.status = "SAVED", !.saved = TRUE]
        /\ uploader'[u] = "register" /\ target' = target /\ attempts' = attempts
    BY <1>5 DEF SaveUpload, UploadsTypeOK
  <2>2. /\ uploads'[u].status = "SAVED" /\ uploads'[u].saved
        /\ uploads'[u].publication = uploads[u].publication
    BY <1>1, <2>1 DEF Row
  <2>3. uploads[u].status = "PUBLISHING" /\ uploads[u].publication
        /\ (Journalled(u) => target[u] = Promised[u])
    BY <1>1, <1>5 DEF SaveUpload, UploadOK, RowInv, JournalInv
  <2>4. RowInv(u)'
    BY <2>1, <2>2 DEF RowInv
  <2> QED
    BY <1>1, <2>1, <2>2, <2>3, <2>4 DEF UploadOK, JournalInv
<1>6. CASE RegisterUpload(u)
  <2>1. CASE uploader'[u] = "refused"
    <3>1. uploads' = uploads /\ scans' = scans
      BY <1>6, <2>1 DEF RegisterUpload, UploadsTypeOK
    <3> QED
      BY <1>1, <1>6, <2>1, <3>1 DEF RegisterUpload, UploadOK, RowInv, JournalInv
  <2>2. CASE uploader'[u] # "refused"
    <3>1. /\ uploads'[u] = [uploads[u] EXCEPT !.status =
                               IF Journalled(u) THEN "QUEUED" ELSE "COMPLETED"]
          /\ uploader'[u] = "clean" /\ u \in scans'
      BY <1>6, <2>2 DEF RegisterUpload, UploadsTypeOK
    <3> QED
      BY <1>1, <1>6, <3>1 DEF RegisterUpload, UploadOK, RowInv, JournalInv, Row
  <2> QED
    BY <2>1, <2>2
<1>7. CASE SaveFails(u)
  <2>1. uploader'[u] = (IF uploader[u] = "prepare" THEN "journalled" ELSE "kept")
    BY <1>7 DEF SaveFails, UploadsTypeOK
  <2> QED
    BY <1>1, <1>7, <2>1 DEF SaveFails, UploadOK, RowInv, JournalInv
<1>8. CASE CleanStaging(u)
  <2>1. /\ uploads'[u] = [uploads[u] EXCEPT !.cleaned = TRUE] /\ uploader'[u] = "idle"
    BY <1>8 DEF CleanStaging, UploadsTypeOK
  <2> QED
    BY <1>1, <1>8, <2>1 DEF CleanStaging, UploadOK, RowInv, JournalInv, Row
<1>9. CASE DiscardRefused(u)
  <2>1. uploader'[u] = "idle" /\ uploads' = uploads
    BY <1>9 DEF DiscardRefused, UploadsTypeOK
  <2> QED
    BY <1>1, <1>9, <2>1 DEF DiscardRefused, UploadOK, RowInv, JournalInv
<1>10. CASE SaveRefusal(u)
  <2>1. uploader'[u] = "idle"
    BY <1>10 DEF SaveRefusal, UploadsTypeOK
  <2>2. CASE uploads' = uploads
    BY <1>1, <1>10, <2>1, <2>2 DEF SaveRefusal, UploadOK, RowInv, JournalInv
  <2>3. CASE uploads' # uploads
    <3> DEFINE row == Remembered(u)
    <3>1. row.status = uploads[u].status /\ row.offset = uploads[u].offset
          /\ row.publication = (uploads[u].publication \/ uploader[u] = "journalled")
          /\ row.saved = (uploads[u].saved \/ uploader[u] = "kept") /\ row \in Row
      BY <1>1 DEF Remembered, Row
    <3>2. uploads'[u] = [row EXCEPT !.status =
             IF Journalled(u) /\ row.publication THEN "RECOVERY_REQUIRED" ELSE "FAILED"]
      BY <1>10, <2>3 DEF SaveRefusal, UploadsTypeOK
    <3> QED
      BY <1>1, <1>10, <2>1, <3>1, <3>2 DEF SaveRefusal, UploadOK, RowInv, JournalInv, Row
  <2> QED
    BY <2>2, <2>3
<1> QED
  BY <1>2, <1>3, <1>4, <1>5, <1>6, <1>7, <1>8, <1>9, <1>10 DEF FinishUpload

----------------------------------------------------------------------------
(* The theorems *)

\* Nothing has been uploaded in the beginning.
LEMMA UploadInitially == UploadsInit => UploadsTypeOK /\ UploadInv
<1> SUFFICES ASSUME UploadsInit PROVE UploadsTypeOK /\ UploadInv
  OBVIOUS
<1>1. \A u \in Upload : uploads[u] = [status |-> "ABSENT", offset |-> 0, publication |-> FALSE,
                                     saved |-> FALSE, cleaned |-> FALSE]
  BY DEF UploadsInit
<1>2. UploadsTypeOK
  BY <1>1, UploadAssumption DEF UploadsInit, UploadsTypeOK, Row, UploaderPc
<1>3. UploadInv
  BY <1>1 DEF UploadsInit, UploadInv, UploadOK, RowInv, JournalInv, Status, TransferStates
<1> QED
  BY <1>2, <1>3

\* Whatever the step, it is a step of one upload.
LEMMA UploadStepKept ==
    ASSUME UploadsTypeOK, UploadInv, UploadsNext
    PROVE  UploadsTypeOK' /\ UploadInv'
<1>1. PICK u \in Upload : UploadStep(u)
  BY DEF UploadsNext, UploadStep
<1>2. UploadsTypeOK'
  BY <1>1, TypeStep
<1>3. UploadOK(u)'
  BY <1>1, ThisTransfer, ThisExpiry, ThisCompletion DEF UploadStep
<1>4. ASSUME NEW v \in Upload, v # u
      PROVE  UploadOK(v)'
  BY <1>1, <1>4, OthersUntouched, OtherUploads
<1> QED
  BY <1>2, <1>3, <1>4 DEF UploadInv

\* The type invariant and the inductive invariant of uploads hold throughout.
THEOREM UploadsInductive == UploadsSpec => [](UploadsTypeOK /\ UploadInv)
<1>1. ASSUME UploadsTypeOK, UploadInv, UNCHANGED uploadVars
      PROVE  UploadsTypeOK' /\ UploadInv'
  BY <1>1 DEF uploadVars, UploadsTypeOK, UploadInv, UploadOK, RowInv, JournalInv, Status, Journalled
<1>2. UploadsTypeOK /\ UploadInv /\ [UploadsNext]_uploadVars => (UploadsTypeOK /\ UploadInv)'
  BY <1>1, UploadStepKept
<1> QED
  BY <1>2, UploadInitially, PTL DEF UploadsSpec

\* What is at the target is exactly what the request announced.
THEOREM UploadsPublishWhatWasPromised == UploadsSpec => []PublishedIsPromised
<1>1. UploadInv => PublishedIsPromised
  BY DEF UploadInv, UploadOK, PublishedIsPromised
<1> QED
  BY <1>1, UploadsInductive, PTL

\* The publication of a file runs at most once.
THEOREM UploadsPublishOnce == UploadsSpec => []PublishedOnce
<1>1. UploadsTypeOK /\ UploadInv => PublishedOnce
  BY DEF UploadInv, UploadOK, JournalInv, PublishedOnce
<1> QED
  BY <1>1, UploadsInductive, PTL

\* What the row of an upload tells the agent of its target is true.
THEOREM UploadsTellTheTruth == UploadsSpec => []UploadOutcomeIsTrue
<1>1. ASSUME UploadInv, NEW u \in Upload, Journalled(u)
      PROVE  /\ Status(u) \in {"RECEIVING", "UPLOADED", "CANCELLED", "FAILED"} => target[u] = <<>>
             /\ Status(u) = "EXPIRED" /\ target[u] # <<>> => uploads[u].saved
             /\ uploads[u].saved => target[u] # <<>>
             /\ Status(u) = "QUEUED" => uploads[u].saved /\ u \in scans
  BY <1>1 DEF UploadInv, UploadOK, RowInv, JournalInv
<1>2. UploadInv => UploadOutcomeIsTrue
  BY <1>1 DEF UploadOutcomeIsTrue
<1> QED
  BY <1>2, UploadsInductive, PTL

\* What a step of one upload does to the staging of that upload
LEMMA StagingStep ==
    ASSUME UploadsTypeOK, UploadInv, NEW u \in Upload, UploadStep(u), Status(u) \in TransferStates
    PROVE  SubSeq(part'[u], 1, uploads[u].offset) = SubSeq(part[u], 1, uploads[u].offset)
<1>1. CASE part' = part
  BY <1>1
<1>2. ASSUME NEW c \in Chunk, AppendChunk(u, c)
      PROVE  SubSeq(part'[u], 1, uploads[u].offset) = SubSeq(part[u], 1, uploads[u].offset)
  <2>1. uploads[u].offset \in 0..Len(part[u]) /\ part[u] \in Seq(Chunk)
    BY <1>2 DEF AppendChunk, UploadInv, UploadOK, RowInv, UploadsTypeOK, Row, Status
  <2>2. part'[u] = Appended(u, c)
    BY <1>2 DEF AppendChunk, UploadsTypeOK
  <2> QED
    BY <2>1, <2>2, AppendedType DEF Appended
<1>3. ~CleanStaging(u)
  BY DEF CleanStaging, UploadInv, UploadOK, RowInv
<1>4. CASE TransferUpload(u)
  BY <1>1, <1>2, <1>4 DEF TransferUpload, BeginUpload, ConfirmChunk, CancelUpload, RepeatChunk
<1>5. CASE ExpireUpload(u) \/ UploadBreaks(u)
  BY <1>1, <1>5 DEF ExpireUpload, UploadElapses, CleanupUpload, ParentChanges, UploadBreaks
<1>6. ASSUME NEW busy, FinishUpload(u, busy)
      PROVE  part' = part
  BY <1>3, <1>6
     DEF FinishUpload, CompleteUpload, PreparePublication, PublishUpload, SaveUpload,
         RegisterUpload, SaveRefusal, DiscardRefused, SaveFails
<1> QED
  BY <1>1, <1>4, <1>5, <1>6 DEF UploadStep

\* No step changes a chunk that was confirmed while the transfer may still complete.
THEOREM UploadsKeepConfirmedChunks == UploadsSpec => ConfirmedChunksStay
<1> DEFINE Stay(u) == SubSeq(part'[u], 1, uploads[u].offset) = SubSeq(part[u], 1, uploads[u].offset)
           A == \A u \in Upload :
                   Status(u) \in TransferStates /\ uploads'[u].status \in TransferStates => Stay(u)
<1>1. ASSUME UploadsTypeOK, UploadInv, UploadsNext
      PROVE  A
  <2>1. PICK u \in Upload : UploadStep(u)
    BY <1>1 DEF UploadsNext, UploadStep
  <2>2. Status(u) \in TransferStates => Stay(u)
    BY <1>1, <2>1, StagingStep
  <2>3. ASSUME NEW v \in Upload, v # u
        PROVE  Stay(v)
    BY <1>1, <2>1, <2>3, OthersUntouched DEF Untouched
  <2> QED
    BY <2>2, <2>3
<1>2. UploadsTypeOK /\ UploadInv /\ [UploadsNext]_uploadVars => [A]_uploadVars
  BY <1>1
<1> QED
  BY <1>2, UploadsInductive, PTL DEF UploadsSpec, ConfirmedChunksStay
=============================================================================
