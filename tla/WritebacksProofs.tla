-------------------------- MODULE WritebacksProofs --------------------------
(***************************************************************************)
(* Theorems about metadata writebacks: what a standard write says of its   *)
(* file is true, a file is replaced at most once, and the counters cover   *)
(* the rows.                                                               *)
(***************************************************************************)
EXTENDS Writebacks, TLAPS, FiniteSetTheorems

WriteRow == [row : {"none", "PENDING", "RUNNING", "PREPARED", "REVIEW", "gone"},
             lease : Leases, own : BOOLEAN, stage : WriteStage, cancel : BOOLEAN]
IntentRow == [row : {"none", "PENDING", "RUNNING", "gone"}, lease : Leases, own : BOOLEAN]
FileState == {"old", "prepared", "aside", "new"}
LiveStage == {"QUEUED", "PREPARING", "PREPARED", "FILES_PUBLISHED"}

\* What the row r of a target w says of its file f
TargetOK(w, r, f) ==
    /\ r \in WriteRow /\ f \in FileState
    /\ r.lease # "none" <=> r.row \in {"RUNNING", "PREPARED"}
    /\ r.own => r.row \in {"RUNNING", "PREPARED"}
    /\ r.row = "none" => f # "new" /\ r.stage = "QUEUED"
    /\ r.row \in {"none", "PENDING", "RUNNING", "PREPARED"} => r.stage \in LiveStage
    /\ w \in Standard => /\ r.stage \in {"QUEUED", "CANCELLED", "FAILED"} => f = "old"
                         /\ r.stage = "PREPARING" => f \in {"old", "prepared"}
                         /\ r.stage \in Published => f = "new"
                         /\ r.stage = "PREPARED" /\ ~r.cancel => f # "old"
    /\ w \notin Standard => (r.row \in {"PENDING", "RUNNING"} => f # "new")

TargetsOK ==
    /\ writes \in [Write -> WriteRow] /\ written \in [Write -> FileState]
    /\ \A w \in Write : TargetOK(w, writes[w], written[w])

\* What the thread knows of the target it serves, of stage s and file f
OpfPc == {"opf", "opfSave", "opfPublish", "opfDone"}
StandardPc == {"begin", "prepare", "prepared", "publish", "swap", "discard", "discarded",
               "journal", "record", "failing"}
TurnOK(pc, unsure, s, f) ==
    /\ pc \in {"opf", "opfSave", "prepare"} => f # "new"
    /\ pc = "prepare" /\ ~unsure => f = "old"
    /\ pc \in {"prepare", "prepared"} => s = "PREPARING"
    /\ pc = "prepared" => f = "prepared"
    /\ pc \in {"prepared", "publish", "swap", "discard", "discarded", "journal", "record"} => unsure
    /\ pc \in {"publish", "journal"} => s \in {"PREPARED", "FILES_PUBLISHED"}
    /\ pc \in {"swap", "discard", "discarded"} => s = "PREPARED"
    /\ pc = "discarded" => f = "old"
    /\ pc \in {"journal", "record"} => f = "new"
    /\ pc = "record" => s = "FILES_PUBLISHED"
    /\ pc = "failing" /\ ~unsure => f = "old"

\* A copy is discarded only for a cancel, which nothing takes back.
Discarding == {"discard", "discarded"}

WriterOK ==
    /\ writer \in [pc : WriterPc, at : Intent \cup Write \cup {"none"}, unsure : BOOLEAN]
    /\ writer.pc = "expand" => writer.at \in Intent
    /\ writer.pc \in OpfPc => writer.at \in Write \ Standard
    /\ writer.pc \in StandardPc => writer.at \in Standard
    /\ writer.pc \in OpfPc \cup StandardPc =>
          TurnOK(writer.pc, writer.unsure, writes[writer.at].stage, written[writer.at])
    /\ writer.pc \in Discarding => writes[writer.at].cancel

\* The targets of an intent that waits were never there.
IntentsOK ==
    /\ intents \in [Intent -> IntentRow]
    /\ \A i \in Intent : intents[i].row # "gone" =>
          \A w \in Expansion[i] : writes[w].row = "none"

Asked == {i \in Intent : Exists(intents[i])}
CountsOK ==
    /\ counts \in [targets : Nat, intents : Nat] /\ writeFaults \in 0..MaxWriteFault
    /\ IsFiniteSet(Queued) /\ IsFiniteSet(Asked)
    /\ Cardinality(Queued) <= counts.targets /\ counts.targets <= TargetCapacity
    /\ Cardinality(Asked) <= counts.intents

WriteInv == TargetsOK /\ WriterOK /\ IntentsOK /\ CountsOK

----------------------------------------------------------------------------
(* Single rows, the queue and the thread *)

\* Sidecar and standard writes are different writes.
LEMMA Parts ==
    /\ Standard \subseteq Write
    /\ \A i \in Intent : Expansion[i] \subseteq Write /\ Expansion[i] \cap Standard = {}
    /\ TargetCapacity \in Nat /\ MaxWriteFault \in Nat
BY WriteAssumption DEF Write

\* The row and the file of w change, those of the others stay.
OnlyWrite(w, r, f) ==
    /\ writes' \in [Write -> WriteRow] /\ written' \in [Write -> FileState]
    /\ writes'[w] = r /\ written'[w] = f
    /\ \A v \in Write : v # w => writes'[v] = writes[v] /\ written'[v] = written[v]

\* A step that changes one write keeps the writes right.
LEMMA OneWrite ==
    ASSUME TargetsOK, NEW w \in Write, NEW r, NEW f, OnlyWrite(w, r, f), TargetOK(w, r, f)
    PROVE  TargetsOK'
BY DEF TargetsOK, OnlyWrite

\* An intent whose targets were not there keeps them absent.
LEMMA SameIntents ==
    ASSUME IntentsOK, NEW w \in Write, NEW r, NEW f, OnlyWrite(w, r, f),
           writes[w].row = "none" => w \in Standard \/ r.row = "none", intents' = intents
    PROVE  IntentsOK'
<1>1. ASSUME NEW i \in Intent, intents[i].row # "gone", NEW v \in Expansion[i]
      PROVE  writes'[v].row = "none"
  BY <1>1, Parts DEF IntentsOK, OnlyWrite
<1> QED
  BY <1>1 DEF IntentsOK

\* Nobody joins or leaves the queue.
LEMMA SameQueue ==
    ASSUME CountsOK, Queued' = Queued, Asked' = Asked, counts' = counts,
           writeFaults' \in 0..MaxWriteFault
    PROVE  CountsOK'
BY DEF CountsOK

\* One target may leave and is counted out only if it does.
LEMMA OneLeaves ==
    ASSUME CountsOK, NEW w \in Queued, Queued' = Queued \ {w}, Asked' = Asked,
           counts' = [counts EXCEPT !.targets = OneLess(@)], writeFaults' = writeFaults
    PROVE  CountsOK'
<1>1. IsFiniteSet(Queued') /\ Cardinality(Queued') = Cardinality(Queued) - 1
  BY FS_RemoveElement DEF CountsOK
<1>2. Cardinality(Queued) \in Nat /\ Cardinality(Queued') \in Nat
  BY <1>1, FS_CardinalityType DEF CountsOK
<1>3. counts.targets \in Nat /\ counts.intents \in Nat
  BY DEF CountsOK
<1>4. counts.targets # 0
  BY <1>1, <1>2, <1>3 DEF CountsOK
<1>5. counts' = [targets |-> counts.targets - 1, intents |-> counts.intents]
  BY <1>3, <1>4 DEF OneLess, CountsOK
<1> QED
  BY <1>1, <1>2, <1>3, <1>4, <1>5, Parts DEF CountsOK

\* A thread without a target is right whatever the rows are.
LEMMA WriterFrees ==
    ASSUME NEW pc \in {"down", "recovering", "idle", "paused"}, Free(pc)
    PROVE  WriterOK'
<1>1. writer' = [pc |-> pc, at |-> "none", unsure |-> FALSE]
  BY DEF Free
<1> QED
  BY <1>1 DEF WriterOK, WriterPc, OpfPc, StandardPc, Discarding

\* The thread does not notice what leaves the stage, the cancel and the file of its target.
LEMMA WriterStays ==
    ASSUME WriterOK, writer' = writer,
           \A w \in Write : written'[w] = written[w]
                             /\ (w \in Standard => /\ writes'[w].stage = writes[w].stage
                                                   /\ writes[w].cancel => writes'[w].cancel)
    PROVE  WriterOK'
<1>1. WriterOK!1' /\ WriterOK!2' /\ WriterOK!3' /\ WriterOK!4'
  BY DEF WriterOK
<1>2. ASSUME writer.pc \in OpfPc
      PROVE  TurnOK(writer.pc, writer.unsure, writes'[writer.at].stage, written'[writer.at])
  BY <1>2 DEF WriterOK, TurnOK, OpfPc, StandardPc
<1>3. ASSUME writer.pc \in StandardPc
      PROVE  TurnOK(writer.pc, writer.unsure, writes'[writer.at].stage, written'[writer.at])
  BY <1>3, Parts DEF WriterOK
<1>4. WriterOK!6'
  BY Parts DEF WriterOK, Discarding, StandardPc
<1> QED
  BY <1>1, <1>2, <1>3, <1>4 DEF WriterOK

\* The thread goes on with the target it serves.
LEMMA WriterGoes ==
    ASSUME WriterOK, NEW pc \in OpfPc \cup StandardPc, NEW u \in BOOLEAN,
           writer' = [writer EXCEPT !.pc = pc, !.unsure = u],
           pc \in OpfPc => writer.at \in Write \ Standard,
           pc \in StandardPc => writer.at \in Standard,
           pc \in Discarding => writes'[writer.at].cancel,
           TurnOK(pc, u, writes'[writer.at].stage, written'[writer.at])
    PROVE  WriterOK'
<1>1. writer'.pc = pc /\ writer'.unsure = u /\ writer'.at = writer.at
  BY DEF WriterOK
<1>2. writer' \in [pc : WriterPc, at : Intent \cup Write \cup {"none"}, unsure : BOOLEAN]
  BY DEF WriterOK, WriterPc, OpfPc, StandardPc, Discarding
<1> QED
  BY <1>1, <1>2 DEF WriterOK, OpfPc, StandardPc

\* A row that stays leaves the counted set as it is.
LEMMA QueueKept ==
    ASSUME NEW w \in Write, NEW r, NEW f, OnlyWrite(w, r, f), Exists(writes[w]) <=> Exists(r)
    PROVE  Queued' = Queued
BY DEF Queued, OnlyWrite, Exists

\* A row that goes leaves the counted set by itself.
LEMMA QueueLeft ==
    ASSUME NEW w \in Write, NEW r, NEW f, OnlyWrite(w, r, f), Exists(writes[w]), ~Exists(r)
    PROVE  w \in Queued /\ Queued' = Queued \ {w}
BY DEF Queued, OnlyWrite, Exists

\* A target that is queued, cancelled or whose lease lapses while the thread
\* may be at it
LEMMA RowChanges ==
    ASSUME WriteInv, NEW w \in Write, NEW r, OnlyWrite(w, r, written[w]), written' = written,
           TargetOK(w, r, written[w]), r.stage = writes[w].stage, writer' = writer,
           writes[w].cancel => r.cancel,
           intents' = intents, writes[w].row = "none" => w \in Standard \/ r.row = "none"
    PROVE  TargetsOK' /\ WriterOK' /\ IntentsOK' /\ Asked' = Asked
<1>1. TargetsOK' /\ IntentsOK' /\ Asked' = Asked
  BY OneWrite, SameIntents DEF WriteInv, Asked, Exists
<1>2. WriterOK'
  BY WriterStays DEF WriteInv, OnlyWrite
<1> QED
  BY <1>1, <1>2

\* Writes are queued, cancelled or removed, and leases lapse.
LEMMA RequestsKeep ==
    ASSUME WriteInv, NEW w \in Write,
           EnqueueStandard(w) \/ CancelStandard(w) \/ WriteLapses(w) \/ RemoveWrite(w)
    PROVE  WriteInv'
<1> USE DEF WriteInv
<1>1. /\ written' = written /\ writer' = writer /\ intents' = intents
      /\ TargetOK(w, writes[w], written[w]) /\ writes[w] \in WriteRow
  BY DEF EnqueueStandard, CancelStandard, WriteLapses, RemoveWrite, TargetsOK
<1>2. CASE EnqueueStandard(w)
  <2> DEFINE r == [writes[w] EXCEPT !.row = "PENDING"]
  <2>1. /\ r.row = "PENDING" /\ r.stage = writes[w].stage /\ TargetOK(w, r, written[w])
        /\ r.cancel = writes[w].cancel /\ w \in Standard /\ writes[w].row = "none"
    BY <1>1, <1>2 DEF EnqueueStandard, TargetOK, WriteRow
  <2>2. OnlyWrite(w, r, written[w])
    BY <1>1, <1>2, <2>1 DEF EnqueueStandard, OnlyWrite, TargetsOK, TargetOK
  <2>3. TargetsOK' /\ WriterOK' /\ IntentsOK' /\ Asked' = Asked
    <3> HIDE DEF r
    <3> QED
      BY <1>1, <2>1, <2>2, RowChanges
  <2>4. w \notin Queued /\ Queued' = Queued \cup {w}
    BY <2>1, <2>2 DEF Queued, Exists, OnlyWrite
  <2>5. IsFiniteSet(Queued') /\ Cardinality(Queued') = Cardinality(Queued) + 1
        /\ Cardinality(Queued) \in Nat
    BY <2>4, FS_AddElement, FS_CardinalityType DEF CountsOK
  <2>6. counts' = [targets |-> counts.targets + 1, intents |-> counts.intents]
        /\ counts.targets < TargetCapacity /\ writeFaults' = writeFaults
    BY <1>2 DEF EnqueueStandard, CountsOK
  <2>7. CountsOK'
    BY <2>3, <2>5, <2>6, Parts DEF CountsOK
  <2> QED
    BY <2>3, <2>7
<1>3. CASE CancelStandard(w) \/ WriteLapses(w)
  <2> DEFINE r1 == [writes[w] EXCEPT !.cancel = TRUE]
             r2 == [writes[w] EXCEPT !.lease = "lapsed"]
  <2>1. PICK r : /\ writes' = [writes EXCEPT ![w] = r] /\ TargetOK(w, r, written[w])
                 /\ r.stage = writes[w].stage /\ r.row = writes[w].row
                 /\ writes[w].cancel => r.cancel
    <3>1. CASE CancelStandard(w)
      <4>1. TargetOK(w, r1, written[w]) /\ r1.stage = writes[w].stage /\ r1.row = writes[w].row
            /\ r1.cancel
        BY <1>1 DEF TargetOK, WriteRow
      <4>2. writes' = [writes EXCEPT ![w] = r1]
        BY <3>1 DEF CancelStandard
      <4> HIDE DEF r1
      <4> QED
        BY <4>1, <4>2
    <3>2. CASE WriteLapses(w)
      <4>1. TargetOK(w, r2, written[w]) /\ r2.stage = writes[w].stage /\ r2.row = writes[w].row
            /\ r2.cancel = writes[w].cancel
        BY <1>1, <3>2 DEF WriteLapses, TargetOK, WriteRow, Leases
      <4>2. writes' = [writes EXCEPT ![w] = r2]
        BY <3>2 DEF WriteLapses
      <4> HIDE DEF r2
      <4> QED
        BY <4>1, <4>2
    <3> QED
      BY <1>3, <3>1, <3>2
  <2>2. OnlyWrite(w, r, written[w])
    BY <1>1, <2>1 DEF OnlyWrite, TargetsOK, TargetOK
  <2>3. TargetsOK' /\ WriterOK' /\ IntentsOK' /\ Asked' = Asked
    BY <1>1, <2>1, <2>2, RowChanges
  <2>4. Queued' = Queued
    BY <2>1, <2>2, QueueKept DEF Exists
  <2>5. counts' = counts /\ writeFaults' = writeFaults
    BY <1>3 DEF CancelStandard, WriteLapses
  <2> QED
    BY <2>3, <2>4, <2>5, SameQueue DEF CountsOK
<1>4. CASE RemoveWrite(w)
  <2> DEFINE r == [writes[w] EXCEPT !.row = "gone", !.lease = "none", !.own = FALSE]
  <2>1. TargetOK(w, r, written[w]) /\ r.stage = writes[w].stage /\ r.row = "gone"
        /\ r.cancel = writes[w].cancel /\ Exists(writes[w])
    BY <1>1, <1>4 DEF RemoveWrite, Queued, Exists, TargetOK, WriteRow, Leases
  <2>2. OnlyWrite(w, r, written[w])
    BY <1>1, <1>4, <2>1 DEF RemoveWrite, OnlyWrite, TargetsOK, TargetOK
  <2>3. TargetsOK' /\ WriterOK' /\ IntentsOK' /\ Asked' = Asked
        /\ w \in Queued /\ Queued' = Queued \ {w}
    <3>1. ~Exists(r) /\ writes[w].row # "none"
      BY <2>1 DEF Exists
    <3> HIDE DEF r
    <3> QED
      BY <1>1, <2>1, <2>2, <3>1, RowChanges, QueueLeft
  <2>4. IsFiniteSet(Queued') /\ Cardinality(Queued') = Cardinality(Queued) - 1
        /\ Cardinality(Queued) \in Nat
    BY <2>3, FS_RemoveElement, FS_CardinalityType DEF CountsOK
  <2>5. counts' = counts /\ writeFaults' \in 0..MaxWriteFault
    BY <1>4, Parts DEF RemoveWrite, CountsOK
  <2> QED
    BY <2>3, <2>4, <2>5, Parts DEF CountsOK
<1> QED
  BY <1>2, <1>3, <1>4

----------------------------------------------------------------------------
(* The thread serves a target *)

\* What a stage that ends a target may say of its file
Truthful(s, f) ==
    /\ s \in {"QUEUED", "CANCELLED", "FAILED"} => f = "old"
    /\ s = "PREPARING" => f \in {"old", "prepared"}
    /\ s \in Published => f = "new"
    /\ s = "PREPARED" => f # "old"

\* The owner's last write of a target releases it and counts it out.
LEMMA ReleaseKeeps ==
    ASSUME WriteInv, NEW w \in Write, Owned(w), NEW s \in WriteStage, NEW f \in FileState,
           Release(w, s), written' = [written EXCEPT ![w] = f], Free("idle"),
           w \in Standard => Truthful(s, f), UNCHANGED <<intents, writeFaults>>
    PROVE  WriteInv'
<1> USE DEF WriteInv
<1> DEFINE r == [writes[w] EXCEPT !.row = "gone", !.lease = "none", !.own = FALSE, !.stage = s]
<1>1. writes[w] \in WriteRow /\ Exists(writes[w])
  BY DEF TargetsOK, Owned
<1>2. TargetOK(w, r, f) /\ r.row = "gone"
  BY <1>1 DEF TargetOK, Truthful, WriteRow, Leases
<1>3. OnlyWrite(w, r, f)
  BY <1>2 DEF Release, OnlyWrite, TargetsOK, TargetOK
<1>4. ~Exists(r) /\ writes[w].row # "none"
  BY <1>1, <1>2 DEF Exists
<1>5. counts' = [counts EXCEPT !.targets = OneLess(@)]
  BY DEF Release
<1>6. Asked' = Asked
  BY DEF Asked, Exists
<1> HIDE DEF r
<1>7. w \in Queued /\ Queued' = Queued \ {w}
  BY <1>1, <1>3, <1>4, QueueLeft
<1>8. CountsOK'
  BY <1>5, <1>6, <1>7, OneLeaves
<1>9. TargetsOK' /\ IntentsOK'
  BY <1>2, <1>3, <1>4, OneWrite, SameIntents
<1> QED
  BY <1>8, <1>9, WriterFrees

\* A step of the thread that leaves the rows as they are
LEMMA NoWriteKeeps ==
    ASSUME WriteInv, UNCHANGED <<intents, writes, counts, writeFaults>>, NEW w \in Write,
           NEW f \in FileState, written' = [written EXCEPT ![w] = f],
           TargetOK(w, writes[w], f)
    PROVE  /\ TargetsOK' /\ IntentsOK' /\ CountsOK' /\ written'[w] = f
           /\ writes'[w].stage = writes[w].stage
<1> USE DEF WriteInv
<1>1. OnlyWrite(w, writes[w], f)
  BY DEF OnlyWrite, TargetsOK
<1>2. TargetsOK' /\ IntentsOK'
  BY <1>1, OneWrite, SameIntents
<1>3. Queued' = Queued /\ Asked' = Asked
  BY DEF Queued, Asked, Exists
<1> QED
  BY <1>1, <1>2, <1>3, SameQueue DEF CountsOK, OnlyWrite

\* A step that writes no row.
LEMMA NothingKeeps ==
    ASSUME WriteInv, UNCHANGED <<intents, writes, counts, written>>,
           writeFaults' \in 0..MaxWriteFault
    PROVE  TargetsOK' /\ IntentsOK' /\ CountsOK'
<1>1. Queued' = Queued /\ Asked' = Asked
  BY DEF Queued, Asked, Exists
<1> QED
  BY <1>1, SameQueue DEF WriteInv, TargetsOK, IntentsOK, Exists

\* A checkpoint of the row the thread owns
LEMMA CheckpointKeeps ==
    ASSUME WriteInv, NEW w \in Write, Owned(w), NEW row \in {"RUNNING", "PREPARED"},
           NEW s \in LiveStage, w \in Standard => Truthful(s, written[w]),
           w \notin Standard => row = "PREPARED",
           writes' = [writes EXCEPT ![w] =
                         [writes[w] EXCEPT !.row = row, !.stage = s, !.lease = "live"]],
           UNCHANGED <<intents, counts, written, writeFaults>>
    PROVE  TargetsOK' /\ IntentsOK' /\ CountsOK' /\ writes'[w].stage = s
<1> USE DEF WriteInv
<1> DEFINE r == [writes[w] EXCEPT !.row = row, !.stage = s, !.lease = "live"]
<1>1. writes[w] \in WriteRow /\ Exists(writes[w]) /\ TargetOK(w, writes[w], written[w])
  BY DEF TargetsOK, Owned
<1>2. TargetOK(w, r, written[w]) /\ r.stage = s /\ r.row = row
  BY <1>1 DEF TargetOK, Truthful, WriteRow, Leases, LiveStage, WriteStage, Published
<1>3. OnlyWrite(w, r, written[w])
  BY <1>2 DEF OnlyWrite, TargetsOK, TargetOK
<1>4. Exists(r) /\ writes[w].row # "none"
  BY <1>1, <1>2 DEF Exists
<1>5. Asked' = Asked
  BY DEF Asked, Exists
<1>6. writes'[w].stage = s
  BY <1>2, <1>3 DEF OnlyWrite
<1> HIDE DEF r
<1>7. Queued' = Queued
  BY <1>1, <1>3, <1>4, QueueKept
<1> QED
  BY <1>2, <1>3, <1>4, <1>5, <1>6, <1>7, OneWrite, SameIntents, SameQueue DEF CountsOK

\* Rendering and renaming a sidecar.
LEMMA OpfKeeps ==
    ASSUME WriteInv, ServeOpf
    PROVE  WriteInv'
<1> USE DEF WriteInv
<1> DEFINE w == writer.at
           u == writer.unsure
           s == writes[w].stage
<1>1. /\ w \in Write \ Standard /\ u \in BOOLEAN /\ writer.pc \in OpfPc
      /\ TargetOK(w, writes[w], written[w]) /\ writes[w] \in WriteRow
      /\ TurnOK(writer.pc, u, s, written[w])
      /\ intents' = intents /\ writeFaults' = writeFaults /\ writeFaults \in 0..MaxWriteFault
  BY DEF ServeOpf, PrepareOpf, MarkPrepared, PublishOpf, CompleteOpf, At, OpfPc, WriterOK,
         TargetsOK, CountsOK
<1>2. ASSUME NEW pc \in OpfPc, Step(pc), TurnOK(pc, u, writes'[w].stage, written'[w])
      PROVE  WriterOK'
  <2>1. writer' = [writer EXCEPT !.pc = pc, !.unsure = u]
    BY <1>2 DEF Step, WriterOK
  <2> QED
    BY <1>1, <1>2, <2>1, WriterGoes DEF OpfPc, StandardPc, Discarding
<1>3. CASE UNCHANGED <<writes, counts, written>> /\ (Free("idle") \/ Free("paused"))
  BY <1>1, <1>3, NothingKeeps, WriterFrees
<1>4. CASE Owned(w) /\ Release(w, s) /\ Free("idle") /\ written' = written
  <2>1. s \in WriteStage /\ written[w] \in FileState
    BY <1>1 DEF WriteRow, TargetOK
  <2>2. written' = [written EXCEPT ![w] = written[w]]
    BY <1>4 DEF TargetsOK
  <2> QED
    BY <1>1, <1>4, <2>1, <2>2, ReleaseKeeps
<1>5. CASE PrepareOpf
  <2>1. CASE written' = [written EXCEPT ![w] = "prepared"] /\ Step("opfSave")
             /\ UNCHANGED <<writes, counts>>
    <3>1. TargetOK(w, writes[w], "prepared")
      BY <1>1 DEF TargetOK, FileState
    <3>2. TargetsOK' /\ IntentsOK' /\ CountsOK' /\ written'[w] = "prepared"
      BY <1>1, <2>1, <3>1, NoWriteKeeps DEF FileState
    <3>3. TurnOK("opfSave", u, writes'[w].stage, written'[w])
      BY <3>2 DEF TurnOK
    <3> QED
      BY <1>2, <2>1, <3>2, <3>3 DEF OpfPc
  <2> QED
    BY <1>3, <1>4, <1>5, <2>1 DEF PrepareOpf
<1>6. CASE MarkPrepared
  <2>1. CASE Owned(w) /\ Step("opfPublish") /\ UNCHANGED <<counts, written>>
             /\ writes' = [writes EXCEPT ![w].row = "PREPARED", ![w].lease = "live"]
    <3>1. s \in LiveStage
      BY <1>1, <2>1 DEF Owned, TargetOK
    <3>2. writes' = [writes EXCEPT ![w] =
                        [writes[w] EXCEPT !.row = "PREPARED", !.stage = s, !.lease = "live"]]
      BY <1>1, <2>1 DEF WriteRow
    <3>3. TargetsOK' /\ IntentsOK' /\ CountsOK'
      BY <1>1, <2>1, <3>1, <3>2, CheckpointKeeps
    <3>4. TurnOK("opfPublish", u, writes'[w].stage, written'[w])
      BY DEF TurnOK
    <3> QED
      BY <1>2, <2>1, <3>3, <3>4 DEF OpfPc
  <2> QED
    BY <1>3, <1>6, <2>1 DEF MarkPrepared
<1>7. CASE PublishOpf
  <2>1. CASE Owned(w) /\ writes[w].row = "PREPARED" /\ UNCHANGED <<writes, counts>>
             /\ written' = [written EXCEPT ![w] = "new"] /\ Step("opfDone")
    <3>1. TargetOK(w, writes[w], "new")
      BY <1>1, <2>1 DEF TargetOK, FileState
    <3>2. TargetsOK' /\ IntentsOK' /\ CountsOK'
      BY <1>1, <2>1, <3>1, NoWriteKeeps DEF FileState
    <3>3. TurnOK("opfDone", u, writes'[w].stage, written'[w])
      BY DEF TurnOK
    <3> QED
      BY <1>2, <2>1, <3>2, <3>3 DEF OpfPc
  <2> QED
    BY <1>3, <1>7, <2>1 DEF PublishOpf
<1>8. CASE CompleteOpf
  BY <1>3, <1>4, <1>8 DEF CompleteOpf
<1> QED
  BY <1>5, <1>6, <1>7, <1>8 DEF ServeOpf

\* Every checkpoint of a standard write, with its cancels and failures.
LEMMA StandardKeeps ==
    ASSUME WriteInv, ServeStandard
    PROVE  WriteInv'
<1> USE DEF WriteInv
<1> DEFINE w == writer.at
           u == writer.unsure
           s == writes[w].stage
<1>1. /\ w \in Write /\ w \in Standard /\ u \in BOOLEAN /\ writer.pc \in StandardPc
      /\ TargetOK(w, writes[w], written[w]) /\ writes[w] \in WriteRow
      /\ TurnOK(writer.pc, u, s, written[w]) /\ written[w] \in FileState /\ s \in WriteStage
      /\ intents' = intents /\ writeFaults' = writeFaults /\ writeFaults \in 0..MaxWriteFault
  <2>1. intents' = intents /\ writeFaults' = writeFaults /\ writer.pc \in StandardPc
    BY DEF ServeStandard, BeginStandard, PrepareStandard, SavePrepared, PublishStandard,
           SwapStandard, DiscardPrepared, CancelPrepared, JournalStandard, RecordStandard,
           FailStandard, At, StandardPc
  <2> QED
    BY <2>1, Parts DEF WriterOK, TargetsOK, TargetOK, CountsOK, WriteRow
<1>2. ASSUME NEW pc \in StandardPc, NEW v \in BOOLEAN,
             writer' = [writer EXCEPT !.pc = pc, !.unsure = v],
             pc \in Discarding => writes'[w].cancel,
             TurnOK(pc, v, writes'[w].stage, written'[w])
      PROVE  WriterOK'
  BY <1>1, <1>2, WriterGoes DEF OpfPc, StandardPc
<1>3. \A pc : Step(pc) => writer' = [writer EXCEPT !.pc = pc, !.unsure = u]
  BY DEF Step, WriterOK
<1>4. CASE UNCHANGED <<writes, counts, written>> /\ LosesRow(w)
  BY <1>1, <1>4, NothingKeeps, WriterFrees DEF LosesRow
<1>5. ASSUME NEW t \in WriteStage, NEW f \in FileState, Owned(w), Release(w, t), Free("idle"),
             Truthful(t, f), written' = [written EXCEPT ![w] = f]
      PROVE  WriteInv'
  BY <1>1, <1>5, ReleaseKeeps
<1>6. written = [written EXCEPT ![w] = written[w]]
  BY DEF TargetsOK
<1>7. Owned(w) => s \in LiveStage
  BY <1>1 DEF Owned, TargetOK
<1>8. ASSUME UNCHANGED <<writes, counts, written>>, NEW pc \in StandardPc, NEW v \in BOOLEAN,
             writer' = [writer EXCEPT !.pc = pc, !.unsure = v],
             pc \in Discarding => writes[w].cancel,
             TurnOK(pc, v, s, written[w])
      PROVE  WriteInv'
  BY <1>1, <1>2, <1>8, NothingKeeps
<1>9. ASSUME NEW row \in {"RUNNING", "PREPARED"}, NEW t \in LiveStage, Checkpoint(w, row, t),
             Owned(w), Truthful(t, written[w]), UNCHANGED <<counts, written>>
      PROVE  TargetsOK' /\ IntentsOK' /\ CountsOK' /\ writes'[w].stage = t
  BY <1>1, <1>9, CheckpointKeeps DEF Checkpoint
<1>10. CASE BeginStandard
  <2> DEFINE unsure == s # "QUEUED"
  <2>1. CASE /\ Owned(w) /\ Proof(w) /\ writer' = [writer EXCEPT !.pc = "publish", !.unsure = TRUE]
             /\ UNCHANGED <<writes, counts, written>>
    <3>1. TurnOK("publish", TRUE, s, written[w])
      BY <2>1 DEF TurnOK, Proof
    <3> QED
      BY <1>8, <2>1, <3>1 DEF StandardPc, Discarding
  <2>2. ASSUME NEW known \in BOOLEAN, UNCHANGED <<writes, counts, written>>,
               writer' = [writer EXCEPT !.pc = "failing", !.unsure = unsure \/ ~known]
        PROVE  WriteInv'
    <3> DEFINE v == unsure \/ ~known
    <3>1. v \in BOOLEAN /\ (~v => s = "QUEUED")
      OBVIOUS
    <3>2. TurnOK("failing", v, s, written[w])
      BY <1>1, <3>1 DEF TurnOK, TargetOK
    <3> HIDE DEF v
    <3> QED
      BY <1>8, <2>2, <3>1, <3>2 DEF StandardPc, Discarding, v
  <2>3. CASE /\ Owned(w) /\ ~unsure /\ Release(w, "CANCELLED") /\ Free("idle")
             /\ written' = written
    <3>1. Truthful("CANCELLED", written[w])
      BY <1>1, <2>3 DEF TargetOK, Truthful, Published
    <3> QED
      BY <1>1, <1>5, <1>6, <2>3, <3>1 DEF WriteStage
  <2>4. CASE /\ Owned(w) /\ ~Proof(w) /\ Checkpoint(w, "RUNNING", "PREPARING")
             /\ UNCHANGED <<counts, written>>
             /\ writer' = [writer EXCEPT !.pc = "prepare", !.unsure = unsure]
    <3>1. written[w] \in {"old", "prepared"} /\ (~unsure => written[w] = "old")
      BY <1>1, <1>7, <2>4 DEF TargetOK, Proof, LiveStage
    <3>2. Truthful("PREPARING", written[w])
      BY <3>1 DEF Truthful, Published
    <3>3. TargetsOK' /\ IntentsOK' /\ CountsOK' /\ writes'[w].stage = "PREPARING"
      BY <1>9, <2>4, <3>2 DEF LiveStage
    <3>4. TurnOK("prepare", unsure, writes'[w].stage, written'[w]) /\ unsure \in BOOLEAN
      BY <2>4, <3>1, <3>3 DEF TurnOK
    <3> QED
      BY <1>2, <2>4, <3>3, <3>4 DEF StandardPc, Discarding
  <2> QED
    BY <1>4, <1>10, <2>1, <2>2, <2>3, <2>4 DEF BeginStandard
<1>11. CASE PrepareStandard
  <2>1. CASE /\ written' = [written EXCEPT ![w] = "prepared"] /\ UNCHANGED <<writes, counts>>
             /\ writer' = [writer EXCEPT !.pc = "prepared", !.unsure = TRUE]
    <3>1. s = "PREPARING" /\ TargetOK(w, writes[w], "prepared")
      BY <1>1, <1>11 DEF PrepareStandard, At, TurnOK, TargetOK, FileState, Published
    <3>2. TargetsOK' /\ IntentsOK' /\ CountsOK' /\ written'[w] = "prepared"
          /\ writes'[w].stage = s
      BY <1>1, <2>1, <3>1, NoWriteKeeps DEF FileState
    <3>3. TurnOK("prepared", TRUE, writes'[w].stage, written'[w])
      BY <3>1, <3>2 DEF TurnOK
    <3> QED
      BY <1>2, <2>1, <3>2, <3>3 DEF StandardPc, Discarding
  <2>2. ASSUME NEW partial \in BOOLEAN, UNCHANGED <<writes, counts, written>>,
               writer' = [writer EXCEPT !.pc = "failing", !.unsure = u \/ partial]
        PROVE  WriteInv'
    <3>1. TurnOK("failing", u \/ partial, s, written[w])
      BY <1>1, <1>11 DEF PrepareStandard, At, TurnOK
    <3>2. (u \/ partial) \in BOOLEAN
      BY <1>1
    <3> QED
      BY <1>8, <2>2, <3>1, <3>2 DEF StandardPc, Discarding
  <2> QED
    BY <1>11, <2>1, <2>2 DEF PrepareStandard
<1>12. CASE SavePrepared
  <2>1. CASE /\ Owned(w) /\ Checkpoint(w, "PREPARED", "PREPARED") /\ Step("publish")
             /\ UNCHANGED <<counts, written>>
    <3>1. written[w] = "prepared" /\ u
      BY <1>1, <1>12 DEF SavePrepared, At, TurnOK
    <3>2. Truthful("PREPARED", written[w])
      BY <3>1 DEF Truthful, Published
    <3>3. TargetsOK' /\ IntentsOK' /\ CountsOK' /\ writes'[w].stage = "PREPARED"
      BY <1>9, <2>1, <3>2 DEF LiveStage
    <3>4. TurnOK("publish", u, writes'[w].stage, written'[w])
      BY <2>1, <3>1, <3>3 DEF TurnOK
    <3> QED
      BY <1>1, <1>2, <1>3, <2>1, <3>3, <3>4 DEF StandardPc, Discarding
  <2> QED
    BY <1>4, <1>12, <2>1 DEF SavePrepared
<1>13. CASE PublishStandard
  <2>1. u /\ s \in {"PREPARED", "FILES_PUBLISHED"} /\ UNCHANGED <<writes, counts, written>>
    BY <1>1, <1>13 DEF PublishStandard, At, TurnOK
  <2>2. ASSUME NEW pc \in {"journal", "failing", "swap", "discard"}, Step(pc),
               pc = "journal" => written[w] = "new",
               pc \in {"swap", "discard"} => written[w] # "new",
               pc = "discard" => writes[w].cancel
        PROVE  WriteInv'
    <3>1. TurnOK(pc, u, s, written[w])
      BY <1>1, <2>1, <2>2 DEF TurnOK, TargetOK, Published
    <3>2. pc \in StandardPc /\ (pc \in Discarding => writes[w].cancel)
      BY <2>2 DEF StandardPc, Discarding
    <3> QED
      BY <1>1, <1>3, <1>8, <2>1, <2>2, <3>1, <3>2
  <2> QED
    BY <1>13, <2>2 DEF PublishStandard
<1>14. ASSUME NEW f \in FileState, NEW pc \in StandardPc, Step(pc), u, s = "PREPARED",
              written' = [written EXCEPT ![w] = f], UNCHANGED <<writes, counts>>,
              f = "old" => writes[w].cancel, pc \in Discarding => writes[w].cancel,
              TurnOK(pc, u, s, f)
       PROVE  WriteInv'
  <2>1. TargetOK(w, writes[w], f)
    <3>1. writes[w].row # "none" \/ f # "new"
      BY <1>1, <1>14 DEF TargetOK
    <3> QED
      BY <1>1, <1>14, <3>1 DEF TargetOK, Published
  <2>2. TargetsOK' /\ IntentsOK' /\ CountsOK' /\ written'[w] = f /\ writes'[w].stage = s
    BY <1>1, <1>14, <2>1, NoWriteKeeps
  <2> QED
    BY <1>1, <1>2, <1>3, <1>14, <2>2
<1>15. CASE SwapStandard
  <2>1. u /\ s = "PREPARED"
    BY <1>1, <1>15 DEF SwapStandard, At, TurnOK
  <2>2. CASE Step("failing") /\ UNCHANGED <<writes, counts, written>>
    <3>1. TurnOK("failing", u, s, written[w])
      BY <2>1 DEF TurnOK
    <3> QED
      BY <1>1, <1>3, <1>8, <2>2, <3>1 DEF StandardPc, Discarding
  <2>3. ASSUME NEW f \in {"aside", "new"}, NEW pc \in {"swap", "journal", "failing"}, Step(pc),
               written' = [written EXCEPT ![w] = f], UNCHANGED <<writes, counts>>,
               pc = "journal" => f = "new"
        PROVE  WriteInv'
    <3>1. TurnOK(pc, u, s, f) /\ pc \in StandardPc /\ pc \notin Discarding /\ f \in FileState
      BY <2>1, <2>3 DEF TurnOK, StandardPc, Discarding, FileState
    <3> QED
      BY <1>14, <2>1, <2>3, <3>1
  <2> QED
    BY <1>15, <2>2, <2>3 DEF SwapStandard
<1>16. CASE DiscardPrepared
  <2>1. u /\ s = "PREPARED" /\ writes[w].cancel
    BY <1>1, <1>16 DEF DiscardPrepared, At, TurnOK, WriterOK, Discarding
  <2>2. CASE Step("failing") /\ UNCHANGED <<writes, counts, written>>
    <3>1. TurnOK("failing", u, s, written[w])
      BY <2>1 DEF TurnOK
    <3> QED
      BY <1>1, <1>3, <1>8, <2>2, <3>1 DEF StandardPc, Discarding
  <2>3. ASSUME NEW f \in {"prepared", "old"}, NEW pc \in {"discard", "discarded", "failing"},
               Step(pc), written' = [written EXCEPT ![w] = f], UNCHANGED <<writes, counts>>,
               pc = "discarded" => f = "old"
        PROVE  WriteInv'
    <3>1. TurnOK(pc, u, s, f) /\ pc \in StandardPc /\ f \in FileState
      BY <2>1, <2>3 DEF TurnOK, StandardPc, FileState
    <3> QED
      BY <1>14, <2>1, <2>3, <3>1
  <2> QED
    BY <1>16, <2>2, <2>3 DEF DiscardPrepared
<1>17. CASE CancelPrepared
  <2>1. CASE Owned(w) /\ Release(w, "CANCELLED") /\ Free("idle") /\ written' = written
    <3>1. written[w] = "old"
      BY <1>1, <1>17 DEF CancelPrepared, At, TurnOK
    <3>2. Truthful("CANCELLED", written[w])
      BY <3>1 DEF Truthful, Published
    <3> QED
      BY <1>1, <1>5, <1>6, <2>1, <3>2 DEF WriteStage
  <2> QED
    BY <1>4, <1>17, <2>1 DEF CancelPrepared
<1>18. CASE JournalStandard
  <2>1. CASE /\ Owned(w) /\ Checkpoint(w, "PREPARED", "FILES_PUBLISHED") /\ Step("record")
             /\ UNCHANGED <<counts, written>>
    <3>1. written[w] = "new" /\ u
      BY <1>1, <1>18 DEF JournalStandard, At, TurnOK
    <3>2. Truthful("FILES_PUBLISHED", written[w])
      BY <3>1 DEF Truthful, Published
    <3>3. TargetsOK' /\ IntentsOK' /\ CountsOK' /\ writes'[w].stage = "FILES_PUBLISHED"
      BY <1>9, <2>1, <3>2 DEF LiveStage
    <3>4. TurnOK("record", u, writes'[w].stage, written'[w])
      BY <2>1, <3>1, <3>3 DEF TurnOK
    <3> QED
      BY <1>1, <1>2, <1>3, <2>1, <3>3, <3>4 DEF StandardPc, Discarding
  <2> QED
    BY <1>4, <1>18, <2>1 DEF JournalStandard
<1>19. CASE RecordStandard
  <2>1. written[w] = "new" /\ u
    BY <1>1, <1>19 DEF RecordStandard, At, TurnOK
  <2>2. CASE Owned(w) /\ Release(w, "COMPLETED") /\ Free("idle") /\ written' = written
    <3>1. Truthful("COMPLETED", written[w])
      BY <2>1 DEF Truthful, Published
    <3> QED
      BY <1>1, <1>5, <1>6, <2>2, <3>1 DEF WriteStage, Published
  <2>3. CASE Step("failing") /\ UNCHANGED <<writes, counts, written>>
    <3>1. TurnOK("failing", u, s, written[w])
      BY <2>1 DEF TurnOK
    <3> QED
      BY <1>1, <1>3, <1>8, <2>3, <3>1 DEF StandardPc, Discarding
  <2> QED
    BY <1>4, <1>19, <2>2, <2>3 DEF RecordStandard
<1>20. CASE FailStandard
  <2>1. CASE Owned(w) /\ ~u /\ Release(w, "FAILED") /\ Free("idle") /\ written' = written
    <3>1. written[w] = "old"
      BY <1>1, <1>20, <2>1 DEF FailStandard, At, TurnOK
    <3>2. Truthful("FAILED", written[w])
      BY <3>1 DEF Truthful, Published
    <3> QED
      BY <1>1, <1>5, <1>6, <2>1, <3>2 DEF WriteStage
  <2>2. CASE /\ Owned(w) /\ UNCHANGED <<counts, written>> /\ Free("idle")
             /\ writes' = [writes EXCEPT ![w] = [writes[w] EXCEPT !.row = "REVIEW",
                              !.lease = "none", !.own = FALSE, !.stage = "RECOVERY_REQUIRED"]]
    <3> DEFINE r == [writes[w] EXCEPT !.row = "REVIEW", !.lease = "none", !.own = FALSE,
                                      !.stage = "RECOVERY_REQUIRED"]
    <3>1. TargetOK(w, r, written[w]) /\ r.row = "REVIEW"
      BY <1>1 DEF TargetOK, WriteRow, Leases, WriteStage, Published
    <3>2. OnlyWrite(w, r, written[w])
      BY <1>1, <2>2, <3>1 DEF OnlyWrite, TargetsOK, TargetOK
    <3>3. Exists(r) /\ Exists(writes[w]) /\ writes[w].row # "none"
      BY <2>2, <3>1 DEF Owned, Exists
    <3>4. Asked' = Asked
      BY <1>1 DEF Asked, Exists
    <3> HIDE DEF r
    <3>5. Queued' = Queued
      BY <1>1, <3>2, <3>3, QueueKept
    <3> QED
      BY <1>1, <2>2, <3>1, <3>2, <3>3, <3>4, <3>5, OneWrite, SameIntents, SameQueue, WriterFrees
         DEF CountsOK
  <2> QED
    BY <1>4, <1>20, <2>1, <2>2 DEF FailStandard
<1> QED
  BY <1>10, <1>11, <1>12, <1>13, <1>15, <1>16, <1>17, <1>18,
     <1>19, <1>20 DEF ServeStandard

\* A claim takes a due target that nobody holds.
LEMMA ClaimWriteKeeps ==
    ASSUME WriteInv, NEW w \in Write, NEW blocked, NEW importing, ClaimWrite(w, blocked, importing)
    PROVE  WriteInv'
<1> USE DEF WriteInv
<1> DEFINE row == IF writes[w].row = "PENDING" THEN "RUNNING" ELSE writes[w].row
           r == [writes[w] EXCEPT !.row = row, !.lease = "live", !.own = TRUE]
           pc == IF w \in Standard THEN "begin"
                 ELSE IF writes[w].row = "PREPARED" THEN "opfPublish" ELSE "opf"
<1>1. /\ writes' = [writes EXCEPT ![w] = r] /\ UNCHANGED <<intents, counts, written, writeFaults>>
      /\ writer' = [pc |-> pc, at |-> w, unsure |-> FALSE]
      /\ writes[w].row \in {"PENDING", "RUNNING", "PREPARED"}
      /\ TargetOK(w, writes[w], written[w]) /\ writes[w] \in WriteRow
  <2>1. writes' = [writes EXCEPT ![w] = r] /\ UNCHANGED <<intents, counts, written, writeFaults>>
    BY DEF ClaimWrite
  <2>2. writer' = [pc |-> pc, at |-> w, unsure |-> FALSE]
    BY DEF ClaimWrite
  <2>3. writes[w].row \in {"PENDING", "RUNNING", "PREPARED"}
    BY DEF ClaimWrite, WriteClaimable, Due
  <2> QED
    BY <2>1, <2>2, <2>3 DEF TargetsOK, TargetOK
<1>2. row \in {"RUNNING", "PREPARED"} /\ (row = "RUNNING" <=> writes[w].row # "PREPARED")
  BY <1>1
<1>3. TargetOK(w, r, written[w]) /\ Exists(r) /\ Exists(writes[w]) /\ writes[w].row # "none"
      /\ r.stage = writes[w].stage
  <2> HIDE DEF row
  <2>1. r.row = row /\ r.lease = "live" /\ r.own = TRUE /\ r.stage = writes[w].stage
        /\ r.cancel = writes[w].cancel /\ r \in WriteRow
    BY <1>1, <1>2 DEF WriteRow, Leases
  <2> HIDE DEF r
  <2> QED
    BY <1>1, <1>2, <2>1 DEF TargetOK, Exists
<1> HIDE DEF r
<1>4. OnlyWrite(w, r, written[w])
  BY <1>1, <1>3 DEF OnlyWrite, TargetsOK, TargetOK
<1>5. Queued' = Queued /\ Asked' = Asked
  BY <1>1, <1>3, <1>4, QueueKept DEF Asked, Exists
<1>6. TargetsOK' /\ IntentsOK' /\ CountsOK'
  BY <1>1, <1>3, <1>4, <1>5, OneWrite, SameIntents, SameQueue DEF CountsOK
<1>7. pc \in {"begin", "opfPublish", "opf"} /\ (w \in Standard <=> pc = "begin")
      /\ (pc = "opf" => written[w] # "new")
  BY <1>1 DEF TargetOK
<1> HIDE DEF pc
<1>8. TurnOK(pc, FALSE, writes'[w].stage, written'[w])
  BY <1>1, <1>7 DEF TurnOK
<1>9. WriterOK'
  BY <1>1, <1>7, <1>8 DEF WriterOK, WriterPc, OpfPc, StandardPc, Discarding
<1> QED
  BY <1>6, <1>9

----------------------------------------------------------------------------
(* Intents, restarts and faults *)

\* Steps of intents leave the targets alone.
LEMMA SameTargets ==
    ASSUME TargetsOK, UNCHANGED <<writes, written>>
    PROVE  TargetsOK' /\ Queued' = Queued
BY DEF TargetsOK, Queued

\* An intent is queued, claimed, or loses its lease.
LEMMA IntentsKeep ==
    ASSUME WriteInv, NEW i \in Intent, EnqueueIntent(i) \/ IntentLapses(i) \/ ClaimIntent(i)
    PROVE  WriteInv'
<1> USE DEF WriteInv
<1>1. UNCHANGED <<writes, written, writeFaults>> /\ intents[i] \in IntentRow
      /\ TargetsOK' /\ Queued' = Queued
  BY SameTargets DEF EnqueueIntent, IntentLapses, ClaimIntent, IntentsOK
<1>2. CASE EnqueueIntent(i)
  <2> DEFINE r == [intents[i] EXCEPT !.row = "PENDING"]
  <2>1. /\ intents' = [intents EXCEPT ![i] = r] /\ intents[i].row = "none"
        /\ r \in IntentRow /\ r.row = "PENDING"
    BY <1>1, <1>2 DEF EnqueueIntent, IntentRow
  <2>2. Asked' = Asked \cup {i} /\ IntentsOK'
    BY <1>1, <2>1 DEF Asked, Exists, IntentsOK
  <2>3. IsFiniteSet(Asked') /\ Cardinality(Asked') <= Cardinality(Asked) + 1
        /\ Cardinality(Asked) \in Nat
    <3>1. IsFiniteSet(Asked)
      BY DEF CountsOK
    <3>2. Cardinality(Asked \cup {i}) = IF i \in Asked THEN Cardinality(Asked)
                                        ELSE Cardinality(Asked) + 1
      BY <3>1, FS_AddElement
    <3> HIDE DEF Asked
    <3> QED
      BY <2>2, <3>1, <3>2, FS_AddElement, FS_CardinalityType
  <2>4. counts' = [targets |-> counts.targets, intents |-> counts.intents + 1] /\ writer' = writer
    BY <1>2 DEF EnqueueIntent, CountsOK
  <2>5. CountsOK'
    <3>1. Cardinality(Asked') \in Nat
      BY <2>3, FS_CardinalityType
    <3> QED
      BY <1>1, <2>3, <2>4, <3>1 DEF CountsOK
  <2> QED
    BY <1>1, <2>2, <2>4, <2>5, WriterStays
<1>3. CASE IntentLapses(i)
  <2> DEFINE r == [intents[i] EXCEPT !.lease = "lapsed"]
  <2>1. /\ intents' = [intents EXCEPT ![i] = r] /\ r \in IntentRow /\ r.row = intents[i].row
        /\ writer' = writer /\ counts' = counts
    BY <1>1, <1>3 DEF IntentLapses, IntentRow, Leases
  <2>2. Asked' = Asked /\ IntentsOK'
    BY <1>1, <2>1 DEF Asked, Exists, IntentsOK
  <2> QED
    BY <1>1, <2>1, <2>2, SameQueue, WriterStays DEF CountsOK
<1>4. CASE ClaimIntent(i)
  <2> DEFINE r == [row |-> "RUNNING", lease |-> "live", own |-> TRUE]
  <2>1. /\ intents' = [intents EXCEPT ![i] = r] /\ r \in IntentRow
        /\ intents[i].row \in {"PENDING", "RUNNING"} /\ counts' = counts
        /\ writer' = [writer EXCEPT !.pc = "expand", !.at = i]
    BY <1>1, <1>4 DEF ClaimIntent, IntentRow, Leases
  <2>2. Asked' = Asked /\ IntentsOK'
    BY <1>1, <2>1 DEF Asked, Exists, IntentsOK
  <2>3. WriterOK'
    BY <2>1 DEF WriterOK, WriterPc, OpfPc, StandardPc, Discarding
  <2> QED
    BY <1>1, <2>1, <2>2, <2>3, SameQueue DEF CountsOK
<1> QED
  BY <1>2, <1>3, <1>4

\* Sets of rows that leave or join the queue at once
LEMMA Leaves ==
    ASSUME NEW S, NEW T, IsFiniteSet(S)
    PROVE  /\ IsFiniteSet(S \ T) /\ IsFiniteSet(T \cap S)
           /\ Cardinality(S \ T) = Cardinality(S) - Cardinality(T \cap S)
           /\ Cardinality(S) \in Nat /\ Cardinality(T \cap S) \in Nat
<1>1. T \cap S = S \cap T
  OBVIOUS
<1> QED
  BY <1>1, FS_Difference, FS_Intersection, FS_CardinalityType

\* Counting two disjoint finite sets.
LEMMA Joins ==
    ASSUME NEW S, NEW T, IsFiniteSet(S), IsFiniteSet(T), S \cap T = {}
    PROVE  /\ IsFiniteSet(S \cup T) /\ Cardinality(S \cup T) = Cardinality(S) + Cardinality(T)
           /\ Cardinality(S) \in Nat /\ Cardinality(T) \in Nat
BY FS_Union, FS_EmptySet, FS_CardinalityType

\* A move discards what is queued for the Book it relocates.
LEMMA DiscardKeeps ==
    ASSUME WriteInv, NEW i \in Intent, DiscardRelocated(i)
    PROVE  WriteInv'
<1> USE DEF WriteInv
<1> DEFINE gone == [NoWrite EXCEPT !.row = "gone"]
           T == Expansion[i] \cap Queued
<1>1. /\ writes' = [w \in Write |-> IF w \in T THEN gone ELSE writes[w]]
      /\ intents' = [intents EXCEPT ![i] = [NoIntent EXCEPT !.row = "gone"]]
      /\ UNCHANGED <<written, writer, writeFaults>>
      /\ counts' = [counts EXCEPT !.targets = LET left == @ - Cardinality(T) IN
                                               IF left < 0 THEN 0 ELSE left]
  BY DEF DiscardRelocated
<1>2. gone.row = "gone" /\ gone \in WriteRow /\ gone.lease = "none" /\ gone.own = FALSE
  BY DEF NoWrite, WriteRow, Leases, WriteStage
<1> HIDE DEF gone
<1>3. T \subseteq Write /\ T \cap Standard = {} /\ T \subseteq Expansion[i]
  BY Parts
<1>4. TargetsOK'
  <2>1. ASSUME NEW w \in Write
        PROVE  TargetOK(w, writes'[w], written'[w])
    <3>1. TargetOK(w, gone, written[w]) \/ w \notin T
      BY <1>2, <1>3 DEF TargetsOK, TargetOK
    <3> QED
      BY <1>1, <3>1 DEF TargetsOK
  <2>2. writes' \in [Write -> WriteRow]
    BY <1>1, <1>2 DEF TargetsOK
  <2> QED
    BY <1>1, <2>1, <2>2 DEF TargetsOK
<1>5. WriterOK'
  BY <1>1, <1>3, WriterStays
<1>6. IntentsOK'
  <2>1. /\ [NoIntent EXCEPT !.row = "gone"] \in IntentRow
        /\ [NoIntent EXCEPT !.row = "gone"].row = "gone"
    BY DEF NoIntent, IntentRow, Leases
  <2>2. intents' \in [Intent -> IntentRow] /\ intents'[i].row = "gone"
    BY <1>1, <2>1 DEF IntentsOK
  <2>3. ASSUME NEW j \in Intent, intents'[j].row # "gone", NEW w \in Expansion[j]
        PROVE  writes'[w].row = "none"
    <3>1. j # i /\ intents'[j] = intents[j]
      BY <1>1, <2>2, <2>3 DEF IntentsOK
    <3>2. w \in Write /\ w \notin T
      BY <1>3, <2>3, <3>1, Parts, WriteAssumption
    <3> QED
      BY <1>1, <2>3, <3>1, <3>2 DEF IntentsOK
  <2> QED
    BY <2>2, <2>3 DEF IntentsOK
<1>7. Queued' = Queued \ T /\ Asked' \subseteq Asked
  <2>1. ~Exists(gone)
    BY <1>2 DEF Exists
  <2>2. Queued' = Queued \ T
    BY <1>1, <2>1 DEF Queued, Exists
  <2>3. ~Exists(intents'[i])
    BY <1>1, <1>6 DEF Exists, IntentsOK, NoIntent
  <2>4. Asked' \subseteq Asked
    BY <1>1, <2>3 DEF Asked, Exists, IntentsOK
  <2> QED
    BY <2>2, <2>4
<1>8. CountsOK'
  <2>1. /\ IsFiniteSet(Queued') /\ Cardinality(Queued') = Cardinality(Queued) - Cardinality(T)
        /\ Cardinality(Queued) \in Nat /\ Cardinality(T) \in Nat /\ Cardinality(Queued') \in Nat
    <3>1. Queued \ T = Queued \ Expansion[i] /\ Queued \cap Expansion[i] = T
      OBVIOUS
    <3>2. IsFiniteSet(Queued)
      BY DEF CountsOK
    <3>3. /\ IsFiniteSet(Queued \ Expansion[i])
          /\ Cardinality(Queued \ Expansion[i]) = Cardinality(Queued) - Cardinality(T)
          /\ Cardinality(Queued) \in Nat /\ Cardinality(T) \in Nat
      BY <3>2, Leaves
    <3> QED
      BY <1>7, <3>1, <3>3, FS_CardinalityType
  <2>2. IsFiniteSet(Asked') /\ Cardinality(Asked') <= Cardinality(Asked)
        /\ Cardinality(Asked) \in Nat /\ Cardinality(Asked') \in Nat
    BY <1>7, FS_Subset, FS_CardinalityType DEF CountsOK
  <2>3. counts.targets \in Nat /\ counts.intents \in Nat /\ counts.targets <= TargetCapacity
        /\ Cardinality(Queued) <= counts.targets /\ Cardinality(Asked) <= counts.intents
    BY DEF CountsOK
  <2> DEFINE left == counts.targets - Cardinality(T)
  <2>4. counts' = [targets |-> IF left < 0 THEN 0 ELSE left, intents |-> counts.intents]
    BY <1>1 DEF CountsOK
  <2>5. left \in Nat /\ Cardinality(Queued') <= left /\ left <= TargetCapacity
    BY <2>1, <2>3, Parts
  <2>6. counts' = [targets |-> left, intents |-> counts.intents]
    BY <2>4, <2>5
  <2> HIDE DEF left
  <2> QED
    BY <1>1, <2>1, <2>2, <2>3, <2>5, <2>6 DEF CountsOK
<1> QED
  BY <1>4, <1>5, <1>6, <1>8

\* An intent is replaced by its sidecar targets, if there is room.
LEMMA FinalizeKeeps ==
    ASSUME WriteInv, FinalizeIntent
    PROVE  WriteInv'
<1> USE DEF WriteInv
<1> DEFINE i == writer.at
<1>1. /\ i \in Intent /\ intents[i] \in IntentRow /\ Free("idle")
      /\ UNCHANGED <<written, writeFaults>> /\ writeFaults \in 0..MaxWriteFault
  BY DEF FinalizeIntent, At, WriterOK, IntentsOK, CountsOK
<1>2. WriterOK'
  BY <1>1, WriterFrees
<1>3. CASE UNCHANGED <<intents, writes, counts>>
  BY <1>1, <1>2, <1>3, NothingKeeps
<1>4. CASE /\ Holds(i) /\ intents' = [intents EXCEPT ![i] = [NoIntent EXCEPT !.row = "PENDING"]]
           /\ UNCHANGED <<writes, counts>>
  <2>1. [NoIntent EXCEPT !.row = "PENDING"] \in IntentRow
        /\ [NoIntent EXCEPT !.row = "PENDING"].row = "PENDING"
    BY DEF NoIntent, IntentRow, Leases
  <2>2. intents[i].row = "RUNNING"
    BY <1>4 DEF Holds
  <2>3. IntentsOK' /\ Asked' = Asked
    BY <1>1, <1>4, <2>1, <2>2 DEF IntentsOK, Asked, Exists
  <2> QED
    BY <1>1, <1>2, <1>4, <2>3, SameTargets, SameQueue
<1>5. ASSUME NEW found \in SUBSET Expansion[i], Holds(i),
             Cardinality(found) = 0 \/ ~(counts.targets > TargetCapacity - Cardinality(found)),
             intents' = [intents EXCEPT ![i] = [NoIntent EXCEPT !.row = "gone"]],
             counts' = [targets |-> counts.targets + Cardinality(found),
                        intents |-> OneLess(counts.intents)],
             writes' = [w \in Write |-> IF w \in found THEN [NoWrite EXCEPT !.row = "PENDING"]
                                       ELSE writes[w]]
      PROVE  WriteInv'
  <2> DEFINE new == [NoWrite EXCEPT !.row = "PENDING"]
  <2>1. /\ new \in WriteRow /\ new.row = "PENDING" /\ new.lease = "none" /\ new.own = FALSE
        /\ new.stage = "QUEUED"
    BY DEF NoWrite, WriteRow, Leases, WriteStage
  <2> HIDE DEF new
  <2>2. /\ found \subseteq Write /\ found \cap Standard = {} /\ intents[i].row = "RUNNING"
        /\ \A w \in found : writes[w].row = "none"
    BY <1>1, <1>5, Parts DEF IntentsOK, Holds
  <2>3. TargetsOK'
    <3>1. ASSUME NEW w \in Write
          PROVE  TargetOK(w, writes'[w], written'[w])
      <4>1. TargetOK(w, writes[w], written[w]) /\ written' = written
        BY <1>1 DEF TargetsOK
      <4>2. CASE w \in found
        <5>1. writes'[w] = new
          BY <1>5, <4>2 DEF new
        <5>2. TargetOK(w, new, written[w])
          BY <2>1, <2>2, <4>1, <4>2 DEF TargetOK, LiveStage
        <5> QED
          BY <4>1, <5>1, <5>2
      <4>3. CASE w \notin found
        BY <1>5, <4>1, <4>3
      <4> QED
        BY <4>2, <4>3
    <3>2. writes' \in [Write -> WriteRow]
      BY <1>5, <2>1 DEF TargetsOK, new
    <3> QED
      BY <1>1, <3>1, <3>2 DEF TargetsOK
  <2>4. IntentsOK' /\ Asked' = Asked \ {i} /\ i \in Asked
    <3>1. [NoIntent EXCEPT !.row = "gone"] \in IntentRow
          /\ [NoIntent EXCEPT !.row = "gone"].row = "gone"
      BY DEF NoIntent, IntentRow, Leases
    <3>2. /\ intents' \in [Intent -> IntentRow] /\ intents'[i].row = "gone"
          /\ \A j \in Intent : j # i => intents'[j] = intents[j]
      BY <1>1, <1>5, <3>1 DEF IntentsOK
    <3>3. ASSUME NEW j \in Intent, intents'[j].row # "gone", NEW w \in Expansion[j]
          PROVE  writes'[w].row = "none"
      <4>1. j # i
        BY <3>2, <3>3
      <4>2. w \in Write /\ w \notin found
        BY <1>1, <1>5, <3>3, <4>1, Parts, WriteAssumption
      <4> QED
        BY <1>5, <3>2, <3>3, <4>1, <4>2 DEF IntentsOK
    <3>4. Asked' = Asked \ {i} /\ i \in Asked
      <4>1. \A j \in Intent : Exists(intents'[j]) <=> Exists(intents[j]) /\ j # i
        BY <3>2 DEF Exists
      <4>2. Asked' = {j \in Intent : Exists(intents'[j])}
        BY DEF Asked, Exists
      <4>3. i \in Asked
        BY <1>1, <2>2 DEF Asked, Exists
      <4> QED
        BY <4>1, <4>2, <4>3 DEF Asked
    <3> QED
      BY <3>2, <3>3, <3>4 DEF IntentsOK
  <2>5. Queued' = Queued \cup found /\ Queued \cap found = {}
    BY <1>5, <2>1, <2>2 DEF Queued, Exists, new
  <2>6. CountsOK'
    <3>1. IsFiniteSet(Queued) /\ IsFiniteSet(Asked) /\ IsFiniteSet(found)
      BY <1>1, <1>5, WriteAssumption, FS_Subset DEF CountsOK
    <3>2. /\ IsFiniteSet(Queued') /\ Cardinality(Queued') = Cardinality(Queued) + Cardinality(found)
          /\ Cardinality(Queued) \in Nat /\ Cardinality(found) \in Nat
      BY <2>5, <3>1, Joins
    <3>3. /\ IsFiniteSet(Asked') /\ Cardinality(Asked') = Cardinality(Asked) - 1
          /\ Cardinality(Asked) \in Nat /\ Cardinality(Asked') \in Nat
      BY <2>4, <3>1, FS_RemoveElement, FS_CardinalityType
    <3> DEFINE n == Cardinality(found)
    <3>4. counts.targets + n \in Nat /\ counts.targets + n <= TargetCapacity
          /\ Cardinality(Queued') <= counts.targets + n
      BY <1>5, <3>2, Parts DEF CountsOK
    <3>5. OneLess(counts.intents) = counts.intents - 1 /\ OneLess(counts.intents) \in Nat
          /\ Cardinality(Asked') <= OneLess(counts.intents)
      BY <3>3 DEF CountsOK, OneLess
    <3>6. counts'.targets = counts.targets + n /\ counts'.intents = OneLess(counts.intents)
          /\ counts' \in [targets : Nat, intents : Nat]
      BY <1>5, <3>4, <3>5
    <3> HIDE DEF n
    <3> QED
      BY <1>1, <3>2, <3>3, <3>4, <3>5, <3>6 DEF CountsOK
  <2> QED
    BY <1>2, <2>3, <2>4, <2>6
<1> QED
  BY <1>3, <1>4, <1>5 DEF FinalizeIntent

\* A dead worker owns nothing; its rows stay as they are.
LEMMA DisownKeeps ==
    ASSUME WriteInv, CrashWriter \/ RestartWriter
    PROVE  WriteInv'
<1> USE DEF WriteInv
<1>1. /\ intents' = [i \in Intent |-> [intents[i] EXCEPT !.own = FALSE]]
      /\ writes' = [w \in Write |-> [writes[w] EXCEPT !.own = FALSE]]
      /\ UNCHANGED <<counts, written>> /\ (Free("down") \/ Free("recovering"))
      /\ writeFaults' \in 0..MaxWriteFault
  BY Parts DEF CrashWriter, RestartWriter, CountsOK
<1>2. ASSUME NEW w \in Write
      PROVE  /\ TargetOK(w, writes'[w], written[w]) /\ writes'[w].row = writes[w].row
             /\ writes'[w] \in WriteRow
  <2>1. TargetOK(w, writes[w], written[w]) /\ writes'[w] = [writes[w] EXCEPT !.own = FALSE]
    BY <1>1 DEF TargetsOK
  <2> QED
    BY <2>1 DEF TargetOK, WriteRow
<1>3. ASSUME NEW i \in Intent
      PROVE  intents'[i] \in IntentRow /\ intents'[i].row = intents[i].row
  BY <1>1 DEF IntentsOK, IntentRow
<1>4. TargetsOK'
  BY <1>1, <1>2 DEF TargetsOK
<1>5. IntentsOK'
  BY <1>1, <1>2, <1>3, Parts DEF IntentsOK
<1>6. Queued' = Queued /\ Asked' = Asked
  BY <1>2, <1>3 DEF Queued, Asked, Exists
<1> QED
  BY <1>1, <1>4, <1>5, <1>6, SameQueue, WriterFrees

\* Recovery releases the lapsed leases and counts the rows again.
LEMMA RecoverKeeps ==
    ASSUME WriteInv, RecoverWrites
    PROVE  WriteInv'
<1> USE DEF WriteInv
<1>1. /\ counts' = [targets |-> Cardinality(Queued), intents |-> Cardinality(Asked)]
      /\ Free("idle") /\ UNCHANGED <<intents, written, writeFaults>>
  BY DEF RecoverWrites, Asked
<1>2. ASSUME NEW w \in Write
      PROVE  /\ TargetOK(w, writes'[w], written[w]) /\ writes'[w] \in WriteRow
             /\ writes'[w].row = "none" <=> writes[w].row = "none"
             /\ Exists(writes'[w]) <=> Exists(writes[w])
  <2>1. TargetOK(w, writes[w], written[w])
    BY DEF TargetsOK
  <2>2. CASE writes[w].row = "RUNNING" /\ writes[w].lease = "lapsed"
    <3>1. writes'[w] = [writes[w] EXCEPT !.row = "PENDING", !.lease = "none", !.own = FALSE]
      BY <2>2 DEF RecoverWrites
    <3> QED
      BY <2>1, <2>2, <3>1 DEF TargetOK, WriteRow, Leases, Exists
  <2>3. CASE ~(writes[w].row = "RUNNING" /\ writes[w].lease = "lapsed")
    <3>1. writes'[w] = writes[w]
      BY <2>3 DEF RecoverWrites
    <3> QED
      BY <2>1, <3>1 DEF TargetOK
  <2> QED
    BY <2>2, <2>3
<1>3. TargetsOK'
  BY <1>1, <1>2 DEF TargetsOK, RecoverWrites
<1>4. IntentsOK'
  BY <1>1, <1>2, Parts DEF IntentsOK
<1>5. Queued' = Queued /\ Asked' = Asked
  BY <1>1, <1>2 DEF Queued, Asked, Exists
<1>6. IsFiniteSet(Queued) /\ IsFiniteSet(Asked) /\ Cardinality(Queued) \in Nat
      /\ Cardinality(Asked) \in Nat
  BY FS_CardinalityType DEF CountsOK
<1>7. CountsOK'
  <2> HIDE DEF Queued, Asked
  <2> QED
    BY <1>1, <1>5, <1>6, Parts DEF CountsOK
<1> QED
  BY <1>1, <1>3, <1>4, <1>7, WriterFrees

\* Crashes, restarts and failed commits.
LEMMA FailsKeep ==
    ASSUME WriteInv, WriteFails
    PROVE  WriteInv'
<1> USE DEF WriteInv
<1>1. UNCHANGED <<intents, writes, counts, written>> /\ writeFaults' \in 0..MaxWriteFault
  BY Parts DEF WriteFails, CountsOK
<1>2. CASE Free("paused")
  BY <1>1, <1>2, NothingKeeps, WriterFrees
<1>3. CASE writer.pc \in {"prepared", "discarded", "journal"} /\ Step("failing")
  <2>1. writer' = [writer EXCEPT !.pc = "failing", !.unsure = writer.unsure]
        /\ writer.at \in Standard /\ writer.unsure \in BOOLEAN
    BY <1>3 DEF Step, WriterOK, StandardPc
  <2>2. writer.unsure
    BY <1>3 DEF WriterOK, TurnOK, StandardPc
  <2>3. TurnOK("failing", writer.unsure, writes'[writer.at].stage, written'[writer.at])
    BY <2>2 DEF TurnOK
  <2>4. WriterOK'
    BY <2>1, <2>3, WriterGoes DEF OpfPc, StandardPc, Discarding
  <2> QED
    BY <1>1, <2>4, NothingKeeps
<1> QED
  BY <1>2, <1>3 DEF WriteFails

----------------------------------------------------------------------------
(* The theorems *)

\* Nothing is queued in the beginning.
LEMMA WriteInitially == WritesInit => WriteInv
<1> SUFFICES ASSUME WritesInit PROVE WriteInv
  OBVIOUS
<1>1. TargetsOK
  <2>1. NoWrite \in WriteRow /\ NoWrite.row = "none" /\ NoWrite.lease = "none"
        /\ NoWrite.own = FALSE /\ NoWrite.stage = "QUEUED"
    BY DEF NoWrite, WriteRow, Leases, WriteStage
  <2>2. \A w \in Write : TargetOK(w, NoWrite, "old")
    BY <2>1 DEF TargetOK, FileState, LiveStage, Published
  <2> QED
    BY <2>1, <2>2 DEF WritesInit, TargetsOK, FileState
<1>2. IntentsOK
  BY Parts DEF WritesInit, IntentsOK, NoIntent, NoWrite, IntentRow, Leases
<1>3. WriterOK
  BY DEF WritesInit, WriterOK, WriterPc, OpfPc, StandardPc, Discarding
<1>4. Queued = {} /\ Asked = {}
  BY DEF WritesInit, Queued, Asked, Exists, NoWrite, NoIntent
<1>5. CountsOK
  BY <1>4, FS_EmptySet, Parts DEF WritesInit, CountsOK
<1> QED
  BY <1>1, <1>2, <1>3, <1>5 DEF WriteInv

\* Every step keeps the invariant.
LEMMA WriteStep ==
    ASSUME WriteInv, [WritesNext]_writeVars
    PROVE  WriteInv'
<1>1. CASE UNCHANGED writeVars
  <2>1. writeFaults' \in 0..MaxWriteFault /\ UNCHANGED <<intents, writes, counts, written, writer>>
    BY <1>1 DEF writeVars, WriteInv, CountsOK
  <2> QED
    BY <2>1, NothingKeeps, WriterStays DEF WriteInv
<1>2. CASE WriteRequests \/ LeasesLapse
  BY <1>2, RequestsKeep, IntentsKeep DEF WriteRequests, LeasesLapse
<1>3. CASE ServeIntents \/ \E i \in Intent : DiscardRelocated(i)
  BY <1>3, IntentsKeep, FinalizeKeeps, DiscardKeeps DEF ServeIntents
<1>4. CASE ServeOpf \/ ServeStandard
  BY <1>4, OpfKeeps, StandardKeeps
<1>5. CASE WriteStops \/ RestartWriter \/ RecoverWrites
  BY <1>5, FailsKeep, DisownKeeps, RecoverKeeps, RequestsKeep DEF WriteStops
<1>6. CASE \E w \in Write, blocked, importing \in SUBSET ServedLibraries :
              ClaimWrite(w, blocked, importing)
  BY <1>6, ClaimWriteKeeps
<1> QED
  BY <1>1, <1>2, <1>3, <1>4, <1>5, <1>6 DEF WritesNext

\* The inductive invariant of writebacks holds throughout.
THEOREM WritesInductive == WritesSpec => []WriteInv
<1>1. WriteInv /\ [WritesNext]_writeVars => WriteInv'
  BY WriteStep
<1> QED
  BY <1>1, WriteInitially, PTL DEF WritesSpec

\* What a standard write says of its file is true.
THEOREM WritesTellTheTruth == WritesSpec => []WriteOutcomeIsTrue
<1>1. WriteInv => WriteOutcomeIsTrue
  BY Parts DEF WriteInv, TargetsOK, TargetOK, WriteOutcomeIsTrue, WriteRow, WriteStage, Published
<1> QED
  BY <1>1, WritesInductive, PTL

\* The counters cover the rows, and the targets stay within the capacity.
THEOREM WritesAreCounted == WritesSpec => []CountersCoverRows
<1>1. ASSUME WriteInv
      PROVE  CountersCoverRows
  <2>1. /\ Cardinality(Queued) <= counts.targets /\ counts.targets <= TargetCapacity
        /\ Cardinality(Asked) <= counts.intents /\ counts.targets \in Nat /\ counts.intents \in Nat
        /\ Cardinality(Queued) \in Nat /\ Cardinality(Asked) \in Nat
    BY <1>1, FS_CardinalityType DEF WriteInv, CountsOK
  <2> QED
    BY <2>1 DEF CountersCoverRows, Asked
<1> QED
  BY <1>1, WritesInductive, PTL

\* A file that was replaced is not replaced again, nor undone.
LEMMA ReplacedStays ==
    ASSUME WriteInv, WritesNext, NEW w \in Write, written[w] = "new"
    PROVE  written'[w] = "new"
<1>1. CASE written' = written
  BY <1>1
<1>2. CASE PrepareOpf \/ PublishOpf
  <2>1. writer.at \in Write /\ (PrepareOpf => written[writer.at] # "new")
    BY <1>2 DEF PrepareOpf, PublishOpf, At, WriteInv, WriterOK, TurnOK, OpfPc
  <2> QED
    BY <1>2, <2>1 DEF PrepareOpf, PublishOpf, WriteInv, TargetsOK
<1>3. CASE PrepareStandard
  <2>1. writer.at \in Write /\ written[writer.at] # "new"
    BY <1>3, Parts DEF PrepareStandard, At, WriteInv, WriterOK, TurnOK, StandardPc
  <2> QED
    BY <1>3, <2>1 DEF PrepareStandard, WriteInv, TargetsOK
<1>4. CASE SwapStandard \/ DiscardPrepared
  BY <1>4 DEF SwapStandard, DiscardPrepared, WriteInv, TargetsOK
<1>5. CASE WriteRequests \/ LeasesLapse \/ ServeIntents \/ WriteStops \/ RestartWriter
  BY <1>1, <1>5 DEF WriteRequests, EnqueueIntent, EnqueueStandard, CancelStandard, LeasesLapse,
     WriteLapses, IntentLapses, ServeIntents, ClaimIntent, FinalizeIntent, WriteStops,
     WriteFails, CrashWriter, RemoveWrite, RestartWriter
<1>6. CASE ServeOpf \/ ServeStandard
  BY <1>1, <1>2, <1>3, <1>4, <1>6 DEF ServeOpf, MarkPrepared, CompleteOpf, ServeStandard,
     BeginStandard, SavePrepared, PublishStandard, CancelPrepared, JournalStandard,
     RecordStandard, FailStandard
<1>7. CASE RecoverWrites \/ (\E i \in Intent : DiscardRelocated(i))
           \/ \E v \in Write, blocked, importing \in SUBSET ServedLibraries :
                 ClaimWrite(v, blocked, importing)
  BY <1>1, <1>7 DEF RecoverWrites, DiscardRelocated, ClaimWrite
<1> QED
  BY <1>5, <1>6, <1>7 DEF WritesNext

\* No step replaces a target again or takes a replacement back.
THEOREM WritesReplaceOnce == WritesSpec => ReplacedOnce
<1> DEFINE A == \A w \in Write : written[w] = "new" => written'[w] = "new"
<1>1. WriteInv /\ [WritesNext]_writeVars => [A]_writeVars
  BY ReplacedStays
<1> QED
  BY <1>1, WritesInductive, PTL DEF WritesSpec, ReplacedOnce

=============================================================================
