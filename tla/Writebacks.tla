----------------------------- MODULE Writebacks -----------------------------
(***************************************************************************)
(* The metadata writeback queue: legacy intents that expand into sidecar   *)
(* OPF targets (writeback_queue), standard writes of a file that an agent  *)
(* planned (standard_writeback_store, ExecuteStandardWrite), and the one   *)
(* thread of the worker that serves both.                                  *)
(*                                                                         *)
(* A lease lasts 60 s and is renewed only where the code says so: it may   *)
(* lapse under its owner.  Which of several targets is claimed first       *)
(* (created_at) is left open.                                              *)
(***************************************************************************)
EXTENDS Integers, FiniteSets

CONSTANTS
    Intent,         \* legacy intents
    Expansion,      \* the targets each intent expands into
    Standard,       \* standard write targets, each of its own operation
    WriteLibrary,   \* the library of each target
    TargetCapacity, \* metadata_opf_queue_max_pending, of targets and intents
    MaxWriteFault   \* bound: crashes, failed commits and removed Books

Write == Standard \cup UNION {Expansion[i] : i \in Intent}

ASSUME WriteAssumption ==
    /\ DOMAIN Expansion = Intent /\ Write \subseteq DOMAIN WriteLibrary
    /\ \A i \in Intent : IsFiniteSet(Expansion[i]) /\ Expansion[i] \cap Standard = {}
    /\ \A i, j \in Intent : i # j => Expansion[i] \cap Expansion[j] = {}
    /\ TargetCapacity \in Nat /\ MaxWriteFault \in Nat

VARIABLES
    intents,    \* MetadataWritebackPreparation
    writes,     \* MetadataWritebackTarget, with MetadataStandardWriteTarget
    counts,     \* MetadataOpfQueueState
    written,    \* each target's file: as it was, with a prepared copy, put aside
                \* for that copy, replaced by it
    writer,     \* the worker's thread
    writeFaults

writeVars == <<intents, writes, counts, written, writer, writeFaults>>

Leases == {"none", "live", "lapsed"}
Published == {"FILES_PUBLISHED", "COMPLETED"}
WriteStage == {"QUEUED", "PREPARING", "PREPARED", "FAILED", "CANCELLED",
               "RECOVERY_REQUIRED"} \cup Published
NoWrite == [row |-> "none", lease |-> "none", own |-> FALSE, stage |-> "QUEUED",
            cancel |-> FALSE]
NoIntent == [row |-> "none", lease |-> "none", own |-> FALSE]
WriterPc == {"down", "recovering", "idle", "expand", "opf", "opfSave", "opfPublish",
             "opfDone", "begin", "prepare", "prepared", "publish", "swap", "discard",
             "discarded", "journal", "record", "failing", "paused"}

WritesTypeOK ==
    /\ intents \in [Intent -> [row : {"none", "PENDING", "RUNNING", "gone"},
                               lease : Leases, own : BOOLEAN]]
    /\ writes \in [Write -> [row : {"none", "PENDING", "RUNNING", "PREPARED", "REVIEW", "gone"},
                             lease : Leases, own : BOOLEAN, stage : WriteStage,
                             cancel : BOOLEAN]]
    /\ \A w \in Write : (writes[w].lease # "none") = (writes[w].row \in {"RUNNING", "PREPARED"})
    /\ counts \in [targets : Nat, intents : Nat]
    /\ written \in [Write -> {"old", "prepared", "aside", "new"}]
    /\ writer \in [pc : WriterPc, at : Intent \cup Write \cup {"none"},
                   unsure : BOOLEAN]
    /\ writeFaults \in 0..MaxWriteFault

WritesInit ==
    /\ intents = [i \in Intent |-> NoIntent] /\ writes = [w \in Write |-> NoWrite]
    /\ counts = [targets |-> 0, intents |-> 0]
    /\ written = [w \in Write |-> "old"]
    /\ writer = [pc |-> "recovering", at |-> "none", unsure |-> FALSE]
    /\ writeFaults = 0

Exists(row) == row.row \notin {"none", "gone"}
Queued == {w \in Write : Exists(writes[w])}
(* writeback_has_live_lease *)
LiveLease(w) == writes[w].row \in {"RUNNING", "PREPARED"} /\ writes[w].lease = "live"
(* standard_write_blocks_library *)
WritesBlock == {WriteLibrary[w] : w \in {v \in Standard : LiveLease(v)}}
WritingLibraries == {WriteLibrary[w] : w \in {v \in Write : LiveLease(v)}}

Free(pc) == writer' = [pc |-> pc, at |-> "none", unsure |-> FALSE]
Step(pc) == writer' = [writer EXCEPT !.pc = pc]
At(pc) == writer.pc = pc

----------------------------------------------------------------------------
(* Requests.  The counters are reserved in the transaction of the rows. *)

EnqueueIntent(i) ==
    /\ intents[i].row = "none" /\ counts.intents < TargetCapacity
    /\ intents' = [intents EXCEPT ![i].row = "PENDING"]
    /\ counts' = [counts EXCEPT !.intents = @ + 1]
    /\ UNCHANGED <<writes, written, writer, writeFaults>>

EnqueueStandard_Unreserved(w) ==
    /\ w \in Standard /\ writes[w].row = "none" /\ counts.targets < TargetCapacity
    /\ writes' = [writes EXCEPT ![w].row = "PENDING"]
    /\ UNCHANGED <<intents, counts, written, writer, writeFaults>>

EnqueueStandard(w) ==
    /\ w \in Standard /\ writes[w].row = "none" /\ counts.targets < TargetCapacity
    /\ writes' = [writes EXCEPT ![w].row = "PENDING"]
    /\ counts' = [counts EXCEPT !.targets = @ + 1]
    /\ UNCHANGED <<intents, written, writer, writeFaults>>

CancelStandard(w) ==
    /\ w \in Standard /\ writes[w].row # "none" /\ ~writes[w].cancel
    /\ writes' = [writes EXCEPT ![w].cancel = TRUE]
    /\ UNCHANGED <<intents, counts, written, writer, writeFaults>>

WriteLapses(w) ==
    /\ writes[w].lease = "live"
    /\ writes' = [writes EXCEPT ![w].lease = "lapsed"]
    /\ UNCHANGED <<intents, counts, written, writer, writeFaults>>
IntentLapses(i) ==
    /\ intents[i].lease = "live"
    /\ intents' = [intents EXCEPT ![i].lease = "lapsed"]
    /\ UNCHANGED <<writes, counts, written, writer, writeFaults>>

(* discard_relocated_writebacks, in the index transaction of a move.  The     *)
(* deleted operation takes its intent with it; only targets are counted out. *)
DiscardRelocated(i) ==
    /\ \A w \in Expansion[i] : ~LiveLease(w)
    /\ Exists(intents[i]) \/ Expansion[i] \cap Queued # {}
    /\ counts' = [counts EXCEPT !.targets =
                     LET left == @ - Cardinality(Expansion[i] \cap Queued) IN
                     IF left < 0 THEN 0 ELSE left]
    /\ intents' = [intents EXCEPT ![i] = [NoIntent EXCEPT !.row = "gone"]]
    /\ writes' = [w \in Write |-> IF w \in Expansion[i] \cap Queued
                                  THEN [NoWrite EXCEPT !.row = "gone"] ELSE writes[w]]
    /\ UNCHANGED <<written, writer, writeFaults>>

(* A Book is deleted: its rows go by cascade, the counters stay. *)
RemoveWrite(w) ==
    /\ writeFaults < MaxWriteFault /\ w \in Queued
    /\ writes' = [writes EXCEPT ![w].row = "gone", ![w].lease = "none", ![w].own = FALSE]
    /\ writeFaults' = writeFaults + 1
    /\ UNCHANGED <<intents, counts, written, writer>>

----------------------------------------------------------------------------
(* Intents *)

ClaimIntent(i) ==
    /\ At("idle")
    /\ \/ intents[i].row = "PENDING"
       \/ intents[i].row = "RUNNING" /\ intents[i].lease = "lapsed"
    /\ intents' = [intents EXCEPT ![i] = [row |-> "RUNNING", lease |-> "live", own |-> TRUE]]
    /\ writer' = [writer EXCEPT !.pc = "expand", !.at = i]
    /\ UNCHANGED <<writes, counts, written, writeFaults>>

OneLess(n) == IF n = 0 THEN 0 ELSE n - 1
Holds(i) == intents[i].row = "RUNNING" /\ intents[i].own

(* finalize_preparation: LEASE_LOST, NO_TARGETS, DEFERRED or EXPANDED.  What   *)
(* the snapshot names may be gone, so an intent may expand into fewer targets. *)
FinalizeIntent ==
    LET i == writer.at IN
    /\ At("expand")
    /\ Free("idle")
    /\ \/ ~Holds(i) /\ UNCHANGED <<intents, writes, counts>>
       \/ \E found \in SUBSET Expansion[i] :
             LET n == Cardinality(found) IN
             /\ Holds(i)
             /\ IF n # 0 /\ counts.targets > TargetCapacity - n
                THEN /\ intents' = [intents EXCEPT ![i] = [NoIntent EXCEPT !.row = "PENDING"]]
                     /\ UNCHANGED <<writes, counts>>
                ELSE /\ intents' = [intents EXCEPT ![i] = [NoIntent EXCEPT !.row = "gone"]]
                     /\ counts' = [targets |-> counts.targets + n,
                                   intents |-> OneLess(counts.intents)]
                     /\ writes' = [w \in Write |-> IF w \in found
                                      THEN [NoWrite EXCEPT !.row = "PENDING"] ELSE writes[w]]
    /\ UNCHANGED <<written, writeFaults>>

----------------------------------------------------------------------------
Due_Owned(w) ==
    \/ writes[w].row = "PENDING"
    \/ writes[w].row = "PREPARED" /\ (writes[w].own \/ writes[w].lease = "lapsed")

(* claim_next_target; blocked: libraries with another file operation,         *)
(* importing: libraries with a RUNNING import.  Only a PENDING target asks    *)
(* for other file operations; only a standard target asks for imports and     *)
(* for the leases of other targets.                                           *)
Due(w) ==
    \/ writes[w].row = "PENDING"
    \/ writes[w].row = "RUNNING" /\ writes[w].lease = "lapsed"
    \/ writes[w].row = "PREPARED" /\ (writes[w].own \/ writes[w].lease = "lapsed")
WriteClaimable(w, blocked, importing) ==
    /\ Due(w)
    /\ writes[w].row = "PENDING" => WriteLibrary[w] \notin blocked \cup WritesBlock
    /\ w \in Standard =>
          /\ WriteLibrary[w] \notin importing
          /\ \A v \in Write \ {w} : LiveLease(v) => WriteLibrary[v] # WriteLibrary[w]

ClaimWrite(w, blocked, importing) ==
    /\ At("idle") /\ WriteClaimable(w, blocked, importing)
    /\ writes' = [writes EXCEPT ![w] =
          [@ EXCEPT !.row = IF writes[w].row = "PENDING" THEN "RUNNING" ELSE writes[w].row,
                    !.lease = "live", !.own = TRUE]]
    /\ writer' = [pc |-> IF w \in Standard THEN "begin"
                         ELSE IF writes[w].row = "PREPARED" THEN "opfPublish" ELSE "opf",
                  at |-> w, unsure |-> FALSE]
    /\ UNCHANGED <<intents, counts, written, writeFaults>>

(* The row is still this worker's. *)
Owned(w) == Exists(writes[w]) /\ writes[w].own
Release(w, stage) ==
    /\ writes' = [writes EXCEPT ![w] = [@ EXCEPT !.row = "gone", !.lease = "none",
                                                 !.own = FALSE, !.stage = stage]]
    /\ counts' = [counts EXCEPT !.targets = OneLess(@)]

----------------------------------------------------------------------------
(* A sidecar OPF.  Once there is a prepared copy, an error keeps the row and   *)
(* its lease and pauses the thread until a restart.                           *)

PrepareOpf ==
    LET w == writer.at IN
    /\ At("opf")
    /\ \/ written' = [written EXCEPT ![w] = "prepared"] /\ Step("opfSave")
          /\ UNCHANGED <<writes, counts>>
       \/ /\ UNCHANGED written /\ Free("idle")
          /\ IF Owned(w) THEN Release(w, writes[w].stage) ELSE UNCHANGED <<writes, counts>>
    /\ UNCHANGED <<intents, writeFaults>>

MarkPrepared ==
    LET w == writer.at IN
    /\ At("opfSave")
    /\ IF Owned(w) /\ writes[w].row = "RUNNING"
       THEN writes' = [writes EXCEPT ![w].row = "PREPARED", ![w].lease = "live"]
            /\ Step("opfPublish")
       ELSE UNCHANGED writes /\ Free("paused")
    /\ UNCHANGED <<intents, counts, written, writeFaults>>

(* The rename under the write lock; it finds its own result after a crash. *)
PublishOpf ==
    LET w == writer.at IN
    /\ At("opfPublish")
    /\ IF Owned(w) /\ writes[w].row = "PREPARED"
       THEN \/ written' = [written EXCEPT ![w] = "new"] /\ Step("opfDone")
            \/ UNCHANGED written /\ Free("paused")
       ELSE UNCHANGED written /\ Free("idle")
    /\ UNCHANGED <<intents, writes, counts, writeFaults>>

CompleteOpf ==
    LET w == writer.at IN
    /\ At("opfDone")
    /\ IF Owned(w) THEN Release(w, writes[w].stage) /\ Free("idle")
       ELSE UNCHANGED <<writes, counts>> /\ Free("paused")
    /\ UNCHANGED <<intents, written, writeFaults>>

----------------------------------------------------------------------------
(* A standard write: ExecuteStandardWrite.execute.  unsure is the code's      *)
(* uncertain: an error then asks for recovery instead of failing the target.  *)

Proof_Unpublished(w) == writes[w].stage = "PREPARED"
Proof(w) == writes[w].stage \in {"PREPARED", "FILES_PUBLISHED"}
Checkpoint(w, row, stage) ==
    writes' = [writes EXCEPT ![w] = [@ EXCEPT !.row = row, !.stage = stage, !.lease = "live"]]
(* The error of a lost row, raised again by the handler's own checkpoint *)
LosesRow(w) == ~Owned(w) /\ Free("paused")

BeginStandard ==
    LET w == writer.at IN
    /\ At("begin")
    /\ \/ LosesRow(w) /\ UNCHANGED <<writes, counts>>
       \/ Owned(w) /\ Proof(w) /\ writer' = [writer EXCEPT !.pc = "publish", !.unsure = TRUE]
          /\ UNCHANGED <<writes, counts>>
       \/ /\ Owned(w) /\ ~Proof(w)
          /\ LET unsure == writes[w].stage # "QUEUED" IN
             \/ \E known \in BOOLEAN :
                   writer' = [writer EXCEPT !.pc = "failing", !.unsure = unsure \/ ~known]
                /\ UNCHANGED <<writes, counts>>
             \/ /\ writes[w].cancel /\ ~unsure
                /\ Release(w, "CANCELLED") /\ Free("idle")
             \/ /\ ~writes[w].cancel
                /\ Checkpoint(w, "RUNNING", "PREPARING") /\ UNCHANGED counts
                /\ writer' = [writer EXCEPT !.pc = "prepare", !.unsure = unsure]
    /\ UNCHANGED <<intents, written, writeFaults>>

(* A StandardPreparationError, and an unknown error, always ask for recovery. *)
PrepareStandard ==
    LET w == writer.at IN
    /\ At("prepare")
    /\ \/ written' = [written EXCEPT ![w] = "prepared"]
          /\ writer' = [writer EXCEPT !.pc = "prepared", !.unsure = TRUE]
       \/ /\ UNCHANGED written
          /\ \E partial \in BOOLEAN :
                writer' = [writer EXCEPT !.pc = "failing", !.unsure = @ \/ partial]
    /\ UNCHANGED <<intents, writes, counts, writeFaults>>

SavePrepared ==
    LET w == writer.at IN
    /\ At("prepared")
    /\ \/ LosesRow(w) /\ UNCHANGED writes
       \/ Owned(w) /\ Checkpoint(w, "PREPARED", "PREPARED") /\ Step("publish")
    /\ UNCHANGED <<intents, counts, written, writeFaults>>

(* published? then only the journal.  Otherwise access and cancellation decide *)
(* whether the copy is put in place or discarded.                             *)
PublishStandard ==
    LET w == writer.at IN
    /\ At("publish")
    /\ \/ Step("failing")
       \/ written[w] = "new" /\ Step("journal")
       \/ written[w] # "new" /\ Owned(w) /\ Step(IF writes[w].cancel THEN "discard" ELSE "swap")
    /\ UNCHANGED <<intents, writes, counts, written, writeFaults>>

(* publish: the original is renamed to its backup, the copy to its place.  A   *)
(* target that had no file has nothing to put aside.                          *)
SwapStandard ==
    LET w == writer.at IN
    /\ At("swap")
    /\ \/ Step("failing") /\ UNCHANGED written
       \/ /\ written[w] = "prepared" /\ written' = [written EXCEPT ![w] = "aside"]
          /\ Step("swap")
       \/ /\ written[w] \in {"prepared", "aside"} /\ written' = [written EXCEPT ![w] = "new"]
          /\ Step("journal") \/ Step("failing")
    /\ UNCHANGED <<intents, writes, counts, writeFaults>>

(* discard_prepared needs the copy, puts a backup back and unlinks the copy.   *)
DiscardPrepared ==
    LET w == writer.at IN
    /\ At("discard")
    /\ \/ Step("failing") /\ UNCHANGED written
       \/ /\ written[w] = "aside" /\ written' = [written EXCEPT ![w] = "prepared"]
          /\ Step("discard")
       \/ /\ written[w] = "prepared" /\ written' = [written EXCEPT ![w] = "old"]
          /\ Step("discarded") \/ Step("failing")
    /\ UNCHANGED <<intents, writes, counts, writeFaults>>

(* The commit of the cancellation comes after the files. *)
CancelPrepared ==
    LET w == writer.at IN
    /\ At("discarded")
    /\ \/ LosesRow(w) /\ UNCHANGED <<writes, counts>>
       \/ Owned(w) /\ Release(w, "CANCELLED") /\ Free("idle")
    /\ UNCHANGED <<intents, written, writeFaults>>

JournalStandard ==
    LET w == writer.at IN
    /\ At("journal")
    /\ \/ LosesRow(w) /\ UNCHANGED writes
       \/ Owned(w) /\ Checkpoint(w, "PREPARED", "FILES_PUBLISHED") /\ Step("record")
    /\ UNCHANGED <<intents, counts, written, writeFaults>>

(* record_publication and complete, one transaction *)
RecordStandard ==
    LET w == writer.at IN
    /\ At("record")
    /\ \/ LosesRow(w) /\ UNCHANGED <<writes, counts>>
       \/ Owned(w) /\ Release(w, "COMPLETED") /\ Free("idle")
       \/ Owned(w) /\ Step("failing") /\ UNCHANGED <<writes, counts>>
    /\ UNCHANGED <<intents, written, writeFaults>>

FailStandard_Known ==
    LET w == writer.at IN
    /\ At("failing")
    /\ \/ LosesRow(w) /\ UNCHANGED <<writes, counts>>
       \/ Owned(w) /\ Release(w, "FAILED") /\ Free("idle")
    /\ UNCHANGED <<intents, written, writeFaults>>

FailStandard ==
    LET w == writer.at IN
    /\ At("failing")
    /\ \/ LosesRow(w) /\ UNCHANGED <<writes, counts>>
       \/ /\ Owned(w) /\ writer.unsure /\ UNCHANGED counts /\ Free("idle")
          /\ writes' = [writes EXCEPT ![w] =
                [@ EXCEPT !.row = "REVIEW", !.lease = "none", !.own = FALSE,
                          !.stage = "RECOVERY_REQUIRED"]]
       \/ Owned(w) /\ ~writer.unsure /\ Release(w, "FAILED") /\ Free("idle")
    /\ UNCHANGED <<intents, written, writeFaults>>

----------------------------------------------------------------------------
(* A failed commit in these steps ends in the handler; in the handler it       *)
(* pauses the thread.                                                          *)
WriteFails ==
    /\ writeFaults < MaxWriteFault
    /\ \/ writer.pc \in {"prepared", "discarded", "journal"} /\ Step("failing")
       \/ writer.pc \in {"expand", "failing", "opfSave", "opfDone"} /\ Free("paused")
    /\ writeFaults' = writeFaults + 1
    /\ UNCHANGED <<intents, writes, counts, written>>

CrashWriter ==
    /\ writeFaults < MaxWriteFault /\ ~At("down")
    /\ Free("down")
    /\ intents' = [i \in Intent |-> [intents[i] EXCEPT !.own = FALSE]]
    /\ writes' = [w \in Write |-> [writes[w] EXCEPT !.own = FALSE]]
    /\ writeFaults' = writeFaults + 1
    /\ UNCHANGED <<counts, written>>

(* A paused thread waits for the process to be restarted. *)
RestartWriter ==
    /\ writer.pc \in {"down", "paused"}
    /\ Free("recovering")
    /\ intents' = [i \in Intent |-> [intents[i] EXCEPT !.own = FALSE]]
    /\ writes' = [w \in Write |-> [writes[w] EXCEPT !.own = FALSE]]
    /\ UNCHANGED <<counts, written, writeFaults>>

(* recover_interrupted_targets and reconcile_queue_state *)
RecoverWrites ==
    /\ At("recovering")
    /\ writes' = [w \in Write |->
          IF writes[w].row = "RUNNING" /\ writes[w].lease = "lapsed"
          THEN [writes[w] EXCEPT !.row = "PENDING", !.lease = "none", !.own = FALSE]
          ELSE writes[w]]
    /\ counts' = [targets |-> Cardinality(Queued),
                  intents |-> Cardinality({i \in Intent : Exists(intents[i])})]
    /\ Free("idle")
    /\ UNCHANGED <<intents, written, writeFaults>>

WriteRequests ==
    \/ \E i \in Intent : EnqueueIntent(i)
    \/ \E w \in Write : EnqueueStandard(w) \/ CancelStandard(w)
LeasesLapse == (\E w \in Write : WriteLapses(w)) \/ \E i \in Intent : IntentLapses(i)
ServeIntents == FinalizeIntent \/ \E i \in Intent : ClaimIntent(i)
ServeOpf == PrepareOpf \/ MarkPrepared \/ PublishOpf \/ CompleteOpf
ServeStandard ==
    \/ BeginStandard \/ PrepareStandard \/ SavePrepared \/ PublishStandard
    \/ SwapStandard \/ DiscardPrepared \/ CancelPrepared \/ JournalStandard
    \/ RecordStandard \/ FailStandard
WriteStops == WriteFails \/ CrashWriter \/ \E w \in Write : RemoveWrite(w)

ServedLibraries == {WriteLibrary[w] : w \in Write}
WritesNext ==
    \/ WriteRequests \/ (\E i \in Intent : DiscardRelocated(i)) \/ LeasesLapse
    \/ ServeIntents \/ ServeOpf \/ ServeStandard \/ WriteStops \/ RestartWriter
    \/ RecoverWrites
    \/ \E w \in Write, blocked, importing \in SUBSET ServedLibraries :
          ClaimWrite(w, blocked, importing)
WritesSpec == WritesInit /\ [][WritesNext]_writeVars

----------------------------------------------------------------------------
(* Properties *)

(* A standard write that is reported cancelled or failed left its file as   *)
(* it was, with no copy beside it; one that is reported complete replaced   *)
(* it; and an original is put aside only where the row knows the copy that  *)
(* takes its place.  A row that says PREPARED can be decided, for the copy  *)
(* or the result is there, unless a cancelled copy was removed and the      *)
(* commit did not follow: that one ends in RECOVERY_REQUIRED.               *)
WriteOutcomeIsTrue ==
    \A w \in Standard :
        /\ writes[w].stage \in {"QUEUED", "CANCELLED", "FAILED"} => written[w] = "old"
        /\ writes[w].stage \in Published => written[w] = "new"
        /\ written[w] = "aside" => writes[w].stage \in {"PREPARED", "RECOVERY_REQUIRED"}
        /\ writes[w].stage = "PREPARED" /\ ~writes[w].cancel => written[w] # "old"

(* The counters never fall below the rows they stand for, so the queue      *)
(* stays within its capacity; they may stay above until the next start.     *)
CountersCoverRows ==
    /\ counts.targets >= Cardinality(Queued) /\ counts.targets <= TargetCapacity
    /\ counts.intents >= Cardinality({i \in Intent : Exists(intents[i])})

(* A file is replaced at most once: no restart, re-claim or repeated step    *)
(* writes a standard target again or undoes it.                              *)
ReplacedOnce ==
    [][\A w \in Write : written[w] = "new" => written'[w] = "new"]_writeVars

(* Every queued target is served or set aside for review, unless the thread  *)
(* is paused until a restart.                                                *)
TargetsEnd ==
    \A w \in Write : Exists(writes[w]) ~> (writes[w].row \in {"gone", "REVIEW"}
                                           \/ writer.pc \in {"down", "paused"})
=============================================================================
