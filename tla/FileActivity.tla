---------------------------- MODULE FileActivity ----------------------------
(***************************************************************************)
(* Everything that writes the files of a library, together: imports, agent *)
(* moves, deletions and replacements, and metadata writebacks.  They keep  *)
(* out of each other's way only through the rows that                      *)
(* file_operation_conflicts reads when one of them is claimed.             *)
(*                                                                         *)
(* The worker process serves moves and imports in turn on one thread and   *)
(* writebacks on another; deletions and uploads run in the API process.    *)
(***************************************************************************)
EXTENDS FileMoves, FileDeletions, AutomationUploads, Writebacks

CONSTANTS
    Relocates       \* the intent of the Book that each move relocates, if it has one

ASSUME ActivityAssumption ==
    /\ Relocates \in [Op -> SUBSET Intent]
    /\ \A o \in Op : \A i, j \in Relocates[o] : i = j
    /\ \A l \in Library : l \notin {"none", "down"}

VARIABLES
    importing,  \* libraries with a RUNNING import row
    importer,   \* the library the worker imports now, "none" or "down"
    late        \* history: writes whose lease lapsed

queueVars == <<importing, importer, late>>
activityVars == <<moveVars, deletionVars, uploadVars, writeVars, queueVars>>

ActivityTypeOK ==
    /\ MovesTypeOK /\ DeletionsTypeOK /\ UploadsTypeOK /\ WritesTypeOK
    /\ importing \subseteq Library /\ importer \in importing \cup {"none", "down"}
    /\ late \subseteq Write

ActivityInit ==
    /\ MovesInit /\ DeletionsInit /\ UploadsInit /\ WritesInit
    /\ importing = {} /\ importer = "down" /\ late = {}

(* file_operation_blocks_library *)
Blocked == MovesBlock \cup DeletionsBlock \cup UploadsBlock \cup WritesBlock
(* What a deletion or a replacement finds taken when it starts *)
Taken == Blocked \cup importing

----------------------------------------------------------------------------
(* The worker's main thread *)

(* Whether imports or moves are recovered first is left open. *)
MainFree == mover.pc \in {"recovering", "free"} /\ importer \in {"none", "down"}

RecoverImports ==
    /\ MainFree /\ importer = "down"
    /\ importing' = {} /\ importer' = "none"
    /\ UNCHANGED <<moveVars, deletionVars, uploadVars, writeVars, late>>

ClaimImport_Unchecked(l) ==
    /\ MainFree /\ importer = "none"
    /\ importing' = importing \cup {l} /\ importer' = l
    /\ UNCHANGED <<moveVars, deletionVars, uploadVars, writeVars, late>>

ClaimImport(l) ==
    /\ MainFree /\ importer = "none" /\ l \notin Blocked
    /\ importing' = importing \cup {l} /\ importer' = l
    /\ UNCHANGED <<moveVars, deletionVars, uploadVars, writeVars, late>>

FinishImport ==
    /\ importer \in Library
    /\ importing' = importing \ {importer} /\ importer' = "none"
    /\ UNCHANGED <<moveVars, deletionVars, uploadVars, writeVars, late>>

StartMove_Unleased(o) ==
    /\ MainFree /\ ClaimMove(o, importing)
    /\ UNCHANGED <<deletionVars, uploadVars, writeVars, queueVars>>

(* The claim of a move asks for imports, live leases and other moves only. *)
StartMove(o) ==
    /\ MainFree /\ ClaimMove(o, importing \cup WritingLibraries)
    /\ UNCHANGED <<deletionVars, uploadVars, writeVars, queueVars>>

(* discard_relocated_writebacks belongs to the index transaction. *)
Discards(o) ==
    \/ \E i \in Relocates[o] : DiscardRelocated(i)
    \/ /\ \A i \in Relocates[o] :
             ~Exists(intents[i]) /\ \A w \in Expansion[i] : ~Exists(writes[w])
       /\ UNCHANGED writeVars

ServeMove ==
    /\ \/ /\ ExecuteMove
          /\ IF index' # index THEN Discards(mover.op) ELSE UNCHANGED writeVars
       \/ (RecoverMoves \/ MoveFaults) /\ UNCHANGED writeVars
    /\ UNCHANGED <<deletionVars, uploadVars, queueVars>>

----------------------------------------------------------------------------
(* The writeback thread *)

StartWrite ==
    /\ \E w \in Write : ClaimWrite(w, Blocked, importing)
    /\ UNCHANGED <<moveVars, deletionVars, uploadVars, queueVars>>

ServeWrite ==
    /\ ServeIntents \/ ServeOpf \/ ServeStandard \/ RecoverWrites \/ WriteFails
    /\ UNCHANGED <<moveVars, deletionVars, uploadVars, queueVars>>

LeaseLapses ==
    /\ \/ \E w \in Write : WriteLapses(w) /\ late' = late \cup {w}
       \/ \E i \in Intent : IntentLapses(i) /\ UNCHANGED late
    /\ UNCHANGED <<moveVars, deletionVars, uploadVars, importing, importer>>

----------------------------------------------------------------------------
(* The API process *)

SubmitMove ==
    /\ MoveRequests \/ CancelWrites
    /\ UNCHANGED <<deletionVars, uploadVars, writeVars, queueVars>>

ServeDeletion(p) ==
    /\ \/ PlanDeletion(p) \/ StartDeletion(p, Taken) \/ CancelStep(p)
       \/ DeletionEscapes(p) \/ CrashDeleters \/ NewSource(p)
    /\ UNCHANGED <<moveVars, uploadVars, writeVars, queueVars>>

DeleteFiles(p) ==
    /\ ExecuteDeletion(p, Taken)
    /\ UNCHANGED <<moveVars, uploadVars, writeVars, queueVars>>

ServeUpload(u) ==
    /\ TransferUpload(u) \/ CompleteUpload(u) \/ UploadBreaks(u)
    /\ UNCHANGED <<moveVars, deletionVars, writeVars, queueVars>>

FinishReplacement(u) ==
    /\ ~Unlocked(u) /\ FinishUpload(u, Taken)
    /\ UNCHANGED <<moveVars, deletionVars, writeVars, queueVars>>

ExpireReplacement(u) ==
    /\ ExpireUpload(u)
    /\ UNCHANGED <<moveVars, deletionVars, writeVars, queueVars>>

SubmitWrite ==
    /\ WriteRequests
    /\ UNCHANGED <<moveVars, deletionVars, uploadVars, queueVars>>

----------------------------------------------------------------------------
(* The worker process dies and is started again. *)

CrashWorker ==
    /\ CrashMover /\ CrashWriter
    /\ importer' = "down"
    /\ UNCHANGED <<deletionVars, uploadVars, importing, late>>

StartWorker ==
    /\ StartMover /\ RestartWriter
    /\ UNCHANGED <<deletionVars, uploadVars, queueVars>>

ActivityNext ==
    \/ RecoverImports \/ FinishImport \/ \E l \in Library : ClaimImport(l)
    \/ ServeMove \/ \E o \in Op : StartMove(o)
    \/ StartWrite \/ ServeWrite \/ LeaseLapses
    \/ SubmitMove \/ SubmitWrite
    \/ \E p \in Deletion : ServeDeletion(p) \/ DeleteFiles(p)
    \/ \E u \in Upload : ServeUpload(u) \/ FinishReplacement(u) \/ ExpireReplacement(u)
    \/ CrashWorker \/ StartWorker
ActivitySpec == ActivityInit /\ [][ActivityNext]_activityVars

----------------------------------------------------------------------------
(* Properties *)

(* What works on the files of a library right now; write is a standard      *)
(* write, sidecar an OPF.  Not counted, because no row protects them:       *)
(* moves whose cancel overwrote what the worker had saved (raced), plans    *)
(* whose cancel overwrote a checkpoint, a deletion cancelled while it ran,  *)
(* and writes whose lease has lapsed, which are claimed again unasked.      *)
Works(l) ==
    {"import" : x \in {importer} \cap {l}}
    \cup {"move" : o \in {q \in Op \ raced : mover.op = q /\ l \in MoveLibraries(q)}}
    \cup {"delete" : p \in {q \in Deletion \ overwritten :
            /\ deleter[q].pc = "delete" /\ ~deletions[q].payload.cancelled
            /\ Doomed[q][deleter[q].at] = l}}
    \cup {"replace" : u \in {v \in Upload : /\ Purpose[v] = "replace"
                                            /\ uploader[v] = "publish" /\ UploadLibrary[v] = l}}
    \cup {"write" : w \in {v \in Standard \ late : /\ writer.at = v /\ WriteLibrary[v] = l
                              /\ writer.pc \in {"prepare", "publish", "swap", "discard"}}}
    \cup {"sidecar" : w \in {v \in Write \ (Standard \cup late) :
            /\ writer.at = v /\ WriteLibrary[v] = l /\ writer.pc \in {"opf", "opfPublish"}}}

(* A move is claimed without asking for deletions and replacements, and     *)
(* imports, deletions and replacements without asking for sidecars.         *)
Meetings == {{"move", "delete"}, {"move", "replace"}, {"sidecar", "import"},
             {"sidecar", "delete"}, {"sidecar", "replace"}}

(* But for these, two kinds of the work counted above never meet in one     *)
(* library, whatever order they were claimed in and whoever crashed in      *)
(* between.  In particular no move meets a standard write or a sidecar.     *)
LibrariesAreShared ==
    \A l \in Library : Cardinality(Works(l)) <= 1 \/ Works(l) \in Meetings

(* What the rows claim of a library: they are there before the work starts, *)
(* and outlive a crash.  Not counted, as above, are operations and plans    *)
(* whose row a cancel overwrote, and writes whose lease has lapsed.         *)
Blocking == {"QUEUED", "DELETING"}
Holding(b, t) == b.executing /\ ~b.cancelled /\ b.stage[t] \in Blocking
Moving(l) == \E o \in Op \ raced : Executing(o) /\ l \in MoveLibraries(o)
Deleting(l) ==
    \E p \in Deletion \ overwritten : \E t \in Targets(p) :
        Doomed[p][t] = l /\ Holding(deletions[p].payload, t)
Replacing(l) ==
    \E u \in Upload : /\ Purpose[u] = "replace" /\ Status(u) = "PUBLISHING"
                      /\ UploadLibrary[u] = l
Leased(W, l) == \E w \in W \ late : LiveLease(w) /\ WriteLibrary[w] = l

WorkKind == {"import", "move", "delete", "replace", "write", "sidecar"}
HeldBy(k, l) ==
    \/ k = "import"  /\ l \in importing
    \/ k = "move"    /\ Moving(l)
    \/ k = "delete"  /\ Deleting(l)
    \/ k = "replace" /\ Replacing(l)
    \/ k = "write"   /\ Leased(Standard, l)
    \/ k = "sidecar" /\ Leased(Write \ Standard, l)
WorkAsks ==
    [import  |-> {"move", "delete", "replace", "write"},
     move    |-> {"import", "write", "sidecar"},
     delete  |-> {"import", "move", "replace", "write"},
     replace |-> {"import", "move", "delete", "write"},
     write   |-> {"import", "move", "delete", "replace", "sidecar"},
     sidecar |-> {"move", "delete", "replace", "write"}]

(* The claims implement LibraryShare: in one step one kind of work at most  *)
(* takes libraries, and only those where no row of the kinds its claim asks *)
(* for is at work.  No lapse, requeue, recovery or restart makes a row hold *)
(* a library that it did not hold.                                          *)
Share == INSTANCE LibraryShare WITH
    Kind <- WorkKind, Place <- Library, Asks <- WorkAsks,
    holds <- [l \in Library |-> {k \in WorkKind : HeldBy(k, l)}]
SharesLibraries == Share!Spec

(* What only a person or an agent can settle: a target left DELETING, a      *)
(* replacement that needs recovery, and, after a crash or a failed commit,  *)
(* a deletion or a replacement whose request ended midway, a stranded move. *)
Abandoned(l) ==
    \/ \E p \in Deletion :
          /\ deleter[p].pc = "idle" /\ l \in DeletionBlocks(p)
          /\ deletionFaults > 0 \/ \E t \in Targets(p) : deletions[p].payload.stage[t] = "DELETING"
    \/ \E u \in Upload :
          /\ UploadLibrary[u] = l /\ Replaces(u) /\ Unlocked(u)
          /\ uploadFaults > 0 \/ Status(u) = "RECOVERY_REQUIRED"
    \/ \E o \in Op : l \in MoveLibraries(o) /\ Stranded(o)

(* A library that is locked out of imports is opened again, unless what     *)
(* locks it was abandoned: no order of claims, crashes and restarts leaves  *)
(* everyone waiting on everyone.                                            *)
LibrariesReopen ==
    \A l \in Library : l \in Blocked ~> (l \notin Blocked \/ Abandoned(l))
=============================================================================
