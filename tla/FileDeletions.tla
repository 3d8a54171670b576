--------------------------- MODULE FileDeletions ---------------------------
(***************************************************************************)
(* Agent file deletions (FileDeletions, SqlAlchemyDeleteStore and          *)
(* StandardDeleteFiles): a plan is one row whose payload lists its targets *)
(* and their stages.  An execute request holds the plan's file lock, loads *)
(* the payload once and writes the whole of its copy back at every commit; *)
(* a cancel request takes no lock and writes back the payload it read.     *)
(***************************************************************************)
EXTENDS Integers, Sequences

CONSTANTS
    Deletion,           \* the plans
    Doomed,             \* the library of each target of a plan
    MaxDeletionFault    \* bound: crashes of the API process, unforeseen errors

ASSUME DeletionAssumption ==
    /\ DOMAIN Doomed = Deletion
    /\ \A p \in Deletion :
          Len(Doomed[p]) \in Nat \ {0} /\ DOMAIN Doomed[p] = 1..Len(Doomed[p])
    /\ MaxDeletionFault \in Nat

VARIABLES
    deletions,      \* the rows: planned or not, payload
    content,        \* what is at each target's path
    reindexed,      \* the targets whose library was asked to be scanned again
    deleter,        \* the execute request of each plan, in memory
    deleteCancel,   \* the cancel request of each plan, in memory
    overwritten,    \* history: plans whose newer payload a cancel overwrote
    deletionFaults

deletionVars ==
    <<deletions, content, reindexed, deleter, deleteCancel, overwritten, deletionFaults>>

Targets(p) == DOMAIN Doomed[p]
DoomedLibraries(p) == {Doomed[p][t] : t \in Targets(p)}
DeletionStage == {"QUEUED", "DELETING", "FILES_DELETED", "INDEX_PENDING",
                  "FAILED", "CANCELLED"}
SettledDeletion == {"INDEX_PENDING", "FAILED", "CANCELLED"}

Payload(p) == [executing : BOOLEAN, cancelled : BOOLEAN,
               stage : [Targets(p) -> DeletionStage]]
NewPayload(p) == [executing |-> FALSE, cancelled |-> FALSE,
                  stage |-> [t \in Targets(p) |-> "QUEUED"]]
NoDeleter(p) == [pc |-> "idle", at |-> 1, stage |-> NewPayload(p).stage]
DeleterPc == {"idle", "look", "mark", "delete", "deleted", "request", "settle"}

DeletionsTypeOK ==
    /\ \A p \in Deletion :
          /\ deletions[p].planned \in BOOLEAN /\ deletions[p].payload \in Payload(p)
          /\ content[p] \in [Targets(p) -> {"whole", "part", "none", "new"}]
          /\ reindexed[p] \subseteq Targets(p)
          /\ deleter[p].pc \in DeleterPc /\ deleter[p].at \in Targets(p)
          /\ deleter[p].stage \in [Targets(p) -> DeletionStage]
          /\ deleteCancel[p].pc \in {"idle", "save"}
          /\ deleteCancel[p].payload \in Payload(p)
    /\ overwritten \subseteq Deletion /\ deletionFaults \in 0..MaxDeletionFault

DeletionsInit ==
    /\ deletions = [p \in Deletion |-> [planned |-> FALSE, payload |-> NewPayload(p)]]
    /\ content = [p \in Deletion |-> [t \in Targets(p) |-> "whole"]]
    /\ reindexed = [p \in Deletion |-> {}]
    /\ deleter = [p \in Deletion |-> NoDeleter(p)]
    /\ deleteCancel = [p \in Deletion |-> [pc |-> "idle", payload |-> NewPayload(p)]]
    /\ overwritten = {} /\ deletionFaults = 0

(* file_operation_blocks_library, the deletions of it *)
DeletionBlocks(p) ==
    LET row == deletions[p].payload IN
    {Doomed[p][t] : t \in {u \in Targets(p) :
        /\ row.executing
        /\ \/ row.stage[u] = "DELETING"
           \/ row.stage[u] = "QUEUED" /\ ~row.cancelled}}
DeletionsBlock == UNION {DeletionBlocks(p) : p \in Deletion}

----------------------------------------------------------------------------
PlanDeletion(p) ==
    /\ ~deletions[p].planned
    /\ deletions' = [deletions EXCEPT ![p].planned = TRUE]
    /\ UNCHANGED <<content, reindexed, deleter, deleteCancel, overwritten, deletionFaults>>

(* save: a row that is not executing starts to execute only in libraries     *)
(* free of other file operations and of RUNNING imports; the flag of an       *)
(* earlier cancel stays.  busy(p) are the libraries p finds taken.            *)
MayExecute(p, busy) ==
    deletions[p].payload.executing \/ DoomedLibraries(p) \cap busy = {}
SavePlan(p, stage) ==
    deletions' = [deletions EXCEPT ![p].payload.executing = TRUE,
                                   ![p].payload.stage = stage]

(* cancel: two reads (here one) and a write of the whole payload *)
CancelDeletion(p) ==
    /\ deletions[p].planned /\ deleteCancel[p].pc = "idle"
    /\ ~deletions[p].payload.cancelled
    /\ deleteCancel' = [deleteCancel EXCEPT ![p] =
                           [pc |-> "save", payload |-> deletions[p].payload]]
    /\ UNCHANGED <<deletions, content, reindexed, deleter, overwritten, deletionFaults>>

SaveCancel(p) ==
    LET read == deleteCancel[p].payload IN
    /\ deleteCancel[p].pc = "save"
    /\ deletions' = [deletions EXCEPT ![p].payload = [read EXCEPT !.cancelled = TRUE]]
    /\ overwritten' = IF deletions[p].payload = read THEN overwritten
                      ELSE overwritten \cup {p}
    /\ deleteCancel' = [deleteCancel EXCEPT ![p] = [pc |-> "idle", payload |-> NewPayload(p)]]
    /\ UNCHANGED <<content, reindexed, deleter, deletionFaults>>

StartDeletion(p, busy) ==
    /\ deletions[p].planned /\ deleter[p].pc = "idle" /\ MayExecute(p, busy)
    /\ SavePlan(p, deletions[p].payload.stage)
    /\ deleter' = [deleter EXCEPT ![p] = [pc |-> "look", at |-> 1,
                                          stage |-> deletions[p].payload.stage]]
    /\ UNCHANGED <<content, reindexed, deleteCancel, overwritten, deletionFaults>>

----------------------------------------------------------------------------
(* execute: the targets in order, stages taken from the loaded plan *)

DeleterAt(p, pc) == deleter[p].pc = pc
Mine(p) == deleter[p].stage[deleter[p].at]
(* the next pc, with this target's stage in memory *)
Turn(p, pc, stage) ==
    deleter' = [deleter EXCEPT ![p].pc = pc, ![p].stage[deleter[p].at] = stage]
NextTarget_Past(p) == deleter' = [deleter EXCEPT ![p].pc = "look", ![p].at = @ + 1]

NextTarget(p) ==
    deleter' = [deleter EXCEPT ![p] =
                   IF deleter[p].at < Len(Doomed[p])
                   THEN [deleter[p] EXCEPT !.pc = "look", !.at = deleter[p].at + 1]
                   ELSE NoDeleter(p)]

SkipTarget(p) ==
    /\ DeleterAt(p, "look") /\ Mine(p) \in SettledDeletion
    /\ NextTarget(p)
    /\ UNCHANGED <<deletions, content, reindexed, deleteCancel, overwritten, deletionFaults>>

LookTarget_Again(p) ==
    /\ DeleterAt(p, "look")
    /\ \/ Mine(p) = "FILES_DELETED" /\ Turn(p, "request", "FILES_DELETED")
       \/ /\ Mine(p) \in {"QUEUED", "DELETING"}
          /\ IF deletions[p].payload.cancelled THEN Turn(p, "settle", "CANCELLED")
             ELSE Turn(p, "settle", "FAILED") \/ Turn(p, "mark", "DELETING")
    /\ UNCHANGED <<deletions, content, reindexed, deleteCancel, overwritten, deletionFaults>>

(* A target found DELETING is never deleted again: only its error is saved. *)
LookTarget(p) ==
    /\ DeleterAt(p, "look")
    /\ \/ Mine(p) = "DELETING" /\ Turn(p, "settle", "DELETING")
       \/ Mine(p) = "FILES_DELETED" /\ Turn(p, "request", "FILES_DELETED")
       \/ /\ Mine(p) = "QUEUED"
          /\ IF deletions[p].payload.cancelled THEN Turn(p, "settle", "CANCELLED")
             ELSE \/ Turn(p, "settle", "FAILED")
                  \/ content[p][deleter[p].at] = "whole" /\ Turn(p, "mark", "DELETING")
    /\ UNCHANGED <<deletions, content, reindexed, deleteCancel, overwritten, deletionFaults>>

MarkTarget(p, busy) ==
    /\ DeleterAt(p, "mark")
    /\ IF MayExecute(p, busy)
       THEN SavePlan(p, deleter[p].stage) /\ Turn(p, "delete", "DELETING")
       ELSE Turn(p, "settle", "DELETING") /\ UNCHANGED deletions
    /\ UNCHANGED <<content, reindexed, deleteCancel, overwritten, deletionFaults>>

RemoveTarget_Failed(p) ==
    /\ DeleterAt(p, "delete")
    /\ \E rest \in {"whole", "part", "none"} :
          /\ content' = [content EXCEPT ![p][deleter[p].at] = rest]
          /\ \/ rest = "none" /\ Turn(p, "deleted", "FILES_DELETED")
             \/ Turn(p, "settle", "FAILED")
    /\ UNCHANGED <<deletions, reindexed, deleteCancel, overwritten, deletionFaults>>

(* Access is checked once more; a directory may be removed in part. *)
RemoveTarget(p) ==
    /\ DeleterAt(p, "delete")
    /\ \E rest \in {"whole", "part", "none"} :
          /\ content' = [content EXCEPT ![p][deleter[p].at] = rest]
          /\ \/ rest = "none" /\ Turn(p, "deleted", "FILES_DELETED")
             \/ Turn(p, "settle", "DELETING")
    /\ UNCHANGED <<deletions, reindexed, deleteCancel, overwritten, deletionFaults>>

SaveRemoved(p, busy) ==
    /\ DeleterAt(p, "deleted")
    /\ IF MayExecute(p, busy)
       THEN SavePlan(p, deleter[p].stage) /\ Turn(p, "request", "FILES_DELETED")
       ELSE Turn(p, "settle", "FILES_DELETED") /\ UNCHANGED deletions
    /\ UNCHANGED <<content, reindexed, deleteCancel, overwritten, deletionFaults>>

(* The scan request and the stage that names it are one transaction. *)
RequestScan(p, busy) ==
    /\ DeleterAt(p, "request")
    /\ \/ /\ MayExecute(p, busy)
          /\ SavePlan(p, [deleter[p].stage EXCEPT ![deleter[p].at] = "INDEX_PENDING"])
          /\ reindexed' = [reindexed EXCEPT ![p] = @ \cup {deleter[p].at}]
          /\ deleter' = [deleter EXCEPT ![p] =
                IF deleter[p].at < Len(Doomed[p])
                THEN [pc |-> "look", at |-> deleter[p].at + 1,
                      stage |-> [deleter[p].stage EXCEPT ![deleter[p].at] = "INDEX_PENDING"]]
                ELSE NoDeleter(p)]
       \/ Turn(p, "settle", "FILES_DELETED") /\ UNCHANGED <<deletions, reindexed>>
    /\ UNCHANGED <<content, deleteCancel, overwritten, deletionFaults>>

(* The save after each target is outside its handler. *)
SettleTarget(p, busy) ==
    /\ DeleterAt(p, "settle")
    /\ IF MayExecute(p, busy) THEN SavePlan(p, deleter[p].stage) /\ NextTarget(p)
       ELSE deleter' = [deleter EXCEPT ![p] = NoDeleter(p)] /\ UNCHANGED deletions
    /\ UNCHANGED <<content, reindexed, deleteCancel, overwritten, deletionFaults>>

----------------------------------------------------------------------------
(* An error of another kind, or a failed commit, ends the request. *)
DeletionEscapes(p) ==
    /\ ~DeleterAt(p, "idle") /\ deletionFaults < MaxDeletionFault
    /\ deleter' = [deleter EXCEPT ![p] = NoDeleter(p)]
    /\ deletionFaults' = deletionFaults + 1
    /\ UNCHANGED <<deletions, content, reindexed, deleteCancel, overwritten>>

CrashDeleters ==
    /\ deletionFaults < MaxDeletionFault
    /\ \E p \in Deletion : ~DeleterAt(p, "idle") \/ deleteCancel[p].pc # "idle"
    /\ deleter' = [p \in Deletion |-> NoDeleter(p)]
    /\ deleteCancel' = [p \in Deletion |-> [pc |-> "idle", payload |-> NewPayload(p)]]
    /\ deletionFaults' = deletionFaults + 1
    /\ UNCHANGED <<deletions, content, reindexed, overwritten>>

(* A user puts a new file where one was deleted. *)
NewSource(p) ==
    /\ \E t \in Targets(p) :
          /\ content[p][t] = "none"
          /\ content' = [content EXCEPT ![p][t] = "new"]
    /\ UNCHANGED <<deletions, reindexed, deleter, deleteCancel, overwritten, deletionFaults>>

ExecuteDeletion(p, busy) ==
    \/ SkipTarget(p) \/ LookTarget(p) \/ MarkTarget(p, busy) \/ RemoveTarget(p)
    \/ SaveRemoved(p, busy) \/ RequestScan(p, busy) \/ SettleTarget(p, busy)
CancelStep(p) == CancelDeletion(p) \/ SaveCancel(p)

----------------------------------------------------------------------------
(* Properties *)

(* What the plan reports as waiting, cancelled or failed is still there;    *)
(* what it reports as handed to the index is gone and a scan was asked for. *)
(* Out of reach: plans whose newer payload a cancel overwrote.              *)
DeletionIsTrue ==
    \A p \in Deletion \ overwritten : \A t \in Targets(p) :
        LET stage == deletions[p].payload.stage[t] IN
        /\ stage \in {"QUEUED", "CANCELLED", "FAILED"} => content[p][t] = "whole"
        /\ stage \in {"FILES_DELETED", "INDEX_PENDING"} => content[p][t] \in {"none", "new"}
        /\ stage = "INDEX_PENDING" => t \in reindexed[p]

(* A repeated call never deletes a new source of the same name. *)
NewSourceStays ==
    [][\A p \in Deletion : \A t \in Targets(p) :
          content[p][t] = "new" => content'[p][t] = "new"]_deletionVars
=============================================================================
