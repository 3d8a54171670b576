----------------------------- MODULE FileMoves -----------------------------
(***************************************************************************)
(* Agent file moves: the durable operation rows                            *)
(* (SqlAlchemyFileMoveOperations), the executor                            *)
(* (ExecuteFileMoveOperation) and the worker that runs it                  *)
(* (FileMoveWorker), beside the HTTP and MCP requests that submit and      *)
(* cancel operations in another process.                                   *)
(*                                                                         *)
(* A commit is one step.  SELECTs hold no snapshot (the sqlite3 driver     *)
(* opens a transaction at the first write), so what a request reads before *)
(* its first write may be old when it writes: Cancel is two steps.         *)
(*                                                                         *)
(* Operations are numbered in the order they are created.  Entries keep    *)
(* the plan's order, in which the companions of a book (sidecar OPF,       *)
(* cover) come before the book itself.                                     *)
(***************************************************************************)
EXTENDS Integers, Sequences, FiniteSets

CONSTANTS
    Library,
    Op,             \* the operations ever submitted
    Plan,           \* each operation's entries, in plan order
    MaxMoveFault    \* bound: crashes of the worker and failed commits

ASSUME MoveAssumption ==
    /\ Op \subseteq Nat \ {0} /\ MaxMoveFault \in Nat
    /\ Plan \in [Op -> Seq([from : Library, to : Library, owner : Nat])]
    /\ \A o \in Op : \A i \in DOMAIN Plan[o] :
          Plan[o][i].owner # 0 =>
              /\ Plan[o][i].owner \in DOMAIN Plan[o] /\ Plan[o][i].owner > i
              /\ Plan[o][Plan[o][i].owner].owner = 0

VARIABLES
    moves,      \* LibraryFileMoveOperation and its LibraryFileMoveTarget rows
    files,      \* where each entry's files are
    index,      \* where the source-node index says they are
    mover,      \* the executor's control state, in memory only
    moveCancel, \* a cancel request between its reads and its write
    raced,      \* history: operations a cancel overwrote after they were claimed
    moveFaults  \* the bounded events already spent

moveVars == <<moves, files, index, mover, moveCancel, raced, moveFaults>>

Entries(o) == DOMAIN Plan[o]
MoveLibraries(o) ==
    {Plan[o][i].from : i \in Entries(o)} \cup {Plan[o][i].to : i \in Entries(o)}

InFlight == {"PREPARING", "FILES_PUBLISHED", "INDEX_UPDATED"}
Ended == {"COMPLETED", "FAILED", "CANCELLED"}
MoveStage == {"QUEUED", "RECOVERY_REQUIRED"} \cup InFlight \cup Ended
MoveStatus == {"ABSENT", "PARTIAL"} \cup MoveStage

(* blocks_library: only an executing move excludes other claims *)
Executing(o) == moves[o].status \in InFlight
MovesBlock == UNION {MoveLibraries(o) : o \in {p \in Op : Executing(p)}}

(* _TERMINAL: cancelling such an operation is refused unless an entry waits *)
Terminal == Ended \cup {"PARTIAL", "RECOVERY_REQUIRED"}

Stages(stage) == {stage[i] : i \in DOMAIN stage}

(* finish: an operation's status follows from the stages of its entries *)
Finished(stage) ==
    LET seen == Stages(stage) IN
    IF "RECOVERY_REQUIRED" \in seen THEN "RECOVERY_REQUIRED"
    ELSE IF "QUEUED" \in seen /\ seen \subseteq Ended \cup {"QUEUED"} THEN "QUEUED"
    ELSE IF Cardinality(seen) = 1 /\ seen \subseteq Ended THEN CHOOSE s \in seen : TRUE
    ELSE IF seen \subseteq Ended THEN "PARTIAL"
    ELSE "PREPARING"

MoverPc == {"down", "recovering", "free", "look", "check", "reread", "publish",
            "moved", "indexing", "indexed", "failing", "finish"}
Mover == [pc : MoverPc, op : Op \cup {0}, at : Nat, kept : BOOLEAN,
          verdict : {"none", "FAILED", "RECOVERY_REQUIRED"}]
Resting(p) == [pc |-> p, op |-> 0, at |-> 0, kept |-> FALSE, verdict |-> "none"]
NoCancel == [op |-> 0, queued |-> {}]

MovesTypeOK ==
    /\ DOMAIN moves = Op /\ DOMAIN files = Op /\ DOMAIN index = Op
    /\ \A o \in Op :
          /\ moves[o] \in [status : MoveStatus, cancel : BOOLEAN,
                           stage : [Entries(o) -> MoveStage]]
          /\ files[o] \in [Entries(o) -> {"source", "both", "destination"}]
          /\ index[o] \in [Entries(o) -> {"source", "destination"}]
    /\ mover \in Mover /\ (mover.op # 0 => mover.at \in Entries(mover.op))
    /\ moveCancel.op \in Op \cup {0} /\ moveCancel.queued \subseteq Nat
    /\ raced \subseteq Op /\ moveFaults \in 0..MaxMoveFault

MovesInit ==
    /\ moves = [o \in Op |-> [status |-> "ABSENT", cancel |-> FALSE,
                              stage |-> [i \in Entries(o) |-> "QUEUED"]]]
    /\ files = [o \in Op |-> [i \in Entries(o) |-> "source"]]
    /\ index = [o \in Op |-> [i \in Entries(o) |-> "source"]]
    /\ mover = Resting("recovering")
    /\ moveCancel = NoCancel /\ raced = {} /\ moveFaults = 0

----------------------------------------------------------------------------
(* Requests.  Submitting a plan again returns the operation it has. *)

Enqueue(o) ==
    /\ moves[o].status = "ABSENT"
    /\ \A p \in Op : p < o => moves[p].status # "ABSENT"
    /\ moves' = [moves EXCEPT ![o].status = "QUEUED"]
    /\ UNCHANGED <<files, index, mover, moveCancel, raced, moveFaults>>

Waiting(o) == {i \in Entries(o) : moves[o].stage[i] = "QUEUED"}
Cancellable(o) ==
    /\ moves[o].status # "ABSENT"
    /\ moves[o].status \notin Terminal \/ Waiting(o) # {}

(* Only the flag changes unless the status that was read is QUEUED. *)
CancelClaimed(o) ==
    /\ moveCancel.op = 0 /\ Cancellable(o) /\ moves[o].status # "QUEUED"
    /\ moves' = [moves EXCEPT ![o].cancel = TRUE]
    /\ UNCHANGED <<files, index, mover, moveCancel, raced, moveFaults>>

CancelReads(o) ==
    /\ moveCancel.op = 0 /\ moves[o].status = "QUEUED"
    /\ moveCancel' = [op |-> o, queued |-> Waiting(o)]
    /\ UNCHANGED <<moves, files, index, mover, raced, moveFaults>>

CancelWrites ==
    LET o == moveCancel.op
        stage == [i \in Entries(o) |-> IF i \in moveCancel.queued THEN "CANCELLED"
                                       ELSE moves[o].stage[i]]
    IN /\ o # 0
       /\ moves' = [moves EXCEPT ![o] = [status |-> Finished(stage), cancel |-> TRUE,
                                         stage |-> stage]]
       /\ raced' = IF moves[o].status = "QUEUED" /\ moveCancel.queued \subseteq Waiting(o)
                   THEN raced ELSE raced \cup {o}
       /\ moveCancel' = NoCancel
       /\ UNCHANGED <<files, index, mover, moveFaults>>

----------------------------------------------------------------------------
(* The worker: recovery at its start, then one claim per turn. *)

Quarantined_Waiting(o) ==
    [i \in Entries(o) |-> IF moves[o].stage[i] \in InFlight THEN "QUEUED"
                          ELSE moves[o].stage[i]]
(* prepare_recovery: quarantine the interrupted entries of one operation *)
Quarantined(o) ==
    [i \in Entries(o) |-> IF moves[o].stage[i] \in InFlight THEN "RECOVERY_REQUIRED"
                          ELSE moves[o].stage[i]]
Interrupted == {o \in Op : Executing(o)}

QuarantineMove_Requeues(o) ==
    /\ mover.pc = "recovering" /\ o \in Interrupted
    /\ moves' = [moves EXCEPT ![o].status = "QUEUED"]
    /\ UNCHANGED <<files, index, mover, moveCancel, raced, moveFaults>>
QuarantineMove_Stages(o) ==
    /\ mover.pc = "recovering" /\ o \in Interrupted
    /\ moves' = [moves EXCEPT ![o].stage = Quarantined(o)]
    /\ UNCHANGED <<files, index, mover, moveCancel, raced, moveFaults>>

QuarantineMove(o) ==
    /\ mover.pc = "recovering" /\ o \in Interrupted
    /\ moves' = [moves EXCEPT ![o].stage = Quarantined(o),
                              ![o].status = Finished(Quarantined(o))]
    /\ UNCHANGED <<files, index, mover, moveCancel, raced, moveFaults>>

RecoveryEnds ==
    /\ mover.pc = "recovering" /\ Interrupted = {}
    /\ mover' = Resting("free")
    /\ UNCHANGED <<moves, files, index, moveCancel, raced, moveFaults>>

(* claim_next; busy: libraries with a RUNNING import or a live write lease *)
Claimable(o, busy) ==
    /\ moves[o].status \in {"QUEUED", "RECOVERY_REQUIRED", "PARTIAL", "FAILED"}
    /\ Waiting(o) # {}
    /\ MoveLibraries(o) \cap (busy \cup MovesBlock) = {}

ClaimMove(o, busy) ==
    /\ mover.pc = "free" /\ Claimable(o, busy)
    /\ \A p \in Op : Claimable(p, busy) => o <= p
    /\ moves' = [moves EXCEPT ![o].status = "PREPARING"]
    /\ mover' = [Resting("look") EXCEPT !.op = o, !.at = 1]
    /\ UNCHANGED <<files, index, moveCancel, raced, moveFaults>>

----------------------------------------------------------------------------
(* execute: the entries in plan order *)

Now == moves[mover.op].stage[mover.at]
OwnerOf(o, i) == IF Plan[o][i].owner = 0 THEN i ELSE Plan[o][i].owner
(* companions_published: the book's other files are already at their place *)
Companions(o, i) ==
    \E j \in Entries(o) : /\ Plan[o][j].owner = OwnerOf(o, i)
                          /\ moves[o].stage[j] \in {"COMPLETED", "INDEX_UPDATED",
                                                    "FILES_PUBLISHED"}
Save(s) == moves' = [moves EXCEPT ![mover.op].stage[mover.at] = s]
AtPc(p) == mover.pc = p
Goto(p) == mover' = [mover EXCEPT !.pc = p]
NextEntry ==
    IF mover.at < Len(Plan[mover.op])
    THEN [mover EXCEPT !.pc = "look", !.at = @ + 1, !.kept = FALSE, !.verdict = "none"]
    ELSE [mover EXCEPT !.pc = "finish", !.kept = FALSE, !.verdict = "none"]
FailWith(v) == mover' = [mover EXCEPT !.pc = "failing", !.verdict = v]
(* an error before anything is uncertain; known: a FileMoveError *)
Fails(kept) ==
    \E known \in BOOLEAN :
        FailWith(IF kept \/ ~known THEN "RECOVERY_REQUIRED" ELSE "FAILED")

SkipEntry ==
    /\ AtPc("look") /\ Now \in Ended \cup {"RECOVERY_REQUIRED"}
    /\ mover' = NextEntry
    /\ UNCHANGED <<moves, files, index, moveCancel, raced, moveFaults>>

CancelEntry_Plain ==
    /\ AtPc("look") /\ Now = "QUEUED" /\ moves[mover.op].cancel
    /\ Save("CANCELLED") /\ mover' = NextEntry
    /\ UNCHANGED <<files, index, moveCancel, raced, moveFaults>>

(* A cancelled book whose companions are at their place is not CANCELLED. *)
CancelEntry ==
    LET kept == Companions(mover.op, mover.at) IN
    /\ AtPc("look") /\ Now = "QUEUED" /\ moves[mover.op].cancel
    /\ IF kept THEN FailWith("RECOVERY_REQUIRED") /\ UNCHANGED moves
       ELSE Save("CANCELLED") /\ mover' = NextEntry
    /\ UNCHANGED <<files, index, moveCancel, raced, moveFaults>>

LookEntry_Retries ==
    /\ AtPc("look") /\ Now \in {"QUEUED", "RECOVERY_REQUIRED"} /\ ~moves[mover.op].cancel
    /\ mover' = [mover EXCEPT !.pc = "check", !.kept = Companions(mover.op, mover.at)]
    /\ UNCHANGED <<moves, files, index, moveCancel, raced, moveFaults>>

LookEntry ==
    /\ AtPc("look") /\ Now = "QUEUED" /\ ~moves[mover.op].cancel
    /\ mover' = [mover EXCEPT !.pc = "check", !.kept = Companions(mover.op, mover.at)]
    /\ UNCHANGED <<moves, files, index, moveCancel, raced, moveFaults>>

(* access, index and files are validated outside a transaction *)
CheckEntry ==
    /\ AtPc("check")
    /\ \/ Save("PREPARING") /\ Goto("reread")
       \/ Fails(mover.kept) /\ UNCHANGED moves
    /\ UNCHANGED <<files, index, moveCancel, raced, moveFaults>>

(* directories are created, then the flag is read once more *)
RereadCancel ==
    /\ AtPc("reread")
    /\ \/ Fails(mover.kept) /\ UNCHANGED moves
       \/ ~moves[mover.op].cancel /\ Goto("publish") /\ UNCHANGED moves
       \/ /\ moves[mover.op].cancel
          /\ IF mover.kept THEN FailWith("RECOVERY_REQUIRED") /\ UNCHANGED moves
             ELSE Save("CANCELLED") /\ mover' = NextEntry
    /\ UNCHANGED <<files, index, moveCancel, raced, moveFaults>>

PublishFiles_Failed ==
    /\ AtPc("publish")
    /\ \E place \in {"source", "both", "destination"} :
          /\ files' = [files EXCEPT ![mover.op][mover.at] = place]
          /\ \/ place = "destination" /\ Goto("moved")
             \/ FailWith("FAILED")
    /\ UNCHANGED <<moves, index, moveCancel, raced, moveFaults>>

(* mv reports an error whatever it did; a copy across volumes may stop midway *)
PublishFiles ==
    /\ AtPc("publish")
    /\ \E place \in {"source", "both", "destination"} :
          /\ files' = [files EXCEPT ![mover.op][mover.at] = place]
          /\ \/ place = "destination" /\ Goto("moved")
             \/ FailWith("RECOVERY_REQUIRED")
    /\ UNCHANGED <<moves, index, moveCancel, raced, moveFaults>>

SavePublished ==
    /\ AtPc("moved")
    /\ Save("FILES_PUBLISHED") /\ Goto("indexing")
    /\ UNCHANGED <<files, index, moveCancel, raced, moveFaults>>

(* index, discarded writebacks, import rows and checkpoint: one transaction *)
ApplyIndex ==
    /\ AtPc("indexing")
    /\ \/ /\ index' = [index EXCEPT ![mover.op][mover.at] = "destination"]
          /\ Save("INDEX_UPDATED") /\ Goto("indexed")
       \/ FailWith("RECOVERY_REQUIRED") /\ UNCHANGED <<moves, index>>
    /\ UNCHANGED <<files, moveCancel, raced, moveFaults>>

SaveCompleted ==
    /\ AtPc("indexed")
    /\ Save("COMPLETED") /\ mover' = NextEntry
    /\ UNCHANGED <<files, index, moveCancel, raced, moveFaults>>

SaveFailure ==
    /\ AtPc("failing")
    /\ Save(mover.verdict) /\ mover' = NextEntry
    /\ UNCHANGED <<files, index, moveCancel, raced, moveFaults>>

FinishMove_Unsaved ==
    /\ AtPc("finish") /\ mover' = Resting("free")
    /\ UNCHANGED <<moves, files, index, moveCancel, raced, moveFaults>>

FinishMove ==
    /\ AtPc("finish")
    /\ moves' = [moves EXCEPT ![mover.op].status = Finished(moves[mover.op].stage)]
    /\ mover' = Resting("free")
    /\ UNCHANGED <<files, index, moveCancel, raced, moveFaults>>

----------------------------------------------------------------------------
(* Faults *)

(* A commit of the executor that fails inside the entry's try block. *)
CommitFails ==
    /\ \/ mover.pc \in {"moved", "indexed"}
       \/ AtPc("look") /\ Now = "QUEUED" /\ moves[mover.op].cancel
    /\ moveFaults < MaxMoveFault
    /\ FailWith("RECOVERY_REQUIRED")
    /\ moveFaults' = moveFaults + 1
    /\ UNCHANGED <<moves, files, index, moveCancel, raced>>

(* One that fails outside it ends the turn; the next claim finds the same rows. *)
Escape ==
    /\ mover.pc \in {"look", "failing", "finish"} /\ moveFaults < MaxMoveFault
    /\ mover' = Resting("free")
    /\ moveFaults' = moveFaults + 1
    /\ UNCHANGED <<moves, files, index, moveCancel, raced>>

CrashMover ==
    /\ mover.pc # "down" /\ moveFaults < MaxMoveFault
    /\ mover' = Resting("down")
    /\ moveFaults' = moveFaults + 1
    /\ UNCHANGED <<moves, files, index, moveCancel, raced>>

StartMover ==
    /\ mover.pc = "down"
    /\ mover' = Resting("recovering")
    /\ UNCHANGED <<moves, files, index, moveCancel, raced, moveFaults>>

MoveRequests == \E o \in Op : Enqueue(o) \/ CancelClaimed(o) \/ CancelReads(o)
ExecuteMove ==
    \/ SkipEntry \/ CancelEntry \/ LookEntry \/ CheckEntry \/ RereadCancel
    \/ PublishFiles \/ SavePublished \/ ApplyIndex \/ SaveCompleted
    \/ SaveFailure \/ FinishMove
RecoverMoves == RecoveryEnds \/ \E o \in Op : QuarantineMove(o)
MoveFaults == CommitFails \/ Escape

MovesNext ==
    \/ MoveRequests \/ CancelWrites \/ ExecuteMove \/ RecoverMoves \/ MoveFaults
    \/ CrashMover \/ StartMover
    \/ \E o \in Op, busy \in SUBSET Library : ClaimMove(o, busy)
MovesSpec == MovesInit /\ [][MovesNext]_moveVars

----------------------------------------------------------------------------
(* Properties *)

(* What an entry's stage tells the user is where its files and its index   *)
(* are: one that waits, was cancelled or failed has moved nothing, one     *)
(* that is complete has moved both, and the index is never ahead of the    *)
(* files.  Out of reach: an operation a cancel overwrote after it was      *)
(* claimed, because cancel writes from what it read.                       *)
OutcomeIsTrue ==
    \A o \in Op \ raced : \A i \in Entries(o) :
        /\ moves[o].stage[i] \in {"QUEUED", "CANCELLED", "FAILED"} =>
              files[o][i] = "source" /\ index[o][i] = "source"
        /\ moves[o].stage[i] = "COMPLETED" =>
              files[o][i] = "destination" /\ index[o][i] = "destination"
        /\ index[o][i] = "destination" => files[o][i] = "destination"

(* While an entry is being moved, its operation's status keeps both        *)
(* libraries closed to imports and writebacks, even across a crash.        *)
MovingIsLocked ==
    \A o \in Op \ raced :
        (\E i \in Entries(o) : moves[o].stage[i] \in InFlight) => Executing(o)

(* A book is not reported as cancelled or failed, which tells the user     *)
(* that it stayed, while a companion of it is reported as moved.  Out of   *)
(* reach after a fault: recovery puts an operation interrupted between a   *)
(* companion and its book back in the queue, and cancelling it there does  *)
(* not look at the companions as the executor would.                       *)
BooksKeepCompanions ==
    moveFaults = 0 =>
        \A o \in Op \ raced : \A i, j \in Entries(o) :
            Plan[o][j].owner = i /\ moves[o].stage[j] = "COMPLETED" =>
                moves[o].stage[i] \notin {"CANCELLED", "FAILED"}

(* Every run of the worker leaves a settled or quarantined entry as it     *)
(* is: an uncertain publication is never retried and files never move      *)
(* again.                                                                  *)
SettledEntriesStay ==
    [][\A o \in Op : o \notin raced' =>
          \A i \in Entries(o) :
              moves[o].stage[i] \in Ended \cup {"RECOVERY_REQUIRED"} =>
                  /\ moves'[o].stage[i] = moves[o].stage[i]
                  /\ files'[o][i] = files[o][i]]_moveVars

(* The files of an entry are moved by one attempt at most: once they are    *)
(* not at their source any more, nothing touches them again, neither the    *)
(* recovery, nor another claim, nor a worker whose row a cancel overwrote   *)
(* while it moved them.                                                    *)
FilesMoveOnce ==
    [][\A o \in Op : \A i \in Entries(o) :
          files[o][i] # "source" => files'[o][i] = files[o][i]]_moveVars

(* An operation left executing by a failed commit waits for a restart. *)
Stranded(o) ==
    Executing(o) /\ mover.op # o /\ mover.pc # "recovering" /\ moveFaults > 0

(* A claimed operation releases its libraries, unless a commit that failed *)
(* outside the entry's handler stranded it, and recovery at the start of    *)
(* the worker releases every one it finds.                                 *)
ClaimedMovesEnd ==
    \A o \in Op :
        /\ Executing(o) ~> (~Executing(o) \/ Stranded(o))
        /\ (Executing(o) /\ mover.pc = "recovering") ~> ~Executing(o)
=============================================================================
