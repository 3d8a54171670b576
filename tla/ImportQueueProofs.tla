------------------------- MODULE ImportQueueProofs -------------------------
(***************************************************************************)
(* Theorems about the import queue, for every set of libraries and Books   *)
(* and every bound.                                                        *)
(***************************************************************************)
EXTENDS ImportQueue, TLAPS

(* Typing of the operators rows, gaps and workers are built with.          *)

\* A fresh row is a row.
LEMMA QueuedRowType ==
    ASSUME NEW k \in Kinds, NEW s \in Scope, NEW w \in Work,
           k = "SCAN_LIBRARY" <=> s \in Library
    PROVE  QueuedRow(k, s, w) \in Row
BY BookLibraryAssumption DEF QueuedRow, Row, Work, Kinds, ScanKinds, States, Phases, BookPhase

\* The placeholder of a row not inserted yet is a row.
LEMMA NoRowType == NoRow \in Row /\ NoRow.state = "ABSENT"
<1>1. (CHOOSE l \in Library : TRUE) \in Library
  BY BookLibraryAssumption
<1>2. QueuedRow("SCAN_LIBRARY", CHOOSE l \in Library : TRUE, NoWork) \in Row
  BY <1>1, QueuedRowType DEF Scope, Kinds, ScanKinds, Work, NoWork
<1> QED BY <1>2 DEF NoRow, Row, States

\* A worker at rest is a worker without a row.
LEMMA AtRestType ==
    ASSUME NEW p \in WorkerPc
    PROVE  AtRest(p) \in Worker /\ AtRest(p).pc = p /\ AtRest(p).id = 0
BY DEF AtRest, Worker, WorkerPc

\* A worker that has just claimed a row is a worker.
LEMMA ClaimedWorkerType ==
    ASSUME NEW p \in WorkerPc, NEW i \in Id, NEW n \in Nat
    PROVE  /\ [AtRest(p) EXCEPT !.id = i, !.rev = n] \in Worker
           /\ [AtRest(p) EXCEPT !.id = i] \in Worker
BY DEF AtRest, Worker

\* Merging and clearing scan scopes yield scan scopes.
LEMMA GapType ==
    ASSUME NEW g \in SUBSET Scope, NEW S \in SUBSET Scope, NEW s \in Scope
    PROVE  RecordGap(g, S) \subseteq Scope /\ ClearGap(g, s) \subseteq Scope
BY DEF RecordGap, ClearGap

\* New metadata is metadata.
LEMMA FreshMetadataType == FreshMetadata \in Metadata
BY DEF FreshMetadata, Metadata

\* A new revision of metadata is metadata.
LEMMA RevisedType ==
    ASSUME NEW m \in Metadata, NEW p \in BOOLEAN
    PROVE  Revised(m, p) \in Metadata
<1>1. m.rev + 1 \in Nat
  BY DEF Metadata
<1> QED BY <1>1 DEF Revised, Metadata

\* Changing the state of a row leaves a row.
LEMMA StateType ==
    ASSUME NEW r \in Row, NEW s \in States
    PROVE  [r EXCEPT !.state = s] \in Row
<1>1. /\ [r EXCEPT !.state = s].kind = r.kind
      /\ [r EXCEPT !.state = s].scope = r.scope
  BY DEF Row
<1> QED BY <1>1 DEF Row

\* So does changing it in the table.
LEMMA TableStateType ==
    ASSUME NEW T \in [Id -> Row], NEW i \in Id, NEW s \in States
    PROVE  [T EXCEPT ![i].state = s] \in [Id -> Row]
BY StateType

\* Discarding rows leaves rows.
LEMMA DeleteRowsType ==
    ASSUME NEW T \in [Id -> Row], NEW D
    PROVE  DeleteRows(T, D) \in [Id -> Row]
BY StateType DEF DeleteRows, States

\* The library of a scope is a library.
LEMMA LibraryOfType == \A s \in Scope : LibraryOf(s) \in Library
BY BookLibraryAssumption DEF LibraryOf, Scope

\* Inserting a row keeps the table typed.
LEMMA EnqueueType ==
    ASSUME TypeOK, NEW row \in Row, Enqueue(row)
    PROVE  task' \in [Id -> Row] /\ last' \in 0..MaxTask
<1>1. last + 1 \in Id
  BY BoundAssumption DEF Enqueue, TypeOK, Id
<1> QED BY <1>1, BoundAssumption DEF Enqueue, TypeOK, Id

\* A step that registers a request keeps the state typed.
LEMMA RequestType ==
    ASSUME TypeOK, NEW row \in Row, Request(row)
    PROVE  TypeOK'
<1>1. task' \in [Id -> Row] /\ last' \in 0..MaxTask
  BY EnqueueType DEF Request
<1>2. used' \in [request : 0..MaxRequest, fault : 0..MaxFault, fileop : 0..MaxFileOp]
  BY BoundAssumption DEF Request, TypeOK
<1> QED BY <1>1, <1>2 DEF Request, TypeOK

----------------------------------------------------------------------------
(* Type correctness, one group of actions at a time.                       *)

\* Requests keep the state typed.
LEMMA RequestsType ==
    ASSUME TypeOK, Requests
    PROVE  TypeOK'
<1>1. ASSUME NEW b \in Book, NEW w \in Work, RequestBookWork(b, w)
      PROVE  TypeOK'
  BY <1>1, RequestType, QueuedRowType, BookLibraryAssumption DEF RequestBookWork, Scope, Kinds
<1>2. ASSUME NEW b \in Book, RequestSourceScan(b)
      PROVE  TypeOK'
  BY <1>2, RequestType, QueuedRowType, BookLibraryAssumption
     DEF RequestSourceScan, Scope, Kinds, ScanKinds, Work, NoWork
<1>3. ASSUME NEW l \in Library, RequestLibraryScan(l)
      PROVE  TypeOK'
  BY <1>3, RequestType, QueuedRowType, BookLibraryAssumption
     DEF RequestLibraryScan, Scope, Kinds, ScanKinds, Work, NoWork
<1>4. ASSUME NEW i \in Id, ContinueBookTask(i)
      PROVE  TypeOK'
  <2>1. task[i].work \in Work
    BY <1>4 DEF TypeOK, Row
  <2>2. task[i].scope \in Book
    BY <1>4 DEF ContinueBookTask, RequestBookWork, TypeOK
  <2> QED BY <1>1, <1>4, <2>1, <2>2 DEF ContinueBookTask
<1> QED BY <1>1, <1>2, <1>3, <1>4, BoundAssumption DEF Requests

\* Forgetting a Book keeps rows, Books and metadata typed.
LEMMA ForgetBookType ==
    ASSUME TypeOK, NEW b \in Book, ForgetBook(b)
    PROVE  task' \in [Id -> Row] /\ book' \subseteq Book /\ meta' \in [Book -> Metadata]
BY DeleteRowsType, FreshMetadataType DEF ForgetBook, TypeOK

\* Removals keep the state typed.
LEMMA RemovalsType ==
    ASSUME TypeOK, Removals
    PROVE  TypeOK'
<1>1. ASSUME NEW b \in Book, DeleteBookSources(b)
      PROVE  TypeOK'
  <2>1. used' \in [request : 0..MaxRequest, fault : 0..MaxFault, fileop : 0..MaxFileOp]
    BY <1>1, BoundAssumption DEF DeleteBookSources, TypeOK
  <2>2. task' \in [Id -> Row] /\ book' \subseteq Book /\ meta' \in [Book -> Metadata]
    BY <1>1, ForgetBookType DEF DeleteBookSources
  <2> QED BY <1>1, <2>1, <2>2 DEF DeleteBookSources, TypeOK
<1>2. ASSUME NEW b \in Book, DeleteMemberSource(b)
      PROVE  TypeOK'
  <2>1. used' \in [request : 0..MaxRequest, fault : 0..MaxFault, fileop : 0..MaxFileOp]
    BY <1>2, BoundAssumption DEF DeleteMemberSource, TypeOK
  <2>2. meta' \in [Book -> Metadata]
    BY <1>2, RevisedType DEF DeleteMemberSource, TypeOK
  <2> QED BY <1>2, <2>1, <2>2 DEF DeleteMemberSource, TypeOK
<1>3. ASSUME NEW l \in Library, ChangeOrganizationMode(l)
      PROVE  TypeOK'
  <2>1. used' \in [request : 0..MaxRequest, fault : 0..MaxFault, fileop : 0..MaxFileOp]
    BY <1>3, BoundAssumption DEF ChangeOrganizationMode, TypeOK
  <2>2. QueuedRow("SCAN_LIBRARY", l, NoWork) \in Row
    BY QueuedRowType DEF Scope, Kinds, ScanKinds, Work, NoWork
  <2>3. task' \in [Id -> Row]
    BY <1>3, <2>2, DeleteRowsType DEF ChangeOrganizationMode, TypeOK
  <2>4. meta' \in [Book -> Metadata]
    BY <1>3, FreshMetadataType DEF ChangeOrganizationMode, TypeOK
  <2>5. last' \in 0..MaxTask
    BY <1>3, BoundAssumption DEF ChangeOrganizationMode, TypeOK
  <2> QED BY <1>3, <2>1, <2>3, <2>4, <2>5 DEF ChangeOrganizationMode, TypeOK
<1>4. ASSUME NEW l \in Library, RequestLibraryRemoval(l)
      PROVE  TypeOK'
  BY <1>4 DEF RequestLibraryRemoval, TypeOK
<1> QED BY <1>1, <1>2, <1>3, <1>4 DEF Removals

\* Library clean-up and file operations keep the state typed.
LEMMA LibrariesType ==
    ASSUME TypeOK, NEW l \in Library,
           CleanUpLibrary(l) \/ BeginFileOperation(l) \/ EndFileOperation(l)
    PROVE  TypeOK'
<1>1. CASE CleanUpLibrary(l)
  BY <1>1, DeleteRowsType, FreshMetadataType DEF CleanUpLibrary, TypeOK
<1>2. CASE BeginFileOperation(l)
  <2>1. used' \in [request : 0..MaxRequest, fault : 0..MaxFault, fileop : 0..MaxFileOp]
    BY <1>2, BoundAssumption DEF BeginFileOperation, TypeOK
  <2> QED BY <1>2, <2>1 DEF BeginFileOperation, TypeOK
<1>3. CASE EndFileOperation(l)
  BY <1>3 DEF EndFileOperation, TypeOK
<1> QED BY <1>1, <1>2, <1>3

\* Start, recovery and claim keep the state typed.
LEMMA StartingType ==
    ASSUME TypeOK, Start \/ RecoverInterrupted \/ \E i \in Id : Claim(i)
    PROVE  TypeOK'
<1>1. CASE Start
  BY <1>1, AtRestType DEF Start, TypeOK, WorkerPc
<1>2. CASE RecoverInterrupted
  <2>1. UnstartedScopes(Interrupted) \subseteq Scope
    BY DEF UnstartedScopes, Interrupted, TypeOK, Row
  <2>2. task' \in [Id -> Row]
    BY <1>2, StateType DEF RecoverInterrupted, TypeOK, States
  <2>3. worker' \in Worker
    BY <1>2, AtRestType DEF RecoverInterrupted, WorkerPc
  <2>4. gap' \subseteq Scope
    BY <1>2, <2>1 DEF RecoverInterrupted, RecordGap, TypeOK
  <2> QED BY <1>2, <2>2, <2>3, <2>4 DEF RecoverInterrupted, TypeOK
<1>3. ASSUME NEW i \in Id, Claim(i)
      PROVE  TypeOK'
  <2>1. task' \in [Id -> Row]
    BY <1>3, TableStateType DEF Claim, TypeOK, States
  <2>2. worker' \in Worker /\ meta' \in [Book -> Metadata] /\ owed' \subseteq Book
    <3>1. FirstPc(i) \in WorkerPc /\ "scan" \in WorkerPc
      BY DEF FirstPc, WorkerPc
    <3>2. CASE task[i].kind = "IMPORT_BOOK"
      <4>1. task[i].scope \in Book
        BY <3>2 DEF TypeOK, Row, Scope
      <4>2. meta[task[i].scope] \in Metadata /\ meta[task[i].scope].rev + 1 \in Nat
        BY <4>1 DEF TypeOK, Metadata
      <4>3. worker' \in Worker
        <5>1. worker' = [AtRest(FirstPc(i)) EXCEPT
                           !.id = i, !.rev = meta[task[i].scope].rev + 1]
          BY <1>3, <3>2 DEF Claim
        <5> QED BY <3>1, <4>2, <5>1, ClaimedWorkerType
      <4>4. meta' \in [Book -> Metadata] /\ owed' \subseteq Book
        BY <1>3, <3>2, <4>1, <4>2, RevisedType DEF Claim, TypeOK
      <4> QED BY <4>3, <4>4
    <3>3. CASE task[i].kind # "IMPORT_BOOK"
      <4>1. worker' \in Worker
        <5>1. worker' = [AtRest("scan") EXCEPT !.id = i]
          BY <1>3, <3>3 DEF Claim
        <5>2. 0 \in Nat
          OBVIOUS
        <5> QED BY <3>1, <5>1, <5>2, ClaimedWorkerType
      <4> QED BY <1>3, <3>3, <4>1 DEF Claim, TypeOK
    <3> QED BY <3>2, <3>3
  <2> QED BY <1>3, <2>1, <2>2 DEF Claim, TypeOK
<1> QED BY <1>1, <1>2, <1>3

\* What a worker that holds a row knows of it.
LEMMA HeldRow ==
    ASSUME TypeOK, NEW p, At(p)
    PROVE  /\ me \in Id /\ myScope \in Scope
           /\ task[me].kind # "SCAN_LIBRARY" => myScope \in Book
BY DEF At, TypeOK, Row, Scope, me, myScope

\* Moving the worker on keeps it typed.
LEMMA GotoType ==
    ASSUME TypeOK
    PROVE  /\ \A p \in WorkerPc : Goto(p) => worker' \in Worker
           /\ \A o \in {"ok", "partial", "error"} : FinishWith(o) => worker' \in Worker
BY DEF Goto, FinishWith, TypeOK, Worker, WorkerPc

\* The scan keeps the state typed.
LEMMA ScanningType ==
    ASSUME TypeOK, Scanning
    PROVE  TypeOK'
<1>1. CASE ScanUnavailable
  BY <1>1, GotoType DEF ScanUnavailable, TypeOK
<1>2. CASE BeginRound
  <2>1. me \in Id /\ myScope \in Scope
    BY <1>2, HeldRow DEF BeginRound
  <2>2. worker' \in Worker
    BY <1>2, GotoType DEF BeginRound, WorkerPc
  <2>3. gap' \subseteq Scope
    BY <1>2, <2>1, GapType DEF BeginRound, TypeOK
  <2>4. task' \in [Id -> Row]
    <3> DEFINE r == task[me]
               round == r.round \/ (HasRound(me) /\ r.kind \in ScanKinds /\ Running(me))
    <3>1. r \in Row
      BY <2>1 DEF TypeOK
    <3>2. round \in BOOLEAN
      BY <3>1 DEF Row
    <3> HIDE DEF round
    <3>3. [r EXCEPT !.round = round] \in Row
      <4>1. /\ [r EXCEPT !.round = round].kind = r.kind
            /\ [r EXCEPT !.round = round].scope = r.scope
        BY <3>1 DEF Row
      <4> QED BY <3>1, <3>2, <4>1 DEF Row
    <3>4. task' = [task EXCEPT ![me] = [r EXCEPT !.round = round]]
      BY <1>2 DEF BeginRound, round
    <3> QED BY <2>1, <3>3, <3>4 DEF TypeOK
  <2> QED BY <1>2, <2>2, <2>3, <2>4 DEF BeginRound, TypeOK
<1>3. ASSUME NEW b \in Book, PruneBook(b)
      PROVE  TypeOK'
  BY <1>3, ForgetBookType DEF PruneBook, TypeOK
<1>4. ASSUME NEW b \in Book, NEW changed \in BOOLEAN, VisitBook(b, changed)
      PROVE  TypeOK'
  <2>1. QueuedRow("IMPORT_BOOK", b, [scan |-> FALSE, res |-> "all"]) \in Row
    BY QueuedRowType, BookLibraryAssumption DEF Scope, Kinds, Work
  <2>2. task' \in [Id -> Row] /\ last' \in 0..MaxTask
    BY <1>4, <2>1, EnqueueType DEF VisitBook, TypeOK
  <2>3. worker' \in Worker
    BY <1>4 DEF VisitBook, TypeOK, Worker
  <2> QED BY <1>4, <2>2, <2>3 DEF VisitBook, TypeOK
<1>5. CASE EndRound
  <2>1. myScope \in Scope
    BY <1>5, HeldRow DEF EndRound
  <2>2. worker' \in Worker
    BY <1>5, GotoType DEF EndRound, WorkerPc
  <2>3. gap' \subseteq Scope
    BY <1>5, <2>1, GapType DEF EndRound, TypeOK
  <2> QED BY <1>5, <2>2, <2>3 DEF EndRound, TypeOK
<1>6. ASSUME NEW F \in SUBSET Scope, ScanFails(F)
      PROVE  TypeOK'
  <2>1. myScope \in Scope
    BY <1>6, HeldRow DEF ScanFails
  <2>2. worker' \in Worker
    BY <1>6, GotoType DEF ScanFails
  <2>3. gap' \subseteq Scope
    BY <1>6, <2>1, GapType DEF ScanFails, TypeOK
  <2> QED BY <1>6, <2>2, <2>3 DEF ScanFails, TypeOK
<1>7. CASE ScanFailsUnrecorded
  BY <1>7, GotoType DEF ScanFailsUnrecorded, TypeOK
<1> QED BY <1>1, <1>2, <1>3, <1>4, <1>5, <1>6, <1>7 DEF Scanning

\* Changing the phase of a row leaves a row.
LEMMA PhaseType ==
    ASSUME NEW r \in Row, NEW p \in Phases
    PROVE  [r EXCEPT !.phase = p] \in Row
<1>1. /\ [r EXCEPT !.phase = p].kind = r.kind
      /\ [r EXCEPT !.phase = p].scope = r.scope
  BY DEF Row
<1> QED BY <1>1 DEF Row

\* A phase change keeps the state typed.
LEMMA AdvancePhaseType ==
    ASSUME TypeOK, NEW from, NEW to \in {"res", "ident"}, AdvancePhase(from, to)
    PROVE  TypeOK'
<1>1. me \in Id
  BY HeldRow DEF AdvancePhase
<1>2. worker' \in Worker
  BY GotoType DEF AdvancePhase, WorkerPc
<1>3. task' \in [Id -> Row]
  <2> DEFINE p == IF to = "res" THEN "RESOURCES" ELSE "IDENTIFY"
  <2>1. p \in Phases
    BY DEF Phases
  <2>2. task' = [task EXCEPT ![me].phase = p] \/ task' = task
    BY DEF AdvancePhase
  <2> HIDE DEF p
  <2> QED BY <1>1, <2>1, <2>2, PhaseType DEF TypeOK
<1> QED BY <1>2, <1>3 DEF AdvancePhase, TypeOK

\* A Book run keeps the state typed.
LEMMA BookRunType ==
    ASSUME TypeOK, WorkerRow, BookRun
    PROVE  TypeOK'
<1>1. CASE AfterScan \/ ResourcesEnd
  BY <1>1, AdvancePhaseType DEF AfterScan, ResourcesEnd
<1>2. CASE SomeResourcesFail
  BY <1>2 DEF SomeResourcesFail, TypeOK, Worker
<1>3. CASE RunFails
  BY <1>3, GotoType DEF RunFails, TypeOK
<1>4. CASE IdentifyLoad \/ IdentifyApply \/ IdentifyStale
  <2>1. worker.pc \in {"ident", "apply"}
    BY <1>4 DEF IdentifyLoad, IdentifyApply, IdentifyStale, At
  <2>2. myScope \in Book /\ me \in Id
    BY <2>1 DEF WorkerRow, BookPc, TypeOK, Row, Scope, me, myScope
  <2>3. meta[myScope] \in Metadata /\ meta[myScope].rev \in Nat /\ worker.rev \in Nat
    BY <2>2 DEF TypeOK, Metadata, Worker
  <2>4. worker.out \in {"ok", "partial", "error"}
    BY DEF TypeOK, Worker
  <2>5. CASE IdentifyLoad
    <3>1. worker' \in Worker
      BY <2>3, <2>5 DEF IdentifyLoad, TypeOK, Worker, WorkerPc
    <3>2. meta' \in [Book -> Metadata]
      BY <2>2, <2>3, <2>5 DEF IdentifyLoad, TypeOK, Metadata
    <3> QED BY <2>5, <3>1, <3>2 DEF IdentifyLoad, TypeOK
  <2>6. CASE IdentifyApply
    <3>1. worker' \in Worker
      BY <2>4, <2>6, GotoType DEF IdentifyApply
    <3>2. meta' \in [Book -> Metadata]
      BY <2>2, <2>3, <2>6 DEF IdentifyApply, TypeOK, Metadata
    <3> QED BY <2>6, <3>1, <3>2 DEF IdentifyApply, TypeOK
  <2>7. CASE IdentifyStale
    BY <2>4, <2>7, GotoType DEF IdentifyStale, StaleOutcome, TypeOK
  <2> QED BY <1>4, <2>5, <2>6, <2>7
<1> QED BY <1>1, <1>2, <1>3, <1>4 DEF BookRun

\* Failing a row keeps the state typed.
LEMMA FailRowType ==
    ASSUME TypeOK, At(worker.pc), NEW partial \in BOOLEAN, FailRow(partial)
    PROVE  TypeOK'
<1>1. me \in Id /\ myScope \in Scope /\ task[me] \in Row
  BY HeldRow DEF TypeOK
<1>2. task' \in [Id -> Row]
  BY <1>1, TableStateType DEF FailRow, TypeOK, States
<1>3. gap' \subseteq Scope
  BY <1>1, GapType DEF FailRow, FailureGap, TypeOK
<1>4. meta' \in [Book -> Metadata]
  <2>1. CASE task[me].kind = "IMPORT_BOOK" /\ ~partial
    <3>1. myScope \in Book
      BY <1>1, <2>1, HeldRow
    <3>2. meta[myScope] \in Metadata
      BY <3>1 DEF TypeOK
    <3> QED BY <2>1, <3>1, <3>2 DEF FailRow, TypeOK, Metadata
  <2>2. CASE ~(task[me].kind = "IMPORT_BOOK" /\ ~partial)
    BY <2>2 DEF FailRow, TypeOK
  <2> QED BY <2>1, <2>2
<1>5. worker' \in Worker
  BY AtRestType DEF FailRow, WorkerPc
<1> QED BY <1>2, <1>3, <1>4, <1>5 DEF FailRow, TypeOK

\* Spending a fault keeps the bounds.
LEMMA FaultType ==
    ASSUME TypeOK, used.fault < MaxFault, used' = [used EXCEPT !.fault = @ + 1]
    PROVE  used' \in [request : 0..MaxRequest, fault : 0..MaxFault, fileop : 0..MaxFileOp]
BY BoundAssumption DEF TypeOK

\* Terminal writes keep the state typed.
LEMMA FinishingType ==
    ASSUME TypeOK, Finishing
    PROVE  TypeOK'
<1>1. CASE FinishCancelled \/ CloseCancelled
  BY <1>1, AtRestType DEF FinishCancelled, CloseCancelled, TypeOK, WorkerPc
<1>2. CASE FinishSuccess
  <2>1. me \in Id
    BY <1>2, HeldRow DEF FinishSuccess
  <2>2. task' \in [Id -> Row]
    <3> DEFINE r == task[me]
               p == IF r.phase = "NONE" THEN r.phase ELSE "FINALIZE"
    <3>1. r \in Row /\ p \in Phases /\ "SUCCEEDED" \in States
      BY <2>1 DEF TypeOK, Row, Phases, States
    <3>2. task' = [task EXCEPT ![me] = [[r EXCEPT !.state = "SUCCEEDED"] EXCEPT !.phase = p]]
      BY <1>2, <2>1, <3>1 DEF FinishSuccess, TypeOK, Row
    <3> HIDE DEF r, p
    <3>3. [[r EXCEPT !.state = "SUCCEEDED"] EXCEPT !.phase = p] \in Row
      BY <3>1, StateType, PhaseType
    <3> QED BY <2>1, <3>2, <3>3 DEF TypeOK
  <2>3. worker' \in Worker
    BY <1>2, AtRestType DEF FinishSuccess, WorkerPc
  <2> QED BY <1>2, <2>2, <2>3 DEF FinishSuccess, TypeOK
<1>3. CASE FinishFailure \/ Close
  BY <1>3, FailRowType DEF FinishFailure, Close, At
<1>4. CASE FinishRaises
  <2>1. worker' \in Worker
    BY <1>4, GotoType DEF FinishRaises, WorkerPc
  <2>2. used' \in [request : 0..MaxRequest, fault : 0..MaxFault, fileop : 0..MaxFileOp]
    BY <1>4, FaultType DEF FinishRaises, TypeOK
  <2> QED BY <1>4, <2>1, <2>2 DEF FinishRaises, TypeOK
<1> QED BY <1>1, <1>2, <1>3, <1>4 DEF Finishing

\* Lost rows and crashes keep the state typed.
LEMMA FaultsType ==
    ASSUME TypeOK, Crash \/ \E to \in {"idle", "paused"} : LoseRow(to)
    PROVE  TypeOK'
<1>1. CASE Crash
  BY <1>1, FaultType, AtRestType DEF Crash, Fault, TypeOK, WorkerPc
<1>2. ASSUME NEW to \in {"idle", "paused"}, LoseRow(to)
      PROVE  TypeOK'
  BY <1>2, FaultType, AtRestType DEF LoseRow, Fault, Mine, TypeOK, WorkerPc
<1> QED BY <1>1, <1>2

----------------------------------------------------------------------------
(* The rows and the worker's hold on them.                                 *)

\* A step keeps WorkerRow when it changes no kind, inserts at most the next row
\* and lets the worker rest, stay, or move on with a row.
LEMMA WorkerRowKept ==
    ASSUME TypeOK, WorkerRow, last' \in {last, last + 1},
           \A i \in Id : i <= last => task'[i].kind = task[i].kind,
           \A i \in Id : i > last' => task'[i].state = "ABSENT",
           \/ worker'.pc \notin BookPc /\ worker'.id = 0
           \/ worker'.pc = worker.pc /\ worker'.id = worker.id
           \/ /\ worker'.pc \notin {"down", "boot", "idle", "paused"}
              /\ worker'.id \in Id /\ worker'.id <= last
              /\ worker'.pc \in BookPc => task[worker'.id].kind = "IMPORT_BOOK"
    PROVE  WorkerRow'
<1>1. last \in Nat /\ last' \in Nat /\ last <= last'
  BY BoundAssumption DEF TypeOK
<1>2. worker.id \in Nat /\ worker.id <= last
  BY DEF WorkerRow, TypeOK, Worker, Id
<1>3. worker'.id \in Nat /\ worker'.id <= last'
  BY <1>1, <1>2 DEF Id
<1>4. worker'.pc \in {"down", "boot", "idle", "paused"} => worker'.id = 0
  BY DEF WorkerRow
<1>5. worker'.pc \in BookPc => /\ worker'.id \in Id /\ worker'.id <= last
                              /\ task[worker'.id].kind = "IMPORT_BOOK"
  BY <1>2 DEF WorkerRow, me
<1>6. worker'.pc \in BookPc => me' \in Id /\ task'[me'].kind = "IMPORT_BOOK"
  BY <1>5 DEF me
<1> QED BY <1>3, <1>4, <1>6 DEF WorkerRow, me

\* Inserting a row inserts the next one.
LEMMA EnqueueRows ==
    ASSUME TypeOK, WorkerRow, NEW row, Enqueue(row)
    PROVE  /\ last' = last + 1 /\ last + 1 \in Id
           /\ task' = [task EXCEPT ![last + 1] = row]
           /\ \A i \in Id : i <= last => task'[i] = task[i]
           /\ \A i \in Id : i > last' => task'[i].state = "ABSENT"
<1>1. last \in Nat /\ last + 1 \in Id
  BY BoundAssumption DEF Enqueue, TypeOK, Id
<1> QED BY <1>1 DEF Enqueue, TypeOK, WorkerRow, Id

\* Discarding rows keeps their kinds and inserts none.
LEMMA DeleteRowsKeeps ==
    ASSUME NEW T \in [Id -> Row], NEW D, NEW i \in Id
    PROVE  /\ DeleteRows(T, D)[i].kind = T[i].kind
           /\ DeleteRows(T, D)[i].scope = T[i].scope
           /\ DeleteRows(T, D)[i].state \in {T[i].state, "DELETED"}
           /\ T[i].state = "ABSENT" => DeleteRows(T, D)[i].state = "ABSENT"
<1>1. T[i] \in Row
  OBVIOUS
<1>2. [T[i] EXCEPT !.state = "DELETED"].kind = T[i].kind
  BY <1>1 DEF Row
<1>3. [T[i] EXCEPT !.state = "DELETED"].scope = T[i].scope
  BY <1>1 DEF Row
<1>4. [T[i] EXCEPT !.state = "DELETED"].state = "DELETED"
  BY <1>1 DEF Row
<1> QED BY <1>2, <1>3, <1>4 DEF DeleteRows

\* Where the worker's row lies.
LEMMA HeldPosition ==
    ASSUME TypeOK, WorkerRow
    PROVE  \A p : At(p) => me \in Id /\ me <= last
BY DEF At, WorkerRow, me

\* What moving the worker on changes.
LEMMA WorkerFields ==
    ASSUME TypeOK
    PROVE  /\ \A p : Goto(p) => worker'.pc = p /\ worker'.id = me
           /\ \A o : FinishWith(o) => worker'.pc = "finish" /\ worker'.id = me
BY DEF Goto, FinishWith, TypeOK, Worker, me

\* Every step keeps what the worker knows of its row.
LEMMA WorkerRowNext ==
    ASSUME TypeOK, WorkerRow, Next
    PROVE  WorkerRow'
<1>1. CASE Requests
  <2>1. PICK row : Request(row)
    BY <1>1 DEF Requests, RequestBookWork, RequestSourceScan, RequestLibraryScan,
                ContinueBookTask
  <2> QED BY <2>1, EnqueueRows, WorkerRowKept DEF Request
<1>2. CASE Removals
  <2>1. ASSUME NEW b \in Book, DeleteBookSources(b)
        PROVE  WorkerRow'
    BY <2>1, DeleteRowsKeeps, WorkerRowKept
       DEF DeleteBookSources, ForgetBook, TypeOK, WorkerRow
  <2>2. ASSUME NEW b \in Book, DeleteMemberSource(b)
        PROVE  WorkerRow'
    BY <2>2, WorkerRowKept DEF DeleteMemberSource, WorkerRow
  <2>3. ASSUME NEW l \in Library, ChangeOrganizationMode(l)
        PROVE  WorkerRow'
    <3>1. PICK D : /\ last < MaxTask /\ last' = last + 1 /\ worker' = worker
                   /\ task' = [DeleteRows(task, D) EXCEPT ![last + 1] =
                                 QueuedRow("SCAN_LIBRARY", l, NoWork)]
      BY <2>3 DEF ChangeOrganizationMode
    <3>2. last \in Nat /\ last + 1 \in Id /\ task \in [Id -> Row]
      BY <3>1, BoundAssumption DEF TypeOK, Id
    <3>3. \A i \in Id : i # last + 1 => task'[i] = DeleteRows(task, D)[i]
      BY <3>1, <3>2, DeleteRowsType
    <3>4. \A i \in Id : i <= last => task'[i].kind = task[i].kind
      <4> TAKE i \in Id
      <4>1. i <= last => i # last + 1
        BY <3>2 DEF Id
      <4>2. DeleteRows(task, D)[i].kind = task[i].kind
        BY <3>2, DeleteRowsKeeps
      <4> QED BY <3>3, <4>1, <4>2
    <3>5. \A i \in Id : i > last' => task'[i].state = "ABSENT"
      <4> SUFFICES ASSUME NEW i \in Id, i > last' PROVE task'[i].state = "ABSENT"
        OBVIOUS
      <4>1. i # last + 1 /\ i > last
        BY <3>1, <3>2 DEF Id
      <4>2. DeleteRows(task, D)[i].state = "ABSENT"
        BY <3>2, <4>1, DeleteRowsKeeps DEF WorkerRow
      <4> QED BY <3>3, <4>1, <4>2
    <3> QED BY <3>1, <3>4, <3>5, WorkerRowKept
  <2>4. ASSUME NEW l \in Library, RequestLibraryRemoval(l)
        PROVE  WorkerRow'
    BY <2>4, WorkerRowKept DEF RequestLibraryRemoval, WorkerRow
  <2> QED BY <1>2, <2>1, <2>2, <2>3, <2>4 DEF Removals
<1>3. ASSUME NEW l \in Library, CleanUpLibrary(l)
      PROVE  WorkerRow'
  BY <1>3, DeleteRowsKeeps, WorkerRowKept DEF CleanUpLibrary, TypeOK, WorkerRow
<1>4. ASSUME NEW l \in Library, BeginFileOperation(l) \/ EndFileOperation(l)
      PROVE  WorkerRow'
  BY <1>4, WorkerRowKept DEF BeginFileOperation, EndFileOperation, WorkerRow
<1>5. CASE Start \/ Crash \/ \E to \in {"idle", "paused"} : LoseRow(to)
  BY <1>5, AtRestType, WorkerRowKept
     DEF Start, Crash, LoseRow, Fault, WorkerRow, WorkerPc, BookPc
<1>6. CASE RecoverInterrupted
  <2>1. \A i \in Id : /\ task'[i].kind = task[i].kind
                     /\ task[i].state = "ABSENT" => task'[i].state = "ABSENT"
    BY <1>6 DEF RecoverInterrupted, Interrupted, Current, Running, TypeOK, Row
  <2> QED BY <1>6, <2>1, AtRestType, WorkerRowKept
          DEF RecoverInterrupted, WorkerRow, WorkerPc, BookPc
<1>7. ASSUME NEW i \in Id, Claim(i)
      PROVE  WorkerRow'
  <2>1. i <= last /\ last \in Nat
    BY <1>7 DEF Claim, Claimable, WorkerRow, TypeOK, Id
  <2>2. /\ \A j \in Id : task'[j].kind = task[j].kind
        /\ \A j \in Id : j # i => task'[j] = task[j]
    BY <1>7 DEF Claim, TypeOK, Row
  <2>3. worker'.id = i /\ worker'.pc \in {"scan", "res", "ident"}
        /\ (worker'.pc \in BookPc => task[i].kind = "IMPORT_BOOK")
    <3>1. CASE task[i].kind = "IMPORT_BOOK"
      <4>1. worker' = [AtRest(FirstPc(i)) EXCEPT
                         !.id = i, !.rev = meta[task[i].scope].rev + 1]
        BY <1>7, <3>1 DEF Claim
      <4>2. worker'.id = i /\ worker'.pc = FirstPc(i)
        BY <4>1 DEF AtRest
      <4> QED BY <3>1, <4>2 DEF FirstPc
    <3>2. CASE task[i].kind # "IMPORT_BOOK"
      <4>1. worker' = [AtRest("scan") EXCEPT !.id = i]
        BY <1>7, <3>2 DEF Claim
      <4> QED BY <4>1 DEF AtRest, BookPc
    <3> QED BY <3>1, <3>2
  <2>4. \A j \in Id : j > last => task'[j].state = "ABSENT"
    BY <2>1, <2>2 DEF WorkerRow, Id
  <2> QED BY <1>7, <2>1, <2>2, <2>3, <2>4, WorkerRowKept DEF Claim
<1>8. CASE Scanning
  <2> USE HeldPosition, WorkerFields
  <2>1. CASE ScanUnavailable
    BY <2>1, WorkerRowKept DEF ScanUnavailable, WorkerRow, BookPc
  <2>2. CASE BeginRound
    <3>1. \A i \in Id : task'[i].kind = task[i].kind /\ task'[i].state = task[i].state
      BY <2>2 DEF BeginRound, TypeOK, Row
    <3> QED BY <2>2, <3>1, WorkerRowKept DEF BeginRound, WorkerRow, BookPc
  <2>3. ASSUME NEW b \in Book, PruneBook(b)
        PROVE  WorkerRow'
    BY <2>3, DeleteRowsKeeps, WorkerRowKept DEF PruneBook, ForgetBook, TypeOK, WorkerRow
  <2>4. ASSUME NEW b \in Book, NEW changed \in BOOLEAN, VisitBook(b, changed)
        PROVE  WorkerRow'
    <3>1. worker'.pc = worker.pc /\ worker'.id = worker.id
      BY <2>4 DEF VisitBook, TypeOK, Worker
    <3>2. CASE NeedsBookWork(b, changed)
      BY <2>4, <3>1, <3>2, EnqueueRows, WorkerRowKept DEF VisitBook
    <3>3. CASE ~NeedsBookWork(b, changed)
      BY <2>4, <3>1, <3>3, WorkerRowKept DEF VisitBook, WorkerRow
    <3> QED BY <3>2, <3>3
  <2>5. CASE EndRound
    <3>1. task[me].kind \in ScanKinds \/ task[me].kind = "IMPORT_BOOK"
      BY <2>5, HeldRow DEF EndRound, TypeOK, Row, Kinds
    <3> QED BY <2>5, <3>1, WorkerRowKept DEF EndRound, WorkerRow, BookPc
  <2>6. ASSUME NEW F \in SUBSET Scope, ScanFails(F)
        PROVE  WorkerRow'
    BY <2>6, WorkerRowKept DEF ScanFails, WorkerRow, BookPc
  <2>7. CASE ScanFailsUnrecorded
    BY <2>7, WorkerRowKept DEF ScanFailsUnrecorded, WorkerRow, BookPc
  <2> QED BY <1>8, <2>1, <2>2, <2>3, <2>4, <2>5, <2>6, <2>7 DEF Scanning
<1>9. CASE BookRun
  <2>1. PICK p \in BookPc : At(p)
    BY <1>9 DEF BookRun, AfterScan, ResourcesEnd, AdvancePhase, SomeResourcesFail, RunFails,
                IdentifyLoad, IdentifyApply, IdentifyStale, At, BookPc
  <2>2. me \in Id /\ me <= last /\ task[me].kind = "IMPORT_BOOK"
    BY <2>1, HeldPosition DEF WorkerRow, At
  <2>3. last' = last /\ \A i \in Id : /\ task'[i].kind = task[i].kind
                                    /\ task'[i].state = task[i].state
    BY <1>9 DEF BookRun, AfterScan, ResourcesEnd, AdvancePhase, SomeResourcesFail, RunFails,
                IdentifyLoad, IdentifyApply, IdentifyStale, TypeOK, Row
  <2>4. worker'.id = me /\ worker'.pc \in {"res", "ident", "apply", "finish"}
    BY <1>9, WorkerFields
       DEF BookRun, AfterScan, ResourcesEnd, AdvancePhase, SomeResourcesFail, RunFails,
           IdentifyLoad, IdentifyApply, IdentifyStale, TypeOK, Worker, me, At
  <2> QED BY <2>2, <2>3, <2>4, WorkerRowKept DEF WorkerRow
<1>10. CASE Finishing
  <2>1. /\ last' = last
        /\ \A i \in Id : task'[i].kind = task[i].kind
        /\ \A i \in Id : i # me => task'[i].state = task[i].state
    BY <1>10 DEF Finishing, FinishCancelled, FinishSuccess, FinishFailure, FinishRaises,
                 CloseCancelled, Close, FailRow, TypeOK, Row
  <2>2. me \in Id /\ me <= last
    BY <1>10, HeldPosition
       DEF Finishing, FinishCancelled, FinishSuccess, FinishFailure, FinishRaises,
           CloseCancelled, Close
  <2>3. \A i \in Id : i > last' => task'[i].state = "ABSENT"
    <3> SUFFICES ASSUME NEW i \in Id, i > last' PROVE task'[i].state = "ABSENT"
      OBVIOUS
    <3>1. i > last /\ i # me
      BY <2>1, <2>2 DEF TypeOK, Id
    <3>2. task[i].state = "ABSENT"
      BY <3>1 DEF WorkerRow
    <3> QED BY <2>1, <3>1, <3>2
  <2>4. \/ worker' = AtRest("idle")
        \/ worker'.id = me /\ worker'.pc = "close"
    BY <1>10, WorkerFields
       DEF Finishing, FinishCancelled, FinishSuccess, FinishFailure, FinishRaises,
           CloseCancelled, Close, FailRow
  <2>5. \/ worker'.pc \notin BookPc /\ worker'.id = 0
        \/ /\ worker'.pc \notin {"down", "boot", "idle", "paused"} \cup BookPc
           /\ worker'.id = me
    BY <2>4, AtRestType DEF BookPc, WorkerPc
  <2>6. CASE worker'.pc \notin BookPc /\ worker'.id = 0
    BY <2>1, <2>3, <2>6, WorkerRowKept
  <2>7. CASE /\ worker'.pc \notin {"down", "boot", "idle", "paused"} \cup BookPc
             /\ worker'.id = me
    BY <2>1, <2>2, <2>3, <2>7, WorkerRowKept
  <2> QED BY <2>5, <2>6, <2>7
<1> QED BY <1>1, <1>2, <1>3, <1>4, <1>5, <1>6, <1>7, <1>8, <1>9, <1>10 DEF Next, WorkerStep

\* TypeOK and WorkerRow together are inductive.
LEMMA InitTyped == Init => TypeOK /\ WorkerRow
<1> SUFFICES ASSUME Init PROVE TypeOK /\ WorkerRow
  OBVIOUS
<1>1. task \in [Id -> Row] /\ \A i \in Id : task[i].state = "ABSENT"
  BY NoRowType DEF Init
<1>2. worker \in Worker /\ worker.id = 0 /\ worker.pc = "down"
  BY AtRestType DEF Init, WorkerPc
<1>3. meta \in [Book -> Metadata]
  BY FreshMetadataType DEF Init
<1> QED BY <1>1, <1>2, <1>3, BoundAssumption DEF Init, TypeOK, WorkerRow, BookPc

\* Both are inductive.
LEMMA NextTyped ==
    ASSUME TypeOK, WorkerRow, [Next]_vars
    PROVE  TypeOK' /\ WorkerRow'
<1>1. CASE Next
  <2>1. TypeOK'
    BY <1>1, RequestsType, RemovalsType, LibrariesType, StartingType, ScanningType,
       BookRunType, FinishingType, FaultsType DEF Next, WorkerStep
  <2> QED BY <1>1, <2>1, WorkerRowNext
<1>2. CASE UNCHANGED vars
  BY <1>2 DEF vars, TypeOK, WorkerRow, me
<1> QED BY <1>1, <1>2

\* Every reachable state is typed: no operation of a request, of the worker or of
\* another actor ever stores a row, a gap or metadata outside its domain.
THEOREM TypeCorrect == Spec => []TypeOK
<1>1. Init => TypeOK /\ WorkerRow
  BY InitTyped
<1>2. TypeOK /\ WorkerRow /\ [Next]_vars => (TypeOK /\ WorkerRow)'
  BY NextTyped
<1> QED BY <1>1, <1>2, PTL DEF Spec

\* Rows are inserted in order and the worker's control state agrees with the row
\* it holds.
THEOREM WorkerRowInvariant == Spec => []WorkerRow
<1>1. Init => TypeOK /\ WorkerRow
  BY InitTyped
<1>2. TypeOK /\ WorkerRow /\ [Next]_vars => (TypeOK /\ WorkerRow)'
  BY NextTyped
<1> QED BY <1>1, <1>2, PTL DEF Spec

----------------------------------------------------------------------------
(* Imports and file operations exclude each other.                         *)

\* A row stays bound to its scope while it runs, and only a claim starts a row.
LEMMA RunningRows ==
    ASSUME TypeOK, WorkerRow, Next, NEW i \in Id, Running(i)'
    PROVE  \/ Running(i) /\ task'[i].scope = task[i].scope
           \/ Claim(i)
<1>1. CASE Requests
  <2>1. ASSUME NEW k, NEW s, NEW w, Request(QueuedRow(k, s, w))
        PROVE  Running(i) /\ task'[i].scope = task[i].scope
    <3>1. QueuedRow(k, s, w).state = "QUEUED"
      BY DEF QueuedRow
    <3>2. task' = [task EXCEPT ![last + 1] = QueuedRow(k, s, w)] /\ last + 1 \in Id
      BY <2>1, EnqueueRows DEF Request
    <3> QED BY <3>1, <3>2 DEF Running, TypeOK
  <2> QED BY <1>1, <2>1 DEF Requests, RequestBookWork, RequestSourceScan, RequestLibraryScan,
                            ContinueBookTask
<1>2. CASE Removals
  <2>1. ASSUME NEW b \in Book, DeleteBookSources(b)
        PROVE  Running(i) /\ task'[i].scope = task[i].scope
    BY <2>1, DeleteRowsKeeps DEF DeleteBookSources, ForgetBook, Running, TypeOK
  <2>2. ASSUME NEW l \in Library, ChangeOrganizationMode(l)
        PROVE  Running(i) /\ task'[i].scope = task[i].scope
    <3>1. PICK D : /\ last < MaxTask
                   /\ task' = [DeleteRows(task, D) EXCEPT ![last + 1] =
                                 QueuedRow("SCAN_LIBRARY", l, NoWork)]
      BY <2>2 DEF ChangeOrganizationMode
    <3>2. last + 1 \in Id /\ DeleteRows(task, D) \in [Id -> Row] /\ task \in [Id -> Row]
      BY <3>1, BoundAssumption, DeleteRowsType DEF TypeOK, Id
    <3>3. QueuedRow("SCAN_LIBRARY", l, NoWork).state = "QUEUED"
      BY DEF QueuedRow
    <3>4. i # last + 1 /\ task'[i] = DeleteRows(task, D)[i]
      BY <3>1, <3>2, <3>3 DEF Running
    <3> QED BY <3>2, <3>4, DeleteRowsKeeps DEF Running
  <2> QED BY <1>2, <2>1, <2>2
          DEF Removals, DeleteMemberSource, RequestLibraryRemoval, Running
<1>3. ASSUME NEW l \in Library, CleanUpLibrary(l) \/ BeginFileOperation(l) \/ EndFileOperation(l)
      PROVE  Running(i) /\ task'[i].scope = task[i].scope
  BY <1>3, DeleteRowsKeeps
     DEF CleanUpLibrary, BeginFileOperation, EndFileOperation, Running, TypeOK
<1>4. CASE Start \/ Crash \/ \E to \in {"idle", "paused"} : LoseRow(to)
  BY <1>4 DEF Start, Crash, LoseRow, Running
<1>5. CASE RecoverInterrupted
  BY <1>5 DEF RecoverInterrupted, Running, TypeOK, Row
<1>6. ASSUME NEW j \in Id, Claim(j)
      PROVE  \/ Running(i) /\ task'[i].scope = task[i].scope
             \/ Claim(i)
  BY <1>6 DEF Claim, Running, TypeOK, Row
<1>7. CASE Scanning
  <2>1. ASSUME NEW b \in Book, NEW changed \in BOOLEAN, VisitBook(b, changed)
        PROVE  Running(i) /\ task'[i].scope = task[i].scope
    <3> DEFINE row == QueuedRow("IMPORT_BOOK", b, [scan |-> FALSE, res |-> "all"])
    <3>1. row.state = "QUEUED"
      BY DEF QueuedRow
    <3> HIDE DEF row
    <3>2. task' = task \/ (task' = [task EXCEPT ![last + 1] = row] /\ last + 1 \in Id)
      BY <2>1, EnqueueRows DEF VisitBook, row
    <3> QED BY <3>1, <3>2 DEF Running, TypeOK
  <2>2. ASSUME NEW b \in Book, PruneBook(b)
        PROVE  Running(i) /\ task'[i].scope = task[i].scope
    BY <2>2, DeleteRowsKeeps DEF PruneBook, ForgetBook, Running, TypeOK
  <2>3. CASE BeginRound
    BY <2>3 DEF BeginRound, Running, TypeOK, Row
  <2> QED BY <1>7, <2>1, <2>2, <2>3
          DEF Scanning, ScanUnavailable, EndRound, ScanFails, ScanFailsUnrecorded, Running
<1>8. CASE BookRun
  BY <1>8 DEF BookRun, AfterScan, ResourcesEnd, AdvancePhase, SomeResourcesFail, RunFails,
              IdentifyLoad, IdentifyApply, IdentifyStale, Running, TypeOK, Row
<1>9. CASE Finishing
  BY <1>9 DEF Finishing, FinishCancelled, FinishSuccess, FinishFailure, FinishRaises,
              CloseCancelled, Close, FailRow, Running, TypeOK, Row
<1> QED BY <1>1, <1>2, <1>3, <1>4, <1>5, <1>6, <1>7, <1>8, <1>9 DEF Next, WorkerStep

\* Only the start of a file operation locks a library out.
LEMMA BusyKept ==
    ASSUME Next
    PROVE  busy' \subseteq busy \/ \E l \in Library : BeginFileOperation(l)
BY DEF Next, Requests, RequestBookWork, RequestSourceScan, RequestLibraryScan, ContinueBookTask,
       Request, Removals, DeleteBookSources, DeleteMemberSource, ChangeOrganizationMode,
       RequestLibraryRemoval, CleanUpLibrary, EndFileOperation, Start, RecoverInterrupted,
       WorkerStep, Claim, Scanning, ScanUnavailable, BeginRound, PruneBook, VisitBook, EndRound,
       ScanFails, ScanFailsUnrecorded, BookRun, AfterScan, ResourcesEnd, AdvancePhase,
       SomeResourcesFail, RunFails, IdentifyLoad, IdentifyApply, IdentifyStale, Finishing,
       FinishCancelled, FinishSuccess, FinishFailure, FinishRaises, CloseCancelled, Close,
       FailRow, LoseRow, Crash

\* No library becomes active again.
LEMMA ActiveKept ==
    ASSUME TypeOK, Next
    PROVE  \A l \in Library : lib'[l] = "active" => lib[l] = "active"
BY DEF Next, Requests, RequestBookWork, RequestSourceScan, RequestLibraryScan, ContinueBookTask,
       Request, Removals, DeleteBookSources, DeleteMemberSource, ChangeOrganizationMode,
       RequestLibraryRemoval, CleanUpLibrary, BeginFileOperation, EndFileOperation, Start,
       RecoverInterrupted, WorkerStep, Claim, Scanning, ScanUnavailable, BeginRound, PruneBook,
       VisitBook, EndRound, ScanFails, ScanFailsUnrecorded, BookRun, AfterScan, ResourcesEnd,
       AdvancePhase, SomeResourcesFail, RunFails, IdentifyLoad, IdentifyApply, IdentifyStale,
       Finishing, FinishCancelled, FinishSuccess, FinishFailure, FinishRaises, CloseCancelled,
       Close, FailRow, LoseRow, Crash, TypeOK

\* No import runs in a library that a file operation has locked out: the claim and
\* the start of the operation look at each other's rows in their own transactions.
THEOREM ImportsExcludeFileOperations == Spec => []FileExclusion
<1>1. Init => FileExclusion
  BY DEF Init, FileExclusion
<1>2. TypeOK /\ WorkerRow /\ FileExclusion /\ [Next]_vars => FileExclusion'
  <2> SUFFICES ASSUME TypeOK, WorkerRow, FileExclusion, Next, NEW i \in Id, Running(i)'
               PROVE  LibraryOf(task'[i].scope) \notin busy'
    BY DEF FileExclusion, vars, Running
  <2>1. CASE Claim(i)
    <3>1. task'[i].scope = task[i].scope /\ busy' = busy
      BY <2>1 DEF Claim, TypeOK, Row
    <3> QED BY <2>1, <3>1 DEF Claim, Claimable
  <2>2. CASE Running(i) /\ task'[i].scope = task[i].scope
    <3>1. LibraryOf(task[i].scope) \notin busy
      BY <2>2 DEF FileExclusion
    <3>2. ASSUME NEW l \in Library, BeginFileOperation(l)
          PROVE  LibraryOf(task'[i].scope) \notin busy'
      BY <2>2, <3>1, <3>2 DEF BeginFileOperation
    <3> QED BY <2>2, <3>1, <3>2, BusyKept
  <2> QED BY <2>1, <2>2, RunningRows
<1> QED BY <1>1, <1>2, TypeCorrect, WorkerRowInvariant, PTL DEF Spec

\* Every step takes libraries for imports only, and only where no file operation
\* is, or for file operations only, and only where no row is RUNNING (next_queued,
\* mark_running, the claims of the file operations): imports keep LibraryShare.
THEOREM ImportsShareWithFileOperations == Spec => ImportsShareLibraries
<1> DEFINE held == [l \in Library |-> Sharing(l)]
<1>1. Init => Share!Init
  <2>1. ASSUME Init, NEW l \in Library
        PROVE  Sharing(l) = {}
    <3>1. NoRow.state = "ABSENT"
      BY DEF NoRow, QueuedRow
    <3>2. \A i \in Id : ~Running(i)
      BY <2>1, <3>1 DEF Init, Running
    <3> QED BY <2>1, <3>2 DEF Init, Sharing
  <2> QED BY <2>1 DEF Share!Init
<1>2. TypeOK /\ WorkerRow /\ [Next]_vars => [Share!Next]_held
  <2> SUFFICES ASSUME TypeOK, WorkerRow, Next
               PROVE  Share!Next
    BY DEF vars, Running, Sharing
  <2>1. \A l : Sharing(l) \subseteq {"import", "file"} /\ Sharing(l)' \subseteq {"import", "file"}
    BY DEF Sharing
  <2>2. held' = [l \in Library |-> Sharing(l)'] /\ held' \in [Library -> SUBSET {"import", "file"}]
    BY <2>1
  <2>3. CASE \E l \in Library : BeginFileOperation(l)
    <3>1. PICK x \in Library : BeginFileOperation(x)
      BY <2>3
    <3>2. ASSUME NEW l \in Library
          PROVE  /\ Sharing(l)' \subseteq Sharing(l) \cup {"file"}
                 /\ "file" \in Sharing(l)' \ Sharing(l) => "import" \notin Sharing(l)
      BY <3>1 DEF BeginFileOperation, Sharing, Running
    <3>3. Share!Step("file")
      BY <2>2, <3>2 DEF Share!Step
    <3> QED BY <3>3 DEF Share!Next
  <2>4. CASE ~\E l \in Library : BeginFileOperation(l)
    <3>1. busy' \subseteq busy
      BY <2>4, BusyKept
    <3>2. ASSUME NEW i \in Id, Running(i)'
          PROVE  /\ task'[i].scope = task[i].scope
                 /\ Running(i) \/ LibraryOf(task[i].scope) \notin busy
      <4>1. CASE Claim(i)
        BY <4>1 DEF Claim, Claimable, TypeOK, Row
      <4>2. CASE Running(i) /\ task'[i].scope = task[i].scope
        BY <4>2
      <4> QED BY <3>2, <4>1, <4>2, RunningRows
    <3>3. ASSUME NEW l \in Library
          PROVE  /\ Sharing(l)' \subseteq Sharing(l) \cup {"import"}
                 /\ "import" \in Sharing(l)' \ Sharing(l) => "file" \notin Sharing(l)
      <4>1. "file" \in Sharing(l)' => "file" \in Sharing(l)
        BY <3>1 DEF Sharing
      <4>2. ASSUME "import" \in Sharing(l)', "import" \notin Sharing(l)
            PROVE  "file" \notin Sharing(l)
        <5>1. PICK i \in Id : Running(i)' /\ LibraryOf(task'[i].scope) = l
          BY <4>2 DEF Sharing
        <5>2. task'[i].scope = task[i].scope /\ ~Running(i)
          BY <3>2, <4>2, <5>1 DEF Sharing
        <5> QED BY <3>2, <5>1, <5>2 DEF Sharing
      <4> QED BY <2>1, <4>1, <4>2
    <3>4. Share!Step("import")
      BY <2>2, <3>3 DEF Share!Step
    <3> QED BY <3>4 DEF Share!Next
  <2> QED BY <2>3, <2>4
<1> QED BY <1>1, <1>2, TypeCorrect, WorkerRowInvariant, PTL
        DEF Spec, ImportsShareLibraries, Share!Spec

----------------------------------------------------------------------------
(* The running consumer knows its rows.                                    *)

\* The worker holds the row it claims.
LEMMA ClaimTakes ==
    ASSUME NEW i \in Id, Claim(i)
    PROVE  worker'.id = i
<1>1. CASE task[i].kind = "IMPORT_BOOK"
  <2>1. worker' = [AtRest(FirstPc(i)) EXCEPT
                     !.id = i, !.rev = meta[task[i].scope].rev + 1]
    BY <1>1 DEF Claim
  <2> QED BY <2>1 DEF AtRest
<1>2. CASE task[i].kind # "IMPORT_BOOK"
  <2>1. worker' = [AtRest("scan") EXCEPT !.id = i]
    BY <1>2 DEF Claim
  <2> QED BY <2>1 DEF AtRest
<1> QED BY <1>1, <1>2

\* A step in which i stays RUNNING keeps it owned.
LEMMA OwnedStep ==
    ASSUME TypeOK, WorkerRow, RunningIsOwned, Next, NEW i \in Id,
           Current(i), Running(i)', ~Claim(i),
           worker'.pc \notin {"down", "boot", "paused"}
    PROVE  i = worker'.id \/ i \in orphan'
<1>0. worker.pc \notin {"down", "boot", "paused"} => i = worker.id \/ i \in orphan
  BY DEF RunningIsOwned
<1>1. CASE worker' = worker /\ orphan' = orphan
  BY <1>0, <1>1
<1>2. CASE Start \/ Crash \/ LoseRow("paused")
  BY <1>2, AtRestType DEF Start, Crash, LoseRow, WorkerPc
<1>3. CASE LoseRow("idle")
  BY <1>0, <1>3 DEF LoseRow, Mine, Current, me
<1>4. CASE RecoverInterrupted
  BY <1>4 DEF RecoverInterrupted, Interrupted, Running, TypeOK, Row
<1>5. ASSUME NEW j \in Id, Claim(j)
      PROVE  i = worker'.id \/ i \in orphan'
  <2>1. worker.id = 0 /\ worker.pc = "idle" /\ orphan' = orphan
    BY <1>5 DEF Claim, WorkerRow
  <2> QED BY <1>0, <2>1 DEF Id
<1>6. CASE Scanning \/ BookRun
  <2>1. worker'.id = worker.id /\ orphan' = orphan
    BY <1>6, WorkerFields
       DEF Scanning, ScanUnavailable, BeginRound, PruneBook, VisitBook, EndRound, ScanFails,
           ScanFailsUnrecorded, BookRun, AfterScan, ResourcesEnd, AdvancePhase,
           SomeResourcesFail, RunFails, IdentifyLoad, IdentifyApply, IdentifyStale,
           TypeOK, Worker, me
  <2>2. worker.pc \notin {"down", "boot", "paused"}
    BY <1>6 DEF Scanning, ScanUnavailable, BeginRound, PruneBook, VisitBook, EndRound, ScanFails,
           ScanFailsUnrecorded, BookRun, AfterScan, ResourcesEnd, AdvancePhase,
           SomeResourcesFail, RunFails, IdentifyLoad, IdentifyApply, IdentifyStale, At
  <2> QED BY <1>0, <2>1, <2>2
<1>7. CASE Finishing
  <2>1. worker.pc \in {"finish", "close"} /\ orphan' = orphan /\ me \in Id
    BY <1>7 DEF Finishing, FinishCancelled, FinishSuccess, FinishFailure, FinishRaises,
                CloseCancelled, Close, FailRow, At
  <2>2. CASE FinishRaises
    BY <1>0, <2>1, <2>2, WorkerFields DEF FinishRaises, me
  <2>3. CASE ~FinishRaises
    <3>1. i # me
      BY <1>7, <2>1, <2>3
         DEF Finishing, FinishCancelled, FinishSuccess, FinishFailure, CloseCancelled, Close,
             FailRow, Current, Known, Running, TypeOK, Row
    <3> QED BY <1>0, <2>1, <3>1 DEF me
  <2> QED BY <2>2, <2>3
<1>8. CASE Requests \/ Removals \/ \E l \in Library : \/ CleanUpLibrary(l)
                                                     \/ BeginFileOperation(l)
                                                     \/ EndFileOperation(l)
  BY <1>1, <1>8
     DEF Requests, RequestBookWork, RequestSourceScan, RequestLibraryScan, ContinueBookTask,
         Request, Removals, DeleteBookSources, DeleteMemberSource, ChangeOrganizationMode,
         RequestLibraryRemoval, CleanUpLibrary, BeginFileOperation, EndFileOperation
<1> QED BY <1>2, <1>3, <1>4, <1>5, <1>6, <1>7, <1>8 DEF Next, WorkerStep

\* Whatever fails, a consumer that is serving the queue holds or has written off
\* every RUNNING row of an active library: no row is RUNNING unattended.
THEOREM EveryRunIsOwned == Spec => []RunningIsOwned
<1>1. Init => RunningIsOwned
  BY AtRestType DEF Init, RunningIsOwned, WorkerPc
<1>2. TypeOK /\ WorkerRow /\ RunningIsOwned /\ [Next]_vars => RunningIsOwned'
  <2>1. CASE UNCHANGED vars
    BY <2>1 DEF vars, RunningIsOwned, Current, Running, IsActive
  <2>2. CASE Next
    <3> SUFFICES ASSUME TypeOK, WorkerRow, RunningIsOwned, NEW i \in Id, Current(i)',
                        worker'.pc \notin {"down", "boot", "paused"}
                 PROVE  i = worker'.id \/ i \in orphan'
      BY DEF RunningIsOwned
    <3>1. CASE Claim(i)
      BY <3>1, ClaimTakes
    <3>2. CASE ~Claim(i)
      <4>1. Running(i)' /\ Running(i) /\ task'[i].scope = task[i].scope
        BY <2>2, <3>2, RunningRows DEF Current
      <4>2. lib'[LibraryOf(task[i].scope)] = "active"
        BY <4>1 DEF Current, IsActive
      <4>3. LibraryOf(task[i].scope) \in Library
        BY LibraryOfType DEF TypeOK, Row
      <4>4. Current(i)
        BY <2>2, <4>1, <4>2, <4>3, ActiveKept DEF Current, IsActive
      <4> QED BY <2>2, <3>2, <4>1, <4>4, OwnedStep
    <3> QED BY <3>1, <3>2
  <2> QED BY <2>1, <2>2
<1> QED BY <1>1, <1>2, TypeCorrect, WorkerRowInvariant, PTL DEF Spec

----------------------------------------------------------------------------
(* The queue implements ImportPromise.                                     *)

\* Discarding rows D and inserting rows S is a step of the promise.
LEMMA PromiseAccept ==
    ASSUME NEW D \in SUBSET Id, NEW S \in SUBSET Id,
           \A i \in D : task[i].state # "ABSENT",
           \A i \in S : task[i].state = "ABSENT", \A i, j \in S : i = j,
           \A i \in Id : task'[i].state = IF i \in D THEN "DELETED"
                                         ELSE IF i \in S THEN "QUEUED" ELSE task[i].state,
           worker'.id = worker.id
    PROVE  Promise!Next
<1>1. Promise!Accept(D, S)
  BY DEF Promise!Accept, Promise!Is, Executing
<1> QED BY <1>1 DEF Promise!Next

\* The rows DeleteRows discards.
LEMMA PromiseDelete ==
    ASSUME TypeOK, NEW D, NEW S \in SUBSET Id,
           \A i \in S : task[i].state = "ABSENT", \A i, j \in S : i = j,
           \A i \in Id : IF i \in S THEN task'[i].state = "QUEUED"
                        ELSE task'[i] = DeleteRows(task, D)[i],
           worker'.id = worker.id
    PROVE  Promise!Next
<1> DEFINE E == {i \in Id : i \in D /\ task[i].state # "ABSENT"}
<1>1. \A i \in Id : task'[i].state = IF i \in E THEN "DELETED"
                                     ELSE IF i \in S THEN "QUEUED" ELSE task[i].state
  <2> TAKE i \in Id
  <2>1. task[i] \in Row
    BY DEF TypeOK
  <2>2. i \in E => DeleteRows(task, D)[i].state = "DELETED"
    BY <2>1 DEF DeleteRows, Row
  <2>3. i \notin E => DeleteRows(task, D)[i] = task[i]
    BY DEF DeleteRows
  <2> QED BY <2>2, <2>3
<1> HIDE DEF E
<1>2. E \in SUBSET Id /\ \A i \in E : task[i].state # "ABSENT"
  BY DEF E
<1> QED BY <1>1, <1>2, PromiseAccept

\* Steps that leave every row's state and the worker's row alone.
LEMMA PromiseStutter ==
    ASSUME \A i \in Id : task'[i].state = task[i].state, worker'.id = worker.id
    PROVE  UNCHANGED <<[i \in Id |-> task[i].state], Executing>>
BY DEF Executing

\* Inserting a queued row is a step of the promise.
LEMMA PromiseEnqueue ==
    ASSUME TypeOK, WorkerRow, NEW k, NEW s, NEW w, Enqueue(QueuedRow(k, s, w)),
           worker'.id = worker.id
    PROVE  Promise!Next
<1>1. QueuedRow(k, s, w).state = "QUEUED"
  BY DEF QueuedRow
<1>2. /\ last + 1 \in Id /\ last \in Nat
      /\ task' = [task EXCEPT ![last + 1] = QueuedRow(k, s, w)]
  BY EnqueueRows DEF TypeOK
<1>3. task[last + 1].state = "ABSENT"
  BY <1>2 DEF WorkerRow
<1> DEFINE S == {last + 1}
           D == {}
<1>4. \A i \in Id : task'[i].state = IF i \in S THEN "QUEUED" ELSE task[i].state
  BY <1>1, <1>2 DEF TypeOK
<1>5. /\ D \in SUBSET Id /\ \A i \in D : FALSE
      /\ S \in SUBSET Id /\ \A i \in S : task[i].state = "ABSENT"
      /\ \A i, j \in S : i = j
  BY <1>2, <1>3
<1>6. \A i \in Id : i \notin D
  OBVIOUS
<1> HIDE DEF S, D
<1> QED BY <1>4, <1>5, <1>6, PromiseAccept

\* A request is accepted; a removal discards.
LEMMA PromiseRequests ==
    ASSUME TypeOK, WorkerRow, Requests \/ Removals
    PROVE  Promise!Next \/ UNCHANGED <<[i \in Id |-> task[i].state], Executing>>
<1>1. ASSUME NEW k, NEW s, NEW w, Request(QueuedRow(k, s, w))
      PROVE  Promise!Next
  BY <1>1, PromiseEnqueue DEF Request
<1>2. ASSUME NEW b \in Book, DeleteBookSources(b)
      PROVE  Promise!Next
  <2> DEFINE D == {j \in Id : Anchored(j, b)}
             S == {}
  <2>1. task' = DeleteRows(task, D) /\ worker' = worker /\ S \in SUBSET Id
    BY <1>2 DEF DeleteBookSources, ForgetBook
  <2>2. \A i \in S : FALSE
    OBVIOUS
  <2> HIDE DEF D, S
  <2> QED BY <2>1, <2>2, PromiseDelete
<1>3. ASSUME NEW l \in Library, ChangeOrganizationMode(l)
      PROVE  Promise!Next
  <2>1. PICK D : /\ last < MaxTask /\ worker' = worker
                 /\ task' = [DeleteRows(task, D) EXCEPT ![last + 1] =
                               QueuedRow("SCAN_LIBRARY", l, NoWork)]
    BY <1>3 DEF ChangeOrganizationMode
  <2>2. last + 1 \in Id /\ last \in Nat /\ DeleteRows(task, D) \in [Id -> Row]
    BY <2>1, BoundAssumption, DeleteRowsType DEF TypeOK, Id
  <2>3. task[last + 1].state = "ABSENT"
    BY <2>2 DEF WorkerRow
  <2>4. QueuedRow("SCAN_LIBRARY", l, NoWork).state = "QUEUED"
    BY DEF QueuedRow
  <2>5. \A i \in Id : IF i \in {last + 1} THEN task'[i].state = "QUEUED"
                     ELSE task'[i] = DeleteRows(task, D)[i]
    BY <2>1, <2>2, <2>4
  <2> DEFINE S == {last + 1}
  <2>6. /\ S \in SUBSET Id /\ \A i \in S : task[i].state = "ABSENT"
        /\ \A i, j \in S : i = j
    BY <2>2, <2>3
  <2>7. \A i \in Id : IF i \in S THEN task'[i].state = "QUEUED"
                     ELSE task'[i] = DeleteRows(task, D)[i]
    BY <2>5
  <2> HIDE DEF S
  <2> QED BY <2>1, <2>6, <2>7, PromiseDelete
<1>4. ASSUME NEW b \in Book, DeleteMemberSource(b)
      PROVE  UNCHANGED <<[i \in Id |-> task[i].state], Executing>>
  BY <1>4, PromiseStutter DEF DeleteMemberSource
<1>5. ASSUME NEW l \in Library, RequestLibraryRemoval(l)
      PROVE  UNCHANGED <<[i \in Id |-> task[i].state], Executing>>
  BY <1>5, PromiseStutter DEF RequestLibraryRemoval
<1> QED BY <1>1, <1>2, <1>3, <1>4, <1>5
        DEF Requests, RequestBookWork, RequestSourceScan, RequestLibraryScan,
            ContinueBookTask, Removals

\* Clean-up discards; a file operation is invisible.
LEMMA PromiseLibraries ==
    ASSUME TypeOK, WorkerRow, NEW l \in Library,
           CleanUpLibrary(l) \/ BeginFileOperation(l) \/ EndFileOperation(l)
    PROVE  Promise!Next \/ UNCHANGED <<[i \in Id |-> task[i].state], Executing>>
<1>1. CASE CleanUpLibrary(l)
  <2> DEFINE D == {j \in Id : LibraryOf(task[j].scope) = l}
             S == {}
  <2>1. task' = DeleteRows(task, D) /\ worker' = worker /\ S \in SUBSET Id
    BY <1>1 DEF CleanUpLibrary
  <2>2. \A i \in S : FALSE
    OBVIOUS
  <2> HIDE DEF D, S
  <2> QED BY <2>1, <2>2, PromiseDelete
<1>2. CASE BeginFileOperation(l) \/ EndFileOperation(l)
  BY <1>2, PromiseStutter DEF BeginFileOperation, EndFileOperation
<1> QED BY <1>1, <1>2

\* A claim starts a request; recovery closes what was interrupted.
LEMMA PromiseStarting ==
    ASSUME TypeOK, WorkerRow, Start \/ RecoverInterrupted \/ \E i \in Id : Claim(i)
    PROVE  Promise!Next \/ UNCHANGED <<[i \in Id |-> task[i].state], Executing>>
<1>1. CASE Start
  <2>1. worker.id = 0 /\ worker'.id = 0 /\ task' = task
    BY <1>1, AtRestType DEF Start, WorkerRow, WorkerPc
  <2> QED BY <2>1, PromiseStutter
<1>2. CASE RecoverInterrupted
  <2>1. worker.id = 0 /\ worker'.id = 0
    BY <1>2, AtRestType DEF RecoverInterrupted, WorkerRow, WorkerPc
  <2>2. \A i \in Id : task'[i].state = IF i \in Interrupted THEN "FAILED" ELSE task[i].state
    BY <1>2 DEF RecoverInterrupted, TypeOK, Row
  <2>3. Interrupted \in SUBSET Id /\ \A i \in Interrupted : task[i].state = "RUNNING"
    BY DEF Interrupted, Current, Running
  <2> HIDE DEF Interrupted
  <2>4. PICK D \in SUBSET Id : D = Interrupted
    BY <2>3
  <2>5. Promise!CloseInterrupted(D)
    BY <2>1, <2>2, <2>3, <2>4
       DEF Promise!CloseInterrupted, Promise!Is, Promise!Become, Executing, Id
  <2> QED BY <2>5 DEF Promise!Next
<1>3. ASSUME NEW i \in Id, Claim(i)
      PROVE  Promise!Next
  <2>1. worker.id = 0 /\ worker'.id = i
    BY <1>3, ClaimTakes DEF Claim, WorkerRow
  <2>2. /\ task[i].state = "QUEUED"
        /\ \A j \in Id : task'[j].state = IF j \in {i} THEN "RUNNING" ELSE task[j].state
    <3>1. task[i].state = "QUEUED" /\ task' = [task EXCEPT ![i].state = "RUNNING"]
      BY <1>3 DEF Claim, Claimable
    <3>2. task \in [Id -> Row] /\ \A j \in Id : task[j] \in Row
      BY DEF TypeOK
    <3>3. [task[i] EXCEPT !.state = "RUNNING"].state = "RUNNING"
      BY <3>2 DEF Row
    <3>4. task'[i] = [task[i] EXCEPT !.state = "RUNNING"]
      BY <3>1, <3>2
    <3>5. \A j \in Id : j # i => task'[j] = task[j]
      BY <3>1, <3>2
    <3>6. \A j \in Id : task'[j].state = IF j \in {i} THEN "RUNNING" ELSE task[j].state
      <4> TAKE j \in Id
      <4>1. CASE j = i
        BY <3>3, <3>4, <4>1
      <4>2. CASE j # i
        BY <3>5, <4>2
      <4> QED BY <4>1, <4>2
    <3> QED BY <3>1, <3>6
  <2>3. Promise!Begin(i)
    BY <2>1, <2>2 DEF Promise!Begin, Promise!Is, Promise!Become, Executing, Id
  <2> QED BY <2>3 DEF Promise!Next
<1> QED BY <1>1, <1>2, <1>3

\* A scan accepts the work it queues, and discards with what it prunes.
LEMMA PromiseScanning ==
    ASSUME TypeOK, WorkerRow, Scanning
    PROVE  Promise!Next \/ UNCHANGED <<[i \in Id |-> task[i].state], Executing>>
<1>1. CASE ScanUnavailable \/ EndRound \/ ScanFailsUnrecorded
           \/ \E F \in SUBSET Scope : ScanFails(F)
  BY <1>1, WorkerFields, PromiseStutter
     DEF ScanUnavailable, EndRound, ScanFailsUnrecorded, ScanFails, me
<1>2. CASE BeginRound
  <2>1. \A i \in Id : task'[i].state = task[i].state
    BY <1>2 DEF BeginRound, TypeOK, Row
  <2> QED BY <1>2, <2>1, WorkerFields, PromiseStutter DEF BeginRound, me
<1>3. ASSUME NEW b \in Book, PruneBook(b)
      PROVE  Promise!Next
  <2> DEFINE D == {j \in Id : Anchored(j, b)}
             S == {}
  <2>1. task' = DeleteRows(task, D) /\ worker' = worker /\ S \in SUBSET Id
    BY <1>3 DEF PruneBook, ForgetBook
  <2>2. \A i \in S : FALSE
    OBVIOUS
  <2> HIDE DEF D, S
  <2> QED BY <2>1, <2>2, PromiseDelete
<1>4. ASSUME NEW b \in Book, NEW changed \in BOOLEAN, VisitBook(b, changed)
      PROVE  Promise!Next \/ UNCHANGED <<[i \in Id |-> task[i].state], Executing>>
  <2>1. worker'.id = worker.id
    BY <1>4 DEF VisitBook, TypeOK, Worker
  <2>2. CASE NeedsBookWork(b, changed)
    BY <1>4, <2>1, <2>2, PromiseEnqueue DEF VisitBook
  <2>3. CASE ~NeedsBookWork(b, changed)
    BY <1>4, <2>1, <2>3, PromiseStutter DEF VisitBook
  <2> QED BY <2>2, <2>3
<1> QED BY <1>1, <1>2, <1>3, <1>4 DEF Scanning

\* A Book run is invisible.
LEMMA PromiseBookRun ==
    ASSUME TypeOK, BookRun
    PROVE  UNCHANGED <<[i \in Id |-> task[i].state], Executing>>
<1>1. \A i \in Id : task'[i].state = task[i].state
  BY DEF BookRun, AfterScan, ResourcesEnd, AdvancePhase, SomeResourcesFail, RunFails,
         IdentifyLoad, IdentifyApply, IdentifyStale, TypeOK, Row
<1>2. worker'.id = worker.id
  BY WorkerFields
     DEF BookRun, AfterScan, ResourcesEnd, AdvancePhase, SomeResourcesFail, RunFails,
         IdentifyLoad, IdentifyApply, IdentifyStale, TypeOK, Worker, me
<1> QED BY <1>1, <1>2, PromiseStutter

\* Giving the row up is a step of the promise, or no step if there was none.
LEMMA PromiseLetGo ==
    ASSUME \A i \in Id : task'[i].state = task[i].state, worker'.id = 0
    PROVE  Promise!Next \/ UNCHANGED <<[i \in Id |-> task[i].state], Executing>>
<1>1. 0 \notin Id
  BY DEF Id
<1> QED BY <1>1 DEF Promise!Next, Promise!LetGo, Executing

\* A terminal write ends the request the worker holds.
LEMMA PromiseFinishing ==
    ASSUME TypeOK, Finishing \/ Crash \/ \E to \in {"idle", "paused"} : LoseRow(to)
    PROVE  Promise!Next \/ UNCHANGED <<[i \in Id |-> task[i].state], Executing>>
<1>1. CASE FinishCancelled \/ CloseCancelled \/ Crash \/ \E to \in {"idle", "paused"} : LoseRow(to)
  BY <1>1, AtRestType, PromiseLetGo
     DEF FinishCancelled, CloseCancelled, Crash, LoseRow, WorkerPc
<1>2. CASE FinishRaises
  BY <1>2, WorkerFields, PromiseStutter DEF FinishRaises, me
<1>3. CASE FinishSuccess \/ FinishFailure \/ Close
  <2>1. me \in Id /\ task[me].state = "RUNNING" /\ worker'.id = 0
    BY <1>3, AtRestType
       DEF FinishSuccess, FinishFailure, Close, FailRow, At, Current, Running, WorkerPc
  <2>2. PICK s \in {"SUCCEEDED", "FAILED"} :
            \A i \in Id : task'[i].state = IF i = me THEN s ELSE task[i].state
    BY <1>3, <2>1 DEF FinishSuccess, FinishFailure, Close, FailRow, TypeOK, Row
  <2>3. Promise!End(s)
    BY <2>1, <2>2 DEF Promise!End, Promise!Is, Promise!Become, Executing, Id, me
  <2> QED BY <2>2, <2>3 DEF Promise!Next
<1> QED BY <1>1, <1>2, <1>3 DEF Finishing

\* The queue implements its promise: every row is executed at most once, by one
\* consumer, in the order claimed - queued - running - terminal, and terminal rows
\* never change except by being discarded with their source.
THEOREM QueueKeepsPromise == Spec => KeepsPromise
<1>1. Init => Promise!Init
  BY NoRowType, AtRestType DEF Init, Promise!Init, Executing, Id, WorkerPc
<1>2. TypeOK /\ WorkerRow /\ [Next]_vars
        => [Promise!Next]_<<[i \in Id |-> task[i].state], Executing>>
  <2> SUFFICES ASSUME TypeOK, WorkerRow, [Next]_vars
               PROVE  Promise!Next \/ UNCHANGED <<[i \in Id |-> task[i].state], Executing>>
    OBVIOUS
  <2>1. CASE UNCHANGED vars
    BY <2>1 DEF vars, Executing
  <2>2. CASE Next
    BY <2>2, PromiseRequests, PromiseLibraries, PromiseStarting, PromiseScanning,
       PromiseBookRun, PromiseFinishing DEF Next, WorkerStep
  <2> QED BY <2>1, <2>2
<1> QED BY <1>1, <1>2, TypeCorrect, WorkerRowInvariant, PTL DEF Spec, KeepsPromise, Promise!Spec
=============================================================================
