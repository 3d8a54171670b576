------------------------- MODULE ImportOutcomeProofs -------------------------
(***************************************************************************)
(* Theorems about what an import run leaves behind: what the tables show   *)
(* as identified, and what a successful Book run stands for; the gap table *)
(* and what a successful discovery has read; and that no Book it has read  *)
(* is left without an identification or the work that will make one.       *)
(***************************************************************************)
EXTENDS ImportQueueProofs

(* Identification.                                                         *)

\* What one step can do to the metadata of a Book.
MetaStep(b) ==
    \/ meta'[b] \in {meta[b], FreshMetadata}
    \/ \E p \in BOOLEAN : meta'[b] = Revised(meta[b], p)
    \/ meta'[b] = [meta[b] EXCEPT !.state = "RUNNING"]
    \/ meta'[b] = [meta[b] EXCEPT !.pending = FALSE, !.state = "FAILED"]
    \/ /\ IdentifyApply /\ b = myScope
       /\ meta'[b] = [meta[b] EXCEPT !.processed = worker.rev, !.pending = FALSE,
                                     !.state = "COMPLETED"]

\* The worker's Book in a Book run is a Book.
LEMMA HeldBook ==
    ASSUME TypeOK, WorkerRow, worker.pc \in BookPc
    PROVE  me \in Id /\ myScope \in Book
BY DEF WorkerRow, TypeOK, Row, Scope, me, myScope

\* Failing a row fails the identification of its Book only.
LEMMA FailRowMeta ==
    ASSUME TypeOK, NEW b \in Book, NEW partial, FailRow(partial)
    PROVE  MetaStep(b)
BY DEF FailRow, MetaStep, TypeOK

\* Every step does one of these to a Book's metadata.
LEMMA MetaSteps ==
    ASSUME TypeOK, WorkerRow, Next, NEW b \in Book
    PROVE  MetaStep(b)
<1>1. CASE meta' = meta
  BY <1>1 DEF MetaStep
<1>2. ASSUME NEW c \in Book, ForgetBook(c)
      PROVE  MetaStep(b)
  BY <1>2 DEF ForgetBook, MetaStep, TypeOK
<1>3. CASE Removals
  BY <1>1, <1>2, <1>3
     DEF Removals, DeleteBookSources, DeleteMemberSource, ChangeOrganizationMode,
         RequestLibraryRemoval, MetaStep, TypeOK
<1>4. ASSUME NEW l \in Library, CleanUpLibrary(l)
      PROVE  MetaStep(b)
  BY <1>4 DEF CleanUpLibrary, MetaStep
<1>5. ASSUME NEW i \in Id, Claim(i)
      PROVE  MetaStep(b)
  BY <1>5 DEF Claim, MetaStep, TypeOK
<1>6. CASE Scanning
  BY <1>1, <1>2, <1>6
     DEF Scanning, ScanUnavailable, BeginRound, PruneBook, VisitBook, EndRound, ScanFails,
         ScanFailsUnrecorded
<1>7. CASE IdentifyLoad
  BY <1>7 DEF IdentifyLoad, MetaStep, TypeOK
<1>8. CASE IdentifyApply
  <2>1. myScope \in Book
    BY <1>8, HeldBook DEF IdentifyApply, At, BookPc
  <2>2. CASE b = myScope
    BY <1>8, <2>1, <2>2 DEF IdentifyApply, MetaStep, TypeOK
  <2>3. CASE b # myScope
    BY <1>8, <2>1, <2>3 DEF IdentifyApply, MetaStep, TypeOK
  <2> QED BY <2>2, <2>3
<1>9. CASE Finishing
  BY <1>1, <1>9, FailRowMeta
     DEF Finishing, FinishCancelled, FinishSuccess, FinishFailure, FinishRaises,
         CloseCancelled, Close
<1> QED
  BY <1>1, <1>3, <1>4, <1>5, <1>6, <1>7, <1>8, <1>9
     DEF Next, WorkerStep, Requests, RequestBookWork, RequestSourceScan, RequestLibraryScan,
         ContinueBookTask, Request, BeginFileOperation, EndFileOperation, Start,
         RecoverInterrupted, BookRun, AfterScan, ResourcesEnd, AdvancePhase,
         SomeResourcesFail, RunFails, IdentifyStale, LoseRow, Crash

\* Metadata shown as identified is that of the latest revision of its Book, however
\* long the files were read and whatever was imported or deleted meanwhile.
THEOREM IdentifiedIsCurrent == Spec => []CompletedIsCurrent
<1>1. Init => CompletedIsCurrent
  BY DEF Init, CompletedIsCurrent, FreshMetadata
<1>2. TypeOK /\ WorkerRow /\ CompletedIsCurrent /\ [Next]_vars => CompletedIsCurrent'
  <2>1. SUFFICES ASSUME TypeOK, WorkerRow, CompletedIsCurrent, [Next]_vars,
                        NEW b \in Book, meta'[b].state = "COMPLETED"
                 PROVE  meta'[b].processed = meta'[b].rev /\ ~meta'[b].pending
    BY DEF CompletedIsCurrent
  <2>2. meta[b] \in Metadata
    BY <2>1 DEF TypeOK
  <2>3. CASE meta'[b] = meta[b]
    BY <2>1, <2>3 DEF CompletedIsCurrent
  <2>4. CASE IdentifyApply /\ b = myScope
    <3>1. meta[b].rev = worker.rev
      BY <2>4 DEF IdentifyApply, SnapshotCurrent
    <3>2. meta'[b] = [meta[b] EXCEPT !.processed = worker.rev, !.pending = FALSE,
                                     !.state = "COMPLETED"]
      BY <2>1, <2>4 DEF IdentifyApply, TypeOK
    <3> QED BY <2>2, <3>1, <3>2 DEF Metadata
  <2>5. CASE Next
    <3>1. MetaStep(b)
      BY <2>1, <2>5, MetaSteps
    <3>2. meta'[b].state = "COMPLETED" => \/ meta'[b] = meta[b]
                                          \/ IdentifyApply /\ b = myScope
      <4>1. FreshMetadata.state # "COMPLETED"
        BY DEF FreshMetadata
      <4>2. \A p : Revised(meta[b], p).state # "COMPLETED"
        BY <2>2 DEF Revised, Metadata
      <4>3. /\ [meta[b] EXCEPT !.state = "RUNNING"].state # "COMPLETED"
            /\ [meta[b] EXCEPT !.pending = FALSE, !.state = "FAILED"].state # "COMPLETED"
        BY <2>2 DEF Metadata
      <4> QED BY <3>1, <4>1, <4>2, <4>3 DEF MetaStep
    <3> QED BY <2>1, <2>3, <2>4, <3>2
  <2> QED BY <2>1, <2>3, <2>5 DEF vars
<1> QED BY <1>1, <1>2, TypeCorrect, WorkerRowInvariant, PTL DEF Spec

----------------------------------------------------------------------------
(* A Book run that succeeds has identified the revision it claimed.        *)

\* While a Book row runs, the revision its worker works on is not newer than the
\* Book's, and a run about to succeed has processed it.
RunRevision ==
    me \in Id /\ Running(me) /\ task[me].kind = "IMPORT_BOOK" =>
        /\ worker.rev <= meta[myScope].rev
        /\ worker.pc = "finish" /\ worker.out # "error" =>
              worker.rev <= meta[myScope].processed

\* Metadata and worker fields are integers.
LEMMA Revisions ==
    ASSUME TypeOK
    PROVE  /\ worker.rev \in Nat
           /\ \A b \in Book : /\ meta[b] \in Metadata /\ meta[b].rev \in Nat
                              /\ meta[b].processed \in Nat \cup {-1}
BY DEF TypeOK, Worker, Metadata

\* A Book row is bound to a Book.
LEMMA BookRowScope ==
    ASSUME TypeOK, NEW i \in Id, task[i].kind = "IMPORT_BOOK"
    PROVE  task[i].scope \in Book
BY DEF TypeOK, Row, Scope

\* A discarded row is not running.
LEMMA DeletedRow ==
    ASSUME NEW T \in [Id -> Row], NEW D, NEW i \in Id, i \in D
    PROVE  DeleteRows(T, D)[i].state # "RUNNING"
<1>1. [T[i] EXCEPT !.state = "DELETED"].state = "DELETED"
  BY DEF Row
<1> QED BY <1>1 DEF DeleteRows

\* RunRevision is kept while the worker, its row and its Book's metadata are.
LEMMA RunRevisionKept ==
    ASSUME TypeOK, RunRevision, worker' = worker,
           me \in Id /\ task'[me].state = "RUNNING" /\ task'[me].kind = "IMPORT_BOOK" =>
               /\ task[me].state = "RUNNING" /\ task[me].kind = "IMPORT_BOOK"
               /\ task'[me].scope = myScope
               /\ meta'[myScope].rev >= meta[myScope].rev
               /\ meta'[myScope].rev \in Nat
               /\ meta'[myScope].processed = meta[myScope].processed
    PROVE  RunRevision'
<1> SUFFICES ASSUME me \in Id, task'[me].state = "RUNNING", task'[me].kind = "IMPORT_BOOK"
             PROVE  /\ worker.rev <= meta'[myScope].rev
                    /\ worker.pc = "finish" /\ worker.out # "error" =>
                          worker.rev <= meta'[myScope].processed
  BY DEF RunRevision, me, myScope, Running
<1>1. myScope \in Book
  BY BookRowScope DEF myScope
<1> QED BY <1>1, Revisions DEF RunRevision, Running

\* Other actors leave a RUNNING Book row alone, or delete it with its Book.
LEMMA RunRevisionOthers ==
    ASSUME TypeOK, WorkerRow, RunRevision,
           Requests \/ Removals \/ \E l \in Library : BeginFileOperation(l) \/ EndFileOperation(l)
    PROVE  RunRevision'
<1>1. ASSUME NEW row, Request(row)
      PROVE  RunRevision'
  <2>1. me \in Id => task'[me] = task[me]
    BY <1>1, EnqueueRows DEF Request, WorkerRow, me
  <2> QED BY <1>1, <2>1, Revisions, BookRowScope, RunRevisionKept
          DEF Request, Running, myScope
<1>2. ASSUME NEW b \in Book, DeleteBookSources(b)
      PROVE  RunRevision'
  <2> SUFFICES ASSUME me \in Id, task'[me].state = "RUNNING", task'[me].kind = "IMPORT_BOOK"
               PROVE  RunRevision'
    BY <1>2 DEF DeleteBookSources, RunRevision, me, Running
  <2>1. ~Anchored(me, b)
    <3>1. DeleteRows(task, {i \in Id : Anchored(i, b)})[me].state = "RUNNING"
      BY <1>2 DEF DeleteBookSources, ForgetBook
    <3> QED BY <3>1, DeletedRow DEF TypeOK
  <2>2. task'[me] = task[me]
    BY <1>2, <2>1 DEF DeleteBookSources, ForgetBook, DeleteRows
  <2>3. myScope # b
    BY <2>1, <2>2 DEF Anchored, myScope
  <2>4. meta'[myScope] = meta[myScope] /\ myScope \in Book
    BY <1>2, <2>2, <2>3, BookRowScope DEF DeleteBookSources, ForgetBook, TypeOK, myScope
  <2> QED BY <1>2, <2>2, <2>4, Revisions, RunRevisionKept
          DEF DeleteBookSources, Running, myScope
<1>3. ASSUME NEW b \in Book, DeleteMemberSource(b)
      PROVE  RunRevision'
  <2>1. \A c \in Book : /\ meta'[c].rev \in Nat /\ meta'[c].rev >= meta[c].rev
                        /\ meta'[c].processed = meta[c].processed
    BY <1>3, Revisions DEF DeleteMemberSource, Revised, TypeOK, Metadata
  <2> QED BY <1>3, <2>1, BookRowScope, RunRevisionKept
          DEF DeleteMemberSource, Running, myScope
<1>4. ASSUME NEW l \in Library, ChangeOrganizationMode(l)
      PROVE  RunRevision'
  <2> SUFFICES ASSUME me \in Id, task'[me].state = "RUNNING", task'[me].kind = "IMPORT_BOOK"
               PROVE  RunRevision'
    BY <1>4 DEF ChangeOrganizationMode, RunRevision, me, Running
  <2> DEFINE D == {i \in Id : /\ LibraryOf(task[i].scope) = l
                              /\ \/ task[i].state \in {"QUEUED", "RUNNING"}
                                 \/ task[i].kind # "SCAN_LIBRARY"}
  <2>1. me # last + 1 /\ last + 1 \in Id
    BY <1>4, BoundAssumption DEF ChangeOrganizationMode, WorkerRow, TypeOK, Id, me
  <2>2. task'[me] = DeleteRows(task, D)[me]
    BY <1>4, <2>1, DeleteRowsType DEF ChangeOrganizationMode, TypeOK
  <2> HIDE DEF D
  <2>3. me \notin D
    BY <2>2, DeletedRow DEF TypeOK
  <2>4. task'[me] = task[me]
    BY <2>2, <2>3 DEF DeleteRows
  <2>5. LibraryOf(task[me].scope) # l
    BY <2>3, <2>4 DEF D
  <2>6. myScope \in Book /\ myScope \notin BooksUnder(l)
    BY <2>4, <2>5, BookRowScope, BookLibraryAssumption DEF BooksUnder, LibraryOf, myScope
  <2>7. meta'[myScope] = meta[myScope]
    BY <1>4, <2>6 DEF ChangeOrganizationMode
  <2> QED BY <1>4, <2>4, <2>6, <2>7, Revisions, RunRevisionKept
          DEF ChangeOrganizationMode, Running, myScope
<1>5. ASSUME UNCHANGED <<worker, task, meta>>
      PROVE  RunRevision'
  BY <1>5, Revisions, BookRowScope, RunRevisionKept DEF Running, myScope
<1> QED BY <1>1, <1>2, <1>3, <1>4, <1>5
        DEF Requests, RequestBookWork, RequestSourceScan, RequestLibraryScan, ContinueBookTask,
            Removals, RequestLibraryRemoval, BeginFileOperation, EndFileOperation

\* RunRevision is kept when the worker moves on with its row, if it finishes without
\* an error only what it has processed.
LEMMA RunRevisionMoves ==
    ASSUME TypeOK, RunRevision, worker'.id = me, worker'.rev = worker.rev,
           me \in Id => /\ task'[me].state = task[me].state
                        /\ task'[me].kind = task[me].kind /\ task'[me].scope = myScope,
           me \in Id /\ Running(me) /\ task[me].kind = "IMPORT_BOOK" =>
               /\ meta'[myScope].rev = meta[myScope].rev
               /\ worker'.pc = "finish" /\ worker'.out # "error" =>
                     worker.rev <= meta'[myScope].processed
    PROVE  RunRevision'
BY DEF RunRevision, me, myScope, Running

\* A worker without a row has nothing to process.
LEMMA RunRevisionRest ==
    ASSUME worker'.id = 0
    PROVE  RunRevision'
BY DEF RunRevision, me, Id

\* A scan does not finish a Book run without an error.
LEMMA RunRevisionScanning ==
    ASSUME TypeOK, WorkerRow, RunRevision, Scanning
    PROVE  RunRevision'
<1> USE DEF me, myScope
<1>1. worker'.id = me /\ worker'.rev = worker.rev
  BY DEF Scanning, ScanUnavailable, BeginRound, PruneBook, VisitBook, EndRound, ScanFails,
         ScanFailsUnrecorded, Goto, FinishWith, TypeOK, Worker
<1>2. ASSUME NEW b \in Book, PruneBook(b)
      PROVE  RunRevision'
  <2>1. task[me].kind = "SCAN_LIBRARY" /\ worker' = worker
    BY <1>2 DEF PruneBook
  <2>2. me \in Id => /\ task'[me].kind = "SCAN_LIBRARY"
    BY <1>2, <2>1, DeleteRowsKeeps DEF PruneBook, ForgetBook, TypeOK
  <2> QED BY <2>1, <2>2 DEF RunRevision
<1>3. ASSUME meta' = meta,
             me \in Id => /\ task'[me].state = task[me].state
                          /\ task'[me].kind = task[me].kind /\ task'[me].scope = myScope,
             worker'.pc = "finish" /\ worker'.out # "error" => task[me].kind # "IMPORT_BOOK"
      PROVE  RunRevision'
  BY <1>1, <1>3, RunRevisionMoves
<1>4. CASE ScanUnavailable \/ ScanFailsUnrecorded \/ \E F \in SUBSET Scope : ScanFails(F)
  BY <1>3, <1>4 DEF ScanUnavailable, ScanFailsUnrecorded, ScanFails, FinishWith, TypeOK, Worker
<1>5. CASE BeginRound
  <2>1. worker'.pc = "walk"
    BY <1>5, WorkerFields DEF BeginRound
  <2>2. me \in Id => /\ task'[me].state = task[me].state
                     /\ task'[me].kind = task[me].kind /\ task'[me].scope = myScope
    BY <1>5 DEF BeginRound, TypeOK, Row
  <2> QED BY <1>3, <1>5, <2>1, <2>2 DEF BeginRound
<1>6. ASSUME NEW b \in Book, NEW changed \in BOOLEAN, VisitBook(b, changed)
      PROVE  RunRevision'
  <2>1. worker'.pc = "walk" /\ meta' = meta
    BY <1>6 DEF VisitBook, At, TypeOK, Worker
  <2>2. task'[me] = task[me]
    BY <1>6, EnqueueRows, HeldPosition DEF VisitBook
  <2> QED BY <1>3, <2>1, <2>2
<1>7. CASE EndRound
  <2>1. CASE task[me].kind \in ScanKinds
    BY <1>3, <1>7, <2>1 DEF EndRound, ScanKinds
  <2>2. CASE task[me].kind \notin ScanKinds
    <3>1. worker'.pc # "finish"
      BY <1>7, <2>2, WorkerFields DEF EndRound
    <3> QED BY <1>3, <1>7, <3>1 DEF EndRound
  <2> QED BY <2>1, <2>2
<1> QED BY <1>2, <1>4, <1>5, <1>6, <1>7 DEF Scanning

\* A Book run finishes what it has identified, or fails.
LEMMA RunRevisionBookRun ==
    ASSUME TypeOK, WorkerRow, RunRevision, BookRun
    PROVE  RunRevision'
<1>0. worker.pc \in BookPc
  BY DEF BookRun, AfterScan, ResourcesEnd, AdvancePhase, SomeResourcesFail, RunFails,
         IdentifyLoad, IdentifyApply, IdentifyStale, At, BookPc
<1>1. me \in Id /\ myScope \in Book
  BY <1>0, HeldBook
<1>2. worker'.id = me
  BY DEF BookRun, AfterScan, ResourcesEnd, AdvancePhase, SomeResourcesFail, RunFails,
         IdentifyLoad, IdentifyApply, IdentifyStale, Goto, FinishWith, TypeOK, Worker, me
<1>3. /\ task'[me].state = task[me].state
      /\ task'[me].kind = task[me].kind /\ task'[me].scope = myScope
  BY DEF BookRun, AfterScan, ResourcesEnd, AdvancePhase, SomeResourcesFail, RunFails,
         IdentifyLoad, IdentifyApply, IdentifyStale, TypeOK, Row, myScope
<1>4. CASE AfterScan \/ ResourcesEnd
  <2>1. /\ worker'.rev = worker.rev /\ meta' = meta
        /\ worker'.pc = "finish" => worker'.out = "error"
    BY <1>4 DEF AfterScan, ResourcesEnd, AdvancePhase, Goto, FinishWith, TypeOK, Worker
  <2> QED BY <1>2, <1>3, <2>1, RunRevisionMoves
<1>5. CASE SomeResourcesFail \/ RunFails
  <2>1. /\ worker'.rev = worker.rev /\ meta' = meta
        /\ worker'.pc = "finish" => worker'.out = "error"
    BY <1>5 DEF SomeResourcesFail, RunFails, FinishWith, At, TypeOK, Worker
  <2> QED BY <1>2, <1>3, <2>1, RunRevisionMoves
<1>6. CASE IdentifyLoad
  <2>1. worker'.rev = meta[myScope].rev /\ worker'.pc = "apply"
    BY <1>6 DEF IdentifyLoad, TypeOK, Worker
  <2>2. meta'[myScope].rev = meta[myScope].rev
    BY <1>1, <1>6, Revisions DEF IdentifyLoad, TypeOK, Metadata
  <2>3. meta[myScope].rev \in Nat
    BY <1>1, Revisions
  <2> QED BY <1>1, <1>2, <1>3, <2>1, <2>2, <2>3 DEF RunRevision, me, myScope
<1>7. CASE IdentifyApply
  <2>1. worker'.rev = worker.rev
    BY <1>7 DEF IdentifyApply, FinishWith, TypeOK, Worker
  <2>2. /\ meta'[myScope].rev = meta[myScope].rev
        /\ meta'[myScope].processed = worker.rev
    BY <1>1, <1>7, Revisions DEF IdentifyApply, TypeOK, Metadata
  <2> QED BY <1>2, <1>3, <2>1, <2>2, Revisions, RunRevisionMoves
<1>8. CASE IdentifyStale
  <2>1. worker'.rev = worker.rev /\ meta' = meta /\ worker'.out = StaleOutcome
    BY <1>8 DEF IdentifyStale, FinishWith, TypeOK, Worker
  <2>2. worker'.out # "error" => meta[myScope].processed = meta[myScope].rev
    BY <2>1 DEF StaleOutcome, IdentificationComplete
  <2>3. Running(me) /\ task[me].kind = "IMPORT_BOOK" => worker.rev <= meta[myScope].rev
    BY <1>1 DEF RunRevision
  <2> QED BY <1>2, <1>3, <2>1, <2>2, <2>3, RunRevisionMoves
<1> QED BY <1>4, <1>5, <1>6, <1>7, <1>8 DEF BookRun

\* RunRevision is inductive.
LEMMA RunRevisionNext ==
    ASSUME TypeOK, WorkerRow, RunRevision, [Next]_vars
    PROVE  RunRevision'
<1>1. ASSUME NEW p \in WorkerPc, worker' = AtRest(p)
      PROVE  RunRevision'
  BY <1>1, AtRestType, RunRevisionRest
<1>2. ASSUME NEW i \in Id, Claim(i)
      PROVE  RunRevision'
  <2>1. worker'.id = i /\ task'[i].kind = task[i].kind /\ task'[i].scope = task[i].scope
    BY <1>2, ClaimTakes DEF Claim, TypeOK, Row
  <2>2. CASE task[i].kind = "IMPORT_BOOK"
    <3>1. task[i].scope \in Book
      BY <2>2, BookRowScope
    <3>2. worker' = [AtRest(FirstPc(i)) EXCEPT !.id = i, !.rev = meta[task[i].scope].rev + 1]
      BY <1>2, <2>2 DEF Claim
    <3>3. worker'.rev = meta[task[i].scope].rev + 1 /\ worker'.pc # "finish"
      BY <3>2 DEF AtRest, FirstPc
    <3>4. meta'[task[i].scope].rev = meta[task[i].scope].rev + 1
      <4>1. meta'[task[i].scope] = Revised(meta[task[i].scope], TRUE)
        BY <1>2, <2>2, <3>1 DEF Claim, TypeOK
      <4> QED BY <3>1, <4>1, Revisions DEF Revised, Metadata
    <3>5. meta[task[i].scope].rev + 1 \in Nat
      BY <3>1, Revisions
    <3> QED BY <2>1, <3>3, <3>4, <3>5 DEF RunRevision, me, myScope
  <2>3. CASE task[i].kind # "IMPORT_BOOK"
    BY <2>1, <2>3 DEF RunRevision, me
  <2> QED BY <2>2, <2>3
<1>3. ASSUME NEW l \in Library, CleanUpLibrary(l)
      PROVE  RunRevision'
  BY <1>3, RunRevisionRest DEF CleanUpLibrary, WorkerRow
<1>4. CASE Finishing
  <2>1. CASE FinishRaises
    <3>1. /\ worker'.pc = "close" /\ worker'.id = me /\ worker'.rev = worker.rev
          /\ meta' = meta /\ task' = task
      BY <2>1 DEF FinishRaises, Goto, TypeOK, Worker, me
    <3> QED BY <3>1, RunRevisionMoves DEF myScope
  <2>2. CASE worker' = AtRest("idle")
    BY <1>1, <2>2 DEF WorkerPc
  <2> QED BY <1>4, <2>1, <2>2
          DEF Finishing, FinishCancelled, FinishSuccess, FinishFailure, CloseCancelled, Close,
              FailRow
<1>5. CASE Start \/ RecoverInterrupted \/ Crash \/ \E to \in {"idle", "paused"} : LoseRow(to)
  BY <1>1, <1>5 DEF Start, RecoverInterrupted, Crash, LoseRow, WorkerPc
<1>6. CASE UNCHANGED vars
  BY <1>6 DEF vars, RunRevision, me, myScope, Running
<1> QED BY <1>2, <1>3, <1>4, <1>5, <1>6, RunRevisionOthers, RunRevisionScanning,
           RunRevisionBookRun DEF Next, WorkerStep

\* A row becomes SUCCEEDED only when the worker that holds it closes it.
LEMMA OnlyFinishSucceeds ==
    ASSUME TypeOK, WorkerRow, Next, NEW i \in Id, Succeeds(i)
    PROVE  FinishSuccess /\ i = me
<1>1. ASSUME NEW T \in [Id -> Row], NEW D, DeleteRows(T, D)[i].state = "SUCCEEDED"
      PROVE  T[i].state = "SUCCEEDED"
  BY <1>1, DeleteRowsKeeps
<1>2. task[i].state = "RUNNING" /\ task'[i].state = "SUCCEEDED" /\ task \in [Id -> Row]
  BY DEF Succeeds, Running, TypeOK
<1>3. ASSUME NEW row, Enqueue(row)
      PROVE  row.state = "SUCCEEDED"
  <2>1. task' = [task EXCEPT ![last + 1] = row] /\ last + 1 \in Id
    BY <1>3, EnqueueRows
  <2> QED BY <1>2, <2>1
<1>4. ~Requests
  <2>1. ASSUME NEW k, NEW s, NEW w, Request(QueuedRow(k, s, w))
        PROVE  FALSE
    BY <1>3, <2>1 DEF Request, QueuedRow
  <2> QED BY <2>1 DEF Requests, RequestBookWork, RequestSourceScan, RequestLibraryScan,
                      ContinueBookTask
<1>5. ~Removals
  <2>1. ASSUME NEW l \in Library, ChangeOrganizationMode(l)
        PROVE  FALSE
    <3>1. PICK D : task' = [DeleteRows(task, D) EXCEPT ![last + 1] =
                              QueuedRow("SCAN_LIBRARY", l, NoWork)]
      BY <2>1 DEF ChangeOrganizationMode
    <3>2. DeleteRows(task, D) \in [Id -> Row]
      BY <1>2, DeleteRowsType
    <3>3. QueuedRow("SCAN_LIBRARY", l, NoWork).state = "QUEUED"
      BY DEF QueuedRow
    <3>4. task'[i].state \in {"QUEUED", DeleteRows(task, D)[i].state}
      BY <3>1, <3>2, <3>3
    <3> QED BY <1>1, <1>2, <3>4
  <2> QED BY <1>1, <1>2, <2>1
          DEF Removals, DeleteBookSources, ForgetBook, DeleteMemberSource, RequestLibraryRemoval
<1>6. ~(\E l \in Library : CleanUpLibrary(l) \/ BeginFileOperation(l) \/ EndFileOperation(l))
  BY <1>1, <1>2 DEF CleanUpLibrary, BeginFileOperation, EndFileOperation
<1>7. ~(Start \/ RecoverInterrupted \/ Crash \/ (\E to \in {"idle", "paused"} : LoseRow(to))
        \/ (\E j \in Id : Claim(j)))
  BY <1>2 DEF Start, RecoverInterrupted, Crash, LoseRow, Claim, Row
<1>8. ~Scanning
  <2>1. ASSUME NEW b \in Book, NEW changed \in BOOLEAN, VisitBook(b, changed)
        PROVE  FALSE
    BY <1>2, <1>3, <2>1 DEF VisitBook, QueuedRow
  <2>2. ASSUME NEW b \in Book, PruneBook(b)
        PROVE  FALSE
    BY <1>1, <1>2, <2>2 DEF PruneBook, ForgetBook
  <2>3. ~BeginRound
    BY <1>2 DEF BeginRound, Row
  <2> QED BY <1>2, <2>1, <2>2, <2>3
          DEF Scanning, ScanUnavailable, EndRound, ScanFails, ScanFailsUnrecorded
<1>9. ~BookRun
  BY <1>2 DEF BookRun, AfterScan, ResourcesEnd, AdvancePhase, SomeResourcesFail, RunFails,
              IdentifyLoad, IdentifyApply, IdentifyStale, Row
<1>10. Finishing => FinishSuccess /\ i = me
  BY <1>2 DEF Finishing, FinishCancelled, FinishSuccess, FinishFailure, FinishRaises,
              CloseCancelled, Close, FailRow, Row
<1> QED BY <1>4, <1>5, <1>6, <1>7, <1>8, <1>9, <1>10 DEF Next, WorkerStep

\* A Book run is reported as successful only when the revision it works on has been
\* identified, also when its own result was dropped as stale.
THEOREM SuccessMeansIdentified == Spec => SuccessIsIdentified
<1>1. Init => RunRevision
  BY AtRestType DEF Init, RunRevision, me, Id, WorkerPc
<1>2. TypeOK /\ WorkerRow /\ RunRevision /\ [Next]_vars => RunRevision'
  BY RunRevisionNext
<1>3. TypeOK /\ WorkerRow /\ RunRevision /\ [Next]_vars =>
          [\A i \in Id : Succeeds(i) /\ task[i].kind = "IMPORT_BOOK" =>
              meta[task[i].scope].processed >= worker.rev]_vars
  <2> SUFFICES ASSUME TypeOK, WorkerRow, RunRevision, Next, NEW i \in Id,
                      Succeeds(i), task[i].kind = "IMPORT_BOOK"
               PROVE  meta[task[i].scope].processed >= worker.rev
    OBVIOUS
  <2>1. FinishSuccess /\ i = me
    BY OnlyFinishSucceeds
  <2>2. /\ worker.pc = "finish" /\ worker.out # "error" /\ Running(me)
    BY <2>1 DEF FinishSuccess, At, Succeeds
  <2>3. task[i].scope \in Book
    BY BookRowScope
  <2> QED BY <2>1, <2>2, <2>3, Revisions DEF RunRevision, myScope
<1> QED BY <1>1, <1>2, <1>3, TypeCorrect, WorkerRowInvariant, PTL DEF Spec, SuccessIsIdentified

----------------------------------------------------------------------------
(* The algebra of the gap table.                                           *)

\* Recording ranges loses no range, and covers the Books of those recorded.
LEMMA RecordCovers ==
    ASSUME NEW g \in SUBSET Scope, NEW S \in SUBSET Scope, NEW b \in Book
    PROVE  /\ GapCovers(g, b) => GapCovers(RecordGap(g, S), b)
           /\ \A s \in S : b \in BooksUnder(s) => GapCovers(RecordGap(g, S), b)
<1>1. BookLibrary[b] \in Library
  BY BookLibraryAssumption
<1>2. b \in g \cup S \/ BookLibrary[b] \in g \cup S => GapCovers(RecordGap(g, S), b)
  BY <1>1 DEF GapCovers, RecordGap
<1>3. ASSUME NEW s \in S, b \in BooksUnder(s)
      PROVE  s = b \/ s = BookLibrary[b]
  BY <1>3 DEF BooksUnder
<1> QED BY <1>2, <1>3 DEF GapCovers

\* Clearing a completed range loses no Book outside it.
LEMMA ClearKeeps ==
    ASSUME NEW g \in SUBSET Scope, NEW s \in Scope, NEW b \in Book \ BooksUnder(s), GapCovers(g, b)
    PROVE  GapCovers(ClearGap(g, s), b)
<1>1. BookLibrary[b] \in Library /\ b # s /\ BookLibrary[b] # s
  BY BookLibraryAssumption DEF BooksUnder, Scope
<1> QED BY <1>1 DEF GapCovers, ClearGap

\* Clearing a range twice is clearing it once.
LEMMA ClearTwice ==
    ASSUME NEW g, NEW s
    PROVE  ClearGap(ClearGap(g, s), s) = ClearGap(g, s)
BY DEF ClearGap

\* A Book is under its own scope and under its library only.
LEMMA BooksUnderLibrary ==
    ASSUME NEW s \in Scope, NEW b \in BooksUnder(s)
    PROVE  b \in Book /\ LibraryOf(s) = BookLibrary[b] /\ (s \notin Library => s = b)
BY BookLibraryAssumption DEF BooksUnder, LibraryOf, Scope

----------------------------------------------------------------------------
(* The inductive invariant.                                                *)

\* A discovery row that runs and has not opened its round stands for its scope.
Unopened(i) == Running(i) /\ task[i].kind \in ScanKinds /\ ~task[i].round
Covered(b) == \/ GapCovers(gap, b)
              \/ \E i \in Id : Unopened(i) /\ b \in BooksUnder(task[i].scope)

\* What the walk has enumerated is no longer owed.
OwedUnread == owed \subseteq book /\ worker.seen \cap owed = {}

\* A row waiting in the queue has opened no round.
QueuedUnopened == \A i \in Id : task[i].state = "QUEUED" => ~task[i].round

\* A discovery about to succeed owes nothing and has cleared its range.
CompleteRead ==
    At("finish") /\ worker.out = "ok" /\ task[me].kind \in ScanKinds =>
        /\ owed \cap BooksUnder(myScope) = {}
        /\ HasRound(me) => gap = ClearGap(gap, myScope)
OwedCovered == \A b \in owed : lib[BookLibrary[b]] = "active" => Covered(b)
GapInv == OwedUnread /\ QueuedUnopened /\ CompleteRead /\ OwedCovered

\* Covered is kept by a step that covers what was covered.
LEMMA OwedCoveredKept ==
    ASSUME TypeOK, OwedCovered, owed' \subseteq owed,
           \A b \in owed' : lib'[BookLibrary[b]] = "active" =>
               /\ lib[BookLibrary[b]] = "active"
               /\ GapCovers(gap, b) => GapCovers(gap', b)
               /\ \A i \in Id : Unopened(i) /\ b \in BooksUnder(task[i].scope) =>
                     GapCovers(gap', b) \/ (task'[i] = task[i])
    PROVE  OwedCovered'
<1> SUFFICES ASSUME NEW b \in owed', lib'[BookLibrary[b]] = "active"
             PROVE  Covered(b)'
  BY DEF OwedCovered
<1>1. Covered(b)
  BY DEF OwedCovered
<1>2. CASE GapCovers(gap, b)
  BY <1>2 DEF Covered, GapCovers
<1>3. ASSUME NEW i \in Id, Unopened(i), b \in BooksUnder(task[i].scope)
      PROVE  Covered(b)'
  BY <1>3 DEF Covered, GapCovers, Unopened, Running, BooksUnder
<1> QED BY <1>1, <1>2, <1>3 DEF Covered

\* A step that keeps the rows, the gap table, the debts and what was seen keeps the
\* invariant, if the worker does not finish a discovery.
LEMMA GapInvIdle ==
    ASSUME TypeOK, GapInv, UNCHANGED <<task, gap, owed>>, book \subseteq book',
           worker'.seen \in {worker.seen, {}},
           \A b \in Book : lib'[BookLibrary[b]] = "active" => lib[BookLibrary[b]] = "active",
           \/ worker'.pc # "finish" \/ worker' = worker \/ worker'.out # "ok"
           \/ worker'.id = me /\ task[me].kind = "IMPORT_BOOK"
    PROVE  GapInv'
<1>1. OwedUnread' /\ QueuedUnopened'
  BY DEF GapInv, OwedUnread, QueuedUnopened
<1>2. CompleteRead'
  BY DEF GapInv, CompleteRead, At, me, myScope, HasRound, ScanKinds, BooksUnder
<1>3. OwedCovered'
  BY OwedCoveredKept DEF GapInv, TypeOK, GapCovers
<1> QED BY <1>1, <1>2, <1>3 DEF GapInv

\* Inserting a queued row keeps the invariant.
LEMMA GapInvEnqueue ==
    ASSUME TypeOK, WorkerRow, GapInv, NEW row, Enqueue(row), ~row.round,
           UNCHANGED <<gap, lib>>, book \subseteq book', owed' \subseteq owed,
           worker'.seen \cap owed' = {},
           worker' = worker \/ worker'.pc # "finish"
    PROVE  GapInv'
<1>1. \A i \in Id : task'[i] = task[i] \/ (task[i].state = "ABSENT" /\ task'[i] = row)
  <2>1. task' = [task EXCEPT ![last + 1] = row] /\ last + 1 \in Id
    BY EnqueueRows
  <2>2. task[last + 1].state = "ABSENT"
    BY <2>1 DEF WorkerRow, TypeOK, Id
  <2> QED BY <2>1, <2>2 DEF TypeOK
<1>2. OwedUnread' /\ QueuedUnopened'
  BY <1>1 DEF GapInv, OwedUnread, QueuedUnopened
<1>3. CompleteRead'
  <2>1. me \in Id => task'[me] = task[me]
    BY EnqueueRows DEF WorkerRow, me
  <2> QED BY <2>1 DEF GapInv, CompleteRead, At, me, myScope, HasRound, BooksUnder
<1>4. OwedCovered'
  <2>1. \A i \in Id : Unopened(i) => task'[i] = task[i]
    BY <1>1 DEF Unopened, Running
  <2> QED BY <2>1, OwedCoveredKept DEF GapInv
<1> QED BY <1>2, <1>3, <1>4 DEF GapInv

\* A discarded row is one of those to discard; the others stay.
LEMMA DeletedRows ==
    ASSUME NEW T \in [Id -> Row], NEW D, NEW i \in Id
    PROVE  /\ DeleteRows(T, D)[i].round = T[i].round
           /\ DeleteRows(T, D)[i].state = "QUEUED" => T[i].state = "QUEUED"
           /\ i \notin D => DeleteRows(T, D)[i] = T[i]
<1>1. [T[i] EXCEPT !.state = "DELETED"].round = T[i].round
  BY DEF Row
<1>2. [T[i] EXCEPT !.state = "DELETED"].state = "DELETED"
  BY DEF Row
<1> QED BY <1>1, <1>2 DEF DeleteRows

\* Discarding the rows of a Book, with the Book, keeps the invariant.
LEMMA GapInvForget ==
    ASSUME TypeOK, GapInv, NEW b \in Book, ForgetBook(b), owed' = owed \ {b},
           UNCHANGED <<gap, lib, worker>>
    PROVE  GapInv'
<1> DEFINE D == {i \in Id : Anchored(i, b)}
<1>1. task' = DeleteRows(task, D) /\ task \in [Id -> Row]
  BY DEF ForgetBook, TypeOK
<1>2. OwedUnread' /\ QueuedUnopened'
  BY <1>1, DeletedRows DEF GapInv, OwedUnread, QueuedUnopened, ForgetBook
<1>3. CompleteRead'
  <2>1. me \in Id => task'[me].kind = task[me].kind /\ task'[me].scope = task[me].scope
    BY <1>1, DeleteRowsKeeps
  <2> QED BY <2>1 DEF GapInv, CompleteRead, At, me, myScope, HasRound, BooksUnder
<1>4. OwedCovered'
  <2>1. ASSUME NEW c \in owed', NEW i \in Id, c \in BooksUnder(task[i].scope)
        PROVE  i \notin D
    BY <2>1 DEF Anchored, BooksUnder, TypeOK, Row, Scope
  <2> QED BY <1>1, <2>1, DeletedRows, OwedCoveredKept DEF GapInv, GapCovers
<1> QED BY <1>2, <1>3, <1>4 DEF GapInv

\* Requests insert rows that owe nothing yet.
LEMMA GapInvRequests ==
    ASSUME TypeOK, WorkerRow, GapInv, Requests
    PROVE  GapInv'
<1>1. ASSUME NEW k, NEW s, NEW w, Request(QueuedRow(k, s, w))
      PROVE  GapInv'
  <2>1. ~QueuedRow(k, s, w).round
    BY DEF QueuedRow
  <2> QED BY <1>1, <2>1, GapInvEnqueue DEF Request, GapInv, OwedUnread
<1> QED BY <1>1 DEF Requests, RequestBookWork, RequestSourceScan, RequestLibraryScan,
                    ContinueBookTask

\* Removing sources removes their debts; a new scan row owes its scope when claimed.
LEMMA GapInvRemovals ==
    ASSUME TypeOK, WorkerRow, GapInv, Removals
    PROVE  GapInv'
<1>1. ASSUME NEW b \in Book, DeleteBookSources(b)
      PROVE  GapInv'
  BY <1>1, GapInvForget DEF DeleteBookSources
<1>2. ASSUME NEW b \in Book, DeleteMemberSource(b)
      PROVE  GapInv'
  BY <1>2, GapInvIdle DEF DeleteMemberSource
<1>3. ASSUME NEW l \in Library, RequestLibraryRemoval(l)
      PROVE  GapInv'
  BY <1>3, GapInvIdle, BookLibraryAssumption DEF RequestLibraryRemoval, TypeOK
<1>4. ASSUME NEW l \in Library, ChangeOrganizationMode(l)
      PROVE  GapInv'
  <2> DEFINE D == {i \in Id : /\ LibraryOf(task[i].scope) = l
                              /\ \/ task[i].state \in {"QUEUED", "RUNNING"}
                                 \/ task[i].kind # "SCAN_LIBRARY"}
             T == DeleteRows(task, D)
             row == QueuedRow("SCAN_LIBRARY", l, NoWork)
  <2>1. /\ task' = [T EXCEPT ![last + 1] = row] /\ last + 1 \in Id /\ T \in [Id -> Row]
        /\ task \in [Id -> Row]
    BY <1>4, BoundAssumption, DeleteRowsType DEF ChangeOrganizationMode, TypeOK, Id
  <2>2. ~row.round /\ row.state = "QUEUED"
    BY DEF QueuedRow
  <2>3. \A i \in Id : task'[i] = IF i = last + 1 THEN row ELSE T[i]
    BY <2>1
  <2>4. /\ owed' = owed \ BooksUnder(l) /\ book' = book \ BooksUnder(l)
        /\ UNCHANGED <<gap, lib, worker>>
    BY <1>4 DEF ChangeOrganizationMode
  <2>5. OwedUnread'
    BY <2>4 DEF GapInv, OwedUnread
  <2>6. QueuedUnopened'
    BY <2>1, <2>2, <2>3, DeletedRows DEF GapInv, QueuedUnopened
  <2>7. \A i \in Id : task[i].state # "ABSENT" => i # last + 1
    BY <2>1 DEF WorkerRow, TypeOK, Id
  <2>8. CompleteRead'
    <3>1. me \in Id => me # last + 1
      BY DEF WorkerRow, TypeOK, Id, me
    <3>2. me \in Id => task'[me].kind = task[me].kind /\ task'[me].scope = task[me].scope
      BY <2>1, <2>3, <3>1, DeleteRowsKeeps
    <3> QED BY <2>4, <3>2 DEF GapInv, CompleteRead, At, me, myScope, HasRound, BooksUnder
  <2>9. OwedCovered'
    <3>1. ASSUME NEW c \in owed', NEW i \in Id, Unopened(i), c \in BooksUnder(task[i].scope)
          PROVE  task'[i] = task[i]
      <4>1. LibraryOf(task[i].scope) = BookLibrary[c] /\ c \in Book
        BY <2>1, <3>1, BooksUnderLibrary DEF Row
      <4>2. BookLibrary[c] # l
        BY <2>4, <4>1 DEF BooksUnder
      <4>3. i \notin D
        BY <4>1, <4>2
      <4>4. i # last + 1
        BY <2>7, <3>1 DEF Unopened, Running
      <4> QED BY <2>1, <2>3, <4>3, <4>4, DeletedRows
    <3> QED BY <2>4, <3>1, OwedCoveredKept DEF GapInv
  <2> QED BY <2>5, <2>6, <2>8, <2>9 DEF GapInv
<1> QED BY <1>1, <1>2, <1>3, <1>4 DEF Removals

\* A removed library takes its ranges, rows and debts with it.
LEMMA GapInvCleanUp ==
    ASSUME TypeOK, WorkerRow, GapInv, NEW l \in Library, CleanUpLibrary(l)
    PROVE  GapInv'
<1> DEFINE D == {i \in Id : LibraryOf(task[i].scope) = l}
<1>1. /\ task' = DeleteRows(task, D) /\ task \in [Id -> Row]
      /\ owed' = owed \ BooksUnder(l) /\ book' = book \ BooksUnder(l)
      /\ gap' = {s \in gap : LibraryOf(s) # l} /\ worker' = worker
      /\ worker.pc # "finish"
  BY DEF CleanUpLibrary, TypeOK
<1>2. OwedUnread' /\ QueuedUnopened'
  BY <1>1, DeletedRows DEF GapInv, OwedUnread, QueuedUnopened
<1>3. CompleteRead'
  BY <1>1 DEF CompleteRead, At
<1>4. OwedCovered'
  <2>1. ASSUME NEW c \in owed'
        PROVE  c \in Book /\ BookLibrary[c] # l /\ BookLibrary[c] \in Library
    BY <1>1, <2>1, BookLibraryAssumption DEF TypeOK, BooksUnder
  <2>2. ASSUME NEW c \in owed', GapCovers(gap, c)
        PROVE  GapCovers(gap', c)
    BY <1>1, <2>1, <2>2, BookLibraryAssumption DEF GapCovers, LibraryOf
  <2>3. ASSUME NEW c \in owed', NEW i \in Id, c \in BooksUnder(task[i].scope)
        PROVE  task'[i] = task[i]
    <3>1. LibraryOf(task[i].scope) = BookLibrary[c]
      BY <1>1, <2>3, BooksUnderLibrary DEF Row
    <3> QED BY <1>1, <2>1, <3>1, DeletedRows
  <2>4. ASSUME NEW c \in owed', lib'[BookLibrary[c]] = "active"
        PROVE  lib[BookLibrary[c]] = "active"
    BY <2>1, <2>4 DEF CleanUpLibrary, TypeOK
  <2> QED BY <1>1, <2>2, <2>3, <2>4, OwedCoveredKept DEF GapInv
<1> QED BY <1>2, <1>3, <1>4 DEF GapInv

\* Recovery records the ranges of the rows it closes before their rounds.
LEMMA GapInvRecover ==
    ASSUME TypeOK, WorkerRow, GapInv, RecoverInterrupted
    PROVE  GapInv'
<1>1. /\ task \in [Id -> Row] /\ worker'.pc = "idle" /\ worker'.seen = {}
      /\ UNCHANGED <<owed, book, lib>>
  BY DEF RecoverInterrupted, AtRest, TypeOK
<1>2. \A i \in Id : /\ task'[i].round = task[i].round
                    /\ task'[i].state = "QUEUED" => task[i].state = "QUEUED"
                    /\ i \notin Interrupted => task'[i] = task[i]
  BY <1>1 DEF RecoverInterrupted, Row
<1>3. OwedUnread' /\ QueuedUnopened'
  BY <1>1, <1>2 DEF GapInv, OwedUnread, QueuedUnopened
<1>4. CompleteRead'
  BY <1>1 DEF CompleteRead, At
<1>5. OwedCovered'
  <2>1. gap' = RecordGap(gap, UnstartedScopes(Interrupted))
    BY DEF RecoverInterrupted
  <2>2. gap \in SUBSET Scope /\ UnstartedScopes(Interrupted) \in SUBSET Scope
    BY <1>1 DEF TypeOK, UnstartedScopes, Interrupted, Row
  <2>3. ASSUME NEW b \in owed, NEW i \in Interrupted, Unopened(i), b \in BooksUnder(task[i].scope)
        PROVE  GapCovers(gap', b)
    <3>1. task[i].scope \in UnstartedScopes(Interrupted) /\ b \in Book
      BY <2>3 DEF UnstartedScopes, Unopened, TypeOK
    <3> QED BY <2>1, <2>2, <2>3, <3>1, RecordCovers
  <2>4. ASSUME NEW b \in owed, GapCovers(gap, b)
        PROVE  GapCovers(gap', b)
    BY <2>1, <2>2, <2>4, RecordCovers DEF TypeOK
  <2> QED BY <1>1, <1>2, <2>3, <2>4, OwedCoveredKept DEF GapInv
<1> QED BY <1>3, <1>4, <1>5 DEF GapInv

\* A claimed discovery row stands for all it owes until its round opens.
LEMMA GapInvClaim ==
    ASSUME TypeOK, WorkerRow, GapInv, NEW i \in Id, Claim(i)
    PROVE  GapInv'
<1>1. /\ task \in [Id -> Row] /\ task[i].state = "QUEUED"
      /\ UNCHANGED <<gap, book, lib>>
  BY DEF Claim, Claimable, TypeOK
<1>2. /\ \A j \in Id : j # i => task'[j] = task[j]
      /\ task'[i] = [task[i] EXCEPT !.state = "RUNNING"]
  BY <1>1 DEF Claim
<1>3. /\ task'[i].state = "RUNNING" /\ task'[i].round = task[i].round
      /\ task'[i].kind = task[i].kind /\ task'[i].scope = task[i].scope
  BY <1>1, <1>2 DEF Row
<1>4. worker'.pc # "finish" /\ worker'.seen = {}
  <2>1. CASE task[i].kind = "IMPORT_BOOK"
    <3>1. worker' = [AtRest(FirstPc(i)) EXCEPT
                       !.id = i, !.rev = meta[task[i].scope].rev + 1]
      BY <2>1 DEF Claim
    <3> QED BY <3>1 DEF AtRest, FirstPc
  <2>2. CASE task[i].kind # "IMPORT_BOOK"
    <3>1. worker' = [AtRest("scan") EXCEPT !.id = i]
      BY <2>2 DEF Claim
    <3> QED BY <3>1 DEF AtRest
  <2> QED BY <2>1, <2>2
<1>5. \/ owed' = owed
      \/ task[i].kind \in ScanKinds /\ owed' = owed \cup (BooksUnder(task[i].scope) \cap book)
  BY <1>1 DEF Claim, Row, Kinds
<1>6. OwedUnread' /\ QueuedUnopened'
  BY <1>1, <1>2, <1>3, <1>4, <1>5 DEF GapInv, OwedUnread, QueuedUnopened
<1>7. CompleteRead'
  BY <1>4 DEF CompleteRead, At
<1>8. OwedCovered'
  <2> SUFFICES ASSUME NEW b \in owed', lib[BookLibrary[b]] = "active"
               PROVE  Covered(b)'
    BY <1>1 DEF OwedCovered
  <2>1. CASE b \in owed /\ GapCovers(gap, b)
    BY <1>1, <2>1 DEF Covered, GapCovers
  <2>2. ASSUME NEW j \in Id, Unopened(j), b \in BooksUnder(task[j].scope)
        PROVE  Covered(b)'
    <3>1. task'[j] = task[j]
      BY <1>1, <1>2, <2>2 DEF Unopened, Running
    <3> QED BY <2>2, <3>1 DEF Covered, Unopened, Running, BooksUnder
  <2>3. CASE task[i].kind \in ScanKinds /\ b \in BooksUnder(task[i].scope)
    <3>1. ~task[i].round
      BY <1>1 DEF GapInv, QueuedUnopened
    <3> QED BY <1>3, <2>3, <3>1 DEF Covered, Unopened, Running, BooksUnder
  <2>4. b \in owed => Covered(b)
    BY DEF GapInv, OwedCovered
  <2> QED BY <1>5, <2>1, <2>2, <2>3, <2>4 DEF Covered
<1> QED BY <1>6, <1>7, <1>8 DEF GapInv

\* A round records its scope first; what it clears it has read.
LEMMA GapInvScanning ==
    ASSUME TypeOK, WorkerRow, GapInv, Scanning
    PROVE  GapInv'
<1>0. gap \in SUBSET Scope /\ task \in [Id -> Row]
  BY DEF TypeOK
<1>1. CASE ScanUnavailable \/ ScanFailsUnrecorded
  <2>1. worker'.seen = worker.seen /\ worker'.out = "error"
    BY <1>1 DEF ScanUnavailable, ScanFailsUnrecorded, FinishWith, TypeOK, Worker
  <2> QED BY <1>1, <2>1, GapInvIdle DEF ScanUnavailable, ScanFailsUnrecorded
<1>2. CASE BeginRound
  <2>1. /\ me \in Id /\ myScope \in Scope
        /\ worker'.pc # "finish" /\ worker'.seen = worker.seen
        /\ UNCHANGED <<owed, book, lib>>
    BY <1>2, HeldRow DEF BeginRound, Goto, TypeOK, Worker
  <2>2. /\ \A i \in Id : i # me => task'[i] = task[i]
        /\ task'[me].state = task[me].state
        /\ Running(me) \/ task'[me].round = task[me].round
        /\ HasRound(me) \/ task'[me] = task[me]
    <3>1. task'[me] = [task[me] EXCEPT !.round =
                         @ \/ (HasRound(me) /\ task[me].kind \in ScanKinds /\ Running(me))]
      BY <1>0, <1>2, <2>1 DEF BeginRound
    <3>2. task[me] \in Row /\ task[me].round \in BOOLEAN
      BY <1>0, <2>1 DEF Row
    <3>3. \A i \in Id : i # me => task'[i] = task[i]
      BY <1>0, <1>2 DEF BeginRound
    <3>4. task'[me].state = task[me].state
      BY <3>1, <3>2 DEF Row
    <3>5. task'[me].round = (task[me].round \/ (HasRound(me) /\ task[me].kind \in ScanKinds /\ Running(me)))
      BY <3>1, <3>2 DEF Row
    <3>6. ~HasRound(me) => task'[me] = task[me]
      BY <3>1, <3>2 DEF Row
    <3> QED BY <3>2, <3>3, <3>4, <3>5, <3>6
  <2>3. OwedUnread' /\ QueuedUnopened'
    BY <2>1, <2>2 DEF GapInv, OwedUnread, QueuedUnopened, Running
  <2>4. CompleteRead'
    BY <2>1 DEF CompleteRead, At
  <2>5. OwedCovered'
    <3>1. CASE HasRound(me)
      <4>1. gap' = RecordGap(gap, {myScope})
        BY <1>2, <3>1 DEF BeginRound
      <4>2. ASSUME NEW b \in owed
            PROVE  /\ GapCovers(gap, b) => GapCovers(gap', b)
                   /\ b \in BooksUnder(myScope) => GapCovers(gap', b)
        BY <1>0, <2>1, <4>1, RecordCovers DEF TypeOK
      <4> QED BY <2>1, <2>2, <4>2, OwedCoveredKept DEF GapInv, myScope
    <3>2. CASE ~HasRound(me)
      <4>1. gap' = gap /\ \A i \in Id : task'[i] = task[i]
        BY <1>2, <2>2, <3>2 DEF BeginRound
      <4> QED BY <2>1, <4>1, OwedCoveredKept DEF GapInv
    <3> QED BY <3>1, <3>2
  <2> QED BY <2>3, <2>4, <2>5 DEF GapInv
<1>3. ASSUME NEW b \in Book, PruneBook(b)
      PROVE  GapInv'
  BY <1>3, GapInvForget DEF PruneBook
<1>4. ASSUME NEW b \in Book, NEW changed \in BOOLEAN, VisitBook(b, changed)
      PROVE  GapInv'
  <2> DEFINE row == QueuedRow("IMPORT_BOOK", b, [scan |-> FALSE, res |-> "all"])
  <2>1. /\ worker'.pc = "walk" /\ worker'.seen = worker.seen \cup {b}
        /\ owed' = owed \ {b} /\ book' = book \cup {b} /\ UNCHANGED <<gap, lib>>
    BY <1>4 DEF VisitBook, At, TypeOK, Worker
  <2>2. worker'.seen \cap owed' = {} /\ owed' \subseteq owed
    BY <2>1 DEF GapInv, OwedUnread
  <2>3. CASE Enqueue(row)
    <3>1. ~row.round
      BY DEF QueuedRow
    <3> QED BY <2>1, <2>2, <2>3, <3>1, GapInvEnqueue
  <2>4. CASE task' = task
    <3>1. OwedUnread' /\ QueuedUnopened' /\ CompleteRead'
      BY <2>1, <2>2, <2>4 DEF GapInv, OwedUnread, QueuedUnopened, CompleteRead, At
    <3>2. OwedCovered'
      BY <2>1, <2>2, <2>4, OwedCoveredKept DEF GapInv
    <3> QED BY <3>1, <3>2 DEF GapInv
  <2> QED BY <1>4, <2>3, <2>4 DEF VisitBook
<1>5. CASE EndRound
  <2>1. /\ me \in Id /\ myScope \in Scope /\ Unseen = {}
        /\ worker'.seen = worker.seen /\ worker'.id = me
        /\ UNCHANGED <<task, owed, book, lib>>
    BY <1>5, HeldRow DEF EndRound, Goto, FinishWith, TypeOK, Worker, me
  <2>2. owed \cap BooksUnder(myScope) = {}
    BY <2>1 DEF Unseen, GapInv, OwedUnread
  <2>3. OwedUnread' /\ QueuedUnopened'
    BY <2>1 DEF GapInv, OwedUnread, QueuedUnopened
  <2>4. CompleteRead'
    <3>1. HasRound(me) => gap' = ClearGap(gap, myScope)
      BY <1>5 DEF EndRound
    <3>2. HasRound(me) => ClearGap(gap', myScope) = gap'
      BY <3>1, ClearTwice
    <3> QED BY <2>1, <2>2, <3>2 DEF CompleteRead, At, me, myScope, HasRound, BooksUnder
  <2>5. OwedCovered'
    <3>1. gap' \in {gap, ClearGap(gap, myScope)}
      BY <1>5 DEF EndRound
    <3>2. ASSUME NEW b \in owed, GapCovers(gap, b)
          PROVE  GapCovers(gap', b)
      BY <1>0, <2>1, <2>2, <3>1, <3>2, ClearKeeps DEF TypeOK
    <3> QED BY <2>1, <3>2, OwedCoveredKept DEF GapInv
  <2> QED BY <2>3, <2>4, <2>5 DEF GapInv
<1>6. ASSUME NEW F \in SUBSET Scope, ScanFails(F)
      PROVE  GapInv'
  <2>1. /\ me \in Id /\ myScope \in Scope
        /\ worker'.seen = worker.seen /\ worker'.out = "error"
        /\ UNCHANGED <<task, owed, book, lib>>
        /\ Unseen \subseteq UNION {BooksUnder(s) : s \in F}
    BY <1>6, HeldRow DEF ScanFails, FinishWith, TypeOK, Worker
  <2>2. CASE gap' = gap
    BY <2>1, <2>2, GapInvIdle
  <2>3. CASE gap' = RecordGap(ClearGap(gap, myScope), F)
    <3>1. ClearGap(gap, myScope) \in SUBSET Scope
      BY <1>0, <2>1, GapType
    <3>2. ASSUME NEW b \in owed, GapCovers(gap, b)
          PROVE  GapCovers(gap', b)
      <4>0. b \in Book /\ b \in book /\ b \notin worker.seen
        BY DEF TypeOK, GapInv, OwedUnread
      <4>1. CASE b \in BooksUnder(myScope)
        <5>1. PICK s \in F : b \in BooksUnder(s)
          BY <2>1, <4>0, <4>1 DEF Unseen
        <5> QED BY <2>3, <3>1, <4>0, <5>1, RecordCovers
      <4>2. CASE b \notin BooksUnder(myScope)
        BY <1>0, <2>1, <2>3, <3>1, <3>2, <4>0, <4>2, ClearKeeps, RecordCovers
      <4> QED BY <4>1, <4>2
    <3>3. OwedCovered'
      BY <2>1, <3>2, OwedCoveredKept DEF GapInv
    <3>4. OwedUnread' /\ QueuedUnopened' /\ CompleteRead'
      BY <2>1 DEF GapInv, OwedUnread, QueuedUnopened, CompleteRead
    <3> QED BY <3>3, <3>4 DEF GapInv
  <2> QED BY <1>6, <2>2, <2>3 DEF ScanFails
<1> QED BY <1>1, <1>2, <1>3, <1>4, <1>5, <1>6 DEF Scanning

\* A failed row records its scope; a successful one owes nothing.
LEMMA GapInvFinishing ==
    ASSUME TypeOK, WorkerRow, GapInv, Finishing
    PROVE  GapInv'
<1>0. gap \in SUBSET Scope /\ task \in [Id -> Row] /\ me \in Id /\ task[me] \in Row
      /\ UNCHANGED <<owed, book, lib>>
  BY HeldRow DEF Finishing, FinishCancelled, FinishSuccess, FinishFailure, FinishRaises,
                 CloseCancelled, Close, FailRow, TypeOK
<1>1. worker'.pc # "finish"
  BY DEF Finishing, FinishCancelled, FinishSuccess, FinishFailure, FinishRaises,
         CloseCancelled, Close, FailRow, AtRest, Goto, TypeOK, Worker
<1>2. worker'.seen \in {worker.seen, {}}
  BY DEF Finishing, FinishCancelled, FinishSuccess, FinishFailure, FinishRaises,
         CloseCancelled, Close, FailRow, AtRest, Goto, TypeOK, Worker
<1>3. ASSUME UNCHANGED <<task, gap>>
      PROVE  GapInv'
  BY <1>0, <1>1, <1>2, <1>3, GapInvIdle
<1>4. ASSUME \A i \in Id : i # me => task'[i] = task[i],
             task'[me].state # "QUEUED", OwedCovered'
      PROVE  GapInv'
  <2>1. OwedUnread' /\ QueuedUnopened'
    BY <1>0, <1>2, <1>4 DEF GapInv, OwedUnread, QueuedUnopened
  <2>2. CompleteRead'
    BY <1>1 DEF CompleteRead, At
  <2> QED BY <1>4, <2>1, <2>2 DEF GapInv
<1>5. CASE FinishSuccess
  <2>1. \A i \in Id : i # me => task'[i] = task[i]
    BY <1>0, <1>5 DEF FinishSuccess
  <2>2. task'[me].state = "SUCCEEDED" /\ gap' = gap
    BY <1>0, <1>5 DEF FinishSuccess, Row
  <2>3. task[me].kind \in ScanKinds => owed \cap BooksUnder(task[me].scope) = {}
    BY <1>5 DEF FinishSuccess, GapInv, CompleteRead, myScope
  <2>4. OwedCovered'
    BY <1>0, <2>1, <2>2, <2>3, OwedCoveredKept DEF GapInv, Unopened
  <2> QED BY <1>4, <2>1, <2>2, <2>4
<1>6. ASSUME NEW partial, FailRow(partial)
      PROVE  GapInv'
  <2>1. \A i \in Id : i # me => task'[i] = task[i]
    BY <1>0, <1>6 DEF FailRow
  <2>2. task'[me].state = "FAILED" /\ gap' = FailureGap
    BY <1>0, <1>6 DEF FailRow, Row
  <2>3. myScope \in Scope
    BY <1>0 DEF myScope, Row
  <2>4. ASSUME NEW b \in owed
        PROVE  /\ GapCovers(gap, b) => GapCovers(gap', b)
               /\ Unopened(me) /\ b \in BooksUnder(task[me].scope) => GapCovers(gap', b)
    <3>1. gap' \in {gap, RecordGap(gap, {myScope})}
      BY <2>2 DEF FailureGap
    <3>2. Unopened(me) => gap' = RecordGap(gap, {myScope})
      BY <2>2 DEF FailureGap, Unopened
    <3> QED BY <1>0, <2>3, <3>1, <3>2, RecordCovers DEF TypeOK, myScope
  <2>5. OwedCovered'
    BY <1>0, <2>1, <2>4, OwedCoveredKept DEF GapInv
  <2> QED BY <1>4, <2>1, <2>2, <2>5
<1> QED BY <1>3, <1>5, <1>6
        DEF Finishing, FinishCancelled, FinishFailure, FinishRaises, CloseCancelled, Close

\* A Book run leaves the gap table and the rows' rounds alone.
LEMMA GapInvBookRun ==
    ASSUME TypeOK, WorkerRow, GapInv, BookRun
    PROVE  GapInv'
<1>1. worker.pc \in BookPc /\ me \in Id
  BY DEF BookRun, AfterScan, ResourcesEnd, AdvancePhase, SomeResourcesFail, RunFails,
         IdentifyLoad, IdentifyApply, IdentifyStale, At, BookPc
<1>2. /\ UNCHANGED <<gap, owed, book, lib>> /\ worker'.id = me /\ worker'.seen = worker.seen
  BY DEF BookRun, AfterScan, ResourcesEnd, AdvancePhase, SomeResourcesFail, RunFails,
         IdentifyLoad, IdentifyApply, IdentifyStale, Goto, FinishWith, TypeOK, Worker, me
<1>3. \A i \in Id : /\ task'[i].state = task[i].state /\ task'[i].round = task[i].round
                    /\ task'[i].kind = task[i].kind /\ task'[i].scope = task[i].scope
  BY DEF BookRun, AfterScan, ResourcesEnd, AdvancePhase, SomeResourcesFail, RunFails,
         IdentifyLoad, IdentifyApply, IdentifyStale, TypeOK, Row
<1>4. task[me].kind = "IMPORT_BOOK"
  BY <1>1 DEF WorkerRow
<1>5. OwedUnread' /\ QueuedUnopened'
  BY <1>2, <1>3 DEF GapInv, OwedUnread, QueuedUnopened
<1>6. CompleteRead'
  BY <1>1, <1>2, <1>3, <1>4 DEF CompleteRead, At, me, ScanKinds
<1>7. OwedCovered'
  BY <1>2, <1>3 DEF GapInv, OwedCovered, Covered, GapCovers, Unopened, Running, BooksUnder
<1> QED BY <1>5, <1>6, <1>7 DEF GapInv

\* The invariant is inductive.
LEMMA GapInvNext ==
    ASSUME TypeOK, WorkerRow, GapInv, [Next]_vars
    PROVE  GapInv'
<1>1. CASE UNCHANGED vars
  BY <1>1, GapInvIdle DEF vars
<1>2. ASSUME NEW l \in Library, BeginFileOperation(l) \/ EndFileOperation(l)
      PROVE  GapInv'
  BY <1>2, GapInvIdle DEF BeginFileOperation, EndFileOperation
<1>3. CASE Start \/ Crash \/ \E to \in {"idle", "paused"} : LoseRow(to)
  <2>1. worker'.seen = {} /\ worker'.pc # "finish"
    BY <1>3 DEF Start, Crash, LoseRow, AtRest
  <2> QED BY <1>3, <2>1, GapInvIdle DEF Start, Crash, LoseRow
<1> QED BY <1>1, <1>2, <1>3, GapInvRequests, GapInvRemovals, GapInvCleanUp, GapInvRecover,
           GapInvClaim, GapInvScanning, GapInvBookRun, GapInvFinishing DEF Next, WorkerStep

\* At first nothing is owed.
LEMMA GapInvInit == Init => GapInv
<1> SUFFICES ASSUME Init PROVE GapInv
  OBVIOUS
<1>1. worker.pc = "down" /\ worker.seen = {}
  BY DEF Init, AtRest
<1>2. \A i \in Id : task[i].state = "ABSENT"
  BY NoRowType DEF Init
<1> QED BY <1>1, <1>2 DEF Init, GapInv, OwedUnread, QueuedUnopened, CompleteRead, OwedCovered, At

----------------------------------------------------------------------------

\* A Book that a started discovery has yet to read is covered by the gap table, or
\* by the row that owes it and is still to be closed: after every failure, crash,
\* deletion and later scan.
THEOREM OwedBooksAreCovered == Spec => []GapCoversOwed
<1>1. GapInv => GapCoversOwed
  BY DEF GapInv, OwedCovered, Covered, Unopened, GapCoversOwed
<1> QED BY <1>1, GapInvInit, GapInvNext, TypeCorrect, WorkerRowInvariant, PTL DEF Spec

\* A discovery that reports success has read every Book it owed, and the gap table
\* holds nothing in the range of its round.
THEOREM SuccessfulScanIsComplete == Spec => SucceededScanIsComplete
<1>1. TypeOK /\ WorkerRow /\ GapInv /\ [Next]_vars =>
          [\A i \in Id : Succeeds(i) /\ task[i].kind \in ScanKinds =>
              /\ owed \cap BooksUnder(task[i].scope) = {}
              /\ HasRound(i) => gap = ClearGap(gap, task[i].scope)]_vars
  <2> SUFFICES ASSUME TypeOK, WorkerRow, GapInv, Next, NEW i \in Id,
                      Succeeds(i), task[i].kind \in ScanKinds
               PROVE  /\ owed \cap BooksUnder(task[i].scope) = {}
                      /\ HasRound(i) => gap = ClearGap(gap, task[i].scope)
    OBVIOUS
  <2>1. FinishSuccess /\ i = me
    BY OnlyFinishSucceeds
  <2> QED BY <2>1 DEF FinishSuccess, GapInv, CompleteRead, myScope
<1> QED BY <1>1, GapInvInit, GapInvNext, TypeCorrect, WorkerRowInvariant, PTL
        DEF Spec, SucceededScanIsComplete

----------------------------------------------------------------------------
(* What a discovery has read is identified, or will be worked on.          *)

Awaits(b) == \E i \in Id : /\ task[i].kind = "IMPORT_BOOK" /\ task[i].scope = b
                           /\ task[i].state = "QUEUED"
Served(b) == \/ IdentificationComplete(b)
             \/ Awaits(b)
             \/ meta[b].state = "WAITING_IMPORT" /\ ~meta[b].pending

\* A discovery starts its walk with nothing read; no Book it has read since, and
\* that still exists, is left unserved.
Discovering == At("walk") /\ task[me].kind \in ScanKinds
ReadInv == /\ worker.pc = "scan" => worker.seen = {}
           /\ Discovering => \A b \in worker.seen \cap book : Served(b)

\* Outside a walk, and with nothing read, there is nothing to serve.
LEMMA ReadNothing ==
    ASSUME worker'.seen = {} \/ worker'.pc \notin {"scan", "walk"}
    PROVE  ReadInv'
BY DEF ReadInv, Discovering, At

\* A step of others takes neither a waiting row nor an identification from a Book.
LEMMA ReadKept ==
    ASSUME ReadInv, worker' = worker, me \in Id => task'[me].kind = task[me].kind,
           \A b \in book' : /\ b \in book
                            /\ \A i \in Id : task[i].scope = b /\ task[i].state = "QUEUED" =>
                                  task'[i] = task[i]
                            /\ \/ meta'[b] = meta[b]
                               \/ meta'[b].state = "WAITING_IMPORT" /\ ~meta'[b].pending
    PROVE  ReadInv'
<1>1. ASSUME NEW b \in book', Served(b)
      PROVE  Served(b)'
  <2>1. Awaits(b) => Awaits(b)'
    BY DEF Awaits
  <2>2. CASE meta'[b] = meta[b]
    BY <1>1, <2>1, <2>2 DEF Served, IdentificationComplete
  <2>3. CASE meta'[b].state = "WAITING_IMPORT" /\ ~meta'[b].pending
    BY <2>3 DEF Served
  <2> QED BY <2>2, <2>3
<1>2. Discovering' => Discovering
  BY DEF Discovering, At, me
<1> QED BY <1>1, <1>2 DEF ReadInv

\* A new row, at the end of the queue, takes nothing away.
LEMMA ReadRequests ==
    ASSUME TypeOK, WorkerRow, ReadInv, Requests
    PROVE  ReadInv'
<1>1. ASSUME NEW row, Request(row)
      PROVE  ReadInv'
  <2>1. \A i \in Id : task[i].state = "QUEUED" => task'[i] = task[i]
    BY <1>1, EnqueueRows DEF Request, WorkerRow, TypeOK, Id
  <2>2. me \in Id => task'[me] = task[me]
    BY <1>1, EnqueueRows DEF Request, WorkerRow, me
  <2> QED BY <1>1, <2>1, <2>2, ReadKept DEF Request
<1> QED BY <1>1 DEF Requests, RequestBookWork, RequestSourceScan, RequestLibraryScan,
                    ContinueBookTask

\* A Book that is forgotten takes its rows with it, and no others.
LEMMA ReadForget ==
    ASSUME TypeOK, ReadInv, NEW c \in Book, ForgetBook(c), worker' = worker
    PROVE  ReadInv'
<1>1. task \in [Id -> Row] /\ task' = DeleteRows(task, {i \in Id : Anchored(i, c)})
      /\ book' = book \ {c} /\ meta \in [Book -> Metadata] /\ book \subseteq Book
      /\ \A b \in Book \ {c} : meta'[b] = meta[b]
  BY DEF ForgetBook, TypeOK
<1>2. ASSUME NEW b \in book', NEW i \in Id, task[i].scope = b
      PROVE  task'[i] = task[i]
  BY <1>1, <1>2, DeletedRows DEF Anchored
<1>3. me \in Id => task'[me].kind = task[me].kind
  BY <1>1, DeleteRowsKeeps
<1> QED BY <1>1, <1>2, <1>3, ReadKept

LEMMA ReadRemovals ==
    ASSUME TypeOK, WorkerRow, ReadInv, Removals
    PROVE  ReadInv'
<1>1. ASSUME NEW b \in Book, DeleteBookSources(b)
      PROVE  ReadInv'
  BY <1>1, ReadForget DEF DeleteBookSources
<1>2. ASSUME NEW b \in Book, DeleteMemberSource(b)
      PROVE  ReadInv'
  <2>1. \A c \in Book : /\ c # b => meta'[c] = meta[c]
                        /\ meta'[b].state = "WAITING_IMPORT" /\ ~meta'[b].pending
    BY <1>2 DEF DeleteMemberSource, Revised, TypeOK, Metadata
  <2> QED BY <1>2, <2>1, ReadKept DEF DeleteMemberSource, TypeOK
<1>3. ASSUME NEW l \in Library, RequestLibraryRemoval(l)
      PROVE  ReadInv'
  BY <1>3, ReadKept DEF RequestLibraryRemoval
<1>4. ASSUME NEW l \in Library, ChangeOrganizationMode(l)
      PROVE  ReadInv'
  <2> DEFINE D == {i \in Id : /\ LibraryOf(task[i].scope) = l
                              /\ \/ task[i].state \in {"QUEUED", "RUNNING"}
                                 \/ task[i].kind # "SCAN_LIBRARY"}
             T == DeleteRows(task, D)
  <2>1. /\ task' = [T EXCEPT ![last + 1] = QueuedRow("SCAN_LIBRARY", l, NoWork)]
        /\ last + 1 \in Id /\ T \in [Id -> Row] /\ task \in [Id -> Row]
        /\ book' = book \ BooksUnder(l) /\ worker' = worker /\ book \subseteq Book
        /\ \A b \in Book \ BooksUnder(l) : meta'[b] = meta[b]
    BY <1>4, BoundAssumption, DeleteRowsType DEF ChangeOrganizationMode, TypeOK, Id
  <2>2. \A i \in Id : i # last + 1 => task'[i] = T[i]
    BY <2>1
  <2>3. ASSUME NEW b \in book', NEW i \in Id, task[i].scope = b, task[i].state = "QUEUED"
        PROVE  task'[i] = task[i]
    <3>1. i # last + 1
      BY <2>1, <2>3 DEF WorkerRow, TypeOK, Id
    <3>2. b \in Book /\ BookLibrary[b] # l
      BY <2>1 DEF BooksUnder
    <3>3. LibraryOf(task[i].scope) # l
      BY <2>3, <3>2, BookLibraryAssumption DEF LibraryOf
    <3> QED BY <2>1, <2>2, <3>1, <3>3, DeletedRows
  <2>4. me \in Id => task'[me].kind = task[me].kind
    <3>1. me \in Id => me # last + 1
      BY DEF WorkerRow, TypeOK, Id, me
    <3> QED BY <2>1, <2>2, <3>1, DeleteRowsKeeps
  <2> QED BY <2>1, <2>3, <2>4, ReadKept
<1> QED BY <1>1, <1>2, <1>3, <1>4 DEF Removals

\* The walk: a Book it reads is identified, or gets a row.
LEMMA ReadVisit ==
    ASSUME TypeOK, WorkerRow, ReadInv, NEW b \in Book, NEW changed \in BOOLEAN, VisitBook(b, changed)
    PROVE  ReadInv'
<1> DEFINE row == QueuedRow("IMPORT_BOOK", b, [scan |-> FALSE, res |-> "all"])
<1>1. /\ worker'.pc = "walk" /\ worker'.id = me /\ me \in Id
      /\ worker'.seen = worker.seen \cup {b} /\ meta' = meta /\ book' = book \cup {b}
      /\ b \notin worker.seen
  BY DEF VisitBook, At, TypeOK, Worker, me
<1>2. row.kind = "IMPORT_BOOK" /\ row.scope = b /\ row.state = "QUEUED"
  BY DEF QueuedRow
<1>3. CASE NeedsBookWork(b, changed)
  <2>1. Enqueue(row)
    BY <1>3 DEF VisitBook
  <2> HIDE DEF row
  <2>2. /\ last + 1 \in Id /\ task'[last + 1] = row
        /\ \A i \in Id : task[i].state = "QUEUED" => task'[i] = task[i]
        /\ task'[me] = task[me]
    <3>1. last + 1 \in Id /\ task' = [task EXCEPT ![last + 1] = row] /\ task \in [Id -> Row]
      BY <2>1, EnqueueRows DEF TypeOK
    <3>2. me # last + 1 /\ \A i \in Id : task[i].state = "QUEUED" => i # last + 1
      BY <1>1, <3>1 DEF WorkerRow, TypeOK, Id, me
    <3> QED BY <1>1, <3>1, <3>2
  <2>3. Served(b)'
    BY <1>2, <2>2 DEF Served, Awaits
  <2>4. ASSUME NEW c \in book \ {b}, Served(c)
        PROVE  Served(c)'
    BY <1>1, <2>2, <2>4 DEF Served, Awaits, IdentificationComplete
  <2> QED BY <1>1, <2>2, <2>3, <2>4 DEF ReadInv, Discovering, At, me, VisitBook
<1>4. CASE ~NeedsBookWork(b, changed)
  <2>1. task' = task
    BY <1>4 DEF VisitBook
  <2>2. task[me].kind \in ScanKinds => Served(b)'
    BY <1>1, <1>4, <2>1 DEF NeedsBookWork, ScanKinds, Served, IdentificationComplete
  <2>3. ASSUME NEW c \in book \ {b}, Served(c)
        PROVE  Served(c)'
    BY <1>1, <2>1, <2>3 DEF Served, Awaits, IdentificationComplete
  <2> QED BY <1>1, <2>1, <2>2, <2>3 DEF ReadInv, Discovering, At, me, VisitBook
<1> QED BY <1>3, <1>4

LEMMA ReadScanning ==
    ASSUME TypeOK, WorkerRow, ReadInv, Scanning
    PROVE  ReadInv'
<1>1. CASE BeginRound
  <2>1. worker'.seen = {}
    BY <1>1 DEF BeginRound, At, Goto, ReadInv, TypeOK, Worker
  <2> QED BY <2>1, ReadNothing
<1>2. ASSUME NEW b \in Book, PruneBook(b)
      PROVE  ReadInv'
  BY <1>2, ReadForget DEF PruneBook
<1>3. ASSUME ScanUnavailable \/ EndRound \/ ScanFailsUnrecorded \/ \E F \in SUBSET Scope : ScanFails(F)
      PROVE  ReadInv'
  <2>1. worker'.pc \in {"finish", "scanned", "res"}
    BY <1>3 DEF ScanUnavailable, EndRound, ScanFailsUnrecorded, ScanFails, FinishWith, Goto,
                TypeOK, Worker
  <2> QED BY <2>1, ReadNothing
<1> QED BY <1>1, <1>2, <1>3, ReadVisit DEF Scanning

\* The invariant is inductive.
LEMMA ReadNext ==
    ASSUME TypeOK, WorkerRow, ReadInv, [Next]_vars
    PROVE  ReadInv'
<1>1. ASSUME UNCHANGED <<task, book, meta, worker>>
      PROVE  ReadInv'
  BY <1>1, ReadKept
<1>2. ASSUME NEW l \in Library, BeginFileOperation(l) \/ EndFileOperation(l)
      PROVE  ReadInv'
  BY <1>1, <1>2 DEF BeginFileOperation, EndFileOperation
<1>3. ASSUME NEW l \in Library, CleanUpLibrary(l)
      PROVE  ReadInv'
  BY <1>3, ReadNothing DEF CleanUpLibrary
<1>4. CASE Start \/ RecoverInterrupted \/ Crash \/ \E to \in {"idle", "paused"} : LoseRow(to)
  BY <1>4, ReadNothing DEF Start, RecoverInterrupted, Crash, LoseRow, AtRest
<1>5. ASSUME NEW i \in Id, Claim(i)
      PROVE  ReadInv'
  <2>1. worker'.seen = {}
    BY <1>5 DEF Claim, AtRest
  <2> QED BY <2>1, ReadNothing
<1>6. CASE BookRun
  <2>1. worker'.pc \notin {"scan", "walk"}
    BY <1>6 DEF BookRun, AfterScan, ResourcesEnd, AdvancePhase, SomeResourcesFail, RunFails,
                IdentifyLoad, IdentifyApply, IdentifyStale, Goto, FinishWith, At, TypeOK, Worker
  <2> QED BY <2>1, ReadNothing
<1>7. CASE Finishing
  <2>1. worker'.pc \notin {"scan", "walk"}
    BY <1>7 DEF Finishing, FinishCancelled, FinishSuccess, FinishFailure, FinishRaises,
                CloseCancelled, Close, FailRow, Goto, AtRest, TypeOK, Worker
  <2> QED BY <2>1, ReadNothing
<1> QED BY <1>1, <1>2, <1>3, <1>4, <1>5, <1>6, <1>7, ReadRequests, ReadRemovals, ReadScanning
        DEF Next, WorkerStep, vars

\* Only the end of its round takes a walk to a good finish.
LEMMA OnlyEndRoundFinishes ==
    ASSUME TypeOK, WorkerRow, Next, At("walk"), worker'.pc = "finish", worker'.out = "ok"
    PROVE  EndRound /\ task[me].kind \in ScanKinds
<1>1. worker' # worker
  BY DEF At
<1>2. ~(Requests \/ Removals)
  BY <1>1 DEF Requests, RequestBookWork, RequestSourceScan, RequestLibraryScan, ContinueBookTask,
              Request, Removals, DeleteBookSources, DeleteMemberSource, ChangeOrganizationMode,
              RequestLibraryRemoval
<1>3. ~\E l \in Library : CleanUpLibrary(l) \/ BeginFileOperation(l) \/ EndFileOperation(l)
  BY <1>1 DEF CleanUpLibrary, BeginFileOperation, EndFileOperation
<1>4. ~(Start \/ RecoverInterrupted \/ Crash \/ \E to \in {"idle", "paused"} : LoseRow(to))
  BY DEF Start, RecoverInterrupted, Crash, LoseRow, AtRest
<1>5. ~(BookRun \/ Finishing \/ \E i \in Id : Claim(i))
  BY DEF BookRun, AfterScan, ResourcesEnd, AdvancePhase, SomeResourcesFail, RunFails, IdentifyLoad,
         IdentifyApply, IdentifyStale, Finishing, FinishCancelled, FinishSuccess, FinishFailure,
         FinishRaises, CloseCancelled, Close, Claim, At
<1>6. Scanning => EndRound
  <2>1. ~(ScanUnavailable \/ ScanFailsUnrecorded \/ \E F \in SUBSET Scope : ScanFails(F))
    BY DEF ScanUnavailable, ScanFailsUnrecorded, ScanFails, FinishWith, TypeOK, Worker
  <2>2. ~BeginRound
    BY DEF BeginRound, At
  <2>3. ~\E b \in Book : PruneBook(b) \/ \E changed \in BOOLEAN : VisitBook(b, changed)
    BY DEF PruneBook, VisitBook, At, TypeOK, Worker
  <2> QED BY <2>1, <2>2, <2>3 DEF Scanning
<1>7. EndRound
  BY <1>2, <1>3, <1>4, <1>5, <1>6 DEF Next, WorkerStep
<1>8. task[me].kind \in ScanKinds
  BY <1>7 DEF EndRound, Goto, TypeOK, Worker
<1> QED BY <1>7, <1>8

\* When a discovery has read its scope to the end, no Book in it has been left
\* unidentified without a row waiting for it, unless the identification was
\* dropped by the deletion of one of its sources (request_import_resource).
THEOREM DiscoveryLeavesNoneUnserved == Spec => ScanQueuesUnidentified
<1>1. Init => ReadInv
  BY DEF Init, AtRest, ReadInv, Discovering, At
<1>2. TypeOK /\ WorkerRow /\ ReadInv /\ [Next]_vars =>
          [At("walk") /\ worker'.pc = "finish" /\ worker'.out = "ok" =>
              \A b \in BooksUnder(myScope) \cap book :
                  \/ IdentificationComplete(b)
                  \/ \E i \in Id : /\ task[i].kind = "IMPORT_BOOK" /\ task[i].scope = b
                                   /\ task[i].state = "QUEUED"
                  \/ meta[b].state = "WAITING_IMPORT" /\ ~meta[b].pending]_vars
  <2> SUFFICES ASSUME TypeOK, WorkerRow, ReadInv, Next,
                      At("walk"), worker'.pc = "finish", worker'.out = "ok",
                      NEW b \in BooksUnder(myScope) \cap book
               PROVE  Served(b)
    BY DEF Served, Awaits
  <2>1. EndRound /\ task[me].kind \in ScanKinds
    BY OnlyEndRoundFinishes
  <2>2. b \in worker.seen
    BY <2>1 DEF EndRound, Unseen
  <2> QED BY <2>1, <2>2 DEF ReadInv, Discovering
<1> QED BY <1>1, <1>2, ReadNext, TypeCorrect, WorkerRowInvariant, PTL DEF Spec, ScanQueuesUnidentified
=============================================================================
