---------------------------- MODULE ImportQueue ----------------------------
(***************************************************************************)
(* The durable import queue (SqlAlchemyLibraryImportTaskQueue) and its     *)
(* single consumer (ReadableResourceWorkerProcessor), with the actors that *)
(* share the tables with it: API requests, source deletion, library        *)
(* removal and its background cleanup, and file operations that lock a     *)
(* library out.  One SQLite write transaction is one step; file and parser *)
(* I/O lies between steps.                                                 *)
(*                                                                         *)
(* Rows are numbered in the order the queue serves them (created_at, id).  *)
(* A scan scope is a whole library or one Book's anchor; the path algebra  *)
(* of scopes is in module ScanScopes.                                      *)
(***************************************************************************)
EXTENDS Integers, FiniteSets

CONSTANTS
    Library, Book,
    BookLibrary,     \* the library each Book belongs to
    FileBook,        \* Books anchored at a regular file, not a directory
    RequestWork,     \* the Book work API callers register
    MaxTask,         \* bound: rows ever inserted
    MaxRequest,      \* bound: rows inserted by requests, not by discovery
    MaxFault,        \* bound: crashes and failed terminal writes
    MaxFileOp        \* bound: file operations that lock a library out

ASSUME BookLibraryAssumption ==
    /\ BookLibrary \in [Book -> Library]
    /\ FileBook \subseteq Book
    /\ Library # {} /\ Library \cap Book = {}

Work == [scan : BOOLEAN, res : {"none", "some", "all"}]

ASSUME BoundAssumption ==
    /\ RequestWork \subseteq Work
    /\ MaxTask \in Nat /\ MaxRequest \in Nat
    /\ MaxFault \in Nat /\ MaxFileOp \in Nat

Id == 1..MaxTask
Scope == Library \cup Book
ScanKinds == {"SCAN_LIBRARY", "CONTINUE_SOURCE"}
Kinds == ScanKinds \cup {"IMPORT_BOOK"}
States == {"ABSENT", "QUEUED", "RUNNING", "SUCCEEDED", "FAILED", "DELETED"}
Phases == {"NONE", "SCAN", "RESOURCES", "IDENTIFY", "FINALIZE"}

VARIABLES
    task,      \* LibraryImportTask rows
    last,      \* number of rows ever inserted
    lib,       \* active, removing (deletion_requested_at set) or gone
    book,      \* Books that have a row
    busy,      \* libraries where file_operation_blocks_library holds
    meta,      \* LibraryBookMetadata: revisions, pending flag and state
    gap,       \* LibraryImportScanGap: the recorded incomplete scopes
    worker,    \* the consumer's control state, in memory only
    orphan,    \* history: rows this process left RUNNING after a fault
    owed,      \* history: Books a discovery task owes an enumeration
    used       \* the bounded events already spent

vars == <<task, last, lib, book, busy, meta, gap, worker, orphan, owed, used>>

LibraryOf(s) == IF s \in Library THEN s ELSE BookLibrary[s]
BooksUnder(s) == IF s \in Library THEN {b \in Book : BookLibrary[b] = s} ELSE {s}

Row == {r \in [kind : Kinds, scope : Scope, work : Work, state : States,
               phase : Phases, round : BOOLEAN] :
            r.kind = "SCAN_LIBRARY" <=> r.scope \in Library}
Metadata == [rev : Nat, processed : Nat \cup {-1}, pending : BOOLEAN,
             state : {"WAITING_IMPORT", "RUNNING", "COMPLETED", "FAILED"}]
FreshMetadata == [rev |-> 0, processed |-> -1, pending |-> TRUE,
                  state |-> "WAITING_IMPORT"]

WorkerPc == {"down", "boot", "idle", "scan", "walk", "scanned", "res",
             "ident", "apply", "finish", "close", "paused"}
Worker == [pc : WorkerPc, id : Id \cup {0}, out : {"ok", "partial", "error"},
           seen : SUBSET Book, rev : Nat]
AtRest(p) == [pc |-> p, id |-> 0, out |-> "ok", seen |-> {}, rev |-> 0]

NoWork == [scan |-> FALSE, res |-> "none"]

TypeOK ==
    /\ task \in [Id -> Row]
    /\ last \in 0..MaxTask
    /\ lib \in [Library -> {"active", "removing", "gone"}]
    /\ book \subseteq Book
    /\ busy \subseteq Library
    /\ meta \in [Book -> Metadata]
    /\ gap \subseteq Scope
    /\ worker \in Worker
    /\ orphan \subseteq Id
    /\ owed \subseteq Book
    /\ used \in [request : 0..MaxRequest, fault : 0..MaxFault, fileop : 0..MaxFileOp]

----------------------------------------------------------------------------
(* Rows, gaps and metadata.                                                *)

BookPhase_Selection(w) == IF w.scan THEN "SCAN" ELSE w.res

\* The phase a Book execution starts in: its first requested stage.
BookPhase(w) == IF w.scan THEN "SCAN"
                ELSE IF w.res # "none" THEN "RESOURCES" ELSE "IDENTIFY"

QueuedRow(k, s, w) ==
    [kind |-> k, scope |-> s, work |-> w, state |-> "QUEUED",
     phase |-> IF k = "IMPORT_BOOK" THEN BookPhase(w) ELSE "NONE",
     round |-> FALSE]

NoRow == [QueuedRow("SCAN_LIBRARY", CHOOSE l \in Library : TRUE, NoWork)
            EXCEPT !.state = "ABSENT"]

\* A row bound to a source node: deleting the node deletes the row.
Anchored(i, b) == task[i].kind # "SCAN_LIBRARY" /\ task[i].scope = b

DeleteRows(T, D) ==
    [i \in Id |-> IF i \in D /\ T[i].state # "ABSENT"
                  THEN [T[i] EXCEPT !.state = "DELETED"] ELSE T[i]]

IsActive(i) == lib[LibraryOf(task[i].scope)] = "active"
Running(i) == task[i].state = "RUNNING"
\* get_task finds the row, whatever its state; None means cancelled.
Known(i) == task[i].state # "DELETED" /\ IsActive(i)
Current(i) == Running(i) /\ IsActive(i)

\* merge_scan_scopes: a whole-library range absorbs the ranges below it.
RecordGap(g, S) ==
    LET all == g \cup S
    IN  {s \in all : s \in Library \/ BookLibrary[s] \notin all}
ClearGap_Wider(g, s) == {p \in g : LibraryOf(p) # LibraryOf(s)}
\* remove_scan_scopes: a completed range resolves the ranges at or below it.
ClearGap(g, s) == {p \in g : p # s /\ (p \in Library \/ BookLibrary[p] # s)}
GapCovers(g, b) == b \in g \/ BookLibrary[b] \in g

IdentificationComplete(b) ==
    /\ ~meta[b].pending
    /\ meta[b].state = "COMPLETED"
    /\ meta[b].processed = meta[b].rev

\* BookCompletion: a new import revision, to be processed (dirty) or not (cancel).
Revised(m, pending) == [m EXCEPT !.rev = @ + 1, !.pending = pending,
                                 !.state = "WAITING_IMPORT"]

\* Scans of a regular-file anchor through execute_source open no scan round.
HasRound(i) == task[i].kind = "SCAN_LIBRARY" \/ task[i].scope \notin FileBook

----------------------------------------------------------------------------
(* Requests.  Every accepted request inserts a row of its own.             *)

Enqueue(row) ==
    /\ last < MaxTask
    /\ last' = last + 1
    /\ task' = [task EXCEPT ![last + 1] = row]

Request(row) ==
    /\ used.request < MaxRequest
    /\ lib[LibraryOf(row.scope)] = "active"
    /\ Enqueue(row)
    /\ used' = [used EXCEPT !.request = @ + 1]
    /\ UNCHANGED <<lib, book, busy, meta, gap, worker, orphan, owed>>

RequestBookWork(b, w) == b \in book /\ Request(QueuedRow("IMPORT_BOOK", b, w))
RequestLibraryScan(s) == Request(QueuedRow("SCAN_LIBRARY", s, NoWork))
RequestSourceScan(b) == b \in book /\ Request(QueuedRow("CONTINUE_SOURCE", b, NoWork))

\* Re-import of an old Book task: a new row with the same work.
ContinueBookTask(i) ==
    /\ task[i].kind = "IMPORT_BOOK"
    /\ task[i].state \notin {"ABSENT", "DELETED"}
    /\ RequestBookWork(task[i].scope, task[i].work)

----------------------------------------------------------------------------
(* Removal of sources and of libraries, and file operations.               *)

\* The Book's sources disappear with the rows bound to them.
ForgetBook(b) ==
    /\ book' = book \ {b}
    /\ task' = DeleteRows(task, {i \in Id : Anchored(i, b)})
    /\ meta' = [meta EXCEPT ![b] = FreshMetadata]

DeleteBookSources(b) ==
    /\ b \in book
    /\ used.request < MaxRequest
    /\ used' = [used EXCEPT !.request = @ + 1]
    /\ ForgetBook(b)
    /\ owed' = owed \ {b}
    /\ UNCHANGED <<last, lib, busy, gap, worker, orphan>>

\* Deleting a file inside the Book keeps the Book but cancels its pending
\* identification: a new revision that nobody has been asked to process.
DeleteMemberSource(b) ==
    /\ b \in book
    /\ used.request < MaxRequest
    /\ used' = [used EXCEPT !.request = @ + 1]
    /\ meta' = [meta EXCEPT ![b] = Revised(@, FALSE)]
    /\ UNCHANGED <<task, last, lib, book, busy, gap, worker, orphan, owed>>

\* A mode change drops the overlay and every unfinished row, RUNNING too,
\* and queues one whole-library scan.
ChangeOrganizationMode(l) ==
    LET T == DeleteRows(task, {i \in Id : /\ LibraryOf(task[i].scope) = l
                                          /\ \/ task[i].state \in {"QUEUED", "RUNNING"}
                                             \/ task[i].kind # "SCAN_LIBRARY"})
    IN  /\ lib[l] = "active"
        /\ used.request < MaxRequest
        /\ last < MaxTask
        /\ task' = [T EXCEPT ![last + 1] = QueuedRow("SCAN_LIBRARY", l, NoWork)]
        /\ last' = last + 1
        /\ used' = [used EXCEPT !.request = @ + 1]
        /\ book' = book \ BooksUnder(l)
        /\ meta' = [b \in Book |-> IF b \in BooksUnder(l) THEN FreshMetadata ELSE meta[b]]
        /\ owed' = owed \ BooksUnder(l)
        /\ UNCHANGED <<lib, busy, gap, worker, orphan>>

RequestLibraryRemoval(l) ==
    /\ lib[l] = "active"
    /\ lib' = [lib EXCEPT ![l] = "removing"]
    /\ UNCHANGED <<task, last, book, busy, meta, gap, worker, orphan, owed, used>>

\* The last cleanup batch: Books, rows, gaps and the library itself.
CleanUpLibrary(l) ==
    /\ lib[l] = "removing"
    /\ worker.pc \in {"boot", "idle", "paused"}
    /\ lib' = [lib EXCEPT ![l] = "gone"]
    /\ task' = DeleteRows(task, {i \in Id : LibraryOf(task[i].scope) = l})
    /\ book' = book \ BooksUnder(l)
    /\ meta' = [b \in Book |-> IF b \in BooksUnder(l) THEN FreshMetadata ELSE meta[b]]
    /\ gap' = {s \in gap : LibraryOf(s) # l}
    /\ owed' = owed \ BooksUnder(l)
    /\ UNCHANGED <<last, busy, worker, orphan, used>>

\* A move, deletion or writeback locks the library out; each of them checks
\* for RUNNING rows in the transaction that starts it.
BeginFileOperation(l) ==
    /\ l \notin busy
    /\ lib[l] = "active"
    /\ used.fileop < MaxFileOp
    /\ \A i \in Id : Running(i) => LibraryOf(task[i].scope) # l
    /\ busy' = busy \cup {l}
    /\ used' = [used EXCEPT !.fileop = @ + 1]
    /\ UNCHANGED <<task, last, lib, book, meta, gap, worker, orphan, owed>>

EndFileOperation(l) ==
    /\ l \in busy
    /\ busy' = busy \ {l}
    /\ UNCHANGED <<task, last, lib, book, meta, gap, worker, orphan, owed, used>>

----------------------------------------------------------------------------
(* The worker process: start, recovery, claim.                             *)

Start ==
    /\ worker.pc = "down"
    /\ worker' = AtRest("boot")
    /\ UNCHANGED <<task, last, lib, book, busy, meta, gap, orphan, owed, used>>

Interrupted_Scans == {i \in Id : Current(i) /\ task[i].kind \in ScanKinds}
\* The rows this process finds RUNNING when it starts.
Interrupted == {i \in Id : Current(i)}

UnstartedScopes_None(D) == {}
\* Discovery rows that never opened a round owe their whole scope.
UnstartedScopes(D) ==
    {task[i].scope : i \in {j \in D : task[j].kind \in ScanKinds /\ ~task[j].round}}

\* fail_interrupted_tasks_on_startup: every RUNNING row is closed, none rerun.
RecoverInterrupted ==
    /\ worker.pc = "boot"
    /\ task' = [i \in Id |-> IF i \in Interrupted
                             THEN [task[i] EXCEPT !.state = "FAILED"] ELSE task[i]]
    /\ gap' = RecordGap(gap, UnstartedScopes(Interrupted))
    /\ orphan' = orphan \ Interrupted
    /\ worker' = AtRest("idle")
    /\ UNCHANGED <<last, lib, book, busy, meta, owed, used>>

Claimable_Busy(i) == task[i].state = "QUEUED" /\ IsActive(i)
Claimable_Retry(i) == /\ task[i].state \in {"QUEUED", "FAILED"}
                      /\ IsActive(i)
                      /\ LibraryOf(task[i].scope) \notin busy
Claimable_GapGated(i) == /\ task[i].state = "QUEUED"
                         /\ IsActive(i)
                         /\ LibraryOf(task[i].scope) \notin busy
                         /\ BooksUnder(task[i].scope) \cap gap = {}
Claimable(i) == /\ task[i].state = "QUEUED"
                /\ IsActive(i)
                /\ LibraryOf(task[i].scope) \notin busy

\* book_requires_scan: a whole-Book run re-enumerates a Book under a gap.
NeedsOwnScan(i) == /\ BookPhase(task[i].work) = "RESOURCES"
                   /\ task[i].work.res = "all"
                   /\ GapCovers(gap, task[i].scope)

FirstPc(i) ==
    IF task[i].kind \in ScanKinds \/ task[i].work.scan \/ NeedsOwnScan(i) THEN "scan"
    ELSE IF task[i].work.res # "none" THEN "res" ELSE "ident"

\* One transaction selects the oldest claimable row and starts it.
Claim(i) ==
    /\ worker.pc = "idle"
    /\ Claimable(i)
    /\ \A j \in Id : Claimable(j) => i <= j
    /\ task' = [task EXCEPT ![i].state = "RUNNING"]
    /\ IF task[i].kind = "IMPORT_BOOK"
       THEN /\ meta' = [meta EXCEPT ![task[i].scope] = Revised(@, TRUE)]
            /\ worker' = [AtRest(FirstPc(i)) EXCEPT !.id = i, !.rev = meta[task[i].scope].rev + 1]
            /\ owed' = owed
       ELSE /\ worker' = [AtRest("scan") EXCEPT !.id = i]
            /\ owed' = owed \cup (BooksUnder(task[i].scope) \cap book)
            /\ meta' = meta
    /\ UNCHANGED <<last, lib, book, busy, gap, orphan, used>>

----------------------------------------------------------------------------
(* Enumerating the claimed scope (ScanLibrarySourceTree).                  *)

me == worker.id
myScope == task[me].scope
Goto(p) == worker' = [worker EXCEPT !.pc = p]
FinishWith(o) == worker' = [worker EXCEPT !.pc = "finish", !.out = o]
At(p) == worker.pc = p /\ me \in Id
Unseen_Ignored == {}
Unseen == (BooksUnder(myScope) \cap book) \ worker.seen

\* The root or anchor cannot be read: the scan fails before its round opens.
ScanUnavailable ==
    /\ At("scan")
    /\ FinishWith("error")
    /\ UNCHANGED <<task, last, lib, book, busy, meta, gap, orphan, owed, used>>

\* The whole scope is recorded as incomplete before anything is read.
BeginRound ==
    /\ At("scan")
    /\ task[me].kind # "SCAN_LIBRARY" => myScope \in book
    /\ gap' = IF HasRound(me) THEN RecordGap(gap, {myScope}) ELSE gap
    /\ task' = [task EXCEPT ![me].round =
                  @ \/ (HasRound(me) /\ task[me].kind \in ScanKinds /\ Running(me))]
    /\ Goto("walk")
    /\ UNCHANGED <<last, lib, book, busy, meta, orphan, owed, used>>

NeedsBookWork_IfChanged(b, changed) == task[me].kind # "IMPORT_BOOK" /\ changed
\* request_import_resource: skip only Books whose resources are unchanged and
\* whose identification is complete; a Book run owns its own discoveries.
NeedsBookWork(b, changed) ==
    /\ task[me].kind # "IMPORT_BOOK"
    /\ changed \/ ~IdentificationComplete(b)

\* One Book's entries are reconciled in a transaction that rechecks the row.
VisitBook(b, changed) ==
    /\ At("walk") /\ Known(me)
    /\ b \in BooksUnder(myScope) \ worker.seen
    /\ IF NeedsBookWork(b, changed)
       THEN Enqueue(QueuedRow("IMPORT_BOOK", b, [scan |-> FALSE, res |-> "all"]))
       ELSE UNCHANGED <<task, last>>
    /\ book' = book \cup {b}
    /\ worker' = [worker EXCEPT !.seen = @ \cup {b}]
    /\ owed' = owed \ {b}
    /\ UNCHANGED <<lib, busy, meta, gap, orphan, used>>

\* After a complete listing a Book that is no longer there is removed.
PruneBook(b) ==
    /\ At("walk") /\ Known(me)
    /\ task[me].kind = "SCAN_LIBRARY"
    /\ b \in Unseen
    /\ ForgetBook(b)
    /\ owed' = owed \ {b}
    /\ UNCHANGED <<last, lib, busy, gap, worker, orphan, used>>

\* The scope has been read to the end: its gaps are resolved.  The row is not
\* rechecked after the last directory.
EndRound ==
    /\ At("walk")
    /\ Unseen = {}
    /\ gap' = IF HasRound(me) THEN ClearGap(gap, myScope) ELSE gap
    /\ IF task[me].kind \in ScanKinds THEN FinishWith("ok")
       ELSE Goto(IF task[me].phase = "SCAN" THEN "scanned" ELSE "res")
    /\ UNCHANGED <<task, last, lib, book, busy, meta, orphan, owed, used>>

\* The walk fails or is cancelled.  What was visited is resolved, then the failed
\* directories F, which hold everything not visited, are recorded.
ScanFails(F) ==
    /\ At("walk")
    /\ F \subseteq {myScope} \cup (BooksUnder(myScope) \ FileBook) /\ F # {}
    /\ Unseen \subseteq UNION {BooksUnder(s) : s \in F}
    /\ gap' = IF HasRound(me) THEN RecordGap(ClearGap(gap, myScope), F) ELSE gap
    /\ FinishWith("error")
    /\ UNCHANGED <<task, last, lib, book, busy, meta, orphan, owed, used>>

\* The transaction that would record the failed ranges fails as well.
ScanFailsUnrecorded ==
    /\ At("walk")
    /\ FinishWith("error")
    /\ UNCHANGED <<task, last, lib, book, busy, meta, gap, orphan, owed, used>>

----------------------------------------------------------------------------
(* A Book run after its scan: resources, identification.                   *)

\* Phase changes are conditional on the row: a run that lost it fails.
AdvancePhase(from, to) ==
    /\ At(from)
    /\ IF Running(me)
       THEN /\ task' = [task EXCEPT ![me].phase = IF to = "res" THEN "RESOURCES" ELSE "IDENTIFY"]
            /\ Goto(to)
       ELSE /\ FinishWith("error")
            /\ task' = task
    /\ UNCHANGED <<last, lib, book, busy, meta, gap, orphan, owed, used>>

AfterScan == AdvancePhase("scanned", IF task[me].work.res # "none" THEN "res" ELSE "ident")

\* Every resource was parsed, or some failed and the Book still goes on.
ResourcesEnd == AdvancePhase("res", "ident")
SomeResourcesFail ==
    /\ At("res")
    /\ worker.out = "ok"
    /\ worker' = [worker EXCEPT !.out = "partial"]
    /\ UNCHANGED <<task, last, lib, book, busy, meta, gap, orphan, owed, used>>

\* A stale resource, a parser failure or a cancelled run ends the Book run.
RunFails ==
    /\ worker.pc \in {"res", "ident", "apply"} /\ me \in Id
    /\ FinishWith("error")
    /\ UNCHANGED <<task, last, lib, book, busy, meta, gap, orphan, owed, used>>

\* IdentifyImportedBook: load a snapshot of the pending revision ...
IdentifyLoad ==
    /\ At("ident") /\ Current(me)
    /\ meta[myScope].pending
    /\ meta' = [meta EXCEPT ![myScope].state = "RUNNING"]
    /\ worker' = [worker EXCEPT !.pc = "apply", !.rev = meta[myScope].rev]
    /\ UNCHANGED <<task, last, lib, book, busy, gap, orphan, owed, used>>

SnapshotCurrent_RunOnly == Current(me)
SnapshotCurrent == /\ Current(me)
                   /\ meta[myScope].pending
                   /\ meta[myScope].rev = worker.rev

\* ... and after reading the files apply it if nothing changed meanwhile.
IdentifyApply ==
    /\ At("apply") /\ SnapshotCurrent
    /\ meta' = [meta EXCEPT ![myScope].processed = worker.rev,
                            ![myScope].pending = FALSE,
                            ![myScope].state = "COMPLETED"]
    /\ FinishWith(worker.out)
    /\ UNCHANGED <<task, last, lib, book, busy, gap, orphan, owed, used>>

StaleOutcome_Tolerant == worker.out
\* A stale identification is a failure unless the Book is identified anyway.
StaleOutcome == IF IdentificationComplete(myScope) THEN worker.out ELSE "error"

\* A stale result is dropped.  Also reached when a user edited the Book, which
\* only the snapshot's updated_at tells.
IdentifyStale ==
    /\ \/ At("ident") /\ ~(Current(me) /\ meta[myScope].pending)
       \/ At("apply")
    /\ FinishWith(StaleOutcome)
    /\ UNCHANGED <<task, last, lib, book, busy, meta, gap, orphan, owed, used>>

----------------------------------------------------------------------------
(* Terminal write (_finish), and the failures of the worker.               *)

\* mark_failed and fail_book_run: a range whose round never opened, or a Book
\* run that stopped in its scan phase, leaves its scope incomplete.
FailureGap == IF IF task[me].kind \in ScanKinds THEN ~task[me].round
                                                ELSE task[me].phase = "SCAN"
              THEN RecordGap(gap, {myScope}) ELSE gap

FailRow(partial) ==
    /\ task' = [task EXCEPT ![me].state = "FAILED"]
    /\ gap' = FailureGap
    /\ meta' = IF task[me].kind = "IMPORT_BOOK" /\ ~partial
               THEN [meta EXCEPT ![myScope].pending = FALSE, ![myScope].state = "FAILED"]
               ELSE meta
    /\ worker' = AtRest("idle")
    /\ UNCHANGED <<last, lib, book, busy, orphan, owed, used>>

\* The row was deleted or its library is being removed.
FinishCancelled ==
    /\ At("finish") /\ ~Current(me)
    /\ worker' = AtRest("idle")
    /\ UNCHANGED <<task, last, lib, book, busy, meta, gap, orphan, owed, used>>

StillPending == task[me].kind = "IMPORT_BOOK" /\ meta[myScope].pending

FinishSuccess ==
    /\ At("finish") /\ Current(me)
    /\ worker.out = "ok" /\ ~StillPending
    /\ task' = [task EXCEPT ![me].state = "SUCCEEDED",
                            ![me].phase = IF @ = "NONE" THEN @ ELSE "FINALIZE"]
    /\ worker' = AtRest("idle")
    /\ UNCHANGED <<last, lib, book, busy, meta, gap, orphan, owed, used>>

FinishFailure == At("finish") /\ Current(me) /\ worker.out # "ok"
                 /\ FailRow(worker.out = "partial")

\* The success write raised: the transaction is gone, a clean context closes
\* the row as failed, once.
FinishRaises ==
    /\ At("finish") /\ Current(me)
    /\ IF worker.out = "ok" /\ StillPending
       THEN used' = used
       ELSE used.fault < MaxFault /\ used' = [used EXCEPT !.fault = @ + 1]
    /\ Goto("close")
    /\ UNCHANGED <<task, last, lib, book, busy, meta, gap, orphan, owed>>

CloseCancelled == At("close") /\ ~Known(me) /\ worker' = AtRest("idle")
                  /\ UNCHANGED <<task, last, lib, book, busy, meta, gap, orphan, owed, used>>

Close == At("close") /\ Current(me) /\ FailRow(FALSE)

Fault == used.fault < MaxFault /\ used' = [used EXCEPT !.fault = @ + 1]
Mine == {i \in {me} : i \in Id /\ Running(i)}

\* The close, or the rollback of a failed step, fails: the row stays RUNNING and
\* the loop goes on, or pauses when the error is fatal or the third in a row.
LoseRow(to) ==
    /\ worker.pc \notin {"down", "paused"}
    /\ to = "idle" => worker.pc # "boot"
    /\ Fault
    /\ orphan' = orphan \cup Mine
    /\ worker' = AtRest(to)
    /\ UNCHANGED <<task, last, lib, book, busy, meta, gap, owed>>

Crash ==
    /\ worker.pc # "down"
    /\ Fault
    /\ worker' = AtRest("down")
    /\ UNCHANGED <<task, last, lib, book, busy, meta, gap, orphan, owed>>

----------------------------------------------------------------------------

Init ==
    /\ task = [i \in Id |-> NoRow]
    /\ last = 0
    /\ lib = [l \in Library |-> "active"]
    /\ book = {} /\ busy = {} /\ gap = {} /\ orphan = {} /\ owed = {}
    /\ meta = [b \in Book |-> FreshMetadata]
    /\ worker = AtRest("down")
    /\ used = [request |-> 0, fault |-> 0, fileop |-> 0]

Requests ==
    \/ \E b \in Book : \/ \E w \in RequestWork : RequestBookWork(b, w)
                       \/ RequestSourceScan(b)
    \/ \E l \in Library : RequestLibraryScan(l)
    \/ \E i \in Id : ContinueBookTask(i)

Removals ==
    \/ \E b \in Book : DeleteBookSources(b) \/ DeleteMemberSource(b)
    \/ \E l \in Library : ChangeOrganizationMode(l) \/ RequestLibraryRemoval(l)

Scanning ==
    \/ ScanUnavailable \/ BeginRound
    \/ \E b \in Book : PruneBook(b) \/ \E changed \in BOOLEAN : VisitBook(b, changed)
    \/ EndRound
    \/ \E F \in SUBSET Scope : ScanFails(F)
    \/ ScanFailsUnrecorded

BookRun == \/ AfterScan \/ ResourcesEnd \/ SomeResourcesFail \/ RunFails
           \/ IdentifyLoad \/ IdentifyApply \/ IdentifyStale

Finishing == \/ FinishCancelled \/ FinishSuccess \/ FinishFailure \/ FinishRaises
             \/ CloseCancelled \/ Close

WorkerStep == (\E i \in Id : Claim(i)) \/ Scanning \/ BookRun \/ Finishing

Next ==
    \/ Requests \/ Removals
    \/ \E l \in Library : CleanUpLibrary(l) \/ BeginFileOperation(l) \/ EndFileOperation(l)
    \/ Start \/ RecoverInterrupted \/ WorkerStep
    \/ \E to \in {"idle", "paused"} : LoseRow(to)
    \/ Crash

\* The worker is one loop: it is never idle while one of its steps can run, and
\* its supervisor starts it again.  A file operation ends.
Fairness ==
    /\ WF_vars(WorkerStep) /\ WF_vars(Start) /\ WF_vars(RecoverInterrupted)
    /\ \A l \in Library : WF_vars(EndFileOperation(l))

Spec == Init /\ [][Next]_vars
FairSpec == Spec /\ Fairness

----------------------------------------------------------------------------
(* Safety.                                                                 *)

\* Rows are inserted in order; a worker at rest holds no row; a Book run holds a
\* Book row.  The steps of the worker rely on it, and so do the proofs.
BookPc == {"scanned", "res", "ident", "apply"}
WorkerRow ==
    /\ \A i \in Id : i > last => task[i].state = "ABSENT"
    /\ worker.id <= last
    /\ worker.pc \in {"down", "boot", "idle", "paused"} => worker.id = 0
    /\ worker.pc \in BookPc => me \in Id /\ task[me].kind = "IMPORT_BOOK"

\* A running consumer knows every RUNNING row of an active library: it is the
\* one it executes, or one whose end this process failed to write.
RunningIsOwned ==
    worker.pc \notin {"down", "boot", "paused"} =>
        \A i \in Id : Current(i) => i = worker.id \/ i \in orphan

\* Imports and file operations never work on the same library, although each
\* side only looks at the other's rows in the transaction that starts it.
FileExclusion == \A i \in Id : Running(i) => LibraryOf(task[i].scope) \notin busy

\* A Book that a started discovery has yet to enumerate is never forgotten: its
\* range is recorded as incomplete, or the row that owes it is still RUNNING
\* and will be closed with its range.
GapCoversOwed ==
    \A b \in owed : lib[BookLibrary[b]] = "active" =>
        \/ GapCovers(gap, b)
        \/ \E i \in Id : /\ Running(i) /\ task[i].kind \in ScanKinds
                         /\ b \in BooksUnder(task[i].scope)

\* Metadata shown as identified is that of the latest import revision: a result
\* computed from an older snapshot was not applied.
CompletedIsCurrent ==
    \A b \in Book : meta[b].state = "COMPLETED" =>
        meta[b].processed = meta[b].rev /\ ~meta[b].pending

Succeeds(i) == Running(i) /\ task'[i].state = "SUCCEEDED"

\* A Book run succeeds only after the revision it claimed was identified.
SuccessIsIdentified ==
    [][\A i \in Id : Succeeds(i) /\ task[i].kind = "IMPORT_BOOK" =>
          meta[task[i].scope].processed >= worker.rev]_vars

\* A discovery task reports success only after every Book of its scope that was
\* known when it started was enumerated, and leaves no gap in a scope for which
\* it opened a scan round.
SucceededScanIsComplete ==
    [][\A i \in Id : Succeeds(i) /\ task[i].kind \in ScanKinds =>
          /\ owed \cap BooksUnder(task[i].scope) = {}
          /\ HasRound(i) => gap = ClearGap(gap, task[i].scope)]_vars

\* The stronger reading of the gap table, "the ranges that are incomplete":
\* a scope whose scan succeeded is no longer in it.
SucceededScanClearsGap ==
    [][\A i \in Id : Succeeds(i) /\ task[i].kind \in ScanKinds =>
          gap = ClearGap(gap, task[i].scope)]_vars

\* When a discovery has read its scope to the end, every Book in it is identified,
\* or has work queued, or lost its identification to a source deletion since.
ScanQueuesUnidentified ==
    [][At("walk") /\ worker'.pc = "finish" /\ worker'.out = "ok" =>
          \A b \in BooksUnder(myScope) \cap book :
              \/ IdentificationComplete(b)
              \/ \E i \in Id : /\ task[i].kind = "IMPORT_BOOK" /\ task[i].scope = b
                               /\ task[i].state = "QUEUED"
              \/ meta[b].state = "WAITING_IMPORT" /\ ~meta[b].pending]_vars

\* Every row lives the life ImportPromise describes.
Executing == IF worker.id \in Id THEN {worker.id} ELSE {}
Promise == INSTANCE ImportPromise WITH
    Requested <- Id, state <- [i \in Id |-> task[i].state], current <- Executing
KeepsPromise == Promise!Spec

(* Liveness.                                                               *)

\* Imports take only libraries that no file operation holds, and file operations
\* only those where no row is RUNNING: the agreement that FileActivity keeps with
\* the rows of each operation, and of which the lock busy is all the queue sees.
Sharing(l) == {k \in {"import", "file"} :
    \/ k = "import" /\ \E i \in Id : Running(i) /\ LibraryOf(task[i].scope) = l
    \/ k = "file"   /\ l \in busy}
Share == INSTANCE LibraryShare WITH
    Kind <- {"import", "file"}, Place <- Library,
    Asks <- [import |-> {"file"}, file |-> {"import"}],
    holds <- [l \in Library |-> Sharing(l)]
ImportsShareLibraries == Share!Spec

\* A request is eventually started or discarded, unless imports are paused or
\* its library is being removed.
QueuedIsServed ==
    \A i \in Id : task[i].state = "QUEUED" ~>
        task[i].state # "QUEUED" \/ worker.pc = "paused" \/ ~IsActive(i)

\* A started row is eventually closed, unless its end could not be written.
RunningIsClosed ==
    \A i \in Id : Running(i) ~>
        ~Running(i) \/ i \in orphan \/ worker.pc = "paused" \/ ~IsActive(i)
=============================================================================
