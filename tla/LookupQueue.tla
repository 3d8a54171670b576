---------------------------- MODULE LookupQueue ----------------------------
(***************************************************************************)
(* Online metadata lookups: organize jobs and their lookup tasks           *)
(* (lookup_queue, organize jobs and commands), the worker's thread that    *)
(* serves them (process_metadata_lookup_task), and the imports of the same *)
(* Books, which hold metadata_pending while they run.                      *)
(*                                                                         *)
(* A task belongs to one job; recognizing a job again replaces its task.   *)
(* Tasks are numbered in the order they are created.  A lease matters only *)
(* once its owner has died, so only the leases of dead owners lapse here.  *)
(***************************************************************************)
EXTENDS Integers, FiniteSets

CONSTANTS
    Book, Job,
    BookOf,         \* the Book of each job
    Retries,        \* Len(RETRY_DELAYS_SECONDS)
    MaxTask,        \* bound: tasks ever created
    MaxImport,      \* bound: imports requested from outside
    MaxLookupFault  \* bound: crashes, failed commits, removed Books

ASSUME LookupAssumption ==
    /\ BookOf \in [Job -> Book] /\ "none" \notin Job /\ Retries \in Nat
    /\ MaxTask \in Nat /\ MaxImport \in Nat /\ MaxLookupFault \in Nat

VARIABLES
    jobs,       \* OrganizeJob: status
    tasks,      \* the MetadataLookupTask of each job; number 0 is none
    books,      \* LibraryBookMetadata and the Book's import row
    applied,    \* history: the tasks whose result was applied to the Book
    lookup,     \* the worker's thread
    created, imports, lookupFaults

lookupVars == <<jobs, tasks, books, applied, lookup, created, imports, lookupFaults>>

(* OrganizeJob_unresolved_bookId_key: one such job per Book *)
Unresolved == {"LOOKUP_PENDING", "RUNNING", "FAILED", "REVIEWING"}
Active == {"PENDING", "RUNNING"}
NoTask == [number |-> 0, status |-> "none", attempts |-> 0, due |-> FALSE, lapsed |-> FALSE]
NewTask(n) == [number |-> n, status |-> "PENDING", attempts |-> 0, due |-> TRUE,
               lapsed |-> FALSE]
LookupPc == {"down", "recovering", "free", "load", "search", "finish", "retry", "apply",
             "cover", "record", "intents", "failed", "paused"}
Turned(pc) == [pc |-> pc, job |-> "none", number |-> 0, attempts |-> 0, fresh |-> FALSE]

LookupsTypeOK ==
    /\ jobs \in [Job -> {"none", "APPLIED", "gone"} \cup Unresolved]
    /\ DOMAIN tasks = Job
    /\ \A j \in Job :
          /\ tasks[j] \in [number : 0..MaxTask, status : {"none", "FAILED", "COMPLETED"} \cup Active,
                           attempts : 0..(Retries + 1), due : BOOLEAN, lapsed : BOOLEAN]
          /\ tasks[j].number # 0 => jobs[j] \notin {"none", "gone"}
          /\ tasks[j].attempts > Retries => tasks[j].status \notin Active
    /\ books \in [Book -> [pending : BOOLEAN, failed : BOOLEAN, gone : BOOLEAN,
                           import : {"none", "QUEUED", "RUNNING"}]]
    /\ applied \subseteq 1..created /\ created \in 0..MaxTask
    /\ lookup.pc \in LookupPc /\ lookup.job \in Job \cup {"none"}
    /\ lookup.number \in 0..created /\ lookup.attempts \in 0..Retries
    /\ imports \in 0..MaxImport /\ lookupFaults \in 0..MaxLookupFault

LookupsInit ==
    /\ jobs = [j \in Job |-> "none"] /\ tasks = [j \in Job |-> NoTask]
    /\ books = [b \in Book |-> [pending |-> FALSE, failed |-> FALSE, gone |-> FALSE,
                                import |-> "none"]]
    /\ applied = {} /\ lookup = Turned("recovering")
    /\ created = 0 /\ imports = 0 /\ lookupFaults = 0

Exists(j) == jobs[j] \notin {"none", "gone"}
(* The unique index refuses a second unresolved job of the Book. *)
Refused(j) == \E k \in Job \ {j} : BookOf[k] = BookOf[j] /\ jobs[k] \in Unresolved
JobTo(j, status) == jobs' = IF Exists(j) THEN [jobs EXCEPT ![j] = status] ELSE jobs

----------------------------------------------------------------------------
(* Organize runs and jobs.  A manual request also asks for a local             *)
(* identification of the Book, which sets metadata_pending when it starts.     *)

Imported(b) ==
    books' = [books EXCEPT ![b].import = IF @ = "none" THEN "QUEUED" ELSE @]

(* create_organize_run for one Book; scheduled runs want identified Books *)
CreateRun(j) ==
    LET b == BookOf[j] IN
    /\ jobs[j] = "none" /\ ~Refused(j) /\ created < MaxTask /\ ~books[b].gone
    /\ jobs' = [jobs EXCEPT ![j] = "LOOKUP_PENDING"]
    /\ tasks' = [tasks EXCEPT ![j] = NewTask(created + 1)]
    /\ created' = created + 1
    /\ \/ Imported(b)
       \/ ~books[b].pending /\ ~books[b].failed /\ UNCHANGED books
    /\ UNCHANGED <<applied, lookup, imports, lookupFaults>>

Recognize_KeepsTask(j) ==
    /\ Exists(j) /\ ~Refused(j)
    /\ jobs' = [jobs EXCEPT ![j] = "LOOKUP_PENDING"]
    /\ Imported(BookOf[j])
    /\ UNCHANGED <<tasks, applied, lookup, created, imports, lookupFaults>>

(* recognize_organize_job: the unresolved job of the Book, else the one asked for *)
Recognize(j) ==
    /\ Exists(j) /\ ~Refused(j) /\ created < MaxTask
    /\ jobs' = [jobs EXCEPT ![j] = "LOOKUP_PENDING"]
    /\ tasks' = [tasks EXCEPT ![j] = NewTask(created + 1)]
    /\ created' = created + 1
    /\ Imported(BookOf[j])
    /\ UNCHANGED <<applied, lookup, imports, lookupFaults>>

DeleteJob(j) ==
    /\ Exists(j)
    /\ jobs' = [jobs EXCEPT ![j] = "gone"] /\ tasks' = [tasks EXCEPT ![j] = NoTask]
    /\ UNCHANGED <<books, applied, lookup, created, imports, lookupFaults>>

RemoveBook(b) ==
    /\ ~books[b].gone /\ lookupFaults < MaxLookupFault
    /\ books' = [books EXCEPT ![b].gone = TRUE, ![b].import = "none"]
    /\ jobs' = [j \in Job |-> IF BookOf[j] = b THEN "gone" ELSE jobs[j]]
    /\ tasks' = [j \in Job |-> IF BookOf[j] = b THEN NoTask ELSE tasks[j]]
    /\ lookupFaults' = lookupFaults + 1
    /\ UNCHANGED <<applied, lookup, created, imports>>

----------------------------------------------------------------------------
(* Imports of the Book.  Each changes what the guard of a lookup compares.     *)

Overtaken(b) ==
    lookup' = IF lookup.job # "none" /\ BookOf[lookup.job] = b
              THEN [lookup EXCEPT !.fresh = FALSE] ELSE lookup

RequestImport(b) ==
    /\ imports < MaxImport /\ books[b].import = "none" /\ ~books[b].gone
    /\ Imported(b) /\ imports' = imports + 1
    /\ UNCHANGED <<jobs, tasks, applied, lookup, created, lookupFaults>>

StartImport(b) ==
    /\ books[b].import = "QUEUED" /\ lookup.pc # "down"
    /\ books' = [books EXCEPT ![b].import = "RUNNING", ![b].pending = TRUE,
                              ![b].failed = FALSE]
    /\ Overtaken(b)
    /\ UNCHANGED <<jobs, tasks, applied, created, imports, lookupFaults>>

EndImport(b) ==
    /\ books[b].import = "RUNNING" /\ lookup.pc # "down"
    /\ \E failed \in BOOLEAN :
          books' = [books EXCEPT ![b].import = "none", ![b].pending = FALSE,
                                 ![b].failed = failed]
    /\ Overtaken(b)
    /\ UNCHANGED <<jobs, tasks, applied, created, imports, lookupFaults>>

----------------------------------------------------------------------------
(* The thread *)

At(pc) == lookup.pc = pc
Step(pc) == lookup' = [lookup EXCEPT !.pc = pc]
Free(pc) == lookup' = Turned(pc)
me == lookup.job
(* The task is still the one that was claimed, and not replaced or deleted. *)
Mine == tasks[me].number = lookup.number
IsActive == Mine /\ tasks[me].status \in Active
TaskTo(t) == tasks' = IF Mine THEN [tasks EXCEPT ![me] = t] ELSE tasks

(* recover_stale_lookup_tasks *)
RecoverLookups ==
    /\ At("recovering")
    /\ tasks' = [j \in Job |-> IF tasks[j].status = "RUNNING" /\ tasks[j].lapsed
                               THEN [tasks[j] EXCEPT !.status = "PENDING", !.due = TRUE,
                                                     !.lapsed = FALSE]
                               ELSE tasks[j]]
    /\ Free("free")
    /\ UNCHANGED <<jobs, books, applied, created, imports, lookupFaults>>

LookupDue(j) ==
    /\ tasks[j].status = "PENDING" /\ ~tasks[j].due
    /\ tasks' = [tasks EXCEPT ![j].due = TRUE]
    /\ UNCHANGED <<jobs, books, applied, lookup, created, imports, lookupFaults>>

LookupLapses(j) ==
    /\ tasks[j].status = "RUNNING" /\ ~tasks[j].lapsed /\ lookup.number # tasks[j].number
    /\ tasks' = [tasks EXCEPT ![j].lapsed = TRUE]
    /\ UNCHANGED <<jobs, books, applied, lookup, created, imports, lookupFaults>>

Claimable_Owned(j) ==
    /\ ~books[BookOf[j]].pending
    /\ tasks[j].status = "PENDING" /\ tasks[j].due

(* claim_next_lookup_task: a Book with metadata_pending set is passed over *)
Claimable(j) ==
    /\ ~books[BookOf[j]].pending
    /\ \/ tasks[j].status = "PENDING" /\ tasks[j].due
       \/ tasks[j].status = "RUNNING" /\ tasks[j].lapsed

(* The job is set RUNNING whatever it was; if the index refuses, the claim     *)
(* is rolled back and the lookup path pauses until a restart.                  *)
ClaimLookup(j) ==
    /\ At("free") /\ Claimable(j)
    /\ \A k \in Job : Claimable(k) => tasks[j].number <= tasks[k].number
    /\ IF Refused(j) THEN Free("paused") /\ UNCHANGED <<jobs, tasks>>
       ELSE /\ jobs' = [jobs EXCEPT ![j] = "RUNNING"]
            /\ tasks' = [tasks EXCEPT ![j].status = "RUNNING", ![j].lapsed = FALSE]
            /\ lookup' = [pc |-> "load", job |-> j, number |-> tasks[j].number,
                          attempts |-> tasks[j].attempts, fresh |-> FALSE]
    /\ UNCHANGED <<books, applied, created, imports, lookupFaults>>

(* The Book, its guard and the identity to search for *)
LoadLookup ==
    LET book == books[BookOf[me]] IN
    /\ At("load")
    /\ \/ book.pending /\ ~book.gone
          /\ TaskTo([tasks[me] EXCEPT !.status = "PENDING"]) /\ Free("free")
       \/ book.gone /\ Step("finish") /\ UNCHANGED tasks
       \/ ~book.pending /\ Step("finish") /\ book.failed /\ UNCHANGED tasks
       \/ /\ ~book.pending /\ ~book.failed /\ ~book.gone /\ UNCHANGED tasks
          /\ \/ lookup' = [lookup EXCEPT !.pc = "search", !.fresh = TRUE]
             \/ Step("finish") \/ Step("retry")
    /\ UNCHANGED <<jobs, books, applied, created, imports, lookupFaults>>

(* Providers, match and completion; the task is looked at before each of them. *)
SearchLookup ==
    /\ At("search")
    /\ \/ ~IsActive /\ Free("free")
       \/ Step("retry")
       \/ IsActive /\ (Step("apply") \/ Step("finish"))
    /\ UNCHANGED <<jobs, tasks, books, applied, created, imports, lookupFaults>>

(* mark_book_reviewing: every waiting or failed job of the Book; a newer job   *)
(* than the one looked up if that one was deleted in the meantime.             *)
Reviewed ==
    [j \in Job |-> IF BookOf[j] = BookOf[me] /\ jobs[j] \in {"LOOKUP_PENDING", "FAILED"}
                   THEN "REVIEWING" ELSE jobs[j]]

(* A write of the job that the index refuses rolls the transaction back. *)
SettleWith(task, others, status) ==
    IF Exists(me) /\ Refused(me) THEN Free("paused") /\ UNCHANGED <<jobs, tasks>>
    ELSE /\ TaskTo(task) /\ Free("free")
         /\ jobs' = IF Exists(me) THEN [others EXCEPT ![me] = status] ELSE others

(* The Book is left as it is if its last job was applied, or it had none, when *)
(* that was read: before the transaction.                                      *)
EndUnresolved(task) == \E others \in {jobs, Reviewed} : SettleWith(task, others, "FAILED")

(* _finish_without_match, of the job whichever pass it is in by now *)
FinishLookup ==
    /\ At("finish")
    /\ EndUnresolved([tasks[me] EXCEPT !.status = "FAILED"])
    /\ UNCHANGED <<books, applied, created, imports, lookupFaults>>

(* _schedule_retry: what is known of the attempts is from the claim. *)
RetryLookup ==
    LET attempts == lookup.attempts + 1 IN
    /\ At("retry")
    /\ IF attempts > Retries
       THEN EndUnresolved([tasks[me] EXCEPT !.status = "FAILED", !.attempts = attempts])
       ELSE SettleWith([tasks[me] EXCEPT !.status = "PENDING", !.attempts = attempts,
                                         !.due = FALSE], jobs, "LOOKUP_PENDING")
    /\ UNCHANGED <<books, applied, created, imports, lookupFaults>>

ApplyLookup_Ignored ==
    /\ At("apply")
    /\ \/ /\ lookup.fresh /\ ~books[BookOf[me]].gone
          /\ JobTo(me, "APPLIED") /\ applied' = applied \cup {lookup.number}
       \/ UNCHANGED <<jobs, applied>>
    /\ Step("cover")
    /\ UNCHANGED <<tasks, books, created, imports, lookupFaults>>
ApplyLookup_Stale ==
    /\ At("apply")
    /\ JobTo(me, "APPLIED") /\ applied' = applied \cup {lookup.number}
    /\ Step("cover")
    /\ UNCHANGED <<tasks, books, created, imports, lookupFaults>>

(* The guard is compared in the transaction that writes the Book and the job. *)
ApplyLookup ==
    /\ At("apply")
    /\ \/ /\ lookup.fresh /\ ~books[BookOf[me]].gone
          /\ JobTo(me, "APPLIED") /\ applied' = applied \cup {lookup.number}
          /\ Step("cover")
       \/ Step("failed") /\ UNCHANGED <<jobs, applied>>
    /\ UNCHANGED <<tasks, books, created, imports, lookupFaults>>

PublishCover ==
    /\ At("cover")
    /\ Step("record") \/ Step("failed")
    /\ UNCHANGED <<jobs, tasks, books, applied, created, imports, lookupFaults>>

RecordLookup ==
    /\ At("record")
    /\ TaskTo([tasks[me] EXCEPT !.status = "COMPLETED"]) /\ Step("intents")
    /\ UNCHANGED <<jobs, books, applied, created, imports, lookupFaults>>

(* The writeback intents are a transaction of their own. *)
EnqueueIntents ==
    /\ At("intents") /\ Free("free")
    /\ UNCHANGED <<jobs, tasks, books, applied, created, imports, lookupFaults>>

LookupFailed ==
    /\ At("failed")
    /\ IF IsActive THEN Step("retry") ELSE Free("free")
    /\ UNCHANGED <<jobs, tasks, books, applied, created, imports, lookupFaults>>

----------------------------------------------------------------------------
(* Faults *)

LookupCommitFails ==
    /\ lookupFaults < MaxLookupFault /\ lookupFaults' = lookupFaults + 1
    /\ \/ lookup.pc \in {"record", "intents"} /\ Step("failed")
       \/ lookup.pc \in {"finish", "retry", "load"} /\ Free("paused")
    /\ UNCHANGED <<jobs, tasks, books, applied, created, imports>>

(* The import consumer dies with it and leaves metadata_pending set. *)
CrashLookups ==
    /\ lookupFaults < MaxLookupFault /\ ~At("down")
    /\ lookupFaults' = lookupFaults + 1 /\ Free("down")
    /\ books' = [b \in Book |-> IF books[b].import = "RUNNING"
                                THEN [books[b] EXCEPT !.import = "none"] ELSE books[b]]
    /\ UNCHANGED <<jobs, tasks, applied, created, imports>>

StartLookups ==
    /\ At("down") /\ Free("recovering")
    /\ UNCHANGED <<jobs, tasks, books, applied, created, imports, lookupFaults>>

OrganizeRequests == \E j \in Job : CreateRun(j) \/ Recognize(j) \/ DeleteJob(j)
Imports == \E b \in Book : RequestImport(b) \/ StartImport(b) \/ EndImport(b)
ServeLookup ==
    \/ LoadLookup \/ SearchLookup \/ FinishLookup \/ RetryLookup \/ ApplyLookup
    \/ PublishCover \/ RecordLookup \/ EnqueueIntents \/ LookupFailed
LookupTime == \E j \in Job : LookupDue(j) \/ LookupLapses(j)
LookupFaults == LookupCommitFails \/ CrashLookups \/ \E b \in Book : RemoveBook(b)

LookupsNext ==
    \/ OrganizeRequests \/ Imports \/ ServeLookup \/ LookupTime \/ LookupFaults
    \/ RecoverLookups \/ StartLookups \/ \E j \in Job : ClaimLookup(j)
LookupsSpec == LookupsInit /\ [][LookupsNext]_lookupVars

----------------------------------------------------------------------------
(* Properties *)

(* A job that tells the user it waits or runs has a task that will be       *)
(* served: no order of retries, replacements and deletions leaves a job     *)
(* waiting for nothing.                                                     *)
JobsHaveTasks ==
    \A j \in Job : jobs[j] \in {"LOOKUP_PENDING", "RUNNING"} => tasks[j].status \in Active

(* What is reported as completed has changed the Book. *)
CompletedIsApplied ==
    \A j \in Job : tasks[j].status = "COMPLETED" => tasks[j].number \in applied

(* An online result never overwrites a Book whose import is under way: the  *)
(* local identification that follows would start from it.                   *)
ImportsComeFirst ==
    [][applied' # applied => ~books[BookOf[lookup.job]].pending]_lookupVars

(* Every task ends, unless its Book was left pending by a crash (nothing    *)
(* but another import ends that), or the path is paused until a restart.    *)
LeftPending(b) == books[b].pending /\ books[b].import = "none"
LookupsEnd ==
    \A j \in Job : tasks[j].status \in Active ~>
        \/ tasks[j].status \notin Active
        \/ LeftPending(BookOf[j]) \/ lookup.pc = "paused"
=============================================================================
