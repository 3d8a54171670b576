------------------------- MODULE LookupQueueProofs -------------------------
(***************************************************************************)
(* Theorems about online lookups: a waiting job has a task, a completed    *)
(* task has changed its Book, and imports come first.                      *)
(***************************************************************************)
EXTENDS LookupQueue, TLAPS

TaskRow == [number : 0..MaxTask, status : {"none", "FAILED", "COMPLETED"} \cup Active,
            attempts : 0..(Retries + 1), due : BOOLEAN, lapsed : BOOLEAN]
BookRow == [pending : BOOLEAN, failed : BOOLEAN, gone : BOOLEAN,
            import : {"none", "QUEUED", "RUNNING"}]

JobStatus == {"none", "APPLIED", "gone"} \cup Unresolved

\* A job of status s and its task t say the same of each other, with n tasks
\* created and the results of ap applied.
RowOK(s, t, n, ap) ==
    /\ s \in JobStatus /\ t \in TaskRow
    /\ t.number # 0 <=> s \notin {"none", "gone"}
    /\ t.number <= n /\ (t.number = 0 => t.status \notin Active \cup {"COMPLETED"})
    /\ t.attempts > Retries => t.status \notin Active
    /\ s \in {"LOOKUP_PENDING", "RUNNING"} => t.status \in Active
    /\ t.status = "COMPLETED" => t.number \in ap

JobsOK ==
    /\ jobs \in [Job -> JobStatus] /\ tasks \in [Job -> TaskRow]
    /\ \A j \in Job : RowOK(jobs[j], tasks[j], created, applied)

CountersOK ==
    /\ applied \subseteq 1..created /\ created \in 0..MaxTask
    /\ imports \in 0..MaxImport /\ lookupFaults \in 0..MaxLookupFault

BooksOK == books \in [Book -> BookRow]

Holding == {"load", "search", "finish", "retry", "apply", "cover", "record"}
Serving == Holding \cup {"intents", "failed"}

ThreadOK ==
    /\ lookup \in [pc : LookupPc, job : Job \cup {"none"}, number : 0..created,
                   attempts : 0..Retries, fresh : BOOLEAN]
    /\ lookup.pc \in Serving => lookup.job \in Job /\ lookup.number # 0
    /\ lookup.pc \notin Serving => lookup.job = "none" /\ lookup.number = 0

\* The task the thread works on is the one it claimed; one that took its place waits.
ClaimOK ==
    lookup.pc \in Serving =>
        /\ Mine /\ lookup.pc \in Holding => tasks[me].status = "RUNNING"
        /\ Mine /\ lookup.pc \in {"intents", "failed"} => tasks[me].status # "PENDING"
        /\ ~Mine /\ Exists(me) => tasks[me].status = "PENDING"
        /\ lookup.pc \in {"cover", "record"} =>
              lookup.number \in applied /\ (Mine => jobs[me] = "APPLIED")

FreshOK ==
    lookup.fresh => lookup.job \in Job /\ ~books[BookOf[lookup.job]].pending

LookupInv == JobsOK /\ CountersOK /\ BooksOK /\ ThreadOK /\ ClaimOK /\ FreshOK

----------------------------------------------------------------------------
(* Single rows *)

\* A row stays right as rows are created and answers are applied.
LEMMA RowGrows ==
    ASSUME NEW s, NEW t, NEW n \in Nat, NEW m \in Nat, n <= m, NEW ap, NEW aq, ap \subseteq aq,
           RowOK(s, t, n, ap)
    PROVE  RowOK(s, t, m, aq)
BY LookupAssumption DEF RowOK, TaskRow

\* The job and the task of j change, the others stay.
OnlyRow(j, s, t) ==
    /\ jobs' \in [Job -> JobStatus] /\ tasks' \in [Job -> TaskRow]
    /\ jobs'[j] = s /\ tasks'[j] = t
    /\ \A k \in Job : k # j => jobs'[k] = jobs[k] /\ tasks'[k] = tasks[k]

\* A step that changes one job and its task keeps the rows right.
LEMMA OneJob ==
    ASSUME JobsOK, NEW j \in Job, NEW s, NEW t, created \in Nat, created' \in Nat,
           created <= created', applied \subseteq applied',
           RowOK(s, t, created', applied'), OnlyRow(j, s, t)
    PROVE  JobsOK'
<1>1. \A k \in Job : RowOK(jobs'[k], tasks'[k], created', applied')
  BY RowGrows DEF JobsOK, OnlyRow
<1> QED
  BY <1>1 DEF JobsOK, OnlyRow

\* Nothing but counters that grow
LEMMA NoJob ==
    ASSUME JobsOK, created \in Nat, UNCHANGED <<jobs, tasks, created>>, applied \subseteq applied'
    PROVE  JobsOK'
<1>1. \A k \in Job : RowOK(jobs[k], tasks[k], created, applied')
  BY RowGrows DEF JobsOK
<1> QED
  BY <1>1 DEF JobsOK

\* A task of the queue that only changes what the clock or its owner sets
LEMMA NewRow ==
    ASSUME NEW n \in 1..MaxTask, NEW s \in {"LOOKUP_PENDING", "RUNNING"}, NEW ap
    PROVE  RowOK(s, NewTask(n), n, ap) /\ NewTask(n).number = n /\ NewTask(n).status = "PENDING"
BY LookupAssumption DEF RowOK, NewTask, TaskRow, Active, JobStatus, Unresolved

\* A deleted job without a task is right.
LEMMA GoneRow ==
    ASSUME NEW n \in Nat, NEW ap
    PROVE  RowOK("gone", NoTask, n, ap) /\ NoTask.number = 0
BY LookupAssumption DEF RowOK, NoTask, TaskRow, Active, JobStatus

\* The thread sees another task, or none, where the one it claimed was.
LEMMA Replaced ==
    ASSUME ThreadOK, ClaimOK, NEW j \in Job, lookup' = lookup, applied' = applied,
           NEW s, NEW t, OnlyRow(j, s, t),
           lookup.pc \in Serving => t.number # lookup.number,
           t.status = "PENDING" \/ s \in {"none", "gone"}
    PROVE  ClaimOK'
<1> SUFFICES ASSUME lookup.pc \in Serving PROVE ClaimOK'
  BY DEF ClaimOK
<1>1. CASE lookup.job = j
  BY <1>1 DEF OnlyRow, ClaimOK, Mine, me, Exists, Holding, Serving
<1>2. CASE lookup.job # j
  <2>1. lookup.job \in Job /\ jobs'[me] = jobs[me] /\ tasks'[me] = tasks[me]
    BY <1>2 DEF ThreadOK, OnlyRow, me
  <2> QED
    BY <2>1 DEF ClaimOK, Mine, me, Exists
<1> QED
  BY <1>1, <1>2

\* The books keep their shape and the thread does not notice.
LEMMA ImportAsked ==
    ASSUME BooksOK, FreshOK, NEW b \in Book, Imported(b), lookup' = lookup
    PROVE  BooksOK' /\ FreshOK'
<1> DEFINE r == [books[b] EXCEPT !.import = IF @ = "none" THEN "QUEUED" ELSE @]
<1>1. books' = [books EXCEPT ![b] = r] /\ r \in BookRow /\ r.pending = books[b].pending
  BY DEF Imported, BooksOK, BookRow
<1>2. BooksOK'
  BY <1>1 DEF BooksOK
<1>3. \A c \in Book : books'[c].pending = books[c].pending
  BY <1>1 DEF BooksOK
<1> QED
  BY <1>2, <1>3, LookupAssumption DEF FreshOK

\* The counters are bounded natural numbers.
LEMMA CounterTypes ==
    ASSUME CountersOK
    PROVE  created \in Nat /\ created <= MaxTask /\ MaxTask \in Nat
BY LookupAssumption DEF CountersOK

\* Organize runs and users create, recognize, retry and delete jobs.
LEMMA RequestsKeep ==
    ASSUME LookupInv, OrganizeRequests
    PROVE  LookupInv'
<1> USE DEF LookupInv
<1>1. PICK j \in Job : CreateRun(j) \/ Recognize(j) \/ DeleteJob(j)
  BY DEF OrganizeRequests
<1>2. created \in Nat /\ created <= MaxTask /\ BookOf[j] \in Book
  BY CounterTypes, LookupAssumption
<1>3. CASE CreateRun(j) \/ Recognize(j)
  <2>1. /\ jobs' = [jobs EXCEPT ![j] = "LOOKUP_PENDING"]
        /\ tasks' = [tasks EXCEPT ![j] = NewTask(created + 1)]
        /\ created' = created + 1 /\ created < MaxTask
        /\ UNCHANGED <<applied, lookup, imports, lookupFaults>>
        /\ Imported(BookOf[j]) \/ UNCHANGED books
    BY <1>3 DEF CreateRun, Recognize
  <2>2. created + 1 \in 1..MaxTask
    BY <1>2, <2>1, LookupAssumption
  <2>3. /\ RowOK("LOOKUP_PENDING", NewTask(created + 1), created', applied')
        /\ NewTask(created + 1).number = created + 1 /\ NewTask(created + 1).status = "PENDING"
    BY <2>1, <2>2, NewRow
  <2>4. OnlyRow(j, "LOOKUP_PENDING", NewTask(created + 1))
    BY <2>1, <2>3 DEF RowOK, JobsOK, OnlyRow
  <2>5. CountersOK'
    BY <1>2, <2>1, <2>2 DEF CountersOK
  <2>6. ThreadOK' /\ lookup.number <= created
    BY <1>2, <2>1 DEF ThreadOK
  <2>7. ClaimOK'
    BY <1>2, <2>1, <2>3, <2>4, <2>6, Replaced DEF ThreadOK
  <2>8. BooksOK' /\ FreshOK'
    BY <1>2, <2>1, ImportAsked DEF BooksOK, FreshOK
  <2>9. JobsOK'
    BY <1>2, <2>1, <2>3, <2>4, OneJob
  <2> QED
    BY <2>5, <2>6, <2>7, <2>8, <2>9
<1>4. CASE DeleteJob(j)
  <2>1. /\ jobs' = [jobs EXCEPT ![j] = "gone"] /\ tasks' = [tasks EXCEPT ![j] = NoTask]
        /\ UNCHANGED <<books, applied, lookup, created, imports, lookupFaults>>
    BY <1>4 DEF DeleteJob
  <2>2. RowOK("gone", NoTask, created', applied') /\ NoTask.number = 0
    BY <1>2, <2>1, GoneRow
  <2>3. OnlyRow(j, "gone", NoTask)
    BY <2>1, <2>2 DEF RowOK, JobsOK, OnlyRow
  <2>4. JobsOK'
    BY <1>2, <2>1, <2>2, <2>3, OneJob
  <2>5. ClaimOK'
    BY <2>1, <2>2, <2>3, Replaced DEF ThreadOK
  <2> QED
    BY <2>1, <2>4, <2>5 DEF CountersOK, ThreadOK, BooksOK, FreshOK
<1> QED
  BY <1>1, <1>3, <1>4

----------------------------------------------------------------------------
(* The thread *)

\* A thread that serves nothing promises nothing.
LEMMA FreeKeeps ==
    ASSUME NEW pc \in LookupPc \ Serving, Free(pc), created' \in Nat
    PROVE  ThreadOK' /\ ClaimOK' /\ FreshOK'
<1>1. lookup' = [pc |-> pc, job |-> "none", number |-> 0, attempts |-> 0, fresh |-> FALSE]
  BY DEF Free, Turned
<1> QED
  BY <1>1, LookupAssumption DEF ThreadOK, ClaimOK, FreshOK

\* The thread goes on with its task.
LEMMA StepKeeps ==
    ASSUME ThreadOK, NEW pc \in Serving, Step(pc), lookup.pc \in Serving, created' = created
    PROVE  /\ ThreadOK' /\ lookup'.pc = pc /\ me' = me /\ lookup'.number = lookup.number
           /\ lookup'.fresh = lookup.fresh /\ lookup'.attempts = lookup.attempts
<1>1. lookup' = [lookup EXCEPT !.pc = pc] /\ pc \in LookupPc
  BY DEF Step, LookupPc, Serving, Holding
<1> QED
  BY <1>1 DEF ThreadOK, me

\* A step that moves on without touching a row, of a task that is as it was
LEMMA MovesOn ==
    ASSUME LookupInv, NEW pc \in Serving \ {"cover", "record"}, Step(pc), lookup.pc \in Serving,
           UNCHANGED <<jobs, tasks, books, applied, created>>,
           pc \in {"intents", "failed"} \/ (lookup.pc \in Holding /\ pc \in Holding)
             \/ (IsActive /\ pc = "retry" /\ lookup.pc = "failed")
    PROVE  ThreadOK' /\ ClaimOK' /\ FreshOK'
<1> USE DEF LookupInv
<1>1. /\ ThreadOK' /\ lookup'.pc = pc /\ me' = me /\ lookup'.number = lookup.number
      /\ lookup'.fresh = lookup.fresh
  BY StepKeeps
<1>2. FreshOK'
  BY <1>1 DEF FreshOK, me
<1>3. (Mine <=> Mine') /\ (Exists(me) <=> Exists(me)') /\ tasks'[me'] = tasks[me]
  BY <1>1 DEF Mine, Exists, me
<1>4. pc \in Holding /\ Mine => tasks[me].status = "RUNNING"
  BY <1>1 DEF ClaimOK, IsActive, Active, Serving, Holding
<1>5. pc \in {"intents", "failed"} /\ Mine => tasks[me].status # "PENDING"
  BY <1>1 DEF ClaimOK, Serving
<1>6. ~Mine /\ Exists(me) => tasks[me].status = "PENDING"
  BY DEF ClaimOK
<1>7. ClaimOK'
  BY <1>1, <1>3, <1>4, <1>5, <1>6 DEF ClaimOK
<1> QED
  BY <1>1, <1>2, <1>7

\* Jobs of a Book that are marked for review agree with their tasks.
LEMMA ReviewKeepsRows ==
    ASSUME JobsOK, NEW others \in {jobs, Reviewed}
    PROVE  /\ \A j \in Job : RowOK(others[j], tasks[j], created, applied)
           /\ others \in [Job -> JobStatus]
           /\ \A j \in Job : others[j] \in {"none", "gone"} <=> jobs[j] \in {"none", "gone"}
<1>1. CASE others = jobs
  BY <1>1 DEF JobsOK
<1>2. CASE others = Reviewed
  <2>1. /\ others = [j \in Job |-> others[j]]
        /\ \A j \in Job : \/ others[j] = jobs[j]
                          \/ /\ jobs[j] \in {"LOOKUP_PENDING", "FAILED"}
                             /\ others[j] = "REVIEWING"
    BY <1>2 DEF Reviewed
  <2>2. \A j \in Job : RowOK(others[j], tasks[j], created, applied)
    BY <2>1 DEF JobsOK, RowOK, JobStatus, Unresolved
  <2> QED
    BY <2>1, <2>2 DEF RowOK
<1> QED
  BY <1>1, <1>2

\* A step that ends the turn writes the row it claimed, or none, and marks
\* other jobs of the Book for review, or none.
LEMMA SettleKeeps ==
    ASSUME LookupInv, lookup.pc \in Holding, NEW t, NEW s \in {"FAILED", "LOOKUP_PENDING"},
           NEW others \in {jobs, Reviewed}, SettleWith(t, others, s),
           Mine => RowOK(s, t, created, applied), UNCHANGED <<books, applied, created>>
    PROVE  JobsOK' /\ ThreadOK' /\ ClaimOK' /\ FreshOK'
<1> USE DEF LookupInv
<1>1. created \in Nat /\ me \in Job /\ lookup.number # 0
  BY CounterTypes DEF ThreadOK, me, Serving
<1>2. ThreadOK' /\ ClaimOK' /\ FreshOK'
  <2>1. Free("free") \/ Free("paused")
    BY DEF SettleWith
  <2>2. {"free", "paused"} \subseteq LookupPc \ Serving
    BY DEF LookupPc, Serving, Holding
  <2> QED
    BY <1>1, <2>1, <2>2, FreeKeeps
<1>3. CASE UNCHANGED <<jobs, tasks>>
  BY <1>1, <1>2, <1>3, NoJob
<1>4. CASE TaskTo(t) /\ jobs' = IF Exists(me) THEN [others EXCEPT ![me] = s] ELSE others
  <2>1. /\ RowOK(jobs[me], tasks[me], created, applied) /\ tasks \in [Job -> TaskRow]
        /\ \A j \in Job : RowOK(others[j], tasks[j], created, applied)
        /\ others \in [Job -> JobStatus] /\ s \in JobStatus
    BY <1>1, ReviewKeepsRows DEF JobsOK, JobStatus, Unresolved
  <2>2. /\ RowOK(jobs'[me], tasks'[me], created, applied)
        /\ tasks' \in [Job -> TaskRow] /\ \A j \in Job \ {me} : tasks'[j] = tasks[j]
    <3>1. CASE Mine
      <4>1. Exists(me) /\ t \in TaskRow
        BY <1>1, <2>1, <3>1 DEF RowOK, Mine, Exists
      <4>2. tasks' = [tasks EXCEPT ![me] = t] /\ jobs'[me] = s
        BY <1>1, <1>4, <2>1, <3>1, <4>1 DEF TaskTo
      <4> QED
        BY <1>1, <2>1, <3>1, <4>1, <4>2
    <3>2. CASE ~Mine /\ Exists(me)
      <4>1. tasks[me].status = "PENDING"
        BY <3>2 DEF ClaimOK, Serving
      <4>2. RowOK(s, tasks[me], created, applied)
        BY <2>1, <3>2, <4>1 DEF RowOK, Exists, Active, JobStatus, Unresolved
      <4>3. tasks' = tasks /\ jobs'[me] = s
        BY <1>1, <1>4, <2>1, <3>2 DEF TaskTo
      <4> QED
        BY <2>1, <4>2, <4>3
    <3>3. CASE ~Mine /\ ~Exists(me)
      BY <1>1, <1>4, <2>1, <3>3 DEF TaskTo
    <3> QED
      BY <3>1, <3>2, <3>3
  <2>3. /\ jobs' \in [Job -> JobStatus]
        /\ \A j \in Job \ {me} : jobs'[j] = others[j]
    BY <1>1, <1>4, <2>1
  <2>4. \A j \in Job : RowOK(jobs'[j], tasks'[j], created', applied')
    BY <2>1, <2>2, <2>3
  <2> QED
    BY <1>2, <2>2, <2>3, <2>4 DEF JobsOK
<1> QED
  BY <1>2, <1>3, <1>4 DEF SettleWith

\* Reading the Book and the job before a search.
LEMMA LoadKeeps ==
    ASSUME LookupInv, LoadLookup
    PROVE  LookupInv'
<1> USE DEF LookupInv
<1>1. /\ created \in Nat /\ me \in Job /\ lookup.number # 0 /\ BookOf[me] \in Book
      /\ lookup.pc = "load" /\ UNCHANGED <<jobs, books, applied, created, imports, lookupFaults>>
  BY CounterTypes, LookupAssumption DEF LoadLookup, At, ThreadOK, me, Serving, Holding
<1>2. CountersOK' /\ BooksOK'
  BY <1>1 DEF CountersOK, BooksOK
<1>3. CASE UNCHANGED tasks /\ (Step("finish") \/ Step("retry"))
  BY <1>1, <1>2, <1>3, MovesOn, NoJob DEF Serving, Holding
<1>4. CASE UNCHANGED tasks /\ ~books[BookOf[me]].pending
           /\ lookup' = [lookup EXCEPT !.pc = "search", !.fresh = TRUE]
  <2>1. ThreadOK' /\ lookup'.pc = "search" /\ me' = me /\ lookup'.number = lookup.number
    BY <1>1, <1>4 DEF ThreadOK, me, LookupPc, Serving, Holding
  <2>2. FreshOK'
    BY <1>1, <1>4, <2>1 DEF FreshOK, me
  <2>3. ClaimOK'
    BY <1>1, <1>4, <2>1 DEF ClaimOK, Mine, Exists, Serving, Holding
  <2> QED
    BY <1>1, <1>2, <1>4, <2>1, <2>2, <2>3, NoJob
<1>5. CASE TaskTo([tasks[me] EXCEPT !.status = "PENDING"]) /\ Free("free")
  <2>1. ThreadOK' /\ ClaimOK' /\ FreshOK'
    BY <1>1, <1>5, FreeKeeps DEF LookupPc, Serving, Holding
  <2>2. RowOK(jobs[me], tasks[me], created, applied)
    BY <1>1 DEF JobsOK
  <2>3. CASE Mine
    <3> DEFINE t == [tasks[me] EXCEPT !.status = "PENDING"]
    <3>1. tasks[me].status = "RUNNING"
      BY <1>1, <2>3 DEF ClaimOK, Serving, Holding
    <3>2. RowOK(jobs[me], t, created, applied)
      BY <2>2, <3>1 DEF RowOK, TaskRow, Active
    <3>3. OnlyRow(me, jobs[me], t)
      BY <1>1, <1>5, <2>3, <3>2 DEF TaskTo, OnlyRow, JobsOK, RowOK
    <3> QED
      BY <1>1, <1>2, <2>1, <3>2, <3>3, OneJob
  <2>4. CASE ~Mine
    BY <1>1, <1>2, <1>5, <2>1, <2>4, NoJob DEF TaskTo
  <2> QED
    BY <2>3, <2>4
<1> QED
  BY <1>3, <1>4, <1>5 DEF LoadLookup

\* Searching, fetching the cover, queueing writebacks and failing write no row.
LEMMA SearchKeeps ==
    ASSUME LookupInv, SearchLookup \/ PublishCover \/ EnqueueIntents \/ LookupFailed
    PROVE  LookupInv'
<1> USE DEF LookupInv
<1>1. /\ created \in Nat /\ UNCHANGED <<jobs, tasks, books, applied, created>>
      /\ UNCHANGED <<imports, lookupFaults>> /\ lookup.pc \in Serving
  BY CounterTypes DEF SearchLookup, PublishCover, EnqueueIntents, LookupFailed, At, Serving, Holding
<1>2. CountersOK' /\ BooksOK' /\ JobsOK'
  BY <1>1, NoJob DEF CountersOK, BooksOK
<1>3. CASE Free("free")
  BY <1>1, <1>2, <1>3, FreeKeeps DEF LookupPc, Serving, Holding
<1>4. CASE SearchLookup
  BY <1>1, <1>2, <1>3, <1>4, MovesOn DEF SearchLookup, At, Serving, Holding
<1>5. CASE LookupFailed
  BY <1>1, <1>2, <1>3, <1>5, MovesOn DEF LookupFailed, At, Serving, Holding
<1>6. CASE PublishCover
  <2>1. CASE Step("failed")
    BY <1>1, <1>2, <2>1, MovesOn DEF Serving, Holding
  <2>2. CASE Step("record")
    <3>1. /\ ThreadOK' /\ lookup'.pc = "record" /\ me' = me /\ lookup'.number = lookup.number
          /\ lookup'.fresh = lookup.fresh
      BY <1>1, <2>2, StepKeeps DEF Serving, Holding
    <3>2. FreshOK' /\ ClaimOK'
      BY <1>1, <1>6, <3>1 DEF PublishCover, At, FreshOK, ClaimOK, Mine, Exists, me, Serving, Holding
    <3> QED
      BY <1>2, <3>1, <3>2
  <2> QED
    BY <1>6, <2>1, <2>2 DEF PublishCover
<1> QED
  BY <1>3, <1>4, <1>5, <1>6 DEF EnqueueIntents

\* A task is finished or waits for its next attempt.
LEMMA EndsKeep ==
    ASSUME LookupInv, FinishLookup \/ RetryLookup
    PROVE  LookupInv'
<1> USE DEF LookupInv
<1>1. /\ created \in Nat /\ me \in Job /\ lookup.number # 0
      /\ UNCHANGED <<books, applied, created, imports, lookupFaults>> /\ lookup.pc \in Holding
      /\ lookup.attempts \in 0..Retries /\ Retries \in Nat
  BY CounterTypes, LookupAssumption
     DEF FinishLookup, RetryLookup, At, ThreadOK, me, Serving, Holding
<1>2. CountersOK' /\ BooksOK'
  BY <1>1 DEF CountersOK, BooksOK
<1>3. RowOK(jobs[me], tasks[me], created, applied)
  BY <1>1 DEF JobsOK
<1>4. Mine => tasks[me].status = "RUNNING" /\ tasks[me].number # 0
  BY <1>1 DEF ClaimOK, Serving, Mine
<1>5. CASE FinishLookup
  <2>1. Mine => RowOK("FAILED", [tasks[me] EXCEPT !.status = "FAILED"], created, applied)
    BY <1>3, <1>4 DEF RowOK, TaskRow, Active, JobStatus, Unresolved
  <2> QED
    BY <1>1, <1>2, <1>5, <2>1, SettleKeeps DEF FinishLookup, EndUnresolved
<1>6. CASE RetryLookup
  <2> DEFINE n == lookup.attempts + 1
             t1 == [tasks[me] EXCEPT !.status = "FAILED", !.attempts = n]
             t2 == [tasks[me] EXCEPT !.status = "PENDING", !.attempts = n, !.due = FALSE]
  <2>1. n \in 0..(Retries + 1)
    BY <1>1
  <2>2. Mine => RowOK("FAILED", t1, created, applied)
    BY <1>3, <1>4, <2>1 DEF RowOK, TaskRow, Active, JobStatus, Unresolved
  <2>3. Mine /\ ~(n > Retries) => RowOK("LOOKUP_PENDING", t2, created, applied)
    BY <1>3, <1>4, <2>1 DEF RowOK, TaskRow, Active, JobStatus, Unresolved
  <2>4. IF n > Retries THEN \E others \in {jobs, Reviewed} : SettleWith(t1, others, "FAILED")
        ELSE SettleWith(t2, jobs, "LOOKUP_PENDING")
    BY <1>6 DEF RetryLookup, EndUnresolved
  <2> HIDE DEF n, t1, t2
  <2> QED
    BY <1>1, <1>2, <2>2, <2>3, <2>4, SettleKeeps
<1> QED
  BY <1>5, <1>6

\* An answer is applied, and the job is settled.
LEMMA ApplyKeeps ==
    ASSUME LookupInv, ApplyLookup \/ RecordLookup
    PROVE  LookupInv'
<1> USE DEF LookupInv
<1>1. /\ created \in Nat /\ me \in Job /\ lookup.number \in 1..created /\ lookup.pc \in Holding
      /\ UNCHANGED <<books, created, imports, lookupFaults>>
  BY CounterTypes DEF ApplyLookup, RecordLookup, At, ThreadOK, me, Serving, Holding
<1>2. RowOK(jobs[me], tasks[me], created, applied)
  BY <1>1 DEF JobsOK
<1>3. Mine => tasks[me].status = "RUNNING" /\ Exists(me)
  BY <1>1, <1>2 DEF ClaimOK, Serving, Mine, RowOK, Exists
<1>4. CASE Step("failed") /\ UNCHANGED <<jobs, tasks, applied>>
  BY <1>1, <1>4, MovesOn, NoJob DEF CountersOK, BooksOK, Serving, Holding
<1>5. CASE /\ JobTo(me, "APPLIED") /\ applied' = applied \cup {lookup.number} /\ tasks' = tasks
           /\ Step("cover")
  <2>1. JobTo(me, "APPLIED") /\ applied' = applied \cup {lookup.number} /\ tasks' = tasks
    BY <1>5
  <2>2. /\ ThreadOK' /\ lookup'.pc = "cover" /\ me' = me /\ lookup'.number = lookup.number
        /\ lookup'.fresh = lookup.fresh
    BY <1>1, <1>5, StepKeeps DEF Serving, Holding
  <2>3. CountersOK' /\ BooksOK' /\ FreshOK'
    BY <1>1, <2>1, <2>2 DEF CountersOK, BooksOK, FreshOK, me
  <2>4. CASE Exists(me)
    <3>1. RowOK("APPLIED", tasks[me], created, applied')
      BY <1>2, <2>1, <2>4 DEF RowOK, Exists, JobStatus
    <3>2. OnlyRow(me, "APPLIED", tasks[me])
      BY <1>1, <2>1, <2>4 DEF JobTo, OnlyRow, JobsOK, JobStatus
    <3>3. JobsOK'
      BY <1>1, <2>1, <3>1, <3>2, OneJob
    <3>4. ClaimOK'
      BY <1>1, <1>3, <2>1, <2>2, <2>4, <3>2 DEF ClaimOK, Mine, Exists, OnlyRow, Serving, Holding
    <3> QED
      BY <2>2, <2>3, <3>3, <3>4
  <2>5. CASE ~Exists(me)
    <3>1. jobs' = jobs
      BY <2>1, <2>5 DEF JobTo
    <3>2. ClaimOK'
      BY <1>1, <1>3, <2>1, <2>2, <2>5, <3>1 DEF ClaimOK, Mine, Exists, Serving, Holding
    <3> QED
      BY <1>1, <2>1, <2>2, <2>3, <3>1, <3>2, NoJob
  <2> QED
    BY <2>4, <2>5
<1>6. CASE RecordLookup
  <2> DEFINE t == [tasks[me] EXCEPT !.status = "COMPLETED"]
  <2>1. TaskTo(t) /\ Step("intents") /\ jobs' = jobs /\ applied' = applied
    BY <1>6 DEF RecordLookup
  <2>2. /\ ThreadOK' /\ lookup'.pc = "intents" /\ me' = me /\ lookup'.number = lookup.number
        /\ lookup'.fresh = lookup.fresh
    BY <1>1, <2>1, StepKeeps DEF Serving, Holding
  <2>3. CountersOK' /\ BooksOK' /\ FreshOK'
    BY <1>1, <2>1, <2>2 DEF CountersOK, BooksOK, FreshOK, me
  <2>4. CASE Mine
    <3>1. tasks[me].number \in applied /\ jobs[me] = "APPLIED"
      BY <1>6, <2>4 DEF RecordLookup, At, ClaimOK, Mine, Serving, Holding
    <3>2. RowOK(jobs[me], t, created, applied)
      BY <1>2, <3>1 DEF RowOK, TaskRow, Active
    <3>3. OnlyRow(me, jobs[me], t)
      BY <1>1, <2>1, <2>4, <3>2 DEF TaskTo, OnlyRow, JobsOK, RowOK
    <3>4. JobsOK'
      BY <1>1, <2>1, <3>2, <3>3, OneJob
    <3>5. t.status = "COMPLETED" /\ t.number = lookup.number
      BY <1>2, <2>4 DEF RowOK, TaskRow, Mine
    <3>6. ClaimOK'
      BY <1>1, <2>2, <3>3, <3>5 DEF ClaimOK, Mine, OnlyRow, Serving, Holding
    <3> QED
      BY <2>2, <2>3, <3>4, <3>6
  <2>5. CASE ~Mine
    <3>1. tasks' = tasks
      BY <2>1, <2>5 DEF TaskTo
    <3>2. ClaimOK'
      BY <1>1, <2>1, <2>2, <2>5, <3>1 DEF ClaimOK, Mine, Exists, Serving, Holding
    <3> QED
      BY <1>1, <2>1, <2>2, <2>3, <3>1, <3>2, NoJob
  <2> QED
    BY <2>4, <2>5
<1> QED
  BY <1>4, <1>5, <1>6 DEF ApplyLookup

\* A claim takes the oldest task that is due and sets its job RUNNING.
LEMMA ClaimKeeps ==
    ASSUME LookupInv, NEW j \in Job, ClaimLookup(j)
    PROVE  LookupInv'
<1> USE DEF LookupInv
<1>1. created \in Nat /\ UNCHANGED <<books, applied, created, imports, lookupFaults>>
      /\ CountersOK' /\ BooksOK'
  BY CounterTypes DEF ClaimLookup, CountersOK, BooksOK
<1>2. RowOK(jobs[j], tasks[j], created, applied) /\ tasks[j].status \in Active
  BY DEF JobsOK, ClaimLookup, Claimable, Active
<1>3. CASE Free("paused") /\ UNCHANGED <<jobs, tasks>>
  BY <1>1, <1>3, FreeKeeps, NoJob DEF LookupPc, Serving, Holding
<1>4. CASE ~Refused(j)
  <2> DEFINE t == [tasks[j] EXCEPT !.status = "RUNNING", !.lapsed = FALSE]
  <2>1. /\ jobs' = [jobs EXCEPT ![j] = "RUNNING"] /\ tasks' = [tasks EXCEPT ![j] = t]
        /\ lookup' = [pc |-> "load", job |-> j, number |-> tasks[j].number,
                      attempts |-> tasks[j].attempts, fresh |-> FALSE]
    BY <1>4 DEF ClaimLookup, JobsOK
  <2>2. tasks[j].number # 0
    BY <1>2, LookupAssumption DEF RowOK, TaskRow, Active, JobStatus, Unresolved
  <2>3. tasks[j].number \in 1..created /\ tasks[j].attempts \in 0..Retries
    BY <1>1, <1>2, <2>2, LookupAssumption DEF RowOK, TaskRow
  <2>4. /\ RowOK("RUNNING", t, created, applied) /\ t.status = "RUNNING"
        /\ t.number = tasks[j].number
    BY <1>2, <2>2, <2>3, LookupAssumption DEF RowOK, TaskRow, Active, JobStatus, Unresolved
  <2>5. OnlyRow(j, "RUNNING", t)
    BY <2>1, <2>4 DEF RowOK, JobsOK, OnlyRow
  <2>6. JobsOK'
    BY <1>1, <2>4, <2>5, OneJob
  <2>7. ThreadOK' /\ FreshOK'
    BY <1>1, <2>1, <2>3 DEF ThreadOK, FreshOK, LookupPc, Serving, Holding
  <2>8. ClaimOK'
    BY <2>1, <2>4, <2>5 DEF ClaimOK, Mine, me, OnlyRow, Serving, Holding
  <2> QED
    BY <1>1, <2>6, <2>7, <2>8
<1> QED
  BY <1>3, <1>4 DEF ClaimLookup

----------------------------------------------------------------------------
(* Imports, the clock, restarts and faults *)

\* The thread keeps what it holds; what it read of its Book may be overtaken.
LEMMA OvertakenKeeps ==
    ASSUME LookupInv, NEW b \in Book, Overtaken(b), UNCHANGED <<jobs, tasks, created, applied>>,
           \A c \in Book : c # b => books'[c] = books[c]
    PROVE  JobsOK' /\ ThreadOK' /\ ClaimOK' /\ FreshOK'
<1> USE DEF LookupInv
<1>1. JobsOK'
  BY CounterTypes, NoJob
<1>2. /\ ThreadOK' /\ lookup'.pc = lookup.pc /\ lookup'.job = lookup.job
      /\ lookup'.number = lookup.number /\ (lookup'.fresh => lookup.fresh)
      /\ (lookup'.fresh => lookup.job = "none" \/ BookOf[lookup.job] # b)
  BY DEF Overtaken, ThreadOK
<1>3. ClaimOK'
  BY <1>2 DEF ClaimOK, Mine, me, Exists
<1>4. FreshOK'
  BY <1>2, LookupAssumption DEF FreshOK, ThreadOK, Serving
<1> QED
  BY <1>1, <1>2, <1>3, <1>4

\* Imports that begin, end or are interrupted.
LEMMA ImportsKeep ==
    ASSUME LookupInv, Imports
    PROVE  LookupInv'
<1> USE DEF LookupInv
<1>1. PICK b \in Book : RequestImport(b) \/ StartImport(b) \/ EndImport(b)
  BY DEF Imports
<1>2. CASE RequestImport(b)
  <2>1. Imported(b) /\ UNCHANGED <<jobs, tasks, applied, lookup, created, lookupFaults>>
        /\ imports < MaxImport /\ imports' = imports + 1
    BY <1>2 DEF RequestImport
  <2>2. CountersOK'
    BY <2>1, LookupAssumption DEF CountersOK
  <2>3. ThreadOK' /\ ClaimOK'
    BY <2>1 DEF ThreadOK, ClaimOK, Mine, me, Exists
  <2> QED
    BY <2>1, <2>2, <2>3, ImportAsked, CounterTypes, NoJob
<1>3. CASE StartImport(b) \/ EndImport(b)
  <2>1. /\ Overtaken(b) /\ UNCHANGED <<jobs, tasks, applied, created, imports, lookupFaults>>
        /\ \E r \in BookRow : books' = [books EXCEPT ![b] = r]
    <3>1. CASE StartImport(b)
      <4>1. [books[b] EXCEPT !.import = "RUNNING", !.pending = TRUE, !.failed = FALSE] \in BookRow
        BY DEF BooksOK, BookRow
      <4> QED
        BY <3>1, <4>1 DEF StartImport
    <3>2. CASE EndImport(b)
      <4>1. \A f \in BOOLEAN :
               [books[b] EXCEPT !.import = "none", !.pending = FALSE, !.failed = f] \in BookRow
        BY DEF BooksOK, BookRow
      <4> QED
        BY <3>2, <4>1 DEF EndImport
    <3> QED
      BY <1>3, <3>1, <3>2
  <2>2. BooksOK' /\ \A c \in Book : c # b => books'[c] = books[c]
    BY <2>1 DEF BooksOK
  <2>3. CountersOK'
    BY <2>1 DEF CountersOK
  <2> QED
    BY <2>1, <2>2, <2>3, OvertakenKeeps
<1> QED
  BY <1>1, <1>2, <1>3

\* The clock changes neither the status nor the number of a task.
LEMMA TimeKeeps ==
    ASSUME LookupInv, LookupTime
    PROVE  LookupInv'
<1> USE DEF LookupInv
<1>1. PICK j \in Job : LookupDue(j) \/ LookupLapses(j)
  BY DEF LookupTime
<1>2. /\ created \in Nat
      /\ UNCHANGED <<jobs, books, applied, lookup, created, imports, lookupFaults>>
  BY <1>1, CounterTypes DEF LookupDue, LookupLapses
<1>3. RowOK(jobs[j], tasks[j], created, applied)
  BY DEF JobsOK
<1>4. PICK t : /\ tasks' = [tasks EXCEPT ![j] = t] /\ RowOK(jobs[j], t, created, applied)
               /\ t.number = tasks[j].number /\ t.status = tasks[j].status
  <2> DEFINE t1 == [tasks[j] EXCEPT !.due = TRUE]
             t2 == [tasks[j] EXCEPT !.lapsed = TRUE]
  <2>1. /\ RowOK(jobs[j], t1, created, applied) /\ RowOK(jobs[j], t2, created, applied)
        /\ t1.number = tasks[j].number /\ t1.status = tasks[j].status
        /\ t2.number = tasks[j].number /\ t2.status = tasks[j].status
    BY <1>3 DEF RowOK, TaskRow
  <2>2. tasks' = [tasks EXCEPT ![j] = t1] \/ tasks' = [tasks EXCEPT ![j] = t2]
    BY <1>1 DEF LookupDue, LookupLapses
  <2> HIDE DEF t1, t2
  <2> QED
    BY <2>1, <2>2
<1>5. OnlyRow(j, jobs[j], t)
  BY <1>2, <1>4 DEF OnlyRow, JobsOK, RowOK
<1>6. JobsOK'
  BY <1>2, <1>4, <1>5, OneJob
<1>7. ClaimOK'
  BY <1>2, <1>4, <1>5 DEF ClaimOK, ThreadOK, Mine, me, Exists, OnlyRow
<1> QED
  BY <1>2, <1>6, <1>7 DEF CountersOK, BooksOK, ThreadOK, FreshOK

\* Recovery releases the running tasks whose lease has lapsed.
LEMMA RecoverKeeps ==
    ASSUME LookupInv, RecoverLookups
    PROVE  LookupInv'
<1> USE DEF LookupInv
<1>1. created \in Nat /\ UNCHANGED <<jobs, books, applied, created, imports, lookupFaults>>
      /\ ThreadOK' /\ ClaimOK' /\ FreshOK'
  BY CounterTypes, FreeKeeps DEF RecoverLookups, LookupPc, Serving, Holding
<1>2. ASSUME NEW j \in Job
      PROVE  RowOK(jobs[j], tasks'[j], created, applied)
  <2>1. RowOK(jobs[j], tasks[j], created, applied)
    BY DEF JobsOK
  <2>2. CASE tasks[j].status = "RUNNING" /\ tasks[j].lapsed
    <3>1. tasks'[j] = [tasks[j] EXCEPT !.status = "PENDING", !.due = TRUE, !.lapsed = FALSE]
      BY <2>2 DEF RecoverLookups
    <3> QED
      BY <2>1, <2>2, <3>1 DEF RowOK, TaskRow, Active
  <2>3. CASE ~(tasks[j].status = "RUNNING" /\ tasks[j].lapsed)
    BY <2>1, <2>3 DEF RecoverLookups
  <2> QED
    BY <2>2, <2>3
<1>3. JobsOK'
  BY <1>1, <1>2 DEF JobsOK, RecoverLookups, RowOK
<1> QED
  BY <1>1, <1>3 DEF CountersOK, BooksOK

\* Removing a Book takes its jobs and tasks with it.
LEMMA RemoveKeeps ==
    ASSUME LookupInv, NEW b \in Book, RemoveBook(b)
    PROVE  LookupInv'
<1> USE DEF LookupInv
<1>1. created \in Nat /\ UNCHANGED <<applied, lookup, created, imports>>
      /\ lookupFaults < MaxLookupFault /\ lookupFaults' = lookupFaults + 1
  BY CounterTypes DEF RemoveBook
<1>2. CountersOK' /\ ThreadOK'
  BY <1>1, LookupAssumption DEF CountersOK, ThreadOK
<1>3. BooksOK' /\ FreshOK'
  <2>1. [books[b] EXCEPT !.gone = TRUE, !.import = "none"] \in BookRow
        /\ [books[b] EXCEPT !.gone = TRUE, !.import = "none"].pending = books[b].pending
    BY DEF BooksOK, BookRow
  <2>2. books' = [books EXCEPT ![b] = [books[b] EXCEPT !.gone = TRUE, !.import = "none"]]
    BY DEF RemoveBook
  <2> QED
    BY <1>1, <2>1, <2>2, LookupAssumption DEF BooksOK, FreshOK
<1>4. ASSUME NEW j \in Job
      PROVE  /\ RowOK(jobs'[j], tasks'[j], created, applied)
             /\ \/ jobs'[j] = jobs[j] /\ tasks'[j] = tasks[j]
                \/ jobs'[j] = "gone" /\ tasks'[j].number = 0
  BY <1>1, GoneRow DEF RemoveBook, JobsOK
<1>5. JobsOK'
  BY <1>1, <1>4 DEF JobsOK, RowOK, RemoveBook
<1>6. ClaimOK'
  BY <1>1, <1>4 DEF ClaimOK, ThreadOK, Mine, me, Exists
<1> QED
  BY <1>2, <1>3, <1>5, <1>6

\* Failed commits, crashes and restarts.
LEMMA FaultsKeep ==
    ASSUME LookupInv, LookupCommitFails \/ CrashLookups \/ StartLookups
    PROVE  LookupInv'
<1> USE DEF LookupInv
<1>1. created \in Nat /\ UNCHANGED <<jobs, tasks, applied, created, imports>> /\ JobsOK'
  BY CounterTypes, NoJob DEF LookupCommitFails, CrashLookups, StartLookups
<1>2. CountersOK'
  BY <1>1, LookupAssumption DEF CountersOK, LookupCommitFails, CrashLookups, StartLookups
<1>3. BooksOK'
  <2>1. CASE UNCHANGED books
    BY <2>1 DEF BooksOK
  <2>2. CASE CrashLookups
    <3>1. ASSUME NEW b \in Book
          PROVE  books'[b] \in BookRow
      BY <2>2 DEF CrashLookups, BooksOK, BookRow
    <3> QED
      BY <2>2, <3>1 DEF CrashLookups, BooksOK
  <2> QED
    BY <2>1, <2>2 DEF LookupCommitFails, StartLookups
<1>4. CASE Free("down") \/ Free("recovering") \/ Free("paused")
  BY <1>1, <1>2, <1>3, <1>4, FreeKeeps DEF LookupPc, Serving, Holding
<1>5. CASE LookupCommitFails
  <2>1. CASE lookup.pc \in {"record", "intents"} /\ Step("failed")
    BY <1>1, <1>2, <1>3, <1>5, <2>1, MovesOn DEF LookupCommitFails, Serving, Holding
  <2> QED
    BY <1>4, <1>5, <2>1 DEF LookupCommitFails
<1> QED
  BY <1>4, <1>5 DEF CrashLookups, StartLookups

----------------------------------------------------------------------------
(* The theorems *)

\* No job and no task exists in the beginning.
LEMMA LookupInitially == LookupsInit => LookupInv
<1> SUFFICES ASSUME LookupsInit PROVE LookupInv
  OBVIOUS
<1>1. RowOK("none", NoTask, 0, {})
  BY LookupAssumption DEF RowOK, NoTask, TaskRow, Active, JobStatus
<1>2. JobsOK
  BY <1>1 DEF LookupsInit, JobsOK, RowOK
<1>3. CountersOK /\ BooksOK
  BY LookupAssumption DEF LookupsInit, CountersOK, BooksOK, BookRow
<1>4. lookup = [pc |-> "recovering", job |-> "none", number |-> 0, attempts |-> 0, fresh |-> FALSE]
      /\ created = 0
  BY DEF LookupsInit, Turned
<1>5. ThreadOK /\ ClaimOK /\ FreshOK
  BY <1>4, LookupAssumption DEF ThreadOK, ClaimOK, FreshOK, LookupPc, Serving, Holding
<1> QED
  BY <1>2, <1>3, <1>5 DEF LookupInv

\* Every step keeps the invariant.
LEMMA LookupStep ==
    ASSUME LookupInv, [LookupsNext]_lookupVars
    PROVE  LookupInv'
<1>1. CASE UNCHANGED lookupVars
  BY <1>1 DEF lookupVars, LookupInv, JobsOK, CountersOK, BooksOK, ThreadOK, ClaimOK, FreshOK,
              Mine, me, Exists
<1>2. CASE ServeLookup
  BY <1>2, LoadKeeps, SearchKeeps, EndsKeep, ApplyKeeps DEF ServeLookup
<1>3. CASE OrganizeRequests \/ Imports \/ LookupTime \/ RecoverLookups \/ StartLookups
  BY <1>3, RequestsKeep, ImportsKeep, TimeKeeps, RecoverKeeps, FaultsKeep
<1>4. CASE LookupFaults \/ \E j \in Job : ClaimLookup(j)
  BY <1>4, RemoveKeeps, FaultsKeep, ClaimKeeps DEF LookupFaults
<1> QED
  BY <1>1, <1>2, <1>3, <1>4 DEF LookupsNext

\* The inductive invariant of lookups holds throughout.
THEOREM LookupsInductive == LookupsSpec => []LookupInv
<1>1. LookupInv /\ [LookupsNext]_lookupVars => LookupInv'
  BY LookupStep
<1> QED
  BY <1>1, LookupInitially, PTL DEF LookupsSpec

\* Rows, tasks and the thread keep their types and their bounds.
THEOREM LookupsKeepTypes == LookupsSpec => []LookupsTypeOK
<1>1. ASSUME LookupInv
      PROVE  LookupsTypeOK
  <2>1. /\ jobs \in [Job -> {"none", "APPLIED", "gone"} \cup Unresolved] /\ DOMAIN tasks = Job
        /\ \A j \in Job : /\ tasks[j] \in TaskRow
                          /\ tasks[j].number # 0 => jobs[j] \notin {"none", "gone"}
                          /\ tasks[j].attempts > Retries => tasks[j].status \notin Active
    BY <1>1 DEF LookupInv, JobsOK, RowOK, JobStatus
  <2>2. books \in [Book -> BookRow] /\ CountersOK
    BY <1>1 DEF LookupInv, BooksOK
  <2>3. /\ lookup.pc \in LookupPc /\ lookup.job \in Job \cup {"none"}
        /\ lookup.number \in 0..created /\ lookup.attempts \in 0..Retries
    BY <1>1 DEF LookupInv, ThreadOK
  <2> QED
    BY <2>1, <2>2, <2>3 DEF LookupsTypeOK, TaskRow, BookRow, CountersOK
<1> QED
  BY <1>1, LookupsInductive, PTL

\* A job that waits or runs has a task that will be served.
THEOREM WaitingJobsHaveTasks == LookupsSpec => []JobsHaveTasks
<1>1. LookupInv => JobsHaveTasks
  BY DEF LookupInv, JobsOK, RowOK, JobsHaveTasks
<1> QED
  BY <1>1, LookupsInductive, PTL

\* A task that is reported as completed has changed its Book.
THEOREM CompletedLookupsWereApplied == LookupsSpec => []CompletedIsApplied
<1>1. LookupInv => CompletedIsApplied
  BY DEF LookupInv, JobsOK, RowOK, CompletedIsApplied
<1> QED
  BY <1>1, LookupsInductive, PTL

\* Only ApplyLookup writes a Book, and only one whose import is not under way.
LEMMA AppliedStep ==
    ASSUME LookupInv, LookupsNext, applied' # applied
    PROVE  ~books[BookOf[lookup.job]].pending
<1>1. ApplyLookup
  <2>1. ~OrganizeRequests
    BY DEF OrganizeRequests, CreateRun, Recognize, DeleteJob
  <2>2. ~Imports /\ ~LookupTime
    BY DEF Imports, RequestImport, StartImport, EndImport, LookupTime, LookupDue, LookupLapses
  <2>3. ~LookupFaults /\ ~RecoverLookups /\ ~StartLookups /\ ~\E j \in Job : ClaimLookup(j)
    BY DEF LookupFaults, LookupCommitFails, CrashLookups, RemoveBook, RecoverLookups,
           StartLookups, ClaimLookup
  <2>4. ServeLookup
    BY <2>1, <2>2, <2>3 DEF LookupsNext
  <2> QED
    BY <2>4 DEF ServeLookup, LoadLookup, SearchLookup, FinishLookup, RetryLookup, PublishCover,
                RecordLookup, EnqueueIntents, LookupFailed
<1>2. lookup.fresh
  BY <1>1 DEF ApplyLookup
<1> QED
  BY <1>2 DEF LookupInv, FreshOK

\* An online result never overwrites a Book whose import is under way.
THEOREM LookupsLetImportsGoFirst == LookupsSpec => ImportsComeFirst
<1> DEFINE A == applied' # applied => ~books[BookOf[lookup.job]].pending
<1>1. LookupInv /\ [LookupsNext]_lookupVars => [A]_lookupVars
  BY AppliedStep
<1> QED
  BY <1>1, LookupsInductive, PTL DEF LookupsSpec, ImportsComeFirst
=============================================================================
