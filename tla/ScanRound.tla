----------------------------- MODULE ScanRound -----------------------------
(***************************************************************************)
(* One scan of requested scopes (ScanLibrarySourceTree._execute_scopes and *)
(* _walk), against a file tree that changes while it is read.  Each step   *)
(* is one directory read or one write transaction; rounds follow each      *)
(* other, and the gap table is what survives a crash between them.         *)
(*                                                                         *)
(* Listing a directory in batches is one step.  Child walks nested in a    *)
(* directory, or pushed on its stack, are one set of directories to do.    *)
(***************************************************************************)
EXTENDS ScanScopes, FiniteSets

CONSTANTS
    File,        \* paths that are regular files when they exist
    Anchor,      \* directories that are the anchor of a directory resource
    Requests,    \* the sets of scopes callers ask for
    Trees,       \* what the disk and the index may hold at first
    MaxRound,    \* bound: rounds
    MaxChange,   \* bound: changes of the disk
    MaxFault     \* bound: crashes, cancellations and failed transactions

ASSUME ScanAssumption ==
    /\ File \subseteq Path \ {<<>>} /\ Anchor \subseteq Path \ File
    /\ \A p \in Path \ {<<>>} : Parent(p) \notin File
    /\ \A R \in Requests : R \subseteq Scope /\ IsFiniteSet(R)
    /\ \A T \in Trees : <<>> \in T /\ IsTree(T)
    /\ MaxRound \in Nat /\ MaxChange \in Nat /\ MaxFault \in Nat

VARIABLES
    disk,      \* entries that exist
    broken,    \* entries that cannot be read
    node,      \* indexed entries (LibrarySourceNode)
    gap,       \* LibraryImportScanGap
    pc,        \* idle, loop (of _execute_scopes), confirm or walk
    want,      \* the normalised scopes of this round
    pending,   \* scopes of this round still to do, in order
    scope,     \* the scope being done
    visited,   \* paths walked, or confirmed absent, in this round
    failed,    \* some range of this round could not be read
    todo,      \* walk: directories still to list
    open,      \* walk: directories listed, their missing children not pruned
    seen,      \* walk: the children each of those showed
    bad,       \* walk: directories that could not be listed
    owed,      \* history: paths requested and not read or found absent since
    steady,    \* history: indexed entries on the disk since this round began
    used       \* the bounded events already spent

index == <<node, gap>>
walk == <<todo, open, seen, bad>>
round == <<want, pending, scope, visited, failed>>
vars == <<disk, broken, index, pc, round, walk, owed, steady, used>>

Root == <<>>
Directories == Path \ File
NoScope == [path |-> Root, rec |-> FALSE]
Children(d, S) == {p \in S : p # Root /\ Parent(p) = d}
Under(S) == {p \in Path : \E a \in S : Contains(a, p)}
Readable(p) == p \in disk \ broken /\ ~\E a \in broken : Contains(a, p)
Recursive(S) == {[path |-> p, rec |-> TRUE] : p \in S}

TypeOK ==
    /\ disk \subseteq Path /\ broken \subseteq Path /\ node \subseteq Path \ {Root}
    /\ gap \subseteq Scope /\ want \subseteq Scope
    /\ pc \in {"idle", "loop", "confirm", "walk"}
    /\ pending \in Seq(Scope) /\ scope \in Scope
    /\ visited \subseteq Path /\ failed \in BOOLEAN
    /\ todo \subseteq Directories /\ open \subseteq Directories /\ bad \subseteq Path
    /\ seen \in [open -> SUBSET Path]
    /\ owed \subseteq Path /\ steady \subseteq Path
    /\ used \in [round : 0..MaxRound, change : 0..MaxChange, fault : 0..MaxFault]

----------------------------------------------------------------------------
(* The file tree.                                                          *)

Spend(k, bound) == used[k] < bound /\ used' = [used EXCEPT ![k] = @ + 1]

\* An entry appears or disappears with what is below it, or its access fails or
\* comes back.
DiskChanges(p) ==
    /\ Spend("change", MaxChange)
    /\ \/ p # Root /\ p \notin disk /\ Parent(p) \in disk
          /\ disk' = disk \cup {p} /\ broken' = broken
       \/ p # Root /\ p \in disk
          /\ disk' = disk \ Under({p}) /\ broken' = broken \ Under({p})
       \/ p \in disk \ broken /\ broken' = broken \cup {p} /\ disk' = disk
       \/ p \in broken /\ broken' = broken \ {p} /\ disk' = disk
    /\ steady' = {q \in steady : q \in disk'}
    /\ UNCHANGED <<index, pc, round, walk, owed>>

----------------------------------------------------------------------------
(* The round: its opening, its loop over the scopes, its end.              *)

\* A scope inside a directory resource grows to the whole resource.
Expand(s) ==
    LET A == {a \in Anchor \cap node : Contains(a, s.path)}
    IN  IF A = {} THEN s
        ELSE [path |-> CHOOSE a \in A : \A b \in A : Contains(a, b), rec |-> TRUE]

\* merge_scan_scopes sorts by path: every scope once, parents before what is below
\* them; which of two unrelated names comes first is left open.
Orders(S) ==
    {q \in [1..Cardinality(S) -> S] :
        \A i, j \in 1..Cardinality(S) : i < j =>
            q[i] # q[j] /\ ~Contains(q[j].path, q[i].path)}

\* The root is readable, and not empty while entries are indexed.
GuardRoot == Readable(Root) /\ (Children(Root, disk) = {} => node = {})

EndRound == /\ pc' = "idle" /\ pending' = <<>> /\ want' = {} /\ scope' = NoScope
            /\ visited' = {} /\ failed' = FALSE
            /\ todo' = {} /\ open' = {} /\ seen' = [d \in {} |-> {}] /\ bad' = {}

\* The whole request is recorded as incomplete before anything is read.
Open(R) ==
    LET N == Merge({Expand(s) : s \in R})
    IN  /\ pc = "idle" /\ R # {} /\ GuardRoot
        /\ Spend("round", MaxRound)
        /\ gap' = Record(gap, N)
        /\ want' = N /\ pending' \in Orders(N)
        /\ pc' = "loop"
        /\ owed' = owed \cup Pending(N)
        /\ steady' = disk \cap node
        /\ UNCHANGED <<disk, broken, node, scope, visited, failed, walk>>

Finish ==
    /\ pc = "loop" /\ pending = <<>>
    /\ EndRound
    /\ UNCHANGED <<disk, broken, index, owed, steady, used>>

\* Cancellation before the next scope: what is pending stays recorded.
Cancel ==
    /\ pc = "loop" /\ pending # <<>>
    /\ Spend("fault", MaxFault)
    /\ gap' = Record(gap, {pending[i] : i \in 1..Len(pending)})
    /\ EndRound
    /\ UNCHANGED <<disk, broken, node, owed, steady>>

Visit_Nothing(p) == visited' = visited
Visit(p) == visited' = visited \cup {p}

next == Head(pending)
Indexed(s) == s.path = Root \/ s.path \in node
Looking == pc = "loop" /\ pending # <<>>
ListFirst(d, q) == <<[path |-> d, rec |-> FALSE]>> \o q

\* An unknown path: its parent is listed first ...
ListParent ==
    /\ Looking /\ ~Indexed(next) /\ Parent(next.path) \notin visited
    /\ pending' = ListFirst(Parent(next.path), pending)
    /\ UNCHANGED <<disk, broken, index, pc, want, scope, visited, failed, walk, owed, steady, used>>

\* ... and if the listing did not show it, it is absent and its gap resolved.
ConfirmAbsent ==
    /\ Looking /\ ~Indexed(next) /\ Parent(next.path) \in visited
    /\ Visit(next.path)
    /\ gap' = Clear(gap, {next})
    /\ pending' = Tail(pending)
    /\ UNCHANGED <<disk, broken, node, pc, want, scope, failed, walk, owed, steady, used>>

\* An indexed directory that cannot be read has been deleted, or has failed.
DirectoryUnreadable ==
    /\ Looking /\ next.path \in node \ File /\ ~Readable(next.path)
    /\ scope' = next /\ pending' = Tail(pending)
    /\ pc' = "confirm"
    /\ UNCHANGED <<disk, broken, index, want, visited, failed, walk, owed, steady, used>>

\* A regular file is observed, or has been deleted, or has failed.
ObserveFile ==
    /\ Looking /\ next.path \in node \cap File
    /\ Visit(next.path)
    /\ pending' = Tail(pending)
    /\ IF Readable(next.path)
       THEN /\ gap' = Clear(gap, {next}) /\ owed' = owed \ Listings(next)
            /\ UNCHANGED <<pc, scope>>
       ELSE /\ scope' = next /\ pc' = "confirm"
            /\ UNCHANGED <<gap, owed>>
    /\ UNCHANGED <<disk, broken, node, want, failed, walk, steady, used>>

\* _confirmed_missing_parent: the nearest ancestor that still exists, if it can
\* be listed and the path is really gone.
Gone(p) == /\ p \notin disk
           /\ \A a \in disk : Contains(a, p) => Readable(a)
Nearest(p) == CHOOSE a \in disk : Contains(a, p) /\ \A b \in disk : Contains(b, p) => Contains(b, a)

\* A deleted file is looked up again after its parent; a deleted directory is not.
Requeued(s) == IF s.path \in File THEN <<s>> \o pending ELSE pending

ConfirmMissing ==
    /\ pc = "confirm" /\ Gone(scope.path)
    /\ pending' = ListFirst(Nearest(scope.path), Requeued(scope))
    /\ pc' = "loop"
    /\ UNCHANGED <<disk, broken, index, want, scope, visited, failed, walk, owed, steady, used>>

\* An access failure is not a deletion: the range stays incomplete.
ConfirmFails ==
    /\ pc = "confirm" /\ ~Gone(scope.path)
    /\ failed' = TRUE
    /\ gap' = Record(gap, {scope})
    /\ pc' = "loop"
    /\ UNCHANGED <<disk, broken, node, want, pending, scope, visited, walk, owed, steady, used>>

\* The write of what was observed failed: the file and the rest stay recorded.
ObserveAborts ==
    /\ Looking /\ next.path \in node \cap File
    /\ Spend("fault", MaxFault)
    /\ gap' = Record(Clear(gap, {next}), {pending[i] : i \in 1..Len(pending)})
    /\ EndRound
    /\ UNCHANGED <<disk, broken, node, owed, steady>>

----------------------------------------------------------------------------
(* The walk of one scope.                                                  *)

StartWalk ==
    /\ Looking
    /\ next.path # Root => next.path \in node \ File /\ Readable(next.path)
    /\ scope' = next /\ pending' = Tail(pending)
    /\ Visit(next.path)
    /\ todo' = {next.path}
    /\ pc' = "walk"
    /\ UNCHANGED <<disk, broken, index, want, failed, open, seen, bad, owed, steady, used>>

\* The entries of a directory are indexed; directories among them are next.
List(d) ==
    LET C == Children(d, disk)
    IN  /\ pc = "walk" /\ d \in todo /\ Readable(d)
        /\ d = Root => GuardRoot
        /\ node' = node \cup C
        /\ todo' = (todo \ {d}) \cup (IF scope.rec THEN C \ File ELSE {})
        /\ open' = open \cup {d}
        /\ seen' = [e \in open \cup {d} |-> IF e = d THEN C ELSE seen[e]]
        /\ UNCHANGED <<disk, broken, gap, pc, round, bad, owed, steady, used>>

ListFails_Empty(d) ==
    /\ pc = "walk" /\ d \in todo /\ ~Readable(d)
    /\ todo' = todo \ {d}
    /\ open' = open \cup {d}
    /\ seen' = [e \in open \cup {d} |-> IF e = d THEN {} ELSE seen[e]]
    /\ UNCHANGED <<disk, broken, index, pc, round, bad, owed, steady, used>>
\* A directory that cannot be listed is left as it is, and its siblings go on.
ListFails(d) ==
    /\ pc = "walk" /\ d \in todo /\ ~Readable(d)
    /\ todo' = todo \ {d}
    /\ bad' = bad \cup {d}
    /\ UNCHANGED <<disk, broken, index, pc, round, open, seen, owed, steady, used>>

\* The listing of d breaks off: some entries were indexed, none is pruned, and
\* with a shared stack the walk ends with the directories R not yet listed.
ListBreaks(d) ==
    /\ pc = "walk" /\ d \in todo
    /\ Spend("fault", MaxFault)
    /\ \E C \in SUBSET Children(d, disk) : node' = node \cup C
    /\ \E R \in {{}, todo} : bad' = bad \cup {d} \cup R /\ todo' = todo \ (R \cup {d})
    /\ UNCHANGED <<disk, broken, gap, pc, round, open, seen, owed, steady>>

\* What a complete listing of d settles: d itself, its files, and everything
\* that it did not show.
Settled(d) ==
    {p \in Path : \/ p = d
                  \/ /\ Contains(d, p)
                     /\ \A c \in seen[d] \ File : ~Contains(c, p)}

\* After a complete listing the children it did not show are removed.
Prune(d) ==
    /\ pc = "walk" /\ d \in open
    /\ node' = node \ Under(Children(d, node) \ seen[d])
    /\ open' = open \ {d}
    /\ seen' = [e \in open \ {d} |-> seen[e]]
    /\ owed' = owed \ Settled(d)
    /\ UNCHANGED <<disk, broken, gap, pc, round, todo, bad, steady, used>>

Incomplete_Paths(B) == B
\* The failed ranges of a walk; an error that names none stands for the scope.
Incomplete(B) == IF B = {} THEN {scope} ELSE Recursive(B)

WalkEnds ==
    /\ pc = "walk" /\ todo = {} /\ open = {}
    /\ gap' = IF bad = {} THEN Clear(gap, {scope})
              ELSE Record(Clear(gap, {scope}), Incomplete(bad))
    /\ failed' = (failed \/ bad # {})
    /\ bad' = {} /\ pc' = "loop"
    /\ UNCHANGED <<disk, broken, node, want, pending, scope, visited, todo, open, seen, owed, steady, used>>

Unfinished_Listed == bad \cup todo
\* Directories a walk that is broken off has not finished.
Unfinished == bad \cup todo \cup open

\* The round ends inside a walk: what the walk did not finish, and what the round
\* never reached, is recorded.
AbortWalk ==
    /\ pc = "walk"
    /\ gap' = Record(Clear(gap, {scope}),
                     Incomplete(Unfinished) \cup {pending[i] : i \in 1..Len(pending)})
    /\ EndRound
    /\ UNCHANGED <<disk, broken, node, owed, steady>>

\* The root has become empty (EMPTY_LIBRARY_PROTECTED).
EmptyRootAborts == Root \in todo /\ Readable(Root) /\ ~GuardRoot /\ AbortWalk /\ used' = used

\* Cancelled inside the walk, or a write of the walk failed.
WalkAborts == AbortWalk /\ Spend("fault", MaxFault)

\* The process dies, or a transaction of the loop fails, also the one that would
\* record the failure.
Crash ==
    /\ pc # "idle"
    /\ Spend("fault", MaxFault)
    /\ EndRound
    /\ UNCHANGED <<disk, broken, index, owed, steady>>

----------------------------------------------------------------------------

Init ==
    /\ disk \in Trees
    /\ \E T \in Trees : node = T \ {Root}
    /\ broken = {} /\ gap = {}
    /\ pc = "idle" /\ pending = <<>> /\ want = {} /\ scope = NoScope
    /\ visited = {} /\ failed = FALSE
    /\ todo = {} /\ open = {} /\ seen = [d \in {} |-> {}] /\ bad = {}
    /\ owed = {} /\ steady = {}
    /\ used = [round |-> 0, change |-> 0, fault |-> 0]

Loop == \/ Finish \/ ListParent \/ ConfirmAbsent \/ DirectoryUnreadable \/ ObserveFile
        \/ ConfirmMissing \/ ConfirmFails \/ StartWalk
Walk == (\E d \in Directories : List(d) \/ ListFails(d) \/ Prune(d))
        \/ WalkEnds \/ EmptyRootAborts
Faults == Cancel \/ ObserveAborts \/ (\E d \in Directories : ListBreaks(d)) \/ WalkAborts \/ Crash

Next ==
    \/ \E R \in Requests : Open(R)
    \/ Loop \/ Walk \/ Faults
    \/ \E p \in Path : DiskChanges(p)

Spec == Init /\ [][Next]_vars
\* The consumer executes the round it has started.
FairSpec == Spec /\ WF_vars(Loop \/ Walk)

----------------------------------------------------------------------------

\* A path that was requested and has not been read, or found absent from a
\* complete listing, is in a recorded range: whatever failed, and even if the
\* process died.
OwedIsRecorded == owed \subseteq Pending(gap)

\* An indexed entry that has been on the disk ever since the round began is not
\* removed from the index, whatever reading its directory did.
SteadyEntriesStay == pc # "idle" => steady \subseteq node

\* A round whose directories can be read comes to its end.
RoundEndsIfReadable == (pc # "idle") ~> (pc = "idle" \/ broken # {})

Succeeds == pc = "loop" /\ pending = <<>> /\ ~failed

\* The stronger liveness: an unreadable directory fails the round but does not
\* keep it from ending.
RoundEnds == (pc # "idle") ~> (pc = "idle")

\* A round that reports success has read all that it was asked for.
SuccessIsComplete == Succeeds => owed \cap Pending(want) = {}
=============================================================================
