--------------------------- MODULE ScanRoundProofs ---------------------------
(***************************************************************************)
(* Theorems about one scan: whatever fails while the tree is read, and     *)
(* however the tree changes meanwhile, the gap table covers what was asked *)
(* for and not read, and nothing that stayed on the disk leaves the index. *)
(***************************************************************************)
EXTENDS ScanRound, TLAPS, SequenceTheorems, FiniteSetTheorems, WellFoundedInduction

(* Paths.                                                                  *)

\* A set of numbers has a least one.
LEMMA LeastNumber ==
    ASSUME NEW T \in SUBSET Nat, T # {}
    PROVE  \E m \in T : \A n \in T : m <= n
<1> DEFINE R == {ss \in Nat \X Nat : ss[1] < ss[2]}
<1>1. IsWellFoundedOn(R, Nat)
  BY NatLessThanWellFounded, Zenon DEF OpToRel
<1>2. PICK m \in T : \A n \in T : ~(<<n, m>> \in R)
  <2> HIDE DEF R
  <2> QED BY <1>1, WFMin
<1>3. ASSUME NEW n \in T
      PROVE  m <= n
  <2>1. m \in Nat /\ n \in Nat
    OBVIOUS
  <2>2. ~(n < m)
    BY <1>2, <2>1
  <2> QED BY <2>1, <2>2
<1> QED BY <1>3

\* Containment is a partial order on paths with the root at its bottom.
LEMMA ContainsOrder ==
    ASSUME NEW a \in Path, NEW b \in Path, NEW p \in Path
    PROVE  /\ Contains(a, a) /\ Contains(Root, a)
           /\ Contains(a, b) /\ Contains(b, p) => Contains(a, p)
           /\ Contains(a, b) /\ Contains(b, a) => a = b
<1>0. a \in Seq(Name) /\ b \in Seq(Name) /\ p \in Seq(Name)
  BY PathAssumption
<1>1. Contains(a, a) /\ Contains(Root, a)
  BY <1>0 DEF Contains, Root
<1>2. ASSUME Contains(a, b), Contains(b, p)
      PROVE  Contains(a, p)
  BY <1>0, <1>2 DEF Contains
<1>3. ASSUME Contains(a, b), Contains(b, a)
      PROVE  a = b
  <2>1. Len(a) = Len(b) /\ \A i \in 1..Len(a) : a[i] = b[i]
    BY <1>0, <1>3 DEF Contains
  <2> QED BY <1>0, <2>1, SeqEqual
<1> QED BY <1>1, <1>2, <1>3

\* Two paths that contain a third one are comparable.
LEMMA ContainsBoth ==
    ASSUME NEW a \in Path, NEW b \in Path, NEW p \in Path, Contains(a, p), Contains(b, p)
    PROVE  Contains(a, b) \/ Contains(b, a)
BY PathAssumption DEF Contains

\* The parent of a path lies strictly above it, with nothing in between.
LEMMA ParentAbove ==
    ASSUME NEW q \in Path \ {Root}
    PROVE  /\ Parent(q) \in Path /\ Contains(Parent(q), q) /\ ~Contains(q, Parent(q))
           /\ \A a \in Path : Contains(a, q) /\ a # q => Contains(a, Parent(q))
<1>0. q \in Seq(Name) /\ Parent(q) \in Path /\ Parent(q) \in Seq(Name)
  BY PathAssumption DEF Parent, Root
<1>1. Len(q) > 0
  BY <1>0, EmptySeq DEF Root
<1>2. Len(Parent(q)) = Len(q) - 1 /\ \A i \in 1..(Len(q) - 1) : Parent(q)[i] = q[i]
  <2>1. \A i \in 1..(Len(q) - 1) : q[i] \in Name
    BY <1>0
  <2>2. Len(q) \in Int /\ 1 <= Len(q)
    BY <1>0, <1>1
  <2> DEFINE n == Len(q) - 1
  <2>3. n \in Int /\ 0 <= n
    BY <2>2
  <2> HIDE DEF n
  <2>4. /\ Len(SubSeq(q, 1, n)) = IF 1 <= n THEN n - 1 + 1 ELSE 0
        /\ \A i \in 1..(n - 1 + 1) : SubSeq(q, 1, n)[i] = q[1 + i - 1]
    BY <2>1, <2>3, SubSeqProperties DEF n
  <2>5. Len(SubSeq(q, 1, n)) = n /\ \A i \in 1..n : SubSeq(q, 1, n)[i] = q[i]
    BY <2>3, <2>4
  <2> QED BY <2>5 DEF Parent, n
<1>3. Contains(Parent(q), q) /\ ~Contains(q, Parent(q))
  BY <1>0, <1>1, <1>2 DEF Contains
<1>4. ASSUME NEW a \in Path, Contains(a, q), a # q
      PROVE  Contains(a, Parent(q))
  <2>0. a \in Seq(Name)
    BY PathAssumption
  <2>1. Len(a) # Len(q)
    BY <1>0, <1>4, <2>0, SeqEqual DEF Contains
  <2> QED BY <1>0, <1>2, <1>4, <2>0, <2>1 DEF Contains
<1> QED BY <1>0, <1>3, <1>4

\* Only one child of a directory contains a given path.
LEMMA OneChild ==
    ASSUME NEW c \in Path \ {Root}, NEW d \in Path \ {Root}, Parent(c) = Parent(d),
           NEW p \in Path, Contains(c, p), Contains(d, p)
    PROVE  c = d
<1>1. ASSUME NEW a \in Path \ {Root}, NEW b \in Path \ {Root}, Parent(a) = Parent(b),
             Contains(a, b)
      PROVE  a = b
  BY <1>1, ParentAbove
<1> QED BY <1>1, ContainsBoth

----------------------------------------------------------------------------
(* The algebra of incomplete ranges.                                       *)

\* What a scope encloses it also lists.
LEMMA EnclosedIsListed ==
    ASSUME NEW t \in Scope, NEW s \in Scope, Encloses(t, s)
    PROVE  Listings(s) \subseteq Listings(t)
<1> SUFFICES ASSUME NEW p \in Listings(s)
             PROVE  p \in Listings(t)
  OBVIOUS
<1>1. p \in Path /\ s.path \in Path /\ t.path \in Path
  BY DEF Listings, Scope
<1>2. Contains(s.path, p)
  BY <1>1, ContainsOrder DEF Listings
<1> QED BY <1>1, <1>2, ContainsOrder DEF Encloses, Listings

\* Enclosing is reflexive and transitive.
LEMMA EnclosesOrder ==
    ASSUME NEW s \in Scope, NEW t \in Scope, NEW u \in Scope
    PROVE  /\ Encloses(s, s)
           /\ Encloses(u, t) /\ Encloses(t, s) => Encloses(u, s)
<1>1. s.path \in Path /\ t.path \in Path /\ u.path \in Path
  BY DEF Scope
<1> QED BY <1>1, ContainsOrder DEF Encloses

\* Merging keeps for every scope one that encloses it.
LEMMA MergeEncloses ==
    ASSUME NEW S \in SUBSET Scope, NEW s \in S
    PROVE  \E t \in Merge(S) : Encloses(t, s)
<1> DEFINE T == {t \in S : Encloses(t, s)}
           weight(t) == IF t.rec THEN 2 * Len(t.path) ELSE 2 * Len(t.path) + 1
           W == {weight(t) : t \in T}
<1>1. \A t \in Scope : t.path \in Path /\ t.rec \in BOOLEAN /\ Len(t.path) \in Nat
  BY PathAssumption DEF Scope
<1>2. ASSUME NEW t \in Scope
      PROVE  /\ weight(t) \in Nat
             /\ t.rec => weight(t) = 2 * Len(t.path)
             /\ ~t.rec => weight(t) = 2 * Len(t.path) + 1
  <2>1. Len(t.path) \in Nat
    BY <1>1, <1>2
  <2> QED BY <2>1
<1>3. s \in T
  BY EnclosesOrder
<1>4. W \in SUBSET Nat /\ W # {}
  BY <1>2, <1>3
<1>5. PICK t \in T : \A u \in T : weight(t) <= weight(u)
  <2> HIDE DEF weight, T
  <2>1. PICK m \in W : \A n \in W : m <= n
    BY <1>4, LeastNumber
  <2> QED BY <2>1
<1>6. ASSUME NEW u \in S \ {t}, Encloses(u, t)
      PROVE  FALSE
  <2>1. u \in T
    BY <1>5, <1>6, EnclosesOrder
  <2>2. u.rec /\ Contains(u.path, t.path)
    BY <1>6 DEF Encloses
  <2>3. Len(u.path) <= Len(t.path)
    BY <2>2 DEF Contains
  <2>4. weight(t) <= weight(u)
    BY <1>5, <2>1
  <2>5. Len(u.path) = Len(t.path) /\ t.rec
    <3>1. u \in Scope /\ t \in Scope
      OBVIOUS
    <3>2. weight(u) = 2 * Len(u.path) /\ Len(u.path) \in Nat /\ Len(t.path) \in Nat
      BY <1>1, <1>2, <2>2, <3>1
    <3>3. weight(t) = 2 * Len(t.path) \/ weight(t) = 2 * Len(t.path) + 1
      BY <1>2, <3>1
    <3> HIDE DEF weight
    <3>4. weight(t) = 2 * Len(t.path)
      BY <2>3, <2>4, <3>2, <3>3
    <3> QED BY <1>2, <2>3, <2>4, <3>1, <3>2, <3>4
  <2>6. Contains(t.path, u.path)
    BY <1>1, <2>2, <2>5 DEF Contains
  <2>7. t.path = u.path
    BY <1>1, <2>2, <2>6, ContainsOrder
  <2> QED BY <1>1, <1>6, <2>2, <2>5, <2>7 DEF Scope
<1>7. t \in Merge(S)
  BY <1>5, <1>6 DEF Merge
<1> QED BY <1>5, <1>7

\* Recording ranges loses none: what was recorded stays enclosed.
LEMMA RecordEncloses ==
    ASSUME NEW g \in SUBSET Scope, NEW S \in SUBSET Scope
    PROVE  /\ \A s \in g \cup S : \E t \in Record(g, S) : Encloses(t, s)
           /\ Pending(g) \cup Pending(S) \subseteq Pending(Record(g, S))
           /\ Record(g, S) \in SUBSET Scope
<1>1. \A s \in g \cup S : \E t \in Record(g, S) : Encloses(t, s)
  BY MergeEncloses DEF Record
<1>2. Record(g, S) \in SUBSET Scope
  BY DEF Record, Merge
<1>3. ASSUME NEW s \in g \cup S, NEW p \in Listings(s)
      PROVE  p \in Pending(Record(g, S))
  <2>1. PICK t \in Record(g, S) : Encloses(t, s)
    BY <1>1
  <2> QED BY <1>2, <1>3, <2>1, EnclosedIsListed DEF Pending
<1> QED BY <1>1, <1>2, <1>3 DEF Pending

\* Clearing a scope loses only what it lists.
LEMMA ClearKeeps ==
    ASSUME NEW g \in SUBSET Scope, NEW c \in Scope
    PROVE  /\ Clear(g, {c}) \in SUBSET Scope
           /\ Pending(g) \ Listings(c) \subseteq Pending(Clear(g, {c}))
<1>1. Clear(g, {c}) \in SUBSET Scope
  BY DEF Clear
<1>2. ASSUME NEW s \in g, NEW p \in Listings(s), p \notin Listings(c)
      PROVE  s \in Clear(g, {c})
  BY <1>2, EnclosedIsListed DEF Clear
<1> QED BY <1>1, <1>2 DEF Pending

----------------------------------------------------------------------------
(* The inductive invariants.                                               *)

\* The disk and the index are trees.
TreeInv == IsTree(disk) /\ Root \in disk /\ IsTree(node \cup {Root})

\* Outside a walk no directory is in hand; between rounds nothing was visited.
InHand == todo \cup open \cup bad
RestInv == /\ pc = "idle" => visited = {}
           /\ pc # "walk" => InHand = {}

\* The directories in hand form one tree below the scope, and are indexed: below
\* a directory still to list there is none, below a listed one all lie under
\* children it showed.
HandInv ==
    /\ InHand \subseteq node \cup {Root}
    /\ \A d \in todo : /\ Contains(scope.path, d) /\ d \notin open \cup bad
                       /\ \A e \in InHand : Contains(d, e) => e = d
    /\ \A d \in open : /\ seen[d] \subseteq Children(d, node)
                       /\ \A e \in InHand : Contains(d, e) /\ e # d =>
                             \E c \in seen[d] : Contains(c, e)

\* What a walk still owes lies under a directory to list or not listable, or will
\* be settled by the pruning of a listed one.
WalkDebt ==
    pc = "walk" => \A p \in owed \cap Listings(scope) :
        \/ \E d \in todo \cup bad : Contains(d, p)
        \/ \E d \in open : p \in Settled(d)

\* What is owed below an entry that its visited parent does not have is in a
\* recorded range that also covers the parent: so it can be taken for absent.
AbsentInv ==
    \A q \in Path \ {Root} : q \notin node /\ Parent(q) \in visited \ InHand =>
        \A p \in owed : Contains(q, p) =>
            \E s \in gap : s.rec /\ Contains(s.path, Parent(q))
OwedInv == OwedIsRecorded /\ WalkDebt /\ AbsentInv

\* A steady entry is on the disk, and under a child that each listing showed.
SteadyInv ==
    /\ SteadyEntriesStay /\ steady \subseteq disk
    /\ \A d \in open, c \in Path \ {Root}, q \in steady :
          Parent(c) = d /\ Contains(c, q) => c \in seen[d]

----------------------------------------------------------------------------
(* Types.                                                                  *)

\* A scope grows to a scope.
LEMMA ExpandIsScope ==
    ASSUME TypeOK, NEW s \in Scope
    PROVE  Expand(s) \in Scope
<1> DEFINE A == {a \in Anchor \cap node : Contains(a, s.path)}
<1>0. s.path \in Path /\ A \subseteq Path
  BY ScanAssumption DEF Scope
<1>1. CASE A = {}
  BY <1>1 DEF Expand
<1>2. CASE A # {}
  <2> DEFINE L == {Len(a) : a \in A}
  <2>1. L \in SUBSET Nat /\ L # {}
    <3>1. \A a \in A : Len(a) \in Nat
      BY <1>0, PathAssumption
    <3> HIDE DEF A
    <3> QED BY <1>2, <3>1
  <2>2. PICK n \in L : \A m \in L : n <= m
    BY <2>1, LeastNumber
  <2>3. PICK a \in A : Len(a) = n
    OBVIOUS
  <2>4. ASSUME NEW b \in A
        PROVE  Contains(a, b)
    <3>1. Len(a) <= Len(b)
      BY <2>2, <2>3, <2>4
    <3>2. a \in Seq(Name) /\ b \in Seq(Name) /\ s.path \in Seq(Name)
      BY <1>0, PathAssumption
    <3>3. Contains(a, s.path) /\ Contains(b, s.path)
      OBVIOUS
    <3> QED BY <3>1, <3>2, <3>3 DEF Contains
  <2> DEFINE c == CHOOSE x \in A : \A y \in A : Contains(x, y)
  <2>5. c \in A
    <3> HIDE DEF A
    <3> QED BY <2>4
  <2>6. Expand(s) = [path |-> c, rec |-> TRUE]
    BY <1>2 DEF Expand
  <2> HIDE DEF c
  <2> QED BY <1>0, <2>5, <2>6 DEF Scope
<1> QED BY <1>1, <1>2

\* The normalised request is a finite set of scopes.
LEMMA RequestIsFinite ==
    ASSUME TypeOK, NEW R \in Requests
    PROVE  LET N == Merge({Expand(s) : s \in R})
           IN  N \in SUBSET Scope /\ IsFiniteSet(N)
<1> DEFINE E == {Expand(s) : s \in R}
           f == [s \in R |-> Expand(s)]
<1>1. R \subseteq Scope /\ IsFiniteSet(R)
  BY ScanAssumption
<1>2. E \subseteq Scope
  BY <1>1, ExpandIsScope
<1>3. f \in Surjection(R, E)
  BY DEF Surjection
<1>4. IsFiniteSet(E)
  BY <1>1, <1>3, FS_Surjection DEF ExistsSurjection
<1>5. Merge(E) \in SUBSET E
  BY DEF Merge
<1> HIDE DEF E
<1>6. Merge(E) \in SUBSET Scope /\ IsFiniteSet(Merge(E))
  BY <1>2, <1>4, <1>5, FS_Subset
<1> QED BY <1>6 DEF E

\* A path that is gone has a nearest ancestor on the disk.
LEMMA NearestIsThere ==
    ASSUME TypeOK, TreeInv, NEW p \in Path
    PROVE  Nearest(p) \in disk /\ Contains(Nearest(p), p)
<1> DEFINE A == {a \in disk : Contains(a, p)}
           L == {Len(p) - Len(a) : a \in A}
<1>1. A \subseteq Path /\ A # {}
  BY ContainsOrder DEF TreeInv, TypeOK
<1>2. L \in SUBSET Nat /\ L # {}
  <2>1. \A a \in A : Len(a) \in Nat /\ Len(a) <= Len(p)
    BY <1>1, PathAssumption DEF Contains
  <2> QED BY <1>1, <2>1, PathAssumption
<1>3. PICK n \in L : \A m \in L : n <= m
  BY <1>2, LeastNumber
<1>4. PICK a \in A : Len(p) - Len(a) = n
  OBVIOUS
<1>5. ASSUME NEW b \in A
      PROVE  Contains(b, a)
  <2>1. Len(p) - Len(a) <= Len(p) - Len(b)
    BY <1>3, <1>4, <1>5
  <2>2. a \in Seq(Name) /\ b \in Seq(Name) /\ p \in Seq(Name)
    BY <1>1, PathAssumption
  <2>3. Contains(a, p) /\ Contains(b, p)
    OBVIOUS
  <2> QED BY <2>1, <2>2, <2>3 DEF Contains
<1>6. a \in disk /\ Contains(a, p) /\ \A b \in disk : Contains(b, p) => Contains(b, a)
  BY <1>5
<1> QED BY <1>6 DEF Nearest

\* A bounded event is counted within its bound.
LEMMA SpendType ==
    ASSUME TypeOK, NEW k \in {"round", "change", "fault"}, NEW bound,
           k = "round" => bound = MaxRound, k = "change" => bound = MaxChange,
           k = "fault" => bound = MaxFault, Spend(k, bound)
    PROVE  used' \in [round : 0..MaxRound, change : 0..MaxChange, fault : 0..MaxFault]
BY ScanAssumption DEF TypeOK, Spend

\* Ending a round leaves the walk and the loop at rest.
LEMMA EndRoundType ==
    ASSUME EndRound
    PROVE  /\ want' \subseteq Scope /\ pc' \in {"idle", "loop", "confirm", "walk"}
           /\ pending' \in Seq(Scope) /\ scope' \in Scope
           /\ visited' \subseteq Path /\ failed' \in BOOLEAN
           /\ todo' \subseteq Directories /\ open' \subseteq Directories
           /\ bad' \subseteq Path /\ seen' \in [open' -> SUBSET Path]
<1>1. NoScope \in Scope
  BY PathAssumption DEF NoScope, Scope, Root
<1>2. <<>> \in Seq(Scope) /\ [d \in {} |-> {}] \in [{} -> SUBSET Path]
  OBVIOUS
<1> QED BY <1>1, <1>2 DEF EndRound

\* The scopes still to do are scopes.
LEMMA PendingType ==
    ASSUME TypeOK
    PROVE  /\ {pending[i] : i \in 1..Len(pending)} \in SUBSET Scope
           /\ pending # <<>> => next \in Scope /\ Tail(pending) \in Seq(Scope)
BY DEF TypeOK, next

\* The failed ranges of a walk are recursive scopes, or its own scope.
LEMMA IncompleteIs ==
    ASSUME TypeOK, NEW B \in SUBSET Path
    PROVE  /\ Incomplete(B) \in SUBSET Scope
           /\ \A b \in B : [path |-> b, rec |-> TRUE] \in Incomplete(B)
           /\ B = {} => Incomplete(B) = {scope}
<1>1. scope \in Scope /\ \A b \in B : [path |-> b, rec |-> TRUE] \in Scope
  BY DEF TypeOK, Scope
<1>2. CASE B = {}
  BY <1>1, <1>2 DEF Incomplete
<1>3. CASE B # {}
  <2>1. Incomplete(B) = {[path |-> p, rec |-> TRUE] : p \in B}
    BY <1>3 DEF Incomplete, Recursive
  <2> QED BY <1>1, <1>3, <2>1
<1> QED BY <1>2, <1>3

\* Every step of the loop keeps the types.
LEMMA LoopTypes ==
    ASSUME TypeOK, TreeInv, Loop \/ \E R \in Requests : Open(R)
    PROVE  TypeOK'
<1> USE DEF vars, index, walk, round
<1>0. Root \in Path /\ Root \notin File
  BY PathAssumption, ScanAssumption DEF Root
<1>1. ASSUME NEW R \in Requests, Open(R)
      PROVE  TypeOK'
  <2> DEFINE N == Merge({Expand(s) : s \in R})
  <2>1. N \in SUBSET Scope /\ IsFiniteSet(N)
    BY RequestIsFinite
  <2>2. Cardinality(N) \in Nat
    BY <2>1, FS_CardinalityType
  <2>3. gap' = Record(gap, N) /\ want' = N /\ pending' \in Orders(N) /\ pc' = "loop"
        /\ owed' = owed \cup Pending(N)
    BY <1>1 DEF Open
  <2> HIDE DEF N
  <2>4. pending' \in Seq(Scope)
    BY <2>1, <2>2, <2>3 DEF Orders
  <2>5. gap' \subseteq Scope
    BY <2>1, <2>3, RecordEncloses DEF TypeOK
  <2>6. Pending(N) \subseteq Path
    BY DEF Pending, Listings
  <2>7. used' \in [round : 0..MaxRound, change : 0..MaxChange, fault : 0..MaxFault]
    BY <1>1, SpendType DEF Open
  <2> QED BY <1>1, <2>1, <2>3, <2>4, <2>5, <2>6, <2>7 DEF Open, TypeOK
<1>2. CASE Finish
  BY <1>2, EndRoundType DEF Finish, TypeOK
<1>3. CASE ListParent
  <2>1. next.path \in Path \ {Root} /\ next \in Scope
    BY <1>3, PendingType DEF ListParent, Looking, Indexed, Scope
  <2>2. [path |-> Parent(next.path), rec |-> FALSE] \in Scope
    BY <2>1, ParentAbove DEF Scope
  <2>3. pending' \in Seq(Scope)
    BY <1>3, <2>2 DEF ListParent, ListFirst, TypeOK
  <2> QED BY <1>3, <2>3 DEF ListParent, TypeOK
<1>4. CASE ConfirmAbsent
  BY <1>4, PendingType, ClearKeeps DEF ConfirmAbsent, Looking, Visit, Scope, TypeOK
<1>5. CASE DirectoryUnreadable
  BY <1>5, PendingType DEF DirectoryUnreadable, Looking, TypeOK
<1>6. CASE ObserveFile
  <2>1. next \in Scope /\ next.path \in Path /\ Tail(pending) \in Seq(Scope)
    BY <1>6, PendingType DEF ObserveFile, Looking, Scope
  <2>2. gap' \subseteq Scope /\ scope' \in Scope /\ owed' \subseteq Path
        /\ pc' \in {"idle", "loop", "confirm", "walk"}
    <3>1. Clear(gap, {next}) \in SUBSET Scope
      BY <2>1, ClearKeeps DEF TypeOK
    <3>2. gap' \in {gap, Clear(gap, {next})} /\ scope' \in {scope, next}
      BY <1>6 DEF ObserveFile
    <3>3. owed' \subseteq owed /\ pc' \in {pc, "confirm"}
      BY <1>6 DEF ObserveFile
    <3> QED BY <2>1, <3>1, <3>2, <3>3 DEF TypeOK
  <2> QED BY <1>6, <2>1, <2>2 DEF ObserveFile, Visit, TypeOK
<1>7. CASE ConfirmMissing
  <2>1. Nearest(scope.path) \in Path /\ scope \in Scope
    BY NearestIsThere DEF TypeOK, Scope
  <2>2. [path |-> Nearest(scope.path), rec |-> FALSE] \in Scope
    BY <2>1 DEF Scope
  <2>3. Requeued(scope) \in Seq(Scope)
    BY <2>1 DEF Requeued, TypeOK
  <2>4. pending' \in Seq(Scope)
    BY <1>7, <2>2, <2>3 DEF ConfirmMissing, ListFirst
  <2> QED BY <1>7, <2>4 DEF ConfirmMissing, TypeOK
<1>8. CASE ConfirmFails
  <2>1. gap' \subseteq Scope
    <3>1. gap \in SUBSET Scope /\ {scope} \in SUBSET Scope
      BY DEF TypeOK
    <3> QED BY <1>8, <3>1, RecordEncloses DEF ConfirmFails
  <2> QED BY <1>8, <2>1 DEF ConfirmFails, TypeOK
<1>9. CASE StartWalk
  <2>1. next \in Scope /\ next.path \in Path /\ Tail(pending) \in Seq(Scope)
    BY <1>9, PendingType DEF StartWalk, Looking, Scope
  <2>2. next.path \in Directories
    BY <1>0, <1>9, <2>1 DEF StartWalk, Directories
  <2> QED BY <1>9, <2>1, <2>2 DEF StartWalk, Visit, TypeOK
<1> QED BY <1>1, <1>2, <1>3, <1>4, <1>5, <1>6, <1>7, <1>8, <1>9 DEF Loop

\* Every step of the walk, every fault and every change of the disk does.
LEMMA WalkTypes ==
    ASSUME TypeOK, Walk \/ Faults \/ \E p \in Path : DiskChanges(p)
    PROVE  TypeOK'
<1> USE DEF vars, index, walk, round
<1>0. /\ gap \in SUBSET Scope /\ {scope} \in SUBSET Scope /\ scope \in Scope
      /\ {pending[i] : i \in 1..Len(pending)} \in SUBSET Scope
      /\ Clear(gap, {scope}) \in SUBSET Scope
  BY PendingType, ClearKeeps DEF TypeOK
<1>1. ASSUME NEW d \in Directories, List(d)
      PROVE  TypeOK'
  <2>1. Children(d, disk) \subseteq Path \ {Root} /\ d \in Path
    BY DEF Children, TypeOK, Directories
  <2>2. todo' \subseteq Directories
    BY <1>1, <2>1 DEF List, TypeOK, Directories
  <2>3. open' \subseteq Directories /\ seen' \in [open' -> SUBSET Path]
    BY <1>1, <2>1 DEF List, TypeOK
  <2> QED BY <1>1, <2>1, <2>2, <2>3 DEF List, TypeOK
<1>2. ASSUME NEW d \in Directories, ListFails(d)
      PROVE  TypeOK'
  BY <1>2 DEF ListFails, TypeOK, Directories
<1>3. ASSUME NEW d \in Directories, Prune(d)
      PROVE  TypeOK'
  <2>1. open' \subseteq Directories /\ seen' \in [open' -> SUBSET Path]
    BY <1>3 DEF Prune, TypeOK
  <2> QED BY <1>3, <2>1 DEF Prune, TypeOK
<1>4. ASSUME NEW d \in Directories, ListBreaks(d)
      PROVE  TypeOK'
  <2>1. node' \subseteq Path \ {Root}
    BY <1>4 DEF ListBreaks, Children, TypeOK
  <2>2. bad' \subseteq Path /\ todo' \subseteq Directories
    BY <1>4 DEF ListBreaks, TypeOK, Directories
  <2>3. used' \in [round : 0..MaxRound, change : 0..MaxChange, fault : 0..MaxFault]
    BY <1>4, SpendType DEF ListBreaks
  <2> QED BY <1>4, <2>1, <2>2, <2>3 DEF ListBreaks, TypeOK
<1>5. CASE WalkEnds
  <2>1. Incomplete(bad) \in SUBSET Scope
    BY IncompleteIs DEF TypeOK
  <2>2. gap' \subseteq Scope
    BY <1>0, <1>5, <2>1, RecordEncloses DEF WalkEnds
  <2> QED BY <1>5, <2>2 DEF WalkEnds, TypeOK
<1>6. ASSUME AbortWalk, used' \in [round : 0..MaxRound, change : 0..MaxChange, fault : 0..MaxFault]
      PROVE  TypeOK'
  <2>1. Incomplete(Unfinished) \in SUBSET Scope
    BY IncompleteIs DEF Unfinished, TypeOK, Directories
  <2> DEFINE S == Incomplete(Unfinished) \cup {pending[i] : i \in 1..Len(pending)}
  <2>2. S \in SUBSET Scope /\ gap' = Record(Clear(gap, {scope}), S)
    BY <1>0, <1>6, <2>1 DEF AbortWalk
  <2>3. gap' \subseteq Scope
    <3> HIDE DEF S
    <3> QED BY <1>0, <2>2, RecordEncloses
  <2> QED BY <1>6, <2>3, EndRoundType DEF AbortWalk, TypeOK
<1>7. CASE EmptyRootAborts \/ WalkAborts
  BY <1>6, <1>7, SpendType DEF EmptyRootAborts, WalkAborts, TypeOK
<1>8. CASE Cancel
  <2>1. gap' \subseteq Scope
    BY <1>0, <1>8, RecordEncloses DEF Cancel
  <2> QED BY <1>8, <2>1, EndRoundType, SpendType DEF Cancel, TypeOK
<1>9. CASE ObserveAborts
  <2>1. next \in Scope
    BY <1>9, PendingType DEF ObserveAborts, Looking
  <2>2. gap' \subseteq Scope
    BY <1>0, <1>9, <2>1, ClearKeeps, RecordEncloses DEF ObserveAborts
  <2> QED BY <1>9, <2>2, EndRoundType, SpendType DEF ObserveAborts, TypeOK
<1>10. CASE Crash
  BY <1>10, EndRoundType, SpendType DEF Crash, TypeOK
<1>11. ASSUME NEW p \in Path, DiskChanges(p)
       PROVE  TypeOK'
  <2>1. disk' \subseteq Path /\ broken' \subseteq Path
    BY <1>11 DEF DiskChanges, TypeOK
  <2> QED BY <1>11, <2>1, SpendType DEF DiskChanges, TypeOK
<1> QED BY <1>1, <1>2, <1>3, <1>4, <1>5, <1>7, <1>8, <1>9, <1>10, <1>11 DEF Walk, Faults

----------------------------------------------------------------------------
(* The trees, and the directories in hand.                                 *)

\* A tree grows by children of one of its directories.
LEMMA TreeGrows ==
    ASSUME NEW T, IsTree(T), NEW d \in T,
           NEW C, \A c \in C : c \in Path \ {Root} /\ Parent(c) = d
    PROVE  IsTree(T \cup C)
<1>1. T \cup C \subseteq Path
  BY DEF IsTree
<1>2. ASSUME NEW c \in C, NEW a \in Path, Contains(a, c)
      PROVE  a \in T \cup C
  <2>1. a = c \/ Contains(a, d)
    BY <1>2, ParentAbove
  <2> QED BY <2>1 DEF IsTree
<1> QED BY <1>1, <1>2 DEF IsTree

\* It shrinks by all that lies at or below some paths.
LEMMA TreeShrinks ==
    ASSUME NEW T, IsTree(T), NEW X \in SUBSET (Path \ {Root})
    PROVE  IsTree(T \ Under(X)) /\ Root \notin Under(X)
<1>1. ASSUME NEW p \in T \ Under(X), NEW a \in Path, Contains(a, p)
      PROVE  a \in T \ Under(X)
  <2>1. p \in Path /\ a \in T
    BY <1>1 DEF IsTree
  <2>2. ASSUME NEW x \in X, Contains(x, a)
        PROVE  FALSE
    <3>1. Contains(x, p)
      BY <1>1, <2>1, <2>2, ContainsOrder
    <3> QED BY <1>1, <2>1, <3>1 DEF Under
  <2> QED BY <2>1, <2>2 DEF Under
<1>2. Root \notin Under(X)
  <2>1. Root \in Path
    BY PathAssumption DEF Root
  <2> QED BY <2>1, ContainsOrder DEF Under
<1> QED BY <1>1, <1>2 DEF IsTree

\* What a complete listing of d did not show.
Missing(d) == Children(d, node) \ seen[d]

\* No directory in hand, and no child that another one showed, is missing.
LEMMA MissingSparesHand ==
    ASSUME TypeOK, HandInv, NEW d \in open
    PROVE  /\ Missing(d) \in SUBSET (Path \ {Root})
           /\ \A c \in Missing(d) : Parent(c) = d
           /\ InHand \cap Under(Missing(d)) = {}
           /\ \A o \in open \ {d} : seen[o] \cap Under(Missing(d)) = {}
<1>0. /\ open \subseteq Path /\ InHand \subseteq Path /\ d \in Path
      /\ \A o \in open : \A c \in seen[o] : c \in Path \ {Root} /\ Parent(c) = o
  BY DEF TypeOK, HandInv, InHand, Directories, Children
<1>1. \A c \in Missing(d) : c \in Path \ {Root} /\ Parent(c) = d /\ c \notin seen[d]
  BY DEF Missing, Children, TypeOK
<1>2. ASSUME NEW e \in InHand, NEW c \in Missing(d), Contains(c, e)
      PROVE  FALSE
  <2>1. c \in Path \ {Root} /\ Parent(c) = d /\ e \in Path
    BY <1>0, <1>1
  <2>2. Contains(d, c) /\ ~Contains(c, d)
    BY <2>1, ParentAbove
  <2>3. Contains(d, e) /\ e # d
    BY <1>0, <1>2, <2>1, <2>2, ContainsOrder
  <2>4. PICK b \in seen[d] : Contains(b, e)
    BY <2>3 DEF HandInv
  <2>5. b = c
    BY <1>0, <1>2, <2>1, <2>4, OneChild
  <2> QED BY <1>1, <2>4, <2>5
<1>3. ASSUME NEW o \in open \ {d}, NEW b \in seen[o], NEW c \in Missing(d), Contains(c, b)
      PROVE  FALSE
  <2>1. b \in Path \ {Root} /\ Parent(b) = o /\ c \in Path /\ Parent(c) = d
    BY <1>0, <1>1
  <2>2. Contains(c, o)
    BY <1>3, <2>1, ParentAbove
  <2> QED BY <1>2, <2>2 DEF InHand
<1> QED BY <1>1, <1>2, <1>3 DEF Under

\* Steps that leave the directories in hand alone, or put them all down.
LEMMA HandKept ==
    ASSUME HandInv, UNCHANGED <<todo, open, bad, seen, node>>, scope' = scope \/ todo = {}
    PROVE  HandInv'
BY DEF HandInv, InHand, Children

LEMMA HandEmptied ==
    ASSUME InHand' = {}
    PROVE  HandInv'
BY DEF HandInv, InHand

\* The listing of a directory to do.
LEMMA HandList ==
    ASSUME TypeOK, TreeInv, HandInv, NEW d \in Directories, List(d)
    PROVE  HandInv'
<1> DEFINE C == Children(d, disk)
           new == IF scope.rec THEN C \ File ELSE {}
<1>1. /\ \A c \in C : c \in Path \ {Root} /\ Parent(c) = d
      /\ d \in Path /\ d \in todo /\ todo \subseteq Path /\ open \subseteq Path
      /\ InHand \subseteq Path /\ new \subseteq C /\ scope.path \in Path
  BY DEF List, Children, TypeOK, Directories, InHand, Scope
<1>2. /\ todo' = (todo \ {d}) \cup new /\ open' = open \cup {d} /\ bad' = bad
      /\ node' = node \cup C /\ scope' = scope
      /\ seen'[d] = C /\ \A e \in open \ {d} : seen'[e] = seen[e]
  BY DEF List, round
<1>3. InHand' = InHand \cup new
  BY <1>1, <1>2 DEF InHand
<1> HIDE DEF C, new
\* A child of d lies strictly below d, and nothing in hand does.
<1>4. ASSUME NEW c \in C
      PROVE  /\ Contains(d, c) /\ c # d
             /\ \A a \in Path : Contains(a, c) => a = c \/ Contains(a, d)
             /\ \A e \in InHand : Contains(c, e) => FALSE
  <2>1. c \in Path \ {Root} /\ Parent(c) = d
    BY <1>1
  <2>2. Contains(d, c) /\ ~Contains(c, d) /\ \A a \in Path : Contains(a, c) => a = c \/ Contains(a, d)
    BY <2>1, ParentAbove
  <2>3. c # d
    BY <1>1, <2>2, ContainsOrder
  <2>4. ASSUME NEW e \in InHand, Contains(c, e)
        PROVE  FALSE
    <3>1. Contains(d, e)
      BY <1>1, <2>1, <2>2, <2>4, ContainsOrder
    <3>2. e = d
      BY <1>1, <3>1 DEF HandInv
    <3> QED BY <2>2, <2>4, <3>2
  <2> QED BY <2>2, <2>3, <2>4
<1>5. InHand' \subseteq node' \cup {Root}
  BY <1>1, <1>2, <1>3 DEF HandInv
<1>6. ASSUME NEW t \in todo'
      PROVE  /\ Contains(scope'.path, t) /\ t \notin open' \cup bad'
             /\ \A e \in InHand' : Contains(t, e) => e = t
  <2>1. CASE t \in todo \ {d}
    <3>1. Contains(scope.path, t) /\ t \notin open \cup bad /\ \A e \in InHand : Contains(t, e) => e = t
      BY <2>1 DEF HandInv
    <3>2. ASSUME NEW c \in C, Contains(t, c)
          PROVE  FALSE
      <4>1. t = c \/ Contains(t, d)
        BY <1>1, <1>4, <2>1, <3>2
      <4>2. d \in InHand /\ t \in InHand /\ t \in Path
        BY <1>1, <2>1 DEF InHand
      <4>3. t # c
        BY <1>1, <1>4, <4>2, ContainsOrder
      <4> QED BY <2>1, <3>1, <4>1, <4>2, <4>3
    <3> QED BY <1>1, <1>2, <1>3, <2>1, <3>1, <3>2
  <2>2. CASE t \in new
    <3>1. t \in C /\ t \in Path /\ t # d
      BY <1>1, <1>4, <2>2
    <3>2. Contains(scope.path, d)
      BY <1>1 DEF HandInv
    <3>3. Contains(scope.path, t)
      BY <1>1, <1>4, <3>1, <3>2, ContainsOrder
    <3>4. t \notin open \cup bad
      BY <1>4, <3>1, ContainsOrder DEF InHand
    <3>5. ASSUME NEW c \in C, Contains(t, c)
          PROVE  c = t
      <4>1. t = c \/ Contains(t, d)
        BY <1>4, <3>1, <3>5
      <4>2. d \in InHand
        BY <1>1 DEF InHand
      <4> QED BY <1>4, <3>1, <4>1, <4>2
    <3> QED BY <1>1, <1>2, <1>3, <1>4, <3>1, <3>3, <3>4, <3>5
  <2> QED BY <1>2, <2>1, <2>2
<1>7. ASSUME NEW o \in open'
      PROVE  /\ seen'[o] \subseteq Children(o, node')
             /\ \A e \in InHand' : Contains(o, e) /\ e # o => \E c \in seen'[o] : Contains(c, e)
  <2>1. CASE o = d
    <3>1. seen'[o] \subseteq Children(o, node')
      BY <1>1, <1>2, <2>1 DEF Children
    <3>2. ASSUME NEW e \in InHand', Contains(o, e), e # o
          PROVE  \E c \in seen'[o] : Contains(c, e)
      <4>1. e \notin InHand
        BY <1>1, <2>1, <3>2 DEF HandInv
      <4>2. e \in C /\ e \in Path
        BY <1>1, <1>3, <4>1
      <4> QED BY <1>2, <2>1, <4>2, ContainsOrder
    <3> QED BY <3>1, <3>2
  <2>2. CASE o \in open \ {d}
    <3>1. seen'[o] = seen[o] /\ seen[o] \subseteq Children(o, node)
      BY <1>2, <2>2 DEF HandInv
    <3>2. seen'[o] \subseteq Children(o, node')
      BY <1>2, <3>1 DEF Children
    <3>3. ASSUME NEW e \in InHand', Contains(o, e), e # o
          PROVE  \E c \in seen'[o] : Contains(c, e)
      <4>1. CASE e \in InHand
        BY <2>2, <3>1, <3>3, <4>1 DEF HandInv
      <4>2. CASE e \in C
        <5>1. Contains(o, d) /\ d \in InHand /\ d # o
          BY <1>1, <1>4, <2>2, <3>3, <4>2 DEF InHand
        <5>2. PICK c \in seen[o] : Contains(c, d)
          BY <2>2, <5>1 DEF HandInv
        <5>3. c \in Path /\ Contains(d, e) /\ e \in Path
          BY <1>1, <1>4, <3>1, <4>2 DEF Children, TypeOK
        <5> QED BY <1>1, <3>1, <5>2, <5>3, ContainsOrder
      <4> QED BY <1>1, <1>3, <4>1, <4>2
    <3> QED BY <3>2, <3>3
  <2> QED BY <1>2, <2>1, <2>2
<1> QED BY <1>5, <1>6, <1>7 DEF HandInv

\* A directory that could not be listed, or a listing that broke off, stays in
\* hand as one that is not read.
LEMMA HandFails ==
    ASSUME TypeOK, HandInv, NEW d \in Directories, ListFails(d) \/ ListBreaks(d)
    PROVE  HandInv' /\ InHand' = InHand
<1>1. PICK R \in {{}, todo} : /\ todo' = todo \ (R \cup {d}) /\ bad' = bad \cup {d} \cup R
                              /\ d \in todo
  <2>1. CASE ListFails(d)
    <3>1. todo' = todo \ ({} \cup {d}) /\ bad' = bad \cup {d} \cup {} /\ d \in todo
      BY <2>1 DEF ListFails
    <3> QED BY <3>1
  <2>2. CASE ListBreaks(d)
    BY <2>2 DEF ListBreaks
  <2> QED BY <2>1, <2>2
<1>2. open' = open /\ seen' = seen /\ scope' = scope /\ node \subseteq node'
  BY DEF ListFails, ListBreaks, index, round
<1>3. InHand' = InHand
  BY <1>1, <1>2 DEF InHand
<1>4. InHand \subseteq node' \cup {Root}
  BY <1>2 DEF HandInv
<1>5. ASSUME NEW t \in todo'
      PROVE  /\ Contains(scope'.path, t) /\ t \notin open' \cup bad'
             /\ \A e \in InHand' : Contains(t, e) => e = t
  <2>1. t \in todo /\ t \notin R /\ t # d
    BY <1>1
  <2> QED BY <1>1, <1>2, <1>3, <2>1 DEF HandInv
<1>6. ASSUME NEW o \in open
      PROVE  seen[o] \subseteq Children(o, node')
  BY <1>2 DEF HandInv, Children
<1> QED BY <1>2, <1>3, <1>4, <1>5, <1>6 DEF HandInv

\* The pruning of a listed directory puts it down.
LEMMA HandPrune ==
    ASSUME TypeOK, HandInv, NEW d \in Directories, Prune(d)
    PROVE  HandInv'
<1>1. /\ d \in open /\ node' = node \ Under(Missing(d)) /\ open' = open \ {d}
      /\ todo' = todo /\ bad' = bad /\ scope' = scope
      /\ \A o \in open' : seen'[o] = seen[o]
  BY DEF Prune, Missing, round
<1>2. InHand' \subseteq InHand
  BY <1>1 DEF InHand
<1>3. /\ InHand \cap Under(Missing(d)) = {}
      /\ \A o \in open \ {d} : seen[o] \cap Under(Missing(d)) = {}
  BY <1>1, MissingSparesHand
<1>4. InHand' \subseteq node' \cup {Root}
  BY <1>1, <1>2, <1>3 DEF HandInv
<1>5. \A t \in todo' : /\ Contains(scope'.path, t) /\ t \notin open' \cup bad'
                       /\ \A e \in InHand' : Contains(t, e) => e = t
  BY <1>1, <1>2 DEF HandInv
<1>6. ASSUME NEW o \in open'
      PROVE  /\ seen'[o] \subseteq Children(o, node')
             /\ \A e \in InHand' : Contains(o, e) /\ e # o => \E c \in seen'[o] : Contains(c, e)
  <2>1. seen'[o] = seen[o] /\ o \in open \ {d} /\ seen[o] \subseteq Children(o, node)
    BY <1>1 DEF HandInv
  <2>2. seen[o] \subseteq Children(o, node')
    BY <1>1, <1>3, <2>1 DEF Children
  <2>3. \A e \in InHand' : Contains(o, e) /\ e # o => \E c \in seen[o] : Contains(c, e)
    BY <1>2, <2>1 DEF HandInv
  <2> QED BY <2>1, <2>2, <2>3
<1> QED BY <1>4, <1>5, <1>6 DEF HandInv

\* The walk begins with the directory of its scope in hand.
LEMMA HandStart ==
    ASSUME TypeOK, HandInv, RestInv, StartWalk
    PROVE  HandInv'
<1>1. InHand = {}
  BY DEF StartWalk, Looking, RestInv
<1>2. /\ scope'.path = next.path /\ todo' = {next.path} /\ open' = {} /\ bad' = {}
      /\ node' = node /\ next.path \in node \cup {Root}
  BY <1>1 DEF StartWalk, InHand, index
<1>3. next.path \in Path
  BY <1>2, PathAssumption DEF TypeOK, Root
<1>4. Contains(next.path, next.path)
  BY <1>3, ContainsOrder
<1> QED BY <1>2, <1>4 DEF HandInv, InHand

\* Every step keeps the directories in hand one tree.
LEMMA HandStep ==
    ASSUME TypeOK, TreeInv, HandInv, RestInv, [Next]_vars
    PROVE  HandInv' /\ RestInv'
<1> USE DEF index, walk, round
<1>1. ASSUME UNCHANGED <<node, todo, open, bad, seen>>, scope' = scope \/ pc # "walk"
      PROVE  HandInv'
  BY <1>1, HandKept DEF RestInv, InHand
<1>2. ASSUME EndRound
      PROVE  HandInv' /\ RestInv'
  <2>1. InHand' = {} /\ pc' = "idle" /\ visited' = {}
    BY <1>2 DEF EndRound, InHand
  <2> QED BY <2>1, HandEmptied DEF RestInv
<1>3. CASE \E R \in Requests : Open(R)
  BY <1>1, <1>3 DEF Open, RestInv, InHand
<1>4. CASE Loop
  <2>1. CASE Finish
    BY <1>2, <2>1 DEF Finish
  <2>2. CASE ListParent \/ ConfirmAbsent \/ DirectoryUnreadable
    BY <1>1, <2>2 DEF ListParent, ConfirmAbsent, DirectoryUnreadable, Looking, RestInv, InHand
  <2>3. CASE ObserveFile
    BY <1>1, <2>3 DEF ObserveFile, Looking, RestInv, InHand
  <2>4. CASE ConfirmMissing \/ ConfirmFails
    BY <1>1, <2>4 DEF ConfirmMissing, ConfirmFails, RestInv, InHand
  <2>5. CASE StartWalk
    BY <2>5, HandStart DEF StartWalk, RestInv
  <2> QED BY <1>4, <2>1, <2>2, <2>3, <2>4, <2>5 DEF Loop
<1>5. CASE Walk
  <2>1. ASSUME NEW d \in Directories, List(d)
        PROVE  HandInv' /\ RestInv'
    BY <2>1, HandList DEF List, RestInv
  <2>2. ASSUME NEW d \in Directories, ListFails(d)
        PROVE  HandInv' /\ RestInv'
    BY <2>2, HandFails DEF ListFails, RestInv
  <2>3. ASSUME NEW d \in Directories, Prune(d)
        PROVE  HandInv' /\ RestInv'
    BY <2>3, HandPrune DEF Prune, RestInv
  <2>4. CASE WalkEnds
    <3>1. InHand' = {} /\ pc' = "loop"
      BY <2>4 DEF WalkEnds, InHand
    <3> QED BY <3>1, HandEmptied DEF RestInv
  <2>5. CASE EmptyRootAborts
    BY <1>2, <2>5 DEF EmptyRootAborts, AbortWalk
  <2> QED BY <1>5, <2>1, <2>2, <2>3, <2>4, <2>5 DEF Walk
<1>6. CASE Faults
  <2>1. ASSUME NEW d \in Directories, ListBreaks(d)
        PROVE  HandInv' /\ RestInv'
    BY <2>1, HandFails DEF ListBreaks, RestInv
  <2> QED BY <1>2, <1>6, <2>1 DEF Faults, Cancel, ObserveAborts, WalkAborts, AbortWalk, Crash
<1>7. CASE \E p \in Path : DiskChanges(p)
  <2>1. UNCHANGED <<node, todo, open, bad, seen, scope, pc, visited>>
    BY <1>7 DEF DiskChanges
  <2> QED BY <1>1, <2>1 DEF RestInv, InHand
<1>8. CASE UNCHANGED vars
  <2>1. UNCHANGED <<node, todo, open, bad, seen, scope, pc, visited>>
    BY <1>8 DEF vars
  <2> QED BY <1>1, <2>1 DEF RestInv, InHand
<1> QED BY <1>3, <1>4, <1>5, <1>6, <1>7, <1>8 DEF Next

\* Every step keeps disk and index trees.
LEMMA TreeStep ==
    ASSUME TypeOK, TreeInv, HandInv, [Next]_vars
    PROVE  TreeInv'
<1> USE DEF index, walk, round
<1>0. Root \in Path
  BY PathAssumption DEF Root
<1>1. ASSUME UNCHANGED <<disk, node>>
      PROVE  TreeInv'
  BY <1>1 DEF TreeInv
\* Children of a directory in hand are added.
<1>2. ASSUME NEW d \in InHand, NEW C \in SUBSET Children(d, disk), node' = node \cup C, disk' = disk
      PROVE  TreeInv'
  <2>1. d \in node \cup {Root} /\ \A c \in C : c \in Path \ {Root} /\ Parent(c) = d
    BY <1>2 DEF HandInv, Children, TypeOK
  <2>2. IsTree((node \cup {Root}) \cup C)
    BY <2>1, TreeGrows DEF TreeInv
  <2>3. node' \cup {Root} = (node \cup {Root}) \cup C
    BY <1>2
  <2> QED BY <1>2, <2>2, <2>3 DEF TreeInv
<1>3. ASSUME NEW d \in Directories, List(d) \/ ListFails(d) \/ ListBreaks(d)
      PROVE  TreeInv'
  BY <1>1, <1>2, <1>3 DEF List, ListFails, ListBreaks, InHand
<1>4. ASSUME NEW d \in Directories, Prune(d)
      PROVE  TreeInv'
  <2>1. disk' = disk /\ node' = node \ Under(Missing(d)) /\ d \in open
    BY <1>4 DEF Prune, Missing
  <2>2. Missing(d) \in SUBSET (Path \ {Root})
    BY <2>1, MissingSparesHand
  <2>3. IsTree((node \cup {Root}) \ Under(Missing(d))) /\ Root \notin Under(Missing(d))
    BY <2>2, TreeShrinks DEF TreeInv
  <2>4. node' \cup {Root} = (node \cup {Root}) \ Under(Missing(d))
    BY <2>1, <2>3
  <2> QED BY <2>1, <2>3, <2>4 DEF TreeInv
<1>5. ASSUME NEW p \in Path, DiskChanges(p)
      PROVE  TreeInv'
  <2>1. node' = node
    BY <1>5 DEF DiskChanges
  <2>2. CASE p # Root /\ Parent(p) \in disk /\ disk' = disk \cup {p}
    <3>1. \A c \in {p} : c \in Path \ {Root} /\ Parent(c) = Parent(p)
      BY <2>2
    <3>2. IsTree(disk \cup {p})
      BY <2>2, <3>1, TreeGrows DEF TreeInv
    <3> QED BY <2>1, <2>2, <3>2 DEF TreeInv
  <2>3. CASE p # Root /\ disk' = disk \ Under({p})
    <3>1. IsTree(disk \ Under({p})) /\ Root \notin Under({p})
      BY <2>3, TreeShrinks DEF TreeInv
    <3> QED BY <2>1, <2>3, <3>1 DEF TreeInv
  <2>4. CASE disk' = disk
    BY <1>1, <2>1, <2>4
  <2> QED BY <1>5, <2>2, <2>3, <2>4 DEF DiskChanges
<1>6. CASE Loop \/ \E R \in Requests : Open(R)
  <2>1. UNCHANGED <<disk, node>>
    BY <1>6 DEF Loop, Open, Finish, ListParent, ConfirmAbsent, DirectoryUnreadable, ObserveFile,
                ConfirmMissing, ConfirmFails, StartWalk
  <2> QED BY <1>1, <2>1
<1>7. CASE WalkEnds \/ EmptyRootAborts \/ Cancel \/ ObserveAborts \/ WalkAborts \/ Crash
  BY <1>1, <1>7 DEF WalkEnds, EmptyRootAborts, Cancel, ObserveAborts, WalkAborts, AbortWalk, Crash
<1>8. CASE UNCHANGED vars
  BY <1>1, <1>8 DEF vars
<1> QED BY <1>3, <1>4, <1>5, <1>6, <1>7, <1>8 DEF Next, Walk, Faults

----------------------------------------------------------------------------
(* What is owed is recorded.                                               *)

\* Only a recursive range encloses a recursive range.
LEMMA RangeEncloses ==
    ASSUME NEW t \in Scope, NEW s \in Scope, s.rec, Encloses(t, s)
    PROVE  t.rec /\ Contains(t.path, s.path)
<1>1. s.path \in Path
  BY DEF Scope
<1> QED BY <1>1, ContainsOrder DEF Encloses

\* A range that holds a path lists it, and all below it.
LEMMA RangeLists ==
    ASSUME NEW g \in SUBSET Scope, NEW s \in g, s.rec, NEW a \in Path, NEW p \in Path,
           Contains(s.path, a), Contains(a, p)
    PROVE  Contains(s.path, p) /\ p \in Pending(g)
<1>1. s.path \in Path
  BY DEF Scope
<1>2. Contains(s.path, p)
  BY <1>1, ContainsOrder
<1> QED BY <1>2 DEF Pending, Listings

\* AbsentInv survives while the index and the recorded ranges grow, and no more
\* directories have been visited and put down.
LEMMA AbsentKept ==
    ASSUME TypeOK, gap' \in SUBSET Scope, AbsentInv, owed' \subseteq owed, node \subseteq node',
           visited' \ InHand' \subseteq visited \ InHand,
           \A s \in gap : \E t \in gap' : Encloses(t, s)
    PROVE  AbsentInv'
<1> SUFFICES ASSUME NEW q \in Path \ {Root}, q \notin node', Parent(q) \in visited' \ InHand',
                    NEW p \in owed', Contains(q, p)
             PROVE  \E t \in gap' : t.rec /\ Contains(t.path, Parent(q))
  BY DEF AbsentInv
<1>1. PICK s \in gap : s.rec /\ Contains(s.path, Parent(q))
  BY DEF AbsentInv
<1>2. PICK t \in gap' : Encloses(t, s)
  OBVIOUS
<1>3. t \in Scope /\ s \in Scope /\ t.path \in Path /\ s.path \in Path /\ Parent(q) \in Path
  BY ParentAbove DEF TypeOK, Scope
<1> QED BY <1>1, <1>2, <1>3, RangeEncloses, ContainsOrder

\* Steps that keep the table and all that is owed, and add nothing to visit.
LEMMA OwedKept ==
    ASSUME TypeOK, OwedInv, gap' = gap, owed' = owed, node \subseteq node',
           visited' \ InHand' \subseteq visited \ InHand, pc' # "walk"
    PROVE  OwedInv'
<1>1. gap' \in SUBSET Scope /\ \A s \in gap : \E t \in gap' : Encloses(t, s)
  BY EnclosesOrder DEF TypeOK
<1> QED BY <1>1, AbsentKept DEF OwedInv, OwedIsRecorded, WalkDebt

\* The end of a round forgets what was visited: only the table counts.
LEMMA OwedAtRest ==
    ASSUME owed' \subseteq Pending(gap'), EndRound
    PROVE  OwedInv'
BY DEF EndRound, OwedInv, OwedIsRecorded, WalkDebt, AbsentInv

\* An indexed path that a recorded range settles loses nothing else.
LEMMA OwedObserve ==
    ASSUME TypeOK, RestInv, OwedInv, ObserveFile
    PROVE  OwedInv'
<1>1. /\ next \in Scope /\ next.path \in Path \cap File /\ visited' = visited \cup {next.path}
      /\ InHand = {} /\ InHand' = {} /\ node' = node /\ pc' # "walk"
  BY PendingType DEF ObserveFile, Visit, Looking, RestInv, InHand, Scope, walk
<1>2. ASSUME NEW q \in Path \ {Root}, Parent(q) \in visited' \ InHand'
      PROVE  Parent(q) \in visited \ InHand
  BY <1>1, <1>2, ScanAssumption DEF Root
<1>3. CASE gap' = gap /\ owed' = owed
  BY <1>1, <1>2, <1>3 DEF OwedInv, OwedIsRecorded, WalkDebt, AbsentInv
<1>4. CASE gap' = Clear(gap, {next}) /\ owed' = owed \ Listings(next)
  <2>1. OwedIsRecorded'
    BY <1>1, <1>4, ClearKeeps DEF OwedInv, OwedIsRecorded, TypeOK
  <2>2. ASSUME NEW q \in Path \ {Root}, q \notin node', Parent(q) \in visited' \ InHand',
               NEW p \in owed', Contains(q, p)
        PROVE  \E s \in gap' : s.rec /\ Contains(s.path, Parent(q))
    <3>1. PICK s \in gap : s.rec /\ Contains(s.path, Parent(q))
      BY <1>1, <1>2, <1>4, <2>2 DEF OwedInv, AbsentInv
    <3>2. /\ p \in Path /\ p \notin Listings(next) /\ s \in Scope /\ s.path \in Path
          /\ Parent(q) \in Path /\ Contains(Parent(q), q)
      BY <1>4, <2>2, ParentAbove DEF TypeOK, Scope
    <3>3. Contains(s.path, p)
      BY <2>2, <3>1, <3>2, ContainsOrder
    <3>4. ASSUME Encloses(next, s)
          PROVE  FALSE
      <4>1. next.rec /\ Contains(next.path, s.path)
        BY <1>1, <3>1, <3>2, <3>4, RangeEncloses
      <4>2. Contains(next.path, p)
        BY <1>1, <3>2, <3>3, <4>1, ContainsOrder
      <4> QED BY <3>2, <4>1, <4>2 DEF Listings
    <3> QED BY <1>4, <3>1, <3>4 DEF Clear
  <2> QED BY <1>1, <2>1, <2>2 DEF OwedInv, WalkDebt, AbsentInv
<1> QED BY <1>3, <1>4 DEF ObserveFile

\* A path that its listed parent did not show is taken for absent: what is owed
\* below it is in a range that the clearing of the scope does not reach.
LEMMA OwedAbsent ==
    ASSUME TypeOK, RestInv, OwedInv, ConfirmAbsent
    PROVE  OwedInv'
<1> DEFINE a == next.path
<1>1. /\ next \in Scope /\ a \in Path \ {Root} /\ a \notin node /\ Parent(a) \in visited
      /\ visited' = visited \cup {a} /\ InHand = {} /\ InHand' = {} /\ node' = node
      /\ owed' = owed /\ gap' = Clear(gap, {next}) /\ pc' # "walk" /\ gap \in SUBSET Scope
      /\ owed \subseteq Path
  BY PendingType DEF ConfirmAbsent, Visit, Looking, Indexed, RestInv, InHand, Scope, walk, TypeOK
<1>2. /\ Parent(a) \in Path /\ Contains(Parent(a), a) /\ ~Contains(a, Parent(a))
  BY <1>1, ParentAbove
<1> HIDE DEF a
<1>3. ASSUME NEW p \in owed, Contains(a, p)
      PROVE  \E s \in gap' : s.rec /\ s.path \in Path /\ Contains(s.path, Parent(a)) /\ Contains(s.path, a)
  <2>1. PICK s \in gap : s.rec /\ Contains(s.path, Parent(a))
    BY <1>1, <1>3 DEF OwedInv, AbsentInv
  <2>2. s \in Scope /\ s.path \in Path
    BY <1>1 DEF Scope
  <2>3. ~Encloses(next, s)
    <3>1. SUFFICES ASSUME Encloses(next, s)
                   PROVE  FALSE
      OBVIOUS
    <3>2. Contains(a, s.path)
      BY <1>1, <2>1, <2>2, <3>1, RangeEncloses DEF a
    <3> QED BY <1>1, <1>2, <2>1, <2>2, <3>2, ContainsOrder
  <2>4. Contains(s.path, a)
    BY <1>1, <1>2, <2>1, <2>2, ContainsOrder
  <2> QED BY <1>1, <2>1, <2>2, <2>3, <2>4 DEF Clear
<1>4. ASSUME NEW p \in owed
      PROVE  p \in Pending(gap')
  <2>1. CASE p \in Listings(next)
    <3>1. p \in Path /\ Contains(a, p)
      BY <1>1, <2>1, ContainsOrder DEF Listings, a
    <3>2. PICK s \in gap' : s.rec /\ Contains(s.path, a)
      BY <1>3, <3>1
    <3>3. gap' \in SUBSET Scope
      BY <1>1 DEF Clear
    <3> QED BY <1>1, <3>1, <3>2, <3>3, RangeLists
  <2>2. CASE p \notin Listings(next)
    BY <1>1, <2>2, ClearKeeps DEF OwedInv, OwedIsRecorded
  <2> QED BY <2>1, <2>2
<1>5. ASSUME NEW q \in Path \ {Root}, q \notin node', Parent(q) \in visited' \ InHand',
             NEW p \in owed', Contains(q, p)
      PROVE  \E s \in gap' : s.rec /\ Contains(s.path, Parent(q))
  <2>0. /\ p \in owed /\ p \in Path /\ Parent(q) \in Path /\ Contains(Parent(q), q)
        /\ Contains(Parent(q), p)
    BY <1>1, <1>5, ParentAbove, ContainsOrder
  <2>1. ASSUME Contains(a, Parent(q))
        PROVE  \E s \in gap' : s.rec /\ Contains(s.path, Parent(q))
    <3>1. Contains(a, p)
      BY <1>1, <2>0, <2>1, ContainsOrder
    <3>2. PICK s \in gap' : s.rec /\ s.path \in Path /\ Contains(s.path, a)
      BY <1>3, <2>0, <3>1
    <3> QED BY <1>1, <2>0, <2>1, <3>2, ContainsOrder
  <2>2. CASE Parent(q) = a
    BY <1>1, <2>1, <2>2, ContainsOrder
  <2>3. CASE Parent(q) \in visited
    <3>1. PICK s \in gap : s.rec /\ Contains(s.path, Parent(q))
      BY <1>1, <1>5, <2>0, <2>3 DEF OwedInv, AbsentInv
    <3>2. s \in Scope /\ s.path \in Path
      BY <1>1 DEF Scope
    <3>3. CASE Encloses(next, s)
      <4>1. Contains(a, s.path)
        BY <1>1, <3>1, <3>2, <3>3, RangeEncloses DEF a
      <4> QED BY <1>1, <2>0, <2>1, <3>1, <3>2, <4>1, ContainsOrder
    <3>4. CASE ~Encloses(next, s)
      BY <1>1, <3>1, <3>4 DEF Clear
    <3> QED BY <3>3, <3>4
  <2> QED BY <1>1, <1>5, <2>2, <2>3
<1> QED BY <1>1, <1>4, <1>5 DEF OwedInv, OwedIsRecorded, WalkDebt, AbsentInv

\* What a complete listing of d leaves of its debt lies under a directory it
\* showed.
LEMMA SettledOrBelow ==
    ASSUME NEW d, NEW p \in Path, Contains(d, p), p \notin Settled(d)
    PROVE  \E c \in seen[d] \ File : Contains(c, p)
BY DEF Settled

\* Nothing owed below a missing child of d survives its pruning.
LEMMA MissingIsSettled ==
    ASSUME TypeOK, HandInv, NEW d \in open, NEW c \in Path \ {Root}, Parent(c) = d,
           c \notin seen[d], NEW p \in Path, Contains(c, p)
    PROVE  p \in Settled(d)
<1>1. d \in Path /\ Contains(d, p)
  <2>1. d \in Path /\ Contains(d, c)
    BY ParentAbove
  <2> QED BY <2>1, ContainsOrder
<1>2. ASSUME NEW b \in seen[d] \ File, Contains(b, p)
      PROVE  FALSE
  <2>1. b \in Path \ {Root} /\ Parent(b) = d
    BY DEF HandInv, Children, TypeOK
  <2> QED BY <1>2, <2>1, OneChild
<1> QED BY <1>1, <1>2 DEF Settled

\* The walk starts with all it owes below the one directory to list.
LEMMA OwedStart ==
    ASSUME TypeOK, RestInv, OwedInv, StartWalk
    PROVE  OwedInv'
<1>1. /\ visited' = visited \cup {next.path} /\ InHand = {} /\ InHand' = {next.path}
      /\ node' = node /\ gap' = gap /\ owed' = owed /\ scope' = next /\ todo' = {next.path}
      /\ next \in Scope /\ next.path \in Path
  BY PendingType DEF StartWalk, Visit, Looking, RestInv, InHand, index, Scope
<1>2. gap' \in SUBSET Scope /\ \A s \in gap : \E t \in gap' : Encloses(t, s)
  BY <1>1, EnclosesOrder DEF TypeOK
<1>3. AbsentInv'
  BY <1>1, <1>2, AbsentKept DEF OwedInv
<1>4. \A p \in Listings(next) : Contains(next.path, p)
  BY <1>1, ContainsOrder DEF Listings
<1>5. WalkDebt'
  BY <1>1, <1>4 DEF WalkDebt
<1> QED BY <1>1, <1>3, <1>5 DEF OwedInv, OwedIsRecorded

\* A listing hands what is owed below d to the directories it showed.
LEMMA OwedList ==
    ASSUME TypeOK, TreeInv, HandInv, OwedInv, NEW d \in Directories, List(d)
    PROVE  OwedInv'
<1> DEFINE C == Children(d, disk)
<1>1. /\ pc = "walk" /\ d \in todo /\ d \in Path
      /\ todo' = (todo \ {d}) \cup (IF scope.rec THEN C \ File ELSE {})
      /\ open' = open \cup {d} /\ bad' = bad /\ node \subseteq node' /\ scope' = scope
      /\ seen'[d] = C /\ \A e \in open \ {d} : seen'[e] = seen[e]
      /\ gap' = gap /\ owed' = owed /\ visited' = visited
  BY DEF List, round, Directories
<1>2. InHand \subseteq InHand'
  BY <1>1 DEF InHand
<1>3. AbsentInv'
  <2>1. gap' \in SUBSET Scope /\ \A s \in gap : \E t \in gap' : Encloses(t, s)
    BY <1>1, EnclosesOrder DEF TypeOK
  <2> QED BY <1>1, <1>2, <2>1, AbsentKept DEF OwedInv
<1>4. ASSUME NEW p \in owed \cap Listings(scope)
      PROVE  \/ \E e \in todo' \cup bad' : Contains(e, p)
             \/ \E e \in open' : p \in Settled(e)'
  <2>0. p \in Path
    BY DEF Listings
  <2>1. CASE \E e \in todo \cup bad : Contains(e, p) /\ e # d
    BY <1>1, <2>1
  <2>2. CASE \E e \in open : p \in Settled(e)
    <3>1. PICK e \in open : p \in Settled(e)
      BY <2>2
    <3>2. e # d
      BY <1>1 DEF HandInv
    <3>3. seen'[e] = seen[e]
      BY <1>1, <3>2
    <3> QED BY <1>1, <3>1, <3>3 DEF Settled
  <2>3. CASE Contains(d, p)
    <3>1. CASE \E c \in C \ File : Contains(c, p)
      <4>1. CASE scope.rec
        BY <1>1, <3>1, <4>1
      <4>2. CASE ~scope.rec
        <5>1. p = scope.path /\ Contains(scope.path, d)
          BY <1>1, <4>2 DEF Listings, HandInv
        <5>2. p = d
          BY <1>1, <2>0, <2>3, <5>1, ContainsOrder
        <5> QED BY <1>1, <2>0, <5>2 DEF Settled
      <4> QED BY <4>1, <4>2
    <3>2. CASE ~\E c \in C \ File : Contains(c, p)
      BY <1>1, <2>0, <2>3, <3>2 DEF Settled
    <3> QED BY <3>1, <3>2
  <2> QED BY <1>1, <2>1, <2>2, <2>3 DEF OwedInv, WalkDebt
<1>5. WalkDebt'
  BY <1>1, <1>4 DEF WalkDebt, Listings
<1> QED BY <1>1, <1>3, <1>5 DEF OwedInv, OwedIsRecorded

\* A directory that was not read keeps its debt.
LEMMA OwedFails ==
    ASSUME TypeOK, HandInv, OwedInv, NEW d \in Directories, ListFails(d) \/ ListBreaks(d)
    PROVE  OwedInv'
<1>1. /\ pc = "walk" /\ open' = open /\ seen' = seen /\ scope' = scope /\ node \subseteq node'
      /\ gap' = gap /\ owed' = owed /\ visited' = visited /\ InHand' = InHand
      /\ todo \cup bad \subseteq todo' \cup bad'
  <2>1. InHand' = InHand
    BY HandFails
  <2> QED BY <2>1 DEF ListFails, ListBreaks, index, round
<1>2. gap' \in SUBSET Scope /\ \A s \in gap : \E t \in gap' : Encloses(t, s)
  BY <1>1, EnclosesOrder DEF TypeOK
<1>3. AbsentInv'
  BY <1>1, <1>2, AbsentKept DEF OwedInv
<1>4. WalkDebt'
  BY <1>1 DEF OwedInv, WalkDebt, Listings, Settled
<1> QED BY <1>1, <1>3, <1>4 DEF OwedInv, OwedIsRecorded

\* The pruning of d pays what it settles, and makes nothing absent that is owed.
LEMMA OwedPrune ==
    ASSUME TypeOK, TreeInv, HandInv, OwedInv, NEW d \in Directories, Prune(d)
    PROVE  OwedInv'
<1>1. /\ pc = "walk" /\ d \in open /\ d \in Path /\ node' = node \ Under(Missing(d))
      /\ open' = open \ {d} /\ \A e \in open \ {d} : seen'[e] = seen[e]
      /\ owed' = owed \ Settled(d) /\ todo' = todo /\ bad' = bad /\ scope' = scope
      /\ gap' = gap /\ visited' = visited
  BY DEF Prune, Missing, round, Directories
<1>2. InHand \ {d} \subseteq InHand'
  BY <1>1 DEF InHand
<1>3. ASSUME NEW p \in owed' \cap Listings(scope)
      PROVE  \/ \E e \in todo' \cup bad' : Contains(e, p)
             \/ \E e \in open' : p \in Settled(e)'
  <2>1. CASE \E e \in todo \cup bad : Contains(e, p)
    BY <1>1, <2>1
  <2>2. CASE \E e \in open : p \in Settled(e)
    <3>1. PICK e \in open : p \in Settled(e)
      BY <2>2
    <3>2. e # d
      BY <1>1, <1>3, <3>1
    <3>3. seen'[e] = seen[e]
      BY <1>1, <3>2
    <3> QED BY <1>1, <3>1, <3>2, <3>3 DEF Settled
  <2> QED BY <1>1, <1>3, <2>1, <2>2 DEF OwedInv, WalkDebt
<1>4. ASSUME NEW q \in Path \ {Root}, q \notin node', Parent(q) \in visited' \ InHand',
             NEW p \in owed', Contains(q, p)
      PROVE  \E s \in gap' : s.rec /\ Contains(s.path, Parent(q))
  <2>0. p \in owed /\ p \in Path /\ p \notin Settled(d)
    BY <1>1, <1>4 DEF TypeOK
  <2>1. CASE q \in node
    <3>1. PICK c \in Missing(d) : Contains(c, q)
      BY <1>1, <1>4, <2>1 DEF Under
    <3>2. c \in Path \ {Root} /\ Parent(c) = d /\ c \notin seen[d]
      BY <3>1 DEF Missing, Children, TypeOK
    <3>3. Contains(c, p)
      BY <1>4, <2>0, <3>1, <3>2, ContainsOrder
    <3> QED BY <1>1, <2>0, <3>2, <3>3, MissingIsSettled
  <2>2. CASE q \notin node /\ Parent(q) = d
    <3>1. q \notin seen[d]
      BY <1>1, <2>2 DEF HandInv, Children
    <3> QED BY <1>1, <1>4, <2>0, <2>2, <3>1, MissingIsSettled
  <2>3. CASE q \notin node /\ Parent(q) # d
    <3>1. Parent(q) \in visited \ InHand
      BY <1>1, <1>2, <1>4, <2>3
    <3> QED BY <1>1, <1>4, <2>0, <2>3, <3>1 DEF OwedInv, AbsentInv
  <2> QED BY <2>1, <2>2, <2>3
<1>5. WalkDebt' /\ AbsentInv'
  BY <1>1, <1>3, <1>4 DEF WalkDebt, AbsentInv, Listings
<1> QED BY <1>1, <1>5 DEF OwedInv, OwedIsRecorded

\* The walk has ended: what it owes lies under the directories that could not be
\* listed, and those are recorded with all that is below them.
LEMMA OwedWalkEnds ==
    ASSUME TypeOK, TreeInv, HandInv, OwedInv, WalkEnds
    PROVE  OwedInv'
<1> DEFINE g == Clear(gap, {scope})
           S == Incomplete(bad)
<1>1. /\ pc = "walk" /\ todo = {} /\ open = {} /\ InHand = bad /\ InHand' = {} /\ pc' = "loop"
      /\ node' = node /\ owed' = owed /\ visited' = visited /\ bad \subseteq Path
      /\ bad \subseteq node \cup {Root} /\ scope \in Scope /\ gap \in SUBSET Scope
      /\ g \in SUBSET Scope /\ S \in SUBSET Scope
  BY ClearKeeps, IncompleteIs DEF WalkEnds, InHand, HandInv, TypeOK
<1>2. /\ gap' \in SUBSET Scope /\ Pending(g) \subseteq Pending(gap')
      /\ \A s \in g : \E t \in gap' : Encloses(t, s)
      /\ \A b \in bad : \E t \in gap' : Encloses(t, [path |-> b, rec |-> TRUE])
      /\ bad # {} => Pending(S) \subseteq Pending(gap')
  <2>1. CASE bad = {}
    <3>1. gap' = g
      BY <2>1 DEF WalkEnds
    <3> HIDE DEF g
    <3>2. \A s \in g : Encloses(s, s)
      BY <1>1, EnclosesOrder
    <3> QED BY <1>1, <2>1, <3>1, <3>2
  <2>2. CASE bad # {}
    <3>1. gap' = Record(g, S)
      BY <2>2 DEF WalkEnds
    <3>2. \A b \in bad : [path |-> b, rec |-> TRUE] \in S
      BY <1>1, IncompleteIs
    <3> HIDE DEF g, S
    <3> QED BY <1>1, <3>1, <3>2, RecordEncloses
  <2> QED BY <2>1, <2>2
\* A failed directory is covered, and what lies under it.
<1>3. ASSUME NEW b \in bad
      PROVE  /\ [path |-> b, rec |-> TRUE] \in Scope
             /\ \E t \in gap' : t.rec /\ t.path \in Path /\ Contains(t.path, b)
  <2>1. [path |-> b, rec |-> TRUE] \in Scope
    BY <1>1 DEF Scope
  <2>2. PICK t \in gap' : Encloses(t, [path |-> b, rec |-> TRUE])
    BY <1>2
  <2>3. t \in Scope /\ t.path \in Path
    BY <1>2 DEF Scope
  <2> QED BY <2>1, <2>2, <2>3, RangeEncloses
<1>4. ASSUME NEW p \in owed \cap Listings(scope)
      PROVE  \E b \in bad : Contains(b, p)
  BY <1>1 DEF OwedInv, WalkDebt
<1>5. ASSUME NEW p \in owed
      PROVE  p \in Pending(gap')
  <2>0. p \in Path
    BY DEF TypeOK
  <2>1. CASE p \in Listings(scope)
    <3>1. PICK b \in bad : Contains(b, p)
      BY <1>4, <2>1
    <3>2. PICK t \in gap' : t.rec /\ t.path \in Path /\ Contains(t.path, b)
      BY <1>3
    <3> QED BY <1>1, <1>2, <2>0, <3>1, <3>2, RangeLists
  <2>2. CASE p \notin Listings(scope)
    BY <1>1, <1>2, <2>2, ClearKeeps DEF OwedInv, OwedIsRecorded
  <2> QED BY <2>1, <2>2
<1>6. ASSUME NEW q \in Path \ {Root}, q \notin node', Parent(q) \in visited' \ InHand',
             NEW p \in owed', Contains(q, p)
      PROVE  \E t \in gap' : t.rec /\ Contains(t.path, Parent(q))
  <2>0. /\ p \in owed /\ p \in Path /\ Parent(q) \in Path /\ q \notin node
        /\ Contains(Parent(q), q)
        /\ \A a \in Path : Contains(a, q) /\ a # q => Contains(a, Parent(q))
    BY <1>1, <1>6, ParentAbove DEF TypeOK
  <2>1. CASE Parent(q) \in bad
    BY <1>3, <2>1
  <2>2. CASE Parent(q) \notin bad
    <3>1. PICK s \in gap : s.rec /\ Contains(s.path, Parent(q))
      BY <1>1, <1>6, <2>0, <2>2 DEF OwedInv, AbsentInv
    <3>2. s \in Scope /\ s.path \in Path
      BY <1>1 DEF Scope
    <3>3. CASE s \in g
      <4>1. PICK t \in gap' : Encloses(t, s)
        BY <1>2, <3>3
      <4>2. t \in Scope /\ t.path \in Path
        BY <1>2 DEF Scope
      <4> QED BY <2>0, <3>1, <3>2, <4>1, <4>2, RangeEncloses, ContainsOrder
    <3>4. CASE s \notin g
      <4>1. Encloses(scope, s) /\ scope.path \in Path
        BY <1>1, <3>4 DEF Clear, Scope
      <4>2. scope.rec /\ Contains(scope.path, s.path)
        BY <1>1, <3>1, <3>2, <4>1, RangeEncloses
      <4>3. Contains(s.path, q)
        BY <2>0, <3>1, <3>2, ContainsOrder
      <4>4. Contains(s.path, p)
        BY <1>6, <2>0, <3>2, <4>3, ContainsOrder
      <4>5. Contains(scope.path, p)
        BY <2>0, <3>2, <4>1, <4>2, <4>4, ContainsOrder
      <4>6. PICK b \in bad : Contains(b, p)
        BY <1>4, <2>0, <4>2, <4>5 DEF Listings
      <4>7. b \in Path /\ b \in node \cup {Root}
        BY <1>1
      <4>8. Contains(b, q) \/ Contains(q, b)
        BY <1>6, <2>0, <4>6, <4>7, ContainsBoth
      <4>9. ~Contains(q, b) /\ b # q
        BY <1>6, <2>0, <4>7 DEF TreeInv, IsTree
      <4>10. Contains(b, Parent(q))
        BY <2>0, <4>7, <4>8, <4>9
      <4>11. PICK t \in gap' : t.rec /\ t.path \in Path /\ Contains(t.path, b)
        BY <1>3
      <4> QED BY <2>0, <4>7, <4>10, <4>11, ContainsOrder
    <3> QED BY <3>3, <3>4
  <2> QED BY <2>1, <2>2
<1> HIDE DEF g, S
<1>7. OwedIsRecorded' /\ WalkDebt' /\ AbsentInv'
  BY <1>1, <1>5, <1>6 DEF OwedIsRecorded, WalkDebt, AbsentInv
<1> QED BY <1>7 DEF OwedInv

\* The walk is broken off: all its directories in hand are recorded.
LEMMA OwedAborts ==
    ASSUME TypeOK, OwedInv, AbortWalk
    PROVE  OwedInv'
<1> DEFINE g == Clear(gap, {scope})
           P == {pending[i] : i \in 1..Len(pending)}
           S == Incomplete(Unfinished) \cup P
<1>1. /\ pc = "walk" /\ owed' = owed /\ gap' = Record(g, S) /\ EndRound
      /\ Unfinished \in SUBSET Path /\ scope \in Scope /\ gap \in SUBSET Scope
      /\ g \in SUBSET Scope /\ owed \subseteq Path
  BY ClearKeeps DEF AbortWalk, TypeOK, Unfinished, Directories
<1>2. S \in SUBSET Scope /\ \A b \in Unfinished : [path |-> b, rec |-> TRUE] \in S
  BY <1>1, PendingType, IncompleteIs
<1> HIDE DEF S, P
<1>3. ASSUME NEW p \in owed
      PROVE  p \in Pending(g) \cup Pending(S)
  <2>1. CASE p \in Listings(scope)
    <3>1. PICK b \in Unfinished : Contains(b, p)
      <4>1. CASE \E d \in todo \cup bad : Contains(d, p)
        BY <4>1 DEF Unfinished
      <4>2. CASE \E d \in open : p \in Settled(d)
        <5>1. PICK d \in open : p \in Settled(d)
          BY <4>2
        <5>2. Contains(d, p)
          BY <1>1, <5>1, ContainsOrder DEF Settled
        <5> QED BY <5>1, <5>2 DEF Unfinished
      <4> QED BY <1>1, <2>1, <4>1, <4>2 DEF OwedInv, WalkDebt
    <3>2. p \in Listings([path |-> b, rec |-> TRUE])
      BY <1>1, <3>1 DEF Listings
    <3> QED BY <1>2, <3>2 DEF Pending
  <2>2. CASE p \notin Listings(scope)
    BY <1>1, <2>2, ClearKeeps DEF OwedInv, OwedIsRecorded
  <2> QED BY <2>1, <2>2
<1>4. owed' \subseteq Pending(gap')
  <2> HIDE DEF g
  <2> QED BY <1>1, <1>2, <1>3, RecordEncloses
<1> QED BY <1>1, <1>4, OwedAtRest

\* The round ends before a scope: what is pending is recorded.
LEMMA OwedCancelled ==
    ASSUME TypeOK, OwedInv, Cancel \/ ObserveAborts
    PROVE  OwedInv'
<1> DEFINE P == {pending[i] : i \in 1..Len(pending)}
<1>1. owed' = owed /\ EndRound /\ gap \in SUBSET Scope /\ P \in SUBSET Scope
  BY PendingType DEF Cancel, ObserveAborts, TypeOK
<1>2. CASE Cancel
  <2>1. gap' = Record(gap, P)
    BY <1>2 DEF Cancel
  <2> HIDE DEF P
  <2>2. owed' \subseteq Pending(gap')
    BY <1>1, <2>1, RecordEncloses DEF OwedInv, OwedIsRecorded
  <2> QED BY <1>1, <2>2, OwedAtRest
<1>3. CASE ObserveAborts
  <2>1. gap' = Record(Clear(gap, {next}), P) /\ next \in Scope /\ next \in P
    BY <1>3, PendingType DEF ObserveAborts, Looking, next, TypeOK
  <2> HIDE DEF P
  <2>2. Listings(next) \subseteq Pending(P)
    BY <2>1 DEF Pending
  <2>3. Clear(gap, {next}) \in SUBSET Scope /\ Pending(gap) \ Listings(next) \subseteq Pending(Clear(gap, {next}))
    BY <1>1, <2>1, ClearKeeps
  <2>4. owed' \subseteq Pending(gap')
    BY <1>1, <2>1, <2>2, <2>3, RecordEncloses DEF OwedInv, OwedIsRecorded
  <2> QED BY <1>1, <2>4, OwedAtRest
<1> QED BY <1>2, <1>3

\* Every step keeps what is owed recorded.
LEMMA OwedStep ==
    ASSUME TypeOK, TypeOK', TreeInv, HandInv, RestInv, OwedInv, [Next]_vars
    PROVE  OwedInv'
<1> USE DEF index, walk, round
<1>1. ASSUME NEW R \in Requests, Open(R)
      PROVE  OwedInv'
  <2> DEFINE N == Merge({Expand(s) : s \in R})
  <2>1. /\ pc = "idle" /\ gap' = Record(gap, N) /\ owed' = owed \cup Pending(N)
        /\ visited' = visited /\ pc' = "loop" /\ gap \in SUBSET Scope /\ visited = {}
    BY <1>1 DEF Open, TypeOK, RestInv
  <2>2. N \in SUBSET Scope
    BY RequestIsFinite
  <2> HIDE DEF N
  <2>3. OwedIsRecorded'
    BY <2>1, <2>2, RecordEncloses DEF OwedInv, OwedIsRecorded
  <2> QED BY <2>1, <2>3 DEF OwedInv, WalkDebt, AbsentInv
<1>2. CASE Finish \/ Crash
  <2>1. EndRound /\ owed' = owed /\ gap' = gap
    BY <1>2 DEF Finish, Crash
  <2> QED BY <2>1, OwedAtRest DEF OwedInv, OwedIsRecorded
<1>3. CASE ListParent \/ DirectoryUnreadable \/ ConfirmMissing
  <2>1. UNCHANGED <<gap, owed, node, visited, todo, open, bad>> /\ pc' # "walk"
    BY <1>3 DEF ListParent, DirectoryUnreadable, ConfirmMissing, Looking
  <2> QED BY <2>1, OwedKept DEF InHand
<1>4. CASE ConfirmFails
  <2>1. /\ UNCHANGED <<owed, node, visited, todo, open, bad>> /\ pc' = "loop"
        /\ gap' = Record(gap, {scope}) /\ gap \in SUBSET Scope /\ {scope} \in SUBSET Scope
    BY <1>4 DEF ConfirmFails, TypeOK
  <2>2. /\ gap' \in SUBSET Scope /\ Pending(gap) \subseteq Pending(gap')
        /\ \A s \in gap : \E t \in gap' : Encloses(t, s)
    BY <2>1, RecordEncloses
  <2>3. AbsentInv'
    BY <2>1, <2>2, AbsentKept DEF OwedInv, InHand
  <2> QED BY <2>1, <2>2, <2>3 DEF OwedInv, OwedIsRecorded, WalkDebt
<1>5. CASE \E p \in Path : DiskChanges(p)
  <2>1. UNCHANGED <<gap, owed, node, visited, todo, open, bad, seen, scope, pc>>
    BY <1>5 DEF DiskChanges
  <2> QED BY <2>1 DEF OwedInv, OwedIsRecorded, WalkDebt, AbsentInv, InHand, Settled, Listings, Pending
<1>6. CASE UNCHANGED vars
  <2>1. UNCHANGED <<gap, owed, node, visited, todo, open, bad, seen, scope, pc>>
    BY <1>6 DEF vars
  <2> QED BY <2>1 DEF OwedInv, OwedIsRecorded, WalkDebt, AbsentInv, InHand, Settled, Listings, Pending
<1>7. CASE Loop
  BY <1>2, <1>3, <1>4, <1>7, OwedAbsent, OwedObserve, OwedStart DEF Loop
<1>8. CASE Walk
  BY <1>8, OwedList, OwedFails, OwedPrune, OwedWalkEnds, OwedAborts DEF Walk, EmptyRootAborts
<1>9. CASE Faults
  BY <1>2, <1>9, OwedFails, OwedAborts, OwedCancelled DEF Faults, WalkAborts
<1> QED BY <1>1, <1>5, <1>6, <1>7, <1>8, <1>9 DEF Next

----------------------------------------------------------------------------
(* What stays on the disk stays in the index.                              *)

\* A step that removes no steady entry, and lists nothing.
LEMMA SteadyKept ==
    ASSUME SteadyInv, pc' # "idle" => pc # "idle" /\ steady \cap node \subseteq node',
           steady' \subseteq steady \cap disk', open' \subseteq open,
           \A d \in open' : seen'[d] = seen[d]
    PROVE  SteadyInv'
BY DEF SteadyInv, SteadyEntriesStay

\* A listing shows every child that has a steady entry at or below it.
LEMMA SteadyList ==
    ASSUME TypeOK, TreeInv, SteadyInv, NEW d \in Directories, List(d)
    PROVE  SteadyInv'
<1>1. /\ pc = "walk" /\ node \subseteq node' /\ steady' = steady /\ disk' = disk
      /\ open' = open \cup {d} /\ seen'[d] = Children(d, disk)
      /\ \A e \in open \ {d} : seen'[e] = seen[e]
  BY DEF List
<1>2. ASSUME NEW c \in Path \ {Root}, NEW q \in steady, Parent(c) = d, Contains(c, q)
      PROVE  c \in Children(d, disk)
  BY <1>2 DEF SteadyInv, TreeInv, IsTree, Children
<1> QED BY <1>1, <1>2 DEF SteadyInv, SteadyEntriesStay

\* The pruning after a listing removes no steady entry.
LEMMA SteadyPrune ==
    ASSUME TypeOK, HandInv, SteadyInv, NEW d \in Directories, Prune(d)
    PROVE  SteadyInv'
<1>1. /\ pc = "walk" /\ pc' = pc /\ d \in open /\ node' = node \ Under(Missing(d))
      /\ steady' = steady /\ disk' = disk /\ open' = open \ {d}
      /\ \A e \in open' : seen'[e] = seen[e]
  BY DEF Prune, Missing
<1>2. ASSUME NEW q \in steady, q \in Under(Missing(d))
      PROVE  FALSE
  <2>1. PICK c \in Missing(d) : Contains(c, q)
    BY <1>2 DEF Under
  <2>2. c \in Path \ {Root} /\ Parent(c) = d /\ c \notin seen[d]
    BY <2>1 DEF Missing, Children, TypeOK
  <2> QED BY <1>1, <2>1, <2>2 DEF SteadyInv
<1>3. steady \cap node \subseteq node' /\ steady' \subseteq steady \cap disk'
  BY <1>1, <1>2 DEF SteadyInv
<1> QED BY <1>1, <1>3, SteadyKept

\* Every step keeps the steady entries.
LEMMA SteadyStep ==
    ASSUME TypeOK, TreeInv, HandInv, RestInv, SteadyInv, [Next]_vars
    PROVE  SteadyInv'
<1> USE DEF index, walk, round
<1>0. steady \subseteq disk
  BY DEF SteadyInv
<1>1. ASSUME UNCHANGED <<disk, steady, node>>, pc # "idle",
             EndRound \/ UNCHANGED <<open, seen>>
      PROVE  SteadyInv'
  <2>1. open' \subseteq open /\ \A d \in open' : seen'[d] = seen[d]
    BY <1>1 DEF EndRound
  <2> QED BY <1>0, <1>1, <2>1, SteadyKept
<1>2. CASE \E R \in Requests : Open(R)
  <2>1. pc = "idle" /\ open' = {} /\ steady' = disk' \cap node'
    BY <1>2 DEF Open, RestInv, InHand
  <2> QED BY <2>1 DEF SteadyInv, SteadyEntriesStay
<1>3. CASE Loop
  BY <1>1, <1>3 DEF Loop, Looking, Finish, ListParent, ConfirmAbsent, DirectoryUnreadable,
                    ObserveFile, ConfirmMissing, ConfirmFails, StartWalk
<1>4. CASE WalkEnds \/ EmptyRootAborts \/ Cancel \/ ObserveAborts \/ WalkAborts \/ Crash
  BY <1>1, <1>4 DEF WalkEnds, EmptyRootAborts, Cancel, ObserveAborts, WalkAborts, AbortWalk, Crash,
                    Looking
<1>5. ASSUME NEW d \in Directories, ListFails(d) \/ ListBreaks(d)
      PROVE  SteadyInv'
  <2>1. /\ pc = "walk" /\ node \subseteq node' /\ steady' = steady /\ disk' = disk
        /\ open' = open /\ seen' = seen
    BY <1>5 DEF ListFails, ListBreaks
  <2> QED BY <1>0, <2>1, SteadyKept
<1>6. CASE Walk
  BY <1>4, <1>5, <1>6, SteadyList, SteadyPrune DEF Walk
<1>7. CASE Faults
  BY <1>4, <1>5, <1>7 DEF Faults
<1>8. CASE \E p \in Path : DiskChanges(p)
  <2>1. steady' \subseteq steady \cap disk' /\ UNCHANGED <<node, pc, open, seen>>
    BY <1>8 DEF DiskChanges
  <2>2. steady \cap node \subseteq node'
    BY <2>1
  <2> QED BY <2>1, <2>2, SteadyKept
<1>9. CASE UNCHANGED vars
  <2>1. UNCHANGED <<disk, steady, node, pc, open, seen>>
    BY <1>9 DEF vars
  <2> QED BY <1>0, <2>1, SteadyKept
<1> QED BY <1>2, <1>3, <1>6, <1>7, <1>8, <1>9 DEF Next

----------------------------------------------------------------------------
(* The theorems.                                                           *)

ScanInv == TypeOK /\ TreeInv /\ HandInv /\ RestInv /\ OwedInv /\ SteadyInv

\* The inductive invariant: it holds of any tree and any index at rest.
LEMMA ScanInit == Init => ScanInv
<1> SUFFICES ASSUME Init
             PROVE  ScanInv
  OBVIOUS
<1>1. Root \in Path /\ NoScope \in Scope
  BY PathAssumption DEF Root, NoScope, Scope
<1>2. PICK T \in Trees : node = T \ {Root}
  BY DEF Init
<1>3. /\ IsTree(T) /\ Root \in T /\ T = node \cup {Root} /\ IsTree(disk) /\ Root \in disk
  BY <1>2, ScanAssumption DEF Init, Root
<1>4. InHand = {} /\ todo = {} /\ open = {} /\ owed = {} /\ visited = {} /\ steady = {} /\ pc = "idle"
  BY DEF Init, InHand
<1>5. TypeOK
  <2>1. disk \subseteq Path /\ node \subseteq Path \ {Root}
    BY <1>2, <1>3 DEF IsTree
  <2>2. used \in [round : 0..MaxRound, change : 0..MaxChange, fault : 0..MaxFault]
    BY ScanAssumption DEF Init
  <2>3. seen \in [open -> SUBSET Path] /\ pending \in Seq(Scope)
    BY DEF Init
  <2> QED BY <1>1, <2>1, <2>2, <2>3 DEF Init, TypeOK
<1>6. TreeInv
  BY <1>3 DEF TreeInv
<1>7. HandInv /\ RestInv
  BY <1>4 DEF HandInv, RestInv
<1>8. OwedInv /\ SteadyInv
  BY <1>4 DEF OwedInv, OwedIsRecorded, WalkDebt, AbsentInv, SteadyInv, SteadyEntriesStay
<1> QED BY <1>5, <1>6, <1>7, <1>8 DEF ScanInv

LEMMA ScanStep == ScanInv /\ [Next]_vars => ScanInv'
<1> SUFFICES ASSUME ScanInv, [Next]_vars
             PROVE  ScanInv'
  OBVIOUS
<1>1. TypeOK'
  <2>1. CASE UNCHANGED vars
    BY <2>1 DEF ScanInv, TypeOK, vars, index, walk, round
  <2> QED BY <2>1, LoopTypes, WalkTypes DEF ScanInv, Next
<1>2. TreeInv' /\ HandInv' /\ RestInv' /\ OwedInv' /\ SteadyInv'
  BY <1>1, TreeStep, HandStep, OwedStep, SteadyStep DEF ScanInv
<1> QED BY <1>1, <1>2 DEF ScanInv

\* At every point of the loop and of the walk the index, the directories in hand,
\* the recorded ranges and what the round owes agree (_execute_scopes, _walk).
THEOREM ScanInvariant == Spec => []ScanInv
BY ScanInit, ScanStep, PTL DEF Spec

\* The state of a round is always well formed, whatever the file tree and the
\* requests (ScanLibrarySourceTree._execute_scopes, _walk).
THEOREM ScanTypeOK == Spec => []TypeOK
BY ScanInvariant, PTL DEF ScanInv

\* A requested path that has neither been read nor been found absent from a
\* complete listing is in a recorded range: after a failed directory, a listing
\* that broke off, a cancellation, a write that failed and a crash alike, however
\* the tree changes under the scan (record_scan_gaps, clear_scan_gaps).
THEOREM OwedIsAlwaysRecorded == Spec => []OwedIsRecorded
BY ScanInvariant, PTL DEF ScanInv, OwedInv

\* No listing, however late its pruning comes, removes an indexed entry that was on
\* the disk ever since the round began (_walk and its removal of missing children).
THEOREM SteadyEntriesAlwaysStay == Spec => []SteadyEntriesStay
BY ScanInvariant, PTL DEF ScanInv, SteadyInv
=============================================================================
