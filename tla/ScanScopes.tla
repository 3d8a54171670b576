----------------------------- MODULE ScanScopes -----------------------------
(***************************************************************************)
(* Scan scopes and the algebra of incomplete ranges (scan_policy.py,       *)
(* scan_gating.py).  A path is the sequence of its names; a scope is the   *)
(* listing of one directory, or with rec of all that is at or below it.    *)
(***************************************************************************)
EXTENDS Naturals, Sequences

CONSTANTS Name, Path

ASSUME PathAssumption ==
    /\ Path \subseteq Seq(Name)
    /\ <<>> \in Path
    /\ \A p \in Path \ {<<>>} : SubSeq(p, 1, Len(p) - 1) \in Path

Scope == [path : Path, rec : BOOLEAN]
Parent(p) == SubSeq(p, 1, Len(p) - 1)

\* path_contains: the same path, or one that lies below.
Contains(c, p) == Len(c) <= Len(p) /\ \A i \in 1..Len(c) : c[i] = p[i]

\* With a path, a tree holds the directories it lies in.
IsTree(T) == T \subseteq Path /\ \A p \in T, a \in Path : Contains(a, p) => a \in T

\* completed_scope_resolves, and the absorption rule of merge_scan_scopes: a
\* listing of one directory encloses no recursive range, not even its own.
Encloses(c, s) == IF c.rec THEN Contains(c.path, s.path) ELSE s = c

\* merge_scan_scopes: the outermost of the given scopes.
Merge(S) == {s \in S : ~\E t \in S \ {s} : Encloses(t, s)}
\* record_scan_gaps and clear_scan_gaps.
Record(g, S) == Merge(g \cup S)
Clear(g, S) == {s \in g : ~\E c \in S : Encloses(c, s)}

\* What a scope promises to list, and what a set of scopes leaves to be listed.
Listings(s) == {d \in Path : d = s.path \/ (s.rec /\ Contains(s.path, d))}
Pending(g) == UNION {Listings(s) : s \in g}
=============================================================================
