---------------------------- MODULE MCScanRound ----------------------------
(* Instances of ScanRound: two directories, one with a subdirectory and a   *)
(* file.                                                                    *)
EXTENDS ScanRound

Names == {1, 2}
A == <<1>>
AB == <<1, 1>>
AFile == <<1, 2>>
C == <<2>>
Tree == {<<>>, A, AB, AFile, C}
FilePaths == {AFile}
NoAnchor == {}
AnchorA == {A}

Deep(p) == [path |-> p, rec |-> TRUE]
Flat(p) == [path |-> p, rec |-> FALSE]
\* A whole library; a changed directory with a new child; a deleted directory;
\* a file; two unrelated directories.
SomeRequests == {{Deep(<<>>)}, {Flat(A), Deep(AB)}, {Deep(AB)}, {Deep(AFile)}, {Deep(C), Flat(A)}}
FewTrees == {Tree, {<<>>, A, AFile}, {<<>>, C}}
=============================================================================
