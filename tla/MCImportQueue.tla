--------------------------- MODULE MCImportQueue ---------------------------
(* Instances of ImportQueue: small libraries, Books and bounds.            *)
EXTENDS ImportQueue, TLC

CONSTANTS l1, l2, b1, b2

OneLibrary == {l1}
TwoLibraries == {l1, l2}
OneBook == {b1}
TwoBooks == {b1, b2}
AllInOne == [b \in Book |-> l1]
OneEach == (b1 :> l1) @@ (b2 :> l2)
SecondIsFile == {b2}
NoFile == {}
EveryFile == Book

\* What the re-import routes register, and the historical work that still
\* holds a scan.
SomeResources == [scan |-> FALSE, res |-> "some"]
IdentifyOnly == [scan |-> FALSE, res |-> "none"]
Everything == [scan |-> TRUE, res |-> "all"]
AllWork == {SomeResources, IdentifyOnly, Everything}
UsualWork == {SomeResources}
=============================================================================
