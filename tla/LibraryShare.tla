---------------------------- MODULE LibraryShare ----------------------------
(***************************************************************************)
(* How work on files shares the libraries: one kind of work at a time is   *)
(* claimed, and only where none of the kinds that its claim asks for is at *)
(* work.  Whatever work ends gives its libraries back, in any step.        *)
(***************************************************************************)
CONSTANTS
    Kind,       \* the kinds of work
    Place,      \* the libraries
    Asks        \* the kinds of work that the claim of each kind asks for

VARIABLE
    holds       \* the kinds of work that hold each library

Init == holds = [l \in Place |-> {}]

Step(k) ==
    /\ holds' \in [Place -> SUBSET Kind]
    /\ \A l \in Place : /\ holds'[l] \subseteq holds[l] \cup {k}
                        /\ k \in holds'[l] \ holds[l] => holds[l] \cap Asks[k] = {}

Next == \E k \in Kind : Step(k)

Spec == Init /\ [][Next]_holds
=============================================================================
