--------------------------- MODULE ImportPromise ---------------------------
(***************************************************************************)
(* What the import queue promises about every row: a request becomes a row *)
(* of its own, is executed at most once, by the single consumer, and a     *)
(* terminal row never comes back.  An execution whose end could not be     *)
(* recorded leaves its row RUNNING until the next start closes it; nothing *)
(* but that start ever closes a row the consumer is not executing.         *)
(***************************************************************************)
EXTENDS Naturals

CONSTANT Requested

VARIABLES
    state,      \* what the table says of each request
    current     \* the requests being executed: none or one

States == {"ABSENT", "QUEUED", "RUNNING", "SUCCEEDED", "FAILED", "DELETED"}
Is(s) == {r \in Requested : state[r] = s}
Become(D, s) == [r \in Requested |-> IF r \in D THEN s ELSE state[r]]

Init == state = [r \in Requested |-> "ABSENT"] /\ current = {}

\* Requests are discarded with their source, and at most one is accepted.
Accept(D, S) ==
    /\ D \cap Is("ABSENT") = {}
    /\ S \subseteq Is("ABSENT") /\ \A r, q \in S : r = q
    /\ state' = [r \in Requested |-> IF r \in D THEN "DELETED"
                                   ELSE IF r \in S THEN "QUEUED" ELSE state[r]]
    /\ current' = current

Begin(r) ==
    /\ current = {} /\ r \in Is("QUEUED")
    /\ state' = Become({r}, "RUNNING")
    /\ current' = {r}

End(s) ==
    /\ current # {} /\ current \subseteq Is("RUNNING")
    /\ state' = Become(current, s)
    /\ current' = {}

\* The consumer lets go of its row, which stays as it is.
LetGo == current # {} /\ current' = {} /\ state' = state

\* A start closes rows left RUNNING by an earlier process.
CloseInterrupted(D) ==
    /\ current = {} /\ D \subseteq Is("RUNNING")
    /\ state' = Become(D, "FAILED")
    /\ current' = {}

Next ==
    \/ \E D, S \in SUBSET Requested : Accept(D, S)
    \/ \E r \in Requested : Begin(r)
    \/ \E s \in {"SUCCEEDED", "FAILED"} : End(s)
    \/ LetGo
    \/ \E D \in SUBSET Requested : CloseInterrupted(D)

Spec == Init /\ [][Next]_<<state, current>>
=============================================================================
