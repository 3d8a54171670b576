---------------------------- MODULE MCFileMoves ----------------------------
(* A book that is moved with its sidecar within one library, then another   *)
(* one that is moved to a second library.                                   *)
EXTENDS FileMoves

CONSTANTS shelf, attic

Within(owner) == [from |-> shelf, to |-> shelf, owner |-> owner]
ThePlan == [o \in Op |->
    IF o = 1 THEN <<Within(2), Within(0)>>
    ELSE <<[from |-> shelf, to |-> attic, owner |-> 0]>>]

(* The worker goes on and is started again; requests and claims may never come. *)
Spec ==
    /\ MovesSpec
    /\ WF_moveVars(ExecuteMove) /\ WF_moveVars(RecoverMoves) /\ WF_moveVars(StartMover)
=============================================================================
