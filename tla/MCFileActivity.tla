-------------------------- MODULE MCFileActivity --------------------------
(* One operation of each kind on one library; two of them are submitted. *)
EXTENDS FileActivity

CONSTANTS shelf, attic, plan, fresh, tale, sidecar, story, bytes, MaxRequest, MaxFault

ThePlan == [o \in Op |-> <<[from |-> shelf, to |-> attic, owner |-> 0]>>]
TheDoomed == [p \in Deletion |-> <<shelf>>]
ThePurpose == [u \in Upload |-> "replace"]
TheUploadLibrary == [u \in Upload |-> shelf]
ThePromise == [u \in Upload |-> <<bytes>>]
TheExpansion == [i \in Intent |-> {sidecar}]
TheWriteLibrary == [w \in {sidecar, story} |-> shelf]
TheRelocates == [o \in Op |-> Intent]

(* Bounds of the composition: MaxRequest operations; MaxFault crashes,      *)
(* failed commits and other errors in all, a crash of the worker being one; *)
(* an operation is revised (cancelled, run out of time, its place filled    *)
(* again or its directory replaced) only while it is the only one; only     *)
(* libraries with operations are imported.                                  *)
Submitted ==
    Cardinality({o \in Op : moves[o].status # "ABSENT"})
    + Cardinality({p \in Deletion : deletions[p].planned})
    + Cardinality({u \in Upload : Status(u) # "ABSENT"})
    + Cardinality({i \in Intent : intents[i].row # "none"})
    + Cardinality({w \in Standard : writes[w].row # "none"})
Worst(m, n) == IF m > n THEN m ELSE n
Faults == deletionFaults + uploadFaults + Worst(moveFaults, writeFaults)
Revised ==
    \/ \E o \in Op : moves[o].cancel
    \/ \E p \in Deletion : \/ deleteCancel[p].pc = "save" \/ deletions[p].payload.cancelled
                          \/ \E t \in Targets(p) : content[p][t] = "new"
    \/ elapsed # {} \/ astray # {} \/ \E w \in Standard : writes[w].cancel
Bounded ==
    /\ Faults <= MaxFault /\ Submitted <= MaxRequest
    /\ Revised => Submitted = 1
    /\ attic \in importing => \E o \in Op : moves[o].status # "ABSENT"

Next == ActivityNext /\ Bounded'

(* Both threads go on, a crashed worker is started again, requests under way *)
(* go on, and leases lapse.                                                   *)
Spec ==
    /\ ActivityInit /\ [][Next]_activityVars
    /\ WF_activityVars(ServeMove) /\ WF_activityVars(StartWorker)
    /\ WF_activityVars(ServeWrite) /\ WF_activityVars(LeaseLapses)
    /\ WF_activityVars(RecoverImports) /\ WF_activityVars(FinishImport)
    /\ \A p \in Deletion : WF_activityVars(DeleteFiles(p))
    /\ \A u \in Upload : WF_activityVars(FinishReplacement(u))
=============================================================================
