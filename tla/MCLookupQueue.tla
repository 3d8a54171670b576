--------------------------- MODULE MCLookupQueue ---------------------------
(* One Book with two organize jobs, one after the other. *)
EXTENDS LookupQueue

CONSTANTS tale, first, second

Owner == [j \in Job |-> tale]

(* The thread goes on, the process is started again after a crash, imports   *)
(* that are queued run, and time passes.                                     *)
Spec ==
    /\ LookupsSpec
    /\ WF_lookupVars(ServeLookup) /\ WF_lookupVars(RecoverLookups)
    /\ WF_lookupVars(StartLookups) /\ WF_lookupVars(\E j \in Job : ClaimLookup(j))
    /\ \A j \in Job : WF_lookupVars(LookupDue(j)) /\ WF_lookupVars(LookupLapses(j))
    /\ \A b \in Book : WF_lookupVars(StartImport(b)) /\ WF_lookupVars(EndImport(b))
=============================================================================
