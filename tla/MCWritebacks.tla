---------------------------- MODULE MCWritebacks ----------------------------
(* One intent that expands into two sidecars, and one standard write, in a  *)
(* queue for two targets.                                                   *)
EXTENDS Writebacks

CONSTANTS tale, opf1, opf2, story, shelf

TheExpansion == [i \in Intent |-> {opf1, opf2}]
TheWriteLibrary == [w \in {opf1, opf2, story} |-> shelf]

(* The thread goes on and leases lapse.  Targets come before intents, or in  *)
(* turn with them, and an intent that finds no room waits before it is tried *)
(* again: claims are strongly fair.  Restarts are not fair.                  *)
Spec ==
    /\ WritesSpec
    /\ WF_writeVars(ServeIntents) /\ WF_writeVars(ServeOpf) /\ WF_writeVars(ServeStandard)
    /\ WF_writeVars(RecoverWrites) /\ SF_writeVars(\E w \in Write : ClaimWrite(w, {}, {}))
    /\ \A w \in Write : WF_writeVars(WriteLapses(w))
=============================================================================
