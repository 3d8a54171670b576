------------------------ MODULE MCAutomationUploads ------------------------
(* Agents upload a book of two chunks and a cover of one, with room for one *)
(* at a time.  A replacement differs from a book in what it finds and locks: *)
(* see MCFileActivity.                                                      *)
EXTENDS AutomationUploads

CONSTANTS book, cover, lib, right, wrong

Purposes == [u \in Upload |-> IF u = book THEN "book" ELSE "cover"]
Where == [u \in Upload |-> lib]
Digest == [u \in Upload |-> IF u = book THEN <<right, right>> ELSE <<right>>]

(* Time passes, the worker's cleanup runs every minute, and a request that   *)
(* was started goes on.                                                      *)
Spec ==
    /\ UploadsSpec
    /\ \A u \in Upload :
          /\ WF_uploadVars(UploadElapses(u)) /\ WF_uploadVars(CleanupUpload(u))
          /\ WF_uploadVars(~Unlocked(u) /\ FinishUpload(u, {}))
=============================================================================
