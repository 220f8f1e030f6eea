---------------------------- MODULE GuestReport ----------------------------
(***************************************************************************)
(* What a host may rely on of a guest, as PROTOCOL.md's sequence has it:   *)
(* result.json is written at most once, the manifest only after it, and    *)
(* nothing once the process is over; exit code 0 stands for a success that *)
(* is written and sealed.  A guest may end at any moment with another code.*)
(* Runner is shown to implement this, and so is the guest in Driver.       *)
(***************************************************************************)

VARIABLES resultObj,  \* "none", or the status in result.json
          manifest,   \* the manifest object exists
          exit        \* "none", "zero" or "nonzero"

reportVars == <<resultObj, manifest, exit>>

Init == resultObj = "none" /\ manifest = FALSE /\ exit = "none"

WriteResult ==
  /\ exit = "none" /\ resultObj = "none" /\ ~manifest
  /\ resultObj' \in {"success", "failure"}
  /\ UNCHANGED <<manifest, exit>>

Seal ==
  /\ exit = "none" /\ resultObj # "none"
  /\ manifest' = TRUE
  /\ UNCHANGED <<resultObj, exit>>

Exit ==
  /\ exit = "none"
  /\ \/ exit' = "zero" /\ manifest /\ resultObj = "success"
     \/ exit' = "nonzero"
  /\ UNCHANGED <<resultObj, manifest>>

Next == WriteResult \/ Seal \/ Exit

Spec == Init /\ [][Next]_reportVars
=============================================================================
