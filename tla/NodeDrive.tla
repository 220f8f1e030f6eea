----------------------------- MODULE NodeDrive -----------------------------
(***************************************************************************)
(* What drive_node promises to its caller: it ends once, and it reports a  *)
(* status that the guest wrote only of a guest that is over.  It may give   *)
(* up, fail to read, or raise at any moment.  Driver is shown to implement *)
(* this for one node, SandboxRun for one node after the other; so what the *)
(* latter takes for granted of a drive is what the former does.            *)
(***************************************************************************)

VARIABLES resultObj, manifest, exit,  \* the guest, seen from the store (GuestReport)
          status                      \* "none", or how drive_node ended

Guest == INSTANCE GuestReport

nodeVars == <<resultObj, manifest, exit, status>>

Init == Guest!Init /\ status = "none"

GuestStep == Guest!Next /\ UNCHANGED status

\* The rest of drive_node after the lease.
Reported == IF exit # "none" /\ resultObj # "none" THEN resultObj ELSE "failure"

End ==
  /\ status = "none"
  /\ status' \in {Reported, "failure", "raised"}
  /\ UNCHANGED <<resultObj, manifest, exit>>

Next == GuestStep \/ End

Spec == Init /\ [][Next]_nodeVars

\* Nodes one after the other: the next one has a guest and a prefix of its own.
NewNode ==
  /\ resultObj' = "none" /\ manifest' = FALSE /\ exit' = "none"
  /\ status' = "none"

OneByOne == Init /\ [][Next \/ NewNode]_nodeVars
=============================================================================
