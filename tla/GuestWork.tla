------------------------------ MODULE GuestWork ------------------------------
(***************************************************************************)
(* What a guest's report says of its work: the program ends at most once,  *)
(* what is put into the outbox is put before result.json and never after a *)
(* program that failed, and success is written only of one that exited 0.  *)
(* Runner is shown to implement this for one node, SandboxRun for one node *)
(* after the other; so the guests of whole runs are no better than the     *)
(* runner.                                                                 *)
(***************************************************************************)

CONSTANT Nothing    \* the content of an outbox without an archive

VARIABLES rc,       \* the program's exit code: "none", "zero" or "nonzero"
          outbox,   \* what is in the outbox
          resultObj, manifest, exit  \* as in GuestReport

Report == INSTANCE GuestReport

workVars == <<rc, outbox, resultObj, manifest, exit>>

Init == Report!Init /\ rc = "none" /\ outbox = Nothing

Unreported == exit = "none" /\ resultObj = "none"

ProgramEnds ==
  /\ Unreported /\ rc = "none"
  /\ rc' \in {"zero", "nonzero"}
  /\ UNCHANGED <<outbox, resultObj, manifest, exit>>

\* The program itself may put something, the runner after it.
PutOutputs ==
  /\ Unreported /\ rc # "nonzero"
  /\ UNCHANGED <<rc, resultObj, manifest, exit>>

Reports ==
  /\ Report!Next
  /\ resultObj' = "success" => rc = "zero"
  /\ UNCHANGED <<rc, outbox>>

Next == ProgramEnds \/ PutOutputs \/ Reports

Spec == Init /\ [][Next]_workVars

\* Guests one after the other: the next one has a prefix of its own.
NewGuest == Init'

OneByOne == Init /\ [][Next \/ NewGuest]_workVars
=============================================================================
