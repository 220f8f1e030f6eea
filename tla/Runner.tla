-------------------------------- MODULE Runner --------------------------------
(***************************************************************************)
(* The guest's side of one node (runner.py, runner_main.py): gate on the   *)
(* egress canary, stage the inputs, run the setup hook, the workload and   *)
(* the cleanup hook, collect the outputs, write result.json, close the     *)
(* telemetry.  Beside it runs the heartbeat task.                          *)
(*                                                                         *)
(* An action is the code from one point where the runner may fail or be    *)
(* killed to the next.  The span events it emits (spans.py) are kept as    *)
(* the last event of each span; log lines are left out, except that        *)
(* emitting one may raise.  Emitting appends to the shipper's buffer       *)
(* before anything can raise (Telemetry's EmitLine), so an event is in the *)
(* stream whether or not the call that emitted it raised.                  *)
(***************************************************************************)
EXTENDS Naturals

CONSTANT MaxFaults  \* bound: store operations that raise in a behaviour

ASSUME RunnerAssumption == MaxFaults \in Nat

Options  == {"workspace", "outputs", "setup", "cleanup"}
Commands == {"setup", "workload", "cleanup"}
Spans    == Commands \cup {"node", "canary"}

VARIABLES
  has,        \* the options the node is launched with
  pc,
  scope,      \* the spans whose `async with` body is being run
  spans,      \* each span's last event: "none", "open", or the status of its close
  canary,     \* the verdict: "none", "passed" or "failed"
  rc,         \* each command's exit code: "none" (not ended), "zero" or "nonzero"
  running,    \* the child processes
  raised,     \* an exception is on its way out of run_node_in_sandbox
  result,     \* the NodeResult: its status, and whether output_archive is set
  beat,       \* the heartbeat task: "on", "dead" (it raised) or "cancelled"
  outbox,     \* the output archive is in the store
  resultObj,  \* the status in result.json, "none" until put
  archive,    \* result.json names an output archive
  manifest,   \* the manifest is in the store
  exit,       \* the exit code of the process
  killed,     \* it was killed from outside
  faults      \* store operations that raised

spanVars   == <<scope, spans>>
cmdVars    == <<rc, running>>
storeVars  == <<outbox, resultObj, archive, manifest>>
endVars    == <<exit, killed>>
vars == <<has, pc, spanVars, canary, cmdVars, raised, result, beat, storeVars, endVars, faults>>

Body == {"start", "canary", "gate", "stage", "setup", "workload", "collect", "leave"}
Success == [result EXCEPT !.status = "success"]
Failure == [result EXCEPT !.status = "failure"]

-----------------------------------------------------------------------------
(* The decisions of the code, each after slips the properties exclude. *)

\* The `finally`: the cleanup hook, if there is one, whatever happened before.
AfterBody == IF "cleanup" \in has THEN "cleanup" ELSE "result"

AfterCleanupIfClean == IF raised THEN "ended" ELSE "result"
\* What the cleanup hook does is forgotten; the result is always put.
AfterCleanup == "result"

\* The workload's exit code decides the status.
StatusOf(code) == IF code = "zero" THEN Success ELSE Failure

AfterSetupAnyway(code) == "workload"
AfterSetupReturns(code) == IF code = "zero" THEN "workload" ELSE "result"
\* A failed setup hook skips the workload.
AfterSetup(code) == IF code = "zero" THEN "workload" ELSE "leave"

ClosedIfClean(s, status) == IF status = "failure" THEN spans ELSE [spans EXCEPT ![s] = status]
\* A span is closed on every way out of its body.
Closed(s, status) == [spans EXCEPT ![s] = status]

ExitOfResult == IF result.status = "success" THEN "zero" ELSE "nonzero"
\* runner_main: 0 on success; an exception ends the process with 1.
ExitCode == IF result.status = "success" /\ ~raised THEN "zero" ELSE "nonzero"

-----------------------------------------------------------------------------
Init ==
  /\ has \in SUBSET Options
  /\ pc = "start"
  /\ scope = {} /\ spans = [s \in Spans |-> "none"]
  /\ canary = "none"
  /\ rc = [c \in Commands |-> "none"] /\ running = {}
  /\ raised = FALSE
  /\ result = [status |-> "failure", archive |-> FALSE]
  /\ beat = "on"
  /\ outbox = FALSE /\ resultObj = "none" /\ archive = FALSE /\ manifest = FALSE
  /\ exit = "none" /\ killed = FALSE
  /\ faults = 0
-----------------------------------------------------------------------------
(* The body of run_node_in_sandbox *)

\* The last thing a step does is emit an event, which may raise.
EmitThen(next) ==
  \/ pc' = next /\ UNCHANGED <<raised, faults>>
  \/ faults < MaxFaults /\ faults' = faults + 1 /\ raised' = TRUE /\ pc' = "unwind"

\* `async with em.span(s)`: the body is entered only if the open event was shipped.
Open(s, next) ==
  /\ spans' = [spans EXCEPT ![s] = "open"]
  /\ EmitThen(next)
  /\ scope' = IF pc' = "unwind" THEN scope ELSE scope \cup {s}

Start ==
  /\ pc = "start"
  /\ Open("node", "canary")
  /\ UNCHANGED <<has, canary, cmdVars, result, beat, storeVars, endVars>>

OpenCanary ==
  /\ pc = "canary"
  /\ Open("canary", "gate")
  /\ UNCHANGED <<has, canary, cmdVars, result, beat, storeVars, endVars>>

AfterStaging == IF "setup" \in has THEN "setup" ELSE "workload"
AfterGate == IF "workspace" \in has THEN "stage" ELSE AfterStaging

\* The verdict of the egress canary.
Gate ==
  /\ pc = "gate"
  /\ canary' \in {"passed", "failed"}
  /\ spans' = Closed("canary", "success")
  /\ scope' = {"node"}
  /\ EmitThen(IF canary' = "passed" THEN AfterGate ELSE "leave")
  /\ UNCHANGED <<has, cmdVars, result, beat, storeVars, endVars>>

\* stage_inputs, and the line that says so.
Stage ==
  /\ pc = "stage"
  /\ EmitThen(AfterStaging)
  /\ UNCHANGED <<has, spanVars, canary, cmdVars, result, beat, storeVars, endVars>>

\* _exec_logged, up to the start of the process.
Spawn(c) ==
  /\ pc = c /\ c \in {"setup", "workload"} /\ c \notin running
  /\ Open(c, c)
  /\ running' = IF pc' = "unwind" THEN running ELSE running \cup {c}
  /\ UNCHANGED <<has, canary, rc, result, beat, storeVars, endVars>>

\* The rest of _exec_logged for a command that ends with the given code.
Ends(c, code) ==
  /\ pc = c /\ c \in running
  /\ running' = running \ {c}
  /\ rc' = [rc EXCEPT ![c] = code]
  /\ spans' = Closed(c, "success")
  /\ scope' = {"node"}
  /\ UNCHANGED <<has, canary, beat, storeVars, endVars>>

SetupEnds(code) ==
  /\ Ends("setup", code)
  /\ EmitThen(AfterSetup(code))
  /\ UNCHANGED result

CollectsAnyway(code) == IF {"workspace", "outputs"} \subseteq has THEN "collect" ELSE "leave"
\* Outputs are collected of a workload that exited 0, if any are declared.
AfterWorkload(code) ==
  IF code = "zero" /\ {"workspace", "outputs"} \subseteq has THEN "collect" ELSE "leave"

\* The close event is emitted inside _exec_logged: if that raises, its return
\* value is lost and the status stays what it was.
WorkloadEnds(code) ==
  /\ Ends("workload", code)
  /\ EmitThen(AfterWorkload(code))
  /\ result' = IF pc' = "unwind" THEN result ELSE StatusOf(code)

NotAwaited == outbox
\* collect_outputs returns when its put has returned.
Collected == TRUE

\* collect_outputs, and the line that says so.
Collect ==
  /\ pc = "collect"
  /\ outbox' = Collected
  /\ result' = [result EXCEPT !.archive = TRUE]
  /\ EmitThen("leave")
  /\ UNCHANGED <<has, spanVars, canary, cmdVars, beat, resultObj, archive, manifest, endVars>>

\* The normal end of the node span.
Leave ==
  /\ pc = "leave"
  /\ spans' = Closed("node", "success")
  /\ scope' = {}
  /\ EmitThen(AfterBody)
  /\ UNCHANGED <<has, canary, cmdVars, result, beat, storeVars, endVars>>

\* Something else in the body raises: a command is not found, an input archive or
\* a declared output is missing, a line is longer than the stream reader's limit,
\* the store fails to serve an input or to take a line or the outputs.  A child
\* process that was being read runs on.
BodyFails ==
  /\ pc \in {"gate", "stage", "setup", "workload", "collect"}
  /\ raised' = TRUE /\ pc' = "unwind"
  /\ IF pc \in Commands /\ pc \notin running    \* the process could not be started
       THEN spans' = Closed(pc, "failure") /\ UNCHANGED scope
       ELSE UNCHANGED spanVars
  /\ outbox' \in (IF pc = "collect" THEN BOOLEAN ELSE {outbox})
  /\ UNCHANGED <<has, canary, cmdVars, result, beat, resultObj, archive, manifest, endVars, faults>>

\* The exception leaves the spans one by one, innermost first.
Unwind ==
  /\ pc = "unwind"
  /\ \/ scope = {} /\ pc' = AfterBody /\ UNCHANGED spanVars
     \/ \E s \in scope : /\ s = "node" => scope = {"node"}
                         /\ spans' = Closed(s, "failure")
                         /\ scope' = scope \ {s}
                         /\ UNCHANGED pc
  /\ UNCHANGED <<has, canary, cmdVars, raised, result, beat, storeVars, endVars, faults>>

-----------------------------------------------------------------------------
(* Its `finally` *)

CleanupStarts ==
  /\ pc = "cleanup" /\ "cleanup" \notin running
  /\ running' = running \cup {"cleanup"}
  /\ spans' = [spans EXCEPT !["cleanup"] = "open"]
  /\ UNCHANGED <<has, pc, scope, canary, rc, raised, result, beat, storeVars, endVars, faults>>

CleanupEnds ==
  /\ pc = "cleanup" /\ "cleanup" \in running
  /\ running' = running \ {"cleanup"}
  /\ spans' = Closed("cleanup", "success")
  /\ pc' = AfterCleanup
  /\ UNCHANGED <<has, scope, canary, rc, raised, result, beat, storeVars, endVars, faults>>

\* `except Exception: pass`.  If the open event raises, nothing closes the span.
CleanupFails ==
  /\ pc = "cleanup"
  /\ \/ faults < MaxFaults /\ faults' = faults + 1 /\ "cleanup" \notin running
        /\ spans' = [spans EXCEPT !["cleanup"] = "open"]
     \/ spans' = Closed("cleanup", "failure") /\ UNCHANGED faults
  /\ pc' = AfterCleanup
  /\ UNCHANGED <<has, scope, canary, cmdVars, raised, result, beat, storeVars, endVars>>

Cancelled == IF beat = "on" THEN "cancelled" ELSE beat

\* The heartbeat is cancelled and result.json put.
PutResult ==
  /\ pc = "result"
  /\ beat' = Cancelled
  /\ resultObj' = result.status /\ archive' = result.archive
  /\ pc' = "close"
  /\ UNCHANGED <<has, spanVars, canary, cmdVars, raised, result, outbox, manifest, endVars, faults>>

\* shipper.close: the remaining chunks and the manifest.
CloseShipper ==
  /\ pc = "close"
  /\ manifest' = TRUE
  /\ pc' = "ended"
  /\ UNCHANGED <<has, spanVars, canary, cmdVars, raised, result, beat, outbox, resultObj, archive,
                 endVars, faults>>

\* One of the two puts raises, with or without effect.  After result.json's, the
\* shipper is not closed any more.
FinallyFails ==
  /\ pc \in {"result", "close"} /\ faults < MaxFaults
  /\ faults' = faults + 1
  /\ raised' = TRUE /\ pc' = "ended"
  /\ beat' = Cancelled
  /\ \/ UNCHANGED <<resultObj, archive, manifest>>
     \/ pc = "result" /\ resultObj' = result.status /\ archive' = result.archive
        /\ UNCHANGED manifest
     \/ pc = "close" /\ manifest' = TRUE /\ UNCHANGED <<resultObj, archive>>
  /\ UNCHANGED <<has, spanVars, canary, cmdVars, result, outbox, endVars>>

\* runner_main.
Exit ==
  /\ pc = "ended"
  /\ exit' = ExitCode
  /\ pc' = "over" /\ running' = {}
  /\ UNCHANGED <<has, spanVars, canary, rc, raised, result, beat, storeVars, killed, faults>>

-----------------------------------------------------------------------------
(* Around it *)

\* tick raises: nothing restarts _heartbeat.
BeatFails ==
  /\ beat = "on" /\ pc # "over" /\ faults < MaxFaults
  /\ faults' = faults + 1
  /\ beat' = "dead"
  /\ UNCHANGED <<has, pc, spanVars, canary, cmdVars, raised, result, storeVars, endVars>>

\* A child that nobody waits for ends.
OrphanEnds(c) ==
  /\ c \in running /\ pc # c
  /\ running' = running \ {c}
  /\ UNCHANGED <<has, pc, spanVars, canary, rc, raised, result, beat, storeVars, endVars, faults>>

\* The sandbox is destroyed, or runs out of memory.
Kill ==
  /\ pc # "over"
  /\ pc' = "over" /\ running' = {}
  /\ exit' = "nonzero" /\ killed' = TRUE
  /\ UNCHANGED <<has, spanVars, canary, rc, raised, result, beat, storeVars, faults>>

-----------------------------------------------------------------------------
Run ==
  \/ Start \/ OpenCanary \/ Gate \/ Stage
  \/ \E c \in Commands : Spawn(c)
  \/ \E code \in {"zero", "nonzero"} : SetupEnds(code) \/ WorkloadEnds(code)
  \/ Collect \/ Leave \/ Unwind
  \/ CleanupStarts \/ CleanupEnds \/ PutResult \/ CloseShipper \/ Exit

Next ==
  \/ Run
  \/ BodyFails \/ CleanupFails \/ FinallyFails \/ BeatFails \/ Kill
  \/ \E c \in Commands : OrphanEnds(c)

Spec == Init /\ [][Next]_vars

\* The runner's coroutine is scheduled, and its child processes end.
FairSpec == Spec /\ WF_vars(Run)

-----------------------------------------------------------------------------
(* Properties *)

\* Type invariant.  Besides the types: every span of the body has been left before
\* its `finally` runs.
TypeOK ==
  /\ has \in SUBSET Options
  /\ pc \in Body \cup {"unwind", "cleanup", "result", "close", "ended", "over"}
  /\ scope \subseteq Spans
  /\ spans \in [Spans -> {"none", "open", "success", "failure"}]
  /\ canary \in {"none", "passed", "failed"}
  /\ rc \in [Commands -> {"none", "zero", "nonzero"}]
  /\ running \subseteq Commands
  /\ raised \in BOOLEAN
  /\ result \in [status : {"success", "failure"}, archive : BOOLEAN]
  /\ beat \in {"on", "dead", "cancelled"}
  /\ outbox \in BOOLEAN /\ archive \in BOOLEAN /\ manifest \in BOOLEAN
  /\ resultObj \in {"none", "success", "failure"}
  /\ exit \in {"none", "zero", "nonzero"} /\ killed \in BOOLEAN
  /\ faults \in 0..MaxFaults
  /\ pc \in {"cleanup", "result", "close", "ended"} => scope = {}

\* result.json says success only of a node whose canary passed, whose setup hook
\* (if any) and workload exited 0, whatever raised or failed on the way.
SuccessIsReal ==
  resultObj = "success" =>
    /\ canary = "passed"
    /\ rc["workload"] = "zero"
    /\ "setup" \in has => rc["setup"] = "zero"

\* An archive that result.json names is in the store.
ArchiveIsThere == archive => outbox

\* A guest that exits 0 has written success, sealed its telemetry and delivered
\* the outputs it was asked for.
ZeroMeansAllDone ==
  exit = "zero" =>
    /\ manifest /\ resultObj = "success"
    /\ {"workspace", "outputs"} \subseteq has => outbox /\ archive

\* While the store serves, a sealed event stream has no span left open, whatever
\* else raised.
SpansAreClosed == manifest /\ faults = 0 => \A s \in Spans : spans[s] # "open"

\* While the store serves and nobody kills it, the guest reports: result.json and
\* the manifest are written in the end, however the node failed.
ReportsInTheEnd == <>(killed \/ faults > 0 \/ (manifest /\ resultObj # "none"))

Report == INSTANCE GuestReport

\* The runner keeps the promises the host's driver relies on.
ReportSpec == Report!Spec

Worker == INSTANCE GuestWork WITH rc <- rc["workload"], Nothing <- FALSE

\* What it reports is what its work was: the outputs are put before result.json, not after
\* a workload that failed, and success is written of one that exited 0 (what SandboxRun
\* takes for granted of a guest).
WorkerSpec == Worker!Spec
=============================================================================
