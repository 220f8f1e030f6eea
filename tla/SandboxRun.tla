------------------------------ MODULE SandboxRun ------------------------------
(***************************************************************************)
(* Whole runs of SubstrateBackend (backends/substrate.py), one after the   *)
(* other on one host workspace: apply egress, stage the workspace in, drive *)
(* a guest, fetch what was declared (staging.py), collect the artifacts     *)
(* (backends/artifacts.py), clear up.                                      *)
(*                                                                         *)
(* The parts with modules of their own appear as what those promise: the   *)
(* guest works and reports by the actions of GuestWork, which Runner       *)
(* implements, the drive goes by those of NodeDrive, which Driver          *)
(* implements, and is free to give up at any time (SandboxRunProofs).  A    *)
(* run has a prefix of its own, so the store's content is that of the      *)
(* current run; a sandbox an earlier run left alive writes elsewhere and   *)
(* is no longer followed.                                                  *)
(*                                                                         *)
(* A file's content is the number of the run whose program wrote it, 0 for *)
(* the user's own, and Absent.  A workspace or an archive is a function    *)
(* from files to contents.  A declared path is a record: a plain file, a   *)
(* directory, or a glob pattern, and the files it covers.  The archives of *)
(* an outbox are numbered as the conduits list them, by name; the program  *)
(* may put its own before and after the runner's output.tar.gz.            *)
(***************************************************************************)
EXTENDS Integers, FiniteSets

CONSTANTS
  Files,     \* the paths of files
  Verdict,   \* among them, result.json
  Excluded,  \* those under a directory of _DEFAULT_EXCLUDES
  Outside,   \* those whose path on the host leads out of it, through an absolute symlink
  Given,     \* the files the user's workspace may hold at first: a set of sets
  Paths,     \* what may be declared as output_paths
  Names,     \* archives of an outbox have the names 1..Names
  Output,    \* among them, output.tar.gz
  MaxOwn,    \* bound: names the program itself puts an archive under, in one run
  MaxRuns,   \* bound: runs
  MaxFaults  \* bound: operations of host or guest that raise

PathType == [kind : {"file", "dir", "glob"}, covers : SUBSET Files]

ASSUME SandboxAssumption ==
  /\ Verdict \in Files /\ Excluded \subseteq Files /\ Outside \subseteq Files
  /\ Given \subseteq SUBSET Files /\ Paths \subseteq PathType
  /\ \A p \in Paths : p.kind = "file" => \E f \in Files : p.covers = {f}
  /\ Names \in Nat /\ Output \in 1..Names
  /\ MaxOwn \in Nat /\ MaxRuns \in Nat /\ MaxFaults \in Nat

VARIABLES
  \* the host
  pc,         \* where the run is; "idle" before, between and after runs
  number,     \* runs begun
  asked,      \* its arguments: is there a workspace, the output_paths
  host,       \* the host's workspace
  status,     \* how drive_node ended: "none" (not yet), "success", "failure", "raised"
  listed,     \* the archives fetch_outputs has listed and not got yet
  got,        \* the one it is working on
  todo,       \* the declared paths it has not looked up in that
  fetched,    \* history: what it got so far, a later archive over an earlier one
  outcome,    \* of the last run
  \* the store
  inbox,      \* the input archive
  outbox,     \* the output archives by name, Empty for none
  resultObj,  \* the status in result.json (GuestReport)
  manifest,   \* the manifest is there (GuestReport)
  \* the guest
  gpc,        \* "none", "stage", "work", "collect", "report", "over"
  box,        \* its workspace
  rc,         \* the program's exit code: "none", "zero" or "nonzero"
  exit,       \* the guest's (GuestReport)
  faults      \* operations that raised

callVars   == <<number, asked, outcome>>
fetchVars  == <<host, listed, got, todo, fetched>>
hostVars   == <<pc, callVars, status, fetchVars, inbox>>
reportVars == <<resultObj, manifest, exit>>
guestVars  == <<gpc, box, rc, reportVars, outbox>>
vars == <<hostVars, guestVars, faults>>

Report == INSTANCE GuestReport

Absent  == -1
Content == Absent..MaxRuns
Trees   == [Files -> Content]
Empty   == [f \in Files |-> Absent]
Archives   == 1..Names
NoArchives == [a \in Archives |-> Empty]
Over(new, old) == [f \in Files |-> IF new[f] = Absent THEN old[f] ELSE new[f]]
NoOutcome == [kind |-> "none", ok |-> FALSE, artifacts |-> {}, verdict |-> Absent]
Raised    == [NoOutcome EXCEPT !.kind = "raised"]

-----------------------------------------------------------------------------
(* The decisions of the code, each after a slip the properties exclude. *)

InputsOf(tree) == [f \in Files |-> IF f \in Excluded \cup Outside THEN Absent ELSE tree[f]]

\* put_dir leaves out some directories and the absolute links.
Packed == InputsOf(host)

RunsAnyway == "work"
\* A guest whose inputs cannot be staged does not run its program.
AfterStagingFailed == "report"

ReportFirst(code) == "report"
\* The outputs are put before result.json.
AfterWork(code) == IF code = "zero" /\ asked.outputs # {} THEN "collect" ELSE "report"

\* _extract_declared: the regular files a declared path matches as a glob pattern.
\* A directory's name matches the directory, which is no file.
Matches(p) == IF p.kind = "dir" THEN {} ELSE p.covers

FollowsLinks(f) == TRUE
\* A target that resolves outside the workspace is passed over.
Contained(f) == f \notin Outside

UntilMismatch(p) == IF Matches(p) = {} THEN {} ELSE todo \ {p}
\* The declared paths are looked up one after the other, whatever one matches.
Remaining(p) == todo \ {p}

\* drive_node: the status in result.json, if there is one and the sandbox has ended.
ReportedStatus == IF exit # "none" /\ resultObj # "none" THEN resultObj ELSE "failure"

OldPrefix == outbox
\* A run's prefix is new: nothing is under it.
FreshOutbox == NoArchives

-----------------------------------------------------------------------------
(* The host *)

Init ==
  /\ pc = "idle" /\ number = 0
  /\ asked = [workspace |-> FALSE, outputs |-> {}]
  /\ outcome = NoOutcome
  /\ status = "none"
  /\ \E g \in Given : host = [f \in Files |-> IF f \in g THEN 0 ELSE Absent]
  /\ listed = {} /\ got = Empty /\ todo = {}
  /\ fetched = Empty /\ inbox = Empty /\ outbox = NoArchives
  /\ gpc = "none" /\ box = Empty /\ rc = "none"
  /\ Report!Init
  /\ faults = 0

Fault == faults < MaxFaults /\ faults' = faults + 1

\* apply_egress.
Begin ==
  /\ pc = "idle" /\ number < MaxRuns
  /\ number' = number + 1
  /\ \E w \in BOOLEAN, o \in SUBSET Paths : asked' = [workspace |-> w, outputs |-> o]
  /\ outcome' = NoOutcome /\ status' = "none"
  /\ inbox' = Empty /\ outbox' = FreshOutbox
  /\ gpc' = "none" /\ box' = Empty /\ rc' = "none"
  /\ resultObj' = "none" /\ manifest' = FALSE /\ exit' = "none"
  /\ listed' = {} /\ got' = Empty /\ todo' = {} /\ fetched' = Empty
  /\ pc' = "stage"
  /\ UNCHANGED <<host, faults>>

\* put_dir, if there is a workspace.
StageIn ==
  /\ pc = "stage"
  /\ inbox' = IF asked.workspace THEN Packed ELSE Empty
  /\ pc' = "launch"
  /\ UNCHANGED <<callVars, status, fetchVars, guestVars, faults>>

Launch ==
  /\ pc = "launch"
  /\ gpc' = "stage"
  /\ pc' = "drive"
  /\ UNCHANGED <<callVars, status, fetchVars, inbox, outbox, box, rc, reportVars, faults>>

\* The sandbox is over, or given up (unstartable, lost, silent) whatever it is doing;
\* result.json is read, or the read fails; or a callback, a call or a cancellation raises.
DriveEnds ==
  /\ pc = "drive"
  /\ \/ status' \in {ReportedStatus, "failure"} /\ UNCHANGED faults
     \/ status' = "raised" /\ Fault
  /\ pc' = "reap"
  /\ UNCHANGED <<callVars, fetchVars, inbox, guestVars>>

Killed ==
  /\ gpc' = "over"
  /\ exit' = IF exit = "none" THEN "nonzero" ELSE exit
  /\ UNCHANGED <<box, rc, resultObj, manifest, outbox>>

\* Outputs are fetched and looked for only with a workspace to put them in.
Looks == asked.workspace /\ asked.outputs # {}

\* destroy: the sandbox is gone, or its removal failed and nobody looked at that.
Reap ==
  /\ pc = "reap"
  /\ \/ Killed /\ UNCHANGED faults
     \/ Fault /\ UNCHANGED guestVars
  /\ IF status = "raised"
       THEN pc' = "idle" /\ outcome' = Raised
       ELSE /\ pc' = IF Looks THEN "fetch" ELSE "return"
            /\ UNCHANGED outcome
  /\ UNCHANGED <<number, asked, status, fetchVars, inbox>>

\* fetch_outputs lists the outbox once ...
Fetch ==
  /\ pc = "fetch"
  /\ listed' = {a \in Archives : outbox[a] # Empty}
  /\ pc' = "get"
  /\ UNCHANGED <<callVars, status, host, got, todo, fetched, inbox, guestVars, faults>>

\* ... and gets every archive in that order, the next when one is extracted.
Get ==
  /\ pc = "get"
  /\ \E a \in listed :
       /\ \A b \in listed : a <= b
       /\ listed' = listed \ {a}
       /\ got' = outbox[a] /\ fetched' = Over(outbox[a], fetched)
  /\ todo' = asked.outputs
  /\ pc' = "copy"
  /\ UNCHANGED <<callVars, status, host, inbox, guestVars, faults>>

FetchEnds ==
  /\ pc = "get" /\ listed = {}
  /\ pc' = "return"
  /\ UNCHANGED <<callVars, status, fetchVars, inbox, guestVars, faults>>

Taken(p) == {f \in Matches(p) : got[f] # Absent /\ Contained(f)}

\* _extract_declared goes over the declared paths.
Copy ==
  /\ pc = "copy"
  /\ \E p \in todo :
       /\ host' = [f \in Files |-> IF f \in Taken(p) THEN got[f] ELSE host[f]]
       /\ todo' = Remaining(p)
  /\ UNCHANGED <<pc, callVars, status, listed, got, fetched, inbox, guestVars, faults>>

CopyEnds ==
  /\ pc = "copy" /\ todo = {}
  /\ pc' = "get"
  /\ UNCHANGED <<callVars, status, fetchVars, inbox, guestVars, faults>>

\* _collect and read_result_json look at the host's workspace (a directory among the
\* artifacts is left out).
Found == LET named == UNION {p.covers : p \in {q \in asked.outputs : q.kind # "dir"}}
         IN IF Looks THEN {f \in named : host[f] # Absent} ELSE {}
ReadVerdict == IF Looks THEN host[Verdict] ELSE Absent

\* The RunResult; then the finally clears egress and closes the conduit.
Return ==
  /\ pc = "return"
  /\ outcome' = [kind |-> "returned", ok |-> status = "success",
                 artifacts |-> Found, verdict |-> ReadVerdict]
  /\ pc' = "idle"
  /\ UNCHANGED <<number, asked, status, fetchVars, inbox, guestVars, faults>>

\* Anything outside the drive raises.  In the middle of a pattern some of its files are
\* copied.
RunRaises ==
  /\ pc \in {"stage", "launch", "reap", "fetch", "get", "copy", "return"} /\ Fault
  /\ \/ UNCHANGED host
     \/ pc = "copy" /\ \E p \in todo : \E done \in SUBSET Taken(p) :
          host' = [f \in Files |-> IF f \in done THEN got[f] ELSE host[f]]
  /\ outcome' = Raised
  /\ pc' = "idle"
  /\ UNCHANGED <<number, asked, status, listed, got, todo, fetched, inbox, guestVars>>

-----------------------------------------------------------------------------
(* The guest *)

GuestStage ==
  /\ gpc = "stage"
  /\ box' = inbox
  /\ gpc' = "work"
  /\ UNCHANGED <<hostVars, rc, reportVars, outbox, faults>>

\* The canary or the staging fails; some inputs may have been extracted.
GuestStageFails ==
  /\ gpc = "stage"
  /\ \E some \in SUBSET Files : box' = [f \in Files |-> IF f \in some THEN inbox[f] ELSE Absent]
  /\ gpc' = AfterStagingFailed
  /\ UNCHANGED <<hostVars, rc, reportVars, outbox, faults>>

\* The program writes some files, leaves the others alone or removes them, and ends.
Work ==
  /\ gpc = "work"
  /\ \E written \in SUBSET Files, others \in {box, Empty} :
       box' = [f \in Files |-> IF f \in written THEN number ELSE others[f]]
  /\ \E code \in {"zero", "nonzero"} : rc' = code /\ gpc' = AfterWork(code)
  /\ UNCHANGED <<hostVars, reportVars, outbox, faults>>

\* It may also put archives of its own into the outbox, under any name (the most: with
\* every file), as the conduit is mounted in the guest.
WorkloadPuts ==
  /\ gpc = "work" /\ Cardinality({a \in Archives : outbox[a] # Empty}) < MaxOwn
  /\ \E a \in Archives : outbox' = [outbox EXCEPT ![a] = [f \in Files |-> number]]
  /\ UNCHANGED <<hostVars, gpc, box, rc, reportVars, faults>>

\* tar.add takes a declared path by its name: there is no file of a pattern's name.
\* No directory is left out here.
Exists(p) == p.kind # "glob" /\ \E f \in p.covers : box[f] # Absent

Collected ==
  [f \in Files |-> IF \E p \in asked.outputs : f \in p.covers
                     THEN box[f] ELSE Absent]
WithOutput == [outbox EXCEPT ![Output] = Collected]

Collect ==
  /\ gpc = "collect"
  /\ \A p \in asked.outputs : Exists(p)
  /\ outbox' = WithOutput
  /\ gpc' = "report"
  /\ UNCHANGED <<hostVars, box, rc, reportVars, faults>>

\* A declared path is not there, or the put raises, with or without effect.
CollectFails ==
  /\ gpc = "collect"
  /\ \/ (\E p \in asked.outputs : ~Exists(p)) /\ UNCHANGED <<outbox, faults>>
     \/ (\A p \in asked.outputs : Exists(p)) /\ Fault /\ outbox' \in {outbox, WithOutput}
  /\ gpc' = "report"
  /\ UNCHANGED <<hostVars, box, rc, reportVars>>

\* result.json, the manifest and the end.  The status is success only if the program
\* exited 0; that is decided before the outputs are collected.
GuestReports ==
  /\ gpc = "report"
  /\ Report!Next
  /\ resultObj' = "success" => rc = "zero"
  /\ gpc' = IF exit' = "none" THEN "report" ELSE "over"
  /\ UNCHANGED <<hostVars, box, rc, outbox, faults>>

GuestDies ==
  /\ gpc \notin {"none", "over"}
  /\ Killed
  /\ UNCHANGED <<hostVars, faults>>

-----------------------------------------------------------------------------
Host  == Begin \/ StageIn \/ Launch \/ DriveEnds \/ Reap \/ Fetch \/ Get \/ FetchEnds \/ Copy
         \/ CopyEnds \/ Return \/ RunRaises
Guest == GuestStage \/ GuestStageFails \/ Work \/ WorkloadPuts \/ Collect \/ CollectFails
         \/ GuestReports \/ GuestDies

Next == Host \/ Guest

Spec == Init /\ [][Next]_vars
-----------------------------------------------------------------------------
(* Properties *)

Returned == pc = "idle" /\ outcome.kind = "returned"

\* Type invariant.  Besides the types: before its launch a run has no guest and nothing
\* in its outbox.
TypeOK ==
  /\ pc \in {"idle", "stage", "launch", "drive", "reap", "fetch", "get", "copy", "return"}
  /\ number \in 0..MaxRuns
  /\ asked \in [workspace : BOOLEAN, outputs : SUBSET Paths]
  /\ outcome \in [kind : {"none", "returned", "raised"}, ok : BOOLEAN,
                  artifacts : SUBSET Files, verdict : Content]
  /\ status \in {"none", "success", "failure", "raised"}
  /\ host \in Trees /\ listed \subseteq Archives /\ got \in Trees /\ todo \subseteq Paths
  /\ fetched \in Trees /\ inbox \in Trees /\ outbox \in [Archives -> Trees]
  /\ gpc \in {"none", "stage", "work", "collect", "report", "over"}
  /\ box \in Trees /\ rc \in {"none", "zero", "nonzero"}
  /\ resultObj \in {"none", "success", "failure"} /\ manifest \in BOOLEAN
  /\ exit \in {"none", "zero", "nonzero"}
  /\ faults \in 0..MaxFaults
  /\ pc \in {"stage", "launch"} => gpc = "none" /\ outbox = NoArchives

\* A program whose host is still there works on exactly the workspace that was handed in,
\* less what staging leaves out, or does not start.
InputsAreComplete ==
  gpc = "work" /\ pc \in {"drive", "reap"} =>
    box = IF asked.workspace THEN InputsOf(host) ELSE Empty

\* A run that returns exit code 0 had its program run to the end in its own sandbox, and
\* exit 0, whatever failed on the way.
SuccessIsThePrograms == Returned /\ outcome.ok => rc = "zero" /\ gpc = "over"

\* A run changes no file of the workspace but the declared ones inside it, and those
\* only to what its guest put into the outbox.
OnlyDeclaredChange ==
  [][\A f \in Files : host'[f] # host[f] =>
       /\ f \notin Outside
       /\ \E p \in asked.outputs : p.kind # "dir" /\ f \in p.covers
       /\ host'[f] = got[f]]_vars

\* A run that returns has got every archive it listed and copied every declared file of
\* them, the last one that has it winning: a part is there only after an exception.
AllOrRaise ==
  Returned =>
    /\ listed = {}
    /\ \A p \in asked.outputs : p.kind # "dir" =>
         \A f \in p.covers \ Outside : fetched[f] # Absent => host[f] = fetched[f]

\* Without a fault, what is declared by name arrives: after exit code 0 the host has each
\* declared file as the program left it, provided the program left them all, and put no
\* archive with that file whose name comes after output.tar.gz.
DeclaredFilesArrive ==
  /\ Returned /\ outcome.ok /\ faults = 0 /\ asked.workspace
  /\ \A p \in asked.outputs : p.kind = "file" /\ \E f \in p.covers : box[f] # Absent
  => \A p \in asked.outputs : \A f \in p.covers \ Outside :
       /\ f \in outcome.artifacts
       /\ \/ host[f] = box[f]
          \/ \E a \in Archives : a > Output /\ outbox[a][f] # Absent

\* "output_paths ... glob patterns collected back as artifacts" (README.md): what a
\* declared pattern matches after the program is returned by a run with exit code 0.
MatchesAreReturned ==
  Returned /\ outcome.ok /\ asked.workspace =>
    \A p \in asked.outputs : p.kind = "glob" =>
      \A f \in p.covers \ Outside : box[f] # Absent => f \in outcome.artifacts

\* "result (parsed result.json if the program wrote one)" (README.md): the verdict of a
\* run whose program ended is one that program wrote.
VerdictIsOfThisRun ==
  Returned /\ rc # "none" /\ outcome.verdict # Absent => outcome.verdict = number
=============================================================================
