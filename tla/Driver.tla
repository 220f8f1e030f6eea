-------------------------------- MODULE Driver --------------------------------
(***************************************************************************)
(* The host's side of one node (driver.py): drive_node takes a lease on a  *)
(* sandbox, tails its telemetry, asks the substrate for its phase, decides *)
(* when and why the node is over, reaps the sandbox and reads result.json. *)
(*                                                                         *)
(* The sandbox, its guest and the substrate are the environment: they move *)
(* between any two awaits of the driver.  Which lines a poll returns is    *)
(* Telemetry's subject; here `unread` says whether the store holds a chunk *)
(* the reader has not taken up, by the steps of ChunkStream, which both    *)
(* modules keep to.  Time is counted in poll intervals: it passes          *)
(* while the driver sleeps, and for up to MaxLag intervals while one of    *)
(* its calls is slow to answer.                                            *)
(***************************************************************************)
EXTENDS Naturals

CONSTANTS
  HeartbeatEvery,    \* a guest that is well ships a chunk within so many intervals
  DeadAfter,         \* dead_after_s
  UnstartablePolls,  \* unstartable_polls
  GonePolls,         \* external_gone_polls
  MaxLag,            \* bound: intervals the calls of one round may take
  MaxBlips           \* bound: status answers "unknown" for a sandbox that is there

ASSUME DriverAssumption ==
  /\ HeartbeatEvery \in Nat /\ DeadAfter \in Nat
  /\ UnstartablePolls \in Nat \ {0} /\ GonePolls \in Nat \ {0}
  /\ MaxLag \in Nat /\ MaxBlips \in Nat

VARIABLES
  \* the substrate and the guest
  phase,      \* the sandbox's phase; "none" before the launch, "gone" after its end
  waiting,    \* a pending sandbox waits for one of _FATAL_WAITING
  guest,      \* how far the runner is: "off", "working", "resulted", "sealed", "over"
  hung,       \* the guest is up and will ship nothing more
  quiet,      \* intervals since the guest last shipped a chunk
  blips,      \* status answers so far that missed a sandbox that was there
  blipRun,    \* how many of them in a row
  \* the store
  manifest,   \* the manifest object exists
  resultObj,  \* what result.json holds
  \* the driver
  pc,
  observed,   \* phase, as last reported
  armed,      \* reader.armed
  unread,     \* the store holds chunks beyond reader._seen
  sawTotal,   \* reader._total is known (then nothing is unread: see Poll)
  silence,    \* clock() - reader._last_progress, saturated just above DeadAfter
  lag,        \* intervals spent in this round's calls
  goneStreak, \* unknown_streak, saturated at GonePolls
  stuckStreak,\* unstartable_streak
  withReady,  \* drive_node_raw was called with result_ready, so not by drive_node
  outcome,    \* the disposition; "raised" when an exception ends the lease
  leaked,     \* a launch or a destroy failed without saying what became of the sandbox
  verdict     \* status of the NodeResult that drive_node returns

guestVars  == <<phase, waiting, guest, hung, quiet>>
blipVars   == <<blips, blipRun>>
storeVars  == <<manifest, resultObj>>
readerVars == <<armed, unread, sawTotal, silence>>
streakVars == <<goneStreak, stuckStreak, withReady>>
endVars    == <<outcome, leaked, verdict>>
hostVars == <<blipVars, pc, observed, armed, sawTotal, silence, lag, streakVars, endVars>>
vars == <<guestVars, blipVars, storeVars, pc, observed, readerVars, lag, streakVars, endVars>>

Phases   == {"pending", "running", "succeeded", "failed"}
InLease  == {"poll", "ready", "status", "judge", "final"}
Returned == pc \in {"done", "raised"}
Exists   == phase \in Phases
Beating  == phase = "running" /\ ~hung /\ guest \in {"working", "resulted", "sealed"}

-----------------------------------------------------------------------------
(* The driver's decisions, each after slips the properties exclude. *)

TerminalIfSucceeded(p) == p = "succeeded"
\* SandboxStatus.terminal
Terminal(p) == p \in {"succeeded", "failed"}

\* ChunkReader.finished: a listing that shows the manifest shows every chunk.
Finished == sawTotal /\ ~unread

IsDeadAtWindow == armed /\ ~Finished /\ silence >= DeadAfter
\* ChunkReader.is_dead
IsDead == armed /\ ~Finished /\ silence > DeadAfter

\* unknown_streak after a status answer p
GoneStreakAfter(p) == IF p # "unknown" THEN 0
                      ELSE IF goneStreak < GonePolls THEN goneStreak + 1 ELSE goneStreak

StuckStreakWhileRunning(p, fatal) == IF p = "running" /\ fatal THEN stuckStreak + 1 ELSE 0
\* unstartable_streak after a status answer p with a fatal waiting reason or not
StuckStreakAfter(p, fatal) == IF p # "running" /\ fatal THEN stuckStreak + 1 ELSE 0

GoneIfDead == goneStreak >= GonePolls /\ IsDead
\* A sustained not-found streak, conclusive alone for a sandbox that never ran.
GoneForGood == goneStreak >= GonePolls /\ (IsDead \/ ~armed)

ReapNothing == "raised"
\* The `finally` of the lease runs whatever ended its body.
AfterError == "reap"

ArmAtOnce(p) == TRUE
\* The reader is armed by the first "running".
Arms(p) == p = "running"

VerdictOfStore == IF resultObj = "success" THEN "success" ELSE "failure"
\* drive_node: result.json counts only for a completed node; absent or unreadable
\* it is a failure.
Verdict == IF outcome = "completed" /\ resultObj = "success" THEN "success" ELSE "failure"

-----------------------------------------------------------------------------
Init ==
  /\ phase = "none" /\ waiting = FALSE /\ guest = "off" /\ hung = FALSE /\ quiet = 0
  /\ blips = 0 /\ blipRun = 0
  /\ manifest = FALSE /\ resultObj = "none"
  /\ pc = "launch" /\ observed = "unknown"
  /\ armed = FALSE /\ unread = FALSE /\ sawTotal = FALSE /\ silence = 0
  /\ lag = 0 /\ goneStreak = 0 /\ stuckStreak = 0 /\ withReady \in BOOLEAN
  /\ outcome = "none" /\ leaked = FALSE /\ verdict = "none"

-----------------------------------------------------------------------------
(* The driver *)

Launch ==
  /\ pc = "launch"
  /\ pc' = "poll"
  /\ phase' = "pending"
  /\ UNCHANGED <<waiting, guest, hung, quiet, blipVars, storeVars, observed, readerVars, lag,
                 streakVars, endVars>>

\* runtime.launch raises, or is cancelled: there is no handle, so no reap; the
\* sandbox may have been created all the same.
LaunchFails ==
  /\ pc = "launch"
  /\ pc' = "raised"
  /\ outcome' = "raised"
  /\ \E made \in BOOLEAN : /\ phase' = IF made THEN "pending" ELSE phase
                           /\ leaked' = made
  /\ UNCHANGED <<waiting, guest, hung, quiet, blipVars, storeVars, observed, readerVars, lag,
                 streakVars, verdict>>

\* What reader.poll does: read all that is listed; lines are progress.
ReadAll ==
  /\ unread' = FALSE
  /\ silence' = IF unread THEN 0 ELSE silence
  /\ sawTotal' = (sawTotal \/ manifest)

Poll ==
  /\ pc = "poll"
  /\ ReadAll
  /\ lag' = 0
  /\ pc' = IF withReady THEN "ready" ELSE "status"
  /\ UNCHANGED <<guestVars, blipVars, storeVars, observed, armed, streakVars, endVars>>

\* result_ready: complete at once when the work product is there.
CheckReady ==
  /\ pc = "ready"
  /\ IF resultObj # "none"
       THEN pc' = "reap" /\ outcome' = "completed"
       ELSE pc' = "status" /\ UNCHANGED outcome
  /\ UNCHANGED <<guestVars, blipVars, storeVars, observed, readerVars, lag, streakVars,
                 leaked, verdict>>

\* runtime.status answers p, and the streaks and the silence window follow.
Answer(p, fatal) ==
  /\ pc = "status"
  /\ pc' = "judge"
  /\ observed' = p
  /\ armed' = (armed \/ Arms(p))
  /\ silence' = IF Arms(p) /\ ~armed THEN 0 ELSE silence
  /\ goneStreak' = GoneStreakAfter(p)
  /\ stuckStreak' = StuckStreakAfter(p, fatal)
  /\ UNCHANGED <<guestVars, storeVars, unread, sawTotal, lag, withReady, endVars>>

Status ==
  /\ Answer(IF Exists THEN phase ELSE "unknown", phase = "pending" /\ waiting)
  /\ blipRun' = 0
  /\ UNCHANGED blips

\* The substrate misses a sandbox that is there (nerdctl inspect failing, a node
\* out of reach), for fewer than GonePolls answers in a row.
StatusMisses ==
  /\ Exists /\ blips < MaxBlips /\ blipRun + 1 < GonePolls
  /\ Answer("unknown", FALSE)
  /\ blips' = blips + 1 /\ blipRun' = blipRun + 1

\* The tests on the answer, in the order of the code.
Completed == Terminal(observed)
Unstartable == ~Completed /\ stuckStreak >= UnstartablePolls
External == ~Completed /\ ~Unstartable /\ GoneForGood
Silent == ~Completed /\ ~Unstartable /\ ~External /\ IsDead

SeeTerminal ==
  /\ pc = "judge" /\ Completed
  /\ pc' = "final"
  /\ UNCHANGED <<guestVars, blipVars, storeVars, observed, readerVars, lag, streakVars, endVars>>

GiveUp(test, disposition) ==
  /\ pc = "judge" /\ test
  /\ pc' = "reap"
  /\ outcome' = disposition
  /\ UNCHANGED <<guestVars, blipVars, storeVars, observed, readerVars, lag, streakVars,
                 leaked, verdict>>

\* One interval goes by: a guest that is well has shipped in time.
Tick ==
  /\ Beating => quiet < HeartbeatEvery
  /\ quiet' = IF Beating THEN quiet + 1 ELSE quiet
  /\ silence' = IF silence <= DeadAfter THEN silence + 1 ELSE silence

Sleep ==
  /\ pc = "judge" /\ ~Completed /\ ~Unstartable /\ ~External /\ ~Silent
  /\ Tick
  /\ pc' = "poll"
  /\ UNCHANGED <<phase, waiting, guest, hung, blipVars, storeVars, observed, armed, unread,
                 sawTotal, lag, streakVars, endVars>>

\* on_event, result_ready or status is slow: the clock runs after the last poll.
Lag ==
  /\ pc = "status" /\ lag < MaxLag
  /\ Tick
  /\ lag' = lag + 1
  /\ UNCHANGED <<phase, waiting, guest, hung, blipVars, storeVars, pc, observed, armed, unread,
                 sawTotal, streakVars, endVars>>

NoFinalPoll ==
  /\ pc = "final"
  /\ pc' = "reap"
  /\ outcome' = "completed"
  /\ UNCHANGED <<guestVars, blipVars, storeVars, observed, readerVars, lag, streakVars,
                 leaked, verdict>>

\* After a terminal phase the tail is read once more.
FinalPoll ==
  /\ pc = "final"
  /\ ReadAll
  /\ pc' = "reap"
  /\ outcome' = "completed"
  /\ UNCHANGED <<guestVars, blipVars, storeVars, observed, armed, lag, streakVars,
                 leaked, verdict>>

\* The store, the substrate or on_event raises, or the caller cancels the drive.
Error ==
  /\ pc \in InLease
  /\ pc' = AfterError
  /\ outcome' = "raised"
  /\ UNCHANGED <<guestVars, blipVars, storeVars, observed, readerVars, lag, streakVars, leaked,
                 verdict>>

Reap ==
  /\ pc = "reap"
  /\ phase' = "gone" /\ guest' = "over"
  /\ pc' = IF outcome = "raised" THEN "raised" ELSE "read"
  /\ UNCHANGED <<waiting, hung, quiet, blipVars, storeVars, observed, readerVars, lag,
                 streakVars, endVars>>

\* runtime.destroy raises: its exception replaces the outcome.  Or it returns as if
\* it had removed the sandbox (KataNerdctlSandboxRuntime looks at no exit code).
ReapFails ==
  /\ pc = "reap"
  /\ leaked' = TRUE
  /\ \/ pc' = "raised" /\ outcome' = "raised"
     \/ /\ pc' = IF outcome = "raised" THEN "raised" ELSE "read"
        /\ UNCHANGED outcome
  /\ UNCHANGED <<guestVars, blipVars, storeVars, observed, readerVars, lag, streakVars,
                 verdict>>

\* The rest of drive_node; a store that fails to answer counts as no result.json.
\* Another caller gets the bare disposition.
ReadResult ==
  /\ pc = "read"
  /\ pc' = "done"
  /\ verdict' \in IF withReady THEN {"none"} ELSE {Verdict, "failure"}
  /\ UNCHANGED <<guestVars, blipVars, storeVars, observed, readerVars, lag, streakVars, outcome,
                 leaked>>

-----------------------------------------------------------------------------
(* The sandbox *)

\* A pending sandbox enters or leaves a waiting state that the driver calls fatal.
Wait ==
  /\ phase = "pending"
  /\ waiting' = ~waiting
  /\ UNCHANGED <<phase, guest, hung, quiet, storeVars, unread, hostVars>>

Start ==
  /\ phase = "pending"
  /\ phase' = "running" /\ guest' = "working" /\ waiting' = FALSE /\ quiet' = 0
  /\ UNCHANGED <<hung, storeVars, unread, hostVars>>

\* A chunk lands: of the workload's lines, or the heartbeat's.
Ship ==
  /\ Beating /\ guest = "working"
  /\ unread' = TRUE /\ quiet' = 0
  /\ UNCHANGED <<phase, waiting, guest, hung, storeVars, hostVars>>

\* The runner puts result.json, ...
WriteResult ==
  /\ Beating /\ guest = "working"
  /\ guest' = "resulted"
  /\ resultObj' \in {"success", "failure", "corrupt"}
  /\ UNCHANGED <<phase, waiting, hung, quiet, manifest, unread, hostVars>>

\* ... closes the shipper, with or without a last chunk, ...
Seal ==
  /\ Beating /\ guest = "resulted"
  /\ guest' = "sealed" /\ manifest' = TRUE
  /\ unread' \in {unread, TRUE}
  /\ UNCHANGED <<phase, waiting, hung, quiet, resultObj, hostVars>>

\* ... and exits 0 exactly on success.
Exit ==
  /\ Beating /\ guest = "sealed"
  /\ guest' = "over"
  /\ phase' = IF resultObj = "success" THEN "succeeded" ELSE "failed"
  /\ UNCHANGED <<waiting, hung, quiet, storeVars, unread, hostVars>>

\* The runner raises or is killed.
Crash ==
  /\ phase = "running"
  /\ guest' = "over" /\ phase' = "failed"
  /\ UNCHANGED <<waiting, hung, quiet, storeVars, unread, hostVars>>

Hang ==
  /\ Beating
  /\ hung' = TRUE
  /\ UNCHANGED <<phase, waiting, guest, quiet, storeVars, unread, hostVars>>

\* Somebody else deletes the sandbox.
Vanish ==
  /\ Exists
  /\ phase' = "gone" /\ guest' = "over"
  /\ UNCHANGED <<waiting, hung, quiet, storeVars, unread, hostVars>>

-----------------------------------------------------------------------------
Drive ==
  \/ Launch \/ Poll \/ CheckReady \/ Status \/ SeeTerminal
  \/ GiveUp(Unstartable, "unstartable") \/ GiveUp(External, "external")
  \/ GiveUp(Silent, "silent")
  \/ Sleep \/ FinalPoll \/ Reap \/ ReadResult

Faults == LaunchFails \/ StatusMisses \/ Lag \/ Error \/ ReapFails

Sandbox == Wait \/ Start \/ Ship \/ WriteResult \/ Seal \/ Exit \/ Crash \/ Hang \/ Vanish

Next == Drive \/ Faults \/ Sandbox

Spec == Init /\ [][Next]_vars

\* The driver's coroutine is scheduled whenever it can run; nothing is assumed
\* of the sandbox, which may work for ever.
FairSpec == Spec /\ WF_vars(Drive)
-----------------------------------------------------------------------------
(* Properties *)

\* Type invariant.  Besides the types: the window is armed only once the sandbox
\* has run, and a reader that knows the total has nothing left to read.
TypeOK ==
  /\ phase \in Phases \cup {"none", "gone"} /\ waiting \in BOOLEAN
  /\ guest \in {"off", "working", "resulted", "sealed", "over"}
  /\ hung \in BOOLEAN /\ quiet \in 0..HeartbeatEvery
  /\ blips \in 0..MaxBlips /\ blipRun \in 0..GonePolls
  /\ manifest \in BOOLEAN /\ resultObj \in {"none", "success", "failure", "corrupt"}
  /\ pc \in InLease \cup {"launch", "reap", "read", "done", "raised"}
  /\ observed \in {"pending", "running", "succeeded", "failed", "unknown"}
  /\ armed \in BOOLEAN /\ unread \in BOOLEAN /\ sawTotal \in BOOLEAN
  /\ silence \in 0..(DeadAfter + 1) /\ lag \in 0..MaxLag
  /\ goneStreak \in 0..GonePolls /\ stuckStreak \in 0..UnstartablePolls
  /\ withReady \in BOOLEAN
  /\ outcome \in {"none", "completed", "unstartable", "external", "silent", "raised"}
  /\ leaked \in BOOLEAN
  /\ verdict \in {"none", "success", "failure"}
  /\ armed => guest # "off"
  /\ sawTotal => manifest /\ ~unread

\* Only silence is read as death: a sandbox whose guest ships at least every
\* HeartbeatEvery intervals is never reaped as silent, however chunks, polls and
\* slow calls interleave, provided the window covers heartbeat and lag.
SilentMeansStopped == outcome = "silent" => ~Beating

\* "external" is decided only of a sandbox that is gone, although status also
\* answers "unknown" for sandboxes that are there (for fewer than GonePolls
\* answers in a row).
ExternalMeansGone == outcome = "external" => ~Exists

\* A drive gives up on a sandbox only for what is true of it.
GivesUpRightly == SilentMeansStopped /\ ExternalMeansGone

\* A node that completed by a terminal phase has had every chunk read: none lands
\* between the last poll and the phase unnoticed.
TailIsRead == outcome = "completed" /\ Terminal(observed) => ~unread

\* However the drive ends, its sandbox is gone, unless the launch or the destroy
\* itself failed.
NoLeak == Returned => ~Exists \/ leaked

\* drive_node reports success only for a guest that wrote success and that the
\* substrate reported ended; in particular not for one it gave up on.
SuccessIsEarned == verdict = "success" => resultObj = "success" /\ Terminal(observed)

\* NodeDrive for one node.  Seen from the store an unreadable result.json is no success,
\* and a guest that is over may have exited 0 if it had reported success and sealed.
Node == INSTANCE NodeDrive WITH
  resultObj <- IF resultObj = "corrupt" THEN "failure" ELSE resultObj,
  exit <- IF guest # "over" THEN "none"
          ELSE IF manifest /\ resultObj = "success" THEN "zero" ELSE "nonzero",
  status <- IF outcome = "raised" THEN "raised" ELSE verdict

\* drive_node ends once, and reports a status its guest wrote only when the guest is
\* over, so the status can not be overtaken; the guest reports as GuestReport has it.
NodeSpec == Node!Spec

\* A guest that stops or is deleted before it has written its manifest ends the
\* drive, whatever phase it was in and whatever status answers meanwhile.
LossIsNoticed == (pc \in InLease /\ (phase = "gone" \/ hung) /\ ~manifest) ~> Returned

\* A sandbox that ends by itself ends the drive, unless it is deleted first.
ExitIsNoticed == phase \in {"succeeded", "failed"} ~> (Returned \/ phase = "gone")

\* A sandbox that stays in a fatal waiting state ends the drive.
StuckFailsFast == <>[](phase = "pending" /\ waiting) => <>Returned

\* What "structurally immune" to the wedge would mean: however and whenever the
\* guest stops, the drive ends.
NeverWedged == (pc \in InLease /\ (phase = "gone" \/ hung)) ~> Returned
=============================================================================
