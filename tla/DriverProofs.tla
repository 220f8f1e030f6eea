----------------------------- MODULE DriverProofs -----------------------------
(***************************************************************************)
(* The driver's safety properties for every window, every number of polls, *)
(* every lag and every number of wrong status answers.                     *)
(***************************************************************************)
EXTENDS Driver, Progress, WellFoundedInduction, TLAPS

\* A sandbox never comes back, its guest is off until it runs, and a round starts
\* with the sandbox not yet unstartable.
SandboxInv ==
  /\ pc = "launch" => phase = "none"
  /\ phase \in {"none", "pending"} => guest = "off"
  /\ phase = "none" => ~armed /\ goneStreak = 0 /\ pc \in {"launch", "raised"}
  /\ phase # "none" => pc # "launch"
  /\ Terminal(observed) => phase \in {"succeeded", "failed", "gone"}
  /\ pc \in {"launch", "poll", "ready", "status"} =>
       stuckStreak < UnstartablePolls /\ ~Terminal(observed)
  /\ pc = "ready" => withReady
  /\ phase = "running" => guest # "off"
  /\ manifest => guest \in {"sealed", "over"}
  /\ resultObj # "none" => guest \in {"resulted", "sealed", "over"}

\* While the sandbox is there, the driver's streak counts wrong answers only.
GoneInv == blipRun < GonePolls /\ (Exists => goneStreak <= blipRun)

\* The silence of a guest that is well: no longer than its own quiet time when
\* all is read, and otherwise no longer than one round can hide a chunk.
WindowInv ==
  Beating /\ armed /\ pc \in InLease =>
    /\ ~unread => silence <= quiet
    /\ silence <= HeartbeatEvery + lag + (IF pc = "poll" THEN 1 ELSE 0)

\* What each way to end has established.
EndInv ==
  /\ pc \in InLease \cup {"launch"} => outcome = "none"
  /\ pc = "final" => Terminal(observed)
  /\ pc = "read" => outcome # "raised"
  /\ pc \in {"read", "done", "raised"} => ~Exists \/ leaked
  /\ outcome = "silent" => phase \notin {"none", "pending"}
  /\ outcome = "external" => ~Exists /\ phase # "none"
  /\ outcome = "completed" => /\ Terminal(observed) => ~unread
                              /\ Terminal(observed) \/ (withReady /\ resultObj # "none")
                              /\ pc \in {"reap", "read", "done"}
  /\ verdict = "success" =>
       outcome = "completed" /\ resultObj = "success" /\ pc = "done" /\ ~withReady

IInv == TypeOK /\ SandboxInv /\ GoneInv /\ WindowInv /\ EndInv

\* The window covers a heartbeat and what one round's calls may take.
WindowCovers == HeartbeatEvery + MaxLag <= DeadAfter
-----------------------------------------------------------------------------
\* The driver starts in the invariant: nothing is launched, armed or counted yet.
LEMMA InitIInv == Init => IInv
<1> SUFFICES ASSUME Init PROVE IInv
  OBVIOUS
<1>1. TypeOK
  <2>1. /\ quiet \in 0..HeartbeatEvery /\ blips \in 0..MaxBlips /\ blipRun \in 0..GonePolls
        /\ silence \in 0..(DeadAfter + 1) /\ lag \in 0..MaxLag
        /\ goneStreak \in 0..GonePolls /\ stuckStreak \in 0..UnstartablePolls
    BY DriverAssumption DEF Init
  <2> QED BY <2>1 DEF Init, TypeOK
<1>2. SandboxInv /\ GoneInv
  BY DriverAssumption DEF Init, SandboxInv, GoneInv, Exists, Phases, Terminal
<1>3. WindowInv /\ EndInv
  BY DEF Init, WindowInv, EndInv, InLease, Beating
<1> QED BY <1>1, <1>2, <1>3 DEF IInv

\* Launching makes the sandbox pending and leaves window and streaks unstarted.
LEMMA StepLaunch ==
  ASSUME IInv, Launch
  PROVE  IInv'
<1>1. TypeOK'
    BY DriverAssumption DEF IInv, TypeOK, SandboxInv, Launch, InLease, Beating, Exists, Phases,
       blipVars, storeVars, readerVars, streakVars, endVars
<1>2. SandboxInv'
    BY DriverAssumption DEF IInv, TypeOK, SandboxInv, EndInv, Launch, InLease, Terminal,
       Beating, Exists, Phases, blipVars, storeVars, readerVars, streakVars, endVars
<1>3. GoneInv'
    BY DriverAssumption DEF IInv, TypeOK, SandboxInv, GoneInv, Launch, InLease, Exists, Phases,
       Beating, blipVars, storeVars, readerVars, streakVars, endVars
<1>4. WindowInv'
    BY DriverAssumption DEF IInv, TypeOK, SandboxInv, WindowInv, Launch, InLease, Beating,
       Exists, Phases, Terminal, blipVars, storeVars, readerVars, streakVars, endVars
<1>5. EndInv'
    BY DriverAssumption DEF IInv, TypeOK, SandboxInv, GoneInv, WindowInv, EndInv, Launch,
       InLease, Beating, Exists, Phases, Terminal, blipVars, storeVars, readerVars, streakVars, endVars
<1> QED BY <1>1, <1>2, <1>3, <1>4, <1>5 DEF IInv

\* A failed launch ends the drive; what it may have left behind is marked leaked.
LEMMA StepLaunchFails ==
  ASSUME IInv, LaunchFails
  PROVE  IInv'
<1>1. TypeOK'
    BY DriverAssumption DEF IInv, TypeOK, SandboxInv, LaunchFails, InLease, Beating, Exists,
       Phases, blipVars, storeVars, readerVars, streakVars
<1>2. SandboxInv'
    BY DriverAssumption DEF IInv, TypeOK, SandboxInv, EndInv, LaunchFails, InLease, Terminal,
       Beating, Exists, Phases, blipVars, storeVars, readerVars, streakVars
<1>3. GoneInv'
    BY DriverAssumption DEF IInv, TypeOK, SandboxInv, GoneInv, LaunchFails, InLease, Exists,
       Phases, Beating, blipVars, storeVars, readerVars, streakVars
<1>4. WindowInv'
    BY DriverAssumption DEF IInv, TypeOK, SandboxInv, WindowInv, LaunchFails, InLease, Beating,
       Exists, Phases, Terminal, blipVars, storeVars, readerVars, streakVars
<1>5. EndInv'
    BY DriverAssumption DEF IInv, TypeOK, SandboxInv, GoneInv, WindowInv, EndInv, LaunchFails,
       InLease, Beating, Exists, Phases, Terminal, blipVars, storeVars, readerVars, streakVars
<1> QED BY <1>1, <1>2, <1>3, <1>4, <1>5 DEF IInv

\* A poll reads all there is, so the window is behind the guest's own quiet time.
LEMMA StepPoll ==
  ASSUME IInv, Poll
  PROVE  IInv'
<1>1. TypeOK'
  <2>1. silence' \in 0..(DeadAfter + 1) /\ lag' \in 0..MaxLag
    BY DriverAssumption DEF IInv, TypeOK, Poll, ReadAll
  <2>2. unread' \in BOOLEAN /\ sawTotal' \in BOOLEAN /\ (sawTotal' => manifest' /\ ~unread')
    BY DEF IInv, TypeOK, Poll, ReadAll, storeVars
  <2>3. pc' \in InLease
    BY DEF Poll, InLease
  <2>4. UNCHANGED <<guestVars, blipVars, storeVars, observed, armed, streakVars, endVars>>
    BY DEF Poll
  <2> QED BY <2>1, <2>2, <2>3, <2>4
          DEF IInv, TypeOK, guestVars, blipVars, storeVars, streakVars, endVars
<1>2. SandboxInv'
    BY DriverAssumption DEF IInv, TypeOK, SandboxInv, EndInv, Poll, ReadAll, InLease, Terminal,
       Beating, Exists, Phases, guestVars, blipVars, storeVars, streakVars, endVars
<1>3. GoneInv'
    BY DriverAssumption DEF IInv, TypeOK, SandboxInv, GoneInv, Poll, ReadAll, InLease, Exists,
       Phases, Beating, guestVars, blipVars, storeVars, streakVars, endVars
<1>4. WindowInv'
    BY DriverAssumption DEF IInv, TypeOK, SandboxInv, WindowInv, Poll, ReadAll, InLease,
       Beating, Exists, Phases, Terminal, guestVars, blipVars, storeVars, streakVars, endVars
<1>5. EndInv'
    BY DriverAssumption DEF IInv, TypeOK, SandboxInv, GoneInv, WindowInv, EndInv, Poll, ReadAll,
       InLease, Beating, Exists, Phases, Terminal, guestVars, blipVars, storeVars, streakVars, endVars
<1> QED BY <1>1, <1>2, <1>3, <1>4, <1>5 DEF IInv

\* Completing on the work product alone happens only where result_ready is passed.
LEMMA StepCheckReady ==
  ASSUME IInv, CheckReady
  PROVE  IInv'
<1>1. TypeOK'
    BY DriverAssumption DEF IInv, TypeOK, SandboxInv, CheckReady, InLease, Beating, Exists,
       Phases, guestVars, blipVars, storeVars, readerVars, streakVars
<1>2. SandboxInv'
    BY DriverAssumption DEF IInv, TypeOK, SandboxInv, EndInv, CheckReady, InLease, Terminal,
       Beating, Exists, Phases, guestVars, blipVars, storeVars, readerVars, streakVars
<1>3. GoneInv'
    BY DriverAssumption DEF IInv, TypeOK, SandboxInv, GoneInv, CheckReady, InLease, Exists,
       Phases, Beating, guestVars, blipVars, storeVars, readerVars, streakVars
<1>4. WindowInv'
    BY DriverAssumption DEF IInv, TypeOK, SandboxInv, WindowInv, CheckReady, InLease, Beating,
       Exists, Phases, Terminal, guestVars, blipVars, storeVars, readerVars, streakVars
<1>5. EndInv'
    BY DriverAssumption DEF IInv, TypeOK, SandboxInv, GoneInv, WindowInv, EndInv, CheckReady,
       InLease, Beating, Exists, Phases, Terminal, guestVars, blipVars, storeVars, readerVars,
       streakVars
<1> QED BY <1>1, <1>2, <1>3, <1>4, <1>5 DEF IInv

\* A true status answer arms the window when the guest runs and resets the gone streak.
LEMMA StepStatus ==
  ASSUME IInv, Status
  PROVE  IInv'
<1>1. TypeOK'
  <2>1. observed' \in {"pending", "running", "succeeded", "failed", "unknown"}
    BY DEF Status, Answer, Exists, Phases
  <2>2. armed' \in BOOLEAN /\ (armed' => guest # "off")
    <3>1. armed' \in BOOLEAN /\ (armed' => armed \/ phase = "running")
      BY DEF IInv, TypeOK, Status, Answer, Arms
    <3> QED BY <3>1 DEF IInv, TypeOK, SandboxInv
  <2>3. silence' \in 0..(DeadAfter + 1) /\ goneStreak' \in 0..GonePolls /\ blipRun' \in 0..GonePolls
    BY DriverAssumption DEF IInv, TypeOK, Status, Answer, GoneStreakAfter
  <2>4. stuckStreak' \in 0..UnstartablePolls
    BY DriverAssumption DEF IInv, TypeOK, SandboxInv, Status, Answer, StuckStreakAfter
  <2>5. /\ pc' = "judge"
        /\ UNCHANGED <<guestVars, storeVars, unread, sawTotal, lag, withReady, endVars, blips>>
    BY DEF Status, Answer
  <2> QED BY <2>1, <2>2, <2>3, <2>4, <2>5
          DEF IInv, TypeOK, InLease, guestVars, storeVars, endVars
<1>2. SandboxInv'
  <2>1. /\ pc = "status" /\ pc' = "judge" /\ observed' = IF Exists THEN phase ELSE "unknown"
        /\ UNCHANGED <<guestVars, storeVars>>
    BY DEF Status, Answer
  <2>2. phase # "none"
    BY <2>1 DEF IInv, SandboxInv, EndInv
  <2>3. Terminal(observed') => phase \in {"succeeded", "failed", "gone"}
    BY <2>1 DEF Terminal, Exists, Phases
  <2> QED BY <2>1, <2>2, <2>3 DEF IInv, SandboxInv, Terminal, guestVars, storeVars
<1>3. GoneInv'
    BY DriverAssumption DEF IInv, TypeOK, SandboxInv, GoneInv, Status, Answer, Arms,
       GoneStreakAfter, StuckStreakAfter, InLease, Exists, Phases, Beating, guestVars, storeVars,
       endVars
<1>4. WindowInv'
    BY DriverAssumption DEF IInv, TypeOK, SandboxInv, WindowInv, Status, Answer, Arms,
       GoneStreakAfter, StuckStreakAfter, InLease, Beating, Exists, Phases, Terminal, guestVars,
       storeVars, endVars
<1>5. EndInv'
    BY DriverAssumption DEF IInv, TypeOK, SandboxInv, GoneInv, WindowInv, EndInv, Status,
       Answer, Arms, GoneStreakAfter, StuckStreakAfter, InLease, Beating, Exists, Phases, Terminal,
       guestVars, storeVars, endVars
<1> QED BY <1>1, <1>2, <1>3, <1>4, <1>5 DEF IInv

\* A wrong "unknown" counts in the gone streak, never beyond the wrong answers in a row.
LEMMA StepStatusMisses ==
  ASSUME IInv, StatusMisses
  PROVE  IInv'
<1>1. TypeOK'
    BY DriverAssumption DEF IInv, TypeOK, SandboxInv, StatusMisses, Answer, Arms,
       GoneStreakAfter, StuckStreakAfter, InLease, Beating, Exists, Phases, guestVars, storeVars,
       endVars
<1>2. SandboxInv'
    BY DriverAssumption DEF IInv, TypeOK, SandboxInv, EndInv, StatusMisses, Answer, Arms,
       GoneStreakAfter, StuckStreakAfter, InLease, Terminal, Beating, Exists, Phases, guestVars,
       storeVars, endVars
<1>3. GoneInv'
    BY DriverAssumption DEF IInv, TypeOK, SandboxInv, GoneInv, StatusMisses, Answer, Arms,
       GoneStreakAfter, StuckStreakAfter, InLease, Exists, Phases, Beating, guestVars, storeVars,
       endVars
<1>4. WindowInv'
    BY DriverAssumption DEF IInv, TypeOK, SandboxInv, WindowInv, StatusMisses, Answer, Arms,
       GoneStreakAfter, StuckStreakAfter, InLease, Beating, Exists, Phases, Terminal, guestVars,
       storeVars, endVars
<1>5. EndInv'
    BY DriverAssumption DEF IInv, TypeOK, SandboxInv, GoneInv, WindowInv, EndInv, StatusMisses,
       Answer, Arms, GoneStreakAfter, StuckStreakAfter, InLease, Beating, Exists, Phases, Terminal,
       guestVars, storeVars, endVars
<1> QED BY <1>1, <1>2, <1>3, <1>4, <1>5 DEF IInv

\* Seeing a terminal phase leads to the final poll, with no outcome yet.
LEMMA StepSeeTerminal ==
  ASSUME IInv, SeeTerminal
  PROVE  IInv'
<1>1. TypeOK'
    BY DriverAssumption DEF IInv, TypeOK, SandboxInv, SeeTerminal, Completed, InLease, Beating,
       Exists, Phases, guestVars, blipVars, storeVars, readerVars, streakVars, endVars
<1>2. SandboxInv'
    BY DriverAssumption DEF IInv, TypeOK, SandboxInv, EndInv, SeeTerminal, Completed, InLease,
       Terminal, Beating, Exists, Phases, guestVars, blipVars, storeVars, readerVars, streakVars,
       endVars
<1>3. GoneInv'
    BY DriverAssumption DEF IInv, TypeOK, SandboxInv, GoneInv, SeeTerminal, Completed, InLease,
       Exists, Phases, Beating, guestVars, blipVars, storeVars, readerVars, streakVars, endVars
<1>4. WindowInv'
    BY DriverAssumption DEF IInv, TypeOK, SandboxInv, WindowInv, SeeTerminal, Completed,
       InLease, Beating, Exists, Phases, Terminal, guestVars, blipVars, storeVars, readerVars,
       streakVars, endVars
<1>5. EndInv'
    BY DriverAssumption DEF IInv, TypeOK, SandboxInv, GoneInv, WindowInv, EndInv, SeeTerminal,
       Completed, InLease, Beating, Exists, Phases, Terminal, guestVars, blipVars, storeVars,
       readerVars, streakVars, endVars
<1> QED BY <1>1, <1>2, <1>3, <1>4, <1>5 DEF IInv

\* Giving up on a sandbox that cannot start establishes nothing of its phase.
LEMMA StepUnstartable ==
  ASSUME IInv, GiveUp(Unstartable, "unstartable")
  PROVE  IInv'
<1>1. TypeOK'
    BY DriverAssumption DEF IInv, TypeOK, SandboxInv, GiveUp, Unstartable, Completed, InLease,
       Beating, Exists, Phases, guestVars, blipVars, storeVars, readerVars, streakVars
<1>2. SandboxInv'
    BY DriverAssumption DEF IInv, TypeOK, SandboxInv, EndInv, GiveUp, Unstartable, Completed,
       InLease, Terminal, Beating, Exists, Phases, guestVars, blipVars, storeVars, readerVars,
       streakVars
<1>3. GoneInv'
    BY DriverAssumption DEF IInv, TypeOK, SandboxInv, GoneInv, GiveUp, Unstartable, Completed,
       InLease, Exists, Phases, Beating, guestVars, blipVars, storeVars, readerVars, streakVars
<1>4. WindowInv'
    BY DriverAssumption DEF IInv, TypeOK, SandboxInv, WindowInv, GiveUp, Unstartable, Completed,
       InLease, Beating, Exists, Phases, Terminal, guestVars, blipVars, storeVars, readerVars,
       streakVars
<1>5. EndInv'
    BY DriverAssumption DEF IInv, TypeOK, SandboxInv, GoneInv, WindowInv, EndInv, GiveUp,
       Unstartable, Completed, InLease, Beating, Exists, Phases, Terminal, guestVars, blipVars,
       storeVars, readerVars, streakVars
<1> QED BY <1>1, <1>2, <1>3, <1>4, <1>5 DEF IInv

\* "External" is decided when the sandbox does not exist: its streak is beyond any run of wrong
\* answers.
LEMMA StepExternal ==
  ASSUME IInv, GiveUp(External, "external")
  PROVE  IInv'
<1>1. TypeOK'
    BY DriverAssumption DEF IInv, TypeOK, SandboxInv, GiveUp, External, GoneForGood,
       Unstartable, Completed, IsDead, Finished, InLease, Beating, Exists, Phases, guestVars, blipVars,
       storeVars, readerVars, streakVars
<1>2. SandboxInv'
    BY DriverAssumption DEF IInv, TypeOK, SandboxInv, EndInv, GiveUp, External, GoneForGood,
       Unstartable, Completed, IsDead, Finished, InLease, Terminal, Beating, Exists, Phases, guestVars,
       blipVars, storeVars, readerVars, streakVars
<1>3. GoneInv'
    BY DriverAssumption DEF IInv, TypeOK, SandboxInv, GoneInv, GiveUp, External, GoneForGood,
       Unstartable, Completed, IsDead, Finished, InLease, Exists, Phases, Beating, guestVars, blipVars,
       storeVars, readerVars, streakVars
<1>4. WindowInv'
    BY DriverAssumption DEF IInv, TypeOK, SandboxInv, WindowInv, GiveUp, External, GoneForGood,
       Unstartable, Completed, IsDead, Finished, InLease, Beating, Exists, Phases, Terminal, guestVars,
       blipVars, storeVars, readerVars, streakVars
<1>5. EndInv'
    BY DriverAssumption DEF IInv, TypeOK, SandboxInv, GoneInv, WindowInv, EndInv, GiveUp,
       External, GoneForGood, Unstartable, Completed, IsDead, Finished, InLease, Beating, Exists,
       Phases, Terminal, guestVars, blipVars, storeVars, readerVars, streakVars
<1> QED BY <1>1, <1>2, <1>3, <1>4, <1>5 DEF IInv

\* "Silent" is decided of a sandbox that has run.
LEMMA StepSilent ==
  ASSUME IInv, GiveUp(Silent, "silent")
  PROVE  IInv'
<1>1. TypeOK'
    BY DriverAssumption DEF IInv, TypeOK, SandboxInv, GiveUp, Silent, External, Unstartable,
       Completed, IsDead, Finished, InLease, Beating, Exists, Phases, guestVars, blipVars, storeVars,
       readerVars, streakVars
<1>2. SandboxInv'
    BY DriverAssumption DEF IInv, TypeOK, SandboxInv, EndInv, GiveUp, Silent, External,
       Unstartable, Completed, IsDead, Finished, InLease, Terminal, Beating, Exists, Phases, guestVars,
       blipVars, storeVars, readerVars, streakVars
<1>3. GoneInv'
    BY DriverAssumption DEF IInv, TypeOK, SandboxInv, GoneInv, GiveUp, Silent, External,
       Unstartable, Completed, IsDead, Finished, InLease, Exists, Phases, Beating, guestVars, blipVars,
       storeVars, readerVars, streakVars
<1>4. WindowInv'
    BY DriverAssumption DEF IInv, TypeOK, SandboxInv, WindowInv, GiveUp, Silent, External,
       Unstartable, Completed, IsDead, Finished, InLease, Beating, Exists, Phases, Terminal, guestVars,
       blipVars, storeVars, readerVars, streakVars
<1>5. EndInv'
    BY DriverAssumption DEF IInv, TypeOK, SandboxInv, GoneInv, WindowInv, EndInv, GiveUp,
       Silent, External, Unstartable, Completed, IsDead, Finished, InLease, Beating, Exists, Phases,
       Terminal, guestVars, blipVars, storeVars, readerVars, streakVars
<1> QED BY <1>1, <1>2, <1>3, <1>4, <1>5 DEF IInv

\* Sleeping lets one interval pass, for the window and for the guest alike.
LEMMA StepSleep ==
  ASSUME IInv, Sleep
  PROVE  IInv'
<1>1. TypeOK'
    BY DriverAssumption DEF IInv, TypeOK, SandboxInv, Sleep, Tick, Completed, Unstartable,
       InLease, Beating, Exists, Phases, blipVars, storeVars, streakVars, endVars
<1>2. SandboxInv'
    BY DriverAssumption DEF IInv, TypeOK, SandboxInv, EndInv, Sleep, Tick, Completed,
       Unstartable, InLease, Terminal, Beating, Exists, Phases, blipVars, storeVars, streakVars,
       endVars
<1>3. GoneInv'
    BY DriverAssumption DEF IInv, TypeOK, SandboxInv, GoneInv, Sleep, Tick, Completed,
       Unstartable, InLease, Exists, Phases, Beating, blipVars, storeVars, streakVars, endVars
<1>4. WindowInv'
    BY DriverAssumption DEF IInv, TypeOK, SandboxInv, WindowInv, Sleep, Tick, Completed,
       Unstartable, InLease, Beating, Exists, Phases, Terminal, blipVars, storeVars, streakVars,
       endVars
<1>5. EndInv'
    BY DriverAssumption DEF IInv, TypeOK, SandboxInv, GoneInv, WindowInv, EndInv, Sleep, Tick,
       Completed, Unstartable, InLease, Beating, Exists, Phases, Terminal, blipVars, storeVars,
       streakVars, endVars
<1> QED BY <1>1, <1>2, <1>3, <1>4, <1>5 DEF IInv

\* A slow call lets one interval pass, counted in this round's lag.
LEMMA StepLag ==
  ASSUME IInv, Lag
  PROVE  IInv'
<1>1. TypeOK'
    BY DriverAssumption DEF IInv, TypeOK, SandboxInv, Lag, Tick, InLease, Beating, Exists,
       Phases, blipVars, storeVars, streakVars, endVars
<1>2. SandboxInv'
    BY DriverAssumption DEF IInv, TypeOK, SandboxInv, EndInv, Lag, Tick, InLease, Terminal,
       Beating, Exists, Phases, blipVars, storeVars, streakVars, endVars
<1>3. GoneInv'
    BY DriverAssumption DEF IInv, TypeOK, SandboxInv, GoneInv, Lag, Tick, InLease, Exists,
       Phases, Beating, blipVars, storeVars, streakVars, endVars
<1>4. WindowInv'
    BY DriverAssumption DEF IInv, TypeOK, SandboxInv, WindowInv, Lag, Tick, InLease, Beating,
       Exists, Phases, Terminal, blipVars, storeVars, streakVars, endVars
<1>5. EndInv'
    BY DriverAssumption DEF IInv, TypeOK, SandboxInv, GoneInv, WindowInv, EndInv, Lag, Tick,
       InLease, Beating, Exists, Phases, Terminal, blipVars, storeVars, streakVars, endVars
<1> QED BY <1>1, <1>2, <1>3, <1>4, <1>5 DEF IInv

\* The final poll leaves nothing unread of a sandbox that has ended.
LEMMA StepFinalPoll ==
  ASSUME IInv, FinalPoll
  PROVE  IInv'
<1>1. TypeOK'
  <2>1. silence' \in 0..(DeadAfter + 1)
    BY DriverAssumption DEF IInv, TypeOK, FinalPoll, ReadAll
  <2>2. unread' \in BOOLEAN /\ sawTotal' \in BOOLEAN /\ (sawTotal' => manifest' /\ ~unread')
    BY DEF IInv, TypeOK, FinalPoll, ReadAll, storeVars
  <2>3. /\ pc' = "reap" /\ outcome' = "completed"
        /\ UNCHANGED <<guestVars, blipVars, storeVars, observed, armed, lag, streakVars,
                       leaked, verdict>>
    BY DEF FinalPoll
  <2> QED BY <2>1, <2>2, <2>3 DEF IInv, TypeOK, guestVars, blipVars, storeVars, streakVars
<1>2. SandboxInv'
    BY DriverAssumption DEF IInv, TypeOK, SandboxInv, EndInv, FinalPoll, ReadAll, InLease,
       Terminal, Beating, Exists, Phases, guestVars, blipVars, storeVars, streakVars
<1>3. GoneInv'
    BY DriverAssumption DEF IInv, TypeOK, SandboxInv, GoneInv, FinalPoll, ReadAll, InLease,
       Exists, Phases, Beating, guestVars, blipVars, storeVars, streakVars
<1>4. WindowInv'
    BY DriverAssumption DEF IInv, TypeOK, SandboxInv, WindowInv, FinalPoll, ReadAll, InLease,
       Beating, Exists, Phases, Terminal, guestVars, blipVars, storeVars, streakVars
<1>5. EndInv'
    BY DriverAssumption DEF IInv, TypeOK, SandboxInv, GoneInv, WindowInv, EndInv, FinalPoll,
       ReadAll, InLease, Beating, Exists, Phases, Terminal, guestVars, blipVars, storeVars, streakVars
<1> QED BY <1>1, <1>2, <1>3, <1>4, <1>5 DEF IInv

\* An exception inside the lease goes to the reap with outcome "raised".
LEMMA StepError ==
  ASSUME IInv, Error
  PROVE  IInv'
<1>1. TypeOK'
    BY DriverAssumption DEF IInv, TypeOK, SandboxInv, Error, AfterError, InLease, Beating,
       Exists, Phases, guestVars, blipVars, storeVars, readerVars, streakVars
<1>2. SandboxInv'
    BY DriverAssumption DEF IInv, TypeOK, SandboxInv, EndInv, Error, AfterError, InLease,
       Terminal, Beating, Exists, Phases, guestVars, blipVars, storeVars, readerVars, streakVars
<1>3. GoneInv'
    BY DriverAssumption DEF IInv, TypeOK, SandboxInv, GoneInv, Error, AfterError, InLease,
       Exists, Phases, Beating, guestVars, blipVars, storeVars, readerVars, streakVars
<1>4. WindowInv'
    BY DriverAssumption DEF IInv, TypeOK, SandboxInv, WindowInv, Error, AfterError, InLease,
       Beating, Exists, Phases, Terminal, guestVars, blipVars, storeVars, readerVars, streakVars
<1>5. EndInv'
    BY DriverAssumption DEF IInv, TypeOK, SandboxInv, GoneInv, WindowInv, EndInv, Error,
       AfterError, InLease, Beating, Exists, Phases, Terminal, guestVars, blipVars, storeVars,
       readerVars, streakVars
<1> QED BY <1>1, <1>2, <1>3, <1>4, <1>5 DEF IInv

\* After the reap the sandbox is gone.
LEMMA StepReap ==
  ASSUME IInv, Reap
  PROVE  IInv'
<1>1. TypeOK'
    BY DriverAssumption DEF IInv, TypeOK, SandboxInv, Reap, InLease, Beating, Exists, Phases,
       blipVars, storeVars, readerVars, streakVars, endVars
<1>2. SandboxInv'
    BY DriverAssumption DEF IInv, TypeOK, SandboxInv, EndInv, Reap, InLease, Terminal, Beating,
       Exists, Phases, blipVars, storeVars, readerVars, streakVars, endVars
<1>3. GoneInv'
    BY DriverAssumption DEF IInv, TypeOK, SandboxInv, GoneInv, Reap, InLease, Exists, Phases,
       Beating, blipVars, storeVars, readerVars, streakVars, endVars
<1>4. WindowInv'
    BY DriverAssumption DEF IInv, TypeOK, SandboxInv, WindowInv, Reap, InLease, Beating, Exists,
       Phases, Terminal, blipVars, storeVars, readerVars, streakVars, endVars
<1>5. EndInv'
    BY DriverAssumption DEF IInv, TypeOK, SandboxInv, GoneInv, WindowInv, EndInv, Reap, InLease,
       Beating, Exists, Phases, Terminal, blipVars, storeVars, readerVars, streakVars, endVars
<1> QED BY <1>1, <1>2, <1>3, <1>4, <1>5 DEF IInv

\* A reap that raises is marked leaked.
LEMMA StepReapFails ==
  ASSUME IInv, ReapFails
  PROVE  IInv'
<1>1. TypeOK'
    BY DriverAssumption DEF IInv, TypeOK, SandboxInv, ReapFails, InLease, Beating, Exists,
       Phases, guestVars, blipVars, storeVars, readerVars, streakVars
<1>2. SandboxInv'
    BY DriverAssumption DEF IInv, TypeOK, SandboxInv, EndInv, ReapFails, InLease, Terminal,
       Beating, Exists, Phases, guestVars, blipVars, storeVars, readerVars, streakVars
<1>3. GoneInv'
    BY DriverAssumption DEF IInv, TypeOK, SandboxInv, GoneInv, ReapFails, InLease, Exists,
       Phases, Beating, guestVars, blipVars, storeVars, readerVars, streakVars
<1>4. WindowInv'
    BY DriverAssumption DEF IInv, TypeOK, SandboxInv, WindowInv, ReapFails, InLease, Beating,
       Exists, Phases, Terminal, guestVars, blipVars, storeVars, readerVars, streakVars
<1>5. EndInv'
    BY DriverAssumption DEF IInv, TypeOK, SandboxInv, GoneInv, WindowInv, EndInv, ReapFails,
       InLease, Beating, Exists, Phases, Terminal, guestVars, blipVars, storeVars, readerVars,
       streakVars
<1> QED BY <1>1, <1>2, <1>3, <1>4, <1>5 DEF IInv

\* The verdict is success only for a completed node whose result.json says so.
LEMMA StepReadResult ==
  ASSUME IInv, ReadResult
  PROVE  IInv'
<1>1. TypeOK'
    BY DriverAssumption DEF IInv, TypeOK, SandboxInv, ReadResult, Verdict, InLease, Beating,
       Exists, Phases, guestVars, blipVars, storeVars, readerVars, streakVars
<1>2. SandboxInv'
    BY DriverAssumption DEF IInv, TypeOK, SandboxInv, EndInv, ReadResult, Verdict, InLease,
       Terminal, Beating, Exists, Phases, guestVars, blipVars, storeVars, readerVars, streakVars
<1>3. GoneInv'
    BY DriverAssumption DEF IInv, TypeOK, SandboxInv, GoneInv, ReadResult, Verdict, InLease,
       Exists, Phases, Beating, guestVars, blipVars, storeVars, readerVars, streakVars
<1>4. WindowInv'
    BY DriverAssumption DEF IInv, TypeOK, SandboxInv, WindowInv, ReadResult, Verdict, InLease,
       Beating, Exists, Phases, Terminal, guestVars, blipVars, storeVars, readerVars, streakVars
<1>5. EndInv'
    BY DriverAssumption DEF IInv, TypeOK, SandboxInv, GoneInv, WindowInv, EndInv, ReadResult,
       Verdict, InLease, Beating, Exists, Phases, Terminal, guestVars, blipVars, storeVars, readerVars,
       streakVars
<1> QED BY <1>1, <1>2, <1>3, <1>4, <1>5 DEF IInv

\* Entering or leaving a waiting state concerns only a pending sandbox.
LEMMA StepWait ==
  ASSUME IInv, Wait
  PROVE  IInv'
<1>1. TypeOK'
    BY DriverAssumption DEF IInv, TypeOK, SandboxInv, Wait, InLease, Beating, Exists, Phases,
       blipVars, storeVars, streakVars, endVars, hostVars
<1>2. SandboxInv'
    BY DriverAssumption DEF IInv, TypeOK, SandboxInv, EndInv, Wait, InLease, Terminal, Beating,
       Exists, Phases, blipVars, storeVars, streakVars, endVars, hostVars
<1>3. GoneInv'
    BY DriverAssumption DEF IInv, TypeOK, SandboxInv, GoneInv, Wait, InLease, Exists, Phases,
       Beating, blipVars, storeVars, streakVars, endVars, hostVars
<1>4. WindowInv'
    BY DriverAssumption DEF IInv, TypeOK, SandboxInv, WindowInv, Wait, InLease, Beating, Exists,
       Phases, Terminal, blipVars, storeVars, streakVars, endVars, hostVars
<1>5. EndInv'
    BY DriverAssumption DEF IInv, TypeOK, SandboxInv, GoneInv, WindowInv, EndInv, Wait, InLease,
       Beating, Exists, Phases, Terminal, blipVars, storeVars, streakVars, endVars, hostVars
<1> QED BY <1>1, <1>2, <1>3, <1>4, <1>5 DEF IInv

\* The guest starts unarmed, or in a lease whose streak was of a pending sandbox.
LEMMA StepStart ==
  ASSUME IInv, Start
  PROVE  IInv'
<1>1. TypeOK'
  <2>1. quiet' \in 0..HeartbeatEvery
    BY DriverAssumption DEF Start
  <2>2. /\ phase' = "running" /\ guest' = "working" /\ waiting' \in BOOLEAN
        /\ UNCHANGED <<hung, storeVars, unread, hostVars>>
    BY DEF Start
  <2> QED BY <2>1, <2>2
          DEF IInv, TypeOK, Phases, hostVars, blipVars, storeVars, streakVars, endVars
<1>2. SandboxInv'
    BY DriverAssumption DEF IInv, TypeOK, SandboxInv, EndInv, Start, InLease, Terminal, Beating,
       Exists, Phases, blipVars, storeVars, streakVars, endVars, hostVars
<1>3. GoneInv'
    BY DriverAssumption DEF IInv, TypeOK, SandboxInv, GoneInv, Start, InLease, Exists, Phases,
       Beating, blipVars, storeVars, streakVars, endVars, hostVars
<1>4. WindowInv'
    BY DriverAssumption DEF IInv, TypeOK, SandboxInv, WindowInv, Start, InLease, Beating,
       Exists, Phases, Terminal, blipVars, storeVars, streakVars, endVars, hostVars
<1>5. EndInv'
    BY DriverAssumption DEF IInv, TypeOK, SandboxInv, GoneInv, WindowInv, EndInv, Start,
       InLease, Beating, Exists, Phases, Terminal, blipVars, storeVars, streakVars, endVars, hostVars
<1> QED BY <1>1, <1>2, <1>3, <1>4, <1>5 DEF IInv

\* A chunk that lands resets the guest's quiet time and is unread.
LEMMA StepShip ==
  ASSUME IInv, Ship
  PROVE  IInv'
<1>1. TypeOK'
    BY DriverAssumption DEF IInv, TypeOK, SandboxInv, Ship, InLease, Beating, Exists, Phases,
       blipVars, storeVars, streakVars, endVars, hostVars
<1>2. SandboxInv'
    BY DriverAssumption DEF IInv, TypeOK, SandboxInv, EndInv, Ship, InLease, Terminal, Beating,
       Exists, Phases, blipVars, storeVars, streakVars, endVars, hostVars
<1>3. GoneInv'
    BY DriverAssumption DEF IInv, TypeOK, SandboxInv, GoneInv, Ship, InLease, Exists, Phases,
       Beating, blipVars, storeVars, streakVars, endVars, hostVars
<1>4. WindowInv'
    BY DriverAssumption DEF IInv, TypeOK, SandboxInv, WindowInv, Ship, InLease, Beating, Exists,
       Phases, Terminal, blipVars, storeVars, streakVars, endVars, hostVars
<1>5. EndInv'
    BY DriverAssumption DEF IInv, TypeOK, SandboxInv, GoneInv, WindowInv, EndInv, Ship, InLease,
       Beating, Exists, Phases, Terminal, blipVars, storeVars, streakVars, endVars, hostVars
<1> QED BY <1>1, <1>2, <1>3, <1>4, <1>5 DEF IInv

\* Putting result.json leaves the guest beating.
LEMMA StepWriteResult ==
  ASSUME IInv, WriteResult
  PROVE  IInv'
<1>1. TypeOK'
    BY DriverAssumption DEF IInv, TypeOK, SandboxInv, WriteResult, InLease, Beating, Exists,
       Phases, blipVars, streakVars, endVars, hostVars
<1>2. SandboxInv'
    BY DriverAssumption DEF IInv, TypeOK, SandboxInv, EndInv, WriteResult, InLease, Terminal,
       Beating, Exists, Phases, blipVars, streakVars, endVars, hostVars
<1>3. GoneInv'
    BY DriverAssumption DEF IInv, TypeOK, SandboxInv, GoneInv, WriteResult, InLease, Exists,
       Phases, Beating, blipVars, streakVars, endVars, hostVars
<1>4. WindowInv'
    BY DriverAssumption DEF IInv, TypeOK, SandboxInv, WindowInv, WriteResult, InLease, Beating,
       Exists, Phases, Terminal, blipVars, streakVars, endVars, hostVars
<1>5. EndInv'
    BY DriverAssumption DEF IInv, TypeOK, SandboxInv, GoneInv, WindowInv, EndInv, WriteResult,
       InLease, Beating, Exists, Phases, Terminal, blipVars, streakVars, endVars, hostVars
<1> QED BY <1>1, <1>2, <1>3, <1>4, <1>5 DEF IInv

\* The manifest appears only once the guest has sealed its telemetry.
LEMMA StepSeal ==
  ASSUME IInv, Seal
  PROVE  IInv'
<1>1. TypeOK'
  <2>1. ~sawTotal /\ unread' \in BOOLEAN
    BY DEF IInv, TypeOK, SandboxInv, Seal
  <2>2. /\ guest' = "sealed" /\ manifest' = TRUE
        /\ UNCHANGED <<phase, waiting, hung, quiet, resultObj, hostVars>>
    BY DEF Seal
  <2> QED BY <2>1, <2>2
          DEF IInv, TypeOK, hostVars, blipVars, streakVars, endVars
<1>2. SandboxInv'
    BY DriverAssumption DEF IInv, TypeOK, SandboxInv, EndInv, Seal, InLease, Terminal, Beating,
       Exists, Phases, blipVars, streakVars, endVars, hostVars
<1>3. GoneInv'
    BY DriverAssumption DEF IInv, TypeOK, SandboxInv, GoneInv, Seal, InLease, Exists, Phases,
       Beating, blipVars, streakVars, endVars, hostVars
<1>4. WindowInv'
  <2>1. UNCHANGED <<quiet, silence, lag, pc, armed, phase, hung>>
    BY DEF Seal, hostVars
  <2>2. Beating
    BY DEF Seal
  <2>3. ~unread' => ~unread
    BY DEF IInv, TypeOK, Seal
  <2> QED BY <2>1, <2>2, <2>3 DEF IInv, WindowInv
<1>5. EndInv'
    BY DriverAssumption DEF IInv, TypeOK, SandboxInv, GoneInv, WindowInv, EndInv, Seal, InLease,
       Beating, Exists, Phases, Terminal, blipVars, streakVars, endVars, hostVars
<1> QED BY <1>1, <1>2, <1>3, <1>4, <1>5 DEF IInv

\* A guest that exits has ended, and beats no more.
LEMMA StepExit ==
  ASSUME IInv, Exit
  PROVE  IInv'
<1>1. TypeOK'
    BY DriverAssumption DEF IInv, TypeOK, SandboxInv, Exit, InLease, Beating, Exists, Phases,
       blipVars, storeVars, streakVars, endVars, hostVars
<1>2. SandboxInv'
    BY DriverAssumption DEF IInv, TypeOK, SandboxInv, EndInv, Exit, InLease, Terminal, Beating,
       Exists, Phases, blipVars, storeVars, streakVars, endVars, hostVars
<1>3. GoneInv'
    BY DriverAssumption DEF IInv, TypeOK, SandboxInv, GoneInv, Exit, InLease, Exists, Phases,
       Beating, blipVars, storeVars, streakVars, endVars, hostVars
<1>4. WindowInv'
    BY DriverAssumption DEF IInv, TypeOK, SandboxInv, WindowInv, Exit, InLease, Beating, Exists,
       Phases, Terminal, blipVars, storeVars, streakVars, endVars, hostVars
<1>5. EndInv'
    BY DriverAssumption DEF IInv, TypeOK, SandboxInv, GoneInv, WindowInv, EndInv, Exit, InLease,
       Beating, Exists, Phases, Terminal, blipVars, storeVars, streakVars, endVars, hostVars
<1> QED BY <1>1, <1>2, <1>3, <1>4, <1>5 DEF IInv

\* A guest that crashes has ended, and beats no more.
LEMMA StepCrash ==
  ASSUME IInv, Crash
  PROVE  IInv'
<1>1. TypeOK'
    BY DriverAssumption DEF IInv, TypeOK, SandboxInv, Crash, InLease, Beating, Exists, Phases,
       blipVars, storeVars, streakVars, endVars, hostVars
<1>2. SandboxInv'
    BY DriverAssumption DEF IInv, TypeOK, SandboxInv, EndInv, Crash, InLease, Terminal, Beating,
       Exists, Phases, blipVars, storeVars, streakVars, endVars, hostVars
<1>3. GoneInv'
    BY DriverAssumption DEF IInv, TypeOK, SandboxInv, GoneInv, Crash, InLease, Exists, Phases,
       Beating, blipVars, storeVars, streakVars, endVars, hostVars
<1>4. WindowInv'
    BY DriverAssumption DEF IInv, TypeOK, SandboxInv, WindowInv, Crash, InLease, Beating,
       Exists, Phases, Terminal, blipVars, storeVars, streakVars, endVars, hostVars
<1>5. EndInv'
    BY DriverAssumption DEF IInv, TypeOK, SandboxInv, GoneInv, WindowInv, EndInv, Crash,
       InLease, Beating, Exists, Phases, Terminal, blipVars, storeVars, streakVars, endVars, hostVars
<1> QED BY <1>1, <1>2, <1>3, <1>4, <1>5 DEF IInv

\* A guest that hangs beats no more.
LEMMA StepHang ==
  ASSUME IInv, Hang
  PROVE  IInv'
<1>1. TypeOK'
    BY DriverAssumption DEF IInv, TypeOK, SandboxInv, Hang, InLease, Beating, Exists, Phases,
       blipVars, storeVars, streakVars, endVars, hostVars
<1>2. SandboxInv'
    BY DriverAssumption DEF IInv, TypeOK, SandboxInv, EndInv, Hang, InLease, Terminal, Beating,
       Exists, Phases, blipVars, storeVars, streakVars, endVars, hostVars
<1>3. GoneInv'
    BY DriverAssumption DEF IInv, TypeOK, SandboxInv, GoneInv, Hang, InLease, Exists, Phases,
       Beating, blipVars, storeVars, streakVars, endVars, hostVars
<1>4. WindowInv'
    BY DriverAssumption DEF IInv, TypeOK, SandboxInv, WindowInv, Hang, InLease, Beating, Exists,
       Phases, Terminal, blipVars, storeVars, streakVars, endVars, hostVars
<1>5. EndInv'
    BY DriverAssumption DEF IInv, TypeOK, SandboxInv, GoneInv, WindowInv, EndInv, Hang, InLease,
       Beating, Exists, Phases, Terminal, blipVars, storeVars, streakVars, endVars, hostVars
<1> QED BY <1>1, <1>2, <1>3, <1>4, <1>5 DEF IInv

\* A sandbox that is deleted does not exist, and beats no more.
LEMMA StepVanish ==
  ASSUME IInv, Vanish
  PROVE  IInv'
<1>1. TypeOK'
    BY DriverAssumption DEF IInv, TypeOK, SandboxInv, Vanish, InLease, Beating, Exists, Phases,
       blipVars, storeVars, streakVars, endVars, hostVars
<1>2. SandboxInv'
    BY DriverAssumption DEF IInv, TypeOK, SandboxInv, EndInv, Vanish, InLease, Terminal,
       Beating, Exists, Phases, blipVars, storeVars, streakVars, endVars, hostVars
<1>3. GoneInv'
    BY DriverAssumption DEF IInv, TypeOK, SandboxInv, GoneInv, Vanish, InLease, Exists, Phases,
       Beating, blipVars, storeVars, streakVars, endVars, hostVars
<1>4. WindowInv'
    BY DriverAssumption DEF IInv, TypeOK, SandboxInv, WindowInv, Vanish, InLease, Beating,
       Exists, Phases, Terminal, blipVars, storeVars, streakVars, endVars, hostVars
<1>5. EndInv'
    BY DriverAssumption DEF IInv, TypeOK, SandboxInv, GoneInv, WindowInv, EndInv, Vanish,
       InLease, Beating, Exists, Phases, Terminal, blipVars, storeVars, streakVars, endVars, hostVars
<1> QED BY <1>1, <1>2, <1>3, <1>4, <1>5 DEF IInv


-----------------------------------------------------------------------------
(* The theorems *)

\* A stuttering step changes nothing the invariant speaks of.
LEMMA StutterStep ==
  ASSUME IInv, UNCHANGED vars
  PROVE  IInv'
BY DEF IInv, TypeOK, SandboxInv, GoneInv, WindowInv, EndInv, Beating, Exists, vars, guestVars,
     blipVars, storeVars, readerVars, streakVars, endVars

\* Every step keeps the invariant.
LEMMA NextIInv ==
  ASSUME IInv, [Next]_vars
  PROVE  IInv'
<1>1. CASE Drive
  BY <1>1, StepLaunch, StepPoll, StepCheckReady, StepStatus, StepSeeTerminal, StepUnstartable,
     StepExternal, StepSilent, StepSleep, StepFinalPoll, StepReap, StepReadResult DEF Drive
<1>2. CASE Faults
  BY <1>2, StepLaunchFails, StepStatusMisses, StepLag, StepError, StepReapFails DEF Faults
<1>3. CASE Sandbox
  BY <1>3, StepWait, StepStart, StepShip, StepWriteResult, StepSeal, StepExit, StepCrash,
     StepHang, StepVanish DEF Sandbox
<1>4. CASE UNCHANGED vars
  BY <1>4, StutterStep
<1> QED BY <1>1, <1>2, <1>3, <1>4 DEF Next

\* The invariant holds in every reachable state.
THEOREM Invariance == Spec => []IInv
BY InitIInv, NextIInv, PTL DEF Spec

\* Type correctness.
THEOREM TypeCorrect == Spec => []TypeOK
<1>1. IInv => TypeOK
  BY DEF IInv
<1> QED BY <1>1, Invariance, PTL

\* A node that completed by a terminal phase has been read to its last chunk.
THEOREM TailRead == Spec => []TailIsRead
<1>1. IInv => TailIsRead
  BY DEF IInv, EndInv, TailIsRead
<1> QED BY <1>1, Invariance, PTL

\* Every way out of the lease reaps the sandbox.
THEOREM AlwaysReaped == Spec => []NoLeak
<1>1. IInv => NoLeak
  BY DEF IInv, EndInv, NoLeak, Returned, Exists, Phases
<1> QED BY <1>1, Invariance, PTL

\* Success is reported only for a guest that wrote it and was seen to end.
THEOREM SuccessEarned == Spec => []SuccessIsEarned
<1>1. IInv => SuccessIsEarned
  BY DEF IInv, EndInv, SuccessIsEarned
<1> QED BY <1>1, Invariance, PTL

\* Fewer than GonePolls wrong answers in a row never make a sandbox "external".
THEOREM ExternalIsGone == Spec => []ExternalMeansGone
<1>1. IInv => ExternalMeansGone
  BY DEF IInv, EndInv, ExternalMeansGone
<1> QED BY <1>1, Invariance, PTL

-----------------------------------------------------------------------------
(* Silence, for a window that covers heartbeat and lag. *)

\* A guest that keeps its heartbeat is not judged silent.
LEMMA SilentStep ==
  ASSUME WindowCovers, IInv, SilentMeansStopped, [Next]_vars
  PROVE  SilentMeansStopped'
<1>1. CASE GiveUp(Silent, "silent")
  <2>1. ~Beating
    BY <1>1, DriverAssumption DEF WindowCovers, IInv, TypeOK, WindowInv, GiveUp, Silent, IsDead, InLease
  <2> QED
    BY <1>1, <2>1 DEF GiveUp, guestVars, SilentMeansStopped, Beating
<1>2. CASE UNCHANGED outcome /\ outcome = "silent"
  <2>1. ~Beating /\ phase \notin {"none", "pending"} /\ pc # "launch"
    BY <1>2 DEF IInv, EndInv, SandboxInv, SilentMeansStopped
  <2>2. ~Beating'
    BY <2>1 DEF Next, Drive, Faults, Sandbox, Launch, Poll, CheckReady, Status, StatusMisses, Answer,
       SeeTerminal, GiveUp, Sleep, FinalPoll, Reap, ReadResult, LaunchFails, Lag, Error, ReapFails,
       Wait, Start, Ship, WriteResult, Seal, Exit, Crash, Hang, Vanish, Beating, Exists, vars, guestVars
  <2> QED
    BY <2>2 DEF SilentMeansStopped
<1>3. outcome' = "silent" => (outcome = "silent" /\ UNCHANGED outcome) \/ GiveUp(Silent, "silent")
  BY DEF Next, Drive, Faults, Sandbox, Launch, Poll, CheckReady, Status, StatusMisses, Answer,
     SeeTerminal, GiveUp, Sleep, FinalPoll, Reap, ReadResult, LaunchFails, Lag, Error, ReapFails,
     Wait, Start, Ship, WriteResult, Seal, Exit, Crash, Hang, Vanish, vars, endVars, hostVars
<1> QED
  BY <1>1, <1>2, <1>3 DEF SilentMeansStopped

\* When dead_after_s covers the heartbeat interval and the time one round of the
\* host's calls may take, no guest that keeps its heartbeat is reaped as silent; and
\* "external" is true whatever the window.
THEOREM NoFalseVerdict ==
  ASSUME WindowCovers
  PROVE  Spec => []GivesUpRightly
<1>1. Init => SilentMeansStopped
  BY DEF Init, SilentMeansStopped
<1>2. IInv /\ SilentMeansStopped /\ [Next]_vars => SilentMeansStopped'
  BY SilentStep
<1>3. SilentMeansStopped /\ ExternalMeansGone => GivesUpRightly
  BY DEF GivesUpRightly
<1> QED BY <1>1, <1>2, <1>3, Invariance, ExternalIsGone, PTL DEF Spec

-----------------------------------------------------------------------------
(* One node, as the callers of drive_node may rely on it. *)

\* What the guest has put by now, that a sandbox that ended has no guest, and that a
\* verdict is given once.
NodeInv ==
  /\ guest \in {"resulted", "sealed"} => resultObj # "none"
  /\ phase \in {"succeeded", "failed", "gone"} => guest = "over"
  /\ verdict # "none" => pc = "done"
  /\ pc = "raised" => outcome = "raised"
  /\ pc = "done" => outcome # "raised"

\* Every step keeps that.
LEMMA NodeInvStep ==
  ASSUME IInv, NodeInv, [Next]_vars
  PROVE  NodeInv'
<1>1. (guest \in {"resulted", "sealed"} => resultObj # "none")'
  BY DEF NodeInv, Next, Drive, Faults, Sandbox, Launch, Poll,
     CheckReady, Status, StatusMisses, Answer, SeeTerminal, GiveUp, Sleep, FinalPoll, Reap, ReadResult,
     LaunchFails, Lag, Error, ReapFails, Wait, Start, Ship, WriteResult, Seal, Exit, Crash, Hang,
        Vanish,
     vars, guestVars, storeVars, hostVars, blipVars, streakVars, endVars
<1>2. (phase \in {"succeeded", "failed", "gone"} => guest = "over")'
  BY DEF NodeInv, Next, Drive, Faults, Sandbox, Launch, Poll, Exists, Phases, Beating,
     CheckReady, Status, StatusMisses, Answer, SeeTerminal, GiveUp, Sleep, FinalPoll, Reap, ReadResult,
     LaunchFails, Lag, Error, ReapFails, Wait, Start, Ship, WriteResult, Seal, Exit, Crash, Hang,
        Vanish,
     vars, guestVars, storeVars, hostVars, blipVars, streakVars, endVars
<1>3. /\ (verdict # "none" => pc = "done")'
      /\ (pc = "raised" => outcome = "raised")'
      /\ (pc = "done" => outcome # "raised")'
  BY DEF NodeInv, IInv, EndInv, InLease, AfterError, Next, Drive, Faults, Sandbox, Launch, Poll,
     CheckReady, Status, StatusMisses, Answer, SeeTerminal, GiveUp, Sleep, FinalPoll, Reap, ReadResult,
     LaunchFails, Lag, Error, ReapFails, Wait, Start, Ship, WriteResult, Seal, Exit, Crash, Hang,
        Vanish,
     vars, guestVars, storeVars, hostVars, blipVars, streakVars, endVars
<1> QED BY <1>1, <1>2, <1>3 DEF NodeInv

\* The guest's steps, seen from the store.
LEMMA GuestPart ==
  ASSUME IInv, NodeInv, [Next]_vars
  PROVE  [Node!Guest!Next]_Node!Guest!reportVars
<1>1. CASE WriteResult
  <2>1. guest = "working" /\ resultObj = "none" /\ ~manifest
    BY <1>1 DEF WriteResult, IInv, SandboxInv, TypeOK
  <2> QED
    BY <1>1, <2>1 DEF WriteResult, Node!Guest!Next, Node!Guest!WriteResult
<1>2. CASE Seal
  BY <1>2 DEF Seal, NodeInv, Node!Guest!Next, Node!Guest!Seal
<1>3. CASE UNCHANGED <<guest, resultObj, manifest>>
  BY <1>3 DEF Node!Guest!reportVars
<1>4. CASE guest' = "over" /\ UNCHANGED storeVars
  BY <1>4 DEF storeVars, Node!Guest!Next, Node!Guest!Exit, Node!Guest!reportVars
<1>5. CASE Start
  BY <1>5 DEF Start, storeVars, IInv, SandboxInv, Node!Guest!reportVars
<1>6. WriteResult \/ Seal \/ Start \/ UNCHANGED <<guest, resultObj, manifest>>
        \/ (guest' = "over" /\ UNCHANGED storeVars)
  BY DEF Next, Drive, Faults, Sandbox, Launch, Poll, CheckReady, Status, StatusMisses, Answer,
     SeeTerminal, GiveUp, Sleep, FinalPoll, Reap, ReadResult, LaunchFails, Lag, Error, ReapFails,
     Wait, Ship, Exit, Crash, Hang, Vanish, vars, guestVars, storeVars
<1> QED
  BY <1>1, <1>2, <1>3, <1>4, <1>5, <1>6

\* The host's steps: only those that end the drive change what the caller gets, and the
\* guest does not move in them.
LEMMA EndPart ==
  ASSUME IInv, NodeInv, [Next]_vars
  PROVE  UNCHANGED <<outcome, verdict>> \/ UNCHANGED <<guest, storeVars>>
BY DEF Next, Drive, Faults, Sandbox, Launch, Poll, CheckReady, Status, StatusMisses, Answer,
   SeeTerminal, GiveUp, Sleep, FinalPoll, Reap, ReadResult, LaunchFails, Lag, Error, ReapFails,
   Wait, Start, Ship, WriteResult, Seal, Exit, Crash, Hang, Vanish, vars, guestVars, storeVars,
   hostVars, endVars

\* The status that drive_node ends with, at the step that gives it.
NodeStatus == IF outcome = "raised" THEN "raised" ELSE verdict

\* A drive ends once, and with success only after its guest.
LEMMA StatusPart ==
  ASSUME IInv, NodeInv, [Next]_vars, NodeStatus' # NodeStatus
  PROVE  /\ NodeStatus = "none"
         /\ NodeStatus' \in {"failure", "raised"}
            \/ (NodeStatus' = "success" /\ guest = "over" /\ resultObj = "success")
<1>1. CASE ReadResult
  <2>1. pc = "read" /\ verdict = "none" /\ outcome # "raised" /\ outcome' = outcome
    BY <1>1 DEF ReadResult, NodeInv, IInv, EndInv
  <2>2. verdict' = "success" => outcome = "completed" /\ resultObj = "success" /\ ~withReady
    BY <1>1 DEF ReadResult, Verdict
  <2>3. outcome = "completed" /\ ~withReady => guest = "over"
    <3>1. outcome = "completed" /\ ~withReady => phase \in {"succeeded", "failed", "gone"}
      BY DEF IInv, EndInv, SandboxInv
    <3> QED BY <3>1 DEF NodeInv
  <2>4. verdict' \in {"none", "failure", "success"}
    BY <1>1 DEF ReadResult, Verdict
  <2> QED BY <2>1, <2>2, <2>3, <2>4 DEF NodeStatus
<1>2. CASE outcome' = "raised"
  <2>1. outcome # "raised" => pc # "done"
    BY <1>2 DEF Next, Drive, Faults, Sandbox, Launch, Poll, CheckReady, Status, StatusMisses, Answer,
       SeeTerminal, GiveUp, Sleep, FinalPoll, Reap, ReadResult, LaunchFails, Lag, Error, ReapFails,
       Wait, Start, Ship, WriteResult, Seal, Exit, Crash, Hang, Vanish, vars, hostVars, endVars,
       InLease
  <2> QED BY <1>2, <2>1 DEF NodeStatus, NodeInv
<1>3. ReadResult \/ outcome' = "raised" \/ NodeStatus' = NodeStatus
  BY DEF NodeStatus, NodeInv, IInv, EndInv, InLease, Next, Drive, Faults, Sandbox, Launch, Poll,
     CheckReady,
     Status, StatusMisses, Answer, SeeTerminal, GiveUp, Sleep, FinalPoll, Reap, LaunchFails, Lag,
     Error, ReapFails, Wait, Start, Ship, WriteResult, Seal, Exit, Crash, Hang, Vanish, vars,
     hostVars, endVars
<1> QED BY <1>1, <1>2, <1>3

\* A step of the host or of the sandbox is one of NodeDrive's, or none.
LEMMA NodeStep ==
  ASSUME IInv, NodeInv, [Next]_vars
  PROVE  [Node!Next]_Node!nodeVars
<1>1. CASE NodeStatus' = NodeStatus
  BY <1>1, GuestPart DEF NodeStatus, Node!Next, Node!GuestStep, Node!nodeVars, Node!Guest!reportVars
<1>2. CASE NodeStatus' # NodeStatus
  <2>1. UNCHANGED <<guest, storeVars>>
    BY <1>2, EndPart DEF NodeStatus
  <2>2. NodeStatus' \in {"failure", "raised"} \/ NodeStatus' = Node!Reported
    BY <1>2, StatusPart DEF Node!Reported
  <2> QED BY <1>2, <2>1, <2>2, StatusPart DEF NodeStatus, storeVars, Node!Next, Node!End
<1> QED BY <1>1, <1>2

\* drive_node ends once, with a status of its guest's only when the guest is over, for a
\* guest that may crash, hang and be deleted at any moment but reports as GuestReport
\* has it (driver.py:150-200).
THEOREM ImplementsNode == Spec => NodeSpec
<1>1. Init => NodeInv /\ Node!Init
  BY DEF Init, NodeInv, Node!Init, Node!Guest!Init
<1> QED
  BY <1>1, NodeInvStep, NodeStep, Invariance, PTL DEF Spec, NodeSpec, Node!Spec

-----------------------------------------------------------------------------
(* The guest alone: the interface at which Runner and Driver meet. *)

\* The guest of this module reports as the runner is proved to do.
THEOREM GuestReports == Spec => Node!Guest!Spec
<1>1. Init => NodeInv /\ Node!Guest!Init
  BY DEF Init, NodeInv, Node!Guest!Init
<1> QED
  BY <1>1, NodeInvStep, GuestPart, Invariance, PTL DEF Spec, Node!Guest!Spec

-----------------------------------------------------------------------------
(* The telemetry alone: the interface at which Telemetry and Driver meet. *)

\* Here `unread`, `manifest` and `sawTotal` are variables; Telemetry has them of its chunks,
\* its manifest object and its reader.
Stream == INSTANCE ChunkStream

\* The driver's polls, its guest's chunks and its manifest go by the steps that shipper,
\* store and reader are proved to take, whatever else happens to either side.
THEOREM TakesStream == Spec => Stream!Spec
<1>1. Init => Stream!Init
  BY DEF Init, Stream!Init
<1>2. ASSUME IInv, [Next]_vars PROVE [Stream!Next]_(Stream!streamVars)
  <2>1. CASE Ship
    BY <1>2, <2>1 DEF IInv, TypeOK, SandboxInv, Ship, hostVars, storeVars,
         Stream!Next, Stream!Put
  <2>2. CASE Seal
    BY <1>2, <2>2 DEF IInv, TypeOK, SandboxInv, Seal, hostVars, Stream!Next, Stream!Seal
  <2>3. CASE Poll \/ FinalPoll
    <3>1. ReadAll /\ UNCHANGED manifest
      BY <2>3 DEF Poll, FinalPoll, storeVars
    <3> QED BY <3>1 DEF ReadAll, Stream!Next, Stream!Poll
  <2>4. CASE UNCHANGED <<unread, manifest, sawTotal>>
    BY <2>4 DEF Stream!streamVars
  <2>5. CASE ~(Ship \/ Seal \/ Poll \/ FinalPoll)
    <3>1. UNCHANGED <<unread, manifest, sawTotal>>
      BY <1>2, <2>5 DEF Next, Drive, Faults, Sandbox, Launch, LaunchFails, CheckReady, Status,
           StatusMisses, Answer, SeeTerminal, GiveUp, Sleep, Lag, Error, Reap, ReapFails,
           ReadResult, Wait, Start, WriteResult, Exit, Crash, Hang, Vanish,
           vars, guestVars, storeVars, readerVars, hostVars
    <3> QED BY <2>4, <3>1
  <2> QED BY <2>1, <2>2, <2>3, <2>5
<1> QED BY <1>1, <1>2, Invariance, PTL DEF Spec, Stream!Spec

-----------------------------------------------------------------------------
(* Progress.  That the drive ends is for TLC (fairness); that only finitely many of its *)
(* steps are left once the sandbox is lost, has ended or is stuck is proved: a triple   *)
(* of natural numbers goes down with every step of the host, in lexicographic order,    *)
(* and does not go up with any of the sandbox.                                          *)

\* The order of Progress is well founded: it is the library's lexicographic order, twice.
LessThan == {p \in Nat \X Nat : p[1] < p[2]}
Pairs    == Nat \X Nat
LessPair == LexPairOrdering(LessThan, LessThan, Nat, Nat)
LessNest == LexPairOrdering(LessThan, LessPair, Nat, Pairs)

\* The nested order is well founded, as < is on the natural numbers.
LEMMA NestWellFounded == IsWellFoundedOn(LessNest, Nat \X Pairs)
<1>1. IsWellFoundedOn(LessThan, Nat)
  <2>1. LessThan = OpToRel(<, Nat)
    BY DEF OpToRel, LessThan
  <2> QED BY <2>1, NatLessThanWellFounded
<1>2. IsWellFoundedOn(LessPair, Pairs)
  BY <1>1, WFLexPairOrdering DEF LessPair, Pairs
<1> QED BY <1>1, <1>2, WFLexPairOrdering DEF LessNest

\* What Less relates, the nested order relates.
LEMMA NestOfLess ==
  ASSUME NEW a \in Triples, NEW b \in Triples, Less(a, b)
  PROVE  <<<<a[1], <<a[2], a[3]>>>>, <<b[1], <<b[2], b[3]>>>>>> \in LessNest
<1> DEFINE x == <<a[2], a[3]>>
           y == <<b[2], b[3]>>
<1>1. /\ a[1] \in Nat /\ a[2] \in Nat /\ a[3] \in Nat
      /\ b[1] \in Nat /\ b[2] \in Nat /\ b[3] \in Nat
  BY DEF Triples
<1>2. x \in Pairs /\ y \in Pairs /\ <<x, y>> \in Pairs \X Pairs
  BY <1>1 DEF Pairs
<1>3. \A i, j \in Nat : i < j => <<i, j>> \in LessThan
  BY DEF LessThan
<1>4. a[2] < b[2] \/ (a[2] = b[2] /\ a[3] < b[3]) => <<x, y>> \in LessPair
  BY <1>1, <1>2, <1>3 DEF LessPair, LexPairOrdering, Pairs
<1> HIDE DEF x, y
<1>5. <<<<a[1], x>>, <<b[1], y>>>> \in (Nat \X Pairs) \X (Nat \X Pairs)
  BY <1>1, <1>2
<1>6. <<<<a[1], x>>, <<b[1], y>>>> \in LessNest
  BY <1>1, <1>3, <1>4, <1>5 DEF Less, LessNest, LexPairOrdering
<1> QED BY <1>6 DEF x, y

\* No measure goes down for ever.
THEOREM LessIsWellFounded ==
  ~ \E f \in [Nat -> Triples] : \A k \in Nat : Less(f[k + 1], f[k])
<1> SUFFICES ASSUME NEW f \in [Nat -> Triples], \A k \in Nat : Less(f[k + 1], f[k])
             PROVE  FALSE
  OBVIOUS
<1> DEFINE nest(t) == <<t[1], <<t[2], t[3]>>>>
           g == [k \in Nat |-> nest(f[k])]
<1>1. g \in [Nat -> Nat \X Pairs]
  BY DEF Triples, Pairs
<1>2. ASSUME NEW k \in Nat PROVE <<g[k + 1], g[k]>> \in LessNest
  <2>1. k + 1 \in Nat /\ f[k] \in Triples /\ f[k + 1] \in Triples /\ Less(f[k + 1], f[k])
    OBVIOUS
  <2>2. <<nest(f[k + 1]), nest(f[k])>> \in LessNest
    BY <2>1, NestOfLess
  <2> QED BY <2>1, <2>2
<1> HIDE DEF g
<1>3. ~IsWellFoundedOn(LessNest, Nat \X Pairs)
  BY <1>1, <1>2, Zenon DEF IsWellFoundedOn
<1> QED BY <1>3, NestWellFounded

\* Steps left in this round and, if it is the last, after the lease.
StepsLeft ==
  CASE pc = "poll"   -> MaxLag + 7
    [] pc = "ready"  -> MaxLag + 6
    [] pc = "status" -> MaxLag - lag + 5
    [] pc = "judge"  -> 4
    [] pc = "final"  -> 3
    [] pc = "reap"   -> 2
    [] pc = "read"   -> 1
    [] OTHER         -> 0

\* The round's answer is counted and not yet judged.
Judging == OneIf(pc = "judge" /\ ~Terminal(observed))

\* The guest is gone for good, before it wrote its manifest.
Lost == (phase = "gone" \/ hung) /\ ~manifest

\* First the sandbox may go, the last chunk be read and the window be armed; then the
\* window runs out, or what status answers of a sandbox that never ran.
LossMeasure ==
  << 4 * OneIf(Exists) + 2 * OneIf(unread) + OneIf(~armed),
     IF armed THEN DeadAfter + 1 - silence
     ELSE IF Exists THEN MaxBlips - blips + Judging
     ELSE GonePolls - goneStreak + Judging,
     StepsLeft >>

\* The sandbox ended by itself, ...
Ended == phase \in {"succeeded", "failed"}
ExitMeasure == << 0, MaxBlips - blips + Judging, StepsLeft >>

\* ... or waits for what will not come.
Stuck == phase = "pending" /\ waiting
StuckMeasure == << MaxBlips - blips, UnstartablePolls - stuckStreak + Judging, StepsLeft >>

\* A step of the host takes the measure down, any other one does not raise it.
CountsDown(before, after) ==
  before \in Triples /\ (Less(after, before) \/ (after = before /\ UNCHANGED hostVars))

LossCountsDown == [][Lost => Lost' /\ CountsDown(LossMeasure, LossMeasure')]_vars
ExitCountsDown == [][Ended /\ Ended' => CountsDown(ExitMeasure, ExitMeasure')]_vars
StuckCountsDown == [][Stuck /\ Stuck' => CountsDown(StuckMeasure, StuckMeasure')]_vars

\* What hangs has run, and a streak that has sufficed has ended the lease.
CountInv ==
  /\ hung => phase \notin {"none", "pending"}
  /\ pc \in {"poll", "ready", "status"} /\ ~armed => goneStreak < GonePolls

\* Every step keeps that.
LEMMA CountInvStep ==
  ASSUME IInv, CountInv, [Next]_vars
  PROVE  CountInv'
<1>1. (hung => phase \notin {"none", "pending"})'
  BY DEF CountInv, IInv, SandboxInv, Beating, Next, Drive, Faults, Sandbox, Launch, Poll,
     CheckReady, Status, StatusMisses, Answer, SeeTerminal, GiveUp, Sleep, FinalPoll, Reap, ReadResult,
     LaunchFails, Lag, Error, ReapFails, Wait, Start, Ship, WriteResult, Seal, Exit, Crash, Hang,
        Vanish,
     vars, guestVars
<1>2. (pc \in {"poll", "ready", "status"} /\ ~armed => goneStreak < GonePolls)'
  <2>1. CASE Sleep
    BY <2>1, DriverAssumption DEF Sleep, IInv, TypeOK, External, GoneForGood, Completed, Unstartable,
       streakVars
  <2>2. CASE Launch
    BY <2>2, DriverAssumption DEF Launch, IInv, SandboxInv, streakVars
  <2>3. CASE ~Sleep /\ ~Launch
    BY <2>3 DEF CountInv, InLease, AfterError, Next, Drive, Faults, Sandbox, Poll,
       CheckReady, Status, StatusMisses, Answer, SeeTerminal, GiveUp, FinalPoll, Reap, ReadResult,
       LaunchFails, Lag, Error, ReapFails, Wait, Start, Ship, WriteResult, Seal, Exit, Crash, Hang,
          Vanish,
       vars, hostVars, readerVars, streakVars
  <2> QED BY <2>1, <2>2, <2>3
<1> QED BY <1>1, <1>2 DEF CountInv

\* The measures are natural numbers.
LEMMA MeasuresAreNat ==
  ASSUME IInv, CountInv
  PROVE  LossMeasure \in Triples /\ ExitMeasure \in Triples /\ StuckMeasure \in Triples
<1>1. StepsLeft \in Nat /\ Judging \in {0, 1}
  BY DriverAssumption DEF IInv, TypeOK, StepsLeft, Judging, OneIf
<1>2. /\ DeadAfter + 1 - silence \in Nat /\ MaxBlips - blips \in Nat
      /\ GonePolls - goneStreak \in Nat /\ UnstartablePolls - stuckStreak \in Nat
  BY DriverAssumption DEF IInv, TypeOK
<1> QED
  BY <1>1, <1>2 DEF LossMeasure, ExitMeasure, StuckMeasure, Triples, OneIf

\* A loss is noticed, whatever is still to be read, armed or counted.
LEMMA LossStep ==
  ASSUME IInv, CountInv, [Next]_vars, Lost
  PROVE  Lost' /\ CountsDown(LossMeasure, LossMeasure')
<1> USE DriverAssumption DEF Terminal, Lost, Less, OneIf, Judging, StepsLeft, Exists, Phases
<1>1. Lost'
  <2>1. ~Launch /\ ~LaunchFails /\ ~Start /\ ~Seal
    BY DEF Launch, LaunchFails, Start, Seal, Beating, IInv, SandboxInv, CountInv
  <2>2. manifest' = manifest
    BY <2>1 DEF Next, Drive, Faults, Sandbox, Poll, CheckReady, Status, StatusMisses, Answer,
       SeeTerminal, GiveUp, Sleep, FinalPoll, Reap, ReadResult, Lag, Error, ReapFails, Wait, Ship,
       WriteResult, Exit, Crash, Hang, Vanish, vars, guestVars, storeVars
  <2>3. hung => hung'
    BY <2>1 DEF Next, Drive, Faults, Sandbox, Poll, CheckReady, Status, StatusMisses, Answer,
       SeeTerminal, GiveUp, Sleep, FinalPoll, Reap, ReadResult, Lag, Error, ReapFails, Wait, Ship,
       WriteResult, Exit, Crash, Hang, Vanish, vars, guestVars, storeVars
  <2>4. phase = "gone" => phase' = "gone"
    BY <2>1 DEF Next, Drive, Faults, Sandbox, Poll, CheckReady, Status, StatusMisses, Answer,
       SeeTerminal, GiveUp, Sleep, FinalPoll, Reap, ReadResult, Lag, Error, ReapFails, Wait, Ship,
       WriteResult, Exit, Crash, Hang, Vanish, vars, guestVars, storeVars, Beating
  <2> QED BY <2>2, <2>3, <2>4
<1>2. LossMeasure \in Triples
  BY MeasuresAreNat
<1> USE DEF IInv, TypeOK, SandboxInv, CountInv, CountsDown, LossMeasure, guestVars, blipVars, storeVars,
            readerVars, streakVars, endVars
<1>3. ASSUME Launch PROVE CountsDown(LossMeasure, LossMeasure')
  BY <1>2, <1>3 DEF Launch
<1>4. ASSUME Poll PROVE CountsDown(LossMeasure, LossMeasure')
  BY <1>2, <1>4 DEF Poll, ReadAll
<1>5. ASSUME CheckReady PROVE CountsDown(LossMeasure, LossMeasure')
  BY <1>2, <1>5 DEF CheckReady
<1>6. ASSUME Status PROVE CountsDown(LossMeasure, LossMeasure')
  BY <1>2, <1>6 DEF Status, Answer, GoneStreakAfter, StuckStreakAfter, Arms
<1>7. ASSUME StatusMisses PROVE CountsDown(LossMeasure, LossMeasure')
  BY <1>2, <1>7 DEF StatusMisses, Answer, GoneStreakAfter, StuckStreakAfter, Arms
<1>8. ASSUME SeeTerminal PROVE CountsDown(LossMeasure, LossMeasure')
  BY <1>2, <1>8 DEF SeeTerminal, Completed
<1>9. ASSUME NEW test, NEW disposition, GiveUp(test, disposition)
       PROVE  CountsDown(LossMeasure, LossMeasure')
  BY <1>2, <1>9 DEF GiveUp
<1>10. ASSUME Sleep PROVE CountsDown(LossMeasure, LossMeasure')
  BY <1>2, <1>10 DEF Sleep, Tick, Completed, Unstartable, External, Silent, GoneForGood, IsDead,
     Finished
<1>11. ASSUME FinalPoll PROVE CountsDown(LossMeasure, LossMeasure')
  BY <1>2, <1>11 DEF FinalPoll, ReadAll
<1>12. ASSUME Reap PROVE CountsDown(LossMeasure, LossMeasure')
  BY <1>2, <1>12 DEF Reap
<1>13. ASSUME ReadResult PROVE CountsDown(LossMeasure, LossMeasure')
  BY <1>2, <1>13 DEF ReadResult
<1>14. ASSUME LaunchFails PROVE CountsDown(LossMeasure, LossMeasure')
  BY <1>2, <1>14 DEF LaunchFails
<1>15. ASSUME Lag PROVE CountsDown(LossMeasure, LossMeasure')
  BY <1>2, <1>15 DEF Lag, Tick
<1>16. ASSUME Error PROVE CountsDown(LossMeasure, LossMeasure')
  BY <1>2, <1>16 DEF Error, AfterError, InLease
<1>17. ASSUME ReapFails PROVE CountsDown(LossMeasure, LossMeasure')
  <2>1. pc = "reap" /\ pc' \in {"raised", "read"}
    BY <1>17 DEF ReapFails
  <2> QED BY <1>2, <1>17, <2>1 DEF ReapFails
<1>18. ASSUME Vanish PROVE CountsDown(LossMeasure, LossMeasure')
  BY <1>2, <1>18 DEF Vanish, hostVars
<1>19. ASSUME (Sandbox /\ ~Vanish) \/ UNCHANGED vars PROVE CountsDown(LossMeasure, LossMeasure')
  <2>1. (Exists' <=> Exists) /\ unread' = unread /\ UNCHANGED hostVars
    BY <1>19 DEF Beating, Sandbox, Wait, Start, Ship, WriteResult, Seal, Exit, Crash, Hang, vars,
       hostVars
  <2> QED BY <1>2, <2>1 DEF hostVars
<1> QED BY <1>1, <1>2, <1>3, <1>4, <1>5, <1>6, <1>7, <1>8, <1>9, <1>10, <1>11, <1>12, <1>13, <1>14,
   <1>15, <1>16, <1>17, <1>18, <1>19 DEF Next, Drive, Faults
\* An exit is noticed: only wrong answers can hide it, and those are few.
LEMMA ExitStep ==
  ASSUME IInv, CountInv, [Next]_vars, Ended, Ended'
  PROVE  CountsDown(ExitMeasure, ExitMeasure')
<1> USE DriverAssumption DEF Terminal, Ended, Less, OneIf, Judging, StepsLeft, IInv, TypeOK, SandboxInv,
            CountInv, CountsDown, ExitMeasure, guestVars, blipVars, storeVars, readerVars, streakVars,
               endVars
<1>1. ExitMeasure \in Triples
  BY MeasuresAreNat
<1>2. ASSUME Launch PROVE CountsDown(ExitMeasure, ExitMeasure')
  BY <1>1, <1>2 DEF Launch
<1>3. ASSUME Poll PROVE CountsDown(ExitMeasure, ExitMeasure')
  BY <1>1, <1>3 DEF Poll, ReadAll
<1>4. ASSUME CheckReady PROVE CountsDown(ExitMeasure, ExitMeasure')
  BY <1>1, <1>4 DEF CheckReady
<1>5. ASSUME Status PROVE CountsDown(ExitMeasure, ExitMeasure')
  BY <1>1, <1>5 DEF Status, Answer, GoneStreakAfter, StuckStreakAfter, Arms, Exists, Phases
<1>6. ASSUME StatusMisses PROVE CountsDown(ExitMeasure, ExitMeasure')
  BY <1>1, <1>6 DEF StatusMisses, Answer, GoneStreakAfter, StuckStreakAfter, Arms, Exists, Phases
<1>7. ASSUME SeeTerminal PROVE CountsDown(ExitMeasure, ExitMeasure')
  BY <1>1, <1>7 DEF SeeTerminal, Completed
<1>8. ASSUME NEW test, NEW disposition, GiveUp(test, disposition)
       PROVE  CountsDown(ExitMeasure, ExitMeasure')
  BY <1>1, <1>8 DEF GiveUp
<1>9. ASSUME Sleep PROVE CountsDown(ExitMeasure, ExitMeasure')
  BY <1>1, <1>9 DEF Sleep, Tick, Completed, Unstartable, External, Silent, GoneForGood, IsDead, Finished
<1>10. ASSUME FinalPoll PROVE CountsDown(ExitMeasure, ExitMeasure')
  BY <1>1, <1>10 DEF FinalPoll, ReadAll
<1>11. ASSUME ReadResult PROVE CountsDown(ExitMeasure, ExitMeasure')
  BY <1>1, <1>11 DEF ReadResult
<1>12. ASSUME LaunchFails PROVE CountsDown(ExitMeasure, ExitMeasure')
  BY <1>1, <1>12 DEF LaunchFails
<1>13. ASSUME Lag PROVE CountsDown(ExitMeasure, ExitMeasure')
  BY <1>1, <1>13 DEF Lag, Tick
<1>14. ASSUME Error PROVE CountsDown(ExitMeasure, ExitMeasure')
  BY <1>1, <1>14 DEF Error, AfterError, InLease
<1>15. ASSUME ReapFails PROVE CountsDown(ExitMeasure, ExitMeasure')
  <2>1. pc = "reap" /\ pc' \in {"raised", "read"}
    BY <1>15 DEF ReapFails
  <2> QED BY <1>1, <1>15, <2>1 DEF ReapFails
<1>16. ~Reap
  BY DEF Reap
<1>17. ASSUME Sandbox \/ UNCHANGED vars PROVE CountsDown(ExitMeasure, ExitMeasure')
  <2>1. UNCHANGED hostVars
    BY <1>17 DEF Sandbox, Wait, Start, Ship, WriteResult, Seal, Exit, Crash, Hang, Vanish, vars,
       hostVars
  <2> QED BY <1>1, <2>1 DEF hostVars
<1> QED BY <1>1, <1>2, <1>3, <1>4, <1>5, <1>6, <1>7, <1>8, <1>9, <1>10, <1>11, <1>12, <1>13, <1>14,
   <1>15, <1>16, <1>17 DEF Next, Drive, Faults

\* A pending sandbox that stays in a fatal waiting state is given up.
LEMMA StuckStep ==
  ASSUME IInv, CountInv, [Next]_vars, Stuck, Stuck'
  PROVE  CountsDown(StuckMeasure, StuckMeasure')
<1> USE DriverAssumption DEF Terminal, Stuck, Less, OneIf, Judging, StepsLeft, IInv, TypeOK, SandboxInv,
            CountInv, CountsDown, StuckMeasure, guestVars, blipVars, storeVars, readerVars, streakVars,
               endVars
<1>1. StuckMeasure \in Triples
  BY MeasuresAreNat
<1>2. ASSUME Launch PROVE CountsDown(StuckMeasure, StuckMeasure')
  BY <1>1, <1>2 DEF Launch
<1>3. ASSUME Poll PROVE CountsDown(StuckMeasure, StuckMeasure')
  BY <1>1, <1>3 DEF Poll, ReadAll
<1>4. ASSUME CheckReady PROVE CountsDown(StuckMeasure, StuckMeasure')
  BY <1>1, <1>4 DEF CheckReady
<1>5. ASSUME Status PROVE CountsDown(StuckMeasure, StuckMeasure')
  BY <1>1, <1>5 DEF Status, Answer, GoneStreakAfter, StuckStreakAfter, Arms, Exists, Phases
<1>6. ASSUME StatusMisses PROVE CountsDown(StuckMeasure, StuckMeasure')
  BY <1>1, <1>6 DEF StatusMisses, Answer, GoneStreakAfter, StuckStreakAfter, Arms, Exists, Phases
<1>7. ASSUME SeeTerminal PROVE CountsDown(StuckMeasure, StuckMeasure')
  BY <1>1, <1>7 DEF SeeTerminal, Completed
<1>8. ASSUME NEW test, NEW disposition, GiveUp(test, disposition)
       PROVE  CountsDown(StuckMeasure, StuckMeasure')
  BY <1>1, <1>8 DEF GiveUp
<1>9. ASSUME Sleep PROVE CountsDown(StuckMeasure, StuckMeasure')
  BY <1>1, <1>9 DEF Sleep, Tick, Completed, Unstartable, External, Silent, GoneForGood, IsDead, Finished
<1>10. ASSUME FinalPoll PROVE CountsDown(StuckMeasure, StuckMeasure')
  BY <1>1, <1>10 DEF FinalPoll, ReadAll
<1>11. ASSUME ReadResult PROVE CountsDown(StuckMeasure, StuckMeasure')
  BY <1>1, <1>11 DEF ReadResult
<1>12. ASSUME LaunchFails PROVE CountsDown(StuckMeasure, StuckMeasure')
  BY <1>1, <1>12 DEF LaunchFails
<1>13. ASSUME Lag PROVE CountsDown(StuckMeasure, StuckMeasure')
  BY <1>1, <1>13 DEF Lag, Tick
<1>14. ASSUME Error PROVE CountsDown(StuckMeasure, StuckMeasure')
  BY <1>1, <1>14 DEF Error, AfterError, InLease
<1>15. ASSUME ReapFails PROVE CountsDown(StuckMeasure, StuckMeasure')
  <2>1. pc = "reap" /\ pc' \in {"raised", "read"}
    BY <1>15 DEF ReapFails
  <2> QED BY <1>1, <1>15, <2>1 DEF ReapFails
<1>16. ~Reap
  BY DEF Reap
<1>17. ASSUME Sandbox \/ UNCHANGED vars PROVE CountsDown(StuckMeasure, StuckMeasure')
  <2>1. UNCHANGED hostVars
    BY <1>17 DEF Sandbox, Wait, Start, Ship, WriteResult, Seal, Exit, Crash, Hang, Vanish, vars,
       hostVars
  <2> QED BY <1>1, <2>1 DEF hostVars
<1> QED BY <1>1, <1>2, <1>3, <1>4, <1>5, <1>6, <1>7, <1>8, <1>9, <1>10, <1>11, <1>12, <1>13, <1>14,
   <1>15, <1>16, <1>17 DEF Next, Drive, Faults

\* The invariant that the counts need.
LEMMA CountInvariance == Spec => []CountInv
<1>1. Init => CountInv
  BY DriverAssumption DEF Init, CountInv
<1> QED BY <1>1, CountInvStep, Invariance, PTL DEF Spec

\* Once the guest is lost (deleted or silent, before its manifest) only finitely many
\* steps of the drive are left: each one takes LossMeasure down, and nothing that the
\* sandbox does takes it up (driver.py:101-147, telemetry.py:190-194).
THEOREM LossIsCounted == Spec => LossCountsDown
<1>1. IInv /\ CountInv /\ [Next]_vars => [Lost => Lost' /\ CountsDown(LossMeasure, LossMeasure')]_vars
  BY LossStep
<1> QED BY <1>1, CountInvariance, Invariance, PTL DEF Spec, LossCountsDown

\* The same once the sandbox has ended by itself, as long as nobody deletes it, ...
THEOREM ExitIsCounted == Spec => ExitCountsDown
<1>1. IInv /\ CountInv /\ [Next]_vars => [Ended /\ Ended' => CountsDown(ExitMeasure, ExitMeasure')]_vars
  BY ExitStep
<1> QED BY <1>1, CountInvariance, Invariance, PTL DEF Spec, ExitCountsDown

\* ... and while it stays in a fatal waiting state.
THEOREM StuckIsCounted == Spec => StuckCountsDown
<1>1. IInv /\ CountInv /\ [Next]_vars => [Stuck /\ Stuck' => CountsDown(StuckMeasure, StuckMeasure')]_vars
  BY StuckStep
<1> QED BY <1>1, CountInvariance, Invariance, PTL DEF Spec, StuckCountsDown
=============================================================================
