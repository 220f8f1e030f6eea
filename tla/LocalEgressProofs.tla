-------------------------- MODULE LocalEgressProofs --------------------------
(***************************************************************************)
(* For any number of chain rules and of unnoticed failures: applied egress *)
(* is in force, under SubstrateBackend's order of calls the driven guest   *)
(* is filtered, and between two runs nothing is left on the host while     *)
(* every teardown call takes effect.                                       *)
(***************************************************************************)
EXTENDS LocalEgress, TLAPS

\* How far a setup has come; a sweep leaves at most the copies that calls missed.
SetupProgress ==
  /\ phase = "setup" =>
       /\ at = 5 => chain \in 0..(RuleCount - 1)
       /\ at > 5 => chain = RuleCount
       /\ at > 6 => hooks["jump"] > 0
       /\ at > 7 => hooks["redirect"] > 0
       /\ at <= 6 => hooks["jump"] <= missed
       /\ at <= 7 => hooks["redirect"] <= missed
       /\ hooks["accept"] <= missed
  /\ phase = "sweep" =>
       /\ at > 3 => hooks["redirect"] <= missed
       /\ at > 4 => hooks["accept"] <= missed
       /\ at > 5 => hooks["jump"] <= missed

AppliedFits == applied => phase = "idle" /\ InForce

\* SubstrateBackend's order: what the caller's turn says of the runtime.
CallerFits == ~Direct =>
  /\ phase \in {"sweep", "setup", "rollback"} => turn = "apply"
  /\ turn = "launch" /\ active => applied
  /\ guest # "none" => phase = "idle" /\ turn = "destroy"
  /\ guest = "bridge" => applied

\* The inductive invariant.
IInv == TypeOK /\ SetupProgress /\ AppliedFits /\ CallerFits

-----------------------------------------------------------------------------
\* The steps of a teardown, by number.
LEMMA TearAt ==
  /\ Len(TearSteps) = 8
  /\ TearSteps[1] = "stop" /\ TearSteps[2] = "pkill" /\ TearSteps[3] = "redirect"
  /\ TearSteps[4] = "accept" /\ TearSteps[5] = "jump" /\ TearSteps[6] = "flush"
  /\ TearSteps[7] = "delete" /\ TearSteps[8] = "unlink"
BY DEF TearSteps

\* The steps of a setup, by number.
LEMMA SetupAt ==
  /\ Len(SetupSteps) = 8
  /\ SetupSteps[1] = "write" /\ SetupSteps[2] = "spawn" /\ SetupSteps[3] = "ready"
  /\ SetupSteps[4] = "new" /\ SetupSteps[5] = "rules" /\ SetupSteps[6] = "jump"
  /\ SetupSteps[7] = "redirect" /\ SetupSteps[8] = "accept"
BY DEF SetupSteps

\* A host nobody has touched satisfies the invariant.
LEMMA InitInv == Init => IInv
<1> SUFFICES ASSUME Init PROVE IInv
  OBVIOUS
<1>1. active \in BOOLEAN /\ applied \in BOOLEAN /\ domains \in BOOLEAN /\ untidy \in BOOLEAN
  BY Zenon DEF Init
<1> QED
  BY <1>1, EgressAssumption
  DEF Init, IInv, TypeOK, SetupProgress, AppliedFits, CallerFits, InForce, Hooks

\* A call is made in its turn, between two methods.
LEMMA CallerInv ==
  ASSUME IInv, Caller
  PROVE  IInv'
<1> USE EgressAssumption, TearAt, SetupAt
<1>1. CASE Apply
  <2>1. TypeOK'
    <3>1. active' \in BOOLEAN /\ applied' \in BOOLEAN /\ domains' \in BOOLEAN /\ untidy' \in BOOLEAN
      BY <1>1, Zenon DEF IInv, TypeOK, Apply, Turn, Network, AfterLaunch, SweepFrom, hostVars, objectVars, InForce
    <3> QED
      BY <1>1, <3>1 DEF IInv, TypeOK, SetupProgress, AppliedFits, CallerFits, Apply, Turn, Network, AfterLaunch, SweepFrom, hostVars, objectVars, InForce
  <2>2. SetupProgress'
    BY <1>1 DEF IInv, TypeOK, SetupProgress, AppliedFits, CallerFits, Apply, Turn, Network, AfterLaunch, SweepFrom, hostVars, objectVars, InForce
  <2>3. AppliedFits'
    BY <1>1 DEF IInv, TypeOK, SetupProgress, AppliedFits, CallerFits, Apply, Turn, Network, AfterLaunch, SweepFrom, hostVars, objectVars, InForce
  <2>4. CallerFits'
    BY <1>1 DEF IInv, TypeOK, SetupProgress, AppliedFits, CallerFits, Apply, Turn, Network, AfterLaunch, SweepFrom, hostVars, objectVars, InForce
  <2> QED
    BY <2>1, <2>2, <2>3, <2>4 DEF IInv
<1>2. CASE ApplyNothing
  <2>1. TypeOK'
    <3>1. active' \in BOOLEAN /\ applied' \in BOOLEAN /\ domains' \in BOOLEAN /\ untidy' \in BOOLEAN
      BY <1>2, Zenon DEF IInv, TypeOK, ApplyNothing, Turn, Network, AfterLaunch, SweepFrom, hostVars, objectVars, InForce
    <3> QED
      BY <1>2, <3>1 DEF IInv, TypeOK, SetupProgress, AppliedFits, CallerFits, ApplyNothing, Turn, Network, AfterLaunch, SweepFrom, hostVars, objectVars, InForce
  <2>2. SetupProgress'
    BY <1>2 DEF IInv, TypeOK, SetupProgress, AppliedFits, CallerFits, ApplyNothing, Turn, Network, AfterLaunch, SweepFrom, hostVars, objectVars, InForce
  <2>3. AppliedFits'
    BY <1>2 DEF IInv, TypeOK, SetupProgress, AppliedFits, CallerFits, ApplyNothing, Turn, Network, AfterLaunch, SweepFrom, hostVars, objectVars, InForce
  <2>4. CallerFits'
    BY <1>2 DEF IInv, TypeOK, SetupProgress, AppliedFits, CallerFits, ApplyNothing, Turn, Network, AfterLaunch, SweepFrom, hostVars, objectVars, InForce
  <2> QED
    BY <2>1, <2>2, <2>3, <2>4 DEF IInv
<1>3. CASE Clear
  <2>1. TypeOK'
    <3>1. active' \in BOOLEAN /\ applied' \in BOOLEAN /\ domains' \in BOOLEAN /\ untidy' \in BOOLEAN
      BY <1>3, Zenon DEF IInv, TypeOK, Clear, Turn, Network, AfterLaunch, SweepFrom, hostVars, objectVars, InForce
    <3> QED
      BY <1>3, <3>1 DEF IInv, TypeOK, SetupProgress, AppliedFits, CallerFits, Clear, Turn, Network, AfterLaunch, SweepFrom, hostVars, objectVars, InForce
  <2>2. SetupProgress'
    BY <1>3 DEF IInv, TypeOK, SetupProgress, AppliedFits, CallerFits, Clear, Turn, Network, AfterLaunch, SweepFrom, hostVars, objectVars, InForce
  <2>3. AppliedFits'
    BY <1>3 DEF IInv, TypeOK, SetupProgress, AppliedFits, CallerFits, Clear, Turn, Network, AfterLaunch, SweepFrom, hostVars, objectVars, InForce
  <2>4. CallerFits'
    BY <1>3 DEF IInv, TypeOK, SetupProgress, AppliedFits, CallerFits, Clear, Turn, Network, AfterLaunch, SweepFrom, hostVars, objectVars, InForce
  <2> QED
    BY <2>1, <2>2, <2>3, <2>4 DEF IInv
<1>4. CASE Launch
  <2>1. TypeOK'
    BY <1>4 DEF IInv, TypeOK, SetupProgress, AppliedFits, CallerFits, Launch, Turn, Network, AfterLaunch, SweepFrom, hostVars, objectVars, InForce
  <2>2. SetupProgress'
    BY <1>4 DEF IInv, TypeOK, SetupProgress, AppliedFits, CallerFits, Launch, Turn, Network, AfterLaunch, SweepFrom, hostVars, objectVars, InForce
  <2>3. AppliedFits'
    BY <1>4 DEF IInv, TypeOK, SetupProgress, AppliedFits, CallerFits, Launch, Turn, Network, AfterLaunch, SweepFrom, hostVars, objectVars, InForce
  <2>4. CallerFits'
    BY <1>4 DEF IInv, TypeOK, SetupProgress, AppliedFits, CallerFits, Launch, Turn, Network, AfterLaunch, SweepFrom, hostVars, objectVars, InForce
  <2> QED
    BY <2>1, <2>2, <2>3, <2>4 DEF IInv
<1>5. CASE LaunchError
  <2>1. TypeOK'
    BY <1>5 DEF IInv, TypeOK, SetupProgress, AppliedFits, CallerFits, LaunchError, Turn, Network, AfterLaunch, SweepFrom, hostVars, objectVars, InForce
  <2>2. SetupProgress'
    BY <1>5 DEF IInv, TypeOK, SetupProgress, AppliedFits, CallerFits, LaunchError, Turn, Network, AfterLaunch, SweepFrom, hostVars, objectVars, InForce
  <2>3. AppliedFits'
    BY <1>5 DEF IInv, TypeOK, SetupProgress, AppliedFits, CallerFits, LaunchError, Turn, Network, AfterLaunch, SweepFrom, hostVars, objectVars, InForce
  <2>4. CallerFits'
    BY <1>5 DEF IInv, TypeOK, SetupProgress, AppliedFits, CallerFits, LaunchError, Turn, Network, AfterLaunch, SweepFrom, hostVars, objectVars, InForce
  <2> QED
    BY <2>1, <2>2, <2>3, <2>4 DEF IInv
<1>6. CASE Destroy
  <2>1. TypeOK'
    BY <1>6 DEF IInv, TypeOK, SetupProgress, AppliedFits, CallerFits, Destroy, Turn, Network, AfterLaunch, SweepFrom, hostVars, objectVars, InForce
  <2>2. SetupProgress'
    BY <1>6 DEF IInv, TypeOK, SetupProgress, AppliedFits, CallerFits, Destroy, Turn, Network, AfterLaunch, SweepFrom, hostVars, objectVars, InForce
  <2>3. AppliedFits'
    BY <1>6 DEF IInv, TypeOK, SetupProgress, AppliedFits, CallerFits, Destroy, Turn, Network, AfterLaunch, SweepFrom, hostVars, objectVars, InForce
  <2>4. CallerFits'
    BY <1>6 DEF IInv, TypeOK, SetupProgress, AppliedFits, CallerFits, Destroy, Turn, Network, AfterLaunch, SweepFrom, hostVars, objectVars, InForce
  <2> QED
    BY <2>1, <2>2, <2>3, <2>4 DEF IInv
<1> QED
  BY <1>1, <1>2, <1>3, <1>4, <1>5, <1>6 DEF Caller

\* A teardown takes away, and only while egress does not count as applied.
LEMMA TeardownInv ==
  ASSUME IInv, Teardown
  PROVE  IInv'
<1> USE EgressAssumption, TearAt, SetupAt
<1>1. CASE StopProxy
  <2>1. TypeOK'
    BY <1>1 DEF IInv, TypeOK, SetupProgress, AppliedFits, CallerFits, StopProxy, Unwaited, Tearing, Proceed, hostVars, objectVars, InForce, Hooks
  <2>2. SetupProgress'
    BY <1>1 DEF IInv, TypeOK, SetupProgress, AppliedFits, CallerFits, StopProxy, Unwaited, Tearing, Proceed, hostVars, objectVars, InForce, Hooks
  <2>3. AppliedFits'
    BY <1>1 DEF IInv, TypeOK, SetupProgress, AppliedFits, CallerFits, StopProxy, Unwaited, Tearing, Proceed, hostVars, objectVars, InForce, Hooks
  <2>4. CallerFits'
    BY <1>1 DEF IInv, TypeOK, SetupProgress, AppliedFits, CallerFits, StopProxy, Unwaited, Tearing, Proceed, hostVars, objectVars, InForce, Hooks
  <2> QED
    BY <2>1, <2>2, <2>3, <2>4 DEF IInv
<1>2. CASE Pkill
  <2>1. TypeOK'
    BY <1>2 DEF IInv, TypeOK, SetupProgress, AppliedFits, CallerFits, Pkill, Signalled, Tearing, Proceed, hostVars, objectVars, InForce, Hooks
  <2>2. SetupProgress'
    BY <1>2 DEF IInv, TypeOK, SetupProgress, AppliedFits, CallerFits, Pkill, Signalled, Tearing, Proceed, hostVars, objectVars, InForce, Hooks
  <2>3. AppliedFits'
    BY <1>2 DEF IInv, TypeOK, SetupProgress, AppliedFits, CallerFits, Pkill, Signalled, Tearing, Proceed, hostVars, objectVars, InForce, Hooks
  <2>4. CallerFits'
    BY <1>2 DEF IInv, TypeOK, SetupProgress, AppliedFits, CallerFits, Pkill, Signalled, Tearing, Proceed, hostVars, objectVars, InForce, Hooks
  <2> QED
    BY <2>1, <2>2, <2>3, <2>4 DEF IInv
<1>3. CASE Unhook
  <2>1. TypeOK'
    BY <1>3 DEF IInv, TypeOK, SetupProgress, AppliedFits, CallerFits, Unhook, Tearing, Proceed, hostVars, objectVars, InForce, Hooks
  <2>2. SetupProgress'
    BY <1>3 DEF IInv, TypeOK, SetupProgress, AppliedFits, CallerFits, Unhook, Tearing, Proceed, hostVars, objectVars, InForce, Hooks
  <2>3. AppliedFits'
    BY <1>3 DEF IInv, TypeOK, SetupProgress, AppliedFits, CallerFits, Unhook, Tearing, Proceed, hostVars, objectVars, InForce, Hooks
  <2>4. CallerFits'
    BY <1>3 DEF IInv, TypeOK, SetupProgress, AppliedFits, CallerFits, Unhook, Tearing, Proceed, hostVars, objectVars, InForce, Hooks
  <2> QED
    BY <2>1, <2>2, <2>3, <2>4 DEF IInv
<1>4. CASE Flush
  <2>1. TypeOK'
    BY <1>4 DEF IInv, TypeOK, SetupProgress, AppliedFits, CallerFits, Flush, Tearing, Proceed, hostVars, objectVars, InForce, Hooks
  <2>2. SetupProgress'
    BY <1>4 DEF IInv, TypeOK, SetupProgress, AppliedFits, CallerFits, Flush, Tearing, Proceed, hostVars, objectVars, InForce, Hooks
  <2>3. AppliedFits'
    BY <1>4 DEF IInv, TypeOK, SetupProgress, AppliedFits, CallerFits, Flush, Tearing, Proceed, hostVars, objectVars, InForce, Hooks
  <2>4. CallerFits'
    BY <1>4 DEF IInv, TypeOK, SetupProgress, AppliedFits, CallerFits, Flush, Tearing, Proceed, hostVars, objectVars, InForce, Hooks
  <2> QED
    BY <2>1, <2>2, <2>3, <2>4 DEF IInv
<1>5. CASE DeleteChain
  <2>1. TypeOK'
    BY <1>5 DEF IInv, TypeOK, SetupProgress, AppliedFits, CallerFits, DeleteChain, Tearing, Proceed, hostVars, objectVars, InForce, Hooks
  <2>2. SetupProgress'
    BY <1>5 DEF IInv, TypeOK, SetupProgress, AppliedFits, CallerFits, DeleteChain, Tearing, Proceed, hostVars, objectVars, InForce, Hooks
  <2>3. AppliedFits'
    BY <1>5 DEF IInv, TypeOK, SetupProgress, AppliedFits, CallerFits, DeleteChain, Tearing, Proceed, hostVars, objectVars, InForce, Hooks
  <2>4. CallerFits'
    BY <1>5 DEF IInv, TypeOK, SetupProgress, AppliedFits, CallerFits, DeleteChain, Tearing, Proceed, hostVars, objectVars, InForce, Hooks
  <2> QED
    BY <2>1, <2>2, <2>3, <2>4 DEF IInv
<1>6. CASE Unlink
  <2>1. TypeOK'
    <3>1. active' \in BOOLEAN /\ applied' \in BOOLEAN /\ domains' \in BOOLEAN /\ untidy' \in BOOLEAN
      BY <1>6, Zenon DEF IInv, TypeOK, Unlink, Tearing, Proceed, hostVars, objectVars, InForce, Hooks
    <3> QED
      BY <1>6, <3>1 DEF IInv, TypeOK, SetupProgress, AppliedFits, CallerFits, Unlink, Tearing, Proceed, hostVars, objectVars, InForce, Hooks
  <2>2. SetupProgress'
    BY <1>6 DEF IInv, TypeOK, SetupProgress, AppliedFits, CallerFits, Unlink, Tearing, Proceed, hostVars, objectVars, InForce, Hooks
  <2>3. AppliedFits'
    BY <1>6 DEF IInv, TypeOK, SetupProgress, AppliedFits, CallerFits, Unlink, Tearing, Proceed, hostVars, objectVars, InForce, Hooks
  <2>4. CallerFits'
    BY <1>6 DEF IInv, TypeOK, SetupProgress, AppliedFits, CallerFits, Unlink, Tearing, Proceed, hostVars, objectVars, InForce, Hooks
  <2> QED
    BY <2>1, <2>2, <2>3, <2>4 DEF IInv
<1> QED
  BY <1>1, <1>2, <1>3, <1>4, <1>5, <1>6 DEF Teardown

\* A setup builds up in its order and counts as applied after its last step.
LEMMA SetupInv ==
  ASSUME IInv, Setup
  PROVE  IInv'
<1> USE EgressAssumption, TearAt, SetupAt
<1>1. CASE WriteDomains
  <2>1. TypeOK'
    BY <1>1 DEF IInv, TypeOK, SetupProgress, AppliedFits, CallerFits, WriteDomains, InSetup, Advance, AppliedAt, AfterSetupError, hostVars, objectVars, InForce, Hooks
  <2>2. SetupProgress'
    BY <1>1 DEF IInv, TypeOK, SetupProgress, AppliedFits, CallerFits, WriteDomains, InSetup, Advance, AppliedAt, AfterSetupError, hostVars, objectVars, InForce, Hooks
  <2>3. AppliedFits'
    BY <1>1 DEF IInv, TypeOK, SetupProgress, AppliedFits, CallerFits, WriteDomains, InSetup, Advance, AppliedAt, AfterSetupError, hostVars, objectVars, InForce, Hooks
  <2>4. CallerFits'
    BY <1>1 DEF IInv, TypeOK, SetupProgress, AppliedFits, CallerFits, WriteDomains, InSetup, Advance, AppliedAt, AfterSetupError, hostVars, objectVars, InForce, Hooks
  <2> QED
    BY <2>1, <2>2, <2>3, <2>4 DEF IInv
<1>2. CASE SpawnProxy
  <2>1. TypeOK'
    BY <1>2 DEF IInv, TypeOK, SetupProgress, AppliedFits, CallerFits, SpawnProxy, InSetup, Advance, AppliedAt, AfterSetupError, hostVars, objectVars, InForce, Hooks
  <2>2. SetupProgress'
    BY <1>2 DEF IInv, TypeOK, SetupProgress, AppliedFits, CallerFits, SpawnProxy, InSetup, Advance, AppliedAt, AfterSetupError, hostVars, objectVars, InForce, Hooks
  <2>3. AppliedFits'
    BY <1>2 DEF IInv, TypeOK, SetupProgress, AppliedFits, CallerFits, SpawnProxy, InSetup, Advance, AppliedAt, AfterSetupError, hostVars, objectVars, InForce, Hooks
  <2>4. CallerFits'
    BY <1>2 DEF IInv, TypeOK, SetupProgress, AppliedFits, CallerFits, SpawnProxy, InSetup, Advance, AppliedAt, AfterSetupError, hostVars, objectVars, InForce, Hooks
  <2> QED
    BY <2>1, <2>2, <2>3, <2>4 DEF IInv
<1>3. CASE Ready
  <2>1. TypeOK'
    BY <1>3 DEF IInv, TypeOK, SetupProgress, AppliedFits, CallerFits, Ready, InSetup, Advance, AppliedAt, AfterSetupError, hostVars, objectVars, InForce, Hooks
  <2>2. SetupProgress'
    BY <1>3 DEF IInv, TypeOK, SetupProgress, AppliedFits, CallerFits, Ready, InSetup, Advance, AppliedAt, AfterSetupError, hostVars, objectVars, InForce, Hooks
  <2>3. AppliedFits'
    BY <1>3 DEF IInv, TypeOK, SetupProgress, AppliedFits, CallerFits, Ready, InSetup, Advance, AppliedAt, AfterSetupError, hostVars, objectVars, InForce, Hooks
  <2>4. CallerFits'
    BY <1>3 DEF IInv, TypeOK, SetupProgress, AppliedFits, CallerFits, Ready, InSetup, Advance, AppliedAt, AfterSetupError, hostVars, objectVars, InForce, Hooks
  <2> QED
    BY <2>1, <2>2, <2>3, <2>4 DEF IInv
<1>4. CASE NotReady
  <2>1. TypeOK'
    BY <1>4 DEF IInv, TypeOK, SetupProgress, AppliedFits, CallerFits, NotReady, InSetup, Advance, AppliedAt, AfterSetupError, hostVars, objectVars, InForce, Hooks
  <2>2. SetupProgress'
    BY <1>4 DEF IInv, TypeOK, SetupProgress, AppliedFits, CallerFits, NotReady, InSetup, Advance, AppliedAt, AfterSetupError, hostVars, objectVars, InForce, Hooks
  <2>3. AppliedFits'
    BY <1>4 DEF IInv, TypeOK, SetupProgress, AppliedFits, CallerFits, NotReady, InSetup, Advance, AppliedAt, AfterSetupError, hostVars, objectVars, InForce, Hooks
  <2>4. CallerFits'
    BY <1>4 DEF IInv, TypeOK, SetupProgress, AppliedFits, CallerFits, NotReady, InSetup, Advance, AppliedAt, AfterSetupError, hostVars, objectVars, InForce, Hooks
  <2> QED
    BY <2>1, <2>2, <2>3, <2>4 DEF IInv
<1>5. CASE NewChain
  <2>1. TypeOK'
    BY <1>5 DEF IInv, TypeOK, SetupProgress, AppliedFits, CallerFits, NewChain, InSetup, Advance, AppliedAt, AfterSetupError, hostVars, objectVars, InForce, Hooks
  <2>2. SetupProgress'
    BY <1>5 DEF IInv, TypeOK, SetupProgress, AppliedFits, CallerFits, NewChain, InSetup, Advance, AppliedAt, AfterSetupError, hostVars, objectVars, InForce, Hooks
  <2>3. AppliedFits'
    BY <1>5 DEF IInv, TypeOK, SetupProgress, AppliedFits, CallerFits, NewChain, InSetup, Advance, AppliedAt, AfterSetupError, hostVars, objectVars, InForce, Hooks
  <2>4. CallerFits'
    BY <1>5 DEF IInv, TypeOK, SetupProgress, AppliedFits, CallerFits, NewChain, InSetup, Advance, AppliedAt, AfterSetupError, hostVars, objectVars, InForce, Hooks
  <2> QED
    BY <2>1, <2>2, <2>3, <2>4 DEF IInv
<1>6. CASE AddRule
  <2>1. TypeOK'
    BY <1>6 DEF IInv, TypeOK, SetupProgress, AppliedFits, CallerFits, AddRule, InSetup, Advance, AppliedAt, AfterSetupError, hostVars, objectVars, InForce, Hooks
  <2>2. SetupProgress'
    BY <1>6 DEF IInv, TypeOK, SetupProgress, AppliedFits, CallerFits, AddRule, InSetup, Advance, AppliedAt, AfterSetupError, hostVars, objectVars, InForce, Hooks
  <2>3. AppliedFits'
    BY <1>6 DEF IInv, TypeOK, SetupProgress, AppliedFits, CallerFits, AddRule, InSetup, Advance, AppliedAt, AfterSetupError, hostVars, objectVars, InForce, Hooks
  <2>4. CallerFits'
    BY <1>6 DEF IInv, TypeOK, SetupProgress, AppliedFits, CallerFits, AddRule, InSetup, Advance, AppliedAt, AfterSetupError, hostVars, objectVars, InForce, Hooks
  <2> QED
    BY <2>1, <2>2, <2>3, <2>4 DEF IInv
<1>7. CASE Hook
  <2>1. TypeOK'
    <3>1. active' \in BOOLEAN /\ applied' \in BOOLEAN /\ domains' \in BOOLEAN /\ untidy' \in BOOLEAN
      BY <1>7, Zenon DEF IInv, TypeOK, Hook, InSetup, Advance, AppliedAt, AfterSetupError, hostVars, objectVars, InForce, Hooks
    <3> QED
      BY <1>7, <3>1 DEF IInv, TypeOK, SetupProgress, AppliedFits, CallerFits, Hook, InSetup, Advance, AppliedAt, AfterSetupError, hostVars, objectVars, InForce, Hooks
  <2>2. SetupProgress'
    BY <1>7 DEF IInv, TypeOK, SetupProgress, AppliedFits, CallerFits, Hook, InSetup, Advance, AppliedAt, AfterSetupError, hostVars, objectVars, InForce, Hooks
  <2>3. AppliedFits'
    <3>1. at \in 1..8 /\ ~applied
      BY <1>7 DEF IInv, TypeOK, AppliedFits, Hook
    <3>2. CASE at = 8
      BY <1>7, <3>2 DEF IInv, TypeOK, SetupProgress, AppliedFits, Hook, InForce, Hooks
    <3>3. CASE at < 8
      <4>1. applied' = (applied \/ at = AppliedAt) /\ AppliedAt # at
        BY <1>7, <3>1, <3>3 DEF Hook, Advance, AppliedAt
      <4>2. ~applied'
        BY <3>1, <4>1, Zenon
      <4> QED
        BY <4>2 DEF AppliedFits
    <3> QED
      BY <3>1, <3>2, <3>3
  <2>4. CallerFits'
    BY <1>7 DEF IInv, TypeOK, SetupProgress, AppliedFits, CallerFits, Hook, InSetup, Advance, AppliedAt, AfterSetupError, hostVars, objectVars, InForce, Hooks
  <2> QED
    BY <2>1, <2>2, <2>3, <2>4 DEF IInv
<1> QED
  BY <1>1, <1>2, <1>3, <1>4, <1>5, <1>6, <1>7 DEF Setup

\* What goes wrong leaves egress not applied.
LEMMA ErrorsInv ==
  ASSUME IInv, Errors
  PROVE  IInv'
<1> USE EgressAssumption, TearAt, SetupAt
<1>1. CASE Miss
  <2>1. TypeOK'
    BY <1>1 DEF IInv, TypeOK, SetupProgress, AppliedFits, CallerFits, Miss, InSetup, Tearing, Proceed, AfterSetupError, hostVars, objectVars, InForce, Hooks
  <2>2. SetupProgress'
    BY <1>1 DEF IInv, TypeOK, SetupProgress, AppliedFits, CallerFits, Miss, InSetup, Tearing, Proceed, AfterSetupError, hostVars, objectVars, InForce, Hooks
  <2>3. AppliedFits'
    BY <1>1 DEF IInv, TypeOK, SetupProgress, AppliedFits, CallerFits, Miss, InSetup, Tearing, Proceed, AfterSetupError, hostVars, objectVars, InForce, Hooks
  <2>4. CallerFits'
    BY <1>1 DEF IInv, TypeOK, SetupProgress, AppliedFits, CallerFits, Miss, InSetup, Tearing, Proceed, AfterSetupError, hostVars, objectVars, InForce, Hooks
  <2> QED
    BY <2>1, <2>2, <2>3, <2>4 DEF IInv
<1>2. CASE SetupError
  <2>1. TypeOK'
    BY <1>2 DEF IInv, TypeOK, SetupProgress, AppliedFits, CallerFits, SetupError, InSetup, Tearing, Proceed, AfterSetupError, hostVars, objectVars, InForce, Hooks
  <2>2. SetupProgress'
    BY <1>2 DEF IInv, TypeOK, SetupProgress, AppliedFits, CallerFits, SetupError, InSetup, Tearing, Proceed, AfterSetupError, hostVars, objectVars, InForce, Hooks
  <2>3. AppliedFits'
    BY <1>2 DEF IInv, TypeOK, SetupProgress, AppliedFits, CallerFits, SetupError, InSetup, Tearing, Proceed, AfterSetupError, hostVars, objectVars, InForce, Hooks
  <2>4. CallerFits'
    BY <1>2 DEF IInv, TypeOK, SetupProgress, AppliedFits, CallerFits, SetupError, InSetup, Tearing, Proceed, AfterSetupError, hostVars, objectVars, InForce, Hooks
  <2> QED
    BY <2>1, <2>2, <2>3, <2>4 DEF IInv
<1>3. CASE WriteError
  <2>1. TypeOK'
    BY <1>3 DEF IInv, TypeOK, SetupProgress, AppliedFits, CallerFits, WriteError, InSetup, Tearing, Proceed, AfterSetupError, hostVars, objectVars, InForce, Hooks
  <2>2. SetupProgress'
    BY <1>3 DEF IInv, TypeOK, SetupProgress, AppliedFits, CallerFits, WriteError, InSetup, Tearing, Proceed, AfterSetupError, hostVars, objectVars, InForce, Hooks
  <2>3. AppliedFits'
    BY <1>3 DEF IInv, TypeOK, SetupProgress, AppliedFits, CallerFits, WriteError, InSetup, Tearing, Proceed, AfterSetupError, hostVars, objectVars, InForce, Hooks
  <2>4. CallerFits'
    BY <1>3 DEF IInv, TypeOK, SetupProgress, AppliedFits, CallerFits, WriteError, InSetup, Tearing, Proceed, AfterSetupError, hostVars, objectVars, InForce, Hooks
  <2> QED
    BY <2>1, <2>2, <2>3, <2>4 DEF IInv
<1>4. CASE TeardownError
  <2>1. TypeOK'
    BY <1>4 DEF IInv, TypeOK, SetupProgress, AppliedFits, CallerFits, TeardownError, Unwaited, Signalled, InSetup, Tearing, Proceed, AfterSetupError, hostVars, objectVars, InForce, Hooks
  <2>2. SetupProgress'
    BY <1>4 DEF IInv, TypeOK, SetupProgress, AppliedFits, CallerFits, TeardownError, Unwaited, Signalled, InSetup, Tearing, Proceed, AfterSetupError, hostVars, objectVars, InForce, Hooks
  <2>3. AppliedFits'
    BY <1>4 DEF IInv, TypeOK, SetupProgress, AppliedFits, CallerFits, TeardownError, Unwaited, Signalled, InSetup, Tearing, Proceed, AfterSetupError, hostVars, objectVars, InForce, Hooks
  <2>4. CallerFits'
    BY <1>4 DEF IInv, TypeOK, SetupProgress, AppliedFits, CallerFits, TeardownError, Unwaited, Signalled, InSetup, Tearing, Proceed, AfterSetupError, hostVars, objectVars, InForce, Hooks
  <2> QED
    BY <2>1, <2>2, <2>3, <2>4 DEF IInv
<1>5. CASE Crash
  <2>1. TypeOK'
    <3>1. active' \in BOOLEAN /\ applied' \in BOOLEAN /\ domains' \in BOOLEAN /\ untidy' \in BOOLEAN
      BY <1>5, Zenon DEF IInv, TypeOK, Crash, InSetup, Tearing, Proceed, AfterSetupError, hostVars, objectVars, InForce, Hooks
    <3> QED
      BY <1>5, <3>1 DEF IInv, TypeOK, SetupProgress, AppliedFits, CallerFits, Crash, InSetup, Tearing, Proceed, AfterSetupError, hostVars, objectVars, InForce, Hooks
  <2>2. SetupProgress'
    BY <1>5 DEF IInv, TypeOK, SetupProgress, AppliedFits, CallerFits, Crash, InSetup, Tearing, Proceed, AfterSetupError, hostVars, objectVars, InForce, Hooks
  <2>3. AppliedFits'
    BY <1>5 DEF IInv, TypeOK, SetupProgress, AppliedFits, CallerFits, Crash, InSetup, Tearing, Proceed, AfterSetupError, hostVars, objectVars, InForce, Hooks
  <2>4. CallerFits'
    BY <1>5 DEF IInv, TypeOK, SetupProgress, AppliedFits, CallerFits, Crash, InSetup, Tearing, Proceed, AfterSetupError, hostVars, objectVars, InForce, Hooks
  <2> QED
    BY <2>1, <2>2, <2>3, <2>4 DEF IInv
<1> QED
  BY <1>1, <1>2, <1>3, <1>4, <1>5 DEF Errors

\* Proxies come and go under their own steam.
LEMMA ProxiesInv ==
  ASSUME IInv, Proxies
  PROVE  IInv'
<1> USE EgressAssumption, TearAt, SetupAt
<1>1. CASE Bind
  <2>1. TypeOK'
    BY <1>1 DEF IInv, TypeOK, SetupProgress, AppliedFits, CallerFits, Bind, hostVars, objectVars, InForce
  <2>2. SetupProgress'
    BY <1>1 DEF IInv, TypeOK, SetupProgress, AppliedFits, CallerFits, Bind, hostVars, objectVars, InForce
  <2>3. AppliedFits'
    BY <1>1 DEF IInv, TypeOK, SetupProgress, AppliedFits, CallerFits, Bind, hostVars, objectVars, InForce
  <2>4. CallerFits'
    BY <1>1 DEF IInv, TypeOK, SetupProgress, AppliedFits, CallerFits, Bind, hostVars, objectVars, InForce
  <2> QED
    BY <2>1, <2>2, <2>3, <2>4 DEF IInv
<1>2. CASE ProxyDies
  <2>1. TypeOK'
    BY <1>2 DEF IInv, TypeOK, SetupProgress, AppliedFits, CallerFits, ProxyDies, hostVars, objectVars, InForce
  <2>2. SetupProgress'
    BY <1>2 DEF IInv, TypeOK, SetupProgress, AppliedFits, CallerFits, ProxyDies, hostVars, objectVars, InForce
  <2>3. AppliedFits'
    BY <1>2 DEF IInv, TypeOK, SetupProgress, AppliedFits, CallerFits, ProxyDies, hostVars, objectVars, InForce
  <2>4. CallerFits'
    BY <1>2 DEF IInv, TypeOK, SetupProgress, AppliedFits, CallerFits, ProxyDies, hostVars, objectVars, InForce
  <2> QED
    BY <2>1, <2>2, <2>3, <2>4 DEF IInv
<1>3. CASE OrphanDies
  <2>1. TypeOK'
    BY <1>3 DEF IInv, TypeOK, SetupProgress, AppliedFits, CallerFits, OrphanDies, hostVars, objectVars, InForce
  <2>2. SetupProgress'
    BY <1>3 DEF IInv, TypeOK, SetupProgress, AppliedFits, CallerFits, OrphanDies, hostVars, objectVars, InForce
  <2>3. AppliedFits'
    BY <1>3 DEF IInv, TypeOK, SetupProgress, AppliedFits, CallerFits, OrphanDies, hostVars, objectVars, InForce
  <2>4. CallerFits'
    BY <1>3 DEF IInv, TypeOK, SetupProgress, AppliedFits, CallerFits, OrphanDies, hostVars, objectVars, InForce
  <2> QED
    BY <2>1, <2>2, <2>3, <2>4 DEF IInv
<1> QED
  BY <1>1, <1>2, <1>3 DEF Proxies

\* Every step preserves the invariant.
LEMMA NextInv == IInv /\ [Next]_vars => IInv'
<1> SUFFICES ASSUME IInv, [Next]_vars PROVE IInv'
  OBVIOUS
<1>1. CASE Next
  BY <1>1, CallerInv, TeardownInv, SetupInv, ErrorsInv, ProxiesInv DEF Next
<1>2. CASE UNCHANGED vars
  BY <1>2 DEF vars, IInv, TypeOK, SetupProgress, AppliedFits, CallerFits, InForce
<1> QED
  BY <1>1, <1>2

-----------------------------------------------------------------------------
\* The invariant holds throughout.
THEOREM Invariance == Spec => []IInv
BY InitInv, NextInv, PTL DEF Spec

\* Types, and no more copies of a hook than calls that failed unnoticed account for.
THEOREM TypeCorrect == Spec => []TypeOK
<1>1. IInv => TypeOK
  BY DEF IInv
<1> QED
  BY <1>1, Invariance, PTL

\* In whatever order the runtime's methods are called, egress that counts as applied is
\* in force.
THEOREM AppliedInForce == Spec => []AppliedIsInForce
<1>1. IInv => AppliedIsInForce
  BY DEF IInv, AppliedFits, AppliedIsInForce
<1> QED
  BY <1>1, Invariance, PTL

\* Under SubstrateBackend's order of calls a guest driven on the bridge is filtered.
THEOREM DrivenFiltered == ASSUME ~Direct PROVE Spec => []DrivenIsFiltered
<1>1. IInv => DrivenIsFiltered
  BY DEF IInv, AppliedFits, CallerFits, DrivenIsFiltered
<1> QED
  BY <1>1, Invariance, PTL

-----------------------------------------------------------------------------
(* What a run leaves *)

\* While every teardown call takes effect, a teardown has removed what its steps so far
\* stand for, whatever it began with.
TornDown == Tearing /\ missed = 0 =>
  /\ at > 1 => proxy = "none"
  /\ at > 3 => hooks["redirect"] = 0
  /\ at > 4 => hooks["accept"] = 0
  /\ at > 5 => hooks["jump"] = 0
  /\ at > 6 => chain \in {-1, 0}
  /\ at > 7 => chain = -1

\* Between two methods there is something on the host only while egress counts as applied.
LeftBehind == phase = "idle" =>
  /\ turn = "apply" => ~applied
  /\ ~applied /\ ~untidy /\ missed = 0 => Clean

\* While every teardown call takes effect, only a process that died, or was cut short in
\* a teardown, leaves an orphan alive, until the next sweep has called pkill.
OrphanGone ==
  missed = 0 /\ (~untidy \/ (phase = "sweep" /\ at > 2)) => orphan # "alive"

\* What the caller begins leaves no more behind than the last call did.
LEMMA CallerLeaves ==
  ASSUME IInv, TornDown, LeftBehind, OrphanGone, Caller
  PROVE  TornDown' /\ LeftBehind' /\ OrphanGone'
<1> USE EgressAssumption, TearAt, SetupAt
    DEF IInv, TypeOK, AppliedFits, TornDown, LeftBehind, OrphanGone, Clean, Tearing, Hooks, hostVars, objectVars
<1>1. CASE Apply
  BY <1>1 DEF Apply, Turn, SweepFrom, AfterLaunch
<1>2. CASE ApplyNothing
  BY <1>2 DEF ApplyNothing, Turn, SweepFrom, AfterLaunch
<1>3. CASE Clear
  BY <1>3 DEF Clear, Turn, SweepFrom, AfterLaunch
<1>4. CASE Launch
  BY <1>4 DEF Launch, Turn, SweepFrom, AfterLaunch
<1>5. CASE LaunchError
  BY <1>5 DEF LaunchError, Turn, SweepFrom, AfterLaunch
<1>6. CASE Destroy
  BY <1>6 DEF Destroy, Turn, SweepFrom, AfterLaunch
<1> QED BY <1>1, <1>2, <1>3, <1>4, <1>5, <1>6 DEF Caller

\* Each command of a teardown that is not missed takes its part away.
LEMMA TeardownLeaves ==
  ASSUME IInv, TornDown, LeftBehind, OrphanGone, Teardown
  PROVE  TornDown' /\ LeftBehind' /\ OrphanGone'
<1> USE EgressAssumption, TearAt, SetupAt
    DEF IInv, TypeOK, AppliedFits, TornDown, LeftBehind, OrphanGone, Clean, Tearing, Hooks, hostVars, objectVars
<1>1. CASE StopProxy
  BY <1>1 DEF StopProxy, Unwaited, Proceed
<1>2. CASE Pkill
  BY <1>2 DEF Pkill, Signalled, Proceed
<1>3. CASE Unhook
  BY <1>3 DEF Unhook, Proceed
<1>4. CASE Flush
  BY <1>4 DEF Flush, Proceed
<1>5. CASE DeleteChain
  BY <1>5 DEF DeleteChain, Proceed
<1>6. CASE Unlink
  BY <1>6 DEF Unlink, Proceed
<1> QED BY <1>1, <1>2, <1>3, <1>4, <1>5, <1>6 DEF Teardown

\* A setup leaves what it has put up to the rollback or to clear_egress.
LEMMA SetupLeaves ==
  ASSUME IInv, TornDown, LeftBehind, OrphanGone, Setup
  PROVE  TornDown' /\ LeftBehind' /\ OrphanGone'
<1> USE EgressAssumption, TearAt, SetupAt
    DEF IInv, TypeOK, AppliedFits, TornDown, LeftBehind, OrphanGone, Clean, Tearing, Hooks, hostVars, objectVars
<1>1. CASE WriteDomains
  BY <1>1 DEF WriteDomains, InSetup, Advance, AppliedAt, AfterSetupError
<1>2. CASE SpawnProxy
  BY <1>2 DEF SpawnProxy, InSetup, Advance, AppliedAt, AfterSetupError
<1>3. CASE Ready
  BY <1>3 DEF Ready, InSetup, Advance, AppliedAt, AfterSetupError
<1>4. CASE NotReady
  BY <1>4 DEF NotReady, InSetup, Advance, AppliedAt, AfterSetupError
<1>5. CASE NewChain
  BY <1>5 DEF NewChain, InSetup, Advance, AppliedAt, AfterSetupError
<1>6. CASE AddRule
  BY <1>6 DEF AddRule, InSetup, Advance, AppliedAt, AfterSetupError
<1>7. CASE Hook
  <2>0. OrphanGone'
    <3>1. orphan' = orphan /\ missed' = missed /\ untidy' = untidy /\ phase' # "sweep"
      BY <1>7 DEF Hook, Advance
    <3> QED BY ONLY <3>1, OrphanGone, Zenon DEF OrphanGone
  <2>1. CASE at < Len(SetupSteps)
    <3>1. phase' = "setup"
      BY <1>7, <2>1 DEF Hook, Advance
    <3> QED BY <2>0, <3>1
  <2>2. CASE ~(at < Len(SetupSteps))
    <3>1. phase' = "idle" /\ turn' = "launch" /\ applied' = (applied \/ at = AppliedAt)
      BY <1>7, <2>2, Zenon DEF Hook
    <3>2. at = AppliedAt
      BY <2>2 DEF AppliedAt
    <3>3. applied'
      BY <3>1, <3>2, Zenon
    <3> QED BY <2>0, <3>1, <3>3
  <2> QED BY <2>1, <2>2
<1> QED BY <1>1, <1>2, <1>3, <1>4, <1>5, <1>6, <1>7 DEF Setup

\* A missed command and a crash are remembered.
LEMMA ErrorsLeaves ==
  ASSUME IInv, TornDown, LeftBehind, OrphanGone, Errors
  PROVE  TornDown' /\ LeftBehind' /\ OrphanGone'
<1> USE EgressAssumption, TearAt, SetupAt
    DEF IInv, TypeOK, AppliedFits, TornDown, LeftBehind, OrphanGone, Clean, Tearing, Hooks, hostVars, objectVars
<1>1. CASE Miss
  BY <1>1 DEF Miss, InSetup, AfterSetupError
<1>2. CASE SetupError
  BY <1>2 DEF SetupError, InSetup, AfterSetupError
<1>3. CASE WriteError
  BY <1>3 DEF WriteError, InSetup, AfterSetupError
<1>4. CASE TeardownError
  BY <1>4 DEF TeardownError, Unwaited, Signalled, InSetup, AfterSetupError
<1>5. CASE Crash
  BY <1>5 DEF Crash, InSetup, AfterSetupError
<1> QED BY <1>1, <1>2, <1>3, <1>4, <1>5 DEF Errors

\* A proxy that binds or dies changes no rule.
LEMMA ProxiesLeaves ==
  ASSUME IInv, TornDown, LeftBehind, OrphanGone, Proxies
  PROVE  TornDown' /\ LeftBehind' /\ OrphanGone'
<1> USE EgressAssumption, TearAt, SetupAt
    DEF IInv, TypeOK, AppliedFits, TornDown, LeftBehind, OrphanGone, Clean, Tearing, Hooks, hostVars, objectVars
<1>1. CASE Bind
  BY <1>1 DEF Bind
<1>2. CASE ProxyDies
  BY <1>2 DEF ProxyDies
<1>3. CASE OrphanDies
  BY <1>3 DEF OrphanDies
<1> QED BY <1>1, <1>2, <1>3 DEF Proxies

\* Between two runs nothing of the last one is on the host, unless a teardown call failed
\* unnoticed or a process died, in whatever order the methods are called (clear_egress,
\* _egress_apply's rollback).
THEOREM NothingIsLeft == Spec => []NothingPersists
<1>1. Init => TornDown /\ LeftBehind /\ OrphanGone
  BY DEF Init, TornDown, LeftBehind, OrphanGone, Tearing, Clean, Hooks
<1>2. IInv /\ TornDown /\ LeftBehind /\ OrphanGone /\ [Next]_vars
      => (TornDown /\ LeftBehind /\ OrphanGone)'
  <2> SUFFICES ASSUME IInv, TornDown, LeftBehind, OrphanGone, [Next]_vars
               PROVE  TornDown' /\ LeftBehind' /\ OrphanGone'
    OBVIOUS
  <2>1. CASE Next
    BY <2>1, CallerLeaves, TeardownLeaves, SetupLeaves, ErrorsLeaves, ProxiesLeaves DEF Next
  <2>2. CASE UNCHANGED vars
    BY <2>2 DEF vars, TornDown, LeftBehind, OrphanGone, Tearing, Clean
  <2> QED BY <2>1, <2>2
<1>3. LeftBehind => NothingPersists
  BY DEF LeftBehind, NothingPersists
<1> QED BY <1>1, <1>2, <1>3, Invariance, PTL DEF Spec
=============================================================================
