---------------------------- MODULE K8sRunProofs ----------------------------
(***************************************************************************)
(* Safety of runs on Kubernetes, for any number of steps, runs and engines *)
(* and any bounds: a pod has its policy while its run has its owner, and   *)
(* the workload runs behind it.                                            *)
(***************************************************************************)
EXTENDS K8sRun, Progress, TLAPS

Unlaunched == {"idle", "own", "readOwn"}

\* An owner that was deleted does not come back under its uid.
Owners == \A r \in Run : owner[r] <= made[r]

\* How far a launch has come says what it has made.
Launching == \A s \in Step :
  /\ pc[s] \in Unlaunched => uid[s] = 0
  /\ pc[s] \in Unlaunched \cup {"policy", "latePolicy"} => policy[s] = "none"
  /\ pc[s] \in Unlaunched \cup {"policy", "pod"} => pod[s] = "none"
  /\ pc[s] \in {"own", "readOwn"} => Labelled(s)
  /\ pc[s] = "policy" => uid[s] # 0
  /\ pc[s] = "latePolicy" => uid[s] = 0
  /\ pc[s] = "pod" /\ uid[s] = 0 => policy[s] = "none"
  /\ pc[s] = "pod" /\ uid[s] # 0 /\ Egress => policy[s] = "there" \/ OwnerGone(s)

\* A policy goes before its pod only if the run's owner went.
Policies == \A s \in Step :
  /\ policy[s] = "gone" /\ (PodExists(s) \/ pc[s] = "pod") => OwnerGone(s)
  /\ enforced[s] => policy[s] # "none"

\* A probe that found the network closed saw the policy, or was lost.
Gates == \A s \in Step :
  gate[s] = "passed" \/ (gate[s] = "rest" /\ blocked[s]) =>
    enforced[s] \/ lost[s] \/ OwnerGone(s)

IInv == TypeOK /\ Owners /\ Launching /\ Policies /\ Gates /\ PolicyCoversPod

USE K8sAssumption DEF PodExists, OwnerGone, Labelled, Calling, Probing, Unlaunched,
    ownerVars, objectVars, launchVars, guestVars

\* The cluster starts empty.
LEMMA InitIInv == Init => IInv
BY DEF Init, IInv, TypeOK, Owners, Launching, Policies, Gates, PolicyCoversPod

\* The call begins.
LEMMA BeginKeeps ==
  ASSUME IInv, NEW s \in Step, Begin(s)
  PROVE  IInv'
BY DEF Begin, AfterOwner, IInv, TypeOK, Owners, Launching, Policies, Gates, PolicyCoversPod

\* A new incarnation is nobody's owner yet.
LEMMA CreateOwnerKeeps ==
  ASSUME IInv, NEW s \in Step, CreateOwner(s)
  PROVE  IInv'
<1>1. TypeOK'
  BY DEF CreateOwner, AfterOwner, IInv, TypeOK, Launching
<1>2. Owners'
  BY DEF CreateOwner, AfterOwner, IInv, TypeOK, Owners
<1>3. Launching'
  BY DEF CreateOwner, AfterOwner, IInv, TypeOK, Owners, Launching
<1>4. Policies'
  BY DEF CreateOwner, AfterOwner, IInv, TypeOK, Owners, Launching, Policies
<1>5. Gates'
  BY DEF CreateOwner, AfterOwner, IInv, TypeOK, Owners, Policies, Gates, PolicyCoversPod, Launching
<1>6. PolicyCoversPod'
  BY DEF CreateOwner, AfterOwner, IInv, TypeOK, Owners, Launching, Policies, PolicyCoversPod
<1> QED
  BY <1>1, <1>2, <1>3, <1>4, <1>5, <1>6 DEF IInv

\* The create answers 409: nothing was made.
LEMMA OwnerExistsKeeps ==
  ASSUME IInv, NEW s \in Step, OwnerExists(s)
  PROVE  IInv'
BY DEF OwnerExists, IInv, TypeOK, Owners, Launching, Policies, Gates, PolicyCoversPod

\* The uid that is read is that of the incarnation which is there.
LEMMA ReadOwnerKeeps ==
  ASSUME IInv, NEW s \in Step, ReadOwner(s)
  PROVE  IInv'
BY DEF ReadOwner, AfterOwner, IInv, TypeOK, Owners, Launching, Policies, Gates, PolicyCoversPod

\* The policy is made once, for a step that has none.
LEMMA CreatePolicyKeeps ==
  ASSUME IInv, NEW s \in Step, CreatePolicy(s)
  PROVE  IInv'
<1>1. TypeOK'
  BY DEF CreatePolicy, IInv, TypeOK
<1>2. Owners'
  BY DEF CreatePolicy, IInv, TypeOK, Owners
<1>3. Launching'
  BY DEF CreatePolicy, IInv, TypeOK, Owners, Launching
<1>4. Policies'
  BY DEF CreatePolicy, IInv, TypeOK, Owners, Launching, Policies
<1>5. Gates'
  BY DEF CreatePolicy, IInv, TypeOK, Owners, Policies, Gates, PolicyCoversPod
<1>6. PolicyCoversPod'
  BY DEF CreatePolicy, IInv, TypeOK, Owners, Launching, Policies, PolicyCoversPod
<1> QED
  BY <1>1, <1>2, <1>3, <1>4, <1>5, <1>6 DEF IInv

\* With a run owner the policy is there before the pod, or that owner has gone.
LEMMA CreatePodKeeps ==
  ASSUME IInv, NEW s \in Step, CreatePod(s)
  PROVE  IInv'
<1>1. TypeOK'
  BY DEF CreatePod, AfterPod, IInv, TypeOK, Launching
<1>2. Owners'
  BY DEF CreatePod, AfterPod, IInv, TypeOK, Owners
<1>3. Launching'
  BY DEF CreatePod, AfterPod, IInv, TypeOK, Owners, Launching
<1>4. Policies'
  BY DEF CreatePod, AfterPod, IInv, TypeOK, Owners, Launching, Policies
<1>5. Gates'
  BY DEF CreatePod, AfterPod, IInv, TypeOK, Owners, Policies, Gates, PolicyCoversPod, Launching
<1>6. PolicyCoversPod'
  BY DEF CreatePod, AfterPod, IInv, TypeOK, Owners, Launching, Policies, PolicyCoversPod
<1> QED
  BY <1>1, <1>2, <1>3, <1>4, <1>5, <1>6 DEF IInv

\* What a call that raises leaves behind is what its success would leave.
LEMMA LaunchRaisesKeeps ==
  ASSUME IInv, NEW s \in Step, LaunchRaises(s)
  PROVE  IInv'
<1>1. TypeOK'
  BY DEF LaunchRaises, IInv, TypeOK, Launching
<1>2. Owners'
  BY DEF LaunchRaises, IInv, TypeOK, Owners
<1>3. Launching'
  BY DEF LaunchRaises, IInv, TypeOK, Owners, Launching
<1>4. Policies'
  BY DEF LaunchRaises, IInv, TypeOK, Owners, Launching, Policies
<1>5. Gates'
  BY DEF LaunchRaises, IInv, TypeOK, Owners, Policies, Gates, PolicyCoversPod, Launching
<1>6. PolicyCoversPod'
  BY DEF LaunchRaises, IInv, TypeOK, Owners, Launching, Policies, PolicyCoversPod
<1> QED
  BY <1>1, <1>2, <1>3, <1>4, <1>5, <1>6 DEF IInv

\* destroy takes the pod and its policy.
LEMMA DestroyKeeps ==
  ASSUME IInv, NEW s \in Step, Destroy(s)
  PROVE  IInv'
BY DEF Destroy, GuestGone, IInv, TypeOK, Owners, Launching, Policies, Gates, PolicyCoversPod

\* A destroy that raises leaves the objects as they are, and ends the handle.
LEMMA DestroyRaisesKeeps ==
  ASSUME IInv, NEW s \in Step, DestroyRaises(s)
  PROVE  IInv'
BY DEF DestroyRaises, IInv, TypeOK, Owners, Launching, Policies, Gates, PolicyCoversPod

\* sweep destroys a pod that is there.
LEMMA SweepKeeps ==
  ASSUME IInv, NEW s \in Step, Sweep(s)
  PROVE  IInv'
BY DEF Sweep, GuestGone, IInv, TypeOK, Owners, Launching, Policies, Gates, PolicyCoversPod

\* The collection takes a pod whose owner is gone.
LEMMA CollectPodKeeps ==
  ASSUME IInv, NEW s \in Step, CollectPod(s)
  PROVE  IInv'
BY DEF CollectPod, GuestGone, PodIsOrphan, IInv, TypeOK, Owners, Launching, Policies, Gates, PolicyCoversPod

\* A policy is collected under a living pod only with the owner of both.
LEMMA CollectPolicyKeeps ==
  ASSUME IInv, NEW s \in Step, CollectPolicy(s)
  PROVE  IInv'
<1>1. TypeOK'
  BY DEF CollectPolicy, PolicyIsOrphan, IInv, TypeOK
<1>2. Owners'
  BY DEF CollectPolicy, PolicyIsOrphan, IInv, TypeOK, Owners
<1>3. Launching'
  BY DEF CollectPolicy, PolicyIsOrphan, IInv, TypeOK, Owners, Launching
<1>4. Policies'
  BY DEF CollectPolicy, PolicyIsOrphan, IInv, TypeOK, Owners, Launching, Policies
<1>5. Gates'
  BY DEF CollectPolicy, PolicyIsOrphan, IInv, TypeOK, Owners, Policies, Gates, PolicyCoversPod
<1>6. PolicyCoversPod'
  BY DEF CollectPolicy, PolicyIsOrphan, IInv, TypeOK, Owners, Launching, Policies, PolicyCoversPod
<1> QED
  BY <1>1, <1>2, <1>3, <1>4, <1>5, <1>6 DEF IInv

\* A pod starts with its canary.
LEMMA StartPodKeeps ==
  ASSUME IInv, NEW s \in Step, StartPod(s)
  PROVE  IInv'
BY DEF StartPod, IInv, TypeOK, Owners, Launching, Policies, Gates, PolicyCoversPod

\* A pod ends, and its guest with it.
LEMMA EndPodKeeps ==
  ASSUME IInv, NEW s \in Step, EndPod(s)
  PROVE  IInv'
BY DEF EndPod, GuestGone, IInv, TypeOK, Owners, Launching, Policies, Gates, PolicyCoversPod

\* What was programmed is taken back only for a policy that was collected.
LEMMA ProgramKeeps ==
  ASSUME IInv, NEW s \in Step, Program(s)
  PROVE  IInv'
<1>1. TypeOK'
  BY DEF Program, IInv, TypeOK
<1>2. Owners'
  BY DEF Program, IInv, TypeOK, Owners
<1>3. Launching'
  BY DEF Program, IInv, TypeOK, Owners, Launching
<1>4. Policies'
  BY DEF Program, IInv, TypeOK, Owners, Launching, Policies
<1>5. Gates'
  BY DEF Program, IInv, TypeOK, Owners, Policies, Gates, PolicyCoversPod
<1>6. PolicyCoversPod'
  BY DEF Program, IInv, TypeOK, Owners, Launching, Policies, PolicyCoversPod
<1> QED
  BY <1>1, <1>2, <1>3, <1>4, <1>5, <1>6 DEF IInv

\* A probe that connects to nothing saw the policy, or was lost.
LEMMA ProbeExternalKeeps ==
  ASSUME IInv, NEW s \in Step, ProbeExternal(s)
  PROVE  IInv'
<1>a. PICK timeout \in {TRUE, enforced[s]} :
             /\ blocked' = [blocked EXCEPT ![s] = timeout]
             /\ lost' = [lost EXCEPT ![s] = timeout /\ ~enforced[s]]
  BY Zenon DEF ProbeExternal
<1>b. timeout \in BOOLEAN /\ (timeout /\ ~enforced[s]) \in BOOLEAN
  <2>1. enforced[s] \in BOOLEAN
    BY SMT DEF IInv, TypeOK
  <2>2. timeout = TRUE \/ timeout = enforced[s]
    OBVIOUS
  <2> QED BY ONLY <2>1, <2>2, Zenon
<1>c. blocked' \in [Step -> BOOLEAN] /\ lost' \in [Step -> BOOLEAN]
  BY <1>a, <1>b, Zenon DEF IInv, TypeOK
<1>1. TypeOK'
  BY <1>c DEF ProbeExternal, IInv, TypeOK
<1>2. Owners'
  BY DEF ProbeExternal, IInv, TypeOK, Owners
<1>3. Launching'
  BY DEF ProbeExternal, IInv, TypeOK, Owners, Launching
<1>4. Policies'
  BY DEF ProbeExternal, IInv, TypeOK, Owners, Launching, Policies
<1>5. Gates'
  <2>1. ASSUME NEW t \in Step, t # s PROVE blocked'[t] = blocked[t] /\ lost'[t] = lost[t]
    BY <1>a, <2>1 DEF IInv, TypeOK
  <2>2. blocked'[s] => enforced[s] \/ lost'[s]
    BY <1>a, Zenon DEF IInv, TypeOK
  <2> QED
    BY <2>1, <2>2 DEF ProbeExternal, IInv, TypeOK, Gates
<1>6. PolicyCoversPod'
  BY DEF ProbeExternal, IInv, TypeOK, Owners, Launching, Policies, PolicyCoversPod
<1> QED
  BY <1>1, <1>2, <1>3, <1>4, <1>5, <1>6 DEF IInv

\* The workload starts on a probe of this attempt.
LEMMA ProbeRestKeeps ==
  ASSUME IInv, NEW s \in Step, NEW imds \in BOOLEAN, NEW store \in BOOLEAN, ProbeRest(s, imds, store)
  PROVE  IInv'
<1>1. TypeOK'
  BY DEF ProbeRest, Passes, TriesAgain, IInv, TypeOK
<1>2. Owners'
  BY DEF ProbeRest, Passes, TriesAgain, IInv, TypeOK, Owners
<1>3. Launching'
  BY DEF ProbeRest, Passes, TriesAgain, IInv, TypeOK, Owners, Launching
<1>4. Policies'
  BY DEF ProbeRest, Passes, TriesAgain, IInv, TypeOK, Owners, Launching, Policies
<1>5. Gates'
  BY DEF ProbeRest, Passes, TriesAgain, IInv, TypeOK, Owners, Policies, Gates, PolicyCoversPod
<1>6. PolicyCoversPod'
  BY DEF ProbeRest, Passes, TriesAgain, IInv, TypeOK, Owners, Launching, Policies, PolicyCoversPod
<1> QED
  BY <1>1, <1>2, <1>3, <1>4, <1>5, <1>6 DEF IInv

\* An owner that goes, goes for every step that refers to it.
LEMMA DeleteRunOwnerKeeps ==
  ASSUME IInv, NEW r \in Run, DeleteRunOwner(r)
  PROVE  IInv'
<1>1. TypeOK'
  BY DEF DeleteRunOwner, RemoveOwner, IInv, TypeOK
<1>2. Owners'
  BY DEF DeleteRunOwner, RemoveOwner, IInv, TypeOK, Owners
<1>3. Launching'
  BY DEF DeleteRunOwner, RemoveOwner, IInv, TypeOK, Owners, Launching
<1>4. Policies'
  BY DEF DeleteRunOwner, RemoveOwner, IInv, TypeOK, Owners, Launching, Policies
<1>5. Gates'
  BY DEF DeleteRunOwner, RemoveOwner, IInv, TypeOK, Owners, Policies, Gates, PolicyCoversPod
<1>6. PolicyCoversPod'
  BY DEF DeleteRunOwner, RemoveOwner, IInv, TypeOK, Owners, Launching, Policies, PolicyCoversPod
<1> QED
  BY <1>1, <1>2, <1>3, <1>4, <1>5, <1>6 DEF IInv

\* An owner grows old.
LEMMA GrowOldKeeps ==
  ASSUME IInv, NEW r \in Run, GrowOld(r)
  PROVE  IInv'
BY DEF GrowOld, IInv, TypeOK, Owners, Launching, Policies, Gates, PolicyCoversPod

\* The reaper lists what is old.
LEMMA ReapListKeeps ==
  ASSUME IInv, NEW e \in Engine, NEW keep \in Run \cup {NoRun}, ReapList(e, keep)
  PROVE  IInv'
BY DEF ReapList, IInv, TypeOK, Owners, Launching, Policies, Gates, PolicyCoversPod

\* The reaper deletes one owner of its list by name.
LEMMA ReapNextKeeps ==
  ASSUME IInv, NEW e \in Engine, NEW r \in Run, ReapNext(e, r)
  PROVE  IInv'
BY DEF ReapNext, RemoveOwner, IInv, TypeOK, Owners, Launching, Policies, Gates, PolicyCoversPod

\* A reaper that raises forgets its list.
LEMMA ReapRaisesKeeps ==
  ASSUME IInv, NEW e \in Engine, ReapRaises(e)
  PROVE  IInv'
BY DEF ReapRaises, IInv, TypeOK, Owners, Launching, Policies, Gates, PolicyCoversPod

-----------------------------------------------------------------------------
\* Every step of a launch, a pod or its guest keeps the invariant.
LEMMA StepKeeps ==
  ASSUME IInv, NEW s \in Step,
         \/ Begin(s) \/ Launch(s) \/ LaunchRaises(s) \/ Destroy(s) \/ DestroyRaises(s) \/ Sweep(s)
         \/ Collect(s) \/ StartPod(s) \/ EndPod(s) \/ Program(s) \/ Probe(s)
  PROVE  IInv'
<1>1. CASE Begin(s)
  BY <1>1, BeginKeeps
<1>2. CASE Launch(s)
  BY <1>2, CreateOwnerKeeps, OwnerExistsKeeps, ReadOwnerKeeps, CreatePolicyKeeps, CreatePodKeeps
  DEF Launch
<1>3. CASE LaunchRaises(s)
  BY <1>3, LaunchRaisesKeeps
<1>4. CASE Destroy(s)
  BY <1>4, DestroyKeeps
<1>5. CASE DestroyRaises(s)
  BY <1>5, DestroyRaisesKeeps
<1>6. CASE Collect(s)
  BY <1>6, CollectPodKeeps, CollectPolicyKeeps DEF Collect
<1>7. CASE StartPod(s)
  BY <1>7, StartPodKeeps
<1>8. CASE EndPod(s)
  BY <1>8, EndPodKeeps
<1>9. CASE Program(s)
  BY <1>9, ProgramKeeps
<1>10. CASE Probe(s)
  BY <1>10, ProbeExternalKeeps, ProbeRestKeeps DEF Probe
<1>11. CASE Sweep(s)
  BY <1>11, SweepKeeps
<1> QED
  BY <1>1, <1>2, <1>3, <1>4, <1>5, <1>6, <1>7, <1>8, <1>9, <1>10, <1>11

\* Every step keeps the invariant.
LEMMA NextIInv == IInv /\ [Next]_vars => IInv'
<1> SUFFICES ASSUME IInv, [Next]_vars PROVE IInv'
  OBVIOUS
<1>1. ASSUME NEW s \in Step,
             \/ Begin(s) \/ Launch(s) \/ LaunchRaises(s) \/ Destroy(s) \/ DestroyRaises(s) \/ Sweep(s)
             \/ Collect(s) \/ StartPod(s) \/ EndPod(s) \/ Program(s) \/ Probe(s)
      PROVE  IInv'
  BY <1>1, StepKeeps
<1>2. ASSUME NEW r \in Run, DeleteRunOwner(r) \/ GrowOld(r)
      PROVE  IInv'
  BY <1>2, DeleteRunOwnerKeeps, GrowOldKeeps
<1>3. ASSUME NEW e \in Engine,
             \/ \E keep \in Run \cup {NoRun} : ReapList(e, keep)
             \/ \E r \in Run : ReapNext(e, r)
             \/ ReapRaises(e)
      PROVE  IInv'
  BY <1>3, ReapListKeeps, ReapNextKeeps, ReapRaisesKeeps
<1>4. CASE UNCHANGED vars
  BY <1>4 DEF vars, IInv, TypeOK, Owners, Launching, Policies, Gates, PolicyCoversPod
<1> QED
  BY <1>1, <1>2, <1>3, <1>4 DEF Next

\* The invariant holds in every reachable state.
LEMMA Inductive == Spec => []IInv
BY InitIInv, NextIInv, PTL DEF Spec

\* The types, that a guest is there exactly in a running pod, and that an owner's uid
\* is known only once the owner was made.
THEOREM TypeCorrect == Spec => []TypeOK
BY Inductive, PTL DEF IInv

\* A pod has its policy while its run has its owner.
THEOREM Covered == Spec => []PolicyCoversPod
BY Inductive, PTL DEF IInv

\* The workload runs behind a programmed policy, but for a lost probe or a deleted
\* owner.
THEOREM Restricted == Spec => []WorkloadIsRestricted
<1>1. IInv => WorkloadIsRestricted
  BY DEF IInv, Gates, WorkloadIsRestricted
<1> QED
  BY <1>1, Inductive, PTL
-----------------------------------------------------------------------------
(* What is left of a step once its owner is gone: calls of its launch, then objects.     *)

CallsLeft(s) ==
  CASE pc[s] = "policy" -> 4 [] pc[s] = "pod" -> 3 [] pc[s] = "latePolicy" -> 2
    [] pc[s] = "handle" -> 1 [] OTHER -> 0

LeftOf(s) ==
  <<CallsLeft(s), OneIf(PodExists(s)) + OneIf(policy[s] = "there"), 0>>

Remains(s) == <<pc[s], PodExists(s), policy[s]>>

GoneCountsDown ==
  [][\A s \in Step : OwnerGone(s) =>
       /\ OwnerGone(s)'
       /\ LeftOf(s) \in Triples
       /\ Less(LeftOf(s)', LeftOf(s)) \/ UNCHANGED Remains(s)]_vars

\* An owner that is gone stays gone for the step: a new one has another uid.
LEMMA GoneStays ==
  ASSUME IInv, [Next]_vars, NEW s \in Step, OwnerGone(s)
  PROVE  OwnerGone(s)'
<1>1. pc[s] \notin {"own", "readOwn"} /\ runOf[s] \in Run /\ uid[s] <= made[runOf[s]]
  BY DEF IInv, TypeOK, Launching
<1>2. UNCHANGED runOf
  BY DEF Next, Begin, Launch, CreateOwner, OwnerExists, ReadOwner, CreatePolicy, CreatePod,
     LaunchRaises, Destroy, DestroyRaises, Sweep, Collect, CollectPod, CollectPolicy, StartPod,
     EndPod, Program, Probe, ProbeExternal, ProbeRest, DeleteRunOwner, RemoveOwner, GrowOld,
     ReapList, ReapNext, ReapRaises, vars
<1>3. ASSUME NEW t \in Step, CreateOwner(t) PROVE OwnerGone(s)'
  BY <1>1, <1>3 DEF CreateOwner, IInv, TypeOK
<1>4. ASSUME NEW t \in Step, ReadOwner(t) PROVE OwnerGone(s)'
  BY <1>1, <1>4 DEF ReadOwner, IInv, TypeOK
<1>5. ASSUME NEW r \in Run, DeleteRunOwner(r) \/ \E e \in Engine : ReapNext(e, r)
      PROVE  OwnerGone(s)'
  BY <1>1, <1>2, <1>5 DEF DeleteRunOwner, ReapNext, RemoveOwner, IInv, TypeOK
<1>6. CASE UNCHANGED <<owner, uid>>
  BY <1>2, <1>6
<1>7. \/ \E t \in Step : CreateOwner(t) \/ ReadOwner(t)
      \/ \E r \in Run : DeleteRunOwner(r) \/ \E e \in Engine : ReapNext(e, r)
      \/ UNCHANGED <<owner, uid>>
  BY DEF Next, Begin, Launch, OwnerExists, CreatePolicy, CreatePod,
     LaunchRaises, Destroy, DestroyRaises, Sweep, Collect, CollectPod, CollectPolicy, StartPod,
     EndPod, Program, Probe, ProbeExternal, ProbeRest, GrowOld, ReapList, ReapRaises, vars
<1> QED BY <1>3, <1>4, <1>5, <1>6, <1>7

\* From then on its launch only goes on, and its objects only go.
LEMMA GoneShrinks ==
  ASSUME IInv, [Next]_vars, NEW s \in Step, OwnerGone(s)
  PROVE  /\ LeftOf(s) \in Triples
         /\ Less(LeftOf(s)', LeftOf(s)) \/ UNCHANGED Remains(s)
<1>1. uid[s] # 0 /\ pc[s] \notin Unlaunched \cup {"latePolicy"}
  BY DEF IInv, Launching
<1>2. LeftOf(s) \in Triples
  BY DEF LeftOf, CallsLeft, OneIf, Triples
<1>3. ASSUME CallsLeft(s)' < CallsLeft(s)
      PROVE  Less(LeftOf(s)', LeftOf(s))
  BY <1>3 DEF LeftOf, Less
<1>4. ASSUME pc'[s] = pc[s],
             \/ PodExists(s) /\ ~PodExists(s)' /\ policy'[s] = policy[s]
             \/ policy[s] = "there" /\ policy'[s] # "there" /\ PodExists(s)' = PodExists(s)
      PROVE  Less(LeftOf(s)', LeftOf(s))
  BY <1>4 DEF LeftOf, Less, CallsLeft, OneIf
<1> DEFINE Goal == Less(LeftOf(s)', LeftOf(s)) \/ UNCHANGED Remains(s)
<1>5. ASSUME NEW t \in Step, CreatePolicy(t) PROVE Goal
  BY <1>1, <1>3, <1>5 DEF CreatePolicy, CallsLeft, Remains, IInv, TypeOK
<1>6. ASSUME NEW t \in Step, CreatePod(t) PROVE Goal
  BY <1>1, <1>3, <1>6 DEF CreatePod, AfterPod, CallsLeft, Remains, IInv, TypeOK
<1>7. ASSUME NEW t \in Step, LaunchRaises(t) PROVE Goal
  <2>1. CASE t = s
    <3>1. pc[s] \in {"policy", "pod"} /\ pc'[s] = "raised"
      BY <1>1, <1>7, <2>1 DEF LaunchRaises, IInv, TypeOK
    <3> QED BY <1>3, <3>1 DEF CallsLeft
  <2>2. CASE t # s
    <3>1. pc'[s] = pc[s] /\ pod'[s] = pod[s] /\ policy'[s] = policy[s]
      BY <1>7, <2>2 DEF LaunchRaises, IInv, TypeOK
    <3> QED BY <3>1 DEF Remains
  <2> QED BY <2>1, <2>2
<1>8. ASSUME NEW t \in Step, Destroy(t) \/ DestroyRaises(t) PROVE Goal
  <2>1. CASE t = s
    <3>1. pc[s] = "handle" /\ pc'[s] = "over"
      BY <1>8, <2>1 DEF Destroy, DestroyRaises, IInv, TypeOK
    <3> QED BY <1>3, <3>1 DEF CallsLeft
  <2>2. CASE t # s
    <3>1. pc'[s] = pc[s] /\ pod'[s] = pod[s] /\ policy'[s] = policy[s]
      BY <1>8, <2>2 DEF Destroy, DestroyRaises, IInv, TypeOK
    <3> QED BY <3>1 DEF Remains
  <2> QED BY <2>1, <2>2
<1>9. ASSUME NEW t \in Step, Begin(t) \/ CreateOwner(t) \/ OwnerExists(t) \/ ReadOwner(t) PROVE Goal
  BY <1>1, <1>9 DEF Begin, CreateOwner, OwnerExists, ReadOwner, Remains, IInv, TypeOK
<1>10. ASSUME NEW t \in Step, Sweep(t) \/ CollectPod(t) PROVE Goal
  BY <1>4, <1>10 DEF Sweep, CollectPod, Remains, IInv, TypeOK
<1>11. ASSUME NEW t \in Step, CollectPolicy(t) PROVE Goal
  BY <1>4, <1>11 DEF CollectPolicy, Remains, IInv, TypeOK
<1>12. ASSUME NEW t \in Step, StartPod(t) \/ EndPod(t) PROVE Goal
  BY <1>12 DEF StartPod, EndPod, Remains, IInv, TypeOK
<1>13. ASSUME NEW t \in Step, Program(t) \/ Probe(t) PROVE Goal
  BY <1>13 DEF Program, Probe, ProbeExternal, ProbeRest, Remains
<1>14. ASSUME UNCHANGED <<pc, pod, policy>> PROVE Goal
  BY <1>14 DEF Remains
<1>15. ASSUME NEW r \in Run, DeleteRunOwner(r) \/ GrowOld(r) PROVE Goal
  BY <1>14, <1>15 DEF DeleteRunOwner, RemoveOwner, GrowOld
<1>16. ASSUME NEW e \in Engine,
              \/ \E keep \in Run \cup {NoRun} : ReapList(e, keep)
              \/ \E r \in Run : ReapNext(e, r)
              \/ ReapRaises(e)
       PROVE  Goal
  BY <1>14, <1>16 DEF RemoveOwner, ReapList, ReapNext, ReapRaises
<1>17. ASSUME UNCHANGED vars PROVE Goal
  BY <1>14, <1>17 DEF vars
<1>18. ASSUME NEW t \in Step,
              \/ Begin(t) \/ Launch(t) \/ LaunchRaises(t) \/ Destroy(t) \/ DestroyRaises(t) \/ Sweep(t)
              \/ Collect(t) \/ StartPod(t) \/ EndPod(t) \/ Program(t) \/ Probe(t)
       PROVE  Goal
  <2> HIDE DEF Goal
  <2> QED BY <1>5, <1>6, <1>7, <1>8, <1>9, <1>10, <1>11, <1>12, <1>13, <1>18 DEF Launch, Collect
<1> HIDE DEF Goal
<1>19. Goal
  BY <1>15, <1>16, <1>17, <1>18 DEF Next
<1> QED BY <1>2, <1>19 DEF Goal

\* A run's owner that is deleted (by name, or by age and then by name) is gone for good for
\* the steps that refer to it, and each has then finitely many steps left: calls of its
\* launch, then the collection of what it made, which is an orphan by now (k8s.py's
\* ensure_run_owner and the ownerReferences).
THEOREM GoneIsCounted == Spec => GoneCountsDown
<1>1. IInv /\ [Next]_vars =>
        [\A s \in Step : OwnerGone(s) =>
           /\ OwnerGone(s)'
           /\ LeftOf(s) \in Triples
           /\ Less(LeftOf(s)', LeftOf(s)) \/ UNCHANGED Remains(s)]_vars
  BY GoneStays, GoneShrinks
<1> QED BY <1>1, Inductive, PTL DEF Spec, GoneCountsDown
=============================================================================
