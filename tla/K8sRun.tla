-------------------------------- MODULE K8sRun --------------------------------
(***************************************************************************)
(* Steps of runs on Kubernetes (runtime/k8s.py) and the gate in the guest  *)
(* (egress_canary.py).  launch makes up to three objects: the run's owner  *)
(* ConfigMap, the step's NetworkPolicy and its pod; the last two refer to  *)
(* an owner, and the cluster collects what refers to an owner that is not  *)
(* there.  Engines delete run owners, by name and by age.                  *)
(*                                                                         *)
(* The cluster is the environment: it starts pods, programs a policy some  *)
(* time after the pod is up, and collects in any order.  An owner is its   *)
(* incarnation (its uid).  A Run is the name of an owner: run ids that     *)
(* _dns_safe maps to one name are one Run.  A call to the API server takes *)
(* effect in one step.                                                     *)
(***************************************************************************)
EXTENDS Naturals

CONSTANTS
  Egress,      \* the runtime was given an EgressConfig
  Step,        \* launches
  Run,         \* run ids
  NoRun,       \* a spec without the label resoluto.run_id
  Engine,      \* callers of reap_stale_run_owners
  MaxAttempts, \* max_attempts of wait_for_egress_enforced
  MaxUid,      \* bound: incarnations of a run's owner
  MaxFaults    \* bound: API calls that raise

ASSUME K8sAssumption ==
  /\ Egress \in BOOLEAN /\ NoRun \notin Run
  /\ MaxAttempts \in Nat \ {0} /\ MaxUid \in Nat /\ MaxFaults \in Nat

VARIABLES
  runOf,     \* the run id of each step's labels
  \* the cluster
  owner,     \* incarnation of the run's owner ConfigMap, 0 while there is none
  made,      \* incarnations so far
  old,       \* the owner is older than max_age_s
  policy,    \* the step's NetworkPolicy
  pod,       \* the step's pod
  enforced,  \* the policy is programmed for the pod
  \* launch and destroy
  pc,
  uid,       \* owner_uid, 0 without one
  faults,
  \* the guest
  gate,      \* which probe is next, or the verdict
  attempt,   \* attempts so far
  blocked,   \* this attempt's external probe failed to connect
  lost,      \* this attempt's external probe timed out on an open network
  \* reap_stale_run_owners
  todo       \* stale run ids of the list being worked through

ownerVars  == <<owner, made, old>>
objectVars == <<policy, pod, enforced>>
launchVars == <<pc, uid, faults>>
guestVars  == <<gate, attempt, blocked, lost>>
vars == <<runOf, ownerVars, objectVars, launchVars, guestVars, todo>>

Labelled(s)  == runOf[s] # NoRun
PodExists(s) == pod[s] \in {"pending", "running", "ended"}
Probing      == {"external", "rest"}
Calling      == {"own", "readOwn", "policy", "pod", "latePolicy"}

\* The owner that the step's objects refer to is not there any more.
OwnerGone(s) == uid[s] # 0 /\ owner[runOf[s]] # uid[s]

-----------------------------------------------------------------------------
(* The decisions of the code, each after slips the properties exclude. *)

\* With a run owner to attach it to, the policy is created before the pod.
AfterOwner(u) == IF Egress /\ u # 0 THEN "policy" ELSE "pod"

\* Without one it follows the pod.
AfterPod(s) == IF Egress /\ uid[s] = 0 THEN "latePolicy" ELSE "handle"

PolicyUnowned(s) == FALSE
PolicyOwnedByPod(s) == ~PodExists(s)
\* _network_policy's ownerReferences: the run owner if there is one, else the pod.
PolicyIsOrphan(s) == IF uid[s] # 0 THEN OwnerGone(s) ELSE ~PodExists(s)

\* _manifest's ownerReferences.
PodIsOrphan(s) == OwnerGone(s)

PassesByMetadata(s, imdsBlocked, storeOk) == imdsBlocked /\ storeOk
\* evaluate_verdict: every probe came out as expected.
Passes(s, imdsBlocked, storeOk) == blocked[s] /\ imdsBlocked /\ storeOk

OneMoreTry(s, storeOk) == storeOk /\ attempt[s] <= MaxAttempts
\* wait_for_egress_enforced tries again only while the store answers.
TriesAgain(s, storeOk) == storeOk /\ attempt[s] < MaxAttempts

-----------------------------------------------------------------------------
Init ==
  /\ runOf \in [Step -> Run \cup {NoRun}]
  /\ owner = [r \in Run |-> 0] /\ made = [r \in Run |-> 0] /\ old = [r \in Run |-> FALSE]
  /\ policy = [s \in Step |-> "none"] /\ pod = [s \in Step |-> "none"]
  /\ enforced = [s \in Step |-> FALSE]
  /\ pc = [s \in Step |-> "idle"] /\ uid = [s \in Step |-> 0] /\ faults = 0
  /\ gate = [s \in Step |-> "off"] /\ attempt = [s \in Step |-> 0]
  /\ blocked = [s \in Step |-> FALSE] /\ lost = [s \in Step |-> FALSE]
  /\ todo = [e \in Engine |-> {}]

\* With the pod goes its guest, and what was programmed for it.
GuestGone(s) ==
  /\ enforced' = [enforced EXCEPT ![s] = FALSE]
  /\ gate' = [gate EXCEPT ![s] = "off"] /\ attempt' = [attempt EXCEPT ![s] = 0]
  /\ blocked' = [blocked EXCEPT ![s] = FALSE] /\ lost' = [lost EXCEPT ![s] = FALSE]

-----------------------------------------------------------------------------
(* launch.  One that raises before its first call (runtime class, memory) is one *)
(* that is not made.                                                             *)

Begin(s) ==
  /\ pc[s] = "idle"
  /\ pc' = [pc EXCEPT ![s] = IF Labelled(s) THEN "own" ELSE AfterOwner(0)]
  /\ UNCHANGED <<runOf, ownerVars, objectVars, uid, faults, guestVars, todo>>

\* ensure_run_owner: create the owner, ...
CreateOwner(s) ==
  /\ pc[s] = "own" /\ owner[runOf[s]] = 0 /\ made[runOf[s]] < MaxUid
  /\ made' = [made EXCEPT ![runOf[s]] = @ + 1]
  /\ owner' = [owner EXCEPT ![runOf[s]] = made'[runOf[s]]]
  /\ old' = [old EXCEPT ![runOf[s]] = FALSE]
  /\ uid' = [uid EXCEPT ![s] = made'[runOf[s]]]
  /\ pc' = [pc EXCEPT ![s] = AfterOwner(made'[runOf[s]])]
  /\ UNCHANGED <<runOf, objectVars, faults, guestVars, todo>>

\* ... or be told that it exists (409) ...
OwnerExists(s) ==
  /\ pc[s] = "own" /\ owner[runOf[s]] # 0
  /\ pc' = [pc EXCEPT ![s] = "readOwn"]
  /\ UNCHANGED <<runOf, ownerVars, objectVars, uid, faults, guestVars, todo>>

\* ... and read it; by then it may be another one, or gone (404).
ReadOwner(s) ==
  /\ pc[s] = "readOwn"
  /\ IF owner[runOf[s]] = 0
       THEN pc' = [pc EXCEPT ![s] = "raised"] /\ UNCHANGED uid
       ELSE /\ uid' = [uid EXCEPT ![s] = owner[runOf[s]]]
            /\ pc' = [pc EXCEPT ![s] = AfterOwner(owner[runOf[s]])]
  /\ UNCHANGED <<runOf, ownerVars, objectVars, faults, guestVars, todo>>

CreatePolicy(s) ==
  /\ pc[s] \in {"policy", "latePolicy"}
  /\ policy' = [policy EXCEPT ![s] = "there"]
  /\ pc' = [pc EXCEPT ![s] = IF pc[s] = "policy" THEN "pod" ELSE "handle"]
  /\ UNCHANGED <<runOf, ownerVars, pod, enforced, uid, faults, guestVars, todo>>

CreatePod(s) ==
  /\ pc[s] = "pod"
  /\ pod' = [pod EXCEPT ![s] = "pending"]
  /\ pc' = [pc EXCEPT ![s] = AfterPod(s)]
  /\ UNCHANGED <<runOf, ownerVars, policy, enforced, uid, faults, guestVars, todo>>

\* A call raises out of launch, transient (SandboxLaunchError) or not: nothing is
\* undone.  The policy or the pod may have been made although the answer was lost.
LaunchRaises(s) ==
  /\ pc[s] \in Calling /\ faults < MaxFaults
  /\ faults' = faults + 1
  /\ pc' = [pc EXCEPT ![s] = "raised"]
  /\ \/ UNCHANGED <<policy, pod>>
     \/ /\ pc[s] \in {"policy", "latePolicy"}
        /\ policy' = [policy EXCEPT ![s] = "there"] /\ UNCHANGED pod
     \/ /\ pc[s] = "pod"
        /\ pod' = [pod EXCEPT ![s] = "pending"] /\ UNCHANGED policy
  /\ UNCHANGED <<runOf, ownerVars, enforced, uid, guestVars, todo>>

\* destroy: a pod that is not found is as good as deleted.
Destroy(s) ==
  /\ pc[s] = "handle"
  /\ pod' = [pod EXCEPT ![s] = "gone"]
  /\ GuestGone(s)
  /\ pc' = [pc EXCEPT ![s] = "over"]
  /\ UNCHANGED <<runOf, ownerVars, policy, uid, faults, todo>>

DestroyRaises(s) ==
  /\ pc[s] = "handle" /\ faults < MaxFaults
  /\ faults' = faults + 1
  /\ pc' = [pc EXCEPT ![s] = "over"]
  /\ UNCHANGED <<runOf, ownerVars, objectVars, uid, guestVars, todo>>

\* sweep destroys what its list held, whoever launched it and however far that is; a
\* pod that has gone since is passed over.
Sweep(s) ==
  /\ PodExists(s)
  /\ pod' = [pod EXCEPT ![s] = "gone"]
  /\ GuestGone(s)
  /\ UNCHANGED <<runOf, ownerVars, policy, launchVars, todo>>

-----------------------------------------------------------------------------
(* The engines *)

RemoveOwner(r) ==
  /\ owner' = [owner EXCEPT ![r] = 0]
  /\ old' = [old EXCEPT ![r] = FALSE]
  /\ UNCHANGED <<runOf, made, objectVars, launchVars, guestVars>>

DeleteRunOwner(r) ==
  /\ owner[r] # 0
  /\ RemoveOwner(r)
  /\ UNCHANGED todo

\* reap_stale_run_owners(keep): the list, ...
ReapList(e, keep) ==
  /\ todo[e] = {}
  /\ todo' = [todo EXCEPT ![e] = {r \in Run \ {keep} : owner[r] # 0 /\ old[r]}]
  /\ UNCHANGED <<runOf, ownerVars, objectVars, launchVars, guestVars>>

\* ... then delete_run_owner for one after the other, by name.
ReapNext(e, r) ==
  /\ r \in todo[e]
  /\ RemoveOwner(r)
  /\ todo' = [todo EXCEPT ![e] = @ \ {r}]

ReapRaises(e) ==
  /\ todo[e] # {} /\ faults < MaxFaults
  /\ faults' = faults + 1
  /\ todo' = [todo EXCEPT ![e] = {}]
  /\ UNCHANGED <<runOf, ownerVars, objectVars, pc, uid, guestVars>>

-----------------------------------------------------------------------------
(* The cluster *)

GrowOld(r) ==
  /\ owner[r] # 0 /\ ~old[r]
  /\ old' = [old EXCEPT ![r] = TRUE]
  /\ UNCHANGED <<runOf, owner, made, objectVars, launchVars, guestVars, todo>>

CollectPod(s) ==
  /\ PodExists(s) /\ PodIsOrphan(s)
  /\ pod' = [pod EXCEPT ![s] = "gone"]
  /\ GuestGone(s)
  /\ UNCHANGED <<runOf, ownerVars, policy, launchVars, todo>>

CollectPolicy(s) ==
  /\ policy[s] = "there" /\ PolicyIsOrphan(s)
  /\ policy' = [policy EXCEPT ![s] = "gone"]
  /\ UNCHANGED <<runOf, ownerVars, pod, enforced, launchVars, guestVars, todo>>

StartPod(s) ==
  /\ pod[s] = "pending"
  /\ pod' = [pod EXCEPT ![s] = "running"]
  /\ gate' = [gate EXCEPT ![s] = "external"]
  /\ attempt' = [attempt EXCEPT ![s] = 1]
  /\ UNCHANGED <<runOf, ownerVars, policy, enforced, launchVars, blocked, lost, todo>>

\* The runner has exited, or was killed.
EndPod(s) ==
  /\ pod[s] = "running"
  /\ pod' = [pod EXCEPT ![s] = "ended"]
  /\ GuestGone(s)
  /\ UNCHANGED <<runOf, ownerVars, policy, launchVars, todo>>

\* The network controller follows the policies, a beat behind.
Program(s) ==
  /\ pod[s] = "running" /\ enforced[s] # (policy[s] = "there")
  /\ enforced' = [enforced EXCEPT ![s] = policy[s] = "there"]
  /\ UNCHANGED <<runOf, ownerVars, policy, pod, launchVars, guestVars, todo>>

-----------------------------------------------------------------------------
(* The gate: run_egress_canary, again and again.  A probe that times out counts *)
(* as blocked.                                                                  *)

ProbeExternal(s) ==
  /\ pod[s] = "running" /\ gate[s] = "external"
  /\ \E timeout \in {TRUE, enforced[s]} :
       /\ blocked' = [blocked EXCEPT ![s] = timeout]
       /\ lost' = [lost EXCEPT ![s] = timeout /\ ~enforced[s]]
  /\ gate' = [gate EXCEPT ![s] = "rest"]
  /\ UNCHANGED <<runOf, ownerVars, objectVars, launchVars, attempt, todo>>

\* The metadata probe and the store probe, then the verdict: the workload starts,
\* the gate waits for the policy, or it fails for good.  Without a policy the
\* metadata address answers or not, as the site has it.
ProbeRest(s, imdsBlocked, storeOk) ==
  /\ pod[s] = "running" /\ gate[s] = "rest"
  /\ enforced[s] => imdsBlocked
  /\ gate' = [gate EXCEPT ![s] = IF Passes(s, imdsBlocked, storeOk) THEN "passed"
                                 ELSE IF TriesAgain(s, storeOk) THEN "external" ELSE "failed"]
  /\ attempt' = [attempt EXCEPT ![s] = IF gate'[s] = "external" THEN @ + 1 ELSE @]
  /\ blocked' = [blocked EXCEPT ![s] = FALSE]
  /\ lost' = [lost EXCEPT ![s] = @ /\ gate'[s] = "passed"]
  /\ UNCHANGED <<runOf, ownerVars, objectVars, launchVars, todo>>

-----------------------------------------------------------------------------
Launch(s) ==
  \/ CreateOwner(s) \/ OwnerExists(s) \/ ReadOwner(s) \/ CreatePolicy(s) \/ CreatePod(s)
Collect(s) == CollectPod(s) \/ CollectPolicy(s)
Probe(s) == ProbeExternal(s) \/ \E imds, store \in BOOLEAN : ProbeRest(s, imds, store)

Next ==
  \/ \E s \in Step : \/ Begin(s) \/ Launch(s) \/ LaunchRaises(s)
                     \/ Destroy(s) \/ DestroyRaises(s) \/ Sweep(s)
                     \/ Collect(s) \/ StartPod(s) \/ EndPod(s) \/ Program(s) \/ Probe(s)
  \/ \E r \in Run : DeleteRunOwner(r) \/ GrowOld(r)
  \/ \E e \in Engine : \/ \E keep \in Run \cup {NoRun} : ReapList(e, keep)
                       \/ \E r \in Run : ReapNext(e, r)
                       \/ ReapRaises(e)

Spec == Init /\ [][Next]_vars

\* A launch that has begun goes on, and the cluster collects.  Nothing else has to
\* happen.
FairSpec ==
  /\ Spec
  /\ \A s \in Step : WF_vars(Launch(s)) /\ WF_vars(Collect(s))
-----------------------------------------------------------------------------
(* Properties *)

\* Type invariant.  Besides the types: there is a guest exactly in a pod that runs,
\* and a step has an owner's uid only after that owner was made.
TypeOK ==
  /\ runOf \in [Step -> Run \cup {NoRun}]
  /\ owner \in [Run -> 0..MaxUid] /\ made \in [Run -> 0..MaxUid] /\ old \in [Run -> BOOLEAN]
  /\ policy \in [Step -> {"none", "there", "gone"}]
  /\ pod \in [Step -> {"none", "pending", "running", "ended", "gone"}]
  /\ enforced \in [Step -> BOOLEAN]
  /\ pc \in [Step -> {"idle", "handle", "raised", "over"} \cup Calling]
  /\ uid \in [Step -> 0..MaxUid] /\ faults \in 0..MaxFaults
  /\ gate \in [Step -> {"off", "passed", "failed"} \cup Probing]
  /\ attempt \in [Step -> 0..MaxAttempts]
  /\ blocked \in [Step -> BOOLEAN] /\ lost \in [Step -> BOOLEAN]
  /\ todo \in [Engine -> SUBSET Run]
  /\ \A s \in Step : /\ (pod[s] = "running") <=> (gate[s] # "off")
                     /\ uid[s] # 0 => Labelled(s) /\ uid[s] <= made[runOf[s]]

\* "nothing untrusted runs until the sandbox is egress-READY" (egress_canary.py):
\* the workload runs behind a programmed policy.  Two ways out are the code's own:
\* the run's owner is deleted under the workload, and the cluster collects the
\* policy before the pod; or the deciding probe timed out on an open network.
WorkloadIsRestricted ==
  \A s \in Step : pod[s] = "running" /\ gate[s] = "passed" =>
                    enforced[s] \/ lost[s] \/ OwnerGone(s)

\* A pod has its policy as long as its run has its owner: the policy is there
\* before the pod and is not collected before it.  Without a run id it follows
\* the pod, or is missing where launch raised in between.
PolicyCoversPod ==
  \A s \in Step : Egress /\ PodExists(s) /\ ~OwnerGone(s) =>
                    \/ policy[s] = "there"
                    \/ uid[s] = 0 /\ pc[s] \in {"latePolicy", "raised"}

\* Deleting the run's owner removes what its launches made, also the objects of
\* launches that raised, that were under way, or that nobody holds a handle of.
OwnerTakesAll ==
  \A s \in Step : OwnerGone(s) ~> [](~PodExists(s) /\ policy[s] # "there")
=============================================================================
