----------------------------- MODULE LocalEgress -----------------------------
(***************************************************************************)
(* Per-run egress of the local backend (runtime/kata_nerdctl.py, driven by *)
(* backends/substrate.py): apply_egress sweeps the host, starts the SNI    *)
(* proxy and programs iptables rule by rule, or rolls back; launch puts    *)
(* the guest on the bridge or on no network; clear_egress takes everything *)
(* down.  Every iptables call of a teardown and its pkill may fail         *)
(* unnoticed, every step may raise (a checked call, a missing binary, a    *)
(* cancellation), and the process may die anywhere, leaving rules, proxy   *)
(* and guest on the host.                                                  *)
(*                                                                         *)
(* One run at a time uses the host, as docs/networking.md demands.         *)
(***************************************************************************)
EXTENDS Integers, Sequences

CONSTANTS
  RuleCount,  \* rules of the chain
  MaxMissed,  \* bound on teardown calls that fail unnoticed
  Direct      \* the runtime's methods are called in any order, not by SubstrateBackend

ASSUME EgressAssumption ==
  RuleCount \in Nat \ {0} /\ MaxMissed \in Nat /\ Direct \in BOOLEAN

VARIABLES
  \* the host
  chain,      \* rules in the egress chain; -1: there is no chain
  hooks,      \* hooks[h]: copies of the FORWARD jump, the :443 REDIRECT, the INPUT accept
  orphan,     \* a proxy nobody waits for, on the port with its list: "none", "alive", "signalled"
  guest,      \* the guest being driven: "none", "offline" (--network none), "bridge"
  \* the runtime object
  active,     \* _active_egress is a non-empty list
  applied,    \* _egress_active
  domains,    \* its domains file exists (a dead process's file is never read again)
  proxy,      \* _egress_proxy_proc: "none", "starting", "up", "exited"
  phase,      \* "idle", or the method under way: "sweep", "setup", "rollback", "clear"
  at,         \* its next step
  \* the caller
  turn,       \* its next call: "apply", "launch", "destroy", "clear"
  \* history
  missed,     \* teardown calls that failed unnoticed
  untidy      \* a process died, or raised in a teardown, since the last complete sweep

hostVars   == <<chain, hooks, orphan>>
objectVars == <<active, applied, domains, proxy>>
vars == <<chain, hooks, orphan, guest, active, applied, domains, proxy, phase, at, turn,
          missed, untidy>>

Hooks == {"jump", "redirect", "accept"}

Tearing == phase \in {"sweep", "rollback", "clear"}
Turn(call) == Direct \/ turn = call

\* The guest's traffic goes through the complete chain, its :443 to the proxy's port.
InForce == chain = RuleCount /\ hooks["jump"] > 0 /\ hooks["redirect"] > 0

\* What a run must not leave behind.
Clean == /\ chain = -1 /\ \A h \in Hooks : hooks[h] = 0
         /\ ~domains /\ proxy = "none" /\ orphan # "alive"

-----------------------------------------------------------------------------
(* Decisions of the code, each after a slip the properties exclude. *)

DeleteFirst == <<"stop", "pkill", "redirect", "accept", "flush", "delete", "jump", "unlink">>
\* The calls of _egress_teardown, in order; pkill is only part of a forced one.
TearSteps == <<"stop", "pkill", "redirect", "accept", "jump", "flush", "delete", "unlink">>

\* The calls of _egress_apply after its sweep.
SetupSteps == <<"write", "spawn", "ready", "new", "rules", "jump", "redirect", "accept">>

\* launch: the bridge only for a non-empty allowlist.
Network == IF active THEN "bridge" ELSE "offline"

JustRaise == "idle"
\* A step of _egress_apply that raises: roll back, then raise.
AfterSetupError == "rollback"

UnforcedSweep == Len(TearSteps)
\* _egress_apply's own sweep is forced: it starts with the proxy and includes pkill.
SweepFrom == 1

ClearFirst == "clear"
\* drive_node destroys the guest before clear_egress runs in the finally.
AfterLaunch == "destroy"

\* The step of the setup after which egress counts as applied.
AppliedAt == Len(SetupSteps)

-----------------------------------------------------------------------------
Init ==
  /\ chain = -1 /\ hooks = [h \in Hooks |-> 0]
  /\ orphan = "none" /\ guest = "none"
  /\ active = FALSE /\ applied = FALSE /\ domains = FALSE /\ proxy = "none"
  /\ phase = "idle" /\ at = 1 /\ turn = "apply"
  /\ missed = 0 /\ untidy = FALSE

\* apply_egress: an allowlist is applied, ...
Apply ==
  /\ phase = "idle" /\ Turn("apply")
  /\ active' = TRUE /\ applied' = FALSE
  /\ phase' = "sweep" /\ at' = SweepFrom
  /\ UNCHANGED <<hostVars, guest, domains, proxy, turn, missed, untidy>>

\* ... no list needs nothing but a teardown of what this object applied, ...
ApplyNothing ==
  /\ phase = "idle" /\ Turn("apply")
  /\ active' = FALSE /\ applied' = FALSE
  /\ turn' = "launch"
  /\ at' = 1 /\ phase' = IF applied THEN "clear" ELSE "idle"
  /\ UNCHANGED <<hostVars, guest, domains, proxy, missed, untidy>>

\* ... like clear_egress, and aclose, which keeps the list.
Clear ==
  /\ phase = "idle" /\ Turn("clear")
  /\ \/ active' = FALSE
     \/ Direct /\ UNCHANGED active
  /\ applied' = FALSE
  /\ turn' = "apply"
  /\ at' = 1 /\ phase' = IF applied THEN "clear" ELSE "idle"
  /\ UNCHANGED <<hostVars, guest, domains, proxy, missed, untidy>>

\* The method goes on, or returns after its last step.
Proceed ==
  IF at < Len(TearSteps)
    THEN /\ at' = at + 1
         /\ UNCHANGED <<phase, untidy>>
    ELSE /\ phase' = IF phase = "sweep" THEN "setup" ELSE "idle"
         /\ at' = 1
         /\ untidy' = (phase # "sweep" /\ untidy)

\* The run's own proxy has ended within 5 seconds, or is killed and not waited for.
Unwaited == IF proxy = "up" THEN "signalled" ELSE orphan
StopProxy ==
  /\ Tearing /\ TearSteps[at] = "stop"
  /\ proxy' = "none" /\ orphan' \in {orphan, Unwaited}
  /\ Proceed
  /\ UNCHANGED <<chain, hooks, guest, active, applied, domains, turn, missed>>

\* A stray proxy is told to end.
Signalled == IF phase # "clear" /\ orphan = "alive" THEN "signalled" ELSE orphan
Pkill ==
  /\ Tearing /\ TearSteps[at] = "pkill"
  /\ orphan' = Signalled
  /\ Proceed
  /\ UNCHANGED <<chain, hooks, guest, objectVars, turn, missed>>

OrphanDies ==
  /\ orphan = "signalled"
  /\ orphan' = "none"
  /\ UNCHANGED <<chain, hooks, guest, objectVars, phase, at, turn, missed, untidy>>

\* iptables -D of a hook: one copy, if there is one.
Unhook ==
  /\ Tearing /\ TearSteps[at] \in Hooks
  /\ LET h == TearSteps[at] IN hooks' = [hooks EXCEPT ![h] = IF @ = 0 THEN 0 ELSE @ - 1]
  /\ Proceed
  /\ UNCHANGED <<chain, orphan, guest, objectVars, turn, missed>>

Flush ==
  /\ Tearing /\ TearSteps[at] = "flush"
  /\ chain' = IF chain = -1 THEN -1 ELSE 0
  /\ Proceed
  /\ UNCHANGED <<hooks, orphan, guest, objectVars, turn, missed>>

\* -X refuses a chain that has rules or references.
DeleteChain ==
  /\ Tearing /\ TearSteps[at] = "delete"
  /\ chain' = IF chain = 0 /\ hooks["jump"] = 0 THEN -1 ELSE chain
  /\ Proceed
  /\ UNCHANGED <<hooks, orphan, guest, objectVars, turn, missed>>

Unlink ==
  /\ Tearing /\ TearSteps[at] = "unlink"
  /\ domains' = FALSE
  /\ Proceed
  /\ UNCHANGED <<hostVars, guest, active, applied, proxy, turn, missed>>

\* An iptables call of a teardown, or the pkill of a forced one, has no effect, and its
\* return code is not looked at.
Miss ==
  /\ Tearing /\ TearSteps[at] \in Hooks \cup {"pkill", "flush", "delete"}
  /\ TearSteps[at] = "pkill" => phase # "clear"
  /\ missed < MaxMissed /\ missed' = missed + 1
  /\ Proceed
  /\ UNCHANGED <<hostVars, guest, objectVars, turn>>

-----------------------------------------------------------------------------
InSetup(step) == phase = "setup" /\ SetupSteps[at] = step
Advance ==
  /\ at' = at + 1
  /\ applied' = (applied \/ at = AppliedAt)
  /\ UNCHANGED <<phase, turn>>

WriteDomains ==
  /\ InSetup("write")
  /\ domains' = TRUE
  /\ Advance
  /\ UNCHANGED <<hostVars, guest, active, proxy, missed, untidy>>

SpawnProxy ==
  /\ InSetup("spawn")
  /\ proxy' = "starting"
  /\ Advance
  /\ UNCHANGED <<hostVars, guest, active, domains, missed, untidy>>

\* The proxy binds its port, or finds it taken and exits.
Bind ==
  /\ proxy = "starting"
  /\ proxy' = IF orphan = "none" THEN "up" ELSE "exited"
  /\ UNCHANGED <<hostVars, guest, active, applied, domains, phase, at, turn, missed, untidy>>

ProxyDies ==
  /\ proxy = "up"
  /\ proxy' = "exited"
  /\ UNCHANGED <<hostVars, guest, active, applied, domains, phase, at, turn, missed, untidy>>

\* Somebody accepts a connection on the port.
Ready ==
  /\ InSetup("ready")
  /\ proxy # "exited" /\ (proxy = "up" \/ orphan # "none")
  /\ Advance
  /\ UNCHANGED <<hostVars, guest, active, domains, proxy, missed, untidy>>

\* The poll gives up after 30 attempts, or sees that the proxy has exited.
NotReady ==
  /\ InSetup("ready")
  /\ phase' = AfterSetupError /\ at' = 1
  /\ UNCHANGED <<hostVars, guest, objectVars, turn, missed, untidy>>

\* iptables -N, or -F of a chain that is there.
NewChain ==
  /\ InSetup("new")
  /\ chain' = 0
  /\ Advance
  /\ UNCHANGED <<hooks, orphan, guest, active, domains, proxy, missed, untidy>>

\* iptables -A, rule by rule.
AddRule ==
  /\ InSetup("rules")
  /\ chain' = chain + 1
  /\ IF chain + 1 < RuleCount THEN UNCHANGED <<phase, at, turn, applied>> ELSE Advance
  /\ UNCHANGED <<hooks, orphan, guest, active, domains, proxy, missed, untidy>>

\* iptables -I; the last one ends the setup.
Hook ==
  /\ phase = "setup" /\ SetupSteps[at] \in Hooks
  /\ hooks' = [hooks EXCEPT ![SetupSteps[at]] = @ + 1]
  /\ IF at < Len(SetupSteps)
       THEN Advance
       ELSE /\ phase' = "idle" /\ at' = 1 /\ turn' = "launch"
            /\ applied' = (applied \/ at = AppliedAt)
  /\ UNCHANGED <<chain, orphan, guest, active, domains, proxy, missed, untidy>>

\* A step of the setup raises: a checked iptables call, a cancellation, which may hit
\* after iptables has done its work.
SetupError ==
  /\ phase = "setup" /\ at > 1
  /\ phase' = AfterSetupError /\ at' = 1
  /\ \/ UNCHANGED hooks
     \/ SetupSteps[at] \in Hooks /\ hooks' = [hooks EXCEPT ![SetupSteps[at]] = @ + 1]
  /\ UNCHANGED <<chain, orphan, guest, objectVars, turn, missed, untidy>>

\* The domains file cannot be written: outside the try, so nothing is rolled back.
WriteError ==
  /\ InSetup("write")
  /\ domains' \in BOOLEAN
  /\ phase' = "idle" /\ at' = 1
  /\ untidy' = TRUE
  /\ UNCHANGED <<hostVars, guest, active, applied, proxy, turn, missed>>

\* A teardown is cut short: a cancellation, iptables that cannot be run.  When that hits
\* the wait for the proxy, the object has forgotten it; pkill may have done its work.
TeardownError ==
  /\ Tearing
  /\ CASE TearSteps[at] = "stop"  -> proxy' = "none" /\ orphan' = Unwaited
       [] TearSteps[at] = "pkill" -> UNCHANGED proxy /\ orphan' \in {orphan, Signalled}
       [] OTHER                   -> UNCHANGED <<proxy, orphan>>
  /\ phase' = "idle" /\ at' = 1 /\ turn' = "apply"
  /\ untidy' = TRUE
  /\ UNCHANGED <<chain, hooks, guest, active, applied, domains, missed>>

-----------------------------------------------------------------------------
Launch ==
  /\ phase = "idle" /\ Turn("launch") /\ guest = "none"
  /\ guest' = Network
  /\ turn' = AfterLaunch
  /\ UNCHANGED <<hostVars, objectVars, phase, at, missed, untidy>>

\* launch raises, or drive_node is cancelled in it: the finally clears all the same.
LaunchError ==
  /\ phase = "idle" /\ Turn("launch")
  /\ turn' = "clear"
  /\ UNCHANGED <<hostVars, guest, objectVars, phase, at, missed, untidy>>

\* The guest is gone; or it is not, and nobody drives it any longer.
Destroy ==
  /\ phase = "idle" /\ Turn("destroy") /\ guest # "none"
  /\ guest' = "none"
  /\ turn' = "clear"
  /\ UNCHANGED <<hostVars, objectVars, phase, at, missed, untidy>>

\* The process dies; its proxy, if it has the port or gets it, is an orphan.
Crash ==
  /\ orphan' = IF proxy = "up" \/ (proxy = "starting" /\ orphan = "none")
                 THEN "alive" ELSE orphan
  /\ active' = FALSE /\ applied' = FALSE /\ domains' = FALSE /\ proxy' = "none"
  /\ phase' = "idle" /\ at' = 1 /\ turn' = "apply" /\ guest' = "none"
  /\ untidy' = TRUE
  /\ UNCHANGED <<chain, hooks, missed>>

-----------------------------------------------------------------------------
Teardown == StopProxy \/ Pkill \/ Unhook \/ Flush \/ DeleteChain \/ Unlink
Setup    == WriteDomains \/ SpawnProxy \/ Ready \/ NotReady \/ NewChain \/ AddRule \/ Hook
Errors   == Miss \/ SetupError \/ WriteError \/ TeardownError \/ Crash
Caller   == Apply \/ ApplyNothing \/ Clear \/ Launch \/ LaunchError \/ Destroy
Proxies  == Bind \/ ProxyDies \/ OrphanDies

Next == Caller \/ Teardown \/ Setup \/ Errors \/ Proxies

Spec == Init /\ [][Next]_vars
-----------------------------------------------------------------------------
(* Properties *)

\* Type invariant.  Besides the types: copies of a hook pile up only over teardown calls
\* that failed unnoticed.
TypeOK ==
  /\ chain \in -1..RuleCount
  /\ hooks \in [Hooks -> Nat] /\ \A h \in Hooks : hooks[h] <= missed + 1
  /\ orphan \in {"none", "alive", "signalled"}
  /\ guest \in {"none", "offline", "bridge"}
  /\ active \in BOOLEAN /\ applied \in BOOLEAN /\ domains \in BOOLEAN
  /\ proxy \in {"none", "starting", "up", "exited"}
  /\ phase \in {"idle", "sweep", "setup", "rollback", "clear"} /\ at \in 1..8
  /\ turn \in {"apply", "launch", "destroy", "clear"}
  /\ missed \in 0..MaxMissed /\ untidy \in BOOLEAN

\* "_egress_active is set ONLY after every step succeeds": a partial firewall is never
\* taken for an enforced one.
AppliedIsInForce == applied => InForce

\* A guest that is driven on the bridge is behind the complete chain and the redirect,
\* whatever failed, raised or died in this or an earlier run.
DrivenIsFiltered == guest = "bridge" => InForce

\* Between two runs nothing of the last one is on the host, and a run with an allowlist
\* also clears away what a crashed or interrupted run had left: its rules are gone, and
\* its proxy is at least told to end.
NothingPersists == phase = "idle" /\ turn = "apply" /\ ~untidy /\ missed = 0 => Clean
=============================================================================
