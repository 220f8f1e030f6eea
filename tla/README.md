# Verification of resoluto-sandbox

TLA+ models of [resoluto-sandbox](../src/README.md), checked with TLC on small instances and, for the safety of
each core module, proved with TLAPS for every value of the constants. The program runs a node (a command with
staged inputs and collected outputs) in a Kata microVM, on Kubernetes or on a local containerd. Host and guest
never talk to each other: the guest writes objects to a store, the host reads them.

Paths below are relative to `src/src/resoluto/sandbox/` unless they start with `src/`.

## 1. The system

| part | code | state it keeps | operations | hard behaviour |
|---|---|---|---|---|
| telemetry | `telemetry.py` | the shipper's buffer, chunk index, closing flags, flush lock; the reader's position, total, window | `emit_line`, `flush`, `tick`, `close`; `poll_lines`, `is_dead`, `finished` | two tasks interleave at every await; puts fail, are cancelled, take effect late; the manifest must be last |
| driver | `driver.py` | lease on one sandbox, streaks of bad answers, last progress | `drive_node_raw`, `drive_node`, the direct lease | the sandbox moves between any two awaits; silence, loss and end must be told apart; reap on every exit |
| in-sandbox runner | `runner.py`, `runner_main.py`, `spans.py` | the node's result, open spans, child processes, heartbeat task | canary, stage, setup, workload, collect, cleanup, report, exit | every phase can fail, the report must follow; the heartbeat runs beside it |
| local conduit | `conduit/local.py` | files, temporary files, lock files | `put`, `put_if_absent`, `compare_and_swap`, `delete_prefix` | processes share a directory, stop in the middle |
| local egress | `runtime/kata_nerdctl.py`, order of calls in `backends/substrate.py` | iptables chain and hooks, SNI proxy, domains file; `_active_egress`, `_egress_active` | `apply_egress`, `clear_egress`, `aclose`, `launch`, `destroy` | a dozen fallible steps, rollback, crash with rules left on the host |
| k8s runtime | `runtime/k8s.py` | run owner, network policy, pod in the cluster | `launch`, `destroy`, `ensure_run_owner`, `delete_run_owner`, `reap_stale_run_owners` | creation order, cascade deletion, partial failure |
| egress rules, proxy | `egress.py`, `egress_proxy.py` | none | rendering, matching | rule order, two renderers |
| egress canary | `egress_canary.py` | attempts | probing, waiting | the policy is programmed late |
| substrate backend | `backends/substrate.py`, `backends/artifacts.py` | the run's prefix, its result | one run from arguments to `RunResult` | each step can fail with the others done; runs share a workspace |
| staging | `staging.py` | archives in the store | `put_dir`, `stage_inputs`, `collect_outputs`, `fetch_outputs` | what is left out, patterns and names, containment, partial extraction |
| remote conduits | `conduit/s3.py`, `conduit/gcs.py`, chosen by `conduit/factory.py` | a client session | as the local conduit | retries after an unknown outcome, requests served late |
| local runtime lifecycle | `runtime/kata_nerdctl.py` | containers, graph directories | `launch`, `status`, `destroy`, `sweep`, `logs` | exit codes that nobody looks at |
| the rest | `client.py`, `cli.py`, `images.py`, `secrets.py`, `redact.py`, ... | none or constant | | string functions and I/O |

How they interact. `SubstrateBackend._run_async` applies egress, stages the workspace into the store and calls
`drive_node`, which launches a sandbox through the runtime. In the sandbox `runner_main` runs
`run_node_in_sandbox` over its own conduit; its log lines, spans and heartbeats go through a `ChunkShipper` as
numbered chunk objects, ended by a manifest. The driver's `ChunkReader` polls those, asks the runtime for the
phase, decides when the node is over, destroys the sandbox and reads `result.json`. Then the backend fetches the
outputs and clears egress.

```
 host:  SubstrateBackend -> drive_node -- status/destroy --> runtime --> sandbox (guest)
            |  egress          |  ChunkReader                              runner, ChunkShipper
            v                  v                                                |
        iptables, proxy      store  <------- chunks, manifest, result.json, outputs
```

What makes each part correct:

- telemetry: the host is handed exactly the accepted lines, in order; an end-of-stream mark is the end.
- driver: it ends, it ends for a reason that is true of the sandbox, and leaves no sandbox behind.
- runner: what it reports is what happened; it reports however the node failed.
- substrate backend and staging: a program gets the whole workspace or does not start; what is declared comes back
  whole or with an exception; nothing else on the host changes.
- local conduit: a key is an atomic object, although it is a file.
- remote conduits: an answer tells the truth about the write, a swap replaces what it expects, and a call ends.
- local egress: a driven guest with a network is filtered; a run leaves nothing on the host.
- k8s runtime and canary: the workload runs behind its policy; a run's owner takes all of the run with it.
- egress rules: an order of rules is the policy that was meant, on every backend.

`PROJECT.json` lists the main hazards of the code, each at its line, with the properties that cover them, or why none does.

## 2. Modules

| module | models | role |
|---|---|---|
| `EventLog` | what telemetry promises of the lines | abstract specification |
| `ChunkStream` | what the driver relies on of chunks, polls and the manifest | abstract specification |
| `Telemetry` | `telemetry.py` | implements `EventLog` and `ChunkStream` |
| `Driver` | `driver.py`, with the guest and the substrate as environment | implements `NodeDrive`; takes `ChunkStream`'s steps |
| `NodeDrive` | what `drive_node` promises its caller | abstract specification |
| `GuestReport` | what a host may rely on of a guest (`result.json`, manifest, exit code) | abstract specification |
| `GuestWork` | the same with the program's exit code and the output archive | abstract specification, a refinement of `GuestReport` |
| `Runner` | `runner.py`, `runner_main.py`, `spans.py` | implements `GuestWork` |
| `SandboxRun`, `MCSandboxRun` | `backends/substrate.py`, `staging.py`, `backends/artifacts.py`: whole runs | composes the driver's, the guest's and staging's promises: it takes `NodeDrive`'s and `GuestWork`'s steps; an instance |
| `AtomicObject` | one key of the `Conduit` contract | abstract specification |
| `LocalConduit` | `conduit/local.py` | implements `AtomicObject` |
| `RemoteConduit` | conditional writes and deletes of `conduit/s3.py`, `conduit/gcs.py` | |
| `Conduits` | `conduit/factory.py` | composes the two: the conduit that is built |
| `LocalEgress` | per-run egress of `runtime/kata_nerdctl.py` | |
| `K8sRun` | `runtime/k8s.py` and the gate of `egress_canary.py`, with the cluster as environment | |
| `EgressRules`, `MCEgressRules` | `egress.py` and the filter of `egress_proxy.py`; an instance of it | |
| `TelemetryProofs`, `DriverProofs`, `RunnerProofs`, `SandboxRunProofs`, `ConduitsProofs`, `LocalEgressProofs`, `K8sRunProofs`, `EgressRulesProofs` | | theorems |
| `Progress` | | triples of numbers in lexicographic order, for the proofs that count |

Conventions. An action is the code between two points where another task, process or the environment may step in
(an await, a system call), so every interleaving of the code is one of the model. The small decisions of the code
(a guard, an order of steps) are operators of their own, placed at the head of a module; before some of them stands
a variant of the decision as a plausible slip would have it, which the specification does not use: substituting it
makes the named property fail (`mutants` in `PROJECT.json`). Constants have named assumptions; TLC evaluates them
in every run.

Seams. Where one module takes the work of another for granted, the promise is a specification of its own, and both
sides are proved of it, for all constants:

| promise | kept by | taken for granted by |
|---|---|---|
| `ChunkStream`: chunks come until the manifest does; a poll reads all it lists, and knows whether that was all | `Telemetry`, over any store (`ImplementsStream`, `FinishedAgrees`) | `Driver`, whose `Poll` is one step (`TakesStream`) |
| `GuestReport`: result, manifest, exit, each once and in this order | `Runner` (`ImplementsReport`) | `Driver` (`GuestReports`) |
| `GuestWork`: no report before the program has ended, success only with its archive | `Runner` (`ImplementsWork`) | `SandboxRun`, guest after guest (`GuestsOneByOne`) |
| `NodeDrive`: a drive ends once, and tells only what a guest that is over has written | `Driver` (`ImplementsNode`) | `SandboxRun`, drive after drive (`DrivesOneByOne`) |

### Telemetry

Lines are their acceptance numbers, the buffer is the interval `shipped+1..emitted`, a chunk is an interval.
`EmitLine`, `TickFlush`, `TickHeartbeat`, `Close` are the calls; `TaskStep` carries a task through lock, put and
return as `flush` and `close` do; `PutFails`, `ManifestFails` and `Cancel` are the error paths, all of which keep
the buffer and release the lock. A `close` that raises is the end of its task, and `ResultFails` ends the worker before
it: the runner puts `result.json` and calls `close` once, one after the other, and catches neither. The initial state chooses the store: where `uncertain` holds, a failed or cancelled
put may have happened or may still happen (`OrphanLands`), as with S3 and GCS; not so for a local directory, where
the rename is the last thing `put` does. `PollList`, `PollGet`, `PollReturns`, `PollFails` are the reader, which lists once and then fetches chunk by
chunk.

### Driver

`pc` follows `drive_node_raw`'s loop: poll, `result_ready`, status, judgement, sleep, then the lease's reap and
`drive_node`'s read of `result.json`. The guest (start, ship, report, seal, exit, crash, hang) and the substrate
(vanish, wrong status answer) step in between. Time is counted in poll intervals and passes while the driver
sleeps or a call is slow. `drive_node_raw` with a `result_ready` callback is the same machine with `withReady`.

### Runner

One action per phase of `run_node_in_sandbox`; `BodyFails` is an exception anywhere in the body, `Unwind` the
way it takes through the spans, then cleanup, `result.json`, manifest and exit code. A reader that raises leaves
its child running (`OrphanEnds`). The heartbeat task is on, dead or cancelled. Log lines are left out, except that
emitting one may raise. `Runner` is shown to implement `GuestWork`, and with it `GuestReport`.

### SandboxRun

Runs of `SubstrateBackend` one after the other on one workspace. A file's content is the number of the run whose
program wrote it, so stale files can be told from fresh ones; a declared path is a file, a directory or a pattern
and the files it covers. `Begin`, `StageIn`, `Launch`, `DriveEnds`, `Reap`, `Fetch`, `Get`, `Copy`, `Return` are the host,
`RunRaises` any of its operations failing; `GuestStage`, `Work`, `Collect`, `GuestReports` the guest, which may die
anywhere (`GuestDies`) and outlive its run where the destroy was missed, until the next one begins: from there on it can
only write under its own prefix, and is left out. The outbox has archives under several names, which are fetched in
the order of those names, each one extracted over what the last one brought: `Collect` puts `output.tar.gz`, the
program may put one of its own before, after or in its place (`WorkloadPuts`). What staging leaves out on the way in
(`InputsOf`: excluded directories, absolute symlinks) is not left out on the way back, where the declared names rule.

### LocalConduit

One key with its file, its temporary file and its lock, and any number of processes. Descriptors follow the file
they opened, so a rename by another writer matters. A process stops at any step. The callers' division of keys is
in the guards of `StartPut`, `StartSwap` and `Delete`: a key that is put has one writer at a time, and no key is
put and swapped, or deleted and written, at once. The protocol's keys are used that way; code that is not is
outside the model (see the hazards).

### RemoteConduit and Conduits

One key of S3 or GCS. A call is a loop of attempts. An attempt's request is served, refused, lost, or late
(`late`): it may take effect after its attempt, after the call's retry, or after the call (`LateLands`). `Serve` is the
store, which compares and writes at one instant; `Answered` is what the client makes of its answer; `AttemptFails` is
botocore's retry or `GcsConduit._io`'s, and after the last one the call raises. An ETag stands for a content.
`Conduits` chooses one conduit as `store_from_env` does.

### LocalEgress

The chain is its number of rules, each hook (FORWARD jump, :443 redirect, INPUT accept) a number of copies.
`_egress_apply` is a sweep, a setup and, on any error, a rollback; the sweep, the rollback and `clear_egress` walk
the same list of calls; every iptables call of it and the `pkill` may fail unnoticed (`Miss`), and each step be
interrupted (`TeardownError`). A proxy that does not end within 5 seconds is killed and not waited for, so the next
one may find its port taken (`Unwaited`). `Crash` is
the death of the host process anywhere: rules and proxy stay, the runtime object is a new one. With `Direct` the
runtime's methods are called in any order, otherwise in `SubstrateBackend`'s. The run takes `SubstrateBackend`'s order; the
theorems on types and on applied egress hold in any. One run at a time uses a host
(`docs/networking.md:189-195`).

### K8sRun

`launch` is `Begin`, the owner (`CreateOwner`, or `OwnerExists` and `ReadOwner` after a 409), then `CreatePolicy` and
`CreatePod` in the order `AfterOwner` and `AfterPod` give. `LaunchRaises` ends it at any call, whose effect may have
happened all the same. An owner is its incarnation, so an object can refer to one that is gone and replaced. The
engines delete owners by name (`DeleteRunOwner`) and by age (`ReapList`, then `ReapNext` for each), and `Sweep`
destroys any pod that is there. The cluster
starts and ends pods, programs and unprograms a policy late (`Program`), and collects what refers to an owner that
is not there, in any order. The gate is `ProbeExternal` and `ProbeRest`: an attempt's first probe happens before its
others, and the policy may change in between. A probe that times out counts as blocked; if the network was open, the
model remembers that in `lost`. A `Run` is the name of an owner: run ids that `_dns_safe` maps to one name share an
owner, and what takes one run's owner takes the other's. The labels of two steps differ; a retry of a step is
another step.

### EgressRules

A behaviour is the way of one packet: `Route` decides between the proxy and the FORWARD chain, `Walk` holds it
against one rule after the other, `Proxy` against the domain list. Addresses are points and a CIDR is a set of them.
`Chain` is `local_egress_iptables`, `K8sRules` is `k8s_egress_rules`. The policy they are compared with (`ChainPolicy`,
`ProxyPolicy`) knows no order. The allow rules of several entries are one rule with the union of their addresses.

## 3. Runs

Passing runs.

| run | instance | shows |
|---|---|---|
| `telemetry_local` | worker and heartbeat, 4 lines, 2 store faults, buffer of 2, either kind of store | where failed puts have no effect, `finished` means everything, `EventLog` is implemented and every line arrives in the end, unless the one attempt to close fails; where they may have one, delivery stays ordered and without repetition although chunks may be rewritten |
| `driver_node` | window 2, heartbeat 1, streaks of 2, 1 slow interval, 2 wrong answers | every disposition is true of the sandbox, the tail is read, nothing leaks, `NodeDrive` is implemented (so that success is earned), and the drive ends after an exit, a loss before the manifest or a sustained fatal waiting reason |
| `runner_node` | all 16 combinations of options, 3 store faults | success is real, exit 0 means all is done, spans close, `GuestWork` is implemented, the report comes in the end |
| `sandbox_run` | 2 runs, 3 files, 4 declared paths in every combination, one archive of the program's own under any of 3 names, 1 fault | inputs are complete, only declared files change, all of them of every archive or an exception, and what is declared by name arrives unless a later archive has it too |
| `conduits` | filesystem: 3 processes, 2 contents; S3 and GCS: 2 clients, 2 attempts, 1 late request | `AtomicObject` is implemented by the file; remote answers tell the truth, swaps replace what they expect, calls end |
| `local_egress` | 2 rules, 2 missed calls | the driven guest is filtered, a run leaves nothing, and the next run with a list clears the rules of a dead one and tells its proxy to end |
| `k8s_steps` | 2 steps, 1 run id or none, 2 attempts, 2 incarnations of the owner, 1 failing call | a pod has its policy while its run has its owner, the workload runs behind it, and an owner that goes takes everything with it in the end |
| `egress_rules` | 6 kinds of addresses, 3 ports, 3 allow sets, 4 names, 2 patterns | the first match is the policy, and what a config opens locally it opens on Kubernetes |

Runs that show a disagreement between the code and what is written about it.

| run | property | the disagreement |
|---|---|---|
| `telemetry_cancel` | `ChunksImmutable` | the runner cancels its heartbeat task inside a put: `close` then puts the same chunk index with more lines, against "chunks are immutable once written" |
| `driver_wedge` | `NeverWedged` | a sandbox lost after its manifest and before a terminal phase is polled for ever |
| `sandbox_globs` | `MatchesAreReturned` | the guest takes a declared pattern for a file's name, collects nothing, and the run still returns exit code 0 |
| `sandbox_stale` | `VerdictIsOfThisRun` | a run that brings back no `result.json` returns the one that was in the workspace before |

Disagreements that were met and have no run:

- "FAIL CLOSED if it does not come up (e.g. an orphan holds the port)" (`kata_nerdctl.py:126-128`) and "never inherit
  a stale per-run allowlist" (`kata_nerdctl.py:156-157`): the readiness poll takes any listener for the run's proxy, and
  the sweep's `pkill` is best effort and not waited for, so a driven guest may be served by an orphan with a dead run's
  list, and by nobody once the orphan ends. `DrivenIsFiltered` says that :443 is redirected, not whose list is behind it;
- `close` tries once: a put that fails in it (`runner.py:136`), or the put of `result.json` before it
  (`runner.py:135`), loses the lines that were still in the buffer;
- a program's own archive under `outbox/` whose name comes after `output.tar.gz` is extracted last (`staging.py:212`) and
  replaces declared files by its own version of them; no other file is touched;
- a declared output is missing: `result.json` says success, the process exits 1, and the host trusts the former;
- an allow range that holds the metadata address opens it in the NetworkPolicy, although "IMDS is ALWAYS denied"
  (`egress.py:96`); the local renderer rejects it first;
- `drive_node` reads `result.json` of a node that ended before its manifest (`src/spec/PROTOCOL.md:74` has it after);
- one failed put ends the heartbeat task for good (`runner.py:44`), it is stopped before a slow upload
  (`runner.py:134`), and no heartbeat is sent while an archive is packed (`staging.py:44`);
- a conditional write on S3 that was retried may be told False although its first attempt was the write (`s3.py:167`);
  a late duplicate of a swap may replace a content that has come back to the one it expected;
- `delete_objects` answers per key, and nobody looks (`s3.py:257`); `copy_prefix` on GCS takes no `exclude_segments` where S3
  and the filesystem do; `delete_prefix` on the filesystem removes lock files too (`local.py:122`), so a waiter and a
  newcomer may hold a lock each; nobody calls it during a conditional write;
- `_active_egress` survives a failed `apply_egress`, so a caller who launches all the same gets the bridge without
  rules (`kata_nerdctl.py:95`); the conduit is not closed when `apply_egress` raises (`substrate.py:103`);
- a container whose `rm -f` failed unnoticed (`kata_nerdctl.py:395`), or that a cancelled `launch` goes on to start,
  may be on the bridge when `clear_egress` takes the rules down; what is checked and proved is about driven guests;
- a canary probe that times out on an open network counts as blocked (`egress_canary.py:51`); `egress=None` is
  described as an opt-out (`src/docs/networking.md:29`), but the canary always runs and fails where the network is open;
- `reap_stale_run_owners` deletes by name what it listed by age, so an owner that is replaced in between, or that
  another run's id is cut down to (`_dns_safe`), is deleted young.

Bounds, and why they are enough.

- `MaxLines = 4`, `FlushLines = 2`: two full chunks, or a chunk that grows between a failed put and its retry,
  with a line accepted while a put is awaited; the reader can be zero, one or two chunks behind.
- `MaxFaults`: 2 in telemetry (a put fails twice, or a put and the manifest), 3 in the runner (a phase, its way out,
  and the report), 1 in a whole run (what one failing operation leaves half done; each part is checked with more).
- `DeadAfter = 2`, `HeartbeatEvery = 1`, `MaxLag = 1`: the window is exactly heartbeat plus lag, where an off-by-one
  shows. Streaks of 2 tell "one bad answer" from "enough"; `MaxBlips = 2` allows two separate single wrong answers.
- Whole runs: the second run finds what the first left behind in the workspace; a sandbox that the first left alive is
  followed until then, and from there on it is the new prefix that keeps the two apart, which is checked as such. Three
  names: one before `output.tar.gz`, one after. The workspace is full or empty at first. The three files are
  `result.json`, one that staging leaves out and one behind a symlink; the paths name, contain and match them.
- Three processes on a key: a holder, a waiter that sees the new content and one whose expectation is stale. Two
  contents: a swap can be right, wrong, or right again. Remote: two clients contend, one retry tells a first attempt
  from a repeated one, and one late request meets another client's write or its own call's retry.
- `RuleCount = 2`: a chain can be empty, partial and full. `MaxMissed = 2`: a rule survives a teardown and the next
  sweep.
- K8s: two steps share an owner or have none; two incarnations let a step refer to the old one while another has
  the new; two attempts let the policy land between them.
- Egress rules: one address for each way the code can class it, and one that is public but not listed; a name that
  is listed, its parent, a name below it, and a stranger.

`CHECK_DEADLOCK FALSE` is in every configuration: all these systems stop when the work is done (a closed shipper, a
node that is over, no caller, no further run, a packet that was decided).

Fairness. `Telemetry`: the event loop schedules its tasks, the store answers, the driver polls, and the worker comes to
close its shipper (the runner's `finally`) if nothing raises before; nothing makes it close a second time. `Driver`: its coroutine is scheduled; nothing is assumed of the sandbox.
`Runner`: its coroutine is scheduled and child processes end (`WF(Run)`; a workload without an end is no failure of the
report). `RemoteConduit`: a client that was answered goes on, and a store that is reached answers; attempts fail
freely, so it is the counting that ends a call. `K8sRun`: a launch goes on unless it raises, and the cluster collects;
pods, policies and engines are free. The other modules are checked for safety only; pollers of a file lock
have no fairness among themselves, so no progress is claimed there.

## 4. Proofs

Each proof module states an inductive invariant, proves that the initial states have it and that every step keeps it
with one lemma or case per action, and derives the theorems. TLC has checked each invariant on an instance before it
was proved. The assumptions used are the `ASSUME`s of the modules and those named here.

| module | proved for all constants | why the invariant is needed |
|---|---|---|
| `TelemetryProofs` | where failed puts have no effect: types, chunks partition what was shipped, the manifest is final, `finished` means everything, chunks are immutable, `EventLog` is implemented; over any store: delivery in order without repetition, and `ChunkStream` is implemented | it says who holds the lock, which put is under way for which lines, what the reader has listed, and that a chunk at the next index can only be a put that has landed; over any store, that whatever a chunk may still become starts where the last one that was read ended, and that a put that may still take effect once the manifest is due is of a chunk that is there |
| `DriverProofs` | no false silence (if `HeartbeatEvery + MaxLag <= DeadAfter`), external means gone, tail read, always reaped, success earned, `NodeDrive` is implemented, polls and guest go by `ChunkStream` and `GuestReport`; after a loss, an exit or a fatal wait finitely many steps are left to the drive | it relates the reader's silence to the guest's, each streak to the answers it counts, and the program counter to what the round has observed |
| `RunnerProofs` | success real, archive there, exit 0 means all done, spans closed, `GuestWork` and `GuestReport` are implemented; a run has finitely many steps, and one that is over has reported unless it was killed or the store failed | it ties the result in memory to the commands that have ended and to the spans still open |
| `SandboxRunProofs` | types, inputs complete, success is the program's, all is copied of every archive, what is declared by name arrives unless a later archive has it, nothing else changes; drives and guests go by `NodeDrive` and `GuestWork`, one after the other | what has been staged is still the workspace, a reported success is one whose archive was put, the archives that are still listed come after those that were got, and what is not looked up yet is what is not copied yet |
| `ConduitsProofs` | filesystem: types, never torn, `AtomicObject` is implemented; remote: types, true answers, swaps replace what they expect, calls have finitely many steps; all of the conduit that is built; a key that is only put if absent keeps its first content | one writer past its lock owns the temporary file, and a swap that goes on still sees the content it expected; remotely, a late request is one of a call that was retried or has raised, and a write is known or retried |
| `LocalEgressProofs` | types; applied egress is in force in any order of calls; in `SubstrateBackend`'s order the driven guest is filtered; in any order, nothing is left between two runs unless a teardown call failed unnoticed | how far a setup has come says what is in place, how far a teardown has come says what is left, and a launch with a list is only due after the last step |
| `K8sRunProofs` | types, a pod has its policy while its run has its owner, the workload is restricted; an owner that is gone stays gone for its steps, which then have finitely many calls and objects left | how far a launch has come says what it has made; a policy goes before its pod only with the owner of both; a probe that found the network closed saw the policy or was lost |
| `EgressRulesProofs` | first match decides as the policy says, nothing local opens the metadata range, what a config opens locally it opens on Kubernetes | no rule before the one at hand has matched, which is what makes an order of rules into a policy |

Every safety property of the passing runs is proved, and each refinement they check (`LogSpec`, `NodeSpec`,
`WorkerSpec`, `ObjectSpec`). Some theorems say more than a run: `ImplementsStream` and `FinishedAgrees` that the
driver's one-step poll stands for a listing and the gets after it, whatever lands in between; `FirstWriteStands`
(of a key of which it is assumed that it is only put if absent, which is what its hypothesis says) that the first
write of an immutable key stays.

Liveness under fairness is out of the prover's reach and stays with TLC. Of most liveness properties the part that
needs no fairness is proved, by counting: from the state on that the property starts with, a measure goes down with
every step of the component in question and up with none of its environment, so only finitely many are left. What remains
for TLC is that the next one is taken.

| property | counted | measure |
|---|---|---|
| `LossIsNoticed`, `ExitIsNoticed`, `StuckFailsFast` (`Driver`) | `LossIsCounted`, `ExitIsCounted`, `StuckIsCounted`, relative to the bound `MaxBlips` on wrong status answers | what may still happen to the sandbox and the window, then the answers or the silence still needed, then the way to the end of the round; `Progress`'s order, which `LessIsWellFounded` proves well-founded |
| `ReportsInTheEnd` (`Runner`) | `RunIsCounted`, `EndIsReported` | the phases ahead, what runs beside them, the spans still open |
| `CallsEnd` (`RemoteConduit`) | `CallsAreCounted` | the attempts left, and how far this one has come |
| `OwnerTakesAll` (`K8sRun`) | `GoneIsCounted` | the calls a launch has ahead, then the objects that are there |
| `AllDelivered` (`Telemetry`) | not counted: its tasks and its reader poll for as long as they live | |

The last word on a seam is a pair of theorems about two modules, not one about their product: that the driver's
environment offers every behaviour `ChunkStream` and `GuestReport` allow is by reading its actions, not proved.

## 5. Not modelled, and why

- Payloads, wording and sizes (a line longer than the reader's limit); wall-clock time except as intervals.
- The rest of `runtime/kata_nerdctl.py`: container creation, `sweep`, `logs` and the graph directories. The driver
  sees a launch that may fail half way, a destroy that may be missed and a status that may be wrong, which is what
  those amount to for it. A graph directory is removed although `rm -f` failed, and `sweep` removes none.
- `egress_proxy.py`'s connections: what is let through is modelled, how bytes are spliced is not (a half-close ends both
  directions; a ClientHello in parts is read in parts).
- Several runs at once on one local host (`src/docs/networking.md:189-195`), or on one workspace.
- S3 and GCS: credentials, bucket creation, `copy_prefix`; a store is taken to compare and write at one instant.
- The facade (`client.py`) only wires a backend, the command line only parses arguments for it.
- String functions without state (`secrets.py`, `redact.py`, env files, `_dns_safe`), and `images.py`, which shells out
  to docker and compares version strings.

## 6. Plan

What could come next, by worth.

1. A module for containers and graph directories on the local host, with several sandboxes, a missed `rm -f` and
   `sweep`: what a host accumulates, and what a stray guest meets once the rules are down.
2. The proxy's connections: splicing with half-closed sides and their time limits.
3. The heartbeat's silences (hazard at `runner.py:44`) as a run of `Runner` beside `Driver`'s window, which needs the
   duration of an upload as a parameter.
4. The other direction of the seams: that every step `ChunkStream`, `GuestReport` and `GuestWork` allow is one the
   environment of `Driver` and the guest of `SandboxRun` can take (ENABLED is out of the prover's reach; a witness of
   the step in each state is not).
5. A promise of per-run egress between `LocalEgress` and `SandboxRun`, whose order of calls the former has in its guards.
