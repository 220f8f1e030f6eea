----------------------------- MODULE RunnerProofs -----------------------------
(***************************************************************************)
(* What the guest's report means, for every number of store faults.        *)
(***************************************************************************)
EXTENDS Runner, Progress, TLAPS

\* The status is decided by the workload alone, behind the canary and the setup
\* hook; a node that has passed its collection names the archive.
StatusInv ==
  /\ pc \in {"stage", "setup", "workload", "collect"} => canary = "passed"
  /\ pc = "workload" /\ "setup" \in has => rc["setup"] = "zero"
  /\ pc \in {"start", "canary", "gate", "stage", "setup", "workload"} =>
       result.status = "failure"
  /\ pc \in {"start", "canary", "gate", "stage", "setup", "workload", "collect"} =>
       ~result.archive
  /\ result.status = "success" =>
       /\ canary = "passed" /\ rc["workload"] = "zero"
       /\ "setup" \in has => rc["setup"] = "zero"
  /\ result.archive => outbox
  /\ /\ {"workspace", "outputs"} \subseteq has /\ result.status = "success"
     /\ ~raised /\ pc \notin {"collect", "over"}
     => result.archive

\* result.json is the result, is put once, and the manifest comes after it.
ReportInv ==
  /\ resultObj = "none" => ~archive /\ ~manifest
  /\ resultObj # "none" =>
       /\ resultObj = result.status /\ archive = result.archive
       /\ pc \in {"close", "ended", "over"}
  /\ pc = "close" => resultObj # "none"
  /\ pc = "ended" /\ ~raised => manifest
  /\ exit # "none" <=> pc = "over"
  /\ exit = "zero" =>
       /\ manifest /\ resultObj = "success"
       /\ {"workspace", "outputs"} \subseteq has => archive

IInv == TypeOK /\ StatusInv /\ ReportInv
-----------------------------------------------------------------------------
(* The invariant *)

\* The initial states satisfy it.
LEMMA InitIInv == Init => IInv
<1> SUFFICES ASSUME Init PROVE IInv
  OBVIOUS
<1>1. /\ result \in [status : {"success", "failure"}, archive : BOOLEAN]
      /\ spans \in [Spans -> {"none", "open", "success", "failure"}]
      /\ rc \in [Commands -> {"none", "zero", "nonzero"}]
  BY DEF Init
<1>2. TypeOK
  <2>1. has \in SUBSET Options /\ scope \subseteq Spans /\ running \subseteq Commands
    BY DEF Init
  <2>2. pc \in Body /\ faults \in 0..MaxFaults
    BY RunnerAssumption DEF Init, Body
  <2> QED BY <1>1, <2>1, <2>2 DEF Init, TypeOK
<1>3. StatusInv /\ ReportInv
  BY DEF Init, StatusInv, ReportInv
<1> QED BY <1>2, <1>3 DEF IInv

\* Every step keeps the types.
LEMMA TypeStep ==
  ASSUME TypeOK, [Next]_vars
  PROVE  TypeOK'
<1>1. CASE Start
  <2>1. pc' \in Body \cup {"unwind", "cleanup", "result", "close", "ended", "over"}
    BY <1>1 DEF Start, Open, EmitThen, TypeOK, Body
  <2>2. raised' \in BOOLEAN
    BY <1>1 DEF Start, Open, EmitThen, TypeOK
  <2>3. faults' \in 0..MaxFaults
    BY <1>1, RunnerAssumption DEF Start, Open, EmitThen, TypeOK
  <2>4. spans' \in [Spans -> {"none", "open", "success", "failure"}]
    BY <1>1 DEF Start, Open, EmitThen, TypeOK, Spans, Commands, spanVars
  <2> QED BY <2>1, <2>2, <2>3, <2>4, <1>1 DEF Start, Open, EmitThen, TypeOK, Spans,
          Commands, Body, AfterBody, spanVars, cmdVars, storeVars, endVars
<1>2. CASE OpenCanary
  <2>1. pc' \in Body \cup {"unwind", "cleanup", "result", "close", "ended", "over"}
    BY <1>2 DEF OpenCanary, Open, EmitThen, TypeOK, Body
  <2>2. raised' \in BOOLEAN
    BY <1>2 DEF OpenCanary, Open, EmitThen, TypeOK
  <2>3. faults' \in 0..MaxFaults
    BY <1>2, RunnerAssumption DEF OpenCanary, Open, EmitThen, TypeOK
  <2>4. spans' \in [Spans -> {"none", "open", "success", "failure"}]
    BY <1>2 DEF OpenCanary, Open, EmitThen, TypeOK, Spans, Commands, spanVars
  <2> QED BY <2>1, <2>2, <2>3, <2>4, <1>2 DEF OpenCanary, Open, EmitThen, TypeOK, Spans,
          Commands, Body, AfterBody, spanVars, cmdVars, storeVars, endVars
<1>3. CASE Gate
  <2>1. pc' \in Body \cup {"unwind", "cleanup", "result", "close", "ended", "over"}
    BY <1>3 DEF Gate, EmitThen, AfterGate, AfterStaging, Closed, TypeOK, Body
  <2>2. raised' \in BOOLEAN
    BY <1>3 DEF Gate, EmitThen, AfterGate, AfterStaging, Closed, TypeOK
  <2>3. faults' \in 0..MaxFaults
    BY <1>3, RunnerAssumption DEF Gate, EmitThen, AfterGate, AfterStaging, Closed,
       TypeOK
  <2>4. spans' \in [Spans -> {"none", "open", "success", "failure"}]
    BY <1>3 DEF Gate, EmitThen, AfterGate, AfterStaging, Closed, TypeOK, Spans,
       Commands, spanVars
  <2> QED BY <2>1, <2>2, <2>3, <2>4, <1>3 DEF Gate, EmitThen, AfterGate, AfterStaging,
          Closed, TypeOK, Spans, Commands, Body, AfterBody, spanVars, cmdVars,
          storeVars, endVars
<1>4. CASE Stage
  <2>1. pc' \in Body \cup {"unwind", "cleanup", "result", "close", "ended", "over"}
    BY <1>4 DEF Stage, EmitThen, AfterStaging, TypeOK, Body
  <2>2. raised' \in BOOLEAN
    BY <1>4 DEF Stage, EmitThen, AfterStaging, TypeOK
  <2>3. faults' \in 0..MaxFaults
    BY <1>4, RunnerAssumption DEF Stage, EmitThen, AfterStaging, TypeOK
  <2> QED BY <2>1, <2>2, <2>3, <1>4 DEF Stage, EmitThen, AfterStaging, TypeOK, Spans,
          Commands, Body, AfterBody, spanVars, cmdVars, storeVars, endVars
<1>5. ASSUME NEW c \in Commands, Spawn(c) PROVE TypeOK'
  <2>1. pc' \in Body \cup {"unwind", "cleanup", "result", "close", "ended", "over"}
    BY <1>5 DEF Spawn, Open, EmitThen, TypeOK, Body
  <2>2. raised' \in BOOLEAN
    BY <1>5 DEF Spawn, Open, EmitThen, TypeOK
  <2>3. faults' \in 0..MaxFaults
    BY <1>5, RunnerAssumption DEF Spawn, Open, EmitThen, TypeOK
  <2>4. spans' \in [Spans -> {"none", "open", "success", "failure"}]
    BY <1>5 DEF Spawn, Open, EmitThen, TypeOK, Spans, Commands, spanVars
  <2> QED BY <2>1, <2>2, <2>3, <2>4, <1>5 DEF Spawn, Open, EmitThen, TypeOK, Spans,
          Commands, Body, AfterBody, spanVars, cmdVars, storeVars, endVars
<1>6. ASSUME NEW code \in {"zero", "nonzero"}, SetupEnds(code) PROVE TypeOK'
  <2>1. pc' \in Body \cup {"unwind", "cleanup", "result", "close", "ended", "over"}
    BY <1>6 DEF SetupEnds, Ends, EmitThen, AfterSetup, Closed, TypeOK, Body
  <2>2. raised' \in BOOLEAN
    BY <1>6 DEF SetupEnds, Ends, EmitThen, AfterSetup, Closed, TypeOK
  <2>3. faults' \in 0..MaxFaults
    BY <1>6, RunnerAssumption DEF SetupEnds, Ends, EmitThen, AfterSetup, Closed, TypeOK
  <2>4. spans' \in [Spans -> {"none", "open", "success", "failure"}]
    BY <1>6 DEF SetupEnds, Ends, EmitThen, AfterSetup, Closed, TypeOK, Spans, Commands,
       spanVars
  <2>5. rc' \in [Commands -> {"none", "zero", "nonzero"}]
    BY <1>6 DEF SetupEnds, Ends, EmitThen, AfterSetup, Closed, TypeOK, Spans, Commands,
       spanVars
  <2> QED BY <2>1, <2>2, <2>3, <2>4, <2>5, <1>6 DEF SetupEnds, Ends, EmitThen,
          AfterSetup, Closed, TypeOK, Spans, Commands, Body, AfterBody, spanVars,
          cmdVars, storeVars, endVars
<1>7. ASSUME NEW code \in {"zero", "nonzero"}, WorkloadEnds(code) PROVE TypeOK'
  <2>1. pc' \in Body \cup {"unwind", "cleanup", "result", "close", "ended", "over"}
    BY <1>7 DEF WorkloadEnds, Ends, EmitThen, AfterWorkload, StatusOf, Success, Failure,
       Closed, TypeOK, Body
  <2>2. raised' \in BOOLEAN
    BY <1>7 DEF WorkloadEnds, Ends, EmitThen, AfterWorkload, StatusOf, Success, Failure,
       Closed, TypeOK
  <2>3. faults' \in 0..MaxFaults
    BY <1>7, RunnerAssumption DEF WorkloadEnds, Ends, EmitThen, AfterWorkload, StatusOf,
       Success, Failure, Closed, TypeOK
  <2>4. spans' \in [Spans -> {"none", "open", "success", "failure"}]
    BY <1>7 DEF WorkloadEnds, Ends, EmitThen, AfterWorkload, StatusOf, Success, Failure,
       Closed, TypeOK, Spans, Commands, spanVars
  <2>5. rc' \in [Commands -> {"none", "zero", "nonzero"}]
    BY <1>7 DEF WorkloadEnds, Ends, EmitThen, AfterWorkload, StatusOf, Success, Failure,
       Closed, TypeOK, Spans, Commands, spanVars
  <2>6. result' \in [status : {"success", "failure"}, archive : BOOLEAN]
    BY <1>7 DEF WorkloadEnds, Ends, EmitThen, AfterWorkload, StatusOf, Success, Failure,
       Closed, TypeOK, Spans, Commands, spanVars
  <2> QED BY <2>1, <2>2, <2>3, <2>4, <2>5, <2>6, <1>7 DEF WorkloadEnds, Ends, EmitThen,
          AfterWorkload, StatusOf, Success, Failure, Closed, TypeOK, Spans, Commands,
          Body, AfterBody, spanVars, cmdVars, storeVars, endVars
<1>8. CASE Collect
  <2>1. pc' \in Body \cup {"unwind", "cleanup", "result", "close", "ended", "over"}
    BY <1>8 DEF Collect, EmitThen, Collected, TypeOK, Body
  <2>2. raised' \in BOOLEAN
    BY <1>8 DEF Collect, EmitThen, Collected, TypeOK
  <2>3. faults' \in 0..MaxFaults
    BY <1>8, RunnerAssumption DEF Collect, EmitThen, Collected, TypeOK
  <2>4. result' \in [status : {"success", "failure"}, archive : BOOLEAN]
    BY <1>8 DEF Collect, EmitThen, Collected, TypeOK, Spans, Commands, spanVars
  <2> QED BY <2>1, <2>2, <2>3, <2>4, <1>8 DEF Collect, EmitThen, Collected, TypeOK,
          Spans, Commands, Body, AfterBody, spanVars, cmdVars, storeVars, endVars
<1>9. CASE Leave
  <2>1. pc' \in Body \cup {"unwind", "cleanup", "result", "close", "ended", "over"}
    BY <1>9 DEF Leave, EmitThen, AfterBody, Closed, TypeOK, Body
  <2>2. raised' \in BOOLEAN
    BY <1>9 DEF Leave, EmitThen, AfterBody, Closed, TypeOK
  <2>3. faults' \in 0..MaxFaults
    BY <1>9, RunnerAssumption DEF Leave, EmitThen, AfterBody, Closed, TypeOK
  <2>4. spans' \in [Spans -> {"none", "open", "success", "failure"}]
    BY <1>9 DEF Leave, EmitThen, AfterBody, Closed, TypeOK, Spans, Commands, spanVars
  <2> QED BY <2>1, <2>2, <2>3, <2>4, <1>9 DEF Leave, EmitThen, AfterBody, Closed,
          TypeOK, Spans, Commands, Body, AfterBody, spanVars, cmdVars, storeVars,
          endVars
<1>10. CASE Unwind
  <2>1. pc' \in Body \cup {"unwind", "cleanup", "result", "close", "ended", "over"}
    BY <1>10 DEF Unwind, AfterBody, Closed, TypeOK, Body
  <2>2. raised' \in BOOLEAN
    BY <1>10 DEF Unwind, AfterBody, Closed, TypeOK
  <2>3. faults' \in 0..MaxFaults
    BY <1>10, RunnerAssumption DEF Unwind, AfterBody, Closed, TypeOK
  <2>4. spans' \in [Spans -> {"none", "open", "success", "failure"}]
    BY <1>10 DEF Unwind, AfterBody, Closed, TypeOK, Spans, Commands, spanVars
  <2>5. scope' \subseteq Spans
    BY <1>10 DEF Unwind, AfterBody, Closed, TypeOK, Spans, Commands, spanVars
  <2>6. pc' \in {"cleanup", "result", "close", "ended"} => scope' = {}
    BY <1>10 DEF Unwind, AfterBody, Closed, TypeOK, Spans, Commands, spanVars
  <2> QED BY <2>1, <2>2, <2>3, <2>4, <2>5, <2>6, <1>10 DEF Unwind, AfterBody, Closed,
          TypeOK, Spans, Commands, Body, AfterBody, spanVars, cmdVars, storeVars,
          endVars
<1>11. CASE CleanupStarts
  <2>1. pc' \in Body \cup {"unwind", "cleanup", "result", "close", "ended", "over"}
    BY <1>11 DEF CleanupStarts, TypeOK, Body
  <2>2. raised' \in BOOLEAN
    BY <1>11 DEF CleanupStarts, TypeOK
  <2>3. faults' \in 0..MaxFaults
    BY <1>11, RunnerAssumption DEF CleanupStarts, TypeOK
  <2>4. spans' \in [Spans -> {"none", "open", "success", "failure"}]
    BY <1>11 DEF CleanupStarts, TypeOK, Spans, Commands, spanVars
  <2> QED BY <2>1, <2>2, <2>3, <2>4, <1>11 DEF CleanupStarts, TypeOK, Spans, Commands,
          Body, AfterBody, spanVars, cmdVars, storeVars, endVars
<1>12. CASE CleanupEnds
  BY <1>12, RunnerAssumption DEF CleanupEnds, AfterCleanup, Closed, TypeOK, Body, Spans,
     spanVars, cmdVars, storeVars, endVars
<1>13. CASE PutResult
  BY <1>13, RunnerAssumption DEF PutResult, Cancelled, TypeOK, Body, Spans, spanVars,
     cmdVars, storeVars, endVars
<1>14. CASE CloseShipper
  BY <1>14, RunnerAssumption DEF CloseShipper, TypeOK, Body, Spans, spanVars, cmdVars,
     storeVars, endVars
<1>15. CASE Exit
  BY <1>15, RunnerAssumption DEF Exit, ExitCode, TypeOK, Body, Spans, spanVars, cmdVars,
     storeVars, endVars
<1>16. CASE BodyFails
  <2>1. pc' \in Body \cup {"unwind", "cleanup", "result", "close", "ended", "over"}
    BY <1>16 DEF BodyFails, Closed, TypeOK, Body
  <2>2. raised' \in BOOLEAN
    BY <1>16 DEF BodyFails, Closed, TypeOK
  <2>3. faults' \in 0..MaxFaults
    BY <1>16, RunnerAssumption DEF BodyFails, Closed, TypeOK
  <2>4. spans' \in [Spans -> {"none", "open", "success", "failure"}]
    BY <1>16 DEF BodyFails, Closed, TypeOK, Spans, Commands, spanVars
  <2>5. outbox' \in BOOLEAN
    BY <1>16 DEF BodyFails, Closed, TypeOK, Spans, Commands, spanVars
  <2>6. scope' \subseteq Spans
    BY <1>16 DEF BodyFails, Closed, TypeOK, Spans, Commands, spanVars
  <2> QED BY <2>1, <2>2, <2>3, <2>4, <2>5, <2>6, <1>16 DEF BodyFails, Closed, TypeOK,
          Spans, Commands, Body, AfterBody, spanVars, cmdVars, storeVars, endVars
<1>17. CASE CleanupFails
  BY <1>17, RunnerAssumption DEF CleanupFails, AfterCleanup, Closed, TypeOK, Body,
     Spans, spanVars, cmdVars, storeVars, endVars
<1>18. CASE FinallyFails
  <2>1. pc' \in Body \cup {"unwind", "cleanup", "result", "close", "ended", "over"}
    BY <1>18 DEF FinallyFails, Cancelled, TypeOK, Body
  <2>2. raised' \in BOOLEAN
    BY <1>18 DEF FinallyFails, Cancelled, TypeOK
  <2>3. faults' \in 0..MaxFaults
    BY <1>18, RunnerAssumption DEF FinallyFails, Cancelled, TypeOK
  <2>4. beat' \in {"on", "dead", "cancelled"}
    BY <1>18 DEF FinallyFails, Cancelled, TypeOK, Spans, Commands, spanVars
  <2>5. archive' \in BOOLEAN /\ manifest' \in BOOLEAN
    BY <1>18 DEF FinallyFails, Cancelled, TypeOK, Spans, Commands, spanVars
  <2>6. resultObj' \in {"none", "success", "failure"}
    BY <1>18 DEF FinallyFails, Cancelled, TypeOK, Spans, Commands, spanVars
  <2> QED BY <2>1, <2>2, <2>3, <2>4, <2>5, <2>6, <1>18 DEF FinallyFails, Cancelled,
          TypeOK, Spans, Commands, Body, AfterBody, spanVars, cmdVars, storeVars,
          endVars
<1>19. CASE BeatFails
  BY <1>19, RunnerAssumption DEF BeatFails, TypeOK, Body, Spans, spanVars, cmdVars,
     storeVars, endVars
<1>20. CASE Kill
  BY <1>20, RunnerAssumption DEF Kill, TypeOK, Body, Spans, spanVars, cmdVars,
     storeVars, endVars
<1>21. ASSUME NEW c \in Commands, OrphanEnds(c) PROVE TypeOK'
  BY <1>21, RunnerAssumption DEF OrphanEnds, TypeOK, Body, Spans, spanVars, cmdVars,
     storeVars, endVars
<1>22. CASE UNCHANGED vars
  BY <1>22, RunnerAssumption DEF vars, TypeOK, Body, Spans, spanVars, cmdVars,
     storeVars, endVars
<1> QED BY <1>1, <1>2, <1>3, <1>4, <1>5, <1>6, <1>7, <1>8, <1>9, <1>10, <1>11, <1>12,
        <1>13, <1>14, <1>15, <1>16, <1>17, <1>18, <1>19, <1>20, <1>21, <1>22 DEF Next,
        Run

\* Every step keeps what the status stands for.
LEMMA StatusStep ==
  ASSUME IInv, [Next]_vars
  PROVE  StatusInv'
<1>1. CASE Start
  BY <1>1, RunnerAssumption DEF Start, Open, EmitThen, IInv, TypeOK, StatusInv, Body,
     spanVars, cmdVars, storeVars, endVars
<1>2. CASE OpenCanary
  BY <1>2, RunnerAssumption DEF OpenCanary, Open, EmitThen, IInv, TypeOK, StatusInv,
     Body, spanVars, cmdVars, storeVars, endVars
<1>3. CASE Gate
  BY <1>3, RunnerAssumption DEF Gate, EmitThen, AfterGate, AfterStaging, Closed, IInv,
     TypeOK, StatusInv, Body, spanVars, cmdVars, storeVars, endVars
<1>4. CASE Stage
  BY <1>4, RunnerAssumption DEF Stage, EmitThen, AfterStaging, IInv, TypeOK, StatusInv,
     Body, spanVars, cmdVars, storeVars, endVars
<1>5. ASSUME NEW c \in Commands, Spawn(c) PROVE StatusInv'
  BY <1>5, RunnerAssumption DEF Spawn, Open, EmitThen, IInv, TypeOK, StatusInv, Body,
     spanVars, cmdVars, storeVars, endVars
<1>6. ASSUME NEW code \in {"zero", "nonzero"}, SetupEnds(code) PROVE StatusInv'
  BY <1>6, RunnerAssumption DEF SetupEnds, Ends, EmitThen, AfterSetup, Closed, IInv,
     TypeOK, StatusInv, Body, spanVars, cmdVars, storeVars, endVars
<1>7. ASSUME NEW code \in {"zero", "nonzero"}, WorkloadEnds(code) PROVE StatusInv'
  BY <1>7, RunnerAssumption DEF WorkloadEnds, Ends, EmitThen, AfterWorkload, StatusOf,
     Success, Failure, Closed, IInv, TypeOK, StatusInv, Body, spanVars, cmdVars,
     storeVars, endVars
<1>8. CASE Collect
  BY <1>8, RunnerAssumption DEF Collect, EmitThen, Collected, IInv, TypeOK, StatusInv,
     Body, spanVars, cmdVars, storeVars, endVars
<1>9. CASE Leave
  BY <1>9, RunnerAssumption DEF Leave, EmitThen, AfterBody, Closed, IInv, TypeOK,
     StatusInv, Body, spanVars, cmdVars, storeVars, endVars
<1>10. CASE Unwind
  BY <1>10, RunnerAssumption DEF Unwind, AfterBody, Closed, IInv, TypeOK, StatusInv,
     Body, spanVars, cmdVars, storeVars, endVars
<1>11. CASE CleanupStarts
  BY <1>11, RunnerAssumption DEF CleanupStarts, IInv, TypeOK, StatusInv, Body, spanVars,
     cmdVars, storeVars, endVars
<1>12. CASE CleanupEnds
  BY <1>12, RunnerAssumption DEF CleanupEnds, AfterCleanup, Closed, IInv, TypeOK,
     StatusInv, Body, spanVars, cmdVars, storeVars, endVars
<1>13. CASE PutResult
  BY <1>13, RunnerAssumption DEF PutResult, Cancelled, IInv, TypeOK, StatusInv, Body,
     spanVars, cmdVars, storeVars, endVars
<1>14. CASE CloseShipper
  BY <1>14, RunnerAssumption DEF CloseShipper, IInv, TypeOK, StatusInv, Body, spanVars,
     cmdVars, storeVars, endVars
<1>15. CASE Exit
  BY <1>15, RunnerAssumption DEF Exit, ExitCode, IInv, TypeOK, StatusInv, Body,
     spanVars, cmdVars, storeVars, endVars
<1>16. CASE BodyFails
  BY <1>16, RunnerAssumption DEF BodyFails, Closed, IInv, TypeOK, StatusInv, Body,
     spanVars, cmdVars, storeVars, endVars
<1>17. CASE CleanupFails
  BY <1>17, RunnerAssumption DEF CleanupFails, AfterCleanup, Closed, IInv, TypeOK,
     StatusInv, Body, spanVars, cmdVars, storeVars, endVars
<1>18. CASE FinallyFails
  BY <1>18, RunnerAssumption DEF FinallyFails, Cancelled, IInv, TypeOK, StatusInv, Body,
     spanVars, cmdVars, storeVars, endVars
<1>19. CASE BeatFails
  BY <1>19, RunnerAssumption DEF BeatFails, IInv, TypeOK, StatusInv, Body, spanVars,
     cmdVars, storeVars, endVars
<1>20. CASE Kill
  BY <1>20, RunnerAssumption DEF Kill, IInv, TypeOK, StatusInv, Body, spanVars, cmdVars,
     storeVars, endVars
<1>21. ASSUME NEW c \in Commands, OrphanEnds(c) PROVE StatusInv'
  BY <1>21, RunnerAssumption DEF OrphanEnds, IInv, TypeOK, StatusInv, Body, spanVars,
     cmdVars, storeVars, endVars
<1>22. CASE UNCHANGED vars
  BY <1>22, RunnerAssumption DEF vars, IInv, TypeOK, StatusInv, Body, spanVars, cmdVars,
     storeVars, endVars
<1> QED BY <1>1, <1>2, <1>3, <1>4, <1>5, <1>6, <1>7, <1>8, <1>9, <1>10, <1>11, <1>12,
        <1>13, <1>14, <1>15, <1>16, <1>17, <1>18, <1>19, <1>20, <1>21, <1>22 DEF Next,
        Run

\* Every step keeps what the report stands for.
LEMMA ReportStep ==
  ASSUME IInv, [Next]_vars
  PROVE  ReportInv'
<1>1. CASE Start
  BY <1>1, RunnerAssumption DEF Start, Open, EmitThen, IInv, TypeOK, StatusInv,
     ReportInv, Body, spanVars, cmdVars, storeVars, endVars
<1>2. CASE OpenCanary
  BY <1>2, RunnerAssumption DEF OpenCanary, Open, EmitThen, IInv, TypeOK, StatusInv,
     ReportInv, Body, spanVars, cmdVars, storeVars, endVars
<1>3. CASE Gate
  BY <1>3, RunnerAssumption DEF Gate, EmitThen, AfterGate, AfterStaging, Closed, IInv,
     TypeOK, StatusInv, ReportInv, Body, spanVars, cmdVars, storeVars, endVars
<1>4. CASE Stage
  BY <1>4, RunnerAssumption DEF Stage, EmitThen, AfterStaging, IInv, TypeOK, StatusInv,
     ReportInv, Body, spanVars, cmdVars, storeVars, endVars
<1>5. ASSUME NEW c \in Commands, Spawn(c) PROVE ReportInv'
  BY <1>5, RunnerAssumption DEF Spawn, Open, EmitThen, IInv, TypeOK, StatusInv,
     ReportInv, Body, spanVars, cmdVars, storeVars, endVars
<1>6. ASSUME NEW code \in {"zero", "nonzero"}, SetupEnds(code) PROVE ReportInv'
  BY <1>6, RunnerAssumption DEF SetupEnds, Ends, EmitThen, AfterSetup, Closed, IInv,
     TypeOK, StatusInv, ReportInv, Body, spanVars, cmdVars, storeVars, endVars
<1>7. ASSUME NEW code \in {"zero", "nonzero"}, WorkloadEnds(code) PROVE ReportInv'
  BY <1>7, RunnerAssumption DEF WorkloadEnds, Ends, EmitThen, AfterWorkload, StatusOf,
     Success, Failure, Closed, IInv, TypeOK, StatusInv, ReportInv, Body, spanVars,
     cmdVars, storeVars, endVars
<1>8. CASE Collect
  BY <1>8, RunnerAssumption DEF Collect, EmitThen, Collected, IInv, TypeOK, StatusInv,
     ReportInv, Body, spanVars, cmdVars, storeVars, endVars
<1>9. CASE Leave
  BY <1>9, RunnerAssumption DEF Leave, EmitThen, AfterBody, Closed, IInv, TypeOK,
     StatusInv, ReportInv, Body, spanVars, cmdVars, storeVars, endVars
<1>10. CASE Unwind
  BY <1>10, RunnerAssumption DEF Unwind, AfterBody, Closed, IInv, TypeOK, StatusInv,
     ReportInv, Body, spanVars, cmdVars, storeVars, endVars
<1>11. CASE CleanupStarts
  BY <1>11, RunnerAssumption DEF CleanupStarts, IInv, TypeOK, StatusInv, ReportInv,
     Body, spanVars, cmdVars, storeVars, endVars
<1>12. CASE CleanupEnds
  BY <1>12, RunnerAssumption DEF CleanupEnds, AfterCleanup, Closed, IInv, TypeOK,
     StatusInv, ReportInv, Body, spanVars, cmdVars, storeVars, endVars
<1>13. CASE PutResult
  BY <1>13, RunnerAssumption DEF PutResult, Cancelled, IInv, TypeOK, StatusInv,
     ReportInv, Body, spanVars, cmdVars, storeVars, endVars
<1>14. CASE CloseShipper
  BY <1>14, RunnerAssumption DEF CloseShipper, IInv, TypeOK, StatusInv, ReportInv, Body,
     spanVars, cmdVars, storeVars, endVars
<1>15. CASE Exit
  BY <1>15, RunnerAssumption DEF Exit, ExitCode, IInv, TypeOK, StatusInv, ReportInv,
     Body, spanVars, cmdVars, storeVars, endVars
<1>16. CASE BodyFails
  BY <1>16, RunnerAssumption DEF BodyFails, Closed, IInv, TypeOK, StatusInv, ReportInv,
     Body, spanVars, cmdVars, storeVars, endVars
<1>17. CASE CleanupFails
  BY <1>17, RunnerAssumption DEF CleanupFails, AfterCleanup, Closed, IInv, TypeOK,
     StatusInv, ReportInv, Body, spanVars, cmdVars, storeVars, endVars
<1>18. CASE FinallyFails
  BY <1>18, RunnerAssumption DEF FinallyFails, Cancelled, IInv, TypeOK, StatusInv,
     ReportInv, Body, spanVars, cmdVars, storeVars, endVars
<1>19. CASE BeatFails
  BY <1>19, RunnerAssumption DEF BeatFails, IInv, TypeOK, StatusInv, ReportInv, Body,
     spanVars, cmdVars, storeVars, endVars
<1>20. CASE Kill
  BY <1>20, RunnerAssumption DEF Kill, IInv, TypeOK, StatusInv, ReportInv, Body,
     spanVars, cmdVars, storeVars, endVars
<1>21. ASSUME NEW c \in Commands, OrphanEnds(c) PROVE ReportInv'
  BY <1>21, RunnerAssumption DEF OrphanEnds, IInv, TypeOK, StatusInv, ReportInv, Body,
     spanVars, cmdVars, storeVars, endVars
<1>22. CASE UNCHANGED vars
  BY <1>22, RunnerAssumption DEF vars, IInv, TypeOK, StatusInv, ReportInv, Body,
     spanVars, cmdVars, storeVars, endVars
<1> QED BY <1>1, <1>2, <1>3, <1>4, <1>5, <1>6, <1>7, <1>8, <1>9, <1>10, <1>11, <1>12,
        <1>13, <1>14, <1>15, <1>16, <1>17, <1>18, <1>19, <1>20, <1>21, <1>22 DEF Next,
        Run

-----------------------------------------------------------------------------
(* The theorems *)

\* The invariant holds in every reachable state.
THEOREM Invariance == Spec => []IInv
<1>1. IInv /\ [Next]_vars => IInv'
  BY TypeStep, StatusStep, ReportStep DEF IInv
<1> QED BY InitIInv, <1>1, PTL DEF Spec

\* Type correctness.
THEOREM TypeCorrect == Spec => []TypeOK
<1>1. IInv => TypeOK
  BY DEF IInv
<1> QED BY <1>1, Invariance, PTL

\* Success in result.json stands for a passed canary, a setup hook and a workload
\* that exited 0, whatever failed around them.
THEOREM SuccessReal == Spec => []SuccessIsReal
<1>1. IInv => SuccessIsReal
  BY DEF IInv, StatusInv, ReportInv, SuccessIsReal
<1> QED BY <1>1, Invariance, PTL

\* An output archive that result.json names has been put.
THEOREM ArchiveThere == Spec => []ArchiveIsThere
<1>1. IInv => ArchiveIsThere
  BY DEF IInv, TypeOK, StatusInv, ReportInv, ArchiveIsThere
<1> QED BY <1>1, Invariance, PTL

\* Exit code 0 stands for a node that is reported, sealed and collected.
THEOREM ZeroAllDone == Spec => []ZeroMeansAllDone
<1>1. IInv => ZeroMeansAllDone
  BY DEF IInv, TypeOK, StatusInv, ReportInv, ZeroMeansAllDone
<1> QED BY <1>1, Invariance, PTL

\* Every step of the runner is a step of the report or leaves it alone.
LEMMA ReportRefined ==
  ASSUME IInv, [Next]_vars
  PROVE  [Report!Next]_(Report!reportVars)
<1>1. CASE Start
  BY <1>1 DEF Start, Report!reportVars, storeVars, endVars
<1>2. CASE OpenCanary
  BY <1>2 DEF OpenCanary, Report!reportVars, storeVars, endVars
<1>3. CASE Gate
  BY <1>3 DEF Gate, Report!reportVars, storeVars, endVars
<1>4. CASE Stage
  BY <1>4 DEF Stage, Report!reportVars, storeVars, endVars
<1>5. ASSUME NEW c \in Commands, Spawn(c) PROVE [Report!Next]_(Report!reportVars)
  BY <1>5 DEF Spawn, Report!reportVars, storeVars, endVars
<1>6. ASSUME NEW code \in {"zero", "nonzero"}, SetupEnds(code) PROVE [Report!Next]_(Report!reportVars)
  BY <1>6 DEF SetupEnds, Ends, Report!reportVars, storeVars, endVars
<1>7. ASSUME NEW code \in {"zero", "nonzero"}, WorkloadEnds(code) PROVE [Report!Next]_(Report!reportVars)
  BY <1>7 DEF WorkloadEnds, Ends, Report!reportVars, storeVars, endVars
<1>8. CASE Collect
  BY <1>8 DEF Collect, Report!reportVars, storeVars, endVars
<1>9. CASE Leave
  BY <1>9 DEF Leave, Report!reportVars, storeVars, endVars
<1>10. CASE Unwind
  BY <1>10 DEF Unwind, Report!reportVars, storeVars, endVars
<1>11. CASE CleanupStarts
  BY <1>11 DEF CleanupStarts, Report!reportVars, storeVars, endVars
<1>12. CASE CleanupEnds
  BY <1>12 DEF CleanupEnds, Report!reportVars, storeVars, endVars
<1>13. CASE PutResult
  BY <1>13 DEF PutResult, IInv, TypeOK, ReportInv, Report!Next, Report!WriteResult,
     Report!Seal, Report!Exit, Report!reportVars, spanVars, cmdVars, storeVars, endVars
<1>14. CASE CloseShipper
  BY <1>14 DEF CloseShipper, IInv, TypeOK, ReportInv, Report!Next, Report!WriteResult,
     Report!Seal, Report!Exit, Report!reportVars, spanVars, cmdVars, storeVars, endVars
<1>15. CASE Exit
  BY <1>15 DEF Exit, ExitCode, IInv, TypeOK, ReportInv, Report!Next, Report!WriteResult,
     Report!Seal, Report!Exit, Report!reportVars, spanVars, cmdVars, storeVars, endVars
<1>16. CASE BodyFails
  BY <1>16 DEF BodyFails, Report!reportVars, storeVars, endVars
<1>17. CASE CleanupFails
  BY <1>17 DEF CleanupFails, Report!reportVars, storeVars, endVars
<1>18. CASE FinallyFails
  BY <1>18 DEF FinallyFails, IInv, TypeOK, ReportInv, Report!Next, Report!WriteResult,
     Report!Seal, Report!Exit, Report!reportVars, spanVars, cmdVars, storeVars, endVars
<1>19. CASE BeatFails
  BY <1>19 DEF BeatFails, Report!reportVars, storeVars, endVars
<1>20. CASE Kill
  BY <1>20 DEF Kill, IInv, TypeOK, ReportInv, Report!Next, Report!WriteResult,
     Report!Seal, Report!Exit, Report!reportVars, spanVars, cmdVars, storeVars, endVars
<1>21. ASSUME NEW c \in Commands, OrphanEnds(c) PROVE [Report!Next]_(Report!reportVars)
  BY <1>21 DEF OrphanEnds, Report!reportVars, storeVars, endVars
<1>22. CASE UNCHANGED vars
  BY <1>22 DEF vars, Report!reportVars, storeVars, endVars
<1> QED BY <1>1, <1>2, <1>3, <1>4, <1>5, <1>6, <1>7, <1>8, <1>9, <1>10, <1>11, <1>12,
        <1>13, <1>14, <1>15, <1>16, <1>17, <1>18, <1>19, <1>20, <1>21, <1>22 DEF Next,
        Run

\* The runner implements GuestReport: result.json once, then the manifest, then
\* exit 0 at the earliest.
THEOREM ImplementsReport == Spec => ReportSpec
<1>1. Init => Report!Init
  BY DEF Init, Report!Init
<1> QED BY <1>1, Invariance, ReportRefined, PTL DEF Spec, ReportSpec, Report!Spec
-----------------------------------------------------------------------------
(* Spans *)

\* A span that is open while the store serves is in scope, where a `finally` will close
\* it, or is the running cleanup hook's; the stream is not sealed yet.
SpanInv ==
  /\ pc = "start" => scope = {}
  /\ pc \in {"canary", "stage", "collect", "leave"} => scope \subseteq {"node"}
  /\ pc = "gate" => scope \subseteq {"node", "canary"}
  /\ pc \in {"setup", "workload"} => scope \subseteq {"node", pc}
  /\ faults = 0 => \A s \in Spans : spans[s] = "open" =>
       /\ ~manifest
       /\ s \in scope \/ (s = "cleanup" /\ pc \in {"cleanup", "over"})

\* Every step keeps it.
LEMMA SpanStep ==
  ASSUME IInv, SpanInv, [Next]_vars
  PROVE  SpanInv'
<1> USE DEF IInv, TypeOK, ReportInv, SpanInv, Spans, Commands
<1>1. CASE Start
  BY <1>1 DEF Start, Open, EmitThen, spanVars, cmdVars, storeVars, endVars
<1>2. CASE OpenCanary
  BY <1>2 DEF OpenCanary, Open, EmitThen, spanVars, cmdVars, storeVars, endVars
<1>3. CASE Gate
  BY <1>3 DEF Gate, EmitThen, AfterGate, AfterStaging, Closed, spanVars, cmdVars, storeVars, endVars
<1>4. CASE Stage
  BY <1>4 DEF Stage, EmitThen, AfterStaging, spanVars, cmdVars, storeVars, endVars
<1>5. ASSUME NEW c \in Commands, Spawn(c) PROVE SpanInv'
  BY <1>5 DEF Spawn, Open, EmitThen, spanVars, cmdVars, storeVars, endVars
<1>6. ASSUME NEW code \in {"zero", "nonzero"}, SetupEnds(code) PROVE SpanInv'
  BY <1>6 DEF SetupEnds, Ends, EmitThen, AfterSetup, Closed, spanVars, cmdVars, storeVars, endVars
<1>7. ASSUME NEW code \in {"zero", "nonzero"}, WorkloadEnds(code) PROVE SpanInv'
  BY <1>7 DEF WorkloadEnds, Ends, EmitThen, AfterWorkload, Closed, spanVars, cmdVars, storeVars, endVars
<1>8. CASE Collect
  BY <1>8 DEF Collect, EmitThen, spanVars, cmdVars, storeVars, endVars
<1>9. CASE Leave
  BY <1>9 DEF Leave, EmitThen, AfterBody, Closed, spanVars, cmdVars, storeVars, endVars
<1>10. CASE Unwind
  BY <1>10 DEF Unwind, AfterBody, Closed, spanVars, cmdVars, storeVars, endVars
<1>11. CASE CleanupStarts
  BY <1>11 DEF CleanupStarts, spanVars, cmdVars, storeVars, endVars
<1>12. CASE CleanupEnds
  BY <1>12 DEF CleanupEnds, AfterCleanup, Closed, spanVars, cmdVars, storeVars, endVars
<1>13. CASE PutResult
  BY <1>13 DEF PutResult, spanVars, cmdVars, storeVars, endVars
<1>14. CASE CloseShipper
  BY <1>14 DEF CloseShipper, spanVars, cmdVars, storeVars, endVars
<1>15. CASE Exit
  BY <1>15 DEF Exit, spanVars, cmdVars, storeVars, endVars
<1>16. CASE BodyFails
  BY <1>16 DEF BodyFails, Closed, spanVars, cmdVars, storeVars, endVars
<1>17. CASE CleanupFails
  BY <1>17 DEF CleanupFails, AfterCleanup, Closed, spanVars, cmdVars, storeVars, endVars
<1>18. CASE FinallyFails
  BY <1>18 DEF FinallyFails, spanVars, cmdVars, storeVars, endVars
<1>19. CASE BeatFails
  BY <1>19 DEF BeatFails, spanVars, cmdVars, storeVars, endVars
<1>20. CASE Kill
  BY <1>20 DEF Kill, spanVars, cmdVars, storeVars, endVars
<1>21. ASSUME NEW c \in Commands, OrphanEnds(c) PROVE SpanInv'
  BY <1>21 DEF OrphanEnds, spanVars, cmdVars, storeVars, endVars
<1>22. CASE UNCHANGED vars
  BY <1>22 DEF vars, spanVars, cmdVars, storeVars, endVars
<1> QED BY <1>1, <1>2, <1>3, <1>4, <1>5, <1>6, <1>7, <1>8, <1>9, <1>10, <1>11,
        <1>12, <1>13, <1>14, <1>15, <1>16, <1>17, <1>18, <1>19, <1>20, <1>21, <1>22 DEF Next, Run

\* While the store serves, a sealed stream has no open span (spans.py's `finally`).
THEOREM SpansClosed == Spec => []SpansAreClosed
<1>1. Init => SpanInv
  BY DEF Init, SpanInv, Spans, Commands
<1>2. IInv /\ SpanInv /\ [Next]_vars => SpanInv'
  BY SpanStep
<1>3. SpanInv => SpansAreClosed
  BY DEF SpanInv, SpansAreClosed
<1> QED BY <1>1, <1>2, <1>3, Invariance, PTL DEF Spec
-----------------------------------------------------------------------------
(* The report and the work *)

\* Before the workload has ended there is no exit code of it, no archive and no report.
WorkInv ==
  /\ pc \in {"start", "canary", "gate", "stage", "setup", "workload"} =>
       rc["workload"] = "none" /\ ~outbox
  /\ pc = "collect" => rc["workload"] = "zero"

\* Every step keeps what is said of the time before the report.
LEMMA WorkInvStep ==
  ASSUME IInv, WorkInv, [Next]_vars
  PROVE  WorkInv'
<1> USE DEF IInv, TypeOK, WorkInv, Commands
<1>1. CASE Start
  BY <1>1 DEF Start, Open, EmitThen, spanVars, cmdVars, storeVars, endVars
<1>2. CASE OpenCanary
  BY <1>2 DEF OpenCanary, Open, EmitThen, spanVars, cmdVars, storeVars, endVars
<1>3. CASE Gate
  BY <1>3 DEF Gate, EmitThen, AfterGate, AfterStaging, cmdVars, storeVars, endVars
<1>4. CASE Stage
  BY <1>4 DEF Stage, EmitThen, AfterStaging, cmdVars, storeVars, endVars
<1>5. ASSUME NEW c \in Commands, Spawn(c) PROVE WorkInv'
  BY <1>5 DEF Spawn, Open, EmitThen, spanVars, cmdVars, storeVars, endVars
<1>6. ASSUME NEW code \in {"zero", "nonzero"}, SetupEnds(code) PROVE WorkInv'
  BY <1>6 DEF SetupEnds, Ends, EmitThen, AfterSetup, cmdVars, storeVars, endVars
<1>7. ASSUME NEW code \in {"zero", "nonzero"}, WorkloadEnds(code) PROVE WorkInv'
  BY <1>7 DEF WorkloadEnds, Ends, EmitThen, AfterWorkload, cmdVars, storeVars, endVars
<1>8. CASE Collect
  BY <1>8 DEF Collect, EmitThen, cmdVars
<1>9. CASE Leave \/ Unwind
  BY <1>9 DEF Leave, Unwind, EmitThen, AfterBody, cmdVars, storeVars
<1>10. CASE CleanupStarts \/ CleanupEnds \/ CleanupFails
  BY <1>10 DEF CleanupStarts, CleanupEnds, CleanupFails, AfterCleanup, cmdVars, storeVars
<1>11. CASE PutResult \/ CloseShipper \/ Exit \/ FinallyFails \/ Kill
  BY <1>11 DEF PutResult, CloseShipper, Exit, FinallyFails, Kill, cmdVars
<1>12. CASE BodyFails
  BY <1>12 DEF BodyFails, cmdVars
<1>13. CASE BeatFails \/ UNCHANGED vars
  BY <1>13 DEF BeatFails, vars, cmdVars, storeVars
<1>14. ASSUME NEW c \in Commands, OrphanEnds(c) PROVE WorkInv'
  BY <1>14 DEF OrphanEnds, storeVars
<1> QED BY <1>1, <1>2, <1>3, <1>4, <1>5, <1>6, <1>7, <1>8, <1>9, <1>10, <1>11,
        <1>12, <1>13, <1>14 DEF Next, Run

\* Every step of the runner is the end of the workload, a put into the outbox, a step of
\* the report, or none of these.
LEMMA WorkRefined ==
  ASSUME IInv, IInv', WorkInv, [Next]_vars
  PROVE  [Worker!Next]_(Worker!workVars)
<1>1. ASSUME NEW code \in {"zero", "nonzero"}, WorkloadEnds(code)
      PROVE  Worker!Next
  BY <1>1 DEF WorkloadEnds, Ends, IInv, ReportInv, TypeOK, WorkInv, Commands, Worker!Next,
     Worker!ProgramEnds, Worker!Unreported, storeVars, endVars
<1>2. CASE Collect \/ (BodyFails /\ pc = "collect")
  <2>1. pc = "collect" /\ UNCHANGED <<rc, resultObj, manifest, exit>>
    BY <1>2 DEF Collect, BodyFails, cmdVars, endVars
  <2> QED BY <2>1 DEF WorkInv, IInv, ReportInv, Worker!Next, Worker!PutOutputs, Worker!Unreported
<1>3. CASE UNCHANGED <<rc["workload"], outbox>>
  <2>1. resultObj' = "success" => rc["workload"] = "zero"
    BY <1>3 DEF IInv, ReportInv, StatusInv
  <2>2. [Report!Next]_(Report!reportVars)
    BY ReportRefined
  <2> QED BY <1>3, <2>1, <2>2 DEF Report!Next, Report!WriteResult, Report!Seal, Report!Exit,
     Report!reportVars, Worker!workVars, Worker!Next, Worker!Reports, Worker!Report!Next,
     Worker!Report!WriteResult, Worker!Report!Seal, Worker!Report!Exit
<1>4. ASSUME NEW c \in {"setup", "workload"}, Spawn(c) PROVE UNCHANGED <<rc["workload"], outbox>>
  BY <1>4 DEF Spawn, storeVars
<1>5. ASSUME NEW code \in {"zero", "nonzero"}, SetupEnds(code) PROVE UNCHANGED <<rc["workload"], outbox>>
  BY <1>5 DEF SetupEnds, Ends, IInv, TypeOK, Commands, storeVars
<1>6. CASE Start \/ OpenCanary \/ Gate \/ Stage \/ Leave \/ Unwind
  BY <1>3, <1>6 DEF Start, OpenCanary, Gate, Stage, Leave, Unwind, cmdVars, storeVars
<1>7. CASE CleanupStarts \/ CleanupEnds \/ CleanupFails \/ PutResult \/ CloseShipper \/ Exit
             \/ FinallyFails \/ Kill \/ BeatFails \/ UNCHANGED vars
  BY <1>3, <1>7 DEF CleanupStarts, CleanupEnds, CleanupFails, PutResult, CloseShipper, Exit,
     FinallyFails, Kill, BeatFails, vars, cmdVars, storeVars
<1>8. CASE BodyFails /\ pc # "collect"
  BY <1>3, <1>8 DEF BodyFails, cmdVars, storeVars, IInv, TypeOK
<1>9. ASSUME NEW c \in Commands, OrphanEnds(c) PROVE UNCHANGED <<rc["workload"], outbox>>
  BY <1>9 DEF OrphanEnds, storeVars
<1>10. ASSUME NEW c \in Commands, Spawn(c) PROVE c \in {"setup", "workload"}
  BY <1>10 DEF Spawn
<1> QED BY <1>1, <1>2, <1>3, <1>4, <1>5, <1>6, <1>7, <1>8, <1>9, <1>10 DEF Next, Run

\* The runner implements GuestWork: the outputs are put between the workload's end and
\* result.json, and a success is that of the workload (runner.py:117-136).
THEOREM ImplementsWork == Spec => WorkerSpec
<1>1. Init => WorkInv /\ Worker!Init
  BY DEF Init, WorkInv, Commands, Worker!Init, Worker!Report!Init
<1>2. IInv /\ WorkInv /\ [Next]_vars => WorkInv'
  BY WorkInvStep
<1>3. IInv /\ IInv' /\ WorkInv /\ [Next]_vars => [Worker!Next]_(Worker!workVars)
  BY WorkRefined
<1> QED BY <1>1, <1>2, <1>3, Invariance, PTL DEF Spec, WorkerSpec, Worker!Spec
-----------------------------------------------------------------------------
(* The end.  What a runner has before it: the rest of its way, the spans its exception  *)
(* leaves on it, and what is still running.                                            *)

Rank ==
  [p \in {"start", "canary", "gate", "stage", "setup", "workload", "collect", "leave", "unwind",
          "cleanup", "result", "close", "ended", "over"} |->
     CASE p = "start" -> 13 [] p = "canary" -> 12 [] p = "gate" -> 11 [] p = "stage" -> 10
       [] p = "setup" -> 9 [] p = "workload" -> 8 [] p = "collect" -> 7 [] p = "leave" -> 6
       [] p = "unwind" -> 5 [] p = "cleanup" -> 4 [] p = "result" -> 3 [] p = "close" -> 2
       [] p = "ended" -> 1 [] p = "over" -> 0]

SpansLeft ==
  IF pc # "unwind" \/ scope = {} THEN 0 ELSE IF scope \subseteq {"node"} THEN 1 ELSE 2

ChildLeft(c) == IF c \in running THEN 1 ELSE IF pc = c THEN 2 ELSE 0
ChildrenLeft == ChildLeft("setup") + ChildLeft("workload") + ChildLeft("cleanup")

RunMeasure == <<Rank[pc], SpansLeft, ChildrenLeft + OneIf(beat = "on")>>

RunGoesOn ==
  /\ RunMeasure \in Triples /\ RunMeasure' \in Triples
  /\ Less(RunMeasure', RunMeasure)

RunCountsDown == [][RunGoesOn]_vars

\* A runner that is over has reported, unless it was killed or the store failed it.
OverHasReported == pc = "over" => killed \/ faults > 0 \/ (manifest /\ resultObj # "none")

\* The phases in their order.
LEMMA Ranks ==
  /\ Rank["start"] = 13 /\ Rank["canary"] = 12 /\ Rank["gate"] = 11 /\ Rank["stage"] = 10
  /\ Rank["setup"] = 9 /\ Rank["workload"] = 8 /\ Rank["collect"] = 7 /\ Rank["leave"] = 6
  /\ Rank["unwind"] = 5 /\ Rank["cleanup"] = 4 /\ Rank["result"] = 3 /\ Rank["close"] = 2
  /\ Rank["ended"] = 1 /\ Rank["over"] = 0
BY DEF Rank

\* The measure is a triple of numbers, ...
LEMMA RunMeasureType == TypeOK => RunMeasure \in Triples
<1> SUFFICES ASSUME TypeOK PROVE RunMeasure \in Triples
  OBVIOUS
<1>1. Rank[pc] \in Nat
  BY Ranks DEF TypeOK, Body
<1>2. SpansLeft \in Nat /\ ChildrenLeft + OneIf(beat = "on") \in Nat
  BY DEF SpansLeft, ChildrenLeft, ChildLeft, OneIf
<1> QED BY <1>1, <1>2 DEF RunMeasure, Triples

\* ... after a step as before it.
LEMMA RunMeasureTypeNext == TypeOK' => (RunMeasure \in Triples)'
BY RunMeasureType, PTL

\* An exception leaves the node's span and one inside it at most.  What has ended by
\* itself is reported, unless the store failed.
EndInv ==
  /\ pc = "unwind" => \E s \in Spans : scope \subseteq {"node", s}
  /\ pc \in {"ended", "over"} => killed \/ faults > 0 \/ (manifest /\ resultObj # "none")

\* Every step keeps what is said of the end.
LEMMA EndInvStep ==
  ASSUME IInv, SpanInv, EndInv, [Next]_vars
  PROVE  EndInv'
<1> USE DEF IInv, TypeOK, ReportInv, SpanInv, EndInv, Spans, Commands
<1>1. CASE Start
  BY <1>1 DEF Start, Open, EmitThen
<1>2. CASE OpenCanary
  BY <1>2 DEF OpenCanary, Open, EmitThen
<1>3. CASE Gate
  BY <1>3 DEF Gate, EmitThen, AfterGate, AfterStaging
<1>4. CASE Stage
  BY <1>4 DEF Stage, EmitThen, AfterStaging, spanVars
<1>5. ASSUME NEW c \in Commands, Spawn(c) PROVE EndInv'
  BY <1>5 DEF Spawn, Open, EmitThen
<1>6. ASSUME NEW code \in {"zero", "nonzero"}, SetupEnds(code) PROVE EndInv'
  BY <1>6 DEF SetupEnds, Ends, EmitThen, AfterSetup
<1>7. ASSUME NEW code \in {"zero", "nonzero"}, WorkloadEnds(code) PROVE EndInv'
  BY <1>7 DEF WorkloadEnds, Ends, EmitThen, AfterWorkload
<1>8. CASE Collect
  BY <1>8 DEF Collect, EmitThen, spanVars
<1>9. CASE Leave
  BY <1>9 DEF Leave, EmitThen, AfterBody
<1>10. CASE Unwind
  BY <1>10 DEF Unwind, AfterBody, spanVars
<1>11. CASE CleanupStarts \/ CleanupEnds \/ CleanupFails
  BY <1>11 DEF CleanupStarts, CleanupEnds, CleanupFails, AfterCleanup
<1>12. CASE PutResult
  BY <1>12 DEF PutResult
<1>13. CASE CloseShipper
  BY <1>13 DEF CloseShipper
<1>14. CASE Exit
  BY <1>14 DEF Exit, storeVars
<1>15. CASE BodyFails
  BY <1>15 DEF BodyFails, spanVars
<1>16. CASE FinallyFails
  BY <1>16 DEF FinallyFails
<1>17. CASE BeatFails
  BY <1>17 DEF BeatFails, spanVars, storeVars, endVars
<1>18. CASE Kill
  BY <1>18 DEF Kill
<1>19. ASSUME NEW c \in Commands, OrphanEnds(c) PROVE EndInv'
  BY <1>19 DEF OrphanEnds, spanVars, storeVars, endVars
<1>20. CASE UNCHANGED vars
  BY <1>20 DEF vars, spanVars, storeVars, endVars
<1> QED BY <1>1, <1>2, <1>3, <1>4, <1>5, <1>6, <1>7, <1>8, <1>9, <1>10, <1>11,
        <1>12, <1>13, <1>14, <1>15, <1>16, <1>17, <1>18, <1>19, <1>20 DEF Next, Run

\* Every step takes the measure down: it goes on along the way, or leaves a span, or
\* starts or ends a child, or ends the heartbeat.
LEMMA RunStep ==
  ASSUME IInv, IInv', SpanInv, EndInv, [Next]_vars
  PROVE  [RunGoesOn]_vars
<1>1. RunMeasure \in Triples /\ RunMeasure' \in Triples
  BY RunMeasureType, RunMeasureTypeNext DEF IInv
<1>2. ASSUME Rank[pc'] < Rank[pc] PROVE RunGoesOn
  BY <1>1, <1>2 DEF RunGoesOn, Less, RunMeasure
<1>3. ASSUME NEW c \in Commands, Spawn(c) PROVE RunGoesOn
  <2>1. CASE pc' = pc
    <3>1. running' = running \cup {c} /\ beat' = beat
      BY <2>1, <1>3 DEF Spawn, Open, EmitThen
    <3>2. SpansLeft' = SpansLeft
      BY <2>1, <1>3 DEF SpansLeft, Spawn
    <3>3. ChildrenLeft' < ChildrenLeft
      BY <2>1, <3>1, <1>3 DEF Spawn, ChildrenLeft, ChildLeft
    <3> QED BY <1>1, <2>1, <3>1, <3>2, <3>3
            DEF RunGoesOn, Less, RunMeasure, ChildrenLeft, ChildLeft, OneIf
  <2>2. CASE pc' # pc
    BY <2>2, <1>2, <1>3, Ranks DEF Spawn, Open, EmitThen
  <2> QED BY <2>1, <2>2
<1>4. CASE CleanupStarts
  <2>1. SpansLeft' = SpansLeft /\ ChildrenLeft' < ChildrenLeft
    BY <1>4 DEF CleanupStarts, SpansLeft, ChildrenLeft, ChildLeft
  <2> QED BY <1>1, <1>4, <2>1
          DEF CleanupStarts, RunGoesOn, Less, RunMeasure, ChildrenLeft, ChildLeft, OneIf
<1>5. ASSUME NEW c \in Commands, OrphanEnds(c) PROVE RunGoesOn
  <2>1. SpansLeft' = SpansLeft
    BY <1>5 DEF OrphanEnds, SpansLeft, spanVars
  <2>2. ChildrenLeft' < ChildrenLeft
    BY <1>5 DEF OrphanEnds, ChildrenLeft, ChildLeft, Commands
  <2> QED BY <1>1, <1>5, <2>1, <2>2
          DEF OrphanEnds, RunGoesOn, Less, RunMeasure, ChildrenLeft, ChildLeft, OneIf
<1>6. CASE BeatFails
  <2>1. SpansLeft' = SpansLeft /\ ChildrenLeft' = ChildrenLeft
    BY <1>6 DEF BeatFails, SpansLeft, ChildrenLeft, ChildLeft, spanVars, cmdVars
  <2> QED BY <1>1, <1>6, <2>1
          DEF BeatFails, RunGoesOn, Less, RunMeasure, ChildrenLeft, ChildLeft, OneIf
<1>7. CASE Unwind
  <2>1. CASE scope = {} /\ pc' = AfterBody
    BY <2>1, <1>2, <1>7, Ranks DEF Unwind, AfterBody
  <2>2. CASE scope # {} /\ pc' = pc
    <3>1. PICK s \in scope : (s = "node" => scope = {"node"}) /\ scope' = scope \ {s}
      BY <2>2, <1>7, Ranks DEF Unwind, AfterBody
    <3>2. PICK t \in Spans : scope \subseteq {"node", t}
      BY <1>7 DEF Unwind, EndInv
    <3>3. SpansLeft' < SpansLeft
      <4>1. CASE s = "node"
        BY <4>1, <2>2, <3>1, <1>7 DEF SpansLeft, Unwind
      <4>2. CASE s # "node"
        <5>1. scope' \subseteq {"node"} /\ ~(scope \subseteq {"node"})
          BY <4>2, <3>1, <3>2
        <5> QED BY <5>1, <2>2, <1>7 DEF SpansLeft, Unwind
      <4> QED BY <4>1, <4>2
    <3> QED BY <1>1, <2>2, <3>3 DEF RunGoesOn, Less, RunMeasure
  <2> QED BY <2>1, <2>2, <1>7 DEF Unwind, AfterBody
<1>8. CASE Start \/ OpenCanary \/ Gate \/ Stage
  BY <1>2, <1>8, Ranks
     DEF Start, OpenCanary, Gate, Stage, Open, EmitThen, AfterGate, AfterStaging
<1>9. ASSUME NEW code \in {"zero", "nonzero"}, SetupEnds(code) \/ WorkloadEnds(code) PROVE RunGoesOn
  BY <1>2, <1>9, Ranks DEF SetupEnds, WorkloadEnds, Ends, EmitThen, AfterSetup, AfterWorkload
<1>10. CASE Collect \/ Leave
  BY <1>2, <1>10, Ranks DEF Collect, Leave, EmitThen, AfterBody
<1>11. CASE CleanupEnds \/ CleanupFails \/ PutResult \/ CloseShipper \/ Exit
  BY <1>2, <1>11, Ranks DEF CleanupEnds, CleanupFails, AfterCleanup, PutResult, CloseShipper, Exit
<1>12. CASE BodyFails \/ FinallyFails
  BY <1>2, <1>12, Ranks DEF BodyFails, FinallyFails
<1>13. CASE Kill
  BY <1>2, <1>13, Ranks DEF Kill, IInv, TypeOK, Body
<1> QED BY <1>3, <1>4, <1>5, <1>6, <1>7, <1>8, <1>9, <1>10, <1>11, <1>12, <1>13 DEF Next, Run

\* What is said of the end holds in every reachable state.
LEMMA EndInvariance == Spec => [](SpanInv /\ EndInv)
<1>1. Init => SpanInv /\ EndInv
  BY DEF Init, SpanInv, EndInv, Spans, Commands
<1>2. IInv /\ SpanInv /\ EndInv /\ [Next]_vars => SpanInv' /\ EndInv'
  BY SpanStep, EndInvStep
<1> QED BY <1>1, <1>2, Invariance, PTL DEF Spec

\* The runner has only finitely many steps, however the node fails: nothing in its body,
\* its `finally`s or beside them is ever gone through again (runner.py:85-136).
THEOREM RunIsCounted == Spec => RunCountsDown
<1>1. IInv /\ IInv' /\ SpanInv /\ EndInv /\ [Next]_vars => [RunGoesOn]_vars
  BY RunStep
<1> QED BY <1>1, Invariance, EndInvariance, PTL DEF Spec, RunCountsDown

\* A runner that is over has put result.json and the manifest, unless it was killed or an
\* operation of the store failed; with RunIsCounted this is ReportsInTheEnd but for the
\* scheduling of its steps (runner.py:128-136, runner_main.py:37-61).
THEOREM EndIsReported == Spec => []OverHasReported
<1>1. EndInv => OverHasReported
  BY DEF EndInv, OverHasReported
<1> QED BY <1>1, EndInvariance, PTL
=============================================================================
