--------------------------- MODULE SandboxRunProofs ---------------------------
(***************************************************************************)
(* What a run of SubstrateBackend means, for every workspace, any declared *)
(* paths and any number of runs and faults.                                *)
(***************************************************************************)
EXTENDS SandboxRun, TLAPS

\* What is staged is the workspace, and a program that has started works on that.
InputInv ==
  /\ pc \in {"launch", "drive", "reap"} =>
       inbox = IF asked.workspace THEN InputsOf(host) ELSE Empty
  /\ InputsAreComplete

\* A report is a report of its program, and a success read from it stays one.
StatusInv ==
  /\ gpc # "over" => exit = "none"
  /\ gpc \in {"none", "stage", "work"} => rc = "none"
  /\ resultObj # "none" => gpc \in {"report", "over"}
  /\ resultObj = "success" => rc = "zero"
  /\ status = "success" =>
       /\ pc \notin {"stage", "launch", "drive"}
       /\ resultObj = "success" /\ gpc = "over"

\* Of the archives got so far what was looked up is copied, a later one over an earlier.
CopyInv ==
  /\ pc \in {"stage", "launch", "drive", "reap", "fetch"} => fetched = Empty
  /\ todo \subseteq asked.outputs
  /\ pc \in {"return", "stage", "launch", "drive", "reap", "fetch", "get"} \/ Returned => todo = {}
  /\ pc \in {"return", "stage", "launch", "drive", "reap", "fetch"} \/ Returned => listed = {}
  /\ pc = "copy" => \A f \in Files : got[f] # Absent => fetched[f] = got[f]
  /\ pc \in {"get", "copy", "return"} \/ Returned =>
       \A p \in asked.outputs : p.kind # "dir" =>
         \A f \in p.covers \ Outside :
           fetched[f] # Absent /\ (p \notin todo \/ got[f] = Absent) => host[f] = fetched[f]

\* Without a fault the output archive of a program that exited 0 holds what was declared.
ArchiveInv ==
  /\ faults = 0 /\ (gpc = "report" \/ resultObj # "none")
  /\ rc = "zero" /\ asked.outputs # {} /\ \A p \in asked.outputs : Exists(p)
  => outbox[Output] = Collected

\* A run that can still return the program's success has got its output archive, and what
\* that holds, unless the archive is still listed, and then those before it go first.
FetchInv ==
  status = "success" /\ Looks /\ (pc \in {"get", "copy", "return"} \/ Returned) =>
    /\ outbox[Output] # Empty /\ Output \notin listed => \A b \in listed : b > Output
    /\ \A f \in Files : outbox[Output][f] # Absent /\ Output \notin listed =>
         /\ fetched[f] # Absent
         /\ (\A a \in Archives : a > Output => outbox[a][f] = Absent)
              => fetched[f] = outbox[Output][f]

OutcomeInv ==
  Returned => /\ outcome.ok <=> status = "success"
              /\ outcome.artifacts = Found

IInv == TypeOK /\ InputInv /\ StatusInv /\ CopyInv /\ ArchiveInv /\ FetchInv
        /\ OutcomeInv

USE SandboxAssumption DEF vars, hostVars, guestVars, callVars, fetchVars, reportVars

-----------------------------------------------------------------------------
(* The type invariant in three parts, and the values that have them. *)

TreesOK ==
  /\ host \in Trees /\ got \in Trees /\ fetched \in Trees /\ inbox \in Trees /\ box \in Trees
  /\ outbox \in [Archives -> Trees]

Outcomes == [kind : {"none", "returned", "raised"}, ok : BOOLEAN,
             artifacts : SUBSET Files, verdict : Content]

RecordsOK ==
  /\ asked \in [workspace : BOOLEAN, outputs : SUBSET Paths]
  /\ outcome \in Outcomes

ScalarsOK ==
  /\ pc \in {"idle", "stage", "launch", "drive", "reap", "fetch", "get", "copy", "return"}
  /\ number \in 0..MaxRuns
  /\ status \in {"none", "success", "failure", "raised"}
  /\ listed \subseteq Archives /\ todo \subseteq Paths
  /\ gpc \in {"none", "stage", "work", "collect", "report", "over"}
  /\ rc \in {"none", "zero", "nonzero"}
  /\ resultObj \in {"none", "success", "failure"} /\ manifest \in BOOLEAN
  /\ exit \in {"none", "zero", "nonzero"}
  /\ faults \in 0..MaxFaults
  /\ pc \in {"stage", "launch"} => gpc = "none" /\ outbox = NoArchives

\* The empty workspace is one.
LEMMA EmptyIsTree == Empty \in Trees
BY DEF Empty, Trees, Content, Absent

\* So is one archive over another.
LEMMA OverIsTree == \A new, old \in Trees : Over(new, old) \in Trees
BY DEF Over, Trees

\* What the guest collects is one, and goes into the outbox under its name.
LEMMA CollectedIsTree ==
  ASSUME box \in Trees, outbox \in [Archives -> Trees]
  PROVE  /\ Collected \in Trees
         /\ WithOutput \in [Archives -> Trees] /\ WithOutput[Output] = Collected
<1>1. Collected \in Trees
  BY DEF Collected, Trees, Content, Absent
<1>2. Output \in Archives
  BY DEF Archives
<1> QED BY <1>1, <1>2 DEF WithOutput

\* An outbox may be empty.
LEMMA NoArchivesType == NoArchives \in [Archives -> Trees]
BY EmptyIsTree DEF NoArchives

\* No outcome and an exception are outcomes.
LEMMA OutcomeTypes == NoOutcome \in Outcomes /\ Raised \in Outcomes
<1>1. NoOutcome \in Outcomes
  <2>1. Absent \in Content
    BY DEF Content, Absent
  <2> QED BY <2>1 DEF NoOutcome, Outcomes
<1>2. Raised \in Outcomes
  BY <1>1 DEF Raised, Outcomes
<1> QED BY <1>1, <1>2

\* Only the files of the tree are declared.
LEMMA DeclaredAreFiles == \A p \in Paths : p.covers \subseteq Files
BY DEF PathType

-----------------------------------------------------------------------------
(* Every step keeps the invariant. *)

\* A run begins with a prefix and a box of its own.
LEMMA BeginStep ==
  ASSUME IInv, Begin
  PROVE  IInv'
<1>1. TypeOK'
  <2>1. TreesOK'
    BY EmptyIsTree, NoArchivesType DEF IInv, TypeOK, TreesOK, Begin, FreshOutbox
  <2>2. RecordsOK'
    BY OutcomeTypes DEF IInv, TypeOK, RecordsOK, Outcomes, Begin
  <2>3. ScalarsOK'
    <3>1. manifest' \in BOOLEAN
      BY Zenon DEF Begin
    <3>2. number' \in 0..MaxRuns
      BY DEF IInv, TypeOK, Begin
    <3> QED BY <3>1, <3>2 DEF IInv, TypeOK, ScalarsOK, Begin, FreshOutbox
  <2> QED BY <2>1, <2>2, <2>3 DEF TypeOK, TreesOK, RecordsOK, Outcomes, ScalarsOK
<1>2. InputInv'
  BY DEF IInv, TypeOK, InputInv, InputsAreComplete, Begin, FreshOutbox
<1>3. StatusInv'
  BY DEF IInv, TypeOK, StatusInv, Begin, FreshOutbox
<1>4. CopyInv'
  BY DEF IInv, TypeOK, CopyInv, Returned, Begin, Empty, FreshOutbox
<1>5. ArchiveInv'
  BY DEF IInv, TypeOK, ArchiveInv, StatusInv, Returned, Looks, Exists, Collected, Begin,
    FreshOutbox
<1>6. OutcomeInv'
  BY DEF IInv, TypeOK, OutcomeInv, Returned, Found, Looks, Begin, FreshOutbox
<1>7. FetchInv'
  BY DEF IInv, TypeOK, FetchInv, StatusInv, Returned, Looks, Begin, FreshOutbox
<1> QED BY <1>1, <1>2, <1>3, <1>4, <1>5, <1>6, <1>7 DEF IInv

\* The input archive holds what put_dir takes of the workspace.
LEMMA StageInStep ==
  ASSUME IInv, StageIn
  PROVE  IInv'
<1>1. TypeOK'
  <2>1. Packed \in Trees
    BY DEF IInv, TypeOK, Trees, Content, Absent, Packed, InputsOf
  <2> QED BY <2>1, EmptyIsTree DEF IInv, TypeOK, StageIn
<1>2. InputInv'
  BY DEF IInv, TypeOK, InputInv, InputsAreComplete, StageIn, Packed, InputsOf
<1>3. StatusInv'
  BY DEF IInv, TypeOK, StatusInv, StageIn, Packed, InputsOf
<1>4. CopyInv'
  BY DEF IInv, TypeOK, CopyInv, Returned, StageIn, Empty, Packed, InputsOf
<1>5. ArchiveInv'
  BY DEF IInv, TypeOK, ArchiveInv, StatusInv, Returned, Looks, Exists, Collected, StageIn,
    Packed, InputsOf
<1>6. OutcomeInv'
  BY DEF IInv, TypeOK, OutcomeInv, Returned, Found, Looks, StageIn, Packed, InputsOf
<1>7. FetchInv'
  BY DEF IInv, TypeOK, FetchInv, StatusInv, Returned, Looks, StageIn, Packed, InputsOf
<1> QED BY <1>1, <1>2, <1>3, <1>4, <1>5, <1>6, <1>7 DEF IInv

\* The guest is launched after its inputs were put.
LEMMA LaunchStep ==
  ASSUME IInv, Launch
  PROVE  IInv'
<1>1. TypeOK'
  BY DEF IInv, TypeOK, Launch, Trees, Content, Empty
<1>2. InputInv'
  BY DEF IInv, TypeOK, InputInv, InputsAreComplete, Launch
<1>3. StatusInv'
  BY DEF IInv, TypeOK, StatusInv, Launch
<1>4. CopyInv'
  BY DEF IInv, TypeOK, CopyInv, Returned, Launch, Empty
<1>5. ArchiveInv'
  BY DEF IInv, TypeOK, ArchiveInv, StatusInv, Returned, Looks, Exists, Collected, Launch
<1>6. OutcomeInv'
  BY DEF IInv, TypeOK, OutcomeInv, Returned, Found, Looks, Launch
<1>7. FetchInv'
  BY DEF IInv, TypeOK, FetchInv, StatusInv, Returned, Looks, Launch
<1> QED BY <1>1, <1>2, <1>3, <1>4, <1>5, <1>6, <1>7 DEF IInv

\* drive_node returns, with what the guest reported or a failure.
LEMMA DriveEndsStep ==
  ASSUME IInv, DriveEnds
  PROVE  IInv'
<1>1. TypeOK'
  BY DEF IInv, TypeOK, DriveEnds, Trees, Content, Empty, Fault, ReportedStatus
<1>2. InputInv'
  BY DEF IInv, TypeOK, InputInv, InputsAreComplete, DriveEnds, Fault, ReportedStatus
<1>3. StatusInv'
  BY DEF IInv, TypeOK, StatusInv, DriveEnds, Fault, ReportedStatus
<1>4. CopyInv'
  BY DEF IInv, TypeOK, CopyInv, Returned, DriveEnds, Empty, Fault, ReportedStatus
<1>5. ArchiveInv'
  BY DEF IInv, TypeOK, ArchiveInv, StatusInv, Returned, Looks, Exists, Collected, DriveEnds,
    Fault, ReportedStatus
<1>6. OutcomeInv'
  BY DEF IInv, TypeOK, OutcomeInv, Returned, Found, Looks, DriveEnds, Fault, ReportedStatus
<1>7. FetchInv'
  BY DEF IInv, TypeOK, FetchInv, StatusInv, Returned, Looks, DriveEnds, Fault, ReportedStatus
<1> QED BY <1>1, <1>2, <1>3, <1>4, <1>5, <1>6, <1>7 DEF IInv

\* The sandbox is destroyed, or missed and left to work on.
LEMMA ReapStep ==
  ASSUME IInv, Reap
  PROVE  IInv'
<1>1. TypeOK'
  <2>1. TreesOK'
    BY DEF IInv, TypeOK, TreesOK, Reap, Killed
  <2>2. RecordsOK'
    BY OutcomeTypes DEF IInv, TypeOK, RecordsOK, Outcomes, Reap
  <2>3. ScalarsOK'
    BY DEF IInv, TypeOK, ScalarsOK, Reap, Killed, Fault, Looks
  <2> QED BY <2>1, <2>2, <2>3 DEF TypeOK, TreesOK, RecordsOK, Outcomes, ScalarsOK
<1>2. InputInv'
  BY DEF IInv, TypeOK, InputInv, InputsAreComplete, Reap, Killed, Fault, Looks, Raised,
    NoOutcome
<1>3. StatusInv'
  BY DEF IInv, TypeOK, StatusInv, Reap, Killed, Fault, Looks, Raised, NoOutcome
<1>4. CopyInv'
  <2>1. fetched' = Empty /\ listed' = {} /\ todo' = {} /\ asked' = asked /\ host' = host
    BY DEF IInv, CopyInv, Reap
  <2>2. pc' \in {"idle", "fetch", "return"}
    BY DEF Reap
  <2>3. \A f \in Files : fetched'[f] = Absent
    BY <2>1 DEF Empty
  <2>4. \A p \in asked.outputs : p.covers \subseteq Files
    BY DeclaredAreFiles DEF IInv, TypeOK
  <2> QED BY <2>1, <2>2, <2>3, <2>4 DEF CopyInv
<1>5. ArchiveInv'
  BY DEF IInv, TypeOK, ArchiveInv, StatusInv, Returned, Looks, Exists, Collected, Reap,
    Killed, Fault, Raised, NoOutcome
<1>6. OutcomeInv'
  BY DEF IInv, TypeOK, OutcomeInv, Returned, Found, Looks, Reap, Killed, Fault, Raised,
    NoOutcome
<1>7. FetchInv'
  BY DEF IInv, TypeOK, FetchInv, StatusInv, Returned, Looks, Reap, Killed, Fault, Raised,
    NoOutcome
<1> QED BY <1>1, <1>2, <1>3, <1>4, <1>5, <1>6, <1>7 DEF IInv

\* The outbox is listed.
LEMMA FetchStep ==
  ASSUME IInv, Fetch
  PROVE  IInv'
<1>1. TypeOK'
  BY DEF IInv, TypeOK, Fetch
<1>2. InputInv'
  BY DEF IInv, TypeOK, InputInv, InputsAreComplete, Fetch
<1>3. StatusInv'
  BY DEF IInv, TypeOK, StatusInv, Fetch
<1>4. CopyInv'
  <2>1. \A f \in Files : fetched[f] = Absent
    BY DEF IInv, CopyInv, Fetch, Empty
  <2>2. \A p \in asked.outputs : p.covers \subseteq Files
    BY DeclaredAreFiles DEF IInv, TypeOK
  <2> QED BY <2>1, <2>2 DEF IInv, CopyInv, Returned, Fetch
<1>5. ArchiveInv'
  BY DEF IInv, ArchiveInv, Exists, Collected, Fetch
<1>6. OutcomeInv'
  BY DEF OutcomeInv, Returned, Fetch
<1>7. FetchInv'
  <2>1. ASSUME NEW f \in Files, outbox[Output][f] # Absent
        PROVE  outbox[Output] # Empty
    BY <2>1 DEF Empty
  <2>2. Output \in Archives /\ (outbox[Output] # Empty => Output \in listed')
    BY DEF Fetch, Archives
  <2> QED BY <2>1, <2>2 DEF FetchInv, Fetch
<1> QED BY <1>1, <1>2, <1>3, <1>4, <1>5, <1>6, <1>7 DEF IInv

\* The next archive is got, and its declared paths are due.
LEMMA GetStep ==
  ASSUME IInv, Get
  PROVE  IInv'
<1> PICK a \in listed :
      /\ \A b \in listed : a <= b
      /\ listed' = listed \ {a}
      /\ got' = outbox[a] /\ fetched' = Over(outbox[a], fetched)
  BY DEF Get
<1>a. a \in Archives /\ outbox[a] \in Trees /\ fetched \in Trees
  BY DEF IInv, TypeOK
<1>b. fetched' \in Trees /\ got' \in Trees
  BY <1>a, OverIsTree
<1>c. \A f \in Files : fetched'[f] = IF outbox[a][f] = Absent THEN fetched[f] ELSE outbox[a][f]
  BY DEF Over
<1>1. TypeOK'
  BY <1>b DEF IInv, TypeOK, Get
<1>2. InputInv'
  BY DEF IInv, TypeOK, InputInv, InputsAreComplete, Get
<1>3. StatusInv'
  BY DEF IInv, TypeOK, StatusInv, Get
<1>4. CopyInv'
  <2>1. \A p \in asked.outputs : p.covers \subseteq Files
    BY DeclaredAreFiles DEF IInv, TypeOK
  <2>2. pc = "get" /\ pc' = "copy" /\ todo' = asked.outputs /\ host' = host /\ asked' = asked
    BY DEF Get
  <2>3. todo = {}
    BY <2>2 DEF IInv, CopyInv
  <2>4. ~Returned'
    BY <2>2 DEF Returned
  <2>5. \A f \in Files : got'[f] # Absent => fetched'[f] = got'[f]
    BY <1>c
  <2>6. ASSUME NEW p \in asked.outputs, p.kind # "dir", NEW f \in p.covers \ Outside,
               fetched'[f] # Absent, got'[f] = Absent
        PROVE  host[f] = fetched'[f]
    <3>1. f \in Files /\ fetched'[f] = fetched[f]
      BY <1>c, <2>1, <2>6
    <3> QED BY <2>2, <2>3, <2>6, <3>1 DEF IInv, CopyInv
  <2> QED BY <2>2, <2>4, <2>5, <2>6 DEF CopyInv
<1>5. ArchiveInv'
  BY DEF IInv, ArchiveInv, Exists, Collected, Get
<1>6. OutcomeInv'
  BY DEF OutcomeInv, Returned, Get
<1>7. FetchInv'
  <2> SUFFICES ASSUME status = "success", Looks
               PROVE  FetchInv'
    BY DEF FetchInv, Looks, Get
  <2>1. pc = "get" /\ outbox' = outbox
    BY DEF Get
  <2>2. Output \in Nat /\ \A b \in listed : b \in Nat
    BY DEF IInv, TypeOK, Archives
  <2>3. ASSUME outbox[Output] # Empty, Output \notin listed', NEW b \in listed'
        PROVE  b > Output
    BY <2>1, <2>2, <2>3 DEF IInv, FetchInv
  <2>4. ASSUME NEW f \in Files, outbox[Output][f] # Absent, Output \notin listed'
        PROVE  /\ fetched'[f] # Absent
               /\ (\A b \in Archives : b > Output => outbox[b][f] = Absent)
                    => fetched'[f] = outbox[Output][f]
    <3>1. CASE a = Output
      BY <1>c, <2>4, <3>1
    <3>2. CASE a # Output
      <4>1. Output \notin listed
        BY <2>4, <3>2
      <4>2. outbox[Output] # Empty
        BY <2>4 DEF Empty
      <4>3. a > Output
        BY <2>1, <4>1, <4>2 DEF IInv, FetchInv
      <4>4. /\ fetched[f] # Absent
            /\ (\A b \in Archives : b > Output => outbox[b][f] = Absent)
                 => fetched[f] = outbox[Output][f]
        BY <2>1, <2>4, <4>1 DEF IInv, FetchInv
      <4> QED BY <1>a, <1>c, <4>3, <4>4
    <3> QED BY <3>1, <3>2
  <2> QED BY <2>1, <2>3, <2>4 DEF FetchInv
<1> QED BY <1>1, <1>2, <1>3, <1>4, <1>5, <1>6, <1>7 DEF IInv

\* All that was listed has been got.
LEMMA FetchEndsStep ==
  ASSUME IInv, FetchEnds
  PROVE  IInv'
<1>1. TypeOK'
  BY DEF IInv, TypeOK, FetchEnds
<1>2. InputInv'
  BY DEF IInv, TypeOK, InputInv, InputsAreComplete, FetchEnds
<1>3. StatusInv'
  BY DEF IInv, TypeOK, StatusInv, FetchEnds
<1>4. CopyInv'
  BY DEF IInv, TypeOK, CopyInv, Returned, FetchEnds
<1>5. ArchiveInv'
  BY DEF IInv, ArchiveInv, Exists, Collected, FetchEnds
<1>6. OutcomeInv'
  BY DEF OutcomeInv, Returned, FetchEnds
<1>7. FetchInv'
  BY DEF IInv, FetchInv, Returned, Looks, FetchEnds
<1> QED BY <1>1, <1>2, <1>3, <1>4, <1>5, <1>6, <1>7 DEF IInv

\* One declared path is looked up and copied.
LEMMA CopyStep ==
  ASSUME IInv, Copy
  PROVE  IInv'
<1>1. TypeOK'
  BY DEF IInv, TypeOK, Copy, Trees, Content, Empty, Taken, Remaining, Matches, Contained
<1>2. InputInv'
  BY DEF IInv, TypeOK, InputInv, InputsAreComplete, Copy, Taken, Remaining, Matches, Contained
<1>3. StatusInv'
  BY DEF IInv, TypeOK, StatusInv, Copy, Taken, Remaining, Matches, Contained
<1>4. CopyInv'
  <2>1. PICK p \in todo :
          /\ host' = [f \in Files |-> IF f \in Taken(p) THEN got[f] ELSE host[f]]
          /\ todo' = todo \ {p}
    BY DEF Copy, Remaining
  <2>2. /\ pc = "copy" /\ pc' = "copy" /\ ~Returned'
        /\ got' = got /\ fetched' = fetched /\ asked' = asked
    BY DEF Copy, Returned
  <2>3. \A q \in asked.outputs : q.covers \subseteq Files
    BY DeclaredAreFiles DEF IInv, TypeOK
  <2>4. todo' \subseteq asked.outputs
    BY <2>1 DEF IInv, CopyInv
  <2>5. ASSUME NEW q \in asked.outputs, q.kind # "dir", NEW f \in q.covers \ Outside,
               fetched[f] # Absent, q \notin todo' \/ got[f] = Absent
        PROVE  host'[f] = fetched[f]
    <3>1. f \in Files
      BY <2>3, <2>5
    <3>2. CASE f \in Taken(p)
      <4>1. got[f] # Absent
        BY <3>2 DEF Taken
      <4> QED BY <2>1, <2>2, <3>1, <3>2, <4>1 DEF IInv, CopyInv
    <3>3. CASE f \notin Taken(p)
      <4>1. host'[f] = host[f]
        BY <2>1, <3>1, <3>3
      <4>2. q \notin todo \/ got[f] = Absent
        BY <2>1, <2>5, <3>1, <3>3 DEF Taken, Matches, Contained
      <4> QED BY <2>2, <2>5, <4>1, <4>2 DEF IInv, CopyInv
    <3> QED BY <3>2, <3>3
  <2>6. \A f \in Files : got[f] # Absent => fetched[f] = got[f]
    BY <2>2 DEF IInv, CopyInv
  <2> QED BY <2>2, <2>4, <2>5, <2>6 DEF CopyInv
<1>5. ArchiveInv'
  BY DEF IInv, TypeOK, ArchiveInv, StatusInv, Returned, Looks, Exists, Collected, Copy, Taken,
    Remaining, Matches, Contained
<1>6. OutcomeInv'
  BY DEF IInv, TypeOK, OutcomeInv, Returned, Found, Looks, Copy, Taken, Remaining, Matches,
    Contained
<1>7. FetchInv'
  BY DEF IInv, TypeOK, FetchInv, StatusInv, Returned, Looks, Copy, Taken, Remaining, Matches,
    Contained
<1> QED BY <1>1, <1>2, <1>3, <1>4, <1>5, <1>6, <1>7 DEF IInv

\* All that was declared has been looked up.
LEMMA CopyEndsStep ==
  ASSUME IInv, CopyEnds
  PROVE  IInv'
<1>1. TypeOK'
  BY DEF IInv, TypeOK, CopyEnds, Trees, Content, Empty
<1>2. InputInv'
  BY DEF IInv, TypeOK, InputInv, InputsAreComplete, CopyEnds
<1>3. StatusInv'
  BY DEF IInv, TypeOK, StatusInv, CopyEnds
<1>4. CopyInv'
  BY DEF IInv, TypeOK, CopyInv, Returned, CopyEnds, Empty
<1>5. ArchiveInv'
  BY DEF IInv, TypeOK, ArchiveInv, StatusInv, Returned, Looks, Exists, Collected, CopyEnds
<1>6. OutcomeInv'
  BY DEF IInv, TypeOK, OutcomeInv, Returned, Found, Looks, CopyEnds
<1>7. FetchInv'
  BY DEF IInv, TypeOK, FetchInv, StatusInv, Returned, Looks, CopyEnds
<1> QED BY <1>1, <1>2, <1>3, <1>4, <1>5, <1>6, <1>7 DEF IInv

\* The run returns what it found in the workspace.
LEMMA ReturnStep ==
  ASSUME IInv, Return
  PROVE  IInv'
<1>1. TypeOK'
  <2>1. TreesOK'
    BY DEF IInv, TypeOK, TreesOK, Return
  <2>2. RecordsOK'
    BY DEF IInv, TypeOK, RecordsOK, Outcomes, Trees, Content, Absent, Return, Found,
      ReadVerdict, Looks, PathType
  <2>3. ScalarsOK'
    BY DEF IInv, TypeOK, ScalarsOK, Return
  <2> QED BY <2>1, <2>2, <2>3 DEF TypeOK, TreesOK, RecordsOK, Outcomes, ScalarsOK
<1>2. InputInv'
  BY DEF IInv, TypeOK, InputInv, InputsAreComplete, Return, Found, ReadVerdict, Looks
<1>3. StatusInv'
  BY DEF IInv, TypeOK, StatusInv, Return, Found, ReadVerdict, Looks
<1>4. CopyInv'
  BY DEF IInv, TypeOK, CopyInv, Returned, Return, Empty, Found, ReadVerdict, Looks
<1>5. ArchiveInv'
  BY DEF IInv, TypeOK, ArchiveInv, StatusInv, Returned, Looks, Exists, Collected, Return,
    Found, ReadVerdict
<1>6. OutcomeInv'
  BY DEF IInv, TypeOK, OutcomeInv, Returned, Found, Looks, Return, ReadVerdict
<1>7. FetchInv'
  BY DEF IInv, TypeOK, FetchInv, StatusInv, Returned, Looks, Return, ReadVerdict
<1> QED BY <1>1, <1>2, <1>3, <1>4, <1>5, <1>6, <1>7 DEF IInv

\* Any operation of the host raises and ends the run.
LEMMA RunRaisesStep ==
  ASSUME IInv, RunRaises
  PROVE  IInv'
<1>1. TypeOK'
  <2>1. TreesOK'
    BY DEF IInv, TypeOK, TreesOK, Trees, RunRaises
  <2>2. RecordsOK'
    BY OutcomeTypes DEF IInv, TypeOK, RecordsOK, Outcomes, RunRaises
  <2>3. ScalarsOK'
    BY DEF IInv, TypeOK, ScalarsOK, RunRaises, Fault
  <2> QED BY <2>1, <2>2, <2>3 DEF TypeOK, TreesOK, RecordsOK, Outcomes, ScalarsOK
<1>2. InputInv'
  BY DEF IInv, TypeOK, InputInv, InputsAreComplete, RunRaises, Fault, Raised, NoOutcome,
    Taken, Matches, Contained
<1>3. StatusInv'
  BY DEF IInv, TypeOK, StatusInv, RunRaises, Fault, Raised, NoOutcome, Taken, Matches, Contained
<1>4. CopyInv'
  BY DEF IInv, TypeOK, CopyInv, Returned, RunRaises, Empty, Fault, Raised, NoOutcome, Taken,
    Matches, Contained
<1>5. ArchiveInv'
  BY DEF IInv, TypeOK, ArchiveInv, StatusInv, Returned, Looks, Exists, Collected, RunRaises,
    Fault, Raised, NoOutcome, Taken, Matches, Contained
<1>6. OutcomeInv'
  BY DEF IInv, TypeOK, OutcomeInv, Returned, Found, Looks, RunRaises, Fault, Raised,
    NoOutcome, Taken, Matches, Contained
<1>7. FetchInv'
  BY DEF IInv, TypeOK, FetchInv, StatusInv, Returned, Looks, RunRaises, Fault, Raised,
    NoOutcome, Taken, Matches, Contained
<1> QED BY <1>1, <1>2, <1>3, <1>4, <1>5, <1>6, <1>7 DEF IInv

\* The guest unpacks all of the input archive.
LEMMA GuestStageStep ==
  ASSUME IInv, GuestStage
  PROVE  IInv'
<1>1. TypeOK'
  BY DEF IInv, TypeOK, GuestStage, Trees, Content, Empty
<1>2. InputInv'
  BY DEF IInv, TypeOK, InputInv, InputsAreComplete, GuestStage
<1>3. StatusInv'
  BY DEF IInv, TypeOK, StatusInv, GuestStage
<1>4. CopyInv'
  BY DEF IInv, TypeOK, CopyInv, Returned, GuestStage, Empty
<1>5. ArchiveInv'
  BY DEF IInv, TypeOK, ArchiveInv, StatusInv, Returned, Looks, Exists, Collected, GuestStage
<1>6. OutcomeInv'
  BY DEF IInv, TypeOK, OutcomeInv, Returned, Found, Looks, GuestStage
<1>7. FetchInv'
  BY DEF IInv, TypeOK, FetchInv, StatusInv, Returned, Looks, GuestStage
<1> QED BY <1>1, <1>2, <1>3, <1>4, <1>5, <1>6, <1>7 DEF IInv

\* It fails to, and the program does not start.
LEMMA GuestStageFailsStep ==
  ASSUME IInv, GuestStageFails
  PROVE  IInv'
<1>1. TypeOK'
  <2>1. TreesOK'
    BY EmptyIsTree DEF IInv, TypeOK, TreesOK, Trees, Empty, GuestStageFails
  <2>2. RecordsOK'
    BY DEF IInv, TypeOK, RecordsOK, Outcomes, GuestStageFails
  <2>3. ScalarsOK'
    BY DEF IInv, TypeOK, ScalarsOK, GuestStageFails, AfterStagingFailed
  <2> QED BY <2>1, <2>2, <2>3 DEF TypeOK, TreesOK, RecordsOK, Outcomes, ScalarsOK
<1>2. InputInv'
  BY DEF IInv, TypeOK, InputInv, InputsAreComplete, GuestStageFails, AfterStagingFailed
<1>3. StatusInv'
  BY DEF IInv, TypeOK, StatusInv, GuestStageFails, AfterStagingFailed
<1>4. CopyInv'
  BY DEF IInv, TypeOK, CopyInv, Returned, GuestStageFails, Empty, AfterStagingFailed
<1>5. ArchiveInv'
  <2>1. resultObj = "none" /\ resultObj' = "none" /\ gpc' = "report" /\ status # "success"
    BY DEF IInv, StatusInv, GuestStageFails, AfterStagingFailed
  <2>2. rc' = "none"
    BY DEF IInv, StatusInv, GuestStageFails
  <2> QED
    BY <2>1, <2>2 DEF ArchiveInv, GuestStageFails
<1>6. OutcomeInv'
  BY DEF IInv, TypeOK, OutcomeInv, Returned, Found, Looks, GuestStageFails, AfterStagingFailed
<1>7. FetchInv'
  BY DEF IInv, TypeOK, FetchInv, StatusInv, Returned, Looks, GuestStageFails, AfterStagingFailed
<1> QED BY <1>1, <1>2, <1>3, <1>4, <1>5, <1>6, <1>7 DEF IInv

\* The program changes its workspace and ends.
LEMMA WorkStep ==
  ASSUME IInv, Work
  PROVE  IInv'
<1>1. TypeOK'
  <2>1. TreesOK'
    BY EmptyIsTree DEF IInv, TypeOK, TreesOK, Trees, Content, Absent, Work
  <2>2. RecordsOK'
    BY DEF IInv, TypeOK, RecordsOK, Outcomes, Work
  <2>3. ScalarsOK'
    BY DEF IInv, TypeOK, ScalarsOK, Work, AfterWork
  <2> QED BY <2>1, <2>2, <2>3 DEF TypeOK, TreesOK, RecordsOK, Outcomes, ScalarsOK
<1>2. InputInv'
  BY DEF IInv, TypeOK, InputInv, InputsAreComplete, Work, AfterWork
<1>3. StatusInv'
  BY DEF IInv, TypeOK, StatusInv, Work, AfterWork
<1>4. CopyInv'
  BY DEF IInv, TypeOK, CopyInv, Returned, Work, Empty, AfterWork
<1>5. ArchiveInv'
  BY DEF IInv, TypeOK, ArchiveInv, StatusInv, Returned, Looks, Exists, Collected, Work,
    AfterWork
<1>6. OutcomeInv'
  BY DEF IInv, TypeOK, OutcomeInv, Returned, Found, Looks, Work, AfterWork
<1>7. FetchInv'
  BY DEF IInv, TypeOK, FetchInv, StatusInv, Returned, Looks, Work, AfterWork
<1> QED BY <1>1, <1>2, <1>3, <1>4, <1>5, <1>6, <1>7 DEF IInv

\* The program puts an archive of its own into the outbox.
LEMMA WorkloadPutsStep ==
  ASSUME IInv, WorkloadPuts
  PROVE  IInv'
<1>1. TypeOK'
  <2>1. TreesOK'
    BY DEF IInv, TypeOK, TreesOK, Trees, Content, Absent, WorkloadPuts
  <2>2. RecordsOK'
    BY DEF IInv, TypeOK, RecordsOK, Outcomes, WorkloadPuts
  <2>3. ScalarsOK'
    BY DEF IInv, TypeOK, ScalarsOK, WorkloadPuts
  <2> QED BY <2>1, <2>2, <2>3 DEF TypeOK, TreesOK, RecordsOK, Outcomes, ScalarsOK
<1>2. InputInv'
  BY DEF IInv, TypeOK, InputInv, InputsAreComplete, WorkloadPuts
<1>3. StatusInv'
  BY DEF IInv, TypeOK, StatusInv, WorkloadPuts
<1>4. CopyInv'
  BY DEF IInv, TypeOK, CopyInv, Returned, WorkloadPuts, Empty
<1>5. ArchiveInv'
  BY DEF IInv, TypeOK, ArchiveInv, StatusInv, Returned, Looks, Exists, Collected, WorkloadPuts
<1>6. OutcomeInv'
  BY DEF IInv, TypeOK, OutcomeInv, Returned, Found, Looks, WorkloadPuts
<1>7. FetchInv'
  BY DEF IInv, TypeOK, FetchInv, StatusInv, Returned, Looks, WorkloadPuts
<1> QED BY <1>1, <1>2, <1>3, <1>4, <1>5, <1>6, <1>7 DEF IInv

\* The guest puts the output archive.
LEMMA CollectStep ==
  ASSUME IInv, Collect
  PROVE  IInv'
<1>1. TypeOK'
  <2>1. TreesOK'
    BY CollectedIsTree DEF IInv, TypeOK, TreesOK, Collect
  <2>2. RecordsOK'
    BY DEF IInv, TypeOK, RecordsOK, Outcomes, Collect
  <2>3. ScalarsOK'
    BY DEF IInv, TypeOK, ScalarsOK, Collect
  <2> QED BY <2>1, <2>2, <2>3 DEF TypeOK, TreesOK, RecordsOK, Outcomes, ScalarsOK
<1>2. InputInv'
  BY DEF IInv, TypeOK, InputInv, InputsAreComplete, Collect, Collected
<1>3. StatusInv'
  BY DEF IInv, TypeOK, StatusInv, Collect, Collected
<1>4. CopyInv'
  BY DEF IInv, TypeOK, CopyInv, Returned, Collect, Empty, Collected
<1>5. ArchiveInv'
  <2>1. outbox'[Output] = Collected /\ Collected' = Collected
    BY CollectedIsTree DEF IInv, TypeOK, Collect, Collected
  <2> QED BY <2>1 DEF ArchiveInv
<1>6. OutcomeInv'
  BY DEF IInv, TypeOK, OutcomeInv, Returned, Found, Looks, Collect, Collected
<1>7. FetchInv'
  BY DEF IInv, TypeOK, FetchInv, StatusInv, Returned, Looks, Collect, Collected
<1> QED BY <1>1, <1>2, <1>3, <1>4, <1>5, <1>6, <1>7 DEF IInv

\* It fails to, with or without effect on the outbox.
LEMMA CollectFailsStep ==
  ASSUME IInv, CollectFails
  PROVE  IInv'
<1>1. TypeOK'
  <2>1. TreesOK'
    BY CollectedIsTree DEF IInv, TypeOK, TreesOK, CollectFails
  <2>2. RecordsOK'
    BY DEF IInv, TypeOK, RecordsOK, Outcomes, CollectFails
  <2>3. ScalarsOK'
    BY DEF IInv, TypeOK, ScalarsOK, CollectFails, Fault
  <2> QED BY <2>1, <2>2, <2>3 DEF TypeOK, TreesOK, RecordsOK, Outcomes, ScalarsOK
<1>2. InputInv'
  BY DEF IInv, TypeOK, InputInv, InputsAreComplete, CollectFails, Fault, Collected
<1>3. StatusInv'
  BY DEF IInv, TypeOK, StatusInv, CollectFails, Fault, Collected
<1>4. CopyInv'
  BY DEF IInv, TypeOK, CopyInv, Returned, CollectFails, Empty, Fault, Collected
<1>5. ArchiveInv'
  BY DEF IInv, TypeOK, ArchiveInv, StatusInv, Returned, Looks, Exists, Collected,
    CollectFails, Fault
<1>6. OutcomeInv'
  BY DEF IInv, TypeOK, OutcomeInv, Returned, Found, Looks, CollectFails, Fault, Collected
<1>7. FetchInv'
  BY DEF IInv, TypeOK, FetchInv, StatusInv, Returned, Looks, CollectFails, Fault, Collected
<1> QED BY <1>1, <1>2, <1>3, <1>4, <1>5, <1>6, <1>7 DEF IInv

\* The guest reports: result, manifest, exit.
LEMMA GuestReportsStep ==
  ASSUME IInv, GuestReports
  PROVE  IInv'
<1>1. TypeOK'
  <2>1. TreesOK'
    BY DEF IInv, TypeOK, TreesOK, GuestReports
  <2>2. RecordsOK'
    BY DEF IInv, TypeOK, RecordsOK, Outcomes, GuestReports
  <2>3. ScalarsOK'
    BY DEF IInv, TypeOK, ScalarsOK, GuestReports, Report!Next, Report!WriteResult,
      Report!Seal, Report!Exit
  <2> QED BY <2>1, <2>2, <2>3 DEF TypeOK, TreesOK, RecordsOK, Outcomes, ScalarsOK
<1>2. InputInv'
  BY DEF IInv, TypeOK, InputInv, InputsAreComplete, GuestReports, Report!Next,
    Report!WriteResult, Report!Seal, Report!Exit
<1>3. StatusInv'
  BY DEF IInv, TypeOK, StatusInv, GuestReports, Report!Next, Report!WriteResult, Report!Seal,
    Report!Exit
<1>4. CopyInv'
  BY DEF IInv, TypeOK, CopyInv, Returned, GuestReports, Empty, Report!Next,
    Report!WriteResult, Report!Seal, Report!Exit
<1>5. ArchiveInv'
  BY DEF IInv, TypeOK, ArchiveInv, StatusInv, Returned, Looks, Exists, Collected,
    GuestReports, Report!Next, Report!WriteResult, Report!Seal, Report!Exit
<1>6. OutcomeInv'
  BY DEF IInv, TypeOK, OutcomeInv, Returned, Found, Looks, GuestReports, Report!Next,
    Report!WriteResult, Report!Seal, Report!Exit
<1>7. FetchInv'
  BY DEF IInv, TypeOK, FetchInv, StatusInv, Returned, Looks, GuestReports, Report!Next,
    Report!WriteResult, Report!Seal, Report!Exit
<1> QED BY <1>1, <1>2, <1>3, <1>4, <1>5, <1>6, <1>7 DEF IInv

\* The guest dies, wherever it is.
LEMMA GuestDiesStep ==
  ASSUME IInv, GuestDies
  PROVE  IInv'
<1>1. TypeOK'
  BY DEF IInv, TypeOK, GuestDies, Trees, Content, Empty, Killed
<1>2. InputInv'
  BY DEF IInv, TypeOK, InputInv, InputsAreComplete, GuestDies, Killed
<1>3. StatusInv'
  BY DEF IInv, TypeOK, StatusInv, GuestDies, Killed
<1>4. CopyInv'
  BY DEF IInv, TypeOK, CopyInv, Returned, GuestDies, Empty, Killed
<1>5. ArchiveInv'
  BY DEF IInv, TypeOK, ArchiveInv, StatusInv, Returned, Looks, Exists, Collected, GuestDies,
    Killed
<1>6. OutcomeInv'
  BY DEF IInv, TypeOK, OutcomeInv, Returned, Found, Looks, GuestDies, Killed
<1>7. FetchInv'
  BY DEF IInv, TypeOK, FetchInv, StatusInv, Returned, Looks, GuestDies, Killed
<1> QED BY <1>1, <1>2, <1>3, <1>4, <1>5, <1>6, <1>7 DEF IInv
-----------------------------------------------------------------------------
(* The invariant, and what follows from it. *)

\* No run has begun.
LEMMA InitIInv == Init => IInv
<1> SUFFICES ASSUME Init PROVE IInv
  OBVIOUS
<1>1. TypeOK
  <2>1. TreesOK
    BY EmptyIsTree, NoArchivesType DEF Init, TreesOK, Trees, Content, Absent
  <2>2. RecordsOK
    BY OutcomeTypes DEF Init, RecordsOK, Outcomes
  <2>3. ScalarsOK
    <3>1. manifest \in BOOLEAN
      BY Zenon DEF Init, Report!Init
    <3> QED BY <3>1 DEF Init, ScalarsOK, Report!Init
  <2> QED BY <2>1, <2>2, <2>3 DEF TypeOK, TreesOK, RecordsOK, Outcomes, ScalarsOK
<1>2. InputInv
  BY DEF Init, InputInv, InputsAreComplete
<1>3. StatusInv
  BY DEF Init, StatusInv, Report!Init
<1>4. ~Returned
  BY DEF Init, Returned, NoOutcome
<1>5. CopyInv /\ OutcomeInv
  BY <1>4 DEF Init, CopyInv, OutcomeInv
<1>6. ArchiveInv
  BY <1>4 DEF Init, ArchiveInv, Report!Init
<1>7. FetchInv
  BY <1>4 DEF Init, FetchInv
<1> QED BY <1>1, <1>2, <1>3, <1>5, <1>6, <1>7 DEF IInv

\* Nothing happens.
LEMMA StutterStep ==
  ASSUME IInv, UNCHANGED vars
  PROVE  IInv'
<1>1. TypeOK'
  BY DEF IInv, TypeOK
<1>2. InputInv'
  BY DEF IInv, InputInv, InputsAreComplete
<1>3. StatusInv'
  BY DEF IInv, StatusInv
<1>4. CopyInv'
  BY DEF IInv, CopyInv, Returned
<1>5. ArchiveInv'
  BY DEF IInv, ArchiveInv, Returned, Looks, Exists, Collected
<1>6. OutcomeInv'
  BY DEF IInv, OutcomeInv, Returned, Found, Looks
<1>7. FetchInv'
  BY DEF IInv, FetchInv, Returned, Looks
<1> QED BY <1>1, <1>2, <1>3, <1>4, <1>5, <1>6, <1>7 DEF IInv

\* Every step keeps the invariant.
LEMMA NextIInv == IInv /\ [Next]_vars => IInv'
<1> SUFFICES ASSUME IInv, [Next]_vars PROVE IInv'
  OBVIOUS
<1>1. CASE Begin
  BY <1>1, BeginStep
<1>2. CASE StageIn
  BY <1>2, StageInStep
<1>3. CASE Launch
  BY <1>3, LaunchStep
<1>4. CASE DriveEnds
  BY <1>4, DriveEndsStep
<1>5. CASE Reap
  BY <1>5, ReapStep
<1>6. CASE Fetch
  BY <1>6, FetchStep
<1>7. CASE Copy
  BY <1>7, CopyStep
<1>8. CASE CopyEnds
  BY <1>8, CopyEndsStep
<1>9. CASE Return
  BY <1>9, ReturnStep
<1>10. CASE RunRaises
  BY <1>10, RunRaisesStep
<1>11. CASE GuestStage
  BY <1>11, GuestStageStep
<1>12. CASE GuestStageFails
  BY <1>12, GuestStageFailsStep
<1>13. CASE Work
  BY <1>13, WorkStep
<1>14. CASE WorkloadPuts
  BY <1>14, WorkloadPutsStep
<1>15. CASE Collect
  BY <1>15, CollectStep
<1>16. CASE CollectFails
  BY <1>16, CollectFailsStep
<1>17. CASE GuestReports
  BY <1>17, GuestReportsStep
<1>18. CASE GuestDies
  BY <1>18, GuestDiesStep
<1>19. CASE Get
  BY <1>19, GetStep
<1>20. CASE FetchEnds
  BY <1>20, FetchEndsStep
<1>21. CASE UNCHANGED vars
  BY <1>21, StutterStep
<1> QED
  BY <1>1, <1>2, <1>3, <1>4, <1>5, <1>6, <1>7, <1>8, <1>9, <1>10,
     <1>11, <1>12, <1>13, <1>14, <1>15, <1>16, <1>17, <1>18, <1>19,
     <1>20, <1>21
  DEF Next, Host, Guest

\* The inductive invariant holds of every run of the backend.
THEOREM Invariance == Spec => []IInv
BY InitIInv, NextIInv, PTL DEF Spec

\* Every variable keeps its type, and before its launch a run has neither a guest nor an
\* archive (SubstrateBackend.run).
THEOREM TypeCorrect == Spec => []TypeOK
<1>1. IInv => TypeOK
  BY DEF IInv
<1> QED BY <1>1, Invariance, PTL

\* A program works on the whole workspace that was handed in, less what staging leaves
\* out (put_dir and the runner's stage-in), or does not start.
THEOREM InputsComplete == Spec => []InputsAreComplete
<1>1. IInv => InputsAreComplete
  BY DEF IInv, InputInv
<1> QED BY <1>1, Invariance, PTL

\* Exit code 0 is returned only of a program that exited 0 and of a guest that is over
\* (drive_node's reading of result.json).
THEOREM SuccessIsEarned == Spec => []SuccessIsThePrograms
<1>1. IInv => SuccessIsThePrograms
  BY DEF IInv, StatusInv, OutcomeInv, SuccessIsThePrograms
<1> QED BY <1>1, Invariance, PTL

\* A run that returns has got every archive it listed and copied all that was declared of
\* them, the last one winning (fetch_outputs).
THEOREM AllIsCopied == Spec => []AllOrRaise
<1>1. IInv => AllOrRaise
  BY DEF IInv, CopyInv, AllOrRaise
<1> QED BY <1>1, Invariance, PTL

\* Without a fault the files declared by name are among the artifacts, as the program left
\* them unless it put an archive of its own that holds them under a name after
\* output.tar.gz (the runner's stage-out, fetch_outputs, _collect).
THEOREM DeclaredArrive == Spec => []DeclaredFilesArrive
<1>1. IInv => DeclaredFilesArrive
  <2> SUFFICES ASSUME IInv, Returned, outcome.ok, faults = 0, asked.workspace,
                      \A p \in asked.outputs :
                        p.kind = "file" /\ \E f \in p.covers : box[f] # Absent,
                      NEW p \in asked.outputs, NEW f \in p.covers \ Outside
               PROVE  /\ f \in outcome.artifacts
                      /\ \/ host[f] = box[f]
                         \/ \E a \in Archives : a > Output /\ outbox[a][f] # Absent
    BY DEF DeclaredFilesArrive
  <2>1. Looks
    BY DEF Looks
  <2>2. p \in Paths /\ f \in Files /\ p.covers = {f} /\ p.kind = "file"
    BY DEF IInv, TypeOK
  <2>3. box[f] # Absent
    BY <2>2
  <2>4. outbox[Output] = Collected
    <3>1. status = "success" /\ resultObj = "success" /\ rc = "zero"
      BY DEF IInv, OutcomeInv, StatusInv
    <3>2. \A q \in asked.outputs : Exists(q)
      BY DEF Exists
    <3> QED BY <2>1, <3>1, <3>2 DEF IInv, ArchiveInv
  <2>5. outbox[Output][f] = box[f]
    BY <2>2, <2>4 DEF Collected
  <2>6. listed = {} /\ todo = {} /\ status = "success"
    BY DEF IInv, CopyInv, OutcomeInv
  <2>7. /\ fetched[f] # Absent
        /\ (\A a \in Archives : a > Output => outbox[a][f] = Absent)
             => fetched[f] = outbox[Output][f]
    BY <2>1, <2>2, <2>3, <2>5, <2>6 DEF IInv, FetchInv
  <2>8. host[f] = fetched[f]
    BY <2>2, <2>6, <2>7 DEF IInv, CopyInv
  <2>9. f \in Found
    BY <2>1, <2>2, <2>7, <2>8 DEF Found
  <2> QED BY <2>5, <2>7, <2>8, <2>9 DEF IInv, OutcomeInv
<1> QED BY <1>1, Invariance, PTL

\* A step of a run changes no file of the workspace but a declared one inside it, and
\* that to what was fetched (_extract_declared, _copy_single).
THEOREM OnlyDeclaredIsChanged == Spec => OnlyDeclaredChange
<1> DEFINE Declared(f) == /\ f \notin Outside
                          /\ \E p \in asked.outputs : p.kind # "dir" /\ f \in p.covers
                          /\ host'[f] = got[f]
           Step == \A f \in Files : host'[f] # host[f] => Declared(f)
<1>1. IInv /\ [Next]_vars => [Step]_vars
  <2> SUFFICES ASSUME IInv, Next, NEW f \in Files, host'[f] # host[f]
               PROVE  Declared(f)
    OBVIOUS
  <2>1. host' # host
    OBVIOUS
  <2>2. \A p \in todo : p \in asked.outputs
    BY DEF IInv, CopyInv
  <2>3. CASE Copy
    BY <2>2, <2>3 DEF Copy, Taken, Matches, Contained
  <2>4. CASE RunRaises
    BY <2>1, <2>2, <2>4 DEF RunRaises, Taken, Matches, Contained
  <2>5. Copy \/ RunRaises
    BY <2>1 DEF Next, Host, Guest, Begin, StageIn, Launch, DriveEnds, Reap, Fetch, Get,
      FetchEnds, CopyEnds,
      Return, GuestStage, GuestStageFails, Work, WorkloadPuts, Collect, CollectFails,
      GuestReports, GuestDies
  <2> QED BY <2>3, <2>4, <2>5
<1> QED BY <1>1, Invariance, PTL DEF Spec, OnlyDeclaredChange

-----------------------------------------------------------------------------
(* What a run takes for granted of drive_node and of the guest is NodeDrive, once for   *)
(* each run; DriverProofs shows that drive_node keeps it.                               *)

Node == INSTANCE NodeDrive

\* The drive has ended once at most.
NodeInv == pc \in {"stage", "launch", "drive"} => status = "none"

\* Every step keeps it.
LEMMA NodeInvStep ==
  ASSUME NodeInv, [Next]_vars
  PROVE  NodeInv'
BY DEF NodeInv, Next, Host, Guest, Begin, StageIn, Launch, DriveEnds, Reap, Fetch, Get,
   FetchEnds, Copy, CopyEnds,
   Return, RunRaises, GuestStage, GuestStageFails, Work, WorkloadPuts, Collect, CollectFails,
   GuestReports, GuestDies

\* What each step is to NodeDrive: the next node, the end of a drive, a step of the
\* guest, its death, or nothing.
LEMMA NodeStep ==
  ASSUME NodeInv, [Next]_vars
  PROVE  [Node!Next \/ Node!NewNode]_Node!nodeVars
<1>1. CASE Begin
  BY <1>1 DEF Begin, Node!NewNode
<1>2. CASE DriveEnds
  BY <1>2 DEF DriveEnds, NodeInv, ReportedStatus, Node!Next, Node!End, Node!Reported
<1>3. CASE Killed /\ UNCHANGED status
  BY <1>3 DEF Killed, Node!Next, Node!GuestStep, Node!Guest!Next, Node!Guest!Exit, Node!nodeVars
<1>4. CASE GuestReports
  BY <1>4 DEF GuestReports, Report!Next, Report!WriteResult, Report!Seal, Report!Exit,
     Node!Next, Node!GuestStep, Node!Guest!Next, Node!Guest!WriteResult, Node!Guest!Seal,
     Node!Guest!Exit
<1>5. CASE UNCHANGED <<resultObj, manifest, exit, status>>
  BY <1>5 DEF Node!nodeVars
<1>6. Begin \/ DriveEnds \/ (Killed /\ UNCHANGED status) \/ GuestReports
        \/ UNCHANGED <<resultObj, manifest, exit, status>>
  BY DEF Next, Host, Guest, StageIn, Launch, Reap, Fetch, Get, FetchEnds, Copy,
     CopyEnds, Return, RunRaises, GuestStage, GuestStageFails, Work, WorkloadPuts, Collect, CollectFails, GuestDies
<1> QED BY <1>1, <1>2, <1>3, <1>4, <1>5, <1>6

\* The runs' drives and guests are NodeDrive's, one after the other: what SandboxRun takes
\* for granted of drive_node (driver.py:150-200) is what ImplementsNode proves of it.
THEOREM DrivesOneByOne == Spec => Node!OneByOne
<1>1. Init => NodeInv /\ Node!Init
  BY DEF Init, NodeInv, Report!Init, Node!Init, Node!Guest!Init
<1> QED
  BY <1>1, NodeInvStep, NodeStep, PTL DEF Spec, Node!OneByOne
-----------------------------------------------------------------------------
(* What it takes for granted of the guest is GuestWork, once for each run; RunnerProofs *)
(* shows that the runner keeps it.                                                      *)

Worker == INSTANCE GuestWork WITH Nothing <- NoArchives

\* Outputs are collected of a program that exited 0.
WorkerInv == gpc = "collect" => rc = "zero"

\* Every step keeps it.
LEMMA WorkerInvStep ==
  ASSUME WorkerInv, [Next]_vars
  PROVE  WorkerInv'
BY DEF WorkerInv, Next, Host, Guest, Begin, StageIn, Launch, DriveEnds, Reap, Killed, Fetch, Get,
   FetchEnds, Copy, CopyEnds, Return, RunRaises, GuestStage, GuestStageFails, AfterStagingFailed,
   Work, AfterWork, WorkloadPuts, Collect, CollectFails, GuestReports, GuestDies

\* What each step is to GuestWork: the next guest, the program's end, something put into
\* the outbox, a step of the report (also by a guest that dies), or nothing.
LEMMA WorkerStep ==
  ASSUME IInv, IInv', WorkerInv, [Next]_vars
  PROVE  [Worker!Next \/ Worker!NewGuest]_Worker!workVars
<1>1. CASE Begin
  BY <1>1 DEF Begin, FreshOutbox, Worker!NewGuest, Worker!Init, Worker!Report!Init
<1>2. CASE Work
  BY <1>2 DEF Work, IInv, StatusInv, TypeOK, Worker!Next, Worker!ProgramEnds, Worker!Unreported
<1>3. CASE WorkloadPuts \/ Collect \/ CollectFails
  <2>1. UNCHANGED <<rc, resultObj, manifest, exit>>
    BY <1>3 DEF WorkloadPuts, Collect, CollectFails
  <2>2. gpc \in {"work", "collect"}
    BY <1>3 DEF WorkloadPuts, Collect, CollectFails
  <2>3. Worker!Unreported /\ rc # "nonzero"
    BY <2>2 DEF IInv, StatusInv, TypeOK, WorkerInv, Worker!Unreported
  <2> QED BY <2>1, <2>3 DEF Worker!Next, Worker!PutOutputs
<1>4. CASE Killed
  <2>1. resultObj' = "success" => rc = "zero"
    BY <1>4 DEF Killed, IInv, StatusInv
  <2> QED BY <1>4, <2>1 DEF Killed, Worker!Next, Worker!Reports, Worker!Report!Next,
     Worker!Report!Exit, Worker!workVars
<1>5. CASE GuestReports
  BY <1>5 DEF GuestReports, Report!Next, Report!WriteResult, Report!Seal, Report!Exit,
     Worker!Next, Worker!Reports, Worker!Report!Next, Worker!Report!WriteResult,
     Worker!Report!Seal, Worker!Report!Exit
<1>6. CASE UNCHANGED <<rc, outbox, resultObj, manifest, exit>>
  BY <1>6 DEF Worker!workVars
<1>7. Begin \/ Work \/ WorkloadPuts \/ Collect \/ CollectFails \/ Killed \/ GuestReports
        \/ UNCHANGED <<rc, outbox, resultObj, manifest, exit>>
  BY DEF Next, Host, Guest, StageIn, Launch, DriveEnds, Reap, Fetch, Get,
     FetchEnds, Copy, CopyEnds, Return,
     RunRaises, GuestStage, GuestStageFails, GuestDies
<1> QED BY <1>1, <1>2, <1>3, <1>4, <1>5, <1>6, <1>7

\* The runs' guests are GuestWork's, one after the other: what SandboxRun takes for granted
\* of a guest (runner.py:117-136) is what ImplementsWork proves of the runner.
THEOREM GuestsOneByOne == Spec => Worker!OneByOne
<1>1. Init => WorkerInv /\ Worker!Init
  BY DEF Init, WorkerInv, Report!Init, Worker!Init, Worker!Report!Init
<1>2. IInv /\ IInv' /\ WorkerInv /\ [Next]_vars => [Worker!Next \/ Worker!NewGuest]_Worker!workVars
  BY WorkerStep
<1> QED BY <1>1, <1>2, WorkerInvStep, Invariance, PTL DEF Spec, Worker!OneByOne
=============================================================================
