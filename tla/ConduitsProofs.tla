--------------------------- MODULE ConduitsProofs ---------------------------
(***************************************************************************)
(* The conduits for any number of processes and any contents.  Filesystem: *)
(* one writer at a time is past its lock, so the shared temporary file is  *)
(* always that writer's, the visible file is always whole, and the conduit *)
(* implements AtomicObject.  Remote: what a call has sent and what it has  *)
(* been told agree, for any number of attempts and late requests.          *)
(***************************************************************************)
EXTENDS Conduits, Progress, TLAPS

\* p may create, write or rename the temporary file, or has just renamed it.
Active(p) == pc[p] \in {"open", "write", "replace"}

\* What a writer knows at each step.  WriterAlone covers unlocked puts, by the
\* protocol's division of keys, and locked swaps, by the lock.
CallsFit == \A p \in Proc :
  /\ pc[p] = "idle" <=> call[p] = Idle
  /\ pc[p] \in {"lock", "check"} => call[p].kind = "swap"
  /\ Active(p) \/ pc[p] \in {"idle", "lock", "check"} => answer[p] = "none"
  /\ pc[p] = "return" => answer[p] # "none"
  /\ pc[p] # "write" => fd[p] = "none"

WriterAlone == \A p, q \in Proc :
  call[p].kind = "put" /\ pc[q] # "idle" => p = q

WriterOwnsTmp == \A p \in Proc :
  /\ pc[p] = "write" => fd[p] = "tmp" /\ tmp # None
  /\ pc[p] = "replace" => tmp = call[p].data
  /\ Active(p) /\ call[p].kind = "swap" => file = call[p].expected

\* The inductive invariant.
IInv == TypeOK /\ CallsFit /\ WriterAlone /\ WriterOwnsTmp /\ NeverTorn

-----------------------------------------------------------------------------
\* What a call holds, by its kind.
LEMMA CallFields ==
  ASSUME NEW c \in Calls
  PROVE  /\ c.kind \in {"idle", "put", "swap"}
         /\ c.kind = "idle" <=> c = Idle
         /\ c.kind # "idle" => c.data \in Data
         /\ c.kind = "swap" => c.expected \in Data \cup {None}
BY DEF Calls, Idle

\* The initial state satisfies the invariant: no call, no file.
LEMMA InitInv == Init => IInv
<1> SUFFICES ASSUME Init PROVE IInv
  OBVIOUS
<1>1. \A p \in Proc : call[p] = Idle /\ call[p].kind = "idle" /\ pc[p] = "idle"
  BY DEF Init, Idle
<1>2. TypeOK
  BY <1>1, ConduitAssumption DEF Init, TypeOK, Contents, Calls, Locked
<1>3. CallsFit /\ WriterAlone /\ WriterOwnsTmp /\ NeverTorn
  BY <1>1, ConduitAssumption DEF Init, CallsFit, WriterAlone, WriterOwnsTmp, NeverTorn, Active
<1> QED
  BY <1>2, <1>3 DEF IInv

\* An unconditional put starts alone.
LEMMA StartPutInv ==
  ASSUME IInv, NEW p \in Proc, StartPut(p)
  PROVE  IInv'
<1> USE ConduitAssumption
<1>0. \A q \in Proc : call[q] \in Calls
  BY DEF IInv, TypeOK
<1>1. \A q \in Proc :
        /\ call[q].kind \in {"idle", "put", "swap"}
        /\ call[q].kind = "idle" <=> call[q] = Idle
        /\ call[q].kind # "idle" => call[q].data \in Data
        /\ call[q].kind = "swap" => call[q].expected \in Data \cup {None}
  BY <1>0, CallFields
<1>2. Idle \in Calls /\ Idle.kind = "idle"
  BY DEF Idle, Calls
<1>3. TypeOK'
  <2>1. PICK d \in Data : call' = [call EXCEPT ![p] = [kind |-> "put", data |-> d]]
    BY DEF StartPut
  <2>2. [kind |-> "put", data |-> d] \in Calls
    BY DEF Calls
  <2>3. call' \in [Proc -> Calls]
    BY <2>1, <2>2 DEF IInv, TypeOK
  <2>4. \A q \in Proc : lock' = q <=> Locked(q)'
    BY <1>1, <2>1 DEF IInv, TypeOK, CallsFit, Locked, StartPut, Goto
  <2> QED
    BY <2>3, <2>4 DEF IInv, TypeOK, Contents, StartPut, Goto
<1>4. CallsFit'
  BY <1>1, <1>2 DEF IInv, TypeOK, CallsFit, Active, StartPut, Goto
<1>5. WriterAlone'
  BY <1>1, <1>2 DEF IInv, TypeOK, CallsFit, WriterAlone, StartPut, Goto
<1>6. WriterOwnsTmp'
  BY <1>1, <1>2 DEF IInv, TypeOK, CallsFit, WriterAlone, WriterOwnsTmp, Active, Locked, NeverTorn, Contents, StartPut, Goto
<1>7. NeverTorn'
  BY <1>1, <1>2 DEF IInv, TypeOK, CallsFit, WriterAlone, WriterOwnsTmp, NeverTorn, Active, Locked, StartPut, Goto
<1> QED
  BY <1>3, <1>4, <1>5, <1>6, <1>7 DEF IInv

\* A conditional write starts behind whatever others are under way.
LEMMA StartSwapInv ==
  ASSUME IInv, NEW p \in Proc, StartSwap(p)
  PROVE  IInv'
<1> USE ConduitAssumption
<1>0. \A q \in Proc : call[q] \in Calls
  BY DEF IInv, TypeOK
<1>1. \A q \in Proc :
        /\ call[q].kind \in {"idle", "put", "swap"}
        /\ call[q].kind = "idle" <=> call[q] = Idle
        /\ call[q].kind # "idle" => call[q].data \in Data
        /\ call[q].kind = "swap" => call[q].expected \in Data \cup {None}
  BY <1>0, CallFields
<1>2. Idle \in Calls /\ Idle.kind = "idle"
  BY DEF Idle, Calls
<1>3. TypeOK'
  <2>1. PICK e \in Data \cup {None}, d \in Data : call' = [call EXCEPT ![p] = [kind |-> "swap", expected |-> e, data |-> d]]
    BY DEF StartSwap
  <2>2. [kind |-> "swap", expected |-> e, data |-> d] \in Calls
    BY DEF Calls
  <2>3. call' \in [Proc -> Calls]
    BY <2>1, <2>2 DEF IInv, TypeOK
  <2>4. \A q \in Proc : lock' = q <=> Locked(q)'
    BY <1>1, <2>1 DEF IInv, TypeOK, CallsFit, Locked, StartSwap, Goto
  <2> QED
    BY <2>3, <2>4 DEF IInv, TypeOK, Contents, StartSwap, Goto
<1>4. CallsFit'
  BY <1>1, <1>2 DEF IInv, TypeOK, CallsFit, Active, StartSwap, Goto
<1>5. WriterAlone'
  BY <1>1, <1>2 DEF IInv, TypeOK, CallsFit, WriterAlone, StartSwap, Goto
<1>6. WriterOwnsTmp'
  BY <1>1, <1>2 DEF IInv, TypeOK, CallsFit, WriterAlone, WriterOwnsTmp, Active, Locked, NeverTorn, Contents, StartSwap, Goto
<1>7. NeverTorn'
  BY <1>1, <1>2 DEF IInv, TypeOK, CallsFit, WriterAlone, WriterOwnsTmp, NeverTorn, Active, Locked, StartSwap, Goto
<1> QED
  BY <1>3, <1>4, <1>5, <1>6, <1>7 DEF IInv

\* The lock goes to a process only when it is free.
LEMMA TryLockInv ==
  ASSUME IInv, NEW p \in Proc, TryLock(p)
  PROVE  IInv'
<1> USE ConduitAssumption
<1>0. \A q \in Proc : call[q] \in Calls
  BY DEF IInv, TypeOK
<1>1. \A q \in Proc :
        /\ call[q].kind \in {"idle", "put", "swap"}
        /\ call[q].kind = "idle" <=> call[q] = Idle
        /\ call[q].kind # "idle" => call[q].data \in Data
        /\ call[q].kind = "swap" => call[q].expected \in Data \cup {None}
  BY <1>0, CallFields
<1>2. Idle \in Calls /\ Idle.kind = "idle"
  BY DEF Idle, Calls
<1>3. TypeOK'
  BY <1>1, <1>2 DEF IInv, TypeOK, CallsFit, WriterAlone, WriterOwnsTmp, NeverTorn, Active, Locked, Contents, TryLock, LockFree, Goto
<1>4. CallsFit'
  BY <1>1, <1>2 DEF IInv, TypeOK, CallsFit, Active, TryLock, LockFree, Goto
<1>5. WriterAlone'
  BY <1>1, <1>2 DEF IInv, TypeOK, CallsFit, WriterAlone, TryLock, LockFree, Goto
<1>6. WriterOwnsTmp'
  BY <1>1, <1>2 DEF IInv, TypeOK, CallsFit, WriterAlone, WriterOwnsTmp, Active, Locked, NeverTorn, Contents, TryLock, LockFree, Goto
<1>7. NeverTorn'
  BY <1>1, <1>2 DEF IInv, TypeOK, CallsFit, WriterAlone, WriterOwnsTmp, NeverTorn, Active, Locked, TryLock, LockFree, Goto
<1> QED
  BY <1>3, <1>4, <1>5, <1>6, <1>7 DEF IInv

\* The comparison leaves the holder with the expected content, or with its answer.
LEMMA CheckInv ==
  ASSUME IInv, NEW p \in Proc, Check(p)
  PROVE  IInv'
<1> USE ConduitAssumption
<1>0. \A q \in Proc : call[q] \in Calls
  BY DEF IInv, TypeOK
<1>1. \A q \in Proc :
        /\ call[q].kind \in {"idle", "put", "swap"}
        /\ call[q].kind = "idle" <=> call[q] = Idle
        /\ call[q].kind # "idle" => call[q].data \in Data
        /\ call[q].kind = "swap" => call[q].expected \in Data \cup {None}
  BY <1>0, CallFields
<1>2. Idle \in Calls /\ Idle.kind = "idle"
  BY DEF Idle, Calls
<1>3. TypeOK'
  BY <1>1, <1>2 DEF IInv, TypeOK, CallsFit, WriterAlone, WriterOwnsTmp, NeverTorn, Active, Locked, Contents, Check, Goto
<1>4. CallsFit'
  BY <1>1, <1>2 DEF IInv, TypeOK, CallsFit, Active, Check, Goto
<1>5. WriterAlone'
  BY <1>1, <1>2 DEF IInv, TypeOK, CallsFit, WriterAlone, Check, Goto
<1>6. WriterOwnsTmp'
  BY <1>1, <1>2 DEF IInv, TypeOK, CallsFit, WriterAlone, WriterOwnsTmp, Active, Locked, NeverTorn, Contents, Check, Goto
<1>7. NeverTorn'
  BY <1>1, <1>2 DEF IInv, TypeOK, CallsFit, WriterAlone, WriterOwnsTmp, NeverTorn, Active, Locked, Check, Goto
<1> QED
  BY <1>3, <1>4, <1>5, <1>6, <1>7 DEF IInv

\* The one writer empties the temporary file; nobody else has it open.
LEMMA OpenTmpInv ==
  ASSUME IInv, NEW p \in Proc, OpenTmp(p)
  PROVE  IInv'
<1> USE ConduitAssumption
<1>0. \A q \in Proc : call[q] \in Calls
  BY DEF IInv, TypeOK
<1>1. \A q \in Proc :
        /\ call[q].kind \in {"idle", "put", "swap"}
        /\ call[q].kind = "idle" <=> call[q] = Idle
        /\ call[q].kind # "idle" => call[q].data \in Data
        /\ call[q].kind = "swap" => call[q].expected \in Data \cup {None}
  BY <1>0, CallFields
<1>2. Idle \in Calls /\ Idle.kind = "idle"
  BY DEF Idle, Calls
<1>3. TypeOK'
  BY <1>1, <1>2 DEF IInv, TypeOK, CallsFit, WriterAlone, WriterOwnsTmp, NeverTorn, Active, Locked, Contents, OpenTmp, Target, Goto
<1>4. CallsFit'
  BY <1>1, <1>2 DEF IInv, TypeOK, CallsFit, Active, OpenTmp, Target, Goto
<1>5. WriterAlone'
  BY <1>1, <1>2 DEF IInv, TypeOK, CallsFit, WriterAlone, OpenTmp, Target, Goto
<1>6. WriterOwnsTmp'
  BY <1>1, <1>2 DEF IInv, TypeOK, CallsFit, WriterAlone, WriterOwnsTmp, Active, Locked, NeverTorn, Contents, OpenTmp, Target, Goto
<1>7. NeverTorn'
  BY <1>1, <1>2 DEF IInv, TypeOK, CallsFit, WriterAlone, WriterOwnsTmp, NeverTorn, Active, Locked, OpenTmp, Target, Goto
<1> QED
  BY <1>3, <1>4, <1>5, <1>6, <1>7 DEF IInv

\* The writer's content goes into the temporary file it opened.
LEMMA WriteInv ==
  ASSUME IInv, NEW p \in Proc, Write(p)
  PROVE  IInv'
<1> USE ConduitAssumption
<1>0. \A q \in Proc : call[q] \in Calls
  BY DEF IInv, TypeOK
<1>1. \A q \in Proc :
        /\ call[q].kind \in {"idle", "put", "swap"}
        /\ call[q].kind = "idle" <=> call[q] = Idle
        /\ call[q].kind # "idle" => call[q].data \in Data
        /\ call[q].kind = "swap" => call[q].expected \in Data \cup {None}
  BY <1>0, CallFields
<1>2. Idle \in Calls /\ Idle.kind = "idle"
  BY DEF Idle, Calls
<1>3. TypeOK'
  BY <1>1, <1>2 DEF IInv, TypeOK, CallsFit, WriterAlone, WriterOwnsTmp, NeverTorn, Active, Locked, Contents, Write, Goto
<1>4. CallsFit'
  BY <1>1, <1>2 DEF IInv, TypeOK, CallsFit, Active, Write, Goto
<1>5. WriterAlone'
  BY <1>1, <1>2 DEF IInv, TypeOK, CallsFit, WriterAlone, Write, Goto
<1>6. WriterOwnsTmp'
  BY <1>1, <1>2 DEF IInv, TypeOK, CallsFit, WriterAlone, WriterOwnsTmp, Active, Locked, NeverTorn, Contents, Write, Goto
<1>7. NeverTorn'
  BY <1>1, <1>2 DEF IInv, TypeOK, CallsFit, WriterAlone, WriterOwnsTmp, NeverTorn, Active, Locked, Write, Goto
<1> QED
  BY <1>3, <1>4, <1>5, <1>6, <1>7 DEF IInv

\* The temporary file the writer renames holds all of its content.
LEMMA ReplaceInv ==
  ASSUME IInv, NEW p \in Proc, Replace(p)
  PROVE  IInv'
<1> USE ConduitAssumption
<1>0. \A q \in Proc : call[q] \in Calls
  BY DEF IInv, TypeOK
<1>1. \A q \in Proc :
        /\ call[q].kind \in {"idle", "put", "swap"}
        /\ call[q].kind = "idle" <=> call[q] = Idle
        /\ call[q].kind # "idle" => call[q].data \in Data
        /\ call[q].kind = "swap" => call[q].expected \in Data \cup {None}
  BY <1>0, CallFields
<1>2. Idle \in Calls /\ Idle.kind = "idle"
  BY DEF Idle, Calls
<1>3. TypeOK'
  BY <1>1, <1>2 DEF IInv, TypeOK, CallsFit, WriterAlone, WriterOwnsTmp, NeverTorn, Active, Locked, Contents, Replace, Renamed, Goto
<1>4. CallsFit'
  BY <1>1, <1>2 DEF IInv, TypeOK, CallsFit, Active, Replace, Renamed, Goto
<1>5. WriterAlone'
  BY <1>1, <1>2 DEF IInv, TypeOK, CallsFit, WriterAlone, Replace, Renamed, Goto
<1>6. WriterOwnsTmp'
  BY <1>1, <1>2 DEF IInv, TypeOK, CallsFit, WriterAlone, WriterOwnsTmp, Active, Locked, NeverTorn, Contents, Replace, Renamed, Goto
<1>7. NeverTorn'
  BY <1>1, <1>2 DEF IInv, TypeOK, CallsFit, WriterAlone, WriterOwnsTmp, NeverTorn, Active, Locked, Replace, Renamed, Goto
<1> QED
  BY <1>3, <1>4, <1>5, <1>6, <1>7 DEF IInv

\* A return gives up the lock.
LEMMA ReturnInv ==
  ASSUME IInv, NEW p \in Proc, Return(p)
  PROVE  IInv'
<1> USE ConduitAssumption
<1>0. \A q \in Proc : call[q] \in Calls
  BY DEF IInv, TypeOK
<1>1. \A q \in Proc :
        /\ call[q].kind \in {"idle", "put", "swap"}
        /\ call[q].kind = "idle" <=> call[q] = Idle
        /\ call[q].kind # "idle" => call[q].data \in Data
        /\ call[q].kind = "swap" => call[q].expected \in Data \cup {None}
  BY <1>0, CallFields
<1>2. Idle \in Calls /\ Idle.kind = "idle"
  BY DEF Idle, Calls
<1>3. TypeOK'
  BY <1>1, <1>2 DEF IInv, TypeOK, CallsFit, WriterAlone, WriterOwnsTmp, NeverTorn, Active, Locked, Contents, Return, Unlocked, Goto
<1>4. CallsFit'
  BY <1>1, <1>2 DEF IInv, TypeOK, CallsFit, Active, Return, Unlocked, Goto
<1>5. WriterAlone'
  BY <1>1, <1>2 DEF IInv, TypeOK, CallsFit, WriterAlone, Return, Unlocked, Goto
<1>6. WriterOwnsTmp'
  BY <1>1, <1>2 DEF IInv, TypeOK, CallsFit, WriterAlone, WriterOwnsTmp, Active, Locked, NeverTorn, Contents, Return, Unlocked, Goto
<1>7. NeverTorn'
  BY <1>1, <1>2 DEF IInv, TypeOK, CallsFit, WriterAlone, WriterOwnsTmp, NeverTorn, Active, Locked, Return, Unlocked, Goto
<1> QED
  BY <1>3, <1>4, <1>5, <1>6, <1>7 DEF IInv

\* A call stopped at any step leaves at most a temporary file.
LEMMA StopInv ==
  ASSUME IInv, NEW p \in Proc, Stop(p)
  PROVE  IInv'
<1> USE ConduitAssumption
<1>0. \A q \in Proc : call[q] \in Calls
  BY DEF IInv, TypeOK
<1>1. \A q \in Proc :
        /\ call[q].kind \in {"idle", "put", "swap"}
        /\ call[q].kind = "idle" <=> call[q] = Idle
        /\ call[q].kind # "idle" => call[q].data \in Data
        /\ call[q].kind = "swap" => call[q].expected \in Data \cup {None}
  BY <1>0, CallFields
<1>2. Idle \in Calls /\ Idle.kind = "idle"
  BY DEF Idle, Calls
<1>3. TypeOK'
  BY <1>1, <1>2 DEF IInv, TypeOK, CallsFit, WriterAlone, WriterOwnsTmp, NeverTorn, Active, Locked, Contents, Stop, Goto
<1>4. CallsFit'
  BY <1>1, <1>2 DEF IInv, TypeOK, CallsFit, Active, Stop, Goto
<1>5. WriterAlone'
  BY <1>1, <1>2 DEF IInv, TypeOK, CallsFit, WriterAlone, Stop, Goto
<1>6. WriterOwnsTmp'
  BY <1>1, <1>2 DEF IInv, TypeOK, CallsFit, WriterAlone, WriterOwnsTmp, Active, Locked, NeverTorn, Contents, Stop, Goto
<1>7. NeverTorn'
  BY <1>1, <1>2 DEF IInv, TypeOK, CallsFit, WriterAlone, WriterOwnsTmp, NeverTorn, Active, Locked, Stop, Goto
<1> QED
  BY <1>3, <1>4, <1>5, <1>6, <1>7 DEF IInv

-----------------------------------------------------------------------------
\* Every step preserves the invariant.
LEMMA NextInv == IInv /\ [Next]_vars => IInv'
<1> SUFFICES ASSUME IInv, [Next]_vars PROVE IInv'
  OBVIOUS
<1>1. CASE \E p \in Proc : StartPut(p) \/ StartSwap(p) \/ Step(p) \/ Stop(p)
  BY <1>1, StartPutInv, StartSwapInv, TryLockInv, CheckInv, OpenTmpInv, WriteInv,
     ReplaceInv, ReturnInv, StopInv DEF Step
<1>2. CASE Delete
  BY <1>2, ConduitAssumption
  DEF Delete, IInv, TypeOK, Contents, CallsFit, WriterAlone, WriterOwnsTmp, NeverTorn,
      Active, Locked
<1>3. CASE UNCHANGED vars
  BY <1>3 DEF vars, IInv, TypeOK, CallsFit, WriterAlone, WriterOwnsTmp, NeverTorn,
              Active, Locked
<1> QED
  BY <1>1, <1>2, <1>3 DEF Next

\* The invariant holds throughout.
THEOREM Invariance == Spec => []IInv
BY InitInv, NextInv, PTL DEF Spec

\* Types, with the lock held exactly between an flock and its return.
THEOREM TypeCorrect == Spec => []TypeOK
<1>1. IInv => TypeOK
  BY DEF IInv
<1> QED
  BY <1>1, Invariance, PTL

\* The visible file is whole at every moment, whoever stops where.
THEOREM NeverSeenTorn == Spec => []NeverTorn
<1>1. IInv => NeverTorn
  BY DEF IInv
<1> QED
  BY <1>1, Invariance, PTL

-----------------------------------------------------------------------------
\* The conduit starts as an object nobody has written.
LEMMA InitMaps == Init => Object!Init
BY DEF Init, Object!Init, Idle, Object!Idle

\* Every step of a process is a step of the object or invisible.
LEMMA StepMaps ==
  ASSUME IInv, NEW p \in Proc, StartPut(p) \/ StartSwap(p) \/ Step(p) \/ Stop(p)
  PROVE  Object!Next \/ UNCHANGED Object!atomicVars
<1>0. /\ call[p] \in Calls
      /\ call[p].kind \in {"idle", "put", "swap"}
      /\ call[p].kind = "idle" <=> call[p] = Idle
  BY CallFields DEF IInv, TypeOK
<1>1. Idle = Object!Idle
  BY DEF Idle, Object!Idle
<1>2. CASE StartPut(p)
  <2>1. PICK d \in Data : call' = [call EXCEPT ![p] = [kind |-> "put", data |-> d]]
    BY <1>2 DEF StartPut
  <2>2. [kind |-> "put", data |-> d] \in Object!Calls \ {Object!Idle}
    BY DEF Object!Calls, Object!Idle
  <2>3. call[p] = Idle
    BY <1>2 DEF StartPut, IInv, CallsFit
  <2>4. Object!Invoke(p)
    BY <1>1, <1>2, <2>1, <2>2, <2>3 DEF StartPut, Object!Invoke
  <2> QED
    BY <2>4 DEF Object!Next
<1>3. CASE StartSwap(p)
  <2>1. PICK e \in Data \cup {None}, d \in Data :
          call' = [call EXCEPT ![p] = [kind |-> "swap", expected |-> e, data |-> d]]
    BY <1>3 DEF StartSwap
  <2>2. [kind |-> "swap", expected |-> e, data |-> d] \in Object!Calls \ {Object!Idle}
    BY DEF Object!Calls, Object!Idle
  <2>3. call[p] = Idle
    BY <1>3 DEF StartSwap, IInv, CallsFit
  <2>4. Object!Invoke(p)
    BY <1>1, <1>3, <2>1, <2>2, <2>3 DEF StartSwap, Object!Invoke
  <2> QED
    BY <2>4 DEF Object!Next
<1>4. CASE TryLock(p)
  BY <1>4 DEF TryLock, Object!atomicVars
<1>5. CASE Check(p)
  <2>1. CASE file = call[p].expected
    BY <1>5, <2>1 DEF Check, Object!atomicVars
  <2>2. CASE file # call[p].expected
    <3>1. call[p].kind = "swap" /\ answer[p] = "none"
      BY <1>5 DEF Check, IInv, CallsFit
    <3>2. Object!Refuse(p)
      BY <1>5, <2>2, <3>1 DEF Check, Object!Refuse
    <3> QED
      BY <3>2 DEF Object!Next
  <2> QED
    BY <2>1, <2>2
<1>6. CASE OpenTmp(p)
  BY <1>6 DEF OpenTmp, Target, Object!atomicVars
<1>7. CASE Write(p)
  BY <1>7 DEF Write, IInv, WriterOwnsTmp, Object!atomicVars
<1>8. CASE Replace(p)
  <2>1. file' = call[p].data /\ answer[p] = "none"
    BY <1>8 DEF Replace, IInv, WriterOwnsTmp, CallsFit, Active
  <2>2. CASE call[p].kind = "put"
    BY <1>8, <2>1, <2>2 DEF Replace, Object!Put, Object!Next
  <2>3. CASE call[p].kind = "swap"
    <3>1. file = call[p].expected
      BY <1>8, <2>3 DEF Replace, IInv, WriterOwnsTmp, Active
    <3> QED
      BY <1>8, <2>1, <2>3, <3>1 DEF Replace, Object!Swap, Object!Next
  <2>4. call[p].kind # "idle"
    BY <1>0, <1>8 DEF Replace, IInv, CallsFit
  <2> QED
    BY <1>0, <2>2, <2>3, <2>4
<1>9. CASE Return(p) \/ Stop(p)
  <2>1. call[p] # Idle
    BY <1>9 DEF Return, Stop, IInv, CallsFit
  <2>2. Object!Leave(p)
    BY <1>1, <1>9, <2>1 DEF Return, Stop, Object!Leave
  <2> QED
    BY <2>2 DEF Object!Next
<1> QED
  BY <1>2, <1>3, <1>4, <1>5, <1>6, <1>7, <1>8, <1>9 DEF Step

\* The filesystem conduit implements the atomic object of the Conduit contract.
THEOREM ImplementsObject == Spec => ObjectSpec
<1>1. IInv /\ [Next]_vars => [Object!Next]_Object!atomicVars
  <2> SUFFICES ASSUME IInv, [Next]_vars PROVE [Object!Next]_Object!atomicVars
    OBVIOUS
  <2>1. CASE \E p \in Proc : StartPut(p) \/ StartSwap(p) \/ Step(p) \/ Stop(p)
    BY <2>1, StepMaps
  <2>2. CASE Delete
    BY <2>2 DEF Delete, Object!Delete, Object!Next
  <2>3. CASE UNCHANGED vars
    BY <2>3 DEF vars, Object!atomicVars
  <2> QED
    BY <2>1, <2>2, <2>3 DEF Next
<1> QED
  BY <1>1, InitMaps, Invariance, PTL DEF Spec, ObjectSpec, Object!Spec
-----------------------------------------------------------------------------
(* The remote conduits. *)

\* What a call has been through, by where it is.
Phases == \A p \in Client :
  /\ at[p] = "idle" => rcall[p] = Remote!Idle /\ tries[p] = 0
  /\ at[p] \in {"idle", "read"} => ~written[p] /\ tries[p] = 0
  /\ at[p] # "return" => ranswer[p] = "none"
  /\ at[p] # "wait" => wire[p] = "none"
  /\ at[p] \in {"read", "wait"} => rcall[p] # Remote!Idle
  /\ at[p] = "wait" => wire[p] # "none" /\ tries[p] >= 1

\* A write is known to its call, or the call has been retried.
WritesCounted == \A p \in Client :
  /\ wire[p] = "ok" => written[p]
  /\ at[p] = "wait" /\ written[p] => tries[p] > 1 \/ wire[p] = "ok"

\* A request that outlives its attempt belongs to a call that was retried or has raised.
LateIsRetried == \A r \in late :
  r.by \in Client => tries[r.by] > 1 \/ ranswer[r.by] = "raised"

\* The inductive invariant of the remote conduits.
RInv == Remote!TypeOK /\ Phases /\ WritesCounted /\ LateIsRetried /\ AnswersTell

USE RemoteAssumption DEF Remote!Swaps, Remote!Delete, Remote!Idle

\* No client has called yet.
LEMMA RemoteStart == BuiltInit => RInv
BY DEF BuiltInit, Kinds, Remote!Start, RInv, Remote!TypeOK, Phases, WritesCounted, LateIsRetried,
       AnswersTell, Remote!AnswersTell

\* p's call goes on.
LEMMA ProceedTypes ==
  ASSUME Remote!TypeOK, NEW p \in Client, NEW where \in {"idle", "read", "wait", "return"},
         where = "wait" => tries[p] < MaxAttempts, Remote!Proceed(p, where)
  PROVE  /\ at' \in [Client -> {"idle", "read", "wait", "return"}]
         /\ tries' \in [Client -> 0..MaxAttempts]
         /\ wire' \in [Client -> {"none", "sent", "ok", "refused"}]
         /\ at'[p] = where
         /\ tries'[p] = IF where = "wait" THEN tries[p] + 1 ELSE tries[p]
         /\ wire'[p] = IF where = "wait" THEN "sent" ELSE "none"
         /\ \A q \in Client \ {p} : at'[q] = at[q] /\ tries'[q] = tries[q] /\ wire'[q] = wire[q]
BY DEF Remote!TypeOK, Remote!Proceed, Remote!Counted

\* A call begins: its writes are none, its requests are its own.
LEMMA CallInv ==
  ASSUME RInv, NEW p \in Client, Remote!Call(p), UNCHANGED kind
  PROVE  RInv'
<1> USE DEF RInv, Phases
<1>1. PICK c \in Remote!Offered :
        /\ rcall' = [rcall EXCEPT ![p] = c]
        /\ Remote!Proceed(p, IF c \in Remote!Swaps /\ c.expected # None THEN "read" ELSE "wait")
  BY DEF Remote!Call
<1>2. c \in Remote!Swaps \cup {Remote!Delete} /\ c # Remote!Idle
  BY <1>1 DEF Remote!Offered
<1>3. at[p] = "idle" /\ UNCHANGED <<object, ranswer, late, written>>
  BY DEF Remote!Call
<1>4. PICK where \in {"read", "wait"} : Remote!Proceed(p, where)
  BY <1>1
<1>5. tries[p] = 0 /\ 0 < MaxAttempts /\ ~written[p] /\ ranswer[p] = "none"
  BY <1>3
<1> HIDE DEF RInv, Phases
<1>6. /\ at' \in [Client -> {"idle", "read", "wait", "return"}]
      /\ tries' \in [Client -> 0..MaxAttempts]
      /\ wire' \in [Client -> {"none", "sent", "ok", "refused"}]
      /\ at'[p] = where
      /\ tries'[p] = IF where = "wait" THEN tries[p] + 1 ELSE tries[p]
      /\ wire'[p] = IF where = "wait" THEN "sent" ELSE "none"
      /\ \A q \in Client \ {p} : at'[q] = at[q] /\ tries'[q] = tries[q] /\ wire'[q] = wire[q]
  BY <1>4, <1>5, ProceedTypes DEF RInv
<1>7. Remote!TypeOK'
  BY <1>1, <1>2, <1>3, <1>6 DEF RInv, Remote!TypeOK
<1>8. Phases'
  BY <1>1, <1>2, <1>3, <1>5, <1>6 DEF RInv, Phases, Remote!TypeOK
<1>9. WritesCounted' /\ LateIsRetried' /\ AnswersTell'
  BY <1>3, <1>5, <1>6 DEF RInv, Phases, WritesCounted, LateIsRetried, AnswersTell, Remote!AnswersTell, Remote!TypeOK
<1> QED
  BY <1>7, <1>8, <1>9 DEF RInv

\* The store serves a request: what it writes is counted as written by its client.
LEMMA ServeInv ==
  ASSUME RInv, NEW p \in Client, Remote!Serve(p), UNCHANGED kind
  PROVE  RInv'
<1>1. Remote!TypeOK'
  <2>1. rcall[p] \in Remote!Swaps \cup {Remote!Delete, Remote!Idle}
    BY DEF RInv, Remote!TypeOK
  <2>2. Remote!Outcome(rcall[p]) \in Data \cup {None}
    BY <2>1 DEF Remote!Outcome
  <2>3. object' \in Data \cup {None}
    BY <2>2 DEF RInv, Remote!TypeOK, Remote!Serve
  <2>4. wire' \in [Client -> {"none", "sent", "ok", "refused"}]
    BY DEF RInv, Remote!TypeOK, Remote!Serve
  <2>5. written' \in [Client -> BOOLEAN]
    BY Zenon DEF RInv, Remote!TypeOK, Remote!Serve
  <2> QED
    BY <2>3, <2>4, <2>5 DEF RInv, Remote!TypeOK, Remote!Serve
<1>2. Phases' /\ WritesCounted' /\ LateIsRetried' /\ AnswersTell'
  BY DEF RInv, Remote!TypeOK, Remote!Serve, Phases, WritesCounted, LateIsRetried, AnswersTell, Remote!AnswersTell
<1> QED
  BY <1>1, <1>2 DEF RInv

\* p's call ends and is told something that its writes and attempts allow.
LEMMA EndsInv ==
  ASSUME RInv, NEW p \in Client, NEW with \in {"won", "lost", "raised"}, Remote!Ends(p, with),
         at[p] \in {"read", "wait"}, UNCHANGED <<kind, object, rcall, written>>,
         late' = late \/ (with = "raised" /\ rcall[p] # Remote!Idle
                            /\ late' = late \cup {[by |-> p, call |-> rcall[p]]}),
         with = "won" => written[p], with = "lost" /\ written[p] => tries[p] > 1
  PROVE  RInv'
<1>1. /\ at' \in [Client -> {"idle", "read", "wait", "return"}]
      /\ tries' \in [Client -> 0..MaxAttempts]
      /\ wire' \in [Client -> {"none", "sent", "ok", "refused"}]
      /\ at'[p] = "return" /\ tries'[p] = tries[p] /\ wire'[p] = "none"
      /\ \A q \in Client \ {p} : at'[q] = at[q] /\ tries'[q] = tries[q] /\ wire'[q] = wire[q]
  BY ProceedTypes DEF RInv, Remote!Ends
<1>2. /\ ranswer' \in [Client -> {"none", "won", "lost", "raised"}]
      /\ ranswer'[p] = with /\ \A q \in Client \ {p} : ranswer'[q] = ranswer[q]
  BY DEF RInv, Remote!TypeOK, Remote!Ends
<1>3. Remote!TypeOK'
  BY <1>1, <1>2 DEF RInv, Remote!TypeOK
<1>4. Phases' /\ WritesCounted' /\ AnswersTell'
  BY <1>1, <1>2 DEF RInv, Remote!TypeOK, Phases, WritesCounted, AnswersTell, Remote!AnswersTell
<1>5. LateIsRetried'
  BY <1>1, <1>2 DEF RInv, Remote!TypeOK, Phases, LateIsRetried
<1> QED
  BY <1>3, <1>4, <1>5 DEF RInv

\* An attempt fails: its request may be late now, and its call is one of several attempts.
LEMMA AttemptFailsInv ==
  ASSUME RInv, NEW p \in Client, Remote!AttemptFails(p), UNCHANGED kind
  PROVE  RInv'
<1>1. at[p] = "wait" /\ rcall[p] # Remote!Idle /\ UNCHANGED <<object, rcall, written>>
  BY DEF RInv, Phases, Remote!AttemptFails
<1>2. late' = late \/ late' = late \cup {[by |-> p, call |-> rcall[p]]}
  BY DEF Remote!AttemptFails, Remote!Leaves
<1>3. CASE tries[p] < MaxAttempts
  <2>1. Remote!Proceed(p, "wait") /\ UNCHANGED ranswer
    BY <1>3 DEF Remote!AttemptFails
  <2>2. /\ at' \in [Client -> {"idle", "read", "wait", "return"}]
        /\ tries' \in [Client -> 0..MaxAttempts]
        /\ wire' \in [Client -> {"none", "sent", "ok", "refused"}]
        /\ at'[p] = "wait" /\ tries'[p] = tries[p] + 1 /\ wire'[p] = "sent"
        /\ \A q \in Client \ {p} : at'[q] = at[q] /\ tries'[q] = tries[q] /\ wire'[q] = wire[q]
    BY <1>3, <2>1, ProceedTypes DEF RInv
  <2>3. Remote!TypeOK'
    BY <1>1, <1>2, <2>1, <2>2 DEF RInv, Remote!TypeOK
  <2>4. tries[p] \in Nat /\ tries[p] >= 1 /\ tries'[p] > 1
    BY <1>1, <2>2 DEF RInv, Phases, Remote!TypeOK
  <2>5. Phases' /\ WritesCounted' /\ AnswersTell'
    BY <1>1, <2>1, <2>2, <2>4 DEF RInv, Remote!TypeOK, Phases, WritesCounted, AnswersTell, Remote!AnswersTell
  <2>6. LateIsRetried'
    BY <1>1, <1>2, <2>1, <2>2, <2>4 DEF RInv, Remote!TypeOK, LateIsRetried
  <2> QED
    BY <2>3, <2>5, <2>6 DEF RInv
<1>4. CASE ~(tries[p] < MaxAttempts)
  <2>1. Remote!Ends(p, "raised")
    BY <1>4 DEF Remote!AttemptFails
  <2> QED
    BY <1>1, <1>2, <2>1, EndsInv
<1> QED
  BY <1>3, <1>4

\* A call ends on its answer, or raises after its last attempt.
LEMMA EndingsInv ==
  ASSUME RInv, NEW p \in Client, Remote!Answered(p) \/ Remote!CallFails(p), UNCHANGED kind
  PROVE  RInv'
<1>1. CASE Remote!Answered(p)
  <2>1. Remote!Verdict(p) \in {"won", "lost", "raised"}
    BY DEF Remote!Verdict
  <2>2. /\ Remote!Verdict(p) = "won" => written[p]
        /\ Remote!Verdict(p) = "lost" /\ written[p] => tries[p] > 1
    BY <1>1 DEF RInv, WritesCounted, Remote!Answered, Remote!Verdict
  <2>3. /\ Remote!Ends(p, Remote!Verdict(p)) /\ at[p] \in {"read", "wait"}
        /\ UNCHANGED <<kind, object, rcall, written>> /\ late' = late
    BY <1>1 DEF Remote!Answered
  <2> QED
    BY <2>1, <2>2, <2>3, EndsInv
<1>2. CASE Remote!CallFails(p)
  <2>1. late' = late \/ (rcall[p] # Remote!Idle /\ late' = late \cup {[by |-> p, call |-> rcall[p]]})
    BY <1>2 DEF RInv, Phases, Remote!CallFails, Remote!Leaves
  <2> QED
    BY <1>2, <2>1, EndsInv DEF Remote!CallFails
<1> QED
  BY <1>1, <1>2

\* A swap reads first, and loses where the content is another one.
LEMMA ReadInv ==
  ASSUME RInv, NEW p \in Client, Remote!Read(p), UNCHANGED kind
  PROVE  RInv'
<1>1. CASE object = rcall[p].expected
  <2>1. /\ Remote!Proceed(p, "wait") /\ at[p] = "read"
        /\ UNCHANGED <<object, rcall, late, written, ranswer>>
    BY <1>1 DEF Remote!Read
  <2>2. tries[p] = 0 /\ 0 < MaxAttempts /\ ~written[p] /\ rcall[p] # Remote!Idle /\ ranswer[p] = "none"
    BY <2>1 DEF RInv, Phases
  <2>3. /\ at' \in [Client -> {"idle", "read", "wait", "return"}]
        /\ tries' \in [Client -> 0..MaxAttempts]
        /\ wire' \in [Client -> {"none", "sent", "ok", "refused"}]
        /\ at'[p] = "wait" /\ tries'[p] = 1 /\ wire'[p] = "sent"
        /\ \A q \in Client \ {p} : at'[q] = at[q] /\ tries'[q] = tries[q] /\ wire'[q] = wire[q]
    BY <2>1, <2>2, ProceedTypes DEF RInv
  <2>4. Remote!TypeOK'
    BY <2>1, <2>3 DEF RInv, Remote!TypeOK
  <2>5. Phases' /\ WritesCounted' /\ AnswersTell'
    BY <2>1, <2>2, <2>3 DEF RInv, Remote!TypeOK, Phases, WritesCounted, AnswersTell, Remote!AnswersTell
  <2>6. LateIsRetried'
    BY <2>1, <2>2, <2>3 DEF RInv, Remote!TypeOK, LateIsRetried
  <2> QED
    BY <2>4, <2>5, <2>6 DEF RInv
<1>2. CASE object # rcall[p].expected
  <2>1. ~written[p]
    BY DEF RInv, Phases, Remote!Read
  <2> QED
    BY <1>2, <2>1, EndsInv DEF Remote!Read
<1> QED
  BY <1>1, <1>2

\* A late request is served: its client has retried or given up, so no answer depends on it.
LEMMA LateLandsInv ==
  ASSUME RInv, NEW r \in late, Remote!LateLands(r), UNCHANGED kind
  PROVE  RInv'
<1>1. /\ UNCHANGED <<at, rcall, tries, wire, ranswer>>
      /\ late' \subseteq late
      /\ r.by \in Client \cup {None} /\ r.call \in Remote!Swaps \cup {Remote!Delete}
  BY DEF RInv, Remote!TypeOK, Remote!LateLands, Remote!callVars
<1>2. /\ written' \in [Client -> BOOLEAN]
      /\ \A p \in Client : written[p] => written'[p]
      /\ \A p \in Client : written'[p] => written[p] \/ p = r.by
  BY Zenon DEF RInv, Remote!TypeOK, Remote!LateLands
<1>3. object' \in Data \cup {None}
  BY <1>1 DEF RInv, Remote!TypeOK, Remote!LateLands, Remote!Outcome
<1>4. Remote!TypeOK'
  BY <1>1, <1>2, <1>3 DEF RInv, Remote!TypeOK
<1>5. \A p \in Client : p = r.by => tries[p] > 1 \/ ranswer[p] = "raised"
  BY DEF RInv, LateIsRetried
<1>6. Phases' /\ WritesCounted' /\ AnswersTell'
  BY <1>1, <1>2, <1>5 DEF RInv, Remote!TypeOK, Phases, WritesCounted, AnswersTell, Remote!AnswersTell
<1>7. LateIsRetried'
  BY <1>1 DEF RInv, LateIsRetried
<1> QED
  BY <1>4, <1>6, <1>7 DEF RInv

\* A call returns, and disowns the requests that are still under way.
LEMMA RemoteReturnInv ==
  ASSUME RInv, NEW p \in Client, Remote!Return(p), UNCHANGED kind
  PROVE  RInv'
<1>1. \A r \in late' : \E old \in late :
        r.call = old.call /\ r.by = (IF old.by = p THEN None ELSE old.by) /\ r = [by |-> r.by, call |-> r.call]
  BY DEF RInv, Remote!TypeOK, Remote!Return
<1>2. Remote!TypeOK'
  <2>1. late' \subseteq [by : Client \cup {None}, call : Remote!Swaps \cup {Remote!Delete}]
    BY <1>1 DEF RInv, Remote!TypeOK
  <2> QED
    BY <2>1 DEF RInv, Remote!TypeOK, Remote!Return
<1>3. Phases' /\ WritesCounted' /\ AnswersTell'
  BY DEF RInv, Remote!TypeOK, Remote!Return, Phases, WritesCounted, AnswersTell, Remote!AnswersTell
<1>4. LateIsRetried'
  BY <1>1 DEF RInv, Remote!TypeOK, Remote!Return, LateIsRetried
<1> QED
  BY <1>2, <1>3, <1>4 DEF RInv

\* Every step keeps the remote invariant.
LEMMA RemoteNextInv ==
  ASSUME RInv, [BuiltNext]_<<kind, vars, remotes>>
  PROVE  RInv'
<1>1. CASE UNCHANGED <<kind, remotes>>
  BY <1>1 DEF remotes, RInv, Remote!TypeOK, Phases, WritesCounted, LateIsRetried, AnswersTell, Remote!AnswersTell
<1>2. CASE Remote!Next /\ UNCHANGED kind
  BY <1>2, CallInv, ReadInv, ServeInv, EndingsInv, RemoteReturnInv, AttemptFailsInv, LateLandsInv
     DEF Remote!Next, Remote!Step
<1> QED
  BY <1>1, <1>2 DEF BuiltNext, LocalOnly, RemoteOnly, Remote!Next

\* RInv is an invariant of the conduit that is built.
THEOREM RemoteInvariance == BuiltSpec => []RInv
BY RemoteStart, RemoteNextInv, PTL DEF BuiltSpec

\* True is told only to a call that has written, False after a write only to one that was
\* retried, for any number of clients, attempts and late requests (s3.py, gcs.py).
THEOREM RemoteAnswersTell == BuiltSpec => []AnswersTell
BY RemoteInvariance, PTL DEF RInv

\* A content is replaced only by a swap that expects it, however late it is served.
THEOREM RemoteReplaces == BuiltSpec => ExpectedIsReplaced
<1> DEFINE Justified == object' \in Data /\ object' # object =>
             LET swaps == {rcall[p] : p \in Client} \cup {r.call : r \in late}
             IN \E c \in swaps \cap Remote!Swaps : c.expected = object /\ c.data = object'
<1>1. RInv /\ [BuiltNext]_<<kind, vars, remotes>> => [Justified]_object
  <2> SUFFICES ASSUME RInv, [BuiltNext]_<<kind, vars, remotes>>, object' \in Data, object' # object
               PROVE  \E c \in ({rcall[p] : p \in Client} \cup {r.call : r \in late}) \cap Remote!Swaps :
                        c.expected = object /\ c.data = object'
    OBVIOUS
  <2>1. (\E p \in Client : Remote!Serve(p)) \/ (\E r \in late : Remote!LateLands(r))
    BY DEF BuiltNext, LocalOnly, RemoteOnly, remotes, Remote!Next, Remote!Step, Remote!Call, Remote!Read,
           Remote!Answered, Remote!Return, Remote!AttemptFails, Remote!CallFails
  <2>2. CASE \E p \in Client : Remote!Serve(p)
    <3>1. PICK p \in Client : Remote!Serve(p)
      BY <2>2
    <3>2. Remote!Fits(rcall[p]) /\ object' = Remote!Outcome(rcall[p])
      BY <3>1 DEF Remote!Serve
    <3>3. rcall[p] \in Remote!Swaps \cup {Remote!Idle, Remote!Delete}
      BY DEF RInv, Remote!TypeOK
    <3> QED
      BY <3>2, <3>3 DEF Remote!Fits, Remote!Outcome
  <2>3. CASE \E r \in late : Remote!LateLands(r)
    <3>1. PICK r \in late : Remote!LateLands(r)
      BY <2>3
    <3>2. Remote!Fits(r.call) /\ object' = Remote!Outcome(r.call)
      BY <3>1 DEF Remote!LateLands
    <3>3. r.call \in Remote!Swaps \cup {Remote!Delete}
      BY DEF RInv, Remote!TypeOK
    <3> QED
      BY <3>2, <3>3 DEF Remote!Fits, Remote!Outcome
  <2> QED
    BY <2>1, <2>2, <2>3
<1>2. Justified => Justified
  OBVIOUS
<1> QED
  BY <1>1, RemoteInvariance, PTL DEF BuiltSpec, ExpectedIsReplaced, Remote!ExpectedIsReplaced

\* The filesystem's conduit as it is built, beside the remote ones that are not.
LEMMA BuiltIsLocal == BuiltSpec => Spec
<1>1. BuiltInit => Init
  BY DEF BuiltInit
<1>2. [BuiltNext]_<<kind, vars, remotes>> => [Next]_vars
  BY DEF BuiltNext, LocalOnly, RemoteOnly
<1> QED
  BY <1>1, <1>2, PTL DEF BuiltSpec, Spec

\* Types of both.
THEOREM TypesCorrect == BuiltSpec => []TypesOK
BY BuiltIsLocal, TypeCorrect, RemoteInvariance, PTL DEF TypesOK, RInv

\* Whatever conduit is built, the filesystem's part implements the atomic object.
THEOREM BuiltImplements == BuiltSpec => ObjectSpec
BY BuiltIsLocal, ImplementsObject, PTL
-----------------------------------------------------------------------------
(* put_if_absent on a remote conduit as a way to elect a writer. *)

\* Nobody swaps another content, or deletes.
PutIfAbsentOnly == \A p \in Client :
  rcall[p] = Remote!Idle \/ (rcall[p] \in Remote!Swaps /\ rcall[p].expected = None)

\* Of all clients one at most has written, and what it wrote is there.
OneHasWritten == \A p \in Client : written[p] =>
  /\ object = rcall[p].data
  /\ \A q \in Client : written[q] => q = p

\* So at most one call at a time is told True, of the content that is there.
OneHasWon == \A p \in Client : ranswer[p] = "won" =>
  /\ object = rcall[p].data
  /\ \A q \in Client : ranswer[q] = "won" => q = p

\* A write that is late is one of the kind, and its call's if that has not returned.
ElectInv ==
  /\ OneHasWritten
  /\ \A p \in Client : written[p] => rcall[p] # Remote!Idle
  /\ \A r \in late :
       /\ r.call \in Remote!Swaps /\ r.call.expected = None
       /\ r.by \in Client => r.call = rcall[r.by]

\* The content that is there stays.
FirstStands == object # None => object' = object

\* A step that does not reach the store.
LEMMA ElectQuiet ==
  ASSUME RInv, ElectInv, PutIfAbsentOnly, PutIfAbsentOnly', NEW p \in Client, UNCHANGED object,
         \A q \in Client \ {p} : rcall'[q] = rcall[q],
         rcall'[p] = rcall[p] \/ ~written[p] \/ ~written'[p],
         \A q \in Client : written'[q] => written[q],
         \A r \in late' : \/ r \in late /\ (r.by = p => rcall'[p] = rcall[p])
                          \/ r = [by |-> p, call |-> rcall[p]] /\ rcall[p] # Remote!Idle
                             /\ rcall'[p] = rcall[p]
                          \/ \E old \in late : r = [by |-> None, call |-> old.call]
  PROVE  ElectInv' /\ FirstStands
<1>1. OneHasWritten'
  BY DEF ElectInv, OneHasWritten
<1>2. ASSUME NEW r \in late'
      PROVE  /\ r.call \in Remote!Swaps /\ r.call.expected = None
             /\ r.by \in Client => r.call = rcall'[r.by]
  BY <1>2 DEF ElectInv, PutIfAbsentOnly
<1>3. \A q \in Client : written'[q] => rcall'[q] # Remote!Idle
  BY DEF ElectInv
<1> QED BY <1>1, <1>2, <1>3 DEF ElectInv, FirstStands

\* A request takes effect: of client p, or of a call that has returned.
LEMMA ElectWrites ==
  ASSUME RInv, ElectInv, PutIfAbsentOnly, NEW by \in Client \cup {None}, NEW c \in Remote!Swaps,
         Remote!Fits(c), c.expected = None, object' = Remote!Outcome(c),
         by \in Client => c = rcall[by],
         written' \in [Client -> BOOLEAN], \A q \in Client : written'[q] <=> written[q] \/ q = by,
         late' \subseteq late, UNCHANGED rcall
  PROVE  ElectInv' /\ FirstStands
<1>1. object = None /\ object' = c.data /\ c.data \in Data
  BY DEF Remote!Fits, Remote!Outcome
<1>2. \A q \in Client : ~written[q]
  BY <1>1 DEF ElectInv, OneHasWritten, PutIfAbsentOnly
<1>3. OneHasWritten'
  BY <1>1, <1>2 DEF OneHasWritten
<1> QED BY <1>1, <1>3 DEF ElectInv, FirstStands

\* Every step of the conduit keeps it, and the first content.
LEMMA ElectStep ==
  ASSUME RInv, ElectInv, PutIfAbsentOnly, PutIfAbsentOnly', [BuiltNext]_<<kind, vars, remotes>>
  PROVE  ElectInv' /\ FirstStands
<1>1. CASE UNCHANGED remotes
  BY <1>1 DEF remotes, ElectInv, OneHasWritten, FirstStands
<1>2. ASSUME NEW p \in Client, Remote!Call(p) PROVE ElectInv' /\ FirstStands
  <2>1. \A r \in late : r.by # p
    BY <1>2 DEF RInv, LateIsRetried, Phases, Remote!Call
  <2>2. ~written[p] /\ UNCHANGED <<object, late, written>> /\ \A q \in Client \ {p} : rcall'[q] = rcall[q]
    BY <1>2 DEF RInv, Remote!TypeOK, Phases, Remote!Call
  <2> QED BY <2>1, <2>2, ElectQuiet
<1>3. ASSUME NEW p \in Client, Remote!Read(p) \/ Remote!Answered(p) PROVE ElectInv' /\ FirstStands
  <2>1. UNCHANGED <<object, rcall, late, written>>
    BY <1>3 DEF Remote!Read, Remote!Answered
  <2> QED BY <2>1, ElectQuiet
<1>4. ASSUME NEW p \in Client, Remote!Serve(p) PROVE ElectInv' /\ FirstStands
  <2>1. CASE UNCHANGED <<object, written>>
    <3>1. UNCHANGED <<object, rcall, late, written>>
      BY <1>4, <2>1 DEF Remote!Serve
    <3> QED BY <3>1, ElectQuiet
  <2>2. CASE ~UNCHANGED <<object, written>>
    <3>1. /\ Remote!Fits(rcall[p]) /\ object' = Remote!Outcome(rcall[p])
          /\ written' = [written EXCEPT ![p] = TRUE] /\ UNCHANGED <<rcall, late>>
      BY <1>4, <2>2 DEF Remote!Serve
    <3>2. rcall[p] \in Remote!Swaps /\ rcall[p].expected = None
      BY <1>4 DEF PutIfAbsentOnly, RInv, Phases, Remote!Serve
    <3>3. written' \in [Client -> BOOLEAN] /\ \A q \in Client : written'[q] <=> written[q] \/ q = p
      BY <3>1, Zenon DEF RInv, Remote!TypeOK
    <3> QED BY <3>1, <3>2, <3>3, ElectWrites
  <2> QED BY <2>1, <2>2
<1>5. ASSUME NEW p \in Client, Remote!AttemptFails(p) \/ Remote!CallFails(p)
      PROVE  ElectInv' /\ FirstStands
  <2>1. UNCHANGED <<object, rcall, written>> /\ rcall[p] # Remote!Idle
    BY <1>5 DEF Remote!AttemptFails, Remote!CallFails, RInv, Phases
  <2>2. late' = late \/ late' = late \cup {[by |-> p, call |-> rcall[p]]}
    BY <1>5 DEF Remote!AttemptFails, Remote!CallFails, Remote!Leaves
  <2> QED BY <2>1, <2>2, ElectQuiet
<1>6. ASSUME NEW p \in Client, Remote!Return(p) PROVE ElectInv' /\ FirstStands
  <2>1. ~written'[p] /\ UNCHANGED object /\ \A q \in Client \ {p} : rcall'[q] = rcall[q]
    BY <1>6 DEF RInv, Remote!TypeOK, Remote!Return
  <2>2. \A q \in Client : written'[q] => written[q]
    BY <1>6 DEF RInv, Remote!TypeOK, Remote!Return
  <2>3. \A r \in late' : (r \in late /\ r.by # p) \/ \E old \in late : r = [by |-> None, call |-> old.call]
    BY <1>6 DEF RInv, Remote!TypeOK, Remote!Return
  <2> QED BY <2>1, <2>2, <2>3, ElectQuiet
<1>7. ASSUME NEW r \in late, Remote!LateLands(r) PROVE ElectInv' /\ FirstStands
  <2>1. r.call \in Remote!Swaps /\ r.call.expected = None /\ r.by \in Client \cup {None}
    BY DEF ElectInv, RInv, Remote!TypeOK
  <2>2. UNCHANGED rcall /\ late' \subseteq late
    BY <1>7 DEF Remote!LateLands, Remote!callVars
  <2>3. CASE Remote!Fits(r.call)
    <3>1. written' \in [Client -> BOOLEAN] /\ \A q \in Client : written'[q] <=> written[q] \/ q = r.by
      BY <1>7, <2>3, Zenon DEF Remote!LateLands, RInv, Remote!TypeOK
    <3>2. object' = Remote!Outcome(r.call)
      BY <1>7, <2>3 DEF Remote!LateLands
    <3>3. r.by \in Client => r.call = rcall[r.by]
      BY DEF ElectInv
    <3> QED BY <2>1, <2>2, <2>3, <3>1, <3>2, <3>3, ElectWrites
  <2>4. CASE ~Remote!Fits(r.call)
    BY <1>7, <2>2, <2>4 DEF Remote!LateLands, ElectInv, OneHasWritten, FirstStands
  <2> QED BY <2>3, <2>4
<1> QED
  BY <1>1, <1>2, <1>3, <1>4, <1>5, <1>6, <1>7
     DEF BuiltNext, LocalOnly, RemoteOnly, Remote!Next, Remote!Step, remotes

\* Where a key is only ever put if it is absent (s3.py:164-177), one client at most has
\* written it and is told so, however its requests are retried or late, and the first
\* content stays.
THEOREM FirstWriteStands ==
  BuiltSpec /\ []PutIfAbsentOnly => [](OneHasWritten /\ OneHasWon) /\ [][FirstStands]_object
<1>1. BuiltInit => ElectInv
  BY DEF BuiltInit, Remote!Start, ElectInv, OneHasWritten
<1>2. RInv /\ ElectInv /\ PutIfAbsentOnly /\ PutIfAbsentOnly' /\ [BuiltNext]_<<kind, vars, remotes>>
        => ElectInv' /\ [FirstStands]_object
  BY ElectStep
<1>3. RInv /\ ElectInv => OneHasWritten /\ OneHasWon
  BY DEF RInv, ElectInv, OneHasWritten, OneHasWon, AnswersTell, Remote!AnswersTell
<1> QED BY <1>1, <1>2, <1>3, RemoteInvariance, PTL DEF BuiltSpec
-----------------------------------------------------------------------------
(* A remote call takes finitely many steps: each goes on to its next part, to its next  *)
(* attempt, or to the answer of this one.  That it takes them is for TLC (CallsEnd).    *)

CallMeasure(p) ==
  << CASE at[p] = "read" -> 2 [] at[p] = "wait" -> 1 [] OTHER -> 0,
     MaxAttempts - tries[p],
     OneIf(wire[p] = "sent") >>

\* A step is p's and takes its measure down, or somebody else's and leaves p's call alone.
CallCountsDown(p) ==
  /\ CallMeasure(p) \in Triples
  /\ \/ Less(CallMeasure(p)', CallMeasure(p))
     \/ UNCHANGED <<at[p], rcall[p], tries[p], wire[p], ranswer[p]>>

CallsCountDown == [][\A p \in Client : at[p] # "idle" /\ at'[p] # "idle" => CallCountsDown(p)]_remotes

\* Each step of a call takes its measure down, and nobody else touches it.
LEMMA CallStep ==
  ASSUME RInv, [BuiltNext]_<<kind, vars, remotes>>, NEW p \in Client, at[p] # "idle", at'[p] # "idle"
  PROVE  CallCountsDown(p)
<1>1. CallMeasure(p) \in Triples
  BY DEF RInv, Remote!TypeOK, CallMeasure, Triples, OneIf
<1>2. ASSUME UNCHANGED <<at, rcall, tries, wire, ranswer>> PROVE CallCountsDown(p)
  BY <1>1, <1>2 DEF CallCountsDown
<1>3. ASSUME NEW q \in Client \ {p},
             Remote!Call(q) \/ Remote!Step(q) \/ Remote!AttemptFails(q) \/ Remote!CallFails(q)
      PROVE  CallCountsDown(p)
  <2>1. UNCHANGED <<at[p], rcall[p], tries[p], wire[p], ranswer[p]>>
    BY <1>3 DEF RInv, Remote!TypeOK, Remote!Call, Remote!Step, Remote!Read, Remote!Serve, Remote!Answered,
           Remote!Return, Remote!AttemptFails, Remote!CallFails, Remote!Ends, Remote!Proceed
  <2> QED BY <1>1, <2>1 DEF CallCountsDown
<1>4. ASSUME Remote!Serve(p) PROVE CallCountsDown(p)
  <2>1. /\ UNCHANGED <<at, tries>> /\ wire[p] = "sent" /\ wire'[p] # "sent"
        /\ tries[p] \in Int
    BY <1>4 DEF RInv, Remote!TypeOK, Remote!Serve
  <2> QED BY <1>1, <2>1 DEF CallCountsDown, CallMeasure, Less, OneIf
<1>5. ASSUME NEW where \in {"wait", "return"}, Remote!Proceed(p, where), at[p] \in {"read", "wait"},
             at[p] = "read" \/ where = "return" \/ tries[p] < MaxAttempts
      PROVE  CallCountsDown(p)
  <2>1. /\ at'[p] = where /\ tries'[p] = (IF where = "wait" THEN tries[p] + 1 ELSE tries[p])
        /\ tries[p] \in Int
    BY <1>5 DEF RInv, Remote!TypeOK, Remote!Proceed, Remote!Counted
  <2>2. Less(CallMeasure(p)', CallMeasure(p))
    BY <1>5, <2>1 DEF CallMeasure, Less
  <2> QED BY <1>1, <2>2 DEF CallCountsDown
<1>6. ASSUME Remote!Read(p) \/ Remote!Answered(p) \/ Remote!AttemptFails(p) \/ Remote!CallFails(p)
      PROVE  CallCountsDown(p)
  BY <1>5, <1>6 DEF Remote!Read, Remote!Answered, Remote!AttemptFails, Remote!CallFails, Remote!Ends
<1>7. ~Remote!Call(p) /\ ~Remote!Return(p)
  BY DEF Remote!Call, Remote!Return, RInv, Remote!TypeOK
<1>8. ASSUME NEW r \in late, Remote!LateLands(r) PROVE CallCountsDown(p)
  BY <1>2, <1>8 DEF Remote!LateLands, Remote!callVars
<1> QED
  <2>1. CASE UNCHANGED remotes
    BY <1>2, <2>1 DEF remotes
  <2>2. CASE Remote!Next
    BY <1>3, <1>4, <1>6, <1>7, <1>8, <2>2 DEF Remote!Next, Remote!Step
  <2> QED BY <2>1, <2>2 DEF BuiltNext, LocalOnly, RemoteOnly, remotes

\* Every remote call is over after finitely many steps of its own, however its attempts
\* fail and whatever the other clients do (gcs.py:50-66, botocore's retries at s3.py:136).
THEOREM CallsAreCounted == BuiltSpec => CallsCountDown
<1>1. RInv /\ [BuiltNext]_<<kind, vars, remotes>> =>
        [\A p \in Client : at[p] # "idle" /\ at'[p] # "idle" => CallCountsDown(p)]_remotes
  BY CallStep
<1> QED BY <1>1, RemoteInvariance, PTL DEF BuiltSpec, CallsCountDown
=============================================================================
