---------------------------- MODULE LocalConduit ----------------------------
(***************************************************************************)
(* One key of the filesystem conduit (conduit/local.py), written by        *)
(* processes that share nothing but the directory: put through a temporary *)
(* file and rename, put_if_absent and compare_and_swap under an flock on a *)
(* lock file beside the key.  A process can stop at any step, by an OSError, *)
(* a cancellation or its death; the kernel then drops its lock and         *)
(* descriptor, and the temporary file stays.                               *)
(*                                                                         *)
(* The temporary file has one name for all writers of the key, so a        *)
(* descriptor follows the file it opened: a rename by somebody else makes  *)
(* it point at the visible object.  The callers keep to the protocol's     *)
(* division of keys: a key that is put has one writer at a time, and no    *)
(* key is both put and swapped, or deleted while it is written.            *)
(***************************************************************************)
CONSTANTS
  Proc,     \* processes that write the key
  Data,     \* contents
  None,     \* no file
  Partial   \* a file that is not completely written

ASSUME ConduitAssumption ==
  None \notin Data \cup Proc /\ Partial \notin Data /\ None # Partial

VARIABLES
  file,    \* content of the key's file
  tmp,     \* content of its ".tmp-partial" file
  lock,    \* holder of the flock on its ".conditional-lock" file
  pc,      \* control of p
  call,    \* the write p has called
  answer,  \* its return value so far: "none", "won", "lost"
  fd       \* what the file p has open is: "none", "tmp", "file", "gone" (unlinked)

vars == <<file, tmp, lock, pc, call, answer, fd>>

Idle  == [kind |-> "idle"]
Calls == {Idle} \cup [kind : {"put"}, data : Data]
                \cup [kind : {"swap"}, expected : Data \cup {None}, data : Data]

Contents == Data \cup {None, Partial}

\* p is behind its flock
Locked(p) == call[p].kind = "swap" /\ pc[p] \in {"check", "open", "write", "replace", "return"}

-----------------------------------------------------------------------------
(* Decisions of the code, each after a slip the properties exclude. *)

NoLock == TRUE
\* flock(LOCK_EX | LOCK_NB) succeeds.
LockFree == lock = None

UnlockedIfWon(p) == IF lock = p /\ answer[p] = "won" THEN None ELSE lock
\* The finally of _conditional_put, and the kernel at a close.
Unlocked(p) == IF lock = p THEN None ELSE lock

\* put writes beside the key.
Target == "tmp"

\* Where the descriptors point once the temporary file has become the key's file.
Renamed(at) == CASE at = "tmp" -> "file" [] at = "file" -> "gone" [] OTHER -> at

-----------------------------------------------------------------------------
Init ==
  /\ file = None /\ tmp = None /\ lock = None
  /\ pc = [p \in Proc |-> "idle"]
  /\ call = [p \in Proc |-> Idle]
  /\ answer = [p \in Proc |-> "none"]
  /\ fd = [p \in Proc |-> "none"]

Goto(p, label) == pc' = [pc EXCEPT ![p] = label]

\* put(key, data)
StartPut(p) ==
  /\ \A q \in Proc : pc[q] = "idle"
  /\ \E d \in Data : call' = [call EXCEPT ![p] = [kind |-> "put", data |-> d]]
  /\ Goto(p, "open")
  /\ UNCHANGED <<file, tmp, lock, answer, fd>>

\* put_if_absent(key, data), which expects None, and compare_and_swap
StartSwap(p) ==
  /\ pc[p] = "idle"
  /\ \A q \in Proc : call[q].kind # "put"
  /\ \E e \in Data \cup {None}, d \in Data :
       call' = [call EXCEPT ![p] = [kind |-> "swap", expected |-> e, data |-> d]]
  /\ Goto(p, "lock")
  /\ UNCHANGED <<file, tmp, lock, answer, fd>>

\* The lock is polled; between two attempts p sleeps.
TryLock(p) ==
  /\ pc[p] = "lock" /\ LockFree
  /\ lock' = p
  /\ Goto(p, "check")
  /\ UNCHANGED <<file, tmp, call, answer, fd>>

Check(p) ==
  /\ pc[p] = "check"
  /\ IF file = call[p].expected
       THEN Goto(p, "open") /\ UNCHANGED answer
       ELSE Goto(p, "return") /\ answer' = [answer EXCEPT ![p] = "lost"]
  /\ UNCHANGED <<file, tmp, lock, call, fd>>

\* open(tmp, "wb") creates the file or empties the one that is there.
OpenTmp(p) ==
  /\ pc[p] = "open"
  /\ fd' = [fd EXCEPT ![p] = Target]
  /\ tmp' = IF Target = "tmp" THEN Partial ELSE tmp
  /\ file' = IF Target = "file" THEN Partial ELSE file
  /\ Goto(p, "write")
  /\ UNCHANGED <<lock, call, answer>>

\* write, flush, fsync: into whatever the descriptor points at.
Write(p) ==
  /\ pc[p] = "write"
  /\ tmp' = IF fd[p] = "tmp" THEN call[p].data ELSE tmp
  /\ file' = IF fd[p] = "file" THEN call[p].data ELSE file
  /\ fd' = [fd EXCEPT ![p] = "none"]
  /\ Goto(p, "replace")
  /\ UNCHANGED <<lock, call, answer>>

Replace(p) ==
  /\ pc[p] = "replace" /\ tmp # None
  /\ file' = tmp /\ tmp' = None
  /\ fd' = [q \in Proc |-> Renamed(fd[q])]
  /\ answer' = [answer EXCEPT ![p] = "won"]
  /\ Goto(p, "return")
  /\ UNCHANGED <<lock, call>>

Return(p) ==
  /\ pc[p] = "return"
  /\ lock' = Unlocked(p)
  /\ call' = [call EXCEPT ![p] = Idle]
  /\ answer' = [answer EXCEPT ![p] = "none"]
  /\ Goto(p, "idle")
  /\ UNCHANGED <<file, tmp, fd>>

\* An OSError (a full disk, os.replace without a temporary file), a cancellation
\* while p polls the lock, or p's death.
Stop(p) ==
  /\ pc[p] # "idle"
  /\ lock' = IF lock = p THEN None ELSE lock
  /\ call' = [call EXCEPT ![p] = Idle]
  /\ answer' = [answer EXCEPT ![p] = "none"]
  /\ fd' = [fd EXCEPT ![p] = "none"]
  /\ Goto(p, "idle")
  /\ UNCHANGED <<file, tmp>>

\* delete_prefix, of a prefix nobody writes to
Delete ==
  /\ \A p \in Proc : pc[p] = "idle"
  /\ file' = None /\ tmp' = None
  /\ UNCHANGED <<lock, pc, call, answer, fd>>

-----------------------------------------------------------------------------
Step(p) ==
  TryLock(p) \/ Check(p) \/ OpenTmp(p) \/ Write(p) \/ Replace(p) \/ Return(p)

Next ==
  \/ \E p \in Proc : StartPut(p) \/ StartSwap(p) \/ Step(p) \/ Stop(p)
  \/ Delete

Spec == Init /\ [][Next]_vars
-----------------------------------------------------------------------------
(* Properties *)

\* Type invariant.  Besides the types: the lock's holder is exactly the process
\* between its flock and its return.
TypeOK ==
  /\ file \in Contents /\ tmp \in Contents
  /\ lock \in Proc \cup {None}
  /\ pc \in [Proc -> {"idle", "lock", "check", "open", "write", "replace", "return"}]
  /\ call \in [Proc -> Calls]
  /\ answer \in [Proc -> {"none", "won", "lost"}]
  /\ fd \in [Proc -> {"none", "tmp", "file", "gone"}]
  /\ \A p \in Proc : lock = p <=> Locked(p)

\* The key's file is at every moment a complete object, although its writers share
\* one temporary file and may stop in the middle of writing it.
NeverTorn == file # Partial

Object == INSTANCE AtomicObject WITH object <- file

\* The conduit implements atomic objects: puts and swaps of any number of processes
\* happen one after the other, and every swap that returns True found its expectation.
ObjectSpec == Object!Spec

\* A process that holds the lock gives it up.
LockIsReleased == \A p \in Proc : lock = p ~> lock # p
=============================================================================
