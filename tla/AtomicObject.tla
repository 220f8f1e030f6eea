---------------------------- MODULE AtomicObject ----------------------------
(***************************************************************************)
(* What the contract of Conduit (contracts.py) says of one key: every      *)
(* write happens at one instant between call and return; a conditional     *)
(* write happens exactly if it finds the expected content, and its answer  *)
(* tells; a call that raises has happened or not.                          *)
(***************************************************************************)
CONSTANTS Proc, Data, None

VARIABLES
  object,  \* the key's content, None when there is none
  call,    \* call[p]: the write p has called, or Idle
  answer   \* answer[p]: what came of it

atomicVars == <<object, call, answer>>

Idle  == [kind |-> "idle"]
Calls == {Idle} \cup [kind : {"put"}, data : Data]
                \cup [kind : {"swap"}, expected : Data \cup {None}, data : Data]

Init ==
  /\ object = None
  /\ call = [p \in Proc |-> Idle]
  /\ answer = [p \in Proc |-> "none"]

Invoke(p) ==
  /\ call[p] = Idle
  /\ \E c \in Calls \ {Idle} : call' = [call EXCEPT ![p] = c]
  /\ UNCHANGED <<object, answer>>

\* The write happens: an unconditional one always, ...
Put(p) ==
  /\ call[p].kind = "put" /\ answer[p] = "none"
  /\ object' = call[p].data
  /\ answer' = [answer EXCEPT ![p] = "won"]
  /\ UNCHANGED call

\* ... put_if_absent (expected None) and compare_and_swap on what they expect, ...
Swap(p) ==
  /\ call[p].kind = "swap" /\ answer[p] = "none" /\ object = call[p].expected
  /\ object' = call[p].data
  /\ answer' = [answer EXCEPT ![p] = "won"]
  /\ UNCHANGED call

\* ... and otherwise they change nothing.
Refuse(p) ==
  /\ call[p].kind = "swap" /\ answer[p] = "none" /\ object # call[p].expected
  /\ answer' = [answer EXCEPT ![p] = "lost"]
  /\ UNCHANGED <<object, call>>

\* The call returns, or raises.
Leave(p) ==
  /\ call[p] # Idle
  /\ call' = [call EXCEPT ![p] = Idle]
  /\ answer' = [answer EXCEPT ![p] = "none"]
  /\ UNCHANGED object

\* delete_prefix of a prefix of the key.
Delete ==
  /\ object' = None
  /\ UNCHANGED <<call, answer>>

Next ==
  \/ \E p \in Proc : Invoke(p) \/ Put(p) \/ Swap(p) \/ Refuse(p) \/ Leave(p)
  \/ Delete

Spec == Init /\ [][Next]_atomicVars
=============================================================================
