------------------------------- MODULE Conduits -------------------------------
(***************************************************************************)
(* The conduit that store_from_env (conduit/factory.py) builds, by the kind *)
(* in the environment: the filesystem's (LocalConduit) or a remote one     *)
(* (RemoteConduit).  The other one does not exist.                         *)
(***************************************************************************)
EXTENDS LocalConduit, Integers

CONSTANTS
  Client,               \* processes that write a remote key
  MaxAttempts, MaxLate  \* as in RemoteConduit

ASSUME RemoteAssumption ==
  None \notin Data \cup Client /\ MaxAttempts \in Nat \ {0} /\ MaxLate \in Nat

VARIABLES kind, object, at, rcall, tries, wire, late, written, ranswer

remotes == <<object, at, rcall, tries, wire, late, written, ranswer>>

Remote == INSTANCE RemoteConduit WITH Proc <- Client, provider <- kind, call <- rcall, answer <- ranswer

\* RESOLUTO_STORE_KIND; "stdout" keeps nothing, and anything else raises.
Kinds == {"localfs", "s3", "gcs"}

BuiltInit == kind \in Kinds /\ Init /\ Remote!Start

LocalOnly(A)  == kind = "localfs" /\ A /\ UNCHANGED <<kind, remotes>>
RemoteOnly(A) == kind # "localfs" /\ A /\ UNCHANGED <<kind, vars>>

BuiltNext == LocalOnly(Next) \/ RemoteOnly(Remote!Next)

BuiltSpec ==
  /\ BuiltInit /\ [][BuiltNext]_<<kind, vars, remotes>>
  /\ \A p \in Client : WF_remotes(RemoteOnly(Remote!Step(p)))
-----------------------------------------------------------------------------
\* The type invariants of both.
TypesOK == TypeOK /\ Remote!TypeOK

\* RemoteConduit's properties.
AnswersTell        == Remote!AnswersTell
ExpectedIsReplaced == Remote!ExpectedIsReplaced
CallsEnd           == Remote!CallsEnd
=============================================================================
