---------------------------- MODULE RemoteConduit ----------------------------
(***************************************************************************)
(* One key of the remote conduits (conduit/s3.py, conduit/gcs.py): the     *)
(* writes whose answer depends on what they find.  S3 has the conditional  *)
(* writes of the contract and a delete that does not look; GCS has only    *)
(* the delete, which is told when there was nothing.                       *)
(*                                                                         *)
(* A call is a loop of attempts: botocore's standard mode retries S3's     *)
(* (max_attempts in _client), _io itself GCS's.  An attempt that fails on  *)
(* the way was served, will be served later, or never.  Plain puts, which  *)
(* no answer depends on, are in Telemetry (uncertain).                     *)
(***************************************************************************)
EXTENDS Integers, FiniteSets

CONSTANTS
  Proc,         \* processes that write the key
  Data,         \* contents
  None,         \* no object
  MaxAttempts,  \* max_attempts, _MAX_ATTEMPTS
  MaxLate       \* bound: requests that outlive their attempt

VARIABLES
  provider,  \* "s3" or "gcs"; never changes
  object,    \* the key's content, None when there is none
  at,        \* where p's call is: "idle", "read", "wait", "return"
  call,      \* what p has called, or Idle
  tries,     \* attempts it has made
  wire,      \* its attempt: "none", "sent", "ok", "refused"
  late,      \* requests that may be served although their attempt has failed
  written,   \* one of its requests has taken effect
  answer     \* "none", "won" (True), "lost" (False), "raised"

callVars   == <<at, call, tries, wire, answer>>
remoteVars == <<object, callVars, late, written>>

Idle  == [kind |-> "idle"]
Delete == [kind |-> "delete"]
Swaps == [kind : {"swap"}, expected : Data \cup {None}, data : Data]

\* The base class refuses conditional writes where a provider has none.
Offered == IF provider = "s3" THEN Swaps \cup {Delete} ELSE {Delete}

-----------------------------------------------------------------------------
(* Decisions, the code's and the store's, each after slips the properties exclude. *)

Unconditionally(c) == TRUE
\* If-None-Match and If-Match (an ETag stands for a content): the store compares and
\* writes at one instant.
Fits(c) == c.kind = "swap" => object = c.expected

Outcome(c) == IF c.kind = "swap" THEN c.data ELSE None

RetriedIsWon(p) == IF wire[p] = "ok" \/ tries[p] > 1 THEN "won" ELSE "lost"
\* A precondition that fails, or a conflict, is answered False; GCS's 404 raises.
Verdict(p) ==
  IF wire[p] = "ok" THEN "won" ELSE IF call[p].kind = "swap" THEN "lost" ELSE "raised"

NeverCounted(p) == tries[p]
Counted(p) == tries[p] + 1

-----------------------------------------------------------------------------
Start ==
  /\ object = None
  /\ at = [p \in Proc |-> "idle"] /\ call = [p \in Proc |-> Idle]
  /\ tries = [p \in Proc |-> 0] /\ wire = [p \in Proc |-> "none"]
  /\ late = {} /\ written = [p \in Proc |-> FALSE]
  /\ answer = [p \in Proc |-> "none"]

Init == provider \in {"s3", "gcs"} /\ Start

\* p's call goes on to where, with another request if it goes to wait.
Proceed(p, where) ==
  /\ at' = [at EXCEPT ![p] = where]
  /\ tries' = [tries EXCEPT ![p] = IF where = "wait" THEN Counted(p) ELSE tries[p]]
  /\ wire' = [wire EXCEPT ![p] = IF where = "wait" THEN "sent" ELSE "none"]

Ends(p, with) == Proceed(p, "return") /\ answer' = [answer EXCEPT ![p] = with]

\* put_if_absent, compare_and_swap (which reads first) or delete_prefix.
Call(p) ==
  /\ at[p] = "idle"
  /\ \E c \in Offered :
       /\ call' = [call EXCEPT ![p] = c]
       /\ Proceed(p, IF c \in Swaps /\ c.expected # None THEN "read" ELSE "wait")
  /\ UNCHANGED <<object, answer, late, written>>

\* compare_and_swap's get: another content, or no object, is answered False.
Read(p) ==
  /\ at[p] = "read"
  /\ IF object = call[p].expected THEN Proceed(p, "wait") /\ UNCHANGED answer ELSE Ends(p, "lost")
  /\ UNCHANGED <<object, call, late, written>>

\* The store serves a request.  GCS refuses to delete nothing; S3 may refuse a
\* conditional write because of one that runs beside it.
Refuses(c, p) ==
  \/ ~Fits(c)
  \/ provider = "gcs" /\ object = None
  \/ c.kind = "swap" /\ \E q \in Proc \ {p} : wire[q] = "sent"

Serve(p) ==
  /\ at[p] = "wait" /\ wire[p] = "sent"
  /\ \/ /\ Fits(call[p]) /\ ~(provider = "gcs" /\ object = None)
        /\ object' = Outcome(call[p])
        /\ wire' = [wire EXCEPT ![p] = "ok"]
        /\ written' = [written EXCEPT ![p] = TRUE]
     \/ /\ Refuses(call[p], p)
        /\ wire' = [wire EXCEPT ![p] = "refused"]
        /\ UNCHANGED <<object, written>>
  /\ UNCHANGED <<at, call, tries, answer, late>>

Answered(p) ==
  /\ at[p] = "wait" /\ wire[p] \in {"ok", "refused"}
  /\ Ends(p, Verdict(p))
  /\ UNCHANGED <<object, call, late, written>>

\* What p's attempt leaves behind: a request on its way is lost or late.
Leaves(p) ==
  \/ late' = late
  \/ wire[p] = "sent" /\ Cardinality(late) < MaxLate /\ late' = late \cup {[by |-> p, call |-> call[p]]}

\* A timeout, a reset, a throttling answer: another attempt, or the last one has failed
\* and _io raises a ConduitError.
AttemptFails(p) ==
  /\ at[p] = "wait" /\ Leaves(p)
  /\ IF tries[p] < MaxAttempts THEN Proceed(p, "wait") /\ UNCHANGED answer ELSE Ends(p, "raised")
  /\ UNCHANGED <<object, call, written>>

\* A denied authorization, a cancellation, or all attempts of the read have failed.
CallFails(p) ==
  /\ at[p] \in {"read", "wait"} /\ Leaves(p)
  /\ Ends(p, "raised")
  /\ UNCHANGED <<object, call, written>>

LateLands(r) ==
  /\ late' = late \ {r}
  /\ IF Fits(r.call)
       THEN /\ object' = Outcome(r.call)
            /\ written' = [p \in Proc |-> written[p] \/ p = r.by]
       ELSE UNCHANGED <<object, written>>
  /\ UNCHANGED callVars

\* What is still late belongs to nobody.
Return(p) ==
  /\ at[p] = "return"
  /\ at' = [at EXCEPT ![p] = "idle"] /\ call' = [call EXCEPT ![p] = Idle]
  /\ tries' = [tries EXCEPT ![p] = 0] /\ answer' = [answer EXCEPT ![p] = "none"]
  /\ written' = [written EXCEPT ![p] = FALSE]
  /\ late' = {IF r.by = p THEN [r EXCEPT !.by = None] ELSE r : r \in late}
  /\ UNCHANGED <<object, wire>>

Step(p) == Read(p) \/ Serve(p) \/ Answered(p) \/ Return(p)

Next ==
  /\ \/ \E p \in Proc : Call(p) \/ Step(p) \/ AttemptFails(p) \/ CallFails(p)
     \/ \E r \in late : LateLands(r)
  /\ UNCHANGED provider

\* A client that is answered goes on, and a store that is reached answers.
Fairness == \A p \in Proc : WF_remoteVars(Step(p))
-----------------------------------------------------------------------------
(* Properties *)

\* Types, with at most MaxAttempts attempts in a call.
TypeOK ==
  /\ provider \in {"localfs", "s3", "gcs"}
  /\ object \in Data \cup {None}
  /\ at \in [Proc -> {"idle", "read", "wait", "return"}]
  /\ call \in [Proc -> Swaps \cup {Idle, Delete}]
  /\ tries \in [Proc -> 0..MaxAttempts]
  /\ wire \in [Proc -> {"none", "sent", "ok", "refused"}]
  /\ late \subseteq [by : Proc \cup {None}, call : Swaps \cup {Delete}]
  /\ written \in [Proc -> BOOLEAN]
  /\ answer \in [Proc -> {"none", "won", "lost", "raised"}]

\* True is told only to a call that has written, and False to one that has not, unless
\* it was retried: then an attempt whose answer was lost may have been its own obstacle.
AnswersTell == \A p \in Proc :
  /\ answer[p] = "won" => written[p]
  /\ answer[p] = "lost" /\ written[p] => tries[p] > 1

\* Whatever is retried or late, a content is replaced only by a call that expects it, or
\* deleted.
ExpectedIsReplaced ==
  [][object' \in Data /\ object' # object =>
       LET swaps == {call[p] : p \in Proc} \cup {r.call : r \in late}
       IN \E c \in swaps \cap Swaps : c.expected = object /\ c.data = object']_object

\* Every call ends, however many of its attempts fail.
CallsEnd == \A p \in Proc : at[p] # "idle" ~> at[p] = "idle"
=============================================================================
