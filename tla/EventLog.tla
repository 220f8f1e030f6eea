------------------------------ MODULE EventLog ------------------------------
(***************************************************************************)
(* What the telemetry channel of a sandbox promises to its host: the lines *)
(* the guest hands to the channel are delivered in the order they were     *)
(* accepted, each at most once and none skipped.  Lines are named by their *)
(* acceptance number, so a faithful delivery is <<1, 2, ..., k>> for some  *)
(* k that never exceeds the number accepted.                               *)
(***************************************************************************)
EXTENDS Naturals, Sequences

VARIABLES accepted,   \* how many lines the writer has accepted
          delivered   \* the lines handed to the host, in the order handed over

logVars == <<accepted, delivered>>

\* The first k lines, in order.
FirstLines(k) == [i \in 1..k |-> i]

Init == accepted = 0 /\ delivered = << >>

Accept == accepted' = accepted + 1 /\ UNCHANGED delivered

Deliver == /\ \E k \in Len(delivered)..accepted : delivered' = FirstLines(k)
           /\ UNCHANGED accepted

Next == Accept \/ Deliver

Spec == Init /\ [][Next]_logVars
=============================================================================
