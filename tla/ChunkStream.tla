----------------------------- MODULE ChunkStream -----------------------------
(***************************************************************************)
(* The telemetry of one sandbox as its driver depends on it: chunks appear *)
(* in the store until the manifest does, and a poll reads all that its     *)
(* listing shows and learns from the same listing whether that was all.    *)
(* What is in a chunk is left to EventLog.                                 *)
(*                                                                         *)
(* Driver polls by these steps, and Telemetry is shown to implement them   *)
(* over any store: so the one atomic Poll of the driver's model stands for *)
(* a listing, the gets that follow it and whatever lands in between.       *)
(***************************************************************************)

VARIABLES unread,    \* the store holds a chunk that no poll has taken up
          manifest,  \* the manifest object exists
          sawTotal   \* a poll has found it

streamVars == <<unread, manifest, sawTotal>>

Init == unread = FALSE /\ manifest = FALSE /\ sawTotal = FALSE

Put ==
  /\ ~manifest
  /\ unread' = TRUE
  /\ UNCHANGED <<manifest, sawTotal>>

\* The manifest comes after the last chunk, which may come with it.
Seal ==
  /\ ~manifest
  /\ manifest' = TRUE
  /\ unread' \in {unread, TRUE}
  /\ UNCHANGED sawTotal

Poll ==
  /\ unread' = FALSE
  /\ sawTotal' = (sawTotal \/ manifest)
  /\ UNCHANGED manifest

Next == Put \/ Seal \/ Poll

Spec == Init /\ [][Next]_streamVars

\* The reader has the whole stream.
Finished == sawTotal /\ ~unread
=============================================================================
