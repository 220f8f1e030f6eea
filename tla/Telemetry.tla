------------------------------ MODULE Telemetry ------------------------------
(***************************************************************************)
(* Store-mediated telemetry (telemetry.py): a ChunkShipper in the guest    *)
(* buffers lines and puts them in numbered chunk objects; a ChunkReader on *)
(* the host lists the prefix and fetches the chunks in index order.  The   *)
(* two share nothing but the object store.                                 *)
(*                                                                         *)
(* Data is abstracted to order: a line is its acceptance number, the       *)
(* buffer is the run of lines shipped+1..emitted, and a chunk is the run   *)
(* [lo, hi] it holds.  Elapsed time is left to the driver's model: here a  *)
(* tick may find its interval over at any moment.                          *)
(*                                                                         *)
(* An asyncio task runs without interruption between two awaits, and an    *)
(* action is one such stretch.  Calling flush() and getting its lock are   *)
(* two actions: when the lock is free the code does not yield in between,  *)
(* so the model has more interleavings than the code and never fewer.      *)
(***************************************************************************)
EXTENDS Integers, Sequences

CONSTANTS
  Worker,       \* tasks that emit lines and close the shipper once (the runner's body)
  Beat,         \* tasks that only tick and may be cancelled (the runner's heartbeat)
  None,         \* "no task" for the lock, "no manifest" for a count
  FlushLines,   \* the byte threshold of emit_line, counted in lines
  MaxLines,     \* bound: lines accepted in a behaviour
  MaxFaults     \* bound: store operations that raise in a behaviour

Task == Worker \cup Beat

ASSUME TelemetryAssumption ==
  /\ Worker \cap Beat = {}
  /\ None \notin Task /\ None \notin Nat
  /\ FlushLines \in Nat /\ FlushLines >= 2   \* one heartbeat line is no full buffer
  /\ MaxLines \in Nat /\ MaxFaults \in Nat

VARIABLES
  \* the shipper
  emitted,    \* lines accepted into _buf so far
  shipped,    \* lines deleted from the front of _buf so far
  index,      \* _index, the last chunk whose put returned
  closing,    \* _closing
  closed,     \* _closed
  lock,       \* holder of _flush_lock
  pc,         \* where each task is
  ret,        \* where a task's flush() returns to: "idle", or close()'s "loop"
  req,        \* the put a task is awaiting (the index, count and body of flush)
  \* the object store
  uncertain,  \* TRUE: a put that raised or was cancelled may have taken effect, or
              \* take effect later (S3, GCS); FALSE: it had no effect (a local directory,
              \* where os.replace is the last thing put does); never changes
  chunk,      \* the chunk objects, Absent until put
  manifest,   \* total_chunks of the manifest object, None until put
  orphans,    \* puts whose caller is gone and that may still take effect
  faults,     \* store operations that have raised
  \* the reader
  rpc,        \* "idle", "get" (inside poll_lines) or "failed" (it raised)
  seen,       \* _seen
  total,      \* _total
  present,    \* the chunk indices of the listing being worked through
  batch,      \* the lines gathered by this poll_lines
  delivered   \* the lines poll_lines has returned to its caller

shipperVars == <<emitted, shipped, index, closing, closed, lock, pc, ret, req>>
storeVars   == <<chunk, manifest, orphans>>
readerVars  == <<rpc, seen, total, present, batch, delivered>>
vars == <<shipperVars, storeVars, faults, readerVars>>

-----------------------------------------------------------------------------
Absent == [lo |-> 0, hi |-> 0]
Chunk  == [lo : 0..MaxLines, hi : 0..MaxLines]
NoReq  == [index |-> 0, lo |-> 0, hi |-> 0]
Req    == [index : 0..MaxLines, lo : 0..MaxLines, hi : 0..MaxLines]

Body(r)  == [lo |-> r.lo, hi |-> r.hi]
Run(m, n) == [i \in 1..(n - m) |-> m + i]     \* the lines m+1, ..., n
Lines(c) == Run(c.lo - 1, c.hi)
Buffered == emitted - shipped

-----------------------------------------------------------------------------
(* The small decisions of the code, each after the slips that the          *)
(* properties below are there to exclude.                                  *)

MayEmitWhileClosing == ~closed
\* emit_line's refusal.
MayEmit == ~closing /\ ~closed

NoLock == TRUE
\* `async with self._flush_lock`: one flush at a time.
LockFree == lock = None

DropsOneMore(t) == req[t].hi - req[t].lo + 2
\* The count captured before the put, not the buffer's length after it.
Dropped(t) == req[t].hi - req[t].lo + 1

OrphanPuts(t) == IF uncertain /\ pc[t] = "put" THEN orphans \cup {req[t]} ELSE orphans

AbandonKeepsLock(t) ==
  /\ UNCHANGED lock
  /\ req' = [req EXCEPT ![t] = NoReq]
  /\ orphans' = OrphanPuts(t)
\* The awaited put is over without having returned: the lock is released, the
\* buffer and the index stay, and an uncertain put may still take effect.
Abandon(t) ==
  /\ lock' = IF lock = t THEN None ELSE lock
  /\ req' = [req EXCEPT ![t] = NoReq]
  /\ orphans' = OrphanPuts(t)

\* ChunkReader.finished.
Finished == total # None /\ seen >= total

FromLastSeen == IF batch = << >> /\ seen > 0 THEN seen ELSE seen + 1
\* poll_lines' nxt: strictly in index order, from where the last poll ended.
NextChunk == seen + 1

-----------------------------------------------------------------------------
Init ==
  /\ uncertain \in BOOLEAN
  /\ emitted = 0 /\ shipped = 0 /\ index = 0
  /\ closing = FALSE /\ closed = FALSE
  /\ lock = None
  /\ pc = [t \in Task |-> "idle"]
  /\ ret = [t \in Task |-> "idle"]
  /\ req = [t \in Task |-> NoReq]
  /\ chunk = [i \in 1..MaxLines |-> Absent]
  /\ manifest = None
  /\ orphans = {}
  /\ faults = 0
  /\ rpc = "idle" /\ seen = 0 /\ total = None
  /\ present = {} /\ batch = << >> /\ delivered = << >>

-----------------------------------------------------------------------------
(* ChunkShipper *)

\* emit_line: refused once closing; flushes when the buffer is full.
EmitLine(t) ==
  /\ pc[t] = "idle" /\ MayEmit
  /\ emitted < MaxLines
  /\ emitted' = emitted + 1
  /\ ret' = [ret EXCEPT ![t] = "idle"]
  /\ pc' = [pc EXCEPT ![t] = IF Buffered + 1 >= FlushLines THEN "lock" ELSE "idle"]
  /\ UNCHANGED <<shipped, index, closing, closed, lock, req>>
  /\ UNCHANGED <<storeVars, faults, readerVars>>

\* tick with lines waiting and the flush interval over.
TickFlush(t) ==
  /\ pc[t] = "idle" /\ Buffered > 0
  /\ pc' = [pc EXCEPT ![t] = "lock"]
  /\ ret' = [ret EXCEPT ![t] = "idle"]
  /\ UNCHANGED <<emitted, shipped, index, closing, closed, lock, req>>
  /\ UNCHANGED <<storeVars, faults, readerVars>>

\* tick with nothing waiting and the heartbeat interval over: a line, then a flush.
TickHeartbeat(t) ==
  /\ pc[t] = "idle" /\ Buffered = 0 /\ MayEmit
  /\ emitted < MaxLines
  /\ emitted' = emitted + 1
  /\ pc' = [pc EXCEPT ![t] = "lock"]
  /\ ret' = [ret EXCEPT ![t] = "idle"]
  /\ UNCHANGED <<shipped, index, closing, closed, lock, req>>
  /\ UNCHANGED <<storeVars, faults, readerVars>>

\* flush, up to its await: the index and the body are fixed under the lock.
Acquire(t) ==
  /\ pc[t] = "lock" /\ LockFree
  /\ IF Buffered = 0
       THEN /\ pc' = [pc EXCEPT ![t] = ret[t]]
            /\ UNCHANGED <<lock, req>>
       ELSE /\ pc' = [pc EXCEPT ![t] = "put"]
            /\ lock' = t
            /\ req' = [req EXCEPT ![t] =
                         [index |-> index + 1, lo |-> shipped + 1, hi |-> emitted]]
  /\ UNCHANGED <<emitted, shipped, index, closing, closed, ret>>
  /\ UNCHANGED <<storeVars, faults, readerVars>>

\* The store performs the put: from here a listing shows the chunk.
PutLands(t) ==
  /\ pc[t] = "put"
  /\ chunk' = [chunk EXCEPT ![req[t].index] = Body(req[t])]
  /\ pc' = [pc EXCEPT ![t] = "landed"]
  /\ UNCHANGED <<emitted, shipped, index, closing, closed, lock, ret, req>>
  /\ UNCHANGED <<manifest, orphans, faults, readerVars>>

\* flush, after its await: advance, drop what was sent, release the lock.
FlushReturns(t) ==
  /\ pc[t] = "landed"
  /\ index' = req[t].index
  /\ shipped' = shipped + Dropped(t)
  /\ lock' = None
  /\ req' = [req EXCEPT ![t] = NoReq]
  /\ pc' = [pc EXCEPT ![t] = ret[t]]
  /\ UNCHANGED <<emitted, closing, closed, ret>>
  /\ UNCHANGED <<storeVars, faults, readerVars>>

MayAbandon(t) == pc[t] = "put" \/ (pc[t] = "landed" /\ uncertain)

\* store.put raises: flush, and the emit_line, tick or close above it, raise.  close is
\* the last call of its task, which ends with it.
PutFails(t) ==
  /\ MayAbandon(t) /\ faults < MaxFaults
  /\ faults' = faults + 1
  /\ Abandon(t)
  /\ pc' = [pc EXCEPT ![t] = IF ret[t] = "loop" THEN "gone" ELSE "idle"]
  /\ UNCHANGED <<emitted, shipped, index, closing, closed, ret>>
  /\ UNCHANGED <<chunk, manifest, readerVars>>

\* task.cancel(): CancelledError is raised at the await the task is suspended in.
Cancel(t) ==
  /\ pc[t] \in {"idle", "lock"} \/ MayAbandon(t)
  /\ Abandon(t)
  /\ pc' = [pc EXCEPT ![t] = "gone"]
  /\ UNCHANGED <<emitted, shipped, index, closing, closed, ret>>
  /\ UNCHANGED <<chunk, manifest, faults, readerVars>>

\* An abandoned put takes effect after all.
OrphanLands(r) ==
  /\ chunk' = [chunk EXCEPT ![r.index] = Body(r)]
  /\ orphans' = orphans \ {r}
  /\ UNCHANGED <<shipperVars, manifest, faults, readerVars>>

\* The put of result.json raises, before the close that would have followed.
ResultFails(t) ==
  /\ pc[t] = "idle" /\ ~closed /\ faults < MaxFaults
  /\ faults' = faults + 1
  /\ pc' = [pc EXCEPT ![t] = "gone"]
  /\ UNCHANGED <<emitted, shipped, index, closing, closed, lock, ret, req>>
  /\ UNCHANGED <<storeVars, readerVars>>

\* close: returns at once when closed, raises while closing.
Close(t) ==
  /\ pc[t] = "idle" /\ ~closed /\ ~closing
  /\ pc' = [pc EXCEPT ![t] = "loop"]
  /\ ret' = [ret EXCEPT ![t] = "loop"]
  /\ UNCHANGED <<emitted, shipped, index, closing, closed, lock, req>>
  /\ UNCHANGED <<storeVars, faults, readerVars>>

\* The `while self._buf` of close; once it is empty, no line may enter any more.
CloseLoop(t) ==
  /\ pc[t] = "loop"
  /\ IF Buffered > 0
       THEN pc' = [pc EXCEPT ![t] = "lock"] /\ UNCHANGED closing
       ELSE pc' = [pc EXCEPT ![t] = "manifest"] /\ closing' = TRUE
  /\ UNCHANGED <<emitted, shipped, index, closed, lock, ret, req>>
  /\ UNCHANGED <<storeVars, faults, readerVars>>

ManifestLands(t) ==
  /\ pc[t] = "manifest"
  /\ manifest' = index
  /\ pc' = [pc EXCEPT ![t] = "sealed"]
  /\ UNCHANGED <<emitted, shipped, index, closing, closed, lock, ret, req>>
  /\ UNCHANGED <<chunk, orphans, faults, readerVars>>

CloseReturns(t) ==
  /\ pc[t] = "sealed"
  /\ closed' = TRUE
  /\ pc' = [pc EXCEPT ![t] = "idle"]
  /\ UNCHANGED <<emitted, shipped, index, closing, lock, ret, req>>
  /\ UNCHANGED <<storeVars, faults, readerVars>>

\* The put of the manifest raises, and with it close.  (A manifest that lands late says
\* what it would have said in time.)
ManifestFails(t) ==
  /\ pc[t] = "manifest" \/ (pc[t] = "sealed" /\ uncertain)
  /\ faults < MaxFaults
  /\ faults' = faults + 1
  /\ pc' = [pc EXCEPT ![t] = "gone"]
  /\ UNCHANGED <<emitted, shipped, index, closing, closed, lock, ret, req>>
  /\ UNCHANGED <<storeVars, readerVars>>

-----------------------------------------------------------------------------
(* ChunkReader.poll_lines *)

\* The listing; the manifest is fetched the first time it is listed.
PollList ==
  /\ rpc = "idle"
  /\ rpc' = "get"
  /\ present' = {i \in 1..MaxLines : chunk[i] # Absent}
  /\ total' = IF total = None THEN manifest ELSE total
  /\ UNCHANGED <<seen, batch, delivered>>
  /\ UNCHANGED <<shipperVars, storeVars, faults>>

PollGet ==
  /\ rpc = "get" /\ NextChunk \in present
  /\ batch' = batch \o Lines(chunk[NextChunk])
  /\ seen' = NextChunk
  /\ UNCHANGED <<rpc, total, present, delivered>>
  /\ UNCHANGED <<shipperVars, storeVars, faults>>

PollReturns ==
  /\ rpc = "get" /\ NextChunk \notin present
  /\ rpc' = "idle"
  /\ delivered' = delivered \o batch
  /\ batch' = << >>
  /\ UNCHANGED <<seen, total, present>>
  /\ UNCHANGED <<shipperVars, storeVars, faults>>

\* A get raises out of poll_lines: the lines gathered are dropped although _seen
\* has passed them.  The driver lets the exception end the run.
PollFails ==
  /\ rpc = "get" /\ faults < MaxFaults
  /\ faults' = faults + 1
  /\ rpc' = "failed"
  /\ batch' = << >>
  /\ UNCHANGED <<seen, total, present, delivered>>
  /\ UNCHANGED <<shipperVars, storeVars>>

-----------------------------------------------------------------------------
TaskStep(t) ==
  \/ Acquire(t) \/ PutLands(t) \/ FlushReturns(t)
  \/ CloseLoop(t) \/ ManifestLands(t) \/ CloseReturns(t)

Next ==
  /\ \/ \E t \in Worker : EmitLine(t) \/ ResultFails(t) \/ Close(t)
     \/ \E t \in Beat : TickFlush(t) \/ TickHeartbeat(t) \/ Cancel(t)
     \/ \E t \in Task : TaskStep(t) \/ PutFails(t) \/ ManifestFails(t)
     \/ \E r \in orphans : OrphanLands(r)
     \/ PollList \/ PollGet \/ PollReturns \/ PollFails
  /\ UNCHANGED uncertain

Spec == Init /\ [][Next]_<<uncertain, vars>>

\* The event loop keeps running its tasks, the store answers, the driver polls.
Fairness ==
  /\ \A t \in Task : WF_vars(TaskStep(t))
  /\ WF_vars(PollList \/ PollGet \/ PollReturns)

FairSpec == Spec /\ Fairness

\* In addition: the runner comes to close its shipper in the end.  A close that fails is
\* not called again: its task is gone.
ClosingSpec == FairSpec /\ \A t \in Worker : WF_vars(Close(t))

-----------------------------------------------------------------------------
(* Properties *)

\* Type invariant.  Besides the types: no line leaves the buffer before it came
\* in, and every chunk that is written takes at least one line out of it.
TypeOK ==
  /\ emitted \in 0..MaxLines /\ shipped \in 0..emitted /\ index \in 0..shipped
  /\ closing \in BOOLEAN /\ closed \in BOOLEAN
  /\ lock \in Task \cup {None}
  /\ pc \in [Task -> {"idle", "lock", "put", "landed", "loop", "manifest", "sealed", "gone"}]
  /\ ret \in [Task -> {"idle", "loop"}]
  /\ req \in [Task -> Req]
  /\ chunk \in [1..MaxLines -> Chunk]
  /\ manifest \in (0..MaxLines) \cup {None}
  /\ orphans \subseteq Req
  /\ faults \in 0..MaxFaults
  /\ rpc \in {"idle", "get", "failed"}
  /\ seen \in 0..MaxLines
  /\ total \in (0..MaxLines) \cup {None}
  /\ present \subseteq 1..MaxLines
  /\ batch \in Seq(1..MaxLines) /\ delivered \in Seq(1..MaxLines)

\* The last line of chunk i, 0 before the first chunk.
Upto(i) == IF i = 0 THEN 0 ELSE chunk[i].hi

\* The chunks the shipper has advanced past split the shipped lines without gap,
\* overlap or empty chunk, whatever the tasks emitted while a put was awaited.
ChunksPartitionShipped ==
  /\ \A i \in 1..index : chunk[i].lo = Upto(i - 1) + 1 /\ chunk[i].hi >= chunk[i].lo
  /\ Upto(index) = shipped

\* The manifest is an end-of-stream mark: once it is in the store it names the
\* last chunk and no accepted line is outside the chunks (close's loop, its
\* _closing flag and emit_line's refusal together).
ManifestIsFinal == manifest # None => manifest = index /\ shipped = emitted

\* A reader that reports `finished`, and has handed its poll over, has handed
\* over every line the shipper ever accepted, if failed puts have no effect.
FinishedMeansAll == ~uncertain /\ Finished /\ rpc = "idle" => delivered = Run(0, emitted)

\* "Chunks are immutable once written" (PROTOCOL.md): no put changes the content
\* of a chunk object that exists.
ChunksImmutable == [][\A i \in 1..MaxLines : chunk[i] # Absent => chunk'[i] = chunk[i]]_chunk

\* What the host has been handed is in order and without repetition, even where
\* chunk objects are rewritten by retried and late puts.
InOrderAtMostOnce == \A i \in 1..Len(delivered) - 1 : delivered[i] < delivered[i + 1]

\* With uncertain puts a chunk may grow after it was read: no log is promised then.
Log == INSTANCE EventLog WITH
  accepted  <- IF uncertain THEN 0 ELSE emitted,
  delivered <- IF uncertain THEN << >> ELSE delivered

\* Over a store whose failed puts have no effect, shipper, store and reader together
\* implement the event log: the host is handed a prefix of the accepted lines, extended
\* by each poll.
LogSpec == Log!Spec

\* The runner's only close failed with lines in the buffer, or was never called.
Unclosed == ~closing /\ \A t \in Worker : pc[t] = "gone"

\* What a failed flush leaves is made up for by a later one or by close: every line ever
\* accepted reaches the host unless the only close failed before the buffer was empty or
\* was never called, the host's own poll raised, or a failed put took effect.
AllDelivered == <>[](uncertain \/ rpc = "failed" \/ Unclosed \/ Len(delivered) = emitted)
=============================================================================
