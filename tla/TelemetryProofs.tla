--------------------------- MODULE TelemetryProofs ---------------------------
(***************************************************************************)
(* Telemetry for any number of tasks, lines and faults: first over a store *)
(* whose failed puts have no effect (IInv), then over any (OrderInv).      *)
(***************************************************************************)
EXTENDS Telemetry, SequenceTheorems, TLAPS

Putting(t) == pc[t] \in {"put", "landed"}

\* The flush lock is held exactly across the put, and while it is held the
\* captured request starts where the shipped lines end.
LockInv ==
  /\ orphans = {}
  /\ \A t \in Task : (lock = t) <=> Putting(t)
  /\ \A t \in Task : Putting(t) =>
       /\ req[t].index = index + 1
       /\ req[t].lo = shipped + 1
       /\ req[t].hi \in (shipped + 1)..emitted

\* The store holds the chunks shipped and, between a put's landing and its
\* return, one more.
StoreInv ==
  /\ ChunksPartitionShipped
  /\ \A i \in 1..index : chunk[i].hi <= shipped
  /\ \A t \in Task : pc[t] = "landed" => chunk[index + 1] = Body(req[t])
  /\ \A i \in 1..MaxLines : i > index /\ chunk[i] # Absent =>
       i = index + 1 /\ \E t \in Task : pc[t] = "landed"

\* Nothing moves in the shipper once it is closing.
CloseInv ==
  /\ closed => closing
  /\ \A t \in Task : pc[t] \in {"manifest", "sealed"} => closing
  /\ closing => shipped = emitted
  /\ manifest # None => closing /\ manifest = index

\* The reader has read the chunks 1..seen, and handed over or gathered in
\* `batch` exactly their lines.
ReaderInv ==
  /\ total # None => manifest = total
  /\ \A i \in present : chunk[i] # Absent
  /\ seen > 0 => chunk[seen] # Absent
  /\ rpc = "idle" => batch = << >>
  /\ \E m \in 0..Upto(seen) :
       /\ delivered = Run(0, m)
       /\ rpc # "failed" => batch = Run(m, Upto(seen))

IInv == TypeOK /\ LockInv /\ StoreInv /\ CloseInv /\ ReaderInv

-----------------------------------------------------------------------------
(* Runs of lines *)

\* A run of line numbers is a sequence of them.
LEMMA RunSeq ==
  ASSUME NEW m \in Nat, NEW n \in Nat, m <= n, n <= MaxLines
  PROVE  /\ Run(m, n) \in Seq(1..MaxLines)
         /\ Len(Run(m, n)) = n - m
         /\ \A i \in 1..(n - m) : Run(m, n)[i] = m + i
BY TelemetryAssumption DEF Run

\* A run of no lines is the empty sequence.
LEMMA RunEmpty ==
  ASSUME NEW m \in Nat
  PROVE  Run(m, m) = << >>
BY DEF Run

\* Adjacent runs concatenate: what a poll appends to what was there before.
LEMMA RunConcat ==
  ASSUME NEW m \in Nat, NEW k \in Nat, NEW n \in Nat, m <= k, k <= n, n <= MaxLines
  PROVE  Run(m, k) \o Run(k, n) = Run(m, n)
<1>0. k <= MaxLines /\ m <= n
  BY TelemetryAssumption
<1>1. Run(m, k) \in Seq(1..MaxLines) /\ Len(Run(m, k)) = k - m
  BY <1>0, RunSeq
<1>2. Run(k, n) \in Seq(1..MaxLines) /\ Len(Run(k, n)) = n - k
  BY RunSeq
<1>3. Run(m, n) \in Seq(1..MaxLines) /\ Len(Run(m, n)) = n - m
  BY <1>0, RunSeq
<1>4. /\ Run(m, k) \o Run(k, n) \in Seq(1..MaxLines)
      /\ Len(Run(m, k) \o Run(k, n)) = n - m
      /\ \A i \in 1..(n - m) : (Run(m, k) \o Run(k, n))[i] =
            IF i <= k - m THEN Run(m, k)[i] ELSE Run(k, n)[i - (k - m)]
  <2> DEFINE s == Run(m, k)
             t == Run(k, n)
  <2>1. s \in Seq(1..MaxLines) /\ t \in Seq(1..MaxLines)
    BY <1>1, <1>2
  <2>2. Len(s) = k - m /\ Len(t) = n - k
    BY <1>1, <1>2
  <2> HIDE DEF s, t
  <2>3. Len(s) + Len(t) = n - m
    BY <2>2
  <2>4. /\ s \o t \in Seq(1..MaxLines)
        /\ Len(s \o t) = Len(s) + Len(t)
        /\ \A i \in 1..(Len(s) + Len(t)) : (s \o t)[i] =
             IF i <= Len(s) THEN s[i] ELSE t[i - Len(s)]
    BY <2>1, ConcatProperties, Zenon
  <2>5. /\ s \o t \in Seq(1..MaxLines)
        /\ Len(s \o t) = n - m
        /\ \A i \in 1..(n - m) : (s \o t)[i] =
             IF i <= k - m THEN s[i] ELSE t[i - (k - m)]
    BY <2>2, <2>3, <2>4, Zenon
  <2> QED BY <2>5 DEF s, t
<1>5. ASSUME NEW i \in 1..(n - m) PROVE (Run(m, k) \o Run(k, n))[i] = Run(m, n)[i]
  <2>1. CASE i <= k - m
    BY <2>1, <1>4 DEF Run
  <2>2. CASE i > k - m
    <3>1. (Run(m, k) \o Run(k, n))[i] = Run(k, n)[i - (k - m)]
      BY <2>2, <1>4
    <3>2. i - (k - m) \in 1..(n - k) /\ k + (i - (k - m)) = m + i
      BY <2>2
    <3>3. Run(k, n)[i - (k - m)] = k + (i - (k - m))
      BY <3>2 DEF Run
    <3>4. Run(m, n)[i] = m + i
      BY DEF Run
    <3> QED BY <3>1, <3>2, <3>3, <3>4
  <2>3. i <= k - m \/ i > k - m
    OBVIOUS
  <2> QED BY <2>1, <2>2, <2>3, Zenon
<1> QED BY <1>3, <1>4, <1>5, SeqEqual

-----------------------------------------------------------------------------
(* The invariant *)

\* The invariant holds of an empty store, an idle shipper and a reader that has seen nothing.
LEMMA InitIInv == Init => IInv
<1> SUFFICES ASSUME Init PROVE IInv
  OBVIOUS
<1>1. TypeOK
  <2>1. Absent \in Chunk /\ NoReq \in Req
    BY TelemetryAssumption DEF Absent, Chunk, NoReq, Req
  <2>2. chunk \in [1..MaxLines -> Chunk] /\ req \in [Task -> Req]
    BY <2>1 DEF Init
  <2>3. << >> \in Seq(1..MaxLines)
    OBVIOUS
  <2>4. /\ pc \in [Task -> {"idle", "lock", "put", "landed", "loop",
                        "manifest", "sealed", "gone"}]
        /\ ret \in [Task -> {"idle", "loop"}]
    BY DEF Init
  <2>5. /\ emitted \in 0..MaxLines /\ shipped \in 0..emitted /\ index \in 0..shipped
        /\ faults \in 0..MaxFaults /\ seen \in 0..MaxLines
    BY TelemetryAssumption DEF Init
  <2> QED BY <2>2, <2>3, <2>4, <2>5 DEF Init, TypeOK
<1>2. LockInv
  <2>1. \A t \in Task : lock # t /\ pc[t] = "idle"
    BY TelemetryAssumption DEF Init
  <2> QED BY <2>1 DEF Init, LockInv, Putting
<1>3. StoreInv
  BY DEF Init, StoreInv, ChunksPartitionShipped, Upto
<1>4. CloseInv
  BY DEF Init, CloseInv
<1>5. ReaderInv
  <2>1. Upto(seen) = 0 /\ Run(0, 0) = << >>
    BY RunEmpty DEF Init, Upto
  <2> QED BY <2>1 DEF Init, ReaderInv
<1> QED BY <1>1, <1>2, <1>3, <1>4, <1>5 DEF IInv

\* While the shipper is closing no put is awaited: a put holds unshipped lines.
LEMMA ClosingIsQuiet ==
  ASSUME IInv, closing, NEW t \in Task
  PROVE  ~Putting(t)
BY DEF IInv, TypeOK, LockInv, CloseInv

\* At most one task is putting.
LEMMA OnePut ==
  ASSUME IInv, NEW t \in Task, NEW u \in Task, Putting(t), Putting(u)
  PROVE  t = u
BY DEF IInv, LockInv

\* The reader's part does not depend on the shipper's variables.
LEMMA ReaderFrame ==
  ASSUME IInv, UNCHANGED <<readerVars, chunk, manifest>>
  PROVE  ReaderInv'
BY DEF IInv, ReaderInv, readerVars, Upto

\* A step of a task that is not putting, and goes to a place that is neither
\* putting nor sealing, disturbs nothing, whether or not it accepts a line.
LEMMA QuietStep ==
  ASSUME IInv, NEW t \in Task, NEW p \in {"idle", "lock", "loop", "gone"},
         ~Putting(t), pc' = [pc EXCEPT ![t] = p],
         emitted' = emitted \/ (emitted' = emitted + 1 /\ ~closing),
         closed' => closing,
         UNCHANGED <<shipped, index, closing, lock, req, storeVars, readerVars>>
  PROVE  LockInv' /\ StoreInv' /\ CloseInv' /\ ReaderInv'
<1>1. \A u \in Task : Putting(u)' <=> Putting(u)
  BY DEF Putting, IInv, TypeOK
<1>2. \A u \in Task : (pc'[u] = "landed") <=> (pc[u] = "landed")
  BY DEF Putting, IInv, TypeOK
<1>3. LockInv'
  <2>1. emitted \in Nat /\ shipped \in Nat /\ emitted <= emitted'
    BY TelemetryAssumption DEF IInv, TypeOK
  <2> QED BY <1>1, <2>1 DEF IInv, LockInv, storeVars
<1>4. StoreInv'
  BY <1>2 DEF IInv, StoreInv, ChunksPartitionShipped, Upto, Body, storeVars
<1>5. CloseInv'
  BY DEF IInv, TypeOK, CloseInv, storeVars
<1>6. ReaderInv'
  BY ReaderFrame DEF storeVars
<1> QED BY <1>3, <1>4, <1>5, <1>6
-----------------------------------------------------------------------------
(* The shipper's steps *)

\* emit_line, tick and the entry of close.
LEMMA CallSteps ==
  ASSUME IInv, NEW t \in Task,
         EmitLine(t) \/ TickHeartbeat(t) \/ TickFlush(t) \/ Close(t)
  PROVE  IInv'
<1>1. TypeOK'
  <2>1. /\ emitted' \in 0..MaxLines /\ shipped' \in 0..emitted' /\ index' \in 0..shipped'
    BY TelemetryAssumption DEF IInv, TypeOK, EmitLine, TickHeartbeat, TickFlush, Close
  <2>2. /\ pc' \in [Task -> {"idle", "lock", "put", "landed", "loop", "manifest", "sealed", "gone"}]
        /\ ret' \in [Task -> {"idle", "loop"}]
    BY DEF IInv, TypeOK, EmitLine, TickHeartbeat, TickFlush, Close
  <2>3. UNCHANGED <<closing, closed, lock, req, storeVars, faults, readerVars>>
    BY DEF EmitLine, TickHeartbeat, TickFlush, Close
  <2> QED BY <2>1, <2>2, <2>3 DEF IInv, TypeOK, storeVars, readerVars
<1>2. \E p \in {"idle", "lock", "loop", "gone"} : pc' = [pc EXCEPT ![t] = p]
  BY DEF EmitLine, TickHeartbeat, TickFlush, Close
<1>3. ~Putting(t)
  BY DEF EmitLine, TickHeartbeat, TickFlush, Close, Putting
<1>4. /\ emitted' = emitted \/ (emitted' = emitted + 1 /\ ~closing)
      /\ closed' => closing
      /\ UNCHANGED <<shipped, index, closing, lock, req, storeVars, readerVars>>
  BY DEF IInv, CloseInv, EmitLine, TickHeartbeat, TickFlush, Close, MayEmit
<1> QED BY <1>1, <1>2, <1>3, <1>4, QuietStep DEF IInv

\* flush up to its await.
LEMMA AcquireStep ==
  ASSUME IInv, NEW t \in Task, Acquire(t)
  PROVE  IInv'
<1>1. CASE Buffered = 0
  <2>1. TypeOK'
    BY <1>1 DEF IInv, TypeOK, Acquire, storeVars, readerVars
  <2>2. ret[t] \in {"idle", "lock", "loop", "gone"} /\ pc' = [pc EXCEPT ![t] = ret[t]]
    BY <1>1 DEF IInv, TypeOK, Acquire
  <2>3. ~Putting(t) /\ emitted' = emitted /\ (closed' => closing)
        /\ UNCHANGED <<shipped, index, closing, lock, req, storeVars, readerVars>>
    BY <1>1 DEF IInv, CloseInv, Acquire, Putting
  <2> QED BY <2>1, <2>2, <2>3, QuietStep DEF IInv
<1>2. CASE Buffered # 0
  <2> DEFINE r == [index |-> index + 1, lo |-> shipped + 1, hi |-> emitted]
  <2>1. /\ pc[t] = "lock" /\ lock = None /\ lock' = t
        /\ pc' = [pc EXCEPT ![t] = "put"] /\ req' = [req EXCEPT ![t] = r]
        /\ UNCHANGED <<emitted, shipped, index, closing, closed, ret>>
        /\ UNCHANGED <<storeVars, faults, readerVars>>
    BY <1>2 DEF Acquire, LockFree
  <2>2. /\ emitted \in Nat /\ shipped \in Nat /\ index \in Nat /\ emitted <= MaxLines
        /\ index <= shipped /\ shipped < emitted
    BY <1>2, TelemetryAssumption DEF IInv, TypeOK, Buffered
  <2>3. r \in Req
    BY <2>2, TelemetryAssumption DEF Req
  <2>4. \A u \in Task : ~Putting(u)
    BY <2>1, TelemetryAssumption DEF IInv, LockInv
  <2>5. \A u \in Task : Putting(u)' <=> u = t
    BY <2>1, <2>4 DEF IInv, TypeOK, Putting
  <2>6. TypeOK'
    BY <2>1, <2>3 DEF IInv, TypeOK, storeVars, readerVars
  <2>7. LockInv'
    <3>1. req'[t] = r
      BY <2>1 DEF IInv, TypeOK
    <3> QED BY <2>1, <2>2, <2>5, <3>1 DEF IInv, LockInv, storeVars
  <2>8. StoreInv'
    <3>1. \A u \in Task : pc'[u] # "landed" /\ pc[u] # "landed"
      BY <2>1, <2>4 DEF IInv, TypeOK, Putting
    <3> QED BY <2>1, <3>1 DEF IInv, StoreInv, ChunksPartitionShipped, Upto, storeVars
  <2>9. CloseInv'
    BY <2>1 DEF IInv, TypeOK, CloseInv, storeVars
  <2>10. ReaderInv'
    BY <2>1, ReaderFrame DEF storeVars
  <2> QED BY <2>6, <2>7, <2>8, <2>9, <2>10 DEF IInv
<1> QED BY <1>1, <1>2

\* The store performs the put: the one chunk beyond the index appears.
LEMMA PutLandsStep ==
  ASSUME IInv, NEW t \in Task, PutLands(t)
  PROVE  IInv' /\ \A i \in 1..MaxLines : chunk[i] # Absent => chunk'[i] = chunk[i]
<1>1. /\ pc[t] = "put" /\ pc' = [pc EXCEPT ![t] = "landed"]
      /\ chunk' = [chunk EXCEPT ![index + 1] = Body(req[t])]
      /\ UNCHANGED <<emitted, shipped, index, closing, closed, lock, ret, req>>
      /\ UNCHANGED <<manifest, orphans, faults, readerVars>>
  BY DEF PutLands, IInv, LockInv, Putting
<1>2. /\ emitted \in Nat /\ shipped \in Nat /\ index \in Nat /\ emitted <= MaxLines
      /\ index <= shipped /\ req[t].lo = shipped + 1 /\ req[t].hi \in (shipped + 1)..emitted
  BY <1>1, TelemetryAssumption DEF IInv, TypeOK, LockInv, Putting
<1>3. index + 1 \in 1..MaxLines /\ index < index + 1
  BY <1>2, TelemetryAssumption
<1>4. Body(req[t]) \in Chunk /\ Body(req[t]).lo = shipped + 1 /\ Body(req[t]).hi >= shipped + 1
  BY <1>2, TelemetryAssumption DEF Body, Chunk
<1>5. \A u \in Task : pc[u] # "landed"
  BY <1>1, OnePut DEF Putting
<1>6. chunk[index + 1] = Absent
  BY <1>3, <1>5 DEF IInv, StoreInv
<1>7. chunk'[index + 1] = Body(req[t])
      /\ \A i \in 1..MaxLines : i # index + 1 => chunk'[i] = chunk[i]
  BY <1>1, <1>3 DEF IInv, TypeOK
<1>8. \A i \in 1..MaxLines : chunk[i] # Absent => chunk'[i] = chunk[i]
  BY <1>6, <1>7
<1>9. TypeOK'
  BY <1>1, <1>4 DEF IInv, TypeOK, readerVars
<1>10. \A u \in Task : Putting(u)' <=> Putting(u)
  BY <1>1 DEF IInv, TypeOK, Putting
<1>11. LockInv'
  BY <1>1, <1>10 DEF IInv, LockInv
<1>12. \A i \in 0..index : Upto(i)' = Upto(i)
  BY <1>2, <1>7, TelemetryAssumption DEF Upto
<1>13. StoreInv'
  <2>1. ChunksPartitionShipped'
    BY <1>1, <1>2, <1>7, <1>12 DEF IInv, StoreInv, ChunksPartitionShipped
  <2>2. \A u \in Task : pc'[u] = "landed" => u = t
    BY <1>1, <1>5 DEF IInv, TypeOK
  <2>3. pc'[t] = "landed"
    BY <1>1 DEF IInv, TypeOK
  <2>4. \A u \in Task : pc'[u] = "landed" => chunk'[index' + 1] = Body(req'[u])
    BY <2>2, <1>1, <1>7
  <2>5. \A i \in 1..MaxLines : i > index' /\ chunk'[i] # Absent => i = index' + 1
    BY <1>1, <1>5, <1>7 DEF IInv, StoreInv
  <2>6. \A i \in 1..index' : chunk'[i].hi <= shipped'
    BY <1>1, <1>2, <1>7, TelemetryAssumption DEF IInv, StoreInv
  <2> QED BY <2>1, <2>3, <2>4, <2>5, <2>6 DEF StoreInv
<1>14. CloseInv'
  BY <1>1 DEF IInv, TypeOK, CloseInv
<1>15. ReaderInv'
  <2>1. seen \in 0..MaxLines /\ (seen = 0 \/ chunk'[seen] = chunk[seen])
    BY <1>8 DEF IInv, TypeOK, ReaderInv
  <2>2. Upto(seen)' = Upto(seen)
    BY <1>1, <2>1 DEF Upto, readerVars
  <2>3. \A i \in present' : chunk'[i] # Absent
    BY <1>1, <1>8 DEF IInv, TypeOK, ReaderInv, readerVars
  <2>4. seen' > 0 => chunk'[seen'] # Absent
    BY <1>1, <2>1 DEF IInv, ReaderInv, readerVars
  <2> QED BY <1>1, <2>2, <2>3, <2>4 DEF IInv, ReaderInv, readerVars
<1> QED BY <1>8, <1>9, <1>11, <1>13, <1>14, <1>15 DEF IInv
\* flush after its await: the landed chunk becomes the last one shipped.
LEMMA FlushReturnsStep ==
  ASSUME IInv, NEW t \in Task, FlushReturns(t)
  PROVE  IInv'
<1>1. /\ pc[t] = "landed" /\ pc' = [pc EXCEPT ![t] = ret[t]]
      /\ index' = index + 1 /\ lock' = None /\ req' = [req EXCEPT ![t] = NoReq]
      /\ UNCHANGED <<emitted, closing, closed, ret>>
      /\ UNCHANGED <<storeVars, faults, readerVars>>
  BY DEF FlushReturns, IInv, LockInv, Putting
<1>2. /\ emitted \in Nat /\ shipped \in Nat /\ index \in Nat /\ emitted <= MaxLines
      /\ index <= shipped /\ req[t].lo = shipped + 1 /\ req[t].hi \in (shipped + 1)..emitted
      /\ lock = t
  BY <1>1, TelemetryAssumption DEF IInv, TypeOK, LockInv, Putting
<1>3. shipped' = req[t].hi
  BY <1>2 DEF FlushReturns, Dropped
<1>4. shipped' \in 0..emitted' /\ index' \in 0..shipped' /\ index + 1 \in 1..MaxLines
  BY <1>1, <1>2, <1>3, TelemetryAssumption
<1>5. \A u \in Task : ~Putting(u)'
  <2>1. \A u \in Task : Putting(u) => u = t
    BY <1>2 DEF IInv, LockInv
  <2> QED BY <1>1, <2>1 DEF IInv, TypeOK, Putting
<1>6. TypeOK'
  <2>1. NoReq \in Req
    BY TelemetryAssumption DEF NoReq, Req
  <2>2. /\ pc' \in [Task -> {"idle", "lock", "put", "landed", "loop", "manifest", "sealed", "gone"}]
        /\ req' \in [Task -> Req]
    BY <1>1, <2>1 DEF IInv, TypeOK
  <2> QED BY <1>1, <1>4, <2>2 DEF IInv, TypeOK, storeVars, readerVars
<1>7. LockInv'
  BY <1>1, <1>5, TelemetryAssumption DEF IInv, LockInv, storeVars
<1>8. chunk[index + 1] = Body(req[t])
  BY <1>1 DEF IInv, StoreInv
<1>9. Body(req[t]).lo = shipped + 1 /\ Body(req[t]).hi = req[t].hi
  BY <1>2 DEF Body
<1>10. StoreInv'
  <2>1. Upto(index + 1) = shipped' /\ Upto(index) = shipped
    BY <1>2, <1>3, <1>8, <1>9 DEF Upto, IInv, StoreInv, ChunksPartitionShipped
  <2>2. \A i \in 1..(index + 1) : chunk[i].lo = Upto(i - 1) + 1 /\ chunk[i].hi >= chunk[i].lo
    <3>1. ASSUME NEW i \in 1..(index + 1), i # index + 1
          PROVE  chunk[i].lo = Upto(i - 1) + 1 /\ chunk[i].hi >= chunk[i].lo
      BY <1>2, <3>1 DEF IInv, StoreInv, ChunksPartitionShipped
    <3>2. chunk[index + 1].lo = Upto((index + 1) - 1) + 1 /\ chunk[index + 1].hi >= chunk[index + 1].lo
      BY <1>2, <1>8, <1>9, <2>1
    <3> QED BY <3>1, <3>2
  <2>3. ChunksPartitionShipped'
    BY <1>1, <2>1, <2>2 DEF ChunksPartitionShipped, Upto, storeVars
  <2>4. \A u \in Task : pc'[u] # "landed"
    BY <1>5 DEF Putting
  <2>5. \A i \in 1..MaxLines : i > index' => chunk'[i] = Absent
    BY <1>1, <1>2 DEF IInv, StoreInv, storeVars
  <2>6. \A i \in 1..(index + 1) : chunk[i].hi <= shipped'
    <3>1. chunk[index + 1].hi = shipped'
      BY <1>3, <1>8, <1>9
    <3>2. ASSUME NEW i \in 1..index PROVE chunk[i].hi <= shipped'
      <4>1. chunk[i].hi <= shipped /\ chunk[i].hi \in Nat
        BY <1>2, TelemetryAssumption DEF IInv, StoreInv, TypeOK, Chunk
      <4> QED BY <1>2, <1>3, <4>1
    <3>3. \A i \in 1..(index + 1) : i \in 1..index \/ i = index + 1
      BY <1>2
    <3> QED BY <1>2, <1>3, <3>1, <3>2, <3>3
  <2> QED BY <1>1, <2>3, <2>4, <2>5, <2>6 DEF StoreInv, storeVars
<1>11. ~closing
  BY <1>1, ClosingIsQuiet DEF Putting
<1>12. CloseInv'
  BY <1>1, <1>11 DEF IInv, TypeOK, CloseInv, storeVars
<1>13. ReaderInv'
  BY <1>1, ReaderFrame DEF storeVars
<1> QED BY <1>6, <1>7, <1>10, <1>12, <1>13 DEF IInv

\* A put that raises or is cancelled leaves everything as before the flush.
LEMMA AbandonStep ==
  ASSUME ~uncertain, IInv, NEW t \in Task, PutFails(t) \/ Cancel(t)
  PROVE  IInv'
<1>1. /\ pc[t] \in {"idle", "lock", "put"}
      /\ pc' = [pc EXCEPT ![t] = "idle"] \/ pc' = [pc EXCEPT ![t] = "gone"]
      /\ lock' = IF lock = t THEN None ELSE lock
      /\ req' = [req EXCEPT ![t] = NoReq]
      /\ UNCHANGED <<emitted, shipped, index, closing, closed, ret, storeVars, readerVars>>
      /\ faults' \in 0..MaxFaults
  BY TelemetryAssumption
     DEF IInv, TypeOK, PutFails, Cancel, Abandon, MayAbandon, OrphanPuts, storeVars
<1>2. NoReq \in Req
  BY TelemetryAssumption DEF NoReq, Req
<1>3. TypeOK'
  <2>1. /\ pc' \in [Task -> {"idle", "lock", "put", "landed", "loop", "manifest", "sealed", "gone"}]
        /\ req' \in [Task -> Req] /\ lock' \in Task \cup {None}
    BY <1>1, <1>2 DEF IInv, TypeOK
  <2> QED BY <1>1, <2>1 DEF IInv, TypeOK, storeVars, readerVars
<1>4. ~Putting(t)' /\ \A u \in Task : u # t => (Putting(u)' <=> Putting(u)) /\ req'[u] = req[u]
  BY <1>1 DEF IInv, TypeOK, Putting
<1>5. LockInv'
  BY <1>1, <1>4, TelemetryAssumption DEF IInv, LockInv, storeVars
<1>6. \A u \in Task : (pc'[u] = "landed") <=> (pc[u] = "landed")
  BY <1>1 DEF IInv, TypeOK
<1>7. \A u \in Task : pc'[u] = "landed" => req'[u] = req[u]
  BY <1>4 DEF Putting
<1>8. StoreInv'
  BY <1>1, <1>6, <1>7 DEF IInv, StoreInv, ChunksPartitionShipped, Upto, Body, storeVars
<1>9. CloseInv'
  BY <1>1 DEF IInv, TypeOK, CloseInv, storeVars
<1>10. ReaderInv'
  BY <1>1, ReaderFrame DEF storeVars
<1> QED BY <1>3, <1>5, <1>8, <1>9, <1>10 DEF IInv
\* The steps of close.
LEMMA CloseSteps ==
  ASSUME ~uncertain, IInv, NEW t \in Task,
         CloseLoop(t) \/ ManifestLands(t) \/ CloseReturns(t) \/ ManifestFails(t) \/ ResultFails(t)
  PROVE  IInv'
<1>1. CASE (CloseLoop(t) /\ Buffered > 0) \/ CloseReturns(t) \/ ManifestFails(t) \/ ResultFails(t)
  <2>1. \E p \in {"idle", "lock", "loop", "gone"} : pc' = [pc EXCEPT ![t] = p]
    BY <1>1 DEF CloseLoop, CloseReturns, ManifestFails, ResultFails
  <2>2. /\ ~Putting(t) /\ emitted' = emitted /\ (closed' => closing)
        /\ UNCHANGED <<shipped, index, closing, lock, ret, req, storeVars, readerVars>>
    <3>1. CASE CloseLoop(t) /\ Buffered > 0
      BY <3>1 DEF IInv, CloseInv, CloseLoop, Putting
    <3>2. CASE CloseReturns(t)
      BY <3>2 DEF IInv, CloseInv, CloseReturns, Putting
    <3>3. CASE ManifestFails(t) \/ ResultFails(t)
      BY <3>3 DEF IInv, CloseInv, ManifestFails, ResultFails, Putting
    <3> QED BY <1>1, <3>1, <3>2, <3>3
  <2>3. /\ pc' \in [Task -> {"idle", "lock", "put", "landed", "loop", "manifest", "sealed", "gone"}]
        /\ faults' \in 0..MaxFaults /\ closed' \in BOOLEAN
    <3>1. CASE CloseLoop(t) /\ Buffered > 0
      BY <3>1 DEF IInv, TypeOK, CloseLoop
    <3>2. CASE CloseReturns(t)
      BY <3>2 DEF IInv, TypeOK, CloseReturns
    <3>3. CASE ManifestFails(t) \/ ResultFails(t)
      <4>1. faults < MaxFaults /\ faults' = faults + 1 /\ closed' = closed
        BY <3>3 DEF ManifestFails, ResultFails
      <4>2. pc' = [pc EXCEPT ![t] = "gone"]
        BY <3>3 DEF ManifestFails, ResultFails
      <4> QED BY <4>1, <4>2, TelemetryAssumption DEF IInv, TypeOK
    <3> QED BY <1>1, <3>1, <3>2, <3>3
  <2>4. TypeOK'
    BY <2>2, <2>3 DEF IInv, TypeOK, storeVars, readerVars
  <2> QED BY <2>1, <2>2, <2>4, QuietStep DEF IInv
<1>2. CASE (CloseLoop(t) /\ ~(Buffered > 0)) \/ ManifestLands(t)
  <2>1. \E p \in {"manifest", "sealed"} : pc' = [pc EXCEPT ![t] = p]
    BY <1>2 DEF CloseLoop, ManifestLands
  <2>2. /\ ~Putting(t) /\ closing' = TRUE
        /\ UNCHANGED <<emitted, shipped, index, closed, lock, ret, req, chunk, orphans>>
        /\ UNCHANGED <<faults, readerVars>>
    BY <1>2 DEF IInv, TypeOK, CloseInv, CloseLoop, ManifestLands, Putting, storeVars
  <2>3. manifest' = manifest \/ manifest' = index
    BY <1>2 DEF CloseLoop, ManifestLands, storeVars
  <2>4. shipped = emitted
    BY <1>2, TelemetryAssumption
       DEF IInv, TypeOK, CloseInv, CloseLoop, ManifestLands, Buffered
  <2>5. \A u \in Task : Putting(u)' <=> Putting(u)
    BY <2>1, <2>2 DEF IInv, TypeOK, Putting
  <2>6. \A u \in Task : (pc'[u] = "landed") <=> (pc[u] = "landed")
    BY <2>1, <2>2 DEF IInv, TypeOK, Putting
  <2>7. TypeOK'
    <3>1. pc' \in [Task -> {"idle", "lock", "put", "landed", "loop", "manifest", "sealed", "gone"}]
      BY <2>1 DEF IInv, TypeOK
    <3>2. manifest' \in (0..MaxLines) \cup {None}
      BY <2>3, TelemetryAssumption DEF IInv, TypeOK
    <3> QED BY <2>2, <3>1, <3>2 DEF IInv, TypeOK, readerVars
  <2>8. LockInv'
    BY <2>2, <2>5 DEF IInv, LockInv
  <2>9. StoreInv'
    BY <2>2, <2>6 DEF IInv, StoreInv, ChunksPartitionShipped, Upto, Body
  <2>10. CloseInv'
    BY <2>2, <2>3, <2>4 DEF IInv, CloseInv
  <2>11. total # None => manifest' = total
    <3>1. ASSUME total # None PROVE index = total
      BY <3>1 DEF IInv, ReaderInv, CloseInv
    <3> QED BY <3>1, <2>3 DEF IInv, ReaderInv
  <2>12. ReaderInv'
    BY <2>2, <2>11 DEF IInv, ReaderInv, Upto, readerVars
  <2> QED BY <2>7, <2>8, <2>9, <2>10, <2>12 DEF IInv
<1> QED BY <1>1, <1>2 DEF CloseLoop

-----------------------------------------------------------------------------
(* The reader's steps *)

\* A poll leaves the shipper and the store alone.
LEMMA ShipperFrame ==
  ASSUME IInv, UNCHANGED <<shipperVars, storeVars>>
  PROVE  LockInv' /\ StoreInv' /\ CloseInv'
BY DEF IInv, LockInv, Putting, StoreInv, ChunksPartitionShipped, Upto, Body, CloseInv,
     shipperVars, storeVars

\* A listing shows only chunks that exist, and with the manifest its number of chunks.
LEMMA PollListStep ==
  ASSUME IInv, PollList
  PROVE  IInv'
<1>1. TypeOK'
  BY DEF IInv, TypeOK, PollList, shipperVars, storeVars
<1>2. ReaderInv'
  <2>1. total' # None => manifest' = total'
    BY DEF IInv, ReaderInv, PollList, storeVars
  <2>2. Upto(seen)' = Upto(seen)
    BY DEF PollList, storeVars, Upto
  <2> QED BY <2>1, <2>2 DEF IInv, ReaderInv, PollList, storeVars
<1> QED BY <1>1, <1>2, ShipperFrame DEF IInv, PollList

\* The chunk a poll fetches next starts right after the lines already read.
LEMMA NextChunkFollows ==
  ASSUME IInv, NEW i \in 1..MaxLines, i = seen + 1, chunk[i] # Absent
  PROVE  /\ Upto(seen) \in Nat /\ chunk[i].lo = Upto(seen) + 1
         /\ chunk[i].hi \in Upto(seen)..MaxLines
<1>1. /\ emitted \in Nat /\ shipped \in Nat /\ index \in Nat /\ emitted <= MaxLines
      /\ seen \in Nat /\ shipped <= emitted
      /\ \A j \in 1..MaxLines : chunk[j] \in Chunk
  BY TelemetryAssumption DEF IInv, TypeOK
<1>2. Upto(seen) \in Nat
  BY <1>1, TelemetryAssumption DEF Upto, Chunk
<1>3. CASE i <= index
  <2>1. i \in 1..index /\ i - 1 = seen
    BY <1>1, <1>3
  <2>2. chunk[i].lo = Upto(seen) + 1 /\ chunk[i].hi >= chunk[i].lo
    BY <2>1 DEF IInv, StoreInv, ChunksPartitionShipped
  <2> QED BY <1>1, <1>2, <2>2, TelemetryAssumption DEF Chunk
<1>4. CASE i > index
  <2>1. PICK t \in Task : pc[t] = "landed"
    BY <1>4 DEF IInv, StoreInv
  <2>2. i = index + 1 /\ seen = index
    BY <1>1, <1>4 DEF IInv, StoreInv
  <2>3. chunk[i] = Body(req[t]) /\ req[t].lo = shipped + 1 /\ req[t].hi \in (shipped + 1)..emitted
    BY <2>1, <2>2 DEF IInv, StoreInv, LockInv, Putting
  <2>4. chunk[i].lo = shipped + 1 /\ chunk[i].hi \in (shipped + 1)..emitted
    BY <2>3 DEF Body
  <2>5. Upto(seen) = shipped
    BY <2>2 DEF IInv, StoreInv, ChunksPartitionShipped
  <2> QED BY <1>1, <1>2, <2>4, <2>5, TelemetryAssumption
<1>5. i <= index \/ i > index
  BY <1>1
<1> QED BY <1>3, <1>4, <1>5

\* Fetching the next chunk extends the lines gathered without gap or overlap.
LEMMA PollGetStep ==
  ASSUME IInv, PollGet
  PROVE  IInv'
<1> DEFINE i == seen + 1
           n == chunk[i].hi
<1>1. /\ rpc = "get" /\ i \in present /\ i \in 1..MaxLines /\ chunk[i] # Absent
      /\ batch' = batch \o Lines(chunk[i]) /\ seen' = i
      /\ UNCHANGED <<rpc, total, present, delivered, shipperVars, storeVars, faults>>
  BY DEF IInv, TypeOK, ReaderInv, PollGet, NextChunk
<1>2. /\ Upto(seen) \in Nat /\ chunk[i].lo = Upto(seen) + 1 /\ n \in Upto(seen)..MaxLines
  BY <1>1, NextChunkFollows
<1>3. Lines(chunk[i]) = Run(Upto(seen), n)
  BY <1>2 DEF Lines
<1>4. Upto(seen)' = n
  BY <1>1, TelemetryAssumption DEF Upto, IInv, TypeOK, storeVars
<1>5. PICK m \in 0..Upto(seen) : delivered = Run(0, m) /\ batch = Run(m, Upto(seen))
  BY <1>1 DEF IInv, ReaderInv
<1>6. batch' = Run(m, n)
  <2>1. m \in Nat /\ m <= Upto(seen) /\ n \in Nat /\ Upto(seen) <= n /\ n <= MaxLines
    BY <1>2, <1>5, TelemetryAssumption
  <2> QED BY <1>1, <1>2, <1>3, <1>5, <2>1, RunConcat
<1>7. ReaderInv'
  <2>1. m \in 0..Upto(seen)'
    BY <1>2, <1>4, <1>5, TelemetryAssumption
  <2>2. \E k \in 0..Upto(seen)' : delivered' = Run(0, k) /\ batch' = Run(k, Upto(seen)')
    BY <1>1, <1>4, <1>5, <1>6, <2>1
  <2>3. \E k \in 0..Upto(seen)' :
           /\ delivered' = Run(0, k)
           /\ rpc' # "failed" => batch' = Run(k, Upto(seen)')
    BY <2>2
  <2>4. /\ total' # None => manifest' = total'
        /\ \A j \in present' : chunk'[j] # Absent
        /\ chunk'[seen'] # Absent /\ rpc' # "idle"
    BY <1>1 DEF IInv, ReaderInv, storeVars
  <2> QED BY <2>3, <2>4 DEF ReaderInv
<1>8. TypeOK'
  <2>1. batch' \in Seq(1..MaxLines)
    <3>1. m \in Nat /\ n \in Nat /\ m <= n /\ n <= MaxLines
      BY <1>2, <1>5, TelemetryAssumption
    <3> QED BY <1>6, <3>1, RunSeq
  <2> QED BY <1>1, <2>1 DEF IInv, TypeOK, shipperVars, storeVars
<1> QED BY <1>1, <1>7, <1>8, ShipperFrame DEF IInv
\* The lines gathered are handed over behind those handed over before.
LEMMA PollReturnsStep ==
  ASSUME IInv, PollReturns
  PROVE  IInv' /\ delivered' = Run(0, Upto(seen))
<1>1. /\ rpc = "get" /\ rpc' = "idle" /\ delivered' = delivered \o batch /\ batch' = << >>
      /\ UNCHANGED <<seen, total, present, shipperVars, storeVars, faults>>
  BY DEF PollReturns
<1>2. Upto(seen) \in 0..MaxLines
  BY TelemetryAssumption DEF IInv, TypeOK, Upto, Chunk
<1>3. PICK m \in 0..Upto(seen) : delivered = Run(0, m) /\ batch = Run(m, Upto(seen))
  BY <1>1 DEF IInv, ReaderInv
<1>4. delivered' = Run(0, Upto(seen))
  <2>1. /\ 0 \in Nat /\ m \in Nat /\ 0 <= m /\ m <= Upto(seen)
        /\ Upto(seen) \in Nat /\ Upto(seen) <= MaxLines
    BY <1>2, <1>3, TelemetryAssumption
  <2>2. Run(0, m) \o Run(m, Upto(seen)) = Run(0, Upto(seen))
    BY <2>1, RunConcat
  <2> QED BY <1>1, <1>3, <2>2
<1>5. Upto(seen)' = Upto(seen)
  BY <1>1 DEF Upto, storeVars
<1>6. batch' = Run(Upto(seen), Upto(seen))
  BY <1>1, <1>2, RunEmpty
<1>7. ReaderInv'
  <2>1. Upto(seen) \in 0..Upto(seen)'
    BY <1>2, <1>5
  <2>2. \E k \in 0..Upto(seen)' :
           /\ delivered' = Run(0, k)
           /\ rpc' # "failed" => batch' = Run(k, Upto(seen)')
    BY <1>4, <1>5, <1>6, <2>1
  <2>3. /\ total' # None => manifest' = total'
        /\ \A j \in present' : chunk'[j] # Absent
        /\ seen' > 0 => chunk'[seen'] # Absent
        /\ rpc' = "idle" => batch' = << >>
    BY <1>1 DEF IInv, ReaderInv, storeVars
  <2> QED BY <2>2, <2>3 DEF ReaderInv
<1>8. TypeOK'
  <2>1. delivered' \in Seq(1..MaxLines) /\ batch' \in Seq(1..MaxLines)
    BY <1>1 DEF IInv, TypeOK
  <2> QED BY <1>1, <2>1 DEF IInv, TypeOK, shipperVars, storeVars
<1> QED BY <1>1, <1>4, <1>7, <1>8, ShipperFrame DEF IInv

\* A poll that raises loses the lines it gathered, and the reader is finished with.
LEMMA PollFailsStep ==
  ASSUME IInv, PollFails
  PROVE  IInv'
<1>1. TypeOK'
  <2>1. << >> \in Seq(1..MaxLines) /\ faults' \in 0..MaxFaults
    BY TelemetryAssumption DEF IInv, TypeOK, PollFails
  <2> QED BY <2>1 DEF IInv, TypeOK, PollFails, shipperVars, storeVars
<1>2. ReaderInv'
  BY DEF IInv, ReaderInv, PollFails, Upto, storeVars
<1> QED BY <1>1, <1>2, ShipperFrame DEF IInv, PollFails

\* No chunk that is read reaches beyond the lines accepted.
LEMMA ReadWithinEmitted ==
  ASSUME IInv
  PROVE  Upto(seen) \in 0..emitted
<1>1. /\ emitted \in Nat /\ shipped \in Nat /\ index \in Nat /\ seen \in Nat
      /\ shipped <= emitted /\ \A j \in 1..MaxLines : chunk[j].hi \in Nat
      /\ seen <= MaxLines
  BY TelemetryAssumption DEF IInv, TypeOK, Chunk
<1>2. CASE seen = 0
  BY <1>1, <1>2 DEF Upto
<1>3. CASE seen > 0 /\ seen <= index
  <2>1. seen \in 1..index /\ seen \in 1..MaxLines
    BY <1>1, <1>3
  <2>2. chunk[seen].hi <= shipped
    BY <2>1 DEF IInv, StoreInv
  <2> QED BY <1>1, <1>3, <2>1, <2>2 DEF Upto
<1>4. CASE seen > index
  <2>1. seen \in 1..MaxLines /\ chunk[seen] # Absent
    BY <1>1, <1>4 DEF IInv, ReaderInv
  <2>2. PICK t \in Task : pc[t] = "landed"
    BY <1>4, <2>1 DEF IInv, StoreInv
  <2>3. seen = index + 1
    BY <1>4, <2>1 DEF IInv, StoreInv
  <2>4. chunk[seen] = Body(req[t]) /\ req[t].hi \in (shipped + 1)..emitted
    BY <2>2, <2>3 DEF IInv, StoreInv, LockInv, Putting
  <2> QED BY <1>1, <1>4, <2>4 DEF Upto, Body
<1> QED BY <1>1, <1>2, <1>3, <1>4

\* What has been handed over has been read.
LEMMA DeliveredWithinRead ==
  ASSUME IInv
  PROVE  Len(delivered) \in 0..Upto(seen)
<1>1. PICK m \in 0..Upto(seen) : delivered = Run(0, m)
  BY DEF IInv, ReaderInv
<1>2. 0 \in Nat /\ m \in Nat /\ 0 <= m /\ m <= MaxLines
  BY <1>1, ReadWithinEmitted, TelemetryAssumption DEF IInv, TypeOK
<1>3. Len(Run(0, m)) = m - 0
  BY <1>2, RunSeq
<1> QED BY <1>1, <1>2, <1>3

-----------------------------------------------------------------------------
(* The theorems *)

\* A stuttering step changes nothing the invariant speaks of.
LEMMA StutterStep ==
  ASSUME IInv, UNCHANGED vars
  PROVE  IInv'
BY DEF IInv, TypeOK, LockInv, Putting, StoreInv, ChunksPartitionShipped, Upto, Body, CloseInv,
     ReaderInv, vars, shipperVars, storeVars, readerVars

\* Every step of the specification keeps the invariant.
LEMMA NextIInv ==
  ASSUME ~uncertain, IInv, [Next]_<<uncertain, vars>>
  PROVE  IInv'
<1>1. ASSUME NEW t \in Worker, EmitLine(t) \/ ResultFails(t) \/ Close(t) PROVE IInv'
  BY <1>1, CallSteps, CloseSteps DEF Task
<1>2. ASSUME NEW t \in Beat, TickFlush(t) \/ TickHeartbeat(t) \/ Cancel(t) PROVE IInv'
  BY <1>2, CallSteps, AbandonStep DEF Task
<1>3. ASSUME NEW t \in Task, TaskStep(t) \/ PutFails(t) \/ ManifestFails(t) PROVE IInv'
  BY <1>3, AcquireStep, PutLandsStep, FlushReturnsStep, CloseSteps, AbandonStep DEF TaskStep
<1>4. ASSUME NEW r \in orphans PROVE FALSE
  BY <1>4 DEF IInv, LockInv
<1>5. CASE PollList \/ PollGet \/ PollReturns \/ PollFails
  BY <1>5, PollListStep, PollGetStep, PollReturnsStep, PollFailsStep
<1>6. CASE UNCHANGED vars
  BY <1>6, StutterStep
<1> QED BY <1>1, <1>2, <1>3, <1>4, <1>5, <1>6 DEF Next

\* Where failed puts have no effect they never have one.
LEMMA Certain ==
  ASSUME [Next]_<<uncertain, vars>>
  PROVE  uncertain' = uncertain
BY DEF Next

\* The invariant holds in every reachable state of a store whose failed puts have no effect.
THEOREM Invariance == Spec => [](~uncertain => IInv)
<1>1. Init => (~uncertain => IInv)
  BY InitIInv
<1>2. (~uncertain => IInv) /\ [Next]_<<uncertain, vars>> => (~uncertain => IInv)'
  BY NextIInv, Certain
<1> QED BY <1>1, <1>2, PTL DEF Spec

\* The chunks split the shipped lines without gap or overlap, whichever tasks
\* flush and whatever they emit during a put.
THEOREM Partition == Spec => [](~uncertain => ChunksPartitionShipped)
<1>1. IInv => ChunksPartitionShipped
  BY DEF IInv, StoreInv
<1> QED BY <1>1, Invariance, PTL

\* The manifest is written after the last line has been shipped, and names the
\* last chunk.
THEOREM ManifestFinal == Spec => [](~uncertain => ManifestIsFinal)
<1>1. IInv => ManifestIsFinal
  BY DEF IInv, CloseInv, ManifestIsFinal
<1> QED BY <1>1, Invariance, PTL

\* A reader that reports `finished` has handed over every accepted line.
THEOREM FinishedComplete == Spec => []FinishedMeansAll
<1>1. ASSUME IInv, Finished, rpc = "idle" PROVE delivered = Run(0, emitted)
  <2>1. /\ total = index /\ closing /\ shipped = emitted /\ seen >= index
        /\ index \in Nat /\ seen \in 0..MaxLines
    BY <1>1, TelemetryAssumption DEF IInv, TypeOK, ReaderInv, CloseInv, Finished
  <2>2. seen = index
    <3>1. ASSUME seen > index PROVE FALSE
      <4>1. seen \in 1..MaxLines /\ seen > 0 /\ chunk[seen] # Absent
        BY <1>1, <2>1, <3>1 DEF IInv, ReaderInv
      <4>2. PICK t \in Task : pc[t] = "landed"
        BY <1>1, <2>1, <3>1, <4>1 DEF IInv, StoreInv
      <4> QED BY <1>1, <2>1, <4>2, ClosingIsQuiet DEF Putting
    <3> QED BY <2>1, <3>1
  <2>3. Upto(seen) = emitted
    BY <1>1, <2>1, <2>2 DEF IInv, StoreInv, ChunksPartitionShipped
  <2>4. PICK m \in 0..emitted : delivered = Run(0, m) /\ << >> = Run(m, emitted)
    BY <1>1, <2>3 DEF IInv, ReaderInv
  <2>5. m = emitted
    <3>1. emitted \in Nat /\ emitted <= MaxLines /\ m \in Nat /\ m <= emitted
      BY <1>1, <2>4, TelemetryAssumption DEF IInv, TypeOK
    <3>2. Len(Run(m, emitted)) = emitted - m
      BY <3>1, RunSeq
    <3>3. Len(<< >>) = 0
      OBVIOUS
    <3> QED BY <2>4, <3>1, <3>2, <3>3
  <2> QED BY <2>4, <2>5
<1>2. (~uncertain => IInv) => FinishedMeansAll
  BY <1>1 DEF FinishedMeansAll
<1> QED BY <1>2, Invariance, PTL

\* No put changes a chunk that exists: a retried put finds its index free.
THEOREM Immutable == Spec => [](uncertain) \/ ChunksImmutable
<1> DEFINE Keeps == \A i \in 1..MaxLines : chunk[i] # Absent => chunk'[i] = chunk[i]
<1>1. ASSUME ~uncertain, IInv, [Next]_<<uncertain, vars>> PROVE [Keeps]_chunk
  <2>1. CASE \E t \in Task : PutLands(t)
    BY <1>1, <2>1, PutLandsStep
  <2>2. CASE ~\E t \in Task : PutLands(t)
    <3>1. ASSUME NEW r \in orphans PROVE FALSE
      BY <1>1, <3>1 DEF IInv, LockInv
    <3>2. UNCHANGED chunk
      BY <1>1, <2>2, <3>1 DEF Next, TaskStep, EmitLine, Close, TickFlush, TickHeartbeat, Cancel,
           Acquire, FlushReturns, CloseLoop, ManifestLands, CloseReturns, PutFails,
           ManifestFails, ResultFails, PollList, PollGet, PollReturns, PollFails, vars, storeVars
    <3> QED BY <3>2
  <2> QED BY <2>1, <2>2
<1>2. ~uncertain /\ [Next]_<<uncertain, vars>> => ~uncertain'
  BY Certain
<1>3. uncertain /\ [Next]_<<uncertain, vars>> => uncertain'
  BY Certain
<1> QED BY <1>1, <1>2, <1>3, Invariance, PTL DEF Spec, ChunksImmutable

\* Shipper, store and reader implement the event log: accepting a line maps to
\* Accept, the return of a poll to Deliver, every other step to a stutter.
THEOREM ImplementsLog == Spec => LogSpec
<1>1. Init => Log!Init
  BY DEF Init, Log!Init
<1>2. ASSUME ~uncertain => IInv, [Next]_<<uncertain, vars>> PROVE [Log!Next]_(Log!logVars)
  <2> uncertain' = uncertain
    BY <1>2, Certain
  <2>0. CASE uncertain
    BY <2>0 DEF Log!logVars
  <2>1. CASE ~uncertain /\ \E t \in Task : EmitLine(t) \/ TickHeartbeat(t)
    BY <2>1 DEF EmitLine, TickHeartbeat, readerVars, Log!Next, Log!Accept
  <2>2. CASE ~uncertain /\ PollReturns
    <3>1. delivered' = Run(0, Upto(seen))
      BY <1>2, <2>2, PollReturnsStep
    <3>2. Upto(seen) \in 0..emitted
      BY <1>2, <2>2, ReadWithinEmitted
    <3>3. Len(delivered) \in 0..Upto(seen)
      BY <1>2, <2>2, DeliveredWithinRead
    <3>4. Run(0, Upto(seen)) = Log!FirstLines(Upto(seen))
      BY <3>2 DEF Run, Log!FirstLines
    <3>5. UNCHANGED emitted
      BY <2>2 DEF PollReturns, shipperVars
    <3> QED BY <2>2, <3>1, <3>2, <3>3, <3>4, <3>5 DEF Log!Next, Log!Deliver
  <2>3. CASE ~uncertain /\ ~PollReturns /\ ~\E t \in Task : EmitLine(t) \/ TickHeartbeat(t)
    <3>1. UNCHANGED <<emitted, delivered>>
      BY <1>2, <2>3 DEF Next, TaskStep, Close, TickFlush, Cancel, Acquire, PutLands,
           FlushReturns, CloseLoop, ManifestLands, CloseReturns, PutFails, ManifestFails,
           ResultFails, OrphanLands, PollList, PollGet, PollFails, vars, shipperVars, readerVars, Task
    <3> QED BY <3>1 DEF Log!logVars
  <2> QED BY <2>0, <2>1, <2>2, <2>3
<1> QED BY <1>1, <1>2, Invariance, PTL DEF Spec, LogSpec, Log!Spec

-----------------------------------------------------------------------------
(***************************************************************************)
(* Any store.  Chunks may now be rewritten, and the host may miss lines,   *)
(* but what it is handed stays in order.  What makes it so is that all     *)
(* bodies that are or may still be written under one index begin with the  *)
(* same line, behind those under smaller indices.                          *)
(***************************************************************************)

\* A chunk as the put that wrote it.
AtIndex(i) == [index |-> i, lo |-> chunk[i].lo, hi |-> chunk[i].hi]

\* What has been put, is being put or may still be put.
Known == orphans
         \cup {req[t] : t \in {u \in Task : Putting(u)}}
         \cup {AtIndex(i) : i \in {j \in 1..MaxLines : chunk[j] # Absent}}

\* The flush lock is held across the put, of all that is buffered.
HolderInv == \A t \in Task :
  /\ (lock = t) <=> Putting(t)
  /\ Putting(t) => /\ req[t].index = index + 1
                   /\ req[t].lo = shipped + 1
                   /\ req[t].hi \in (shipped + 1)..emitted

\* Nothing known goes beyond the next chunk; what is known of that one begins where the
\* shipped lines end and reaches no further than the put that is under way for it.
KnownInv ==
  /\ \A b \in Known :
       /\ b.index \in 1..(index + 1) /\ 1 <= b.lo /\ b.lo <= b.hi
       /\ b.index <= index => b.hi <= shipped
       /\ b.index = index + 1 =>
            /\ b.lo = shipped + 1 /\ b.hi <= emitted
            /\ \A t \in Task : Putting(t) => b.hi <= req[t].hi
  /\ \A b \in Known, c \in Known : b.index < c.index => b.hi < c.lo

Increases(s) == \A i \in 1..Len(s), j \in 1..Len(s) : i < j => s[i] < s[j]
Below(s, n)  == \A i \in 1..Len(s) : s[i] < n

\* Lines that were read increase and are below all that the chunks to come can hold.
Handed(s) ==
  /\ Increases(s)
  /\ \A b \in Known : b.index > seen => Below(s, b.lo)
  /\ seen <= index => Below(s, shipped + 1)
  /\ seen = index + 1 => /\ Below(s, emitted + 1)
                         /\ \A t \in Task : Putting(t) => Below(s, req[t].hi + 1)

GotInv ==
  /\ \A i \in present : chunk[i] # Absent
  /\ seen > 0 => chunk[seen] # Absent
  /\ rpc = "idle" => batch = << >>
  /\ Handed(delivered) /\ Handed(batch)
  /\ \A i \in 1..Len(batch) : Below(delivered, batch[i])

OrderInv == TypeOK /\ HolderInv /\ KnownInv /\ GotInv

\* What the proofs use of the types.
LEMMA OrderTypes ==
  ASSUME TypeOK
  PROVE  /\ emitted \in Nat /\ shipped \in Nat /\ index \in Nat /\ seen \in Nat
         /\ index <= shipped /\ shipped <= emitted /\ emitted <= MaxLines /\ seen <= MaxLines
         /\ MaxLines \in Nat
         /\ \A i \in 1..Len(delivered) : delivered[i] \in Nat
         /\ \A i \in 1..Len(batch) : batch[i] \in Nat
         /\ present \subseteq 1..MaxLines /\ Len(delivered) \in Nat /\ Len(batch) \in Nat
<1>1. /\ emitted \in 0..MaxLines /\ shipped \in 0..emitted /\ index \in 0..shipped
      /\ seen \in 0..MaxLines /\ present \subseteq 1..MaxLines
      /\ batch \in Seq(1..MaxLines) /\ delivered \in Seq(1..MaxLines)
  BY DEF TypeOK
<1> QED BY <1>1, TelemetryAssumption

\* A known body is a request: its fields are numbers.
LEMMA KnownTypes ==
  ASSUME TypeOK
  PROVE  \A b \in Known : b.index \in Nat /\ b.lo \in Nat /\ b.hi \in Nat /\ b.index <= MaxLines
<1>1. \A b \in Req : b.index \in Nat /\ b.lo \in Nat /\ b.hi \in Nat /\ b.index <= MaxLines
  BY TelemetryAssumption DEF Req
<1>2. orphans \subseteq Req /\ \A t \in Task : req[t] \in Req
  BY DEF TypeOK
<1>3. \A i \in 1..MaxLines : AtIndex(i) \in Req
  BY TelemetryAssumption DEF TypeOK, AtIndex, Req, Chunk
<1> QED BY <1>1, <1>2, <1>3 DEF Known

\* A step that leaves the counters of the shipper alone, starts no put and puts nothing
\* that was not on its way keeps the invariant.
LEMMA Settles ==
  ASSUME OrderInv, TypeOK',
         \A u \in Task : (lock' = u) <=> Putting(u)',
         \A u \in Task : Putting(u)' => Putting(u) /\ req'[u] = req[u],
         Known' \subseteq Known, emitted <= emitted',
         UNCHANGED <<shipped, index, readerVars>>,
         \A i \in 1..MaxLines : chunk[i] # Absent => chunk'[i] # Absent
  PROVE  OrderInv'
<1> TypeOK
  BY DEF OrderInv
<1>1. emitted \in Nat /\ emitted' \in Nat
  BY OrderTypes, TelemetryAssumption DEF TypeOK
<1>2. UNCHANGED <<rpc, seen, present, batch, delivered>>
  BY DEF readerVars
<1>3. HolderInv'
  BY <1>1, OrderTypes DEF OrderInv, HolderInv
<1>4. KnownInv'
  <2>1. ASSUME NEW b \in Known'
        PROVE  /\ b.index \in 1..(index' + 1) /\ 1 <= b.lo /\ b.lo <= b.hi
               /\ b.index <= index' => b.hi <= shipped'
               /\ b.index = index' + 1 =>
                    /\ b.lo = shipped' + 1 /\ b.hi <= emitted'
                    /\ \A t \in Task : Putting(t)' => b.hi <= req'[t].hi
    <3>1. b \in Known /\ b.hi \in Nat
      BY KnownTypes
    <3> QED BY <1>1, <3>1 DEF OrderInv, KnownInv
  <2>2. ASSUME NEW b \in Known', NEW c \in Known', b.index < c.index PROVE b.hi < c.lo
    BY <2>2 DEF OrderInv, KnownInv
  <2> QED BY <2>1, <2>2 DEF KnownInv
<1>5. ASSUME NEW s, Len(s) \in Nat, \A i \in 1..Len(s) : s[i] \in Nat, Handed(s)
      PROVE  /\ Increases(s)
             /\ \A b \in Known' : b.index > seen' => Below(s, b.lo)
             /\ seen' <= index' => Below(s, shipped' + 1)
             /\ seen' = index' + 1 =>
                  /\ Below(s, emitted' + 1)
                  /\ \A t \in Task : Putting(t)' => Below(s, req'[t].hi + 1)
  <2>1. Below(s, emitted + 1) => Below(s, emitted' + 1)
    BY <1>1, <1>5 DEF Below
  <2> QED BY <1>2, <1>5, <2>1 DEF Handed
<1>6. Handed(delivered)' /\ Handed(batch)'
  <2>1. UNCHANGED <<delivered, batch>> /\ Handed(delivered) /\ Handed(batch)
    BY <1>2 DEF OrderInv, GotInv
  <2> QED BY <2>1, <1>5, OrderTypes DEF Handed, Increases, Below
<1>7. GotInv'
  BY <1>2, <1>6, OrderTypes DEF OrderInv, GotInv, Below
<1> QED BY <1>3, <1>4, <1>7 DEF OrderInv

\* A step of a task that is not putting and does not start to.
LEMMA Elsewhere ==
  ASSUME OrderInv, TypeOK', NEW t \in Task,
         NEW p \in {"idle", "lock", "loop", "manifest", "sealed", "gone"},
         ~Putting(t), pc' = [pc EXCEPT ![t] = p], emitted <= emitted',
         UNCHANGED <<shipped, index, lock, req, chunk, orphans, readerVars>>
  PROVE  OrderInv'
<1>1. \A u \in Task : Putting(u)' <=> Putting(u)
  BY DEF OrderInv, TypeOK, Putting
<1>2. Known' = Known
  BY <1>1 DEF Known, AtIndex
<1>3. \A u \in Task : (lock' = u) <=> Putting(u)'
  BY <1>1 DEF OrderInv, HolderInv
<1> QED BY <1>1, <1>2, <1>3, Settles

\* The calls of the shipper, an empty flush, and what close does itself.
LEMMA ElsewhereSteps ==
  ASSUME OrderInv, NEW t \in Task,
         \/ EmitLine(t) \/ TickHeartbeat(t) \/ TickFlush(t) \/ Close(t) \/ CloseLoop(t)
         \/ ManifestLands(t) \/ CloseReturns(t) \/ ManifestFails(t) \/ ResultFails(t)
         \/ Acquire(t) /\ Buffered = 0
  PROVE  OrderInv'
<1> DEFINE Places == {"idle", "lock", "loop", "manifest", "sealed", "gone"}
<1>1. TypeOK
  BY DEF OrderInv
<1>2. \E p \in Places : pc' = [pc EXCEPT ![t] = p]
  BY <1>1 DEF TypeOK, EmitLine, TickHeartbeat, TickFlush, Close, CloseLoop, ManifestLands,
       CloseReturns, ManifestFails, ResultFails, Acquire
<1>3. ~Putting(t)
  BY DEF EmitLine, TickHeartbeat, TickFlush, Close, CloseLoop, ManifestLands, CloseReturns,
       ManifestFails, ResultFails, Acquire, Putting
<1>4. /\ UNCHANGED <<shipped, index, lock, req, chunk, orphans, readerVars>>
      /\ emitted' = emitted \/ (emitted' = emitted + 1 /\ emitted < MaxLines)
  <2>1. CASE EmitLine(t) \/ TickHeartbeat(t) \/ TickFlush(t) \/ Close(t)
    BY <2>1 DEF EmitLine, TickHeartbeat, TickFlush, Close, storeVars
  <2>2. CASE \/ CloseLoop(t) \/ ManifestLands(t) \/ CloseReturns(t)
             \/ ManifestFails(t) \/ ResultFails(t)
    BY <2>2 DEF CloseLoop, ManifestLands, CloseReturns, ManifestFails, ResultFails, storeVars
  <2>3. CASE Acquire(t) /\ Buffered = 0
    BY <2>3 DEF Acquire, storeVars
  <2> QED BY <2>1, <2>2, <2>3
<1>5. /\ emitted' \in 0..MaxLines /\ shipped' \in 0..emitted' /\ index' \in 0..shipped'
      /\ emitted <= emitted'
  BY <1>1, <1>4, OrderTypes
<1>6. pc' \in [Task -> {"idle", "lock", "put", "landed", "loop", "manifest", "sealed", "gone"}]
  BY <1>1, <1>2 DEF TypeOK
<1>7. ret' \in [Task -> {"idle", "loop"}]
  BY <1>1 DEF TypeOK, EmitLine, TickHeartbeat, TickFlush, Close, CloseLoop, ManifestLands,
       CloseReturns, ManifestFails, ResultFails, Acquire
<1>8. closing' \in BOOLEAN /\ closed' \in BOOLEAN /\ faults' \in 0..MaxFaults
  <2>1. faults' = faults \/ (faults < MaxFaults /\ faults' = faults + 1)
    BY DEF EmitLine, TickHeartbeat, TickFlush, Close, CloseLoop, ManifestLands, CloseReturns,
         ManifestFails, ResultFails, Acquire
  <2>2. (closing' = closing \/ closing' = TRUE) /\ (closed' = closed \/ closed' = TRUE)
    BY DEF EmitLine, TickHeartbeat, TickFlush, Close, CloseLoop, ManifestLands, CloseReturns,
         ManifestFails, ResultFails, Acquire
  <2>3. closing \in BOOLEAN /\ closed \in BOOLEAN /\ faults \in 0..MaxFaults
    BY <1>1 DEF TypeOK
  <2>4. faults' \in 0..MaxFaults
    BY <2>1, <2>3, TelemetryAssumption
  <2>5. closing' \in BOOLEAN /\ closed' \in BOOLEAN
    BY <2>2, <2>3, Zenon
  <2> QED BY <2>4, <2>5
<1>9. manifest' \in (0..MaxLines) \cup {None}
  <2>1. manifest' = manifest \/ manifest' = index
    BY DEF EmitLine, TickHeartbeat, TickFlush, Close, CloseLoop, ManifestLands, CloseReturns,
         ManifestFails, ResultFails, Acquire, storeVars
  <2> QED BY <1>1, <2>1, OrderTypes DEF TypeOK
<1>10. TypeOK'
  BY <1>1, <1>4, <1>5, <1>6, <1>7, <1>8, <1>9 DEF TypeOK, readerVars
<1> QED BY <1>2, <1>3, <1>4, <1>5, <1>10, Elsewhere

\* The store performs a put, in time or late: what it writes was known.
LEMMA LandSteps ==
  ASSUME OrderInv,
         (\E t \in Task : PutLands(t)) \/ (\E r \in orphans : OrphanLands(r))
  PROVE  OrderInv'
<1>1. TypeOK
  BY DEF OrderInv
<1>2. PICK r \in Known : chunk' = [chunk EXCEPT ![r.index] = Body(r)] /\ r \in Req
  BY <1>1 DEF PutLands, OrphanLands, Known, Putting, TypeOK
<1>3. /\ r.index \in 1..MaxLines /\ 1 <= r.lo /\ Body(r) \in Chunk /\ Body(r) # Absent
      /\ r = [index |-> r.index, lo |-> Body(r).lo, hi |-> Body(r).hi]
  BY <1>1, <1>2, KnownTypes, TelemetryAssumption
     DEF OrderInv, KnownInv, Req, Body, Chunk, Absent
<1>4. chunk' \in [1..MaxLines -> Chunk] /\ chunk'[r.index] = Body(r)
      /\ \A i \in 1..MaxLines : i # r.index => chunk'[i] = chunk[i]
  BY <1>1, <1>2, <1>3 DEF TypeOK
<1>5. /\ UNCHANGED <<emitted, shipped, index, closing, closed, lock, ret, req>>
      /\ UNCHANGED <<manifest, faults, readerVars>>
      /\ orphans' \subseteq orphans
      /\ pc' = pc \/ \E t \in Task : pc[t] = "put" /\ pc' = [pc EXCEPT ![t] = "landed"]
  BY DEF PutLands, OrphanLands, shipperVars
<1>6. \A u \in Task : Putting(u)' <=> Putting(u)
  BY <1>1, <1>5 DEF TypeOK, Putting
<1>7. Known' \subseteq Known
  <2>1. \A i \in 1..MaxLines : chunk'[i] # Absent => AtIndex(i)' \in Known
    BY <1>2, <1>3, <1>4 DEF AtIndex, Known
  <2> QED BY <1>5, <1>6, <2>1 DEF Known
<1>8. TypeOK'
  <2>1. pc' \in [Task -> {"idle", "lock", "put", "landed", "loop", "manifest", "sealed", "gone"}]
    BY <1>1, <1>5 DEF TypeOK
  <2> QED BY <1>1, <1>4, <1>5, <2>1 DEF TypeOK, readerVars
<1>9. \A u \in Task : (lock' = u) <=> Putting(u)'
  BY <1>5, <1>6 DEF OrderInv, HolderInv
<1>10. \A i \in 1..MaxLines : chunk[i] # Absent => chunk'[i] # Absent
  BY <1>3, <1>4
<1> QED BY <1>1, <1>5, <1>6, <1>7, <1>8, <1>9, <1>10, OrderTypes, Settles

\* A put that is given up is known as an orphan, or not at all.
LEMMA GiveUpStep ==
  ASSUME OrderInv, NEW t \in Task, PutFails(t) \/ Cancel(t)
  PROVE  OrderInv'
<1>1. TypeOK
  BY DEF OrderInv
<1>2. /\ pc[t] \in {"idle", "lock", "put", "landed"}
      /\ pc' = [pc EXCEPT ![t] = "idle"] \/ pc' = [pc EXCEPT ![t] = "gone"]
      /\ Abandon(t)
      /\ UNCHANGED <<emitted, shipped, index, closing, closed, ret, chunk, manifest, readerVars>>
  BY DEF PutFails, Cancel, MayAbandon
<1>3. faults' \in 0..MaxFaults
  BY <1>1, TelemetryAssumption DEF PutFails, Cancel, TypeOK
<1>4. ~Putting(t)' /\ \A u \in Task : u # t => (Putting(u)' <=> Putting(u)) /\ req'[u] = req[u]
  BY <1>1, <1>2 DEF TypeOK, Putting, Abandon
<1>5. orphans' \subseteq orphans \cup {req[u] : u \in {v \in Task : Putting(v)}}
  BY <1>2 DEF Abandon, OrphanPuts, Putting
<1>6. Known' \subseteq Known
  BY <1>2, <1>4, <1>5 DEF Known, AtIndex
<1>7. \A u \in Task : (lock' = u) <=> Putting(u)'
  BY <1>2, <1>4, TelemetryAssumption DEF OrderInv, HolderInv, Abandon
<1>8. TypeOK'
  <2>1. NoReq \in Req
    BY TelemetryAssumption DEF NoReq, Req
  <2>2. pc' \in [Task -> {"idle", "lock", "put", "landed", "loop", "manifest", "sealed", "gone"}]
    BY <1>1, <1>2 DEF TypeOK
  <2>3. req' \in [Task -> Req] /\ lock' \in Task \cup {None}
    BY <1>1, <1>2, <2>1 DEF TypeOK, Abandon
  <2>4. orphans' \subseteq Req
    BY <1>1, <1>5 DEF TypeOK
  <2> QED BY <1>1, <1>2, <1>3, <2>2, <2>3, <2>4 DEF TypeOK, readerVars
<1> QED BY <1>1, <1>2, <1>4, <1>6, <1>7, <1>8, OrderTypes, Settles

-----------------------------------------------------------------------------
\* flush starts a put: its body begins after what is shipped and ends with all there is.
LEMMA StartPutStep ==
  ASSUME OrderInv, NEW t \in Task, Acquire(t), Buffered # 0
  PROVE  OrderInv'
<1> DEFINE r == [index |-> index + 1, lo |-> shipped + 1, hi |-> emitted]
<1>1. TypeOK
  BY DEF OrderInv
<1>2. /\ pc[t] = "lock" /\ lock = None /\ lock' = t
      /\ pc' = [pc EXCEPT ![t] = "put"] /\ req' = [req EXCEPT ![t] = r]
      /\ UNCHANGED <<emitted, shipped, index, closing, closed, ret, storeVars, faults, readerVars>>
  BY DEF Acquire, LockFree
<1>3. /\ emitted \in Nat /\ shipped \in Nat /\ index \in Nat /\ emitted <= MaxLines
      /\ index <= shipped /\ shipped < emitted /\ MaxLines \in Nat
  BY <1>1, OrderTypes DEF Buffered
<1>4. r \in Req
  BY <1>3 DEF Req
<1>5. req'[t] = r /\ \A u \in Task : ~Putting(u)
  BY <1>1, <1>2, TelemetryAssumption DEF OrderInv, HolderInv, TypeOK
<1>6. \A u \in Task : Putting(u)' <=> u = t
  BY <1>1, <1>2, <1>5 DEF TypeOK, Putting
<1>7. Known' = Known \cup {r}
  BY <1>2, <1>5, <1>6 DEF Known, AtIndex, storeVars
<1>8. TypeOK'
  <2>1. /\ pc' \in [Task -> {"idle", "lock", "put", "landed", "loop", "manifest", "sealed", "gone"}]
        /\ req' \in [Task -> Req]
    BY <1>1, <1>2, <1>4 DEF TypeOK
  <2> QED BY <1>1, <1>2, <2>1 DEF TypeOK, storeVars, readerVars
<1>9. HolderInv'
  BY <1>2, <1>3, <1>5, <1>6 DEF HolderInv
<1>10. \A b \in Known : /\ b.index \in Nat /\ b.lo \in Nat /\ b.hi \in Nat
                        /\ b.index <= index + 1
                        /\ b.index <= index => b.hi <= shipped
                        /\ b.index = index + 1 => b.hi <= emitted
  BY <1>1, <1>3, KnownTypes DEF OrderInv, KnownInv
<1>11. KnownInv'
  <2>1. ASSUME NEW b \in Known'
        PROVE  /\ b.index \in 1..(index + 1) /\ 1 <= b.lo /\ b.lo <= b.hi
               /\ b.index <= index => b.hi <= shipped
               /\ b.index = index + 1 =>
                    /\ b.lo = shipped + 1 /\ b.hi <= emitted
                    /\ \A u \in Task : Putting(u)' => b.hi <= req'[u].hi
    <3>1. CASE b = r
      BY <1>3, <1>5, <1>6, <3>1
    <3>2. CASE b \in Known
      BY <1>5, <1>6, <1>10, <3>2 DEF OrderInv, KnownInv
    <3> QED BY <1>7, <3>1, <3>2
  <2>2. ASSUME NEW b \in Known', NEW c \in Known', b.index < c.index PROVE b.hi < c.lo
    <3>1. CASE b \in Known /\ c \in Known
      BY <2>2, <3>1 DEF OrderInv, KnownInv
    <3>2. CASE b \in Known /\ c = r
      BY <1>3, <1>10, <2>2, <3>2
    <3>3. CASE b = r
      BY <1>3, <1>7, <1>10, <2>2, <3>3
    <3> QED BY <1>7, <3>1, <3>2, <3>3
  <2> QED BY <1>2, <2>1, <2>2 DEF KnownInv
<1>12. GotInv'
  <2>1. UNCHANGED <<rpc, seen, present, batch, delivered, chunk>>
    BY <1>2 DEF readerVars, storeVars
  <2>2. ASSUME NEW s, Len(s) \in Nat, \A i \in 1..Len(s) : s[i] \in Nat, Handed(s)
        PROVE  /\ Increases(s)
               /\ \A b \in Known' : b.index > seen => Below(s, b.lo)
               /\ seen <= index => Below(s, shipped + 1)
               /\ seen = index + 1 =>
                    /\ Below(s, emitted + 1)
                    /\ \A u \in Task : Putting(u)' => Below(s, req'[u].hi + 1)
    <3>1. index + 1 > seen => Below(s, shipped + 1)
      BY <1>1, <1>3, <2>2, OrderTypes DEF Handed
    <3> QED BY <1>5, <1>6, <1>7, <2>2, <3>1 DEF Handed
  <2>3. Handed(delivered)' /\ Handed(batch)'
    BY <1>1, <1>2, <2>1, <2>2, OrderTypes DEF OrderInv, GotInv, Handed, Increases, Below
  <2> QED BY <1>1, <2>1, <2>3, OrderTypes DEF OrderInv, GotInv, Below
<1> QED BY <1>8, <1>9, <1>11, <1>12 DEF OrderInv

\* flush returns: no body at its index reaches beyond the lines it has shipped.
LEMMA ShippedStep ==
  ASSUME OrderInv, NEW t \in Task, FlushReturns(t)
  PROVE  OrderInv'
<1>1. TypeOK
  BY DEF OrderInv
<1>2. /\ pc[t] = "landed" /\ Putting(t) /\ pc' = [pc EXCEPT ![t] = ret[t]]
      /\ lock' = None /\ req' = [req EXCEPT ![t] = NoReq]
      /\ UNCHANGED <<emitted, closing, closed, ret, storeVars, faults, readerVars>>
  BY DEF FlushReturns, Putting
<1>3. req[t].index = index + 1 /\ req[t].lo = shipped + 1 /\ req[t].hi \in (shipped + 1)..emitted
  BY <1>2 DEF OrderInv, HolderInv
<1>4. index' = index + 1 /\ shipped' = req[t].hi /\ shipped' \in Nat /\ shipped < shipped'
      /\ shipped' <= emitted
  BY <1>1, <1>3, OrderTypes DEF FlushReturns, Dropped
<1>5. \A u \in Task : ~Putting(u)'
  <2>1. \A u \in Task : u # t => ~Putting(u)
    BY <1>2 DEF OrderInv, HolderInv
  <2> QED BY <1>1, <1>2, <2>1 DEF TypeOK, Putting
<1>6. Known' \subseteq Known
  BY <1>2, <1>5 DEF Known, AtIndex, storeVars
<1>7. TypeOK'
  <2>1. NoReq \in Req
    BY TelemetryAssumption DEF NoReq, Req
  <2>2. /\ pc' \in [Task -> {"idle", "lock", "put", "landed", "loop", "manifest", "sealed", "gone"}]
        /\ req' \in [Task -> Req]
    BY <1>1, <1>2, <2>1 DEF TypeOK
  <2>3. /\ emitted' \in 0..MaxLines /\ shipped' \in 0..emitted' /\ index' \in 0..shipped'
    BY <1>1, <1>2, <1>4, OrderTypes
  <2> QED BY <1>1, <1>2, <2>2, <2>3 DEF TypeOK, storeVars, readerVars
<1>8. HolderInv'
  BY <1>2, <1>5, TelemetryAssumption DEF HolderInv
<1>9. KnownInv'
  <2>1. ASSUME NEW b \in Known'
        PROVE  b.index \in 1..index' /\ 1 <= b.lo /\ b.lo <= b.hi /\ b.hi <= shipped'
    <3>1. b \in Known /\ b.index \in Nat /\ b.hi \in Nat
      BY <1>1, <1>6, KnownTypes
    <3> QED BY <1>1, <1>2, <1>4, <3>1, OrderTypes DEF OrderInv, KnownInv
  <2>2. ASSUME NEW b \in Known', NEW c \in Known', b.index < c.index PROVE b.hi < c.lo
    BY <1>6, <2>2 DEF OrderInv, KnownInv
  <2>3. index' \in Nat
    BY <1>1, <1>4, OrderTypes
  <2> QED BY <2>1, <2>2, <2>3 DEF KnownInv
<1>10. GotInv'
  <2>1. UNCHANGED <<rpc, seen, present, batch, delivered, chunk>>
    BY <1>2 DEF readerVars, storeVars
  <2>2. seen \in Nat /\ seen <= index + 1
    <3>1. CASE seen > 0
      <4>1. AtIndex(seen) \in Known
        BY <1>1, <3>1, OrderTypes DEF OrderInv, GotInv, Known
      <4> QED BY <1>1, <4>1, OrderTypes DEF OrderInv, KnownInv, AtIndex
    <3> QED BY <1>1, <3>1, OrderTypes
  <2>3. ASSUME NEW s, Len(s) \in Nat, \A i \in 1..Len(s) : s[i] \in Nat, Handed(s)
        PROVE  /\ Increases(s)
               /\ \A b \in Known' : b.index > seen => Below(s, b.lo)
               /\ Below(s, shipped' + 1)
    <3>1. CASE seen <= index
      <4>1. Below(s, shipped + 1)
        BY <2>3, <3>1 DEF Handed
      <4>2. shipped \in Nat
        BY <1>1, OrderTypes
      <4>3. Below(s, shipped' + 1)
        BY <1>4, <2>3, <4>1, <4>2 DEF Below
      <4> QED BY <1>6, <2>3, <4>3 DEF Handed
    <3>2. CASE seen = index + 1
      BY <1>2, <1>4, <1>6, <2>3, <3>2 DEF Handed
    <3> QED BY <1>1, <2>2, <3>1, <3>2, OrderTypes
  <2>4. Handed(delivered)' /\ Handed(batch)'
    <3>1. seen' # index' + 1
      BY <1>1, <1>4, <2>1, <2>2, OrderTypes
    <3> QED BY <1>1, <2>1, <2>3, <3>1, OrderTypes DEF OrderInv, GotInv, Handed, Increases, Below
  <2> QED BY <1>1, <2>1, <2>4, OrderTypes DEF OrderInv, GotInv, Below
<1> QED BY <1>7, <1>8, <1>9, <1>10 DEF OrderInv

-----------------------------------------------------------------------------
\* The lines of a chunk behind smaller lines increase, and end with the chunk's.
LEMMA Extends ==
  ASSUME NEW s \in Seq(1..MaxLines), NEW lo \in Nat \ {0}, NEW hi \in Nat, lo <= hi, hi <= MaxLines,
         Increases(s), Below(s, lo)
  PROVE  LET u == s \o Run(lo - 1, hi)
         IN /\ u \in Seq(1..MaxLines) /\ Increases(u)
            /\ \A n \in Nat : Below(s, n) /\ hi < n => Below(u, n)
            /\ \A d \in Seq(1..MaxLines) : Below(d, lo) /\ (\A i \in 1..Len(s) : Below(d, s[i]))
                 => \A i \in 1..Len(u) : Below(d, u[i])
<1> DEFINE t == Run(lo - 1, hi)
           u == s \o t
           k == hi - lo + 1
<1>1. /\ lo - 1 \in Nat /\ lo - 1 <= hi /\ hi - (lo - 1) = k
      /\ k \in Nat /\ MaxLines \in Nat /\ lo - 1 + k = hi
  BY TelemetryAssumption
<1>2. t \in Seq(1..MaxLines) /\ Len(t) = k /\ \A i \in 1..k : t[i] = (lo - 1) + i
  BY <1>1, RunSeq
<1> HIDE DEF t
<1>3. /\ u \in Seq(1..MaxLines) /\ Len(u) = Len(s) + Len(t)
      /\ \A i \in 1..(Len(s) + Len(t)) : u[i] = IF i <= Len(s) THEN s[i] ELSE t[i - Len(s)]
  BY <1>2, ConcatProperties, Zenon
<1> HIDE DEF u
<1>4. Len(s) \in Nat /\ \A i \in 1..Len(s) : s[i] \in Nat /\ s[i] < lo
  BY TelemetryAssumption DEF Below
<1>5. /\ \A i \in 1..Len(s) : u[i] = s[i]
      /\ \A i \in (Len(s) + 1)..Len(u) : u[i] = (lo - 1) + (i - Len(s)) /\ u[i] \in lo..hi
  <2>1. ASSUME NEW i \in 1..Len(s) PROVE u[i] = s[i]
    <3>1. i \in 1..(Len(s) + Len(t)) /\ i <= Len(s)
      BY <1>1, <1>2, <1>4
    <3> QED BY <1>3, <3>1, Zenon
  <2>2. ASSUME NEW i \in (Len(s) + 1)..Len(u)
        PROVE  u[i] = (lo - 1) + (i - Len(s)) /\ u[i] \in lo..hi
    <3>1. i \in 1..(Len(s) + Len(t)) /\ ~(i <= Len(s)) /\ i - Len(s) \in 1..k
      BY <1>1, <1>2, <1>3, <1>4
    <3>2. u[i] = t[i - Len(s)] /\ t[i - Len(s)] = (lo - 1) + (i - Len(s))
      BY <3>1, <1>2, <1>3
    <3> QED BY <1>1, <1>4, <3>1, <3>2
  <2> QED BY <2>1, <2>2
<1>6. \A i \in 1..Len(u) : i \in 1..Len(s) \/ i \in (Len(s) + 1)..Len(u)
  BY <1>1, <1>2, <1>3, <1>4
<1>7. Increases(u)
  BY <1>4, <1>5, <1>6 DEF Increases
<1>8. ASSUME NEW n \in Nat, Below(s, n), hi < n PROVE Below(u, n)
  BY <1>5, <1>6, <1>8 DEF Below
<1>9. ASSUME NEW d \in Seq(1..MaxLines), Below(d, lo), \A i \in 1..Len(s) : Below(d, s[i])
      PROVE  \A i \in 1..Len(u) : Below(d, u[i])
  <2>1. \A j \in 1..Len(d) : d[j] \in Nat
    BY TelemetryAssumption
  <2> QED BY <1>5, <1>6, <1>9, <2>1 DEF Below
<1> QED BY <1>3, <1>7, <1>8, <1>9 DEF u, t

\* The reader leaves shipper and store alone.
LEMMA ReaderOnly ==
  ASSUME OrderInv, UNCHANGED <<shipperVars, storeVars>>
  PROVE  HolderInv' /\ KnownInv' /\ Known' = Known /\ \A t \in Task : Putting(t)' <=> Putting(t)
BY DEF OrderInv, HolderInv, KnownInv, Known, AtIndex, Putting, shipperVars, storeVars

\* What was handed over below the chunks that are not read stays so.
LEMMA ReadOn ==
  ASSUME OrderInv, UNCHANGED <<shipperVars, storeVars>>,
         seen' = seen \/ (seen' = seen + 1 /\ seen <= index),
         NEW s, Len(s) \in Nat, \A i \in 1..Len(s) : s[i] \in Nat, Handed(s)
  PROVE  /\ Increases(s)
         /\ \A b \in Known : b.index > seen' => Below(s, b.lo)
         /\ seen' <= index => Below(s, shipped + 1)
         /\ seen' = index + 1 => /\ Below(s, emitted + 1)
                                 /\ \A t \in Task : Putting(t) => Below(s, req[t].hi + 1)
<1>1. TypeOK
  BY DEF OrderInv
<1>2. /\ seen \in Nat /\ index \in Nat /\ shipped \in Nat /\ emitted \in Nat /\ shipped <= emitted
      /\ \A b \in Known : b.index \in Nat
  BY <1>1, OrderTypes, KnownTypes
<1>3. CASE seen' = seen
  BY <1>3 DEF Handed
<1>4. CASE seen' = seen + 1 /\ seen <= index
  <2>1. Below(s, shipped + 1)
    BY <1>4 DEF Handed
  <2>2. \A n \in Nat : shipped < n => Below(s, n) /\ Below(s, n + 1)
    BY <1>2, <2>1 DEF Below
  <2>3. \A t \in Task : Putting(t) => req[t].hi \in Nat /\ shipped < req[t].hi
    BY <1>2 DEF OrderInv, HolderInv
  <2>4. Below(s, emitted + 1)
    BY <1>2, <2>2
  <2>5. \A t \in Task : Putting(t) => Below(s, req[t].hi + 1)
    BY <2>2, <2>3
  <2>6. \A b \in Known : b.index > seen' => Below(s, b.lo)
    BY <1>2, <1>4 DEF Handed
  <2>7. Increases(s)
    BY DEF Handed
  <2> QED BY <2>1, <2>4, <2>5, <2>6, <2>7
<1> QED BY <1>3, <1>4

\* Listing, handing over and failing do not change what is read.
LEMMA ListStep ==
  ASSUME OrderInv, PollList \/ PollFails
  PROVE  OrderInv'
<1>1. TypeOK /\ UNCHANGED <<shipperVars, storeVars>> /\ seen' = seen /\ delivered' = delivered
  BY DEF OrderInv, PollList, PollFails
<1>2. /\ \A i \in present' : chunk[i] # Absent /\ i \in 1..MaxLines
      /\ rpc' \in {"get", "failed"}
      /\ batch' = batch \/ batch' = << >>
      /\ UNCHANGED chunk
  BY <1>1, OrderTypes DEF OrderInv, GotInv, PollList, PollFails, storeVars
<1>3. TypeOK'
  <2>1. total' \in (0..MaxLines) \cup {None} /\ faults' \in 0..MaxFaults
    BY <1>1, TelemetryAssumption DEF TypeOK, PollList, PollFails
  <2>2. batch' \in Seq(1..MaxLines)
    <3>1. batch \in Seq(1..MaxLines) /\ << >> \in Seq(1..MaxLines)
      BY <1>1 DEF TypeOK
    <3> QED BY <1>2, <3>1
  <2>3. present' \subseteq 1..MaxLines
    BY <1>2
  <2> QED BY <1>1, <1>2, <2>1, <2>2, <2>3 DEF TypeOK, shipperVars, storeVars
<1>4. /\ Handed(delivered) /\ Handed(batch) /\ Handed(<< >>)
      /\ \A i \in 1..Len(batch) : Below(delivered, batch[i])
  BY DEF OrderInv, GotInv, Handed, Increases, Below
<1>5. Handed(delivered)' /\ Handed(batch)'
  BY <1>1, <1>2, <1>4, ReaderOnly DEF Handed, Increases, Below, shipperVars
<1>6. GotInv'
  BY <1>1, <1>2, <1>4, <1>5 DEF OrderInv, GotInv, Below
<1> QED BY <1>1, <1>3, <1>6, ReaderOnly DEF OrderInv

\* The lines gathered go behind those handed over.
LEMMA HandOverStep ==
  ASSUME OrderInv, PollReturns
  PROVE  OrderInv'
<1> DEFINE u == delivered \o batch
<1>1. /\ TypeOK /\ UNCHANGED <<shipperVars, storeVars>> /\ seen' = seen /\ present' = present
      /\ delivered' = u /\ batch' = << >> /\ rpc' = "idle" /\ total' = total /\ faults' = faults
      /\ UNCHANGED chunk
  BY DEF OrderInv, PollReturns, storeVars
<1>2. delivered \in Seq(1..MaxLines) /\ batch \in Seq(1..MaxLines)
  BY <1>1 DEF TypeOK
<1>3. /\ u \in Seq(1..MaxLines) /\ Len(u) = Len(delivered) + Len(batch)
      /\ \A i \in 1..(Len(delivered) + Len(batch)) :
            u[i] = IF i <= Len(delivered) THEN delivered[i] ELSE batch[i - Len(delivered)]
  BY <1>2, ConcatProperties, Zenon
<1> HIDE DEF u
<1>4. Len(delivered) \in Nat /\ Len(batch) \in Nat
  BY <1>2
<1>5. ASSUME NEW i \in 1..Len(u)
      PROVE  \/ i \in 1..Len(delivered) /\ u[i] = delivered[i]
             \/ i > Len(delivered) /\ i - Len(delivered) \in 1..Len(batch) /\ u[i] = batch[i - Len(delivered)]
  <2>1. CASE i <= Len(delivered)
    <3>1. i \in 1..(Len(delivered) + Len(batch)) /\ i \in 1..Len(delivered)
      BY <1>3, <1>4, <2>1
    <3>2. u[i] = delivered[i]
      BY <1>3, <2>1, <3>1, Zenon
    <3> QED BY <3>1, <3>2
  <2>2. CASE ~(i <= Len(delivered))
    <3>1. i \in 1..(Len(delivered) + Len(batch)) /\ i > Len(delivered) /\ i - Len(delivered) \in 1..Len(batch)
      BY <1>3, <1>4, <2>2
    <3>2. u[i] = batch[i - Len(delivered)]
      BY <1>3, <2>2, <3>1, Zenon
    <3> QED BY <3>1, <3>2
  <2> QED BY <2>1, <2>2
<1>6. /\ Increases(delivered) /\ Increases(batch)
      /\ \A i \in 1..Len(batch), j \in 1..Len(delivered) : delivered[j] < batch[i]
  BY DEF OrderInv, GotInv, Handed, Below
<1>7. Increases(u)
  <2>1. Len(u) \in Nat
    BY <1>3, <1>4
  <2>2. ASSUME NEW i \in 1..Len(u), NEW j \in 1..Len(u), i < j PROVE u[i] < u[j]
    <3>1. CASE j \in 1..Len(delivered) /\ u[j] = delivered[j]
      <4>1. i \in 1..Len(delivered) /\ u[i] = delivered[i]
        BY <1>4, <1>5, <2>1, <2>2, <3>1
      <4> QED BY <1>6, <2>2, <3>1, <4>1 DEF Increases
    <3>2. CASE j > Len(delivered) /\ j - Len(delivered) \in 1..Len(batch) /\ u[j] = batch[j - Len(delivered)]
      <4>1. CASE i \in 1..Len(delivered) /\ u[i] = delivered[i]
        BY <1>6, <3>2, <4>1
      <4>2. CASE i > Len(delivered) /\ i - Len(delivered) \in 1..Len(batch) /\ u[i] = batch[i - Len(delivered)]
        <5>1. i - Len(delivered) < j - Len(delivered)
          BY <1>4, <2>1, <2>2
        <5> QED BY <1>6, <3>2, <4>2, <5>1 DEF Increases
      <4> QED BY <1>5, <4>1, <4>2
    <3> QED BY <1>5, <3>1, <3>2
  <2> QED BY <2>2 DEF Increases
<1>8. ASSUME NEW n, Below(delivered, n), Below(batch, n) PROVE Below(u, n)
  BY <1>5, <1>8 DEF Below
<1>9. Handed(u)
  BY <1>7, <1>8 DEF OrderInv, GotInv, Handed
<1>10. Handed(<< >>)
  BY DEF OrderInv, GotInv, Handed, Increases, Below
<1>11. Handed(delivered)' /\ Handed(batch)'
  BY <1>1, <1>9, <1>10, ReaderOnly DEF Handed, Increases, Below, shipperVars
<1>12. GotInv'
  <2>1. Len(batch') = 0
    BY <1>1
  <2> QED BY <1>1, <1>11, <2>1 DEF OrderInv, GotInv, Below
<1>13. TypeOK'
  <2>1. delivered' \in Seq(1..MaxLines) /\ batch' \in Seq(1..MaxLines)
    BY <1>1, <1>3
  <2> QED BY <1>1, <2>1 DEF TypeOK, shipperVars, storeVars
<1> QED BY <1>1, <1>12, <1>13, ReaderOnly DEF OrderInv

\* The next chunk's lines are greater than all lines read, whichever of its puts it holds.
LEMMA ReadChunkStep ==
  ASSUME OrderInv, PollGet
  PROVE  OrderInv'
<1> DEFINE n == seen + 1
           b == AtIndex(n)
<1>1. /\ TypeOK /\ UNCHANGED <<shipperVars, storeVars>> /\ n \in present /\ chunk[n] # Absent
      /\ batch' = batch \o Run(b.lo - 1, b.hi) /\ seen' = n /\ rpc' = "get" /\ n \in 1..MaxLines
      /\ UNCHANGED <<rpc, total, present, delivered, faults, chunk>>
  BY OrderTypes DEF OrderInv, GotInv, PollGet, NextChunk, AtIndex, Lines, storeVars
<1>2. /\ seen \in Nat /\ index \in Nat /\ shipped \in Nat /\ emitted \in Nat /\ shipped <= emitted
      /\ emitted <= MaxLines /\ MaxLines \in Nat
      /\ delivered \in Seq(1..MaxLines) /\ batch \in Seq(1..MaxLines)
  BY <1>1, OrderTypes DEF TypeOK
<1>3. b \in Known /\ b.index = n
  BY <1>1 DEF Known, AtIndex
<1>4. /\ b.lo \in Nat \ {0} /\ b.hi \in Nat /\ b.lo <= b.hi /\ n <= index + 1
      /\ n <= index => b.hi <= shipped
      /\ n = index + 1 => b.hi <= emitted /\ \A t \in Task : Putting(t) => b.hi <= req[t].hi
  <2>1. b.index \in Nat /\ b.lo \in Nat /\ b.hi \in Nat
    BY <1>1, <1>3, KnownTypes
  <2> QED BY <1>2, <1>3, <2>1 DEF OrderInv, KnownInv
<1>5. b.hi <= MaxLines
  BY <1>2, <1>4
<1>6. Handed(delivered) /\ Handed(batch) /\ \A i \in 1..Len(batch) : Below(delivered, batch[i])
  BY DEF OrderInv, GotInv
<1>7. Below(delivered, b.lo) /\ Below(batch, b.lo) /\ Increases(batch)
  BY <1>2, <1>3, <1>6 DEF Handed
<1>8. \A c \in Known : c.index \in Nat /\ c.lo \in Nat /\ (c.index > n => b.hi < c.lo)
  BY <1>1, <1>3, KnownTypes DEF OrderInv, KnownInv
<1> HIDE DEF b
<1>9. /\ batch' \in Seq(1..MaxLines) /\ Increases(batch')
      /\ \A k \in Nat : Below(batch, k) /\ b.hi < k => Below(batch', k)
      /\ \A i \in 1..Len(batch') : Below(delivered, batch'[i])
  BY <1>1, <1>2, <1>4, <1>5, <1>6, <1>7, Extends
<1>10. ASSUME NEW s \in {delivered, batch}
       PROVE  /\ Increases(s)
              /\ \A c \in Known : c.index > n => Below(s, c.lo)
              /\ n <= index => Below(s, shipped + 1)
              /\ n = index + 1 => /\ Below(s, emitted + 1)
                                  /\ \A t \in Task : Putting(t) => Below(s, req[t].hi + 1)
  <2>1. seen' = seen + 1 /\ seen <= index
    BY <1>1, <1>2, <1>4
  <2>2. Handed(s) /\ Len(s) \in Nat /\ \A i \in 1..Len(s) : s[i] \in Nat
    BY <1>1, <1>6, OrderTypes
  <2> QED BY <1>1, <2>1, <2>2, ReadOn
<1>11. /\ \A c \in Known : c.index > n => Below(batch', c.lo)
       /\ n <= index => Below(batch', shipped + 1)
       /\ n = index + 1 => /\ Below(batch', emitted + 1)
                           /\ \A t \in Task : Putting(t) => Below(batch', req[t].hi + 1)
  <2>1. \A c \in Known : c.index > n => Below(batch', c.lo)
    BY <1>8, <1>9, <1>10
  <2>2. n <= index => Below(batch', shipped + 1)
    BY <1>2, <1>4, <1>9, <1>10
  <2>3. n = index + 1 => Below(batch', emitted + 1)
    BY <1>2, <1>4, <1>9, <1>10
  <2>4. \A t \in Task : Putting(t) => req[t].hi + 1 \in Nat /\ req[t].hi \in Nat
    BY <1>2 DEF OrderInv, HolderInv
  <2>5. n = index + 1 => \A t \in Task : Putting(t) => Below(batch', req[t].hi + 1)
    BY <1>4, <1>9, <1>10, <2>4
  <2> QED BY <2>1, <2>2, <2>3, <2>5
<1>12. Handed(delivered)' /\ Handed(batch)'
  <2>1. /\ Known' = Known /\ seen' = n /\ delivered' = delivered
        /\ UNCHANGED <<index, shipped, emitted, req>>
        /\ \A t \in Task : Putting(t)' <=> Putting(t)
    BY <1>1, ReaderOnly DEF shipperVars
  <2>2. Handed(delivered)'
    BY <1>10, <2>1 DEF Handed, Increases, Below
  <2>3. Handed(batch)'
    BY <1>9, <1>11, <2>1 DEF Handed, Increases, Below
  <2> QED BY <2>2, <2>3
<1>13. GotInv'
  BY <1>1, <1>9, <1>12 DEF OrderInv, GotInv, Below
<1>14. TypeOK'
  BY <1>1, <1>9 DEF TypeOK, shipperVars, storeVars
<1> QED BY <1>1, <1>13, <1>14, ReaderOnly DEF OrderInv

\* The order invariant holds of an empty store and a reader that has seen nothing.
LEMMA InitOrder == Init => OrderInv
<1> SUFFICES ASSUME Init PROVE OrderInv
  OBVIOUS
<1>1. TypeOK
  BY InitIInv DEF IInv
<1>2. Known = {} /\ \A t \in Task : ~Putting(t) /\ lock # t
  BY TelemetryAssumption DEF Init, Known, Putting
<1>3. GotInv
  BY <1>2 DEF Init, GotInv, Handed, Increases, Below
<1> QED BY <1>1, <1>2, <1>3 DEF OrderInv, HolderInv, KnownInv

\* Whatever becomes of failed and cancelled puts, every step keeps the order invariant.
LEMMA NextOrder ==
  ASSUME OrderInv, [Next]_<<uncertain, vars>>
  PROVE  OrderInv'
<1>1. ASSUME NEW t \in Worker, EmitLine(t) \/ ResultFails(t) \/ Close(t) PROVE OrderInv'
  BY <1>1, ElsewhereSteps DEF Task
<1>2. ASSUME NEW t \in Beat, TickFlush(t) \/ TickHeartbeat(t) \/ Cancel(t) PROVE OrderInv'
  BY <1>2, ElsewhereSteps, GiveUpStep DEF Task
<1>3. ASSUME NEW t \in Task, TaskStep(t) \/ PutFails(t) \/ ManifestFails(t) PROVE OrderInv'
  BY <1>3, ElsewhereSteps, StartPutStep, LandSteps, ShippedStep, GiveUpStep DEF TaskStep
<1>4. ASSUME NEW r \in orphans, OrphanLands(r) PROVE OrderInv'
  BY <1>4, LandSteps
<1>5. CASE PollList \/ PollGet \/ PollReturns \/ PollFails
  BY <1>5, ListStep, HandOverStep, ReadChunkStep
<1>6. CASE UNCHANGED vars
  BY <1>6 DEF OrderInv, TypeOK, HolderInv, KnownInv, Known, AtIndex, GotInv, Handed, Increases,
       Below, Putting, vars, shipperVars, storeVars, readerVars
<1> QED BY <1>1, <1>2, <1>3, <1>4, <1>5, <1>6 DEF Next

\* The order invariant holds over every store.
THEOREM OrderInvariance == Spec => []OrderInv
BY InitOrder, NextOrder, PTL DEF Spec

\* Type correctness.
THEOREM TypeCorrect == Spec => []TypeOK
<1>1. OrderInv => TypeOK
  BY DEF OrderInv
<1> QED BY <1>1, OrderInvariance, PTL

\* What the host is handed is in order and without repetition, even where chunk objects
\* are rewritten by retried and late puts.
THEOREM InOrder == Spec => []InOrderAtMostOnce
<1>1. ASSUME OrderInv PROVE InOrderAtMostOnce
  <2>1. Len(delivered) \in Nat /\ Increases(delivered)
    BY <1>1, OrderTypes DEF OrderInv, GotInv, Handed
  <2> QED BY <2>1 DEF InOrderAtMostOnce, Increases
<1> QED BY <1>1, OrderInvariance, PTL

-----------------------------------------------------------------------------
(***************************************************************************)
(* The interface at which Telemetry and Driver meet, over any store: when  *)
(* chunks and manifest appear and what a poll has taken up of them.        *)
(***************************************************************************)

\* A chunk is taken up by being listed, and for good by being read.
TakenUp(i) == i <= seen \/ (rpc # "idle" /\ i \in present)
Unread     == \E i \in 1..MaxLines : chunk[i] # Absent /\ ~TakenUp(i)

Stream == INSTANCE ChunkStream WITH
  unread   <- Unread,
  manifest <- manifest # None,
  sawTotal <- total # None

\* The chunks that are there have no gap, in the store or in a listing, and a
\* manifest is written when there is nothing left that could become a chunk.
StreamInv ==
  /\ \A i \in 1..index : chunk[i] # Absent
  /\ \A t \in Task : pc[t] = "landed" => chunk[index + 1] # Absent
  /\ \A t \in Task : pc[t] \in {"manifest", "sealed"} => closing
  /\ closing => shipped = emitted
  /\ manifest # None => closing /\ manifest = index
  /\ total # None => manifest = total
  /\ \A i \in present : \A j \in 1..i : j \in present

\* What is known of the next chunk holds lines that are not shipped, so it is not closing.
LEMMA OpenEnd ==
  ASSUME OrderInv, StreamInv, NEW b \in Known, b.index > index
  PROVE  b.index = index + 1 /\ ~closing /\ manifest = None
<1>1. TypeOK
  BY DEF OrderInv
<1>2. index \in Nat /\ shipped \in Nat /\ emitted \in Nat /\ shipped <= emitted
  BY <1>1, OrderTypes
<1>3. b.index \in Nat /\ b.lo \in Nat /\ b.hi \in Nat
  BY <1>1, KnownTypes
<1>4. b.index = index + 1 /\ b.lo = shipped + 1 /\ b.lo <= b.hi /\ b.hi <= emitted
  BY <1>2, <1>3 DEF OrderInv, KnownInv
<1> QED BY <1>2, <1>3, <1>4 DEF StreamInv

\* A chunk that is there is at most the next one, and those before it are there too.
LEMMA NoGap ==
  ASSUME OrderInv, StreamInv, NEW i \in 1..MaxLines, chunk[i] # Absent
  PROVE  /\ i <= index + 1
         /\ i = index + 1 => ~closing
         /\ \A j \in 1..i : chunk[j] # Absent
<1>1. TypeOK
  BY DEF OrderInv
<1>2. index \in Nat /\ MaxLines \in Nat
  BY <1>1, OrderTypes
<1>3. AtIndex(i) \in Known /\ AtIndex(i).index = i
  BY DEF Known, AtIndex
<1>4. i > index => i = index + 1 /\ ~closing
  BY <1>3, OpenEnd
<1>5. \A j \in 1..i : j = i \/ j \in 1..index
  BY <1>2, <1>4
<1> QED BY <1>2, <1>4, <1>5 DEF StreamInv

\* While a put is awaited nobody is closing.
LEMMA OpenPut ==
  ASSUME OrderInv, StreamInv, NEW t \in Task, Putting(t)
  PROVE  /\ ~closing /\ manifest = None /\ req[t].index = index + 1
         /\ \A u \in Task : Putting(u) => u = t
<1>1. req[t] \in Known /\ req[t].index = index + 1
  BY DEF Known, OrderInv, HolderInv
<1>2. index \in Nat
  BY OrderTypes DEF OrderInv
<1>3. \A u \in Task : Putting(u) => u = t
  BY DEF OrderInv, HolderInv
<1> QED BY <1>1, <1>2, <1>3, OpenEnd


\* Every step of the shipper keeps what the interface rests on.
LEMMA StreamShipper ==
  ASSUME OrderInv, StreamInv, NEW t \in Task,
         \/ EmitLine(t) \/ Close(t) \/ TickFlush(t) \/ TickHeartbeat(t) \/ Cancel(t)
         \/ TaskStep(t) \/ PutFails(t) \/ ManifestFails(t) \/ ResultFails(t)
  PROVE  StreamInv'
<1>1. TypeOK /\ index \in Nat /\ None \notin Nat
  BY OrderTypes, TelemetryAssumption DEF OrderInv
<1>2. CASE EmitLine(t) \/ Close(t) \/ TickFlush(t) \/ TickHeartbeat(t) \/ Acquire(t)
  <2>1. /\ UNCHANGED <<shipped, index, closing, chunk, manifest, total, present>>
        /\ emitted' = emitted \/ ~closing
    BY <1>2 DEF EmitLine, Close, TickFlush, TickHeartbeat, Acquire, MayEmit, storeVars, readerVars
  <2>2. \A u \in Task : pc'[u] = pc[u] \/ pc'[u] \in {"idle", "lock", "loop", "put"}
    BY <1>1, <1>2 DEF TypeOK, EmitLine, Close, TickFlush, TickHeartbeat, Acquire
  <2> QED BY <2>1, <2>2 DEF StreamInv
<1>3. CASE Cancel(t) \/ PutFails(t) \/ ManifestFails(t) \/ ResultFails(t)
  <2>1. UNCHANGED <<emitted, shipped, index, closing, chunk, manifest, total, present>>
    BY <1>3 DEF Cancel, PutFails, ManifestFails,
         ResultFails, storeVars, readerVars
  <2>2. \A u \in Task : pc'[u] = pc[u] \/ pc'[u] \in {"idle", "gone"}
    BY <1>1, <1>3 DEF TypeOK, Cancel, PutFails, ManifestFails, ResultFails
  <2> QED BY <2>1, <2>2 DEF StreamInv
<1>4. CASE PutLands(t)
  <2>1. req[t].index = index + 1 /\ chunk' = [chunk EXCEPT ![index + 1] = Body(req[t])]
    BY <1>4, OpenPut DEF PutLands, Putting
  <2>2. req[t] \in Known /\ req[t].index \in 1..MaxLines /\ 1 <= req[t].lo
    <3>1. req[t] \in Known
      BY <1>4 DEF PutLands, Known, Putting
    <3> QED BY <1>1, <3>1, KnownTypes DEF OrderInv, KnownInv
  <2>3. Body(req[t]) # Absent
    BY <1>1, <2>2, KnownTypes DEF Body, Absent
  <2>4. \A i \in 1..MaxLines : chunk[i] # Absent => chunk'[i] # Absent
    BY <1>1, <2>1, <2>3 DEF TypeOK
  <2>5. chunk'[index + 1] # Absent
    <3>1. index + 1 \in 1..MaxLines /\ chunk \in [1..MaxLines -> Chunk]
      BY <1>1, <2>1, <2>2 DEF TypeOK
    <3> QED BY <2>1, <2>3, <3>1
  <2>6. UNCHANGED <<emitted, shipped, index, closing, manifest, total, present>>
        /\ \A u \in Task : pc'[u] \in {"manifest", "sealed"} => pc[u] = pc'[u]
    BY <1>1, <1>4 DEF PutLands, TypeOK, readerVars
  <2> QED BY <1>1, <2>1, <2>4, <2>5, <2>6 DEF StreamInv
<1>5. CASE FlushReturns(t)
  <2>1. Putting(t) /\ pc[t] = "landed" /\ ~closing /\ manifest = None
        /\ req[t].index = index + 1 /\ \A u \in Task : Putting(u) => u = t
    BY <1>5, OpenPut DEF FlushReturns, Putting
  <2>2. /\ index' = index + 1 /\ UNCHANGED <<closing, chunk, manifest, total, present>>
        /\ pc' = [pc EXCEPT ![t] = ret[t]] /\ ret[t] \in {"idle", "loop"}
    BY <1>1, <1>5, <2>1 DEF FlushReturns, TypeOK, storeVars, readerVars
  <2>3. \A u \in Task : pc'[u] # "landed" /\ (pc'[u] \in {"manifest", "sealed"} => pc[u] = pc'[u])
    BY <1>1, <2>1, <2>2 DEF TypeOK, Putting
  <2>4. \A i \in 1..(index + 1) : chunk[i] # Absent
    <3>1. \A i \in 1..(index + 1) : i \in 1..index \/ i = index + 1
      BY <1>1
    <3> QED BY <2>1, <3>1 DEF StreamInv
  <2> QED BY <2>1, <2>2, <2>3, <2>4 DEF StreamInv
<1>6. CASE CloseLoop(t) \/ ManifestLands(t) \/ CloseReturns(t)
  <2>1. UNCHANGED <<emitted, shipped, index, chunk, total, present>>
    BY <1>6 DEF CloseLoop, ManifestLands, CloseReturns, storeVars, readerVars
  <2>2. \A u \in Task : u # t => pc'[u] = pc[u]
    BY <1>1, <1>6 DEF TypeOK, CloseLoop, ManifestLands, CloseReturns
  <2>3. CASE CloseLoop(t)
    <3>1. shipped \in Nat /\ emitted \in Nat /\ shipped <= emitted
      BY <1>1, OrderTypes
    <3>2. closing' = closing \/ (closing' = TRUE /\ shipped = emitted)
      BY <2>3, <3>1 DEF CloseLoop, Buffered
    <3>3. pc'[t] = "lock" \/ (pc'[t] = "manifest" /\ closing')
      BY <1>1, <2>3 DEF CloseLoop, TypeOK
    <3>4. manifest' = manifest
      BY <2>3 DEF CloseLoop, storeVars
    <3> QED BY <2>1, <2>2, <3>2, <3>3, <3>4 DEF StreamInv
  <2>4. CASE ManifestLands(t)
    <3>1. closing /\ closing' = closing /\ manifest' = index /\ pc'[t] = "sealed"
      BY <1>1, <2>4 DEF ManifestLands, TypeOK, StreamInv
    <3> QED BY <1>1, <2>1, <2>2, <3>1 DEF StreamInv
  <2>5. CASE CloseReturns(t)
    <3>1. UNCHANGED <<closing, manifest>> /\ pc'[t] = "idle"
      BY <1>1, <2>5 DEF CloseReturns, TypeOK, storeVars
    <3> QED BY <2>1, <2>2, <3>1 DEF StreamInv
  <2> QED BY <1>6, <2>3, <2>4, <2>5
<1> QED BY <1>2, <1>3, <1>4, <1>5, <1>6 DEF TaskStep

\* So does a late put, and every step of the reader.
LEMMA StreamOthers ==
  ASSUME OrderInv, StreamInv,
         \/ \E r \in orphans : OrphanLands(r)
         \/ PollList \/ PollGet \/ PollReturns \/ PollFails
         \/ UNCHANGED vars
  PROVE  StreamInv'
<1>1. TypeOK /\ index \in Nat /\ MaxLines \in Nat
  BY OrderTypes DEF OrderInv
<1>2. ASSUME NEW r \in orphans, OrphanLands(r) PROVE StreamInv'
  <2>1. r \in Known /\ r.index \in 1..MaxLines /\ 1 <= r.lo
    <3>1. r \in Known
      BY DEF Known
    <3> QED BY <1>1, <3>1, KnownTypes DEF OrderInv, KnownInv
  <2>2. chunk' = [chunk EXCEPT ![r.index] = Body(r)] /\ Body(r) # Absent
    BY <1>2, <2>1, KnownTypes, <1>1 DEF OrphanLands, Body, Absent
  <2>3. \A i \in 1..MaxLines : chunk[i] # Absent => chunk'[i] # Absent
    BY <1>1, <2>1, <2>2 DEF TypeOK
  <2>4. UNCHANGED <<emitted, shipped, index, closing, pc, manifest, total, present>>
    BY <1>2 DEF OrphanLands, shipperVars, readerVars
  <2>5. \A t \in Task : pc[t] = "landed" => index + 1 \in 1..MaxLines
    <3>1. \A t \in Task : Putting(t) => req[t].index = index + 1 /\ req[t] \in Known
      BY OpenPut DEF Known
    <3> QED BY <1>1, <3>1, KnownTypes DEF Putting
  <2>6. index <= MaxLines
    BY <1>1, OrderTypes
  <2> QED BY <1>1, <2>3, <2>4, <2>5, <2>6 DEF StreamInv
<1>3. CASE PollList
  <2>1. UNCHANGED <<emitted, shipped, index, closing, pc, chunk, manifest>>
    BY <1>3 DEF PollList, shipperVars, storeVars
  <2>2. present' = {i \in 1..MaxLines : chunk[i] # Absent}
        /\ total' = IF total = None THEN manifest ELSE total
    BY <1>3 DEF PollList
  <2>3. \A i \in present' : \A j \in 1..i : j \in present'
    BY <1>1, <2>2, NoGap
  <2> QED BY <2>1, <2>2, <2>3 DEF StreamInv
<1>4. CASE PollGet \/ PollReturns \/ PollFails \/ UNCHANGED vars
  <2>1. UNCHANGED <<emitted, shipped, index, closing, pc, chunk, manifest, total, present>>
    BY <1>4 DEF PollGet, PollReturns, PollFails, vars, shipperVars, storeVars, readerVars
  <2> QED BY <2>1 DEF StreamInv
<1> QED BY <1>2, <1>3, <1>4

\* Every step keeps what the interface rests on.
LEMMA NextStream ==
  ASSUME OrderInv, StreamInv, [Next]_<<uncertain, vars>>
  PROVE  StreamInv'
<1>1. ASSUME NEW t \in Worker, EmitLine(t) \/ ResultFails(t) \/ Close(t) PROVE StreamInv'
  BY <1>1, StreamShipper DEF Task
<1>2. ASSUME NEW t \in Beat, TickFlush(t) \/ TickHeartbeat(t) \/ Cancel(t) PROVE StreamInv'
  BY <1>2, StreamShipper DEF Task
<1>3. ASSUME NEW t \in Task, TaskStep(t) \/ PutFails(t) \/ ManifestFails(t) PROVE StreamInv'
  BY <1>3, StreamShipper
<1> QED BY <1>1, <1>2, <1>3, StreamOthers DEF Next


-----------------------------------------------------------------------------
\* A chunk that lands is a Put where there was none, and nothing new where there was one.
LEMMA LandingIsPut ==
  ASSUME OrderInv, StreamInv, NEW r \in Known,
         chunk' = [chunk EXCEPT ![r.index] = Body(r)],
         UNCHANGED <<manifest, readerVars>>
  PROVE  [Stream!Next]_(Stream!streamVars)
<1> DEFINE k == r.index
<1>1. TypeOK /\ index \in Nat /\ MaxLines \in Nat /\ seen \in Nat /\ seen <= MaxLines
  BY OrderTypes DEF OrderInv
<1>2. k \in 1..MaxLines /\ k \in 1..(index + 1) /\ Body(r) # Absent
  BY <1>1, KnownTypes DEF OrderInv, KnownInv, Body, Absent
<1>3. /\ chunk'[k] # Absent
      /\ \A i \in 1..MaxLines : i # k => chunk'[i] = chunk[i]
  BY <1>1, <1>2 DEF TypeOK
<1>4. UNCHANGED <<rpc, seen, total, present>> /\ \A i : TakenUp(i)' <=> TakenUp(i)
  BY DEF readerVars, TakenUp
<1>5. CASE chunk[k] # Absent
  <2>1. \A i \in 1..MaxLines : (chunk'[i] # Absent) <=> (chunk[i] # Absent)
    BY <1>3, <1>5
  <2>2. Unread' <=> Unread
    BY <1>4, <2>1 DEF Unread
  <2>3. Unread' = Unread
    BY <2>2, Zenon DEF Unread
  <2> QED BY <1>4, <2>3 DEF Stream!streamVars
<1>6. CASE chunk[k] = Absent
  <2>1. k = index + 1 /\ manifest = None
    <3>1. k > index
      BY <1>1, <1>2, <1>6 DEF StreamInv
    <3> QED BY <3>1, OpenEnd
  <2>2. ~TakenUp(k)
    <3>1. k \notin present
      BY <1>6 DEF OrderInv, GotInv
    <3>2. ASSUME k <= seen PROVE FALSE
      <4>1. seen \in 1..MaxLines /\ chunk[seen] # Absent
        BY <1>1, <1>2, <3>2 DEF OrderInv, GotInv
      <4> QED BY <1>2, <1>6, <3>2, <4>1, NoGap
    <3> QED BY <3>1, <3>2 DEF TakenUp
  <2>3. Unread'
    BY <1>2, <1>3, <1>4, <2>2 DEF Unread
  <2>4. Unread' = TRUE
    BY <2>3, Zenon DEF Unread
  <2> QED BY <1>4, <2>1, <2>4 DEF Stream!Next, Stream!Put
<1> QED BY <1>5, <1>6

\* A step of the reader takes up exactly what its listing shows.
LEMMA ReadingIsPoll ==
  ASSUME OrderInv, StreamInv, PollList \/ PollGet \/ PollReturns \/ PollFails
  PROVE  [Stream!Next]_(Stream!streamVars)
<1>1. TypeOK /\ seen \in Nat /\ MaxLines \in Nat
  BY OrderTypes DEF OrderInv
<1>2. UNCHANGED <<chunk, manifest>>
  BY DEF PollList, PollGet, PollReturns, PollFails, storeVars
<1>3. CASE PollList
  <2>1. ~Unread'
    BY <1>2, <1>3 DEF PollList, Unread, TakenUp
  <2>2. Unread' = FALSE
    BY <2>1, Zenon DEF Unread
  <2>3. (total' # None) <=> (total # None \/ manifest # None)
    BY <1>3 DEF PollList
  <2>4. (total' # None) = (total # None \/ manifest # None)
    BY <2>3, Zenon
  <2> QED BY <1>2, <2>2, <2>4 DEF Stream!Next, Stream!Poll
<1>4. CASE PollGet \/ PollReturns \/ PollFails
  <2>1. \A i \in 1..MaxLines : TakenUp(i)' <=> TakenUp(i)
    <3>1. CASE PollGet
      BY <1>1, <3>1 DEF PollGet, NextChunk, TakenUp
    <3>2. CASE PollReturns
      <4>1. \A i \in 1..MaxLines : i > seen => i \notin present
        <5>1. ASSUME NEW i \in 1..MaxLines, i > seen, i \in present PROVE FALSE
          <6>1. seen + 1 \in 1..i
            BY <1>1, <5>1
          <6>2. seen + 1 \in present
            BY <5>1, <6>1 DEF StreamInv
          <6> QED BY <3>2, <6>2 DEF PollReturns, NextChunk
        <5> QED BY <5>1
      <4> QED BY <1>1, <3>2, <4>1 DEF PollReturns, TakenUp
    <3>3. CASE PollFails
      BY <3>3 DEF PollFails, TakenUp
    <3> QED BY <1>4, <3>1, <3>2, <3>3
  <2>2. Unread' <=> Unread
    BY <1>2, <2>1 DEF Unread
  <2>3. Unread' = Unread
    BY <2>2, Zenon DEF Unread
  <2>4. total' = total
    BY <1>4 DEF PollGet, PollReturns, PollFails
  <2> QED BY <1>2, <2>3, <2>4 DEF Stream!streamVars
<1> QED BY <1>3, <1>4

\* The manifest is the seal; every other step of the shipper is none of the reader's.
LEMMA ShippingIsStep ==
  ASSUME OrderInv, StreamInv, NEW t \in Task,
         \/ EmitLine(t) \/ Close(t) \/ TickFlush(t) \/ TickHeartbeat(t) \/ Cancel(t)
         \/ TaskStep(t) \/ PutFails(t) \/ ManifestFails(t) \/ ResultFails(t)
  PROVE  [Stream!Next]_(Stream!streamVars)
<1>1. CASE PutLands(t)
  <2>1. req[t] \in Known
    BY <1>1 DEF PutLands, Known, Putting
  <2> QED BY <1>1, <2>1, LandingIsPut DEF PutLands
<1>2. CASE ~PutLands(t)
  <2>1. UNCHANGED <<chunk, readerVars>>
    BY <1>2 DEF EmitLine, Close, TickFlush, TickHeartbeat, Cancel, TaskStep, Acquire,
         FlushReturns, CloseLoop, ManifestLands, CloseReturns, PutFails, ManifestFails,
         ResultFails, storeVars
  <2>2. Unread' = Unread /\ total' = total
    BY <2>1 DEF Unread, TakenUp, readerVars
  <2>3. CASE ManifestLands(t)
    <3>1. manifest' = index /\ index # None
      BY <2>3, OrderTypes, TelemetryAssumption DEF ManifestLands, OrderInv
    <3>2. (manifest' # None) = TRUE
      BY <3>1
    <3>3. CASE manifest = None
      BY <2>2, <3>2, <3>3 DEF Stream!Next, Stream!Seal
    <3>4. CASE manifest # None
      <4>1. (manifest # None) = TRUE
        BY <3>4
      <4> QED BY <2>2, <3>2, <4>1 DEF Stream!streamVars
    <3> QED BY <3>3, <3>4
  <2>4. CASE ~ManifestLands(t)
    <3>1. manifest' = manifest
      BY <1>2, <2>4 DEF EmitLine, Close, TickFlush, TickHeartbeat, Cancel, TaskStep, Acquire,
           FlushReturns, CloseLoop, CloseReturns, PutFails, ManifestFails,
         ResultFails, storeVars
    <3> QED BY <2>2, <3>1 DEF Stream!streamVars
  <2> QED BY <2>3, <2>4
<1> QED BY <1>1, <1>2

\* Every step of the specification is a step of the stream, or none.
LEMMA NextIsStep ==
  ASSUME OrderInv, StreamInv, [Next]_<<uncertain, vars>>
  PROVE  [Stream!Next]_(Stream!streamVars)
<1>1. ASSUME NEW t \in Task,
             \/ EmitLine(t) \/ Close(t) \/ TickFlush(t) \/ TickHeartbeat(t) \/ Cancel(t)
             \/ TaskStep(t) \/ PutFails(t) \/ ManifestFails(t) \/ ResultFails(t)
      PROVE  [Stream!Next]_(Stream!streamVars)
  BY <1>1, ShippingIsStep
<1>2. ASSUME NEW r \in orphans, OrphanLands(r) PROVE [Stream!Next]_(Stream!streamVars)
  <2>1. r \in Known
    BY DEF Known
  <2> QED BY <1>2, <2>1, LandingIsPut DEF OrphanLands
<1>3. CASE PollList \/ PollGet \/ PollReturns \/ PollFails
  BY <1>3, ReadingIsPoll
<1>4. CASE UNCHANGED vars
  BY <1>4 DEF vars, storeVars, readerVars, Unread, TakenUp, Stream!streamVars
<1> QED BY <1>1, <1>2, <1>3, <1>4 DEF Next, Task

\* What the interface rests on holds over every store.
LEMMA StreamInvariance == Spec => []StreamInv
<1>1. Init => StreamInv
  BY TelemetryAssumption DEF Init, StreamInv
<1> QED BY <1>1, NextStream, OrderInvariance, PTL DEF Spec

\* Shipper, store and reader of telemetry.py take the steps that drive_node's model
\* assumes of them, even where failed puts take effect: what lands between a poll's
\* listing and its gets is left for the next poll, and the manifest is last.
THEOREM ImplementsStream == Spec => Stream!Spec
<1>1. Init => Stream!Init
  <2>1. Init => ~Unread
    BY DEF Init, Unread
  <2>2. Init => Unread = FALSE
    BY <2>1, Zenon DEF Unread
  <2> QED BY <2>2 DEF Init, Stream!Init
<1> QED BY <1>1, NextIsStep, OrderInvariance, StreamInvariance, PTL DEF Spec, Stream!Spec

\* Between two polls ChunkReader.finished, which compares counts, says what the
\* driver's model says of it: the manifest was listed and no chunk is left.
THEOREM FinishedAgrees == Spec => [](rpc = "idle" => (Finished <=> Stream!Finished))
<1>1. ASSUME OrderInv, StreamInv, rpc = "idle" PROVE Finished <=> Stream!Finished
  <2>1. TypeOK /\ index \in Nat /\ MaxLines \in Nat /\ seen \in Nat /\ index <= MaxLines
    BY <1>1, OrderTypes DEF OrderInv
  <2>2. CASE total = None
    BY <2>2 DEF Finished, Stream!Finished
  <2>3. CASE total # None
    <3>1. total = index /\ closing
      <4>1. manifest = total /\ manifest # None
        BY <1>1, <2>3 DEF StreamInv
      <4> QED BY <1>1, <4>1 DEF StreamInv
    <3>2. Unread <=> seen < index
      <4>1. ASSUME NEW i \in 1..MaxLines, chunk[i] # Absent PROVE i <= index
        BY <1>1, <2>1, <3>1, <4>1, NoGap
      <4>2. ASSUME seen < index PROVE index \in 1..MaxLines /\ chunk[index] # Absent
        BY <1>1, <2>1, <4>2 DEF StreamInv
      <4> QED BY <1>1, <2>1, <4>1, <4>2 DEF Unread, TakenUp
    <3> QED BY <2>1, <2>3, <3>1, <3>2 DEF Finished, Stream!Finished
  <2> QED BY <2>2, <2>3
<1> QED BY <1>1, OrderInvariance, StreamInvariance, PTL
=============================================================================
