------------------------- MODULE Consumption_proofs -------------------------
(* What requests consume, for every instance: how the batch updater counts  *)
(* it, and what the MCP tool loop charges for it.                            *)
EXTENDS BatchUpdater, McpToolLoop, SequenceTheorems, FiniteSetTheorems, TLAPS

\* Accounting alone is not inductive: that nothing is left in the swapped map
\* when its last key is written is what TodoCoversBatch adds.
IInv == TypeOK /\ TodoCoversBatch /\ Accounting

LEMMA PlusType ==
  ASSUME NEW f \in [Types -> [Ids -> Int]], NEW t \in Types, NEW i \in Ids,
         NEW v \in Int
  PROVE  Plus(f, t, i, v) \in [Types -> [Ids -> Int]]
<1>1. f[t] \in [Ids -> Int] /\ f[t][i] + v \in Int
  OBVIOUS
<1>2. [f[t] EXCEPT ![i] = f[t][i] + v] \in [Ids -> Int]
  BY <1>1
<1> QED
  BY <1>1, <1>2 DEF Plus

LEMMA PlusValue ==
  ASSUME NEW f \in [Types -> [Ids -> Int]], NEW t \in Types, NEW i \in Ids,
         NEW v \in Int, NEW tt \in Types, NEW ii \in Ids
  PROVE  Plus(f, t, i, v)[tt][ii] =
           IF tt = t /\ ii = i THEN f[tt][ii] + v ELSE f[tt][ii]
<1>1. f[t] \in [Ids -> Int] /\ f[tt] \in [Ids -> Int]
  OBVIOUS
<1> QED
  BY <1>1 DEF Plus

LEMMA ZerosType ==
  /\ Zeros \in [Ids -> Int] /\ \A i \in Ids : Zeros[i] = 0
  /\ AllZeros \in [Types -> [Ids -> Int]]
  BY DEF Zeros, AllZeros

LEMMA InitIInv == Init => IInv
<1> SUFFICES ASSUME Init PROVE IInv
  OBVIOUS
<1>1. TypeOK
  <2>1. /\ wpc \in [Workers -> {"idle", "handler", "task", "done"}]
        /\ count \in [Workers -> 0 .. MaxRecords]
        /\ utype \in 0 .. BatchUpdateTypeCount
    BY BatchAssumption DEF Init
  <2> QED
    BY <2>1, ZerosType DEF Init, TypeOK
<1>2. TodoCoversBatch
  BY DEF Init, TodoCoversBatch
<1>3. Accounting
  BY DEF Init, Accounting, InFlight, AllZeros, Zeros
<1> QED
  BY <1>1, <1>2, <1>3 DEF IInv

\* A worker's steps: only AddNewRecord changes a quantity.
LEMMA WorkerIInv ==
  ASSUME IInv, NEW w \in Workers
  PROVE  /\ Accept(w) \/ Work(w) => IInv'
         /\ \A t \in Types, i \in Ids, v \in Amounts :
              AddNewRecord(w, t, i, v) => IInv'
<1>1. ASSUME Accept(w) \/ Work(w) PROVE IInv'
  <2>1. wpc' \in [Workers -> {"idle", "handler", "task", "done"}]
    BY <1>1 DEF IInv, TypeOK, Accept, Work, HandlerReturns, TaskEnds
  <2>2. UNCHANGED <<store, db, updater, main, count, recorded, late, lost>>
    BY <1>1 DEF Accept, Work, HandlerReturns, TaskEnds
  <2> QED
    BY <2>1, <2>2 DEF IInv, TypeOK, TodoCoversBatch, Accounting, InFlight,
       updater, main
<1>2. ASSUME NEW t \in Types, NEW i \in Ids, NEW v \in Amounts,
             AddNewRecord(w, t, i, v)
      PROVE  IInv'
  <2>0. v \in Int
    BY BatchAssumption
  <2>1. UNCHANGED <<db, updater, main, wpc, lost>>
    BY <1>2 DEF AddNewRecord
  <2>2. /\ store' \in [Types -> [Ids -> Int]]
        /\ recorded' \in [Types -> [Ids -> Int]]
        /\ late' \in [Types -> [Ids -> Int]]
    BY <1>2, <2>0, PlusType DEF AddNewRecord, IInv, TypeOK
  <2>3. count' \in [Workers -> 0 .. MaxRecords]
    BY <1>2, BatchAssumption DEF AddNewRecord, IInv, TypeOK
  <2>4. TypeOK'
    BY <2>1, <2>2, <2>3 DEF IInv, TypeOK, updater, main
  <2>5. TodoCoversBatch'
    BY <2>1 DEF IInv, TodoCoversBatch, updater
  <2>6. Accounting'
    <3> SUFFICES ASSUME NEW tt \in Types, NEW ii \in Ids
                 PROVE  recorded'[tt][ii] = db[tt][ii] + store'[tt][ii]
                                            + InFlight(tt)[ii] + lost[tt][ii]
      BY <2>1 DEF Accounting, InFlight, updater
    <3>0. /\ recorded' = Plus(recorded, t, i, v) /\ store' = Plus(store, t, i, v)
          /\ recorded \in [Types -> [Ids -> Int]] /\ store \in [Types -> [Ids -> Int]]
      BY <1>2 DEF AddNewRecord, IInv, TypeOK
    <3>1. /\ recorded'[tt][ii] = IF tt = t /\ ii = i THEN recorded[tt][ii] + v
                                                     ELSE recorded[tt][ii]
          /\ store'[tt][ii] = IF tt = t /\ ii = i THEN store[tt][ii] + v
                                                  ELSE store[tt][ii]
      <4>1. Plus(recorded, t, i, v)[tt][ii] =
              IF tt = t /\ ii = i THEN recorded[tt][ii] + v ELSE recorded[tt][ii]
        <5>1. recorded \in [Types -> [Ids -> Int]]
          BY <3>0
        <5> QED
          BY <2>0, <5>1, PlusValue
      <4>2. Plus(store, t, i, v)[tt][ii] =
              IF tt = t /\ ii = i THEN store[tt][ii] + v ELSE store[tt][ii]
        BY <2>0, <3>0, PlusValue
      <4> QED
        BY <3>0, <4>1, <4>2
    <3>2. /\ recorded[tt][ii] = db[tt][ii] + store[tt][ii] + InFlight(tt)[ii]
                                + lost[tt][ii]
          /\ db[tt][ii] \in Int /\ store[tt][ii] \in Int /\ lost[tt][ii] \in Int
          /\ InFlight(tt)[ii] \in Int
      BY ZerosType DEF IInv, Accounting, TypeOK, InFlight
    <3> QED
      BY <3>1, <3>2, <2>0
  <2> QED
    BY <2>4, <2>5, <2>6 DEF IInv
<1> QED
  BY <1>1, <1>2

\* The updater's steps move amounts from the store to the map and from the map
\* to the database or to the losses.
LEMMA SwapIInv == ASSUME IInv, Swap PROVE IInv'
<1> USE DEF IInv
<1>1. CASE utype \in Types /\ upc' = "write" /\ batch' = store[utype]
           /\ store' = Emptied /\ todo' = {i \in Ids : store[utype][i] # 0}
           /\ late' = [late EXCEPT ![utype] = Zeros]
  <2>1. /\ store' \in [Types -> [Ids -> Int]] /\ batch' \in [Ids -> Int]
        /\ \A t \in Types : store'[t] = IF t = utype THEN Zeros ELSE store[t]
        /\ late' \in [Types -> [Ids -> Int]]
    BY <1>1, ZerosType DEF TypeOK, Emptied
  <2>2. UNCHANGED <<db, utype, final, main, workers, recorded, lost>>
    BY DEF Swap
  <2>3. TypeOK'
    BY <1>1, <2>1, <2>2 DEF TypeOK, main, workers
  <2>4. TodoCoversBatch'
    BY <1>1 DEF TodoCoversBatch
  <2>5. Accounting'
    <3> SUFFICES ASSUME NEW t \in Types, NEW i \in Ids
                 PROVE  recorded[t][i] = db[t][i] + store'[t][i]
                                         + InFlight(t)'[i] + lost[t][i]
      BY <2>2 DEF Accounting
    <3>1. InFlight(t) = Zeros
      BY DEF Swap, InFlight
    <3>2. InFlight(t)' = IF utype = t THEN store[utype] ELSE Zeros
      BY <1>1, <2>2 DEF InFlight
    <3>3. /\ recorded[t][i] = db[t][i] + store[t][i] + Zeros[i] + lost[t][i]
          /\ db[t][i] \in Int /\ store[t][i] \in Int /\ lost[t][i] \in Int
      BY <3>1 DEF Accounting, TypeOK
    <3> QED
      BY <2>1, <3>2, <3>3, ZerosType
  <2> QED
    BY <2>3, <2>4, <2>5
<1>2. CASE FlushEnds /\ UNCHANGED <<store, late, batch, todo>>
  <2>1. UNCHANGED <<db, utype, final, main, workers, recorded, lost>>
    BY DEF Swap
  <2>2. upc = "swap" /\ upc' \in {"exited", "select"}
    BY <1>2 DEF Swap, FlushEnds
  <2> QED
    BY <1>2, <2>1, <2>2 DEF TypeOK, TodoCoversBatch, Accounting, InFlight, main, workers
<1> QED
  BY <1>1, <1>2 DEF Swap

LEMMA WriteIInv == ASSUME IInv, Write PROVE IInv'
<1> USE DEF IInv
<1>0. /\ upc = "write" /\ utype \in Types /\ utype \in 0 .. BatchUpdateTypeCount
      /\ UNCHANGED <<store, final, main, workers, recorded, late>>
  BY DEF Write, TypeOK
<1>a. \A t \in Types : InFlight(t) = IF t = utype THEN batch ELSE Zeros
  BY <1>0 DEF InFlight
<1>1. ASSUME NEW i \in todo, WriteEntry(i) \/ DropEntry(i), UNCHANGED <<upc, utype>>
      PROVE  IInv'
  <2>0. i \in Ids /\ batch[i] \in Int
    BY DEF TypeOK
  <2>1. /\ batch' \in [Ids -> Int]
        /\ \A ii \in Ids : batch'[ii] = IF ii = i THEN 0 ELSE batch[ii]
        /\ todo' = todo \ {i}
    BY <1>1, <2>0 DEF TypeOK, WriteEntry, DropEntry
  <2>2. /\ db' \in [Types -> [Ids -> Int]] /\ lost' \in [Types -> [Ids -> Int]]
        /\ \A t \in Types, ii \in Ids :
             db'[t][ii] + lost'[t][ii] =
               IF t = utype /\ ii = i THEN db[t][ii] + lost[t][ii] + batch[i]
                                      ELSE db[t][ii] + lost[t][ii]
    <3>1. CASE WriteEntry(i)
      <4>1. /\ db' = Plus(db, utype, i, batch[i]) /\ lost' = lost
            /\ db \in [Types -> [Ids -> Int]] /\ lost \in [Types -> [Ids -> Int]]
        BY <3>1 DEF WriteEntry, TypeOK
      <4>2. db' \in [Types -> [Ids -> Int]]
        BY <1>0, <2>0, <4>1, PlusType
      <4>3. \A t \in Types, ii \in Ids :
              db'[t][ii] = IF t = utype /\ ii = i THEN db[t][ii] + batch[i]
                                                  ELSE db[t][ii]
        BY <1>0, <2>0, <4>1, PlusValue
      <4> QED
        BY <2>0, <4>1, <4>2, <4>3
    <3>2. CASE DropEntry(i)
      <4>1. /\ lost' = Plus(lost, utype, i, batch[i]) /\ db' = db
            /\ db \in [Types -> [Ids -> Int]] /\ lost \in [Types -> [Ids -> Int]]
        BY <3>2 DEF DropEntry, TypeOK
      <4>2. lost' \in [Types -> [Ids -> Int]]
        BY <1>0, <2>0, <4>1, PlusType
      <4>3. \A t \in Types, ii \in Ids :
              lost'[t][ii] = IF t = utype /\ ii = i THEN lost[t][ii] + batch[i]
                                                  ELSE lost[t][ii]
        BY <1>0, <2>0, <4>1, PlusValue
      <4> QED
        BY <2>0, <4>1, <4>2, <4>3
    <3> QED
      BY <1>1, <3>1, <3>2
  <2>3. TypeOK'
    BY <1>0, <1>1, <2>1, <2>2 DEF TypeOK, main, workers
  <2>4. TodoCoversBatch'
    BY <1>0, <1>1, <2>1 DEF TodoCoversBatch
  <2>5. Accounting'
    <3> SUFFICES ASSUME NEW t \in Types, NEW ii \in Ids
                 PROVE  recorded[t][ii] = db'[t][ii] + store[t][ii]
                                          + InFlight(t)'[ii] + lost'[t][ii]
      BY <1>0 DEF Accounting
    <3>1. InFlight(t)'[ii] = IF t = utype THEN batch'[ii] ELSE Zeros[ii]
      BY <1>0, <1>1 DEF InFlight
    <3>2. recorded[t][ii] = db[t][ii] + store[t][ii]
                            + (IF t = utype THEN batch[ii] ELSE Zeros[ii]) + lost[t][ii]
      BY <1>a DEF Accounting
    <3>3. /\ db[t][ii] \in Int /\ store[t][ii] \in Int /\ lost[t][ii] \in Int
          /\ db'[t][ii] \in Int /\ lost'[t][ii] \in Int
          /\ batch[ii] \in Int /\ batch'[ii] \in Int /\ Zeros[ii] = 0
      BY <2>1, <2>2, ZerosType DEF TypeOK
    <3>4. db'[t][ii] + lost'[t][ii] =
            IF t = utype /\ ii = i THEN db[t][ii] + lost[t][ii] + batch[i]
                                   ELSE db[t][ii] + lost[t][ii]
      BY <2>2
    <3>5. batch'[ii] = IF ii = i THEN 0 ELSE batch[ii]
      BY <2>1
    <3> HIDE DEF IInv
    <3> QED
      BY <2>0, <3>1, <3>2, <3>3, <3>4, <3>5
  <2> QED
    BY <2>3, <2>4, <2>5
<1>2. ASSUME lost' = [lost EXCEPT ![utype] = [i \in Ids |-> @[i] + batch[i]]],
             batch' = Zeros, todo' = {}, FlushEnds, UNCHANGED <<db, utype>>
      PROVE  IInv'
  <2>1. /\ lost' \in [Types -> [Ids -> Int]]
        /\ \A t \in Types, i \in Ids :
             lost'[t][i] = IF t = utype THEN lost[t][i] + batch[i] ELSE lost[t][i]
    BY <1>0, <1>2 DEF TypeOK
  <2>2. upc' \in {"exited", "select"}
    BY <1>2 DEF FlushEnds
  <2>3. TypeOK'
    BY <1>0, <1>2, <2>1, <2>2, ZerosType DEF TypeOK, main, workers
  <2>4. TodoCoversBatch'
    BY <2>2 DEF TodoCoversBatch
  <2>5. Accounting'
    <3> SUFFICES ASSUME NEW t \in Types, NEW i \in Ids
                 PROVE  recorded[t][i] = db[t][i] + store[t][i]
                                         + Zeros[i] + lost'[t][i]
      BY <1>0, <1>2, <2>2 DEF Accounting, InFlight
    <3>2. recorded[t][i] = db[t][i] + store[t][i]
                           + (IF t = utype THEN batch[i] ELSE Zeros[i]) + lost[t][i]
      BY <1>a DEF Accounting
    <3>3. /\ db[t][i] \in Int /\ store[t][i] \in Int /\ lost[t][i] \in Int
          /\ batch[i] \in Int /\ Zeros[i] = 0
      BY ZerosType DEF TypeOK
    <3> QED
      BY <2>1, <3>2, <3>3
  <2> QED
    BY <2>3, <2>4, <2>5
<1>3. ASSUME todo = {}, upc' = "swap", utype' = utype + 1,
             UNCHANGED <<db, lost, batch, todo>>
      PROVE  IInv'
  <2>1. utype' \in 0 .. BatchUpdateTypeCount
    BY <1>0, <1>3, BatchAssumption DEF Types
  <2>2. TypeOK'
    BY <1>0, <1>3, <2>1 DEF TypeOK, main, workers
  <2>3. TodoCoversBatch'
    BY <1>3 DEF TodoCoversBatch
  <2>4. Accounting'
    <3> SUFFICES ASSUME NEW t \in Types, NEW i \in Ids
                 PROVE  recorded[t][i] = db[t][i] + store[t][i] + Zeros[i] + lost[t][i]
      BY <1>0, <1>3 DEF Accounting, InFlight
    <3>1. batch[i] = Zeros[i]
      BY <1>0, <1>3, ZerosType DEF TodoCoversBatch
    <3> QED
      BY <1>a, <3>1 DEF Accounting
  <2> QED
    BY <2>2, <2>3, <2>4
<1> QED
  BY <1>1, <1>2, <1>3 DEF Write

\* Ticks, the stop signal and the steps of the shutdown change no quantity.
LEMMA ControlIInv ==
  ASSUME IInv,
         Tick \/ StopSignal \/ Signal \/ Expire \/ Stop \/ UNCHANGED vars
  PROVE  IInv'
<1> USE DEF IInv
<1>1. CASE Tick \/ StopSignal
  <2>1. upc = "select" /\ upc' = "swap" /\ utype' = 0 /\ final' \in BOOLEAN
        /\ UNCHANGED <<store, db, batch, todo, main, workers, recorded, late, lost>>
    BY <1>1 DEF Tick, StopSignal, TypeOK
  <2>2. TypeOK'
    BY <2>1, BatchAssumption DEF TypeOK, main, workers
  <2> QED
    BY <2>1, <2>2 DEF TodoCoversBatch, Accounting, InFlight
<1>2. CASE Signal \/ Expire \/ Stop
  <2>1. UNCHANGED <<store, db, updater, workers, recorded, late, lost, faults>>
    BY <1>2 DEF Signal, Expire, Stop, StopBatchUpdater, FinalFlush, CloseDB
  <2>2. /\ stop' \in BOOLEAN /\ flusher' \in {"none", "start", "wait", "done"}
        /\ phase' \in {"serving", "draining", "waiting", "closed"}
        /\ expired' \in BOOLEAN
    BY <1>2 DEF Signal, Expire, Stop, StopBatchUpdater, FinalFlush, CloseDB, TypeOK
  <2>3. TypeOK'
    BY <2>1, <2>2 DEF TypeOK, updater, workers
  <2> QED
    BY <2>1, <2>3 DEF TodoCoversBatch, Accounting, InFlight, updater
<1>3. CASE UNCHANGED vars
  BY <1>3 DEF vars, TypeOK, TodoCoversBatch, Accounting, InFlight, updater, main,
     workers
<1> QED
  BY <1>1, <1>2, <1>3

LEMMA NextIInv == IInv /\ [Next]_vars => IInv'
  BY WorkerIInv, SwapIInv, WriteIInv, ControlIInv DEF Next, Update, Exited

\* Whatever the workers, types and ids, every recorded change is at every moment
\* in exactly one place: its store, the map being written, the database, or the
\* losses that batchUpdate has logged.
THEOREM AccountingTheorem == Spec => []Accounting
<1>1. IInv => Accounting
  BY DEF IInv
<1> QED
  BY <1>1, InitIInv, NextIInv, PTL DEF Spec

-----------------------------------------------------------------------------
(* The final flush. *)

\* The stores that the flush in progress has been through.
Flushed(t) == upc = "exited" \/ t < utype \/ (t = utype /\ upc = "write")

\* A final flush is started by the stop signal and never gives up without a
\* fault, so that each store it has passed holds late records only.
FlushInv ==
  /\ final => stop /\ upc # "select"
  /\ upc = "exited" => final
  /\ final /\ ~faults =>
       \A t \in Types, i \in Ids : Flushed(t) => store[t][i] = late[t][i]

LEMMA InitFlushInv == Init => FlushInv
  BY DEF Init, FlushInv

LEMMA RecordFlushInv ==
  ASSUME IInv, FlushInv, NEW w \in Workers, NEW t \in Types, NEW i \in Ids,
         NEW v \in Amounts, AddNewRecord(w, t, i, v)
  PROVE  FlushInv'
<1>1. UNCHANGED <<updater, main>>
  BY DEF AddNewRecord
<1>2. SUFFICES ASSUME final, ~faults, NEW tt \in Types, NEW ii \in Ids, Flushed(tt)
               PROVE  store'[tt][ii] = late'[tt][ii]
  BY <1>1 DEF FlushInv, Flushed, updater, main
<1>3. v \in Int
  BY BatchAssumption
<1>4. store' = Plus(store, t, i, v) /\ late' = Plus(late, t, i, v)
  BY <1>2 DEF AddNewRecord, FlushInv
<1>5. /\ store \in [Types -> [Ids -> Int]] /\ late \in [Types -> [Ids -> Int]]
      /\ store[tt][ii] = late[tt][ii]
  BY <1>2 DEF IInv, TypeOK, FlushInv
<1>6. Plus(store, t, i, v)[tt][ii] =
        IF tt = t /\ ii = i THEN store[tt][ii] + v ELSE store[tt][ii]
  BY <1>3, <1>5, PlusValue
<1>7. Plus(late, t, i, v)[tt][ii] =
        IF tt = t /\ ii = i THEN late[tt][ii] + v ELSE late[tt][ii]
  BY <1>3, <1>5, PlusValue
<1> QED
  BY <1>4, <1>5, <1>6, <1>7

LEMMA UpdateFlushInv ==
  ASSUME IInv, FlushInv, Tick \/ Update
  PROVE  FlushInv'
<1>0. TypeOK /\ utype \in Int /\ \A t \in Types : t \in Int /\ 0 <= t
  BY BatchAssumption DEF IInv, TypeOK, Types
<1>1. CASE Tick
  BY <1>1 DEF Tick, FlushInv, main
<1>2. CASE StopSignal
  BY <1>0, <1>2 DEF StopSignal, FlushInv, Flushed, main
<1>3. CASE Swap
  <2>1. CASE utype \in Types /\ upc' = "write" /\ store' = Emptied
             /\ late' = [late EXCEPT ![utype] = Zeros]
    <3>1. /\ \A t \in Types : store'[t] = IF t = utype THEN Zeros ELSE store[t]
          /\ \A t \in Types : late'[t] = IF t = utype THEN Zeros ELSE late[t]
      BY <1>0, <2>1 DEF TypeOK, Emptied
    <3>2. upc = "swap" /\ UNCHANGED <<utype, final, main>>
      BY <1>3 DEF Swap
    <3> QED
      BY <2>1, <3>1, <3>2 DEF FlushInv, Flushed, main
  <2>2. CASE (utype \notin Types \/ faults) /\ FlushEnds
             /\ UNCHANGED <<store, late>>
    <3>1. /\ upc = "swap" /\ UNCHANGED <<utype, final, main>>
          /\ upc' = IF final THEN "exited" ELSE "select"
      BY <1>3, <2>2 DEF Swap, FlushEnds
    <3>2. utype \notin Types => \A t \in Types : t < utype
      BY <1>0, BatchAssumption DEF TypeOK, Types
    <3> QED
      BY <2>2, <3>1, <3>2 DEF FlushInv, Flushed, main
  <2> QED
    BY <1>3, <2>1, <2>2 DEF Swap
<1>4. CASE Write
  <2>1. upc = "write" /\ UNCHANGED <<store, late, final, main>>
    BY <1>4 DEF Write
  <2>2. CASE UNCHANGED <<upc, utype>>
    BY <2>1, <2>2 DEF FlushInv, Flushed, main
  <2>3. CASE faults /\ FlushEnds
    BY <2>1, <2>3 DEF FlushInv, FlushEnds, main
  <2>4. CASE upc' = "swap" /\ utype' = utype + 1
    <3>1. \A t \in Types : Flushed(t)' => Flushed(t)
      BY <1>0, <2>1, <2>4 DEF Flushed
    <3> QED
      BY <2>1, <2>4, <3>1 DEF FlushInv, main
  <2> QED
    BY <1>4, <2>2, <2>3, <2>4 DEF Write
<1> QED
  BY <1>1, <1>2, <1>3, <1>4 DEF Update

LEMMA NextFlushInv == IInv /\ FlushInv /\ [Next]_vars => FlushInv'
<1> SUFFICES ASSUME IInv, FlushInv, [Next]_vars PROVE FlushInv'
  OBVIOUS
<1>1. ASSUME NEW w \in Workers, Accept(w) \/ Work(w) PROVE FlushInv'
  BY <1>1 DEF Accept, Work, HandlerReturns, TaskEnds, FlushInv, Flushed, updater, main
<1>2. CASE Signal \/ Expire \/ Stop
  BY <1>2 DEF Signal, Expire, Stop, StopBatchUpdater, FinalFlush, CloseDB,
     FlushInv, Flushed, updater
<1>3. CASE UNCHANGED vars
  BY <1>3 DEF vars, FlushInv, Flushed, updater, main
<1> QED
  BY <1>1, <1>2, <1>3, RecordFlushInv, UpdateFlushInv DEF Next, Exited

\* Whatever is recorded while the process shuts down, a final flush without
\* failures leaves in the stores only what was added after the stop signal
\* (StopBatchUpdater, batchUpdate).
THEOREM FlushTheorem == Spec => []StopFlushesAll
<1>1. FlushInv => StopFlushesAll
  BY DEF FlushInv, Flushed, StopFlushesAll
<1> QED
  BY <1>1, InitIInv, NextIInv, InitFlushInv, NextFlushInv, PTL DEF Spec

-----------------------------------------------------------------------------
(* The updater implements DeferredLedger. *)

Sealed == [t \in Types |-> InFlight(t)]

LEMMA NothingSealed ==
  ASSUME upc # "write"
  PROVE  Sealed = Ledger!None
  BY DEF Sealed, InFlight, Ledger!None, Zeros

LEMMA RecordRefines ==
  ASSUME IInv, NEW w \in Workers, NEW t \in Types, NEW i \in Ids,
         NEW v \in Amounts, AddNewRecord(w, t, i, v)
  PROVE  Ledger!Next
<1>1. Ledger!Record(t, i, v)
  BY DEF AddNewRecord, Plus, Ledger!Record, InFlight, updater
<1>2. phase # "closed" /\ UNCHANGED <<phase, faults>>
  BY DEF AddNewRecord, Running, main
<1> QED
  BY <1>1, <1>2 DEF Ledger!Next, Ledger!Step

LEMMA SwapRefines ==
  ASSUME IInv, Swap
  PROVE  Ledger!Next \/ UNCHANGED Ledger!vars
<1>0. /\ phase # "closed" /\ upc = "swap"
      /\ UNCHANGED <<db, lost, utype, phase, faults>>
  BY DEF Swap, Running, main
<1>1. CASE utype \in Types /\ upc' = "write" /\ store' = Emptied
           /\ batch' = store[utype]
  <2>1. store \in [Types -> [Ids -> Int]] /\ Sealed = Ledger!None
    BY <1>0, NothingSealed DEF IInv, TypeOK
  <2>2. Sealed' = Ledger!Add(Sealed, utype, Ids, store)
    <3>1. Sealed' = [t \in Types |-> IF t = utype THEN store[utype] ELSE Zeros]
      BY <1>0, <1>1 DEF Sealed, InFlight
    <3>2. \A i \in Ids : Sealed[utype][i] = 0
      BY <1>1, <2>1 DEF Ledger!None
    <3>3. store[utype] = [i \in Ids |-> Sealed[utype][i] + store[utype][i]]
      BY <1>1, <2>1, <3>2
    <3>4. Sealed = [t \in Types |-> Zeros]
      BY <2>1 DEF Ledger!None, Zeros
    <3>5. Ledger!Add(Sealed, utype, Ids, store)
            = [Sealed EXCEPT ![utype] = [i \in Ids |-> Sealed[utype][i] + store[utype][i]]]
      BY DEF Ledger!Add
    <3> QED
      BY <1>1, <3>1, <3>3, <3>4, <3>5
  <2>3. store' = Ledger!Clear(store, utype, Ids)
    BY <1>1, <2>1 DEF Emptied, Zeros, Ledger!Clear
  <2>4. Ledger!Seal(utype)
    BY <1>0, <2>1, <2>2, <2>3 DEF Ledger!Seal, Sealed
  <2> QED
    BY <1>0, <1>1, <2>4 DEF Ledger!Next, Ledger!Step
<1>2. CASE FlushEnds /\ UNCHANGED <<store, batch>>
  <2>1. upc' # "write"
    BY <1>2 DEF FlushEnds
  <2>2. Sealed' = Sealed
    BY <1>0, <2>1 DEF Sealed, InFlight
  <2> QED
    BY <1>0, <1>2, <2>2 DEF Ledger!vars, Sealed
<1> QED
  BY <1>1, <1>2 DEF Swap

LEMMA WriteRefines ==
  ASSUME IInv, Write
  PROVE  Ledger!Next \/ UNCHANGED Ledger!vars
<1>0. /\ phase # "closed" /\ upc = "write" /\ utype \in Types
      /\ UNCHANGED <<store, phase, faults>>
      /\ batch \in [Ids -> Int] /\ todo \subseteq Ids
      /\ db \in [Types -> [Ids -> Int]] /\ lost \in [Types -> [Ids -> Int]]
  BY DEF Write, Running, main, IInv, TypeOK
<1>1. Sealed = [t \in Types |-> IF t = utype THEN batch ELSE Zeros]
  BY <1>0 DEF Sealed, InFlight
<1>2. ASSUME NEW i \in todo, WriteEntry(i) \/ DropEntry(i), UNCHANGED <<upc, utype>>
      PROVE  Ledger!Next
  <2>1. Sealed' = Ledger!Clear(Sealed, utype, {i})
    <3>1. Sealed' = [t \in Types |-> IF t = utype THEN batch' ELSE Zeros]
      BY <1>0, <1>2 DEF Sealed, InFlight
    <3>2. batch' = [ii \in Ids |-> IF ii \in {i} THEN 0 ELSE batch[ii]]
      BY <1>0, <1>2 DEF WriteEntry, DropEntry
    <3>3. Ledger!Clear(Sealed, utype, {i})
            = [Sealed EXCEPT ![utype] =
                 [ii \in Ids |-> IF ii \in {i} THEN 0 ELSE Sealed[utype][ii]]]
      BY DEF Ledger!Clear
    <3>4. Sealed[utype] = batch
      BY <1>0, <1>1
    <3>5. PICK B : B = [ii \in Ids |-> IF ii \in {i} THEN 0 ELSE batch[ii]]
      OBVIOUS
    <3>6. Sealed' = [t \in Types |-> IF t = utype THEN B ELSE Zeros]
      BY <3>1, <3>2, <3>5
    <3>7. Ledger!Clear(Sealed, utype, {i}) = [Sealed EXCEPT ![utype] = B]
      BY <3>3, <3>4, <3>5
    <3> QED
      BY <1>0, <1>1, <3>6, <3>7
  <2>2. \A f \in [Types -> [Ids -> Int]] :
          Plus(f, utype, i, batch[i]) = Ledger!Add(f, utype, {i}, Sealed)
    <3> SUFFICES ASSUME NEW f \in [Types -> [Ids -> Int]]
                 PROVE  Plus(f, utype, i, batch[i]) = Ledger!Add(f, utype, {i}, Sealed)
      OBVIOUS
    <3>1. Sealed[utype] = batch /\ f[utype] \in [Ids -> Int]
      BY <1>0, <1>1
    <3>2. [f[utype] EXCEPT ![i] = f[utype][i] + batch[i]]
            = [ii \in Ids |-> IF ii \in {i} THEN f[utype][ii] + batch[ii] ELSE f[utype][ii]]
      BY <1>0, <3>1
    <3>3. Plus(f, utype, i, batch[i])
            = [f EXCEPT ![utype] = [f[utype] EXCEPT ![i] = f[utype][i] + batch[i]]]
      BY DEF Plus
    <3>4. Ledger!Add(f, utype, {i}, Sealed)
            = [f EXCEPT ![utype] = [ii \in Ids |-> IF ii \in {i}
                                      THEN f[utype][ii] + Sealed[utype][ii] ELSE f[utype][ii]]]
      BY DEF Ledger!Add
    <3> QED
      BY <3>1, <3>2, <3>3, <3>4
  <2>3. CASE WriteEntry(i)
    <3>1. db' = Ledger!Add(db, utype, {i}, Sealed) /\ lost' = lost
      BY <1>0, <2>2, <2>3 DEF WriteEntry
    <3>2. Ledger!Apply(utype, i)
      BY <1>0, <2>1, <3>1 DEF Ledger!Apply, Sealed
    <3> QED
      BY <1>0, <3>2 DEF Ledger!Next, Ledger!Step
  <2>4. CASE DropEntry(i)
    <3>1. lost' = Ledger!Add(lost, utype, {i}, Sealed) /\ db' = db /\ faults
      BY <1>0, <2>2, <2>4 DEF DropEntry
    <3>2. Ledger!Drop(utype, {i})
      BY <1>0, <2>1, <3>1 DEF Ledger!Drop, Sealed
    <3>3. {i} \in SUBSET Ids
      BY <1>0, <1>2
    <3> QED
      BY <1>0, <3>2, <3>3 DEF Ledger!Next, Ledger!Step
  <2> QED
    BY <1>2, <2>3, <2>4
<1>3. ASSUME faults, lost' = [lost EXCEPT ![utype] = [i \in Ids |-> @[i] + batch[i]]],
             batch' = Zeros, FlushEnds, UNCHANGED <<db, utype>>
      PROVE  Ledger!Next
  <2>1. upc' # "write"
    BY <1>3 DEF FlushEnds
  <2>2. Sealed[utype] = batch /\ lost[utype] \in [Ids -> Int]
    BY <1>0, <1>1
  <2>3. lost' = Ledger!Add(lost, utype, Ids, Sealed)
    <3>1. Ledger!Add(lost, utype, Ids, Sealed)
            = [lost EXCEPT ![utype] = [i \in Ids |-> lost[utype][i] + Sealed[utype][i]]]
      BY DEF Ledger!Add
    <3> QED
      BY <1>3, <2>2, <3>1
  <2>4. Sealed' = Ledger!Clear(Sealed, utype, Ids)
    <3>1. Sealed' = [t \in Types |-> Zeros]
      BY <2>1 DEF Sealed, InFlight
    <3>2. Ledger!Clear(Sealed, utype, Ids) = [Sealed EXCEPT ![utype] = Zeros]
      BY DEF Ledger!Clear, Zeros
    <3> QED
      BY <1>0, <1>1, <3>1, <3>2
  <2>5. Ledger!Drop(utype, Ids)
    BY <1>0, <1>3, <2>3, <2>4 DEF Ledger!Drop, Sealed
  <2> QED
    BY <1>0, <2>5 DEF Ledger!Next, Ledger!Step
<1>4. ASSUME todo = {}, upc' = "swap", UNCHANGED <<db, lost, batch>>
      PROVE  UNCHANGED Ledger!vars
  <2>1. batch = Zeros
    BY <1>0, <1>4 DEF IInv, TodoCoversBatch, Zeros
  <2>2. Sealed' = Sealed
    BY <1>0, <1>1, <1>4, <2>1 DEF Sealed, InFlight
  <2> QED
    BY <1>0, <1>4, <2>2 DEF Ledger!vars, Sealed
<1> QED
  BY <1>2, <1>3, <1>4 DEF Write

\* Workers, ticks and the shutdown do not touch the ledger, which closes with
\* the database.
LEMMA ControlRefines ==
  ASSUME IInv,
         \/ \E w \in Workers : Accept(w) \/ Work(w)
         \/ Tick \/ StopSignal \/ Signal \/ Expire \/ Stop \/ UNCHANGED vars
  PROVE  Ledger!Next \/ UNCHANGED Ledger!vars
<1>1. ASSUME UNCHANGED <<store, db, lost, faults, phase>>, Sealed' = Sealed
      PROVE  UNCHANGED Ledger!vars
  BY <1>1 DEF Ledger!vars, Sealed
<1>2. ASSUME NEW w \in Workers, Accept(w) \/ Work(w)
      PROVE  UNCHANGED Ledger!vars
  BY <1>1, <1>2 DEF Accept, Work, HandlerReturns, TaskEnds, updater, main, Sealed, InFlight
<1>3. CASE Tick \/ StopSignal
  BY <1>1, <1>3 DEF Tick, StopSignal, main, Sealed, InFlight
<1>4. CASE CloseDB
  BY <1>4 DEF CloseDB, updater, Ledger!Next, Ledger!Close, InFlight
<1>5. CASE Signal \/ Expire \/ StopBatchUpdater \/ FinalFlush
  <2>1. UNCHANGED <<store, db, lost, faults>> /\ Sealed' = Sealed
    BY <1>5 DEF Signal, Expire, StopBatchUpdater, FinalFlush, updater, Sealed, InFlight
  <2>2. (phase = "closed")' = (phase = "closed")
    BY <1>5 DEF Signal, Expire, StopBatchUpdater, FinalFlush
  <2> QED
    BY <2>1, <2>2 DEF Ledger!vars, Sealed
<1>6. CASE UNCHANGED vars
  BY <1>1, <1>6 DEF vars, updater, main, Sealed, InFlight
<1> QED
  BY <1>2, <1>3, <1>4, <1>5, <1>6 DEF Stop

LEMMA InitRefines == Init => Ledger!Init
  BY DEF Init, Ledger!Init, Ledger!None, InFlight, AllZeros, Zeros

LEMMA NextRefines == IInv /\ [Next]_vars => [Ledger!Next]_(Ledger!vars)
  BY RecordRefines, SwapRefines, WriteRefines, ControlRefines DEF Next, Update, Exited

\* The stores, locks, swaps and entry-by-entry writes of model/utils.go implement
\* a ledger that applies each recorded change once or, only when a statement or
\* a context fails, drops it.
THEOREM RefinementTheorem == Spec => ImplementsLedger
  BY InitIInv, NextIInv, InitRefines, NextRefines, PTL DEF Spec, ImplementsLedger, Ledger!Spec

----------------------------------------------------------------------------
\* The tool loop.  No part of PaidExactly and CallsSettled is inductive alone.
\* The types of the loop's local variables and of the audit.
LoopRecords ==
  [order : Seq(Servers), selected : Nat \ {0}, round : 0 .. MaxRounds,
   incr : Nat, price : Nat, tools : Int, total : Int, snapshot : Int,
   executed : SUBSET CallIds, pending : Seq(CallIds), results : SUBSET CallIds,
   current : SUBSET (CallIds \cup {"foreign"}), asked : SUBSET (CallIds \cup {"foreign"}),
   answered : SUBSET CallIds]

LoopFields ==
  loop \in LoopRecords /\ ranCost \in Int /\ answeredCost \in Int /\ unbilled \in Int

\* Between attempts nothing is held; a round that was sent has been charged.
RoundsCharged ==
  /\ pc \in {"begin", "failed"} => loop = FreshLoop /\ pre = 0
  /\ loop.incr = RoundQuota * loop.round
  /\ pc = "sent" => RoundQuota <= loop.incr

\* What the user has paid at each moment, and in the end.
PaidSoFar ==
  /\ pc \notin {"billing", "done"} \/ (pc = "billing" /\ forwarded) =>
       Charged = kept + pre + loop.incr
  /\ pc = "done" => reqCost = loop.price + loop.tools
  /\ pc = "done" /\ forwarded => Charged + unbilled = kept + loop.price + loop.tools

\* A call with an id that this attempt has not marked has run in earlier ones at
\* most.
Named == CallIds \ {NoCallId}

RunsMarked ==
  /\ \A i \in Named : ran[i] <= attempt
  /\ pc # "failed" => \A i \in Named \ loop.executed : ran[i] < attempt

CostsAnswered ==
  ChatLoop /\ pc \notin {"begin", "failed", "done"} => loop.tools = answeredCost

\* A marked call is answered, dropped, or has its result in this round; so has
\* each call of the round that is not pending.
HistoryKept ==
  ChatLoop =>
    /\ pc \in {"probe", "round", "sent", "exec"} => loop.asked \ loop.answered \subseteq dropped
    /\ pc \in {"probe", "round", "sent"} => loop.executed \subseteq loop.answered \cup dropped
    /\ pc = "exec" =>
         /\ loop.executed \subseteq loop.answered \cup dropped \cup loop.results
         /\ loop.current \subseteq loop.answered \cup dropped \cup loop.results
                                   \cup {loop.pending[i] : i \in DOMAIN loop.pending}

LoopInv == LoopTypeOK /\ LoopFields /\ RoundsCharged /\ PaidSoFar /\ RunsMarked
           /\ CostsAnswered /\ HistoryKept

\* The numbers of a step.
LoopNumbers ==
  /\ quota \in Nat /\ pre \in Nat /\ kept \in Nat /\ spent \in Nat /\ attempt \in Nat
  /\ loop.incr \in Nat /\ loop.price \in Nat /\ loop.tools \in Int /\ loop.total \in Int
  /\ loop.snapshot \in Int /\ loop.round \in Nat /\ reqCost \in Int
  /\ Quota0 \in Nat /\ PreQuota \in Nat /\ RoundQuota \in Nat

LEMMA ChargedTypes == LoopInv => LoopNumbers
<1> SUFFICES ASSUME LoopInv PROVE LoopNumbers
  OBVIOUS
<1>1. /\ quota \in Nat /\ kept \in Nat /\ reqCost \in Int /\ spent \in 0 .. MaxSpend
      /\ attempt \in 1 .. MaxAttempts /\ pre \in {0, PreQuota}
  BY DEF LoopInv, LoopTypeOK
<1>2. /\ loop.incr \in Nat /\ loop.price \in Nat /\ loop.tools \in Int /\ loop.total \in Int
      /\ loop.snapshot \in Int /\ loop.round \in 0 .. MaxRounds
  BY DEF LoopInv, LoopFields, LoopRecords
<1> QED
  BY <1>1, <1>2, McpAssumption DEF LoopNumbers

LEMMA CandidateType == \A o \in Candidates : o \in Seq(Servers)
<1> DEFINE on == {s \in Servers : Allowed(s)}
<1>1. Cardinality(on) \in Nat
  BY McpAssumption, FS_Subset, FS_CardinalityType
<1>2. ASSUME NEW o \in [1 .. Cardinality(on) -> on] PROVE o \in Seq(Servers)
  <2>1. o \in [1 .. Cardinality(on) -> Servers]
    OBVIOUS
  <2> QED
    BY <1>1, <2>1, SeqDef, Zenon
<1> QED
  BY <1>2 DEF Candidates

LEMMA FreshFacts ==
  ASSUME NEW o \in Seq(Servers), NEW l,
         l = [order |-> o, selected |-> 1, round |-> 0, incr |-> 0, price |-> 0, tools |-> 0,
              total |-> 0, snapshot |-> 0, executed |-> {}, pending |-> <<>>, results |-> {},
              current |-> {}, asked |-> {}, answered |-> {}]
  PROVE  /\ l \in LoopRecords
         /\ l.selected = 1 /\ l.round = 0 /\ l.incr = 0 /\ l.tools = 0 /\ l.executed = {}
         /\ l.pending = <<>> /\ l.asked = {} /\ l.answered = {}
<1>1. <<>> \in Seq(CallIds)
  OBVIOUS
<1>2. 0 \in 0 .. MaxRounds /\ 1 \in Nat \ {0} /\ 0 \in Nat /\ 0 \in Int
  BY McpAssumption
<1>3. l \in LoopRecords
  BY <1>1, <1>2, Zenon DEF LoopRecords
<1> QED
  BY <1>3

LEMMA FreshLoopFacts ==
  /\ FreshLoop \in LoopRecords
  /\ FreshLoop.selected = 1 /\ FreshLoop.round = 0 /\ FreshLoop.incr = 0
  /\ FreshLoop.tools = 0 /\ FreshLoop.executed = {} /\ FreshLoop.pending = <<>>
  /\ FreshLoop.asked = {} /\ FreshLoop.answered = {}
<1>1. <<>> \in Seq(Servers)
  OBVIOUS
<1> QED
  BY <1>1, FreshFacts DEF FreshLoop

LEMMA OrderedFacts ==
  ASSUME NEW o \in Candidates, NEW l, l = [FreshLoop EXCEPT !.order = o]
  PROVE  /\ l \in LoopRecords
         /\ l.selected = 1 /\ l.round = 0 /\ l.incr = 0 /\ l.tools = 0 /\ l.executed = {}
         /\ l.pending = <<>> /\ l.asked = {} /\ l.answered = {}
<1>1. l = [order |-> o, selected |-> 1, round |-> 0, incr |-> 0, price |-> 0, tools |-> 0,
           total |-> 0, snapshot |-> 0, executed |-> {}, pending |-> <<>>, results |-> {},
           current |-> {}, asked |-> {}, answered |-> {}]
  BY DEF FreshLoop
<1> QED
  BY <1>1, CandidateType, FreshFacts

LEMMA LoopInitInv == LoopInit => LoopInv
<1> SUFFICES ASSUME LoopInit PROVE LoopInv
  OBVIOUS
<1>1. /\ loop = FreshLoop /\ pc = "begin" /\ attempt = 1 /\ quota = Quota0 /\ spent = 0
      /\ pre = 0 /\ kept = 0 /\ unbilled = 0 /\ ranCost = 0 /\ answeredCost = 0
      /\ ran = [i \in CallIds |-> 0] /\ dropped = {} /\ forwarded = FALSE /\ reqCost = 0
      /\ helper \in Helpers /\ sdk \in BOOLEAN
  BY DEF LoopInit
<1>2. LoopFields
  BY <1>1, FreshLoopFacts DEF LoopFields
<1>3. loop.round = 0 /\ loop.incr = 0 /\ loop.selected = 1 /\ loop.pending = <<>> /\ loop.executed = {}
  BY <1>1, FreshLoopFacts
<1>4. LoopTypeOK
  <2>1. /\ loop.pending \in Seq(CallIds) /\ loop.executed \subseteq CallIds
        /\ loop.round \in 0 .. MaxRounds /\ loop.selected \in Nat \ {0}
    BY <1>2 DEF LoopFields, LoopRecords
  <2>2. ran \in [CallIds -> Nat] /\ 1 \in 1 .. MaxAttempts /\ 0 \in 0 .. MaxSpend
    BY <1>1, McpAssumption
  <2>3. /\ quota \in Nat /\ pre \in {0, PreQuota} /\ kept \in Nat /\ reqCost \in Int
        /\ pc \in PCs /\ attempt \in 1 .. MaxAttempts /\ spent \in 0 .. MaxSpend
    BY <1>1, <2>2, McpAssumption DEF PCs
  <2>4. forwarded \in BOOLEAN /\ dropped \subseteq CallIds
    BY <1>1
  <2> QED
    BY <1>1, <2>1, <2>2, <2>3, <2>4, Zenon DEF LoopTypeOK
<1>5. RoundsCharged
  BY <1>1, <1>3, McpAssumption DEF RoundsCharged
<1>6. PaidSoFar /\ RunsMarked /\ CostsAnswered /\ HistoryKept
  BY <1>1, <1>3, McpAssumption DEF PaidSoFar, Charged, RunsMarked, Named, CostsAnswered, HistoryKept
<1> QED
  BY <1>2, <1>4, <1>5, <1>6 DEF LoopInv

\* A failed attempt keeps what it must, gives back the rest, and starts over.
LEMMA FailsInv ==
  ASSUME LoopInv, NEW retryable \in BOOLEAN, NEW l, NEW bal \in Nat,
         l.incr \in Nat, Quota0 - bal - spent = kept + pre + l.incr,
         Fails(retryable, l, bal), forwarded' \in BOOLEAN, reqCost' \in Int,
         UNCHANGED <<request, spent, ran, ranCost, answeredCost, dropped, unbilled>>
  PROVE  LoopInv'
<1> DEFINE again == retryable /\ attempt < MaxAttempts
           refund == IF forwarded' THEN 0 ELSE pre
<1> USE DEF LoopInv
<1>0. /\ pre \in Nat /\ refund \in Nat /\ refund <= pre /\ kept \in Nat /\ spent \in Nat
      /\ Quota0 \in Nat /\ attempt \in 1 .. MaxAttempts /\ MaxAttempts \in Nat
  BY McpAssumption DEF LoopTypeOK
<1>1. /\ quota' = bal + refund /\ kept' = kept + pre - refund + l.incr
      /\ pre' = 0 /\ loop' = FreshLoop
      /\ pc' = IF again THEN "begin" ELSE "failed"
      /\ attempt' = IF again THEN attempt + 1 ELSE attempt
  BY DEF Fails
<1> HIDE DEF refund
<1>2. LoopFields'
  BY <1>1, FreshLoopFacts DEF LoopFields
<1>3. /\ loop'.round = 0 /\ loop'.incr = 0 /\ loop'.selected = 1 /\ loop'.pending = <<>>
      /\ loop'.executed = {}
  BY <1>1, FreshLoopFacts
<1>4. attempt' \in 1 .. MaxAttempts /\ attempt <= attempt'
  BY <1>0, <1>1
<1>5. quota' \in Nat /\ kept' \in Nat
  BY <1>0, <1>1
<1>6. LoopTypeOK'
  BY <1>1, <1>3, <1>4, <1>5, McpAssumption DEF LoopTypeOK, PCs, request
<1>7. RoundsCharged'
  BY <1>1, <1>3, McpAssumption DEF RoundsCharged
<1>8. PaidSoFar'
  <2>1. Charged' = kept' + pre' + loop'.incr
    BY <1>0, <1>1, <1>3 DEF Charged
  <2>2. pc' \in {"begin", "failed"}
    BY <1>1
  <2> QED
    BY <2>1, <2>2 DEF PaidSoFar
<1>9. RunsMarked'
  <2>1. \A i \in Named : ran[i] \in Nat /\ ran[i] <= attempt
    BY DEF LoopTypeOK, RunsMarked, Named
  <2>2. pc' # "failed" => attempt' = attempt + 1
    BY <1>1
  <2> QED
    BY <1>0, <1>4, <2>1, <2>2 DEF RunsMarked
<1>10. CostsAnswered' /\ HistoryKept'
  <2>1. pc' \in {"begin", "failed"}
    BY <1>1
  <2> QED
    BY <2>1 DEF CostsAnswered, HistoryKept
<1> QED
  BY <1>2, <1>6, <1>7, <1>8, <1>9, <1>10

LEMMA SpendInv == ASSUME LoopInv, Spend PROVE LoopInv'
<1>0. LoopNumbers
  BY ChargedTypes
<1> USE DEF LoopInv
<1>1. /\ quota > 0 /\ spent < MaxSpend /\ quota' = quota - 1 /\ spent' = spent + 1
      /\ UNCHANGED <<helper, sdk, pc, attempt, pre, forwarded, reqCost, loop, kept, ran, ranCost,
                     answeredCost, dropped, unbilled>>
  BY DEF Spend, request, audit
<1>2. Charged' = Charged /\ quota' \in Nat /\ spent' \in 0 .. MaxSpend
  BY <1>1, <1>0, McpAssumption DEF Charged, LoopTypeOK, LoopNumbers
<1>3. LoopTypeOK' /\ LoopFields'
  BY <1>1, <1>2 DEF LoopTypeOK, LoopFields
<1>4. RoundsCharged' /\ PaidSoFar'
  BY <1>1, <1>2 DEF RoundsCharged, PaidSoFar
<1>5. RunsMarked' /\ CostsAnswered' /\ HistoryKept'
  BY <1>1 DEF RunsMarked, CostsAnswered, HistoryKept, ChatLoop
<1> QED
  BY <1>3, <1>4, <1>5

LEMMA BeginInv == ASSUME LoopInv, Begin PROVE LoopInv'
<1>0. LoopNumbers
  BY ChargedTypes
<1> USE DEF LoopInv
<1>1. PICK p \in {0, PreQuota} : quota >= PreQuota /\ quota' = quota - p /\ pre' = p
  BY DEF Begin
<1>2. PICK o \in Candidates : loop' = [FreshLoop EXCEPT !.order = o]
  BY DEF Begin
<1>3. /\ pc = "begin" /\ answeredCost' = 0 /\ ranCost' = 0 /\ dropped' = {}
      /\ pc' \in {"probe", "round"}
      /\ UNCHANGED <<helper, sdk, attempt, spent, forwarded, reqCost, kept, ran, unbilled>>
  BY DEF Begin, request
<1>4. /\ loop' \in LoopRecords
      /\ loop'.selected = 1 /\ loop'.round = 0 /\ loop'.incr = 0
      /\ loop'.tools = 0 /\ loop'.executed = {} /\ loop'.pending = <<>>
      /\ loop'.asked = {} /\ loop'.answered = {}
  BY <1>2, OrderedFacts
<1>5. loop.incr = 0 /\ pre = 0 /\ loop.executed = {}
  BY <1>3, FreshLoopFacts DEF RoundsCharged
<1>6. LoopFields'
  BY <1>3, <1>4 DEF LoopFields
<1>7. LoopTypeOK'
  <2>1. quota' \in Nat
    BY <1>1, <1>0 DEF LoopNumbers
  <2> QED
    BY <1>1, <1>3, <1>4, <2>1, McpAssumption DEF LoopTypeOK, PCs
<1>8. RoundsCharged'
  BY <1>3, <1>4, McpAssumption DEF RoundsCharged
<1>9. PaidSoFar'
  <2>1. Charged = kept + pre + loop.incr
    BY <1>3 DEF PaidSoFar
  <2>2. Charged' = kept' + pre' + loop'.incr
    BY <1>1, <1>3, <1>4, <1>5, <2>1, <1>0 DEF Charged, LoopNumbers
  <2> QED
    BY <1>3, <2>2 DEF PaidSoFar
<1>10. RunsMarked'
  BY <1>3, <1>4, <1>5 DEF RunsMarked
<1>11. CostsAnswered' /\ HistoryKept'
  BY <1>3, <1>4 DEF CostsAnswered, HistoryKept
<1> QED
  BY <1>6, <1>7, <1>8, <1>9, <1>10, <1>11

LEMMA RefusedInv == ASSUME LoopInv, BeginRefused PROVE LoopInv'
<1>0. LoopNumbers
  BY ChargedTypes
<1> USE DEF LoopInv
<1>1. /\ pc = "begin"
      /\ pc' = IF attempt < MaxAttempts THEN "begin" ELSE "failed"
      /\ attempt' = IF attempt < MaxAttempts THEN attempt + 1 ELSE attempt
      /\ UNCHANGED <<helper, sdk, quota, spent, pre, forwarded, reqCost, loop, kept, ran, ranCost,
                     answeredCost, dropped, unbilled>>
  BY DEF BeginRefused, request, audit
<1>2. attempt' \in 1 .. MaxAttempts /\ attempt <= attempt' /\ pc' \in {"begin", "failed"}
  BY <1>1, McpAssumption DEF LoopTypeOK
<1>3. LoopTypeOK' /\ LoopFields'
  BY <1>1, <1>2 DEF LoopTypeOK, LoopFields, PCs
<1>4. RoundsCharged' /\ PaidSoFar'
  BY <1>1, <1>2 DEF RoundsCharged, PaidSoFar, Charged
<1>5. RunsMarked'
  <2>1. \A i \in Named : ran[i] \in Nat /\ ran[i] <= attempt
    BY DEF LoopTypeOK, RunsMarked, Named
  <2> QED
    BY <1>1, <1>2, <2>1, <1>0 DEF RunsMarked, LoopNumbers
<1>6. CostsAnswered' /\ HistoryKept'
  BY <1>2 DEF CostsAnswered, HistoryKept
<1> QED
  BY <1>3, <1>4, <1>5, <1>6

LEMMA ProbeInv == ASSUME LoopInv, Probe PROVE LoopInv'
<1>0. LoopNumbers
  BY ChargedTypes
<1> USE DEF LoopInv
<1>1. /\ pc = "probe" /\ forwarded' \in BOOLEAN
      /\ UNCHANGED <<request, spent, ran, ranCost, answeredCost, dropped, unbilled>>
  BY DEF Probe, Marks, LoopTypeOK
<1>2. CASE /\ pc' = "round" /\ reqCost' = PreQuota
           /\ UNCHANGED <<attempt, quota, pre, loop, kept>>
  <2>1. LoopTypeOK' /\ LoopFields'
    BY <1>1, <1>2, McpAssumption DEF LoopTypeOK, LoopFields, PCs, request
  <2>2. RoundsCharged' /\ PaidSoFar'
    BY <1>1, <1>2 DEF RoundsCharged, PaidSoFar, Charged
  <2>3. RunsMarked' /\ CostsAnswered' /\ HistoryKept'
    BY <1>1, <1>2 DEF RunsMarked, CostsAnswered, HistoryKept, ChatLoop, request
  <2> QED
    BY <2>1, <2>2, <2>3
<1>3. ASSUME NEW retryable \in BOOLEAN, Fails(retryable, loop, quota), reqCost' \in {reqCost, 0}
      PROVE  LoopInv'
  <2>1. Quota0 - quota - spent = kept + pre + loop.incr
    BY <1>1 DEF PaidSoFar, Charged
  <2>2. reqCost' \in Int
    BY <1>3 DEF LoopTypeOK
  <2>3. quota \in Nat /\ loop.incr \in Nat
    BY <1>0 DEF LoopNumbers
  <2> QED
    BY <1>1, <1>3, <2>1, <2>2, <2>3, FailsInv
<1> QED
  BY <1>2, <1>3 DEF Probe

LEMMA StartRoundInv == ASSUME LoopInv, StartRound PROVE LoopInv'
<1>0. LoopNumbers
  BY ChargedTypes
<1> USE DEF LoopInv
<1>1. /\ pc = "round" /\ loop.round < MaxRounds /\ quota >= RoundQuota
      /\ quota' = quota - RoundQuota /\ pc' = "sent"
      /\ reqCost' \in {pre + loop'.incr, reqCost}
      /\ UNCHANGED <<helper, sdk, attempt, spent, pre, forwarded, kept, ran, ranCost, answeredCost,
                     dropped, unbilled>>
  BY DEF StartRound, request, audit
<1>2. loop' = [loop EXCEPT !.round = @ + 1, !.incr = @ + RoundQuota]
  BY DEF StartRound
<1>3. /\ loop'.round = loop.round + 1 /\ loop'.incr = loop.incr + RoundQuota
      /\ loop'.selected = loop.selected /\ loop'.pending = loop.pending
      /\ loop'.executed = loop.executed /\ loop'.tools = loop.tools
      /\ loop'.asked = loop.asked /\ loop'.answered = loop.answered
  BY <1>2 DEF LoopFields, LoopRecords
<1>4. loop'.round \in 0 .. MaxRounds /\ loop'.incr \in Nat
  BY <1>1, <1>3, <1>0, McpAssumption DEF LoopNumbers
<1>5. LoopFields'
  BY <1>1, <1>2, <1>3, <1>4 DEF LoopFields, LoopRecords
<1>6. LoopTypeOK'
  <2>1. quota \in Nat /\ pre \in Nat /\ reqCost \in Int
    BY <1>0 DEF LoopNumbers
  <2>2. quota' \in Nat
    BY ONLY <1>1, <1>0, <2>1 DEF LoopNumbers
  <2>3. reqCost' \in Int
    BY ONLY <1>1, <1>4, <2>1
  <2> QED
    BY <1>1, <1>3, <1>4, <2>2, <2>3 DEF LoopTypeOK, PCs
<1>7. RoundsCharged'
  <2>1. loop.incr = RoundQuota * loop.round
    BY DEF RoundsCharged
  <2>2. RoundQuota * (loop.round + 1) = RoundQuota * loop.round + RoundQuota
    BY <1>0 DEF LoopNumbers
  <2> QED
    BY <1>1, <1>3, <2>1, <2>2, <1>0 DEF RoundsCharged, LoopNumbers
<1>8. PaidSoFar'
  <2>1. Charged = kept + pre + loop.incr
    BY <1>1 DEF PaidSoFar
  <2>2. Charged' = kept' + pre' + loop'.incr
    BY <1>1, <1>3, <2>1, <1>0 DEF Charged, LoopNumbers
  <2> QED
    BY <1>1, <2>2 DEF PaidSoFar
<1>9. RunsMarked' /\ CostsAnswered' /\ HistoryKept'
  BY <1>1, <1>3 DEF RunsMarked, CostsAnswered, HistoryKept, ChatLoop
<1> QED
  BY <1>5, <1>6, <1>7, <1>8, <1>9

LEMMA RoundRefusedInv == ASSUME LoopInv, RoundRefused PROVE LoopInv'
<1>0. LoopNumbers
  BY ChargedTypes
<1> USE DEF LoopInv
<1>1. /\ pc = "round" /\ UNCHANGED forwarded /\ UNCHANGED reqCost
      /\ Fails(loop.round < MaxRounds, loop, quota)
      /\ UNCHANGED <<request, spent, ran, ranCost, answeredCost, dropped, unbilled>>
  BY DEF RoundRefused
<1>2. Quota0 - quota - spent = kept + pre + loop.incr
  BY <1>1 DEF PaidSoFar, Charged
<1>3. /\ quota \in Nat /\ loop.incr \in Nat /\ forwarded' \in BOOLEAN /\ reqCost' \in Int
      /\ (loop.round < MaxRounds) \in BOOLEAN
  BY <1>1, <1>0 DEF LoopTypeOK, LoopNumbers
<1> QED
  BY <1>1, <1>2, <1>3, FailsInv

LEMMA UpstreamFailsInv == ASSUME LoopInv, UpstreamFails PROVE LoopInv'
<1>0. LoopNumbers
  BY ChargedTypes
<1> USE DEF LoopInv
<1> DEFINE l == [loop EXCEPT !.incr = @ - RoundQuota]
<1>1. /\ pc = "sent" /\ forwarded' \in BOOLEAN
      /\ UNCHANGED <<request, spent, ran, ranCost, answeredCost, dropped, unbilled>>
      /\ reqCost' \in {pre + loop.incr - RoundQuota, reqCost}
  BY DEF UpstreamFails, Marks, LoopTypeOK
<1>2. PICK retryable \in BOOLEAN : Fails(retryable, l, quota + RoundQuota)
  BY DEF UpstreamFails
<1>3. l.incr = loop.incr - RoundQuota
  BY DEF LoopFields, LoopRecords
<1> HIDE DEF l
<1>4. l.incr \in Nat /\ quota + RoundQuota \in Nat /\ reqCost' \in Int
  <2>1. RoundQuota <= loop.incr
    BY <1>1 DEF RoundsCharged
  <2> QED
    BY <1>0, <1>1, <1>3, <2>1 DEF LoopNumbers
<1>5. Quota0 - (quota + RoundQuota) - spent = kept + pre + l.incr
  <2>1. Charged = kept + pre + loop.incr
    BY <1>1 DEF PaidSoFar
  <2> QED
    BY <1>3, <2>1, <1>0 DEF Charged, LoopNumbers
<1> QED
  BY <1>1, <1>2, <1>4, <1>5, FailsInv

LEMMA AnswerType == \A a \in Answers : a \in Seq(CallIds)
<1>1. ASSUME NEW n \in 0 .. MaxCalls, NEW a \in [1 .. n -> CallIds] PROVE a \in Seq(CallIds)
  <2>1. n \in Nat
    BY McpAssumption
  <2>2. a \in UNION {[1 .. m -> CallIds] : m \in Nat}
    BY <2>1
  <2> QED
    BY <2>2, SeqDef
<1> QED
  BY <1>1 DEF Answers

\* What an answer changes of the loop.
LEMMA AnswersInv == ASSUME LoopInv, UpstreamAnswers PROVE LoopInv'
<1>0. LoopNumbers
  BY ChargedTypes
<1> USE DEF LoopInv
<1>1. PICK p \in Prices, a \in Answers, foreign \in BOOLEAN :
        LET ids == {a[i] : i \in DOMAIN a}
            runs == a # <<>> /\ ~(foreign /\ ChatLoop)
            l == [loop EXCEPT !.price = @ + p]
        IN /\ reqCost' = IF ChatLoop THEN l.price + l.tools ELSE reqCost
           /\ pc' = IF runs THEN "exec" ELSE "respond"
           /\ loop' = IF ~runs THEN l
                      ELSE [l EXCEPT !.pending = a, !.results = {}, !.snapshot = l.total,
                              !.current = ids \cup (IF foreign THEN {"foreign"} ELSE {})]
  BY DEF UpstreamAnswers
<1> DEFINE ids == {a[i] : i \in DOMAIN a}
           runs == a # <<>> /\ ~(foreign /\ ChatLoop)
           l == [loop EXCEPT !.price = @ + p]
<1>2. /\ pc = "sent" /\ forwarded' \in BOOLEAN
      /\ UNCHANGED <<helper, sdk, attempt, quota, spent, pre, kept, ran, ranCost, answeredCost,
                     dropped, unbilled>>
  BY DEF UpstreamAnswers, Marks, LoopTypeOK, request, audit
<1>3. a \in Seq(CallIds) /\ p \in Nat
  BY AnswerType, McpAssumption
<1>4. /\ l \in LoopRecords /\ l.price = loop.price + p /\ l.tools = loop.tools
      /\ l.incr = loop.incr /\ l.round = loop.round /\ l.executed = loop.executed
      /\ l.asked = loop.asked /\ l.answered = loop.answered /\ l.total = loop.total
      /\ l.selected = loop.selected /\ l.pending = loop.pending
  <2>1. loop \in LoopRecords /\ loop.price + p \in Nat
    BY <1>0, <1>3 DEF LoopFields, LoopNumbers
  <2> QED
    BY <2>1 DEF LoopRecords
<1>5. ids \in SUBSET CallIds
  BY <1>3, LenProperties
<1>6. /\ reqCost' \in {l.price + l.tools, reqCost}
      /\ pc' = IF runs THEN "exec" ELSE "respond"
      /\ loop' = IF ~runs THEN l
                 ELSE [l EXCEPT !.pending = a, !.results = {}, !.snapshot = l.total,
                         !.current = ids \cup (IF foreign THEN {"foreign"} ELSE {})]
  BY <1>1
<1> HIDE DEF l, ids
<1>7. /\ loop' \in LoopRecords /\ loop'.tools = loop.tools
      /\ loop'.incr = loop.incr /\ loop'.round = loop.round /\ loop'.executed = loop.executed
      /\ loop'.asked = loop.asked /\ loop'.answered = loop.answered
      /\ loop'.selected = loop.selected
      /\ pc' = "exec" =>
           /\ runs /\ loop'.pending = a /\ loop'.results = {}
           /\ loop'.current = ids \cup (IF foreign THEN {"foreign"} ELSE {})
  <2>1. CASE ~runs
    BY <1>4, <1>6, <2>1
  <2>2. CASE runs
    <3> DEFINE c == ids \cup (IF foreign THEN {"foreign"} ELSE {})
    <3>1. c \in SUBSET (CallIds \cup {"foreign"})
      BY <1>5
    <3>2. l.total \in Int
      BY <1>4, <1>0 DEF LoopNumbers
    <3>3. loop' = [l EXCEPT !.pending = a, !.results = {}, !.snapshot = l.total, !.current = c]
      BY <1>6, <2>2
    <3> HIDE DEF c
    <3>4. /\ loop' \in LoopRecords /\ loop'.tools = l.tools
          /\ loop'.incr = l.incr /\ loop'.round = l.round /\ loop'.executed = l.executed
          /\ loop'.asked = l.asked /\ loop'.answered = l.answered
          /\ loop'.selected = l.selected /\ loop'.pending = a /\ loop'.results = {}
          /\ loop'.current = c
      BY <1>3, <1>4, <3>1, <3>2, <3>3 DEF LoopRecords
    <3> QED
      BY <1>4, <1>6, <2>2, <3>4 DEF c
  <2> QED
    BY <2>1, <2>2
<1>8. pc' \in {"exec", "respond"}
  BY <1>6
<1>9. LoopFields'
  BY <1>2, <1>7 DEF LoopFields
<1>10. LoopTypeOK'
  <2>1. reqCost' \in Int
    <3>1. l.price \in Int /\ l.tools \in Int /\ reqCost \in Int
      BY <1>4, <1>0 DEF LoopRecords, LoopNumbers
    <3> QED
      BY <3>1, <1>6
  <2>2. /\ loop'.pending \in Seq(CallIds) /\ loop'.executed \subseteq CallIds
        /\ loop'.round \in 0 .. MaxRounds /\ loop'.selected \in Nat \ {0}
    BY <1>7 DEF LoopRecords
  <2> QED
    BY <1>2, <1>8, <2>1, <2>2 DEF LoopTypeOK, PCs
<1>11. RoundsCharged' /\ PaidSoFar'
  BY <1>2, <1>7, <1>8 DEF RoundsCharged, PaidSoFar, Charged
<1>12. RunsMarked' /\ CostsAnswered'
  BY <1>2, <1>7, <1>8 DEF RunsMarked, CostsAnswered, ChatLoop
<1>13. HistoryKept'
  <2> SUFFICES ASSUME ChatLoop, pc' = "exec"
               PROVE  /\ loop'.asked \ loop'.answered \subseteq dropped'
                      /\ loop'.executed \subseteq loop'.answered \cup dropped' \cup loop'.results
                      /\ loop'.current \subseteq loop'.answered \cup dropped' \cup loop'.results
                                         \cup {loop'.pending[i] : i \in DOMAIN loop'.pending}
    BY <1>2, <1>8 DEF HistoryKept, ChatLoop
  <2>1. /\ loop.asked \ loop.answered \subseteq dropped
        /\ loop.executed \subseteq loop.answered \cup dropped
    BY <1>2 DEF HistoryKept
  <2>2. loop'.current = ids /\ loop'.pending = a
    BY <1>7
  <2> QED
    BY <1>2, <1>7, <2>1, <2>2 DEF ids
<1> QED
  BY <1>9, <1>10, <1>11, <1>12, <1>13

\* The members of a sequence are its head and the members of its tail.
LEMMA TailMembers ==
  ASSUME NEW S, NEW s \in Seq(S), s # <<>>
  PROVE  /\ Head(s) \in S /\ Tail(s) \in Seq(S)
         /\ {s[i] : i \in DOMAIN s} \subseteq {Head(s)} \cup {Tail(s)[i] : i \in DOMAIN Tail(s)}
<1>1. /\ Head(s) \in S /\ Tail(s) \in Seq(S) /\ Len(Tail(s)) = Len(s) - 1
      /\ \A i \in 1 .. Len(Tail(s)) : Tail(s)[i] = s[i + 1]
  BY HeadTailProperties
<1>2. Len(s) \in Nat /\ DOMAIN s = 1 .. Len(s) /\ DOMAIN Tail(s) = 1 .. Len(Tail(s))
  BY <1>1, LenProperties
<1>3. Head(s) = s[1]
  BY DEF Head
<1>4. ASSUME NEW i \in DOMAIN s
      PROVE  s[i] \in {Head(s)} \cup {Tail(s)[j] : j \in DOMAIN Tail(s)}
  <2>1. CASE i = 1
    BY <2>1, <1>3
  <2>2. CASE i # 1
    <3>1. i - 1 \in 1 .. Len(Tail(s)) /\ (i - 1) + 1 = i
      BY <1>1, <1>2, <2>2
    <3>2. Tail(s)[i - 1] = s[i]
      BY <1>1, <3>1
    <3> QED
      BY <1>2, <3>1, <3>2
  <2> QED
    BY <2>1, <2>2
<1> QED
  BY <1>1, <1>4

LEMMA SkipInv == ASSUME LoopInv, SkipCall PROVE LoopInv'
<1> USE DEF LoopInv
<1>1. /\ pc = "exec" /\ loop.pending # <<>> /\ Head(loop.pending) \in loop.executed
      /\ loop' = [loop EXCEPT !.pending = Tail(@)]
      /\ UNCHANGED <<helper, sdk, pc, attempt, quota, spent, pre, forwarded, reqCost, kept, ran,
                     ranCost, answeredCost, dropped, unbilled>>
  BY DEF SkipCall, request, audit
<1>2. loop.pending \in Seq(CallIds)
  BY DEF LoopTypeOK
<1>3. /\ Tail(loop.pending) \in Seq(CallIds)
      /\ {loop.pending[i] : i \in DOMAIN loop.pending} \subseteq
           {Head(loop.pending)} \cup {Tail(loop.pending)[i] : i \in DOMAIN Tail(loop.pending)}
  BY <1>1, <1>2, TailMembers
<1>4. /\ loop' \in LoopRecords /\ loop'.tools = loop.tools /\ loop'.price = loop.price
      /\ loop'.incr = loop.incr /\ loop'.round = loop.round /\ loop'.executed = loop.executed
      /\ loop'.asked = loop.asked /\ loop'.answered = loop.answered
      /\ loop'.selected = loop.selected /\ loop'.results = loop.results
      /\ loop'.current = loop.current /\ loop'.pending = Tail(loop.pending)
  BY <1>1, <1>3 DEF LoopFields, LoopRecords
<1>5. LoopFields'
  BY <1>1, <1>4 DEF LoopFields
<1>6. LoopTypeOK'
  BY <1>1, <1>3, <1>4 DEF LoopTypeOK
<1>7. RoundsCharged' /\ PaidSoFar'
  BY <1>1, <1>4 DEF RoundsCharged, PaidSoFar, Charged
<1>8. RunsMarked' /\ CostsAnswered'
  BY <1>1, <1>4 DEF RunsMarked, CostsAnswered, ChatLoop
<1>9. HistoryKept'
  <2> SUFFICES ASSUME ChatLoop
               PROVE  /\ loop'.asked \ loop'.answered \subseteq dropped'
                      /\ loop'.executed \subseteq loop'.answered \cup dropped' \cup loop'.results
                      /\ loop'.current \subseteq loop'.answered \cup dropped' \cup loop'.results
                                         \cup {loop'.pending[i] : i \in DOMAIN loop'.pending}
    BY <1>1 DEF HistoryKept, ChatLoop
  <2>1. /\ loop.asked \ loop.answered \subseteq dropped
        /\ loop.executed \subseteq loop.answered \cup dropped \cup loop.results
        /\ loop.current \subseteq loop.answered \cup dropped \cup loop.results
                                  \cup {loop.pending[i] : i \in DOMAIN loop.pending}
    BY <1>1 DEF HistoryKept
  <2> DEFINE old == {loop.pending[i] : i \in DOMAIN loop.pending}
             new == {Tail(loop.pending)[i] : i \in DOMAIN Tail(loop.pending)}
  <2>2. old \subseteq {Head(loop.pending)} \cup new
    BY <1>3
  <2>3. loop'.current \subseteq loop.answered \cup dropped \cup loop.results \cup new
    <3> HIDE DEF new
    <3> QED
      BY <1>1, <1>4, <2>1, <2>2
  <2> QED
    BY <1>1, <1>4, <2>1, <2>3
<1> QED
  BY <1>5, <1>6, <1>7, <1>8, <1>9

\* What the fallback returns: a candidate from the selected one on, or an error.
LEMMA FallbackFacts ==
  ASSUME LoopInv, NEW fits, NEW r \in Fallback(fits)
  PROVE  /\ r.is \in {"ok", "mismatch", "error"}
         /\ r.is # "error" => r.at \in Nat \ {0} /\ loop.order[r.at] \in Servers
<1>1. loop.selected \in Nat \ {0} /\ loop.order \in Seq(Servers)
  BY DEF LoopInv, LoopFields, LoopRecords
<1>2. Len(loop.order) \in Nat /\ DOMAIN loop.order = 1 .. Len(loop.order)
  BY <1>1, LenProperties
<1>3. /\ r.is \in {"ok", "mismatch", "error"}
      /\ r.is # "error" => r.at \in loop.selected .. Len(loop.order)
  <2>1. CASE \E k \in loop.selected .. Len(loop.order) : r = [is |-> "ok", at |-> k]
    BY <2>1
  <2>2. CASE \E k \in (loop.selected + 1) .. Len(loop.order) : r = [is |-> "mismatch", at |-> k]
    <3>1. PICK k \in (loop.selected + 1) .. Len(loop.order) : r = [is |-> "mismatch", at |-> k]
      BY <2>2
    <3>2. k \in loop.selected .. Len(loop.order)
      BY <1>1, <1>2
    <3> QED
      BY <3>1, <3>2
  <2>3. CASE r = [is |-> "error", at |-> 0]
    BY <2>3
  <2> QED
    BY <2>1, <2>2, <2>3, Zenon DEF Fallback
<1>4. ASSUME r.is # "error" PROVE r.at \in 1 .. Len(loop.order) /\ r.at \in Nat \ {0}
  BY <1>1, <1>2, <1>3, <1>4
<1>5. ASSUME NEW i \in 1 .. Len(loop.order) PROVE loop.order[i] \in Servers
  BY <1>1, ElementOfSeq
<1> QED
  BY <1>3, <1>4, <1>5

\* A call that ran, or in the search loop failed, is marked and has a result.
LEMMA MarkedInv ==
  ASSUME LoopInv, pc = "exec", loop.pending # <<>>, NEW c, c = Head(loop.pending),
         NEW n \in Int,
         loop' = [loop EXCEPT !.executed = @ \cup Recorded(c), !.pending = Tail(@), !.total = n,
                              !.results = @ \cup {c}],
         ranCost' \in Int, ran' \in [CallIds -> Nat], RunsMarked',
         UNCHANGED <<helper, sdk, pc, attempt, quota, spent, pre, forwarded, reqCost, kept,
                     answeredCost, dropped, unbilled>>
  PROVE  LoopInv'
<1> USE DEF LoopInv
<1>1. loop \in LoopRecords /\ loop.pending \in Seq(CallIds)
  BY DEF LoopFields, LoopTypeOK
<1> DEFINE new == {Tail(loop.pending)[i] : i \in DOMAIN Tail(loop.pending)}
<1>2. /\ c \in CallIds /\ Tail(loop.pending) \in Seq(CallIds)
      /\ {loop.pending[i] : i \in DOMAIN loop.pending} \subseteq {c} \cup new
  BY <1>1, TailMembers
<1>3. /\ loop' \in LoopRecords /\ loop'.tools = loop.tools /\ loop'.price = loop.price
      /\ loop'.incr = loop.incr /\ loop'.round = loop.round
      /\ loop'.executed = loop.executed \cup Recorded(c)
      /\ loop'.asked = loop.asked /\ loop'.answered = loop.answered
      /\ loop'.selected = loop.selected /\ loop'.results = loop.results \cup {c}
      /\ loop'.current = loop.current /\ loop'.pending = Tail(loop.pending)
  <2>1. /\ loop.executed \cup Recorded(c) \in SUBSET CallIds
        /\ loop.results \cup {c} \in SUBSET CallIds
    BY <1>1, <1>2 DEF LoopRecords, Recorded
  <2>2. \A e, s : e \in SUBSET CallIds /\ s \in SUBSET CallIds =>
          [loop EXCEPT !.executed = e, !.pending = Tail(@), !.total = n, !.results = s]
            \in LoopRecords
    BY <1>1, <1>2 DEF LoopRecords
  <2>3. loop' \in LoopRecords
    BY <2>1, <2>2
  <2> QED
    BY <1>1, <2>3 DEF LoopRecords
<1>4. LoopFields'
  BY <1>3 DEF LoopFields
<1>5. LoopTypeOK'
  <2>1. loop'.executed \subseteq CallIds
    BY <1>3 DEF LoopRecords
  <2> QED
    BY <1>2, <1>3, <2>1 DEF LoopTypeOK
<1>6. RoundsCharged' /\ PaidSoFar' /\ CostsAnswered'
  BY <1>3 DEF RoundsCharged, PaidSoFar, Charged, CostsAnswered, ChatLoop
<1>7. HistoryKept'
  <2> SUFFICES ASSUME ChatLoop
               PROVE  /\ loop'.asked \ loop'.answered \subseteq dropped'
                      /\ loop'.executed \subseteq loop'.answered \cup dropped' \cup loop'.results
                      /\ loop'.current \subseteq loop'.answered \cup dropped' \cup loop'.results
                                         \cup {loop'.pending[i] : i \in DOMAIN loop'.pending}
    BY DEF HistoryKept, ChatLoop
  <2>1. /\ loop.asked \ loop.answered \subseteq dropped
        /\ loop.executed \subseteq loop.answered \cup dropped \cup loop.results
        /\ loop.current \subseteq loop.answered \cup dropped \cup loop.results
                                  \cup {loop.pending[i] : i \in DOMAIN loop.pending}
    BY DEF HistoryKept
  <2>2. /\ loop'.executed \subseteq loop.answered \cup dropped \cup loop'.results
        /\ loop'.current \subseteq loop.answered \cup dropped \cup loop'.results \cup new
    <3> HIDE DEF new
    <3> QED
      BY <1>2, <1>3, <2>1 DEF Recorded
  <2> QED
    BY <1>3, <2>1, <2>2
<1> QED
  BY <1>4, <1>5, <1>6, <1>7

LEMMA CallInv == ASSUME LoopInv, CallTool PROVE LoopInv'
<1>0. LoopNumbers
  BY ChargedTypes
<1> USE DEF LoopInv
<1> DEFINE c == Head(loop.pending)
           marked == [loop EXCEPT !.executed = @ \cup Recorded(c), !.pending = Tail(@)]
<1>1. /\ pc = "exec" /\ loop.pending # <<>> /\ c \notin loop.executed
      /\ UNCHANGED <<helper, sdk, spent, forwarded, reqCost, answeredCost, unbilled>>
  BY DEF CallTool, request
<1>2. PICK fits \in SUBSET {s \in Servers : Allowed(s)} : \E r \in Fallback(fits) :
        \/ /\ r.is = "ok"
           /\ loop' = [marked EXCEPT !.total = @ + Policy[loop.order[r.at]].cost,
                                     !.results = @ \cup {c}]
           /\ ran' = [i \in CallIds |-> IF i \in Recorded(c) THEN ran[i] + 1 ELSE ran[i]]
           /\ ranCost' = ranCost + Policy[loop.order[r.at]].cost
           /\ UNCHANGED <<pc, attempt, quota, pre, kept, dropped>>
        \/ /\ r.is = "mismatch" /\ ChatLoop
           /\ loop' = Reissue(c, r.at) /\ pc' = "round"
           /\ dropped' = dropped \cup loop.results
           /\ UNCHANGED <<attempt, quota, pre, kept, ran, ranCost>>
        \/ /\ r.is = "error" /\ ChatLoop
           /\ \E cancelled \in BOOLEAN : Fails(~cancelled, loop, quota)
           /\ UNCHANGED <<ran, ranCost, dropped>>
        \/ /\ r.is # "ok" /\ ~ChatLoop
           /\ loop' = [marked EXCEPT !.results = @ \cup {c}]
           /\ UNCHANGED <<pc, attempt, quota, pre, kept, ran, ranCost, dropped>>
  BY Zenon DEF CallTool
<1>3. PICK r \in Fallback(fits) :
        \/ /\ r.is = "ok"
           /\ loop' = [marked EXCEPT !.total = @ + Policy[loop.order[r.at]].cost,
                                     !.results = @ \cup {c}]
           /\ ran' = [i \in CallIds |-> IF i \in Recorded(c) THEN ran[i] + 1 ELSE ran[i]]
           /\ ranCost' = ranCost + Policy[loop.order[r.at]].cost
           /\ UNCHANGED <<pc, attempt, quota, pre, kept, dropped>>
        \/ /\ r.is = "mismatch" /\ ChatLoop
           /\ loop' = Reissue(c, r.at) /\ pc' = "round"
           /\ dropped' = dropped \cup loop.results
           /\ UNCHANGED <<attempt, quota, pre, kept, ran, ranCost>>
        \/ /\ r.is = "error" /\ ChatLoop
           /\ \E cancelled \in BOOLEAN : Fails(~cancelled, loop, quota)
           /\ UNCHANGED <<ran, ranCost, dropped>>
        \/ /\ r.is # "ok" /\ ~ChatLoop
           /\ loop' = [marked EXCEPT !.results = @ \cup {c}]
           /\ UNCHANGED <<pc, attempt, quota, pre, kept, ran, ranCost, dropped>>
  BY <1>2, Zenon
<1>4. /\ r.is \in {"ok", "mismatch", "error"}
      /\ r.is # "error" => r.at \in Nat \ {0} /\ loop.order[r.at] \in Servers
  BY FallbackFacts
<1>5. c \in CallIds
  BY <1>1, TailMembers DEF LoopTypeOK
<1>6. \A i \in Named : ran[i] \in Nat /\ ran[i] <= attempt
  BY DEF LoopTypeOK, RunsMarked, Named
<1>7. \A i \in Named \ loop.executed : ran[i] < attempt
  BY <1>1 DEF RunsMarked
<1>8. loop \in LoopRecords
  BY DEF LoopFields
<1>9. CASE /\ r.is = "ok"
           /\ loop' = [marked EXCEPT !.total = @ + Policy[loop.order[r.at]].cost,
                                     !.results = @ \cup {c}]
           /\ ran' = [i \in CallIds |-> IF i \in Recorded(c) THEN ran[i] + 1 ELSE ran[i]]
           /\ ranCost' = ranCost + Policy[loop.order[r.at]].cost
           /\ UNCHANGED <<pc, attempt, quota, pre, kept, dropped>>
  <2> DEFINE cost == Policy[loop.order[r.at]].cost
  <2>1. cost \in Nat
    BY <1>4, <1>9, McpAssumption
  <2>2. loop' = [loop EXCEPT !.executed = @ \cup Recorded(c), !.pending = Tail(@),
                             !.total = loop.total + cost, !.results = @ \cup {c}]
    <3> HIDE DEF cost
    <3>1. loop' = [marked EXCEPT !.total = @ + cost, !.results = @ \cup {c}]
      BY <1>9 DEF cost
    <3> QED
      BY <1>8, <3>1 DEF LoopRecords
  <2>3. ranCost' \in Int /\ loop.total + cost \in Int
    BY <1>0, <1>9, <2>1 DEF LoopFields, LoopNumbers
  <2>4. ran' \in [CallIds -> Nat]
    BY <1>5, <1>9 DEF LoopTypeOK
  <2>5. loop'.executed = loop.executed \cup Recorded(c)
    <3> HIDE DEF cost
    <3> QED
      BY <1>8, <2>2 DEF LoopRecords
  <2>6. RunsMarked'
    <3>1. \A i \in CallIds : ran'[i] = IF i \in Recorded(c) THEN ran[i] + 1 ELSE ran[i]
      BY <1>5, <1>9 DEF LoopTypeOK
    <3>2. c \in Named => ran[c] < attempt /\ ran[c] \in Nat
      BY <1>1, <1>6, <1>7
    <3>3. \A i \in Named : ran'[i] <= attempt
      BY <1>0, <1>6, <3>1, <3>2 DEF LoopNumbers, Named, Recorded
    <3>4. \A i \in Named \ loop'.executed : ran'[i] < attempt
      <4> HIDE DEF c
      <4> QED
        BY <1>7, <2>5, <3>1 DEF Recorded, Named
    <3> QED
      BY <1>9, <3>3, <3>4 DEF RunsMarked
  <2>7. UNCHANGED <<helper, sdk, pc, attempt, quota, spent, pre, forwarded, reqCost, kept,
                    answeredCost, dropped, unbilled>>
    BY <1>1, <1>9
  <2> HIDE DEF cost, marked
  <2> QED
    BY <1>1, <2>2, <2>3, <2>4, <2>6, <2>7, MarkedInv
<1>10. CASE /\ r.is = "mismatch" /\ ChatLoop
            /\ loop' = Reissue(c, r.at) /\ pc' = "round"
            /\ dropped' = dropped \cup loop.results
            /\ UNCHANGED <<attempt, quota, pre, kept, ran, ranCost>>
  <2>1. loop' = [loop EXCEPT !.selected = r.at, !.pending = <<>>, !.current = {}, !.results = {},
                             !.executed = @ \ {c}]
    BY <1>10 DEF Reissue
  <2>2. r.at \in Nat \ {0} /\ loop.executed \ {c} \in SUBSET CallIds /\ <<>> \in Seq(CallIds)
    BY <1>4, <1>10 DEF LoopTypeOK
  <2>3. /\ loop' \in LoopRecords /\ loop'.tools = loop.tools /\ loop'.price = loop.price
        /\ loop'.incr = loop.incr /\ loop'.round = loop.round
        /\ loop'.asked = loop.asked /\ loop'.answered = loop.answered
        /\ loop'.selected = r.at /\ loop'.pending = <<>>
        /\ loop'.executed = loop.executed \ {c}
    <3> HIDE DEF c
    <3> QED
      BY <1>8, <2>1, <2>2 DEF LoopRecords
  <2>4. loop'.executed = loop.executed
    BY <1>1, <2>3
  <2>5. LoopFields'
    BY <1>1, <1>10, <2>3 DEF LoopFields
  <2>6. LoopTypeOK'
    <3>1. dropped' \subseteq CallIds
      BY <1>8, <1>10 DEF LoopTypeOK, LoopRecords
    <3> QED
      BY <1>1, <1>10, <2>2, <2>3, <2>4, <3>1 DEF LoopTypeOK, PCs
  <2>7. RoundsCharged' /\ PaidSoFar'
    BY <1>1, <1>10, <2>3 DEF RoundsCharged, PaidSoFar, Charged
  <2>8. RunsMarked' /\ CostsAnswered'
    BY <1>1, <1>10, <2>3, <2>4 DEF RunsMarked, CostsAnswered, ChatLoop
  <2>9. HistoryKept'
    <3>1. /\ loop.asked \ loop.answered \subseteq dropped
          /\ loop.executed \subseteq loop.answered \cup dropped \cup loop.results
      BY <1>1, <1>10 DEF HistoryKept
    <3>2. /\ loop'.asked \ loop'.answered \subseteq dropped'
          /\ loop'.executed \subseteq loop'.answered \cup dropped'
      BY <1>10, <2>3, <2>4, <3>1
    <3> QED
      BY <1>10, <3>2 DEF HistoryKept
  <2> QED
    BY <2>5, <2>6, <2>7, <2>8, <2>9
<1>11. CASE /\ r.is = "error" /\ ChatLoop
            /\ \E cancelled \in BOOLEAN : Fails(~cancelled, loop, quota)
            /\ UNCHANGED <<ran, ranCost, dropped>>
  <2>1. PICK retryable \in BOOLEAN : Fails(retryable, loop, quota)
    BY <1>11
  <2>2. Quota0 - quota - spent = kept + pre + loop.incr
    BY <1>1 DEF PaidSoFar, Charged
  <2>3. quota \in Nat /\ loop.incr \in Nat /\ forwarded' \in BOOLEAN /\ reqCost' \in Int
    BY <1>0, <1>1 DEF LoopNumbers, LoopTypeOK
  <2>4. UNCHANGED <<request, spent, ran, ranCost, answeredCost, dropped, unbilled>>
    BY <1>1, <1>11 DEF request
  <2> QED
    BY <2>1, <2>2, <2>3, <2>4, FailsInv
<1>12. CASE /\ r.is # "ok" /\ ~ChatLoop
            /\ loop' = [marked EXCEPT !.results = @ \cup {c}]
            /\ UNCHANGED <<pc, attempt, quota, pre, kept, ran, ranCost, dropped>>
  <2>1. loop' = [loop EXCEPT !.executed = @ \cup Recorded(c), !.pending = Tail(@),
                             !.total = loop.total, !.results = @ \cup {c}]
    BY <1>8, <1>12 DEF LoopRecords
  <2>2. loop'.executed = loop.executed \cup Recorded(c)
    BY <1>8, <2>1 DEF LoopRecords
  <2>3. RunsMarked'
    BY <1>6, <1>7, <1>12, <2>2 DEF RunsMarked, Named
  <2>4. ranCost' \in Int /\ ran' \in [CallIds -> Nat] /\ loop.total \in Int
    BY <1>0, <1>12 DEF LoopFields, LoopTypeOK, LoopNumbers
  <2>5. UNCHANGED <<helper, sdk, pc, attempt, quota, spent, pre, forwarded, reqCost, kept,
                    answeredCost, dropped, unbilled>>
    BY <1>1, <1>12
  <2> HIDE DEF marked
  <2> QED
    BY <1>1, <2>1, <2>3, <2>4, <2>5, MarkedInv
<1> QED
  BY <1>3, <1>9, <1>10, <1>11, <1>12

LEMMA EndRoundInv == ASSUME LoopInv, EndRound PROVE LoopInv'
<1>0. LoopNumbers
  BY ChargedTypes
<1> USE DEF LoopInv
<1>1. /\ pc = "exec" /\ loop.pending = <<>> /\ pc' \in {"respond", "round"}
      /\ answeredCost' = answeredCost + loop.total - loop.snapshot
      /\ reqCost' \in {loop'.price + loop'.tools, reqCost}
      /\ UNCHANGED <<helper, sdk, attempt, quota, spent, pre, forwarded, kept, ran, ranCost,
                     dropped, unbilled>>
  BY DEF EndRound, request
<1> DEFINE t == IF ChatLoop THEN loop.tools + (loop.total - loop.snapshot) ELSE loop.tools
           q == loop.asked \cup loop.current
           d == loop.answered \cup loop.results
<1>2. loop \in LoopRecords
  BY DEF LoopFields
<1>3. t \in Int /\ (ChatLoop => t = loop.tools + (loop.total - loop.snapshot))
  BY <1>0 DEF LoopNumbers
<1>4. q \in SUBSET (CallIds \cup {"foreign"}) /\ d \in SUBSET CallIds
  BY <1>2 DEF LoopRecords
<1>5. loop' = [loop EXCEPT !.tools = t, !.asked = q, !.answered = d, !.current = {}]
  BY <1>2 DEF EndRound, CostDelta, LoopRecords
<1> HIDE DEF t, q, d
<1>6. /\ loop' \in LoopRecords /\ loop'.tools = t /\ loop'.price = loop.price
      /\ loop'.incr = loop.incr /\ loop'.round = loop.round /\ loop'.executed = loop.executed
      /\ loop'.asked = q /\ loop'.answered = d
      /\ loop'.selected = loop.selected /\ loop'.pending = loop.pending
  BY <1>2, <1>3, <1>4, <1>5 DEF LoopRecords
<1>7. LoopFields'
  BY <1>0, <1>1, <1>6 DEF LoopFields, LoopNumbers
<1>8. LoopTypeOK'
  <2>1. reqCost' \in Int
    BY <1>0, <1>1, <1>3, <1>6 DEF LoopNumbers
  <2> QED
    BY <1>1, <1>6, <2>1 DEF LoopTypeOK, PCs
<1>9. RoundsCharged' /\ PaidSoFar'
  BY <1>1, <1>6 DEF RoundsCharged, PaidSoFar, Charged
<1>10. RunsMarked'
  BY <1>1, <1>6 DEF RunsMarked
<1>11. CostsAnswered'
  <2>1. ChatLoop => loop.tools = answeredCost
    BY <1>1 DEF CostsAnswered
  <2>2. ChatLoop => t = answeredCost'
    BY <1>0, <1>1, <1>3, <2>1 DEF LoopNumbers
  <2> QED
    BY <1>1, <1>6, <2>2 DEF CostsAnswered, ChatLoop
<1>12. HistoryKept'
  <2> SUFFICES ASSUME ChatLoop
               PROVE  q \ d \subseteq dropped /\ loop.executed \subseteq d \cup dropped
    BY <1>1, <1>6 DEF HistoryKept, ChatLoop
  <2>1. /\ loop.asked \ loop.answered \subseteq dropped
        /\ loop.executed \subseteq loop.answered \cup dropped \cup loop.results
        /\ loop.current \subseteq loop.answered \cup dropped \cup loop.results
                                  \cup {loop.pending[i] : i \in DOMAIN loop.pending}
    BY <1>1 DEF HistoryKept
  <2>2. {loop.pending[i] : i \in DOMAIN loop.pending} = {}
    BY <1>1
  <2> QED
    BY <2>1, <2>2 DEF q, d
<1> QED
  BY <1>7, <1>8, <1>9, <1>10, <1>11, <1>12

LEMMA RespondInv == ASSUME LoopInv, Respond PROVE LoopInv'
<1>0. LoopNumbers
  BY ChargedTypes
<1> USE DEF LoopInv
<1>1. /\ pc = "respond" /\ UNCHANGED forwarded /\ UNCHANGED reqCost
      /\ UNCHANGED <<request, spent, ran, ranCost, answeredCost, dropped, unbilled>>
  BY DEF Respond
<1>2. CASE /\ quota' = quota + (IF helper \in {"text", "response"} /\ ~forwarded THEN pre ELSE 0)
           /\ pc' = "billing"
           /\ UNCHANGED <<attempt, pre, loop, kept>>
  <2>1. quota' \in Nat /\ (forwarded => quota' = quota)
    BY <1>0, <1>2 DEF LoopNumbers
  <2>2. LoopTypeOK' /\ LoopFields'
    BY <1>1, <1>2, <2>1 DEF LoopTypeOK, LoopFields, PCs, request
  <2>3. RoundsCharged' /\ PaidSoFar'
    BY <1>1, <1>2, <2>1 DEF RoundsCharged, PaidSoFar, Charged
  <2>4. RunsMarked' /\ CostsAnswered' /\ HistoryKept'
    BY <1>1, <1>2 DEF RunsMarked, CostsAnswered, HistoryKept, ChatLoop, request
  <2> QED
    BY <2>2, <2>3, <2>4
<1>3. CASE Fails(TRUE, loop, quota)
  <2>1. Quota0 - quota - spent = kept + pre + loop.incr
    BY <1>1 DEF PaidSoFar, Charged
  <2>2. quota \in Nat /\ loop.incr \in Nat /\ forwarded' \in BOOLEAN /\ reqCost' \in Int
    BY <1>0, <1>1 DEF LoopNumbers, LoopTypeOK
  <2> QED
    BY <1>1, <1>3, <2>1, <2>2, FailsInv
<1> QED
  BY <1>2, <1>3 DEF Respond

LEMMA BillInv == ASSUME LoopInv, Bill PROVE LoopInv'
<1>0. LoopNumbers
  BY ChargedTypes
<1> USE DEF LoopInv
<1> DEFINE delta == (loop.price + loop.tools) - pre - loop.incr
<1>1. /\ pc = "billing" /\ pc' = "done" /\ reqCost' = loop.price + loop.tools
      /\ UNCHANGED <<helper, sdk, attempt, spent, pre, forwarded, loop, kept, ran, ranCost,
                     answeredCost, dropped>>
      /\ quota' = IF quota >= delta THEN quota - delta ELSE quota
      /\ unbilled' = IF quota >= delta THEN 0 ELSE delta
  BY Zenon DEF Bill, request
<1>2. delta \in Int /\ reqCost' \in Int
  BY <1>0, <1>1 DEF LoopNumbers
<1>3. forwarded => kept + loop.price + loop.tools = Charged + delta
  <2>1. forwarded => Charged = kept + pre + loop.incr
    BY <1>1 DEF PaidSoFar
  <2> QED
    BY <1>0, <2>1 DEF LoopNumbers
<1> HIDE DEF delta
<1>4. quota' \in Nat /\ unbilled' \in Int
  BY <1>0, <1>1, <1>2 DEF LoopNumbers
<1>5. Charged' + unbilled' = Charged + delta
  <2>1. CASE quota >= delta
    BY <1>0, <1>1, <1>2, <2>1 DEF Charged, LoopNumbers
  <2>2. CASE ~(quota >= delta)
    BY <1>0, <1>1, <1>2, <2>2 DEF Charged, LoopNumbers
  <2> QED
    BY <2>1, <2>2
<1>6. LoopTypeOK' /\ LoopFields'
  BY <1>1, <1>2, <1>4 DEF LoopTypeOK, LoopFields, PCs
<1>7. RoundsCharged' /\ PaidSoFar'
  BY <1>1, <1>3, <1>5 DEF RoundsCharged, PaidSoFar
<1>8. RunsMarked' /\ CostsAnswered' /\ HistoryKept'
  BY <1>1 DEF RunsMarked, CostsAnswered, HistoryKept
<1> QED
  BY <1>6, <1>7, <1>8

LEMMA LoopNextInv == LoopInv /\ [LoopNext]_loopVars => LoopInv'
<1> SUFFICES ASSUME LoopInv, [LoopNext]_loopVars PROVE LoopInv'
  OBVIOUS
<1>1. ASSUME UNCHANGED loopVars PROVE LoopInv'
  BY <1>1 DEF LoopInv, loopVars, request, audit, LoopTypeOK, LoopFields, RoundsCharged, PaidSoFar,
       Charged, RunsMarked, CostsAnswered, HistoryKept, ChatLoop
<1> QED
  BY <1>1, SpendInv, BeginInv, RefusedInv, ProbeInv, StartRoundInv, RoundRefusedInv,
     UpstreamFailsInv, AnswersInv, SkipInv, CallInv, EndRoundInv, RespondInv, BillInv
  DEF LoopNext, Step

\* What the invariant says at the moments the properties name.
LEMMA LoopInvPaid == LoopInv => PaidExactly
BY DEF LoopInv, RoundsCharged, PaidSoFar, PaidExactly

LEMMA LoopInvCalls == LoopInv => CallsSettled
<1> SUFFICES ASSUME LoopInv PROVE CallsSettled
  OBVIOUS
<1>1. LoopTypeOK /\ RunsOncePerAttempt
  BY DEF LoopInv, RunsMarked, RunsOncePerAttempt, Named
<1>2. ToolCostOnce
  BY DEF LoopInv, CostsAnswered, ToolCostOnce
<1>3. HistoryAnswered
  BY DEF LoopInv, HistoryKept, HistoryAnswered
<1> QED
  BY <1>1, <1>2, <1>3 DEF CallsSettled

\* executeChatMCPToolLoop and the bill that follows it: at each moment the user
\* has paid for the reservation and the rounds that were sent, and in the end
\* for the tokens and the tools of the attempt that succeeded and for what the
\* failed attempts kept; for every set of servers, policy, price list and bound.
THEOREM PaidTheorem == LoopSpec => []PaidExactly
<1>1. LoopSpec => []LoopInv
  BY LoopInitInv, LoopNextInv, PTL DEF LoopSpec
<1> QED
  BY <1>1, LoopInvPaid, PTL

\* Deduplication by tool_call_id and the bookkeeping of executeMCPToolCalls: no
\* call runs twice in an attempt, the bill holds the cost of exactly the calls
\* whose results are in the conversation, and no chat request goes upstream
\* with an unanswered call unless a schema mismatch dropped its result.
THEOREM CallsTheorem == LoopSpec => []CallsSettled
<1>1. LoopSpec => []LoopInv
  BY LoopInitInv, LoopNextInv, PTL DEF LoopSpec
<1> QED
  BY <1>1, LoopInvCalls, PTL

============================================================================
