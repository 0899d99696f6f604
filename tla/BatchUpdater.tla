---------------------------- MODULE BatchUpdater ----------------------------
(***************************************************************************)
(* The batch updater of model/utils.go and the shutdown of main.go.        *)
(*                                                                         *)
(* In batch mode a change of a quota or a statistic is added to an         *)
(* in-memory store, one per type, and a background goroutine writes the    *)
(* stores to the database on every tick and once more when it is told to   *)
(* stop.  Relay handlers add records, and so do the critical goroutines    *)
(* (graceful.GoCritical) that handlers leave behind for post-billing.      *)
(***************************************************************************)
EXTENDS Integers

CONSTANTS
  BatchUpdateTypeCount,  \* number of stores; they are flushed in order
  Ids,                   \* user, token or channel ids
  Amounts,               \* deltas that are recorded
  Workers,               \* requests, each a handler and its critical task
  MaxRecords             \* bound on the records of one worker

ASSUME BatchAssumption ==
  /\ BatchUpdateTypeCount \in Nat \ {0}
  /\ Amounts \subseteq Int
  /\ MaxRecords \in Nat

Types == 0 .. BatchUpdateTypeCount - 1

VARIABLES
  store,      \* batchUpdateStores
  db,         \* what the database has accumulated
  upc, utype, batch, todo, final,
              \* the updater: place, type index, swapped map, keys to write
  stop,       \* batchUpdaterStop is closed
  flusher,    \* the batchUpdaterFinalFlush goroutine of StopBatchUpdater
  phase,      \* main: serving, draining, waiting, closed
  expired,    \* the shutdown context has expired
  faults,     \* may database calls fail and contexts expire?  chosen once
  wpc, count, \* workers, and how many records each has added
  recorded, late, lost
              \* audit: all that was added, what a store holds that was added
              \* after the stop signal, and what an error or a timeout dropped

updater == <<upc, utype, batch, todo, final>>
main    == <<stop, flusher, phase, expired, faults>>
workers == <<wpc, count>>
vars    == <<store, db, updater, main, workers, recorded, late, lost>>

Zeros    == [i \in Ids |-> 0]
AllZeros == [t \in Types |-> Zeros]

\* f with v added at type t and id i.
Plus(f, t, i, v) == [f EXCEPT ![t][i] = @ + v]

Init ==
  /\ store = AllZeros /\ db = AllZeros
  /\ upc = "select" /\ utype = 0 /\ batch = Zeros /\ todo = {} /\ final = FALSE
  /\ stop = FALSE /\ flusher = "none" /\ phase = "serving" /\ expired = FALSE
  /\ faults \in BOOLEAN
  /\ wpc = [w \in Workers |-> "idle"] /\ count = [w \in Workers |-> 0]
  /\ recorded = AllZeros /\ late = AllZeros /\ lost = AllZeros

Running == phase # "closed"

-----------------------------------------------------------------------------
(* Requests and their critical tasks. *)

\* The listener accepts a request; Shutdown closes the listener.
Accept(w) ==
  /\ phase = "serving" /\ wpc[w] = "idle"
  /\ wpc' = [wpc EXCEPT ![w] = "handler"]
  /\ UNCHANGED <<store, db, updater, main, count, recorded, late, lost>>

\* addNewRecord, under the lock of its type.
AddNewRecord(w, t, i, v) ==
  /\ Running /\ wpc[w] \in {"handler", "task"} /\ count[w] < MaxRecords
  /\ store' = Plus(store, t, i, v)
  /\ recorded' = Plus(recorded, t, i, v)
  /\ late' = IF stop THEN Plus(late, t, i, v) ELSE late
  /\ count' = [count EXCEPT ![w] = @ + 1]
  /\ UNCHANGED <<db, updater, main, wpc, lost>>

\* A handler returns, with or without a GoCritical task left behind.
HandlerReturns(w) ==
  /\ Running /\ wpc[w] = "handler"
  /\ \E next \in {"task", "done"} : wpc' = [wpc EXCEPT ![w] = next]
  /\ UNCHANGED <<store, db, updater, main, count, recorded, late, lost>>

TaskEnds(w) ==
  /\ Running /\ wpc[w] = "task"
  /\ wpc' = [wpc EXCEPT ![w] = "done"]
  /\ UNCHANGED <<store, db, updater, main, count, recorded, late, lost>>

-----------------------------------------------------------------------------
(* The updater goroutine. *)

\* The select of InitBatchUpdater: a tick, or the stop signal.  With both
\* ready Go chooses either.
Tick ==
  /\ Running /\ upc = "select"
  /\ upc' = "swap" /\ utype' = 0
  /\ UNCHANGED <<store, db, batch, todo, final, main, workers, recorded, late, lost>>

StopSignal_NoFlush ==
  /\ Running /\ upc = "select" /\ stop
  /\ upc' = "exited" /\ final' = TRUE
  /\ UNCHANGED <<store, db, utype, batch, todo, main, workers, recorded, late, lost>>

StopSignal ==
  /\ Running /\ upc = "select" /\ stop
  /\ upc' = "swap" /\ utype' = 0 /\ final' = TRUE
  /\ UNCHANGED <<store, db, batch, todo, main, workers, recorded, late, lost>>

\* batchUpdate is over: the loop goes on, or closes batchUpdaterDone.
FlushEnds_Loops == upc' = "select"
FlushEnds == upc' = IF final THEN "exited" ELSE "select"

\* batchUpdateStores[i] = make(map[int]int64)
Emptied_Kept == store
Emptied == [store EXCEPT ![utype] = Zeros]

\* Takes the store of the next type under its lock; stops after the last type
\* or when the flush's context has expired.
Swap ==
  /\ Running /\ upc = "swap"
  /\ \/ /\ utype \in Types
        /\ batch' = store[utype]
        /\ todo' = {i \in Ids : store[utype][i] # 0}
        /\ store' = Emptied
        /\ late' = [late EXCEPT ![utype] = Zeros]
        /\ upc' = "write"
     \/ /\ utype \notin Types \/ faults
        /\ FlushEnds
        /\ UNCHANGED <<store, late, batch, todo>>
  /\ UNCHANGED <<db, utype, final, main, workers, recorded, lost>>

\* Writes one entry of the swapped map.  An error is logged and the value
\* dropped; an expired context drops the rest of the map.
WriteEntry(i) ==
  /\ db' = Plus(db, utype, i, batch[i])
  /\ batch' = [batch EXCEPT ![i] = 0] /\ todo' = todo \ {i}
  /\ UNCHANGED lost

DropEntry_Silent(i) ==
  /\ lost' = Plus(lost, utype, i, batch[i])
  /\ batch' = [batch EXCEPT ![i] = 0] /\ todo' = todo \ {i}
  /\ UNCHANGED db

DropEntry(i) ==
  /\ faults
  /\ lost' = Plus(lost, utype, i, batch[i])
  /\ batch' = [batch EXCEPT ![i] = 0] /\ todo' = todo \ {i}
  /\ UNCHANGED db

Write ==
  /\ Running /\ upc = "write"
  /\ \/ /\ \E i \in todo : WriteEntry(i) \/ DropEntry(i)
        /\ UNCHANGED <<upc, utype>>
     \/ /\ faults /\ todo # {}
        /\ lost' = [lost EXCEPT ![utype] = [i \in Ids |-> @[i] + batch[i]]]
        /\ batch' = Zeros /\ todo' = {}
        /\ FlushEnds
        /\ UNCHANGED <<db, utype>>
     \/ /\ todo = {}
        /\ upc' = "swap" /\ utype' = utype + 1
        /\ UNCHANGED <<db, lost, batch, todo>>
  /\ UNCHANGED <<store, final, main, workers, recorded, late>>

-----------------------------------------------------------------------------
(* Shutdown. *)

\* SIGTERM: SetDraining, and srv.Shutdown stops accepting requests.
Signal ==
  /\ phase = "serving"
  /\ phase' = "draining"
  /\ UNCHANGED <<store, db, updater, stop, flusher, expired, faults, workers,
                 recorded, late, lost>>

\* The shutdown context times out.
Expire ==
  /\ faults /\ phase \in {"draining", "waiting"} /\ ~expired
  /\ expired' = TRUE
  /\ UNCHANGED <<store, db, updater, stop, flusher, phase, faults, workers,
                 recorded, late, lost>>

\* srv.Shutdown returns when every handler has, or when the context expires;
\* StopBatchUpdater starts its goroutine and Drain begins.
StopBatchUpdater ==
  /\ phase = "draining"
  /\ expired \/ \A w \in Workers : wpc[w] # "handler"
  /\ flusher' = "start" /\ phase' = "waiting"
  /\ UNCHANGED <<store, db, updater, stop, expired, faults, workers, recorded,
                 late, lost>>

\* The goroutine closes batchUpdaterStop and waits for batchUpdaterDone.
FinalFlush ==
  /\ Running
  /\ \/ flusher = "start" /\ stop' = TRUE /\ flusher' = "wait"
     \/ /\ flusher = "wait" /\ (upc = "exited" \/ expired)
        /\ flusher' = "done" /\ UNCHANGED stop
  /\ UNCHANGED <<store, db, updater, phase, expired, faults, workers, recorded,
                 late, lost>>

\* The wait group is at zero and no request is in flight.
Drained == flusher = "done" /\ \A w \in Workers : wpc[w] \in {"idle", "done"}

\* Drain returns, the database is closed and the process ends.
CloseDB ==
  /\ phase = "waiting"
  /\ Drained \/ expired
  /\ phase' = "closed"
  /\ UNCHANGED <<store, db, updater, stop, flusher, expired, faults, workers,
                 recorded, late, lost>>

Exited == phase = "closed" /\ UNCHANGED vars

-----------------------------------------------------------------------------
Work(w) == HandlerReturns(w) \/ TaskEnds(w)
Update  == StopSignal \/ Swap \/ Write
Stop    == StopBatchUpdater \/ FinalFlush \/ CloseDB

Next ==
  \/ \E w \in Workers : Accept(w) \/ Work(w)
  \/ \E w \in Workers, t \in Types, i \in Ids, v \in Amounts : AddNewRecord(w, t, i, v)
  \/ Tick \/ Update
  \/ Signal \/ Expire \/ Stop
  \/ Exited

\* Goroutines are scheduled and the ticker fires.  Between a tick and the stop
\* signal Go's select chooses at random, hence strong fairness for StopSignal.
Fairness ==
  /\ \A w \in Workers : WF_vars(Work(w))
  /\ WF_vars(Tick) /\ WF_vars(Swap) /\ WF_vars(Write) /\ SF_vars(StopSignal)
  /\ WF_vars(Stop)

Spec     == Init /\ [][Next]_vars
FairSpec == Spec /\ Fairness

-----------------------------------------------------------------------------
(* Properties. *)

\* Every variable has its type.
TypeOK ==
  /\ store \in [Types -> [Ids -> Int]] /\ db \in [Types -> [Ids -> Int]]
  /\ upc \in {"select", "swap", "write", "exited"}
  /\ utype \in 0 .. BatchUpdateTypeCount
  /\ upc = "write" => utype \in Types
  /\ batch \in [Ids -> Int] /\ todo \subseteq Ids /\ final \in BOOLEAN
  /\ stop \in BOOLEAN /\ flusher \in {"none", "start", "wait", "done"}
  /\ phase \in {"serving", "draining", "waiting", "closed"} /\ expired \in BOOLEAN
  /\ faults \in BOOLEAN
  /\ wpc \in [Workers -> {"idle", "handler", "task", "done"}]
  /\ count \in [Workers -> 0 .. MaxRecords]
  /\ recorded \in [Types -> [Ids -> Int]] /\ late \in [Types -> [Ids -> Int]]
  /\ lost \in [Types -> [Ids -> Int]]

\* What the updater has swapped out of the store of type t and not yet written.
InFlight(t) == IF upc = "write" /\ utype = t THEN batch ELSE Zeros

\* No change is lost or applied twice by the hand-over from the stores to the
\* updater: each recorded amount is in the database, in its store, in the map
\* being written, or was dropped by a logged failure (addNewRecord racing the
\* swap of batchUpdate).
Accounting ==
  \A t \in Types, i \in Ids :
    recorded[t][i] = db[t][i] + store[t][i] + InFlight(t)[i] + lost[t][i]

\* The swapped map holds nothing but the keys still to be written.
TodoCoversBatch ==
  upc = "write" => \A i \in Ids \ todo : batch[i] = 0

\* When the updater has exited without a failure, everything recorded before
\* the stop signal is in the database: what the stores hold was added later.
StopFlushesAll ==
  upc = "exited" /\ ~faults =>
    \A t \in Types, i \in Ids : store[t][i] = late[t][i]

\* After a shutdown that did not time out, all recorded changes are in the
\* database (StopBatchUpdater, main).
PersistedAtExit == phase = "closed" /\ ~expired /\ ~faults => db = recorded

\* The stores, the swap and the entry-by-entry writes implement a ledger that
\* applies each recorded change once: the map being written is what is sealed.
Ledger == INSTANCE DeferredLedger WITH
  Kinds <- Types, Keys <- Ids,
  waiting <- store, sealed <- [t \in Types |-> InFlight(t)],
  applied <- db, dropped <- lost, faulty <- faults, closed <- (phase = "closed")

ImplementsLedger == Ledger!Spec

\* Nobody waits for ever: a recorded change is sealed and a sealed one applied or
\* dropped before the process ends, and a shutdown ends although Drain waits
\* for the final flush and for every critical task.
NothingWaitsForever == Ledger!Live /\ (phase = "draining" ~> phase = "closed")

=============================================================================
