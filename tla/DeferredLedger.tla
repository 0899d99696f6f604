--------------------------- MODULE DeferredLedger ---------------------------
(***************************************************************************)
(* What the batch updater promises the code that records changes: a change *)
(* waits, is sealed together with everything that waits for its kind, and  *)
(* is then applied once, or dropped, which only a faulty system does.      *)
(* Nothing is said of goroutines, locks, ticks or signals: BatchUpdater    *)
(* implements this specification.                                          *)
(***************************************************************************)
EXTENDS Integers

CONSTANTS Kinds, Keys, Amounts

VARIABLES
  waiting, sealed,    \* recorded and not yet sealed; sealed and not yet applied
  applied, dropped,   \* the two ways a sealed amount ends
  faulty,             \* may amounts be dropped?
  closed              \* the process has ended

vars == <<waiting, sealed, applied, dropped, faulty, closed>>

None == [k \in Kinds |-> [i \in Keys |-> 0]]

\* f with g's amounts added for the keys I of kind k.
Add(f, k, I, g) == [f EXCEPT ![k] = [i \in Keys |-> IF i \in I THEN @[i] + g[k][i] ELSE @[i]]]
Clear(f, k, I)  == [f EXCEPT ![k] = [i \in Keys |-> IF i \in I THEN 0 ELSE @[i]]]

Init ==
  /\ waiting = None /\ sealed = None /\ applied = None /\ dropped = None
  /\ faulty \in BOOLEAN /\ closed = FALSE

Record(k, i, v) ==
  /\ waiting' = [waiting EXCEPT ![k][i] = @ + v]
  /\ UNCHANGED <<sealed, applied, dropped>>

Seal(k) ==
  /\ sealed = None
  /\ sealed' = Add(sealed, k, Keys, waiting) /\ waiting' = Clear(waiting, k, Keys)
  /\ UNCHANGED <<applied, dropped>>

Apply(k, i) ==
  /\ applied' = Add(applied, k, {i}, sealed) /\ sealed' = Clear(sealed, k, {i})
  /\ UNCHANGED <<waiting, dropped>>

Drop(k, I) ==
  /\ faulty
  /\ dropped' = Add(dropped, k, I, sealed) /\ sealed' = Clear(sealed, k, I)
  /\ UNCHANGED <<waiting, applied>>

Close ==
  /\ closed' = TRUE
  /\ UNCHANGED <<waiting, sealed, applied, dropped>>

Step ==
  \/ \E k \in Kinds, i \in Keys, v \in Amounts : Record(k, i, v)
  \/ \E k \in Kinds : Seal(k)
  \/ \E k \in Kinds, i \in Keys : Apply(k, i)
  \/ \E k \in Kinds, I \in SUBSET Keys : Drop(k, I)

Next == ~closed /\ UNCHANGED faulty /\ (Close \/ (Step /\ UNCHANGED closed))

Spec == Init /\ [][Next]_vars

\* Nothing waits for ever: until the process ends a sealed amount is applied or
\* dropped, and what waits is sealed unless the system is faulty.
Live ==
  /\ sealed # None ~> (sealed = None \/ closed)
  /\ \A k \in Kinds :
       (waiting[k] # None[k] /\ ~faulty) ~> (waiting[k] = None[k] \/ closed)
=============================================================================
