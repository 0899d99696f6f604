------------------------ MODULE UserAccounts_proofs ------------------------
(***************************************************************************)
(* What the handlers of UserAccounts keep for any users, codes, requests,  *)
(* handlers and amounts, and for either kind of database: balances follow  *)
(* the ledger (LedgerTheorem), codes and recharge requests pay what they   *)
(* should (CreditsTheorem), the blacklist follows the status               *)
(* (BlacklistTheorem).                                                     *)
(*                                                                         *)
(* The inductive invariant says what a call in progress may rely on: its   *)
(* copy of the balance while it is not stale, the code it has read, and    *)
(* how far it has brought the blacklist, which is what remains when its    *)
(* write fails.                                                            *)
(***************************************************************************)
EXTENDS UserAccounts, TLAPS

----------------------------------------------------------------------------
(* Types *)

OpNames == {"profile", "manage", "admin", "delete", "redeem", "code", "review", "auth"}
StatusOps == {"profile", "manage", "admin", "delete"}
Wants == Status \cup {"role", "used", "approved", "rejected", None}
Calls == [op : OpNames, u : Users, x : Codes \cup Requests \cup {None}, copy : Rows,
          want : Wants, step : 1..3, stale : BOOLEAN]

Busy(h) == call[h].op # "idle"

\* What a call of each operation may hold.
Shape(k) ==
  /\ k.op = "profile" => k.copy.status = "enabled" /\ k.step \in 1..2
  /\ k.op = "manage"  => k.want \in Status \cup {"role"} /\ (k.step = 3 => k.want = "deleted")
  /\ k.op = "admin"   => k.want \in Status \cup {None} /\ k.step \in 1..2
                         /\ (k.step = 2 => k.want \in Status)
  /\ k.op = "delete"  => k.step \in 1..2
  /\ k.op \in {"redeem", "code", "review", "auth"} => k.step = 1
  /\ k.op \in {"redeem", "code"} => k.x \in Codes
  /\ k.op = "code"    => k.want \in {"enabled", "disabled", "used"}
  /\ k.op = "review"  => k.x \in Requests /\ k.want \in {"approved", "rejected"}

Types ==
  /\ row \in [Users -> Rows] /\ banned \in SUBSET Users
  /\ code \in [Codes -> {None, "enabled", "disabled", "used"}]
  /\ request \in [Requests -> {None, "pending", "approved", "rejected"}]
  /\ cache \in [Users -> [status : Status \cup {None}, ttl : BOOLEAN]]
  /\ call \in [Handlers -> Calls \cup {Idle}]
  /\ \A h \in Handlers : Busy(h) => Shape(call[h])
  /\ raced \in SUBSET Users /\ ops \in 0..MaxOps
  /\ unsaved \in [Users -> Status \cup {None}] /\ forgotten \in SUBSET Users
  /\ ledger \in [Users -> Int] /\ overlapped \in [Users -> BOOLEAN]
  /\ credits \in [Codes -> Nat] /\ enables \in [Codes -> Nat]
  /\ credited \in [Requests -> Nat]

----------------------------------------------------------------------------
(* The inductive invariant *)

\* A copy that is not stale holds the balance of the row.
CopyFresh ==
  \A h \in Handlers : Busy(h) /\ ~call[h].stale => call[h].copy.quota = row[call[h].u].quota

\* With serial transactions there is one redemption at a time, and a code that
\* is enabled or being redeemed has an enabling that it has not paid for.
CodesOwed ==
  Serial =>
    /\ \A g, h \in Handlers : call[g].op = "redeem" /\ call[h].op = "redeem" => g = h
    /\ \A c \in Codes : credits[c] <= enables[c]
    /\ \A c \in Codes : code[c] = "enabled" => credits[c] < enables[c]
    /\ \A h \in Handlers : call[h].op = "redeem" => credits[call[h].x] < enables[call[h].x]

Agree(u) == /\ Meant(u) = "enabled" => u \notin banned
            /\ Meant(u) = "disabled" => u \in banned \cup forgotten

\* The calls that may set the status of u or its place in the blacklist.
Setter(h, u) == call[h].op \in StatusOps /\ call[h].u = u

\* A call that has done its first half leaves an agreement behind.
Halfway(h) ==
  LET u == call[h].u IN
  /\ call[h].op = "profile" => u \notin banned
  /\ call[h].op = "manage" => /\ Wanted(h) = "enabled" => u \notin banned
                              /\ Wanted(h) = "disabled" => u \in banned
  /\ call[h].op = "admin" => row[u].status = call[h].want

\* The blacklist of a user whose status changes did not overlap: only one call
\* is past its first step, and without such a call status and blacklist agree.
OneSetter ==
  \A u \in Users : u \notin raced =>
    /\ \A g, h \in Handlers :
         Setter(g, u) /\ Setter(h, u) /\ call[g].step > 1 /\ call[h].step > 1 => g = h
    /\ (\A h \in Handlers : Setter(h, u) => call[h].step = 1) => Agree(u)
    /\ \A h \in Handlers : Setter(h, u) /\ call[h].step > 1 => Halfway(h)
    /\ \A h \in Handlers :
         call[h].op = "admin" /\ call[h].u = u /\ call[h].step = 1
           => call[h].copy.status = row[u].status

\* A save through User.Update that had the user to itself restores it.
AloneRestores ==
  \A h \in Handlers :
    call[h].op \in {"profile", "manage"} /\ call[h].step > 1 /\ ~call[h].stale => Halfway(h)

IInv == /\ Types /\ CopyFresh /\ LedgerExact /\ CodesOwed /\ RequestTellsCredit
        /\ OneSetter /\ AloneRestores

----------------------------------------------------------------------------
(* What a step does to the calls *)

\* Handler g's call is as it was, except that it may have become stale.
Kept(g) ==
  /\ call'[g].op = call[g].op
  /\ Busy(g) => /\ call'[g].u = call[g].u /\ call'[g].x = call[g].x
                /\ call'[g].copy = call[g].copy /\ call'[g].want = call[g].want
                /\ call'[g].step = call[g].step
                /\ (call[g].stale => call'[g].stale)

\* The same for the handlers other than h, when user u was changed.
Others(h, u) ==
  \A g \in Handlers \ {h} : Kept(g) /\ (Busy(g) /\ call[g].u = u => call'[g].stale)

\* The calls have their types; the form in which types of calls are used.
LEMMA CallTypes ==
  ASSUME Types, NEW h \in Handlers
  PROVE  /\ call[h].op \in OpNames \cup {"idle"}
         /\ (call[h] = Idle) <=> ~Busy(h)
         /\ Busy(h) => /\ call[h] \in Calls
                       /\ call[h].u \in Users /\ call[h].copy \in Rows
                       /\ call[h].x \in Codes \cup Requests \cup {None}
                       /\ call[h].want \in Wants /\ call[h].step \in 1..3
                       /\ call[h].stale \in BOOLEAN /\ Shape(call[h])
<1>1. call[h] \in Calls \/ call[h] = Idle
  BY DEF Types
<1>2. CASE call[h] = Idle
  BY <1>2 DEF Idle, Busy
<1>3. CASE call[h] \in Calls
  <2>1. call[h].op # "idle"
    BY <1>3 DEF Calls, OpNames
  <2>2. call[h] # Idle
    BY <2>1 DEF Idle
  <2>3. Shape(call[h])
    BY <2>1 DEF Types, Busy
  <2> QED BY <1>3, <2>1, <2>2, <2>3 DEF Calls, Busy
<1> QED BY <1>1, <1>2, <1>3

\* Touched changes nothing but marks of staleness.
LEMMA TouchedKeeps ==
  ASSUME Types, NEW h \in Handlers, NEW u \in Users
  PROVE  /\ Touched(h, u) \in [Handlers -> Calls \cup {Idle}]
         /\ Touched(h, u)[h] = call[h]
         /\ \A g \in Handlers \ {h} :
              /\ Touched(h, u)[g].op = call[g].op
              /\ ~Busy(g) => Touched(h, u)[g] = Idle
              /\ Busy(g) => /\ Touched(h, u)[g].u = call[g].u
                            /\ Touched(h, u)[g].x = call[g].x
                            /\ Touched(h, u)[g].copy = call[g].copy
                            /\ Touched(h, u)[g].want = call[g].want
                            /\ Touched(h, u)[g].step = call[g].step
                            /\ (call[g].stale => Touched(h, u)[g].stale)
                            /\ (call[g].u = u => Touched(h, u)[g].stale)
<1>1. Touched(h, u)[h] = call[h]
  BY DEF Touched
<1>2. ASSUME NEW g \in Handlers
      PROVE  Touched(h, u)[g] \in Calls \cup {Idle}
  <2>1. CASE call[g] = Idle
    BY <2>1 DEF Touched
  <2>2. CASE call[g] # Idle
    <3>1. call[g] \in Calls
      BY <2>2 DEF Types
    <3>2. [call[g] EXCEPT !.stale = TRUE] \in Calls
      BY <3>1 DEF Calls
    <3> QED BY <3>1, <3>2 DEF Touched
  <2> QED BY <2>1, <2>2
<1>3. Touched(h, u) \in [Handlers -> Calls \cup {Idle}]
  BY <1>2 DEF Touched
<1>4. ASSUME NEW g \in Handlers \ {h}
      PROVE  /\ Touched(h, u)[g].op = call[g].op
             /\ ~Busy(g) => Touched(h, u)[g] = Idle
             /\ Busy(g) => /\ Touched(h, u)[g].u = call[g].u
                           /\ Touched(h, u)[g].x = call[g].x
                           /\ Touched(h, u)[g].copy = call[g].copy
                           /\ Touched(h, u)[g].want = call[g].want
                           /\ Touched(h, u)[g].step = call[g].step
                           /\ (call[g].stale => Touched(h, u)[g].stale)
                           /\ (call[g].u = u => Touched(h, u)[g].stale)
  <2>1. CASE call[g] = Idle
    BY <2>1, CallTypes DEF Touched
  <2>2. CASE call[g] # Idle /\ call[g].u # u
    <3>1. Touched(h, u)[g] = call[g]
      BY <2>2 DEF Touched
    <3>2. Busy(g)
      BY <2>2, CallTypes
    <3> QED BY <2>2, <3>1, <3>2
  <2>3. CASE call[g] # Idle /\ call[g].u = u
    <3>1. call[g] \in Calls
      BY <2>3 DEF Types
    <3>2. Touched(h, u)[g] = [call[g] EXCEPT !.stale = TRUE]
      BY <2>3 DEF Touched
    <3>3. Busy(g)
      BY <2>3, CallTypes
    <3> QED BY <3>1, <3>2, <3>3 DEF Calls
  <2> QED BY <2>1, <2>2, <2>3
<1> QED BY <1>1, <1>3, <1>4

\* A statement of a handler that goes on (Steps), that ends (Ends), and of an
\* operation of one statement.
LEMMA StepsKeeps ==
  ASSUME Types, NEW h \in Handlers, Busy(h), Steps(h, call[h].u), call[h].step < 3
  PROVE  /\ Others(h, call[h].u)
         /\ call' \in [Handlers -> Calls \cup {Idle}]
         /\ call'[h].op = call[h].op /\ call'[h].u = call[h].u /\ call'[h].x = call[h].x
         /\ call'[h].copy = call[h].copy /\ call'[h].want = call[h].want
         /\ call'[h].step = call[h].step + 1 /\ call'[h].stale = call[h].stale
<1> DEFINE u == call[h].u
           T == Touched(h, u)
<1>1. call[h] \in Calls /\ u \in Users /\ call[h].step \in 1..3
  BY CallTypes
<1>2. /\ T \in [Handlers -> Calls \cup {Idle}] /\ T[h] = call[h]
  BY <1>1, TouchedKeeps
<1>3. call' = [T EXCEPT ![h].step = @ + 1]
  BY DEF Steps
<1> HIDE DEF T
<1>4. call'[h] = [call[h] EXCEPT !.step = @ + 1]
  BY <1>2, <1>3
<1>5. \A g \in Handlers \ {h} : call'[g] = T[g]
  BY <1>2, <1>3
<1>6. call'[h] \in Calls
  BY <1>1, <1>4 DEF Calls
<1>7. call' \in [Handlers -> Calls \cup {Idle}]
  BY <1>2, <1>3, <1>4, <1>6
<1>8. Others(h, u)
  BY <1>1, <1>5, TouchedKeeps DEF Others, Kept, Busy, T
<1> QED BY <1>1, <1>4, <1>7, <1>8 DEF Calls

LEMMA EndsKeeps ==
  ASSUME Types, NEW h \in Handlers, Busy(h), Ends(h, call[h].u)
  PROVE  /\ Others(h, call[h].u) /\ call'[h] = Idle
         /\ call' \in [Handlers -> Calls \cup {Idle}]
<1> DEFINE u == call[h].u
           T == Touched(h, u)
<1>1. u \in Users
  BY CallTypes
<1>2. T \in [Handlers -> Calls \cup {Idle}]
  BY <1>1, TouchedKeeps
<1>3. call' = [T EXCEPT ![h] = Idle]
  BY DEF Ends
<1> HIDE DEF T
<1>4. call'[h] = Idle /\ \A g \in Handlers \ {h} : call'[g] = T[g]
  BY <1>2, <1>3
<1>5. call' \in [Handlers -> Calls \cup {Idle}]
  BY <1>2, <1>3
<1> QED BY <1>1, <1>4, <1>5, TouchedKeeps DEF Others, Kept, Busy, T

LEMMA OnceKeeps ==
  ASSUME Types, NEW h \in Handlers, NEW u \in Users, call[h] = Idle, call' = Touched(h, u)
  PROVE  /\ Others(h, u) /\ call'[h] = Idle
         /\ call' \in [Handlers -> Calls \cup {Idle}]
BY TouchedKeeps DEF Others, Kept, Busy

\* A step that only begins or forgets the handler's own call.
LEMMA AloneKeeps ==
  ASSUME Types, NEW h \in Handlers, NEW k \in Calls \cup {Idle},
         call' = [call EXCEPT ![h] = k]
  PROVE  /\ \A g \in Handlers \ {h} : call'[g] = call[g] /\ Kept(g)
         /\ call'[h] = k /\ call' \in [Handlers -> Calls \cup {Idle}]
<1>1. call \in [Handlers -> Calls \cup {Idle}]
  BY DEF Types
<1>2. /\ \A g \in Handlers \ {h} : call'[g] = call[g]
      /\ call'[h] = k /\ call' \in [Handlers -> Calls \cup {Idle}]
  BY <1>1
<1> QED BY <1>2 DEF Kept

----------------------------------------------------------------------------
(* Steps that leave a part of the invariant alone *)

LEMMA ShapesKept ==
  ASSUME Types, NEW h \in Handlers, \A g \in Handlers \ {h} : Kept(g),
         call'[h].op # "idle" => Shape(call'[h])
  PROVE  \A g \in Handlers : Busy(g)' => Shape(call[g])'
<1>1. ASSUME NEW g \in Handlers \ {h}, Busy(g)'
      PROVE  Shape(call'[g])
  <2>1. Kept(g) /\ Busy(g)
    BY <1>1 DEF Kept, Busy
  <2>2. Shape(call[g])
    BY <2>1, CallTypes
  <2> QED BY <2>1, <2>2 DEF Kept, Shape
<1> QED BY <1>1 DEF Busy

\* A change of one balance, with the copies of that user marked as stale.
LEMMA FreshKept ==
  ASSUME Types, CopyFresh, NEW h \in Handlers, NEW u \in Users, Others(h, u),
         \A v \in Users \ {u} : row'[v].quota = row[v].quota,
         call'[h].op # "idle" /\ ~call'[h].stale
           => call'[h].copy.quota = row'[call'[h].u].quota
  PROVE  CopyFresh'
<1>1. ASSUME NEW g \in Handlers \ {h}, call'[g].op # "idle", ~call'[g].stale
      PROVE  call'[g].copy.quota = row'[call'[g].u].quota
  <2>1. Kept(g) /\ Busy(g) /\ call[g].u # u
    BY <1>1 DEF Others, Kept, Busy
  <2>2. call[g].u \in Users /\ call[g].copy.quota = row[call[g].u].quota
    BY <1>1, <2>1, CallTypes DEF CopyFresh, Kept
  <2> QED BY <2>1, <2>2 DEF Kept
<1> QED BY <1>1 DEF CopyFresh, Busy

LEMMA FreshSame ==
  ASSUME Types, CopyFresh, NEW h \in Handlers, \A g \in Handlers \ {h} : Kept(g),
         row' = row,
         call'[h].op # "idle" /\ ~call'[h].stale
           => call'[h].copy.quota = row'[call'[h].u].quota
  PROVE  CopyFresh'
<1>1. ASSUME NEW g \in Handlers \ {h}, call'[g].op # "idle", ~call'[g].stale
      PROVE  call'[g].copy.quota = row'[call'[g].u].quota
  BY <1>1 DEF Kept, Busy, CopyFresh
<1> QED BY <1>1 DEF CopyFresh, Busy

\* A step that neither redeems nor edits codes.
LEMMA CodesKept ==
  ASSUME Types, CodesOwed, NEW h \in Handlers, \A g \in Handlers \ {h} : Kept(g),
         code' = code, credits' = credits, enables' = enables, call'[h].op # "redeem"
  PROVE  CodesOwed'
<1>1. \A g \in Handlers : call'[g].op = "redeem" =>
        g # h /\ call[g].op = "redeem" /\ call'[g].x = call[g].x
  BY DEF Kept, Busy
<1> QED BY <1>1 DEF CodesOwed

\* A step that is not about the status of a user.
LEMMA StatusKept ==
  ASSUME Types, OneSetter, AloneRestores, NEW h \in Handlers,
         \A g \in Handlers \ {h} : Kept(g),
         call[h].op \notin StatusOps, call'[h].op \notin StatusOps,
         raced' = raced, banned' = banned, unsaved' = unsaved, forgotten' = forgotten,
         \A u \in Users : row'[u].status = row[u].status
  PROVE  OneSetter' /\ AloneRestores'
<1>1. \A g \in Handlers, u \in Users : Setter(g, u)' <=> Setter(g, u)
  BY DEF Setter, Kept, StatusOps, Busy
<1>2. \A g \in Handlers, u \in Users : Setter(g, u) =>
        g # h /\ Busy(g) /\ Kept(g) /\ call[g].u \in Users
  BY CallTypes DEF Setter, StatusOps, Busy
<1>3. ASSUME NEW g \in Handlers, Busy(g), Kept(g), call[g].u \in Users, Halfway(g)
      PROVE  Halfway(g)'
  BY <1>3 DEF Halfway, Kept, Wanted
<1>4. OneSetter'
  <2> SUFFICES ASSUME NEW u \in Users, u \notin raced'
               PROVE  /\ \A g, k \in Handlers :
                           Setter(g, u)' /\ Setter(k, u)' /\ call'[g].step > 1 /\ call'[k].step > 1
                             => g = k
                      /\ (\A g \in Handlers : Setter(g, u)' => call'[g].step = 1) => Agree(u)'
                      /\ \A g \in Handlers : Setter(g, u)' /\ call'[g].step > 1 => Halfway(g)'
                      /\ \A g \in Handlers :
                           call'[g].op = "admin" /\ call'[g].u = u /\ call'[g].step = 1
                             => call'[g].copy.status = row'[u].status
    BY DEF OneSetter
  <2>1. \A g \in Handlers : Setter(g, u)' => Setter(g, u) /\ call'[g].step = call[g].step
                              /\ call'[g].copy = call[g].copy /\ call'[g].op = call[g].op
    BY <1>1, <1>2 DEF Kept
  <2>2. Agree(u)' <=> Agree(u)
    BY DEF Agree, Meant
  <2>3. \A g, k \in Handlers :
          Setter(g, u)' /\ Setter(k, u)' /\ call'[g].step > 1 /\ call'[k].step > 1 => g = k
    BY <2>1 DEF OneSetter
  <2>4. (\A g \in Handlers : Setter(g, u)' => call'[g].step = 1) => Agree(u)'
    BY <1>1, <2>1, <2>2 DEF OneSetter
  <2>5. \A g \in Handlers : Setter(g, u)' /\ call'[g].step > 1 => Halfway(g)'
    BY <1>2, <1>3, <2>1 DEF OneSetter
  <2>6. ASSUME NEW g \in Handlers, call'[g].op = "admin", call'[g].u = u, call'[g].step = 1
        PROVE  call'[g].copy.status = row'[u].status
    <3>1. Setter(g, u)'
      BY <2>6 DEF Setter, StatusOps
    <3> QED BY <2>1, <2>6, <3>1 DEF OneSetter, Setter
  <2> QED BY <2>3, <2>4, <2>5, <2>6
<1>5. AloneRestores'
  <2> SUFFICES ASSUME NEW g \in Handlers, call'[g].op \in {"profile", "manage"},
                      call'[g].step > 1, ~call'[g].stale
               PROVE  Halfway(g)'
    BY DEF AloneRestores
  <2>1. g # h
    BY DEF StatusOps
  <2>2. Kept(g) /\ Busy(g) /\ call[g].u \in Users
    BY <2>1, CallTypes DEF Kept, Busy
  <2>3. Halfway(g)
    BY <2>2 DEF AloneRestores, Kept
  <2> QED BY <1>3, <2>2, <2>3
<1> QED BY <1>4, <1>5

\* A call that begins has read the row as it is.
LEMMA StatusRead ==
  ASSUME Types, OneSetter, AloneRestores, NEW h \in Handlers,
         \A g \in Handlers \ {h} : call'[g] = call[g],
         ~Busy(h), call'[h].step = 1, call'[h].u \in Users,
         call'[h].copy = row[call'[h].u],
         raced' = raced, banned' = banned, row' = row,
         unsaved' = unsaved, forgotten' = forgotten
  PROVE  OneSetter' /\ AloneRestores'
<1>1. \A g \in Handlers \ {h} : /\ Halfway(g)' <=> Halfway(g)
                                /\ \A u \in Users : Setter(g, u)' <=> Setter(g, u)
  BY DEF Halfway, Wanted, Setter
<1>2. \A u \in Users : ~Setter(h, u) /\ (Agree(u)' <=> Agree(u))
  BY DEF Setter, StatusOps, Busy, Agree, Meant
<1>3. OneSetter'
  <2> SUFFICES ASSUME NEW u \in Users, u \notin raced'
               PROVE  /\ \A g, k \in Handlers :
                           Setter(g, u)' /\ Setter(k, u)' /\ call'[g].step > 1 /\ call'[k].step > 1
                             => g = k
                      /\ (\A g \in Handlers : Setter(g, u)' => call'[g].step = 1) => Agree(u)'
                      /\ \A g \in Handlers : Setter(g, u)' /\ call'[g].step > 1 => Halfway(g)'
                      /\ \A g \in Handlers :
                           call'[g].op = "admin" /\ call'[g].u = u /\ call'[g].step = 1
                             => call'[g].copy.status = row'[u].status
    BY DEF OneSetter
  <2>1. \A g, k \in Handlers :
          Setter(g, u)' /\ Setter(k, u)' /\ call'[g].step > 1 /\ call'[k].step > 1 => g = k
    BY <1>1 DEF OneSetter
  <2>2. (\A g \in Handlers : Setter(g, u)' => call'[g].step = 1) => Agree(u)'
    BY <1>1, <1>2 DEF OneSetter
  <2>3. \A g \in Handlers : Setter(g, u)' /\ call'[g].step > 1 => Halfway(g)'
    BY <1>1 DEF OneSetter
  <2>4. \A g \in Handlers : call'[g].op = "admin" /\ call'[g].u = u /\ call'[g].step = 1
                              => call'[g].copy.status = row'[u].status
    BY DEF OneSetter
  <2> QED BY <2>1, <2>2, <2>3, <2>4
<1>4. AloneRestores'
  BY <1>1 DEF AloneRestores
<1> QED BY <1>3, <1>4

\* A step of a call that sets the status of a user or the place in the
\* blacklist: with a rival the user is raced, without one the call leaves what
\* its next step needs, or an agreement.
LEMMA SetterStep ==
  ASSUME Types, OneSetter, AloneRestores, NEW h \in Handlers, NEW u \in Users,
         Setter(h, u), Others(h, u),
         \A v \in Users \ {u} : /\ row'[v].status = row[v].status
                                /\ v \in banned' <=> v \in banned
                                /\ unsaved'[v] = unsaved[v]
                                /\ v \in forgotten' <=> v \in forgotten
                                /\ v \in raced' <=> v \in raced,
         Rivals(h, u) # {} => u \in raced',
         call'[h].op = "idle" \/ Setter(h, u)',
         call'[h].op = "idle" /\ Rivals(h, u) = {} /\ u \notin raced' => Agree(u)',
         call'[h].op # "idle" => call'[h].step > 1,
         /\ call'[h].op # "idle"
         /\ \/ Rivals(h, u) = {} /\ u \notin raced'
            \/ call'[h].op \in {"profile", "manage"} /\ ~call'[h].stale
         => Halfway(h)'
  PROVE  OneSetter' /\ AloneRestores'
<1>1. \A g \in Handlers \ {h} : Kept(g) /\ (Busy(g) /\ call[g].u = u => call'[g].stale)
  BY DEF Others
<1>2. \A g \in Handlers \ {h} : \A v \in Users : Setter(g, v)' => Setter(g, v) /\ Busy(g)
  BY <1>1 DEF Setter, StatusOps, Kept, Busy
<1>3. \A v \in Users \ {u} : (Agree(v)' <=> Agree(v)) /\ ~Setter(h, v) /\ ~Setter(h, v)'
  BY DEF Agree, Meant, Setter, StatusOps
<1>4. ASSUME NEW g \in Handlers \ {h}, Busy(g), call[g].u \in Users \ {u}, Halfway(g)
      PROVE  Halfway(g)'
  BY <1>1, <1>4 DEF Halfway, Kept, Wanted
<1>5. \A g \in Handlers \ {h} : Setter(g, u) => g \in Rivals(h, u)
  BY CallTypes DEF Setter, StatusOps, Rivals, Busy
<1>6. OneSetter'
  <2> SUFFICES ASSUME NEW v \in Users, v \notin raced'
               PROVE  /\ \A g, k \in Handlers :
                           Setter(g, v)' /\ Setter(k, v)' /\ call'[g].step > 1 /\ call'[k].step > 1
                             => g = k
                      /\ (\A g \in Handlers : Setter(g, v)' => call'[g].step = 1) => Agree(v)'
                      /\ \A g \in Handlers : Setter(g, v)' /\ call'[g].step > 1 => Halfway(g)'
                      /\ \A g \in Handlers :
                           call'[g].op = "admin" /\ call'[g].u = v /\ call'[g].step = 1
                             => call'[g].copy.status = row'[v].status
    BY DEF OneSetter
  <2>1. CASE v = u
    <3>1. Rivals(h, u) = {}
      BY <2>1
    <3>2. \A g \in Handlers : Setter(g, u)' => g = h
      BY <1>2, <1>5, <3>1
    <3>3. (\A g \in Handlers : Setter(g, u)' => call'[g].step = 1) => Agree(u)'
      BY <2>1, <3>1 DEF Setter, StatusOps
    <3>4. \A g \in Handlers : Setter(g, u)' /\ call'[g].step > 1 => Halfway(g)'
      BY <2>1, <3>1, <3>2 DEF Setter, StatusOps
    <3>5. \A g \in Handlers :
            ~(call'[g].op = "admin" /\ call'[g].u = u /\ call'[g].step = 1)
      <4> SUFFICES ASSUME NEW g \in Handlers, call'[g].op = "admin", call'[g].u = u,
                          call'[g].step = 1
                   PROVE  FALSE
        OBVIOUS
      <4>1. Setter(g, u)'
        BY DEF Setter, StatusOps
      <4>2. g = h /\ call'[h].op # "idle"
        BY <3>2, <4>1
      <4> QED BY <4>2
    <3> QED BY <2>1, <3>2, <3>3, <3>4, <3>5
  <2>2. CASE v # u
    <3>1. v \notin raced
      BY <2>2
    <3>2. \A g \in Handlers :
            Setter(g, v)' => /\ g # h /\ Setter(g, v) /\ Busy(g) /\ call[g].u = v
                             /\ call'[g].step = call[g].step /\ call'[g].op = call[g].op
                             /\ call'[g].copy = call[g].copy
      BY <1>1, <1>2, <1>3, <2>2 DEF Kept, Setter
    <3>3. \A g \in Handlers : Setter(g, v) => g # h /\ Setter(g, v)'
      BY <1>1, <1>3, <2>2 DEF Kept, Setter, Busy, StatusOps
    <3>4. \A g, k \in Handlers :
            Setter(g, v)' /\ Setter(k, v)' /\ call'[g].step > 1 /\ call'[k].step > 1 => g = k
      BY <3>1, <3>2 DEF OneSetter
    <3>5. (\A g \in Handlers : Setter(g, v)' => call'[g].step = 1) => Agree(v)'
      BY <1>3, <2>2, <3>1, <3>2, <3>3 DEF OneSetter
    <3>6. \A g \in Handlers : Setter(g, v)' /\ call'[g].step > 1 => Halfway(g)'
      BY <1>4, <2>2, <3>1, <3>2 DEF OneSetter
    <3>7. ASSUME NEW g \in Handlers, call'[g].op = "admin", call'[g].u = v, call'[g].step = 1
          PROVE  call'[g].copy.status = row'[v].status
      <4>1. Setter(g, v)'
        BY <3>7 DEF Setter, StatusOps
      <4> QED BY <2>2, <3>1, <3>2, <3>7, <4>1 DEF OneSetter
    <3> QED BY <3>4, <3>5, <3>6, <3>7
  <2> QED BY <2>1, <2>2
<1>7. AloneRestores'
  <2> SUFFICES ASSUME NEW g \in Handlers, call'[g].op \in {"profile", "manage"},
                      call'[g].step > 1, ~call'[g].stale
               PROVE  Halfway(g)'
    BY DEF AloneRestores
  <2>1. CASE g = h
    BY <2>1
  <2>2. CASE g # h
    <3>1. Kept(g) /\ Busy(g) /\ call[g].u \in Users \ {u}
      BY <1>1, <2>2, CallTypes DEF Kept, Busy
    <3>2. Halfway(g)
      BY <3>1 DEF AloneRestores, Kept
    <3> QED BY <1>4, <2>2, <3>1, <3>2
  <2> QED BY <2>1, <2>2
<1> QED BY <1>6, <1>7

----------------------------------------------------------------------------
(* The steps *)

LEMMA InitHolds == Init => IInv
<1> SUFFICES ASSUME Init PROVE IInv
  OBVIOUS
<1> USE AccountsAssumption DEF Init
<1>1. \A h \in Handlers : call[h] = Idle /\ call[h].op = "idle"
  BY DEF Idle
<1>2. Types
  <2>1. row \in [Users -> Rows]
    BY DEF Rows, Status
  <2>2. cache \in [Users -> [status : Status \cup {None}, ttl : BOOLEAN]]
    OBVIOUS
  <2>3. call \in [Handlers -> Calls \cup {Idle}] /\ \A h \in Handlers : ~Busy(h)
    BY <1>1 DEF Busy
  <2> QED BY <2>1, <2>2, <2>3 DEF Types, None
<1>3. CopyFresh
  BY <1>1 DEF CopyFresh, Busy
<1>4. LedgerExact /\ RequestTellsCredit
  BY DEF LedgerExact, RequestTellsCredit, None
<1>5. CodesOwed
  BY <1>1 DEF CodesOwed
<1>6. OneSetter
  BY <1>1 DEF OneSetter, Setter, StatusOps, Agree, Meant
<1>7. AloneRestores
  BY <1>1 DEF AloneRestores
<1> QED BY <1>2, <1>3, <1>4, <1>5, <1>6, <1>7 DEF IInv

\* A call begins with a read.
LEMMA ReadsHold ==
  ASSUME IInv, NEW h \in Handlers, NEW op \in OpNames, NEW u \in Users,
         NEW x \in Codes \cup Requests \cup {None}, NEW want \in Wants,
         Reads(h, op, u, x, want), Shape(Call(op, u, x, want)),
         op = "redeem" /\ Serial =>
           code[x] = "enabled" /\ \A g \in Handlers : call[g].op # "redeem"
  PROVE  IInv'
<1> DEFINE k == Call(op, u, x, want)
<1>1. /\ k.op = op /\ k.u = u /\ k.x = x /\ k.copy = row[u] /\ k.want = want
      /\ k.step = 1 /\ k.stale = FALSE
  BY DEF Call
<1>2. Types /\ row[u] \in Rows
  BY DEF IInv, Types
<1>3. k \in Calls
  BY <1>2 DEF Call, Calls
<1>4. /\ call' = [call EXCEPT ![h] = k] /\ call[h] = Idle
      /\ ops < MaxOps /\ ops' = ops + 1
      /\ row' = row /\ banned' = banned /\ code' = code /\ request' = request
      /\ cache' = cache /\ raced' = raced /\ unsaved' = unsaved /\ forgotten' = forgotten
      /\ ledger' = ledger /\ overlapped' = overlapped /\ credits' = credits
      /\ enables' = enables /\ credited' = credited
  BY DEF Reads, Start, audit, doubts
<1> HIDE DEF k
<1>5. /\ \A g \in Handlers \ {h} : call'[g] = call[g] /\ Kept(g)
      /\ call'[h] = k /\ call' \in [Handlers -> Calls \cup {Idle}]
  BY <1>2, <1>3, <1>4, AloneKeeps
<1>6. ~Busy(h)
  BY <1>2, <1>4, CallTypes
<1>7. Types'
  <2>1. \A g \in Handlers : Busy(g)' => Shape(call[g])'
    BY <1>2, <1>5, ShapesKept DEF k
  <2>2. ops' \in 0..MaxOps
    BY <1>2, <1>4, AccountsAssumption DEF Types
  <2> QED BY <1>2, <1>4, <1>5, <2>1, <2>2 DEF Types
<1>8. CopyFresh'
  BY <1>1, <1>2, <1>4, <1>5, FreshSame DEF IInv
<1>9. LedgerExact' /\ RequestTellsCredit'
  BY <1>4 DEF IInv, LedgerExact, RequestTellsCredit
<1>10. CodesOwed'
  <2>1. CASE op # "redeem"
    BY <1>1, <1>2, <1>4, <1>5, <2>1, CodesKept DEF IInv
  <2>2. CASE op = "redeem"
    <3>1. x \in Codes
      BY <1>1, <2>2 DEF Shape, k
    <3>2. SUFFICES ASSUME Serial PROVE CodesOwed'
      BY DEF CodesOwed
    <3>3. code[x] = "enabled" /\ credits[x] < enables[x]
      BY <2>2, <3>1, <3>2 DEF IInv, CodesOwed
    <3>4. \A g \in Handlers : call'[g].op = "redeem" => g = h
      BY <1>5, <2>2, <3>2
    <3>5. call'[h].x = x
      BY <1>1, <1>5
    <3> QED BY <1>4, <3>2, <3>3, <3>4, <3>5 DEF IInv, CodesOwed
  <2> QED BY <2>1, <2>2
<1>11. OneSetter' /\ AloneRestores'
  BY <1>1, <1>2, <1>4, <1>5, <1>6, StatusRead DEF IInv
<1> QED BY <1>7, <1>8, <1>9, <1>10, <1>11 DEF IInv

\* The balance and the ledger of a user move together.
LEMMA MoneyMoves ==
  ASSUME Types, LedgerExact, NEW u \in Users, NEW n \in Nat, NEW m \in Int,
         m - ledger[u] = n - row[u].quota,
         row' = [row EXCEPT ![u].quota = n], ledger' = [ledger EXCEPT ![u] = m],
         overlapped' = overlapped
  PROVE  /\ row' \in [Users -> Rows] /\ ledger' \in [Users -> Int]
         /\ LedgerExact'
         /\ \A v \in Users : row'[v].status = row[v].status
         /\ \A v \in Users \ {u} : row'[v].quota = row[v].quota
<1>1. /\ row \in [Users -> Rows] /\ ledger \in [Users -> Int]
      /\ row[u] \in Rows /\ row[u].quota \in Nat /\ ledger[u] \in Int
  BY DEF Types, Rows
<1>2. [row[u] EXCEPT !.quota = n] \in Rows
  BY <1>1 DEF Rows
<1>3. row' = [row EXCEPT ![u] = [row[u] EXCEPT !.quota = n]]
  BY <1>1
<1>4. row' \in [Users -> Rows]
  BY <1>1, <1>2, <1>3
<1>5. row'[u] = [row[u] EXCEPT !.quota = n] /\ \A v \in Users \ {u} : row'[v] = row[v]
  BY <1>1, <1>3
<1>6. row'[u].quota = n /\ row'[u].status = row[u].status
  BY <1>1, <1>5 DEF Rows
<1>7. ledger' \in [Users -> Int] /\ ledger'[u] = m /\ \A v \in Users \ {u} : ledger'[v] = ledger[v]
  BY <1>1
<1>8. ASSUME NEW v \in Users PROVE row'[v].quota = ledger'[v] \/ overlapped'[v]
  <2>1. row[v].quota = ledger[v] \/ overlapped[v]
    BY DEF LedgerExact
  <2>2. CASE v = u
    BY <1>1, <1>6, <1>7, <2>1, <2>2
  <2>3. CASE v # u
    BY <1>5, <1>7, <2>1, <2>3
  <2> QED BY <2>2, <2>3
<1>9. LedgerExact'
  BY <1>8 DEF LedgerExact
<1> QED BY <1>4, <1>5, <1>6, <1>7, <1>9

LEMMA UpdateSelfHolds ==
  ASSUME IInv, NEW h \in Handlers, UpdateSelf(h)
  PROVE  IInv'
<1>1. PICK u \in Users : row' = [row EXCEPT ![u].profile = 1] /\ call' = Touched(h, u)
  BY DEF UpdateSelf
<1>2. /\ call[h] = Idle /\ ops < MaxOps /\ ops' = ops + 1
      /\ raced' = raced /\ banned' = banned /\ code' = code /\ request' = request
      /\ unsaved' = unsaved /\ forgotten' = forgotten
      /\ cache' = cache /\ ledger' = ledger /\ overlapped' = overlapped
      /\ credits' = credits /\ enables' = enables /\ credited' = credited
  BY DEF UpdateSelf, Start, audit, doubts
<1>3. Types /\ row \in [Users -> Rows]
  BY DEF IInv, Types
<1>4. /\ Others(h, u) /\ call'[h] = Idle /\ call' \in [Handlers -> Calls \cup {Idle}]
  BY <1>1, <1>2, <1>3, OnceKeeps
<1>5. \A g \in Handlers \ {h} : Kept(g)
  BY <1>4 DEF Others
<1>6. call'[h].op = "idle" /\ call[h].op = "idle"
  BY <1>2, <1>4 DEF Idle
<1>7. /\ row' \in [Users -> Rows]
      /\ \A v \in Users : row'[v].status = row[v].status /\ row'[v].quota = row[v].quota
  <2>1. [row[u] EXCEPT !.profile = 1] \in Rows
    BY <1>3 DEF Rows
  <2>2. row' = [row EXCEPT ![u] = [row[u] EXCEPT !.profile = 1]]
    BY <1>1, <1>3
  <2>3. row'[u] = [row[u] EXCEPT !.profile = 1] /\ \A v \in Users \ {u} : row'[v] = row[v]
    BY <1>3, <2>2
  <2>4. row'[u].quota = row[u].quota /\ row'[u].status = row[u].status
    BY <1>3, <2>3 DEF Rows
  <2> QED BY <1>3, <2>1, <2>2, <2>3, <2>4
<1>8. Types'
  <2>1. \A g \in Handlers : Busy(g)' => Shape(call[g])'
    BY <1>3, <1>5, <1>6, ShapesKept
  <2>2. ops' \in 0..MaxOps
    BY <1>2, <1>3, AccountsAssumption DEF Types
  <2> QED BY <1>2, <1>3, <1>4, <1>7, <2>1, <2>2 DEF Types
<1>9. CopyFresh'
  BY <1>3, <1>4, <1>6, <1>7, FreshKept DEF IInv
<1>10. LedgerExact' /\ RequestTellsCredit'
  BY <1>2, <1>7 DEF IInv, LedgerExact, RequestTellsCredit
<1>11. CodesOwed'
  BY <1>2, <1>3, <1>5, <1>6, CodesKept DEF IInv
<1>12. OneSetter' /\ AloneRestores'
  BY <1>2, <1>3, <1>5, <1>6, <1>7, StatusKept DEF IInv, StatusOps
<1> QED BY <1>8, <1>9, <1>10, <1>11, <1>12 DEF IInv

\* AdminTopUp and a bill: one statement that adds to the balance.
LEMMA MoneyHolds ==
  ASSUME IInv, NEW h \in Handlers, TopUp(h) \/ DecreaseUserQuota(h)
  PROVE  IInv'
<1>1. Types /\ row \in [Users -> Rows] /\ ledger \in [Users -> Int] /\ Amount \in Nat
  BY AccountsAssumption DEF IInv, Types
<1>2. PICK u \in Users, n \in Nat, m \in Int :
        /\ m - ledger[u] = n - row[u].quota
        /\ row' = [row EXCEPT ![u].quota = n] /\ ledger' = [ledger EXCEPT ![u] = m]
        /\ call' = Touched(h, u)
  <2>1. CASE TopUp(h)
    <3>1. PICK u \in Users : /\ row' = [row EXCEPT ![u].quota = row[u].quota + Amount]
                             /\ ledger' = [ledger EXCEPT ![u] = ledger[u] + Amount]
                             /\ call' = Touched(h, u)
      BY <2>1 DEF TopUp
    <3>2. row[u].quota \in Nat /\ ledger[u] \in Int
      BY <1>1 DEF Rows
    <3>3. /\ row[u].quota + Amount \in Nat /\ ledger[u] + Amount \in Int
          /\ (ledger[u] + Amount) - ledger[u] = (row[u].quota + Amount) - row[u].quota
      BY <1>1, <3>2
    <3> QED BY <3>1, <3>3
  <2>2. CASE DecreaseUserQuota(h)
    <3>1. PICK u \in Users : /\ row[u].quota >= Amount
                             /\ row' = [row EXCEPT ![u].quota = row[u].quota - Amount]
                             /\ ledger' = [ledger EXCEPT ![u] = ledger[u] - Amount]
                             /\ call' = Touched(h, u)
      BY <2>2 DEF DecreaseUserQuota
    <3>2. row[u].quota \in Nat /\ ledger[u] \in Int
      BY <1>1 DEF Rows
    <3>3. /\ row[u].quota - Amount \in Nat /\ ledger[u] - Amount \in Int
          /\ (ledger[u] - Amount) - ledger[u] = (row[u].quota - Amount) - row[u].quota
      BY <1>1, <3>1, <3>2
    <3> QED BY <3>1, <3>3
  <2> QED BY <2>1, <2>2
<1>3. /\ call[h] = Idle /\ ops < MaxOps /\ ops' = ops + 1
      /\ raced' = raced /\ banned' = banned /\ code' = code /\ request' = request
      /\ unsaved' = unsaved /\ forgotten' = forgotten
      /\ cache' = cache /\ overlapped' = overlapped
      /\ credits' = credits /\ enables' = enables /\ credited' = credited
  BY DEF TopUp, DecreaseUserQuota, Start, doubts
<1>4. /\ row' \in [Users -> Rows] /\ ledger' \in [Users -> Int] /\ LedgerExact'
      /\ \A v \in Users : row'[v].status = row[v].status
      /\ \A v \in Users \ {u} : row'[v].quota = row[v].quota
  BY <1>1, <1>2, <1>3, MoneyMoves DEF IInv
<1>5. /\ Others(h, u) /\ call'[h] = Idle /\ call' \in [Handlers -> Calls \cup {Idle}]
  BY <1>1, <1>2, <1>3, OnceKeeps
<1>6. \A g \in Handlers \ {h} : Kept(g)
  BY <1>5 DEF Others
<1>7. call'[h].op = "idle" /\ call[h].op = "idle"
  BY <1>3, <1>5 DEF Idle
<1>8. Types'
  <2>1. \A g \in Handlers : Busy(g)' => Shape(call[g])'
    BY <1>1, <1>6, <1>7, ShapesKept
  <2>2. ops' \in 0..MaxOps
    BY <1>1, <1>3, AccountsAssumption DEF Types
  <2> QED BY <1>1, <1>3, <1>4, <1>5, <2>1, <2>2 DEF Types
<1>9. CopyFresh'
  BY <1>1, <1>4, <1>5, <1>7, FreshKept DEF IInv
<1>10. RequestTellsCredit'
  BY <1>3 DEF IInv, RequestTellsCredit
<1>11. CodesOwed'
  BY <1>1, <1>3, <1>6, <1>7, CodesKept DEF IInv
<1>12. OneSetter' /\ AloneRestores'
  BY <1>1, <1>3, <1>4, <1>6, <1>7, StatusKept DEF IInv, StatusOps
<1> QED BY <1>4, <1>8, <1>9, <1>10, <1>11, <1>12 DEF IInv

\* A credit of Redeem or ApproveRechargeRequest: the balance grows, the call ends.
LEMMA CreditMoves ==
  ASSUME IInv, NEW h \in Handlers, Busy(h), call[h].op \in {"redeem", "review"},
         row' = [row EXCEPT ![call[h].u].quota = @ + Amount],
         ledger' = [ledger EXCEPT ![call[h].u] = @ + Amount],
         overlapped' = overlapped, banned' = banned, unsaved' = unsaved,
         forgotten' = forgotten, Ends(h, call[h].u)
  PROVE  /\ row' \in [Users -> Rows] /\ ledger' \in [Users -> Int] /\ LedgerExact'
         /\ call' \in [Handlers -> Calls \cup {Idle}] /\ call'[h].op = "idle"
         /\ \A g \in Handlers \ {h} : Kept(g)
         /\ \A g \in Handlers : Busy(g)' => Shape(call[g])'
         /\ raced' = raced
         /\ CopyFresh' /\ OneSetter' /\ AloneRestores'
<1> DEFINE u == call[h].u
<1>1. Types /\ Amount \in Nat /\ u \in Users
  BY CallTypes, AccountsAssumption DEF IInv
<1>2. row[u].quota \in Nat /\ ledger[u] \in Int
  BY <1>1 DEF Types, Rows
<1>3. /\ row[u].quota + Amount \in Nat /\ ledger[u] + Amount \in Int
      /\ (ledger[u] + Amount) - ledger[u] = (row[u].quota + Amount) - row[u].quota
  BY <1>1, <1>2
<1>4. /\ row' \in [Users -> Rows] /\ ledger' \in [Users -> Int] /\ LedgerExact'
      /\ \A v \in Users : row'[v].status = row[v].status
      /\ \A v \in Users \ {u} : row'[v].quota = row[v].quota
  BY <1>1, <1>3, MoneyMoves DEF IInv
<1>5. Others(h, u) /\ call'[h] = Idle /\ call' \in [Handlers -> Calls \cup {Idle}]
  BY <1>1, EndsKeeps
<1>6. call'[h].op = "idle" /\ \A g \in Handlers \ {h} : Kept(g)
  BY <1>5 DEF Idle, Others
<1>7. raced' = raced
  BY DEF Ends, Races
<1>8. \A g \in Handlers : Busy(g)' => Shape(call[g])'
  BY <1>1, <1>6, ShapesKept
<1>9. CopyFresh'
  BY <1>1, <1>4, <1>5, <1>6, FreshKept DEF IInv
<1>10. OneSetter' /\ AloneRestores'
  BY <1>1, <1>4, <1>6, <1>7, StatusKept DEF IInv, StatusOps
<1> QED BY <1>4, <1>5, <1>6, <1>7, <1>8, <1>9, <1>10

\* A call of another operation than those on the status ends and leaves the
\* users alone.
LEMMA CallForgotten ==
  ASSUME IInv, NEW h \in Handlers, call[h].op \notin StatusOps,
         call' = [call EXCEPT ![h] = Idle], row' = row, banned' = banned, raced' = raced,
         unsaved' = unsaved, forgotten' = forgotten
  PROVE  /\ call' \in [Handlers -> Calls \cup {Idle}] /\ call'[h].op = "idle"
         /\ \A g \in Handlers \ {h} : Kept(g)
         /\ \A g \in Handlers : Busy(g)' => Shape(call[g])'
         /\ CopyFresh' /\ OneSetter' /\ AloneRestores'
<1>1. Types
  BY DEF IInv
<1>2. /\ call' \in [Handlers -> Calls \cup {Idle}] /\ call'[h] = Idle
      /\ \A g \in Handlers \ {h} : Kept(g)
  BY <1>1, AloneKeeps
<1>3. call'[h].op = "idle"
  BY <1>2 DEF Idle
<1>4. \A g \in Handlers : Busy(g)' => Shape(call[g])'
  BY <1>1, <1>2, <1>3, ShapesKept
<1>5. CopyFresh'
  BY <1>1, <1>2, <1>3, FreshSame DEF IInv
<1>6. OneSetter' /\ AloneRestores'
  BY <1>1, <1>2, <1>3, StatusKept DEF IInv, StatusOps
<1> QED BY <1>2, <1>3, <1>4, <1>5, <1>6

LEMMA RedeemCommitHolds ==
  ASSUME IInv, NEW h \in Handlers, RedeemCommit(h)
  PROVE  IInv'
<1> DEFINE c == call[h].x
<1>1. Types /\ call[h].op = "redeem" /\ Busy(h)
  BY CallTypes DEF IInv, RedeemCommit, At, Busy
<1>2. c \in Codes
  BY <1>1, CallTypes DEF Shape
<1>3. /\ banned' = banned /\ request' = request /\ cache' = cache /\ ops' = ops
      /\ unsaved' = unsaved /\ forgotten' = forgotten
      /\ overlapped' = overlapped /\ enables' = enables /\ credited' = credited
  BY DEF RedeemCommit, doubts
<1>4. RequestTellsCredit'
  BY <1>3 DEF IInv, RequestTellsCredit
<1>5. CASE /\ row' = [row EXCEPT ![call[h].u].quota = @ + Amount]
           /\ ledger' = [ledger EXCEPT ![call[h].u] = @ + Amount]
           /\ code' = [code EXCEPT ![c] = "used"]
           /\ credits' = [credits EXCEPT ![c] = @ + 1]
           /\ Ends(h, call[h].u)
  <2>1. /\ row' \in [Users -> Rows] /\ ledger' \in [Users -> Int] /\ LedgerExact'
        /\ call' \in [Handlers -> Calls \cup {Idle}] /\ call'[h].op = "idle"
        /\ \A g \in Handlers \ {h} : Kept(g)
        /\ \A g \in Handlers : Busy(g)' => Shape(call[g])'
        /\ raced' = raced
        /\ CopyFresh' /\ OneSetter' /\ AloneRestores'
    BY <1>1, <1>3, <1>5, CreditMoves
  <2>2. /\ code' \in [Codes -> {None, "enabled", "disabled", "used"}]
        /\ credits' \in [Codes -> Nat]
    BY <1>1, <1>2, <1>5 DEF Types
  <2>3. Types'
    BY <1>1, <1>3, <2>1, <2>2 DEF Types
  <2>4. CodesOwed'
    <3> SUFFICES ASSUME Serial PROVE CodesOwed'
      BY DEF CodesOwed
    <3>1. \A g \in Handlers : call'[g].op # "redeem"
      BY <1>1, <2>1 DEF IInv, CodesOwed, Kept
    <3>2. credits[c] < enables[c] /\ credits[c] \in Nat /\ enables[c] \in Nat
      BY <1>1, <1>2 DEF IInv, CodesOwed, Types
    <3>3. /\ credits'[c] = credits[c] + 1 /\ code'[c] = "used"
          /\ \A d \in Codes \ {c} : credits'[d] = credits[d] /\ code'[d] = code[d]
      BY <1>1, <1>2, <1>5 DEF Types
    <3>4. \A d \in Codes : credits'[d] <= enables'[d]
      BY <1>3, <3>2, <3>3 DEF IInv, CodesOwed
    <3>5. \A d \in Codes : code'[d] = "enabled" => credits'[d] < enables'[d]
      BY <1>3, <3>3 DEF IInv, CodesOwed
    <3> QED BY <3>1, <3>4, <3>5 DEF CodesOwed
  <2> QED BY <1>4, <2>1, <2>3, <2>4 DEF IInv
<1>6. CASE /\ call' = [call EXCEPT ![h] = Idle]
           /\ UNCHANGED <<row, ledger, code, credits, raced>>
  <2>1. /\ call' \in [Handlers -> Calls \cup {Idle}] /\ call'[h].op = "idle"
        /\ \A g \in Handlers \ {h} : Kept(g)
        /\ \A g \in Handlers : Busy(g)' => Shape(call[g])'
        /\ CopyFresh' /\ OneSetter' /\ AloneRestores'
    BY <1>1, <1>3, <1>6, CallForgotten DEF StatusOps
  <2>2. Types'
    BY <1>1, <1>3, <1>6, <2>1 DEF Types
  <2>3. LedgerExact'
    BY <1>3, <1>6 DEF IInv, LedgerExact
  <2>4. CodesOwed'
    BY <1>1, <1>3, <1>6, <2>1, CodesKept DEF IInv
  <2> QED BY <1>4, <2>1, <2>2, <2>3, <2>4 DEF IInv
<1> QED BY <1>5, <1>6 DEF RedeemCommit

\* Each step that enables a code counts it.
LEMMA CodesEdited ==
  ASSUME Types, CodesOwed, NEW h \in Handlers, \A g \in Handlers \ {h} : Kept(g),
         call'[h].op # "redeem", credits' = credits, NEW c \in Codes,
         NEW s \in {None, "enabled", "disabled", "used"},
         code' = [code EXCEPT ![c] = s],
         enables' = [enables EXCEPT ![c] = IF code[c] # "enabled" /\ s = "enabled"
                                           THEN @ + 1 ELSE @]
  PROVE  CodesOwed' /\ code' \in [Codes -> {None, "enabled", "disabled", "used"}]
         /\ enables' \in [Codes -> Nat]
<1>1. /\ code' \in [Codes -> {None, "enabled", "disabled", "used"}]
      /\ enables' \in [Codes -> Nat]
  BY DEF Types
<1>2. /\ code'[c] = s
      /\ enables'[c] = IF code[c] # "enabled" /\ s = "enabled" THEN enables[c] + 1 ELSE enables[c]
      /\ \A d \in Codes \ {c} : enables'[d] = enables[d] /\ code'[d] = code[d]
  BY DEF Types
<1>3. \A d \in Codes : credits[d] \in Nat /\ enables[d] \in Nat
  BY DEF Types
<1>4. \A g \in Handlers : call'[g].op = "redeem" =>
        g # h /\ call[g].op = "redeem" /\ call'[g].x = call[g].x /\ call[g].x \in Codes
  BY CallTypes DEF Kept, Busy, Shape
<1>5. CodesOwed'
  <2> SUFFICES ASSUME Serial PROVE CodesOwed'
    BY DEF CodesOwed
  <2>1. \A d \in Codes : credits[d] <= enables[d] /\ enables[d] <= enables'[d]
    BY <1>2, <1>3 DEF CodesOwed
  <2>2. \A d \in Codes : credits'[d] <= enables'[d]
    <3>1. \A d \in Codes : enables'[d] \in Nat
      BY <1>1
    <3> QED BY <1>3, <2>1, <3>1
  <2>3. \A d \in Codes : code'[d] = "enabled" => credits'[d] < enables'[d]
    <3>1. CASE code[c] = "enabled" \/ s # "enabled"
      BY <1>2, <3>1 DEF CodesOwed
    <3>2. CASE code[c] # "enabled" /\ s = "enabled"
      BY <1>2, <1>3, <2>1, <3>2 DEF CodesOwed
    <3> QED BY <3>1, <3>2
  <2>4. \A g \in Handlers : call'[g].op = "redeem" => credits'[call'[g].x] < enables'[call'[g].x]
    <3> SUFFICES ASSUME NEW g \in Handlers, call'[g].op = "redeem"
                 PROVE  credits[call[g].x] < enables'[call[g].x]
      BY <1>4
    <3>1. /\ call[g].x \in Codes /\ credits[call[g].x] < enables[call[g].x]
      BY <1>4 DEF CodesOwed
    <3> QED BY <1>1, <1>3, <2>1, <3>1
  <2>5. \A g, k \in Handlers : call'[g].op = "redeem" /\ call'[k].op = "redeem" => g = k
    BY <1>4 DEF CodesOwed
  <2> QED BY <2>2, <2>3, <2>4, <2>5 DEF CodesOwed
<1> QED BY <1>1, <1>5

LEMMA EditCodeHolds ==
  ASSUME IInv, NEW h \in Handlers, EditCodeWrite(h) \/ AddOrDeleteCode(h)
  PROVE  IInv'
<1>1. Types
  BY DEF IInv
<1>2. /\ raced' = raced /\ row' = row /\ banned' = banned /\ request' = request
      /\ unsaved' = unsaved /\ forgotten' = forgotten
      /\ cache' = cache /\ ledger' = ledger /\ overlapped' = overlapped
      /\ credits' = credits /\ credited' = credited
      /\ call' = [call EXCEPT ![h] = Idle] /\ call[h].op \notin StatusOps
      /\ ops' \in 0..MaxOps
  <2>1. CASE EditCodeWrite(h)
    BY <1>1, <2>1 DEF EditCodeWrite, At, StatusOps, Types, doubts
  <2>2. CASE AddOrDeleteCode(h)
    <3>1. call[h] = Idle /\ call' = call
      BY <2>2 DEF AddOrDeleteCode, Start
    <3>2. call' = [call EXCEPT ![h] = Idle] /\ call[h].op = "idle"
      BY <1>1, <3>1 DEF Types, Idle
    <3>3. ops' \in 0..MaxOps
      BY <1>1, <2>2, AccountsAssumption DEF AddOrDeleteCode, Start, Types
    <3> QED BY <2>2, <3>2, <3>3 DEF AddOrDeleteCode, StatusOps, doubts
  <2> QED BY <2>1, <2>2
<1>3. /\ call' \in [Handlers -> Calls \cup {Idle}] /\ call'[h].op = "idle"
      /\ \A g \in Handlers \ {h} : Kept(g)
      /\ \A g \in Handlers : Busy(g)' => Shape(call[g])'
      /\ CopyFresh' /\ OneSetter' /\ AloneRestores'
  BY <1>2, CallForgotten
<1>4. PICK c \in Codes, s \in {None, "enabled", "disabled", "used"} :
        /\ code' = [code EXCEPT ![c] = s]
        /\ enables' = [enables EXCEPT ![c] = IF code[c] # "enabled" /\ s = "enabled"
                                             THEN @ + 1 ELSE @]
  <2>1. CASE EditCodeWrite(h)
    <3> DEFINE c == call[h].x
               s == IF code[c] = None THEN None ELSE call[h].want
    <3>1. Busy(h) /\ call[h].op = "code"
      BY <1>1, <2>1, CallTypes DEF EditCodeWrite, At
    <3>2. c \in Codes /\ call[h].want \in {"enabled", "disabled", "used"}
      BY <1>1, <3>1, CallTypes DEF Shape
    <3>3. s \in {None, "enabled", "disabled", "used"}
      BY <3>2
    <3>4. code' = [code EXCEPT ![c] = s] /\ code'[c] = s
      BY <1>1, <2>1, <3>2 DEF EditCodeWrite, Types
    <3>5. enables' = [enables EXCEPT ![c] = IF code[c] # "enabled" /\ s = "enabled"
                                            THEN @ + 1 ELSE @]
      <4>1. enables' = IF code[c] # "enabled" /\ code'[c] = "enabled"
                       THEN [enables EXCEPT ![c] = @ + 1] ELSE enables
        BY <2>1 DEF EditCodeWrite
      <4> QED BY <1>1, <3>2, <3>4, <4>1 DEF Types
    <3> QED BY <3>2, <3>3, <3>4, <3>5
  <2>2. CASE AddOrDeleteCode(h)
    <3>1. PICK c \in Codes :
            /\ code' = [code EXCEPT ![c] = IF code[c] = None THEN "enabled" ELSE None]
            /\ enables' = IF code[c] = None THEN [enables EXCEPT ![c] = @ + 1] ELSE enables
      BY <2>2 DEF AddOrDeleteCode
    <3> DEFINE s == IF code[c] = None THEN "enabled" ELSE None
    <3>2. enables' = [enables EXCEPT ![c] = IF code[c] # "enabled" /\ s = "enabled"
                                            THEN @ + 1 ELSE @]
      BY <1>1, <3>1 DEF Types, None
    <3> QED BY <3>1, <3>2
  <2> QED BY <2>1, <2>2
<1>5. CodesOwed' /\ code' \in [Codes -> {None, "enabled", "disabled", "used"}]
      /\ enables' \in [Codes -> Nat]
  BY <1>1, <1>2, <1>3, <1>4, CodesEdited DEF IInv
<1>6. Types'
  BY <1>1, <1>2, <1>3, <1>5 DEF Types
<1>7. LedgerExact' /\ RequestTellsCredit'
  BY <1>2 DEF IInv, LedgerExact, RequestTellsCredit
<1> QED BY <1>3, <1>5, <1>6, <1>7 DEF IInv

LEMMA CreateRechargeHolds ==
  ASSUME IInv, NEW h \in Handlers, CreateRechargeRequest(h)
  PROVE  IInv'
<1>1. Types
  BY DEF IInv
<1>2. PICK r \in Requests : request[r] = None /\ request' = [request EXCEPT ![r] = "pending"]
  BY DEF CreateRechargeRequest
<1>3. /\ ops < MaxOps /\ ops' = ops + 1 /\ call[h] = Idle
      /\ UNCHANGED <<raced, unsaved, forgotten, row, banned, code, cache, call, ledger, overlapped, credits,
                     enables, credited>>
  BY DEF CreateRechargeRequest, Start, audit, doubts
<1>4. request' \in [Requests -> {None, "pending", "approved", "rejected"}]
  BY <1>1, <1>2 DEF Types
<1>5. ops' \in 0..MaxOps
  BY <1>1, <1>3, AccountsAssumption DEF Types
<1>6. Types'
  BY <1>1, <1>3, <1>4, <1>5 DEF Types, Busy
<1>7. RequestTellsCredit'
  BY <1>1, <1>2, <1>3 DEF IInv, RequestTellsCredit, Types, None
<1>8. CopyFresh' /\ LedgerExact' /\ CodesOwed'
  BY <1>3 DEF IInv, CopyFresh, LedgerExact, CodesOwed, Busy
<1>9. OneSetter' /\ AloneRestores'
  BY <1>3 DEF IInv, OneSetter, AloneRestores, Setter, Agree, Meant, Halfway, Wanted
<1> QED BY <1>6, <1>7, <1>8, <1>9 DEF IInv

LEMMA ApproveHolds ==
  ASSUME IInv, NEW h \in Handlers, ApproveRechargeRequest(h)
  PROVE  IInv'
<1> DEFINE r == call[h].x
<1>1. Types /\ call[h].op = "review" /\ Busy(h)
  BY CallTypes DEF IInv, ApproveRechargeRequest, At, Busy
<1>2. r \in Requests
  BY <1>1, CallTypes DEF Shape
<1>3. /\ banned' = banned /\ code' = code /\ cache' = cache /\ ops' = ops
      /\ unsaved' = unsaved /\ forgotten' = forgotten
      /\ overlapped' = overlapped /\ enables' = enables /\ credits' = credits
  BY DEF ApproveRechargeRequest, doubts
<1>4. CASE /\ row' = [row EXCEPT ![call[h].u].quota = @ + Amount]
           /\ ledger' = [ledger EXCEPT ![call[h].u] = @ + Amount]
           /\ request' = [request EXCEPT ![r] = "approved"]
           /\ credited' = [credited EXCEPT ![r] = @ + 1]
           /\ Ends(h, call[h].u)
  <2>1. /\ row' \in [Users -> Rows] /\ ledger' \in [Users -> Int] /\ LedgerExact'
        /\ call' \in [Handlers -> Calls \cup {Idle}] /\ call'[h].op = "idle"
        /\ \A g \in Handlers \ {h} : Kept(g)
        /\ \A g \in Handlers : Busy(g)' => Shape(call[g])'
        /\ raced' = raced
        /\ CopyFresh' /\ OneSetter' /\ AloneRestores'
    BY <1>1, <1>3, <1>4, CreditMoves
  <2>2. /\ request' \in [Requests -> {None, "pending", "approved", "rejected"}]
        /\ credited' \in [Requests -> Nat]
    BY <1>1, <1>2, <1>4 DEF Types
  <2>3. Types'
    BY <1>1, <1>3, <2>1, <2>2 DEF Types
  <2>4. CodesOwed'
    BY <1>1, <1>3, <2>1, CodesKept DEF IInv
  <2>5. RequestTellsCredit'
    <3>1. /\ request'[r] = "approved" /\ credited'[r] = credited[r] + 1 /\ credited[r] \in Nat
          /\ \A q \in Requests \ {r} : request'[q] = request[q] /\ credited'[q] = credited[q]
      BY <1>1, <1>2, <1>4 DEF Types
    <3> QED BY <3>1 DEF IInv, RequestTellsCredit, None
  <2> QED BY <2>1, <2>3, <2>4, <2>5 DEF IInv
<1>5. CASE /\ call' = [call EXCEPT ![h] = Idle]
           /\ UNCHANGED <<row, ledger, request, credited, raced>>
  <2>1. /\ call' \in [Handlers -> Calls \cup {Idle}] /\ call'[h].op = "idle"
        /\ \A g \in Handlers \ {h} : Kept(g)
        /\ \A g \in Handlers : Busy(g)' => Shape(call[g])'
        /\ CopyFresh' /\ OneSetter' /\ AloneRestores'
    BY <1>1, <1>3, <1>5, CallForgotten DEF StatusOps
  <2>2. Types'
    BY <1>1, <1>3, <1>5, <2>1 DEF Types
  <2>3. LedgerExact' /\ RequestTellsCredit'
    BY <1>3, <1>5 DEF IInv, LedgerExact, RequestTellsCredit
  <2>4. CodesOwed'
    BY <1>1, <1>3, <1>5, <2>1, CodesKept DEF IInv
  <2> QED BY <2>1, <2>2, <2>3, <2>4 DEF IInv
<1> QED BY <1>4, <1>5 DEF ApproveRechargeRequest

LEMMA RejectHolds ==
  ASSUME IInv, NEW h \in Handlers, RejectRechargeRequest(h)
  PROVE  IInv'
<1> DEFINE r == call[h].x
<1>1. Types /\ call[h].op = "review" /\ Busy(h)
  BY CallTypes DEF IInv, RejectRechargeRequest, At, Busy
<1>2. r \in Requests
  BY <1>1, CallTypes DEF Shape
<1>3. /\ request' = [request EXCEPT ![r] = "rejected"] /\ call' = [call EXCEPT ![h] = Idle]
      /\ UNCHANGED <<raced, unsaved, forgotten, row, banned, code, cache, ops, ledger, overlapped, credits,
                     enables, credited>>
  BY DEF RejectRechargeRequest, audit, doubts
<1>4. /\ call' \in [Handlers -> Calls \cup {Idle}] /\ call'[h].op = "idle"
      /\ \A g \in Handlers \ {h} : Kept(g)
      /\ \A g \in Handlers : Busy(g)' => Shape(call[g])'
      /\ CopyFresh' /\ OneSetter' /\ AloneRestores'
  BY <1>1, <1>3, CallForgotten DEF StatusOps
<1>5. request' \in [Requests -> {None, "pending", "approved", "rejected"}]
  BY <1>1, <1>2, <1>3 DEF Types
<1>6. Types'
  BY <1>1, <1>3, <1>4, <1>5 DEF Types
<1>7. RequestTellsCredit'
  BY <1>1, <1>2, <1>3 DEF IInv, RequestTellsCredit, Types, None
<1>8. LedgerExact'
  BY <1>3 DEF IInv, LedgerExact
<1>9. CodesOwed'
  BY <1>1, <1>3, <1>4, CodesKept DEF IInv
<1> QED BY <1>4, <1>6, <1>7, <1>8, <1>9 DEF IInv

LEMMA AuthFillHolds ==
  ASSUME IInv, NEW h \in Handlers, AuthFill(h)
  PROVE  IInv'
<1>1. Types /\ call[h].op = "auth" /\ Busy(h)
  BY CallTypes DEF IInv, AuthFill, At, Busy
<1>2. call[h].u \in Users /\ call[h].copy.status \in Status
  BY <1>1, CallTypes DEF Rows
<1>3. /\ cache' = [cache EXCEPT ![call[h].u] = [status |-> call[h].copy.status, ttl |-> TRUE]]
      /\ call' = [call EXCEPT ![h] = Idle]
      /\ UNCHANGED <<raced, unsaved, forgotten, row, banned, code, request, ops, ledger, overlapped, credits,
                     enables, credited>>
  BY DEF AuthFill, audit, doubts
<1>4. /\ call' \in [Handlers -> Calls \cup {Idle}] /\ call'[h].op = "idle"
      /\ \A g \in Handlers \ {h} : Kept(g)
      /\ \A g \in Handlers : Busy(g)' => Shape(call[g])'
      /\ CopyFresh' /\ OneSetter' /\ AloneRestores'
  BY <1>1, <1>3, CallForgotten DEF StatusOps
<1>5. cache' \in [Users -> [status : Status \cup {None}, ttl : BOOLEAN]]
  BY <1>1, <1>2, <1>3 DEF Types
<1>6. Types'
  BY <1>1, <1>3, <1>4, <1>5 DEF Types
<1>7. LedgerExact' /\ RequestTellsCredit'
  BY <1>3 DEF IInv, RequestTellsCredit, LedgerExact
<1>8. CodesOwed'
  BY <1>1, <1>3, <1>4, CodesKept DEF IInv
<1> QED BY <1>4, <1>6, <1>7, <1>8 DEF IInv

\* What the invariant says does not depend on the copies in Redis.
LEMMA CacheOnlyHolds ==
  ASSUME IInv, cache' \in [Users -> [status : Status \cup {None}, ttl : BOOLEAN]],
         UNCHANGED <<raced, unsaved, forgotten, row, banned, code, request, call, ops, ledger, overlapped, credits,
                     enables, credited>>
  PROVE  IInv'
<1>1. Types'
  BY DEF IInv, Types, Busy
<1>2. CopyFresh' /\ LedgerExact' /\ CodesOwed' /\ RequestTellsCredit'
  BY DEF IInv, CopyFresh, LedgerExact, CodesOwed, Busy, RequestTellsCredit
<1>3. OneSetter' /\ AloneRestores'
  BY DEF IInv, OneSetter, AloneRestores, Setter, Agree, Meant, Halfway, Wanted
<1> QED BY <1>1, <1>2, <1>3 DEF IInv

LEMMA ExpireHolds ==
  ASSUME IInv, NEW u \in Users, Expire(u)
  PROVE  IInv'
<1>1. cache \in [Users -> [status : Status \cup {None}, ttl : BOOLEAN]]
  BY DEF IInv, Types
<1>2. [cache[u] EXCEPT !.status = None] \in [status : Status \cup {None}, ttl : BOOLEAN]
  BY <1>1
<1>3. cache' = [cache EXCEPT ![u] = [cache[u] EXCEPT !.status = None]]
  BY <1>1 DEF Expire
<1>4. cache' \in [Users -> [status : Status \cup {None}, ttl : BOOLEAN]]
  BY <1>1, <1>2, <1>3
<1> QED BY <1>4, CacheOnlyHolds DEF Expire, audit, doubts

----------------------------------------------------------------------------
(* The steps that set a status or the blacklist *)

\* What Steps and Ends do to raced.
LEMMA RacedKeeps ==
  ASSUME Types, NEW h \in Handlers, NEW u \in Users, Setter(h, u),
         Steps(h, u) \/ Ends(h, u)
  PROVE  /\ raced' \in SUBSET Users
         /\ \A v \in Users \ {u} : v \in raced' <=> v \in raced
         /\ Rivals(h, u) # {} => u \in raced'
         /\ u \notin raced' => \/ u \notin raced
                               \/ call[h].op \in {"profile", "manage"} /\ ~call[h].stale
<1>1. raced \in SUBSET Users
  BY DEF Types
<1>2. raced' \in {raced, raced \cup {u}, raced \ {u}}
  BY DEF Steps, Ends
<1>3. Rivals(h, u) # {} => raced' = raced \cup {u}
  BY DEF Steps, Ends, Races, Setter, StatusOps
<1>4. \/ raced' = raced \/ u \in raced'
      \/ call[h].op \in {"profile", "manage"} /\ ~call[h].stale
  BY DEF Steps, Ends
<1> QED BY <1>1, <1>2, <1>3, <1>4

\* The frame of such a step: one user, the blacklist and the books.
SetterFrame(h) ==
  LET u == call[h].u IN
  /\ row' \in [Users -> Rows] /\ \A v \in Users \ {u} : row'[v] = row[v]
  /\ row'[u].quota = row[u].quota \/ call[h].stale \/ call'[h].op = "idle"
  /\ banned' \in SUBSET Users /\ \A v \in Users \ {u} : v \in banned' <=> v \in banned
  /\ unsaved' \in [Users -> Status \cup {None}]
  /\ \A v \in Users \ {u} : unsaved'[v] = unsaved[v]
  /\ forgotten' \in SUBSET Users
  /\ \A v \in Users \ {u} : v \in forgotten' <=> v \in forgotten
  /\ ledger' \in [Users -> Int] /\ overlapped' \in [Users -> BOOLEAN]
  /\ UNCHANGED <<code, request, cache, ops, credits, enables, credited>>

LEMMA SetterHolds ==
  ASSUME IInv, NEW h \in Handlers, NEW u \in Users, Setter(h, u), SetterFrame(h), LedgerExact',
         \/ /\ Steps(h, u) /\ call[h].step < 3 /\ Shape(call'[h])
            /\ Halfway(h)'
         \/ /\ Ends(h, u)
            /\ Rivals(h, u) = {} /\ u \notin raced' => Agree(u)'
  PROVE  IInv'
<1>1. Types /\ Busy(h) /\ call[h].op \in StatusOps /\ call[h].u = u
  BY CallTypes DEF IInv, Busy, StatusOps, Setter
<1>2. call[h].step \in 1..3 /\ call[h].copy \in Rows
  BY <1>1, CallTypes
<1>3. /\ Others(h, u) /\ call' \in [Handlers -> Calls \cup {Idle}]
      /\ \/ call'[h].op = "idle"
         \/ /\ Shape(call'[h]) /\ Setter(h, u)' /\ call'[h].op = call[h].op
            /\ call'[h].copy = call[h].copy /\ call'[h].u = u
            /\ call'[h].step > 1 /\ call'[h].stale = call[h].stale
  <2>1. CASE Steps(h, u) /\ call[h].step < 3 /\ Shape(call'[h])
    <3>1. /\ Others(h, u)
          /\ call' \in [Handlers -> Calls \cup {Idle}]
          /\ call'[h].op = call[h].op /\ call'[h].u = u
          /\ call'[h].copy = call[h].copy
          /\ call'[h].step = call[h].step + 1 /\ call'[h].stale = call[h].stale
      BY <1>1, <2>1, StepsKeeps
    <3> QED BY <1>2, <2>1, <3>1 DEF Setter
  <2>2. CASE Ends(h, u)
    BY <1>1, <2>2, EndsKeeps DEF Idle
  <2> QED BY <2>1, <2>2
<1>4. \A g \in Handlers \ {h} : Kept(g)
  BY <1>3 DEF Others
<1>5. /\ raced' \in SUBSET Users
      /\ \A v \in Users \ {u} : v \in raced' <=> v \in raced
      /\ Rivals(h, u) # {} => u \in raced'
  BY <1>1, RacedKeeps
<1>6. Types'
  <2>1. \A g \in Handlers : Busy(g)' => Shape(call[g])'
    BY <1>1, <1>3, <1>4, ShapesKept
  <2> QED BY <1>1, <1>3, <1>5, <2>1 DEF Types, SetterFrame
<1>7. CopyFresh'
  <2>1. \A v \in Users \ {u} : row'[v].quota = row[v].quota
    BY <1>1 DEF SetterFrame
  <2>2. call'[h].op # "idle" /\ ~call'[h].stale => call'[h].copy.quota = row'[call'[h].u].quota
    BY <1>1, <1>3 DEF IInv, CopyFresh, SetterFrame
  <2> QED BY <1>1, <1>3, <2>1, <2>2, FreshKept DEF IInv
<1>8. RequestTellsCredit'
  BY DEF IInv, RequestTellsCredit, SetterFrame
<1>9. CodesOwed'
  BY <1>1, <1>3, <1>4, CodesKept DEF IInv, StatusOps, SetterFrame
<1>10. OneSetter' /\ AloneRestores'
  <2>1. \A v \in Users \ {u} : /\ row'[v].status = row[v].status
                               /\ v \in banned' <=> v \in banned
                               /\ unsaved'[v] = unsaved[v]
                               /\ v \in forgotten' <=> v \in forgotten
                               /\ v \in raced' <=> v \in raced
    BY <1>1, <1>5 DEF SetterFrame
  <2>2. call'[h].op = "idle" /\ Rivals(h, u) = {} /\ u \notin raced' => Agree(u)'
    <3>1. CASE Steps(h, u) /\ call[h].step < 3
      <4>1. call'[h].op = call[h].op
        BY <1>1, <3>1, StepsKeeps
      <4> QED BY <1>1, <4>1 DEF StatusOps
    <3> QED BY <3>1
  <2>3. /\ call'[h].op # "idle"
        /\ \/ Rivals(h, u) = {} /\ u \notin raced'
           \/ call'[h].op \in {"profile", "manage"} /\ ~call'[h].stale
        => Halfway(h)'
    <3>1. CASE Ends(h, u)
      <4>1. call'[h].op = "idle"
        BY <1>1, <3>1, EndsKeeps DEF Idle
      <4> QED BY <4>1
    <3> QED BY <1>3, <3>1
  <2>4. Others(h, u) /\ (call'[h].op = "idle" \/ Setter(h, u)')
    BY <1>3
  <2>5. call'[h].op # "idle" => call'[h].step > 1
    BY <1>3
  <2>6. OneSetter /\ AloneRestores
    BY DEF IInv
  <2>7. Rivals(h, u) # {} => u \in raced'
    BY <1>5
  <2> QED BY <1>1, <2>1, <2>2, <2>3, <2>4, <2>5, <2>6, <2>7, SetterStep
<1> QED BY <1>6, <1>7, <1>8, <1>9, <1>10 DEF IInv

\* A step of the blacklist alone.
LEMMA BlacklistFrame ==
  ASSUME IInv, NEW h \in Handlers, NEW u \in Users, Setter(h, u),
         banned' \in {banned, banned \cup {u}, banned \ {u}},
         forgotten' \in {forgotten, forgotten \ {u}},
         unsaved' \in {unsaved, [unsaved EXCEPT ![u] = None]},
         UNCHANGED <<row, code, request, cache, ops, ledger, overlapped, credits, enables, credited>>
  PROVE  SetterFrame(h) /\ LedgerExact'
<1>1. Types /\ call[h].u = u
  BY DEF IInv, Setter
<1>2. LedgerExact'
  BY DEF IInv, LedgerExact
<1>3. /\ unsaved' \in [Users -> Status \cup {None}]
      /\ \A v \in Users \ {u} : unsaved'[v] = unsaved[v]
  BY <1>1 DEF Types
<1>4. /\ forgotten' \in SUBSET Users
      /\ \A v \in Users \ {u} : v \in forgotten' <=> v \in forgotten
  BY <1>1 DEF Types
<1> QED BY <1>1, <1>2, <1>3, <1>4 DEF SetterFrame, Types

LEMMA ProfileBlacklistHolds ==
  ASSUME IInv, NEW h \in Handlers, ProfileBlacklist(h)
  PROVE  IInv'
<1>1. Types /\ Busy(h) /\ call[h].op = "profile" /\ call[h].step = 1 /\ Steps(h, call[h].u)
  BY CallTypes DEF IInv, ProfileBlacklist, At
<1>2. PICK u \in Users : u = call[h].u
  BY <1>1, CallTypes
<1>3. Setter(h, u)
  BY <1>1, <1>2 DEF Setter, StatusOps
<1>4. call[h].copy.status = "enabled"
  BY <1>1, CallTypes DEF Shape
<1>5. banned' = banned \ {u} /\ forgotten' = forgotten \ {u} /\ unsaved' = unsaved
  BY <1>2, <1>4 DEF ProfileBlacklist, SetBlacklist, Unban
<1>6. SetterFrame(h) /\ LedgerExact'
  BY <1>3, <1>5, BlacklistFrame DEF ProfileBlacklist, audit, doubts
<1>7. /\ call'[h].op = "profile" /\ call'[h].u = u /\ call'[h].step = 2
      /\ call'[h].copy = call[h].copy
  BY <1>1, <1>2, StepsKeeps
<1>8. Shape(call'[h]) /\ Halfway(h)'
  BY <1>4, <1>5, <1>7 DEF Shape, Halfway
<1> QED BY <1>1, <1>2, <1>3, <1>6, <1>8, SetterHolds

LEMMA ManageBlacklistHolds ==
  ASSUME IInv, NEW h \in Handlers, ManageBlacklist(h)
  PROVE  IInv'
<1>1. Types /\ Busy(h) /\ call[h].op = "manage" /\ call[h].step = 1 /\ Steps(h, call[h].u)
  BY CallTypes DEF IInv, ManageBlacklist, At
<1>2. PICK u \in Users : u = call[h].u
  BY <1>1, CallTypes
<1>3. Setter(h, u)
  BY <1>1, <1>2 DEF Setter, StatusOps
<1>4. banned' = IF call[h].want = "deleted" THEN banned \cup {u}
                ELSE IF Wanted(h) = "disabled" THEN banned \cup {u}
                ELSE IF Wanted(h) = "enabled" THEN banned \ {u} ELSE banned
  BY <1>2 DEF ManageBlacklist, SetBlacklist, Ban, Unban
<1>12. forgotten' \in {forgotten, forgotten \ {u}} /\ unsaved' = unsaved
  BY <1>2 DEF ManageBlacklist, SetBlacklist, Ban, Unban
<1>5. SetterFrame(h) /\ LedgerExact'
  BY <1>3, <1>4, <1>12, BlacklistFrame DEF ManageBlacklist, audit, doubts
<1>6. /\ call'[h].op = "manage" /\ call'[h].u = u /\ call'[h].step = 2
      /\ call'[h].copy = call[h].copy /\ call'[h].want = call[h].want
  BY <1>1, <1>2, StepsKeeps
<1>7. Shape(call[h])
  BY <1>1, CallTypes
<1>8. Shape(call'[h])
  BY <1>1, <1>6, <1>7 DEF Shape
<1>9. Wanted(h)' = Wanted(h)
  BY <1>6 DEF Wanted
<1>10. call[h].want = "deleted" => Wanted(h) = "deleted"
  BY DEF Wanted
<1>11. Halfway(h)'
  BY <1>4, <1>6, <1>9, <1>10 DEF Halfway
<1> QED BY <1>1, <1>2, <1>3, <1>5, <1>8, <1>11, SetterHolds

LEMMA DeleteBanHolds ==
  ASSUME IInv, NEW h \in Handlers, DeleteBan(h)
  PROVE  IInv'
<1>1. Types /\ Busy(h) /\ call[h].op = "delete" /\ call[h].step = 1 /\ Steps(h, call[h].u)
  BY CallTypes DEF IInv, DeleteBan, At
<1>2. PICK u \in Users : u = call[h].u
  BY <1>1, CallTypes
<1>3. Setter(h, u)
  BY <1>1, <1>2 DEF Setter, StatusOps
<1>4. SetterFrame(h) /\ LedgerExact'
  BY <1>2, <1>3, BlacklistFrame DEF DeleteBan, Ban, audit, doubts
<1>5. call'[h].op = "delete" /\ call'[h].step = 2
  BY <1>1, StepsKeeps
<1>6. Shape(call'[h]) /\ Halfway(h)'
  BY <1>5 DEF Shape, Halfway
<1> QED BY <1>1, <1>2, <1>3, <1>4, <1>6, SetterHolds

LEMMA AdminBlacklistHolds ==
  ASSUME IInv, NEW h \in Handlers, AdminBlacklist(h)
  PROVE  IInv'
<1>1. Types /\ Busy(h) /\ call[h].op = "admin" /\ call[h].step = 2 /\ Ends(h, call[h].u)
  BY CallTypes DEF IInv, AdminBlacklist, At
<1>2. PICK u \in Users : u = call[h].u
  BY <1>1, CallTypes
<1>3. Setter(h, u)
  BY <1>1, <1>2 DEF Setter, StatusOps
<1>4. /\ banned' = IF call[h].want = "disabled" THEN banned \cup {u}
                   ELSE IF call[h].want = "enabled" THEN banned \ {u} ELSE banned
      /\ forgotten' \in {forgotten, forgotten \ {u}}
      /\ unsaved' = [unsaved EXCEPT ![u] = None]
  BY <1>2 DEF AdminBlacklist, SetBlacklist, Ban, Unban, Saved
<1>5. SetterFrame(h) /\ LedgerExact'
  BY <1>3, <1>4, BlacklistFrame DEF AdminBlacklist, audit, doubts
<1>6. ASSUME u \notin raced' PROVE Agree(u)'
  <2>1. u \notin raced
    BY <1>1, <1>2, <1>3, <1>6, RacedKeeps
  <2>2. row[u].status = call[h].want
    BY <1>1, <1>2, <1>3, <2>1 DEF IInv, OneSetter, Halfway
  <2>3. row' = row /\ unsaved'[u] = None
    BY <1>1, <1>4 DEF AdminBlacklist, Types
  <2> QED BY <1>4, <2>2, <2>3 DEF Agree, Meant
<1> QED BY <1>1, <1>2, <1>3, <1>5, <1>6, SetterHolds

\* A step that writes the row of the user.
LEMMA RowFrame ==
  ASSUME IInv, NEW h \in Handlers, NEW u \in Users, Setter(h, u), NEW w \in Rows,
         row' = [row EXCEPT ![u] = w],
         w.quota = row[u].quota \/ call[h].stale \/ call'[h].op = "idle",
         unsaved' \in {unsaved, [unsaved EXCEPT ![u] = None]}, forgotten' = forgotten,
         banned' = banned, ledger' \in [Users -> Int], overlapped' \in [Users -> BOOLEAN],
         code' = code, request' = request, cache' = cache, ops' = ops,
         credits' = credits, enables' = enables, credited' = credited
  PROVE  SetterFrame(h) /\ row'[u] = w
<1>1. Types /\ call[h].u = u
  BY DEF IInv, Setter
<1>2. /\ row' \in [Users -> Rows] /\ row'[u] = w
      /\ \A v \in Users \ {u} : row'[v] = row[v]
  BY <1>1 DEF Types
<1>3. /\ unsaved' \in [Users -> Status \cup {None}]
      /\ \A v \in Users \ {u} : unsaved'[v] = unsaved[v]
  BY <1>1 DEF Types
<1> QED BY <1>1, <1>2, <1>3 DEF SetterFrame, Types

\* User.Update: the balance stays, or the save is known to have overlapped.
LEMMA SaveRowFrame ==
  ASSUME IInv, NEW h \in Handlers, NEW u \in Users, Setter(h, u),
         NEW copy \in Rows, copy.quota = call[h].copy.quota, SaveRow(h, copy),
         UNCHANGED <<forgotten, banned, ledger, code, request, cache, ops, credits, enables, credited>>
  PROVE  SetterFrame(h) /\ LedgerExact' /\ row'[u].status = copy.status /\ unsaved'[u] = None
<1>0. PICK w : w = NonZero(copy, row[u])
  OBVIOUS
<1>1. Types /\ call[h].u = u /\ Busy(h)
  BY DEF IInv, Setter, Busy, StatusOps
<1>2. row[u] \in Rows /\ row[u].quota \in Nat /\ copy.quota \in Nat
  BY <1>1 DEF Types, Rows
<1>3. w \in Rows /\ w.quota = (IF copy.quota = 0 THEN row[u].quota ELSE copy.quota)
      /\ w.status = copy.status
  BY <1>0, <1>2 DEF NonZero, Rows
<1>4. row' = [row EXCEPT ![u] = w] /\ overlapped' = [overlapped EXCEPT ![u] = @ \/ call[h].stale]
  BY <1>0, <1>1 DEF SaveRow
<1>10. /\ unsaved' \in [Users -> Status \cup {None}] /\ unsaved'[u] = None
       /\ \A v \in Users \ {u} : unsaved'[v] = unsaved[v]
  BY <1>1 DEF SaveRow, Saved, Types
<1>5. ~call[h].stale => w.quota = row[u].quota
  BY <1>1, <1>3 DEF IInv, CopyFresh
<1>6. call[h].stale \in BOOLEAN
  BY <1>1, CallTypes
<1>7. /\ overlapped' \in [Users -> BOOLEAN]
      /\ overlapped'[u] <=> (overlapped[u] \/ call[h].stale)
      /\ \A v \in Users \ {u} : overlapped'[v] = overlapped[v]
  BY <1>1, <1>4, <1>6 DEF Types
<1>8. SetterFrame(h) /\ row'[u] = w
  <2>1. /\ row' \in [Users -> Rows] /\ row'[u] = w
        /\ \A v \in Users \ {u} : row'[v] = row[v]
    BY <1>1, <1>3, <1>4 DEF Types
  <2>2. ledger' \in [Users -> Int] /\ banned' \in SUBSET Users /\ forgotten' \in SUBSET Users
    BY <1>1 DEF Types
  <2> QED BY <1>1, <1>5, <1>7, <1>10, <2>1, <2>2 DEF SetterFrame
<1>9. ASSUME NEW v \in Users PROVE row'[v].quota = ledger'[v] \/ overlapped'[v]
  <2>1. row[v].quota = ledger[v] \/ overlapped[v]
    BY DEF IInv, LedgerExact
  <2>2. CASE v = u
    BY <1>5, <1>7, <1>8, <2>1, <2>2
  <2>3. CASE v # u
    BY <1>1, <1>7, <1>8, <2>1, <2>3 DEF SetterFrame
  <2> QED BY <2>2, <2>3
<1> QED BY <1>3, <1>8, <1>9, <1>10 DEF LedgerExact

LEMMA ProfileWriteHolds ==
  ASSUME IInv, NEW h \in Handlers, ProfileWrite(h)
  PROVE  IInv'
<1>1. Types /\ Busy(h) /\ call[h].op = "profile" /\ call[h].step = 2 /\ Ends(h, call[h].u)
  BY CallTypes DEF IInv, ProfileWrite, At
<1>2. PICK u \in Users : u = call[h].u
  BY <1>1, CallTypes
<1>3. Setter(h, u)
  BY <1>1, <1>2 DEF Setter, StatusOps
<1>4. PICK copy : copy = [call[h].copy EXCEPT !.profile = 1]
  OBVIOUS
<1>5. /\ copy \in Rows /\ copy.quota = call[h].copy.quota /\ copy.status = "enabled"
  <2>1. call[h].copy \in Rows /\ call[h].copy.status = "enabled"
    BY <1>1, CallTypes DEF Shape
  <2> QED BY <1>4, <2>1 DEF Rows
<1>6. /\ SaveRow(h, copy)
      /\ UNCHANGED <<forgotten, banned, ledger, code, request, cache, ops, credits, enables, credited>>
  BY <1>4 DEF ProfileWrite
<1>7. SetterFrame(h) /\ LedgerExact' /\ row'[u].status = "enabled" /\ unsaved'[u] = None
  BY <1>3, <1>5, <1>6, SaveRowFrame
<1>8. ASSUME u \notin raced' PROVE Agree(u)'
  <2>1. u \notin raced \/ ~call[h].stale
    BY <1>1, <1>2, <1>3, <1>8, RacedKeeps
  <2>2. Halfway(h)
    BY <1>1, <1>2, <1>3, <2>1 DEF IInv, OneSetter, AloneRestores
  <2> QED BY <1>1, <1>2, <1>6, <1>7, <2>2 DEF Agree, Meant, Halfway
<1> QED BY <1>1, <1>2, <1>3, <1>7, <1>8, SetterHolds

LEMMA ManageWriteHolds ==
  ASSUME IInv, NEW h \in Handlers, ManageWrite(h)
  PROVE  IInv'
<1>1. PICK n \in 2..3 :
        /\ At(h, "manage", n)
        /\ SaveRow(h, [call[h].copy EXCEPT !.status = Wanted(h),
                         !.profile = IF call[h].want \in {"role", "deleted"} THEN 1 ELSE @])
        /\ IF n = 2 /\ call[h].want = "deleted" THEN Steps(h, call[h].u) ELSE Ends(h, call[h].u)
  BY DEF ManageWrite
<1>2. Types /\ Busy(h) /\ call[h].op = "manage" /\ call[h].step = n
  BY <1>1, CallTypes DEF IInv, At
<1>3. PICK u \in Users : u = call[h].u
  BY <1>2, CallTypes
<1>4. Setter(h, u)
  BY <1>2, <1>3 DEF Setter, StatusOps
<1>5. call[h].want \in Status \cup {"role"} /\ call[h].copy \in Rows /\ Shape(call[h])
  BY <1>2, CallTypes DEF Shape
<1>6. PICK copy : copy = [call[h].copy EXCEPT !.status = Wanted(h),
                            !.profile = IF call[h].want \in {"role", "deleted"} THEN 1 ELSE @]
  OBVIOUS
<1>7. copy \in Rows /\ copy.quota = call[h].copy.quota /\ copy.status = Wanted(h)
  <2>1. Wanted(h) \in Status
    BY <1>5 DEF Wanted, Rows
  <2>2. PICK p \in 0..1 : p = IF call[h].want \in {"role", "deleted"} THEN 1
                              ELSE call[h].copy.profile
    BY <1>5 DEF Rows
  <2>3. copy = [call[h].copy EXCEPT !.status = Wanted(h), !.profile = p]
    BY <1>6, <2>2
  <2> QED BY <1>5, <2>1, <2>3 DEF Rows
<1>8. /\ SaveRow(h, copy)
      /\ UNCHANGED <<forgotten, banned, ledger, code, request, cache, ops, credits, enables, credited>>
  BY <1>1, <1>6 DEF ManageWrite
<1>9. SetterFrame(h) /\ LedgerExact' /\ row'[u].status = Wanted(h) /\ unsaved'[u] = None
  BY <1>4, <1>7, <1>8, SaveRowFrame
<1>10. CASE n = 2 /\ call[h].want = "deleted"
  <2>1. Steps(h, u) /\ call[h].step = 2
    BY <1>1, <1>2, <1>3, <1>10
  <2>2. /\ call'[h].op = "manage" /\ call'[h].want = "deleted" /\ call'[h].step = 3
        /\ call'[h].copy = call[h].copy
    BY <1>2, <1>3, <1>10, <2>1, StepsKeeps
  <2>3. Shape(call'[h])
    BY <2>2 DEF Shape, Status
  <2>4. Wanted(h)' = "deleted"
    BY <2>2 DEF Wanted
  <2>5. Halfway(h)'
    BY <2>2, <2>4 DEF Halfway
  <2> QED BY <1>3, <1>4, <1>9, <2>1, <2>3, <2>5, SetterHolds
<1>11. CASE ~(n = 2 /\ call[h].want = "deleted")
  <2>1. Ends(h, u)
    BY <1>1, <1>3, <1>11
  <2>2. ASSUME u \notin raced' PROVE Agree(u)'
    <3>1. u \notin raced \/ ~call[h].stale
      BY <1>2, <1>4, <2>1, <2>2, RacedKeeps
    <3>2. call[h].step > 1
      BY <1>2
    <3>3. Halfway(h)
      BY <1>2, <1>4, <3>1, <3>2 DEF IInv, OneSetter, AloneRestores
    <3> QED BY <1>2, <1>3, <1>8, <1>9, <3>3 DEF Agree, Meant, Halfway
  <2> QED BY <1>4, <1>9, <2>1, <2>2, SetterHolds
<1> QED BY <1>10, <1>11

LEMMA DeleteWriteHolds ==
  ASSUME IInv, NEW h \in Handlers, DeleteWrite(h)
  PROVE  IInv'
<1>1. Types /\ Busy(h) /\ call[h].op = "delete" /\ call[h].step = 2 /\ Ends(h, call[h].u)
  BY CallTypes DEF IInv, DeleteWrite, At
<1>2. PICK u \in Users : u = call[h].u
  BY <1>1, CallTypes
<1>3. Setter(h, u)
  BY <1>1, <1>2 DEF Setter, StatusOps
<1>4. row \in [Users -> Rows] /\ row[u] \in Rows
  BY <1>1 DEF Types
<1>5. PICK w : w = [row[u] EXCEPT !.status = "deleted"]
  OBVIOUS
<1>6. w \in Rows /\ w.quota = row[u].quota /\ w.status = "deleted"
  BY <1>4, <1>5 DEF Rows, Status
<1>7. row' = [row EXCEPT ![u] = w]
  BY <1>2, <1>4, <1>5 DEF DeleteWrite
<1>8. /\ UNCHANGED <<banned, code, request, cache, ops, ledger, overlapped, credits, enables, credited>>
      /\ forgotten' = forgotten /\ unsaved' = [unsaved EXCEPT ![u] = None] /\ unsaved'[u] = None
  BY <1>1, <1>2 DEF DeleteWrite, Saved, audit, Types
<1>9. ledger' \in [Users -> Int] /\ overlapped' \in [Users -> BOOLEAN]
  BY <1>1, <1>8 DEF Types
<1>10. SetterFrame(h) /\ row'[u] = w
  <2>1. /\ banned' = banned /\ code' = code /\ request' = request /\ cache' = cache /\ ops' = ops
        /\ credits' = credits /\ enables' = enables /\ credited' = credited
        /\ forgotten' = forgotten /\ unsaved' \in {unsaved, [unsaved EXCEPT ![u] = None]}
    BY <1>8
  <2>2. w \in Rows /\ (w.quota = row[u].quota \/ call[h].stale \/ call'[h].op = "idle")
    BY <1>6
  <2> QED BY <1>3, <1>7, <1>9, <2>1, <2>2, RowFrame
<1>11. LedgerExact'
  BY <1>2, <1>6, <1>8, <1>10 DEF IInv, LedgerExact, SetterFrame
<1>12. Agree(u)'
  BY <1>6, <1>8, <1>10 DEF Agree, Meant
<1> QED BY <1>1, <1>2, <1>3, <1>10, <1>11, <1>12, SetterHolds

LEMMA AdminWriteHolds ==
  ASSUME IInv, NEW h \in Handlers, AdminWrite(h)
  PROVE  IInv'
<1> DEFINE s == call[h].want
<1>1. Types /\ Busy(h) /\ call[h].op = "admin" /\ call[h].step = 1
  BY CallTypes DEF IInv, AdminWrite, At
<1>2. PICK u \in Users : u = call[h].u
  BY <1>1, CallTypes
<1>3. Setter(h, u)
  BY <1>1, <1>2 DEF Setter, StatusOps
<1>4. s \in Status \cup {None} /\ call[h].copy.status \in Status
  BY <1>1, CallTypes DEF Shape, Rows
<1>5. /\ row \in [Users -> Rows] /\ row[u] \in Rows /\ ledger \in [Users -> Int]
      /\ overlapped \in [Users -> BOOLEAN] /\ Quota0 \in Nat
  BY <1>1, AccountsAssumption DEF Types
<1>6. /\ banned' = banned /\ code' = code /\ request' = request /\ cache' = cache
      /\ ops' = ops /\ overlapped' = overlapped /\ credits' = credits
      /\ enables' = enables /\ credited' = credited
      /\ unsaved' = unsaved /\ forgotten' = forgotten
  BY DEF AdminWrite, doubts
<1>7. ASSUME Ends(h, u), u \notin raced', Rivals(h, u) = {}
      PROVE  Agree(u) /\ call[h].copy.status = row[u].status
  <2>1. u \notin raced
    BY <1>1, <1>3, <1>7, RacedKeeps
  <2>2. \A g \in Handlers : Setter(g, u) => g = h
    BY <1>1, <1>7, CallTypes DEF Rivals, Setter, StatusOps, Busy
  <2> QED BY <1>1, <1>2, <2>1, <2>2 DEF IInv, OneSetter
<1>8. CASE s = None
  <2>1. /\ row' = [row EXCEPT ![u].quota = Quota0] /\ ledger' = [ledger EXCEPT ![u] = Quota0]
        /\ Ends(h, u)
    BY <1>2, <1>8 DEF AdminWrite
  <2>2. PICK w : w = [row[u] EXCEPT !.quota = Quota0]
    OBVIOUS
  <2>3. w \in Rows /\ w.quota = Quota0 /\ w.status = row[u].status
    BY <1>5, <2>2 DEF Rows
  <2>4. row' = [row EXCEPT ![u] = w]
    BY <1>5, <2>1, <2>2
  <2>5. call'[h].op = "idle"
    BY <1>1, <1>2, <2>1, EndsKeeps DEF Idle
  <2>6. ledger' \in [Users -> Int] /\ overlapped' \in [Users -> BOOLEAN]
    BY <1>5, <1>6, <2>1
  <2>7. SetterFrame(h) /\ row'[u] = w
    <3>1. banned' = banned /\ w \in Rows /\ call'[h].op = "idle"
      BY <1>6, <2>3, <2>5
    <3>2. /\ code' = code /\ request' = request /\ cache' = cache /\ ops' = ops
          /\ credits' = credits /\ enables' = enables /\ credited' = credited
          /\ unsaved' = unsaved /\ forgotten' = forgotten
      BY <1>6
    <3> QED BY <1>3, <2>4, <2>6, <3>1, <3>2, RowFrame
  <2>8. LedgerExact'
    BY <1>2, <1>5, <1>6, <2>1, <2>3, <2>7 DEF IInv, LedgerExact, SetterFrame
  <2>9. Rivals(h, u) = {} /\ u \notin raced' => Agree(u)'
    BY <1>6, <1>7, <2>1, <2>3, <2>7 DEF Agree, Meant
  <2> QED BY <1>3, <2>1, <2>7, <2>8, <2>9, SetterHolds
<1>9. CASE s # None
  <2>1. /\ row' = [row EXCEPT ![u].status = s] /\ ledger' = ledger
        /\ s = call[h].copy.status => Ends(h, u)
        /\ s # call[h].copy.status => Steps(h, u)
    BY <1>2, <1>9 DEF AdminWrite
  <2>2. PICK w : w = [row[u] EXCEPT !.status = s]
    OBVIOUS
  <2>3. w \in Rows /\ w.quota = row[u].quota /\ w.status = s
    BY <1>4, <1>5, <1>9, <2>2 DEF Rows
  <2>4. row' = [row EXCEPT ![u] = w]
    BY <1>5, <2>1, <2>2
  <2>5. ledger' \in [Users -> Int] /\ overlapped' \in [Users -> BOOLEAN]
    BY <1>5, <1>6, <2>1
  <2>6. SetterFrame(h) /\ row'[u] = w
    <3>1. /\ banned' = banned /\ w \in Rows
          /\ w.quota = row[u].quota \/ call[h].stale \/ call'[h].op = "idle"
      BY <1>6, <2>3
    <3>2. /\ code' = code /\ request' = request /\ cache' = cache /\ ops' = ops
          /\ credits' = credits /\ enables' = enables /\ credited' = credited
          /\ unsaved' = unsaved /\ forgotten' = forgotten
      BY <1>6
    <3> QED BY <1>3, <2>4, <2>5, <3>1, <3>2, RowFrame
  <2>7. LedgerExact'
    BY <1>2, <1>6, <2>1, <2>3, <2>6 DEF IInv, LedgerExact, SetterFrame
  <2>8. CASE s = call[h].copy.status
    <3>1. Ends(h, u)
      BY <2>1, <2>8
    <3>2. Rivals(h, u) = {} /\ u \notin raced' => Agree(u)'
      BY <1>6, <1>7, <2>3, <2>6, <2>8, <3>1 DEF Agree, Meant
    <3> QED BY <1>3, <2>6, <2>7, <3>1, <3>2, SetterHolds
  <2>9. CASE s # call[h].copy.status
    <3>1. Steps(h, u) /\ call[h].step < 3
      BY <1>1, <2>1, <2>9
    <3>2. /\ call'[h].op = "admin" /\ call'[h].u = u /\ call'[h].want = s /\ call'[h].step = 2
      BY <1>1, <1>2, <3>1, StepsKeeps
    <3>3. Shape(call'[h]) /\ Halfway(h)'
      BY <1>4, <1>9, <2>3, <2>6, <3>2 DEF Shape, Halfway
    <3> QED BY <1>3, <2>6, <2>7, <3>1, <3>3, SetterHolds
  <2> QED BY <2>8, <2>9
<1> QED BY <1>8, <1>9

\* A setter that is gone, having failed: the others find what they relied on.
LEMMA SetterGone ==
  ASSUME Types, OneSetter, AloneRestores, NEW h \in Handlers, NEW u \in Users, Setter(h, u),
         \A g \in Handlers \ {h} : call'[g] = call[g], call'[h].op = "idle",
         row' = row, banned' = banned, forgotten' = forgotten, raced' = raced,
         \A v \in Users \ {u} : unsaved'[v] = unsaved[v],
         u \notin raced => (call[h].step = 1 /\ unsaved'[u] = unsaved[u]) \/ Agree(u)'
  PROVE  OneSetter' /\ AloneRestores'
<1>1. \A g \in Handlers \ {h} : /\ Halfway(g)' <=> Halfway(g)
                                /\ \A v \in Users : Setter(g, v)' <=> Setter(g, v)
  BY DEF Halfway, Wanted, Setter
<1>2. \A v \in Users : ~Setter(h, v)'
  BY DEF Setter, StatusOps
<1>3. \A v \in Users : unsaved'[v] = unsaved[v] => (Agree(v)' <=> Agree(v))
  BY DEF Agree, Meant
<1>4. OneSetter'
  <2> SUFFICES ASSUME NEW v \in Users, v \notin raced
               PROVE  /\ \A g, k \in Handlers :
                           Setter(g, v)' /\ Setter(k, v)' /\ call'[g].step > 1 /\ call'[k].step > 1
                             => g = k
                      /\ (\A g \in Handlers : Setter(g, v)' => call'[g].step = 1) => Agree(v)'
                      /\ \A g \in Handlers : Setter(g, v)' /\ call'[g].step > 1 => Halfway(g)'
                      /\ \A g \in Handlers :
                           call'[g].op = "admin" /\ call'[g].u = v /\ call'[g].step = 1
                             => call'[g].copy.status = row'[v].status
    BY DEF OneSetter
  <2>1. \A g, k \in Handlers :
          Setter(g, v)' /\ Setter(k, v)' /\ call'[g].step > 1 /\ call'[k].step > 1 => g = k
    BY <1>1, <1>2 DEF OneSetter
  <2>2. ASSUME \A g \in Handlers : Setter(g, v)' => call'[g].step = 1
        PROVE  Agree(v)'
    <3>1. CASE v # u
      <4>1. \A g \in Handlers : Setter(g, v) => call[g].step = 1
        BY <1>1, <2>2, <3>1 DEF Setter
      <4> QED BY <1>3, <3>1, <4>1 DEF OneSetter
    <3>2. CASE v = u /\ call[h].step = 1 /\ unsaved'[u] = unsaved[u]
      <4>1. \A g \in Handlers : Setter(g, v) => call[g].step = 1
        BY <1>1, <2>2, <3>2
      <4> QED BY <1>3, <3>2, <4>1 DEF OneSetter
    <3> QED BY <3>1, <3>2
  <2>3. \A g \in Handlers : Setter(g, v)' /\ call'[g].step > 1 => Halfway(g)'
    BY <1>1, <1>2 DEF OneSetter
  <2>4. \A g \in Handlers : call'[g].op = "admin" /\ call'[g].u = v /\ call'[g].step = 1
                              => call'[g].copy.status = row'[v].status
    BY DEF OneSetter
  <2> QED BY <2>1, <2>2, <2>3, <2>4
<1>5. AloneRestores'
  BY <1>1 DEF AloneRestores
<1> QED BY <1>4, <1>5

\* A failed write: the status it was to save is what the blacklist was set for.
LEMMA WriteFailsHolds ==
  ASSUME IInv, NEW h \in Handlers, WriteFails(h)
  PROVE  IInv'
<1>1. /\ call' = [call EXCEPT ![h] = Idle]
      /\ UNCHANGED <<forgotten, raced, row, banned, code, request, cache, ops>>
      /\ UNCHANGED <<ledger, overlapped, credits, enables, credited>>
  BY DEF WriteFails, audit
<1>2. Types /\ OneSetter /\ AloneRestores /\ Busy(h)
  BY CallTypes DEF IInv, WriteFails, At, Busy
<1>3. /\ \A g \in Handlers \ {h} : call'[g] = call[g] /\ Kept(g)
      /\ call'[h] = Idle /\ call' \in [Handlers -> Calls \cup {Idle}]
  BY <1>1, <1>2, AloneKeeps
<1>4. call'[h].op = "idle"
  BY <1>3 DEF Idle
<1>5. PICK u \in Users : u = call[h].u
  BY <1>2, CallTypes
<1>6. \/ unsaved' = unsaved /\ call[h].step = 1
      \/ /\ call[h].op = "profile" /\ call[h].step > 1
         /\ unsaved' = [unsaved EXCEPT ![u] = call[h].copy.status]
      \/ /\ call[h].op = "manage" /\ call[h].step > 1
         /\ unsaved' = [unsaved EXCEPT ![u] = Wanted(h)]
      \/ /\ call[h].op = "delete" /\ call[h].step > 1
         /\ unsaved' = [unsaved EXCEPT ![u] = "deleted"]
  BY <1>5 DEF WriteFails, At
<1>7. /\ call[h].copy.status \in Status
      /\ call[h].op = "manage" => Wanted(h) \in Status
      /\ call[h].op = "profile" => call[h].copy.status = "enabled"
  BY <1>2, CallTypes DEF Shape, Wanted, Rows
<1>8. PICK s \in Status : unsaved' = unsaved \/ unsaved' = [unsaved EXCEPT ![u] = s]
  BY <1>6, <1>7 DEF Status
<1>9. /\ unsaved' \in [Users -> Status \cup {None}]
      /\ \A v \in Users \ {u} : unsaved'[v] = unsaved[v]
  BY <1>2, <1>8 DEF Types
<1>10. Types'
  <2>1. \A g \in Handlers : Busy(g)' => Shape(call[g])'
    BY <1>2, <1>3, <1>4, ShapesKept
  <2> QED BY <1>1, <1>2, <1>3, <1>9, <2>1 DEF Types
<1>11. CopyFresh'
  BY <1>1, <1>2, <1>3, <1>4, FreshSame DEF IInv
<1>12. LedgerExact' /\ RequestTellsCredit'
  BY <1>1 DEF IInv, LedgerExact, RequestTellsCredit
<1>13. CodesOwed'
  BY <1>1, <1>2, <1>3, <1>4, CodesKept DEF IInv
<1>14. OneSetter' /\ AloneRestores'
  <2>1. CASE call[h].op \notin StatusOps
    <3>1. unsaved' = unsaved
      BY <1>6, <2>1 DEF StatusOps
    <3> QED BY <1>1, <1>2, <1>3, <1>4, <2>1, <3>1, StatusKept DEF StatusOps
  <2>2. CASE call[h].op \in StatusOps
    <3>1. Setter(h, u)
      BY <1>5, <2>2 DEF Setter
    <3>2. ASSUME u \notin raced, ~(call[h].step = 1 /\ unsaved'[u] = unsaved[u])
          PROVE  Agree(u)'
      <4>1. call[h].step > 1
        BY <1>6, <3>2
      <4>2. Halfway(h)
        BY <1>2, <3>1, <3>2, <4>1 DEF OneSetter
      <4>3. CASE call[h].op = "profile" /\ unsaved' = [unsaved EXCEPT ![u] = call[h].copy.status]
        <5>1. unsaved'[u] = "enabled" /\ u \notin banned
          BY <1>2, <1>5, <1>7, <4>2, <4>3 DEF Types, Halfway
        <5> QED BY <1>1, <5>1 DEF Agree, Meant, None
      <4>4. CASE call[h].op = "manage" /\ unsaved' = [unsaved EXCEPT ![u] = Wanted(h)]
        <5>1. unsaved'[u] = Wanted(h) /\ Wanted(h) # None
          BY <1>2, <1>7, <4>4 DEF Types, Status, None
        <5> QED BY <1>1, <1>5, <4>2, <4>4, <5>1 DEF Agree, Meant, Halfway
      <4>5. CASE unsaved' = [unsaved EXCEPT ![u] = "deleted"]
        <5>1. unsaved'[u] = "deleted"
          BY <1>2, <4>5 DEF Types
        <5> QED BY <5>1 DEF Agree, Meant, None
      <4> QED BY <1>6, <4>1, <4>3, <4>4, <4>5
    <3> QED BY <1>1, <1>2, <1>3, <1>4, <1>9, <3>1, <3>2, SetterGone
  <2> QED BY <2>1, <2>2
<1> QED BY <1>10, <1>11, <1>12, <1>13, <1>14 DEF IInv

\* A restart: nothing is under way, nobody is banned and everybody is forgotten.
LEMMA RestartHolds ==
  ASSUME IInv, Restart
  PROVE  IInv'
<1>1. /\ ops < MaxOps /\ ops' = ops + 1 /\ call' = [h \in Handlers |-> Idle] /\ banned' = {}
      /\ raced' = {} /\ unsaved' = [u \in Users |-> None] /\ forgotten' = Users
      /\ UNCHANGED <<row, code, request, cache, ledger, overlapped, credits, enables, credited>>
  BY DEF Restart, audit
<1>2. Types
  BY DEF IInv
<1>3. call' \in [Handlers -> Calls \cup {Idle}] /\ \A h \in Handlers : call'[h].op = "idle"
  BY <1>1 DEF Idle
<1>4. Types'
  <2>1. ops' \in 0..MaxOps
    BY <1>1, <1>2, AccountsAssumption DEF Types
  <2>2. unsaved' \in [Users -> Status \cup {None}] /\ \A h \in Handlers : ~Busy(h)'
    BY <1>1, <1>3 DEF Busy
  <2> QED BY <1>1, <1>2, <1>3, <2>1, <2>2 DEF Types
<1>5. CopyFresh' /\ LedgerExact' /\ RequestTellsCredit'
  BY <1>1, <1>3 DEF IInv, CopyFresh, Busy, LedgerExact, RequestTellsCredit
<1>6. CodesOwed'
  BY <1>1, <1>3 DEF IInv, CodesOwed
<1>7. \A u \in Users : Agree(u)' /\ \A h \in Handlers : ~Setter(h, u)'
  BY <1>1, <1>3 DEF Agree, Setter, StatusOps
<1>8. OneSetter' /\ AloneRestores'
  BY <1>3, <1>7 DEF OneSetter, AloneRestores
<1> QED BY <1>4, <1>5, <1>6, <1>8 DEF IInv

----------------------------------------------------------------------------
(* The theorems *)

\* Every call that begins with a read.
LEMMA BeginsHold ==
  ASSUME IInv, NEW h \in Handlers, Begins(h)
  PROVE  IInv'
<1>1. Types
  BY DEF IInv
<1>2. None \in Wants /\ Status \subseteq Wants /\ "role" \in Wants
      /\ {"enabled", "disabled", "used", "approved", "rejected"} \subseteq Wants
  BY DEF Wants, Status
<1>3. CASE ProfileRead(h)
  <2>1. PICK u \in Users : row[u].status = "enabled" /\ Reads(h, "profile", u, None, None)
    BY <1>3 DEF ProfileRead
  <2>2. Shape(Call("profile", u, None, None))
    BY <2>1 DEF Shape, Call
  <2> QED BY <1>2, <2>1, <2>2, ReadsHold DEF OpNames
<1>4. CASE ManageRead(h)
  <2>1. PICK u \in Users, want \in Status \cup {"role"} : Reads(h, "manage", u, None, want)
    BY <1>4 DEF ManageRead
  <2>2. Shape(Call("manage", u, None, want))
    BY <2>1 DEF Shape, Call
  <2> QED BY <1>2, <2>1, <2>2, ReadsHold DEF OpNames
<1>5. CASE AdminRead(h)
  <2>1. PICK u \in Users, s \in Status \cup {None} : Reads(h, "admin", u, None, s)
    BY <1>5 DEF AdminRead
  <2>2. Shape(Call("admin", u, None, s))
    BY <2>1 DEF Shape, Call
  <2> QED BY <1>2, <2>1, <2>2, ReadsHold DEF OpNames
<1>6. CASE DeleteRead(h)
  <2>1. PICK u \in Users : Reads(h, "delete", u, None, None)
    BY <1>6 DEF DeleteRead
  <2>2. Shape(Call("delete", u, None, None))
    BY DEF Shape, Call
  <2> QED BY <1>2, <2>1, <2>2, ReadsHold DEF OpNames
<1>7. CASE RedeemRead(h)
  <2>1. PICK u \in Users, c \in Codes :
          /\ code[c] = "enabled"
          /\ Serial => \A g \in Handlers : call[g] = Idle \/ call[g].op # "redeem"
          /\ Reads(h, "redeem", u, c, None)
    BY <1>7 DEF RedeemRead
  <2>2. Shape(Call("redeem", u, c, None))
    BY DEF Shape, Call
  <2>3. Serial => \A g \in Handlers : call[g].op # "redeem"
    BY <2>1 DEF Idle
  <2> QED BY <1>2, <2>1, <2>2, <2>3, ReadsHold DEF OpNames
<1>8. CASE EditCodeRead(h)
  <2>1. PICK c \in Codes, s \in {"keep", "enabled", "disabled", "used"}, u \in Users :
          /\ code[c] # None
          /\ Reads(h, "code", u, c, IF s = "keep" THEN code[c] ELSE s)
    BY <1>8 DEF EditCodeRead
  <2>2. PICK w \in {"enabled", "disabled", "used"} : w = IF s = "keep" THEN code[c] ELSE s
    BY <1>1, <2>1 DEF Types
  <2>3. Shape(Call("code", u, c, w))
    BY DEF Shape, Call
  <2> QED BY <1>2, <2>1, <2>2, <2>3, ReadsHold DEF OpNames
<1>9. CASE ReviewRead(h)
  <2>1. PICK r \in Requests, v \in {"approved", "rejected"} :
          Reads(h, "review", OwnerOf[r], r, v)
    BY <1>9 DEF ReviewRead
  <2>2. Shape(Call("review", OwnerOf[r], r, v)) /\ OwnerOf[r] \in Users
    BY AccountsAssumption DEF Shape, Call
  <2> QED BY <1>2, <2>1, <2>2, ReadsHold DEF OpNames
<1>10. CASE AuthRead(h)
  <2>1. PICK u \in Users : Reads(h, "auth", u, None, None)
    BY <1>10 DEF AuthRead
  <2>2. Shape(Call("auth", u, None, None))
    BY DEF Shape, Call
  <2> QED BY <1>2, <2>1, <2>2, ReadsHold DEF OpNames
<1> QED BY <1>3, <1>4, <1>5, <1>6, <1>7, <1>8, <1>9, <1>10, UpdateSelfHolds, MoneyHolds,
           EditCodeHolds, CreateRechargeHolds DEF Begins

LEMMA NextHolds == IInv /\ [Next]_vars => IInv'
<1> SUFFICES ASSUME IInv, [Next]_vars PROVE IInv'
  OBVIOUS
<1>1. CASE UNCHANGED vars
  <2>1. UNCHANGED <<raced, unsaved, forgotten, row, banned, code, request, call, ops, ledger, overlapped, credits,
                    enables, credited>> /\ cache' = cache
    BY <1>1 DEF vars, audit, doubts
  <2>2. cache' \in [Users -> [status : Status \cup {None}, ttl : BOOLEAN]]
    BY <2>1 DEF IInv, Types
  <2> QED BY <2>1, <2>2, CacheOnlyHolds
<1>2. ASSUME NEW h \in Handlers, Begins(h) PROVE IInv'
  BY <1>2, BeginsHold
<1>3. ASSUME NEW h \in Handlers, Continues(h) PROVE IInv'
  BY <1>3, ProfileBlacklistHolds, ProfileWriteHolds, ManageBlacklistHolds, ManageWriteHolds,
     AdminWriteHolds, AdminBlacklistHolds, DeleteBanHolds, DeleteWriteHolds,
     RedeemCommitHolds, EditCodeHolds, ApproveHolds, RejectHolds, AuthFillHolds,
     WriteFailsHolds
     DEF Continues
<1>4. ASSUME NEW u \in Users, Expire(u) PROVE IInv'
  BY <1>4, ExpireHolds
<1>5. CASE Restart
  BY <1>5, RestartHolds
<1> QED BY <1>1, <1>2, <1>3, <1>4, <1>5 DEF Next

\* Without a call under way all setters are past: the status and the blacklist
\* agree; and the types say what TypeOK says.
LEMMA InvariantMeans == IInv => LedgerExact /\ CreditsPaid /\ BlacklistAgrees
<1> SUFFICES ASSUME IInv PROVE LedgerExact /\ CreditsPaid /\ BlacklistAgrees
  OBVIOUS
<1>1. Types
  BY DEF IInv
<1>2. TypeOK
  <2>1. \A h \in Handlers : call[h] = Idle \/ call[h].copy \in Rows
    BY <1>1, CallTypes
  <2>2. \A u \in Users : cache[u].status \in Status \cup {None} /\ cache[u].ttl \in BOOLEAN
    BY <1>1 DEF Types
  <2> QED BY <1>1, <2>1, <2>2 DEF Types, TypeOK
<1>3. CodePaysOnce
  BY DEF IInv, CodesOwed, CodePaysOnce
<1>4. BlacklistAgrees
  <2> SUFFICES ASSUME \A h \in Handlers : call[h] = Idle, NEW u \in Users, u \notin raced
               PROVE  Agree(u)
    BY DEF BlacklistAgrees, Agree
  <2>1. \A h \in Handlers : ~Setter(h, u)
    BY DEF Setter, StatusOps, Idle
  <2> QED BY <2>1 DEF IInv, OneSetter
<1> QED BY <1>2, <1>3, <1>4 DEF IInv, CreditsPaid

\* Redemptions, approvals, top-ups, bills and administrators' edits leave the
\* balance that their sum says, unless a whole-row save of User.Update ran on a
\* copy that was out of date.
THEOREM LedgerTheorem == Spec => []LedgerExact
BY InitHolds, NextHolds, InvariantMeans, PTL DEF Spec

\* With serial transactions a code pays once for each time it was enabled
\* (Redeem, UpdateRedemption), a recharge request is credited exactly when its
\* status says so, and no balance becomes negative.
THEOREM CreditsTheorem == Spec => []CreditsPaid
BY InitHolds, NextHolds, InvariantMeans, PTL DEF Spec

\* Between calls the blacklist agrees with the status, or with the status that a
\* failed save was to write; after a restart it lacks the disabled users nobody has
\* changed since.  This is unless status changes of the user overlapped and no
\* undisturbed save has followed.
THEOREM BlacklistTheorem == Spec => []BlacklistAgrees
BY InitHolds, NextHolds, InvariantMeans, PTL DEF Spec

============================================================================
