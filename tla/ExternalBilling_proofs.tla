----------------------- MODULE ExternalBilling_proofs -----------------------
(* The books of external billing, for every instance. *)
EXTENDS ExternalBilling, TLAPS

Terminal(t) == status[t] \notin {"none", "pending"}

\* Where a call may be with a transaction that nobody can name yet, and with
\* one that it has read.
Fresh(c)   == \/ pc[c] \in {"reserve", "token", "user", "insert", "abort"}
              \/ pc[c] = "confirm" /\ op[c] \in {"pre", "single"}
Working(c) == pc[c] \in {"adjust", "update"}

\* An idle call works on nothing; a list is walked before anything else.
Places ==
  \A c \in Calls :
    /\ pc[c] = "idle" <=> txn[c] = None
    /\ pc[c] = "idle" => late[c] = {}
    /\ list[c] # {} => pc[c] = "confirm"
    /\ pc[c] \in {"reserve", "token", "user", "insert", "abort"} => op[c] \in {"pre", "single"}
    /\ pc[c] = "read" => op[c] \in {"post", "cancel"}

\* Only pending holds are due, and the calls that share a transaction know it.
Holds ==
  \A t \in Txns :
    /\ due[t] => status[t] = "pending"
    /\ ~shared[t] => \A c, d \in Workers(t) : c = d

\* A call that reserves has the transaction to itself, which has no row yet; one
\* that adjusts has it pending, if it is alone.
Stages ==
  \A c \in Calls :
    /\ Fresh(c) => status[txn[c]] = "none" /\ Workers(txn[c]) = {c}
    /\ Working(c) /\ ~shared[txn[c]] => status[txn[c]] = "pending"
    /\ pc[c] = "log" /\ ~shared[txn[c]] =>
         Terminal(txn[c]) /\ finalQuota[txn[c]] = Final(c)
    /\ \A t \in list[c] : status[t] # "none" /\ (~shared[t] => status[t] = "pending")

\* A hold that was due when a call began is in its list or confirmed by now.
LateHolds ==
  \A c \in Calls :
    /\ pc[c] # "idle" /\ op[c] \in {"pre", "single"} => txn[c] \notin late[c]
    /\ pc[c] \in {"confirm", "read"} /\ txn[c] \in late[c]
         => txn[c] \in list[c] \/ Terminal(txn[c])
    /\ Working(c) => txn[c] \notin late[c]

\* What a transaction has taken at any moment.
Paid(t, n) == userPaid[t] = n /\ tokenPaid[t] = n + stranded[t]
Half(t, n) == userPaid[t] = 0 /\ tokenPaid[t] = n + stranded[t]

Taken ==
  \A t \in Txns : ~missed[t] /\ ~shared[t] =>
    /\ \A c \in Calls : txn[c] = t /\ pc[c] = "user" => Half(t, amount[c])
    /\ \A c \in Calls : txn[c] = t /\ pc[c] = "insert" => Paid(t, amount[c])
    /\ \A c \in Calls : txn[c] = t /\ pc[c] = "update" => Paid(t, Final(c))
    /\ (\A c \in Calls : txn[c] = t => pc[c] \notin {"user", "insert", "update"})
         => Paid(t, Price(t))

\* What its log entry says at any moment.
Told ==
  \A t \in Txns : ~unlogged[t] /\ ~shared[t] =>
    /\ \A c \in Calls : txn[c] = t /\ pc[c] = "insert" => logged[t] = amount[c]
    /\ (\A c \in Calls : txn[c] = t => pc[c] \notin {"insert", "abort", "log"})
         => logged[t] = Price(t)

Structure == TypeOK /\ Places /\ Holds /\ Stages
IInv == Structure /\ Solvent /\ LateHolds /\ Taken /\ Told

-----------------------------------------------------------------------------
(* What the two compound updates do. *)

LEMMA MoveFacts ==
  ASSUME TypeOK, Solvent, NEW t \in Txns, NEW n \in Int, Move(t, n)
  PROVE  /\ userQuota' \in Int /\ tokenQuota' \in Int
         /\ exhausted' = exhausted /\ stranded' = stranded
         /\ userPaid' \in [Txns -> Int] /\ tokenPaid' \in [Txns -> Int]
         /\ missed' \in [Txns -> BOOLEAN]
         /\ Solvent'
         /\ \A s \in Txns \ {t} : /\ userPaid'[s] = userPaid[s]
                                  /\ tokenPaid'[s] = tokenPaid[s]
                                  /\ missed'[s] = missed[s]
         /\ ~missed'[t] => /\ ~missed[t]
                           /\ userPaid'[t] = userPaid[t] + n
                           /\ tokenPaid'[t] = tokenPaid[t] + n
<1> DEFINE fromUser  == IF Covers(userQuota, n) THEN n ELSE 0
           fromToken == IF Covers(tokenQuota, n) THEN n ELSE 0
           short     == fromUser # n \/ fromToken # n
<1>1. /\ userQuota' = userQuota - fromUser /\ tokenQuota' = tokenQuota - fromToken
      /\ userPaid' = [userPaid EXCEPT ![t] = @ + fromUser]
      /\ tokenPaid' = [tokenPaid EXCEPT ![t] = @ + fromToken]
      /\ missed' = [missed EXCEPT ![t] = @ \/ fromUser # n \/ fromToken # n]
      /\ exhausted' = exhausted /\ stranded' = stranded
  BY DEF Move
<1>2. /\ fromUser \in Int /\ userQuota - fromUser >= 0
      /\ fromToken \in Int /\ tokenQuota - fromToken >= 0
  BY DEF Covers, TypeOK, Solvent
<1> HIDE DEF fromUser, fromToken
<1>3. ~short => fromUser = n /\ fromToken = n
  OBVIOUS
<1>4. missed' = [missed EXCEPT ![t] = missed[t] \/ short]
  BY <1>1
<1> HIDE DEF short
<1>5. /\ missed' \in [Txns -> BOOLEAN]
      /\ \A s \in Txns \ {t} : missed'[s] = missed[s]
      /\ ~missed'[t] => ~missed[t] /\ ~short
  BY <1>4, Zenon DEF TypeOK
<1>6. /\ userQuota' \in Int /\ tokenQuota' \in Int /\ Solvent'
      /\ userPaid' \in [Txns -> Int] /\ tokenPaid' \in [Txns -> Int]
      /\ userPaid'[t] = userPaid[t] + fromUser /\ tokenPaid'[t] = tokenPaid[t] + fromToken
      /\ \A s \in Txns \ {t} : userPaid'[s] = userPaid[s] /\ tokenPaid'[s] = tokenPaid[s]
  BY <1>1, <1>2 DEF TypeOK, Solvent
<1> QED
  BY <1>1, <1>3, <1>5, <1>6, Zenon

LEMMA LogFacts ==
  ASSUME TypeOK, NEW t \in Txns, NEW n \in Nat, Log(t, n)
  PROVE  /\ logged' \in [Txns -> Nat] /\ unlogged' \in [Txns -> BOOLEAN]
         /\ failures' \in 0 .. MaxFailures
         /\ \A s \in Txns \ {t} : logged'[s] = logged[s] /\ unlogged'[s] = unlogged[s]
         /\ ~unlogged'[t] => ~unlogged[t] /\ logged'[t] = n
<1>1. CASE logged' = [logged EXCEPT ![t] = n] /\ UNCHANGED <<unlogged, failures>>
  BY <1>1 DEF TypeOK
<1>2. CASE unlogged' = [unlogged EXCEPT ![t] = TRUE] /\ Fail /\ UNCHANGED logged
  BY <1>2, ExternalAssumption DEF Fail, TypeOK
<1> QED
  BY <1>1, <1>2 DEF Log

LEMMA DeltaType ==
  ASSUME TypeOK, NEW c \in Calls, txn[c] \in Txns
  PROVE  Final(c) \in Nat /\ Delta(c) \in Int /\ -Delta(c) \in Int
  BY DEF TypeOK, Final, Delta

-----------------------------------------------------------------------------
(* Types and solvency. *)

LEMMA InitIInv == Init => IInv
<1> SUFFICES ASSUME Init PROVE IInv
  OBVIOUS
<1>1. /\ userQuota \in Int /\ tokenQuota \in Int /\ Solvent
      /\ preQuota \in [Txns -> Nat] /\ finalQuota \in [Txns -> Nat]
      /\ logged \in [Txns -> Nat] /\ amount \in [Calls -> Nat]
      /\ userPaid \in [Txns -> Int] /\ tokenPaid \in [Txns -> Int] /\ stranded \in [Txns -> Nat]
      /\ failures \in 0 .. MaxFailures
  BY ExternalAssumption DEF Init, Solvent
<1>t. TypeOK
  BY <1>1 DEF Init, TypeOK, Statuses, Phases
<1>2. \A c \in Calls : txn[c] = None /\ list[c] = {} /\ pc[c] = "idle" /\ late[c] = {}
  BY DEF Init
<1>3. \A t \in Txns : Workers(t) = {}
  BY <1>2, ExternalAssumption DEF Workers
<1>4. Places /\ Holds /\ Stages /\ LateHolds
  BY <1>2, <1>3 DEF Init, Places, Holds, Stages, LateHolds, Fresh, Working
<1>5. Taken /\ Told
  BY <1>2 DEF Init, Taken, Told, Paid, Half, Price
<1> QED
  BY <1>1, <1>t, <1>4, <1>5 DEF IInv, Structure

LEMMA PlacedTxn ==
  ASSUME TypeOK, Places, NEW c \in Calls, pc[c] # "idle"
  PROVE  txn[c] \in Txns
  BY DEF TypeOK, Places

\* Every step keeps the types and overdraws nothing.
LEMMA TypeStep ==
  ASSUME TypeOK, Places, Solvent, [Next]_vars
  PROVE  TypeOK' /\ Solvent'
<1> USE ExternalAssumption
<1>1. ASSUME NEW t \in Txns, Expire(t) PROVE TypeOK' /\ Solvent'
  BY <1>1 DEF Expire, TypeOK, Solvent, balances, request, ledger
<1>2. ASSUME NEW c \in Calls, TokenAuth(c) PROVE TypeOK' /\ Solvent'
  <2>1. /\ op' \in [Calls -> Phases] /\ txn' \in [Calls -> Txns \cup {None}]
        /\ amount' \in [Calls -> Nat]
    BY <1>2 DEF TokenAuth, Request, TypeOK
  <2>2. /\ list' \in [Calls -> SUBSET Txns] /\ late' \in [Calls -> SUBSET Txns]
        /\ pc' \in [Calls -> {"idle", "confirm", "reserve", "token", "user", "insert",
                              "abort", "read", "adjust", "update", "log", "done",
                              "failed", "refused"}]
    BY <1>2 DEF TokenAuth, Goto, ExpiredHolds, TypeOK
  <2>3. exhausted' \in BOOLEAN /\ shared' \in [Txns -> BOOLEAN]
    BY <1>2 DEF TokenAuth, Unusable, TypeOK
  <2> QED
    BY <1>2, <2>1, <2>2, <2>3 DEF TokenAuth, TypeOK, Solvent, rows, ledger
<1>3. ASSUME NEW c \in Calls, AutoConfirm(c) PROVE TypeOK' /\ Solvent'
  <2>1. CASE Fail /\ list' = [list EXCEPT ![c] = {}] /\ Goto(c, "failed")
             /\ UNCHANGED <<rows, logged, unlogged>>
    BY <1>3, <2>1 DEF AutoConfirm, Fail, Goto, TypeOK, Solvent, balances, rows, request, ledger
  <2>2. ASSUME NEW t \in list[c],
               status' = [status EXCEPT ![t] = "auto_confirmed"],
               finalQuota' = [finalQuota EXCEPT ![t] = preQuota[t]],
               due' = [due EXCEPT ![t] = FALSE], Log(t, preQuota[t]),
               list' = [list EXCEPT ![c] = @ \ {t}], UNCHANGED <<pc, preQuota>>
        PROVE  TypeOK' /\ Solvent'
    <3>1. t \in Txns /\ preQuota[t] \in Nat
      BY DEF TypeOK
    <3>2. /\ logged' \in [Txns -> Nat] /\ unlogged' \in [Txns -> BOOLEAN]
          /\ failures' \in 0 .. MaxFailures
      BY <2>2, <3>1, LogFacts
    <3> QED
      BY <1>3, <2>2, <3>1, <3>2
         DEF AutoConfirm, TypeOK, Solvent, Statuses, balances, request, ledger
  <2> QED
    BY <1>3, <2>1, <2>2 DEF AutoConfirm
<1>4. ASSUME NEW c \in Calls, Validate(c) \/ Read(c) \/ PreConsume(c) PROVE TypeOK' /\ Solvent'
  BY <1>4 DEF Validate, Read, PreConsume, Goto, TypeOK, Solvent, balances, rows, request, ledger
<1>5. ASSUME NEW c \in Calls, TakeToken(c) \/ TakeUser(c) PROVE TypeOK' /\ Solvent'
  <2>1. txn[c] \in Txns /\ amount[c] \in Nat
    BY <1>5, PlacedTxn DEF TakeToken, TakeUser, TypeOK
  <2>2. CASE TakeToken(c)
    <3>1. CASE Covers(tokenQuota, amount[c]) /\ tokenQuota' = tokenQuota - amount[c]
               /\ tokenPaid' = [tokenPaid EXCEPT ![txn[c]] = @ + amount[c]]
               /\ Goto(c, "user") /\ UNCHANGED failures
      BY <2>1, <2>2, <3>1 DEF TakeToken, Covers, Goto, TypeOK, Solvent, rows, request
    <3>2. CASE Rejected(tokenQuota, amount[c]) /\ Goto(c, "failed")
               /\ UNCHANGED <<tokenQuota, tokenPaid>>
      BY <2>2, <3>2 DEF TakeToken, Rejected, Fail, Goto, TypeOK, Solvent, rows, request
    <3> QED
      BY <2>2, <3>1, <3>2 DEF TakeToken
  <2>3. CASE TakeUser(c)
    <3>1. CASE Covers(userQuota, amount[c]) /\ userQuota' = userQuota - amount[c]
               /\ userPaid' = [userPaid EXCEPT ![txn[c]] = @ + amount[c]]
               /\ Log(txn[c], amount[c]) /\ Goto(c, "insert") /\ UNCHANGED stranded
      <4>1. /\ logged' \in [Txns -> Nat] /\ unlogged' \in [Txns -> BOOLEAN]
            /\ failures' \in 0 .. MaxFailures
        BY <2>1, <3>1, LogFacts
      <4>2. /\ userQuota' \in Int /\ userQuota' >= 0 /\ userPaid' \in [Txns -> Int]
        BY <2>1, <3>1 DEF Covers, TypeOK
      <4> QED
        BY <2>3, <3>1, <4>1, <4>2 DEF TakeUser, Goto, TypeOK, Solvent, rows, request
    <3>2. CASE Rejected(userQuota, amount[c]) /\ Goto(c, "failed")
               /\ stranded' = [stranded EXCEPT ![txn[c]] = @ + amount[c]]
               /\ UNCHANGED <<userQuota, userPaid, logged, unlogged>>
      BY <2>1, <2>3, <3>2 DEF TakeUser, Rejected, Fail, Goto, TypeOK, Solvent, rows, request
    <3> QED
      BY <2>3, <3>1, <3>2 DEF TakeUser
  <2> QED
    BY <1>5, <2>2, <2>3
<1>6. ASSUME NEW c \in Calls, Insert(c) PROVE TypeOK' /\ Solvent'
  <2>1. txn[c] \in Txns /\ amount[c] \in Nat /\ -amount[c] \in Int
    BY <1>6, PlacedTxn DEF Insert, TypeOK
  <2>2. CASE status' = [status EXCEPT ![txn[c]] = "pending"]
             /\ preQuota' = [preQuota EXCEPT ![txn[c]] = amount[c]]
             /\ Goto(c, AfterInsert(c)) /\ UNCHANGED <<balances, ledger, failures>>
    BY <1>6, <2>1, <2>2 DEF Insert, AfterInsert, Goto, TypeOK, Solvent, Statuses,
       balances, request, ledger
  <2>3. CASE Fail /\ Move(txn[c], -amount[c]) /\ Goto(c, "abort")
             /\ UNCHANGED <<status, preQuota>>
    <3>1. /\ userQuota' \in Int /\ tokenQuota' \in Int /\ exhausted' = exhausted /\ stranded' = stranded
          /\ userPaid' \in [Txns -> Int] /\ tokenPaid' \in [Txns -> Int]
          /\ missed' \in [Txns -> BOOLEAN] /\ Solvent'
      BY <2>1, <2>3, MoveFacts
    <3> QED
      BY <1>6, <2>3, <3>1 DEF Insert, Fail, Goto, TypeOK, request
  <2> QED
    BY <1>6, <2>2, <2>3 DEF Insert
<1>7. ASSUME NEW c \in Calls, Abort(c) \/ UpdateLog(c) PROVE TypeOK' /\ Solvent'
  <2>1. txn[c] \in Txns /\ 0 \in Nat /\ Final(c) \in Nat
    BY <1>7, PlacedTxn DEF Abort, UpdateLog, Final, TypeOK
  <2>2. /\ logged' \in [Txns -> Nat] /\ unlogged' \in [Txns -> BOOLEAN]
        /\ failures' \in 0 .. MaxFailures
    BY <1>7, <2>1, LogFacts DEF Abort, UpdateLog
  <2> QED
    BY <1>7, <2>2 DEF Abort, UpdateLog, Goto, TypeOK, Solvent, balances, rows, request, ledger
<1>8. ASSUME NEW c \in Calls, Adjust(c) PROVE TypeOK' /\ Solvent'
  <2>1. txn[c] \in Txns /\ Delta(c) \in Int
    BY <1>8, PlacedTxn, DeltaType DEF Adjust
  <2>2. /\ userQuota' \in Int /\ tokenQuota' \in Int /\ exhausted' = exhausted /\ stranded' = stranded
        /\ userPaid' \in [Txns -> Int] /\ tokenPaid' \in [Txns -> Int]
        /\ missed' \in [Txns -> BOOLEAN] /\ Solvent'
    BY <1>8, <2>1, MoveFacts DEF Adjust
  <2> QED
    BY <1>8, <2>2 DEF Adjust, Goto, TypeOK, rows, request
<1>9. ASSUME NEW c \in Calls, Update(c) PROVE TypeOK' /\ Solvent'
  <2>1. txn[c] \in Txns /\ -Delta(c) \in Int /\ Final(c) \in Nat
    BY <1>9, PlacedTxn, DeltaType DEF Update
  <2>2. CASE status' = [status EXCEPT ![txn[c]] =
                          IF op[c] = "cancel" THEN "canceled" ELSE "confirmed"]
             /\ finalQuota' = [finalQuota EXCEPT ![txn[c]] = Final(c)]
             /\ due' = [due EXCEPT ![txn[c]] = FALSE]
             /\ Goto(c, "log") /\ UNCHANGED <<balances, ledger, failures>>
    BY <1>9, <2>1, <2>2 DEF Update, Goto, TypeOK, Solvent, Statuses, balances, request, ledger
  <2>3. CASE Fail /\ Compensate(c) /\ Goto(c, "failed")
             /\ UNCHANGED <<status, finalQuota, due>>
    <3>1. /\ userQuota' \in Int /\ tokenQuota' \in Int /\ exhausted' = exhausted /\ stranded' = stranded
          /\ userPaid' \in [Txns -> Int] /\ tokenPaid' \in [Txns -> Int]
          /\ missed' \in [Txns -> BOOLEAN] /\ Solvent'
      BY <2>1, <2>3, MoveFacts DEF Compensate
    <3> QED
      BY <1>9, <2>3, <3>1 DEF Update, Fail, Goto, TypeOK, request
  <2> QED
    BY <1>9, <2>2, <2>3 DEF Update
<1>10. ASSUME NEW c \in Calls, Respond(c) PROVE TypeOK' /\ Solvent'
  BY <1>10 DEF Respond, Goto, TypeOK, Solvent, Phases, balances, rows, ledger
<1>11. CASE UNCHANGED vars
  BY <1>11 DEF vars, TypeOK, Solvent, balances, rows, request, ledger
<1> QED
  BY <1>1, <1>2, <1>3, <1>4, <1>5, <1>6, <1>7, <1>8, <1>9, <1>10, <1>11
     DEF Next, Handle

-----------------------------------------------------------------------------
(* Who works on a transaction, and at which stage. *)

\* A step that changes neither what calls name nor what they list.
LEMMA WorkersKept ==
  ASSUME UNCHANGED <<txn, list>>
  PROVE  \A t \in Txns : Workers(t)' = Workers(t)
  BY DEF Workers

\* A step that shortens a list.
LEMMA WorkersShrink ==
  ASSUME txn' = txn, \A d \in Calls : list'[d] \subseteq list[d]
  PROVE  /\ \A t \in Txns : Workers(t)' \subseteq Workers(t)
         /\ \A d \in Calls : Workers(txn[d]) = {d} => Workers(txn[d])' = {d}
  BY DEF Workers

LEMMA ExpireStructure ==
  ASSUME Structure, NEW t \in Txns, Expire(t)
  PROVE  Places' /\ Holds' /\ Stages'
<1>1. UNCHANGED <<status, finalQuota, pc, op, txn, amount, late, list, shared>>
  BY DEF Expire, request
<1>2. \A s \in Txns : Workers(s)' = Workers(s)
  BY <1>1, WorkersKept
<1>3. Places'
  BY <1>1 DEF Places, Structure
<1>4. Holds'
  BY <1>1, <1>2 DEF Holds, Structure, Expire, TypeOK
<1>5. Stages'
  BY <1>1 DEF Stages, Structure, Fresh, Working, Terminal, Final, Workers
<1> QED
  BY <1>3, <1>4, <1>5

LEMMA AuthStructure ==
  ASSUME Structure, NEW c \in Calls, TokenAuth(c)
  PROVE  Places' /\ Holds' /\ Stages'
<1> USE DEF Structure
<1>1. PICK o \in Phases, t \in Txns :
        /\ IF o \in {"pre", "single"} THEN status[t] = "none" /\ Quiet(t)
                                      ELSE status[t] # "none"
        /\ op' = [op EXCEPT ![c] = o] /\ txn' = [txn EXCEPT ![c] = t]
  BY DEF TokenAuth, Request
<1>2. /\ UNCHANGED <<status, due, finalQuota>>
      /\ \A s \in Txns : ~shared'[s] => ~shared[s] /\ ~(\E d, e \in Workers(s)' : d # e)
  BY DEF TokenAuth, rows, TypeOK
<1>3. pc[c] = "idle" /\ list[c] = {} /\ txn[c] = None
  BY DEF TokenAuth, Places
<1>4. \A d \in Calls \ {c} : /\ pc'[d] = pc[d] /\ list'[d] = list[d] /\ late'[d] = late[d]
                            /\ op'[d] = op[d] /\ txn'[d] = txn[d] /\ Final(d)' = Final(d)
  BY DEF TokenAuth, Request, Goto, TypeOK, Final
<1>5. op'[c] = o /\ txn'[c] = t
  BY <1>1 DEF TypeOK
<1>6. \/ pc'[c] = "refused" /\ list'[c] = {}
      \/ pc'[c] = "confirm" /\ list'[c] = ExpiredHolds
  BY <1>3 DEF TokenAuth, Goto, TypeOK
<1>7. \A s \in Txns : status[s] = "none" => s \notin list'[c]
  BY <1>6 DEF ExpiredHolds
<1>8. Places'
  BY <1>4, <1>5, <1>6, ExternalAssumption DEF Places
<1>9. Holds'
  BY <1>2 DEF Holds
<1>10. ASSUME NEW d \in Calls, Fresh(d)'
       PROVE  status'[txn'[d]] = "none" /\ Workers(txn[d])' = {d}
  <2>1. CASE d = c
    <3>1. status[t] = "none" /\ Quiet(t) /\ t \notin list'[c]
      BY <1>1, <1>5, <1>6, <1>7, <1>10, <2>1 DEF Fresh
    <3>2. \A e \in Calls \ {c} : txn[e] # t /\ t \notin list[e]
      BY <3>1 DEF Quiet, Workers
    <3> QED
      BY <1>2, <1>4, <1>5, <2>1, <3>1, <3>2 DEF Workers
  <2>2. CASE d # c
    <3>1. Fresh(d)
      BY <1>4, <1>10, <2>2 DEF Fresh
    <3>2. status[txn[d]] = "none" /\ Workers(txn[d]) = {d} /\ txn[d] \in Txns
      BY <3>1, PlacedTxn DEF Stages, Fresh
    <3>3. t # txn[d]
      BY <1>1, <3>2 DEF Quiet
    <3>4. Workers(txn[d])' = Workers(txn[d])
      BY <1>3, <1>4, <1>5, <1>7, <2>2, <3>2, <3>3, ExternalAssumption DEF Workers
    <3> QED
      BY <1>2, <1>4, <2>2, <3>2, <3>4
  <2> QED
    BY <2>1, <2>2
<1>11. ASSUME NEW d \in Calls
       PROVE  /\ Working(d)' /\ ~shared'[txn'[d]] => status'[txn'[d]] = "pending"
              /\ pc'[d] = "log" /\ ~shared'[txn'[d]] =>
                   Terminal(txn[d])' /\ finalQuota'[txn'[d]] = Final(d)'
  <2>1. d # c /\ (Working(d)' \/ pc'[d] = "log") => txn[d] \in Txns
    BY <1>4, PlacedTxn DEF Working
  <2> QED
    BY <1>2, <1>4, <1>6, <2>1 DEF Working, Stages, Terminal
<1>12. ASSUME NEW d \in Calls, NEW s \in list'[d]
       PROVE  status'[s] # "none" /\ (~shared'[s] => status'[s] = "pending")
  <2>1. CASE d = c
    BY <1>2, <1>6, <1>12, <2>1 DEF ExpiredHolds
  <2>2. CASE d # c
    BY <1>2, <1>4, <1>12, <2>2 DEF Stages, TypeOK
  <2> QED
    BY <2>1, <2>2
<1>13. Stages'
  BY <1>10, <1>11, <1>12 DEF Stages
<1> QED
  BY <1>8, <1>9, <1>13

\* An unshared transaction has one worker.
LEMMA SoleWorker ==
  ASSUME Structure, NEW c \in Calls, NEW t \in Txns, ~shared[t], txn[c] = t \/ t \in list[c]
  PROVE  \A d \in Calls : txn[d] = t \/ t \in list[d] => d = c
  BY DEF Structure, Holds, Workers

\* One call moves on; nobody names or lists anything new.
LEMMA ConfirmStructure ==
  ASSUME Structure, NEW c \in Calls, AutoConfirm(c)
  PROVE  Places' /\ Holds' /\ Stages'
<1> USE DEF Structure
<1>1. /\ pc[c] = "confirm" /\ UNCHANGED <<op, txn, amount, late, shared, preQuota>>
      /\ \A d \in Calls : Final(d)' = Final(d)
  BY DEF AutoConfirm, request, rows, Final
<1>2. ASSUME NEW t \in list[c],
             status' = [status EXCEPT ![t] = "auto_confirmed"],
             finalQuota' = [finalQuota EXCEPT ![t] = preQuota[t]],
             due' = [due EXCEPT ![t] = FALSE],
             list' = [list EXCEPT ![c] = @ \ {t}], pc' = pc
      PROVE  Places' /\ Holds' /\ Stages'
  <2>1. /\ \A d \in Calls \ {c} : list'[d] = list[d]
        /\ list'[c] = list[c] \ {t} /\ t \in Txns
    BY <1>2 DEF TypeOK
  <2>2. /\ \A s \in Txns : Workers(s)' \subseteq Workers(s)
        /\ \A d \in Calls : Workers(txn[d]) = {d} => Workers(txn[d])' = {d}
    BY <1>1, <2>1, WorkersShrink
  <2>3. status[t] # "none" /\ (~shared[t] => status[t] = "pending")
    BY DEF Stages
  <2>4. /\ status'[t] = "auto_confirmed" /\ ~due'[t]
        /\ \A s \in Txns \ {t} : /\ status'[s] = status[s] /\ due'[s] = due[s]
                                 /\ finalQuota'[s] = finalQuota[s]
    BY <1>2, <2>1 DEF TypeOK
  <2>5. Places'
    BY <1>1, <1>2, <2>1 DEF Places
  <2>6. Holds'
    BY <1>1, <2>2, <2>4 DEF Holds
  <2>7. ~shared[t] => \A d \in Calls : txn[d] = t \/ t \in list[d] => d = c
    BY <2>1, SoleWorker
  <2>8. \A d \in Calls : Fresh(d) \/ Working(d) \/ pc[d] = "log" => txn[d] \in Txns
    BY PlacedTxn DEF Fresh, Working
  <2>9. ASSUME NEW d \in Calls, Fresh(d)'
        PROVE  (status[txn[d]] = "none" /\ Workers(txn[d]) = {d})'
    <3>1. Fresh(d) /\ txn' = txn /\ txn[d] \in Txns
      BY <1>1, <1>2, <2>8, <2>9 DEF Fresh
    <3>2. status[txn[d]] = "none" /\ Workers(txn[d]) = {d}
      BY <3>1 DEF Stages
    <3>3. txn[d] # t
      BY <2>3, <3>2
    <3> QED
      BY <2>2, <2>4, <3>1, <3>2, <3>3
  <2>10. ASSUME NEW d \in Calls
         PROVE  (/\ Working(d) /\ ~shared[txn[d]] => status[txn[d]] = "pending"
                 /\ pc[d] = "log" /\ ~shared[txn[d]] =>
                      Terminal(txn[d]) /\ finalQuota[txn[d]] = Final(d))'
    BY <1>1, <1>2, <2>4, <2>7, <2>8 DEF Stages, Working, Terminal
  <2>11. ASSUME NEW d \in Calls, NEW s \in list'[d]
         PROVE  status'[s] # "none" /\ (~shared'[s] => status'[s] = "pending")
    BY <1>1, <2>1, <2>4, <2>7, <2>11 DEF Stages, TypeOK
  <2>12. Stages'
    BY <2>9, <2>10, <2>11 DEF Stages
  <2> QED
    BY <2>5, <2>6, <2>12
<1>3. ASSUME list' = [list EXCEPT ![c] = {}], Goto(c, "failed"), UNCHANGED rows
      PROVE  Places' /\ Holds' /\ Stages'
  <2>1. /\ \A d \in Calls \ {c} : list'[d] = list[d] /\ pc'[d] = pc[d]
        /\ list'[c] = {} /\ pc'[c] = "failed" /\ UNCHANGED <<status, due, finalQuota>>
    BY <1>3 DEF TypeOK, Goto, rows
  <2>2. /\ \A s \in Txns : Workers(s)' \subseteq Workers(s)
        /\ \A d \in Calls : Workers(txn[d]) = {d} => Workers(txn[d])' = {d}
    BY <1>1, <2>1, WorkersShrink
  <2>3. Places'
    BY <1>1, <2>1 DEF Places
  <2>4. Holds'
    BY <1>1, <2>1, <2>2 DEF Holds
  <2>5. Stages'
    BY <1>1, <2>1, <2>2 DEF Stages, Fresh, Working, Terminal
  <2> QED
    BY <2>3, <2>4, <2>5
<1> QED
  BY <1>2, <1>3 DEF AutoConfirm

\* The steps that leave the rows alone.
LEMMA PlainStructure ==
  ASSUME Structure, NEW c \in Calls,
         \/ Validate(c) \/ PreConsume(c) \/ TakeToken(c) \/ TakeUser(c) \/ Abort(c)
         \/ Read(c) \/ Adjust(c) \/ UpdateLog(c)
  PROVE  Places' /\ Holds' /\ Stages'
<1> USE DEF Structure
<1>1. /\ UNCHANGED <<status, due, finalQuota, op, txn, amount, late, list, shared>>
      /\ \A d \in Calls : Final(d)' = Final(d)
  BY DEF Validate, PreConsume, TakeToken, TakeUser, Abort, Read, Adjust, UpdateLog, rows, request, Final
<1>2. \A d \in Calls \ {c} : pc'[d] = pc[d]
  BY DEF Validate, PreConsume, TakeToken, TakeUser, Abort, Read, Adjust, UpdateLog, Goto, TypeOK
<1>3. /\ pc[c] # "idle" /\ list[c] = {} /\ txn[c] \in Txns
      /\ \/ /\ pc[c] = "confirm" /\ op[c] \in {"pre", "single"} /\ pc'[c] = "reserve"
         \/ /\ pc[c] = "confirm" /\ op[c] \notin {"pre", "single"} /\ pc'[c] = "read"
         \/ pc[c] = "reserve" /\ pc'[c] = "token"
         \/ pc[c] = "token" /\ pc'[c] = "user"
         \/ pc[c] = "user" /\ pc'[c] = "insert"
         \/ pc[c] = "read" /\ status[txn[c]] = "pending" /\ pc'[c] = "adjust"
         \/ pc[c] = "adjust" /\ pc'[c] = "update"
         \/ pc'[c] \in {"done", "failed", "refused"}
  <2>1. pc[c] # "idle" /\ list[c] = {}
    BY DEF Validate, PreConsume, TakeToken, TakeUser, Abort, Read, Adjust, UpdateLog, Places
  <2>2. CASE Validate(c)
    BY <2>1, <2>2, PlacedTxn DEF Validate, Goto, TypeOK
  <2>3. CASE PreConsume(c) \/ TakeToken(c) \/ TakeUser(c)
    BY <2>1, <2>3, PlacedTxn DEF PreConsume, TakeToken, TakeUser, Goto, TypeOK
  <2>5. CASE Abort(c) \/ Adjust(c) \/ UpdateLog(c)
    BY <2>1, <2>5, PlacedTxn DEF Abort, Adjust, UpdateLog, Goto, TypeOK
  <2>4. CASE Read(c)
    BY <2>1, <2>4, PlacedTxn DEF Read, Open, Goto, TypeOK
  <2> QED
    BY <2>2, <2>3, <2>4, <2>5
<1>4. \A s \in Txns : Workers(s)' = Workers(s)
  BY <1>1, WorkersKept
<1>5. Places'
  BY <1>1, <1>2, <1>3 DEF Places, TypeOK, Phases
<1>6. Holds'
  BY <1>1, <1>4 DEF Holds
<1>7. \A d \in Calls : Fresh(d)' => Fresh(d) /\ txn[d] \in Txns
  BY <1>1, <1>2, <1>3, PlacedTxn DEF Fresh
<1>8. ASSUME NEW d \in Calls
      PROVE (/\ Working(d) /\ ~shared[txn[d]] => status[txn[d]] = "pending"
             /\ pc[d] = "log" /\ ~shared[txn[d]] =>
                  Terminal(txn[d]) /\ finalQuota[txn[d]] = Final(d))'
  BY <1>1, <1>2, <1>3 DEF Stages, Working, Terminal
<1>9. Stages'
  BY <1>1, <1>4, <1>7, <1>8 DEF Stages
<1> QED
  BY <1>5, <1>6, <1>9

\* The steps that write a row of token_transactions by primary key.
LEMMA RowStructure ==
  ASSUME Structure, NEW c \in Calls, Insert(c) \/ Update(c)
  PROVE  Places' /\ Holds' /\ Stages'
<1> USE DEF Structure
<1>1. /\ UNCHANGED <<op, txn, amount, late, list, shared>>
      /\ \A d \in Calls : Final(d)' = Final(d)
  BY DEF Insert, Update, request, Final
<1>2. \A d \in Calls \ {c} : pc'[d] = pc[d]
  BY DEF Insert, Update, Goto, TypeOK
<1>3. /\ pc[c] # "idle" /\ list[c] = {} /\ txn[c] \in Txns
  BY PlacedTxn DEF Insert, Update, Places
<1>4. \A s \in Txns : Workers(s)' = Workers(s)
  BY <1>1, WorkersKept
<1>5. \A s \in Txns \ {txn[c]} : /\ status'[s] = status[s] /\ due'[s] = due[s]
                                /\ finalQuota'[s] = finalQuota[s]
  BY DEF Insert, Update, TypeOK
<1>6. \/ /\ pc[c] = "insert" /\ pc'[c] \in {"adjust", "done"}
         /\ status'[txn[c]] = "pending"
      \/ /\ pc[c] = "insert" /\ pc'[c] = "abort" /\ status' = status /\ due' = due
      \/ /\ pc[c] = "update" /\ pc'[c] = "log" /\ Terminal(txn[c])' /\ ~due'[txn[c]]
         /\ finalQuota'[txn[c]] = Final(c)
      \/ /\ pc[c] = "update" /\ pc'[c] = "failed"
         /\ UNCHANGED <<status, due, finalQuota>>
  BY <1>1, <1>3 DEF Insert, Update, AfterInsert, Goto, TypeOK, Terminal
<1>7. Places'
  BY <1>1, <1>2, <1>3, <1>6 DEF Places
<1>8. Holds'
  BY <1>1, <1>3, <1>4, <1>5, <1>6 DEF Holds
<1>9. /\ c \in Workers(txn[c])
      /\ \A d \in Calls : Fresh(d) => txn[d] \in Txns /\ (txn[d] = txn[c] => d = c)
  BY <1>3, PlacedTxn DEF Workers, Stages, Fresh
<1>10. ~shared[txn[c]] =>
         \A d \in Calls : txn[d] = txn[c] \/ txn[c] \in list[d] => d = c
  BY <1>3, SoleWorker
<1>11. ASSUME NEW d \in Calls, Fresh(d)'
       PROVE  (status[txn[d]] = "none" /\ Workers(txn[d]) = {d})'
  <2>1. Fresh(d)
    BY <1>1, <1>2, <1>6, <1>11 DEF Fresh
  <2>2. status[txn[d]] = "none" /\ Workers(txn[d]) = {d} /\ txn[d] \in Txns
    BY <2>1, <1>9 DEF Stages
  <2>3. status'[txn[d]] = status[txn[d]]
    BY <1>1, <1>5, <1>6, <1>9, <1>11, <2>1, <2>2 DEF Fresh
  <2> QED
    BY <1>1, <1>4, <2>2, <2>3
<1>12. ASSUME NEW d \in Calls
       PROVE (/\ Working(d) /\ ~shared[txn[d]] => status[txn[d]] = "pending"
              /\ pc[d] = "log" /\ ~shared[txn[d]] =>
                   Terminal(txn[d]) /\ finalQuota[txn[d]] = Final(d))'
  <2>1. CASE d = c
    BY <1>1, <1>6, <2>1 DEF Working
  <2>2. CASE d # c
    <3>1. Working(d) \/ pc[d] = "log" => txn[d] \in Txns
      BY PlacedTxn DEF Working
    <3> QED
      BY <1>1, <1>2, <1>5, <1>10, <2>2, <3>1 DEF Working, Stages, Terminal
  <2> QED
    BY <2>1, <2>2
<1>13. ASSUME NEW d \in Calls, NEW s \in list'[d]
       PROVE  status'[s] # "none" /\ (~shared'[s] => status'[s] = "pending")
  BY <1>1, <1>3, <1>5, <1>6, <1>10, <1>13 DEF Stages, TypeOK, Terminal
<1>14. Stages'
  BY <1>11, <1>12, <1>13 DEF Stages
<1> QED
  BY <1>7, <1>8, <1>14

LEMMA RespondStructure ==
  ASSUME Structure, NEW c \in Calls, Respond(c)
  PROVE  Places' /\ Holds' /\ Stages'
<1> USE DEF Structure
<1>1. /\ UNCHANGED <<status, due, finalQuota, list, shared>>
      /\ pc'[c] = "idle" /\ txn'[c] = None /\ late'[c] = {} /\ list[c] = {}
      /\ \A d \in Calls \ {c} : /\ pc'[d] = pc[d] /\ txn'[d] = txn[d] /\ op'[d] = op[d]
                               /\ amount'[d] = amount[d] /\ late'[d] = late[d]
  BY DEF Respond, Goto, TypeOK, Places, rows
<1>2. \A d \in Calls \ {c} : Final(d)' = Final(d)
  BY <1>1 DEF Final
<1>3. \A s \in Txns : Workers(s)' \subseteq Workers(s)
  BY <1>1, ExternalAssumption DEF Workers
<1>4. Places'
  BY <1>1 DEF Places
<1>5. Holds'
  BY <1>1, <1>3 DEF Holds
<1>6. ASSUME NEW d \in Calls, Fresh(d)'
      PROVE  (status[txn[d]] = "none" /\ Workers(txn[d]) = {d})'
  <2>1. d # c /\ Fresh(d)
    BY <1>1, <1>6 DEF Fresh
  <2>2. status[txn[d]] = "none" /\ Workers(txn[d]) = {d} /\ txn[d] \in Txns
    BY <2>1, PlacedTxn DEF Stages, Fresh
  <2>3. d \in Workers(txn[d])'
    BY <1>1, <2>1 DEF Workers
  <2>4. Workers(txn[d])' \subseteq Workers(txn[d])
    BY <1>1, <1>3, <2>1, <2>2
  <2> QED
    BY <1>1, <2>1, <2>2, <2>3, <2>4
<1>7. Stages'
  BY <1>1, <1>2, <1>6 DEF Stages, Working, Terminal
<1> QED
  BY <1>4, <1>5, <1>7

LEMMA StructureStep ==
  ASSUME Structure, Solvent, [Next]_vars
  PROVE  Structure' /\ Solvent'
<1>1. TypeOK' /\ Solvent'
  BY TypeStep DEF Structure
<1>2. CASE UNCHANGED vars
  <2>1. UNCHANGED <<status, due, finalQuota, pc, op, txn, amount, late, list, shared>>
    BY <1>2 DEF vars, rows, request
  <2>2. Places' /\ Holds' /\ Stages'
    BY <2>1 DEF Structure, Places, Holds, Stages, Workers, Fresh, Working, Terminal, Final
  <2> QED
    BY <1>1, <2>2 DEF Structure
<1>3. CASE Next
  <2>1. Places' /\ Holds' /\ Stages'
    BY <1>3, ExpireStructure, AuthStructure, ConfirmStructure, PlainStructure,
       RowStructure, RespondStructure DEF Next, Handle
  <2> QED
    BY <1>1, <2>1 DEF Structure
<1> QED
  BY <1>2, <1>3

-----------------------------------------------------------------------------
(* A call that finds a hold expired never settles it. *)

LEMMA LateStep ==
  ASSUME Structure, LateHolds, [Next]_vars
  PROVE  LateHolds'
<1> USE DEF Structure
<1>1. ASSUME NEW t \in Txns, Expire(t) PROVE LateHolds'
  BY <1>1 DEF Expire, request, LateHolds, Working, Terminal
<1>2. ASSUME NEW c \in Calls, TokenAuth(c) PROVE LateHolds'
  <2>1. PICK o \in Phases, t \in Txns :
          /\ o \in {"pre", "single"} => status[t] = "none"
          /\ op' = [op EXCEPT ![c] = o] /\ txn' = [txn EXCEPT ![c] = t]
    BY <1>2 DEF TokenAuth, Request
  <2>2. status' = status /\ late[c] = {}
    BY <1>2 DEF TokenAuth, rows, Places
  <2>3. /\ op'[c] = o /\ txn'[c] = t
        /\ \/ pc'[c] = "refused" /\ late'[c] = {}
           \/ /\ pc'[c] = "confirm" /\ list'[c] = ExpiredHolds
              /\ late'[c] = {s \in Txns : due[s]}
    BY <1>2, <2>1, <2>2 DEF TokenAuth, Goto, TypeOK
  <2>4. \A d \in Calls \ {c} : /\ pc'[d] = pc[d] /\ list'[d] = list[d] /\ late'[d] = late[d]
                              /\ op'[d] = op[d] /\ txn'[d] = txn[d]
    BY <1>2, <2>1 DEF TokenAuth, Goto, TypeOK
  <2>5. \A s \in Txns : due[s] => s \in ExpiredHolds /\ status[s] # "none"
    BY DEF Holds, ExpiredHolds
  <2>6. ASSUME NEW d \in Calls
        PROVE (/\ pc[d] # "idle" /\ op[d] \in {"pre", "single"} => txn[d] \notin late[d]
               /\ pc[d] \in {"confirm", "read"} /\ txn[d] \in late[d]
                    => txn[d] \in list[d] \/ Terminal(txn[d])
               /\ Working(d) => txn[d] \notin late[d])'
    <3>1. CASE d = c
      BY <2>1, <2>3, <2>5, <3>1 DEF Working
    <3>2. CASE d # c
      BY <2>2, <2>4, <3>2 DEF LateHolds, Working, Terminal
    <3> QED
      BY <3>1, <3>2
  <2> QED
    BY <2>6 DEF LateHolds
<1>3. ASSUME NEW c \in Calls, AutoConfirm(c) PROVE LateHolds'
  <2>1. pc[c] = "confirm" /\ UNCHANGED <<op, txn, late>>
    BY <1>3 DEF AutoConfirm, request
  <2>2. ASSUME NEW t \in list[c], pc' = pc,
               status' = [status EXCEPT ![t] = "auto_confirmed"],
               list' = [list EXCEPT ![c] = @ \ {t}]
        PROVE  LateHolds'
    <3>1. /\ t \in Txns /\ \A d \in Calls : list[d] \ {t} \subseteq list'[d]
          /\ Terminal(t)' /\ \A s \in Txns : Terminal(s) => Terminal(s)'
      BY <2>2 DEF TypeOK, Terminal
    <3>2. \A d \in Calls : pc[d] # "idle" => txn[d] \in Txns
      BY PlacedTxn
    <3> QED
      BY <2>1, <2>2, <3>1, <3>2 DEF LateHolds, Working
  <2>3. ASSUME list' = [list EXCEPT ![c] = {}], Goto(c, "failed"), UNCHANGED rows
        PROVE  LateHolds'
    <3>1. /\ \A d \in Calls \ {c} : list'[d] = list[d] /\ pc'[d] = pc[d]
          /\ pc'[c] = "failed" /\ status' = status
      BY <2>3 DEF TypeOK, Goto, rows
    <3> QED
      BY <2>1, <3>1 DEF LateHolds, Working, Terminal
  <2> QED
    BY <1>3, <2>2, <2>3 DEF AutoConfirm
<1>4. ASSUME NEW c \in Calls, Handle(c), ~AutoConfirm(c), ~Respond(c) PROVE LateHolds'
  <2>1. pc[c] # "idle" /\ list[c] = {} /\ UNCHANGED <<op, txn, late, list>>
    BY <1>4 DEF Handle, Validate, PreConsume, TakeToken, TakeUser, Insert, Abort, Read, Adjust, Update,
       UpdateLog, request, Places
  <2>2. txn[c] \in Txns /\ \A d \in Calls : pc[d] # "idle" => txn[d] \in Txns
    BY <2>1, PlacedTxn
  <2>3. \A d \in Calls \ {c} : pc'[d] = pc[d]
    BY <1>4 DEF Handle, Validate, PreConsume, TakeToken, TakeUser, Insert, Abort, Read, Adjust, Update,
       UpdateLog, Goto, TypeOK
  <2>4. \A s \in Txns : Terminal(s) => Terminal(s)'
    <3>1. CASE Insert(c)
      BY <2>2, <3>1 DEF Insert, Stages, Fresh, TypeOK, Terminal
    <3>2. CASE Update(c)
      BY <2>2, <3>2 DEF Update, TypeOK, Terminal
    <3>3. CASE ~Insert(c) /\ ~Update(c)
      BY <1>4, <3>3 DEF Handle, Validate, PreConsume, TakeToken, TakeUser, Abort, Read, Adjust, UpdateLog,
         rows, Terminal
    <3> QED
      BY <3>1, <3>2, <3>3
  <2>5. \/ pc[c] = "confirm" /\ pc'[c] \in {"reserve", "read", "refused"}
        \/ /\ pc[c] = "insert" /\ pc'[c] = "adjust" /\ op[c] = "single"
        \/ /\ pc[c] = "read" /\ pc'[c] = "adjust" /\ ~Terminal(txn[c])
        \/ /\ pc[c] = "adjust" /\ pc'[c] = "update"
        \/ pc'[c] \in {"token", "user", "insert", "abort", "log", "done", "failed"}
    <3>1. CASE Validate(c)
      BY <3>1 DEF Validate, Goto, TypeOK
    <3>2. CASE Insert(c)
      BY <3>2 DEF Insert, AfterInsert, Goto, TypeOK
    <3>3. CASE Read(c)
      BY <3>3 DEF Read, Open, Terminal, Goto, TypeOK
    <3>4. CASE \/ PreConsume(c) \/ TakeToken(c) \/ TakeUser(c) \/ Abort(c)
               \/ Adjust(c) \/ Update(c) \/ UpdateLog(c)
      BY <3>4 DEF PreConsume, TakeToken, TakeUser, Abort, Adjust, Update, UpdateLog, Goto, TypeOK
    <3> QED
      BY <1>4, <3>1, <3>2, <3>3, <3>4 DEF Handle
  <2> QED
    BY <2>1, <2>2, <2>3, <2>4, <2>5 DEF LateHolds, Working
<1>5. ASSUME NEW c \in Calls, Respond(c) PROVE LateHolds'
  <2>1. /\ UNCHANGED <<status, list>> /\ pc'[c] = "idle" /\ late'[c] = {}
        /\ \A d \in Calls \ {c} : /\ pc'[d] = pc[d] /\ txn'[d] = txn[d] /\ op'[d] = op[d]
                                 /\ late'[d] = late[d]
    BY <1>5 DEF Respond, Goto, TypeOK, rows
  <2> QED
    BY <2>1 DEF LateHolds, Working, Terminal
<1>6. CASE UNCHANGED vars
  BY <1>6 DEF vars, rows, request, LateHolds, Working, Terminal
<1> QED
  BY <1>1, <1>2, <1>3, <1>4, <1>5, <1>6 DEF Next, Handle

-----------------------------------------------------------------------------
(* What a transaction has taken, and what its log entry says. *)

\* What Taken and Told say of one transaction.
TakenBy(t) ==
  ~missed[t] /\ ~shared[t] =>
    /\ \A c \in Calls : txn[c] = t /\ pc[c] = "user" => Half(t, amount[c])
    /\ \A c \in Calls : txn[c] = t /\ pc[c] = "insert" => Paid(t, amount[c])
    /\ \A c \in Calls : txn[c] = t /\ pc[c] = "update" => Paid(t, Final(c))
    /\ (\A c \in Calls : txn[c] = t => pc[c] \notin {"user", "insert", "update"})
         => Paid(t, Price(t))

ToldOf(t) ==
  ~unlogged[t] /\ ~shared[t] =>
    /\ \A c \in Calls : txn[c] = t /\ pc[c] = "insert" => logged[t] = amount[c]
    /\ (\A c \in Calls : txn[c] = t => pc[c] \notin {"insert", "abort", "log"})
         => logged[t] = Price(t)

LEMMA PerTxn == /\ Taken <=> \A t \in Txns : TakenBy(t)
                /\ Told <=> \A t \in Txns : ToldOf(t)
  BY DEF Taken, Told, TakenBy, ToldOf

\* A step of a call on one transaction leaves the others alone.
LEMMA OthersKept ==
  ASSUME Structure, Taken, Told, NEW c \in Calls,
         UNCHANGED <<txn, op, amount, shared>>,
         \A d \in Calls \ {c} : pc'[d] = pc[d],
         NEW t \in Txns, txn[c] # t,
         status'[t] = status[t], preQuota'[t] = preQuota[t], finalQuota'[t] = finalQuota[t],
         userPaid'[t] = userPaid[t], tokenPaid'[t] = tokenPaid[t], missed'[t] = missed[t],
         stranded'[t] = stranded[t], logged'[t] = logged[t], unlogged'[t] = unlogged[t]
  PROVE  TakenBy(t)' /\ ToldOf(t)'
<1>1. Price(t)' = Price(t) /\ \A d \in Calls : Final(d)' = Final(d)
  BY DEF Price, Final
<1>2. TakenBy(t)'
  BY <1>1 DEF Taken, TakenBy, Paid, Half
<1>3. ToldOf(t)'
  BY <1>1 DEF Told, ToldOf
<1> QED
  BY <1>2, <1>3

LEMMA ExpireBooks ==
  ASSUME Structure, Taken, Told, NEW t \in Txns, Expire(t)
  PROVE  Taken' /\ Told'
  BY DEF Expire, balances, request, ledger, Taken, Told, Paid, Half, Price, Final

LEMMA AuthBooks ==
  ASSUME Structure, Taken, Told, NEW c \in Calls, TokenAuth(c)
  PROVE  Taken' /\ Told'
<1>1. /\ UNCHANGED <<status, preQuota, finalQuota, userPaid, tokenPaid, missed, stranded,
                     logged, unlogged>>
      /\ \A t \in Txns : Price(t)' = Price(t)
  BY DEF TokenAuth, rows, ledger, Price
<1>2. \A t \in Txns : ~shared'[t] => ~shared[t]
  BY DEF TokenAuth, Structure, TypeOK
<1>3. /\ txn[c] = None /\ pc'[c] \in {"refused", "confirm"}
      /\ \A d \in Calls \ {c} : /\ pc'[d] = pc[d] /\ txn'[d] = txn[d]
                               /\ amount'[d] = amount[d] /\ Final(d)' = Final(d)
  BY DEF TokenAuth, Request, Goto, Structure, TypeOK, Places, Final
<1>4. Taken'
  BY <1>1, <1>2, <1>3, ExternalAssumption DEF Taken, Paid, Half
<1>5. Told'
  BY <1>1, <1>2, <1>3, ExternalAssumption DEF Told
<1> QED
  BY <1>4, <1>5

LEMMA ConfirmBooks ==
  ASSUME Structure, Taken, Told, NEW c \in Calls, AutoConfirm(c)
  PROVE  Taken' /\ Told'
<1>1. /\ pc[c] = "confirm" /\ UNCHANGED <<op, txn, amount, shared>>
      /\ UNCHANGED <<userPaid, tokenPaid, missed, stranded>>
      /\ preQuota' = preQuota /\ \A d \in Calls : Final(d)' = Final(d)
  BY DEF AutoConfirm, request, ledger, rows, Final
<1>2. ASSUME NEW t \in list[c], pc' = pc,
             status' = [status EXCEPT ![t] = "auto_confirmed"],
             finalQuota' = [finalQuota EXCEPT ![t] = preQuota[t]],
             Log(t, preQuota[t])
      PROVE  Taken' /\ Told'
  <2>1. /\ t \in Txns /\ preQuota[t] \in Nat
        /\ ~shared[t] => Price(t)' = preQuota[t] /\ Price(t) = preQuota[t]
        /\ \A s \in Txns \ {t} : Price(s)' = Price(s)
    BY <1>1, <1>2 DEF Structure, TypeOK, Stages, Price
  <2>2. /\ \A s \in Txns \ {t} : logged'[s] = logged[s] /\ unlogged'[s] = unlogged[s]
        /\ ~unlogged'[t] => ~unlogged[t] /\ logged'[t] = preQuota[t]
    BY <1>2, <2>1, LogFacts DEF Structure
  <2>3. \A s \in Txns : ~shared[s] => Price(s)' = Price(s)
    BY <2>1
  <2>4. Taken'
    BY <1>1, <1>2, <2>3 DEF Taken, Paid, Half
  <2>5. ~shared[t] => \A d \in Calls : txn[d] = t => d = c
    BY <2>1, SoleWorker
  <2>6. ASSUME NEW s \in Txns PROVE ToldOf(s)'
    <3>1. CASE s = t
      BY <1>1, <1>2, <2>1, <2>2, <2>5, <3>1 DEF ToldOf
    <3>2. CASE s # t
      BY <1>1, <1>2, <2>2, <2>3, <3>2 DEF Told, ToldOf
    <3> QED
      BY <3>1, <3>2
  <2>7. Told'
    BY <2>6 DEF Told, ToldOf
  <2> QED
    BY <2>4, <2>7
<1>3. ASSUME Goto(c, "failed"), UNCHANGED <<rows, logged, unlogged>>
      PROVE  Taken' /\ Told'
  <2>1. /\ \A d \in Calls \ {c} : pc'[d] = pc[d]
        /\ pc'[c] = "failed" /\ UNCHANGED <<logged, unlogged>>
        /\ \A t \in Txns : Price(t)' = Price(t)
    BY <1>3 DEF Structure, TypeOK, Goto, rows, Price
  <2>2. Taken'
    BY <1>1, <2>1 DEF Taken, Paid, Half
  <2>3. Told'
    BY <1>1, <2>1 DEF Told
  <2> QED
    BY <2>2, <2>3
<1> QED
  BY <1>2, <1>3 DEF AutoConfirm

\* The steps that only move the call, and the response.
LEMMA QuietBooks ==
  ASSUME Structure, Taken, Told, NEW c \in Calls,
         Validate(c) \/ PreConsume(c) \/ Read(c) \/ Respond(c)
  PROVE  Taken' /\ Told'
<1>1. /\ UNCHANGED <<status, preQuota, finalQuota, shared, userPaid, tokenPaid, missed, stranded,
                     logged, unlogged>>
      /\ \A t \in Txns : Price(t)' = Price(t)
  BY DEF Validate, PreConsume, Read, Respond, rows, ledger, Price
<1>2. /\ pc[c] \in {"confirm", "reserve", "read", "done", "failed", "refused"}
      /\ pc'[c] \in {"reserve", "token", "read", "adjust", "failed", "refused", "idle"}
      /\ txn'[c] \in {txn[c], None}
      /\ \A d \in Calls \ {c} : /\ pc'[d] = pc[d] /\ txn'[d] = txn[d]
                               /\ amount'[d] = amount[d] /\ Final(d)' = Final(d)
  BY DEF Validate, PreConsume, Read, Respond, Goto, Structure, TypeOK, Final, request
<1>3. Taken'
  BY <1>1, <1>2, ExternalAssumption DEF Taken, Paid, Half
<1>4. Told'
  BY <1>1, <1>2, ExternalAssumption DEF Told
<1> QED
  BY <1>3, <1>4

\* A step of a call on its own transaction: the books of that one are enough.
LEMMA OwnBooks ==
  ASSUME Structure, Taken, Told, NEW c \in Calls, txn[c] \in Txns,
         UNCHANGED <<txn, op, amount, shared>>,
         \A d \in Calls \ {c} : pc'[d] = pc[d],
         \A t \in Txns \ {txn[c]} :
           /\ status'[t] = status[t] /\ preQuota'[t] = preQuota[t]
           /\ finalQuota'[t] = finalQuota[t]
           /\ userPaid'[t] = userPaid[t] /\ tokenPaid'[t] = tokenPaid[t]
           /\ missed'[t] = missed[t] /\ stranded'[t] = stranded[t]
           /\ logged'[t] = logged[t] /\ unlogged'[t] = unlogged[t],
         ~shared[txn[c]] /\ (\A d \in Calls : txn[d] = txn[c] => d = c)
           => TakenBy(txn[c])' /\ ToldOf(txn[c])'
  PROVE  Taken' /\ Told'
<1>1. ~shared[txn[c]] => \A d \in Calls : txn[d] = txn[c] => d = c
  BY SoleWorker
<1>2. ASSUME NEW t \in Txns PROVE TakenBy(t)' /\ ToldOf(t)'
  <2>1. CASE t # txn[c]
    BY <2>1, OthersKept
  <2>2. CASE t = txn[c] /\ shared[txn[c]]
    BY <2>2 DEF TakenBy, ToldOf
  <2>3. CASE t = txn[c] /\ ~shared[txn[c]]
    <3>1. TakenBy(txn[c])' /\ ToldOf(txn[c])' /\ txn'[c] = t
      BY <1>1, <2>3
    <3> QED
      BY <3>1 DEF TakenBy, ToldOf, Paid, Half, Price
  <2> QED
    BY <2>1, <2>2, <2>3
<1> QED
  BY <1>2 DEF Taken, Told, TakenBy, ToldOf

\* The two parts of a reservation, each of which may be refused.
LEMMA TakeTokenBooks ==
  ASSUME Structure, Taken, Told, NEW c \in Calls, TakeToken(c)
  PROVE  Taken' /\ Told'
<1> DEFINE t == txn[c]
<1>1. /\ pc[c] = "token" /\ t \in Txns /\ amount[c] \in Nat
      /\ UNCHANGED <<status, preQuota, finalQuota, txn, op, amount, shared>>
      /\ UNCHANGED <<userPaid, missed, stranded, logged, unlogged>>
      /\ status[t] = "none" /\ Price(t) = 0 /\ Price(t)' = 0
      /\ tokenPaid[t] \in Int /\ stranded[t] \in Nat
  BY PlacedTxn DEF TakeToken, Structure, TypeOK, Stages, Fresh, rows, request, Price
<1>2. TakenBy(t) /\ ToldOf(t)
  BY <1>1 DEF Taken, Told, TakenBy, ToldOf
<1>3. CASE tokenPaid' = [tokenPaid EXCEPT ![t] = @ + amount[c]] /\ Goto(c, "user")
  <2>1. /\ pc'[c] = "user" /\ \A d \in Calls \ {c} : pc'[d] = pc[d]
        /\ tokenPaid'[t] = tokenPaid[t] + amount[c]
        /\ \A s \in Txns \ {t} : tokenPaid'[s] = tokenPaid[s]
    BY <1>1, <1>3 DEF Goto, Structure, TypeOK
  <2>2. ASSUME ~shared[t], \A d \in Calls : txn[d] = t => d = c
        PROVE  TakenBy(t)' /\ ToldOf(t)'
    <3>1. ~missed[t] => Paid(t, 0)
      BY <1>1, <1>2, <2>2 DEF TakenBy
    <3>2. ~missed'[t] => Half(t, amount[c])'
      BY <1>1, <2>1, <3>1 DEF Paid, Half
    <3>3. TakenBy(t)'
      BY <1>1, <2>1, <2>2, <3>2 DEF TakenBy
    <3>4. ToldOf(t)'
      BY <1>1, <1>2, <2>1, <2>2 DEF ToldOf
    <3> QED
      BY <3>3, <3>4
  <2> QED
    BY <1>1, <2>1, <2>2, OwnBooks
<1>4. CASE Goto(c, "failed") /\ UNCHANGED tokenPaid
  <2>1. pc'[c] = "failed" /\ \A d \in Calls \ {c} : pc'[d] = pc[d]
    BY <1>4 DEF Goto, Structure, TypeOK
  <2>2. ASSUME ~shared[t], \A d \in Calls : txn[d] = t => d = c
        PROVE  TakenBy(t)' /\ ToldOf(t)'
    BY <1>1, <1>2, <1>4, <2>1, <2>2 DEF TakenBy, ToldOf, Paid, Half
  <2> QED
    BY <1>1, <1>4, <2>1, <2>2, OwnBooks
<1> QED
  BY <1>3, <1>4 DEF TakeToken

LEMMA TakeUserBooks ==
  ASSUME Structure, Taken, Told, NEW c \in Calls, TakeUser(c)
  PROVE  Taken' /\ Told'
<1> DEFINE t == txn[c]
<1>1. /\ pc[c] = "user" /\ t \in Txns /\ amount[c] \in Nat
      /\ UNCHANGED <<status, preQuota, finalQuota, txn, op, amount, shared>>
      /\ UNCHANGED <<tokenPaid, missed>>
      /\ status[t] = "none" /\ Price(t) = 0 /\ Price(t)' = 0
      /\ tokenPaid[t] \in Int /\ userPaid[t] \in Int /\ stranded[t] \in Nat
  BY PlacedTxn DEF TakeUser, Structure, TypeOK, Stages, Fresh, rows, request, Price
<1>2. TakenBy(t) /\ ToldOf(t)
  BY <1>1 DEF Taken, Told, TakenBy, ToldOf
<1>3. CASE userPaid' = [userPaid EXCEPT ![t] = @ + amount[c]] /\ UNCHANGED stranded
           /\ Log(t, amount[c]) /\ Goto(c, "insert")
  <2>1. /\ pc'[c] = "insert" /\ \A d \in Calls \ {c} : pc'[d] = pc[d]
        /\ userPaid'[t] = userPaid[t] + amount[c]
        /\ \A s \in Txns \ {t} : userPaid'[s] = userPaid[s]
    BY <1>1, <1>3 DEF Goto, Structure, TypeOK
  <2>2. /\ \A s \in Txns \ {t} : logged'[s] = logged[s] /\ unlogged'[s] = unlogged[s]
        /\ ~unlogged'[t] => ~unlogged[t] /\ logged'[t] = amount[c]
    BY <1>1, <1>3, LogFacts DEF Structure
  <2>3. ASSUME ~shared[t], \A d \in Calls : txn[d] = t => d = c
        PROVE  TakenBy(t)' /\ ToldOf(t)'
    <3>1. ~missed[t] => Half(t, amount[c])
      BY <1>1, <1>2, <2>3 DEF TakenBy
    <3>2. ~missed'[t] => Paid(t, amount[c])'
      BY <1>1, <1>3, <2>1, <3>1 DEF Paid, Half
    <3>3. TakenBy(t)'
      BY <1>1, <2>1, <2>3, <3>2 DEF TakenBy
    <3>4. ToldOf(t)'
      BY <1>1, <2>1, <2>2, <2>3 DEF ToldOf
    <3> QED
      BY <3>3, <3>4
  <2> QED
    BY <1>1, <1>3, <2>1, <2>2, <2>3, OwnBooks
<1>4. CASE stranded' = [stranded EXCEPT ![t] = @ + amount[c]] /\ Goto(c, "failed")
           /\ UNCHANGED <<userPaid, logged, unlogged>>
  <2>1. /\ pc'[c] = "failed" /\ \A d \in Calls \ {c} : pc'[d] = pc[d]
        /\ stranded'[t] = stranded[t] + amount[c]
        /\ \A s \in Txns \ {t} : stranded'[s] = stranded[s]
    BY <1>1, <1>4 DEF Goto, Structure, TypeOK
  <2>2. ASSUME ~shared[t], \A d \in Calls : txn[d] = t => d = c
        PROVE  TakenBy(t)' /\ ToldOf(t)'
    <3>1. ~missed[t] => Half(t, amount[c])
      BY <1>1, <1>2, <2>2 DEF TakenBy
    <3>2. ~missed'[t] => Paid(t, 0)'
      BY <1>1, <1>4, <2>1, <3>1 DEF Paid, Half
    <3>3. TakenBy(t)'
      BY <1>1, <2>1, <2>2, <3>2 DEF TakenBy
    <3>4. ToldOf(t)'
      BY <1>1, <1>2, <1>4, <2>1, <2>2 DEF ToldOf
    <3> QED
      BY <3>3, <3>4
  <2> QED
    BY <1>1, <1>4, <2>1, <2>2, OwnBooks
<1> QED
  BY <1>3, <1>4 DEF TakeUser

LEMMA InsertBooks ==
  ASSUME Structure, Solvent, Taken, Told, NEW c \in Calls, Insert(c)
  PROVE  Taken' /\ Told'
<1> DEFINE t == txn[c]
<1>1. /\ pc[c] = "insert" /\ t \in Txns /\ amount[c] \in Nat /\ -amount[c] \in Int
      /\ UNCHANGED <<finalQuota, txn, op, amount, shared, logged, unlogged>>
      /\ status[t] = "none"
  BY PlacedTxn DEF Insert, Structure, TypeOK, Stages, Fresh, request
<1>2. TakenBy(t) /\ ToldOf(t)
  BY <1>1 DEF Taken, Told, TakenBy, ToldOf
<1>3. CASE /\ status' = [status EXCEPT ![t] = "pending"]
           /\ preQuota' = [preQuota EXCEPT ![t] = amount[c]]
           /\ Goto(c, AfterInsert(c)) /\ UNCHANGED <<balances, ledger, failures>>
  <2>1. /\ pc'[c] \in {"adjust", "done"} /\ \A d \in Calls \ {c} : pc'[d] = pc[d]
        /\ UNCHANGED <<userPaid, tokenPaid, missed, stranded>>
        /\ \A s \in Txns \ {t} : status'[s] = status[s] /\ preQuota'[s] = preQuota[s]
        /\ Price(t)' = amount[c]
    BY <1>1, <1>3 DEF Goto, AfterInsert, Structure, TypeOK, ledger, Price
  <2>2. ASSUME ~shared[t], \A d \in Calls : txn[d] = t => d = c
        PROVE  TakenBy(t)' /\ ToldOf(t)'
    BY <1>1, <1>2, <2>1, <2>2 DEF TakenBy, ToldOf, Paid, Half
  <2> QED
    BY <1>1, <2>1, <2>2, OwnBooks
<1>4. CASE Move(t, -amount[c]) /\ Goto(c, "abort") /\ UNCHANGED <<status, preQuota>>
  <2>1. /\ \A s \in Txns \ {t} : /\ userPaid'[s] = userPaid[s]
                                 /\ tokenPaid'[s] = tokenPaid[s]
                                 /\ missed'[s] = missed[s]
        /\ stranded' = stranded
        /\ ~missed'[t] => /\ ~missed[t]
                          /\ userPaid'[t] = userPaid[t] + -amount[c]
                          /\ tokenPaid'[t] = tokenPaid[t] + -amount[c]
    BY <1>1, <1>4, MoveFacts DEF Structure
  <2>2. /\ pc'[c] = "abort" /\ \A d \in Calls \ {c} : pc'[d] = pc[d]
        /\ Price(t)' = 0
    BY <1>1, <1>4 DEF Goto, Structure, TypeOK, Price
  <2>3. ASSUME ~shared[t], \A d \in Calls : txn[d] = t => d = c
        PROVE  TakenBy(t)' /\ ToldOf(t)'
    <3>1. ~missed[t] => Paid(t, amount[c])
      BY <1>1, <1>2, <2>3 DEF TakenBy
    <3>2. ~missed'[t] => Paid(t, 0)'
      BY <1>1, <2>1, <3>1 DEF Paid, Structure, TypeOK
    <3>3. TakenBy(t)'
      BY <1>1, <2>2, <2>3, <3>2 DEF TakenBy
    <3>4. ToldOf(t)'
      BY <1>1, <2>2, <2>3 DEF ToldOf
    <3> QED
      BY <3>3, <3>4
  <2> QED
    BY <1>1, <1>4, <2>1, <2>2, <2>3, OwnBooks
<1> QED
  BY <1>3, <1>4 DEF Insert

\* The two log entries that end a call.
LEMMA LogBooks ==
  ASSUME Structure, Taken, Told, NEW c \in Calls, Abort(c) \/ UpdateLog(c)
  PROVE  Taken' /\ Told'
<1> DEFINE t == txn[c]
           n == IF pc[c] = "abort" THEN 0 ELSE Final(c)
<1>1. /\ pc[c] \in {"abort", "log"} /\ t \in Txns /\ n \in Nat
      /\ UNCHANGED <<status, preQuota, finalQuota, txn, op, amount, shared,
                     userPaid, tokenPaid, missed, stranded>>
      /\ ~shared[t] => Price(t) = n /\ Price(t)' = n
  BY PlacedTxn DEF Abort, UpdateLog, Structure, TypeOK, Stages, Fresh, Terminal, Final,
     Price, rows, request, ledger
<1>2. TakenBy(t)
  BY <1>1 DEF Taken, TakenBy
<1>3. Log(t, n)
  BY DEF Abort, UpdateLog
<1>4. /\ pc'[c] \in {"failed", "done"} /\ \A d \in Calls \ {c} : pc'[d] = pc[d]
  BY DEF Abort, UpdateLog, Goto, Structure, TypeOK
<1> HIDE DEF n
<1>5. /\ \A s \in Txns \ {t} : logged'[s] = logged[s] /\ unlogged'[s] = unlogged[s]
      /\ ~unlogged'[t] => ~unlogged[t] /\ logged'[t] = n
  BY <1>1, <1>3, LogFacts DEF Structure
<1>6. ASSUME ~shared[t], \A d \in Calls : txn[d] = t => d = c
      PROVE  TakenBy(t)' /\ ToldOf(t)'
  <2>1. TakenBy(t)'
    BY <1>1, <1>2, <1>4, <1>6 DEF TakenBy, Paid, Half
  <2>2. ToldOf(t)'
    BY <1>1, <1>4, <1>5, <1>6 DEF ToldOf
  <2> QED
    BY <2>1, <2>2
<1> QED
  BY <1>1, <1>4, <1>5, <1>6, OwnBooks

LEMMA AdjustBooks ==
  ASSUME Structure, Solvent, Taken, Told, NEW c \in Calls, Adjust(c)
  PROVE  Taken' /\ Told'
<1> DEFINE t == txn[c]
<1>1. /\ pc[c] = "adjust" /\ t \in Txns
      /\ UNCHANGED <<status, preQuota, finalQuota, txn, op, amount, shared, logged, unlogged>>
      /\ ~shared[t] => status[t] = "pending"
  BY PlacedTxn DEF Adjust, Structure, Stages, Working, rows, request
<1>2. TakenBy(t) /\ ToldOf(t)
  BY <1>1 DEF Taken, Told, TakenBy, ToldOf
<1>3. /\ Final(c) \in Nat /\ Delta(c) \in Int /\ preQuota[t] \in Nat
      /\ Delta(c) = Final(c) - preQuota[t] /\ Final(c)' = Final(c)
  BY <1>1, DeltaType DEF Structure, TypeOK, Delta, Final
<1>4. Move(t, Delta(c))
  BY DEF Adjust
<1>5. /\ \A s \in Txns \ {t} : /\ userPaid'[s] = userPaid[s]
                               /\ tokenPaid'[s] = tokenPaid[s]
                               /\ missed'[s] = missed[s]
      /\ stranded' = stranded
      /\ ~missed'[t] => /\ ~missed[t]
                        /\ userPaid'[t] = userPaid[t] + Delta(c)
                        /\ tokenPaid'[t] = tokenPaid[t] + Delta(c)
  BY <1>1, <1>3, <1>4, MoveFacts DEF Structure
<1>6. ~PostConsumed(Delta(c)) => missed'[t]
  <2>1. ASSUME ~PostConsumed(Delta(c)) PROVE ~Covers(tokenQuota, Delta(c)) /\ 0 # Delta(c)
    BY <1>3, <2>1 DEF PostConsumed, Covers, Solvent, Structure, TypeOK
  <2>2. ASSUME ~Covers(tokenQuota, Delta(c)), 0 # Delta(c) PROVE missed'[t]
    BY <1>1, <1>4, <2>2 DEF Move, Structure, TypeOK
  <2> QED
    BY <2>1, <2>2
<1>7. /\ pc'[c] \in {"update", "failed"} /\ (pc'[c] = "failed" => missed'[t])
      /\ \A d \in Calls \ {c} : pc'[d] = pc[d]
  BY <1>6 DEF Adjust, Goto, Structure, TypeOK
<1>8. ASSUME ~shared[t], \A d \in Calls : txn[d] = t => d = c
      PROVE  TakenBy(t)' /\ ToldOf(t)'
  <2>1. Price(t) = preQuota[t] /\ Price(t)' = Price(t)
    BY <1>1, <1>8 DEF Price
  <2>2. ~missed[t] => Paid(t, preQuota[t])
    BY <1>1, <1>2, <1>8, <2>1 DEF TakenBy
  <2>3. ~missed'[t] => Paid(t, Final(c))'
    BY <1>1, <1>3, <1>5, <2>2 DEF Paid, Structure, TypeOK
  <2>4. TakenBy(t)'
    BY <1>1, <1>7, <1>8, <2>3 DEF TakenBy
  <2>5. ToldOf(t)'
    BY <1>1, <1>2, <1>7, <1>8, <2>1 DEF ToldOf
  <2> QED
    BY <2>4, <2>5
<1> QED
  BY <1>1, <1>5, <1>7, <1>8, OwnBooks

LEMMA UpdateBooks ==
  ASSUME Structure, Solvent, Taken, Told, NEW c \in Calls, Update(c)
  PROVE  Taken' /\ Told'
<1> DEFINE t == txn[c]
<1>1. /\ pc[c] = "update" /\ t \in Txns
      /\ UNCHANGED <<preQuota, txn, op, amount, shared, logged, unlogged>>
      /\ ~shared[t] => status[t] = "pending"
  BY PlacedTxn DEF Update, Structure, Stages, Working, request
<1>2. TakenBy(t) /\ ToldOf(t)
  BY <1>1 DEF Taken, Told, TakenBy, ToldOf
<1>3. /\ Final(c) \in Nat /\ -Delta(c) \in Int /\ preQuota[t] \in Nat
      /\ Delta(c) = Final(c) - preQuota[t]
  BY <1>1, DeltaType DEF Structure, TypeOK, Delta
<1>4. CASE /\ status' = [status EXCEPT ![t] =
                           IF op[c] = "cancel" THEN "canceled" ELSE "confirmed"]
           /\ finalQuota' = [finalQuota EXCEPT ![t] = Final(c)]
           /\ Goto(c, "log") /\ UNCHANGED <<balances, ledger, failures>>
  <2>1. /\ pc'[c] = "log" /\ \A d \in Calls \ {c} : pc'[d] = pc[d]
        /\ UNCHANGED <<userPaid, tokenPaid, missed, stranded>>
        /\ \A s \in Txns \ {t} : status'[s] = status[s] /\ finalQuota'[s] = finalQuota[s]
        /\ Price(t)' = Final(c)
    BY <1>1, <1>4 DEF Goto, Structure, TypeOK, ledger, Price
  <2>2. ASSUME ~shared[t], \A d \in Calls : txn[d] = t => d = c
        PROVE  TakenBy(t)' /\ ToldOf(t)'
    <3>1. TakenBy(t)'
      BY <1>1, <1>2, <2>1, <2>2 DEF TakenBy, Paid, Half
    <3>2. ToldOf(t)'
      BY <1>1, <2>1, <2>2 DEF ToldOf
    <3> QED
      BY <3>1, <3>2
  <2> QED
    BY <1>1, <2>1, <2>2, OwnBooks
<1>5. CASE Compensate(c) /\ Goto(c, "failed") /\ UNCHANGED <<status, finalQuota, due>>
  <2>1. /\ \A s \in Txns \ {t} : /\ userPaid'[s] = userPaid[s]
                                 /\ tokenPaid'[s] = tokenPaid[s]
                                 /\ missed'[s] = missed[s]
        /\ stranded' = stranded
        /\ ~missed'[t] => /\ ~missed[t]
                          /\ userPaid'[t] = userPaid[t] + -Delta(c)
                          /\ tokenPaid'[t] = tokenPaid[t] + -Delta(c)
    BY <1>1, <1>3, <1>5, MoveFacts DEF Structure, Compensate
  <2>2. pc'[c] = "failed" /\ \A d \in Calls \ {c} : pc'[d] = pc[d]
    BY <1>5 DEF Goto, Structure, TypeOK
  <2>3. ASSUME ~shared[t], \A d \in Calls : txn[d] = t => d = c
        PROVE  TakenBy(t)' /\ ToldOf(t)'
    <3>1. Price(t) = preQuota[t] /\ Price(t)' = Price(t)
      BY <1>1, <1>5, <2>3 DEF Price
    <3>2. ~missed[t] => Paid(t, Final(c))
      BY <1>1, <1>2, <2>3 DEF TakenBy
    <3>3. ~missed'[t] => Paid(t, preQuota[t])'
      BY <1>1, <1>3, <2>1, <3>2 DEF Paid, Structure, TypeOK
    <3>4. TakenBy(t)'
      BY <1>1, <2>2, <2>3, <3>1, <3>3 DEF TakenBy
    <3>5. ToldOf(t)'
      BY <1>1, <1>2, <2>2, <2>3, <3>1 DEF ToldOf
    <3> QED
      BY <3>4, <3>5
  <2> QED
    BY <1>1, <1>5, <2>1, <2>2, <2>3, OwnBooks
<1> QED
  BY <1>4, <1>5 DEF Update

-----------------------------------------------------------------------------
(* The theorems. *)

LEMMA NextIInv == IInv /\ [Next]_vars => IInv'
<1> SUFFICES ASSUME IInv, [Next]_vars PROVE IInv'
  OBVIOUS
<1>1. Structure' /\ Solvent'
  BY StructureStep DEF IInv
<1>2. LateHolds'
  BY LateStep DEF IInv
<1>3. Taken' /\ Told'
  <2>1. CASE UNCHANGED vars
    BY <2>1 DEF vars, rows, request, ledger, IInv, Taken, Told, Paid, Half, Price, Final
  <2>2. CASE Next
    BY <2>2, ExpireBooks, AuthBooks, ConfirmBooks, QuietBooks, TakeTokenBooks, TakeUserBooks,
       InsertBooks, LogBooks, AdjustBooks, UpdateBooks DEF IInv, Next, Handle
  <2> QED
    BY <2>1, <2>2
<1> QED
  BY <1>1, <1>2, <1>3 DEF IInv

LEMMA Invariant == Spec => []IInv
  BY InitIInv, NextIInv, PTL DEF Spec

\* The books of POST /api/token/consume balance between calls: no row is
\* overdrawn, a transaction that one call at a time worked on has taken what its
\* row says (and, of the token alone, what reservations that failed at the user's
\* row left there), and its log entry shows it, for any calls, holds and failures.
THEOREM BooksTheorem == Spec => []BooksBalance
<1>1. IInv => BooksBalance
  <2> SUFFICES ASSUME IInv PROVE BooksBalance
    OBVIOUS
  <2>1. \A t \in Txns : Quiet(t) => \A c \in Calls : txn[c] # t
    BY DEF Quiet, Workers
  <2>2. Settled
    BY <2>1 DEF IInv, Taken, Settled, Paid
  <2>3. LogAgrees
    BY <2>1 DEF IInv, Told, LogAgrees
  <2> QED
    BY <2>2, <2>3 DEF IInv, Structure, BooksBalance
<1> QED
  BY <1>1, Invariant, PTL

\* A hold that had expired when a call began is never settled by that call.
THEOREM LateTheorem == Spec => []NoLateSettlement
<1>1. IInv => NoLateSettlement
  BY DEF IInv, LateHolds, Working, NoLateSettlement
<1> QED
  BY <1>1, Invariant, PTL

\* A transaction that left the pending state stays as it is, unless two calls
\* worked on it at once.
THEOREM FinalTheorem == Spec => TerminalIsFinal
<1> DEFINE Kept == \A t \in Txns :
             status[t] \notin {"none", "pending"} /\ ~shared[t]
               => status'[t] = status[t] /\ finalQuota'[t] = finalQuota[t]
<1>1. IInv /\ [Next]_vars => [Kept]_vars
  <2> SUFFICES ASSUME IInv, Next, NEW t \in Txns, Terminal(t), ~shared[t]
               PROVE  status'[t] = status[t] /\ finalQuota'[t] = finalQuota[t]
    BY Zenon DEF Terminal
  <2> USE DEF IInv, Structure
  <2>1. ASSUME NEW s \in Txns, Expire(s) PROVE status'[t] = status[t] /\ finalQuota'[t] = finalQuota[t]
    BY <2>1 DEF Expire
  <2>2. ASSUME NEW c \in Calls, Insert(c) PROVE status'[t] = status[t] /\ finalQuota'[t] = finalQuota[t]
    <3>1. status[txn[c]] = "none"
      BY <2>2 DEF Insert, Stages, Fresh
    <3> QED
      BY <2>2, <3>1 DEF Insert, Terminal, TypeOK
  <2>3. ASSUME NEW c \in Calls, Update(c) PROVE status'[t] = status[t] /\ finalQuota'[t] = finalQuota[t]
    <3>1. txn[c] # t
      BY <2>3 DEF Update, Stages, Working, Terminal
    <3> QED
      BY <2>3, <3>1 DEF Update, TypeOK
  <2>4. ASSUME NEW c \in Calls, AutoConfirm(c) PROVE status'[t] = status[t] /\ finalQuota'[t] = finalQuota[t]
    <3>1. t \notin list[c]
      BY DEF Stages, Terminal
    <3> QED
      BY <2>4, <3>1 DEF AutoConfirm, TypeOK, rows
  <2>5. ASSUME NEW c \in Calls,
               \/ TokenAuth(c) \/ Validate(c) \/ PreConsume(c) \/ TakeToken(c) \/ TakeUser(c)
               \/ Abort(c) \/ Read(c) \/ Adjust(c) \/ UpdateLog(c) \/ Respond(c)
        PROVE  status'[t] = status[t] /\ finalQuota'[t] = finalQuota[t]
    BY <2>5 DEF TokenAuth, Validate, PreConsume, TakeToken, TakeUser, Abort, Read, Adjust,
       UpdateLog, Respond, rows
  <2> QED
    BY <2>1, <2>2, <2>3, <2>4, <2>5 DEF Next, Handle
<1> HIDE DEF Kept
<1>2. Spec => [][Kept]_vars
  BY <1>1, Invariant, PTL DEF Spec
<1> QED
  BY <1>2 DEF Kept, TerminalIsFinal

=============================================================================
