--------------------------- MODULE ExternalBilling ---------------------------
(***************************************************************************)
(* External billing: POST /api/token/consume (controller/token.go and      *)
(* model/token_transaction.go).  An external system reserves quota of a    *)
(* token ("pre"), settles the reservation with the real amount ("post"),   *)
(* releases it ("cancel"), or does both at once ("single").  Every call    *)
(* first confirms the holds whose timeout has passed.                      *)
(*                                                                         *)
(* A call is a sequence of statements: reading a transaction, moving the   *)
(* quota and updating the transaction are separate steps, and calls        *)
(* interleave.  PreConsumeTokenQuota is a check and a step for each row;   *)
(* the two updates of PostConsumeTokenQuota are one step here, split by    *)
(* RelayBilling.  The token is limited, Redis and batch updates are off.   *)
(***************************************************************************)
EXTENDS Integers

CONSTANTS
  Txns,         \* transaction ids, each generated at most once
  None,         \* no transaction
  Calls,        \* concurrent calls of ConsumeToken
  Amounts,      \* add_used_quota of pre and single calls
  Finals,       \* final_used_quota of post calls
  UserQuota0,   \* initial users.quota
  TokenQuota0,  \* initial tokens.remain_quota
  MaxFailures   \* bound on the failing statements

ASSUME ExternalAssumption ==
  /\ None \notin Txns
  /\ Amounts \subseteq Nat \ {0} /\ Finals \subseteq Nat
  /\ UserQuota0 \in Nat /\ TokenQuota0 \in Nat /\ MaxFailures \in Nat

VARIABLES
  userQuota, tokenQuota, exhausted,  \* the user's row and the token's
  status, preQuota, finalQuota, due, \* token_transactions; due: timeout passed
  logged,                            \* the quota of the transaction's log entry
  pc, op, txn, amount, list,         \* a call and its locals
  late,                              \* audit: holds that were due when it began
  userPaid, tokenPaid, missed,       \* audit: what each transaction took
  stranded,                          \* audit: what failed reservations left taken
                                     \* from the token
  shared, unlogged,                  \* audit: did two calls work on it at once?
                                     \* did a statement on its log entry fail?
  failures                           \* how many statements have failed

balances == <<userQuota, tokenQuota, exhausted>>
rows     == <<status, preQuota, finalQuota, due>>
request  == <<op, txn, amount, late>>
ledger   == <<userPaid, tokenPaid, missed, stranded>>
vars     == <<balances, rows, logged, pc, request, list, ledger, shared,
              unlogged, failures>>

Phases   == {"pre", "post", "cancel", "single"}
Statuses == {"none", "pending", "confirmed", "auto_confirmed", "canceled"}

Init ==
  /\ userQuota = UserQuota0 /\ tokenQuota = TokenQuota0 /\ exhausted = FALSE
  /\ status = [t \in Txns |-> "none"] /\ due = [t \in Txns |-> FALSE]
  /\ preQuota = [t \in Txns |-> 0] /\ finalQuota = [t \in Txns |-> 0]
  /\ logged = [t \in Txns |-> 0]
  /\ pc = [c \in Calls |-> "idle"] /\ op = [c \in Calls |-> "pre"]
  /\ txn = [c \in Calls |-> None] /\ amount = [c \in Calls |-> 0]
  /\ list = [c \in Calls |-> {}] /\ late = [c \in Calls |-> {}]
  /\ userPaid = [t \in Txns |-> 0] /\ tokenPaid = [t \in Txns |-> 0]
  /\ stranded = [t \in Txns |-> 0]
  /\ missed = [t \in Txns |-> FALSE] /\ shared = [t \in Txns |-> FALSE]
  /\ unlogged = [t \in Txns |-> FALSE] /\ failures = 0

Goto(c, place) == pc' = [pc EXCEPT ![c] = place]

\* The calls working on a transaction: they name it or are confirming it.
Workers(t) == {c \in Calls : txn[c] = t \/ t \in list[c]}
Quiet(t)   == Workers(t) = {}

\* Time passes and a hold reaches its expires_at.
Expire(t) ==
  /\ status[t] = "pending" /\ ~due[t]
  /\ due' = [due EXCEPT ![t] = TRUE]
  /\ UNCHANGED <<balances, status, preQuota, finalQuota, logged, pc, request,
                 list, ledger, shared, unlogged, failures>>

\* A statement on token_transactions or logs fails.
Fail == failures < MaxFailures /\ failures' = failures + 1

\* RecordConsumeLog and UpdateConsumeLogByID: an error is only logged.
Log(t, n) ==
  \/ logged' = [logged EXCEPT ![t] = n] /\ UNCHANGED <<unlogged, failures>>
  \/ unlogged' = [unlogged EXCEPT ![t] = TRUE] /\ Fail /\ UNCHANGED logged

-----------------------------------------------------------------------------
(* The start of a call: TokenAuth and, in the same step, the query of       *)
(* autoConfirmExpiredTokenTransactions.                                     *)

ExpiredHolds_Unlisted == {}
ExpiredHolds_Unfiltered == {t \in Txns : status[t] # "none"}
ExpiredHolds == {t \in Txns : status[t] = "pending" /\ due[t]}

\* What the client asks for.  A post or a cancel names a transaction that
\* exists; a pre or a single gets an id nobody has.
Request(c) ==
  \E o \in Phases, t \in Txns, n \in Amounts \cup Finals :
    /\ IF o \in {"pre", "single"}
         THEN status[t] = "none" /\ Quiet(t) /\ n \in Amounts
         ELSE /\ status[t] # "none"
              /\ IF o = "post" THEN n \in Finals ELSE n = preQuota[t]
    /\ op' = [op EXCEPT ![c] = o] /\ txn' = [txn EXCEPT ![c] = t]
    /\ amount' = [amount EXCEPT ![c] = n]

\* ValidateUserToken: a token without quota becomes exhausted for good.
Unusable == exhausted \/ tokenQuota <= 0

TokenAuth(c) ==
  /\ pc[c] = "idle"
  /\ Request(c)
  /\ exhausted' = Unusable
  /\ IF Unusable
       THEN Goto(c, "refused") /\ UNCHANGED <<list, late>>
       ELSE /\ list' = [list EXCEPT ![c] = ExpiredHolds]
            /\ late' = [late EXCEPT ![c] = {t \in Txns : due[t]}]
            /\ Goto(c, "confirm")
  /\ shared' = [t \in Txns |-> shared[t] \/ \E d, e \in Workers(t)' : d # e]
  /\ UNCHANGED <<userQuota, tokenQuota, rows, logged, ledger, unlogged,
                 failures>>

\* AutoConfirmExpiredTokenTransactions: an update by primary key per hold
\* found, and its log entry (written after all the updates in the code).  An
\* error ends the call.
AutoConfirm(c) ==
  /\ pc[c] = "confirm" /\ list[c] # {}
  /\ \/ \E t \in list[c] :
          /\ status' = [status EXCEPT ![t] = "auto_confirmed"]
          /\ finalQuota' = [finalQuota EXCEPT ![t] = preQuota[t]]
          /\ due' = [due EXCEPT ![t] = FALSE]
          /\ Log(t, preQuota[t])
          /\ list' = [list EXCEPT ![c] = @ \ {t}]
          /\ UNCHANGED <<pc, preQuota>>
     \/ /\ Fail
        /\ list' = [list EXCEPT ![c] = {}] /\ Goto(c, "failed")
        /\ UNCHANGED <<rows, logged, unlogged>>
  /\ UNCHANGED <<balances, request, ledger, shared>>

\* validateTokenForConsumption looks at the token again.
Validate(c) ==
  /\ pc[c] = "confirm" /\ list[c] = {}
  /\ Goto(c, IF Unusable THEN "refused"
             ELSE IF op[c] \in {"pre", "single"} THEN "reserve" ELSE "read")
  /\ UNCHANGED <<balances, rows, logged, request, list, ledger, shared,
                 unlogged, failures>>

-----------------------------------------------------------------------------
(* Moving quota. *)

\* decreaseUserQuota and decreaseTokenQuota: UPDATE ... WHERE quota >= n.
Covers(quota, n) == n <= quota

\* PostConsumeTokenQuota: the user's row, then the token's, each only when it
\* covers n.  The call fails when the token's does not; what the user's row
\* gave is kept either way.
PostConsumed(n) == Covers(tokenQuota, n)

Move(t, n) ==
  LET fromUser  == IF Covers(userQuota, n) THEN n ELSE 0
      fromToken == IF Covers(tokenQuota, n) THEN n ELSE 0
  IN  /\ userQuota' = userQuota - fromUser
      /\ tokenQuota' = tokenQuota - fromToken
      /\ userPaid' = [userPaid EXCEPT ![t] = @ + fromUser]
      /\ tokenPaid' = [tokenPaid EXCEPT ![t] = @ + fromToken]
      /\ missed' = [missed EXCEPT ![t] = @ \/ fromUser # n \/ fromToken # n]
      /\ UNCHANGED <<exhausted, stranded>>

\* PreConsumeTokenQuota reads both balances ...
PreConsume(c) ==
  /\ pc[c] = "reserve"
  /\ Goto(c, IF amount[c] <= tokenQuota /\ amount[c] <= userQuota
               THEN "token" ELSE "failed")
  /\ UNCHANGED <<balances, rows, logged, request, list, ledger, shared,
                 unlogged, failures>>

\* An update finds too little by now, or fails.
Rejected(quota, n) == \/ ~Covers(quota, n) /\ UNCHANGED failures
                      \/ Fail

\* ... takes the amount from the token ...
TakeToken(c) ==
  /\ pc[c] = "token"
  /\ \/ /\ Covers(tokenQuota, amount[c])
        /\ tokenQuota' = tokenQuota - amount[c]
        /\ tokenPaid' = [tokenPaid EXCEPT ![txn[c]] = @ + amount[c]]
        /\ Goto(c, "user")
        /\ UNCHANGED failures
     \/ /\ Rejected(tokenQuota, amount[c])
        /\ Goto(c, "failed")
        /\ UNCHANGED <<tokenQuota, tokenPaid>>
  /\ UNCHANGED <<userQuota, exhausted, rows, logged, request, list, userPaid,
                 missed, stranded, shared, unlogged>>

\* ... and then from the user, and the log entry is written.  When the user's
\* part fails the call fails, and nobody gives the token's part back.
TakeUser(c) ==
  /\ pc[c] = "user"
  /\ \/ /\ Covers(userQuota, amount[c])
        /\ userQuota' = userQuota - amount[c]
        /\ userPaid' = [userPaid EXCEPT ![txn[c]] = @ + amount[c]]
        /\ Log(txn[c], amount[c])
        /\ Goto(c, "insert")
        /\ UNCHANGED stranded
     \/ /\ Rejected(userQuota, amount[c])
        /\ stranded' = [stranded EXCEPT ![txn[c]] = @ + amount[c]]
        /\ Goto(c, "failed")
        /\ UNCHANGED <<userQuota, userPaid, logged, unlogged>>
  /\ UNCHANGED <<tokenQuota, exhausted, rows, request, list, tokenPaid, missed,
                 shared>>

\* processImmediateConsume goes on with the post phase.
AfterInsert(c) == IF op[c] = "single" THEN "adjust" ELSE "done"

\* CreateTokenTransaction; when it fails the reservation is given back.
Insert(c) ==
  /\ pc[c] = "insert"
  /\ \/ /\ status' = [status EXCEPT ![txn[c]] = "pending"]
        /\ preQuota' = [preQuota EXCEPT ![txn[c]] = amount[c]]
        /\ Goto(c, AfterInsert(c))
        /\ UNCHANGED <<balances, ledger, failures>>
     \/ /\ Fail
        /\ Move(txn[c], -amount[c])
        /\ Goto(c, "abort")
        /\ UNCHANGED <<status, preQuota>>
  /\ UNCHANGED <<finalQuota, due, logged, request, list, shared, unlogged>>

\* The log entry of a reservation that was given back.
Abort(c) ==
  /\ pc[c] = "abort"
  /\ Log(txn[c], 0)
  /\ Goto(c, "failed")
  /\ UNCHANGED <<balances, rows, request, list, ledger, shared>>

-----------------------------------------------------------------------------
(* processPostConsume and processCancelConsume. *)

Final(c) == IF op[c] = "cancel" THEN 0 ELSE amount[c]
Delta(c) == Final(c) - preQuota[txn[c]]

\* The transaction is read; only a pending one goes on.
Open(t) == status[t] = "pending"

Read(c) ==
  /\ pc[c] = "read"
  /\ Goto(c, IF Open(txn[c]) THEN "adjust" ELSE "failed")
  /\ UNCHANGED <<balances, rows, logged, request, list, ledger, shared,
                 unlogged, failures>>

\* The difference is charged or paid back.
Adjust(c) ==
  /\ pc[c] = "adjust"
  /\ Move(txn[c], Delta(c))
  /\ Goto(c, IF PostConsumed(Delta(c)) THEN "update" ELSE "failed")
  /\ UNCHANGED <<rows, logged, request, list, shared, unlogged, failures>>

\* What the caller does when the update fails: it takes the adjustment back.
Compensate_Nothing(c) == UNCHANGED <<balances, ledger>>
Compensate(c) == Move(txn[c], -Delta(c))

\* UpdateTokenTransaction, by primary key: whatever the status is by now.
Update(c) ==
  /\ pc[c] = "update"
  /\ \/ /\ status' = [status EXCEPT ![txn[c]] =
                        IF op[c] = "cancel" THEN "canceled" ELSE "confirmed"]
        /\ finalQuota' = [finalQuota EXCEPT ![txn[c]] = Final(c)]
        /\ due' = [due EXCEPT ![txn[c]] = FALSE]
        /\ Goto(c, "log")
        /\ UNCHANGED <<balances, ledger, failures>>
     \/ /\ Fail
        /\ Compensate(c)
        /\ Goto(c, "failed")
        /\ UNCHANGED <<status, finalQuota, due>>
  /\ UNCHANGED <<preQuota, logged, request, list, shared, unlogged>>

\* The log entry gets the final amount.
UpdateLog(c) ==
  /\ pc[c] = "log"
  /\ Log(txn[c], Final(c))
  /\ Goto(c, "done")
  /\ UNCHANGED <<balances, rows, request, list, ledger, shared>>

\* The response is sent.
Respond(c) ==
  /\ pc[c] \in {"done", "failed", "refused"}
  /\ Goto(c, "idle")
  /\ txn' = [txn EXCEPT ![c] = None] /\ amount' = [amount EXCEPT ![c] = 0]
  /\ op' = [op EXCEPT ![c] = "pre"] /\ late' = [late EXCEPT ![c] = {}]
  /\ UNCHANGED <<balances, rows, logged, list, ledger, shared, unlogged,
                 failures>>

-----------------------------------------------------------------------------
Handle(c) == \/ AutoConfirm(c) \/ Validate(c) \/ PreConsume(c) \/ TakeToken(c)
             \/ TakeUser(c) \/ Insert(c) \/ Abort(c) \/ Read(c) \/ Adjust(c)
             \/ Update(c) \/ UpdateLog(c) \/ Respond(c)

Next == \/ \E t \in Txns : Expire(t)
        \/ \E c \in Calls : TokenAuth(c) \/ Handle(c)

Spec == Init /\ [][Next]_vars

-----------------------------------------------------------------------------
(* Properties. *)

\* Every variable has its type.
TypeOK ==
  /\ userQuota \in Int /\ tokenQuota \in Int /\ exhausted \in BOOLEAN
  /\ status \in [Txns -> Statuses] /\ due \in [Txns -> BOOLEAN]
  /\ preQuota \in [Txns -> Nat] /\ finalQuota \in [Txns -> Nat]
  /\ logged \in [Txns -> Nat]
  /\ pc \in [Calls -> {"idle", "confirm", "reserve", "token", "user", "insert",
                       "abort", "read", "adjust", "update", "log", "done",
                       "failed", "refused"}]
  /\ op \in [Calls -> Phases] /\ txn \in [Calls -> Txns \cup {None}]
  /\ amount \in [Calls -> Nat]
  /\ list \in [Calls -> SUBSET Txns] /\ late \in [Calls -> SUBSET Txns]
  /\ userPaid \in [Txns -> Int] /\ tokenPaid \in [Txns -> Int]
  /\ stranded \in [Txns -> Nat]
  /\ missed \in [Txns -> BOOLEAN] /\ shared \in [Txns -> BOOLEAN]
  /\ unlogged \in [Txns -> BOOLEAN] /\ failures \in 0 .. MaxFailures

\* Neither row is overdrawn, whatever calls do at the same time.
Solvent == userQuota >= 0 /\ tokenQuota >= 0

Price(t) == CASE status[t] = "none"    -> 0
              [] status[t] = "pending" -> preQuota[t]
              [] OTHER                 -> finalQuota[t]

\* Between calls a transaction has taken exactly what its row says: the
\* reservation while it is pending, the final amount afterwards, nothing when
\* it was never recorded, even when a statement failed half-way and whatever
\* calls on other transactions did meanwhile.  Only the token has paid more: the
\* reservations whose user's part failed stay with it (PreConsumeTokenQuota).
Settled ==
  \A t \in Txns : Quiet(t) /\ ~missed[t] /\ ~shared[t] =>
    userPaid[t] = Price(t) /\ tokenPaid[t] = Price(t) + stranded[t]

\* The consume log shows the same amount, unless writing it failed.
LogAgrees ==
  \A t \in Txns : Quiet(t) /\ ~missed[t] /\ ~shared[t] /\ ~unlogged[t]
    => logged[t] = Price(t)

\* A hold that had expired when a call began is never settled by that call: it
\* has been auto-confirmed first.
NoLateSettlement ==
  \A c \in Calls : pc[c] \in {"adjust", "update"} => txn[c] \notin late[c]

\* A transaction that has left the pending state stays as it is, unless two
\* calls worked on it at once (processPostConsume and processCancelConsume
\* refuse it, AutoConfirmExpiredTokenTransactions does not list it).
TerminalIsFinal ==
  [][\A t \in Txns :
       status[t] \notin {"none", "pending"} /\ ~shared[t]
         => status'[t] = status[t] /\ finalQuota'[t] = finalQuota[t]]_vars

\* The books of POST /api/token/consume, taken together.
BooksBalance == TypeOK /\ Solvent /\ Settled /\ LogAgrees

=============================================================================
