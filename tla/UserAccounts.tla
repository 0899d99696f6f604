---------------------------- MODULE UserAccounts ----------------------------
(***************************************************************************)
(* The rows of users with what is kept beside them (the in-memory          *)
(* blacklist, the copy in Redis), redemption codes and recharge requests,  *)
(* and the handlers that change them.  Several handlers are under way at   *)
(* once; each statement of the database is a step and may fail, and the    *)
(* process may be restarted, which loses the blacklist.                    *)
(*                                                                         *)
(* Handlers that go through User.Update read a whole row, change a field   *)
(* and write back every field of their copy that is not zero; the others   *)
(* name their columns or add to them.  Of a row the model keeps the quota, *)
(* the status and one profile field that stands for name, e-mail, access   *)
(* token, role and bound accounts.                                         *)
(***************************************************************************)
EXTENDS Integers, FiniteSets

CONSTANTS
  Users, Codes, Requests, Handlers,
  OwnerOf,     \* OwnerOf[r]: the user who filed recharge request r
  Ops,         \* operations the handlers may run
  Quota0,      \* quota of a user at the start
  Amount,      \* what a code, a request, a top-up and a bill are worth
  Serial,      \* TRUE: write transactions are serial (SQLite, the default);
               \* FALSE: they overlap, as Redeem's row lock is not taken
  UseRedis,    \* TRUE: user rows are also kept in Redis
  MaxOps       \* bound on the operations of a behaviour

ASSUME AccountsAssumption ==
  /\ OwnerOf \in [Requests -> Users]
  /\ Quota0 \in Nat /\ Amount \in Nat \ {0} /\ MaxOps \in Nat
  /\ Serial \in BOOLEAN /\ UseRedis \in BOOLEAN

VARIABLES
  row,          \* users
  banned,       \* common/blacklist
  code,         \* redemptions: status
  request,      \* recharge_requests: status
  cache,        \* user_obj:<id> in Redis
  call,         \* what each handler is doing
  ops,          \* operations started
  raced,        \* users whose status changes overlapped (audit only)
  unsaved,      \* the status that the last save of a user was to write, when it
                \* failed after the blacklist was set for it (audit only)
  forgotten,    \* users not banned or unbanned since the restart (audit only)
  ledger, overlapped, credits, enables, credited, byUser
                \* what really happened (audit only)

audit == <<ledger, overlapped, credits, enables, credited, byUser>>
doubts == <<unsaved, forgotten>>
vars  == <<row, banned, code, request, cache, call, ops, raced, doubts, audit>>

Status == {"enabled", "disabled", "deleted"}
Rows   == [quota : Nat, status : Status, profile : 0..1]
None   == "none"
Idle   == [op |-> "idle"]

\* A call in progress: its copy of a row, what it wants, its next step and
\* whether somebody else has changed the user since the copy was read.
Call(op, u, x, want) ==
  [op |-> op, u |-> u, x |-> x, copy |-> row[u], want |-> want, step |-> 1, stale |-> FALSE]

Init ==
  /\ row = [u \in Users |-> [quota |-> Quota0, status |-> "enabled", profile |-> 0]]
  /\ banned = {}
  /\ code = [c \in Codes |-> "enabled"]
  /\ request = [r \in Requests |-> None]
  /\ cache = [u \in Users |-> [status |-> None, ttl |-> TRUE]]
  /\ call = [h \in Handlers |-> Idle]
  /\ ops = 0 /\ raced = {} /\ unsaved = [u \in Users |-> None] /\ forgotten = {}
  /\ ledger = [u \in Users |-> Quota0] /\ overlapped = [u \in Users |-> FALSE]
  /\ credits = [c \in Codes |-> 0] /\ enables = [c \in Codes |-> 1]
  /\ credited = [r \in Requests |-> 0] /\ byUser = {}

\* Handler h starts a call, takes another step of it, or ends it; a change to
\* user u makes the copies of the other handlers stale.
Start(h, op) == call[h] = Idle /\ op \in Ops /\ ops < MaxOps /\ ops' = ops + 1

Touched(h, u) ==
  [g \in Handlers |-> IF g # h /\ call[g] # Idle /\ call[g].u = u
                      THEN [call[g] EXCEPT !.stale = TRUE] ELSE call[g]]
\* Others that may set the status of u or its place in the blacklist.
Rivals(h, u) == {g \in Handlers \ {h} :
  call[g] # Idle /\ call[g].u = u /\ call[g].op \in {"profile", "manage", "admin", "delete"}}
Races(h, u) == call[h].op \in {"profile", "manage", "admin", "delete"} /\ Rivals(h, u) # {}

Steps(h, u) == /\ call' = [Touched(h, u) EXCEPT ![h].step = @ + 1]
               /\ raced' = IF Races(h, u) THEN raced \cup {u} ELSE raced
\* A save through User.Update that had the user to itself ends an old race.
Ends(h, u)  == /\ call' = [Touched(h, u) EXCEPT ![h] = Idle]
               /\ raced' = IF Races(h, u) THEN raced \cup {u}
                           ELSE IF call[h].op \in {"profile", "manage"} /\ ~call[h].stale
                                THEN raced \ {u} ELSE raced
At(h, op, n) == call[h] # Idle /\ call[h].op = op /\ call[h].step = n

\* A read that another step will use.
Reads(h, op, u, x, want) ==
  /\ Start(h, op)
  /\ call' = [call EXCEPT ![h] = Call(op, u, x, want)]
  /\ UNCHANGED <<raced, doubts, row, banned, code, request, cache, audit>>

----------------------------------------------------------------------------
\* User.Update: the blacklist first, by the status in the copy, ...
Ban(u)   == banned' = banned \cup {u} /\ forgotten' = forgotten \ {u}
Unban(u) == banned' = banned \ {u} /\ forgotten' = forgotten \ {u}

SetBlacklist(u, s) ==
  \/ s = "disabled" /\ Ban(u)
  \/ s = "enabled" /\ Unban(u)
  \/ s \notin {"disabled", "enabled"} /\ UNCHANGED <<banned, forgotten>>

\* ... then every field of the copy that is not zero.
NonZero(copy, now) == [copy EXCEPT !.quota = IF @ = 0 THEN now.quota ELSE @]

Saved(u) == unsaved' = [unsaved EXCEPT ![u] = None]

SaveRow(h, copy) ==
  LET u == call[h].u IN
  /\ row' = [row EXCEPT ![u] = NonZero(copy, @)]
  /\ Saved(u)
  /\ overlapped' = [overlapped EXCEPT ![u] = @ \/ call[h].stale]

\* GenerateAccessToken, GetAffCode, EmailBind, ConfirmTotp and the binding of
\* an OAuth account: the user changes a field of the own row.
ProfileRead(h) ==
  \E u \in Users : row[u].status = "enabled" /\ Reads(h, "profile", u, None, None)

ProfileBlacklist(h) ==
  /\ At(h, "profile", 1)
  /\ SetBlacklist(call[h].u, call[h].copy.status)
  /\ Steps(h, call[h].u)
  /\ UNCHANGED <<unsaved, row, code, request, cache, ops, audit>>

ProfileWrite(h) ==
  /\ At(h, "profile", 2)
  /\ SaveRow(h, [call[h].copy EXCEPT !.profile = 1])
  /\ byUser' = IF row'[call[h].u].status # row[call[h].u].status
               THEN byUser \cup {call[h].u} ELSE byUser
  /\ Ends(h, call[h].u)
  /\ UNCHANGED <<forgotten, banned, code, request, cache, ops, ledger, credits, enables, credited>>

\* UpdateSelf writes the name columns only.
UpdateSelf(h) ==
  /\ Start(h, "self")
  /\ \E u \in Users : /\ row' = [row EXCEPT ![u].profile = 1]
                      /\ call' = Touched(h, u)
  /\ UNCHANGED <<raced, doubts, banned, code, request, cache, audit>>

\* ManageUser, by an administrator: enable, disable, delete, or a role change,
\* each through User.Update.
ManageRead(h) ==
  \E u \in Users, want \in Status \cup {"role"} : Reads(h, "manage", u, None, want)

Wanted(h) == IF call[h].want = "role" THEN call[h].copy.status ELSE call[h].want

ManageBlacklist_AfterSave(h) ==
  /\ At(h, "manage", 1)
  /\ Steps(h, call[h].u)
  /\ UNCHANGED <<doubts, row, banned, code, request, cache, ops, audit>>
ManageBlacklist(h) ==
  /\ At(h, "manage", 1)
  /\ IF call[h].want = "deleted" THEN Ban(call[h].u)
     ELSE SetBlacklist(call[h].u, Wanted(h))
  /\ Steps(h, call[h].u)
  /\ UNCHANGED <<unsaved, row, code, request, cache, ops, audit>>

\* "delete" saves the row twice: in User.Delete and in the common User.Update.
ManageWrite(h) ==
  \E n \in 2..3 :
  /\ At(h, "manage", n)
  /\ SaveRow(h, [call[h].copy EXCEPT !.status = Wanted(h),
                   !.profile = IF call[h].want \in {"role", "deleted"} THEN 1 ELSE @])
  /\ IF n = 2 /\ call[h].want = "deleted" THEN Steps(h, call[h].u) ELSE Ends(h, call[h].u)
  /\ UNCHANGED <<forgotten, banned, code, request, cache, ops, ledger, credits, enables, credited, byUser>>

\* UpdateUser, by an administrator: the columns of the payload, then the
\* blacklist if the status differs from the one that was read.
AdminRead(h) ==
  \E u \in Users, s \in Status \cup {None} : Reads(h, "admin", u, None, s)

AdminWrite(h) ==
  /\ At(h, "admin", 1)
  /\ LET u == call[h].u
         s == call[h].want
     IN /\ row' = IF s = None THEN [row EXCEPT ![u].quota = Quota0]
                  ELSE [row EXCEPT ![u].status = s]
        /\ ledger' = IF s = None THEN [ledger EXCEPT ![u] = Quota0] ELSE ledger
        /\ IF s \in {None, call[h].copy.status} THEN Ends(h, u) ELSE Steps(h, u)
  /\ UNCHANGED <<doubts, banned, code, request, cache, ops, overlapped, credits, enables, credited, byUser>>

AdminBlacklist(h) ==
  /\ At(h, "admin", 2)
  /\ SetBlacklist(call[h].u, call[h].want) /\ Saved(call[h].u)
  /\ Ends(h, call[h].u)
  /\ UNCHANGED <<row, code, request, cache, ops, audit>>

\* DeleteUser, DeleteSelf: User.Delete on a struct that has only an id.
DeleteRead(h) == \E u \in Users : Reads(h, "delete", u, None, None)

DeleteBan(h) ==
  /\ At(h, "delete", 1)
  /\ Ban(call[h].u)
  /\ Steps(h, call[h].u)
  /\ UNCHANGED <<unsaved, row, code, request, cache, ops, audit>>

DeleteWrite(h) ==
  /\ At(h, "delete", 2)
  /\ row' = [row EXCEPT ![call[h].u].status = "deleted"] /\ Saved(call[h].u)
  /\ Ends(h, call[h].u)
  /\ UNCHANGED <<forgotten, banned, code, request, cache, ops, audit>>

\* A write fails and the handler returns with the error; the blacklist stays
\* as it was set for the write.
WriteFails(h) ==
  /\ \/ /\ \/ At(h, "profile", 2) \/ At(h, "manage", 2) \/ At(h, "manage", 3)
           \/ At(h, "delete", 2)
        /\ unsaved' = [unsaved EXCEPT ![call[h].u] =
             CASE call[h].op = "profile" -> call[h].copy.status
               [] call[h].op = "manage"  -> Wanted(h)
               [] OTHER                  -> "deleted"]
     \/ /\ \/ At(h, "admin", 1) \/ At(h, "code", 1)
           \/ At(h, "review", 1) /\ call[h].want = "rejected"
        /\ UNCHANGED unsaved
  /\ call' = [call EXCEPT ![h] = Idle]
  /\ UNCHANGED <<forgotten, raced, row, banned, code, request, cache, ops, audit>>

----------------------------------------------------------------------------
\* IncreaseUserQuota from AdminTopUp; DecreaseUserQuota from a bill.
TopUp(h) ==
  /\ Start(h, "topup")
  /\ \E u \in Users : /\ row' = [row EXCEPT ![u].quota = @ + Amount]
                      /\ ledger' = [ledger EXCEPT ![u] = @ + Amount]
                      /\ call' = Touched(h, u)
  /\ UNCHANGED <<raced, doubts, banned, code, request, cache, overlapped, credits, enables, credited, byUser>>

DecreaseUserQuota(h) ==
  /\ Start(h, "bill")
  /\ \E u \in Users : /\ row[u].quota >= Amount
                      /\ row' = [row EXCEPT ![u].quota = @ - Amount]
                      /\ ledger' = [ledger EXCEPT ![u] = @ - Amount]
                      /\ call' = Touched(h, u)
  /\ UNCHANGED <<raced, doubts, banned, code, request, cache, overlapped, credits, enables, credited, byUser>>

\* Redeem reads the code in a transaction; FOR UPDATE is an option the ORM
\* ignores.  The credit and the saved code are committed together.
RedeemRead(h) ==
  \E u \in Users, c \in Codes :
    /\ code[c] = "enabled"
    /\ Serial => \A g \in Handlers : call[g] = Idle \/ call[g].op # "redeem"
    /\ Reads(h, "redeem", u, c, None)

RedeemCommit_FromCopy(h) ==
  /\ At(h, "redeem", 1)
  /\ LET u == call[h].u
         c == call[h].x
     IN \/ /\ row' = [row EXCEPT ![u].quota = call[h].copy.quota + Amount]
           /\ ledger' = [ledger EXCEPT ![u] = @ + Amount]
           /\ code' = [code EXCEPT ![c] = "used"]
           /\ credits' = [credits EXCEPT ![c] = @ + 1]
           /\ Ends(h, u)
        \/ /\ call' = [call EXCEPT ![h] = Idle]          \* rolled back
           /\ UNCHANGED <<row, ledger, code, credits, raced>>
  /\ UNCHANGED <<doubts, banned, request, cache, ops, overlapped, enables, credited, byUser>>
RedeemCommit_KeepsCode(h) ==
  /\ At(h, "redeem", 1)
  /\ LET u == call[h].u
         c == call[h].x
     IN \/ /\ row' = [row EXCEPT ![u].quota = @ + Amount]
           /\ ledger' = [ledger EXCEPT ![u] = @ + Amount]
           /\ credits' = [credits EXCEPT ![c] = @ + 1]
           /\ Ends(h, u)
        \/ /\ call' = [call EXCEPT ![h] = Idle]          \* rolled back
           /\ UNCHANGED <<row, ledger, credits, raced>>
  /\ UNCHANGED <<doubts, banned, code, request, cache, ops, overlapped, enables, credited, byUser>>
RedeemCommit(h) ==
  /\ At(h, "redeem", 1)
  /\ LET u == call[h].u
         c == call[h].x
     IN \/ /\ row' = [row EXCEPT ![u].quota = @ + Amount]
           /\ ledger' = [ledger EXCEPT ![u] = @ + Amount]
           /\ code' = [code EXCEPT ![c] = "used"]
           /\ credits' = [credits EXCEPT ![c] = @ + 1]
           /\ Ends(h, u)
        \/ /\ call' = [call EXCEPT ![h] = Idle]          \* rolled back
           /\ UNCHANGED <<row, ledger, code, credits, raced>>
  /\ UNCHANGED <<doubts, banned, request, cache, ops, overlapped, enables, credited, byUser>>

\* UpdateRedemption: the row is read and its status written back, the one of
\* the payload or the one that was read.  DeleteRedemption; AddRedemption.
EditCodeRead(h) ==
  \E c \in Codes, s \in {"keep", "enabled", "disabled", "used"}, u \in Users :
    /\ code[c] # None
    /\ Reads(h, "code", u, c, IF s = "keep" THEN code[c] ELSE s)

EditCodeWrite(h) ==
  /\ At(h, "code", 1)
  /\ LET c == call[h].x
         s == call[h].want
     IN /\ code' = IF code[c] = None THEN code ELSE [code EXCEPT ![c] = s]
        /\ enables' = IF code[c] # "enabled" /\ code'[c] = "enabled"
                      THEN [enables EXCEPT ![c] = @ + 1] ELSE enables
  /\ call' = [call EXCEPT ![h] = Idle]
  /\ UNCHANGED <<raced, doubts, row, banned, request, cache, ops, ledger, overlapped, credits, credited, byUser>>

AddOrDeleteCode(h) ==
  /\ Start(h, "code")
  /\ \E c \in Codes :
       /\ code' = [code EXCEPT ![c] = IF @ = None THEN "enabled" ELSE None]
       /\ enables' = IF code[c] = None THEN [enables EXCEPT ![c] = @ + 1] ELSE enables
  /\ UNCHANGED <<raced, doubts, row, banned, request, cache, call, ledger, overlapped, credits, credited, byUser>>

----------------------------------------------------------------------------
CreateRechargeRequest(h) ==
  /\ Start(h, "recharge")
  /\ \E r \in Requests : request[r] = None /\ request' = [request EXCEPT ![r] = "pending"]
  /\ UNCHANGED <<raced, doubts, row, banned, code, cache, call, audit>>

\* The pending check reads outside the transaction.
ReviewRead(h) ==
  \E r \in Requests, v \in {"approved", "rejected"} :
    request[r] = "pending" /\ Reads(h, "review", OwnerOf[r], r, v)

ApproveRechargeRequest(h) ==
  /\ At(h, "review", 1) /\ call[h].want = "approved"
  /\ LET u == call[h].u
         r == call[h].x
     IN \/ /\ row' = [row EXCEPT ![u].quota = @ + Amount]
           /\ ledger' = [ledger EXCEPT ![u] = @ + Amount]
           /\ request' = [request EXCEPT ![r] = "approved"]
           /\ credited' = [credited EXCEPT ![r] = @ + 1]
           /\ Ends(h, u)
        \/ /\ call' = [call EXCEPT ![h] = Idle]          \* rolled back
           /\ UNCHANGED <<row, ledger, request, credited, raced>>
  /\ UNCHANGED <<doubts, banned, code, cache, ops, overlapped, credits, enables, byUser>>

RejectRechargeRequest(h) ==
  /\ At(h, "review", 1) /\ call[h].want = "rejected"
  /\ request' = [request EXCEPT ![call[h].x] = "rejected"]
  /\ call' = [call EXCEPT ![h] = Idle]
  /\ UNCHANGED <<raced, doubts, row, banned, code, cache, ops, audit>>

----------------------------------------------------------------------------
\* TokenAuth asks CacheGetUserById: on a miss the row is read and stored with
\* a time to live; nothing removes it when the row changes.
AuthRead(h) ==
  \E u \in Users : /\ UseRedis /\ cache[u].status = None
                   /\ Reads(h, "auth", u, None, None)

AuthFill_NoTTL(h) ==
  /\ At(h, "auth", 1)
  /\ cache' = [cache EXCEPT ![call[h].u] = [status |-> call[h].copy.status, ttl |-> FALSE]]
  /\ call' = [call EXCEPT ![h] = Idle]
  /\ UNCHANGED <<raced, doubts, row, banned, code, request, ops, audit>>
AuthFill(h) ==
  /\ At(h, "auth", 1)
  /\ cache' = [cache EXCEPT ![call[h].u] = [status |-> call[h].copy.status, ttl |-> TRUE]]
  /\ call' = [call EXCEPT ![h] = Idle]
  /\ UNCHANGED <<raced, doubts, row, banned, code, request, ops, audit>>

\* Redis drops an entry at the end of its time to live.
Expire(u) ==
  /\ cache[u].status # None /\ cache[u].ttl
  /\ cache' = [cache EXCEPT ![u].status = None]
  /\ UNCHANGED <<raced, doubts, row, banned, code, request, call, ops, audit>>

\* The process is restarted: the handlers under way end where they are, and the
\* blacklist, which is kept in memory only, starts empty.
Restart ==
  /\ "restart" \in Ops /\ ops < MaxOps /\ ops' = ops + 1
  /\ call' = [h \in Handlers |-> Idle] /\ banned' = {}
  /\ raced' = {} /\ unsaved' = [u \in Users |-> None] /\ forgotten' = Users
  /\ UNCHANGED <<row, code, request, cache, audit>>

Begins(h) == \/ ProfileRead(h) \/ UpdateSelf(h) \/ ManageRead(h) \/ AdminRead(h) \/ DeleteRead(h)
             \/ TopUp(h) \/ DecreaseUserQuota(h) \/ RedeemRead(h) \/ EditCodeRead(h)
             \/ AddOrDeleteCode(h) \/ CreateRechargeRequest(h) \/ ReviewRead(h) \/ AuthRead(h)

Continues(h) == \/ ProfileBlacklist(h) \/ ProfileWrite(h) \/ ManageBlacklist(h) \/ ManageWrite(h)
                \/ AdminWrite(h) \/ AdminBlacklist(h) \/ DeleteBan(h) \/ DeleteWrite(h)
                \/ RedeemCommit(h) \/ EditCodeWrite(h) \/ WriteFails(h)
                \/ ApproveRechargeRequest(h) \/ RejectRechargeRequest(h) \/ AuthFill(h)

Next == \/ \E h \in Handlers : Begins(h) \/ Continues(h)
        \/ \E u \in Users : Expire(u)
        \/ Restart

\* A handler that has begun goes on; Redis expires its entries.
Spec == /\ Init /\ [][Next]_vars
        /\ \A h \in Handlers : WF_vars(Continues(h))
        /\ \A u \in Users : WF_vars(Expire(u))

----------------------------------------------------------------------------
\* The variables have their types; in particular no balance is negative.
TypeOK ==
  /\ row \in [Users -> Rows] /\ banned \subseteq Users
  /\ code \in [Codes -> {None, "enabled", "disabled", "used"}]
  /\ request \in [Requests -> {None, "pending", "approved", "rejected"}]
  /\ \A u \in Users : cache[u].status \in Status \cup {None} /\ cache[u].ttl \in BOOLEAN
  /\ \A h \in Handlers : call[h] = Idle \/ call[h].copy \in Rows
  /\ raced \subseteq Users /\ unsaved \in [Users -> Status \cup {None}] /\ forgotten \subseteq Users
  /\ ops \in 0..MaxOps /\ credits \in [Codes -> Nat] /\ credited \in [Requests -> Nat]

\* Redeem, ApproveRechargeRequest, AdminTopUp, bills and UpdateUser in any
\* interleaving leave the balance that their sum says, unless a whole-row save
\* of User.Update ran on a copy that was out of date.
LedgerExact == \A u \in Users : row[u].quota = ledger[u] \/ overlapped[u]

\* With serial write transactions a code pays once for each time it was
\* enabled, however redemptions and UpdateRedemption interleave.
CodePaysOnce == Serial => \A c \in Codes : credits[c] <= enables[c]

\* A recharge request that is still pending has not been paid, and one that
\* is approved has been.
RequestTellsCredit ==
  \A r \in Requests : /\ request[r] \in {None, "pending"} => credited[r] = 0
                      /\ request[r] = "approved" => credited[r] > 0

\* The status that the blacklist is to show: the row's, or the one of a change
\* whose save has failed since.
Meant(u) == IF unsaved[u] = None THEN row[u].status ELSE unsaved[u]

\* When no handler is under way, the blacklist shows the status of the row, or
\* that of the change that User.Update or User.Delete could not save; a disabled
\* user is missing from it only after a restart, until the next change.  This is
\* unless status changes of the same user overlapped and no ManageUser or profile
\* change has had the user to itself since.
BlacklistAgrees ==
  (\A h \in Handlers : call[h] = Idle) =>
    \A u \in Users : \/ u \in raced
                     \/ /\ Meant(u) = "enabled" => u \notin banned
                        /\ Meant(u) = "disabled" => u \in banned \cup forgotten

\* The copy of a user in Redis catches up with the row, although no update
\* removes it.
CacheCatchesUp ==
  <>[](\A u \in Users : cache[u].status \in {None, row[u].status})

\* Codes and recharge requests pay what they should, taken together.
CreditsPaid == TypeOK /\ CodePaysOnce /\ RequestTellsCredit

============================================================================
