--------------------------- MODULE ChannelStatus ---------------------------
(***************************************************************************)
(* The status of channels: the channels table, the abilities derived from  *)
(* it and the in-memory cache derived from both.  Every operation of an    *)
(* administrator or of the monitor is a program of several statements      *)
(* without a transaction, so that programs interleave statement by         *)
(* statement; every program ends with InitChannelCache, which is itself    *)
(* two queries and an assignment under a lock.  A sweep (testChannels)     *)
(* goes over a list of channels it has read once.                          *)
(*                                                                         *)
(* One group and one model: an ability row is its channel.  Channels are   *)
(* the ids, because the sweep visits them in the order "id desc".          *)
(***************************************************************************)
EXTENDS Integers, Sequences, FiniteSets

CONSTANTS
  Channels,      \* ids of channels, present or not
  Present,       \* channels there may be initially
  Jobs,          \* goroutines of administrators and of the monitor
  Requests,      \* what a job may be asked to do
  Sweep, Ticker, \* the goroutines of testChannels and SyncChannelCache
  AutoDisable, AutoEnable,   \* config.Automatic{Disable,Enable}ChannelEnabled
  MaxFailures,   \* bound on failing statements
  MaxAsked,      \* bound on operations asked for
  MaxSuspends,   \* bound on suspensions by failing requests
  MaxSweeps      \* bound on sweeps

Statuses == {"none", "unknown", "enabled", "manual", "auto"}
Procs == Jobs \cup {Sweep, Ticker}

\* The statements of each operation, in order.
Refresh == <<"readChannels", "readAbilities", "install">>
Program == [
  status |-> <<"setAbilities", "setStatus">> \o Refresh,
  update |-> <<"save", "reread", "dropAbilities", "addAbilities">> \o Refresh,
  insert |-> <<"create", "addAbilities">> \o Refresh,
  delete |-> <<"dropRow", "dropAbilities">> \o Refresh,
  purge  |-> <<"dropDisabled">> \o Refresh,
  sync   |-> Refresh ]

ASSUME StatusAssumption ==
  /\ Channels \subseteq Nat /\ IsFiniteSet(Channels) /\ Present \subseteq Channels
  /\ Sweep \notin Jobs /\ Ticker \notin Jobs /\ Sweep # Ticker
  /\ AutoDisable \in BOOLEAN /\ AutoEnable \in BOOLEAN
  /\ {MaxFailures, MaxAsked, MaxSuspends, MaxSweeps} \subseteq Nat
  /\ Requests \subseteq [op : {"status", "update", "insert", "delete", "purge"},
                         c : Channels, s : Statuses \ {"none"}]

VARIABLES
  status,                    \* channels.status, "none" without a row
  ability,                   \* abilities.enabled, "none" without a row
  suspended,                 \* channels whose ability has suspend_until ahead
  cache,                     \* group2model2channels
  pc, op,                    \* program counter and operation of each goroutine
  seen,                      \* the row an update has read again
  newChannels, newCache,     \* what InitChannelCache has read so far
  running, alive,            \* testAllChannelsRunning, and the sweep's goroutine
  todo, again,               \* the sweep's list and the calls left for its head
  used,                      \* ids that inserts have got; none is given twice
  asked, failures, suspends, sweeps,   \* bounds
  overlapped, damaged        \* channels two programs, or a failure, worked on

table    == <<status, ability, suspended>>
refresh  == <<newChannels, newCache>>
sweeping == <<running, alive, todo, again, sweeps>>
audit    == <<overlapped, damaged>>
vars == <<table, cache, pc, op, used, asked, seen, refresh, sweeping, failures, suspends, audit>>

Idle(p) == pc[p] = 0
Step(p) == IF Idle(p) THEN "idle" ELSE Program[op[p].op][pc[p]]
NoOp == [op |-> "sync", c |-> 0, s |-> "unknown"]

\* The channels a program works on.
Targets(r) == IF r.op = "purge" THEN Channels ELSE IF r.op = "sync" THEN {} ELSE {r.c}

FreshCache == {c \in Channels : status[c] = "enabled" /\ ability[c] = "on" /\ c \notin suspended}

Init ==
  /\ used \in SUBSET Present
  /\ status = [c \in Channels |-> IF c \in used THEN "enabled" ELSE "none"]
  /\ ability = [c \in Channels |-> IF c \in used THEN "on" ELSE "none"]
  /\ suspended = {} /\ cache = used
  /\ pc = [p \in Procs |-> 0] /\ op = [p \in Procs |-> NoOp]
  /\ seen = [p \in Procs |-> "unknown"]
  /\ newChannels = [p \in Procs |-> {}] /\ newCache = [p \in Procs |-> {}]
  /\ running = FALSE /\ alive = FALSE /\ todo = {} /\ again = 0
  /\ asked = 0 /\ failures = 0 /\ suspends = 0 /\ sweeps = 0
  /\ overlapped = {} /\ damaged = {}

-----------------------------------------------------------------------------
(* Programs *)

Begin(p, r) ==
  /\ Idle(p)
  /\ op' = [op EXCEPT ![p] = r] /\ pc' = [pc EXCEPT ![p] = 1]
  /\ overlapped' = overlapped \cup
       {c \in Targets(r) : \E q \in Procs \ {p} : ~Idle(q) /\ c \in Targets(op[q])}

Advance(p) == pc' = [pc EXCEPT ![p] = @ + 1] /\ UNCHANGED op
Abandon(p) == pc' = [pc EXCEPT ![p] = 0] /\ op' = [op EXCEPT ![p] = NoOp]

\* An operation is asked for: on a new id, on one that is or was a channel's,
\* or on every disabled channel.
Ask(p) ==
  /\ p \in Jobs /\ asked < MaxAsked /\ asked' = asked + 1
  /\ \E r \in Requests :
       /\ r.op = "insert" => r.c \notin used /\ \A q \in Procs : op[q].op # "insert"
       /\ r.op \in {"status", "update", "delete"} => r.c \in used
       /\ Begin(p, r)
  /\ UNCHANGED <<table, cache, used, seen, refresh, sweeping, failures, suspends, damaged>>

\* SyncChannelCache.
Tick ==
  /\ Begin(Ticker, NoOp)
  /\ UNCHANGED <<table, cache, used, asked, seen, refresh, sweeping, failures, suspends, damaged>>

\* AddAbilities of an operation: a row that a concurrent one has added already
\* is a duplicate key.
Added_StatusAsked(p) == IF op[p].s = "enabled" THEN "on" ELSE "off"
Added(p) ==
  LET s == IF op[p].op = "update" THEN seen[p] ELSE op[p].s
  IN  IF s = "enabled" THEN "on" ELSE "off"

\* One statement on the tables.
Write(p) ==
  LET c == op[p].c
      s == op[p].s
  IN
  /\ Step(p) \in {"setAbilities", "setStatus", "save", "reread", "create",
                  "dropRow", "dropAbilities", "addAbilities", "dropDisabled"}
  /\ \/ /\ Step(p) = "setAbilities"
        /\ ability' = [ability EXCEPT ![c] = IF @ = "none" THEN "none"
                                             ELSE IF s = "enabled" THEN "on" ELSE "off"]
        /\ UNCHANGED <<status, suspended, seen>> /\ Advance(p)
     \/ /\ Step(p) = "setStatus"
        /\ status' = [status EXCEPT ![c] = IF @ = "none" THEN "none" ELSE s]
        /\ UNCHANGED <<ability, suspended, seen>> /\ Advance(p)
     \/ /\ Step(p) = "save"          \* Updates skips a status of zero
        /\ status' = [status EXCEPT ![c] = IF @ = "none" \/ s = "unknown" THEN @ ELSE s]
        /\ UNCHANGED <<ability, suspended, seen>> /\ Advance(p)
     \/ /\ Step(p) = "reread"        \* whose error is ignored
        /\ seen' = [seen EXCEPT ![p] = IF status[c] = "none" THEN s ELSE status[c]]
        /\ UNCHANGED table /\ Advance(p)
     \/ /\ Step(p) = "create"
        /\ status' = [status EXCEPT ![c] = s]
        /\ UNCHANGED <<ability, suspended, seen>> /\ Advance(p)
     \/ /\ Step(p) = "dropRow"
        /\ status' = [status EXCEPT ![c] = "none"]
        /\ UNCHANGED <<ability, suspended, seen>> /\ Advance(p)
     \/ /\ Step(p) = "dropAbilities"
        /\ ability' = [ability EXCEPT ![c] = "none"]
        /\ suspended' = suspended \ {c}
        /\ UNCHANGED <<status, seen>> /\ Advance(p)
     \/ /\ Step(p) = "addAbilities"
        /\ ability' = [ability EXCEPT ![c] = IF @ = "none" THEN Added(p) ELSE @]
        /\ UNCHANGED <<status, suspended, seen>>
        /\ IF ability[c] = "none" THEN Advance(p) ELSE Abandon(p)
     \/ /\ Step(p) = "dropDisabled"  \* the abilities stay
        /\ status' = [d \in Channels |-> IF status[d] \in {"manual", "auto"} THEN "none"
                                         ELSE status[d]]
        /\ UNCHANGED <<ability, suspended, seen>> /\ Advance(p)
  /\ used' = IF Step(p) = "create" THEN used \cup {c} ELSE used
  /\ UNCHANGED <<cache, asked, refresh, sweeping, failures, suspends, audit>>

\* A statement fails.  UpdateChannelStatusById goes on after the first one, and
\* an update after the second; every other operation ends.
StatementFails(p) ==
  /\ Step(p) \notin {"idle", "install", "readChannels", "readAbilities"}
  /\ failures < MaxFailures /\ failures' = failures + 1
  /\ damaged' = damaged \cup Targets(op[p])
  /\ IF Step(p) \in {"setAbilities", "reread"} THEN Advance(p) ELSE Abandon(p)
  /\ seen' = IF Step(p) = "reread" THEN [seen EXCEPT ![p] = op[p].s] ELSE seen
  /\ UNCHANGED <<table, cache, used, asked, refresh, sweeping, suspends, overlapped>>

\* InitChannelCache.  The errors of its queries are ignored.
ReadChannels(p) ==
  /\ Step(p) = "readChannels"
  /\ \/ /\ newChannels' = [newChannels EXCEPT ![p] = {c \in Channels : status[c] = "enabled"}]
        /\ UNCHANGED failures
     \/ /\ failures < MaxFailures /\ failures' = failures + 1
        /\ newChannels' = [newChannels EXCEPT ![p] = {}]
  /\ Advance(p)
  /\ UNCHANGED <<table, cache, used, asked, seen, newCache, sweeping, suspends, audit>>

Valid(p) == {c \in newChannels[p] : ability[c] = "on" /\ c \notin suspended}

ReadAbilities(p) ==
  /\ Step(p) = "readAbilities"
  /\ \/ /\ newCache' = [newCache EXCEPT ![p] = Valid(p)]
        /\ UNCHANGED failures
     \/ /\ failures < MaxFailures /\ failures' = failures + 1
        /\ newCache' = [newCache EXCEPT ![p] = {}]
  /\ Advance(p)
  /\ UNCHANGED <<table, cache, used, asked, seen, newChannels, sweeping, suspends, audit>>

\* The local variables end with their operation.
Forget(p) ==
  /\ seen' = [seen EXCEPT ![p] = "unknown"]
  /\ newChannels' = [newChannels EXCEPT ![p] = {}]
  /\ newCache' = [newCache EXCEPT ![p] = {}]

Install_OnlyAdds(p) ==
  /\ Step(p) = "install"
  /\ cache' = cache \cup newCache[p]
  /\ Abandon(p) /\ Forget(p)
  /\ UNCHANGED <<table, used, asked, sweeping, failures, suspends, audit>>
Install(p) ==
  /\ Step(p) = "install"
  /\ cache' = newCache[p]
  /\ Abandon(p) /\ Forget(p)
  /\ UNCHANGED <<table, used, asked, sweeping, failures, suspends, audit>>

-----------------------------------------------------------------------------
(* The sweep *)

\* The channels are visited in the order "id desc".
NextTested(h) == h \in todo /\ \A g \in todo : g.c <= h.c

\* testChannels: the flag is set before the channels are listed, and stays set
\* when that fails.
StartSweep ==
  /\ ~running /\ sweeps < MaxSweeps /\ sweeps' = sweeps + 1
  /\ running' = TRUE
  /\ \/ /\ todo' = {[c |-> c, s |-> status[c]] : c \in {d \in Channels : status[d] # "none"}}
        /\ alive' = TRUE /\ UNCHANGED failures
     \/ /\ failures < MaxFailures /\ failures' = failures + 1
        /\ UNCHANGED <<todo, alive>>
  /\ UNCHANGED <<table, cache, pc, op, used, asked, seen, refresh, again, suspends, audit>>

\* The test of the next channel.  A slow one that was enabled is disabled twice,
\* for its time and as failed; a channel that was not enabled, for whatever
\* reason, is enabled when its test succeeds.
Calls(h, result) ==
  CASE h.s = "enabled" /\ AutoDisable /\ result = "slow" -> 2
    [] h.s = "enabled" /\ AutoDisable /\ result = "bad"  -> 1
    [] h.s # "enabled" /\ AutoEnable /\ result \in {"ok", "slow"} -> 1
    [] OTHER -> 0

TestChannel ==
  /\ alive /\ todo # {} /\ again = 0 /\ Idle(Sweep)
  /\ \E h \in todo, result \in {"ok", "bad", "slow"} :
       /\ NextTested(h)
       /\ again' = Calls(h, result)
       /\ todo' = IF again' = 0 THEN todo \ {h} ELSE todo
  /\ UNCHANGED <<table, cache, pc, op, used, asked, seen, refresh, running, alive,
                 sweeps, failures, suspends, audit>>

\* monitor.DisableChannel and EnableChannel.
ApplyTest ==
  /\ again > 0
  /\ \E h \in todo :
       /\ NextTested(h)
       /\ Begin(Sweep, [op |-> "status", c |-> h.c,
                        s |-> IF h.s = "enabled" THEN "auto" ELSE "enabled"])
       /\ todo' = IF again = 1 THEN todo \ {h} ELSE todo
  /\ again' = again - 1
  /\ UNCHANGED <<table, cache, used, asked, seen, refresh, running, alive, sweeps, failures,
                 suspends, damaged>>

EndSweep ==
  /\ alive /\ todo = {} /\ again = 0 /\ Idle(Sweep)
  /\ running' = FALSE /\ alive' = FALSE
  /\ UNCHANGED <<table, cache, pc, op, used, asked, seen, refresh, todo, again, sweeps,
                 failures, suspends, audit>>

-----------------------------------------------------------------------------
(* Requests suspend abilities, and time ends suspensions. *)

Suspend(c) ==
  /\ ability[c] # "none" /\ suspends < MaxSuspends /\ suspends' = suspends + 1
  /\ suspended' = suspended \cup {c}
  /\ UNCHANGED <<status, ability, cache, pc, op, used, asked, seen, refresh, sweeping, failures, audit>>

Expire(c) ==
  /\ c \in suspended /\ suspended' = suspended \ {c}
  /\ UNCHANGED <<status, ability, cache, pc, op, used, asked, seen, refresh, sweeping, failures,
                 suspends, audit>>

Run(p) ==
  \/ Write(p) \/ StatementFails(p)
  \/ ReadChannels(p) \/ ReadAbilities(p) \/ Install(p)

Testing == TestChannel \/ ApplyTest \/ EndSweep

\* What a goroutine that has started does next; the ticker never stops.
Goroutine(p) ==
  \/ Run(p)
  \/ p = Ticker /\ Tick
  \/ p = Sweep /\ Testing

Next ==
  \/ \E p \in Procs : Ask(p) \/ Goroutine(p)
  \/ StartSweep
  \/ \E c \in Channels : Suspend(c) \/ Expire(c)

Spec == Init /\ [][Next]_vars /\ \A p \in Procs : WF_vars(Goroutine(p))

-----------------------------------------------------------------------------
(* Properties *)

TypeOK ==
  /\ status \in [Channels -> Statuses] /\ ability \in [Channels -> {"none", "on", "off"}]
  /\ suspended \subseteq Channels /\ cache \subseteq Channels
  /\ pc \in [Procs -> 0..7]
  /\ op \in [Procs -> Requests \cup {NoOp}
                \cup [op : {"status"}, c : Channels, s : {"auto", "enabled"}]]
  /\ seen \in [Procs -> Statuses \ {"none"}]
  /\ newChannels \in [Procs -> SUBSET Channels] /\ newCache \in [Procs -> SUBSET Channels]
  /\ running \in BOOLEAN /\ alive \in BOOLEAN
  /\ todo \subseteq [c : Channels, s : Statuses \ {"none"}] /\ again \in 0..2
  /\ used \subseteq Channels /\ asked \in 0..MaxAsked /\ failures \in 0..MaxFailures
  /\ suspends \in 0..MaxSuspends /\ sweeps \in 0..MaxSweeps
  /\ overlapped \subseteq Channels /\ damaged \subseteq Channels

Quiet(c) == \A p \in Procs : Idle(p) \/ c \notin Targets(op[p])

\* A channel on which no two operations overlapped and no statement failed has
\* an enabled ability exactly when it is enabled, whatever sequence of status
\* changes, edits, deletions, purges and sweeps it went through.
AbilitiesAgree ==
  /\ TypeOK
  /\ \A c \in Channels :
       Quiet(c) /\ c \notin overlapped \cup damaged /\ status[c] # "none"
         => (ability[c] = "on" <=> status[c] = "enabled")

\* Whatever refreshes overlapped, were overtaken or lost a query, the cache ends
\* up with the channels that are enabled and not suspended.
EventuallyFresh == <>[](cache = FreshCache)

=============================================================================
