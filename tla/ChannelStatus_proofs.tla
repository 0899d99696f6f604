------------------------ MODULE ChannelStatus_proofs ------------------------
(***************************************************************************)
(* Abilities follow the status of their channel: a proof of AbilitiesAgree *)
(* for every number of channels, goroutines, operations and failures.      *)
(*                                                                         *)
(* A program changes the two tables in separate statements, so that a      *)
(* channel's rows disagree in the middle of it.  The invariant says what   *)
(* they are after each statement (Stage), and rests on three facts: a      *)
(* channel that no two programs worked on at once has at most one program  *)
(* (Alone), an id that was never given out has no rows, and an insert that *)
(* has not created its row yet works on such an id (Fresh).                *)
(***************************************************************************)
EXTENDS ChannelStatus, TLAPS

Ops == Requests \cup {NoOp} \cup [op : {"status"}, c : Channels, s : {"auto", "enabled"}]

\* The number of statements of each program.
Length == [status |-> 5, update |-> 7, insert |-> 5, delete |-> 5, purge |-> 4, sync |-> 3]

Types ==
  /\ TypeOK
  /\ \A p \in Procs : /\ pc[p] \in 0..Length[op[p].op]
                      /\ Idle(p) => op[p] = NoOp

Works(p, c) == ~Idle(p) /\ c \in Targets(op[p])

\* Two programs that work on a channel at the same time have marked it.
Alone ==
  \A p, q \in Procs : \A c \in Channels : p # q /\ Works(p, c) /\ Works(q, c) => c \in overlapped

\* Ids are given out once: by the one insert in progress, when it creates its row.
Fresh ==
  /\ \A c \in Channels \ used : status[c] = "none" /\ ability[c] = "none"
  /\ \A p, q \in Procs : op[p].op = "insert" /\ op[q].op = "insert" => p = q
  /\ \A p \in Procs : op[p].op = "insert" => (op[p].c \in used <=> pc[p] > 1)
  /\ \A p \in Procs : op[p].op \in {"update", "delete"} => op[p].c \in used

\* What the ability of a channel with status s should be.
Mirror(s) == IF s = "enabled" THEN "on" ELSE "off"
Agree(c) == status[c] # "none" => ability[c] = Mirror(status[c])

\* The rows of channel c before statement pc[p] of the only program on it.
Stage(p, c) ==
  /\ op[p].op = "status" =>
       IF pc[p] = 2 THEN (status[c] # "none" => ability[c] = Mirror(op[p].s)) ELSE Agree(c)
  /\ op[p].op = "update" =>
       /\ pc[p] \in {1, 5, 6, 7} => Agree(c)
       /\ pc[p] \in {3, 4} /\ status[c] # "none" => seen[p] = status[c]
       /\ pc[p] = 4 => ability[c] = "none"
  /\ op[p].op = "insert" =>
       /\ pc[p] = 2 => status[c] = op[p].s /\ ability[c] = "none"
       /\ pc[p] > 2 => Agree(c)
  /\ op[p].op = "delete" => IF pc[p] = 1 THEN Agree(c) ELSE status[c] = "none"
  /\ op[p].op = "purge" => Agree(c)

Clean(c) == c \notin overlapped \cup damaged

Staged(c) ==
  /\ \A p \in Procs : Works(p, c) => Stage(p, c)
  /\ Quiet(c) => Agree(c)

IInv == Types /\ Alone /\ Fresh /\ \A c \in Channels : Clean(c) => Staged(c)

-----------------------------------------------------------------------------
(* Programs and their statements *)

LEMMA Programs ==
  /\ Program["status"][1] = "setAbilities" /\ Program["status"][2] = "setStatus"
  /\ Program["status"][3] = "readChannels" /\ Program["status"][4] = "readAbilities"
  /\ Program["status"][5] = "install"
  /\ Program["update"][1] = "save" /\ Program["update"][2] = "reread"
  /\ Program["update"][3] = "dropAbilities" /\ Program["update"][4] = "addAbilities"
  /\ Program["update"][5] = "readChannels" /\ Program["update"][6] = "readAbilities"
  /\ Program["update"][7] = "install"
  /\ Program["insert"][1] = "create" /\ Program["insert"][2] = "addAbilities"
  /\ Program["insert"][3] = "readChannels" /\ Program["insert"][4] = "readAbilities"
  /\ Program["insert"][5] = "install"
  /\ Program["delete"][1] = "dropRow" /\ Program["delete"][2] = "dropAbilities"
  /\ Program["delete"][3] = "readChannels" /\ Program["delete"][4] = "readAbilities"
  /\ Program["delete"][5] = "install"
  /\ Program["purge"][1] = "dropDisabled" /\ Program["purge"][2] = "readChannels"
  /\ Program["purge"][3] = "readAbilities" /\ Program["purge"][4] = "install"
  /\ Program["sync"][1] = "readChannels" /\ Program["sync"][2] = "readAbilities"
  /\ Program["sync"][3] = "install"
BY DEF Program, Refresh

\* The operations that there are.
LEMMA OpTypes ==
  ASSUME NEW o \in Ops
  PROVE  /\ o.op \in {"status", "update", "insert", "delete", "purge", "sync"}
         /\ Targets(o) \subseteq Channels
         /\ o.op # "sync" => o.c \in Channels /\ o.s \in Statuses \ {"none"}
BY StatusAssumption DEF Ops, NoOp, Targets, Statuses

\* Where a goroutine is when it is about to run a statement.
LEMMA Statements ==
  ASSUME Types, NEW p \in Procs, ~Idle(p)
  PROVE  LET o == op[p].op IN
         /\ Step(p) = Program[o][pc[p]]
         /\ Step(p) = "setAbilities"  => o = "status" /\ pc[p] = 1
         /\ Step(p) = "setStatus"     => o = "status" /\ pc[p] = 2
         /\ Step(p) = "save"          => o = "update" /\ pc[p] = 1
         /\ Step(p) = "reread"        => o = "update" /\ pc[p] = 2
         /\ Step(p) = "dropAbilities" => (o = "update" /\ pc[p] = 3) \/ (o = "delete" /\ pc[p] = 2)
         /\ Step(p) = "addAbilities"  => (o = "update" /\ pc[p] = 4) \/ (o = "insert" /\ pc[p] = 2)
         /\ Step(p) = "create"        => o = "insert" /\ pc[p] = 1
         /\ Step(p) = "dropRow"       => o = "delete" /\ pc[p] = 1
         /\ Step(p) = "dropDisabled"  => o = "purge" /\ pc[p] = 1
         /\ Step(p) \in {"readChannels", "readAbilities"} => pc[p] > Length[o] - 3 /\ pc[p] < Length[o]
         /\ Step(p) = "install"      => pc[p] = Length[o]
<1>1. /\ op[p] \in Ops /\ pc[p] \in 0..Length[op[p].op] /\ pc[p] # 0
      /\ Step(p) = Program[op[p].op][pc[p]]
  BY DEF Types, TypeOK, Ops, Idle, Step
<1>2. op[p].op \in {"status", "update", "insert", "delete", "purge", "sync"}
  BY <1>1, OpTypes
<1>3. CASE op[p].op = "status"
  <2>1. pc[p] \in 1..5
    BY <1>1, <1>3 DEF Length
  <2> QED
    BY <1>1, <1>3, <2>1, Programs DEF Length
<1>4. CASE op[p].op = "update"
  <2>1. pc[p] \in 1..7
    BY <1>1, <1>4 DEF Length
  <2> QED
    BY <1>1, <1>4, <2>1, Programs DEF Length
<1>5. CASE op[p].op = "insert"
  <2>1. pc[p] \in 1..5
    BY <1>1, <1>5 DEF Length
  <2> QED
    BY <1>1, <1>5, <2>1, Programs DEF Length
<1>6. CASE op[p].op = "delete"
  <2>1. pc[p] \in 1..5
    BY <1>1, <1>6 DEF Length
  <2> QED
    BY <1>1, <1>6, <2>1, Programs DEF Length
<1>7. CASE op[p].op = "purge"
  <2>1. pc[p] \in 1..4
    BY <1>1, <1>7 DEF Length
  <2> QED
    BY <1>1, <1>7, <2>1, Programs DEF Length
<1>8. CASE op[p].op = "sync"
  <2>1. pc[p] \in 1..3
    BY <1>1, <1>8 DEF Length
  <2> QED
    BY <1>1, <1>8, <2>1, Programs DEF Length
<1> QED
  BY <1>2, <1>3, <1>4, <1>5, <1>6, <1>7, <1>8

\* Only the last statement ends a program by itself.
LEMMA NotLast ==
  ASSUME Types, NEW p \in Procs, ~Idle(p), Step(p) # "install"
  PROVE  pc[p] + 1 \in 0..Length[op[p].op] /\ pc[p] + 1 \in 0..7 /\ pc[p] + 1 # 0
<1>1. /\ op[p] \in Ops /\ pc[p] \in 0..Length[op[p].op] /\ pc[p] # 0
      /\ Step(p) = Program[op[p].op][pc[p]]
  BY DEF Types, TypeOK, Ops, Idle, Step
<1>2. op[p].op \in {"status", "update", "insert", "delete", "purge", "sync"}
  BY <1>1, OpTypes
<1>3. pc[p] # Length[op[p].op]
  BY <1>1, <1>2, Programs DEF Length
<1>4. Length[op[p].op] \in 3..7
  BY <1>2 DEF Length
<1> QED
  BY <1>1, <1>3, <1>4

-----------------------------------------------------------------------------
(* A program goes on to its next statement, or ends. *)

\* What a statement of p leaves alone.
Moves(p) ==
  /\ ~Idle(p) /\ (Advance(p) \/ Abandon(p))
  /\ \A q \in Procs \ {p} : seen'[q] = seen[q]
  /\ overlapped' = overlapped /\ damaged \subseteq damaged'
  /\ \A d \in Channels \ Targets(op[p]) : status'[d] = status[d] /\ ability'[d] = ability[d]

LEMMA OthersStay ==
  ASSUME Types, NEW p \in Procs, Advance(p) \/ Abandon(p)
  PROVE  /\ \A q \in Procs \ {p} : pc'[q] = pc[q] /\ op'[q] = op[q]
         /\ Advance(p) => pc'[p] = pc[p] + 1 /\ op'[p] = op[p]
         /\ Abandon(p) => pc'[p] = 0 /\ op'[p] = NoOp
BY DEF Types, TypeOK, Advance, Abandon

LEMMA MovesTypes ==
  ASSUME Types, NEW p \in Procs, ~Idle(p), Step(p) # "install" \/ Abandon(p),
         Advance(p) \/ Abandon(p)
  PROVE  /\ pc' \in [Procs -> 0..7] /\ op' \in [Procs -> Ops]
         /\ \A q \in Procs : /\ pc'[q] \in 0..Length[op'[q].op]
                             /\ pc'[q] = 0 => op'[q] = NoOp
<1>1. NoOp \in Ops /\ 0 \in 0..Length[NoOp.op]
  BY DEF Ops, NoOp, Length
<1>2. CASE Advance(p)
  <2>1. CASE Abandon(p)
    BY <1>1, <2>1, OthersStay DEF Types, TypeOK, Idle, Abandon, Ops
  <2>2. CASE Step(p) # "install"
    BY <1>2, <2>2, OthersStay, NotLast DEF Types, TypeOK, Idle, Advance, Ops
  <2> QED
    BY <2>1, <2>2
<1>3. CASE Abandon(p)
  BY <1>1, <1>3, OthersStay DEF Types, TypeOK, Idle, Abandon, Ops
<1> QED
  BY <1>2, <1>3

LEMMA MovesWorks ==
  ASSUME Types, NEW p \in Procs, ~Idle(p), Advance(p) \/ Abandon(p)
  PROVE  /\ \A q \in Procs \ {p}, c \in Channels : Works(q, c)' <=> Works(q, c)
         /\ \A c \in Channels : Works(p, c)' => Works(p, c)
         /\ \A c \in Channels : Advance(p) /\ Works(p, c) => Works(p, c)'
         /\ Abandon(p) => \A c \in Channels : ~Works(p, c)'
<1>1. pc[p] \in Nat /\ pc[p] # 0
  BY DEF Types, TypeOK, Idle
<1>2. ASSUME NEW q \in Procs \ {p}, NEW c \in Channels
      PROVE  Works(q, c)' <=> Works(q, c)
  BY OthersStay DEF Works, Idle, Targets
<1>3. ASSUME NEW c \in Channels, Advance(p)
      PROVE  Works(p, c)' <=> Works(p, c)
  BY <1>1, <1>3, OthersStay DEF Works, Idle, Targets
<1>4. ASSUME NEW c \in Channels, Abandon(p)
      PROVE  ~Works(p, c)'
  BY <1>4, OthersStay DEF Works, Idle
<1> QED
  BY <1>2, <1>3, <1>4

LEMMA MovesAlone ==
  ASSUME Types, Alone, NEW p \in Procs, Moves(p)
  PROVE  Alone'
BY MovesWorks DEF Alone, Moves

LEMMA MovesStaged ==
  ASSUME Types, Alone, \A c \in Channels : Clean(c) => Staged(c),
         NEW p \in Procs, Moves(p),
         \A d \in Targets(op[p]) : d \in Channels /\ Clean(d)' =>
            /\ Advance(p) => Stage(p, d)'
            /\ Abandon(p) => Agree(d)'
  PROVE  \A c \in Channels : Clean(c)' => Staged(c)'
<1> SUFFICES ASSUME NEW c \in Channels, Clean(c)'
             PROVE  Staged(c)'
  OBVIOUS
<1>1. Clean(c) /\ Staged(c)
  BY DEF Clean, Moves
<1>2. ~Idle(p) /\ (Advance(p) \/ Abandon(p))
  BY DEF Moves
<1>3. CASE c \in Targets(op[p])
  <2>1. Works(p, c) /\ \A q \in Procs \ {p} : ~Works(q, c)
    BY <1>1, <1>2, <1>3 DEF Works, Alone, Clean
  <2>2. \A q \in Procs \ {p} : ~Works(q, c)'
    BY <1>2, <2>1, MovesWorks
  <2>3. CASE Advance(p)
    <3>1. Works(p, c)' /\ Stage(p, c)'
      BY <1>2, <1>3, <2>1, <2>3, MovesWorks
    <3> QED
      BY <2>2, <3>1 DEF Staged, Quiet, Works
  <2>4. CASE Abandon(p)
    <3>1. ~Works(p, c)' /\ Agree(c)'
      BY <1>2, <1>3, <2>4, MovesWorks
    <3> QED
      BY <2>2, <3>1 DEF Staged
  <2> QED
    BY <1>2, <2>3, <2>4
<1>4. CASE c \notin Targets(op[p])
  <2>1. status'[c] = status[c] /\ ability'[c] = ability[c]
    BY <1>4 DEF Moves
  <2>2. \A q \in Procs : Works(q, c)' <=> Works(q, c)
    BY <1>2, <1>4, MovesWorks DEF Works
  <2>3. Quiet(c)' <=> Quiet(c)
    BY <2>2 DEF Quiet, Works
  <2>4. Agree(c)' <=> Agree(c)
    BY <2>1 DEF Agree, Mirror
  <2>5. ASSUME NEW q \in Procs, Works(q, c)' PROVE Stage(q, c)'
    <3>1. q # p /\ Stage(q, c)
      BY <1>1, <1>4, <2>2, <2>5 DEF Works, Staged
    <3>2. pc'[q] = pc[q] /\ op'[q] = op[q] /\ seen'[q] = seen[q]
      BY <1>2, <3>1, OthersStay DEF Moves
    <3> QED
      BY <2>1, <3>1, <3>2 DEF Stage, Agree, Mirror
  <2> QED
    BY <1>1, <2>3, <2>4, <2>5 DEF Staged
<1> QED
  BY <1>3, <1>4

-----------------------------------------------------------------------------
(* A goroutine begins a program. *)

LEMMA BeginKeeps ==
  ASSUME IInv, NEW p \in Procs, NEW r \in Ops, Begin(p, r),
         UNCHANGED <<status, ability, used, seen, damaged>>,
         r.op = "insert" => r.c \notin used /\ \A q \in Procs : op[q].op # "insert",
         r.op \in {"update", "delete"} => r.c \in used
  PROVE  /\ pc' \in [Procs -> 0..7] /\ op' \in [Procs -> Ops] /\ overlapped' \subseteq Channels
         /\ \A q \in Procs : /\ pc'[q] \in 0..Length[op'[q].op]
                             /\ pc'[q] = 0 => op'[q] = NoOp
         /\ Alone' /\ Fresh' /\ \A c \in Channels : Clean(c)' => Staged(c)'
<1> USE DEF IInv
<1>1. /\ pc' = [pc EXCEPT ![p] = 1] /\ op' = [op EXCEPT ![p] = r] /\ Idle(p)
      /\ pc \in [Procs -> 0..7] /\ op \in [Procs -> Ops] /\ overlapped \subseteq Channels
  BY DEF Begin, Types, TypeOK, Ops
<1>2. /\ pc'[p] = 1 /\ op'[p] = r
      /\ \A q \in Procs \ {p} : pc'[q] = pc[q] /\ op'[q] = op[q]
  BY <1>1
<1>3. Targets(r) \subseteq Channels /\ 1 \in 0..Length[r.op]
  BY OpTypes DEF Length
<1>4. overlapped' = overlapped \cup {c \in Targets(r) : \E q \in Procs \ {p} : Works(q, c)}
  BY DEF Begin, Works
<1>5. /\ \A q \in Procs \ {p}, c \in Channels : Works(q, c)' <=> Works(q, c)
      /\ \A c \in Channels : ~Works(p, c) /\ (Works(p, c)' <=> c \in Targets(r))
  BY <1>1, <1>2 DEF Works, Idle, Targets
<1>6. /\ pc' \in [Procs -> 0..7] /\ op' \in [Procs -> Ops]
      /\ \A q \in Procs : pc'[q] \in 0..Length[op'[q].op] /\ (pc'[q] = 0 => op'[q] = NoOp)
  BY <1>1, <1>2, <1>3 DEF Types, Idle
<1>7. overlapped' \subseteq Channels
  BY <1>1, <1>3, <1>4
<1>8. Alone'
  <2> SUFFICES ASSUME NEW q \in Procs, NEW s \in Procs, NEW c \in Channels, q # s,
                      Works(q, c)', Works(s, c)'
               PROVE  c \in overlapped'
    BY DEF Alone
  <2>1. CASE q # p /\ s # p
    BY <1>4, <1>5, <2>1 DEF Alone
  <2>2. CASE q = p
    BY <1>4, <1>5, <2>2
  <2>3. CASE s = p
    BY <1>4, <1>5, <2>3
  <2> QED
    BY <2>1, <2>2, <2>3
<1>9. Fresh'
  <2>1. \A c \in Channels \ used' : status'[c] = "none" /\ ability'[c] = "none"
    BY DEF Fresh
  <2>2. ASSUME NEW q \in Procs, NEW s \in Procs, op'[q].op = "insert", op'[s].op = "insert"
        PROVE  q = s
    BY <1>2, <2>2 DEF Fresh
  <2>3. ASSUME NEW q \in Procs, op'[q].op = "insert"
        PROVE  op'[q].c \in used' <=> pc'[q] > 1
    BY <1>2, <2>3 DEF Fresh
  <2>4. ASSUME NEW q \in Procs, op'[q].op \in {"update", "delete"}
        PROVE  op'[q].c \in used'
    BY <1>2, <2>4 DEF Fresh
  <2> QED
    BY <2>1, <2>2, <2>3, <2>4 DEF Fresh
<1>10. ASSUME NEW c \in Channels, Clean(c)'
       PROVE  Staged(c)'
  <2>1. Staged(c)
    BY <1>4, <1>10 DEF Clean
  <2>2. Agree(c)' <=> Agree(c)
    BY DEF Agree, Mirror
  <2>3. CASE c \in Targets(r)
    <3>1. \A q \in Procs : ~Works(q, c)
      BY <1>4, <1>5, <1>10, <2>3 DEF Clean
    <3>2. Agree(c)'
      BY <2>1, <2>2, <3>1 DEF Staged, Quiet, Works
    <3>3. Works(p, c)' /\ \A q \in Procs \ {p} : ~Works(q, c)'
      BY <1>5, <2>3, <3>1
    <3>4. Stage(p, c)'
      BY <1>2, <3>2 DEF Stage
    <3> QED
      BY <3>3, <3>4, <3>2 DEF Staged
  <2>4. CASE c \notin Targets(r)
    <3>1. \A q \in Procs : Works(q, c)' <=> Works(q, c)
      BY <1>5, <2>4
    <3>2. Quiet(c)' <=> Quiet(c)
      BY <3>1 DEF Quiet, Works
    <3>3. ASSUME NEW q \in Procs, Works(q, c)'
          PROVE  Stage(q, c)'
      <4>1. q # p /\ Stage(q, c)
        BY <1>5, <2>1, <2>4, <3>3 DEF Staged
      <4> QED
        BY <1>2, <4>1 DEF Stage, Agree, Mirror
    <3> QED
      BY <2>1, <2>2, <3>2, <3>3 DEF Staged
  <2> QED
    BY <2>3, <2>4
<1> QED
  BY <1>6, <1>7, <1>8, <1>9, <1>10

-----------------------------------------------------------------------------
(* The statements *)

\* Ids stay given out, and only an insert gives one out.
LEMMA FreshMoves ==
  ASSUME Types, Fresh, NEW p \in Procs, ~Idle(p), Advance(p) \/ Abandon(p),
         \/ used' = used /\ (op[p].op = "insert" /\ pc[p] = 1 => Abandon(p))
         \/ used' = used \cup {op[p].c} /\ op[p].op = "insert" /\ pc[p] = 1 /\ Advance(p),
         \A c \in Channels \ used' : status'[c] = "none" /\ ability'[c] = "none"
  PROVE  Fresh'
<1>1. \A q \in Procs : pc[q] \in 0..7
  BY DEF Types, TypeOK
<1>2. NoOp.op = "sync" /\ used \subseteq used' /\ pc[p] # 0
  BY DEF NoOp, Idle
<1>3. \A q \in Procs : op'[q].op # "sync" => op'[q] = op[q]
  BY <1>2, OthersStay
<1>4. ASSUME NEW q \in Procs, NEW s \in Procs, op'[q].op = "insert", op'[s].op = "insert"
      PROVE  q = s
  BY <1>3, <1>4 DEF Fresh
<1>5. ASSUME NEW q \in Procs, op'[q].op = "insert"
      PROVE  op'[q].c \in used' <=> pc'[q] > 1
  <2>1. op'[q] = op[q] /\ (op[q].c \in used <=> pc[q] > 1)
    BY <1>3, <1>5 DEF Fresh
  <2>2. CASE q = p
    <3>1. ~Abandon(p)
      BY <1>2, <1>5, <2>2, OthersStay
    <3>2. pc'[p] = pc[p] + 1
      BY <3>1, OthersStay
    <3> QED
      BY <1>1, <1>2, <1>5, <2>1, <2>2, <3>1, <3>2
  <2>3. CASE q # p
    <3>1. op[p].op # "insert"
      BY <1>5, <2>1, <2>3 DEF Fresh
    <3> QED
      BY <2>1, <2>3, <3>1, OthersStay
  <2> QED
    BY <2>2, <2>3
<1>6. ASSUME NEW q \in Procs, op'[q].op \in {"update", "delete"}
      PROVE  op'[q].c \in used'
  BY <1>2, <1>3, <1>6 DEF Fresh
<1> QED
  BY <1>4, <1>5, <1>6 DEF Fresh

WriteSteps == {"setAbilities", "setStatus", "save", "reread", "create",
               "dropRow", "dropAbilities", "addAbilities", "dropDisabled"}

\* The program and the channel of a statement.
LEMMA WriteOp ==
  ASSUME Types, NEW p \in Procs, Step(p) \in WriteSteps
  PROVE  /\ ~Idle(p) /\ op[p] \in Ops /\ Step(p) # "install"
         /\ op[p].c \in Channels /\ op[p].s \in Statuses \ {"none"}
         /\ Step(p) # "dropDisabled" => Targets(op[p]) = {op[p].c}
         /\ Step(p) = "dropDisabled" => Targets(op[p]) = Channels
         /\ op[p].op = "insert" /\ pc[p] = 1 => Step(p) = "create"
<1>1. ~Idle(p) /\ op[p] \in Ops /\ Step(p) # "install"
  BY DEF Step, WriteSteps, Types, TypeOK, Ops
<1>2. /\ op[p].op \in {"status", "update", "insert", "delete", "purge"}
      /\ op[p].op = "purge" <=> Step(p) = "dropDisabled"
      /\ op[p].op = "insert" /\ pc[p] = 1 => Step(p) = "create"
  <2>1. /\ op[p].op \in {"status", "update", "insert", "delete", "purge"}
        /\ Step(p) = "dropDisabled" => op[p].op = "purge"
        /\ Step(p) # "dropDisabled" => op[p].op # "purge"
    BY <1>1, Statements DEF WriteSteps
  <2>2. op[p].op = "insert" /\ pc[p] = 1 => Step(p) = "create"
    BY <1>1, Statements, Programs
  <2> QED
    BY <2>1, <2>2
<1> QED
  BY <1>1, <1>2, OpTypes DEF Targets

\* A statement writes only the rows of its program's channels.
LEMMA WriteMoves ==
  ASSUME Types, NEW p \in Procs, Write(p)
  PROVE  /\ Moves(p)
         /\ status' \in [Channels -> Statuses] /\ ability' \in [Channels -> {"none", "on", "off"}]
         /\ suspended' \subseteq Channels /\ seen' \in [Procs -> Statuses \ {"none"}]
         /\ used' \subseteq Channels
<1>1. Step(p) \in WriteSteps
  BY DEF Write, WriteSteps
<1>2. /\ ~Idle(p) /\ op[p].c \in Channels /\ op[p].s \in Statuses \ {"none"}
      /\ Step(p) # "dropDisabled" => Targets(op[p]) = {op[p].c}
      /\ Step(p) = "dropDisabled" => Targets(op[p]) = Channels
  BY <1>1, WriteOp
<1>3. /\ status \in [Channels -> Statuses] /\ ability \in [Channels -> {"none", "on", "off"}]
      /\ suspended \subseteq Channels /\ seen \in [Procs -> Statuses \ {"none"}]
      /\ used \subseteq Channels
      /\ "none" \in Statuses
  BY DEF Types, TypeOK, Statuses
<1>4. /\ overlapped' = overlapped /\ damaged' = damaged /\ used' \subseteq Channels
  BY <1>2, <1>3 DEF Write, audit
<1>5. CASE Step(p) = "setAbilities"
  BY <1>2, <1>3, <1>4, <1>5 DEF Write, Moves
<1>6. CASE Step(p) = "setStatus"
  BY <1>2, <1>3, <1>4, <1>6 DEF Write, Moves
<1>7. CASE Step(p) = "save"
  BY <1>2, <1>3, <1>4, <1>7 DEF Write, Moves
<1>8. CASE Step(p) = "reread"
  <2>1. seen' \in [Procs -> Statuses \ {"none"}] /\ \A q \in Procs \ {p} : seen'[q] = seen[q]
    <3>1. (IF status[op[p].c] = "none" THEN op[p].s ELSE status[op[p].c]) \in Statuses \ {"none"}
      BY <1>2, <1>3
    <3> QED
      BY <1>3, <1>8, <3>1 DEF Write
  <2> QED
    BY <1>2, <1>3, <1>4, <1>8, <2>1 DEF Write, Moves, table
<1>9. CASE Step(p) = "create"
  BY <1>2, <1>3, <1>4, <1>9 DEF Write, Moves
<1>10. CASE Step(p) = "dropRow"
  BY <1>2, <1>3, <1>4, <1>10 DEF Write, Moves
<1>11. CASE Step(p) = "dropAbilities"
  BY <1>2, <1>3, <1>4, <1>11 DEF Write, Moves
<1>12. CASE Step(p) = "addAbilities"
  <2>1. Added(p) \in {"on", "off"}
    BY DEF Added
  <2> QED
    BY <1>2, <1>3, <1>4, <1>12, <2>1 DEF Write, Moves
<1>13. CASE Step(p) = "dropDisabled"
  <2>1. /\ status' = [d \in Channels |-> IF status[d] \in {"manual", "auto"} THEN "none"
                                         ELSE status[d]]
        /\ UNCHANGED <<ability, suspended, seen>> /\ Advance(p)
    BY <1>13 DEF Write
  <2> QED
    BY <1>2, <1>3, <1>4, <1>13, <2>1 DEF Moves
<1> QED
  BY <1>1, <1>5, <1>6, <1>7, <1>8, <1>9, <1>10, <1>11, <1>12, <1>13 DEF WriteSteps

\* A statement on an id that was never given out changes nothing.
LEMMA WriteUnused ==
  ASSUME Types, Fresh, NEW p \in Procs, Write(p)
  PROVE  \A c \in Channels \ used' : status'[c] = "none" /\ ability'[c] = "none"
<1> SUFFICES ASSUME NEW c \in Channels \ used'
             PROVE  status'[c] = "none" /\ ability'[c] = "none"
  OBVIOUS
<1>1. Step(p) \in WriteSteps
  BY DEF Write, WriteSteps
<1>2. /\ status[c] = "none" /\ ability[c] = "none"
      /\ status \in [Channels -> Statuses] /\ ability \in [Channels -> {"none", "on", "off"}]
      /\ ~Idle(p)
  BY <1>1, WriteOp DEF Fresh, Types, TypeOK, Write
<1>3. CASE Step(p) \in {"setAbilities", "setStatus", "save", "reread", "dropRow", "dropAbilities"}
  BY <1>2, <1>3 DEF Write, table
<1>4. CASE Step(p) = "create"
  BY <1>2, <1>4 DEF Write
<1>5. CASE Step(p) = "addAbilities"
  <2>1. op[p].c \in used
    BY <1>2, <1>5, Statements DEF Fresh
  <2> QED
    BY <1>2, <1>5, <2>1 DEF Write
<1>6. CASE Step(p) = "dropDisabled"
  BY <1>2, <1>6 DEF Write
<1> QED
  BY <1>1, <1>3, <1>4, <1>5, <1>6 DEF WriteSteps

\* A statement takes the rows of a channel that only its program works on from
\* one stage to the next.
LEMMA WriteStages ==
  ASSUME IInv, NEW p \in Procs, Write(p), NEW d \in Channels, d \in Targets(op[p]), Clean(d)'
  PROVE  /\ Advance(p) => Stage(p, d)'
         /\ Abandon(p) => Agree(d)'
<1> USE DEF IInv
<1>1. Step(p) \in WriteSteps
  BY DEF Write, WriteSteps
<1>2. /\ ~Idle(p) /\ Stage(p, d)
      /\ Step(p) # "dropDisabled" => d = op[p].c
      /\ op[p].s \in Statuses \ {"none"}
  <2>1. Clean(d)
    BY DEF Write, audit, Clean
  <2>2. Works(p, d)
    BY <1>1, WriteOp DEF Works
  <2> QED
    BY <1>1, <2>1, <2>2, WriteOp DEF Staged
<1>3. /\ status \in [Channels -> Statuses] /\ ability \in [Channels -> {"none", "on", "off"}]
      /\ seen \in [Procs -> Statuses \ {"none"}] /\ pc[p] \in Nat /\ pc[p] # 0
  BY <1>2 DEF Types, TypeOK, Idle
<1>4. /\ Advance(p) => pc'[p] = pc[p] + 1 /\ op'[p] = op[p]
      /\ Advance(p) => ~Abandon(p)
  <2>1. /\ Advance(p) => pc'[p] = pc[p] + 1 /\ op'[p] = op[p]
        /\ Abandon(p) => pc'[p] = 0
    BY OthersStay
  <2> QED
    BY <1>3, <2>1
<1>5. CASE Step(p) = "setAbilities"
  <2>1. op[p].op = "status" /\ pc[p] = 1 /\ Advance(p)
    BY <1>2, <1>5, Statements DEF Write
  <2>2. status'[d] # "none" => ability'[d] = Mirror(op[p].s)
    BY <1>2, <1>3, <1>5, <2>1 DEF Write, Stage, Agree, Mirror
  <2> QED
    BY <1>4, <2>1, <2>2 DEF Stage
<1>6. CASE Step(p) = "setStatus"
  <2>1. op[p].op = "status" /\ pc[p] = 2 /\ Advance(p)
    BY <1>2, <1>6, Statements DEF Write
  <2>2. Agree(d)'
    BY <1>2, <1>3, <1>6, <2>1 DEF Write, Stage, Agree, Mirror
  <2> QED
    BY <1>4, <2>1, <2>2 DEF Stage
<1>7. CASE Step(p) = "save"
  <2>1. op[p].op = "update" /\ pc[p] = 1 /\ Advance(p)
    BY <1>2, <1>7, Statements DEF Write
  <2> QED
    BY <1>4, <2>1 DEF Stage
<1>8. CASE Step(p) = "reread"
  <2>1. op[p].op = "update" /\ pc[p] = 2 /\ Advance(p)
    BY <1>2, <1>8, Statements DEF Write
  <2>2. status'[d] # "none" => seen'[p] = status'[d]
    BY <1>2, <1>3, <1>8 DEF Write, table
  <2> QED
    BY <1>4, <2>1, <2>2 DEF Stage
<1>9. CASE Step(p) = "create"
  <2>1. op[p].op = "insert" /\ pc[p] = 1 /\ Advance(p)
    BY <1>2, <1>9, Statements DEF Write
  <2>2. ability[d] = "none"
    BY <1>2, <1>9, <2>1 DEF Fresh
  <2>3. status'[d] = op[p].s /\ ability'[d] = "none"
    BY <1>2, <1>3, <1>9, <2>2 DEF Write
  <2> QED
    BY <1>4, <2>1, <2>3 DEF Stage
<1>10. CASE Step(p) = "dropRow"
  <2>1. op[p].op = "delete" /\ pc[p] = 1 /\ Advance(p)
    BY <1>2, <1>10, Statements DEF Write
  <2>2. status'[d] = "none"
    BY <1>2, <1>3, <1>10 DEF Write
  <2> QED
    BY <1>4, <2>1, <2>2 DEF Stage
<1>11. CASE Step(p) = "dropAbilities"
  <2>1. Advance(p) /\ status'[d] = status[d] /\ ability'[d] = "none" /\ seen'[p] = seen[p]
    BY <1>2, <1>3, <1>11 DEF Write
  <2>2. (op[p].op = "update" /\ pc[p] = 3) \/ (op[p].op = "delete" /\ pc[p] = 2)
    BY <1>2, <1>11, Statements
  <2>3. CASE op[p].op = "update" /\ pc[p] = 3
    BY <1>2, <1>4, <2>1, <2>3 DEF Stage
  <2>4. CASE op[p].op = "delete" /\ pc[p] = 2
    BY <1>2, <1>4, <2>1, <2>4 DEF Stage
  <2> QED
    BY <2>2, <2>3, <2>4
<1>12. CASE Step(p) = "addAbilities"
  <2>1. (op[p].op = "update" /\ pc[p] = 4) \/ (op[p].op = "insert" /\ pc[p] = 2)
    BY <1>2, <1>12, Statements
  <2>2. ability[d] = "none"
    BY <1>2, <2>1 DEF Stage
  <2>3. Advance(p) /\ status'[d] = status[d] /\ ability'[d] = Added(p)
    BY <1>2, <1>3, <1>12, <2>2 DEF Write
  <2>4. Agree(d)'
    BY <1>2, <2>1, <2>3 DEF Stage, Added, Agree, Mirror
  <2> QED
    BY <1>4, <2>1, <2>3, <2>4 DEF Stage
<1>13. CASE Step(p) = "dropDisabled"
  <2>1. op[p].op = "purge" /\ pc[p] = 1 /\ Advance(p)
    BY <1>2, <1>13, Statements DEF Write
  <2>2. Agree(d)'
    BY <1>2, <1>3, <1>13, <2>1 DEF Write, Stage, Agree, Mirror
  <2> QED
    BY <1>4, <2>1, <2>2 DEF Stage
<1> QED
  BY <1>1, <1>5, <1>6, <1>7, <1>8, <1>9, <1>10, <1>11, <1>12, <1>13 DEF WriteSteps

LEMMA WriteKeeps ==
  ASSUME IInv, NEW p \in Procs, Write(p)
  PROVE  IInv'
<1> USE DEF IInv
<1>1. Step(p) \in WriteSteps
  BY DEF Write, WriteSteps
<1>2. Moves(p)
  BY WriteMoves
<1>3. Types'
  <2>1. /\ pc' \in [Procs -> 0..7] /\ op' \in [Procs -> Ops]
        /\ \A q \in Procs : pc'[q] \in 0..Length[op'[q].op] /\ (pc'[q] = 0 => op'[q] = NoOp)
    BY <1>1, <1>2, WriteOp, MovesTypes DEF Moves
  <2>2. TypeOK'
    BY <2>1, WriteMoves DEF Write, Types, TypeOK, Ops, refresh, sweeping, audit
  <2> QED
    BY <2>1, <2>2 DEF Types, Idle
<1>4. Alone'
  BY <1>2, MovesAlone
<1>5. Fresh'
  <2>1. /\ ~Idle(p) /\ (op[p].op = "insert" /\ pc[p] = 1 => Step(p) = "create")
        /\ Advance(p) \/ Abandon(p)
    BY <1>1, <1>2, WriteOp DEF Moves
  <2>2. CASE Step(p) = "create"
    <3>1. used' = used \cup {op[p].c} /\ op[p].op = "insert" /\ pc[p] = 1 /\ Advance(p)
      BY <2>1, <2>2, Statements DEF Write
    <3> QED
      BY <2>1, <3>1, WriteUnused, FreshMoves
  <2>3. CASE Step(p) # "create"
    <3>1. used' = used
      BY <2>3 DEF Write
    <3> QED
      BY <2>1, <2>3, <3>1, WriteUnused, FreshMoves
  <2> QED
    BY <2>2, <2>3
<1>6. \A c \in Channels : Clean(c)' => Staged(c)'
  BY <1>2, WriteStages, MovesStaged
<1> QED
  BY <1>3, <1>4, <1>5, <1>6

\* A failing statement leaves the tables alone and marks its channels.
LEMMA FailureKeeps ==
  ASSUME IInv, NEW p \in Procs, StatementFails(p)
  PROVE  IInv'
<1> USE DEF IInv
<1>1. /\ ~Idle(p) /\ Step(p) # "install" /\ op[p] \in Ops /\ Targets(op[p]) \subseteq Channels
      /\ Advance(p) \/ Abandon(p)
  <2>1. ~Idle(p) /\ op[p] \in Ops
    BY DEF StatementFails, Step, Types, TypeOK, Ops
  <2> QED
    BY <2>1, OpTypes DEF StatementFails
<1>2. /\ UNCHANGED <<status, ability, used, overlapped>> /\ damaged' = damaged \cup Targets(op[p])
      /\ seen' \in [Procs -> Statuses \ {"none"}] /\ \A q \in Procs \ {p} : seen'[q] = seen[q]
  <2>1. CASE Step(p) = "reread"
    <3>1. op[p].s \in Statuses \ {"none"}
      BY <2>1, WriteOp DEF WriteSteps
    <3> QED
      BY <2>1, <3>1 DEF StatementFails, table, Types, TypeOK
  <2>2. CASE Step(p) # "reread"
    BY <2>2 DEF StatementFails, table, Types, TypeOK
  <2> QED
    BY <2>1, <2>2
<1>3. Moves(p)
  BY <1>1, <1>2 DEF Moves
<1>4. Types'
  <2>1. /\ pc' \in [Procs -> 0..7] /\ op' \in [Procs -> Ops]
        /\ \A q \in Procs : pc'[q] \in 0..Length[op'[q].op] /\ (pc'[q] = 0 => op'[q] = NoOp)
    BY <1>1, MovesTypes
  <2>2. failures' \in 0..MaxFailures
    BY StatusAssumption DEF StatementFails, Types, TypeOK
  <2>3. TypeOK'
    BY <1>1, <1>2, <2>1, <2>2 DEF StatementFails, Types, TypeOK, Ops, table, refresh, sweeping
  <2> QED
    BY <2>1, <2>3 DEF Types, Idle
<1>5. Alone'
  BY <1>3, MovesAlone
<1>6. Fresh'
  <2>1. op[p].op = "insert" /\ pc[p] = 1 => Abandon(p)
    BY <1>1, Statements, Programs DEF StatementFails
  <2> QED
    BY <1>1, <1>2, <2>1, FreshMoves DEF Fresh
<1>7. \A c \in Channels : Clean(c)' => Staged(c)'
  <2>1. \A d \in Targets(op[p]) : ~Clean(d)'
    BY <1>2 DEF Clean
  <2> QED
    BY <1>3, <2>1, MovesStaged
<1> QED
  BY <1>4, <1>5, <1>6, <1>7

\* The refresh at the end of a program reads the tables, in which the program
\* has nothing left to do.
LEMMA RefreshKeeps ==
  ASSUME IInv, NEW p \in Procs, ReadChannels(p) \/ ReadAbilities(p) \/ Install(p)
  PROVE  IInv'
<1> USE DEF IInv
<1>1. /\ ~Idle(p) /\ op[p] \in Ops
      /\ \/ Step(p) \in {"readChannels", "readAbilities"} /\ Advance(p)
         \/ Step(p) = "install" /\ Abandon(p)
  BY DEF ReadChannels, ReadAbilities, Install, Step, Types, TypeOK, Ops
<1>2. UNCHANGED <<status, ability, suspended, used, asked, sweeping, suspends, overlapped, damaged>>
  BY DEF ReadChannels, ReadAbilities, Install, table, audit
<1>3. Moves(p)
  <2>1. \A q \in Procs \ {p} : seen'[q] = seen[q]
    BY DEF ReadChannels, ReadAbilities, Install, Forget, Types, TypeOK
  <2> QED
    BY <1>1, <1>2, <2>1 DEF Moves
<1>4. Types'
  <2>1. /\ pc' \in [Procs -> 0..7] /\ op' \in [Procs -> Ops]
        /\ \A q \in Procs : pc'[q] \in 0..Length[op'[q].op] /\ (pc'[q] = 0 => op'[q] = NoOp)
    BY <1>1, MovesTypes
  <2>2. failures' \in 0..MaxFailures
    BY StatusAssumption DEF ReadChannels, ReadAbilities, Install, Types, TypeOK
  <2>3. /\ seen' \in [Procs -> Statuses \ {"none"}] /\ cache' \subseteq Channels
        /\ newChannels' \in [Procs -> SUBSET Channels] /\ newCache' \in [Procs -> SUBSET Channels]
    <3>1. CASE ReadChannels(p)
      BY <3>1 DEF ReadChannels, Types, TypeOK
    <3>2. CASE ReadAbilities(p)
      <4>1. Valid(p) \subseteq Channels
        BY DEF Valid, Types, TypeOK
      <4> QED
        BY <3>2, <4>1 DEF ReadAbilities, Types, TypeOK
    <3>3. CASE Install(p)
      BY <3>3 DEF Install, Forget, Statuses, Types, TypeOK
    <3> QED
      BY <3>1, <3>2, <3>3
  <2>4. TypeOK'
    BY <1>2, <2>1, <2>2, <2>3 DEF Types, TypeOK, Ops, sweeping
  <2> QED
    BY <2>1, <2>4 DEF Types, Idle
<1>5. Alone'
  BY <1>3, MovesAlone
<1>6. Fresh'
  <2>1. op[p].op = "insert" /\ pc[p] = 1 => Abandon(p)
    BY <1>1, Statements, Programs
  <2> QED
    BY <1>1, <1>2, <2>1, FreshMoves DEF Fresh
<1>7. ASSUME NEW d \in Channels, d \in Targets(op[p]), Clean(d)'
      PROVE  /\ Advance(p) => Stage(p, d)'
             /\ Abandon(p) => Agree(d)'
  <2>1. Stage(p, d)
    BY <1>1, <1>2, <1>7 DEF Clean, Works, Staged
  <2>2. op[p].op \in {"status", "update", "insert", "delete", "purge"}
    BY <1>1, <1>7, OpTypes DEF Targets
  <2>3. /\ pc[p] > Length[op[p].op] - 3 /\ pc[p] \in 0..Length[op[p].op]
        /\ Step(p) # "install" => pc[p] < Length[op[p].op]
    BY <1>1, Statements DEF Types, Length
  <2>4. Agree(d) /\ (op[p].op = "delete" => status[d] = "none")
    BY <2>1, <2>2, <2>3 DEF Stage, Length, Agree
  <2>5. Agree(d)' /\ (op[p].op = "delete" => status'[d] = "none")
    BY <1>2, <2>4 DEF Agree, Mirror
  <2>6. ASSUME Advance(p) PROVE Stage(p, d)'
    <3>1. pc'[p] = pc[p] + 1 /\ op'[p] = op[p]
      BY <2>6, OthersStay
    <3> QED
      BY <2>2, <2>3, <2>5, <3>1 DEF Stage, Length
  <2> QED
    BY <2>5, <2>6
<1>8. \A c \in Channels : Clean(c)' => Staged(c)'
  BY <1>3, <1>7, MovesStaged
<1> QED
  BY <1>4, <1>5, <1>6, <1>8

-----------------------------------------------------------------------------
(* The specification *)

\* Steps that touch no program, row or mark keep all but the types.
LEMMA RestKeeps ==
  ASSUME IInv, TypeOK', UNCHANGED <<status, ability, used, pc, op, seen, overlapped, damaged>>
  PROVE  IInv'
<1> USE DEF IInv
<1>1. \A p \in Procs : Idle(p)' <=> Idle(p)
  BY DEF Idle
<1>2. \A p \in Procs, c \in Channels : Works(p, c)' <=> Works(p, c)
  BY <1>1 DEF Works, Targets
<1>3. \A p \in Procs, c \in Channels : Stage(p, c)' <=> Stage(p, c)
  BY DEF Stage, Agree, Mirror
<1>4. Types'
  BY <1>1 DEF Types
<1>5. Alone'
  BY <1>2 DEF Alone
<1>6. Fresh'
  BY DEF Fresh
<1>7. ASSUME NEW c \in Channels, Clean(c)' PROVE Staged(c)'
  <2>1. Staged(c) /\ (Quiet(c)' <=> Quiet(c)) /\ (Agree(c)' <=> Agree(c))
    BY <1>2, <1>7 DEF Clean, Quiet, Works, Agree, Mirror
  <2> QED
    BY <1>2, <1>3, <2>1 DEF Staged
<1> QED
  BY <1>4, <1>5, <1>6, <1>7

LEMMA BeginsKeep ==
  ASSUME IInv, (\E p \in Procs : Ask(p)) \/ Tick \/ ApplyTest
  PROVE  IInv'
<1>1. CASE \E p \in Procs : Ask(p)
  <2>1. PICK p \in Procs : Ask(p)
    BY <1>1
  <2>2. PICK r \in Requests :
          /\ r.op = "insert" => r.c \notin used /\ \A q \in Procs : op[q].op # "insert"
          /\ r.op \in {"status", "update", "delete"} => r.c \in used
          /\ Begin(p, r)
    BY <2>1 DEF Ask
  <2>3. r \in Ops
    BY DEF Ops
  <2>4. UNCHANGED <<table, cache, used, seen, refresh, sweeping, failures, suspends, damaged>>
    BY <2>1 DEF Ask
  <2>5. asked' \in 0..MaxAsked
    BY <2>1, StatusAssumption DEF Ask, IInv, Types, TypeOK
  <2> QED
    BY <2>2, <2>3, <2>4, <2>5, BeginKeeps
       DEF IInv, Types, TypeOK, Ops, Idle, table, refresh, sweeping
<1>2. CASE Tick
  <2>1. NoOp \in Ops /\ NoOp.op = "sync" /\ Ticker \in Procs
    BY DEF Ops, NoOp, Procs
  <2> QED
    BY <1>2, <2>1, BeginKeeps DEF Tick, IInv, Types, TypeOK, Ops, Idle, table, refresh, sweeping
<1>3. CASE ApplyTest
  <2>1. PICK h \in todo :
          /\ Begin(Sweep, [op |-> "status", c |-> h.c,
                           s |-> IF h.s = "enabled" THEN "auto" ELSE "enabled"])
          /\ todo' = IF again = 1 THEN todo \ {h} ELSE todo
    BY <1>3 DEF ApplyTest
  <2> DEFINE r == [op |-> "status", c |-> h.c,
                   s |-> IF h.s = "enabled" THEN "auto" ELSE "enabled"]
  <2>2. r \in Ops /\ r.op = "status" /\ Sweep \in Procs
    BY DEF IInv, Types, TypeOK, Ops, Procs
  <2>3. Begin(Sweep, r)
    BY <2>1
  <2>4. again' \in 0..2 /\ todo' \subseteq todo
    BY <1>3, <2>1 DEF ApplyTest, IInv, Types, TypeOK
  <2>5. UNCHANGED <<table, cache, used, asked, seen, refresh, running, alive, sweeps, failures,
                    suspends, damaged>>
    BY <1>3 DEF ApplyTest
  <2> HIDE DEF r
  <2> QED
    BY <2>2, <2>3, <2>4, <2>5, BeginKeeps DEF IInv, Types, TypeOK, Ops, Idle, table, refresh
<1> QED
  BY <1>1, <1>2, <1>3

LEMMA OthersKeep ==
  ASSUME IInv, TestChannel \/ EndSweep \/ StartSweep \/ \E c \in Channels : Suspend(c) \/ Expire(c)
  PROVE  IInv'
<1>1. TypeOK
  BY DEF IInv, Types
<1>2. CASE TestChannel
  <2>1. \A h \in todo, result \in {"ok", "bad", "slow"} : Calls(h, result) \in 0..2
    BY DEF Calls
  <2>2. again' \in 0..2 /\ todo' \subseteq todo
    BY <1>2, <2>1 DEF TestChannel
  <2>3. TypeOK'
    BY <1>1, <1>2, <2>2 DEF TestChannel, TypeOK, table, refresh, audit
  <2> QED
    BY <1>2, <2>3, RestKeeps DEF TestChannel, table, audit
<1>3. CASE EndSweep
  <2>1. TypeOK'
    BY <1>1, <1>3 DEF EndSweep, TypeOK, table, refresh, audit
  <2> QED
    BY <1>3, <2>1, RestKeeps DEF EndSweep, table, audit
<1>4. CASE StartSweep
  <2>1. todo' \subseteq [c : Channels, s : Statuses \ {"none"}]
    BY <1>1, <1>4 DEF StartSweep, TypeOK
  <2>2. sweeps' \in 0..MaxSweeps /\ failures' \in 0..MaxFailures
    BY <1>1, <1>4, StatusAssumption DEF StartSweep, TypeOK
  <2>3. TypeOK'
    BY <1>1, <1>4, <2>1, <2>2 DEF StartSweep, TypeOK, table, refresh, audit
  <2> QED
    BY <1>4, <2>3, RestKeeps DEF StartSweep, table, audit
<1>5. CASE \E c \in Channels : Suspend(c) \/ Expire(c)
  <2>1. suspends' \in 0..MaxSuspends
    BY <1>1, <1>5, StatusAssumption DEF Suspend, Expire, TypeOK
  <2>2. TypeOK'
    BY <1>1, <1>5, <2>1 DEF Suspend, Expire, TypeOK, refresh, sweeping, audit
  <2> QED
    BY <1>5, <2>2, RestKeeps DEF Suspend, Expire, audit
<1> QED
  BY <1>2, <1>3, <1>4, <1>5

LEMMA InitIInv == Init => IInv
<1> SUFFICES ASSUME Init PROVE IInv
  OBVIOUS
<1>1. TypeOK
  <2>1. /\ status \in [Channels -> Statuses] /\ ability \in [Channels -> {"none", "on", "off"}]
        /\ used \subseteq Channels /\ cache \subseteq Channels /\ suspended \subseteq Channels
    BY StatusAssumption DEF Init, Statuses
  <2>2. /\ pc \in [Procs -> 0..7] /\ op \in [Procs -> {NoOp}]
        /\ seen \in [Procs -> Statuses \ {"none"}]
        /\ newChannels \in [Procs -> SUBSET Channels] /\ newCache \in [Procs -> SUBSET Channels]
    BY DEF Init, Statuses
  <2>3. /\ running \in BOOLEAN /\ alive \in BOOLEAN /\ todo = {} /\ again = 0
        /\ overlapped = {} /\ damaged = {}
    BY DEF Init
  <2>4. /\ asked \in 0..MaxAsked /\ failures \in 0..MaxFailures
        /\ suspends \in 0..MaxSuspends /\ sweeps \in 0..MaxSweeps
    BY StatusAssumption DEF Init
  <2> QED
    BY <2>1, <2>2, <2>3, <2>4 DEF TypeOK
<1>2. \A p \in Procs : op[p] = NoOp /\ pc[p] = 0
  BY DEF Init
<1>3. Types
  BY <1>1, <1>2 DEF Types, NoOp, Length
<1>4. \A p \in Procs : Idle(p)
  BY <1>2 DEF Idle
<1>5. Alone /\ Fresh
  <2>1. NoOp.op = "sync"
    BY DEF NoOp
  <2> QED
    BY <1>2, <1>4, <2>1 DEF Alone, Works, Fresh, Init
<1>6. ASSUME NEW c \in Channels PROVE Agree(c)
  BY DEF Init, Agree, Mirror
<1> QED
  BY <1>3, <1>4, <1>5, <1>6 DEF IInv, Staged, Works

LEMMA NextIInv == IInv /\ [Next]_vars => IInv'
<1> SUFFICES ASSUME IInv, [Next]_vars PROVE IInv'
  OBVIOUS
<1>1. ASSUME NEW p \in Procs, Run(p) PROVE IInv'
  BY <1>1, WriteKeeps, FailureKeeps, RefreshKeeps DEF Run
<1>2. CASE UNCHANGED vars
  <2>1. TypeOK'
    BY <1>2 DEF vars, table, refresh, sweeping, audit, IInv, Types, TypeOK
  <2> QED
    BY <1>2, <2>1, RestKeeps DEF vars, table, audit
<1> QED
  BY <1>1, <1>2, BeginsKeep, OthersKeep DEF Next, Goroutine, Testing

\* AbilitiesAgree: whatever an administrator, the monitor and the sweep do to a
\* channel one after the other, its ability is enabled exactly when it is.
THEOREM AgreeTheorem == Spec => []AbilitiesAgree
<1>1. IInv => AbilitiesAgree
  <2> SUFFICES ASSUME IInv PROVE AbilitiesAgree
    OBVIOUS
  <2>1. ASSUME NEW c \in Channels, Quiet(c), c \notin overlapped \cup damaged, status[c] # "none"
        PROVE  ability[c] = "on" <=> status[c] = "enabled"
    <3>1. Agree(c)
      BY <2>1 DEF IInv, Clean, Staged
    <3> QED
      BY <2>1, <3>1 DEF Agree, Mirror
  <2> QED
    BY <2>1 DEF AbilitiesAgree, IInv, Types
<1> QED
  BY <1>1, InitIInv, NextIInv, PTL DEF Spec
=============================================================================
