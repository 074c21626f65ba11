-------------------------- MODULE SystemTaskProofs --------------------------
(***************************************************************************)
(* What holds of SystemTask for any number of runners, rows, faults and    *)
(* crashes.  A closed row is final whatever the clocks do; the other two   *)
(* results need claims and sweeps that last no longer than a lease, and    *)
(* the last one a heartbeat that renews in time.                           *)
(***************************************************************************)
EXTENDS SystemTask, TLAPS

(* A claim or a sweep is over before a lease taken at its start is. *)
Brisk == MaxStall <= Lease

-----------------------------------------------------------------------------
Holders == Runners \cup {NoRunner}

RowType == [status : Active \cup Done \cup {"none"}, key : BOOLEAN, by : Holders]
LockType == [task : 0..MaxTasks, by : Holders, left : Int]
Steps == {"idle", "lock", "read", "steal", "mark", "row", "undo", "expire", "delete"}
PassType == [pc : Steps, task : 0..MaxTasks, old : 0..MaxTasks, by : Holders,
             now : (-MaxStall)..0]

Typed ==
    /\ rows \in [Tasks -> RowType]
    /\ lock \in LockType
    /\ pass \in [Runners -> PassType]
    /\ hand \in [Tasks -> {"none", "running", "cancelled", "release"}]
    /\ \A r \in Runners : pass[r].pc # "idle" => pass[r].task \in Tasks

-----------------------------------------------------------------------------
Begun(t) == rows[t].status \in {"running"} \cup Done
Busy(t) == rows[t].status = "running" /\ rows[t].key

(* Rows are created in order and begun in order, a row that waits has no executor,
   and the row with the active_key is alone. *)
Queue ==
    /\ \A t \in Tasks : rows[t].status = "pending" => rows[t].by = NoRunner
    /\ \A t \in Tasks : rows[t].key => rows[t].status \in Active
    /\ \A t, u \in Tasks : u < t /\ rows[t].status # "none" => rows[u].status # "none"
    /\ \A t, u \in Tasks : u < t /\ Begun(t) => rows[u].status # "pending"
    /\ \A t, u \in Tasks : rows[t].key /\ u # t => ~ rows[u].key /\ rows[u].status # "pending"

(* A claim is about a row that exists, that its runner has not got yet, and before
   which no row waits. *)
Claims ==
    \A r \in Runners : pass[r].pc \in {"lock", "read", "steal", "mark", "row", "undo"} =>
        /\ rows[pass[r].task].status # "none" /\ rows[pass[r].task].by # r
        /\ \A u \in Tasks : u < pass[r].task => rows[u].status # "pending"

(* A handler is that of a row that was begun, and goes on to the lock only when it has
   closed the row. *)
Handlers ==
    /\ \A t \in Tasks : hand[t] # "none" => Begun(t)
    /\ \A t \in Tasks : hand[t] = "release" => rows[t].status \in Done

(* A claim that has got the lock keeps it, with the lease counted from its start. *)
Held ==
    \A r \in Runners : pass[r].pc \in {"mark", "row"} =>
        LockIs(pass[r].task, r) /\ lock.left = pass[r].now + Lease

(* A lock a claim may give back is not the one under which its row runs. *)
Own ==
    \A r \in Runners : pass[r].pc \in {"mark", "row", "undo"} /\ LockIs(pass[r].task, r)
                       => ~ Busy(pass[r].task)

(* While a row runs, no claim and no sweep of this row that is under way finds its lease
   over. *)
Fresh ==
    \A t \in Tasks : Busy(t) => \A r \in Runners :
        pass[r].pc \in {"lock", "read", "steal"} \/ (pass[r].pc = "delete" /\ pass[r].task = t)
        => lock.left >= pass[r].now

(* A running handler has the lock, and its lease is not over. *)
Beating == \A t \in Tasks : hand[t] = "running" => LockIs(t, rows[t].by) /\ lock.left >= 0

-----------------------------------------------------------------------------
(* How a step changes the loop of a runner, field by field. *)

Others(r) == pass' \in [Runners -> PassType] /\ \A q \in Runners : q # r => pass'[q] = pass[q]

Moves(r, p) ==
    /\ Others(r)
    /\ pass'[r].pc = p /\ pass'[r].task = pass[r].task /\ pass'[r].now = pass[r].now

Idles(r) == Others(r) /\ pass'[r].pc = "idle" /\ pass'[r].now = 0

LEMMA PassFields ==
    ASSUME pass \in [Runners -> PassType], NEW r \in Runners
    PROVE  /\ pass[r].pc \in Steps /\ pass[r].task \in 0..MaxTasks /\ pass[r].old \in 0..MaxTasks
           /\ pass[r].now \in Int /\ pass[r].now >= -MaxStall /\ pass[r].now <= 0
BY SystemTaskAssumption DEF PassType

LEMMA IdleType == IdlePass \in PassType /\ IdlePass.pc = "idle" /\ IdlePass.now = 0
BY SystemTaskAssumption DEF IdlePass, PassType, Steps, Holders

LEMMA GotoMoves ==
    ASSUME pass \in [Runners -> PassType], NEW r \in Runners, NEW p \in Steps, Goto(r, p)
    PROVE  Moves(r, p)
BY DEF Goto, Moves, Others, PassType

LEMMA ReturnIdles ==
    ASSUME pass \in [Runners -> PassType], NEW r \in Runners, Return(r)
    PROVE  Idles(r)
BY IdleType DEF Return, Idles, Others

LEMMA NotesOld ==
    ASSUME pass \in [Runners -> PassType], NEW r \in Runners, NEW t \in 0..MaxTasks,
           pass' = [pass EXCEPT ![r].pc = "steal", ![r].old = t]
    PROVE  Moves(r, "steal")
BY DEF Moves, Others, PassType, Steps

LEMMA StartsPass ==
    ASSUME pass \in [Runners -> PassType], NEW r \in Runners, NEW t \in 0..MaxTasks,
           NEW h \in Holders, NEW p \in Steps,
           pass' = [pass EXCEPT ![r] = [IdlePass EXCEPT !.pc = p, !.task = t, !.by = h]]
    PROVE  Others(r) /\ pass'[r].pc = p /\ pass'[r].task = t /\ pass'[r].now = 0
<1>1. [IdlePass EXCEPT !.pc = p, !.task = t, !.by = h] \in PassType
  BY IdleType DEF PassType
<1> QED BY <1>1, IdleType DEF Others, IdlePass

LEMMA StartsClaim ==
    ASSUME pass \in [Runners -> PassType], NEW r \in Runners, NEW t \in Tasks,
           pass' = [pass EXCEPT ![r] = [IdlePass EXCEPT !.pc = "lock", !.task = t]]
    PROVE  Others(r) /\ pass'[r].pc = "lock" /\ pass'[r].task = t /\ pass'[r].now = 0
<1>1. [IdlePass EXCEPT !.pc = "lock", !.task = t] \in PassType
  <2>1. t \in 0..MaxTasks /\ "lock" \in Steps
    BY SystemTaskAssumption DEF Tasks, Steps
  <2> QED BY <2>1, IdleType DEF PassType
<1> QED BY <1>1, IdleType DEF Others, IdlePass

-----------------------------------------------------------------------------
(* How a step changes the rows. *)

RowsSame(t) == rows' \in [Tasks -> RowType] /\ \A u \in Tasks : u # t => rows'[u] = rows[u]

Opens(t) ==
    /\ t \in Tasks /\ RowsSame(t) /\ rows[t].status = "none"
    /\ \A u \in Tasks : u < t => rows[u].status # "none"
    /\ t > 1 => rows[t - 1].status \in Done
    /\ \A u \in Tasks : ~ rows[u].key
    /\ rows'[t].status = "pending" /\ rows'[t].key /\ rows'[t].by = NoRunner

Takes(t, r) ==
    /\ t \in Tasks /\ RowsSame(t) /\ rows[t].status = "pending"
    /\ r \in Runners /\ pass[r].pc = "row" /\ pass[r].task = t
    /\ rows'[t].status = "running" /\ rows'[t].key = rows[t].key /\ rows'[t].by = r

Closes(t) ==
    /\ t \in Tasks /\ RowsSame(t) /\ rows[t].status = "running"
    /\ rows'[t].status \in Done /\ ~ rows'[t].key /\ rows'[t].by = rows[t].by

LEMMA RowFields ==
    ASSUME rows \in [Tasks -> RowType], NEW t \in Tasks
    PROVE  rows[t].status \in Active \cup Done \cup {"none"} /\ rows[t].by \in Holders
           /\ rows[t].key \in BOOLEAN
BY DEF RowType

LEMMA CloseRow ==
    ASSUME rows \in [Tasks -> RowType], NEW t \in Tasks, NEW s \in Done,
           rows[t].status = "running", rows' = Closed(t, s)
    PROVE  Closes(t)
BY DEF Closed, Closes, RowsSame, RowType

LEMMA ExpireCases ==
    ASSUME rows \in [Tasks -> RowType], NEW t, rows' = LeaseExpired(t)
    PROVE  rows' = rows \/ Closes(t)
<1>1. CASE t \in Tasks /\ rows[t].status = "running"
  BY <1>1, CloseRow DEF LeaseExpired, Done
<1>2. CASE t \notin Tasks
  BY <1>2 DEF LeaseExpired, Closed
<1>3. CASE t \in Tasks /\ rows[t].status # "running"
  BY <1>3 DEF LeaseExpired
<1> QED BY <1>1, <1>2, <1>3

LEMMA CreateOpens ==
    ASSUME rows \in [Tasks -> RowType], NEW t, Create(t), t \in Tasks
    PROVE  Opens(t)
BY DEF Create, Opens, RowsSame, RowType, Active, Holders

LEMMA TakeRowTakes ==
    ASSUME rows \in [Tasks -> RowType], NEW r \in Runners, NEW t \in Tasks,
           pass[r].pc = "row", pass[r].task = t,
           rows[t].status = "pending", rows' = [rows EXCEPT ![t].status = "running", ![t].by = r]
    PROVE  Takes(t, r)
BY DEF Takes, RowsSame, RowType, Active, Holders

-----------------------------------------------------------------------------
(* What a step can be. *)

(* A runner ends its pass, starts one, or goes on to the next statement. *)
Looks(r) ==
    /\ UNCHANGED <<rows, lock, hand>> /\ Others(r)
    /\ \/ Idles(r)
       \/ pass[r].pc = "lock" /\ Moves(r, "read")
       \/ pass[r].pc = "read" /\ Moves(r, "steal")
       \/ pass[r].pc \in {"mark", "row"} /\ Moves(r, "undo")
       \/ pass'[r].pc = "expire" /\ pass'[r].task \in Tasks
       \/ /\ pass'[r].pc = "lock" /\ pass'[r].task \in Tasks
          /\ rows[pass'[r].task].status = "pending"
          /\ \A u \in Tasks : u < pass'[r].task => rows[u].status # "pending"

(* A claim gets the lock. *)
Locks(r) ==
    /\ pass[r].pc \in {"lock", "steal"} /\ (lock.task = 0 \/ Stale(r))
    /\ lock' = Mine(r)
    /\ Moves(r, "mark") \/ Moves(r, "row")
    /\ UNCHANGED <<rows, hand>>

(* The lock is deleted by the claim that failed, by a sweep or by a handler. *)
Drops(r) ==
    /\ lock' = NoLock /\ Idles(r) /\ UNCHANGED <<rows, hand>>
    /\ \/ pass[r].pc = "undo" /\ LockIs(pass[r].task, r)
       \/ pass[r].pc = "delete" /\ lock.task = pass[r].task /\ Stale(r)

Releases(t) ==
    /\ lock' = NoLock /\ UNCHANGED <<rows, pass>>
    /\ hand[t] = "release" /\ LockIs(t, rows[t].by)
    /\ hand' = [hand EXCEPT ![t] = "none"]

(* A takeover or a sweep has closed a row, if it was running. *)
Marks(r) ==
    /\ UNCHANGED <<lock, hand>>
    /\ rows' = rows \/ \E t \in Tasks : Closes(t)
    /\ \/ pass[r].pc = "mark" /\ Moves(r, "row")
       \/ pass[r].pc = "expire" /\ Moves(r, "delete") /\ rows'[pass[r].task].status # "running"

Ends(t) ==
    /\ Closes(t) /\ hand[t] # "none" /\ hand' = [hand EXCEPT ![t] = "release"]
    /\ UNCHANGED <<lock, pass>>

Starts(r) ==
    /\ Takes(pass[r].task, r) /\ Idles(r) /\ lock' = lock
    /\ hand' \in {hand, [hand EXCEPT ![pass[r].task] = "running"]}

Adds(t) == Opens(t) /\ UNCHANGED <<lock, pass, hand>>

Beats(t) ==
    /\ hand[t] = "running" /\ LockIs(t, rows[t].by) /\ lock' = [lock EXCEPT !.left = Lease]
    /\ UNCHANGED <<rows, pass, hand>>

Leaves(t) ==
    /\ hand[t] # "none" /\ \E h \in {"none", "cancelled"} : hand' = [hand EXCEPT ![t] = h]
    /\ UNCHANGED <<rows, lock, pass>>

Dies(r) ==
    /\ Idles(r) /\ UNCHANGED <<rows, lock>>
    /\ hand' \in [Tasks -> {"none", "running", "cancelled", "release"}]
    /\ \A t \in Tasks : hand'[t] \in {"none", hand[t]}

Kinds ==
    \/ \E r \in Runners : Looks(r) \/ Locks(r) \/ Drops(r) \/ Marks(r) \/ Starts(r) \/ Dies(r)
    \/ \E t \in Tasks : Releases(t) \/ Ends(t) \/ Adds(t) \/ Beats(t) \/ Leaves(t)
    \/ Tick
    \/ UNCHANGED <<rows, lock, pass, hand>>

LEMMA LoopKinds ==
    ASSUME Typed, NEW r \in Runners, Loop(r)
    PROVE  Looks(r) \/ Locks(r) \/ Drops(r) \/ Marks(r) \/ Starts(r)
<1> USE DEF At
<1>1. /\ pass \in [Runners -> PassType] /\ rows \in [Tasks -> RowType]
      /\ lock.task \in 0..MaxTasks /\ {"read", "steal", "mark", "row", "undo", "delete"} \subseteq Steps
  BY DEF Typed, LockType, Steps
<1>2. /\ \A p \in {"read", "steal", "mark", "row", "undo", "delete"} : Goto(r, p) => Moves(r, p)
      /\ Return(r) => Idles(r)
      /\ \A p : Moves(r, p) => Others(r)
      /\ Idles(r) => Others(r)
  BY <1>1, GotoMoves, ReturnIdles DEF Moves, Idles
<1>3. CASE InsertLock(r)
  BY <1>2, <1>3 DEF InsertLock, Looks, Locks
<1>4. CASE ReadLock(r)
  BY <1>1, <1>2, <1>4, NotesOld DEF ReadLock, Looks, Stale
<1>5. CASE StealLock(r)
  BY <1>2, <1>5 DEF StealLock, Looks, Locks
<1>6. CASE MarkOld(r)
  <2>1. CASE rows' = LeaseExpired(pass[r].old)
    <3>1. rows' = rows \/ \E t \in Tasks : Closes(t)
      BY <1>1, <2>1, ExpireCases DEF Closes
    <3> QED BY <1>2, <1>6, <3>1 DEF MarkOld, Marks, Looks
  <2>2. CASE UNCHANGED rows
    BY <1>2, <1>6, <2>2 DEF MarkOld, Marks, Looks
  <2> QED BY <1>6, <2>1, <2>2 DEF MarkOld
<1>7. CASE TakeRow(r)
  <2>1. pass[r].pc = "row" /\ pass[r].task \in Tasks /\ lock' = lock
    BY <1>7 DEF TakeRow, Typed
  <2>2. CASE Goto(r, "undo") /\ UNCHANGED <<rows, hand>>
    BY <1>2, <2>1, <2>2 DEF Looks
  <2>3. CASE /\ rows[pass[r].task].status = "pending"
             /\ rows' = [rows EXCEPT ![pass[r].task].status = "running", ![pass[r].task].by = r]
             /\ Return(r)
             /\ hand' \in {hand, [hand EXCEPT ![pass[r].task] = "running"]}
    <3>1. Takes(pass[r].task, r)
      BY <1>1, <2>1, <2>3, TakeRowTakes
    <3> QED BY <1>2, <2>1, <2>3, <3>1 DEF Starts
  <2> QED BY <1>7, <2>2, <2>3 DEF TakeRow
<1>8. CASE UndoLock(r)
  BY <1>2, <1>8 DEF UndoLock, Looks, Drops, Released
<1>9. CASE ExpireRow(r)
  <2>1. CASE rows' = LeaseExpired(pass[r].task) /\ Goto(r, "delete")
    <3>1. rows' = rows \/ Closes(pass[r].task)
      BY <1>1, <2>1, ExpireCases
    <3>2. pass[r].task \in Tasks
      BY <1>9 DEF ExpireRow, Typed
    <3>3. rows'[pass[r].task].status # "running"
      BY <1>1, <2>1, <3>1, <3>2 DEF LeaseExpired, Closes, Done, Closed
    <3> QED BY <1>2, <1>9, <2>1, <3>1, <3>2, <3>3 DEF ExpireRow, Marks
  <2>2. CASE UNCHANGED rows /\ Return(r)
    BY <1>2, <1>9, <2>2 DEF ExpireRow, Looks
  <2> QED BY <1>9, <2>1, <2>2 DEF ExpireRow
<1>10. CASE DeleteStale(r)
  BY <1>2, <1>10 DEF DeleteStale, Looks, Drops, LockIs
<1> QED BY <1>3, <1>4, <1>5, <1>6, <1>7, <1>8, <1>9, <1>10 DEF Loop

LEMMA StepKinds ==
    ASSUME Typed, [Next]_vars
    PROVE  Kinds
<1>1. /\ pass \in [Runners -> PassType] /\ rows \in [Tasks -> RowType]
      /\ lock.task \in 0..MaxTasks /\ lock.by \in Holders
  BY DEF Typed, LockType
<1>2. ASSUME NEW t \in Tasks, Create(t) PROVE Adds(t)
  BY <1>1, <1>2, CreateOpens DEF Adds, Create
<1>3. ASSUME NEW t \in Tasks, Heartbeat(t) PROVE Beats(t) \/ Leaves(t)
  BY <1>3 DEF Heartbeat, Beats, Leaves, Leased
<1>4. ASSUME NEW t \in Tasks, Handler(t) PROVE Leaves(t) \/ Ends(t) \/ Releases(t)
  <2>1. CASE StateRefused(t)
    BY <2>1 DEF StateRefused, Leaves
  <2>2. ASSUME NEW s \in Done, Finish(t, s) PROVE Leaves(t) \/ Ends(t)
    BY <1>1, <2>2, CloseRow DEF Finish, Leaves, Ends
  <2>3. CASE Release(t)
    BY <2>3 DEF Release, Releases, Leaves, Released
  <2> QED BY <1>4, <2>1, <2>2, <2>3 DEF Handler
<1>5. ASSUME NEW r \in Runners, FindStale(r) PROVE Looks(r)
  <2>1. lock.task \in Tasks
    BY <1>1, <1>5, SystemTaskAssumption DEF FindStale, Stale, Tasks
  <2>2. Others(r) /\ pass'[r].pc = "expire" /\ pass'[r].task = lock.task
    BY <1>1, <1>5, StartsPass DEF FindStale, Steps
  <2> QED BY <1>5, <2>1, <2>2 DEF FindStale, Looks
<1>6. ASSUME NEW r \in Runners, NEW t \in Tasks, FindPending(r, t) PROVE Looks(r)
  BY <1>1, <1>6, StartsClaim, ZenonT(60) DEF FindPending, Looks
<1>7. ASSUME NEW r \in Runners, Crash(r) PROVE Dies(r)
  <2>1. Idles(r)
    BY <1>1, <1>7, ReturnIdles DEF Crash, Return
  <2> QED BY <1>7, <2>1 DEF Crash, Dies, Typed
<1>8. CASE UNCHANGED vars
  BY <1>8 DEF Kinds, vars
<1> QED BY <1>2, <1>3, <1>4, <1>5, <1>6, <1>7, <1>8, LoopKinds DEF Next, Kinds
-----------------------------------------------------------------------------
(* Time *)

LEMMA TickFields ==
    ASSUME Typed, Tick
    PROVE  /\ rows' = rows /\ hand' = hand
           /\ pass' \in [Runners -> PassType] /\ lock' \in LockType
           /\ \A r \in Runners : pass'[r].pc = pass[r].pc /\ pass'[r].task = pass[r].task
           /\ \A r \in Runners : pass'[r].now = IF pass[r].pc = "idle" THEN pass[r].now ELSE pass[r].now - 1
           /\ lock'.task = lock.task /\ lock'.by = lock.by
           /\ lock'.left = IF lock.task = 0 \/ lock.left < -MaxStall THEN lock.left ELSE lock.left - 1
<1>1. lock \in LockType /\ pass \in [Runners -> PassType] /\ lock.left \in Int
  BY DEF Typed, LockType
<1> DEFINE left == IF lock.task = 0 \/ lock.left < -MaxStall THEN lock.left ELSE lock.left - 1
<1>2. lock' = [lock EXCEPT !.left = left]
  BY DEF Tick
<1>3. left \in Int
  BY <1>1
<1> HIDE DEF left
<1>4. lock' \in LockType /\ lock'.task = lock.task /\ lock'.by = lock.by /\ lock'.left = left
  BY <1>1, <1>2, <1>3 DEF LockType
<1>5. ASSUME NEW r \in Runners
      PROVE  /\ pass'[r] \in PassType
             /\ pass'[r].pc = pass[r].pc /\ pass'[r].task = pass[r].task
             /\ pass'[r].now = IF pass[r].pc = "idle" THEN pass[r].now ELSE pass[r].now - 1
  <2>1. pass[r].now > -MaxStall /\ pass[r] \in PassType
    BY <1>1 DEF Tick
  <2>2. pass[r].now - 1 \in (-MaxStall)..0
    BY <1>1, <2>1, PassFields, SystemTaskAssumption
  <2>3. pass'[r] = IF pass[r].pc = "idle" THEN pass[r] ELSE [pass[r] EXCEPT !.now = pass[r].now - 1]
    BY DEF Tick
  <2> QED BY <2>1, <2>2, <2>3 DEF PassType
<1>6. pass' \in [Runners -> PassType]
  <2>1. pass' = [r \in Runners |-> pass'[r]]
    BY DEF Tick
  <2> QED BY <1>5, <2>1
<1> QED BY <1>4, <1>5, <1>6 DEF Tick, left

LEMMA LockFields ==
    ASSUME Typed
    PROVE  /\ lock.task \in 0..MaxTasks /\ lock.left \in Int
           /\ NoLock \in LockType /\ NoLock.task = 0
           /\ [lock EXCEPT !.left = Lease] \in LockType
           /\ [lock EXCEPT !.left = Lease].task = lock.task
           /\ [lock EXCEPT !.left = Lease].by = lock.by
           /\ [lock EXCEPT !.left = Lease].left = Lease
BY SystemTaskAssumption DEF Typed, LockType, NoLock, Holders

LEMMA MineFields ==
    ASSUME Typed, NEW r \in Runners
    PROVE  /\ Mine(r) \in LockType
           /\ Mine(r).task = pass[r].task /\ Mine(r).by = r /\ Mine(r).left = pass[r].now + Lease
<1>1. pass[r].task \in 0..MaxTasks /\ pass[r].now \in Int /\ r \in Holders
  BY PassFields DEF Typed, Holders
<1> QED BY <1>1, SystemTaskAssumption DEF Mine, LockType

-----------------------------------------------------------------------------
(* Types *)

LEMMA TypedInit == Init => Typed
<1> SUFFICES ASSUME Init PROVE Typed
  OBVIOUS
<1>1. rows \in [Tasks -> RowType]
  BY DEF Init, RowType, Active, Holders
<1>2. lock \in LockType
  BY SystemTaskAssumption DEF Init, LockType, NoLock, Holders
<1>3. pass \in [Runners -> PassType] /\ \A r \in Runners : pass[r].pc = "idle"
  BY IdleType DEF Init
<1>4. hand \in [Tasks -> {"none", "running", "cancelled", "release"}]
  BY DEF Init
<1> QED BY <1>1, <1>2, <1>3, <1>4 DEF Typed

LEMMA TypedStep == Typed /\ [Next]_vars => Typed'
<1> SUFFICES ASSUME Typed, [Next]_vars PROVE Typed'
  OBVIOUS
<1> USE DEF Typed
<1>1. Kinds
  BY StepKinds
<1>2. ASSUME NEW r \in Runners, Others(r), pass'[r].pc # "idle" => pass'[r].task \in Tasks
      PROVE  /\ pass' \in [Runners -> PassType]
             /\ \A q \in Runners : pass'[q].pc # "idle" => pass'[q].task \in Tasks
  BY <1>2 DEF Others
<1>3. ASSUME NEW r \in Runners, Looks(r) PROVE Typed'
  <2>1. Others(r) /\ (pass'[r].pc # "idle" => pass'[r].task \in Tasks)
    BY <1>3 DEF Looks, Idles, Moves
  <2> QED BY <1>2, <1>3, <2>1 DEF Looks
<1>4. ASSUME NEW r \in Runners, Locks(r) PROVE Typed'
  <2>1. Others(r) /\ (pass'[r].pc # "idle" => pass'[r].task \in Tasks)
    BY <1>4 DEF Locks, Moves
  <2> QED BY <1>2, <1>4, <2>1, MineFields DEF Locks
<1>5. ASSUME NEW r \in Runners, Drops(r) PROVE Typed'
  BY <1>2, <1>5, LockFields DEF Drops, Idles
<1>6. ASSUME NEW r \in Runners, Marks(r) PROVE Typed'
  <2>1. Others(r) /\ (pass'[r].pc # "idle" => pass'[r].task \in Tasks)
    BY <1>6 DEF Marks, Moves
  <2> QED BY <1>2, <1>6, <2>1 DEF Marks, Closes, RowsSame
<1>7. ASSUME NEW r \in Runners, Starts(r) PROVE Typed'
  BY <1>2, <1>7 DEF Starts, Idles, Takes, RowsSame
<1>8. ASSUME NEW r \in Runners, Dies(r) PROVE Typed'
  BY <1>2, <1>8 DEF Dies, Idles
<1>9. ASSUME NEW t \in Tasks, Releases(t) \/ Leaves(t) PROVE Typed'
  BY <1>9, LockFields DEF Releases, Leaves
<1>10. ASSUME NEW t \in Tasks, Ends(t) PROVE Typed'
  BY <1>10 DEF Ends, Closes, RowsSame
<1>11. ASSUME NEW t \in Tasks, Adds(t) \/ Beats(t) PROVE Typed'
  BY <1>11, LockFields DEF Adds, Opens, RowsSame, Beats
<1>12. CASE Tick
  BY <1>12, TickFields
<1>13. CASE UNCHANGED <<rows, lock, pass, hand>>
  BY <1>13
<1> QED BY <1>1, <1>3, <1>4, <1>5, <1>6, <1>7, <1>8, <1>9, <1>10, <1>11, <1>12, <1>13 DEF Kinds

-----------------------------------------------------------------------------
(* Closed rows, whatever the clocks do *)

(* Every step leaves the rows alone or adds, takes or closes one of them. *)
RowKinds ==
    \/ rows' = rows
    \/ \E t \in Tasks : Opens(t) \/ Closes(t) \/ \E r \in Runners : Takes(t, r)

LEMMA StepRows ==
    ASSUME Typed, [Next]_vars
    PROVE  RowKinds
<1>1. Kinds
  BY StepKinds
<1>2. ASSUME NEW r \in Runners, Looks(r) \/ Locks(r) \/ Drops(r) \/ Marks(r) \/ Starts(r) \/ Dies(r)
      PROVE  RowKinds
  BY <1>2 DEF Looks, Locks, Drops, Marks, Starts, Dies, Takes, RowKinds
<1>3. ASSUME NEW t \in Tasks, Releases(t) \/ Ends(t) \/ Adds(t) \/ Beats(t) \/ Leaves(t)
      PROVE  RowKinds
  BY <1>3 DEF Releases, Ends, Adds, Beats, Leaves, RowKinds
<1>4. CASE Tick
  BY <1>4 DEF Tick, RowKinds
<1>5. CASE UNCHANGED <<rows, lock, pass, hand>>
  BY <1>5 DEF RowKinds
<1> QED BY <1>1, <1>2, <1>3, <1>4, <1>5 DEF Kinds

(* A row that succeeded or failed is never written again: not by a claim that read it
   while it was pending, not by a takeover or a sweep of its old lease, not by a handler
   that lost the lease (ClaimSystemTask, MarkSystemTaskLeaseExpired, FinishSystemTask).
   Nothing is assumed of clocks, leases or heartbeats. *)
THEOREM ClosedIsFinal == Spec => ClosedForGood
<1>1. Typed /\ [Next]_vars => \A t \in Tasks : rows[t].status \in Done => rows'[t] = rows[t]
  <2> SUFFICES ASSUME Typed, [Next]_vars, NEW t \in Tasks, rows[t].status \in Done
               PROVE  rows'[t] = rows[t]
    OBVIOUS
  <2> QED BY StepRows DEF RowKinds, Opens, Closes, Takes, RowsSame, Done
<1>2. Typed /\ [Next]_vars => [\A t \in Tasks : rows[t].status \in Done => rows'[t] = rows[t]]_vars
  BY <1>1
<1> QED BY <1>2, TypedInit, TypedStep, PTL DEF Spec, ClosedForGood
-----------------------------------------------------------------------------
(* The order of the rows and of the claims *)

Claiming == {"lock", "read", "steal", "mark", "row", "undo"}

Ordered == Typed /\ Queue /\ Claims /\ Handlers

LEMMA OrderedInit == Init => Ordered
<1> SUFFICES ASSUME Init PROVE Ordered
  OBVIOUS
<1>1. \A t \in Tasks : /\ rows[t].status = IF t <= LegacyRows THEN "pending" ELSE "none"
                       /\ rows[t].key = FALSE /\ rows[t].by = NoRunner
  BY DEF Init
<1>2. Queue
  BY <1>1, SystemTaskAssumption DEF Queue, Begun, Done, Tasks
<1>3. Claims
  BY IdleType DEF Init, Claims
<1>4. Handlers
  BY DEF Init, Handlers
<1> QED BY <1>2, <1>3, <1>4, TypedInit DEF Ordered

LEMMA QueueStep ==
    ASSUME Ordered, [Next]_vars
    PROVE  Queue'
<1> USE DEF Begun
<1>1. Typed /\ Queue /\ Claims /\ RowKinds
  BY StepRows DEF Ordered
<1>2. CASE rows' = rows
  BY <1>1, <1>2 DEF Queue
<1>3. ASSUME NEW t \in Tasks, Opens(t) PROVE Queue'
  <2>1. \A u \in Tasks : u < t => rows[u].status \notin {"none", "pending"}
    <3> SUFFICES ASSUME NEW u \in Tasks, u < t PROVE rows[u].status \notin {"none", "pending"}
      OBVIOUS
    <3>1. t > 1 /\ t - 1 \in Tasks /\ (u < t - 1 \/ u = t - 1)
      BY SystemTaskAssumption DEF Tasks
    <3> QED BY <1>1, <1>3, <3>1 DEF Opens, Queue, Done
  <2>2. \A u \in Tasks : u > t => rows[u].status = "none"
    BY <1>1, <1>3 DEF Opens, Queue
  <2>3. \A u \in Tasks : u # t => u < t \/ u > t
    BY SystemTaskAssumption DEF Tasks
  <2> QED BY <1>1, <1>3, <2>1, <2>2, <2>3 DEF Queue, Opens, RowsSame, Active, Done
<1>4. ASSUME NEW t \in Tasks, Closes(t) PROVE Queue'
  BY <1>1, <1>4 DEF Queue, Closes, RowsSame, Done
<1>5. ASSUME NEW t \in Tasks, NEW r \in Runners, Takes(t, r) PROVE Queue'
  <2>1. \A u \in Tasks : u < t => rows[u].status # "pending"
    BY <1>1, <1>5 DEF Takes, Claims
  <2> QED BY <1>1, <1>5, <2>1 DEF Queue, Takes, RowsSame, Active, Done
<1> QED BY <1>1, <1>2, <1>3, <1>4, <1>5 DEF RowKinds

(* What a claim relies on survives every change of the rows by others. *)
LEMMA ClaimKept ==
    ASSUME Ordered, RowKinds, NEW q \in Runners, NEW t \in Tasks,
           rows[t].status # "none", rows[t].by # q,
           \A u \in Tasks : u < t => rows[u].status # "pending",
           ~ Takes(t, q)
    PROVE  /\ rows'[t].status # "none" /\ rows'[t].by # q
           /\ \A u \in Tasks : u < t => rows'[u].status # "pending"
<1>1. CASE rows' = rows
  BY <1>1
<1>2. ASSUME NEW v \in Tasks, Opens(v)
      PROVE  /\ rows'[t].status # "none" /\ rows'[t].by # q
             /\ \A u \in Tasks : u < t => rows'[u].status # "pending"
  <2>1. v # t /\ ~ v < t
    BY <1>2 DEF Ordered, Queue, Opens
  <2> QED BY <1>2, <2>1 DEF Opens, RowsSame
<1>3. ASSUME NEW v \in Tasks, Closes(v)
      PROVE  /\ rows'[t].status # "none" /\ rows'[t].by # q
             /\ \A u \in Tasks : u < t => rows'[u].status # "pending"
  BY <1>3 DEF Closes, RowsSame, Done
<1>4. ASSUME NEW v \in Tasks, NEW r \in Runners, Takes(v, r)
      PROVE  /\ rows'[t].status # "none" /\ rows'[t].by # q
             /\ \A u \in Tasks : u < t => rows'[u].status # "pending"
  BY <1>4 DEF Takes, RowsSame
<1> QED BY <1>1, <1>2, <1>3, <1>4 DEF RowKinds

(* A runner that is in a claim after a step was in the same claim before, and has not
   taken its row, or has just found it. *)
LEMMA ClaimBefore ==
    ASSUME Ordered, [Next]_vars, NEW q \in Runners, pass'[q].pc \in Claiming
    PROVE  LET t == pass'[q].task IN
           /\ t \in Tasks /\ rows[t].status # "none" /\ rows[t].by # q
           /\ \A u \in Tasks : u < t => rows[u].status # "pending"
           /\ ~ Takes(t, q)
<1>1. Typed /\ Queue /\ Claims /\ Kinds
  BY StepKinds DEF Ordered
<1> DEFINE P(t) == /\ t \in Tasks /\ rows[t].status # "none" /\ rows[t].by # q
                   /\ \A u \in Tasks : u < t => rows[u].status # "pending"
<1>2. pass[q].pc \in Claiming => P(pass[q].task)
  BY <1>1 DEF Claims, Claiming, Typed
<1>3. ASSUME pass[q].pc \in Claiming, pass'[q].task = pass[q].task PROVE P(pass'[q].task)
  BY <1>2, <1>3
<1>4. \A t \in Tasks : rows' = rows => ~ Takes(t, q)
  BY DEF Takes
<1>5. NoRunner # q
  BY SystemTaskAssumption
<1> HIDE DEF P
<1>6. ASSUME NEW r \in Runners, Looks(r) PROVE P(pass'[q].task) /\ rows' = rows
  <2>1. CASE r # q
    BY <1>3, <1>6, <2>1 DEF Looks, Others
  <2>2. CASE r = q /\ pass[q].pc \in Claiming /\ pass'[q].task = pass[q].task
    BY <1>3, <1>6, <2>2 DEF Looks
  <2>3. CASE /\ r = q /\ pass'[r].pc = "lock" /\ pass'[r].task \in Tasks
             /\ rows[pass'[r].task].status = "pending"
             /\ \A u \in Tasks : u < pass'[r].task => rows[u].status # "pending"
    BY <1>1, <1>5, <1>6, <2>3 DEF Looks, P, Queue
  <2> QED BY <1>6, <2>1, <2>2, <2>3 DEF Looks, Claiming, Idles, Moves
<1>7. ASSUME NEW r \in Runners, Locks(r) PROVE P(pass'[q].task) /\ rows' = rows
  <2>1. pass[q].pc \in Claiming /\ pass'[q].task = pass[q].task
    BY <1>7 DEF Locks, Moves, Others, Claiming
  <2> QED BY <1>3, <1>7, <2>1 DEF Locks
<1>8. ASSUME NEW r \in Runners, Drops(r) \/ Dies(r) PROVE P(pass'[q].task) /\ rows' = rows
  <2>1. pass[q].pc \in Claiming /\ pass'[q].task = pass[q].task
    BY <1>8 DEF Drops, Dies, Idles, Others, Claiming
  <2> QED BY <1>3, <1>8, <2>1 DEF Drops, Dies
<1>9. ASSUME NEW r \in Runners, Marks(r)
      PROVE  P(pass'[q].task) /\ \A t \in Tasks : ~ Takes(t, q)
  <2>1. pass[q].pc \in Claiming /\ pass'[q].task = pass[q].task
    BY <1>9 DEF Marks, Moves, Others, Claiming
  <2>2. \A t \in Tasks : ~ Takes(t, q)
    BY <1>9 DEF Marks, Closes, Takes, RowsSame, Done
  <2> QED BY <1>3, <2>1, <2>2
<1>10. ASSUME NEW r \in Runners, Starts(r)
      PROVE  P(pass'[q].task) /\ \A t \in Tasks : ~ Takes(t, q)
  <2>1. r # q
    BY <1>10 DEF Starts, Idles, Claiming
  <2>2. pass[q].pc \in Claiming /\ pass'[q].task = pass[q].task
    BY <1>10, <2>1 DEF Starts, Idles, Others
  <2>3. \A t \in Tasks : ~ Takes(t, q)
    BY <1>10, <2>1 DEF Starts, Takes, RowsSame
  <2> QED BY <1>3, <2>2, <2>3
<1>11. ASSUME NEW v \in Tasks, Releases(v) \/ Ends(v) \/ Adds(v) \/ Beats(v) \/ Leaves(v)
      PROVE  P(pass'[q].task) /\ \A t \in Tasks : ~ Takes(t, q)
  <2>1. pass' = pass
    BY <1>11 DEF Releases, Ends, Adds, Beats, Leaves
  <2>2. \A t \in Tasks : ~ Takes(t, q)
    BY <1>4, <1>11 DEF Releases, Ends, Adds, Beats, Leaves, Opens, Closes, Takes, RowsSame, Done
  <2> QED BY <1>3, <2>1, <2>2
<1>12. CASE Tick
  BY <1>1, <1>3, <1>4, <1>12, TickFields DEF P
<1>13. CASE UNCHANGED <<rows, lock, pass, hand>>
  BY <1>3, <1>4, <1>13 DEF P
<1> QED BY <1>1, <1>4, <1>6, <1>7, <1>8, <1>9, <1>10, <1>11, <1>12, <1>13 DEF Kinds, P

LEMMA ClaimsStep ==
    ASSUME Ordered, [Next]_vars
    PROVE  Claims'
<1> SUFFICES ASSUME NEW q \in Runners, pass'[q].pc \in Claiming
             PROVE  LET t == pass'[q].task IN
                    /\ rows'[t].status # "none" /\ rows'[t].by # q
                    /\ \A u \in Tasks : u < t => rows'[u].status # "pending"
  BY DEF Claims, Claiming
<1> QED BY ClaimBefore, ClaimKept, StepRows DEF Ordered

LEMMA HandlersStep ==
    ASSUME Ordered, [Next]_vars
    PROVE  Handlers'
<1> USE DEF Begun
<1>1. Typed /\ Handlers /\ Kinds /\ RowKinds
  BY StepKinds, StepRows DEF Ordered
<1>2. \A t \in Tasks : /\ rows[t].status \in {"running"} \cup Done => rows'[t].status \in {"running"} \cup Done
                       /\ rows[t].status \in Done => rows'[t].status \in Done
  BY <1>1 DEF RowKinds, Opens, Closes, Takes, RowsSame, Done
<1>3. ASSUME \A t \in Tasks : hand'[t] # "none" => hand[t] # "none",
             \A t \in Tasks : hand'[t] = "release" => hand[t] = "release"
      PROVE  Handlers'
  BY <1>1, <1>2, <1>3 DEF Handlers
<1>4. ASSUME NEW r \in Runners, Looks(r) \/ Locks(r) \/ Drops(r) \/ Marks(r) PROVE Handlers'
  BY <1>3, <1>4 DEF Looks, Locks, Drops, Marks
<1>5. ASSUME NEW r \in Runners, Starts(r) PROVE Handlers'
  <2>1. CASE hand' = hand
    BY <1>3, <2>1
  <2>2. CASE hand' = [hand EXCEPT ![pass[r].task] = "running"]
    BY <1>1, <1>2, <1>5, <2>2 DEF Starts, Takes, Handlers, Typed
  <2> QED BY <1>5, <2>1, <2>2 DEF Starts
<1>6. ASSUME NEW r \in Runners, Dies(r) PROVE Handlers'
  BY <1>3, <1>6 DEF Dies
<1>7. ASSUME NEW t \in Tasks, Releases(t) \/ Leaves(t) PROVE Handlers'
  BY <1>1, <1>3, <1>7 DEF Releases, Leaves, Typed
<1>8. ASSUME NEW t \in Tasks, Ends(t) PROVE Handlers'
  BY <1>1, <1>2, <1>8 DEF Ends, Closes, Handlers, Typed
<1>9. ASSUME NEW t \in Tasks, Adds(t) \/ Beats(t) PROVE Handlers'
  BY <1>3, <1>9 DEF Adds, Beats
<1>10. CASE Tick \/ UNCHANGED <<rows, lock, pass, hand>>
  BY <1>3, <1>10 DEF Tick
<1> QED BY <1>1, <1>4, <1>5, <1>6, <1>7, <1>8, <1>9, <1>10 DEF Kinds

LEMMA OrderedStep == Ordered /\ [Next]_vars => Ordered'
BY TypedStep, QueueStep, ClaimsStep, HandlersStep DEF Ordered
-----------------------------------------------------------------------------
(* The lock, when claims and sweeps are brisk *)

Locked == Held /\ Own /\ Fresh /\ RunningHasLock

LEMMA LockedInit == Init => Locked
<1> SUFFICES ASSUME Init PROVE Locked
  OBVIOUS
<1>1. \A t \in Tasks : rows[t].status # "running"
  BY DEF Init
<1>2. \A r \in Runners : pass[r].pc = "idle"
  BY IdleType DEF Init
<1> QED BY <1>1, <1>2 DEF Locked, Held, Own, Fresh, RunningHasLock, Busy

(* While a claim holds the lock, its lease is over for nobody. *)
LEMMA HeldLease ==
    ASSUME Brisk, Typed, Held, NEW r \in Runners, pass[r].pc \in {"mark", "row"}
    PROVE  /\ lock.task = pass[r].task /\ lock.by = r /\ lock.task \in Tasks /\ lock.task # 0
           /\ lock.left = pass[r].now + Lease /\ lock.left >= 0
           /\ \A q \in Runners : ~ Stale(q)
<1>1. lock.task = pass[r].task /\ lock.by = r /\ lock.left = pass[r].now + Lease
  BY DEF Held, LockIs
<1>2. pass[r].task \in Tasks
  BY DEF Typed
<1>3. lock.task \in Tasks /\ lock.task # 0
  BY <1>1, <1>2 DEF Tasks
<1>4. lock.left >= 0
  BY <1>1, PassFields, SystemTaskAssumption DEF Typed, Brisk
<1>5. \A q \in Runners : ~ Stale(q)
  <2> SUFFICES ASSUME NEW q \in Runners PROVE ~ Stale(q)
    OBVIOUS
  <2>1. pass[q].now \in Int /\ pass[q].now <= 0 /\ lock.left \in Int
    BY PassFields, LockFields DEF Typed
  <2> QED BY <1>4, <2>1 DEF Stale
<1> QED BY <1>1, <1>3, <1>4, <1>5

(* The lock is taken only when no row runs under it. *)
LEMMA NobodyBusy ==
    ASSUME Ordered, Locked, NEW r \in Runners, pass[r].pc \in {"lock", "steal"},
           lock.task = 0 \/ Stale(r)
    PROVE  \A t \in Tasks : ~ Busy(t)
<1> SUFFICES ASSUME NEW t \in Tasks, Busy(t) PROVE FALSE
  OBVIOUS
<1>1. lock.task = t /\ t # 0
  BY DEF Locked, RunningHasLock, Busy, Tasks
<1>2. lock.left >= pass[r].now
  BY DEF Locked, Fresh
<1>3. lock.left \in Int /\ pass[r].now \in Int
  BY LockFields, PassFields DEF Ordered, Typed
<1> QED BY <1>1, <1>2, <1>3 DEF Stale

LEMMA LockedLooks ==
    ASSUME Ordered, Locked, NEW r \in Runners, Looks(r)
    PROVE  Locked'
<1>1. rows' = rows /\ lock' = lock /\ \A q \in Runners : q # r => pass'[q] = pass[q]
  BY DEF Looks, Others
<1>2. Held'
  BY <1>1 DEF Looks, Idles, Moves, Locked, Held, LockIs
<1>3. Own'
  BY <1>1 DEF Looks, Idles, Moves, Locked, Own, LockIs, Busy
<1>4. Fresh'
  <2> SUFFICES ASSUME NEW t \in Tasks, Busy(t), NEW q \in Runners,
                      pass'[q].pc \in {"lock", "read", "steal"} \/ (pass'[q].pc = "delete" /\ pass'[q].task = t)
               PROVE  lock.left >= pass'[q].now
    BY <1>1 DEF Fresh, Busy
  <2>1. \A u \in Tasks : rows[u].status # "pending"
    BY DEF Ordered, Queue, Busy
  <2>2. CASE q # r
    BY <1>1, <2>2 DEF Locked, Fresh
  <2>3. CASE q = r
    BY <2>1, <2>3 DEF Looks, Idles, Moves, Locked, Fresh
  <2> QED BY <2>2, <2>3
<1>5. RunningHasLock'
  BY <1>1 DEF Locked, RunningHasLock
<1> QED BY <1>2, <1>3, <1>4, <1>5 DEF Locked

LEMMA LockedLocks ==
    ASSUME Brisk, Ordered, Locked, NEW r \in Runners, Locks(r)
    PROVE  Locked'
<1>1. rows' = rows /\ lock' = Mine(r) /\ \A q \in Runners : q # r => pass'[q] = pass[q]
  BY DEF Locks, Moves, Others
<1>2. \A t \in Tasks : ~ Busy(t)'
  BY <1>1, NobodyBusy DEF Locks, Busy
<1>3. Held'
  <2> SUFFICES ASSUME NEW q \in Runners, pass'[q].pc \in {"mark", "row"}
               PROVE  lock'.task = pass'[q].task /\ lock'.by = q /\ lock'.left = pass'[q].now + Lease
    BY DEF Held, LockIs
  <2>1. CASE q = r
    BY <1>1, <2>1, MineFields DEF Locks, Moves, Ordered
  <2>2. CASE q # r
    BY <1>1, <2>2, HeldLease DEF Locks, Ordered, Locked
  <2> QED BY <2>1, <2>2
<1>4. \A q \in Runners : pass'[q].pc # "idle" => pass'[q].task \in Tasks
  BY DEF Locks, Moves, Others, Ordered, Typed
<1>5. Own' /\ Fresh' /\ RunningHasLock'
  BY <1>2, <1>4 DEF Own, Fresh, RunningHasLock, Busy
<1> QED BY <1>3, <1>5 DEF Locked

(* Without a lock and without a row that runs under one, nothing is left to show. *)
LEMMA LockedGone ==
    ASSUME Ordered, lock' = NoLock, rows' = rows, \A t \in Tasks : ~ Busy(t),
           \A r \in Runners : pass'[r].pc \notin {"mark", "row"},
           \A r \in Runners : pass'[r].pc # "idle" => pass'[r].task \in Tasks
    PROVE  Locked'
<1>1. \A t \in Tasks : ~ Busy(t)'
  BY DEF Busy
<1>2. Held'
  BY DEF Held
<1>3. Own' /\ Fresh' /\ RunningHasLock'
  BY <1>1 DEF Own, Fresh, RunningHasLock, Busy
<1> QED BY <1>2, <1>3 DEF Locked

LEMMA LockedDrops ==
    ASSUME Brisk, Ordered, Locked, NEW r \in Runners, Drops(r)
    PROVE  Locked'
<1>1. lock' = NoLock /\ rows' = rows /\ pass'[r].pc = "idle" /\ \A q \in Runners : q # r => pass'[q] = pass[q]
  BY DEF Drops, Idles, Others
<1>2. ASSUME NEW t \in Tasks, Busy(t) PROVE FALSE
  <2>1. lock.task = t
    BY <1>2 DEF Locked, RunningHasLock, Busy
  <2>2. CASE pass[r].pc = "undo" /\ LockIs(pass[r].task, r)
    BY <1>2, <2>1, <2>2 DEF Locked, Own, LockIs
  <2>3. CASE pass[r].pc = "delete" /\ lock.task = pass[r].task /\ Stale(r)
    <3>1. lock.left >= pass[r].now
      BY <1>2, <2>1, <2>3 DEF Locked, Fresh
    <3>2. lock.left \in Int /\ pass[r].now \in Int
      BY LockFields, PassFields DEF Ordered, Typed
    <3> QED BY <2>3, <3>1, <3>2 DEF Stale
  <2> QED BY <2>2, <2>3 DEF Drops
<1>3. ASSUME NEW q \in Runners PROVE pass'[q].pc \notin {"mark", "row"}
  <2> SUFFICES ASSUME q # r, pass[q].pc \in {"mark", "row"} PROVE FALSE
    BY <1>1
  <2>1. lock.by = q /\ ~ Stale(r)
    BY HeldLease DEF Ordered, Locked
  <2> QED BY <2>1 DEF Drops, LockIs
<1>4. \A q \in Runners : pass'[q].pc # "idle" => pass'[q].task \in Tasks
  BY <1>1 DEF Ordered, Typed
<1> QED BY <1>1, <1>2, <1>3, <1>4, LockedGone

LEMMA LockedReleases ==
    ASSUME Brisk, Ordered, Locked, NEW t \in Tasks, Releases(t)
    PROVE  Locked'
<1>1. lock' = NoLock /\ rows' = rows /\ pass' = pass
  BY DEF Releases
<1>2. ASSUME NEW u \in Tasks, Busy(u) PROVE FALSE
  <2>1. lock.task = u /\ lock.task = t
    BY <1>2 DEF Releases, LockIs, Locked, RunningHasLock, Busy
  <2>2. rows[t].status \in Done
    BY DEF Releases, Ordered, Handlers
  <2> QED BY <1>2, <2>1, <2>2 DEF Busy, Done
<1>3. ASSUME NEW q \in Runners PROVE pass'[q].pc \notin {"mark", "row"}
  <2> SUFFICES ASSUME pass[q].pc \in {"mark", "row"} PROVE FALSE
    BY <1>1
  <2>1. lock.by = q /\ lock.task = pass[q].task
    BY HeldLease DEF Ordered, Locked
  <2>2. rows[t].by # q
    BY <2>1 DEF Releases, LockIs, Ordered, Claims
  <2> QED BY <2>1, <2>2 DEF Releases, LockIs
<1>4. \A q \in Runners : pass'[q].pc # "idle" => pass'[q].task \in Tasks
  BY <1>1 DEF Ordered, Typed
<1> QED BY <1>1, <1>2, <1>3, <1>4, LockedGone

LEMMA LockedMarks ==
    ASSUME Ordered, Locked, NEW r \in Runners, Marks(r)
    PROVE  Locked'
<1>1. lock' = lock /\ \A q \in Runners : q # r => pass'[q] = pass[q]
  BY DEF Marks, Moves, Others
<1>2. \A t \in Tasks : Busy(t)' => Busy(t)
  BY DEF Marks, Closes, RowsSame, Busy, Done
<1>3. Held'
  BY <1>1 DEF Marks, Moves, Locked, Held, LockIs
<1>4. Own'
  <2> SUFFICES ASSUME NEW q \in Runners, pass'[q].pc \in {"mark", "row", "undo"}, LockIs(pass'[q].task, q)
               PROVE  ~ (rows'[pass'[q].task].status = "running" /\ rows'[pass'[q].task].key)
    BY <1>1 DEF Own, LockIs, Busy
  <2>1. pass[q].pc \in {"mark", "row", "undo"} /\ pass'[q].task = pass[q].task
    BY <1>1 DEF Marks, Moves
  <2>2. pass[q].task \in Tasks /\ ~ Busy(pass[q].task)
    BY <1>1, <2>1 DEF Ordered, Typed, Locked, Own
  <2> QED BY <1>2, <2>1, <2>2 DEF Busy
<1>5. Fresh'
  <2> SUFFICES ASSUME NEW t \in Tasks, Busy(t)', NEW q \in Runners,
                      pass'[q].pc \in {"lock", "read", "steal"} \/ (pass'[q].pc = "delete" /\ pass'[q].task = t)
               PROVE  lock.left >= pass'[q].now
    BY <1>1 DEF Fresh, Busy
  <2>1. CASE q # r
    BY <1>1, <1>2, <2>1 DEF Locked, Fresh
  <2>2. CASE q = r
    BY <2>2 DEF Marks, Moves, Busy
  <2> QED BY <2>1, <2>2
<1>6. RunningHasLock'
  BY <1>1, <1>2 DEF Locked, RunningHasLock, Busy
<1> QED BY <1>3, <1>4, <1>5, <1>6 DEF Locked

LEMMA LockedStarts ==
    ASSUME Brisk, Ordered, Locked, NEW r \in Runners, Starts(r)
    PROVE  Locked'
<1> DEFINE t == pass[r].task
<1>1. /\ lock' = lock /\ pass'[r].pc = "idle" /\ pass' \in [Runners -> PassType]
      /\ \A q \in Runners : q # r => pass'[q] = pass[q]
      /\ t \in Tasks /\ pass[r].pc = "row" /\ \A u \in Tasks : u # t => rows'[u] = rows[u]
  BY DEF Starts, Idles, Others, Takes, RowsSame
<1>2. lock.task = t /\ lock.by = r /\ lock.left >= 0 /\ lock.left \in Int
  BY <1>1, HeldLease, LockFields DEF Ordered, Locked
<1>3. \A u \in Tasks : Busy(u)' => u = t
  BY <1>1, <1>2 DEF Locked, RunningHasLock, Busy
<1> HIDE DEF t
<1>4. Held'
  BY <1>1 DEF Locked, Held, LockIs
<1>5. Own'
  BY <1>1, <1>2 DEF Own, LockIs
<1>6. Fresh'
  <2> SUFFICES ASSUME NEW q \in Runners PROVE lock.left >= pass'[q].now
    BY <1>1 DEF Fresh
  <2>1. pass'[q].now \in Int /\ pass'[q].now <= 0
    <3>1. pass'[q] \in PassType
      BY <1>1
    <3> QED BY <3>1, SystemTaskAssumption DEF PassType
  <2> QED BY <1>2, <2>1
<1>7. RunningHasLock'
  BY <1>1, <1>2, <1>3 DEF RunningHasLock, Busy
<1> QED BY <1>4, <1>5, <1>6, <1>7 DEF Locked

LEMMA LockedRows ==
    ASSUME Brisk, Ordered, Locked, NEW t \in Tasks, Ends(t) \/ Adds(t) \/ Leaves(t)
    PROVE  Locked'
<1>1. lock' = lock /\ pass' = pass
  BY DEF Ends, Adds, Leaves
<1>2. \A u \in Tasks : Busy(u)' => Busy(u)
  BY DEF Ends, Adds, Leaves, Opens, Closes, RowsSame, Busy, Done
<1>3. Held'
  BY <1>1 DEF Locked, Held, LockIs
<1>4. Own'
  <2>1. \A q \in Runners : pass[q].pc # "idle" => pass[q].task \in Tasks
    BY DEF Ordered, Typed
  <2> QED BY <1>1, <1>2, <2>1 DEF Locked, Own, LockIs
<1>5. Fresh'
  BY <1>1, <1>2 DEF Locked, Fresh
<1>6. RunningHasLock'
  BY <1>1, <1>2 DEF Locked, RunningHasLock, Busy
<1> QED BY <1>3, <1>4, <1>5, <1>6 DEF Locked

LEMMA LockedBeats ==
    ASSUME Brisk, Ordered, Locked, NEW t \in Tasks, Beats(t)
    PROVE  Locked'
<1>1. /\ rows' = rows /\ pass' = pass
      /\ lock'.task = lock.task /\ lock'.by = lock.by /\ lock'.left = Lease
  BY LockFields DEF Beats, Ordered
<1>2. Held'
  <2> SUFFICES ASSUME NEW q \in Runners, pass[q].pc \in {"mark", "row"} PROVE FALSE
    BY <1>1 DEF Held
  <2>1. lock.by = q /\ lock.task = pass[q].task
    BY HeldLease DEF Ordered, Locked
  <2>2. rows[t].by # q
    BY <2>1 DEF Beats, LockIs, Ordered, Claims
  <2> QED BY <2>1, <2>2 DEF Beats, LockIs
<1>3. Own' /\ RunningHasLock'
  BY <1>1 DEF Locked, Own, LockIs, Busy, RunningHasLock
<1>4. Fresh'
  <2>1. \A q \in Runners : Lease >= pass[q].now
    BY PassFields, SystemTaskAssumption DEF Ordered, Typed
  <2> QED BY <1>1, <2>1 DEF Fresh
<1> QED BY <1>2, <1>3, <1>4 DEF Locked

LEMMA LockedDies ==
    ASSUME Brisk, Ordered, Locked, NEW r \in Runners, Dies(r)
    PROVE  Locked'
<1>1. rows' = rows /\ lock' = lock /\ pass'[r].pc = "idle" /\ \A q \in Runners : q # r => pass'[q] = pass[q]
  BY DEF Dies, Idles, Others
<1> QED BY <1>1 DEF Locked, Held, Own, Fresh, RunningHasLock, LockIs, Busy

LEMMA LockedTick ==
    ASSUME Brisk, Ordered, Locked, Tick
    PROVE  Locked'
<1>1. /\ rows' = rows /\ lock'.task = lock.task /\ lock'.by = lock.by
      /\ \A r \in Runners : pass'[r].pc = pass[r].pc /\ pass'[r].task = pass[r].task
  BY TickFields DEF Ordered
<1>2. /\ \A r \in Runners : pass[r].pc # "idle" => pass'[r].now = pass[r].now - 1
      /\ lock'.left = IF lock.task = 0 \/ lock.left < -MaxStall THEN lock.left ELSE lock.left - 1
      /\ lock.left \in Int /\ \A r \in Runners : pass[r].now \in Int
  BY TickFields, LockFields, PassFields DEF Ordered, Typed
<1>3. Held'
  <2> SUFFICES ASSUME NEW q \in Runners, pass[q].pc \in {"mark", "row"}
               PROVE  lock.task = pass[q].task /\ lock.by = q /\ lock'.left = pass'[q].now + Lease
    BY <1>1 DEF Held, LockIs
  <2>1. lock.task # 0 /\ lock.left >= 0 /\ lock.left = pass[q].now + Lease
        /\ lock.task = pass[q].task /\ lock.by = q
    BY HeldLease DEF Ordered, Locked
  <2> QED BY <1>2, <2>1, SystemTaskAssumption
<1>4. Own' /\ RunningHasLock'
  BY <1>1 DEF Locked, Own, LockIs, Busy, RunningHasLock
<1>5. Fresh'
  <2> SUFFICES ASSUME NEW t \in Tasks, Busy(t), NEW q \in Runners,
                      pass[q].pc \in {"lock", "read", "steal"} \/ (pass[q].pc = "delete" /\ pass[q].task = t)
               PROVE  lock'.left >= pass'[q].now
    BY <1>1 DEF Fresh, Busy
  <2>1. lock.left >= pass[q].now
    BY DEF Locked, Fresh
  <2> QED BY <1>2, <2>1, SystemTaskAssumption
<1> QED BY <1>3, <1>4, <1>5 DEF Locked

LEMMA LockedStep == Brisk /\ Ordered /\ Locked /\ [Next]_vars => Locked'
<1> SUFFICES ASSUME Brisk, Ordered, Locked, [Next]_vars PROVE Locked'
  OBVIOUS
<1>1. Kinds
  BY StepKinds DEF Ordered
<1>2. CASE UNCHANGED <<rows, lock, pass, hand>>
  BY <1>2 DEF Locked, Held, Own, Fresh, RunningHasLock, LockIs, Busy
<1> QED BY <1>1, <1>2, LockedLooks, LockedLocks, LockedDrops, LockedReleases, LockedMarks, LockedStarts,
           LockedRows, LockedBeats, LockedDies, LockedTick DEF Kinds

(* A running row with the active_key of its type is the one the lock names, whatever
   statement fails and whichever runner dies, so that the sweep of expired leases or the
   next claim finds the row: acquireSystemTaskLock, ClaimSystemTask,
   ExpireStaleSystemTaskLocks and FinishSystemTask never part the two.  A claim and a
   sweep must last no longer than a lease; heartbeats need not come in time. *)
THEOREM RunningRowIsLocked ==
    ASSUME Brisk
    PROVE  Spec => []RunningHasLock
<1>1. Init => Ordered /\ Locked
  BY OrderedInit, LockedInit
<1>2. Ordered /\ Locked /\ [Next]_vars => Ordered' /\ Locked'
  BY OrderedStep, LockedStep
<1>3. Locked => RunningHasLock
  BY DEF Locked
<1> QED BY <1>1, <1>2, <1>3, PTL DEF Spec

-----------------------------------------------------------------------------
(* The handlers, when heartbeats come in time *)

LEMMA BeatingInit == Init => Beating
BY DEF Init, Beating

(* The lease of a running handler is over for nobody. *)
LEMMA BeatingLease ==
    ASSUME Typed, Beating, NEW t \in Tasks, hand[t] = "running", NEW r \in Runners
    PROVE  ~ Stale(r)
<1>1. lock.left >= 0 /\ lock.left \in Int /\ pass[r].now \in Int /\ pass[r].now <= 0
  BY LockFields, PassFields DEF Beating, Typed
<1> QED BY <1>1 DEF Stale

LEMMA BeatingStep == Brisk /\ BeatsInTime /\ Ordered /\ Locked /\ Beating /\ [Next]_vars => Beating'
<1> SUFFICES ASSUME Brisk, BeatsInTime, Ordered, Locked, Beating, [Next]_vars PROVE Beating'
  OBVIOUS
<1>1. Kinds /\ Typed
  BY StepKinds DEF Ordered
<1>2. ASSUME lock' = lock,
             \A t \in Tasks : hand'[t] = "running" => hand[t] = "running" /\ rows'[t].by = rows[t].by
      PROVE  Beating'
  BY <1>2 DEF Beating, LockIs
<1>3. ASSUME \A t \in Tasks : hand'[t] # "running" PROVE Beating'
  BY <1>3 DEF Beating
<1>4. ASSUME NEW r \in Runners, Looks(r) \/ Dies(r) PROVE Beating'
  BY <1>2, <1>4 DEF Looks, Dies
<1>5. ASSUME NEW r \in Runners, Marks(r) PROVE Beating'
  BY <1>2, <1>5 DEF Marks, Closes, RowsSame
<1>6. ASSUME NEW r \in Runners, Locks(r) PROVE Beating'
  <2>1. \A t \in Tasks : hand[t] # "running"
    BY <1>1, <1>6, BeatingLease DEF Locks, Beating, LockIs, Tasks
  <2> QED BY <1>3, <1>6, <2>1 DEF Locks
<1>7. ASSUME NEW r \in Runners, Drops(r) PROVE Beating'
  <2> SUFFICES ASSUME NEW t \in Tasks, hand[t] = "running" PROVE FALSE
    BY <1>3, <1>7 DEF Drops
  <2>1. pass[r].pc = "undo" /\ lock.task = pass[r].task /\ lock.by = r
    BY <1>1, <1>7, BeatingLease DEF Drops, LockIs
  <2>2. lock.task = t /\ lock.by = rows[t].by
    BY DEF Beating, LockIs
  <2> QED BY <2>1, <2>2 DEF Ordered, Claims
<1>8. ASSUME NEW r \in Runners, Starts(r) PROVE Beating'
  <2> DEFINE t == pass[r].task
  <2>1. /\ lock' = lock /\ t \in Tasks /\ rows'[t].by = r /\ pass[r].pc = "row"
        /\ \A u \in Tasks : u # t => rows'[u] = rows[u]
    BY <1>8 DEF Starts, Takes, RowsSame
  <2>2. lock.task = t /\ lock.by = r /\ lock.left >= 0
    BY <1>1, <2>1, HeldLease DEF Locked
  <2>3. \A u \in Tasks : hand'[u] = "running" => u = t \/ hand[u] = "running"
    BY <1>1, <1>8 DEF Starts, Typed
  <2> HIDE DEF t
  <2> QED BY <2>1, <2>2, <2>3 DEF Beating, LockIs
<1>9. ASSUME NEW t \in Tasks, Releases(t) PROVE Beating'
  <2>1. \A u \in Tasks : hand[u] = "running" => u = t
    BY <1>9 DEF Releases, Beating, LockIs
  <2>2. \A u \in Tasks : hand'[u] # "running"
    BY <1>1, <1>9, <2>1 DEF Releases, Typed
  <2> QED BY <1>3, <2>2
<1>10. ASSUME NEW t \in Tasks, Ends(t) PROVE Beating'
  BY <1>1, <1>2, <1>10 DEF Ends, Closes, RowsSame, Typed
<1>11. ASSUME NEW t \in Tasks, Adds(t) PROVE Beating'
  <2>1. hand[t] # "running"
    BY <1>11 DEF Adds, Opens, Ordered, Handlers, Begun, Done
  <2> QED BY <1>2, <1>11, <2>1 DEF Adds, Opens, RowsSame
<1>12. ASSUME NEW t \in Tasks, Beats(t) PROVE Beating'
  BY <1>1, <1>12, LockFields, SystemTaskAssumption DEF Beats, Beating, LockIs
<1>13. ASSUME NEW t \in Tasks, Leaves(t) PROVE Beating'
  BY <1>1, <1>2, <1>13 DEF Leaves, Typed
<1>14. CASE Tick
  <2> SUFFICES ASSUME NEW t \in Tasks, hand[t] = "running"
               PROVE  lock'.task = t /\ lock'.by = rows[t].by /\ lock'.left >= 0
    BY <1>1, <1>14, TickFields DEF Beating, LockIs
  <2>1. lock.task = t /\ lock.by = rows[t].by /\ lock.left >= 0 /\ lock.left \in Int /\ t # 0
    BY <1>1, LockFields DEF Beating, LockIs, Tasks
  <2>2. lock.left # 0
    BY <1>14, <2>1 DEF Tick, BeatDue
  <2> QED BY <1>1, <1>14, <2>1, <2>2, TickFields
<1>15. CASE UNCHANGED <<rows, lock, pass, hand>>
  BY <1>2, <1>15
<1> QED BY <1>1, <1>4, <1>5, <1>6, <1>7, <1>8, <1>9, <1>10, <1>11, <1>12, <1>13, <1>14, <1>15 DEF Kinds

(* At most one handler of a type runs at any time, on however many master nodes: the
   insert, the takeover and the sweep of the lock let one claim through while the leases
   are renewed (ClaimSystemTask, RenewSystemTaskLock).  Claims and sweeps last no longer
   than a lease and heartbeats come in time. *)
THEOREM OneHandlerRuns ==
    ASSUME Brisk, BeatsInTime
    PROVE  Spec => []OneHandler
<1>1. Init => Ordered /\ Locked /\ Beating
  BY OrderedInit, LockedInit, BeatingInit
<1>2. Ordered /\ Locked /\ Beating /\ [Next]_vars => Ordered' /\ Locked' /\ Beating'
  BY OrderedStep, LockedStep, BeatingStep
<1>3. Beating => OneHandler
  BY DEF Beating, OneHandler, LockIs
<1> QED BY <1>1, <1>2, <1>3, PTL DEF Spec
=============================================================================
