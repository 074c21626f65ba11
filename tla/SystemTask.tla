----------------------------- MODULE SystemTask -----------------------------
(***************************************************************************)
(* Background tasks shared by several master nodes: model/system_task.go   *)
(* and service/system_task.go.  A task row is claimed under a lock row,    *)
(* one per task type, that carries a lease; a heartbeat renews the lease   *)
(* while the handler runs and a sweep on every node clears stale locks.    *)
(* Task types have separate rows and locks, so one type is modelled.       *)
(*                                                                         *)
(* Every statement sent to the database is an action of its own.  Clocks   *)
(* are relative to the present: lock.left is the time until locked_until,  *)
(* pass.now the time read when a claim or a sweep began, which its later   *)
(* statements go on using.                                                 *)
(***************************************************************************)
EXTENDS Integers

CONSTANTS
    Runners,        \* runner processes; a restarted process is a new runner
    NoRunner,
    MaxTasks,       \* bound: task rows ever created
    LegacyRows,     \* pending rows without an active_key, from an older release
    Lease,          \* systemTaskLockTTL, in ticks
    MaxStall,       \* bound: ticks a claim or a sweep may last
    BeatsInTime,    \* the heartbeat of a live handler renews before the lease ends
    MaxFaults,      \* bound: failed statements
    MaxCrashes      \* bound: runners that die

ASSUME SystemTaskAssumption ==
    /\ NoRunner \notin Runners
    /\ MaxTasks \in Nat /\ LegacyRows \in 0..MaxTasks
    /\ Lease \in Nat \ {0} /\ MaxStall \in Nat /\ BeatsInTime \in BOOLEAN
    /\ MaxFaults \in Nat /\ MaxCrashes \in Nat

VARIABLES
    rows,     \* system_tasks: status, active_key set or not, locked_by
    lock,     \* the row of system_task_locks, task 0 when there is none
    pass,     \* per runner: the statement its runner loop is about to send
    hand,     \* per task: the handler goroutine
    alive,
    faults,
    crashes

vars == <<rows, lock, pass, hand, alive, faults, crashes>>
world == <<alive, crashes>>

Tasks == 1..MaxTasks
Active == {"pending", "running"}
Done == {"succeeded", "failed"}

NoLock == [task |-> 0, by |-> NoRunner, left |-> 0]

(* task is the row being claimed or swept, old the task of a lock taken over, by
   the holder of a lock being swept. *)
IdlePass == [pc |-> "idle", task |-> 0, old |-> 0, by |-> NoRunner, now |-> 0]

Init ==
    /\ rows = [t \in Tasks |-> [status |-> IF t <= LegacyRows THEN "pending" ELSE "none",
                                key |-> FALSE, by |-> NoRunner]]
    /\ lock = NoLock
    /\ pass = [r \in Runners |-> IdlePass]
    /\ hand = [t \in Tasks |-> "none"]
    /\ alive = [r \in Runners |-> TRUE]
    /\ faults = 0 /\ crashes = 0

-----------------------------------------------------------------------------
At(r, p) == alive[r] /\ pass[r].pc = p

Goto(r, p) == pass' = [pass EXCEPT ![r].pc = p]

Return(r) == pass' = [pass EXCEPT ![r] = IdlePass]

Fault == faults < MaxFaults /\ faults' = faults + 1

LockIs(t, r) == lock.task = t /\ lock.by = r

(* The EXISTS clause of every write a handler makes. *)
Leased(t) == LockIs(t, rows[t].by) /\ lock.left >= 0

(* Mutant: a lease counts as over in its last second. *)
Stale_Early(r) == lock.task # 0 /\ lock.left <= pass[r].now

(* locked_until < now, with the time runner r noted when its pass began. *)
Stale(r) == lock.task # 0 /\ lock.left < pass[r].now

(* The lock as runner r writes it: the lease counts from the start of the claim. *)
Mine(r) == [task |-> pass[r].task, by |-> r, left |-> pass[r].now + Lease]

Closed(t, s) == [rows EXCEPT ![t].status = s, ![t].key = FALSE]

(* MarkSystemTaskLeaseExpired *)
LeaseExpired(t) == IF rows[t].status = "running" THEN Closed(t, "failed") ELSE rows

(* ReleaseSystemTaskLock *)
Released(t, r) == IF LockIs(t, r) THEN NoLock ELSE lock

-----------------------------------------------------------------------------
(* CreateSystemTask, called by the scheduler when the latest row is closed and by
   EnqueueSystemTask and StartLogCleanupTask when every row is; the unique index
   on active_key decides between concurrent callers. *)
Create(t) ==
    /\ rows[t].status = "none"
    /\ \A u \in Tasks : u < t => rows[u].status # "none"
    /\ t > 1 => rows[t - 1].status \in Done
    /\ \A u \in Tasks : ~ rows[u].key
    /\ rows' = [rows EXCEPT ![t] = [status |-> "pending", key |-> TRUE, by |-> NoRunner]]
    /\ UNCHANGED <<lock, pass, hand, world, faults>>

-----------------------------------------------------------------------------
(* runSystemTaskClaimPass and ClaimSystemTask *)

(* The earliest pending row is found and read. *)
FindPending(r, t) ==
    /\ At(r, "idle")
    /\ rows[t].status = "pending"
    /\ \A u \in Tasks : u < t => rows[u].status # "pending"
    /\ pass' = [pass EXCEPT ![r] = [IdlePass EXCEPT !.pc = "lock", !.task = t]]
    /\ UNCHANGED <<rows, lock, hand, world, faults>>

(* acquireSystemTaskLock: the insert, refused when there is a lock. *)
InsertLock(r) ==
    /\ At(r, "lock")
    /\ \/ lock.task = 0 /\ lock' = Mine(r) /\ Goto(r, "row") /\ UNCHANGED faults
       \/ lock.task # 0 /\ Goto(r, "read") /\ UNCHANGED <<lock, faults>>
       \/ Fault /\ Goto(r, "read") /\ UNCHANGED lock
    /\ UNCHANGED <<rows, hand, world>>

(* acquireSystemTaskLock: the lock is read; the claim goes on if it is stale. *)
ReadLock(r) ==
    /\ At(r, "read")
    /\ IF Stale(r) THEN pass' = [pass EXCEPT ![r].pc = "steal", ![r].old = lock.task]
                   ELSE Return(r)
    /\ UNCHANGED <<rows, lock, hand, world, faults>>

(* acquireSystemTaskLock: a stale lock is taken over if it is still stale. *)
StealLock(r) ==
    /\ At(r, "steal")
    /\ \/ Stale(r) /\ lock' = Mine(r) /\ UNCHANGED faults
          /\ Goto(r, IF pass[r].old # pass[r].task THEN "mark" ELSE "row")
       \/ ~ Stale(r) /\ Return(r) /\ UNCHANGED <<lock, faults>>
       \/ Fault /\ Return(r) /\ UNCHANGED lock
    /\ UNCHANGED <<rows, hand, world>>

(* The task of the old holder is failed. *)
MarkOld(r) ==
    /\ At(r, "mark")
    /\ \/ rows' = LeaseExpired(pass[r].old) /\ Goto(r, "row") /\ UNCHANGED faults
       \/ Fault /\ Goto(r, "undo") /\ UNCHANGED rows
    /\ UNCHANGED <<lock, hand, world>>

(* The row goes from pending to running and its handler is started; when the row
   cannot be read back the claim is abandoned as it stands. *)
TakeRow(r) ==
    /\ At(r, "row")
    /\ LET t == pass[r].task IN
       \/ /\ rows[t].status = "pending"
          /\ rows' = [rows EXCEPT ![t].status = "running", ![t].by = r]
          /\ Return(r)
          /\ \/ hand' = [hand EXCEPT ![t] = "running"] /\ UNCHANGED faults
             \/ Fault /\ UNCHANGED hand
       \/ /\ rows[t].status # "pending" \/ faults < MaxFaults
          /\ IF rows[t].status = "pending" THEN Fault ELSE UNCHANGED faults
          /\ Goto(r, "undo") /\ UNCHANGED <<rows, hand>>
    /\ UNCHANGED <<lock, world>>

(* The lock of a claim that failed is released; an error is ignored. *)
UndoLock(r) ==
    /\ At(r, "undo")
    /\ \/ lock' = Released(pass[r].task, r) /\ UNCHANGED faults
       \/ Fault /\ UNCHANGED lock
    /\ Return(r)
    /\ UNCHANGED <<rows, hand, world>>

-----------------------------------------------------------------------------
(* ExpireStaleSystemTaskLocks *)

FindStale(r) ==
    /\ At(r, "idle")
    /\ Stale(r)
    /\ pass' = [pass EXCEPT ![r] = [IdlePass EXCEPT !.pc = "expire", !.task = lock.task,
                                                    !.by = lock.by]]
    /\ UNCHANGED <<rows, lock, hand, world, faults>>

(* Mutant: the lock is deleted and its task left as it is. *)
ExpireRow_Skipped(r) ==
    /\ At(r, "expire")
    /\ Goto(r, "delete")
    /\ UNCHANGED <<rows, lock, hand, world, faults>>

ExpireRow(r) ==
    /\ At(r, "expire")
    /\ \/ rows' = LeaseExpired(pass[r].task) /\ Goto(r, "delete") /\ UNCHANGED faults
       \/ Fault /\ Return(r) /\ UNCHANGED rows
    /\ UNCHANGED <<lock, hand, world>>

(* The delete repeats the conditions under which the lock was found. *)
DeleteStale(r) ==
    /\ At(r, "delete")
    /\ \/ /\ lock' = IF LockIs(pass[r].task, pass[r].by) /\ Stale(r) THEN NoLock ELSE lock
          /\ UNCHANGED faults
       \/ Fault /\ UNCHANGED lock
    /\ Return(r)
    /\ UNCHANGED <<rows, hand, world>>

-----------------------------------------------------------------------------
(* runWithLeaseHeartbeat and the handlers *)

(* RenewSystemTaskLock; when it finds no lease of its own, or fails, the handler's
   context is cancelled and the heartbeat ends. *)
Heartbeat(t) ==
    /\ hand[t] = "running"
    /\ \/ Leased(t) /\ lock' = [lock EXCEPT !.left = Lease] /\ UNCHANGED <<hand, faults>>
       \/ /\ IF Leased(t) THEN Fault ELSE UNCHANGED faults
          /\ hand' = [hand EXCEPT ![t] = "cancelled"] /\ UNCHANGED lock
    /\ UNCHANGED <<rows, pass, world>>

(* UpdateSystemTaskState finds no lease and the handler returns at once. *)
StateRefused(t) ==
    /\ hand[t] \in {"running", "cancelled"}
    /\ ~ (rows[t].status = "running" /\ Leased(t))
    /\ hand' = [hand EXCEPT ![t] = "none"]
    /\ UNCHANGED <<rows, lock, pass, world, faults>>

(* Mutant: the lease is not required to finish. *)
Finish_Unleased(t, s) ==
    /\ hand[t] \in {"running", "cancelled"}
    /\ rows' = Closed(t, s)
    /\ hand' = [hand EXCEPT ![t] = "release"]
    /\ UNCHANGED <<lock, pass, world, faults>>

(* FinishSystemTask, the row; without the lease, or on an error, the handler just
   returns. *)
Finish(t, s) ==
    /\ hand[t] \in {"running", "cancelled"}
    /\ \/ /\ rows[t].status = "running" /\ Leased(t)
          /\ rows' = Closed(t, s)
          /\ hand' = [hand EXCEPT ![t] = "release"]
          /\ UNCHANGED faults
       \/ /\ ~ (rows[t].status = "running" /\ Leased(t))
          /\ hand' = [hand EXCEPT ![t] = "none"]
          /\ UNCHANGED <<rows, faults>>
       \/ Fault /\ hand' = [hand EXCEPT ![t] = "none"] /\ UNCHANGED rows
    /\ UNCHANGED <<lock, pass, world>>

(* FinishSystemTask, the lock. *)
Release(t) ==
    /\ hand[t] = "release"
    /\ hand' = [hand EXCEPT ![t] = "none"]
    /\ \/ lock' = Released(t, rows[t].by) /\ UNCHANGED faults
       \/ Fault /\ UNCHANGED lock
    /\ UNCHANGED <<rows, pass, world>>

-----------------------------------------------------------------------------
(* Environment *)

(* A handler whose heartbeat is due before the next tick. *)
BeatDue == /\ lock.task # 0 /\ lock.left = 0
           /\ hand[lock.task] = "running" /\ lock.by = rows[lock.task].by

(* Time passes.  Past -MaxStall-1 a lease is over for every pass. *)
Tick ==
    /\ lock.task # 0 \/ \E r \in Runners : pass[r].pc # "idle"
    /\ \A r \in Runners : pass[r].now > -MaxStall
    /\ BeatsInTime => ~ BeatDue
    /\ lock' = [lock EXCEPT !.left = IF lock.task = 0 \/ @ < -MaxStall THEN @ ELSE @ - 1]
    /\ pass' = [r \in Runners |-> IF pass[r].pc = "idle" THEN pass[r]
                                  ELSE [pass[r] EXCEPT !.now = @ - 1]]
    /\ UNCHANGED <<rows, hand, world, faults>>

(* A runner dies with its loop and its handlers. *)
Crash(r) ==
    /\ alive[r] /\ crashes < MaxCrashes
    /\ alive' = [alive EXCEPT ![r] = FALSE]
    /\ crashes' = crashes + 1
    /\ pass' = [pass EXCEPT ![r] = IdlePass]
    /\ hand' = [t \in Tasks |-> IF rows[t].by = r THEN "none" ELSE hand[t]]
    /\ UNCHANGED <<rows, lock, faults>>

Loop(r) ==
    \/ InsertLock(r) \/ ReadLock(r) \/ StealLock(r) \/ MarkOld(r) \/ TakeRow(r) \/ UndoLock(r)
    \/ ExpireRow(r) \/ DeleteStale(r)

Handler(t) == StateRefused(t) \/ (\E s \in Done : Finish(t, s)) \/ Release(t)

Next ==
    \/ \E t \in Tasks : Create(t) \/ Heartbeat(t) \/ Handler(t)
    \/ \E r \in Runners : FindStale(r) \/ Loop(r) \/ Crash(r) \/ \E t \in Tasks : FindPending(r, t)
    \/ Tick

Spec == Init /\ [][Next]_vars

(* Handlers end, runner loops go on and look for stale locks and for pending rows
   in every pass, and time passes. *)
Fairness ==
    /\ WF_vars(Tick)
    /\ \A t \in Tasks : WF_vars(Handler(t))
    /\ \A r \in Runners : /\ WF_vars(Loop(r)) /\ SF_vars(FindStale(r))
                          /\ SF_vars(\E t \in Tasks : FindPending(r, t))

LiveSpec == Spec /\ Fairness

-----------------------------------------------------------------------------
(* Two handlers of one type never run at the same time while leases are renewed:
   the lock, its takeover and its sweep let one claim through at a time. *)
OneHandler == \A t, u \in Tasks : hand[t] = "running" /\ hand[u] = "running" => t = u

(* A running row that keeps its type's active_key is named by the lock, so that the
   end of its lease leads to it; without the lock nothing would ever close the row
   and no new one could be created. *)
RunningHasLock == \A t \in Tasks : rows[t].status = "running" /\ rows[t].key => lock.task = t

(* A closed row stays closed with its executor and its verdict, whoever wakes up
   late: a claim, a sweep or a handler that lost its lease. *)
ClosedForGood ==
    [][\A t \in Tasks : rows[t].status \in Done => rows'[t] = rows[t]]_vars

(* The type never gets stuck: whatever runner dies and whichever statement fails,
   an active row is closed, by its handler or by the sweep of expired leases. *)
NeverStuck == \A t \in Tasks : rows[t].status \in Active ~> rows[t].status \in Done
=============================================================================
