---------------------------- MODULE SessionCache ----------------------------
(***************************************************************************)
(* One row of user_sessions, its snapshots in Redis, and the requests that *)
(* validate, rotate, advance and revoke it (model/user_session.go).        *)
(*                                                                         *)
(* Nodes share one Redis or have one each; a request works with the Redis  *)
(* of its node.  Time is counted in ticks: an entry, the observation       *)
(* deadline of a request and the session itself have the ticks they have   *)
(* left.  Every access to the database or to Redis is a step of its own;   *)
(* the Lua script of writeUserSessionCache is one.                         *)
(***************************************************************************)
EXTENDS Integers, FiniteSets

CONSTANTS
    Procs,        \* requests that run at the same time
    Caches,       \* Redis instances
    NoProc,
    TTL,          \* userCacheTTLSeconds, in ticks
    Lives,        \* ticks the session may have left at the start, or Endless
    Prompt,       \* a revocation takes less than TTL from its fence to its tombstone
    Faulty,       \* the accesses that may fail
    MaxFaults,    \* bound: failed accesses
    MaxWrites,    \* bound: rotations and advances
    MaxRevokes    \* bound: revocations

Endless == -1

ASSUME SessionCacheAssumption ==
    /\ NoProc \notin Procs
    /\ TTL \in Nat \ {0}
    /\ Lives \subseteq Nat \cup {Endless}
    /\ Prompt \in BOOLEAN
    /\ {MaxFaults, MaxWrites, MaxRevokes} \subseteq Nat

VARIABLES
    row,        \* user_sessions: status, version, position in the chain of refresh secrets
    life,       \* ticks until expires_at
    cache,      \* per Redis: the snapshot
    home,       \* per request: the Redis of its node
    holder,     \* the transaction that holds the row lock
    job,        \* per request: what it does and what it has seen
    spent,      \* budgets used
    gone,       \* history: ticks since the row was revoked, up to TTL
    calm,       \* history: ticks since anything but validations ran, up to TTL
    over,       \* history: a revocation has been reported as done
    unfenced,   \* history: a tombstone was not written, for an error or a refusal
    leaks       \* history: requests granted "late", begun after over, or "stale", a TTL after
                \* the row was revoked

vars == <<row, life, cache, home, holder, job, spent, gone, calm, over, unfenced, leaks>>
history == <<gone, calm, over, unfenced>>

Deny == {"revoking", "revoked"}
NoEntry == [status |-> "none", ver |-> 0, left |-> 0]
Revokers == {"revoke", "revokeAll", "revokeByHash"}
Rest == [op |-> "none", pc |-> "idle", ver |-> 0, gen |-> 0, left |-> 0, late |-> FALSE]

(* CreateUserSession has inserted the row and goes on to its snapshot; the other
   requests find the row. *)
Init ==
    /\ row = [status |-> "active", ver |-> 1, gen |-> 0]
    /\ life \in Lives
    /\ cache = [c \in Caches |-> NoEntry]
    /\ home \in [Procs -> Caches]
    /\ holder = NoProc
    /\ \E p \in Procs : job = [q \in Procs |->
          IF q = p THEN [Rest EXCEPT !.op = "create", !.pc = "fill", !.ver = 1, !.left = TTL] ELSE Rest]
    /\ spent = [fault |-> 0, write |-> 0, revoke |-> 0]
    /\ gone = 0 /\ calm = 0 /\ over = FALSE /\ unfenced = FALSE /\ leaks = {}

Alive == life = Endless \/ life > 0
Usable == row.status = "active" /\ Alive
WithinLife(n) == IF life # Endless /\ life < n THEN life ELSE n

At(p, pc) == job[p].pc = pc
Verdicts == {"granted", "denied"}

(* A request that began late or not is answered. *)
Leaks(verdict, late) ==
    IF verdict # "granted" THEN {}
    ELSE (IF late THEN {"late"} ELSE {}) \cup (IF gone = TTL THEN {"stale"} ELSE {})

(* To the next step, or to the answer, which ends the request. *)
Goto(p, pc) ==
    /\ job' = [job EXCEPT ![p] = IF pc \in Verdicts THEN Rest ELSE [@ EXCEPT !.pc = pc]]
    /\ leaks' = leaks \cup Leaks(pc, job[p].late)

Fault(what) ==
    /\ what \in Faulty /\ spent.fault < MaxFaults
    /\ spent' = [spent EXCEPT !.fault = @ + 1]

-----------------------------------------------------------------------------
(* writeUserSessionCache *)

(* Mutant: the script compares versions only. *)
Refuses_VersionOnly(e, status, ver) == e.ver > ver

(* The script leaves the entry alone: an active snapshot never replaces a tombstone,
   and nothing replaces a newer version. *)
Refuses(e, status, ver) == (status = "active" /\ e.status \in Deny) \/ e.ver > ver

(* PEXPIRE: the TTL of a tombstone starts when it is written, a second at least. *)
DenyLeft == IF WithinLife(TTL) > 0 THEN WithinLife(TTL) ELSE 1

(* Mutant: the TTL of a snapshot starts when it is written. *)
ActiveLeft_FromNow(p) == WithinLife(TTL)

(* PEXPIREAT: a snapshot lives until the deadline of its observation; a time that has
   passed deletes the key. *)
ActiveLeft(p) == WithinLife(job[p].left)

Snapshot(p) == IF ActiveLeft(p) > 0 THEN [status |-> "active", ver |-> job[p].ver, left |-> ActiveLeft(p)]
                                    ELSE NoEntry

PutDeny(p, status, ver) ==
    cache' = [cache EXCEPT ![home[p]] = [status |-> status, ver |-> ver, left |-> DenyLeft]]

(* Where a request that found the session active goes on: to the script, or back to the
   database when the deadline of its observation has passed. *)
ToFill(left) == IF left > 0 THEN "fill" ELSE "confirm"

(* The snapshot of a request that found the session active.  The deadline, and then the
   life of the session, may run out before they are looked at or while the script is on
   its way.  A refusal ends the request; a failed write does not, except in
   AdvanceUserSessionAuthVersion. *)
Fill(p) ==
    /\ At(p, "fill")
    /\ \/ job[p].left = 0 /\ Goto(p, "confirm") /\ UNCHANGED <<cache, spent>>
       \/ job[p].left > 0 /\ ~ Alive /\ Goto(p, "denied") /\ UNCHANGED <<cache, spent>>
       \/ /\ Refuses(cache[home[p]], "active", job[p].ver)
          /\ Goto(p, "denied") /\ UNCHANGED <<cache, spent>>
       \/ /\ ~ Refuses(cache[home[p]], "active", job[p].ver)
          /\ cache' = [cache EXCEPT ![home[p]] = Snapshot(p)]
          /\ Goto(p, "complete") /\ UNCHANGED spent
       \/ /\ Fault("fill")
          /\ Goto(p, IF job[p].op = "advance" THEN "denied" ELSE "granted")
          /\ UNCHANGED cache
    /\ UNCHANGED <<row, life, home, holder, history>>

(* The time is looked at again when the script has answered. *)
Complete(p) ==
    /\ At(p, "complete")
    /\ Goto(p, CASE job[p].left = 0 -> "confirm"
                 [] job[p].left > 0 /\ ~ Alive -> "denied"
                 [] OTHER -> "granted")
    /\ UNCHANGED <<row, life, cache, home, holder, spent, history>>

(* confirmUserSessionActiveSnapshot *)
Confirm(p) ==
    /\ At(p, "confirm")
    /\ \/ Goto(p, IF Usable /\ row.ver = job[p].ver THEN "granted" ELSE "denied") /\ UNCHANGED spent
       \/ Fault("db") /\ Goto(p, "denied")
    /\ UNCHANGED <<row, life, cache, home, holder, history>>

-----------------------------------------------------------------------------
(* A request of the kind op, at pc after its first step. *)
Begun(op, pc) == [Rest EXCEPT !.op = op, !.pc = pc, !.late = over]

-----------------------------------------------------------------------------
(* GetUserSessionCached, RotateUserSessionRefresh and AdvanceUserSessionAuthVersion *)

(* getUserSessionCache; an error, like a miss, leads to the database.  A tombstone denies,
   which changes nothing. *)
LookUp(p) ==
    LET e == cache[home[p]] IN
    /\ At(p, "idle")
    /\ \/ /\ e.status = "none"
          /\ job' = [job EXCEPT ![p] = Begun("validate", "capture")]
          /\ UNCHANGED <<spent, leaks>>
       \/ /\ e.status = "active" /\ Alive
          /\ leaks' = leaks \cup Leaks("granted", over)
          /\ UNCHANGED <<job, spent>>
       \/ /\ Fault("read")
          /\ job' = [job EXCEPT ![p] = Begun("validate", "capture")]
          /\ UNCHANGED leaks
    /\ UNCHANGED <<row, life, cache, home, holder, history>>

(* userSessionCacheDeadline, after a miss *)
Capture(p) ==
    /\ At(p, "capture")
    /\ job' = [job EXCEPT ![p].left = TTL, ![p].pc = "read"]
    /\ UNCHANGED <<row, life, cache, home, holder, spent, history, leaks>>

(* userSessionCacheDeadline at the start of a rotation or an advance.  The secret a
   rotation presents is the current one; an advance is asked for by a token of the
   current version. *)
BeginWrite(p, op) ==
    /\ At(p, "idle")
    /\ calm' = 0
    /\ spent.write < MaxWrites /\ spent' = [spent EXCEPT !.write = @ + 1]
    /\ job' = [job EXCEPT ![p] = IF op = "advance" THEN [Begun(op, "advance") EXCEPT !.left = TTL, !.ver = row.ver]
                                 ELSE [Begun(op, "read") EXCEPT !.left = TTL, !.gen = row.gen]]
    /\ UNCHANGED <<row, life, cache, home, holder, gone, over, unfenced, leaks>>

ReadRow(p) ==
    /\ At(p, "read")
    /\ \/ /\ Usable
          /\ job' = [job EXCEPT ![p].ver = row.ver,
                                ![p].pc = IF job[p].op = "validate" THEN ToFill(job[p].left) ELSE "rotate"]
          /\ UNCHANGED <<spent, leaks>>
       \/ /\ ~ Usable /\ job[p].op = "validate"
          /\ job' = [job EXCEPT ![p].ver = row.ver, ![p].pc = "deny"]
          /\ UNCHANGED <<spent, leaks>>
       \/ ~ Usable /\ job[p].op = "rotate" /\ Goto(p, "denied") /\ UNCHANGED spent
       \/ Fault("db") /\ Goto(p, "denied")
    /\ UNCHANGED <<row, life, cache, home, holder, history>>

(* A reader that finds the row over publishes a tombstone; an error is ignored. *)
DenyFill(p) ==
    /\ At(p, "deny")
    /\ \/ IF Refuses(cache[home[p]], "revoked", job[p].ver) THEN UNCHANGED <<cache, spent>>
          ELSE PutDeny(p, "revoked", job[p].ver) /\ UNCHANGED spent
       \/ Fault("fill") /\ UNCHANGED cache
    /\ Goto(p, "denied")
    /\ UNCHANGED <<row, life, home, holder, history>>

(* The compare-and-swap of the rotation.  When another rotation has won, the next turn of
   the loop finds the presented secret to be the previous one. *)
RotateRow(p) ==
    /\ At(p, "rotate") /\ holder = NoProc
    /\ \/ /\ Usable /\ row.gen = job[p].gen
          /\ row' = [row EXCEPT !.gen = @ + 1]
          /\ Goto(p, ToFill(job[p].left)) /\ UNCHANGED spent
       \/ /\ ~ (Usable /\ row.gen = job[p].gen)
          /\ Goto(p, "denied") /\ UNCHANGED <<row, spent>>
       \/ Fault("db") /\ Goto(p, "denied") /\ UNCHANGED row
    /\ UNCHANGED <<life, cache, home, holder, history>>

(* The transaction of AdvanceUserSessionAuthVersion *)
AdvanceRow(p) ==
    /\ At(p, "advance") /\ holder = NoProc
    /\ \/ /\ Usable /\ row.ver = job[p].ver
          /\ row' = [row EXCEPT !.ver = @ + 1]
          /\ job' = [job EXCEPT ![p].ver = @ + 1, ![p].pc = ToFill(job[p].left)]
          /\ UNCHANGED <<spent, leaks>>
       \/ /\ ~ (Usable /\ row.ver = job[p].ver)
          /\ Goto(p, "denied") /\ UNCHANGED <<row, spent>>
       \/ Fault("db") /\ Goto(p, "denied") /\ UNCHANGED row
    /\ UNCHANGED <<life, cache, home, holder, history>>

-----------------------------------------------------------------------------
(* RevokeUserSession and the reuse of a refresh secret ("revoke"), revokeUserSessions
   ("revokeAll") and RevokeUserSessionByRefreshHash ("revokeByHash") *)

(* What the caller is told; nothing is wrong when the row is over already. *)
Report(p) ==
    /\ Goto(p, "denied")
    /\ over' = (over \/ row.status = "revoked")

(* The candidate is read; by refresh hash it is read under the row lock. *)
ReadCandidate(p, op) ==
    /\ At(p, "idle")
    /\ calm' = 0
    /\ spent.revoke < MaxRevokes /\ spent' = [spent EXCEPT !.revoke = @ + 1]
    /\ op = "revokeByHash" => holder = NoProc
    /\ \/ /\ Usable
          /\ job' = [job EXCEPT ![p] = [Begun(op, "fence") EXCEPT !.ver = row.ver]]
          /\ holder' = IF op = "revokeByHash" THEN p ELSE holder
          /\ UNCHANGED <<over, leaks>>
       \/ ~ Usable /\ Report(p) /\ UNCHANGED holder
    /\ UNCHANGED <<row, life, cache, home, gone, unfenced>>

Unlocked(p) == IF holder = p THEN NoProc ELSE holder

(* writeUserSessionDenyFence; when it fails or is refused nothing is revoked. *)
Fence(p) ==
    /\ At(p, "fence")
    /\ \/ /\ ~ Refuses(cache[home[p]], "revoking", job[p].ver)
          /\ PutDeny(p, "revoking", job[p].ver)
          /\ job' = [job EXCEPT ![p].pc = "revoke", ![p].left = TTL]
          /\ UNCHANGED <<holder, spent, leaks>>
       \/ /\ Refuses(cache[home[p]], "revoking", job[p].ver)
          /\ Goto(p, "denied") /\ holder' = Unlocked(p) /\ UNCHANGED <<cache, spent>>
       \/ Fault("fence") /\ Goto(p, "denied") /\ holder' = Unlocked(p) /\ UNCHANGED cache
    /\ UNCHANGED <<row, life, home, history>>

(* The row is revoked if it is still active; revokeUserSessions reads it again. *)
RevokeRow(p) ==
    /\ At(p, "revoke") /\ holder \in {NoProc, p}
    /\ holder' = Unlocked(p)
    /\ \/ /\ Usable
          /\ row' = [row EXCEPT !.status = "revoked"]
          /\ job' = [job EXCEPT ![p].pc = "tombstone",
                                ![p].ver = IF job[p].op = "revokeAll" THEN row.ver ELSE @]
          /\ UNCHANGED <<spent, over, leaks>>
       \/ ~ Usable /\ Report(p) /\ UNCHANGED <<row, spent>>
       \/ Fault("db") /\ Goto(p, "denied") /\ UNCHANGED <<row, over>>
    /\ UNCHANGED <<life, cache, home, gone, calm, unfenced>>

(* The tombstone; an error is only logged, and a refusal is an error: a fence of a newer
   version is in its place. *)
Tombstone(p) ==
    /\ At(p, "tombstone")
    /\ \/ /\ ~ Refuses(cache[home[p]], "revoked", job[p].ver)
          /\ PutDeny(p, "revoked", job[p].ver) /\ UNCHANGED <<spent, unfenced>>
       \/ /\ Refuses(cache[home[p]], "revoked", job[p].ver)
          /\ unfenced' = TRUE /\ UNCHANGED <<cache, spent>>
       \/ Fault("tombstone") /\ unfenced' = TRUE /\ UNCHANGED cache
    /\ Report(p)
    /\ UNCHANGED <<row, life, home, holder, gone, calm>>

-----------------------------------------------------------------------------
(* Time passes: entries expire, deadlines come nearer.  Prompt keeps a revocation inside
   the life of its fence. *)
Tick ==
    /\ Prompt => \A p \in Procs : job[p].pc \in {"revoke", "tombstone"} => job[p].left > 1
    /\ cache' = [c \in Caches |-> IF cache[c].left = 1 THEN NoEntry
                                  ELSE IF cache[c].left > 1 THEN [cache[c] EXCEPT !.left = @ - 1] ELSE cache[c]]
    /\ job' = [p \in Procs |-> IF job[p].left > 0 THEN [job[p] EXCEPT !.left = @ - 1] ELSE job[p]]
    /\ life' = IF life > 0 THEN life - 1 ELSE life
    /\ gone' = IF row.status = "revoked" /\ gone < TTL THEN gone + 1 ELSE gone
    /\ calm' = IF \E p \in Procs : job[p].op \notin {"none", "validate"} THEN 0
               ELSE IF calm < TTL THEN calm + 1 ELSE calm
    /\ UNCHANGED <<row, home, holder, spent, over, unfenced, leaks>>

Step(p) ==
    \/ Fill(p) \/ Complete(p) \/ Confirm(p)
    \/ Capture(p) \/ ReadRow(p) \/ DenyFill(p) \/ RotateRow(p) \/ AdvanceRow(p)
    \/ Fence(p) \/ RevokeRow(p) \/ Tombstone(p)

Next ==
    \/ \E p \in Procs : Step(p) \/ LookUp(p)
    \/ \E p \in Procs : (\E op \in {"rotate", "advance"} : BeginWrite(p, op))
                        \/ (\E op \in Revokers : ReadCandidate(p, op))
    \/ Tick

Spec == Init /\ [][Next]_vars

-----------------------------------------------------------------------------
(* Where all nodes share one Redis a revocation is final when it is reported: whatever
   snapshot is still on its way, no request that begins afterwards finds the session
   active, unless the last tombstone was not written, which the code logs
   (GetUserSessionCached, RevokeUserSession). *)
RevokedStaysOut ==
    (\A p, q \in Procs : home[p] = home[q]) /\ ~ unfenced
    => "late" \notin leaks

(* Whatever fails on the side of the revocation, and with a Redis per node, a session
   revoked in the database is accepted for less than one TTL: a delayed snapshot has only
   what is left of its observation window (writeUserSessionCache). *)
BoundedStaleness == "stale" \notin leaks

(* A tombstone without a revocation, left by one that failed, and a snapshot of an older
   version last no longer than a TTL: when nothing but validations has run for that long,
   no Redis denies a usable session or holds another version of it. *)
CalmCacheAgrees ==
    calm = TTL /\ Usable
    => \A c \in Caches : cache[c] = NoEntry \/ (cache[c].status = "active" /\ cache[c].ver = row.ver)
=============================================================================
