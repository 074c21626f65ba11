-------------------------- MODULE SubscriptionLedger --------------------------
(***************************************************************************)
(* The subscription rows of one user and one plan (model/subscription.go), *)
(* the pre-consume records that requests leave beside them, the refund     *)
(* with its retries (service/funding_source.go) and the maintenance pass   *)
(* of the master node (service/subscription_reset_task.go).                *)
(*                                                                         *)
(* A database transaction that locks the rows it writes is one action.     *)
(* What the code does in several transactions is several actions:          *)
(*   - a refund takes the amount back in one and marks the record in       *)
(*     another, which fails on its own;                                    *)
(*   - the maintenance pass reads a list and then resets row by row;       *)
(*   - GetDBTimestamp is read before a transaction begins, so a            *)
(*     transaction works with a clock that is up to Lag behind.            *)
(* The group of the user, payments and orders are left out.                *)
(***************************************************************************)
EXTENDS Integers, FiniteSets, FiniteSetsExt

CONSTANTS
    Requests,   \* relay requests paid by subscription
    Subs,       \* ids of the subscription rows, an interval 1..n
    Total,      \* TotalAmount of the plan, 0 for a plan without limit
    Period,     \* length of a quota period
    Life,       \* duration of a subscription
    Periods,    \* reset periods the plan may be given: never, custom, daily
    Amounts,    \* amounts a request pre-consumes
    Actuals,    \* amounts a request turns out to cost
    Attempts,   \* maxAttempts of refundWithRetry
    Batch,      \* subscriptionResetBatchSize
    Faulty,     \* what may go wrong in a refund: mark, inner, answer
    MaxFaults,  \* bound: faults
    MaxAdmin,   \* bound: operations of administrators
    MaxTime,    \* bound: the clock
    LastSale,   \* bound: the time of the last purchase
    Lag         \* bound: time between GetDBTimestamp and the transaction

ASSUME BoundsAssumption ==
    /\ Subs = 1..Cardinality(Subs) /\ IsFiniteSet(Subs) /\ IsFiniteSet(Requests)
    /\ Total \in Nat /\ Period \in Nat \ {0} /\ Life \in Nat \ {0}
    /\ Periods \subseteq {"never", "custom", "daily"} /\ Periods # {}
    /\ Amounts \subseteq Nat \ {0} /\ Actuals \subseteq Nat
    /\ Attempts \in Nat \ {0} /\ Batch \in Nat \ {0}
    /\ Faulty \subseteq {"mark", "inner", "answer"}
    /\ {MaxFaults, MaxAdmin, LastSale, Lag} \subseteq Nat /\ MaxTime \in Nat \ {0}

VARIABLES
    now,     \* the clock of the database
    period,  \* QuotaResetPeriod of the plan
    sub,     \* the rows of user_subscriptions
    job,     \* a request: where it is, its record and its refund
    maint,   \* the maintenance pass
    faults,  \* faults so far
    admin,   \* operations of administrators so far
    book     \* history: what the requests are worth to each row

vars == <<now, period, sub, job, maint, faults, admin, book>>

-----------------------------------------------------------------------------
(* States. *)

\* A row that was not created yet has the status none.
NoRow == [status |-> "none", used |-> 0, start |-> 0, end |-> 0, last |-> 0, next |-> 0]

\* sub is the UserSubscriptionId and pre the PreConsumed amount of the record;
\* refunded its status; tries counts the failed attempts of refundWithRetry.
NewJob == [pc |-> "idle", sub |-> 0, pre |-> 0, refunded |-> FALSE, tries |-> 0]

Idle == [pc |-> "idle", seen |-> 0, list |-> {}, count |-> 0]

\* cur[r]: what r has charged its row since the row's usage was last set to 0;
\* old: the requests whose charge lies before that;
\* given[r]: how often the record's amount was taken back, lost[r]: how often
\* an attempt failed although the inner transaction had committed;
\* leak[s], again[s]: reductions of s by more than was charged since then,
\* for a charge from before, and for a refund that was repeated;
\* base[s]: the times from which periods of s were counted;
\* grants[s][b]: how often s was reset on schedule for the boundary b;
\* reopened[s]: how often an administrator put the count of s back.
NewBook ==
    [cur |-> [r \in Requests |-> 0], old |-> {}, given |-> [r \in Requests |-> 0],
     lost |-> [r \in Requests |-> 0],
     leak |-> [s \in Subs |-> 0], again |-> [s \in Subs |-> 0],
     base |-> [s \in Subs |-> {}], grants |-> [s \in Subs |-> [b \in 1..MaxTime |-> 0]],
     reopened |-> [s \in Subs |-> 0]]

Init ==
    /\ now = 1
    /\ period \in Periods
    /\ sub = [s \in Subs |-> NoRow]
    /\ job = [r \in Requests |-> NewJob]
    /\ maint = Idle
    /\ faults = 0
    /\ admin = 0
    /\ book = NewBook

Exists(s) == sub[s].status \notin {"none", "deleted"}

\* The clock values a transaction that runs now may have read before.
Recent == {t \in (now - Lag)..now : t >= 1}

-----------------------------------------------------------------------------
(* Periods and resets. *)

\* The k-th period boundary after base.
Boundary(base, k) ==
    IF period = "daily" THEN (base \div Period + k) * Period ELSE base + k * Period

\* calcNextResetTime: 0 when the plan never resets or the boundary lies
\* behind the end of the subscription.
NextReset(base, end) ==
    IF period = "never" \/ Boundary(base, 1) > end THEN 0 ELSE Boundary(base, 1)

\* Mutant: a boundary counts one second early.
Passed_Early(base, end, t) ==
    {k \in 1..MaxTime : Boundary(base, k) <= t + 1 /\ Boundary(base, k) <= end}

\* The boundaries that the loop of maybeResetUserSubscriptionWithPlanTx walks
\* over, numbered.
Passed(base, end, t) ==
    {k \in 1..MaxTime : Boundary(base, k) <= t /\ Boundary(base, k) <= end}

\* The time from which the periods of a row count.
Since(row) == IF row.last > 0 THEN row.last ELSE row.start

Due(row, t) ==
    /\ row.next = 0 \/ row.next <= t
    /\ period # "never"
    /\ Passed(Since(row), row.end, t) # {}

\* Mutants: the reset keeps the usage; the reset keeps the time of the next one.
MaybeReset_KeepsUsage(row, t) ==
    LET base == Since(row)
        to   == Boundary(base, Max(Passed(base, row.end, t)))
    IN  IF Due(row, t) THEN [row EXCEPT !.last = to, !.next = NextReset(to, row.end)] ELSE row

MaybeReset_KeepsNext(row, t) ==
    LET base == Since(row)
    IN  IF Due(row, t)
        THEN [row EXCEPT !.used = 0, !.last = Boundary(base, Max(Passed(base, row.end, t)))]
        ELSE row

\* maybeResetUserSubscriptionWithPlanTx at time t. A row that has no next
\* reset, because the plan had no period when it was created, gets one.
MaybeReset(row, t) ==
    LET base == Since(row)
        to   == Boundary(base, Max(Passed(base, row.end, t)))
    IN  IF Due(row, t)
        THEN [row EXCEPT !.used = 0, !.last = to, !.next = NextReset(to, row.end)]
        ELSE IF row.next = 0 /\ NextReset(base, row.end) > 0
        THEN [row EXCEPT !.last = base, !.next = NextReset(base, row.end)]
        ELSE row

\* The books of rows S begin a new period: nothing is charged to it yet.
NewPeriod(b, S) ==
    [b EXCEPT !.cur   = [r \in Requests |-> IF job[r].sub \in S THEN 0 ELSE b.cur[r]],
              !.old   = @ \cup {r \in Requests : job[r].sub \in S},
              !.leak  = [s \in Subs |-> IF s \in S THEN 0 ELSE b.leak[s]],
              !.again = [s \in Subs |-> IF s \in S THEN 0 ELSE b.again[s]]]

\* The rows S are reset on schedule at time t.
Scheduled(b, S, t) ==
    [NewPeriod(b, S) EXCEPT
        !.grants = [s \in Subs |-> IF s \in S
                      THEN [b.grants[s] EXCEPT ![MaybeReset(sub[s], t).last] = @ + 1]
                      ELSE b.grants[s]]]

\* An administrator resets the rows S and lets their periods count from
\* since[s], which is put down as reopened when they counted from later.
Restarted(b, S, since) ==
    [NewPeriod(b, S) EXCEPT
        !.base     = [s \in Subs |-> IF s \in S THEN b.base[s] \cup {since[s]} ELSE b.base[s]],
        !.reopened = [s \in Subs |-> IF s \in S /\ since[s] < Since(sub[s])
                                     THEN b.reopened[s] + 1 ELSE b.reopened[s]]]

-----------------------------------------------------------------------------
(* Requests. *)

\* The rows PreConsumeUserSubscription reads.
Candidates(t) == {s \in Subs : sub[s].status = "active" /\ sub[s].end > t}

\* s and the rows read before it, in the order by end, then id.
UpTo(s, t) ==
    {c \in Candidates(t) : \/ sub[c].end < sub[s].end
                           \/ sub[c].end = sub[s].end /\ c <= s}

HasRoom(s, amount, t) == Total = 0 \/ Total - MaybeReset(sub[s], t).used >= amount

\* PreConsumeUserSubscription: the first row with room pays, and the rows in
\* front of it that were due are reset as well. When no row has room the
\* transaction is rolled back, resets included, and nothing has changed.
PreConsume(r) ==
    /\ job[r].pc = "idle"
    /\ \E amount \in Amounts, t \in Recent :
       \E s \in {c \in Candidates(t) : HasRoom(c, amount, t)} :
        LET walked == UpTo(s, t)
            due    == {c \in walked : Due(sub[c], t)}
        IN  /\ \A c \in walked \ {s} : ~HasRoom(c, amount, t)
            /\ sub' = [c \in Subs |->
                         IF c \notin walked THEN sub[c]
                         ELSE IF c = s
                         THEN [MaybeReset(sub[c], t) EXCEPT !.used = @ + amount]
                         ELSE MaybeReset(sub[c], t)]
            /\ job' = [job EXCEPT ![r] = [@ EXCEPT !.pc = "held", !.sub = s, !.pre = amount]]
            /\ book' = [Scheduled(book, due, t) EXCEPT !.cur[r] = amount]
    /\ UNCHANGED <<now, period, maint, faults, admin>>

\* Mutant: the usage is not clamped.
NewUsed_Unclamped(s, delta) == sub[s].used + delta

\* PostConsumeUserSubscriptionDelta: the new usage is never negative.
NewUsed(s, delta) == IF sub[s].used + delta < 0 THEN 0 ELSE sub[s].used + delta

\* It fails when the row is gone or the usage would exceed the total.
DeltaFits(s, delta) == Exists(s) /\ (Total = 0 \/ NewUsed(s, delta) <= Total)

\* A reduction first takes back what r charged in this period. What is left
\* is put down with its reason; without one the books will not balance.
Booked(b, r, delta) ==
    LET left   == b.cur[r] + delta
        excess == IF left < 0 THEN -left ELSE 0
    IN  [b EXCEPT
           !.cur[r] = IF left < 0 THEN 0 ELSE left,
           !.again[job[r].sub] = IF b.given[r] > 0 THEN @ + excess ELSE @,
           !.leak[job[r].sub] = IF b.given[r] = 0 /\ r \in b.old THEN @ + excess ELSE @]

PostConsumeDelta(r, delta) ==
    /\ DeltaFits(job[r].sub, delta)
    /\ sub' = [sub EXCEPT ![job[r].sub].used = NewUsed(job[r].sub, delta)]

\* SubscriptionFunding.Settle, once, with the difference to the actual cost.
Settle(r) ==
    /\ job[r].pc = "held"
    /\ \E actual \in Actuals :
        LET delta == actual - job[r].pre
        IN  \/ /\ delta # 0
               /\ PostConsumeDelta(r, delta)
               /\ book' = Booked(book, r, delta)
            \/ /\ delta = 0 \/ ~DeltaFits(job[r].sub, delta)
               /\ UNCHANGED <<sub, book>>
    /\ job' = [job EXCEPT ![r].pc = "settled"]
    /\ UNCHANGED <<now, period, maint, faults, admin>>

\* RefundSubscriptionPreConsume finds the record refunded and returns.
RefundAlready(r) ==
    /\ job[r].pc = "refund"
    /\ job[r].refunded
    /\ job' = [job EXCEPT ![r].pc = "done"]
    /\ UNCHANGED <<now, period, sub, maint, faults, admin, book>>

\* Mutant: the status of the record is not looked at.
RefundDelta_Unchecked(r) ==
    /\ job[r].pc \in {"held", "refund"}
    /\ PostConsumeDelta(r, -job[r].pre)
    /\ book' = [Booked(book, r, -job[r].pre) EXCEPT !.given[r] = @ + 1]
    /\ job' = [job EXCEPT ![r].pc = "mark"]
    /\ UNCHANGED <<now, period, maint, faults, admin>>

\* An attempt of SubscriptionFunding.Refund, the first or a retry, reaches the
\* inner transaction, which takes the amount back and commits.
RefundDelta(r) ==
    /\ job[r].pc \in {"held", "refund"}
    /\ ~job[r].refunded
    /\ PostConsumeDelta(r, -job[r].pre)
    /\ book' = [Booked(book, r, -job[r].pre) EXCEPT !.given[r] = @ + 1]
    /\ job' = [job EXCEPT ![r].pc = "mark"]
    /\ UNCHANGED <<now, period, maint, faults, admin>>

\* refundWithRetry after a failed attempt: wait and try again, or give up.
Failed(j) ==
    [j EXCEPT !.tries = @ + 1, !.pc = IF j.tries + 1 < Attempts THEN "refund" ELSE "gaveup"]

Fault(kind) ==
    /\ kind \in Faulty /\ faults < MaxFaults
    /\ faults' = faults + 1

\* The inner transaction commits and the connection breaks before its answer
\* arrives: the outer one is rolled back, the record stays consumed.
RefundDeltaUnheard(r) ==
    /\ job[r].pc \in {"held", "refund"}
    /\ ~job[r].refunded
    /\ Fault("inner")
    /\ PostConsumeDelta(r, -job[r].pre)
    /\ book' = [Booked(book, r, -job[r].pre) EXCEPT !.given[r] = @ + 1, !.lost[r] = @ + 1]
    /\ job' = [job EXCEPT ![r] = Failed(@)]
    /\ UNCHANGED <<now, period, maint, admin>>

\* The inner transaction fails and leaves nothing: the row is gone.
RefundDeltaFails(r) ==
    /\ job[r].pc \in {"held", "refund"}
    /\ ~job[r].refunded
    /\ ~DeltaFits(job[r].sub, -job[r].pre)
    /\ job' = [job EXCEPT ![r] = Failed(@)]
    /\ UNCHANGED <<now, period, sub, maint, faults, admin, book>>

\* The outer transaction saves the record as refunded and commits.
RefundMark(r) ==
    /\ job[r].pc = "mark"
    /\ job' = [job EXCEPT ![r] = [@ EXCEPT !.pc = "done", !.refunded = TRUE]]
    /\ UNCHANGED <<now, period, sub, maint, faults, admin, book>>

\* It fails: the record stays consumed, the inner transaction stays committed.
RefundMarkFails(r) ==
    /\ job[r].pc = "mark"
    /\ Fault("mark")
    /\ job' = [job EXCEPT ![r] = Failed(@)]
    /\ book' = [book EXCEPT !.lost[r] = @ + 1]
    /\ UNCHANGED <<now, period, sub, maint, admin>>

\* It commits, and the connection breaks before the answer arrives.
RefundAnswerLost(r) ==
    /\ job[r].pc = "mark"
    /\ Fault("answer")
    /\ job' = [job EXCEPT ![r] = [Failed(@) EXCEPT !.refunded = TRUE]]
    /\ UNCHANGED <<now, period, sub, maint, admin, book>>

-----------------------------------------------------------------------------
(* The maintenance pass, one at a time (subscriptionResetRunning). *)

Tick ==
    /\ now < MaxTime
    /\ now' = now + 1
    /\ UNCHANGED <<period, sub, job, maint, faults, admin, book>>

\* A pass begins with ExpireDueSubscriptions: all ended rows of the user become expired; a full
\* batch is followed by another call.
Expire ==
    LET ended == {s \in Subs : sub[s].status = "active" /\ sub[s].end <= now}
    IN  /\ maint.pc \in {"idle", "expire"}
        /\ sub' = [s \in Subs |-> IF s \in ended THEN [sub[s] EXCEPT !.status = "expired"]
                                  ELSE sub[s]]
        /\ maint' = [maint EXCEPT !.pc = IF Cardinality(ended) < Batch THEN "list" ELSE "expire"]
        /\ UNCHANGED <<now, period, job, faults, admin, book>>

\* The rows whose next_reset_time has passed at t.
Overdue(t) == {s \in Subs : sub[s].next > 0 /\ sub[s].next <= t}

\* ResetDueSubscriptions reads a batch of them, the oldest first.
ListDue ==
    LET overdue == {s \in Overdue(now) : sub[s].status = "active"}
    IN  /\ maint.pc = "list"
        /\ \E L \in SUBSET overdue :
            /\ Cardinality(L) = Min({Batch, Cardinality(overdue)})
            /\ \A s \in L, o \in overdue \ L : sub[s].next <= sub[o].next
            /\ maint' = IF L = {} THEN Idle
                        ELSE [pc |-> "rows", seen |-> now, list |-> L, count |-> 0]
        /\ UNCHANGED <<now, period, sub, job, faults, admin, book>>

\* Mutant: the pass goes on until nothing is due, not until a batch is short.
AfterRows_UntilNone(count) == [Idle EXCEPT !.pc = "list"]

\* The pass ends when the rows it reset did not fill a batch.
AfterRows(count) == IF count < Batch THEN Idle ELSE [Idle EXCEPT !.pc = "list"]

\* One row of the list in a transaction of its own, read again under its lock
\* and with the clock of the list. A row that is gone or no longer due is left.
ResetRow ==
    /\ maint.pc = "rows"
    /\ \E s \in maint.list :
        LET found == Exists(s) /\ s \in Overdue(maint.seen)
            due   == found /\ Due(sub[s], maint.seen)
            rest  == maint.list \ {s}
            count == maint.count + (IF found THEN 1 ELSE 0)
        IN  /\ sub' = [sub EXCEPT ![s] = IF found THEN MaybeReset(sub[s], maint.seen) ELSE @]
            /\ book' = IF due THEN Scheduled(book, {s}, maint.seen) ELSE book
            /\ maint' = IF rest # {} THEN [maint EXCEPT !.list = rest, !.count = count]
                        ELSE AfterRows(count)
    /\ UNCHANGED <<now, period, job, faults, admin>>

-----------------------------------------------------------------------------
(* Purchases and administrators. *)

\* CreateUserSubscriptionFromPlanTx, however it was paid.
Create(s) ==
    /\ sub[s].status = "none" /\ now <= LastSale
    /\ \A c \in Subs : c < s => sub[c].status # "none"
    /\ LET next == NextReset(now, now + Life)
       IN  sub' = [sub EXCEPT ![s] =
                     [status |-> "active", used |-> 0, start |-> now, end |-> now + Life,
                      last |-> IF next > 0 THEN now ELSE 0, next |-> next]]
    /\ book' = [book EXCEPT !.base[s] = {now}]
    /\ UNCHANGED <<now, period, job, maint, faults, admin>>

Administers == admin < MaxAdmin /\ admin' = admin + 1

\* AdminInvalidateUserSubscription, in whatever state the row is.
Invalidate(s) ==
    /\ Administers
    /\ Exists(s)
    /\ sub' = [sub EXCEPT ![s] = [@ EXCEPT !.status = "cancelled", !.end = now]]
    /\ UNCHANGED <<now, period, job, maint, faults, book>>

\* AdminDeleteUserSubscription: requests that hold its id find no row.
Delete(s) ==
    /\ Administers
    /\ Exists(s)
    /\ sub' = [sub EXCEPT ![s] = [NoRow EXCEPT !.status = "deleted"]]
    /\ book' = NewPeriod(book, {s})
    /\ UNCHANGED <<now, period, job, maint, faults>>

\* adminResetPlanSubscriptionsTx and its variant for one user. With advance
\* the periods count from now; in the last period there is no next reset and
\* last_reset_time becomes 0, from which a later reset counts from the start.
AdminReset(advance) ==
    /\ Administers
    /\ \E t \in Recent :
        LET R       == Candidates(t)
            next(s) == NextReset(t, sub[s].end)
        IN  /\ R # {}
            /\ sub' = [s \in Subs |->
                 IF s \notin R THEN sub[s]
                 ELSE IF ~advance THEN [sub[s] EXCEPT !.used = 0]
                 ELSE [sub[s] EXCEPT !.used = 0, !.next = next(s),
                                     !.last = IF next(s) > 0 THEN t ELSE 0]]
            /\ book' = IF advance
                       THEN Restarted(book, R, [s \in Subs |-> IF next(s) > 0 THEN t
                                                               ELSE sub[s].start])
                       ELSE NewPeriod(book, R)
    /\ UNCHANGED <<now, period, job, maint, faults>>

\* AdminUpdateSubscriptionPlan changes the period of the plan; the rows keep
\* their times.
EditPlan ==
    /\ Administers
    /\ period' \in Periods \ {period}
    /\ UNCHANGED <<now, sub, job, maint, faults, book>>

-----------------------------------------------------------------------------

Request(r) ==
    \/ PreConsume(r) \/ Settle(r)
    \/ RefundAlready(r) \/ RefundDelta(r) \/ RefundDeltaUnheard(r) \/ RefundDeltaFails(r)
    \/ RefundMark(r) \/ RefundMarkFails(r) \/ RefundAnswerLost(r)

Pass == Expire \/ ListDue \/ ResetRow

Admin ==
    \/ \E s \in Subs : Create(s) \/ Invalidate(s) \/ Delete(s)
    \/ \E advance \in BOOLEAN : AdminReset(advance)
    \/ EditPlan

Next ==
    \/ Tick
    \/ \E r \in Requests : Request(r)
    \/ Pass
    \/ Admin

Spec == Init /\ [][Next]_vars

\* The pass is started every minute by a ticker and its steps are
\* straight-line code. Neither requests nor administrators have to come.
LiveSpec == Spec /\ WF_vars(Pass)

-----------------------------------------------------------------------------
(* Properties. *)

\* Every row and record has its type; the usage of a limited row stays within
\* 0..Total, whatever order charges, refunds and resets come in.
TypeOK ==
    /\ now \in 1..MaxTime /\ period \in Periods
    /\ \A s \in Subs :
        /\ sub[s].status \in {"none", "active", "expired", "cancelled", "deleted"}
        /\ sub[s].used \in Nat /\ (Total > 0 => sub[s].used <= Total)
        /\ {sub[s].start, sub[s].end, sub[s].last, sub[s].next} \subseteq Nat
    /\ \A r \in Requests :
        /\ job[r].pc \in {"idle", "held", "settled", "refund", "mark", "done", "gaveup"}
        /\ job[r].sub \in Subs \cup {0} /\ job[r].pre \in Nat
        /\ job[r].refunded \in BOOLEAN /\ job[r].tries \in 0..Attempts
    /\ maint.pc \in {"idle", "expire", "list", "rows"}
    /\ maint.list \subseteq Subs /\ maint.count \in 0..Batch

Charged(s) == MapThenSumSet(LAMBDA r : book.cur[r], {r \in Requests : job[r].sub = s})

\* The usage of a row is what requests charged to it since its last reset. It
\* is never more, so nobody pays for a period twice. It is less by at most
\* two things: what was taken back, after the reset, of charges from before
\* it (PostConsumeUserSubscriptionDelta does not know which period it
\* undoes), and what repeated attempts of a refund took back again.
Balanced ==
    \A s \in Subs : Exists(s) =>
        /\ sub[s].used <= Charged(s)
        /\ sub[s].used + book.leak[s] + book.again[s] >= Charged(s)

\* The refund of a request takes its amount back once, and once more for each
\* attempt that failed after the inner transaction had committed, because the
\* outer one failed or the answer to the inner commit was lost: at most once
\* for each of the attempts of refundWithRetry. After any other failure, the
\* lost answer of the outer commit included, the retry repeats nothing.
RefundsExplained ==
    \A r \in Requests :
        /\ book.given[r] = book.lost[r]
             + (IF job[r].refunded \/ job[r].pc = "mark" THEN 1 ELSE 0)
        /\ book.given[r] <= Attempts

\* "RefundSubscriptionPreConsume is idempotent and refunds pre-consumed
\* subscription quota by requestId": however often refundWithRetry repeats it,
\* the amount of a record is taken back at most once.
RefundOnce == \A r \in Requests : book.given[r] <= 1

OnGrid(base, b) ==
    \/ b > base /\ (b - base) % Period = 0
    \/ b > base /\ b % Period = 0 /\ "daily" \in Periods

\* A row's usage is reset on schedule only for period boundaries that the
\* clock has passed, and at most once for each of them, though requests and
\* the maintenance pass reset it with clocks of different age. A boundary is
\* granted once more for each time an administrator put the count back: an
\* advance in the last period stores last_reset_time 0 (resetUserSubscriptionTx),
\* from which maybeResetUserSubscriptionWithPlanTx counts from the start
\* again, and an advance may have read its clock before the last reset.
OneAllowancePerPeriod ==
    \A s \in Subs, b \in 1..MaxTime : book.grants[s][b] > 0 =>
        /\ b <= now
        /\ \E base \in book.base[s] : OnGrid(base, b)
        /\ book.grants[s][b] <= 1 + book.reopened[s]

\* The rows that are overdue and would not be reset, because the period of the
\* plan was edited after their reset time was set.
Stuck == {s \in Overdue(now) : sub[s].status = "active" /\ ~Due(sub[s], now)}

\* A pass of the maintenance ends, also when full batches follow each other
\* and rows that are due stay due, unless such rows fill a whole batch:
\* ResetDueSubscriptions counts them as reset, and
\* runSubscriptionQuotaResetOnce reads the same batch again.
PassEnds == (maint.pc # "idle") ~> (maint.pc = "idle" \/ Cardinality(Stuck) >= Batch)

\* Active rows whose reset is due are reset, or end, with or without requests,
\* as long as the plan has a period (ResetDueSubscriptions).
DueAreReset ==
    LET waiting == {s \in Overdue(now) : sub[s].status = "active"}
    IN  (waiting # {}) ~> (waiting = {} \/ period = "never")
=============================================================================
