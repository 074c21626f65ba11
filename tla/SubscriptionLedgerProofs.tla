----------------------- MODULE SubscriptionLedgerProofs -----------------------
(***************************************************************************)
(* Proofs about SubscriptionLedger, for any number of requests and rows,   *)
(* any plan, any sizes of amounts and batches and any bounds.              *)
(***************************************************************************)
EXTENDS SubscriptionLedger, DataInduction

-----------------------------------------------------------------------------
(* Arithmetic of the period boundaries. *)

\* Division with remainder.
LEMMA Quotient ==
    ASSUME NEW x \in Nat, NEW p \in Nat \ {0}
    PROVE  x \div p \in Nat
OBVIOUS

LEMMA Remainder ==
    ASSUME NEW x \in Nat, NEW p \in Nat \ {0}
    PROVE  x % p \in 0..(p - 1)
OBVIOUS

LEMMA Division ==
    ASSUME NEW x \in Nat, NEW p \in Nat \ {0}
    PROVE  x = p * (x \div p) + (x % p)
OBVIOUS

\* A product with a number other than 0 is at least as large as the other factor.
LEMMA AtLeast ==
    ASSUME NEW a \in Int, NEW p \in Nat \ {0}
    PROVE  (a >= 1 => a * p >= p) /\ (a <= -1 => a * p <= -p)
OBVIOUS

\* Multiples leave no remainder.
LEMMA Multiple ==
    ASSUME NEW q \in Nat, NEW p \in Nat \ {0}
    PROVE  (q * p) % p = 0
<1>1. q * p \in Nat
  OBVIOUS
<1>2. PICK d \in Nat, m \in 0..(p - 1) : q * p = p * d + m /\ m = (q * p) % p
  BY <1>1, Quotient, Remainder, Division
<1>3. PICK e \in Int : e = q - d
  OBVIOUS
<1>4. e * p = m
  BY <1>2, <1>3
<1>5. (e >= 1 => e * p >= p) /\ (e <= -1 => e * p <= -p)
  BY AtLeast
<1>6. e = 0
  BY <1>2, <1>4, <1>5
<1> QED BY <1>2, <1>4, <1>6

\* A multiple moved by whole periods is a multiple.
LEMMA Shifted ==
    ASSUME NEW x \in Nat, NEW k \in Nat, NEW p \in Nat \ {0}, x % p = 0
    PROVE  (x + k * p) % p = 0
<1>1. PICK d \in Nat : x = d * p
  BY Quotient, Division
<1>2. x + k * p = (d + k) * p /\ d + k \in Nat
  BY <1>1
<1> QED BY <1>2, Multiple

\* The boundaries of both kinds of periods lie after their base.
LEMMA Later ==
    ASSUME NEW x \in Nat, NEW k \in Nat \ {0}, NEW p \in Nat \ {0}
    PROVE  (x \div p + k) * p > x /\ x + k * p > x
<1>1. PICK d \in Nat, m \in 0..(p - 1) : x = p * d + m /\ d = x \div p
  BY Quotient, Remainder, Division
<1>2. k * p >= p
  BY AtLeast
<1>3. (d + k) * p = p * d + k * p
  OBVIOUS
<1> QED BY <1>1, <1>2, <1>3

\* The smaller of two numbers is no larger than either.
LEMMA Smaller ==
    ASSUME NEW a \in Nat, NEW b \in Nat
    PROVE  Min({a, b}) <= a
<1>1. \E x \in {a, b} : \A y \in {a, b} : x =< y
  OBVIOUS
<1> QED BY <1>1 DEF Min

-----------------------------------------------------------------------------
(* Types. *)

RowType ==
    [status : {"none", "active", "expired", "cancelled", "deleted"},
     used : Nat, start : Nat, end : Nat, last : Nat, next : Nat]

JobType ==
    [pc : {"idle", "held", "settled", "refund", "mark", "done", "gaveup"},
     sub : Subs \cup {0}, pre : Nat, refunded : BOOLEAN, tries : 0..Attempts]

MaintType ==
    [pc : {"idle", "expire", "list", "rows"},
     seen : Nat, list : SUBSET Subs, count : 0..Batch]

BookType ==
    [cur : [Requests -> Int], old : SUBSET Requests,
     given : [Requests -> Nat], lost : [Requests -> Nat],
     leak : [Subs -> Int], again : [Subs -> Int],
     base : [Subs -> SUBSET Nat], grants : [Subs -> [1..MaxTime -> Nat]],
     reopened : [Subs -> Nat]]

\* A row of its type, within the limit of the plan, and empty until created.
Row(row) ==
    /\ row \in RowType
    /\ Total > 0 => row.used <= Total
    /\ row.status = "none" => row = NoRow

\* A request that may still pay or refund knows its row and has attempts left,
\* and a record whose mark is being written is not marked yet.
Job(j) ==
    /\ j \in JobType
    /\ j.pc \in {"held", "refund", "mark"} => j.sub \in Subs
    /\ j.pc \in {"idle", "held", "refund", "mark"} => j.tries < Attempts
    /\ j.pc = "mark" => j.refunded = FALSE

\* The rows that the pass has done and those it has to do are within a batch,
\* and it works with a time that has been.
Maint(m, n) ==
    /\ m \in MaintType
    /\ m.seen <= n
    /\ m.pc = "rows" => m.count + Cardinality(m.list) <= Batch

Typed ==
    /\ now \in 1..MaxTime /\ period \in Periods
    /\ sub \in [Subs -> RowType] /\ \A s \in Subs : Row(sub[s])
    /\ job \in [Requests -> JobType] /\ \A r \in Requests : Job(job[r])
    /\ Maint(maint, now)
    /\ book \in BookType

\* The bounds as separate facts.
LEMMA Bounds ==
    /\ Subs \subseteq Nat \ {0} /\ IsFiniteSet(Subs)
    /\ Total \in Nat /\ Period \in Nat \ {0} /\ Life \in Nat \ {0}
    /\ Amounts \subseteq Nat \ {0} /\ Actuals \subseteq Nat
    /\ Attempts \in Nat \ {0} /\ Batch \in Nat \ {0}
    /\ MaxTime \in Nat \ {0} /\ Lag \in Nat
<1>1. IsFiniteSet(Subs) /\ Subs = 1..Cardinality(Subs)
  BY BoundsAssumption
<1>2. Cardinality(Subs) \in Nat
  BY <1>1, FS_CardinalityType
<1>3. Subs \subseteq Nat \ {0}
  BY <1>1, <1>2
<1> QED BY <1>1, <1>3, BoundsAssumption

\* What the inductive type invariant is for.
LEMMA TypedIsTypeOK == Typed => TypeOK
BY Bounds DEF Typed, TypeOK, Row, Job, Maint, RowType, JobType, MaintType

LEMMA TypedInit == Init => Typed
<1> SUFFICES ASSUME Init PROVE Typed
  OBVIOUS
<1>1. Row(NoRow)
  BY Bounds DEF Row, RowType, NoRow
<1>2. Job(NewJob)
  BY Bounds DEF Job, JobType, NewJob
<1>3. Maint(Idle, 1)
  BY Bounds DEF Maint, MaintType, Idle
<1>4. NewBook \in BookType
  BY DEF NewBook, BookType
<1> QED BY <1>1, <1>2, <1>3, <1>4, Bounds DEF Init, Typed, Row, Job

-----------------------------------------------------------------------------
(* The operators that the actions are built from. *)

LEMMA BoundaryIsLater ==
    ASSUME Typed, NEW base \in Nat, NEW k \in 1..MaxTime
    PROVE  Boundary(base, k) \in Nat /\ Boundary(base, k) > base
<1>1. Period \in Nat \ {0} /\ k \in Nat \ {0}
  BY Bounds
<1>2. base \div Period \in Nat
  BY <1>1, Quotient
<1>3. PICK d \in Nat : d = base \div Period
  BY <1>2
<1>4. (d + k) * Period \in Nat /\ base + k * Period \in Nat
  BY <1>1, <1>3
<1>5. (d + k) * Period > base /\ base + k * Period > base
  BY <1>1, <1>3, Later
<1> QED BY <1>3, <1>4, <1>5 DEF Boundary

LEMMA NextResetType ==
    ASSUME Typed, NEW base \in Nat, NEW end \in Nat
    PROVE  NextReset(base, end) \in Nat
<1>1. Boundary(base, 1) \in Nat
  <2>1. Period \in Nat \ {0}
    BY Bounds
  <2>2. PICK d \in Nat : d = base \div Period
    BY <2>1, Quotient
  <2>3. (d + 1) * Period \in Nat /\ base + 1 * Period \in Nat
    BY <2>1, <2>2
  <2> QED BY <2>2, <2>3 DEF Boundary
<1> QED BY <1>1 DEF NextReset

\* Where a reset moves the periods: to a later boundary that t has passed.
Moves(from, to, t) == \E k \in 1..MaxTime : to = Boundary(from, k) /\ to <= t

\* MaybeReset changes the usage, to 0, only when it moves the periods.
LEMMA MaybeResetRow ==
    ASSUME Typed, NEW row, Row(row), row.status # "none", NEW t \in Nat
    PROVE  /\ Row(MaybeReset(row, t))
           /\ MaybeReset(row, t).status = row.status
           /\ MaybeReset(row, t).start = row.start
           /\ ~Due(row, t) => Since(MaybeReset(row, t)) = Since(row)
           /\ Due(row, t) => /\ Moves(Since(row), Since(MaybeReset(row, t)), t)
                             /\ MaybeReset(row, t).last = Since(MaybeReset(row, t))
<1>1. row \in RowType /\ Since(row) \in Nat /\ row.end \in Nat /\ (Total > 0 => row.used <= Total)
  BY DEF Row, RowType, Since
<1>2. CASE Due(row, t)
  <2>1. Passed(Since(row), row.end, t) # {} /\ Passed(Since(row), row.end, t) \subseteq 1..MaxTime
    BY <1>2 DEF Due, Since, Passed
  <2>2. Max(Passed(Since(row), row.end, t)) \in Passed(Since(row), row.end, t)
    BY <2>1, Largest, Bounds
  <2>3. PICK k \in 1..MaxTime : k = Max(Passed(Since(row), row.end, t)) /\ Boundary(Since(row), k) <= t
    BY <2>1, <2>2 DEF Passed
  <2>4. PICK to \in Nat : to = Boundary(Since(row), k) /\ to > Since(row)
    BY <1>1, BoundaryIsLater
  <2>5. PICK next \in Nat : next = NextReset(to, row.end)
    BY <1>1, <2>4, NextResetType
  <2>6. MaybeReset(row, t) = [row EXCEPT !.used = 0, !.last = to, !.next = next]
    BY <1>2, <2>3, <2>4, <2>5 DEF MaybeReset, Since
  <2>7. PICK m : m = [row EXCEPT !.used = 0, !.last = to, !.next = next]
    OBVIOUS
  <2>8. /\ m \in RowType /\ m.used = 0 /\ m.last = to
        /\ m.status = row.status /\ m.start = row.start
    BY <1>1, <2>4, <2>5, <2>7 DEF RowType
  <2>9. Since(m) = to
    BY <1>1, <2>4, <2>8 DEF Since
  <2>10. Moves(Since(row), Since(m), t)
    BY <2>3, <2>4, <2>9 DEF Moves
  <2>11. Row(m)
    BY <2>8, Bounds DEF Row
  <2> QED BY <1>2, <2>6, <2>7, <2>8, <2>9, <2>10, <2>11
<1>3. CASE ~Due(row, t) /\ row.next = 0 /\ NextReset(Since(row), row.end) > 0
  <2>1. PICK next \in Nat : next = NextReset(Since(row), row.end)
    BY <1>1, NextResetType
  <2>2. MaybeReset(row, t) = [row EXCEPT !.last = Since(row), !.next = next]
    BY <1>3, <2>1 DEF MaybeReset, Since
  <2>3. PICK m : m = [row EXCEPT !.last = Since(row), !.next = next]
    OBVIOUS
  <2>4. /\ m \in RowType /\ m.used = row.used /\ m.status = row.status /\ m.start = row.start
        /\ Since(m) = Since(row)
    BY <1>1, <2>1, <2>3 DEF RowType, Since
  <2> QED BY <1>1, <1>3, <2>2, <2>3, <2>4 DEF Row
<1>4. CASE ~Due(row, t) /\ ~(row.next = 0 /\ NextReset(Since(row), row.end) > 0)
  <2>1. MaybeReset(row, t) = row
    BY <1>4 DEF MaybeReset, Since
  <2> QED BY <2>1, <1>4
<1> QED BY <1>2, <1>3, <1>4

\* NewPeriod, Scheduled, Restarted and Booked: the parts of the book that the
\* theorems are about, and that it keeps its type.
LEMMA NewPeriodBook ==
    ASSUME Typed, NEW S
    PROVE  /\ NewPeriod(book, S) \in BookType
           /\ NewPeriod(book, S).given = book.given /\ NewPeriod(book, S).lost = book.lost
           /\ NewPeriod(book, S).base = book.base /\ NewPeriod(book, S).grants = book.grants
           /\ NewPeriod(book, S).reopened = book.reopened
<1>1. book \in BookType
  BY DEF Typed
<1>2. PICK c \in [Requests -> Int] :
        c = [r \in Requests |-> IF job[r].sub \in S THEN 0 ELSE book.cur[r]]
  <2>1. book.cur \in [Requests -> Int]
    BY <1>1 DEF BookType
  <2>2. [r \in Requests |-> IF job[r].sub \in S THEN 0 ELSE book.cur[r]] \in [Requests -> Int]
    BY <2>1
  <2> QED BY <2>2
<1>3. PICK l \in [Subs -> Int], a \in [Subs -> Int] :
        /\ l = [s \in Subs |-> IF s \in S THEN 0 ELSE book.leak[s]]
        /\ a = [s \in Subs |-> IF s \in S THEN 0 ELSE book.again[s]]
  <2>1. book.leak \in [Subs -> Int] /\ book.again \in [Subs -> Int]
    BY <1>1 DEF BookType
  <2>2. /\ [s \in Subs |-> IF s \in S THEN 0 ELSE book.leak[s]] \in [Subs -> Int]
        /\ [s \in Subs |-> IF s \in S THEN 0 ELSE book.again[s]] \in [Subs -> Int]
    BY <2>1
  <2> QED BY <2>2
<1>4. PICK o \in SUBSET Requests : o = book.old \cup {r \in Requests : job[r].sub \in S}
  BY <1>1 DEF BookType
<1>5. NewPeriod(book, S) = [book EXCEPT !.cur = c, !.old = o, !.leak = l, !.again = a]
  BY <1>2, <1>3, <1>4 DEF NewPeriod
<1> QED BY <1>1, <1>5 DEF BookType

\* A counter goes up by one, if there is one of that name.
LEMMA Counted ==
    ASSUME NEW D, NEW f \in [D -> Nat], NEW x
    PROVE  /\ [f EXCEPT ![x] = @ + 1] \in [D -> Nat]
           /\ x \in D => [f EXCEPT ![x] = @ + 1][x] = f[x] + 1
           /\ \A y \in D \ {x} : [f EXCEPT ![x] = @ + 1][y] = f[y]
<1>1. PICK g : g = [f EXCEPT ![x] = @ + 1]
  OBVIOUS
<1>2. ASSUME NEW y \in D PROVE g[y] = IF y = x THEN f[y] + 1 ELSE f[y]
  BY <1>1
<1>3. ASSUME NEW y \in D PROVE g[y] \in Nat
  BY <1>2
<1>4. g = [y \in D |-> g[y]]
  BY <1>1
<1>5. g \in [D -> Nat]
  BY <1>3, <1>4
<1> QED BY <1>1, <1>2, <1>5

\* The history of a refund that took the amount back, and of an attempt that
\* failed after that.
TakesBack(n, b, r) == n = [b EXCEPT !.given[r] = @ + 1]
Loses(n, b, r) == n = [b EXCEPT !.lost[r] = @ + 1]
TakesAndLoses(n, b, r) == n = [b EXCEPT !.given[r] = @ + 1, !.lost[r] = @ + 1]

LEMMA GivenBook ==
    ASSUME NEW b \in BookType, NEW r \in Requests, NEW n, TakesBack(n, b, r)
    PROVE  /\ n \in BookType /\ n.given[r] = b.given[r] + 1
           /\ \A q \in Requests \ {r} : n.given[q] = b.given[q]
           /\ n.lost = b.lost /\ n.base = b.base /\ n.grants = b.grants
           /\ n.reopened = b.reopened
           /\ n.cur = b.cur /\ n.old = b.old /\ n.leak = b.leak /\ n.again = b.again
<1>1. PICK g \in [Requests -> Nat] : g = b.given
  BY DEF BookType
<1>2. PICK f : f = [g EXCEPT ![r] = @ + 1]
  OBVIOUS
<1>3. /\ f \in [Requests -> Nat] /\ f[r] = g[r] + 1
      /\ \A q \in Requests \ {r} : f[q] = g[q]
  BY <1>2, Counted
<1>4. n = [b EXCEPT !.given = f]
  BY <1>1, <1>2 DEF TakesBack
<1>5. /\ n \in BookType /\ n.given = f
      /\ n.lost = b.lost /\ n.base = b.base /\ n.grants = b.grants
      /\ n.reopened = b.reopened
      /\ n.cur = b.cur /\ n.old = b.old /\ n.leak = b.leak /\ n.again = b.again
  BY <1>3, <1>4 DEF BookType
<1> QED BY <1>1, <1>3, <1>5

LEMMA LostBook ==
    ASSUME NEW b \in BookType, NEW r \in Requests, NEW n, Loses(n, b, r)
    PROVE  /\ n \in BookType /\ n.lost[r] = b.lost[r] + 1
           /\ \A q \in Requests \ {r} : n.lost[q] = b.lost[q]
           /\ n.given = b.given /\ n.base = b.base /\ n.grants = b.grants
           /\ n.reopened = b.reopened
           /\ n.cur = b.cur /\ n.old = b.old /\ n.leak = b.leak /\ n.again = b.again
<1>1. PICK g \in [Requests -> Nat] : g = b.lost
  BY DEF BookType
<1>2. PICK f : f = [g EXCEPT ![r] = @ + 1]
  OBVIOUS
<1>3. /\ f \in [Requests -> Nat] /\ f[r] = g[r] + 1
      /\ \A q \in Requests \ {r} : f[q] = g[q]
  BY <1>2, Counted
<1>4. n = [b EXCEPT !.lost = f]
  BY <1>1, <1>2 DEF Loses
<1>5. /\ n \in BookType /\ n.lost = f
      /\ n.given = b.given /\ n.base = b.base /\ n.grants = b.grants
      /\ n.reopened = b.reopened
      /\ n.cur = b.cur /\ n.old = b.old /\ n.leak = b.leak /\ n.again = b.again
  BY <1>3, <1>4 DEF BookType
<1> QED BY <1>1, <1>3, <1>5

\* Both at once.
LEMMA GivenLostBook ==
    ASSUME NEW b \in BookType, NEW r \in Requests, NEW n, TakesAndLoses(n, b, r)
    PROVE  /\ n \in BookType /\ n.given[r] = b.given[r] + 1 /\ n.lost[r] = b.lost[r] + 1
           /\ \A q \in Requests \ {r} : n.given[q] = b.given[q] /\ n.lost[q] = b.lost[q]
           /\ n.base = b.base /\ n.grants = b.grants /\ n.reopened = b.reopened
           /\ n.cur = b.cur /\ n.old = b.old /\ n.leak = b.leak /\ n.again = b.again
<1>1. PICK m : TakesBack(m, b, r)
  BY DEF TakesBack
<1>2. /\ m \in BookType /\ m.given[r] = b.given[r] + 1
      /\ \A q \in Requests \ {r} : m.given[q] = b.given[q]
      /\ m.lost = b.lost /\ m.base = b.base /\ m.grants = b.grants /\ m.reopened = b.reopened
      /\ m.cur = b.cur /\ m.old = b.old /\ m.leak = b.leak /\ m.again = b.again
  BY <1>1, GivenBook
<1>3. Loses(n, m, r)
  <2>1. m.lost = b.lost
    BY <1>2
  <2> QED BY <1>1, <2>1 DEF BookType, TakesBack, Loses, TakesAndLoses
<1>4. /\ n \in BookType /\ n.lost[r] = m.lost[r] + 1
      /\ \A q \in Requests \ {r} : n.lost[q] = m.lost[q]
      /\ n.given = m.given /\ n.base = m.base /\ n.grants = m.grants /\ n.reopened = m.reopened
      /\ n.cur = m.cur /\ n.old = m.old /\ n.leak = m.leak /\ n.again = m.again
  BY <1>2, <1>3, LostBook
<1> QED BY <1>2, <1>4

\* The charge of a request is set.
LEMMA CurBook ==
    ASSUME NEW b \in BookType, NEW r \in Requests, NEW x \in Int, NEW n,
           n = [b EXCEPT !.cur[r] = x]
    PROVE  /\ n \in BookType /\ n.cur[r] = x
           /\ \A q \in Requests \ {r} : n.cur[q] = b.cur[q]
           /\ n.given = b.given /\ n.lost = b.lost /\ n.base = b.base
           /\ n.grants = b.grants /\ n.reopened = b.reopened
           /\ n.old = b.old /\ n.leak = b.leak /\ n.again = b.again
<1>1. PICK g \in [Requests -> Int] : g = b.cur
  BY DEF BookType
<1>2. PICK f : f = [g EXCEPT ![r] = x]
  OBVIOUS
<1>3. f \in [Requests -> Int] /\ f[r] = x /\ \A q \in Requests \ {r} : f[q] = g[q]
  BY <1>2
<1>4. n = [b EXCEPT !.cur = f]
  BY <1>1, <1>2
<1>5. /\ n \in BookType /\ n.cur = f
      /\ n.given = b.given /\ n.lost = b.lost /\ n.base = b.base
      /\ n.grants = b.grants /\ n.reopened = b.reopened
      /\ n.old = b.old /\ n.leak = b.leak /\ n.again = b.again
  BY <1>3, <1>4 DEF BookType
<1> QED BY <1>1, <1>3, <1>5

LEMMA ScheduledBook ==
    ASSUME Typed, NEW S, NEW t
    PROVE  /\ Scheduled(book, S, t) \in BookType
           /\ Scheduled(book, S, t).given = book.given /\ Scheduled(book, S, t).lost = book.lost
           /\ Scheduled(book, S, t).base = book.base
           /\ Scheduled(book, S, t).reopened = book.reopened
           /\ \A s \in Subs : Scheduled(book, S, t).grants[s] =
                IF s \in S THEN [book.grants[s] EXCEPT ![MaybeReset(sub[s], t).last] = @ + 1]
                ELSE book.grants[s]
<1>1. PICK b \in BookType :
        /\ b = NewPeriod(book, S) /\ b.given = book.given /\ b.lost = book.lost
        /\ b.base = book.base /\ b.reopened = book.reopened
  BY NewPeriodBook
<1>2. PICK n : n = [s \in Subs |->
                      IF s \in S THEN [book.grants[s] EXCEPT ![MaybeReset(sub[s], t).last] = @ + 1]
                      ELSE book.grants[s]]
  OBVIOUS
<1>3. n \in [Subs -> [1..MaxTime -> Nat]]
  <2>1. ASSUME NEW s \in Subs PROVE n[s] \in [1..MaxTime -> Nat]
    <3>1. PICK f \in [1..MaxTime -> Nat] : f = book.grants[s]
      BY DEF Typed, BookType
    <3>a. PICK x : x = MaybeReset(sub[s], t).last
      OBVIOUS
    <3>2. [f EXCEPT ![x] = @ + 1] \in [1..MaxTime -> Nat]
      BY Counted
    <3> QED BY <1>2, <3>1, <3>a, <3>2
  <2> QED BY <1>2, <2>1
<1>4. Scheduled(book, S, t) = [b EXCEPT !.grants = n]
  BY <1>1, <1>2 DEF Scheduled
<1>5. PICK d : d = [b EXCEPT !.grants = n]
  OBVIOUS
<1>6. /\ d \in BookType /\ d.given = b.given /\ d.lost = b.lost /\ d.base = b.base
      /\ d.reopened = b.reopened /\ d.grants = n
  BY <1>1, <1>3, <1>5 DEF BookType
<1> QED BY <1>1, <1>2, <1>4, <1>5, <1>6

LEMMA RestartedBook ==
    ASSUME Typed, NEW S, NEW since \in [Subs -> Nat]
    PROVE  /\ Restarted(book, S, since) \in BookType
           /\ Restarted(book, S, since).given = book.given
           /\ Restarted(book, S, since).lost = book.lost
           /\ Restarted(book, S, since).grants = book.grants
           /\ \A s \in Subs :
                /\ Restarted(book, S, since).base[s] =
                     IF s \in S THEN book.base[s] \cup {since[s]} ELSE book.base[s]
                /\ Restarted(book, S, since).reopened[s] =
                     IF s \in S /\ since[s] < Since(sub[s]) THEN book.reopened[s] + 1
                     ELSE book.reopened[s]
<1>1. PICK b \in BookType : /\ b = NewPeriod(book, S) /\ b.given = book.given /\ b.lost = book.lost
                            /\ b.grants = book.grants
  BY NewPeriodBook
<1>2. book.reopened \in [Subs -> Nat] /\ book.base \in [Subs -> SUBSET Nat]
  BY DEF Typed, BookType
<1>3. PICK n : n = [s \in Subs |-> IF s \in S /\ since[s] < Since(sub[s])
                                   THEN book.reopened[s] + 1 ELSE book.reopened[s]]
  OBVIOUS
<1>4. n \in [Subs -> Nat]
  BY <1>2, <1>3
<1>5. PICK a : a = [s \in Subs |-> IF s \in S THEN book.base[s] \cup {since[s]} ELSE book.base[s]]
  OBVIOUS
<1>6. a \in [Subs -> SUBSET Nat]
  <2>1. ASSUME NEW s \in Subs PROVE a[s] \in SUBSET Nat
    <3>1. book.base[s] \subseteq Nat /\ since[s] \in Nat
      BY <1>2
    <3> QED BY <1>5, <3>1
  <2> QED BY <1>5, <2>1
<1>7. Restarted(book, S, since) = [b EXCEPT !.base = a, !.reopened = n]
  BY <1>1, <1>3, <1>5 DEF Restarted
<1>8. PICK d : d = [b EXCEPT !.base = a, !.reopened = n]
  OBVIOUS
<1>9. /\ d \in BookType /\ d.given = b.given /\ d.lost = b.lost /\ d.grants = b.grants
      /\ d.base = a /\ d.reopened = n
  BY <1>1, <1>4, <1>6, <1>8 DEF BookType
<1> QED BY <1>1, <1>3, <1>5, <1>7, <1>8, <1>9

LEMMA BookedBook ==
    ASSUME Typed, NEW r \in Requests, job[r].sub \in Subs, NEW delta \in Int
    PROVE  /\ Booked(book, r, delta) \in BookType
           /\ Booked(book, r, delta).given = book.given /\ Booked(book, r, delta).lost = book.lost
           /\ Booked(book, r, delta).old = book.old
           /\ Booked(book, r, delta).base = book.base
           /\ Booked(book, r, delta).grants = book.grants
           /\ Booked(book, r, delta).reopened = book.reopened
<1>1. /\ book \in BookType /\ book.cur[r] \in Int
      /\ book.leak[job[r].sub] \in Int /\ book.again[job[r].sub] \in Int
  BY DEF Typed, BookType
<1>2. PICK left \in Int, excess \in Int :
        left = book.cur[r] + delta /\ excess = IF left < 0 THEN -left ELSE 0
  BY <1>1
<1>3. PICK c \in Int : c = IF left < 0 THEN 0 ELSE left
  BY <1>2
<1>4. PICK a \in Int, l \in Int :
        /\ a = IF book.given[r] > 0 THEN book.again[job[r].sub] + excess ELSE book.again[job[r].sub]
        /\ l = IF book.given[r] = 0 /\ r \in book.old THEN book.leak[job[r].sub] + excess
               ELSE book.leak[job[r].sub]
  BY <1>1, <1>2
<1>5. Booked(book, r, delta) =
        [book EXCEPT !.cur[r] = c, !.again[job[r].sub] = a, !.leak[job[r].sub] = l]
  BY <1>2, <1>3, <1>4 DEF Booked
<1>6. PICK s \in Subs : s = job[r].sub
  OBVIOUS
<1>7. PICK d : d = [book EXCEPT !.cur[r] = c, !.again[s] = a, !.leak[s] = l]
  OBVIOUS
<1>8. /\ d \in BookType /\ d.given = book.given /\ d.lost = book.lost /\ d.base = book.base
      /\ d.old = book.old /\ d.grants = book.grants /\ d.reopened = book.reopened
  BY <1>1, <1>7 DEF BookType
<1> QED BY <1>5, <1>6, <1>7, <1>8

-----------------------------------------------------------------------------
(* What a step does to a row, and to the refund of a request. *)

\* A row that can be used.
There(row) == row.status \notin {"none", "deleted"}

\* What the book says of the periods of row s stays.
SameCount(s) ==
    /\ book'.base[s] = book.base[s] /\ book'.grants[s] = book.grants[s]
    /\ book'.reopened[s] = book.reopened[s]

\* The periods of row s stay where they are, or the row is gone.
Kept(s) ==
    /\ There(sub'[s]) => /\ There(sub[s]) /\ Since(sub'[s]) = Since(sub[s])
                         /\ sub'[s].start = sub[s].start
    /\ sub'[s].status = "none" => sub[s].status = "none"
    /\ SameCount(s)

\* A scheduled reset moves them to a later boundary.
Renewed(s) ==
    /\ There(sub[s]) /\ There(sub'[s]) /\ sub'[s].start = sub[s].start
    /\ Moves(Since(sub[s]), Since(sub'[s]), now)
    /\ book'.base[s] = book.base[s] /\ book'.reopened[s] = book.reopened[s]
    /\ book'.grants[s] = [book.grants[s] EXCEPT ![Since(sub'[s])] = @ + 1]

\* They count anew.
Begun(s) ==
    /\ There(sub[s]) /\ There(sub'[s]) /\ sub'[s].start = sub[s].start
    /\ book'.base[s] = book.base[s] \cup {Since(sub'[s])} /\ book'.grants[s] = book.grants[s]
    /\ book'.reopened[s] = book.reopened[s] + (IF Since(sub'[s]) < Since(sub[s]) THEN 1 ELSE 0)

\* The row is created.
Created(s) ==
    /\ sub[s].status = "none" /\ There(sub'[s])
    /\ sub'[s].start = now /\ Since(sub'[s]) = now
    /\ book'.base[s] = {now} /\ book'.grants[s] = book.grants[s]
    /\ book'.reopened[s] = book.reopened[s]

RowStep(s) == Kept(s) \/ Renewed(s) \/ Begun(s) \/ Created(s)

\* Whether the amount of a record counts as taken back.
Owed(j) == IF j.refunded \/ j.pc = "mark" THEN 1 ELSE 0

\* The amount was taken back once and once for each lost attempt, of which
\* there were no more than attempts that failed.
Even(b, j, r) ==
    /\ b.given[r] = b.lost[r] + Owed(j)
    /\ b.lost[r] <= j.tries /\ b.given[r] <= Attempts

\* A refund of r, a failed mark and the record of r go together.
EvenStep(r) == Even(book, job[r], r) => Even(book', job'[r], r)

Good ==
    /\ Typed'
    /\ now' \in {now, now + 1}
    /\ \A s \in Subs : RowStep(s)
    /\ \A r \in Requests : EvenStep(r)

SameBook ==
    book'.base = book.base /\ book'.grants = book.grants /\ book'.reopened = book.reopened

\* A step that leaves the rows and their books is good when the rest is.
LEMMA RowsKept ==
    ASSUME Typed, sub' = sub, SameBook
    PROVE  \A s \in Subs : Row(sub'[s]) /\ RowStep(s)
BY DEF Typed, RowStep, Kept, SameCount, SameBook

LEMMA RefundsKept ==
    ASSUME job' = job, book'.given = book.given, book'.lost = book.lost
    PROVE  \A r \in Requests : EvenStep(r)
BY DEF EvenStep, Even

\* One row changes its usage, within the limit.
LEMMA Charge ==
    ASSUME Typed, NEW s \in Subs, NEW u \in Nat, Total > 0 => u <= Total,
           sub[s].status # "none",
           sub' = [sub EXCEPT ![s].used = u],
           SameBook
    PROVE  /\ sub' \in [Subs -> RowType]
           /\ \A c \in Subs : Row(sub'[c]) /\ RowStep(c)
<1>1. sub \in [Subs -> RowType] /\ sub[s] \in RowType
  BY DEF Typed
<1>2. PICK m : m = [sub[s] EXCEPT !.used = u]
  OBVIOUS
<1>3. /\ m \in RowType /\ m.used = u /\ m.status = sub[s].status
      /\ m.start = sub[s].start /\ m.last = sub[s].last
  BY <1>1, <1>2 DEF RowType
<1>4. sub' \in [Subs -> RowType] /\ sub'[s] = m /\ \A c \in Subs \ {s} : sub'[c] = sub[c]
  BY <1>1, <1>2, <1>3
<1>5. \A c \in Subs : Row(sub'[c])
  BY <1>3, <1>4 DEF Typed, Row
<1>6. \A c \in Subs : Kept(c)
  BY <1>3, <1>4 DEF Kept, Since, There, SameCount, SameBook
<1> QED BY <1>4, <1>5, <1>6 DEF RowStep

\* One request changes.
LEMMA JobStep ==
    ASSUME Typed, NEW r \in Requests, NEW j, Job(j),
           job' = [job EXCEPT ![r] = j]
    PROVE  /\ job' \in [Requests -> JobType]
           /\ \A q \in Requests : Job(job'[q])
           /\ job'[r] = j /\ \A q \in Requests \ {r} : job'[q] = job[q]
BY DEF Typed, Job

\* The other requests are not disturbed.
LEMMA OthersEven ==
    ASSUME NEW r \in Requests, EvenStep(r),
           \A q \in Requests \ {r} :
                job'[q] = job[q] /\ book'.given[q] = book.given[q] /\ book'.lost[q] = book.lost[q]
    PROVE  \A q \in Requests : EvenStep(q)
BY DEF EvenStep, Even

-----------------------------------------------------------------------------
(* The actions of requests. *)

\* A clock that a transaction may have read lies in the past.
LEMMA RecentIsPast ==
    ASSUME Typed, NEW t \in Recent
    PROVE  t \in Nat /\ t <= now
BY Bounds DEF Typed, Recent

LEMMA PreConsumeGood ==
    ASSUME Typed, NEW r \in Requests, PreConsume(r)
    PROVE  Good
<1>1. PICK amount \in Amounts, t \in Recent :
       \E s \in {c \in Candidates(t) : HasRoom(c, amount, t)} :
        LET walked == UpTo(s, t)
            due    == {c \in walked : Due(sub[c], t)}
        IN  /\ \A c \in walked \ {s} : ~HasRoom(c, amount, t)
            /\ sub' = [c \in Subs |->
                         IF c \notin walked THEN sub[c]
                         ELSE IF c = s
                         THEN [MaybeReset(sub[c], t) EXCEPT !.used = @ + amount]
                         ELSE MaybeReset(sub[c], t)]
            /\ job' = [job EXCEPT ![r] = [@ EXCEPT !.pc = "held", !.sub = s, !.pre = amount]]
            /\ book' = [Scheduled(book, due, t) EXCEPT !.cur[r] = amount]
  BY DEF PreConsume
<1>2. PICK s \in Candidates(t) :
        /\ HasRoom(s, amount, t)
        /\ sub' = [c \in Subs |->
                     IF c \notin UpTo(s, t) THEN sub[c]
                     ELSE IF c = s
                     THEN [MaybeReset(sub[c], t) EXCEPT !.used = @ + amount]
                     ELSE MaybeReset(sub[c], t)]
        /\ job' = [job EXCEPT ![r] = [@ EXCEPT !.pc = "held", !.sub = s, !.pre = amount]]
        /\ book' = [Scheduled(book, {c \in UpTo(s, t) : Due(sub[c], t)}, t) EXCEPT !.cur[r] = amount]
  BY <1>1
<1>3. t \in Nat /\ t <= now /\ amount \in Nat /\ now \in Nat
  BY RecentIsPast, Bounds DEF Typed
<1>4. s \in Subs /\ sub[s].status = "active" /\ \A c \in UpTo(s, t) : c \in Subs /\ sub[c].status = "active"
  BY DEF Candidates, UpTo
<1>5. PICK due : due = {c \in UpTo(s, t) : Due(sub[c], t)}
  OBVIOUS
<1>6. PICK b \in BookType :
        /\ b = Scheduled(book, due, t) /\ b.given = book.given /\ b.lost = book.lost
        /\ b.base = book.base /\ b.reopened = book.reopened
        /\ \A c \in Subs : b.grants[c] =
             IF c \in due THEN [book.grants[c] EXCEPT ![MaybeReset(sub[c], t).last] = @ + 1]
             ELSE book.grants[c]
  BY ScheduledBook
<1>7. book' = [b EXCEPT !.cur[r] = amount]
  BY <1>2, <1>5, <1>6
<1>8. /\ book' \in BookType /\ book'.given = book.given /\ book'.lost = book.lost
      /\ book'.base = book.base /\ book'.reopened = book.reopened /\ book'.grants = b.grants
  <2>1. amount \in Int
    BY <1>3
  <2>2. PICK n : n = book' /\ n = [b EXCEPT !.cur[r] = amount]
    BY <1>7
  <2>3. /\ n \in BookType /\ n.given = b.given /\ n.lost = b.lost /\ n.base = b.base
        /\ n.grants = b.grants /\ n.reopened = b.reopened
    BY <2>1, <2>2, CurBook
  <2> QED BY <1>6, <2>2, <2>3
<1>9. \A c \in Subs : sub[c] \in RowType /\ Row(sub[c])
  BY DEF Typed, BookType
<1>10. \A c \in Subs \ UpTo(s, t) : sub'[c] = sub[c] /\ Kept(c)
  <2> SUFFICES ASSUME NEW c \in Subs \ UpTo(s, t) PROVE sub'[c] = sub[c] /\ Kept(c)
    OBVIOUS
  <2>1. sub'[c] = sub[c]
    BY <1>2
  <2>2. book'.grants[c] = book.grants[c]
    BY <1>5, <1>6, <1>8
  <2> QED BY <2>1, <2>2, <1>8 DEF Kept, SameCount
<1>11. \A c \in UpTo(s, t) \ {s} : sub'[c] = MaybeReset(sub[c], t)
  BY <1>2, <1>4
<1>12. ASSUME s \in UpTo(s, t)
       PROVE  /\ Row(sub'[s]) /\ sub'[s].start = MaybeReset(sub[s], t).start
              /\ sub'[s].status = "active"
              /\ Since(sub'[s]) = Since(MaybeReset(sub[s], t))
  <2>1. PICK m : m = MaybeReset(sub[s], t)
    OBVIOUS
  <2>2. Row(m) /\ m.status = "active"
    BY <2>1, <1>3, <1>4, <1>9, MaybeResetRow
  <2>3. sub'[s] = [m EXCEPT !.used = m.used + amount]
    BY <1>2, <1>4, <1>12, <2>1
  <2>4. Total = 0 \/ Total - m.used >= amount
    BY <1>2, <2>1 DEF HasRoom
  <2>5. m \in RowType /\ m.used \in Nat
    BY <2>2 DEF Row, RowType
  <2>6. PICK u \in Nat : u = m.used + amount
    BY <2>5, <1>3
  <2>7. PICK k : k = [m EXCEPT !.used = u]
    OBVIOUS
  <2>8. /\ k \in RowType /\ k.used = u /\ k.status = m.status /\ k.start = m.start
        /\ k.last = m.last
    BY <2>5, <2>7 DEF RowType
  <2>9. Total > 0 => u <= Total
    BY <2>4, <2>5, <2>6, <1>3, Bounds
  <2>10. sub'[s] = k
    BY <2>3, <2>6, <2>7
  <2> QED BY <2>1, <2>2, <2>8, <2>9, <2>10 DEF Row, Since
<1>13. ASSUME NEW c \in UpTo(s, t) PROVE Row(sub'[c]) /\ RowStep(c)
  <2>1. c \in Subs /\ sub[c].status # "none" /\ Row(sub[c])
    BY <1>4, <1>9
  <2>2. /\ Row(MaybeReset(sub[c], t))
        /\ MaybeReset(sub[c], t).start = sub[c].start
        /\ MaybeReset(sub[c], t).status = sub[c].status
        /\ ~Due(sub[c], t) => Since(MaybeReset(sub[c], t)) = Since(sub[c])
        /\ Due(sub[c], t) => /\ Moves(Since(sub[c]), Since(MaybeReset(sub[c], t)), t)
                             /\ MaybeReset(sub[c], t).last = Since(MaybeReset(sub[c], t))
    BY <2>1, <1>3, MaybeResetRow
  <2>3. /\ Row(sub'[c]) /\ sub'[c].start = sub[c].start /\ There(sub[c]) /\ There(sub'[c])
        /\ Since(sub'[c]) = Since(MaybeReset(sub[c], t))
    BY <1>4, <2>2, <1>11, <1>12 DEF There
  <2>4. CASE Due(sub[c], t)
    <3>1. Moves(Since(sub[c]), Since(sub'[c]), t)
      BY <2>2, <2>3, <2>4
    <3>2. PICK k \in 1..MaxTime : Since(sub'[c]) = Boundary(Since(sub[c]), k) /\ Since(sub'[c]) <= t
      BY <3>1 DEF Moves
    <3>3. Since(sub'[c]) \in Nat
      BY <2>3 DEF Row, RowType, Since
    <3>4. Moves(Since(sub[c]), Since(sub'[c]), now)
      BY <3>2, <3>3, <1>3 DEF Moves
    <3>5. book'.grants[c] = [book.grants[c] EXCEPT ![Since(sub'[c])] = @ + 1]
      BY <1>5, <1>6, <1>8, <2>1, <2>2, <2>3, <2>4
    <3> QED BY <3>4, <3>5, <2>3, <1>8 DEF RowStep, Renewed
  <2>5. CASE ~Due(sub[c], t)
    <3>1. book'.grants[c] = book.grants[c]
      BY <1>5, <1>6, <1>8, <2>1, <2>5
    <3> QED BY <3>1, <2>2, <2>3, <2>5, <1>8 DEF RowStep, Kept, There, SameCount
  <2> QED BY <2>4, <2>5
<1>14. \A c \in Subs : Row(sub'[c]) /\ RowStep(c)
  BY <1>9, <1>10, <1>13 DEF RowStep
<1>15. sub' \in [Subs -> RowType]
  <2>1. sub' = [c \in Subs |-> sub'[c]]
    BY <1>2
  <2> QED BY <2>1, <1>14 DEF Row
<1>16. PICK j : j = [job[r] EXCEPT !.pc = "held", !.sub = s, !.pre = amount]
  OBVIOUS
<1>17. /\ j \in JobType /\ j.pc = "held" /\ j.sub = s /\ j.tries = job[r].tries
       /\ j.refunded = job[r].refunded /\ job[r].pc = "idle" /\ Job(job[r])
  BY <1>3, <1>4, <1>16, ZenonT(60) DEF Typed, JobType, PreConsume
<1>18. Job(j)
  BY <1>4, <1>17 DEF Job
<1>19. job' = [job EXCEPT ![r] = j]
  BY <1>2, <1>16
<1>20. /\ job' \in [Requests -> JobType] /\ \A q \in Requests : Job(job'[q])
       /\ job'[r] = j /\ \A q \in Requests \ {r} : job'[q] = job[q]
  BY <1>18, <1>19, JobStep
<1>21. EvenStep(r)
  BY <1>8, <1>17, <1>20 DEF EvenStep, Even, Owed
<1>22. \A q \in Requests : EvenStep(q)
  BY <1>8, <1>20, <1>21, OthersEven
<1>23. now' = now /\ period' = period /\ maint' = maint
  BY DEF PreConsume
<1> QED BY <1>8, <1>14, <1>15, <1>20, <1>22, <1>23 DEF Good, Typed

\* A change of the usage that the code lets through.
LEMMA PostConsumeRows ==
    ASSUME Typed, NEW r \in Requests, job[r].sub \in Subs, NEW delta \in Int,
           PostConsumeDelta(r, delta), SameBook
    PROVE  sub' \in [Subs -> RowType] /\ \A c \in Subs : Row(sub'[c]) /\ RowStep(c)
<1>1. PICK s \in Subs : s = job[r].sub
  OBVIOUS
<1>2. sub[s].used \in Nat
  BY DEF Typed, RowType
<1>3. PICK u \in Nat : u = NewUsed(s, delta)
  BY <1>2 DEF NewUsed
<1>4. Total > 0 => u <= Total
  BY <1>1, <1>3, Bounds DEF PostConsumeDelta, DeltaFits
<1>5. sub[s].status # "none" /\ sub' = [sub EXCEPT ![s].used = u]
  BY <1>1, <1>3 DEF PostConsumeDelta, DeltaFits, Exists
<1> QED BY <1>4, <1>5, Charge

\* A request leaves what it had read of its record alone and moves on.
LEMMA SettleGood ==
    ASSUME Typed, NEW r \in Requests, Settle(r)
    PROVE  Good
<1>1. Job(job[r]) /\ job[r] \in JobType /\ job[r].pc = "held" /\ job[r].sub \in Subs /\ job[r].pre \in Nat
  BY DEF Typed, Job, JobType, Settle
<1>2. PICK j : j = [job[r] EXCEPT !.pc = "settled"]
  OBVIOUS
<1>3. /\ j \in JobType /\ j.pc = "settled" /\ j.refunded = job[r].refunded /\ j.tries = job[r].tries
  BY <1>1, <1>2 DEF JobType
<1>4. Job(j) /\ job' = [job EXCEPT ![r] = j]
  BY <1>2, <1>3 DEF Job, Settle
<1>5. /\ job' \in [Requests -> JobType] /\ \A q \in Requests : Job(job'[q])
      /\ job'[r] = j /\ \A q \in Requests \ {r} : job'[q] = job[q]
  BY <1>4, JobStep
<1>6. /\ book' \in BookType /\ book'.given = book.given /\ book'.lost = book.lost
      /\ sub' \in [Subs -> RowType] /\ \A c \in Subs : Row(sub'[c]) /\ RowStep(c)
  <2>1. PICK actual \in Actuals :
          \/ PostConsumeDelta(r, actual - job[r].pre) /\ book' = Booked(book, r, actual - job[r].pre)
          \/ UNCHANGED <<sub, book>>
    BY DEF Settle
  <2>2. CASE UNCHANGED <<sub, book>>
    <3>1. sub' = sub /\ book' = book /\ SameBook
      BY <2>2 DEF SameBook
    <3> QED BY <3>1, RowsKept DEF Typed
  <2>3. CASE PostConsumeDelta(r, actual - job[r].pre) /\ book' = Booked(book, r, actual - job[r].pre)
    <3>1. PICK delta \in Int : delta = actual - job[r].pre
      BY <1>1, Bounds
    <3>2. PostConsumeDelta(r, delta) /\ book' = Booked(book, r, delta)
      BY <2>3, <3>1
    <3>3. /\ book' \in BookType /\ book'.given = book.given /\ book'.lost = book.lost
          /\ SameBook
      BY <1>1, <3>2, BookedBook DEF SameBook
    <3> QED BY <1>1, <3>2, <3>3, PostConsumeRows
  <2> QED BY <2>1, <2>2, <2>3
<1>7. EvenStep(r)
  BY <1>1, <1>3, <1>5, <1>6 DEF EvenStep, Even, Owed
<1>8. \A q \in Requests : EvenStep(q)
  BY <1>5, <1>6, <1>7, OthersEven
<1>9. now' = now /\ period' = period /\ maint' = maint
  BY DEF Settle
<1> QED BY <1>5, <1>6, <1>8, <1>9 DEF Good, Typed

\* The steps of a refund that leave the rows alone: the record and its request
\* become j, and a failed mark is written down.
LEMMA RecordGood ==
    ASSUME Typed, NEW r \in Requests, NEW j, Job(j),
           job' = [job EXCEPT ![r] = j],
           UNCHANGED <<now, period, sub, maint>>,
           \/ book' = book /\ Owed(j) = Owed(job[r]) /\ job[r].tries <= j.tries
           \/ /\ book' = [book EXCEPT !.lost[r] = @ + 1] /\ Owed(j) + 1 = Owed(job[r])
              /\ job[r].tries + 1 = j.tries
    PROVE  Good
<1>1. /\ job' \in [Requests -> JobType] /\ \A q \in Requests : Job(job'[q])
      /\ job'[r] = j /\ \A q \in Requests \ {r} : job'[q] = job[q]
  BY JobStep
<1>2. book \in BookType /\ book.lost \in [Requests -> Nat] /\ book.given \in [Requests -> Nat]
  BY DEF Typed, BookType
<1>3. /\ book' \in BookType /\ book'.given = book.given /\ SameBook
      /\ \A q \in Requests \ {r} : book'.lost[q] = book.lost[q]
  <2>1. CASE book' = book
    BY <1>2, <2>1 DEF SameBook
  <2>2. CASE book' = [book EXCEPT !.lost[r] = @ + 1]
    <3>1. PICK b, n : b \in BookType /\ b = book /\ n = book'
      BY <1>2
    <3>2. Loses(n, b, r)
      BY <2>2, <3>1 DEF Loses
    <3>3. /\ n \in BookType /\ n.given = b.given
          /\ \A q \in Requests \ {r} : n.lost[q] = b.lost[q]
          /\ n.base = b.base /\ n.grants = b.grants /\ n.reopened = b.reopened
      BY <3>1, <3>2, LostBook
    <3> QED BY <3>1, <3>3 DEF SameBook
  <2> QED BY <2>1, <2>2
<1>4. Owed(j) \in Nat /\ Owed(job[r]) \in Nat /\ j.tries \in Nat /\ job[r].tries \in Nat
  BY Bounds DEF Owed, Job, JobType, Typed
<1>5. \/ book'.lost[r] = book.lost[r] /\ Owed(j) = Owed(job[r]) /\ job[r].tries <= j.tries
      \/ /\ book'.lost[r] = book.lost[r] + 1 /\ Owed(j) + 1 = Owed(job[r])
         /\ job[r].tries + 1 = j.tries
  <2>1. CASE book' = [book EXCEPT !.lost[r] = @ + 1]
    <3>1. PICK b, n : b \in BookType /\ b = book /\ n = book'
      BY <1>2
    <3>2. Loses(n, b, r)
      BY <2>1, <3>1 DEF Loses
    <3>3. n.lost[r] = b.lost[r] + 1
      BY <3>1, <3>2, LostBook
    <3>4. PICK x, y : x \in Nat /\ x = book.lost[r] /\ y = book'.lost[r] /\ y = x + 1
      BY <1>2, <3>1, <3>3
    <3>5. CASE book' = book
      <4>1. y = x
        BY <3>4, <3>5
      <4> QED BY <3>4, <4>1
    <3> QED BY <3>1, <3>3, <3>5
  <2> QED BY <2>1
<1>6. book'.given[r] = book.given[r] /\ book.given[r] \in Nat /\ book.lost[r] \in Nat
  BY <1>2, <1>3
<1>7. EvenStep(r)
  BY <1>1, <1>4, <1>5, <1>6 DEF EvenStep, Even
<1>8. \A q \in Requests : EvenStep(q)
  BY <1>1, <1>3, <1>7, OthersEven
<1>9. sub' = sub /\ now' = now /\ period' = period /\ maint' = maint
  OBVIOUS
<1>10. \A s \in Subs : Row(sub'[s]) /\ RowStep(s)
  BY <1>3, <1>9, RowsKept
<1> QED BY <1>1, <1>3, <1>8, <1>9, <1>10 DEF Good, Typed

\* A failed attempt, with one of its attempts left or none.
LEMMA FailedJob ==
    ASSUME Typed, NEW r \in Requests, job[r].pc \in {"held", "refund", "mark"}
    PROVE  /\ Job(Failed(job[r])) /\ Failed(job[r]) \in JobType
           /\ Failed(job[r]).pc \in {"refund", "gaveup"}
           /\ Failed(job[r]).refunded = job[r].refunded
           /\ Failed(job[r]).tries = job[r].tries + 1 /\ job[r].tries \in Nat
           /\ Failed(job[r]).tries <= Attempts
<1>1. Job(job[r]) /\ job[r] \in JobType /\ job[r].tries \in 0..Attempts /\ job[r].tries < Attempts /\ job[r].sub \in Subs
  BY DEF Typed, Job, JobType
<1>2. PICK n \in 0..Attempts : n = job[r].tries + 1
  BY <1>1, Bounds
<1>3. PICK p \in {"refund", "gaveup"} : p = (IF n < Attempts THEN "refund" ELSE "gaveup")
  OBVIOUS
<1>4. Failed(job[r]) = [job[r] EXCEPT !.tries = n, !.pc = p]
  BY <1>2, <1>3 DEF Failed
<1>5. PICK j : j = [job[r] EXCEPT !.tries = n, !.pc = p]
  OBVIOUS
<1>6. j \in JobType /\ j.tries = n /\ j.pc = p /\ j.sub = job[r].sub /\ j.refunded = job[r].refunded
  BY <1>1, <1>3, <1>5 DEF JobType
<1>7. Job(j)
  BY <1>1, <1>2, <1>3, <1>6, Bounds DEF Job
<1> QED BY <1>1, <1>2, <1>3, <1>4, <1>5, <1>6, <1>7, Bounds

LEMMA RefundAlreadyGood ==
    ASSUME Typed, NEW r \in Requests, RefundAlready(r)
    PROVE  Good
<1>1. job[r] \in JobType /\ job[r].refunded = TRUE
  BY DEF Typed, JobType, RefundAlready
<1>2. PICK j : j = [job[r] EXCEPT !.pc = "done"]
  OBVIOUS
<1>3. /\ j \in JobType /\ j.pc = "done" /\ j.refunded = TRUE
      /\ j.tries = job[r].tries /\ j.tries \in Nat
  BY <1>1, <1>2, Bounds DEF JobType
<1>4. Job(j) /\ Owed(j) = Owed(job[r]) /\ job[r].tries <= j.tries
  BY <1>1, <1>3 DEF Job, Owed
<1>5. job' = [job EXCEPT ![r] = j]
  BY <1>2 DEF RefundAlready
<1> QED BY <1>4, <1>5, RecordGood DEF RefundAlready

LEMMA RefundDeltaFailsGood ==
    ASSUME Typed, NEW r \in Requests, RefundDeltaFails(r)
    PROVE  Good
<1>1. job[r].pc \in {"held", "refund"} /\ job' = [job EXCEPT ![r] = Failed(job[r])]
  BY DEF RefundDeltaFails
<1>2. /\ Job(Failed(job[r])) /\ Owed(Failed(job[r])) = Owed(job[r])
      /\ job[r].tries <= Failed(job[r]).tries
  BY <1>1, FailedJob DEF Owed
<1> QED BY <1>1, <1>2, RecordGood DEF RefundDeltaFails

LEMMA RefundMarkGood ==
    ASSUME Typed, NEW r \in Requests, RefundMark(r)
    PROVE  Good
<1>1. job[r] \in JobType /\ job[r].pc = "mark"
  BY DEF Typed, RefundMark
<1>2. PICK j : j = [job[r] EXCEPT !.pc = "done", !.refunded = TRUE]
  OBVIOUS
<1>a. PICK T : T = 0..Attempts
  OBVIOUS
<1>b. /\ j \in JobType /\ j.pc = "done" /\ j.refunded = TRUE
      /\ j.tries = job[r].tries /\ j.tries \in T
  BY <1>1, <1>2, <1>a DEF JobType
<1>3. /\ j \in JobType /\ j.pc = "done" /\ j.refunded = TRUE
      /\ j.tries = job[r].tries /\ j.tries \in Nat
  BY <1>a, <1>b, Bounds
<1>4. Job(j) /\ Owed(j) = Owed(job[r]) /\ job[r].tries <= j.tries
  BY <1>1, <1>3 DEF Job, Owed
<1>5. job' = [job EXCEPT ![r] = j]
  BY <1>2 DEF RefundMark
<1> QED BY <1>4, <1>5, RecordGood DEF RefundMark

LEMMA RefundMarkFailsGood ==
    ASSUME Typed, NEW r \in Requests, RefundMarkFails(r)
    PROVE  Good
<1>1. job[r].pc = "mark" /\ job' = [job EXCEPT ![r] = Failed(job[r])] /\ job[r].refunded = FALSE
  BY DEF RefundMarkFails, Typed, Job
<1>2. /\ Job(Failed(job[r])) /\ Owed(Failed(job[r])) + 1 = Owed(job[r])
      /\ job[r].tries + 1 = Failed(job[r]).tries
  BY <1>1, FailedJob DEF Owed
<1> QED BY <1>1, <1>2, RecordGood DEF RefundMarkFails

LEMMA RefundAnswerLostGood ==
    ASSUME Typed, NEW r \in Requests, RefundAnswerLost(r)
    PROVE  Good
<1>1. job[r].pc = "mark"
  BY DEF RefundAnswerLost
<1>2. PICK f \in JobType : f = Failed(job[r]) /\ Job(f) /\ f.pc \in {"refund", "gaveup"}
                         /\ job[r].tries <= f.tries
  BY <1>1, FailedJob
<1>3. PICK j : j = [f EXCEPT !.refunded = TRUE]
  OBVIOUS
<1>4. /\ j \in JobType /\ j.pc = f.pc /\ j.refunded = TRUE /\ j.tries = f.tries /\ j.sub = f.sub
  BY <1>2, <1>3 DEF JobType
<1>5. Job(j) /\ Owed(j) = Owed(job[r]) /\ job[r].tries <= j.tries
  BY <1>1, <1>2, <1>4 DEF Job, Owed
<1>6. job' = [job EXCEPT ![r] = j]
  BY <1>2, <1>3 DEF RefundAnswerLost
<1> QED BY <1>5, <1>6, RecordGood DEF RefundAnswerLost

\* An attempt whose inner transaction commits: the mark is next, or the
\* attempt has failed.
LEMMA TakenGood ==
    ASSUME Typed, NEW r \in Requests, NEW j, Job(j), job' = [job EXCEPT ![r] = j],
           job[r].pc \in {"held", "refund"}, job[r].refunded = FALSE,
           PostConsumeDelta(r, -job[r].pre), UNCHANGED <<now, period, maint>>,
           \/ /\ book' = [Booked(book, r, -job[r].pre) EXCEPT !.given[r] = @ + 1]
              /\ Owed(j) = 1 /\ j.tries = job[r].tries
           \/ /\ book' = [Booked(book, r, -job[r].pre) EXCEPT !.given[r] = @ + 1, !.lost[r] = @ + 1]
              /\ Owed(j) = 0 /\ j.tries = job[r].tries + 1
    PROVE  Good
<1>1. /\ Job(job[r]) /\ job[r] \in JobType /\ job[r].sub \in Subs /\ job[r].pre \in Nat
      /\ job[r].tries < Attempts /\ job[r].tries \in Nat
  BY Bounds DEF Typed, Job, JobType
<1>5. /\ job' \in [Requests -> JobType] /\ \A q \in Requests : Job(job'[q])
      /\ job'[r] = j /\ \A q \in Requests \ {r} : job'[q] = job[q]
  BY JobStep
<1>6. PICK delta \in Int : delta = -job[r].pre
  BY <1>1
<1>7. PICK b \in BookType :
        /\ b = Booked(book, r, delta) /\ b.given = book.given /\ b.lost = book.lost
        /\ b.base = book.base /\ b.grants = book.grants /\ b.reopened = book.reopened
  BY <1>1, BookedBook
<1>8. PostConsumeDelta(r, delta)
  BY <1>6
<1>9. /\ book' \in BookType /\ SameBook
      /\ book'.given[r] = book.given[r] + 1
      /\ \A q \in Requests \ {r} : book'.given[q] = book.given[q] /\ book'.lost[q] = book.lost[q]
      /\ \/ book'.lost[r] = book.lost[r] /\ Owed(j) = 1 /\ j.tries = job[r].tries
         \/ book'.lost[r] = book.lost[r] + 1 /\ Owed(j) = 0 /\ j.tries = job[r].tries + 1
  <2>1. CASE book' = [b EXCEPT !.given[r] = @ + 1] /\ Owed(j) = 1 /\ j.tries = job[r].tries
    <3>1. PICK n : n = book' /\ TakesBack(n, b, r)
      BY <2>1 DEF TakesBack
    <3>2. /\ n \in BookType /\ n.given[r] = b.given[r] + 1
          /\ \A q \in Requests \ {r} : n.given[q] = b.given[q]
          /\ n.lost = b.lost /\ n.base = b.base /\ n.grants = b.grants
          /\ n.reopened = b.reopened
      BY <3>1, GivenBook
    <3> QED BY <1>7, <2>1, <3>1, <3>2 DEF SameBook
  <2>2. CASE /\ book' = [b EXCEPT !.given[r] = @ + 1, !.lost[r] = @ + 1]
             /\ Owed(j) = 0 /\ j.tries = job[r].tries + 1
    <3>1. PICK n : n = book' /\ TakesAndLoses(n, b, r)
      BY <2>2 DEF TakesAndLoses
    <3>2. /\ n \in BookType /\ n.given[r] = b.given[r] + 1 /\ n.lost[r] = b.lost[r] + 1
          /\ \A q \in Requests \ {r} : n.given[q] = b.given[q] /\ n.lost[q] = b.lost[q]
          /\ n.base = b.base /\ n.grants = b.grants /\ n.reopened = b.reopened
      BY <3>1, GivenLostBook
    <3> QED BY <1>7, <2>2, <3>1, <3>2 DEF SameBook
  <2> QED BY <1>6, <1>7, <2>1, <2>2
<1>10. sub' \in [Subs -> RowType] /\ \A c \in Subs : Row(sub'[c]) /\ RowStep(c)
  BY <1>1, <1>8, <1>9, PostConsumeRows
<1>11. book.given[r] \in Nat /\ book.lost[r] \in Nat /\ Owed(job[r]) = 0
  BY DEF Typed, BookType, Owed
<1>12. EvenStep(r)
  BY <1>1, <1>5, <1>9, <1>11, Bounds DEF EvenStep, Even
<1>13. \A q \in Requests : EvenStep(q)
  BY <1>5, <1>9, <1>12, OthersEven
<1>14. now' = now /\ period' = period /\ maint' = maint
  OBVIOUS
<1> QED BY <1>5, <1>9, <1>10, <1>13, <1>14 DEF Good, Typed

LEMMA RefundDeltaGood ==
    ASSUME Typed, NEW r \in Requests, RefundDelta(r)
    PROVE  Good
<1>1. /\ Job(job[r]) /\ job[r] \in JobType /\ job[r].pc \in {"held", "refund"}
      /\ job[r].refunded = FALSE /\ job[r].sub \in Subs /\ job[r].tries < Attempts
  BY DEF Typed, Job, JobType, RefundDelta
<1>2. PICK j : j = [job[r] EXCEPT !.pc = "mark"]
  OBVIOUS
<1>3. /\ j \in JobType /\ j.pc = "mark" /\ j.refunded = FALSE /\ j.sub \in Subs
      /\ j.tries < Attempts /\ j.tries = job[r].tries
  BY <1>1, <1>2 DEF JobType
<1>4. Job(j) /\ Owed(j) = 1
  BY <1>3 DEF Job, Owed
<1>5. /\ job' = [job EXCEPT ![r] = j] /\ UNCHANGED <<now, period, maint>>
      /\ PostConsumeDelta(r, -job[r].pre)
      /\ book' = [Booked(book, r, -job[r].pre) EXCEPT !.given[r] = @ + 1]
  BY <1>2 DEF RefundDelta
<1> QED BY <1>1, <1>3, <1>4, <1>5, TakenGood

LEMMA RefundDeltaUnheardGood ==
    ASSUME Typed, NEW r \in Requests, RefundDeltaUnheard(r)
    PROVE  Good
<1>1. job[r].pc \in {"held", "refund"} /\ job[r].refunded = FALSE
  BY DEF Typed, JobType, RefundDeltaUnheard
<1>2. PICK j : /\ j = Failed(job[r]) /\ Job(j) /\ Owed(j) = 0 /\ j.tries = job[r].tries + 1
  BY <1>1, FailedJob DEF Owed
<1>3. /\ job' = [job EXCEPT ![r] = j] /\ UNCHANGED <<now, period, maint>>
      /\ PostConsumeDelta(r, -job[r].pre)
      /\ book' = [Booked(book, r, -job[r].pre) EXCEPT !.given[r] = @ + 1, !.lost[r] = @ + 1]
  BY <1>2 DEF RefundDeltaUnheard
<1> QED BY <1>1, <1>2, <1>3, TakenGood

-----------------------------------------------------------------------------
(* The clock and the maintenance pass. *)

LEMMA TickGood ==
    ASSUME Typed, Tick
    PROVE  Good
<1>1. sub' = sub /\ book' = book /\ job' = job /\ period' = period /\ maint' = maint
      /\ now' = now + 1 /\ now' \in 1..MaxTime
  BY Bounds DEF Tick, Typed
<1>2. Maint(maint', now')
  BY <1>1 DEF Typed, Maint, MaintType
<1> QED BY <1>1, <1>2, RowsKept, RefundsKept DEF Good, Typed, SameBook

LEMMA ExpireGood ==
    ASSUME Typed, Expire
    PROVE  Good
<1>1. PICK ended \in SUBSET Subs :
        /\ \A s \in ended : sub[s].status = "active"
        /\ sub' = [s \in Subs |-> IF s \in ended THEN [sub[s] EXCEPT !.status = "expired"] ELSE sub[s]]
        /\ maint' = [maint EXCEPT !.pc = IF Cardinality(ended) < Batch THEN "list" ELSE "expire"]
  BY DEF Expire
<1>2. \A s \in Subs : sub[s] \in RowType /\ Row(sub[s])
  BY DEF Typed
<1>3. ASSUME NEW s \in Subs
      PROVE  /\ Row(sub'[s]) /\ sub'[s].start = sub[s].start /\ Since(sub'[s]) = Since(sub[s])
             /\ sub'[s].status = sub[s].status \/ (There(sub[s]) /\ There(sub'[s]))
  <2>1. CASE s \in ended
    <3>1. PICK m : m = [sub[s] EXCEPT !.status = "expired"]
      OBVIOUS
    <3>2. /\ m \in RowType /\ m.used = sub[s].used /\ m.status = "expired"
          /\ m.start = sub[s].start /\ m.last = sub[s].last
      BY <1>2, <3>1 DEF RowType
    <3>3. sub'[s] = m
      BY <1>1, <2>1, <3>1
    <3> QED BY <1>1, <1>2, <2>1, <3>2, <3>3 DEF Row, Since, There
  <2>2. CASE s \notin ended
    BY <1>1, <1>2, <2>2
  <2> QED BY <2>1, <2>2
<1>4. now' = now /\ period' = period /\ job' = job /\ book' = book
  BY DEF Expire
<1>5. \A s \in Subs : RowStep(s)
  BY <1>3, <1>4 DEF RowStep, Kept, There, SameCount
<1>6. sub' \in [Subs -> RowType]
  <2>1. sub' = [s \in Subs |-> sub'[s]]
    BY <1>1
  <2> QED BY <2>1, <1>3 DEF Row
<1>7. Maint(maint', now')
  <2>1. PICK p \in {"list", "expire"} : maint' = [maint EXCEPT !.pc = p]
    BY <1>1
  <2>2. maint \in MaintType /\ maint.seen <= now
    BY DEF Typed, Maint
  <2>3. maint' \in MaintType /\ maint'.seen = maint.seen /\ maint'.pc = p
    BY <2>1, <2>2 DEF MaintType
  <2> QED BY <1>4, <2>2, <2>3 DEF Maint
<1> QED BY <1>3, <1>4, <1>5, <1>6, <1>7, RefundsKept DEF Good, Typed

LEMMA ListDueGood ==
    ASSUME Typed, ListDue
    PROVE  Good
<1>0. PICK overdue \in SUBSET Subs : \E L \in SUBSET overdue :
        /\ Cardinality(L) = Min({Batch, Cardinality(overdue)})
        /\ maint' = IF L = {} THEN Idle ELSE [pc |-> "rows", seen |-> now, list |-> L, count |-> 0]
  BY DEF ListDue, Overdue
<1>1. PICK L \in SUBSET overdue :
        /\ Cardinality(L) = Min({Batch, Cardinality(overdue)})
        /\ maint' = IF L = {} THEN Idle ELSE [pc |-> "rows", seen |-> now, list |-> L, count |-> 0]
  BY <1>0
<1>2. IsFiniteSet(overdue) /\ Cardinality(overdue) \in Nat /\ IsFiniteSet(L) /\ Cardinality(L) \in Nat
  BY Bounds, FS_Subset, FS_CardinalityType
<1>3. Cardinality(L) <= Batch
  BY <1>1, <1>2, Smaller, Bounds
<1>4. now' = now /\ period' = period /\ sub' = sub /\ job' = job /\ book' = book /\ now \in Nat
  BY DEF ListDue, Typed
<1>5. Maint(maint', now')
  <2>1. CASE L = {}
    BY <1>1, <1>4, <2>1, Bounds DEF Maint, MaintType, Idle
  <2>2. CASE L # {}
    <3>1. maint' = [pc |-> "rows", seen |-> now, list |-> L, count |-> 0]
      BY <1>1, <2>2
    <3>2. maint' \in MaintType /\ maint'.seen = now /\ maint'.count = 0 /\ maint'.list = L
      BY <1>4, <3>1, Bounds DEF MaintType
    <3> QED BY <1>2, <1>3, <1>4, <3>2, Bounds DEF Maint
  <2> QED BY <2>1, <2>2
<1> QED BY <1>4, <1>5, RowsKept, RefundsKept DEF Good, Typed, SameBook

LEMMA ResetRowGood ==
    ASSUME Typed, ResetRow
    PROVE  Good
<1>1. PICK s \in maint.list : 
        LET found == Exists(s) /\ s \in Overdue(maint.seen)
            due   == found /\ Due(sub[s], maint.seen)
            rest  == maint.list \ {s}
            count == maint.count + (IF found THEN 1 ELSE 0)
        IN  /\ sub' = [sub EXCEPT ![s] = IF found THEN MaybeReset(sub[s], maint.seen) ELSE @]
            /\ book' = IF due THEN Scheduled(book, {s}, maint.seen) ELSE book
            /\ maint' = IF rest # {} THEN [maint EXCEPT !.list = rest, !.count = count]
                        ELSE AfterRows(count)
  BY DEF ResetRow
<1>2. PICK found \in BOOLEAN : found = (Exists(s) /\ s \in Overdue(maint.seen))
  OBVIOUS
<1>3. PICK t \in Nat : t = maint.seen /\ t <= now
  BY DEF Typed, Maint, MaintType
<1>4. s \in Subs /\ maint \in MaintType /\ maint.list \subseteq Subs /\ maint.count \in 0..Batch
  BY DEF Typed, Maint, MaintType
<1>5. sub[s] \in RowType /\ Row(sub[s]) /\ sub \in [Subs -> RowType] /\ \A c \in Subs : Row(sub[c])
  BY <1>4 DEF Typed
<1>6. now' = now /\ period' = period /\ job' = job /\ now \in Nat
  BY DEF ResetRow, Typed
<1>7. Maint(maint', now')
  <2>1. PICK rest \in SUBSET Subs : rest = maint.list \ {s}
    BY <1>4
  <2>2. PICK count \in Nat : count = maint.count + (IF found THEN 1 ELSE 0)
    BY <1>4, Bounds
  <2>3. maint.count + Cardinality(maint.list) <= Batch /\ maint.pc = "rows"
    BY DEF ResetRow, Typed, Maint
  <2>4. IsFiniteSet(maint.list) /\ Cardinality(maint.list) \in Nat
    BY <1>4, Bounds, FS_Subset, FS_CardinalityType
  <2>5. IsFiniteSet(rest) /\ Cardinality(rest) = Cardinality(maint.list) - 1 /\ Cardinality(rest) \in Nat
    BY <2>1, <2>4, FS_RemoveElement, FS_CardinalityType
  <2>6. count + Cardinality(rest) <= Batch /\ count \in 0..Batch
    BY <1>4, <2>2, <2>3, <2>4, <2>5, Bounds
  <2>7. maint' = IF rest # {} THEN [maint EXCEPT !.list = rest, !.count = count] ELSE AfterRows(count)
    BY <1>1, <1>2, <2>1, <2>2
  <2>8. CASE rest # {}
    <3>1. maint' \in MaintType /\ maint'.seen = maint.seen /\ maint'.list = rest /\ maint'.count = count
      BY <1>4, <2>6, <2>7, <2>8 DEF MaintType
    <3> QED BY <1>3, <1>6, <2>6, <3>1 DEF Maint
  <2>9. CASE rest = {}
    <3>1. maint' = Idle \/ maint' = [Idle EXCEPT !.pc = "list"]
      BY <2>7, <2>9 DEF AfterRows
    <3> QED BY <1>6, <3>1, Bounds DEF Maint, MaintType, Idle
  <2> QED BY <2>8, <2>9
<1>8. CASE ~found
  <2>1. sub' = sub /\ book' = book
    BY <1>1, <1>2, <1>5, <1>8
  <2> QED BY <1>6, <1>7, <2>1, RowsKept, RefundsKept DEF Good, Typed, SameBook
<1>9. CASE found
  <2>1. sub[s].status # "none" /\ There(sub[s])
    BY <1>2, <1>9 DEF Exists, There
  <2>2. PICK m : m = MaybeReset(sub[s], t)
    OBVIOUS
  <2>3. /\ Row(m) /\ m.start = sub[s].start /\ m.status = sub[s].status
        /\ ~Due(sub[s], t) => Since(m) = Since(sub[s])
        /\ Due(sub[s], t) => Moves(Since(sub[s]), Since(m), t) /\ m.last = Since(m)
    BY <1>3, <1>5, <2>1, <2>2, MaybeResetRow
  <2>4. sub' = [sub EXCEPT ![s] = m]
    BY <1>1, <1>2, <1>3, <1>9, <2>2
  <2>5. m \in RowType
    BY <2>3 DEF Row
  <2>6. sub' \in [Subs -> RowType] /\ sub'[s] = m /\ \A c \in Subs \ {s} : sub'[c] = sub[c]
    BY <1>4, <1>5, <2>4, <2>5
  <2>7. \A c \in Subs : Row(sub'[c])
    BY <1>5, <2>3, <2>6
  <2>8. CASE ~Due(sub[s], t)
    <3>1. book' = book
      BY <1>1, <1>2, <1>3, <2>8
    <3>2. \A c \in Subs : Kept(c)
      BY <2>3, <2>6, <2>8, <3>1 DEF Kept, There, SameCount
    <3> QED BY <1>6, <1>7, <2>6, <2>7, <3>1, <3>2, RefundsKept DEF Good, Typed, RowStep
  <2>9. CASE Due(sub[s], t)
    <3>1. book' = Scheduled(book, {s}, t)
      BY <1>1, <1>2, <1>3, <1>9, <2>9
    <3>2. /\ book' \in BookType /\ book'.given = book.given /\ book'.lost = book.lost
          /\ book'.base = book.base /\ book'.reopened = book.reopened
          /\ \A c \in Subs : book'.grants[c] =
               IF c \in {s} THEN [book.grants[c] EXCEPT ![MaybeReset(sub[c], t).last] = @ + 1]
               ELSE book.grants[c]
      <4>1. PICK S : S = {s}
        OBVIOUS
      <4>2. PICK b : b = Scheduled(book, S, t)
        OBVIOUS
      <4>3. /\ b \in BookType /\ b.given = book.given /\ b.lost = book.lost
            /\ b.base = book.base /\ b.reopened = book.reopened
            /\ \A c \in Subs : b.grants[c] =
                 IF c \in S THEN [book.grants[c] EXCEPT ![MaybeReset(sub[c], t).last] = @ + 1]
                 ELSE book.grants[c]
        BY <4>2, ScheduledBook
      <4> QED BY <3>1, <4>1, <4>2, <4>3
    <3>3. book'.grants[s] = [book.grants[s] EXCEPT ![Since(m)] = @ + 1]
      BY <1>4, <2>2, <2>3, <2>9, <3>2
    <3>4. PICK k \in 1..MaxTime : Since(m) = Boundary(Since(sub[s]), k) /\ Since(m) <= t
      BY <2>3, <2>9 DEF Moves
    <3>5. Since(m) \in Nat
      BY <2>5 DEF RowType, Since
    <3>6. Moves(Since(sub[s]), Since(m), now)
      BY <1>3, <1>6, <3>4, <3>5 DEF Moves
    <3>7. Renewed(s)
      BY <1>4, <2>1, <2>3, <2>6, <3>2, <3>3, <3>6 DEF Renewed, There
    <3>8. \A c \in Subs \ {s} : Kept(c)
      BY <2>6, <3>2 DEF Kept, SameCount
    <3>9. \A c \in Subs : RowStep(c)
      BY <3>7, <3>8 DEF RowStep
    <3> QED BY <1>6, <1>7, <2>6, <2>7, <3>2, <3>9, RefundsKept DEF Good, Typed
  <2> QED BY <2>8, <2>9
<1> QED BY <1>8, <1>9

-----------------------------------------------------------------------------
(* Purchases and administrators. *)

\* One row becomes m.
LEMMA RowBecomes ==
    ASSUME Typed, NEW s \in Subs, NEW m, Row(m), sub' = [sub EXCEPT ![s] = m]
    PROVE  /\ sub' \in [Subs -> RowType] /\ \A c \in Subs : Row(sub'[c])
           /\ sub'[s] = m /\ \A c \in Subs \ {s} : sub'[c] = sub[c]
BY DEF Typed, Row

LEMMA CreateGood ==
    ASSUME Typed, NEW s \in Subs, Create(s)
    PROVE  Good
<1>1. now \in Nat /\ now > 0 /\ now + Life \in Nat
  BY Bounds DEF Typed
<1>2. PICK next \in Nat : next = NextReset(now, now + Life)
  BY <1>1, NextResetType
<1>3. PICK last \in Nat : last = IF next > 0 THEN now ELSE 0
  BY <1>1
<1>4. PICK m : m = [status |-> "active", used |-> 0, start |-> now, end |-> now + Life,
                    last |-> last, next |-> next]
  OBVIOUS
<1>5. m \in RowType /\ m.status = "active" /\ m.used = 0 /\ m.start = now /\ m.last = last
  BY <1>1, <1>4 DEF RowType
<1>6. Row(m) /\ Since(m) = now
  BY <1>1, <1>3, <1>5, Bounds DEF Row, Since
<1>7. sub' = [sub EXCEPT ![s] = m]
  BY <1>2, <1>3, <1>4 DEF Create
<1>8. /\ sub' \in [Subs -> RowType] /\ \A c \in Subs : Row(sub'[c])
      /\ sub'[s] = m /\ \A c \in Subs \ {s} : sub'[c] = sub[c]
  BY <1>6, <1>7, RowBecomes
<1>9. /\ book' \in BookType /\ book'.given = book.given /\ book'.lost = book.lost
      /\ book'.grants = book.grants /\ book'.reopened = book.reopened
      /\ book'.base[s] = {now} /\ \A c \in Subs \ {s} : book'.base[c] = book.base[c]
  <2>1. PICK n \in SUBSET Nat : n = {now}
    BY <1>1
  <2>2. book' = [book EXCEPT !.base[s] = n] /\ book \in BookType
    BY <2>1 DEF Create, Typed
  <2>3. PICK d : d = [book EXCEPT !.base[s] = n]
    OBVIOUS
  <2>4. /\ d \in BookType /\ d.given = book.given /\ d.lost = book.lost
        /\ d.grants = book.grants /\ d.reopened = book.reopened
        /\ d.base[s] = n /\ \A c \in Subs \ {s} : d.base[c] = book.base[c]
    BY <2>2, <2>3 DEF BookType
  <2> QED BY <2>1, <2>2, <2>3, <2>4
<1>10. sub[s].status = "none"
  BY DEF Create
<1>11. Created(s)
  BY <1>5, <1>6, <1>8, <1>9, <1>10 DEF Created, There
<1>12. \A c \in Subs \ {s} : Kept(c)
  BY <1>8, <1>9 DEF Kept, SameCount
<1>13. now' = now /\ period' = period /\ job' = job /\ maint' = maint
  BY DEF Create
<1> QED BY <1>8, <1>9, <1>11, <1>12, <1>13, RefundsKept DEF Good, Typed, RowStep

LEMMA InvalidateGood ==
    ASSUME Typed, NEW s \in Subs, Invalidate(s)
    PROVE  Good
<1>1. now \in Nat /\ sub[s] \in RowType /\ Row(sub[s])
  BY DEF Typed
<1>2. PICK m : m = [sub[s] EXCEPT !.status = "cancelled", !.end = now]
  OBVIOUS
<1>3. /\ m \in RowType /\ m.status = "cancelled" /\ m.used = sub[s].used
      /\ m.start = sub[s].start /\ m.last = sub[s].last
  BY <1>1, <1>2 DEF RowType
<1>4. Row(m) /\ Since(m) = Since(sub[s])
  BY <1>1, <1>3 DEF Row, Since
<1>5. sub' = [sub EXCEPT ![s] = m]
  BY <1>2 DEF Invalidate
<1>6. /\ sub' \in [Subs -> RowType] /\ \A c \in Subs : Row(sub'[c])
      /\ sub'[s] = m /\ \A c \in Subs \ {s} : sub'[c] = sub[c]
  BY <1>4, <1>5, RowBecomes
<1>7. now' = now /\ period' = period /\ job' = job /\ maint' = maint /\ book' = book
  BY DEF Invalidate
<1>8. \A c \in Subs : Kept(c)
  BY <1>3, <1>4, <1>6, <1>7 DEF Kept, There, SameCount, Invalidate, Exists
<1> QED BY <1>6, <1>7, <1>8, RefundsKept DEF Good, Typed, RowStep

LEMMA DeleteGood ==
    ASSUME Typed, NEW s \in Subs, Delete(s)
    PROVE  Good
<1>1. PICK m : m = [NoRow EXCEPT !.status = "deleted"]
  OBVIOUS
<1>2. m \in RowType /\ m.status = "deleted" /\ m.used = 0 /\ m.start = 0 /\ m.last = 0
  BY <1>1 DEF RowType, NoRow
<1>3. Row(m) /\ Since(m) = 0
  BY <1>2, Bounds DEF Row, Since
<1>4. /\ sub' \in [Subs -> RowType] /\ \A c \in Subs : Row(sub'[c])
      /\ sub'[s] = m /\ \A c \in Subs \ {s} : sub'[c] = sub[c]
  BY <1>1, <1>3, RowBecomes DEF Delete
<1>6. /\ book' \in BookType /\ book'.given = book.given /\ book'.lost = book.lost /\ SameBook
  BY NewPeriodBook DEF Delete, SameBook
<1>8. \A c \in Subs : Kept(c)
  BY <1>2, <1>4, <1>6 DEF Kept, There, SameCount, SameBook
<1>10. now' = now /\ period' = period /\ job' = job /\ maint' = maint
  BY DEF Delete
<1> QED BY <1>4, <1>6, <1>8, <1>10, RefundsKept DEF Good, Typed, RowStep

LEMMA AdminResetGood ==
    ASSUME Typed, NEW advance \in BOOLEAN, AdminReset(advance)
    PROVE  Good
<1>1. PICK t \in Recent :
        /\ sub' = [s \in Subs |->
                     IF s \notin Candidates(t) THEN sub[s]
                     ELSE IF ~advance THEN [sub[s] EXCEPT !.used = 0]
                     ELSE [sub[s] EXCEPT !.used = 0, !.next = NextReset(t, sub[s].end),
                                         !.last = IF NextReset(t, sub[s].end) > 0 THEN t ELSE 0]]
        /\ book' = IF advance
                   THEN Restarted(book, Candidates(t),
                                  [s \in Subs |-> IF NextReset(t, sub[s].end) > 0 THEN t
                                                  ELSE sub[s].start])
                   ELSE NewPeriod(book, Candidates(t))
  BY DEF AdminReset
<1>2. t \in Nat /\ t <= now /\ now \in Nat /\ t > 0
  BY RecentIsPast DEF Typed, Recent
<1>3. \A s \in Subs : sub[s] \in RowType /\ Row(sub[s]) /\ sub[s].end \in Nat /\ sub[s].start \in Nat
  BY DEF Typed, RowType
<1>4. \A s \in Candidates(t) : s \in Subs /\ sub[s].status = "active"
  BY DEF Candidates
<1>5. now' = now /\ period' = period /\ job' = job /\ maint' = maint
  BY DEF AdminReset
<1>6. sub' = [s \in Subs |-> sub'[s]] /\ \A s \in Subs \ Candidates(t) : sub'[s] = sub[s]
  BY <1>1
<1>7. CASE ~advance
  <2>1. /\ book' \in BookType /\ book'.given = book.given /\ book'.lost = book.lost
        /\ SameBook
    BY <1>1, <1>7, NewPeriodBook DEF SameBook
  <2>2. ASSUME NEW s \in Candidates(t) PROVE Row(sub'[s]) /\ Kept(s)
    <3>1. PICK m : m = [sub[s] EXCEPT !.used = 0]
      OBVIOUS
    <3>2. /\ m \in RowType /\ m.status = "active" /\ m.used = 0
          /\ m.start = sub[s].start /\ m.last = sub[s].last
      BY <1>3, <1>4, <3>1 DEF RowType
    <3>3. sub'[s] = m
      BY <1>1, <1>4, <1>7, <3>1
    <3> QED BY <1>4, <2>1, <3>2, <3>3, Bounds DEF Row, Kept, Since, There, SameCount, SameBook
  <2>3. \A s \in Subs : Row(sub'[s]) /\ RowStep(s)
    BY <1>3, <1>6, <2>1, <2>2 DEF RowStep, Kept, SameCount, SameBook
  <2>4. sub' \in [Subs -> RowType]
    BY <1>6, <2>3 DEF Row
  <2> QED BY <1>5, <2>1, <2>3, <2>4, RefundsKept DEF Good, Typed
<1>8. CASE advance
  <2>1. PICK base \in [Subs -> Nat] :
          base = [s \in Subs |-> IF NextReset(t, sub[s].end) > 0 THEN t ELSE sub[s].start]
    <3>1. \A s \in Subs : (IF NextReset(t, sub[s].end) > 0 THEN t ELSE sub[s].start) \in Nat
      BY <1>2, <1>3
    <3>2. [s \in Subs |-> IF NextReset(t, sub[s].end) > 0 THEN t ELSE sub[s].start] \in [Subs -> Nat]
      BY <3>1
    <3> QED BY <3>2
  <2>2. book' = Restarted(book, Candidates(t), base)
    BY <1>1, <1>8, <2>1
  <2>3. /\ book' \in BookType /\ book'.given = book.given /\ book'.lost = book.lost
        /\ book'.grants = book.grants
        /\ \A c \in Subs :
             /\ book'.base[c] = IF c \in Candidates(t) THEN book.base[c] \cup {base[c]} ELSE book.base[c]
             /\ book'.reopened[c] = IF c \in Candidates(t) /\ base[c] < Since(sub[c])
                                    THEN book.reopened[c] + 1 ELSE book.reopened[c]
    BY <2>2, RestartedBook
  <2>4. ASSUME NEW s \in Candidates(t) PROVE Row(sub'[s]) /\ Begun(s)
    <3>1. PICK next \in Nat : next = NextReset(t, sub[s].end)
      BY <1>2, <1>3, <1>4, NextResetType
    <3>2. PICK last \in Nat : last = IF next > 0 THEN t ELSE 0
      BY <1>2
    <3>3. PICK m : m = [sub[s] EXCEPT !.used = 0, !.next = next, !.last = last]
      OBVIOUS
    <3>4. /\ m \in RowType /\ m.status = "active" /\ m.used = 0
          /\ m.start = sub[s].start /\ m.last = last
      BY <1>3, <1>4, <3>3 DEF RowType
    <3>5. sub'[s] = m
      BY <1>1, <1>4, <1>8, <3>1, <3>2, <3>3
    <3>6. base[s] = IF next > 0 THEN t ELSE sub[s].start
      BY <1>4, <2>1, <3>1
    <3>7. Since(m) = base[s]
      BY <1>2, <3>2, <3>4, <3>6 DEF Since
    <3>8. /\ book'.base[s] = book.base[s] \cup {Since(m)} /\ book'.grants[s] = book.grants[s]
          /\ book'.reopened[s] = IF Since(m) < Since(sub[s]) THEN book.reopened[s] + 1
                                 ELSE book.reopened[s]
      BY <1>4, <2>3, <3>7
    <3>9. book.reopened[s] \in Nat
      BY <1>4 DEF Typed, BookType
    <3>10. Begun(s)
      BY <1>4, <3>4, <3>5, <3>8, <3>9 DEF Begun, There
    <3> QED BY <3>4, <3>5, <3>10, Bounds DEF Row
  <2>5. \A s \in Subs \ Candidates(t) : Row(sub'[s]) /\ Kept(s)
    BY <1>3, <1>6, <2>3 DEF Kept, SameCount
  <2>6. \A s \in Subs : Row(sub'[s]) /\ RowStep(s)
    BY <2>4, <2>5 DEF RowStep
  <2>7. sub' \in [Subs -> RowType]
    BY <1>6, <2>6 DEF Row
  <2> QED BY <1>5, <2>3, <2>6, <2>7, RefundsKept DEF Good, Typed
<1> QED BY SMTT(30), <1>7, <1>8

LEMMA EditPlanGood ==
    ASSUME Typed, EditPlan
    PROVE  Good
<1>1. period' \in Periods /\ now' = now /\ sub' = sub /\ job' = job /\ maint' = maint /\ book' = book
  BY DEF EditPlan
<1> QED BY <1>1, RowsKept, RefundsKept DEF Good, Typed, SameBook

\* Every step.
LEMMA NextGood ==
    ASSUME Typed, [Next]_vars
    PROVE  Good
<1>1. CASE UNCHANGED vars
  <2>1. /\ now' = now /\ period' = period /\ sub' = sub /\ job' = job /\ maint' = maint
        /\ book' = book
    BY <1>1 DEF vars
  <2> QED BY <2>1, RowsKept, RefundsKept DEF Good, Typed, SameBook
<1>2. ASSUME NEW r \in Requests, Request(r) PROVE Good
  BY <1>2, PreConsumeGood, SettleGood, RefundAlreadyGood, RefundDeltaGood, RefundDeltaUnheardGood,
     RefundDeltaFailsGood, RefundMarkGood, RefundMarkFailsGood, RefundAnswerLostGood DEF Request
<1>3. CASE Pass
  BY <1>3, ExpireGood, ListDueGood, ResetRowGood DEF Pass
<1>4. CASE Admin
  BY <1>4, CreateGood, InvalidateGood, DeleteGood, AdminResetGood, EditPlanGood DEF Admin
<1>5. CASE Tick
  BY <1>5, TickGood
<1> QED BY <1>1, <1>2, <1>3, <1>4, <1>5 DEF Next

\* TypeOK: every row and record keeps its type, and the usage of a limited row
\* stays within 0..Total, whatever order charges (PreConsumeUserSubscription),
\* settlements and refunds (PostConsumeUserSubscriptionDelta) and resets come in.
THEOREM TypeCorrect == Spec => []TypeOK
<1>1. Typed /\ [Next]_vars => Typed'
  BY NextGood DEF Good
<1> QED BY <1>1, TypedInit, TypedIsTypeOK, PTL DEF Spec

-----------------------------------------------------------------------------
(* Refunds. *)

Explained == \A r \in Requests : Even(book, job[r], r)

\* RefundsExplained: an attempt of refundWithRetry takes the amount of a record
\* back again only after an attempt failed behind a committed inner
\* transaction of RefundSubscriptionPreConsume (the outer one failed, or the
\* answer to the inner commit was lost), so at most once for each attempt.
\* Beside the counts it needs that a record whose mark is being written is not
\* marked yet, and that each lost attempt counts as a failed one.
THEOREM RefundsAreExplained == Spec => []RefundsExplained
<1>1. Init => Typed /\ Explained
  <2>1. Init => Explained
    BY Bounds DEF Init, Explained, Even, Owed, NewBook, NewJob
  <2> QED BY <2>1, TypedInit
<1>2. Typed /\ Explained /\ [Next]_vars => Typed' /\ Explained'
  <2> SUFFICES ASSUME Typed, Explained, [Next]_vars PROVE Typed' /\ Explained'
    OBVIOUS
  <2>1. Good
    BY NextGood
  <2>2. ASSUME NEW r \in Requests PROVE Even(book', job'[r], r)
    BY <2>1 DEF Good, EvenStep, Explained
  <2> QED BY <2>1, <2>2 DEF Good, Explained, Even, Owed
<1>3. Explained => RefundsExplained
  BY DEF Explained, Even, RefundsExplained, Owed
<1> QED BY <1>1, <1>2, <1>3, PTL DEF Spec

-----------------------------------------------------------------------------
(* Allowances. *)

\* A time is a base of row s, or a boundary counted from one.
Anchored(s, n) == n \in book.base[s] \/ \E base \in book.base[s] : OnGrid(base, n)

\* What the property says of one row.
Rationed(s) ==
    \A b \in 1..MaxTime : book.grants[s][b] > 0 =>
        /\ b <= now
        /\ \E base \in book.base[s] : OnGrid(base, b)
        /\ book.grants[s][b] <= 1 + book.reopened[s]

\* The periods of a row count from one of its bases or from a boundary, and a
\* boundary that is still ahead was granted only before the count was put
\* back; no boundary was granted before the row was there.
Ahead(s) ==
    /\ There(sub[s]) =>
         /\ sub[s].start \in book.base[s] /\ Anchored(s, Since(sub[s]))
         /\ \A b \in 1..MaxTime : b > Since(sub[s]) => book.grants[s][b] <= book.reopened[s]
    /\ sub[s].status = "none" => \A b \in 1..MaxTime : book.grants[s][b] = 0

Allowed == \A s \in Subs : Ahead(s) /\ Rationed(s)

\* A boundary counted from a boundary, with the same kind of period or with the
\* other one after the plan was edited, is a boundary.
LEMMA BoundaryOnGrid ==
    ASSUME Typed, NEW base \in Nat, NEW from \in Nat, from = base \/ OnGrid(base, from),
           NEW k \in 1..MaxTime
    PROVE  OnGrid(base, Boundary(from, k))
<1>1. Period \in Nat \ {0} /\ k \in Nat
  BY Bounds
<1>2. PICK to \in Nat : to = Boundary(from, k) /\ to > from
  BY BoundaryIsLater
<1>3. to > base
  BY <1>2 DEF OnGrid
<1>4. CASE period = "daily"
  <2>1. PICK d \in Nat : d = from \div Period
    BY <1>1, Quotient
  <2>2. PICK q \in Nat : q = d + k /\ to = q * Period
    BY <1>1, <1>2, <1>4, <2>1 DEF Boundary
  <2>3. to % Period = 0
    BY <1>1, <2>2, Multiple
  <2>4. "daily" \in Periods
    BY <1>4 DEF Typed
  <2> QED BY <1>2, <1>3, <2>3, <2>4 DEF OnGrid
<1>5. CASE period # "daily"
  <2>1. to = from + k * Period
    BY <1>2, <1>5 DEF Boundary
  <2>2. CASE from = base
    <3>1. to - base = k * Period
      BY <1>1, <2>1, <2>2
    <3>2. (to - base) % Period = 0
      BY <1>1, <3>1, Multiple
    <3> QED BY <1>2, <1>3, <3>2 DEF OnGrid
  <2>3. CASE OnGrid(base, from) /\ (from - base) % Period = 0
    <3>1. PICK x \in Nat : x = from - base /\ x % Period = 0
      BY <2>3 DEF OnGrid
    <3>2. to - base = x + k * Period
      BY <1>1, <2>1, <3>1
    <3>3. (x + k * Period) % Period = 0
      BY <1>1, <3>1, Shifted
    <3>4. (to - base) % Period = 0
      BY <3>2, <3>3
    <3> QED BY <1>2, <1>3, <3>4 DEF OnGrid
  <2>4. CASE from % Period = 0 /\ "daily" \in Periods
    <3>1. to % Period = 0
      BY <1>1, <2>1, <2>4, Shifted
    <3> QED BY <1>2, <1>3, <2>4, <3>1 DEF OnGrid
  <2> QED BY <2>2, <2>3, <2>4 DEF OnGrid
<1> QED BY <1>4, <1>5

LEMMA AllowedInit == Init => Allowed
<1> SUFFICES ASSUME Init, NEW s \in Subs PROVE Ahead(s) /\ Rationed(s)
  BY DEF Allowed
<1>1. /\ sub[s].status = "none" /\ book.reopened[s] = 0
      /\ \A b \in 1..MaxTime : book.grants[s][b] = 0
  BY DEF Init, NoRow, NewBook
<1> QED BY <1>1 DEF Ahead, Rationed, There

\* The step, with the parts of the book by names.
LEMMA AllowedStep ==
    ASSUME Typed, Allowed, [Next]_vars
    PROVE  Allowed'
<1>1. Typed' /\ now' \in {now, now + 1} /\ \A s \in Subs : RowStep(s)
  BY NextGood DEF Good
<1>2. now \in 1..MaxTime /\ now' \in Nat /\ now <= now' /\ MaxTime \in Nat
  BY <1>1, Bounds DEF Typed
<1> SUFFICES ASSUME NEW s \in Subs PROVE Ahead(s)' /\ Rationed(s)'
  BY DEF Allowed
<1>3. PICK f \in Nat, a \in Nat, B \in SUBSET Nat, G \in [1..MaxTime -> Nat], n \in Nat :
        /\ f = Since(sub[s]) /\ a = sub[s].start /\ B = book.base[s] /\ G = book.grants[s]
        /\ n = book.reopened[s]
  <2>1. /\ sub[s] \in RowType /\ book.base[s] \in SUBSET Nat
        /\ book.grants[s] \in [1..MaxTime -> Nat] /\ book.reopened[s] \in Nat
    BY DEF Typed, BookType
  <2>2. Since(sub[s]) \in Nat /\ sub[s].start \in Nat
    BY <2>1 DEF RowType, Since
  <2> QED BY <2>1, <2>2
<1>4. PICK g \in Nat, c \in Nat, D \in SUBSET Nat, H \in [1..MaxTime -> Nat], m \in Nat :
        /\ g = Since(sub'[s]) /\ c = sub'[s].start /\ D = book'.base[s] /\ H = book'.grants[s]
        /\ m = book'.reopened[s]
  <2>1. /\ sub'[s] \in RowType /\ book'.base[s] \in SUBSET Nat
        /\ book'.grants[s] \in [1..MaxTime -> Nat] /\ book'.reopened[s] \in Nat
    BY <1>1 DEF Typed, BookType
  <2>2. Since(sub'[s]) \in Nat /\ sub'[s].start \in Nat
    BY <2>1 DEF RowType, Since
  <2> QED BY <2>1, <2>2
<1>5. /\ There(sub[s]) => /\ a \in B /\ (f \in B \/ \E base \in B : OnGrid(base, f))
                          /\ \A b \in 1..MaxTime : b > f => G[b] <= n
      /\ sub[s].status = "none" => \A b \in 1..MaxTime : G[b] = 0
  BY <1>3 DEF Allowed, Ahead, Anchored
<1>6. \A b \in 1..MaxTime : G[b] > 0 =>
         b <= now /\ (\E base \in B : OnGrid(base, b)) /\ G[b] <= 1 + n
  BY <1>3 DEF Allowed, Rationed
<1> SUFFICES
      /\ There(sub'[s]) => /\ c \in D /\ (g \in D \/ \E base \in D : OnGrid(base, g))
                           /\ \A b \in 1..MaxTime : b > g => H[b] <= m
      /\ sub'[s].status = "none" => \A b \in 1..MaxTime : H[b] = 0
      /\ \A b \in 1..MaxTime : H[b] > 0 =>
           b <= now' /\ (\E base \in D : OnGrid(base, b)) /\ H[b] <= 1 + m
  BY <1>4 DEF Ahead, Anchored, Rationed, There, Since, OnGrid
<1>7. CASE Kept(s)
  <2>1. D = B /\ H = G /\ m = n
    BY <1>3, <1>4, <1>7 DEF Kept, SameCount
  <2>2. There(sub'[s]) => There(sub[s]) /\ g = f /\ c = a
    BY <1>3, <1>4, <1>7 DEF Kept
  <2>3. sub'[s].status = "none" => sub[s].status = "none"
    BY <1>7 DEF Kept
  <2>4. \A b \in 1..MaxTime : H[b] > 0 =>
          b <= now' /\ (\E base \in D : OnGrid(base, b)) /\ H[b] <= 1 + m
    BY <1>2, <1>6, <2>1
  <2> QED BY <1>5, <2>1, <2>2, <2>3, <2>4
<1>8. CASE Renewed(s)
  <2>1. /\ Moves(f, g, now) /\ c = a /\ D = B /\ m = n /\ H = [G EXCEPT ![g] = @ + 1]
        /\ There(sub[s]) /\ sub'[s].status # "none"
    BY <1>3, <1>4, <1>8 DEF Renewed, There
  <2>2. PICK k \in 1..MaxTime : g = Boundary(f, k) /\ g <= now
    BY <2>1 DEF Moves
  <2>3. g > f
    BY <2>2, BoundaryIsLater
  <2>4. PICK base \in B : OnGrid(base, g)
    <3>1. PICK base \in B : f = base \/ OnGrid(base, f)
      BY <1>5, <2>1
    <3>2. OnGrid(base, Boundary(f, k))
      BY <3>1, BoundaryOnGrid
    <3> QED BY <2>2, <3>2
  <2>5. g \in 1..MaxTime /\ H[g] = G[g] + 1 /\ \A b \in 1..MaxTime : b # g => H[b] = G[b]
    BY <1>2, <2>1, <2>2, <2>3
  <2>6. G[g] <= n
    BY <1>5, <2>1, <2>3, <2>5
  <2>7. ASSUME NEW b \in 1..MaxTime, H[b] > 0
        PROVE  b <= now' /\ (\E x \in D : OnGrid(x, b)) /\ H[b] <= 1 + m
    <3>1. CASE b = g
      BY <1>2, <2>1, <2>2, <2>4, <2>5, <2>6, <3>1
    <3>2. CASE b # g
      BY SMTT(30), <1>2, <1>6, <2>1, <2>5, <2>7, <3>2
    <3> QED BY <3>1, <3>2
  <2>8. ASSUME NEW b \in 1..MaxTime, b > g PROVE H[b] <= m
    BY <1>5, <2>1, <2>3, <2>5, <2>8
  <2> QED BY <1>5, <2>1, <2>4, <2>7, <2>8
<1>9. CASE Begun(s)
  <2>1. /\ c = a /\ D = B \cup {g} /\ H = G /\ m = n + (IF g < f THEN 1 ELSE 0)
        /\ There(sub[s]) /\ sub'[s].status # "none"
    BY <1>3, <1>4, <1>9 DEF Begun, There
  <2>2. ASSUME NEW b \in 1..MaxTime, b > g PROVE H[b] <= m
    <3>1. CASE b > f
      BY <1>5, <2>1, <3>1
    <3>2. CASE ~(b > f)
      <4>1. m = n + 1 /\ G[b] \in Nat
        BY <2>1, <2>2, <3>2
      <4> QED BY <1>6, <2>1, <4>1
    <3> QED BY <3>1, <3>2
  <2>3. ASSUME NEW b \in 1..MaxTime, H[b] > 0
        PROVE  b <= now' /\ (\E x \in D : OnGrid(x, b)) /\ H[b] <= 1 + m
    <3>1. b <= now /\ G[b] <= 1 + n /\ n <= m
      BY <1>6, <2>1, <2>3
    <3>2. \E x \in D : OnGrid(x, b)
      BY <1>6, <2>1, <2>3
    <3> QED BY <1>2, <2>1, <3>1, <3>2
  <2> QED BY <1>5, <2>1, <2>2, <2>3
<1>10. CASE Created(s)
  <2>1. c = now /\ g = now /\ D = {now} /\ H = G /\ m = n /\ sub[s].status = "none" /\ sub'[s].status # "none"
    BY <1>3, <1>4, <1>10 DEF Created, There
  <2>2. \A b \in 1..MaxTime : H[b] = 0
    BY <1>5, <2>1
  <2> QED BY <2>1, <2>2
<1> QED BY <1>1, <1>7, <1>8, <1>9, <1>10 DEF RowStep

\* OneAllowancePerPeriod: the usage of a row is reset on schedule only for
\* period boundaries that the clock has passed and at most once for each,
\* though requests (PreConsumeUserSubscription) and the maintenance pass
\* (ResetDueSubscriptions) reset it with clocks of different age and the plan
\* may get another period in between; once more for each time an administrator
\* put the count back (resetUserSubscriptionTx). The induction needs that a
\* boundary ahead of the row's count was not granted since.
THEOREM OneAllowance == Spec => []OneAllowancePerPeriod
<1>1. Init => Typed /\ Allowed
  BY TypedInit, AllowedInit
<1>2. Typed /\ Allowed /\ [Next]_vars => Typed' /\ Allowed'
  BY NextGood, AllowedStep DEF Good
<1>3. Allowed => OneAllowancePerPeriod
  BY DEF Allowed, Rationed, OneAllowancePerPeriod
<1> QED BY <1>1, <1>2, <1>3, PTL DEF Spec

-----------------------------------------------------------------------------
(* Usage. *)

\* The requests that j says pay with row s, and what b says they charged to it.
PaidBy(j, s) == {r \in Requests : j[r].sub = s}

Sum(j, b, s) == SumOf(b.cur, PaidBy(j, s))

\* What was taken back beyond the charges of this period.
Short(b, s) == b.leak[s] + b.again[s]

Holds(row, j, b, s) ==
    row.status \notin {"none", "deleted"} =>
        row.used <= Sum(j, b, s) /\ row.used + Short(b, s) >= Sum(j, b, s)

\* A request that may still settle or refund has its whole charge in this
\* period, unless the charge is older or was taken back already.
Backed(j, b, r) ==
    j.pc \in {"held", "refund", "mark"} =>
        r \in b.old \/ b.given[r] > 0 \/ (j.pc # "mark" /\ b.cur[r] >= j.pre)

\* The usage of every row is what was charged to it; charges and reductions are
\* never negative, a request without a row is at none, and a request has no row
\* that is yet to be created.
Accounts ==
    /\ \A r \in Requests :
        /\ book.cur[r] \in Nat
        /\ job[r].pc = "idle" => job[r].sub = 0
        /\ job[r].sub \in Subs => sub[job[r].sub].status # "none"
        /\ Backed(job[r], book, r)
    /\ \A s \in Subs :
        book.leak[s] \in Nat /\ book.again[s] \in Nat /\ Holds(sub[s], job, book, s)

LEMMA AccountsBalance ==
    ASSUME Typed
    PROVE  Accounts => Balanced
<1>1. \A s : Charged(s) = Sum(job, book, s)
  BY DEF Sum, PaidBy, SumOf, Charged, MapThenSumSet, MapThenFoldSet
<1>2. ASSUME Accounts, NEW s \in Subs, Exists(s)
      PROVE  sub[s].used <= Charged(s) /\ sub[s].used + book.leak[s] + book.again[s] >= Charged(s)
  <2>1. book.leak[s] \in Nat /\ book.again[s] \in Nat /\ Holds(sub[s], job, book, s)
    BY <1>2 DEF Accounts
  <2>2. sub[s].used \in Nat
    BY DEF Typed, RowType
  <2>3. sub[s].used <= Charged(s) /\ sub[s].used + (book.leak[s] + book.again[s]) >= Charged(s)
    BY <1>1, <1>2, <2>1 DEF Holds, Exists, Short
  <2> QED BY <2>1, <2>2, <2>3
<1> QED BY <1>2 DEF Balanced

LEMMA AccountsInit == Init => Accounts
<1> SUFFICES ASSUME Init PROVE Accounts
  OBVIOUS
<1>1. \A r \in Requests : book.cur[r] = 0 /\ job[r].sub = 0 /\ job[r].pc = "idle"
  BY DEF Init, NewBook, NewJob
<1>2. \A s \in Subs : book.leak[s] = 0 /\ book.again[s] = 0 /\ sub[s].status = "none"
  BY DEF Init, NewBook, NoRow
<1>3. 0 \notin Subs
  BY Bounds
<1> QED BY <1>1, <1>2, <1>3 DEF Accounts, Holds, Backed

\* Some requests are finitely many, and what they charged is a number.
LEMMA SumIsNat ==
    ASSUME NEW j, NEW b, \A r \in Requests : b.cur[r] \in Nat, NEW s
    PROVE  IsFiniteSet(PaidBy(j, s)) /\ Sum(j, b, s) \in Nat
<1>1. IsFiniteSet(PaidBy(j, s))
  BY BoundsAssumption, FS_Subset DEF PaidBy
<1>2. \A r \in PaidBy(j, s) : b.cur[r] \in Nat
  BY DEF PaidBy
<1>3. PICK S, f : S = PaidBy(j, s) /\ f = b.cur
  OBVIOUS
<1>4. SumOf(f, S) \in Nat
  BY <1>1, <1>2, <1>3, SumNat
<1> QED BY <1>1, <1>3, <1>4 DEF Sum

\* A row whose charges stay, and one whose charges are all forgotten.
LEMMA RowSame ==
    ASSUME NEW s, NEW j, NEW k, NEW b, NEW d, NEW row, NEW to,
           PaidBy(k, s) = PaidBy(j, s), \A r \in PaidBy(j, s) : d.cur[r] = b.cur[r],
           Short(d, s) = Short(b, s), to.used = row.used,
           to.status \notin {"none", "deleted"} => row.status \notin {"none", "deleted"},
           Holds(row, j, b, s)
    PROVE  Holds(to, k, d, s)
<1>1. PICK S, f, g : S = PaidBy(j, s) /\ f = b.cur /\ g = d.cur
  OBVIOUS
<1>2. IsFiniteSet(S)
  BY <1>1, BoundsAssumption, FS_Subset DEF PaidBy
<1>3. SumOf(g, S) = SumOf(f, S)
  BY <1>1, <1>2, SumAgree
<1>4. Sum(k, d, s) = Sum(j, b, s)
  BY <1>1, <1>3 DEF Sum
<1> QED BY <1>4 DEF Holds

LEMMA RowEmptied ==
    ASSUME NEW s, NEW k, NEW d, NEW to, \A r \in PaidBy(k, s) : d.cur[r] = 0,
           Short(d, s) \in Nat, to.used = 0
    PROVE  Holds(to, k, d, s)
<1>1. PICK S, g : S = PaidBy(k, s) /\ g = d.cur
  OBVIOUS
<1>2. IsFiniteSet(S)
  BY <1>1, BoundsAssumption, FS_Subset DEF PaidBy
<1>3. SumOf(g, S) = 0
  BY <1>1, <1>2, SumZero
<1>4. Sum(k, d, s) = 0
  BY <1>1, <1>3 DEF Sum
<1> QED BY <1>4 DEF Holds

\* A step lets a request wait, or its refund go on, without a charge.
Waits(r) ==
    /\ job'[r].sub = job[r].sub /\ (job'[r].pc = "idle" => job[r].pc = "idle")
    /\ job'[r].pre = job[r].pre /\ book'.given[r] = book.given[r]
    /\ r \in book.old => r \in book'.old
    /\ job'[r].pc \in {"held", "refund"} => job[r].pc \in {"held", "refund", "mark"}
    /\ job'[r].pc = "mark" => job[r].pc = "mark"

\* A step empties the rows S and leaves the usage of the others.
Empties(S) ==
    /\ \A r \in Requests :
        /\ Waits(r)
        /\ book'.cur[r] = IF job[r].sub \in S THEN 0 ELSE book.cur[r]
        /\ job[r].sub \in S => r \in book'.old
    /\ \A s \in Subs :
        /\ s \in S => sub'[s].used = 0 /\ book'.leak[s] \in Nat /\ book'.again[s] \in Nat
        /\ s \notin S =>
             /\ sub'[s].used = sub[s].used
             /\ book'.leak[s] = book.leak[s] /\ book'.again[s] = book.again[s]
             /\ sub'[s].status \notin {"none", "deleted"}
                   => sub[s].status \notin {"none", "deleted"}
        /\ sub'[s].status = "none" => sub[s].status = "none"

\* A request that waits stays backed.
LEMMA WaitsBacked ==
    ASSUME NEW r \in Requests, Waits(r), Backed(job[r], book, r),
           r \in book'.old \/ book'.cur[r] = book.cur[r]
    PROVE  Backed(job'[r], book', r)
BY DEF Waits, Backed

LEMMA AccountsKept ==
    ASSUME Accounts, NEW S, Empties(S)
    PROVE  Accounts'
<1>1. ASSUME NEW r \in Requests
      PROVE  /\ book'.cur[r] \in Nat
             /\ job'[r].pc = "idle" => job'[r].sub = 0
             /\ job'[r].sub \in Subs => sub'[job'[r].sub].status # "none"
  BY DEF Accounts, Empties, Waits
<1>a. ASSUME NEW r \in Requests PROVE Backed(job'[r], book', r)
  <2>1. Waits(r) /\ Backed(job[r], book, r)
    BY DEF Accounts, Empties
  <2>2. r \in book'.old \/ book'.cur[r] = book.cur[r]
    BY DEF Empties
  <2> QED BY <2>1, <2>2, WaitsBacked
<1>2. \A s \in Subs : PaidBy(job', s) = PaidBy(job, s)
  BY DEF PaidBy, Empties, Waits
<1>3. ASSUME NEW s \in Subs
      PROVE  book'.leak[s] \in Nat /\ book'.again[s] \in Nat /\ Holds(sub'[s], job', book', s)
  <2>0. book.leak[s] \in Nat /\ book.again[s] \in Nat
    BY DEF Accounts
  <2>1. CASE s \in S
    <3>1. \A r \in PaidBy(job', s) : book'.cur[r] = 0
      BY <2>1 DEF PaidBy, Empties, Waits
    <3>2. sub'[s].used = 0 /\ book'.leak[s] \in Nat /\ book'.again[s] \in Nat
      BY <2>1 DEF Empties
    <3>3. Short(book', s) \in Nat
      BY <3>2 DEF Short
    <3> QED BY <3>1, <3>2, <3>3, RowEmptied
  <2>2. CASE s \notin S
    <3>1. \A r \in PaidBy(job, s) : book'.cur[r] = book.cur[r]
      BY <2>2 DEF PaidBy, Empties
    <3>2. Holds(sub[s], job, book, s)
      BY DEF Accounts
    <3>a. book'.leak[s] = book.leak[s] /\ book'.again[s] = book.again[s]
      BY <2>2 DEF Empties
    <3>b. Short(book', s) = Short(book, s)
      BY <3>a DEF Short
    <3>3. PICK row, to, j, k, b, d : /\ row = sub[s] /\ to = sub'[s] /\ j = job /\ k = job'
                                     /\ b = book /\ d = book'
      OBVIOUS
    <3>4. /\ to.used = row.used /\ Short(d, s) = Short(b, s)
          /\ to.status \notin {"none", "deleted"} => row.status \notin {"none", "deleted"}
      BY <2>2, <3>3, <3>b DEF Empties
    <3>5. Holds(to, k, d, s)
      BY <1>2, <3>1, <3>2, <3>3, <3>4, RowSame
    <3> QED BY <2>0, <3>a, <3>3, <3>5
  <2> QED BY <2>1, <2>2
<1> QED BY <1>1, <1>a, <1>3 DEF Accounts, Holds, Sum, PaidBy, Short, Backed

\* What the books say of charges after resets of the rows S.
Forgets(b, S) ==
    /\ b.given = book.given
    /\ \A r \in Requests :
        /\ b.cur[r] = IF job[r].sub \in S THEN 0 ELSE book.cur[r]
        /\ r \in b.old <=> r \in book.old \/ job[r].sub \in S
    /\ \A s \in Subs :
        /\ b.leak[s] = IF s \in S THEN 0 ELSE book.leak[s]
        /\ b.again[s] = IF s \in S THEN 0 ELSE book.again[s]

LEMMA NewPeriodForgets ==
    ASSUME Typed, NEW S
    PROVE  /\ Forgets(NewPeriod(book, S), S)
           /\ \A t : Forgets(Scheduled(book, S, t), S)
           /\ \A since : Forgets(Restarted(book, S, since), S)
<1>1. book \in BookType
  BY DEF Typed
<1>2. PICK c, l, a, o : /\ c = [r \in Requests |-> IF job[r].sub \in S THEN 0 ELSE book.cur[r]]
                        /\ l = [s \in Subs |-> IF s \in S THEN 0 ELSE book.leak[s]]
                        /\ a = [s \in Subs |-> IF s \in S THEN 0 ELSE book.again[s]]
                        /\ o = book.old \cup {r \in Requests : job[r].sub \in S}
  OBVIOUS
<1>3. NewPeriod(book, S) = [book EXCEPT !.cur = c, !.old = o, !.leak = l, !.again = a]
  BY <1>2 DEF NewPeriod
<1>4. PICK b : b = NewPeriod(book, S)
  OBVIOUS
<1>5. /\ b.cur = c /\ b.leak = l /\ b.again = a /\ b.old = o /\ b.given = book.given
      /\ DOMAIN b = {"cur", "old", "given", "lost", "leak", "again", "base", "grants", "reopened"}
  BY <1>1, <1>3, <1>4 DEF BookType
<1>6. ASSUME NEW d, d.cur = c, d.leak = l, d.again = a, d.old = o, d.given = book.given
      PROVE  Forgets(d, S)
  BY <1>2, <1>6 DEF Forgets
<1>7. ASSUME NEW t PROVE Forgets(Scheduled(book, S, t), S)
  <2>1. PICK n : Scheduled(book, S, t) = [b EXCEPT !.grants = n]
    BY <1>4 DEF Scheduled
  <2>2. PICK d : d = [b EXCEPT !.grants = n]
    OBVIOUS
  <2>3. d.cur = c /\ d.leak = l /\ d.again = a /\ d.old = o /\ d.given = book.given
    BY <1>5, <2>2
  <2> QED BY <1>6, <2>1, <2>2, <2>3
<1>8. ASSUME NEW since PROVE Forgets(Restarted(book, S, since), S)
  <2>1. PICK m, n : Restarted(book, S, since) = [b EXCEPT !.base = m, !.reopened = n]
    BY <1>4 DEF Restarted
  <2>2. PICK d : d = [b EXCEPT !.base = m, !.reopened = n]
    OBVIOUS
  <2>3. d.cur = c /\ d.leak = l /\ d.again = a /\ d.old = o /\ d.given = book.given
    BY <1>5, <2>2
  <2> QED BY <1>6, <2>1, <2>2, <2>3
<1> QED BY <1>4, <1>5, <1>6, <1>7, <1>8

\* A reset empties the usage exactly when it is due.
LEMMA MaybeResetUsed ==
    ASSUME NEW row \in RowType, NEW t
    PROVE  /\ MaybeReset(row, t).used = IF Due(row, t) THEN 0 ELSE row.used
           /\ MaybeReset(row, t).status = row.status
<1>1. PICK base, to, next, late :
        /\ base = Since(row) /\ to = Boundary(base, Max(Passed(base, row.end, t)))
        /\ next = NextReset(base, row.end) /\ late = NextReset(to, row.end)
  OBVIOUS
<1>2. MaybeReset(row, t) = IF Due(row, t) THEN [row EXCEPT !.used = 0, !.last = to, !.next = late]
                           ELSE IF row.next = 0 /\ next > 0
                           THEN [row EXCEPT !.last = base, !.next = next]
                           ELSE row
  BY <1>1 DEF MaybeReset, Since
<1>3. /\ [row EXCEPT !.used = 0, !.last = to, !.next = late].used = 0
      /\ [row EXCEPT !.used = 0, !.last = to, !.next = late].status = row.status
      /\ [row EXCEPT !.last = base, !.next = next].used = row.used
      /\ [row EXCEPT !.last = base, !.next = next].status = row.status
  BY DEF RowType
<1> QED BY <1>2, <1>3

\* The steps that leave usage and books.
LEMMA QuietAccounts ==
    ASSUME Accounts, book'.cur = book.cur, book'.leak = book.leak, book'.again = book.again,
           \A r \in Requests : Waits(r),
           \A s \in Subs :
              /\ sub'[s].used = sub[s].used
              /\ sub'[s].status = sub[s].status \/ (sub'[s].status \in {"expired", "cancelled"}
                                                     /\ sub[s].status \notin {"none", "deleted"})
    PROVE  Accounts'
<1>1. Empties({})
  BY DEF Empties
<1> QED BY <1>1, AccountsKept

LEMMA RecordAccounts ==
    ASSUME Typed, Accounts, NEW r \in Requests,
           RefundAlready(r) \/ RefundDeltaFails(r) \/ RefundMark(r) \/ RefundMarkFails(r)
             \/ RefundAnswerLost(r)
    PROVE  Accounts'
<1>1. job \in [Requests -> JobType] /\ job[r] \in JobType /\ book \in BookType
  BY DEF Typed
<1>2. /\ sub' = sub /\ book'.cur = book.cur /\ book'.leak = book.leak /\ book'.again = book.again
      /\ book'.old = book.old /\ book'.given = book.given
  BY <1>1 DEF RefundAlready, RefundDeltaFails, RefundMark, RefundMarkFails, RefundAnswerLost, BookType
<1>3. PICK j : job' = [job EXCEPT ![r] = j] /\ j.sub = job[r].sub /\ j.pc \notin {"idle", "mark"}
                                              /\ j.pre = job[r].pre
                                              /\ job[r].pc \in {"held", "refund", "mark"}
  <2>1. CASE RefundAlready(r)
    <3>1. PICK m : m = [job[r] EXCEPT !.pc = "done"]
      OBVIOUS
    <3>2. m.sub = job[r].sub /\ m.pc = "done" /\ m.pre = job[r].pre
      BY <1>1, <3>1 DEF JobType
    <3> QED BY <2>1, <3>1, <3>2 DEF RefundAlready
  <2>2. /\ Failed(job[r]).sub = job[r].sub /\ Failed(job[r]).pc \notin {"idle", "mark"}
        /\ Failed(job[r]).pre = job[r].pre /\ DOMAIN Failed(job[r]) = DOMAIN job[r]
    BY <1>1 DEF Failed, JobType
  <2>3. CASE RefundDeltaFails(r)
    BY <2>2, <2>3 DEF RefundDeltaFails
  <2>4. CASE RefundMark(r)
    <3>1. PICK m : m = [job[r] EXCEPT !.pc = "done", !.refunded = TRUE]
      OBVIOUS
    <3>2. m.sub = job[r].sub /\ m.pc = "done" /\ m.pre = job[r].pre
      BY <1>1, <3>1 DEF JobType
    <3> QED BY <2>4, <3>1, <3>2 DEF RefundMark
  <2>5. CASE RefundMarkFails(r)
    BY <2>2, <2>5 DEF RefundMarkFails
  <2>6. CASE RefundAnswerLost(r)
    <3>1. PICK m : m = Failed(job[r])
      OBVIOUS
    <3>2. /\ [m EXCEPT !.refunded = TRUE].sub = job[r].sub
          /\ [m EXCEPT !.refunded = TRUE].pc \notin {"idle", "mark"}
          /\ [m EXCEPT !.refunded = TRUE].pre = job[r].pre
      BY <1>1, <2>2, <3>1 DEF JobType
    <3> QED BY <2>6, <3>1, <3>2 DEF RefundAnswerLost
  <2> QED BY <2>1, <2>3, <2>4, <2>5, <2>6
<1>4. \A q \in Requests : Waits(q)
  BY <1>1, <1>2, <1>3 DEF Waits
<1> QED BY <1>2, <1>4, QuietAccounts

LEMMA ExpireAccounts ==
    ASSUME Typed, Accounts, Expire
    PROVE  Accounts'
<1>1. \A s \in Subs : sub[s] \in RowType
  BY DEF Typed
<1>2. ASSUME NEW s \in Subs
      PROVE  /\ sub'[s].used = sub[s].used
             /\ sub'[s].status = sub[s].status \/ (sub'[s].status \in {"expired", "cancelled"}
                                                    /\ sub[s].status \notin {"none", "deleted"})
  <2>1. PICK m : m = [sub[s] EXCEPT !.status = "expired"]
    OBVIOUS
  <2>2. m.used = sub[s].used /\ m.status = "expired"
    BY <1>1, <2>1 DEF RowType
  <2>3. sub'[s] = sub[s] \/ (sub'[s] = m /\ sub[s].status = "active")
    BY <2>1 DEF Expire
  <2> QED BY <2>2, <2>3
<1>3. job' = job /\ book' = book
  BY DEF Expire
<1>4. \A r \in Requests : Waits(r)
  BY <1>3 DEF Waits
<1> QED BY <1>2, <1>3, <1>4, QuietAccounts

LEMMA InvalidateAccounts ==
    ASSUME Typed, Accounts, NEW s \in Subs, Invalidate(s)
    PROVE  Accounts'
<1>1. sub \in [Subs -> RowType] /\ sub[s] \in RowType
  BY DEF Typed
<1>2. PICK m : m = [sub[s] EXCEPT !.status = "cancelled", !.end = now]
  OBVIOUS
<1>3. m.used = sub[s].used /\ m.status = "cancelled" /\ sub[s].status \notin {"none", "deleted"}
  BY <1>1, <1>2 DEF RowType, Invalidate, Exists
<1>4. sub' = [sub EXCEPT ![s] = m] /\ job' = job /\ book' = book
  BY <1>2 DEF Invalidate
<1>5. \A c \in Subs :
              /\ sub'[c].used = sub[c].used
              /\ sub'[c].status = sub[c].status \/ (sub'[c].status \in {"expired", "cancelled"}
                                                     /\ sub[c].status \notin {"none", "deleted"})
  BY <1>1, <1>3, <1>4
<1>6. \A r \in Requests : Waits(r)
  BY <1>4 DEF Waits
<1> QED BY <1>4, <1>5, <1>6, QuietAccounts

LEMMA CreateAccounts ==
    ASSUME Typed, Accounts, NEW s \in Subs, Create(s)
    PROVE  Accounts'
<1>1. sub \in [Subs -> RowType] /\ sub[s].status = "none" /\ book \in BookType
  BY DEF Typed, Create
<1>2. /\ sub'[s].used = 0 /\ sub'[s].status = "active"
      /\ \A c \in Subs \ {s} : sub'[c] = sub[c]
  BY <1>1 DEF Create
<1>3. /\ job' = job /\ book'.cur = book.cur /\ book'.leak = book.leak /\ book'.again = book.again
      /\ book'.old = book.old /\ book'.given = book.given
  BY <1>1 DEF Create, BookType
<1>4. \A r \in Requests : job[r].sub \notin {s}
  BY <1>1 DEF Accounts
<1>5. book.leak[s] \in Nat /\ book.again[s] \in Nat
  BY DEF Accounts
<1>6. Empties({s})
  BY <1>1, <1>2, <1>3, <1>4, <1>5 DEF Empties, Waits
<1> QED BY <1>6, AccountsKept

LEMMA DeleteAccounts ==
    ASSUME Typed, Accounts, NEW s \in Subs, Delete(s)
    PROVE  Accounts'
<1>1. sub \in [Subs -> RowType]
  BY DEF Typed
<1>2. PICK m : m = [NoRow EXCEPT !.status = "deleted"]
  OBVIOUS
<1>a. m.used = 0 /\ m.status = "deleted"
  BY <1>2 DEF NoRow
<1>3. sub'[s] = m /\ \A c \in Subs \ {s} : sub'[c] = sub[c]
  BY <1>1, <1>2 DEF Delete
<1>4. job' = job /\ Forgets(book', {s})
  BY NewPeriodForgets DEF Delete
<1>7. Empties({s})
  BY <1>a, <1>3, <1>4 DEF Empties, Waits, Forgets
<1> QED BY <1>7, AccountsKept

LEMMA ResetRowAccounts ==
    ASSUME Typed, Accounts, ResetRow
    PROVE  Accounts'
<1>1. PICK s \in maint.list :
        LET found == Exists(s) /\ s \in Overdue(maint.seen)
            due   == found /\ Due(sub[s], maint.seen)
        IN  /\ sub' = [sub EXCEPT ![s] = IF found THEN MaybeReset(sub[s], maint.seen) ELSE @]
            /\ book' = IF due THEN Scheduled(book, {s}, maint.seen) ELSE book
  BY DEF ResetRow
<1>2. PICK found \in BOOLEAN : found = (Exists(s) /\ s \in Overdue(maint.seen))
  OBVIOUS
<1>3. s \in Subs /\ sub \in [Subs -> RowType] /\ sub[s] \in RowType
  BY DEF Typed, Maint, MaintType
<1>4. PICK m, t : t = maint.seen /\ m = MaybeReset(sub[s], t)
  OBVIOUS
<1>5. /\ m.used = IF Due(sub[s], t) THEN 0 ELSE sub[s].used
      /\ m.status = sub[s].status
  BY <1>3, <1>4, MaybeResetUsed
<1>6. /\ sub'[s] = IF found THEN m ELSE sub[s]
      /\ \A c \in Subs \ {s} : sub'[c] = sub[c]
  BY <1>1, <1>2, <1>3, <1>4
<1>7. job' = job /\ book' = IF found /\ Due(sub[s], t) THEN Scheduled(book, {s}, t) ELSE book
  BY <1>1, <1>2, <1>4 DEF ResetRow
<1>8. CASE found /\ Due(sub[s], t)
  <2>1. Forgets(book', {s})
    BY <1>7, <1>8, NewPeriodForgets
  <2>2. Empties({s})
    <3>1. PICK S : S = {s}
      OBVIOUS
    <3>2. \A c \in S : sub'[c].used = 0 /\ sub'[c].status = sub[c].status
      BY <1>5, <1>6, <1>8, <3>1
    <3>3. \A c \in Subs \ S : sub'[c] = sub[c]
      BY <1>6, <3>1
    <3>4. Forgets(book', S)
      BY <2>1, <3>1
    <3>5. Empties(S)
      <4>1. \A q \in Requests : Waits(q)
        BY <1>7, <1>8, <3>4 DEF Waits, Forgets
      <4>2. job' = job
        BY <1>7
      <4> QED BY <3>2, <3>3, <3>4, <4>1, <4>2 DEF Empties, Forgets
    <3> QED BY <3>1, <3>5
  <2> QED BY <2>2, AccountsKept
<1>9. CASE ~(found /\ Due(sub[s], t))
  <2>1. Empties({})
    BY <1>5, <1>6, <1>7, <1>9 DEF Empties, Waits
  <2> QED BY <2>1, AccountsKept
<1> QED BY <1>8, <1>9

LEMMA AdminResetAccounts ==
    ASSUME Typed, Accounts, NEW advance \in BOOLEAN, AdminReset(advance)
    PROVE  Accounts'
<1>1. PICK t \in Recent :
        /\ sub' = [s \in Subs |->
                     IF s \notin Candidates(t) THEN sub[s]
                     ELSE IF ~advance THEN [sub[s] EXCEPT !.used = 0]
                     ELSE [sub[s] EXCEPT !.used = 0, !.next = NextReset(t, sub[s].end),
                                         !.last = IF NextReset(t, sub[s].end) > 0 THEN t ELSE 0]]
        /\ book' = IF advance
                   THEN Restarted(book, Candidates(t),
                                  [s \in Subs |-> IF NextReset(t, sub[s].end) > 0 THEN t
                                                  ELSE sub[s].start])
                   ELSE NewPeriod(book, Candidates(t))
  BY DEF AdminReset
<1>2. ASSUME NEW s \in Subs
      PROVE  /\ s \in Candidates(t) => sub'[s].used = 0 /\ sub'[s].status = "active"
             /\ s \notin Candidates(t) => sub'[s] = sub[s]
  <2>0. PICK next, last :
          next = NextReset(t, sub[s].end) /\ last = (IF NextReset(t, sub[s].end) > 0 THEN t ELSE 0)
    OBVIOUS
  <2>1. PICK m, o : /\ m = [sub[s] EXCEPT !.used = 0]
                    /\ o = [sub[s] EXCEPT !.used = 0, !.next = next, !.last = last]
    OBVIOUS
  <2>2. sub[s] \in RowType
    BY DEF Typed
  <2>3. m.used = 0 /\ o.used = 0 /\ m.status = sub[s].status /\ o.status = sub[s].status
    BY <2>1, <2>2 DEF RowType
  <2>4. sub'[s] = IF s \notin Candidates(t) THEN sub[s] ELSE IF ~advance THEN m ELSE o
    BY <1>1, <2>0, <2>1
  <2>5. s \in Candidates(t) => sub[s].status = "active"
    BY DEF Candidates
  <2> QED BY <2>3, <2>4, <2>5
<1>3. job' = job
  BY DEF AdminReset
<1>4. Forgets(book', Candidates(t))
  BY <1>1, NewPeriodForgets
<1>5. Empties(Candidates(t))
  BY <1>2, <1>3, <1>4 DEF Empties, Waits, Forgets
<1> QED BY <1>5, AccountsKept

\* PostConsumeUserSubscriptionDelta: what a reduction takes back beyond the
\* charges of this period has its reason, and the clamp at 0 only takes less.
LEMMA ChargeAccounts ==
    ASSUME Typed, Accounts, NEW r \in Requests, job[r].sub \in Subs, NEW delta \in Int,
           PostConsumeDelta(r, delta),
           book'.cur = Booked(book, r, delta).cur, book'.leak = Booked(book, r, delta).leak,
           book'.again = Booked(book, r, delta).again,
           r \in book.old \/ book.given[r] > 0 \/ book.cur[r] + delta >= 0,
           job'[r].sub = job[r].sub, job'[r].pc # "idle", Backed(job'[r], book', r),
           \A q \in Requests \ {r} : Waits(q)
    PROVE  Accounts'
<1>1. PICK s \in Subs : s = job[r].sub
  OBVIOUS
<1>2. PICK c \in Nat, l \in Nat, a \in Nat, u \in Nat, g \in Nat :
        /\ c = book.cur[r] /\ l = book.leak[s] /\ a = book.again[s] /\ u = sub[s].used
        /\ g = book.given[r]
  <2>1. sub[s].used \in Nat /\ book.given[r] \in Nat
    BY DEF Typed, RowType, BookType
  <2> QED BY <2>1 DEF Accounts
<1>3. PICK left \in Int : left = c + delta
  OBVIOUS
<1>x. PICK excess \in Nat : excess = IF left < 0 THEN -left ELSE 0
  OBVIOUS
<1>4. PICK d \in Nat, k \in Nat, e \in Nat :
        /\ d = (IF left < 0 THEN 0 ELSE left)
        /\ k = (IF g = 0 /\ r \in book.old THEN l + excess ELSE l)
        /\ e = (IF g > 0 THEN a + excess ELSE a)
  <2>1. /\ (IF left < 0 THEN 0 ELSE left) \in Nat
        /\ (IF g = 0 /\ r \in book.old THEN l + excess ELSE l) \in Nat
        /\ (IF g > 0 THEN a + excess ELSE a) \in Nat
    OBVIOUS
  <2> QED BY <2>1
<1>y. k + e = (l + a) + excess
  <2>1. r \in book.old \/ g > 0 \/ excess = 0
    BY <1>2, <1>3, <1>x
  <2> QED BY <1>4, <2>1
<1>5. Booked(book, r, delta) = [book EXCEPT !.cur[r] = d, !.again[s] = e, !.leak[s] = k]
  BY <1>1, <1>2, <1>3, <1>x, <1>4 DEF Booked
<1>6. /\ book \in BookType /\ book.cur \in [Requests -> Int] /\ book.leak \in [Subs -> Int]
      /\ book.again \in [Subs -> Int]
  BY DEF Typed, BookType
<1>7. /\ book'.cur = [book.cur EXCEPT ![r] = d] /\ book'.leak = [book.leak EXCEPT ![s] = k]
      /\ book'.again = [book.again EXCEPT ![s] = e]
  BY <1>5, <1>6 DEF BookType
<1>8. PICK v \in Nat : v = IF u + delta < 0 THEN 0 ELSE u + delta
  <2>1. (IF u + delta < 0 THEN 0 ELSE u + delta) \in Nat
    OBVIOUS
  <2> QED BY <2>1
<1>9. PICK m : m = [sub[s] EXCEPT !.used = v]
  OBVIOUS
<1>10. m.used = v /\ m.status = sub[s].status /\ sub[s].status \notin {"none", "deleted"}
  BY <1>1, <1>9 DEF Typed, RowType, PostConsumeDelta, DeltaFits, Exists
<1>11. sub'[s] = m /\ \A z \in Subs \ {s} : sub'[z] = sub[z]
  <2>1. NewUsed(s, delta) = v
    BY <1>2, <1>8 DEF NewUsed
  <2>2. sub' = [sub EXCEPT ![s].used = v]
    BY <1>1, <2>1 DEF PostConsumeDelta
  <2> QED BY <1>9, <2>2 DEF Typed
<1>12. \A z \in Subs : PaidBy(job', z) = PaidBy(job, z)
  BY DEF PaidBy, Waits
<1>13. ASSUME NEW q \in Requests
       PROVE  /\ book'.cur[q] \in Nat
              /\ job'[q].pc = "idle" => job'[q].sub = 0
              /\ job'[q].sub \in Subs => sub'[job'[q].sub].status # "none"
  <2>1. book'.cur[q] = IF q = r THEN d ELSE book.cur[q]
    BY <1>6, <1>7
  <2> QED BY <2>1, <1>10, <1>11 DEF Accounts, Waits
<1>b. ASSUME NEW q \in Requests PROVE Backed(job'[q], book', q)
  <2>1. CASE q = r
    BY <2>1
  <2>2. CASE q # r
    <3>1. Waits(q) /\ Backed(job[q], book, q) /\ book'.cur[q] = book.cur[q]
      BY <1>6, <1>7, <2>2 DEF Accounts
    <3> QED BY <3>1, WaitsBacked
  <2> QED BY <2>1, <2>2
<1>14. ASSUME NEW z \in Subs, z # s
       PROVE  book'.leak[z] \in Nat /\ book'.again[z] \in Nat /\ Holds(sub'[z], job', book', z)
  <2>1. \A q \in PaidBy(job, z) : book'.cur[q] = book.cur[q]
    BY <1>1, <1>6, <1>7, <1>14 DEF PaidBy
  <2>2. book'.leak[z] = book.leak[z] /\ book'.again[z] = book.again[z] /\ sub'[z] = sub[z]
    BY <1>6, <1>7, <1>11, <1>14
  <2>3. book.leak[z] \in Nat /\ book.again[z] \in Nat /\ Holds(sub[z], job, book, z)
    BY DEF Accounts
  <2>4. PICK row, j, i, b, n : row = sub[z] /\ j = job /\ i = job' /\ b = book /\ n = book'
    OBVIOUS
  <2>a. Short(n, z) = Short(b, z)
    BY <2>2, <2>4 DEF Short
  <2>5. Holds(row, i, n, z)
    BY <1>12, <2>1, <2>3, <2>4, <2>a, RowSame
  <2> QED BY <2>2, <2>3, <2>4, <2>5
<1>15. book'.leak[s] \in Nat /\ book'.again[s] \in Nat /\ Holds(sub'[s], job', book', s)
  <2>1. PICK T, f, h : T = PaidBy(job, s) /\ f = book.cur /\ h = book'.cur
    OBVIOUS
  <2>2. r \in T /\ IsFiniteSet(T) /\ IsFiniteSet(T \ {r}) /\ T \subseteq Requests
    BY <1>1, <2>1, BoundsAssumption, FS_Subset DEF PaidBy
  <2>3. (\A q \in T : f[q] \in Nat) /\ (\A q \in T : h[q] \in Nat)
    BY <1>13, <2>1, <2>2 DEF Accounts
  <2>4. \A q \in T \ {r} : f[q] = h[q]
    BY <1>6, <1>7, <2>1, <2>2
  <2>5. f[r] = c /\ h[r] = d
    BY <1>2, <1>6, <1>7, <2>1
  <2>6. PICK rest \in Nat : rest = SumOf(f, T \ {r})
    BY <2>2, <2>3, SumNat
  <2>7. SumOf(f, T) = c + rest
    BY <2>2, <2>3, <2>5, <2>6, SumWithout
  <2>8. SumOf(h, T) = d + rest
    <3>1. SumOf(f, T \ {r}) = SumOf(h, T \ {r})
      BY <2>2, <2>4, SumAgree
    <3> QED BY <2>2, <2>3, <2>5, <2>6, <3>1, SumWithout
  <2>9. u <= c + rest /\ u + (l + a) >= c + rest
    <3>1. Holds(sub[s], job, book, s)
      BY DEF Accounts
    <3> QED BY <1>2, <1>10, <2>1, <2>7, <3>1 DEF Holds, Sum, Short
  <2>10. v <= d + rest /\ v + (k + e) >= d + rest
    BY <1>3, <1>x, <1>4, <1>y, <1>8, <2>9
  <2>11. book'.leak[s] = k /\ book'.again[s] = e
    BY <1>6, <1>7
  <2>12. Sum(job', book', s) = d + rest /\ Short(book', s) = k + e
    BY <1>12, <2>1, <2>8, <2>11 DEF Sum, Short
  <2> QED BY <1>10, <1>11, <2>10, <2>11, <2>12 DEF Holds
<1> QED BY <1>13, <1>b, <1>14, <1>15 DEF Accounts, Holds, Sum, PaidBy, Short, Backed

LEMMA SettleAccounts ==
    ASSUME Typed, Accounts, NEW r \in Requests, Settle(r)
    PROVE  Accounts'
<1>1. /\ job \in [Requests -> JobType] /\ job[r] \in JobType /\ job[r].sub \in Subs
      /\ job[r].pre \in Nat /\ job[r].pc = "held" /\ book \in BookType
  BY DEF Typed, Job, JobType, Settle
<1>2. PICK m : m = [job[r] EXCEPT !.pc = "settled"]
  OBVIOUS
<1>3. /\ m.sub = job[r].sub /\ m.pc = "settled" /\ m.pre = job[r].pre
      /\ job' = [job EXCEPT ![r] = m]
  BY <1>1, <1>2 DEF JobType, Settle
<1>4. job'[r] = m /\ \A q \in Requests \ {r} : job'[q] = job[q]
  BY <1>1, <1>3
<1>5. PICK actual \in Actuals :
        \/ PostConsumeDelta(r, actual - job[r].pre) /\ book' = Booked(book, r, actual - job[r].pre)
        \/ UNCHANGED <<sub, book>>
  BY DEF Settle
<1>6. PICK delta \in Int : delta = actual - job[r].pre
  BY <1>1, Bounds
<1>7. CASE UNCHANGED <<sub, book>>
  <2>1. \A q \in Requests : Waits(q)
    BY <1>1, <1>3, <1>4, <1>7 DEF Waits
  <2> QED BY <1>7, <2>1, QuietAccounts
<1>8. CASE PostConsumeDelta(r, delta) /\ book' = Booked(book, r, delta)
  <2>1. book'.given = book.given /\ book'.old = book.old
    BY <1>1, <1>8, BookedBook
  <2>2. \A q \in Requests \ {r} : Waits(q)
    BY <1>4, <2>1 DEF Waits
  <2>3. r \in book.old \/ book.given[r] > 0 \/ book.cur[r] + delta >= 0
    <3>1. Backed(job[r], book, r) /\ book.cur[r] \in Nat /\ actual \in Nat
      BY Bounds DEF Accounts
    <3> QED BY <1>1, <1>6, <3>1 DEF Backed
  <2>4. job'[r].sub = job[r].sub /\ job'[r].pc # "idle" /\ Backed(job'[r], book', r)
    BY <1>3, <1>4 DEF Backed
  <2> QED BY <1>1, <1>8, <2>2, <2>3, <2>4, ChargeAccounts
<1> QED BY <1>5, <1>6, <1>7, <1>8

\* An attempt of a refund whose inner transaction commits.
LEMMA RefundDeltaAccounts ==
    ASSUME Typed, Accounts, NEW r \in Requests, RefundDelta(r) \/ RefundDeltaUnheard(r)
    PROVE  Accounts'
<1>1. /\ job \in [Requests -> JobType] /\ job[r] \in JobType /\ job[r].sub \in Subs
      /\ job[r].pre \in Nat /\ job[r].pc \in {"held", "refund"}
  BY DEF Typed, Job, JobType, RefundDelta, RefundDeltaUnheard
<1>2. PICK m : m.sub = job[r].sub /\ m.pc # "idle" /\ job' = [job EXCEPT ![r] = m]
  <2>1. CASE RefundDelta(r)
    <3>1. PICK m : m = [job[r] EXCEPT !.pc = "mark"]
      OBVIOUS
    <3>2. m.sub = job[r].sub /\ m.pc = "mark" /\ job' = [job EXCEPT ![r] = m]
      BY <1>1, <2>1, <3>1 DEF JobType, RefundDelta
    <3> QED BY <3>2
  <2>2. CASE RefundDeltaUnheard(r)
    <3>1. Failed(job[r]).sub = job[r].sub /\ Failed(job[r]).pc # "idle"
      BY <1>1 DEF Failed, JobType
    <3> QED BY <2>2, <3>1 DEF RefundDeltaUnheard
  <2> QED BY <2>1, <2>2
<1>4. job'[r] = m /\ \A q \in Requests \ {r} : job'[q] = job[q]
  BY <1>1, <1>2
<1>5. PICK delta \in Int : delta = -job[r].pre
  BY <1>1
<1>6. PICK b \in BookType : b = Booked(book, r, delta) /\ b.given = book.given /\ b.old = book.old
  BY <1>1, BookedBook
<1>7. \/ book' = [b EXCEPT !.given[r] = @ + 1]
      \/ book' = [b EXCEPT !.given[r] = @ + 1, !.lost[r] = @ + 1]
  BY <1>5, <1>6 DEF RefundDelta, RefundDeltaUnheard
<1>8. /\ book'.cur = b.cur /\ book'.leak = b.leak /\ book'.again = b.again /\ book'.old = book.old
      /\ book'.given[r] = book.given[r] + 1
      /\ \A q \in Requests \ {r} : book'.given[q] = book.given[q]
  <2>1. PICK n : n = book'
    OBVIOUS
  <2>2. /\ n.cur = b.cur /\ n.leak = b.leak /\ n.again = b.again /\ n.old = b.old
        /\ n.given[r] = b.given[r] + 1 /\ \A q \in Requests \ {r} : n.given[q] = b.given[q]
    <3>1. CASE TakesBack(n, b, r)
      BY <3>1, GivenBook
    <3>2. CASE TakesAndLoses(n, b, r)
      BY <3>2, GivenLostBook
    <3> QED BY <1>7, <2>1, <3>1, <3>2 DEF TakesBack, TakesAndLoses
  <2> QED BY <1>6, <2>1, <2>2
<1>9. PostConsumeDelta(r, delta)
  BY <1>5 DEF RefundDelta, RefundDeltaUnheard
<1>10. \A q \in Requests \ {r} : Waits(q)
  BY <1>4, <1>8 DEF Waits
<1>11. book.given[r] \in Nat
  BY DEF Typed, BookType
<1>12. r \in book.old \/ book.given[r] > 0 \/ book.cur[r] + delta >= 0
  <2>1. Backed(job[r], book, r) /\ book.cur[r] \in Nat
    BY DEF Accounts
  <2> QED BY <1>1, <1>5, <2>1 DEF Backed
<1>13. job'[r].sub = job[r].sub /\ job'[r].pc # "idle" /\ Backed(job'[r], book', r)
  BY <1>2, <1>4, <1>8, <1>11 DEF Backed
<1> QED BY <1>1, <1>6, <1>8, <1>9, <1>10, <1>12, <1>13, ChargeAccounts

LEMMA PreConsumeAccounts ==
    ASSUME Typed, Accounts, NEW r \in Requests, PreConsume(r)
    PROVE  Accounts'
<1>1. PICK amount \in Amounts, t \in Recent, s \in Subs :
        /\ s \in Candidates(t)
        /\ sub' = [c \in Subs |->
                     IF c \notin UpTo(s, t) THEN sub[c]
                     ELSE IF c = s THEN [MaybeReset(sub[c], t) EXCEPT !.used = @ + amount]
                     ELSE MaybeReset(sub[c], t)]
        /\ job' = [job EXCEPT ![r] = [@ EXCEPT !.pc = "held", !.sub = s, !.pre = amount]]
        /\ book' = [Scheduled(book, {c \in UpTo(s, t) : Due(sub[c], t)}, t) EXCEPT !.cur[r] = amount]
  BY ZenonT(60) DEF PreConsume, Candidates
<1>2. PICK due : due = {c \in UpTo(s, t) : Due(sub[c], t)}
  OBVIOUS
<1>3. s \in Subs /\ s \in UpTo(s, t) /\ UpTo(s, t) \subseteq Subs /\ s # 0
      /\ sub[s].status = "active" /\ amount \in Nat
  <2>1. s \in Nat /\ s # 0 /\ sub[s].status = "active" /\ amount \in Nat /\ sub[s].end \in Nat
    BY <1>1, Bounds DEF Candidates, Typed, RowType
  <2> QED BY <1>1, <2>1 DEF UpTo, Candidates
<1>4. sub \in [Subs -> RowType] /\ job \in [Requests -> JobType] /\ job[r] \in JobType
  BY DEF Typed
<1>5. job[r].sub = 0
  BY DEF Accounts, PreConsume
<1>6. /\ job'[r].sub = s /\ job'[r].pc = "held" /\ job'[r].pre = amount
      /\ \A q \in Requests \ {r} : job'[q] = job[q]
  BY <1>1, <1>4 DEF JobType
<1>7. PICK b \in BookType : b = Scheduled(book, due, t) /\ Forgets(b, due)
  BY ScheduledBook, NewPeriodForgets
<1>8. book' = [b EXCEPT !.cur[r] = amount]
  BY <1>1, <1>2, <1>7
<1>9. /\ book'.leak = b.leak /\ book'.again = b.again /\ book'.cur[r] = amount
      /\ book'.old = b.old /\ book'.given = b.given
      /\ \A q \in Requests \ {r} : book'.cur[q] = b.cur[q]
  BY <1>7, <1>8 DEF BookType
<1>10. /\ \A q \in Requests \ {r} : book'.cur[q] = IF job[q].sub \in due THEN 0 ELSE book.cur[q]
       /\ \A c \in Subs : /\ book'.leak[c] = IF c \in due THEN 0 ELSE book.leak[c]
                          /\ book'.again[c] = IF c \in due THEN 0 ELSE book.again[c]
       /\ \A q \in Requests \ {r} : Waits(q) /\ (job[q].sub \in due => q \in book'.old)
  <2>1. \A q \in Requests \ {r} : book'.cur[q] = IF job[q].sub \in due THEN 0 ELSE book.cur[q]
    BY <1>7, <1>9 DEF Forgets
  <2>2. \A c \in Subs : /\ book'.leak[c] = IF c \in due THEN 0 ELSE book.leak[c]
                        /\ book'.again[c] = IF c \in due THEN 0 ELSE book.again[c]
    BY <1>7, <1>9 DEF Forgets
  <2>3. /\ book'.given = book.given
        /\ \A q \in Requests : q \in book'.old <=> q \in book.old \/ job[q].sub \in due
    BY <1>7, <1>9 DEF Forgets
  <2>4. \A q \in Requests \ {r} : Waits(q) /\ (job[q].sub \in due => q \in book'.old)
    BY <1>6, <2>3 DEF Waits
  <2> QED BY <2>1, <2>2, <2>4
<1>11. ASSUME NEW c \in Subs, c # s
       PROVE  /\ sub'[c].used = IF c \in due THEN 0 ELSE sub[c].used
              /\ sub'[c].status = sub[c].status
  <2>1. sub'[c] = IF c \notin UpTo(s, t) THEN sub[c] ELSE MaybeReset(sub[c], t)
    BY <1>1, <1>11
  <2>2. /\ MaybeReset(sub[c], t).used = IF Due(sub[c], t) THEN 0 ELSE sub[c].used
        /\ MaybeReset(sub[c], t).status = sub[c].status
    BY <1>4, MaybeResetUsed
  <2> QED BY <1>2, <2>1, <2>2
<1>12. /\ sub'[s].used = (IF s \in due THEN 0 ELSE sub[s].used) + amount
       /\ sub'[s].status = "active"
  <2>1. PICK m : m = MaybeReset(sub[s], t)
    OBVIOUS
  <2>2. m.used = (IF s \in due THEN 0 ELSE sub[s].used) /\ m.status = "active"
    BY <1>2, <1>3, <1>4, <2>1, MaybeResetUsed
  <2>3. Row(m)
    <3>1. Row(sub[s]) /\ sub[s].status # "none" /\ t \in Nat
      BY <1>3, RecentIsPast DEF Typed
    <3> QED BY <2>1, <3>1, MaybeResetRow
  <2>4. PICK o : o = [m EXCEPT !.used = @ + amount]
    OBVIOUS
  <2>5. o.used = m.used + amount /\ o.status = m.status
    BY <2>3, <2>4 DEF Row, RowType
  <2>6. sub'[s] = o
    BY <1>1, <1>3, <2>1, <2>4
  <2> QED BY <2>2, <2>5, <2>6
<1>13. ASSUME NEW q \in Requests
       PROVE  /\ book'.cur[q] \in Nat
              /\ job'[q].pc = "idle" => job'[q].sub = 0
              /\ job'[q].sub \in Subs => sub'[job'[q].sub].status # "none"
  BY <1>3, <1>6, <1>9, <1>10, <1>11, <1>12 DEF Accounts
<1>b. ASSUME NEW q \in Requests PROVE Backed(job'[q], book', q)
  <2>1. CASE q = r
    BY <1>3, <1>6, <1>9, <2>1 DEF Backed
  <2>2. CASE q # r
    <3>1. Waits(q) /\ Backed(job[q], book, q) /\ (q \in book'.old \/ book'.cur[q] = book.cur[q])
      BY <1>10, <2>2 DEF Accounts
    <3> QED BY <3>1, WaitsBacked
  <2> QED BY <2>1, <2>2
<1>14. ASSUME NEW c \in Subs
       PROVE  book'.leak[c] \in Nat /\ book'.again[c] \in Nat /\ Short(book', c) \in Nat
  <2>1. book.leak[c] \in Nat /\ book.again[c] \in Nat
    BY DEF Accounts
  <2>2. PICK l \in Nat, a \in Nat : book'.leak[c] = l /\ book'.again[c] = a
    BY <1>10, <2>1
  <2> QED BY <2>2 DEF Short
<1>s. ASSUME NEW c \in Subs PROVE Short(book', c) = IF c \in due THEN 0 ELSE Short(book, c)
  <2>1. CASE c \in due
    <3>1. book'.leak[c] = 0 /\ book'.again[c] = 0
      BY <1>10, <2>1
    <3> QED BY <2>1, <3>1 DEF Short
  <2>2. CASE c \notin due
    <3>1. book'.leak[c] = book.leak[c] /\ book'.again[c] = book.again[c]
      BY <1>10, <2>2
    <3> QED BY <2>2, <3>1 DEF Short
  <2> QED BY <2>1, <2>2
<1>15. ASSUME NEW c \in Subs, c # s PROVE Holds(sub'[c], job', book', c)
  <2>1. PaidBy(job', c) = PaidBy(job, c) /\ r \notin PaidBy(job, c)
    <3>1. c # 0
      BY Bounds
    <3> QED BY <1>5, <1>6, <1>15, <3>1 DEF PaidBy
  <2>2. CASE c \in due
    <3>1. \A q \in PaidBy(job', c) : book'.cur[q] = 0
      BY <1>10, <2>1, <2>2 DEF PaidBy
    <3>2. sub'[c].used = 0
      BY <1>11, <1>15, <2>2
    <3> QED BY <1>14, <3>1, <3>2, RowEmptied
  <2>3. CASE c \notin due
    <3>1. \A q \in PaidBy(job, c) : book'.cur[q] = book.cur[q]
      BY <1>10, <2>1, <2>3 DEF PaidBy
    <3>2. Holds(sub[c], job, book, c)
      BY DEF Accounts
    <3>3. PICK row, to, j, i, a, n : /\ row = sub[c] /\ to = sub'[c] /\ j = job /\ i = job'
                                     /\ a = book /\ n = book'
      OBVIOUS
    <3>4. /\ to.used = row.used /\ to.status = row.status /\ Short(n, c) = Short(a, c)
      BY <1>s, <1>11, <1>15, <2>3, <3>3
    <3>5. Holds(to, i, n, c)
      BY <2>1, <3>1, <3>2, <3>3, <3>4, RowSame
    <3> QED BY <3>3, <3>5
  <2> QED BY <2>2, <2>3
<1>16. Holds(sub'[s], job', book', s)
  <2>1. PICK T, V, f, g : T = PaidBy(job, s) /\ V = PaidBy(job', s) /\ f = book.cur /\ g = book'.cur
    OBVIOUS
  <2>2. r \in V /\ r \notin T /\ V \ {r} = T
    BY <1>3, <1>5, <1>6, <2>1 DEF PaidBy
  <2>3. IsFiniteSet(T) /\ IsFiniteSet(V) /\ T \subseteq Requests /\ V \subseteq Requests
    BY <2>1, BoundsAssumption, FS_Subset DEF PaidBy
  <2>4. (\A q \in T : f[q] \in Nat) /\ (\A q \in V : g[q] \in Nat)
    BY <1>13, <2>1, <2>3 DEF Accounts
  <2>5. SumOf(g, V) = amount + SumOf(g, T)
    <3>1. SumOf(g, V) = g[r] + SumOf(g, V \ {r})
      BY <2>2, <2>3, <2>4, SumWithout
    <3> QED BY <1>9, <2>1, <2>2, <3>1
  <2>6. Sum(job', book', s) = SumOf(g, V) /\ Sum(job, book, s) = SumOf(f, T)
    BY <2>1 DEF Sum
  <2>7. CASE s \in due
    <3>1. \A q \in T : g[q] = 0
      BY <1>10, <2>1, <2>2, <2>7 DEF PaidBy
    <3>2. SumOf(g, T) = 0
      BY <2>3, <3>1, SumZero
    <3>3. sub'[s].used = amount /\ Sum(job', book', s) = amount /\ Short(book', s) = 0
      BY <1>3, <1>s, <1>12, <2>5, <2>6, <2>7, <3>2
    <3> QED BY <1>3, <3>3 DEF Holds
  <2>8. CASE s \notin due
    <3>1. \A q \in T : f[q] = g[q]
      BY <1>10, <2>1, <2>2, <2>8 DEF PaidBy
    <3>2. SumOf(f, T) = SumOf(g, T)
      BY <2>3, <3>1, SumAgree
    <3>3. PICK u \in Nat, x \in Nat, l \in Nat :
            u = sub[s].used /\ x = SumOf(f, T) /\ l = Short(book, s)
      <4>1. SumOf(f, T) \in Nat
        BY <2>3, <2>4, SumNat
      <4>2. sub[s].used \in Nat /\ Short(book, s) \in Nat
        BY <1>3, <1>4 DEF RowType, Accounts, Short
      <4> QED BY <4>1, <4>2
    <3>4. u <= x /\ u + l >= x
      <4>1. Holds(sub[s], job, book, s)
        BY <1>3 DEF Accounts
      <4> QED BY <1>3, <2>6, <3>3, <4>1 DEF Holds
    <3>5. sub'[s].used = u + amount /\ Sum(job', book', s) = amount + x /\ Short(book', s) = l
      BY <1>3, <1>s, <1>12, <2>5, <2>6, <2>8, <3>2, <3>3
    <3>6. u + amount <= amount + x /\ (u + amount) + l >= amount + x
      BY <1>3, <3>4
    <3> QED BY <3>5, <3>6 DEF Holds
  <2> QED BY <2>7, <2>8
<1> QED BY <1>13, <1>b, <1>14, <1>15, <1>16 DEF Accounts, Holds, Sum, PaidBy, Short, Backed

LEMMA AccountsStep ==
    ASSUME Typed, Accounts, [Next]_vars
    PROVE  Accounts'
<1>1. CASE sub' = sub /\ job' = job /\ book' = book
  <2>1. \A r \in Requests : Waits(r)
    BY <1>1 DEF Waits
  <2> QED BY <1>1, <2>1, QuietAccounts
<1>2. ASSUME NEW r \in Requests, Request(r) PROVE Accounts'
  BY <1>2, PreConsumeAccounts, SettleAccounts, RefundDeltaAccounts, RecordAccounts DEF Request
<1>3. CASE Pass
  <2>1. ListDue => sub' = sub /\ job' = job /\ book' = book
    BY DEF ListDue
  <2> QED BY <1>1, <1>3, <2>1, ExpireAccounts, ResetRowAccounts DEF Pass
<1>4. CASE Admin
  <2>1. EditPlan => sub' = sub /\ job' = job /\ book' = book
    BY DEF EditPlan
  <2> QED BY <1>1, <1>4, <2>1, CreateAccounts, InvalidateAccounts, DeleteAccounts, AdminResetAccounts
          DEF Admin
<1>5. Tick \/ UNCHANGED vars => sub' = sub /\ job' = job /\ book' = book
  BY DEF Tick, vars
<1> QED BY <1>1, <1>2, <1>3, <1>4, <1>5 DEF Next

\* Balanced: the usage of a row is never more than what requests charged to it
\* since its last reset, and less at most by what was taken back of older
\* charges and by what repeated attempts of a refund took back again, for any
\* number of requests and rows. Beside the sums it needs that no request points
\* at a row before the row is created, so that a new row starts without
\* charges, that a request joins the payers of one row only, and that a request
\* whose charge is neither old nor taken back has all of it in this period.
THEOREM BooksBalance == Spec => []Balanced
<1>1. Init => Typed /\ Accounts
  BY TypedInit, AccountsInit
<1>2. Typed /\ Accounts /\ [Next]_vars => Typed' /\ Accounts'
  BY NextGood, AccountsStep DEF Good
<1>3. Typed /\ Accounts => Balanced
  BY AccountsBalance
<1> QED BY <1>1, <1>2, <1>3, PTL DEF Spec
=============================================================================
