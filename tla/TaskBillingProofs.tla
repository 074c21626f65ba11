-------------------------- MODULE TaskBillingProofs --------------------------
(***************************************************************************)
(* Proofs about TaskBilling for any number of workers, any charges and any *)
(* number of failed writes and deaths.                                     *)
(*                                                                         *)
(* What holds depends on who else may write the row, so each theorem names *)
(* the circumstances it needs:                                             *)
(*   Compared    every change of the status compares the one that was read *)
(*   Graced      and an immediate refund ends within the grace period.     *)
(* tryRealtimeFetch and the bulk update are outside Compared; the run      *)
(* task_fetch shows what the former does to the account.  Writes may fail  *)
(* and workers die at any point: the variable lapses records the two cases *)
(* in which that leaves money and marker apart.                            *)
(***************************************************************************)
EXTENDS TaskBilling, DataInduction, TLAPS

Compared == MaxFetches = 0 /\ ~ ChannelMayVanish
Graced == Compared /\ GraceHolds

Reading == {"timeout", "poll"}
Refunding == {"refundFund", "refundToken", "clear"}
Settling == {"settleFund", "settleToken", "settleQuota"}
Holding == Refunding \cup Settling \cup {"restore"}

-----------------------------------------------------------------------------
(* The invariants, as predicates of one worker s and the row r. *)

(* What a copy can be: a settlement arrives at an amount that was computed. *)
CopyInv(s) ==
    /\ s.pc \in Reading => s.status \in Unfinished /\ ~ s.claimed
    /\ s.pc \in Settling => s.quota + s.delta \in Actuals

(* No user polls and no bulk updates: a worker acts on a copy of an unfinished row, on
   the failure or on the success it is entitled to. *)
PlaceInv(s, r) ==
    /\ s.pc # "fetch"
    /\ s.pc \in Reading => r.status # "NONE"
    /\ s.pc \in Settling => r.status = "SUCCESS"
    /\ s.pc \in Refunding \cup {"claim", "restore"} => r.status = "FAILURE" /\ s.quota # 0
    /\ s.pc = "restore" => s.claimed

(* A refund that was claimed has cleared the marker; one that was not is recent. *)
MarkerInv(s, r) ==
    /\ s.pc \in Refunding \cup {"restore"} /\ s.claimed => r.quota = 0
    /\ s.pc \in Refunding /\ ~ s.claimed => r.fresh

(* s leaves room for t: only one of them holds the charge, and the sweep has not seen
   the task while an immediate refund is under way. *)
Apart(s, t) ==
    /\ s.pc \in Holding => t.pc \notin Holding
    /\ s.pc \in Refunding /\ ~ s.claimed => t.pc # "claim"

Typed == TypeOK /\ \A w \in Workers : CopyInv(work[w])

Placed ==
    /\ row.status # "NONE" => submitted
    /\ \A w \in Workers : PlaceInv(work[w], row)

Single ==
    /\ \A w \in Workers : MarkerInv(work[w], row)
    /\ \A v, w \in Workers : v # w => Apart(work[v], work[w])

(* What is on the books: the charge the row records, less what was given back. *)
Net == paid + unsettled
Lapsed == "mark" \in lapses

(* The account of a worker, n being the net charge, c the closings, m whether a refund
   went unmarked and k the charge of the submission.  Only the reconciliation, which
   clears the marker first, still works on a task with an unmarked refund. *)
WorkerBook(s, r, n, c, m, k) ==
    /\ s.pc \in Reading \cup Refunding \cup {"restore", "settleFund"} => s.quota = k
    /\ s.pc \in {"refundFund", "restore"} => IF m THEN n = 0 /\ c = 1 ELSE n = k /\ c = 0
    /\ s.pc \in {"refundToken", "clear"} => IF m THEN n = -k /\ c = 2 ELSE n = 0 /\ c = 1
    /\ s.pc \in Refunding /\ ~ s.claimed => ~ m /\ r.quota = k
    /\ s.pc \in Settling => ~ m
    /\ s.pc = "settleFund" => n = k /\ c = 0 /\ r.quota = k
    /\ s.pc \in {"settleToken", "settleQuota"} => n = s.quota + s.delta /\ c = 1

(* The account while nobody holds the charge. *)
QuietBook(r, n, c, m, k) ==
    /\ r.status \in Unfinished => r.quota = k /\ n = k /\ c = 0 /\ ~ m
    /\ r.status = "SUCCESS" /\ ~ m => r.quota = n
    /\ r.status = "FAILURE" /\ r.quota # 0 =>
          r.quota = k /\ IF m THEN n = 0 /\ c = 1 ELSE n = k /\ c = 0

(* How far the charge can fall. *)
Floor(n, m, k) == IF m THEN n >= -k ELSE n >= 0

Books ==
    /\ Floor(Net, Lapsed, charged)
    /\ IF submitted THEN charged \in Quotas ELSE Net = 0 /\ closings = 0 /\ ~ Lapsed /\ unsettled = 0
    /\ \A w \in Workers : WorkerBook(work[w], row, Net, closings, Lapsed, charged)
    /\ Quiet => QuietBook(row, Net, closings, Lapsed, charged)

(* While no write of the marker is lost a cleared one means a finished refund. *)
Exact ==
    lapses = {} /\ Quiet /\ row.status = "FAILURE" /\ ~ legacy /\ row.quota = 0 => Net = 0

(* Nobody has read the row of a task before it is submitted. *)
Opened == ~ submitted => row.status = "NONE" /\ \A w \in Workers : work[w].pc = "idle"

(* What the token is behind the funding source because of s, and because of all workers. *)
Owing == {"refundToken", "settleToken"}

Behind(s) == IF s.pc = "refundToken" THEN s.quota ELSE IF s.pc = "settleToken" THEN - s.delta ELSE 0

Shortfall(k) == SumOf([w \in Workers |-> Behind(k[w])], Workers)

TokenBook ==
    /\ ~ submitted => lostToken = 0
    /\ tokenPaid = paid + lostToken + Shortfall(work)

-----------------------------------------------------------------------------
(* The record of a worker. *)

LEMMA IdleType == Idle \in WorkType /\ Idle.pc = "idle"
BY DEF Idle, WorkType, Steps, Status

LEMMA CopyType ==
    ASSUME TypeOK, NEW p \in Steps
    PROVE  /\ Copy(p) \in WorkType
           /\ Copy(p).pc = p /\ Copy(p).status = row.status /\ Copy(p).quota = row.quota
           /\ Copy(p).claimed = FALSE /\ Copy(p).delta = 0
BY DEF Copy, WorkType, TypeOK

LEMMA AtType ==
    ASSUME NEW s \in WorkType, NEW p \in Steps
    PROVE  LET t == [s EXCEPT !.pc = p] IN
           /\ t \in WorkType
           /\ t.pc = p /\ t.status = s.status /\ t.quota = s.quota
           /\ t.claimed = s.claimed /\ t.delta = s.delta
BY DEF WorkType

LEMMA ClaimedType ==
    ASSUME NEW s \in WorkType
    PROVE  LET t == [s EXCEPT !.pc = "refundFund", !.claimed = TRUE] IN
           /\ t \in WorkType
           /\ t.pc = "refundFund" /\ t.status = s.status /\ t.quota = s.quota
           /\ t.claimed = TRUE /\ t.delta = s.delta
BY DEF WorkType, Steps

LEMMA SettlingType ==
    ASSUME NEW s \in WorkType, NEW d \in Int
    PROVE  LET t == [s EXCEPT !.pc = "settleFund", !.delta = d] IN
           /\ t \in WorkType
           /\ t.pc = "settleFund" /\ t.status = s.status /\ t.quota = s.quota
           /\ t.claimed = s.claimed /\ t.delta = d
BY DEF WorkType, Steps

RowType == [status : Status, quota : Nat, fresh : BOOLEAN]

LEMMA WrittenType ==
    ASSUME NEW st \in Status, NEW q \in Nat
    PROVE  /\ Written(st, q) \in RowType
           /\ Written(st, q).status = st /\ Written(st, q).quota = q /\ Written(st, q).fresh = TRUE
BY DEF Written, RowType

(* A step that moves worker w to s moves no other. *)
LEMMA Moved ==
    ASSUME work \in [Workers -> WorkType], NEW w \in Workers, NEW s \in WorkType, Goto(w, s)
    PROVE  /\ work' \in [Workers -> WorkType]
           /\ work'[w] = s
           /\ \A v \in Workers : v # w => work'[v] = work[v]
BY DEF Goto

LEMMA HoldsIs == \A w : Holds(w) <=> work[w].pc \in Holding
BY DEF Holds, Holding, Refunding, Settling

-----------------------------------------------------------------------------
(* Types, under any circumstances *)

LEMMA UpdateCases ==
    ASSUME NEW w, NEW st, NEW q, NEW next, UpdateWithStatus(w, st, q, next)
    PROVE  \/ row.status = work[w].status /\ row' = Written(st, q) /\ Goto(w, next) /\ faults' = faults
           \/ Goto(w, Idle) /\ row' = row /\ faults' \in {faults, faults + 1}
BY DEF UpdateWithStatus, Finish, Fault

LEMMA RefundNextType ==
    ASSUME TypeOK, NEW w \in Workers, NEW q
    PROVE  /\ RefundNext(w, q) \in WorkType
           /\ q = 0 => RefundNext(w, q) = Idle
           /\ q # 0 => LET t == RefundNext(w, q) IN
                 /\ t.pc = "refundFund" /\ t.status = work[w].status /\ t.quota = work[w].quota
                 /\ t.claimed = work[w].claimed /\ t.delta = work[w].delta
<1>1. work[w] \in WorkType /\ "refundFund" \in Steps
  BY DEF TypeOK, Steps
<1>2. CASE q = 0
  BY <1>2, IdleType DEF RefundNext
<1>3. CASE q # 0
  BY <1>1, <1>3, AtType DEF RefundNext
<1> QED BY <1>2, <1>3

LEMMA TypedLift ==
    ASSUME Typed, NEW w \in Workers, NEW s \in WorkType, Goto(w, s), CopyInv(s)
    PROVE  /\ work' \in [Workers -> WorkType]
           /\ \A v \in Workers : CopyInv(work'[v])
BY Moved DEF Typed, TypeOK

LEMMA IdleCopy == CopyInv(Idle)
BY IdleType DEF CopyInv, Reading, Settling

LEMMA TypedInit == Init => Typed
<1> SUFFICES ASSUME Init PROVE Typed
  OBVIOUS
<1>1. TypeOK
  <2>1. row \in RowType
    BY DEF Init, RowType, Status
  <2>2. work \in [Workers -> WorkType]
    BY IdleType DEF Init
  <2>3. /\ paid \in Int /\ tokenPaid \in Int /\ lostToken \in Int
        /\ closings \in Nat /\ faults \in Nat /\ fetches \in Nat /\ crashes \in Nat
        /\ charged \in Nat /\ unsettled \in Int /\ lapses \subseteq {"mark", "restore"}
    BY DEF Init
  <2>4. legacy \in BOOLEAN /\ submitted \in BOOLEAN /\ usage \in Usages /\ upstream = "IN_PROGRESS"
    BY DEF Init
  <2> QED BY <2>1, <2>2, <2>3, <2>4, Zenon DEF TypeOK, RowType
<1>2. \A w \in Workers : CopyInv(work[w])
  BY IdleCopy DEF Init
<1> QED BY <1>1, <1>2 DEF Typed

(* An update that is compared with the copy, by a worker that goes on to next. *)
LEMMA TypedUpdate ==
    ASSUME Typed, NEW w \in Workers, NEW st \in Status, NEW q \in Nat, NEW next \in WorkType,
           CopyInv(next), UpdateWithStatus(w, st, q, next), UNCHANGED <<world, ledger, lapses>>
    PROVE  Typed'
<1>1. row \in RowType /\ faults \in Nat
  BY DEF Typed, TypeOK, RowType
<1>2. row' \in RowType /\ faults' \in Nat
  <2>1. row' \in {row, Written(st, q)} /\ faults' \in {faults, faults + 1}
    BY UpdateCases
  <2>2. Written(st, q) \in RowType
    BY WrittenType
  <2>3. faults' \in Nat
    BY <1>1, <2>1
  <2> QED BY <1>1, <2>1, <2>2, <2>3
<1>3. /\ work' \in [Workers -> WorkType]
      /\ \A v \in Workers : CopyInv(work'[v])
  BY UpdateCases, TypedLift, IdleType, IdleCopy
<1> QED BY <1>2, <1>3 DEF Typed, TypeOK, RowType, world, ledger, submission

(* A step that only moves the worker, and perhaps counts a fault. *)
LEMMA TypedGoto ==
    ASSUME Typed, NEW w \in Workers, NEW s \in WorkType, CopyInv(s), Goto(w, s),
           row' \in RowType,
           paid' \in Int, tokenPaid' \in Int, lostToken' \in Int, closings' \in Nat,
           charged' \in Nat, unsettled' \in Int, lapses' \subseteq {"mark", "restore"},
           faults' \in Nat, fetches' \in Nat, crashes' \in Nat,
           UNCHANGED <<legacy, upstream, usage, submitted>>
    PROVE  Typed'
<1>1. /\ work' \in [Workers -> WorkType]
      /\ \A v \in Workers : CopyInv(work'[v])
  BY TypedLift
<1> QED BY <1>1 DEF Typed, TypeOK, RowType

LEMMA TypedReads ==
    ASSUME Typed, NEW w \in Workers,
           ReadTimedOut(w) \/ ReadFailed(w) \/ ReadPoll(w) \/ ReadFetch(w)
    PROVE  Typed'
<1>1. \E p \in {"timeout", "claim", "poll", "fetch"} :
         Goto(w, Copy(p)) /\ (p \in Reading => row.status \in Unfinished)
  BY DEF ReadTimedOut, ReadFailed, ReadPoll, ReadFetch, Reading
<1>2. PICK p \in {"timeout", "claim", "poll", "fetch"} :
         Goto(w, Copy(p)) /\ (p \in Reading => row.status \in Unfinished)
  BY <1>1
<1>3. Copy(p) \in WorkType /\ CopyInv(Copy(p))
  BY <1>2, CopyType DEF Typed, CopyInv, Reading, Settling, Steps
<1>4. /\ UNCHANGED <<row, ledger, lapses, faults, crashes, legacy, upstream, usage, submitted>>
      /\ fetches' \in {fetches, fetches + 1}
  BY DEF ReadTimedOut, ReadFailed, ReadPoll, ReadFetch, world
<1> QED BY <1>2, <1>3, <1>4, TypedGoto DEF Typed, TypeOK, RowType, ledger, submission

LEMMA TypedPolls ==
    ASSUME Typed, NEW w \in Workers,
           \/ TimeOut(w) \/ PollPending(w) \/ PollFailure(w) \/ PollSuccess(w) \/ Fetch(w)
           \/ \E actual \in Actuals : PollSuccessSettle(w, actual)
    PROVE  Typed'
<1> USE DEF Typed
<1>0. work[w] \in WorkType /\ work[w].quota \in Nat /\ work[w].delta \in Int
  BY DEF TypeOK, WorkType
<1>1. \A q : CopyInv(RefundNext(w, q))
  BY RefundNextType, IdleCopy DEF CopyInv, Reading, Settling
<1>2. CASE TimeOut(w)
  <2> DEFINE q == IF legacy THEN 0 ELSE work[w].quota
  <2>1. UpdateWithStatus(w, "FAILURE", q, RefundNext(w, q)) /\ UNCHANGED <<world, ledger, lapses>>
    BY <1>2 DEF TimeOut
  <2>2. q \in Nat
    BY <1>0
  <2> HIDE DEF q
  <2> QED BY <2>1, <2>2, <1>1, RefundNextType, TypedUpdate DEF Status, Finished
<1>3. CASE PollPending(w)
  BY <1>0, <1>3, IdleType, IdleCopy, TypedUpdate DEF PollPending, Status, Unfinished
<1>4. CASE PollFailure(w)
  BY <1>0, <1>1, <1>4, RefundNextType, TypedUpdate DEF PollFailure, Status, Finished
<1>5. CASE PollSuccess(w)
  BY <1>0, <1>5, IdleType, IdleCopy, TypedUpdate DEF PollSuccess, Status, Finished
<1>6. CASE Fetch(w)
  BY <1>0, <1>6, IdleType, IdleCopy, TypedUpdate DEF Fetch, Status, Finished, Unfinished, TypeOK
<1>7. ASSUME NEW actual \in Actuals, PollSuccessSettle(w, actual)
      PROVE  Typed'
  <2> DEFINE s == [work[w] EXCEPT !.pc = "settleFund", !.delta = actual - work[w].quota]
  <2>1. actual - work[w].quota \in Int /\ work[w].quota + (actual - work[w].quota) = actual
    BY <1>0, TaskAssumption
  <2>2. s \in WorkType /\ CopyInv(s)
    BY <1>0, <2>1, SettlingType DEF CopyInv, Reading, Settling
  <2>3. UpdateWithStatus(w, "SUCCESS", work[w].quota, s) /\ UNCHANGED <<world, ledger, lapses>>
    BY <1>7 DEF PollSuccessSettle
  <2> HIDE DEF s
  <2> QED BY <1>0, <2>2, <2>3, TypedUpdate DEF Status, Finished
<1> QED BY <1>2, <1>3, <1>4, <1>5, <1>6, <1>7

LEMMA TypedCharges ==
    ASSUME Typed, NEW w \in Workers,
           \/ RefundFunding(w) \/ RefundToken(w) \/ SettleFunding(w) \/ SettleToken(w)
    PROVE  Typed'
<1>0. work[w] \in WorkType /\ work[w].quota \in Nat /\ work[w].delta \in Int
  BY DEF Typed, TypeOK, WorkType
<1>1. PICK p \in {"refundToken", "restore", "clear", "settleToken", "settleQuota", "idle"} :
         /\ Goto(w, IF p = "idle" THEN Idle ELSE [work[w] EXCEPT !.pc = p])
         /\ p \in {"settleToken", "settleQuota"} => work[w].pc \in Settling
  BY DEF RefundFunding, RefundToken, SettleFunding, SettleToken, Finish, Settling, At
<1> DEFINE s == IF p = "idle" THEN Idle ELSE [work[w] EXCEPT !.pc = p]
<1>2. s \in WorkType /\ CopyInv(s)
  <2>1. CASE p = "idle"
    BY <2>1, IdleType, IdleCopy
  <2>2. CASE p # "idle"
    <3>1. p \in Steps
      BY <1>1 DEF Steps
    <3> QED BY <1>0, <1>1, <2>2, <3>1, AtType DEF Typed, CopyInv, Reading, Settling
  <2> QED BY <2>1, <2>2
<1>3. /\ paid' \in Int /\ tokenPaid' \in Int /\ lostToken' \in Int /\ closings' \in Nat
      /\ faults' \in Nat
  BY <1>0 DEF RefundFunding, RefundToken, SettleFunding, SettleToken, CreditToken, Fault, Typed, TypeOK
<1>4. UNCHANGED <<row, world, submission, lapses>>
  BY DEF RefundFunding, RefundToken, SettleFunding, SettleToken
<1> HIDE DEF s
<1>5. Goto(w, s)
  BY <1>1 DEF s
<1> QED BY <1>2, <1>3, <1>4, <1>5, TypedGoto DEF Typed, TypeOK, RowType, world, submission

LEMMA TypedWrites ==
    ASSUME Typed, NEW w \in Workers,
           \/ ClearQuota(w) \/ SettleQuota(w) \/ RestoreQuotaAfterFailedRefund(w) \/ BulkFail(w)
           \/ PollNothing(w) \/ FetchNothing(w) \/ Crash(w)
    PROVE  Typed'
<1>0. /\ work[w].quota \in Nat /\ row.status \in Status /\ row.quota \in Nat
      /\ work[w].pc = "settleQuota" => work[w].quota + work[w].delta \in Nat
  BY TaskAssumption DEF Typed, TypeOK, WorkType, CopyInv, Settling
<1>1. Goto(w, Idle)
  BY DEF ClearQuota, SettleQuota, RestoreQuotaAfterFailedRefund, BulkFail, PollNothing,
         FetchNothing, Crash, Finish
<1>2. \/ row' = row
      \/ \E st \in Status, q \in Nat : row' = Written(st, q)
  BY <1>0 DEF ClearQuota, SettleQuota, RestoreQuotaAfterFailedRefund, BulkFail, PollNothing,
              FetchNothing, Crash, At, Status, Finished
<1>3. row' \in RowType
  <2>1. row \in RowType /\ row.status \in Status
    BY DEF Typed, TypeOK, RowType
  <2> QED BY <1>2, <2>1, WrittenType
<1>4. faults' \in {faults, faults + 1} /\ crashes' \in {crashes, crashes + 1}
  BY DEF ClearQuota, SettleQuota, RestoreQuotaAfterFailedRefund, BulkFail, PollNothing,
         FetchNothing, Crash, Fault, world
<1>5. UNCHANGED <<legacy, upstream, usage, submitted, fetches, ledger>>
  BY DEF ClearQuota, SettleQuota, RestoreQuotaAfterFailedRefund, BulkFail, PollNothing,
         FetchNothing, Crash, world
<1>6. lapses' \subseteq {"mark", "restore"}
  BY DEF ClearQuota, SettleQuota, RestoreQuotaAfterFailedRefund, BulkFail, PollNothing,
         FetchNothing, Crash, Lapse, Typed, TypeOK
<1> QED BY <1>1, <1>3, <1>4, <1>5, <1>6, IdleType, IdleCopy, TypedGoto DEF Typed, TypeOK, RowType, ledger, submission

LEMMA TypedClaim ==
    ASSUME Typed, NEW w \in Workers, ClaimQuotaForRefund(w)
    PROVE  Typed'
<1> DEFINE s == [work[w] EXCEPT !.pc = "refundFund", !.claimed = TRUE]
<1>1. s \in WorkType /\ CopyInv(s)
  BY ClaimedType DEF Typed, TypeOK, CopyInv, Reading, Settling
<1>2. \/ Goto(w, s) /\ row' = Written(row.status, 0)
      \/ Goto(w, Idle) /\ row' = row
  BY DEF ClaimQuotaForRefund, Finish
<1>3. row' \in RowType
  <2>1. row \in RowType /\ row.status \in Status
    BY DEF Typed, TypeOK, RowType
  <2> QED BY <1>2, <2>1, WrittenType
<1>4. faults' \in {faults, faults + 1} /\ UNCHANGED <<world, ledger, lapses>>
  BY DEF ClaimQuotaForRefund, Fault
<1> HIDE DEF s
<1> QED BY <1>1, <1>2, <1>3, <1>4, IdleType, IdleCopy, TypedGoto DEF Typed, TypeOK, RowType, world, ledger, submission

LEMMA TypedWorld ==
    ASSUME Typed, (\E q \in Quotas, p \in PreQuotas : Submit(q, p)) \/ (\E s \in Finished : Upstream(s)) \/ Age
    PROVE  Typed'
<1>1. work' = work
  BY DEF Submit, Upstream, Age
<1>2. ASSUME NEW q \in Quotas, NEW p \in PreQuotas, Submit(q, p) PROVE TypeOK'
  <2>1. q \in Nat /\ p \in Nat /\ q - p \in Int /\ p - q \in Int /\ "NOT_START" \in Status
    BY TaskAssumption DEF Status, Unfinished
  <2>2. row \in RowType
    BY DEF Typed, TypeOK, RowType
  <2>3. row' \in RowType
    BY <1>2, <2>1, <2>2, WrittenType DEF Submit
  <2> QED BY <1>1, <1>2, <2>1, <2>3 DEF Submit, Fault, Typed, TypeOK, RowType
<1>3. ASSUME NEW s \in Finished, Upstream(s) PROVE TypeOK'
  BY <1>1, <1>3 DEF Upstream, Typed, TypeOK, ledger, submission
<1>4. CASE Age
  BY <1>1, <1>4 DEF Age, Typed, TypeOK, world, ledger, submission
<1> QED BY <1>1, <1>2, <1>3, <1>4 DEF Typed

LEMMA TypedNext == Typed /\ [Next]_vars => Typed'
<1>1. ASSUME Typed, UNCHANGED vars PROVE Typed'
  BY <1>1 DEF Typed, TypeOK, vars
<1> QED
  BY <1>1, TypedReads, TypedPolls, TypedCharges, TypedWrites, TypedClaim, TypedWorld DEF Next, Step

(* The columns, copies and accounts keep their types; in particular no write leaves a
   negative quota, also not the settlement, which writes a sum. *)
THEOREM TypeCorrect == Spec => []TypeOK
<1>1. Typed => TypeOK
  BY DEF Typed
<1> QED BY <1>1, TypedInit, TypedNext, PTL DEF Spec

-----------------------------------------------------------------------------
(* What a worker's step comes to, when statuses are compared *)

(* The worker gives its task up: nothing to do, a comparison or a write that failed, or
   its death.  Money that has moved and is not recorded, or a claim that was not refunded,
   is a lapse. *)
Left(w) ==
    /\ work[w].pc # "idle" /\ Goto(w, Idle)
    /\ UNCHANGED <<row, ledger>>
    /\ Lapsed' <=> Lapsed \/ Unmarked(w)
    /\ Unrefunded(w) /\ row.quota = 0 => "restore" \in lapses'
    /\ lapses \subseteq lapses'

(* It wins the comparison: the row moves on from the unfinished status it read. *)
Turned(w, st, q, s) ==
    /\ work[w].pc \in Reading /\ row.status = work[w].status
    /\ row' = Written(st, q)
    /\ Goto(w, s)
    /\ UNCHANGED <<ledger, lapses>>

Settled(w, actual) == [work[w] EXCEPT !.pc = "settleFund", !.delta = actual - work[w].quota]
Claimed(w) == [work[w] EXCEPT !.pc = "refundFund", !.claimed = TRUE]

Turns(w) ==
    \/ Turned(w, "IN_PROGRESS", work[w].quota, Idle)
    \/ Turned(w, "SUCCESS", work[w].quota, Idle)
    \/ \E actual \in Actuals : Turned(w, "SUCCESS", work[w].quota, Settled(w, actual))
    \/ \E q \in Nat : /\ q = work[w].quota \/ (legacy /\ q = 0)
                      /\ Turned(w, "FAILURE", q, RefundNext(w, q))

Takes(w) ==
    /\ work[w].pc = "idle" /\ UNCHANGED <<row, ledger, lapses>>
    /\ \/ row.status \in Unfinished /\ \E p \in Reading : Goto(w, Copy(p))
       \/ /\ row.status = "FAILURE" /\ row.quota # 0 /\ ~ row.fresh /\ ~ legacy
          /\ Goto(w, Copy("claim"))

Claims(w) ==
    /\ work[w].pc = "claim" /\ row.quota = work[w].quota
    /\ row' = Written(row.status, 0)
    /\ Goto(w, Claimed(w))
    /\ UNCHANGED <<ledger, lapses>>

To(w, p, q) == work[w].pc = p /\ Goto(w, [work[w] EXCEPT !.pc = q])

Charges(w) ==
    /\ UNCHANGED <<row, submission, lapses>>
    /\ \/ /\ To(w, "refundFund", "refundToken") /\ paid' = paid - work[w].quota
          /\ closings' = closings + 1 /\ UNCHANGED <<tokenPaid, lostToken>>
       \/ To(w, "refundFund", "restore") /\ work[w].claimed /\ UNCHANGED <<ledger, lapses>>
       \/ To(w, "refundToken", "clear") /\ CreditToken(work[w].quota) /\ UNCHANGED <<paid, closings>>
       \/ /\ To(w, "settleFund", "settleToken") /\ paid' = paid + work[w].delta
          /\ closings' = closings + 1 /\ UNCHANGED <<tokenPaid, lostToken>>
       \/ To(w, "settleToken", "settleQuota") /\ CreditToken(- work[w].delta) /\ UNCHANGED <<paid, closings>>

Records(w) ==
    /\ Goto(w, Idle) /\ UNCHANGED <<ledger, lapses>>
    /\ \/ work[w].pc = "clear" /\ row' = Written(row.status, 0)
       \/ work[w].pc = "restore" /\ row.quota = 0 /\ row' = Written(row.status, work[w].quota)
       \/ work[w].pc = "settleQuota" /\ row' = Written(row.status, work[w].quota + work[w].delta)

LEMMA Effects ==
    ASSUME Typed, Placed, Compared, NEW w \in Workers,
           ReadTimedOut(w) \/ ReadFailed(w) \/ ReadPoll(w) \/ ReadFetch(w) \/ Step(w) \/ Crash(w)
    PROVE  Takes(w) \/ Turns(w) \/ Claims(w) \/ Charges(w) \/ Records(w) \/ Left(w)
<1>0. /\ fetches \in Nat /\ work[w].quota \in Nat /\ legacy \in BOOLEAN /\ work[w].pc # "fetch"
      /\ crashes \in Nat
  BY DEF Typed, TypeOK, WorkType, Placed, PlaceInv
<1>1. CASE ReadTimedOut(w) \/ ReadFailed(w) \/ ReadPoll(w) \/ ReadFetch(w)
  BY <1>0, <1>1 DEF ReadTimedOut, ReadFailed, ReadPoll, ReadFetch, Compared, Takes, At, Reading
<1>2. CASE Crash(w)
  BY <1>0, <1>2 DEF Crash, Left, Finish, At, Lapsed
<1>3. ASSUME NEW st, NEW q, NEW next, UpdateWithStatus(w, st, q, next), UNCHANGED <<ledger, lapses>>,
             work[w].pc \in Reading
      PROVE  Left(w) \/ Turned(w, st, q, next)
  BY <1>3, UpdateCases DEF Left, Turned, Reading, Unmarked, Unrefunded, Lapsed
<1>4. CASE TimeOut(w)
  <2> DEFINE q == IF legacy THEN 0 ELSE work[w].quota
  <2>1. /\ UpdateWithStatus(w, "FAILURE", q, RefundNext(w, q)) /\ UNCHANGED <<ledger, lapses>>
        /\ work[w].pc \in Reading
    BY <1>4 DEF TimeOut, At, Reading
  <2>2. q \in Nat /\ (q = work[w].quota \/ (legacy /\ q = 0))
    BY <1>0
  <2> HIDE DEF q
  <2> QED BY <1>3, <2>1, <2>2 DEF Turns
<1>5. CASE PollPending(w) \/ PollFailure(w) \/ PollSuccess(w)
  BY <1>0, <1>3, <1>5 DEF PollPending, PollFailure, PollSuccess, Turns, At, Reading
<1>6. CASE \E actual \in Actuals : PollSuccessSettle(w, actual)
  BY <1>3, <1>6 DEF PollSuccessSettle, Turns, Settled, At, Reading
<1>7. CASE PollNothing(w) \/ BulkFail(w) \/ FetchNothing(w) \/ Fetch(w)
  BY <1>0, <1>7 DEF PollNothing, BulkFail, FetchNothing, Fetch, Compared, Left, Finish, At, Unmarked, Unrefunded, Lapsed
<1>8. CASE ClaimQuotaForRefund(w)
  BY <1>8 DEF ClaimQuotaForRefund, Claims, Claimed, Left, Finish, At, Unmarked, Unrefunded, Lapsed
<1>9. CASE RestoreQuotaAfterFailedRefund(w)
  BY <1>9 DEF RestoreQuotaAfterFailedRefund, Records, Left, Finish, Fault, Lapse, At, Unmarked, Unrefunded, Lapsed
<1>10. CASE RefundFunding(w)
  BY <1>10 DEF RefundFunding, Charges, To, Left, Finish, At, Unmarked, Unrefunded, Lapsed, ledger
<1>11. CASE RefundToken(w) \/ SettleToken(w)
  BY <1>11 DEF RefundToken, SettleToken, Charges, To, At
<1>12. CASE SettleFunding(w)
  BY <1>12 DEF SettleFunding, Charges, To, Left, Finish, At, Unmarked, Unrefunded, Lapsed, ledger
<1>13. CASE ClearQuota(w) \/ SettleQuota(w)
  BY <1>13 DEF ClearQuota, SettleQuota, Records, Left, Finish, Fault, Lapse, At, Unmarked, Unrefunded, Lapsed
<1> QED BY <1>1, <1>2, <1>4, <1>5, <1>6, <1>7, <1>8, <1>9, <1>10, <1>11, <1>12, <1>13 DEF Step

(* The record of the worker after its step. *)
LEMMA After ==
    ASSUME Typed, NEW w \in Workers, NEW p \in Steps
    PROVE  LET t == [work[w] EXCEPT !.pc = p] IN
           /\ t \in WorkType
           /\ t.pc = p /\ t.status = work[w].status /\ t.quota = work[w].quota
           /\ t.claimed = work[w].claimed /\ t.delta = work[w].delta
BY AtType DEF Typed, TypeOK

LEMMA AfterClaim ==
    ASSUME Typed, NEW w \in Workers
    PROVE  /\ Claimed(w) \in WorkType
           /\ Claimed(w).pc = "refundFund" /\ Claimed(w).claimed = TRUE
           /\ Claimed(w).quota = work[w].quota
BY ClaimedType DEF Typed, TypeOK, Claimed

LEMMA AfterSettle ==
    ASSUME Typed, NEW w \in Workers, NEW actual \in Actuals
    PROVE  /\ Settled(w, actual) \in WorkType
           /\ Settled(w, actual).pc = "settleFund" /\ Settled(w, actual).quota = work[w].quota
           /\ work[w].quota + Settled(w, actual).delta = actual
<1>1. work[w] \in WorkType /\ work[w].quota \in Nat /\ actual \in Nat
  BY TaskAssumption DEF Typed, TypeOK, WorkType
<1>2. actual - work[w].quota \in Int /\ work[w].quota + (actual - work[w].quota) = actual
  BY <1>1
<1> QED BY <1>1, <1>2, SettlingType DEF Settled

(* A row that was written. *)
LEMMA RowFields ==
    \A st, q : Written(st, q).status = st /\ Written(st, q).quota = q /\ Written(st, q).fresh = TRUE
BY DEF Written

-----------------------------------------------------------------------------
(* Statuses are final *)

LEMMA PlacedLift ==
    ASSUME Typed, Placed, NEW w \in Workers, NEW s \in WorkType, Goto(w, s), PlaceInv(s, row'),
           submitted' = submitted,
           \/ row'.status = row.status
           \/ row.status \in Unfinished /\ row'.status # "NONE"
    PROVE  Placed'
<1>1. \A v \in Workers : v # w => PlaceInv(work[v], row')
  BY DEF Placed, PlaceInv, Unfinished
<1>2. \A v \in Workers : PlaceInv(work'[v], row')
  BY <1>1, Moved DEF Typed, TypeOK
<1>3. row'.status # "NONE" => submitted'
  BY DEF Placed, Unfinished
<1> QED BY <1>2, <1>3 DEF Placed

LEMMA PlacedEffects ==
    ASSUME Typed, Placed, NEW w \in Workers, submitted' = submitted,
           Takes(w) \/ Turns(w) \/ Claims(w) \/ Charges(w) \/ Records(w) \/ Left(w)
    PROVE  Placed'
<1> USE PlacedLift, RowFields
<1>0. PlaceInv(work[w], row) /\ PlaceInv(Idle, row')
  BY IdleType DEF Placed, PlaceInv, Reading, Settling, Refunding
<1>1. CASE Left(w)
  BY <1>0, <1>1, IdleType DEF Left
<1>2. CASE Takes(w)
  <2>1. ASSUME row.status \in Unfinished, NEW p \in Reading, Goto(w, Copy(p)), row' = row PROVE Placed'
    <3>1. p \in Steps
      BY DEF Reading, Steps
    <3>2. Copy(p) \in WorkType /\ PlaceInv(Copy(p), row')
      BY <2>1, <3>1, CopyType DEF Typed, PlaceInv, Reading, Settling, Refunding, Unfinished
    <3> QED BY <2>1, <3>2
  <2>2. ASSUME row.status = "FAILURE", row.quota # 0, Goto(w, Copy("claim")), row' = row PROVE Placed'
    <3>1. Copy("claim") \in WorkType /\ PlaceInv(Copy("claim"), row')
      BY <2>2, CopyType DEF Typed, PlaceInv, Reading, Settling, Refunding, Steps
    <3> QED BY <2>2, <3>1
  <2> QED BY <1>2, <2>1, <2>2 DEF Takes
<1>3. CASE Turns(w)
  <2>1. ASSUME NEW st \in {"IN_PROGRESS", "SUCCESS", "FAILURE"}, NEW q, NEW s \in WorkType,
               Turned(w, st, q, s), PlaceInv(s, row')
        PROVE  Placed'
    <3>1. row.status \in Unfinished /\ row'.status # "NONE"
      BY <2>1 DEF Turned, Typed, CopyInv
    <3> QED BY <2>1, <3>1 DEF Turned
  <2>2. ASSUME NEW actual \in Actuals, Turned(w, "SUCCESS", work[w].quota, Settled(w, actual))
        PROVE  Placed'
    <3>1. Settled(w, actual) \in WorkType /\ PlaceInv(Settled(w, actual), row')
      BY <2>2, AfterSettle DEF Turned, PlaceInv, Reading, Settling, Refunding
    <3> QED BY <2>1, <2>2, <3>1
  <2>3. ASSUME NEW q \in Nat, q = work[w].quota \/ (legacy /\ q = 0),
               Turned(w, "FAILURE", q, RefundNext(w, q))
        PROVE  Placed'
    <3>1. RefundNext(w, q) \in WorkType /\ PlaceInv(RefundNext(w, q), row')
      BY <1>0, <2>3, RefundNextType DEF Typed, Turned, PlaceInv, Reading, Settling, Refunding
    <3> QED BY <2>1, <2>3, <3>1
  <2> QED BY <1>0, <1>3, <2>1, <2>2, <2>3, IdleType DEF Turns
<1>4. CASE Claims(w)
  <2>1. Claimed(w) \in WorkType /\ PlaceInv(Claimed(w), row')
    BY <1>0, <1>4, AfterClaim, ZenonT(60) DEF Claims, PlaceInv, Reading, Settling, Refunding
  <2> QED BY <1>4, <2>1 DEF Claims
<1>5. CASE Charges(w)
  <2>1. PICK p \in {"refundToken", "restore", "clear", "settleToken", "settleQuota"} :
           /\ Goto(w, [work[w] EXCEPT !.pc = p])
           /\ p \in {"refundToken", "restore", "clear"} => work[w].pc \in Refunding
           /\ p \in {"settleToken", "settleQuota"} => work[w].pc \in Settling
           /\ p = "restore" => work[w].claimed
    BY <1>5 DEF Charges, To, Refunding, Settling
  <2> DEFINE s == [work[w] EXCEPT !.pc = p]
  <2>2. p \in Steps
    BY DEF Steps
  <2>3. s \in WorkType /\ PlaceInv(s, row')
    BY <1>0, <1>5, <2>1, <2>2, After DEF Charges, PlaceInv, Reading, Settling, Refunding
  <2> HIDE DEF s
  <2>4. Goto(w, s)
    BY <2>1 DEF s
  <2> QED BY <1>5, <2>3, <2>4 DEF Charges
<1>6. CASE Records(w)
  BY <1>0, <1>6, IdleType DEF Records
<1> QED BY <1>1, <1>2, <1>3, <1>4, <1>5, <1>6

(* The rest of a step of Next that is not a worker's. *)
LEMMA PlacedWorld ==
    ASSUME Typed, Placed,
           (\E q \in Quotas, p \in PreQuotas : Submit(q, p)) \/ (\E s \in Finished : Upstream(s)) \/ Age \/ UNCHANGED vars
    PROVE  Placed'
<1>1. ASSUME NEW q \in Quotas, NEW p \in PreQuotas, Submit(q, p) PROVE Placed'
  <2>1. row.status = "NONE"
    BY <1>1 DEF Submit, Placed
  <2>2. \A w \in Workers : PlaceInv(work[w], row')
    BY <1>1, <2>1, RowFields DEF Submit, Placed, PlaceInv
  <2> QED BY <1>1, <2>2 DEF Submit, Placed
<1>2. CASE (\E s \in Finished : Upstream(s)) \/ UNCHANGED vars
  BY <1>2 DEF Upstream, vars, Placed
<1>3. CASE Age
  <2>1. row'.status = row.status /\ row'.quota = row.quota /\ work' = work /\ submitted' = submitted
    BY <1>3 DEF Age, world, Typed, TypeOK
  <2> QED BY <2>1 DEF Placed, PlaceInv
<1> QED BY <1>1, <1>2, <1>3

(* Only workers move, and only workers' steps change the accounts once they are open. *)
LEMMA WorkerOrWorld ==
    ASSUME [Next]_vars
    PROVE  \/ (\E q \in Quotas, p \in PreQuotas : Submit(q, p)) \/ (\E s \in Finished : Upstream(s)) \/ Age \/ UNCHANGED vars
           \/ \E w \in Workers :
                ReadTimedOut(w) \/ ReadFailed(w) \/ ReadPoll(w) \/ ReadFetch(w) \/ Step(w) \/ Crash(w)
BY DEF Next

LEMMA WorkerKeeps ==
    ASSUME NEW w \in Workers,
           ReadTimedOut(w) \/ ReadFailed(w) \/ ReadPoll(w) \/ ReadFetch(w) \/ Step(w) \/ Crash(w)
    PROVE  submitted' = submitted /\ legacy' = legacy /\ crashes' \in {crashes, crashes + 1}
BY DEF ReadTimedOut, ReadFailed, ReadPoll, ReadFetch, Step, Crash, TimeOut, ClaimQuotaForRefund,
       RestoreQuotaAfterFailedRefund, PollNothing, PollPending, PollFailure, PollSuccess,
       PollSuccessSettle, BulkFail, RefundFunding, RefundToken, ClearQuota, SettleFunding,
       SettleToken, SettleQuota, FetchNothing, Fetch, world

LEMMA PlacedInit == Init => Placed
BY IdleType DEF Init, Placed, PlaceInv, Reading, Settling, Refunding

LEMMA PlacedNext == Compared /\ Typed /\ Placed /\ [Next]_vars => Placed'
BY WorkerOrWorld, WorkerKeeps, Effects, PlacedEffects, PlacedWorld

(* A worker that does anything has a task before it. *)
LEMMA WorkerHasTask ==
    ASSUME NEW w \in Workers,
           ReadTimedOut(w) \/ ReadFailed(w) \/ ReadPoll(w) \/ ReadFetch(w) \/ Step(w) \/ Crash(w)
    PROVE  work[w].pc # "idle" \/ row.status # "NONE"
BY DEF ReadTimedOut, ReadFailed, ReadPoll, ReadFetch, Step, Crash, TimeOut, ClaimQuotaForRefund,
       RestoreQuotaAfterFailedRefund, PollNothing, PollPending, PollFailure, PollSuccess,
       PollSuccessSettle, BulkFail, RefundFunding, RefundToken, ClearQuota, SettleFunding,
       SettleToken, SettleQuota, FetchNothing, Fetch, At, Unfinished

LEMMA OpenedInit == Init => Opened
BY IdleType DEF Init, Opened

LEMMA OpenedNext == Typed /\ Opened /\ [Next]_vars => Opened'
<1> SUFFICES ASSUME Typed, Opened, [Next]_vars, ~ submitted' PROVE Opened'
  BY DEF Opened
<1>1. ASSUME NEW w \in Workers,
             ReadTimedOut(w) \/ ReadFailed(w) \/ ReadPoll(w) \/ ReadFetch(w) \/ Step(w) \/ Crash(w)
      PROVE  FALSE
  BY <1>1, WorkerKeeps, WorkerHasTask DEF Opened
<1>2. CASE (\E s \in Finished : Upstream(s)) \/ Age \/ UNCHANGED vars
  BY <1>2 DEF Upstream, Age, vars, world, Opened, Typed, TypeOK
<1> QED BY <1>1, <1>2, WorkerOrWorld DEF Submit

(* The writes of a worker that keep the status. *)
LEMMA KeepsStatus ==
    ASSUME NEW w \in Workers,
           \/ ReadTimedOut(w) \/ ReadFailed(w) \/ ReadPoll(w) \/ ReadFetch(w) \/ Crash(w)
           \/ ClaimQuotaForRefund(w) \/ RestoreQuotaAfterFailedRefund(w) \/ PollNothing(w)
           \/ RefundFunding(w) \/ RefundToken(w) \/ ClearQuota(w)
           \/ SettleFunding(w) \/ SettleToken(w) \/ SettleQuota(w) \/ FetchNothing(w)
    PROVE  row'.status = row.status
<1>1. row' = row \/ \E q : row' = Written(row.status, q)
  BY DEF ReadTimedOut, ReadFailed, ReadPoll, ReadFetch, Crash, ClaimQuotaForRefund,
         RestoreQuotaAfterFailedRefund, PollNothing, RefundFunding, RefundToken, ClearQuota,
         SettleFunding, SettleToken, SettleQuota, FetchNothing
<1> QED BY <1>1, RowFields

(* A pass or a sweep that read the task unfinished loses the comparison once it is not. *)
LEMMA StaleLoses ==
    ASSUME Typed, NEW w \in Workers, row.status \in Finished,
           \/ TimeOut(w) \/ PollPending(w) \/ PollFailure(w) \/ PollSuccess(w)
           \/ \E actual \in Actuals : PollSuccessSettle(w, actual)
    PROVE  row' = row
<1>1. PICK st, q, next : UpdateWithStatus(w, st, q, next) /\ work[w].pc \in Reading
  BY DEF TimeOut, PollPending, PollFailure, PollSuccess, PollSuccessSettle, At, Reading
<1>2. row.status # work[w].status
  BY <1>1 DEF Typed, CopyInv, Unfinished, Finished
<1> QED BY <1>1, <1>2 DEF UpdateWithStatus

(* What a write out of SUCCESS or FAILURE can be. *)
Unguarded ==
    /\ UNCHANGED ledger
    /\ \E w \in Workers :
          /\ work'[w] = Idle
          /\ \/ At(w, "poll") /\ row' = Written("FAILURE", row.quota)
             \/ At(w, "fetch") /\ work[w].status = row.status /\ row'.status = upstream

LEMMA FinishedMoves ==
    ASSUME Typed, Opened, [Next]_vars, row.status \in Finished, row'.status # row.status
    PROVE  Unguarded
<1>1. ASSUME NEW q, NEW p, Submit(q, p) PROVE FALSE
  BY <1>1 DEF Submit, Opened, Finished
<1>2. ASSUME (\E s \in Finished : Upstream(s)) \/ Age \/ UNCHANGED vars PROVE FALSE
  BY <1>2 DEF Upstream, Age, vars, Typed, TypeOK
<1>3. ASSUME NEW w \in Workers,
             ReadTimedOut(w) \/ ReadFailed(w) \/ ReadPoll(w) \/ ReadFetch(w) \/ Step(w) \/ Crash(w)
      PROVE  Unguarded
  <2>1. BulkFail(w) \/ Fetch(w)
    BY <1>3, KeepsStatus, StaleLoses DEF Step
  <2>2. UNCHANGED ledger /\ Goto(w, Idle)
    BY <2>1, UpdateCases DEF BulkFail, Fetch, Finish
  <2>3. work'[w] = Idle
    BY <2>2, IdleType, Moved DEF Typed, TypeOK
  <2>4. CASE BulkFail(w)
    BY <2>2, <2>3, <2>4 DEF BulkFail, Unguarded
  <2>5. CASE Fetch(w)
    <3>1. At(w, "fetch") /\ work[w].status = row.status /\ row' = Written(upstream, work[w].quota)
      BY <2>5, UpdateCases DEF Fetch
    <3> QED BY <2>2, <2>3, <3>1, RowFields DEF Unguarded
  <2> QED BY <2>1, <2>4, <2>5
<1> QED BY <1>1, <1>2, <1>3, WorkerOrWorld

(* Under any circumstances, user polls and vanishing channels included: a finished task
   changes its status only by the bulk update or by a user poll that read it finished,
   neither of which moves money; no pass or sweep overwrites what another one decided. *)
THEOREM StatusIsGuarded == Spec => TerminalGuarded
<1>1. Typed /\ Opened /\ [Next]_vars =>
         [row.status \in Finished /\ row'.status # row.status => Unguarded]_vars
  BY FinishedMoves
<1>2. Typed /\ Opened /\ [Next]_vars => Opened'
  BY OpenedNext
<1> QED BY <1>1, <1>2, TypedInit, TypedNext, OpenedInit, PTL DEF Spec, TerminalGuarded, Unguarded

-----------------------------------------------------------------------------
(* One worker at a time holds the charge *)

LEMMA SingleLift ==
    ASSUME Typed, Single, NEW w \in Workers, NEW s \in WorkType, Goto(w, s), MarkerInv(s, row'),
           \A v \in Workers : v # w =>
              MarkerInv(work[v], row') /\ Apart(s, work[v]) /\ Apart(work[v], s)
    PROVE  Single'
<1>1. /\ work'[w] = s
      /\ \A v \in Workers : v # w => work'[v] = work[v]
  BY Moved DEF Typed, TypeOK
<1>2. \A v \in Workers : MarkerInv(work'[v], row')
  BY <1>1
<1>3. \A u, v \in Workers : u # v => Apart(work'[u], work'[v])
  BY <1>1 DEF Single
<1> QED BY <1>2, <1>3 DEF Single

LEMMA IdleApart == \A r, t : MarkerInv(Idle, r) /\ Apart(Idle, t) /\ Apart(t, Idle)
BY IdleType DEF MarkerInv, Apart, Holding, Refunding, Settling

(* While the row is unfinished nobody holds the charge or is about to claim it. *)
LEMMA NoneHolds ==
    ASSUME Placed, row.status \notin Finished
    PROVE  \A v \in Workers : work[v].pc \notin Holding \cup {"claim"}
BY DEF Placed, PlaceInv, Holding, Finished

(* Neither does anybody hold it when a claim meets the marker it read. *)
LEMMA NoneHoldsAtClaim ==
    ASSUME Placed, Single, NEW w \in Workers, Claims(w)
    PROVE  /\ row.status = "FAILURE" /\ row.quota # 0
           /\ \A v \in Workers : v # w => work[v].pc \notin Holding
<1>1. row.status = "FAILURE" /\ row.quota # 0
  BY DEF Claims, Placed, PlaceInv
<1>2. ASSUME NEW v \in Workers, v # w, work[v].pc \in Holding PROVE FALSE
  <2>1. /\ PlaceInv(work[v], row) /\ MarkerInv(work[v], row) /\ Apart(work[v], work[w])
        /\ work[w].pc = "claim"
    BY <1>2 DEF Placed, Single, Claims
  <2> QED BY <1>1, <1>2, <2>1 DEF PlaceInv, MarkerInv, Apart, Holding
<1> QED BY <1>1, <1>2

(* A worker that is charging holds the charge, and nobody else does. *)
LEMMA ChargesMove ==
    ASSUME Typed, NEW w \in Workers, Charges(w)
    PROVE  \E s \in WorkType :
              /\ Goto(w, s)
              /\ s.quota = work[w].quota /\ s.delta = work[w].delta /\ s.claimed = work[w].claimed
              /\ \/ work[w].pc = "refundFund" /\ s.pc = "refundToken" /\ paid' = paid - work[w].quota
                    /\ closings' = closings + 1 /\ UNCHANGED <<tokenPaid, lostToken>>
                 \/ work[w].pc = "refundFund" /\ s.pc = "restore" /\ work[w].claimed /\ UNCHANGED <<ledger, lapses>>
                 \/ work[w].pc = "refundToken" /\ s.pc = "clear" /\ CreditToken(work[w].quota)
                    /\ UNCHANGED <<paid, closings>>
                 \/ work[w].pc = "settleFund" /\ s.pc = "settleToken" /\ paid' = paid + work[w].delta
                    /\ closings' = closings + 1 /\ UNCHANGED <<tokenPaid, lostToken>>
                 \/ work[w].pc = "settleToken" /\ s.pc = "settleQuota" /\ CreditToken(- work[w].delta)
                    /\ UNCHANGED <<paid, closings>>
<1>1. {"refundToken", "restore", "clear", "settleToken", "settleQuota"} \subseteq Steps
  BY DEF Steps
<1> QED BY <1>1, After, ZenonT(60) DEF Charges, To

LEMMA SingleEffects ==
    ASSUME Typed, Placed, Single, NEW w \in Workers,
           Takes(w) \/ Turns(w) \/ Claims(w) \/ Charges(w) \/ Records(w) \/ Left(w)
    PROVE  Single'
<1> USE SingleLift, RowFields, IdleType, IdleApart
<1>0. \A v \in Workers : v # w =>
         MarkerInv(work[v], row) /\ Apart(work[w], work[v]) /\ Apart(work[v], work[w])
  BY DEF Single
<1>1. CASE Left(w)
  BY <1>0, <1>1 DEF Left
<1>2. CASE Takes(w)
  <2>1. ASSUME NEW p \in Reading, Goto(w, Copy(p)), row' = row PROVE Single'
    <3>1. Copy(p) \in WorkType /\ Copy(p).pc = p
      BY CopyType DEF Typed, Reading, Steps
    <3>2. MarkerInv(Copy(p), row') /\ \A v \in Workers : Apart(Copy(p), work[v]) /\ Apart(work[v], Copy(p))
      BY <3>1 DEF MarkerInv, Apart, Reading, Holding, Refunding, Settling
    <3> QED BY <1>0, <2>1, <3>1, <3>2
  <2>2. ASSUME ~ row.fresh, Goto(w, Copy("claim")), row' = row PROVE Single'
    <3>1. Copy("claim") \in WorkType /\ Copy("claim").pc = "claim"
      BY CopyType DEF Typed, Steps
    <3>2. /\ MarkerInv(Copy("claim"), row')
          /\ \A v \in Workers : v # w => Apart(Copy("claim"), work[v]) /\ Apart(work[v], Copy("claim"))
      BY <1>0, <2>2, <3>1 DEF MarkerInv, Apart, Holding, Refunding, Settling
    <3> QED BY <1>0, <2>2, <3>1, <3>2
  <2> QED BY <1>2, <2>1, <2>2 DEF Takes
<1>3. CASE Turns(w)
  <2>1. /\ work[w].pc \in Reading /\ row.status = work[w].status /\ row'.fresh = TRUE
        /\ \A v \in Workers : work[v].pc \notin Holding \cup {"claim"}
    <3>1. work[w].pc \in Reading /\ row.status = work[w].status /\ row'.fresh = TRUE
      BY <1>3 DEF Turns, Turned
    <3>2. row.status \notin Finished
      BY <3>1 DEF Typed, CopyInv, Unfinished, Finished
    <3> QED BY <3>1, <3>2, NoneHolds
  <2>2. \A v \in Workers : MarkerInv(work[v], row') /\ \A s : Apart(work[v], s)
    BY <2>1 DEF MarkerInv, Apart, Holding
  <2>3. ASSUME NEW s \in WorkType, Goto(w, s), s.pc \in Refunding \cup {"restore"} => ~ s.claimed
        PROVE  Single'
    <3>1. MarkerInv(s, row') /\ \A v \in Workers : Apart(s, work[v])
      BY <2>1, <2>3 DEF MarkerInv, Apart
    <3> QED BY <2>2, <2>3, <3>1
  <2>4. ASSUME NEW actual \in Actuals, Goto(w, Settled(w, actual)) PROVE Single'
    BY <2>3, <2>4, AfterSettle DEF Refunding
  <2>5. ASSUME NEW q, Goto(w, RefundNext(w, q)) PROVE Single'
    BY <2>1, <2>3, <2>5, RefundNextType DEF Typed, CopyInv, Refunding
  <2>6. ASSUME Goto(w, Idle) PROVE Single'
    BY <2>2, <2>6
  <2> QED BY <1>3, <2>4, <2>5, <2>6 DEF Turns, Turned
<1>4. CASE Claims(w)
  <2>1. MarkerInv(Claimed(w), row') /\ Claimed(w) \in WorkType
    BY <1>4, AfterClaim, ZenonT(60) DEF Claims, MarkerInv
  <2>2. \A v \in Workers : v # w =>
           MarkerInv(work[v], row') /\ Apart(Claimed(w), work[v]) /\ Apart(work[v], Claimed(w))
    BY <1>4, NoneHoldsAtClaim, AfterClaim DEF MarkerInv, Apart, Holding
  <2> QED BY <1>4, <2>1, <2>2 DEF Claims
<1>5. CASE Charges(w)
  <2>1. PICK s \in WorkType :
           /\ Goto(w, s) /\ s.claimed = work[w].claimed
           /\ \/ work[w].pc \in Refunding /\ s.pc \in Refunding \cup {"restore"}
              \/ work[w].pc \in Settling /\ s.pc \in Settling
    BY <1>5, ChargesMove, Zenon DEF Refunding, Settling
  <2>2. row' = row /\ MarkerInv(work[w], row)
    BY <1>5 DEF Charges, Single
  <2>3. MarkerInv(s, row')
    BY <2>1, <2>2 DEF MarkerInv, Refunding, Settling
  <2>4. \A v \in Workers : v # w => Apart(s, work[v]) /\ Apart(work[v], s)
    BY <1>0, <2>1 DEF Apart, Holding, Refunding, Settling
  <2> QED BY <1>0, <2>1, <2>2, <2>3, <2>4
<1>6. CASE Records(w)
  <2>1. work[w].pc \in Holding
    BY <1>6 DEF Records, Holding, Refunding, Settling
  <2>2. \A v \in Workers : v # w => MarkerInv(work[v], row')
    BY <1>0, <2>1 DEF Apart, MarkerInv, Holding
  <2> QED BY <1>6, <2>2 DEF Records
<1> QED BY <1>1, <1>2, <1>3, <1>4, <1>5, <1>6

LEMMA SingleWorld ==
    ASSUME GraceHolds, Typed, Placed, Single,
           (\E q \in Quotas, p \in PreQuotas : Submit(q, p)) \/ (\E s \in Finished : Upstream(s)) \/ Age \/ UNCHANGED vars
    PROVE  Single'
<1>1. ASSUME NEW q \in Quotas, NEW p \in PreQuotas, Submit(q, p) PROVE Single'
  <2>1. \A v \in Workers : work[v].pc \notin Holding \cup {"claim"}
    BY <1>1, NoneHolds DEF Submit, Placed, Finished
  <2>2. \A v \in Workers : MarkerInv(work[v], row')
    BY <2>1 DEF MarkerInv, Holding
  <2> QED BY <1>1, <2>2 DEF Submit, Single
<1>2. CASE (\E s \in Finished : Upstream(s)) \/ UNCHANGED vars
  BY <1>2 DEF Upstream, vars, Single
<1>3. CASE Age
  <2>1. row'.quota = row.quota /\ work' = work
    BY <1>3 DEF Age, Typed, TypeOK
  <2>2. \A v \in Workers : MarkerInv(work[v], row')
    BY <1>3, <2>1 DEF Age, Single, MarkerInv, Refunding
  <2> QED BY <2>1, <2>2 DEF Single
<1> QED BY <1>1, <1>2, <1>3

LEMMA SingleInit == Init => Single
BY IdleApart DEF Init, Single

LEMMA SingleNext == Graced /\ Typed /\ Placed /\ Single /\ [Next]_vars => Single'
BY WorkerOrWorld, Effects, SingleEffects, SingleWorld DEF Graced

(* Refunds and settlements of a task exclude each other for any number of passes and
   sweeps, provided that statuses are compared and that the reconciliation waits longer
   than an immediate refund takes. *)
THEOREM ChargeHasOneHolder ==
    ASSUME Graced
    PROVE  Spec => []OneHolder
<1>1. Typed /\ Placed /\ [Next]_vars => Placed'
  BY PlacedNext DEF Graced
<1>2. Typed /\ Placed /\ Single /\ [Next]_vars => Single'
  BY SingleNext
<1>3. Single => OneHolder
  BY HoldsIs DEF Single, Apart, OneHolder
<1> QED BY <1>1, <1>2, <1>3, TypedInit, TypedNext, PlacedInit, SingleInit, PTL DEF Spec

-----------------------------------------------------------------------------
(* The accounts *)

(* After w has moved to s nobody holds the charge if neither s nor another worker does. *)
LEMMA QuietAfter ==
    ASSUME Typed, NEW w \in Workers, NEW s \in WorkType, Goto(w, s)
    PROVE  Quiet' <=> s.pc \notin Holding /\ \A v \in Workers : v # w => work[v].pc \notin Holding
<1>1. /\ work'[w] = s
      /\ \A v \in Workers : v # w => work'[v] = work[v]
  BY Moved DEF Typed, TypeOK
<1>2. Quiet' <=> \A v \in Workers : work'[v].pc \notin Holding
  BY DEF Quiet, Holds, Holding, Refunding, Settling
<1> QED BY <1>1, <1>2

LEMMA QuietIs == Quiet <=> \A v \in Workers : work[v].pc \notin Holding
BY DEF Quiet, Holds, Holding, Refunding, Settling

(* The other workers while w holds the charge. *)
LEMMA OthersWait ==
    ASSUME Placed, Single, NEW w \in Workers, work[w].pc \in Holding
    PROVE  /\ row.status \in Finished
           /\ \A v \in Workers : v # w => work[v].pc \notin Holding
BY DEF Placed, PlaceInv, Single, Apart, Holding, Finished

(* The account of a worker that does not hold the charge is its copy. *)
LEMMA WaitingBook ==
    ASSUME NEW s, NEW r, NEW n, NEW c, NEW m, NEW k, s.pc \notin Holding,
           s.pc \in Reading => s.quota = k
    PROVE  WorkerBook(s, r, n, c, m, k)
BY DEF WorkerBook, Holding, Refunding, Settling

LEMMA BooksLift ==
    ASSUME Typed, Placed, Books, NEW w \in Workers, NEW s \in WorkType, Goto(w, s),
           row.status # "NONE", submitted' = submitted, charged' = charged,
           Floor(Net', Lapsed', charged), WorkerBook(s, row', Net', closings', Lapsed', charged),
           \A v \in Workers : v # w => WorkerBook(work[v], row', Net', closings', Lapsed', charged),
           /\ s.pc \notin Holding
           /\ \A v \in Workers : v # w => work[v].pc \notin Holding
           => QuietBook(row', Net', closings', Lapsed', charged)
    PROVE  Books'
<1>1. /\ work'[w] = s
      /\ \A v \in Workers : v # w => work'[v] = work[v]
  BY Moved DEF Typed, TypeOK
<1>2. \A v \in Workers : WorkerBook(work'[v], row', Net', closings', Lapsed', charged')
  BY <1>1
<1>3. Quiet' => QuietBook(row', Net', closings', Lapsed', charged')
  BY QuietAfter
<1>4. submitted' /\ charged' \in Quotas /\ Floor(Net', Lapsed', charged')
  BY DEF Placed, Books
<1> QED BY <1>2, <1>3, <1>4 DEF Books

(* When the worker that moves held the charge of a finished task, only its own account
   and the account nobody holds are at stake. *)
LEMMA HolderLift ==
    ASSUME Typed, Placed, Single, Books, NEW w \in Workers, NEW s \in WorkType, Goto(w, s),
           work[w].pc \in Holding, row'.status = row.status, submitted' = submitted,
           charged' = charged,
           Floor(Net', Lapsed', charged), WorkerBook(s, row', Net', closings', Lapsed', charged),
           s.pc \notin Holding => QuietBook(row', Net', closings', Lapsed', charged)
    PROVE  Books'
<1>1. /\ row.status \in Finished /\ row.status # "NONE"
      /\ \A v \in Workers : v # w => work[v].pc \notin Holding
  BY OthersWait DEF Finished
<1>2. \A v \in Workers : v # w => (work[v].pc \in Reading => work[v].quota = charged)
  BY DEF Books, WorkerBook
<1>3. \A v \in Workers : v # w => WorkerBook(work[v], row', Net', closings', Lapsed', charged)
  BY <1>1, <1>2, WaitingBook
<1> QED BY <1>1, <1>3, BooksLift

LEMMA IdleBook == \A r, n, c, m, k : WorkerBook(Idle, r, n, c, m, k) /\ Idle.pc \notin Holding
BY IdleType DEF WorkerBook, Reading, Holding, Refunding, Settling

(* A step of a worker that gives up, or takes a copy. *)
LEMMA BooksLeft ==
    ASSUME Typed, Placed, Single, Books, NEW w \in Workers, submitted' = submitted, Left(w)
    PROVE  Books'
<1>0. /\ row' = row /\ Net' = Net /\ closings' = closings /\ charged' = charged /\ Goto(w, Idle)
      /\ Lapsed' <=> Lapsed \/ Unmarked(w)
  BY DEF Left, ledger, submission, Net
<1>1. row.status # "NONE"
  BY DEF Left, Placed, PlaceInv, Typed, TypeOK, WorkType, Steps, Reading, Refunding, Settling
<1>2. CASE work[w].pc \notin Holding
  <2>0. Lapsed' = Lapsed
    BY <1>0, <1>2 DEF Unmarked, Lapsed, Holding, Refunding, Settling
  <2>1. (\A v \in Workers : v # w => work[v].pc \notin Holding)
           => QuietBook(row, Net, closings, Lapsed, charged)
    BY <1>2, QuietIs DEF Books
  <2>2. /\ Floor(Net, Lapsed, charged)
        /\ \A v \in Workers : WorkerBook(work[v], row, Net, closings, Lapsed, charged)
    BY DEF Books
  <2> QED BY <1>0, <1>1, <2>0, <2>1, <2>2, IdleType, IdleBook, BooksLift
<1>3. CASE work[w].pc \in Holding
  <2>1. /\ WorkerBook(work[w], row, Net, closings, Lapsed, charged) /\ MarkerInv(work[w], row)
        /\ PlaceInv(work[w], row) /\ Floor(Net, Lapsed, charged)
    BY DEF Single, Placed, Books
  <2>2. charged \in Nat /\ Net \in Int
    BY DEF Typed, TypeOK, Net
  <2>3. Floor(Net, Lapsed', charged)
    <3>1. PICK n, m, m2, k : n = Net /\ m = Lapsed /\ m2 = Lapsed' /\ k = charged
      OBVIOUS
    <3>2. n \in Int /\ k \in Nat /\ (m => m2) /\ Floor(n, m, k)
      BY <1>0, <2>1, <2>2, <3>1
    <3>3. Floor(n, m2, k)
      BY <3>2 DEF Floor
    <3> QED BY <3>1, <3>3
  <2>4. QuietBook(row, Net, closings, Lapsed', charged)
    <3>1. CASE work[w].pc = "settleFund"
      <4>1. row.status = "SUCCESS" /\ ~ Lapsed /\ row.quota = charged /\ Net = charged
        BY <2>1, <3>1 DEF WorkerBook, PlaceInv, Settling
      <4> QED BY <4>1 DEF QuietBook, Unfinished
    <3>2. CASE work[w].pc \in {"settleToken", "settleQuota"}
      <4>1. row.status = "SUCCESS" /\ Lapsed'
        BY <1>0, <2>1, <3>2 DEF PlaceInv, Settling, Unmarked
      <4> QED BY <4>1 DEF QuietBook, Unfinished
    <3>3. CASE work[w].pc \in Refunding \cup {"restore"} /\ work[w].claimed
      <4>1. row.status = "FAILURE" /\ row.quota = 0
        BY <2>1, <3>3 DEF PlaceInv, MarkerInv
      <4> QED BY <4>1 DEF QuietBook, Unfinished
    <3>4. CASE work[w].pc = "refundFund" /\ ~ work[w].claimed
      <4>1. /\ row.status = "FAILURE" /\ ~ Lapsed' /\ row.quota = charged /\ Net = charged
            /\ closings = 0
        BY <1>0, <2>1, <3>4 DEF WorkerBook, PlaceInv, Refunding, Unmarked
      <4> QED BY <4>1 DEF QuietBook, Unfinished
    <3>5. CASE work[w].pc \in {"refundToken", "clear"} /\ ~ work[w].claimed
      <4>1. /\ row.status = "FAILURE" /\ Lapsed' /\ row.quota = charged /\ Net = 0
            /\ closings = 1
        BY <1>0, <2>1, <3>5 DEF WorkerBook, PlaceInv, Refunding, Unmarked
      <4> QED BY <4>1 DEF QuietBook, Unfinished
    <3> QED BY <1>3, <2>1, <3>1, <3>2, <3>3, <3>4, <3>5
            DEF Holding, Refunding, Settling, PlaceInv
  <2> QED BY <1>0, <1>3, <2>3, <2>4, IdleType, IdleBook, HolderLift
<1> QED BY <1>2, <1>3

(* While the row is unfinished, or shows a marker nobody is about to change, nobody
   holds the charge. *)
LEMMA QuietTakes ==
    ASSUME Placed, Single, NEW w \in Workers, Takes(w)
    PROVE  Quiet
<1>1. ASSUME NEW v \in Workers, work[v].pc \in Holding PROVE FALSE
  <2>1. PlaceInv(work[v], row) /\ MarkerInv(work[v], row)
    BY DEF Placed, Single
  <2> QED BY <1>1, <2>1 DEF Takes, PlaceInv, MarkerInv, Holding, Unfinished
<1> QED BY <1>1, QuietIs

LEMMA BooksTakes ==
    ASSUME Typed, Placed, Single, Books, NEW w \in Workers, submitted' = submitted, Takes(w)
    PROVE  Books'
<1>0. /\ row' = row /\ Net' = Net /\ closings' = closings /\ charged' = charged /\ Lapsed' = Lapsed
      /\ row.status # "NONE"
  BY DEF Takes, ledger, submission, Net, Lapsed, Unfinished
<1>1. PICK p \in Reading \cup {"claim"} :
         Goto(w, Copy(p)) /\ (p \in Reading => row.status \in Unfinished)
  BY DEF Takes, Reading
<1>2. p \in Steps
  BY DEF Reading, Steps
<1>3. Copy(p) \in WorkType /\ Copy(p).pc = p /\ Copy(p).quota = row.quota
  BY <1>2, CopyType DEF Typed
<1>4. /\ Floor(Net, Lapsed, charged) /\ QuietBook(row, Net, closings, Lapsed, charged)
      /\ \A v \in Workers : WorkerBook(work[v], row, Net, closings, Lapsed, charged)
  BY QuietTakes DEF Books
<1>5. p \notin Holding /\ (p \in Reading => row.quota = charged)
  BY <1>1, <1>4 DEF QuietBook, Reading, Holding, Refunding, Settling
<1>6. WorkerBook(Copy(p), row, Net, closings, Lapsed, charged)
  BY <1>3, <1>5, WaitingBook
<1> QED BY <1>0, <1>1, <1>3, <1>4, <1>6, BooksLift

LEMMA BooksTurns ==
    ASSUME Typed, Placed, Books, NEW w \in Workers, submitted' = submitted, Turns(w)
    PROVE  Books'
<1>0. /\ work[w].pc \in Reading /\ row.status = work[w].status /\ row.status \in Unfinished
      /\ Net' = Net /\ closings' = closings /\ charged' = charged /\ Lapsed' = Lapsed
  BY DEF Turns, Turned, ledger, submission, Net, Lapsed, Typed, CopyInv
<1>1. \A v \in Workers : work[v].pc \notin Holding
  BY <1>0, NoneHolds DEF Unfinished, Finished
<1>2. /\ QuietBook(row, Net, closings, Lapsed, charged)
      /\ \A v \in Workers : WorkerBook(work[v], row, Net, closings, Lapsed, charged)
      /\ Floor(Net, Lapsed, charged)
  BY <1>1, QuietIs DEF Books
<1>3. /\ Net = charged /\ closings = 0 /\ ~ Lapsed /\ row.status # "NONE"
      /\ \A v \in Workers : work[v].pc \in Reading => work[v].quota = charged
  BY <1>0, <1>2 DEF QuietBook, WorkerBook, Unfinished
<1>4. ASSUME NEW s \in WorkType, Goto(w, s), WorkerBook(s, row', Net, closings, Lapsed, charged),
             s.pc \notin Holding => QuietBook(row', Net, closings, Lapsed, charged)
      PROVE  Books'
  <2>1. \A v \in Workers : WorkerBook(work[v], row', Net, closings, Lapsed, charged)
    BY <1>1, <1>3, WaitingBook
  <2> QED BY <1>0, <1>2, <1>3, <1>4, <2>1, BooksLift
<1>5. ASSUME NEW st \in {"IN_PROGRESS", "SUCCESS"}, Turned(w, st, work[w].quota, Idle) PROVE Books'
  <2>1. row'.status = st /\ row'.quota = charged /\ Goto(w, Idle)
    BY <1>0, <1>3, <1>5, RowFields DEF Turned
  <2>2. QuietBook(row', Net, closings, Lapsed, charged)
    BY <1>3, <2>1 DEF QuietBook
  <2> QED BY <1>4, <2>1, <2>2, IdleType, IdleBook
<1>6. ASSUME NEW actual \in Actuals, Turned(w, "SUCCESS", work[w].quota, Settled(w, actual))
      PROVE  Books'
  <2>1. row'.status = "SUCCESS" /\ row'.quota = charged /\ Goto(w, Settled(w, actual))
    BY <1>0, <1>3, <1>6, RowFields DEF Turned
  <2>2. /\ Settled(w, actual) \in WorkType /\ Settled(w, actual).pc = "settleFund"
        /\ Settled(w, actual).quota = charged
    BY <1>0, <1>3, AfterSettle
  <2>3. WorkerBook(Settled(w, actual), row', Net, closings, Lapsed, charged)
    BY <1>3, <2>1, <2>2 DEF WorkerBook, Reading, Refunding
  <2> QED BY <1>4, <2>1, <2>2, <2>3 DEF Holding, Settling
<1>7. ASSUME NEW q \in Nat, q = work[w].quota \/ (legacy /\ q = 0),
             Turned(w, "FAILURE", q, RefundNext(w, q))
      PROVE  Books'
  <2>1. row'.status = "FAILURE" /\ row'.quota = q /\ Goto(w, RefundNext(w, q))
    BY <1>7, RowFields DEF Turned
  <2>2. CASE q = 0
    <3>1. QuietBook(row', Net, closings, Lapsed, charged) /\ Goto(w, Idle)
      BY <2>1, <2>2, RefundNextType DEF Typed, QuietBook, Unfinished
    <3> QED BY <1>4, <3>1, IdleType, IdleBook
  <2>3. CASE q # 0
    <3>1. PICK t : t = RefundNext(w, q)
      OBVIOUS
    <3>2. t \in WorkType /\ t.pc = "refundFund" /\ t.quota = charged /\ row'.quota = charged
      BY <1>0, <1>3, <1>7, <2>1, <2>3, <3>1, RefundNextType DEF Typed
    <3>3. WorkerBook(t, row', Net, closings, Lapsed, charged)
      BY <1>3, <3>2 DEF WorkerBook, Settling
    <3> QED BY <1>4, <2>1, <3>1, <3>2, <3>3 DEF Holding, Refunding
  <2> QED BY <2>2, <2>3
<1> QED BY <1>5, <1>6, <1>7 DEF Turns

LEMMA BooksClaims ==
    ASSUME Typed, Placed, Single, Books, NEW w \in Workers, submitted' = submitted, Claims(w)
    PROVE  Books'
<1>1. /\ row.status = "FAILURE" /\ row.quota # 0 /\ work[w].pc = "claim" /\ row.quota = work[w].quota
      /\ \A v \in Workers : work[v].pc \notin Holding
  BY NoneHoldsAtClaim DEF Claims, Holding, Refunding, Settling
<1>2. QuietBook(row, Net, closings, Lapsed, charged) /\ Floor(Net, Lapsed, charged)
  BY <1>1, QuietIs DEF Books
<1>3. row.quota = charged /\ IF Lapsed THEN Net = 0 /\ closings = 1 ELSE Net = charged /\ closings = 0
  BY <1>1, <1>2 DEF QuietBook
<1>4. /\ Net' = Net /\ closings' = closings /\ charged' = charged /\ Lapsed' = Lapsed
      /\ row'.status = "FAILURE" /\ Goto(w, Claimed(w))
  BY <1>1, RowFields DEF Claims, ledger, submission, Net, Lapsed
<1>5. PICK t : t = Claimed(w)
  OBVIOUS
<1>6. t \in WorkType /\ t.pc = "refundFund" /\ t.claimed = TRUE /\ t.quota = charged
  BY <1>1, <1>3, <1>5, AfterClaim
<1>7. WorkerBook(t, row', Net, closings, Lapsed, charged) /\ t.pc \in Holding
  BY <1>3, <1>6 DEF WorkerBook, Holding, Refunding, Settling
<1>8. \A v \in Workers : WorkerBook(work[v], row', Net, closings, Lapsed, charged)
  BY <1>1, WaitingBook DEF Books, WorkerBook
<1> QED BY <1>1, <1>2, <1>4, <1>5, <1>6, <1>7, <1>8, BooksLift

(* What a change of the charge does to the account of the worker that makes it. *)
LEMMA BooksCharges ==
    ASSUME Typed, Placed, Single, Books, NEW w \in Workers, submitted' = submitted, Charges(w)
    PROVE  Books'
<1>1. PICK s \in WorkType :
         /\ Goto(w, s)
         /\ s.quota = work[w].quota /\ s.delta = work[w].delta /\ s.claimed = work[w].claimed
         /\ \/ work[w].pc = "refundFund" /\ s.pc = "refundToken" /\ paid' = paid - work[w].quota
               /\ closings' = closings + 1
            \/ work[w].pc = "refundFund" /\ s.pc = "restore" /\ paid' = paid /\ closings' = closings
               /\ work[w].claimed
            \/ work[w].pc = "refundToken" /\ s.pc = "clear" /\ paid' = paid /\ closings' = closings
            \/ work[w].pc = "settleFund" /\ s.pc = "settleToken" /\ paid' = paid + work[w].delta
               /\ closings' = closings + 1
            \/ work[w].pc = "settleToken" /\ s.pc = "settleQuota" /\ paid' = paid /\ closings' = closings
  BY ChargesMove DEF ledger
<1>2. /\ row' = row /\ charged' = charged /\ unsettled' = unsettled /\ Lapsed' = Lapsed
      /\ row'.status = row.status
  BY DEF Charges, submission, Lapsed
<1>3. /\ work[w].pc \in Holding /\ s.pc \in Holding /\ CopyInv(work[w])
      /\ WorkerBook(work[w], row, Net, closings, Lapsed, charged) /\ Floor(Net, Lapsed, charged)
  BY <1>1 DEF Holding, Refunding, Settling, Books, Typed
<1>4. /\ paid \in Int /\ unsettled \in Int /\ Net \in Int /\ charged \in Nat /\ closings \in Nat
      /\ work[w].quota \in Nat /\ work[w].delta \in Int
  BY DEF Typed, TypeOK, WorkType, Net
<1>5. ASSUME WorkerBook(s, row, Net', closings', Lapsed, charged), Floor(Net', Lapsed, charged)
      PROVE  Books'
  BY <1>1, <1>2, <1>3, <1>5, HolderLift
<1>6. CASE work[w].pc = "refundFund" /\ s.pc = "refundToken"
  <2>1. Net' = Net - work[w].quota /\ closings' = closings + 1
    BY <1>1, <1>2, <1>4, <1>6 DEF Net
  <2>2. /\ work[w].quota = charged /\ (~ work[w].claimed => ~ Lapsed /\ row.quota = charged)
        /\ IF Lapsed THEN Net = 0 /\ closings = 1 ELSE Net = charged /\ closings = 0
    BY <1>3, <1>6 DEF WorkerBook, Refunding
  <2>3. IF Lapsed THEN Net' = - charged /\ closings' = 2 ELSE Net' = 0 /\ closings' = 1
    BY <1>4, <2>1, <2>2
  <2>4. WorkerBook(s, row, Net', closings', Lapsed, charged) /\ Floor(Net', Lapsed, charged)
    BY <1>1, <1>4, <1>6, <2>2, <2>3 DEF WorkerBook, Floor, Settling
  <2> QED BY <1>5, <2>4
<1>7. CASE work[w].pc = "settleFund" /\ s.pc = "settleToken"
  <2>1. Net = charged /\ closings = 0 /\ work[w].quota = charged /\ ~ Lapsed
    BY <1>3, <1>7 DEF WorkerBook, Settling
  <2>2. Net' = work[w].quota + work[w].delta /\ closings' = 1
    BY <1>1, <1>2, <1>4, <1>7, <2>1 DEF Net
  <2>3. Net' \in Actuals
    BY <1>3, <1>7, <2>2 DEF CopyInv, Settling
  <2>4. Net' >= 0
    BY <2>3, TaskAssumption
  <2>5. Floor(Net', Lapsed, charged)
    BY <2>1, <2>4 DEF Floor
  <2>6. WorkerBook(s, row, Net', closings', Lapsed, charged)
    BY <1>1, <1>7, <2>1, <2>2 DEF WorkerBook, Reading, Refunding
  <2> QED BY <1>5, <2>5, <2>6
<1>8. CASE s.pc \in {"restore", "clear", "settleQuota"}
  <2>1. Net' = Net /\ closings' = closings
    BY <1>1, <1>2, <1>8 DEF Net
  <2>2. WorkerBook(s, row, Net, closings, Lapsed, charged)
    BY <1>1, <1>3, <1>8 DEF WorkerBook, Reading, Refunding, Settling
  <2> QED BY <1>3, <1>5, <2>1, <2>2
<1> QED BY <1>1, <1>6, <1>7, <1>8

LEMMA BooksRecords ==
    ASSUME Typed, Placed, Single, Books, NEW w \in Workers, submitted' = submitted, Records(w)
    PROVE  Books'
<1>1. /\ work[w].pc \in Holding /\ row'.status = row.status /\ Goto(w, Idle)
      /\ Net' = Net /\ closings' = closings /\ charged' = charged /\ Lapsed' = Lapsed
  BY RowFields DEF Records, Holding, Refunding, Settling, ledger, submission, Net, Lapsed
<1>2. /\ WorkerBook(work[w], row, Net, closings, Lapsed, charged) /\ PlaceInv(work[w], row)
      /\ Floor(Net, Lapsed, charged)
  BY DEF Books, Placed
<1>3. ASSUME QuietBook(row', Net, closings, Lapsed, charged) PROVE Books'
  BY <1>1, <1>2, <1>3, IdleType, IdleBook, HolderLift
<1>4. CASE work[w].pc = "settleQuota"
  <2>1. row'.quota = Net /\ row'.status = "SUCCESS"
    BY <1>1, <1>2, <1>4, RowFields DEF Records, WorkerBook, PlaceInv, Settling
  <2> QED BY <1>3, <2>1 DEF QuietBook, Unfinished
<1>5. CASE work[w].pc = "clear"
  <2>1. row'.quota = 0 /\ row'.status = "FAILURE"
    BY <1>1, <1>2, <1>5, RowFields DEF Records, PlaceInv, Refunding
  <2> QED BY <1>3, <2>1 DEF QuietBook, Unfinished
<1>6. CASE work[w].pc = "restore"
  <2>1. row'.quota = charged /\ row'.status = "FAILURE"
    BY <1>1, <1>2, <1>6, RowFields DEF Records, WorkerBook, PlaceInv
  <2>2. IF Lapsed THEN Net = 0 /\ closings = 1 ELSE Net = charged /\ closings = 0
    BY <1>2, <1>6 DEF WorkerBook
  <2> QED BY <1>3, <2>1, <2>2 DEF QuietBook, Unfinished
<1> QED BY <1>4, <1>5, <1>6 DEF Records

(* Whatever SettleBilling managed to charge, the books open with what the row records. *)
LEMMA SubmitOpens ==
    ASSUME NEW q \in Quotas, NEW p \in PreQuotas, Submit(q, p)
    PROVE  /\ Net' = q /\ charged' = q /\ paid' \in Int /\ unsettled' \in Int /\ q \in Nat
           /\ ~ submitted /\ submitted' /\ closings' = closings /\ lapses' = lapses /\ work' = work
BY TaskAssumption DEF Submit, Net

LEMMA BooksWorld ==
    ASSUME Typed, Placed, Books,
           \/ \E q \in Quotas, p \in PreQuotas : Submit(q, p)
           \/ (\E s \in Finished : Upstream(s)) \/ Age \/ UNCHANGED vars
    PROVE  Books'
<1>1. ASSUME NEW q \in Quotas, NEW p \in PreQuotas, Submit(q, p) PROVE Books'
  <2>1. /\ row.status = "NONE" /\ closings' = 0 /\ ~ Lapsed' /\ Net' = q /\ charged' = q /\ q \in Nat
        /\ submitted' /\ work' = work
    BY <1>1, SubmitOpens DEF Placed, Books, Lapsed
  <2>2. \A v \in Workers : work[v].pc \notin Holding \cup Reading
    BY <2>1, NoneHolds DEF Placed, PlaceInv, Finished
  <2>3. \A v \in Workers : WorkerBook(work'[v], row', Net', closings', Lapsed', charged')
    BY <2>1, <2>2, WaitingBook
  <2>4. row' = row \/ (row'.status = "NOT_START" /\ row'.quota = q)
    BY <1>1, RowFields DEF Submit
  <2>5. QuietBook(row', Net', closings', Lapsed', charged')
    BY <2>1, <2>4 DEF QuietBook, Unfinished
  <2>6. Floor(Net', Lapsed', charged')
    BY <2>1 DEF Floor
  <2> QED BY <2>1, <2>3, <2>5, <2>6 DEF Books
<1>2. CASE (\E s \in Finished : Upstream(s)) \/ UNCHANGED vars
  BY <1>2 DEF Upstream, vars, Books, Quiet, Holds, Net, Lapsed, ledger, submission
<1>3. CASE Age
  <2>1. /\ row'.status = row.status /\ row'.quota = row.quota /\ work' = work /\ submitted' = submitted
        /\ Net' = Net /\ closings' = closings /\ Lapsed' = Lapsed /\ charged' = charged
        /\ unsettled' = unsettled
    BY <1>3 DEF Age, world, ledger, submission, Net, Lapsed, Typed, TypeOK
  <2>2. Quiet' = Quiet
    BY <2>1 DEF Quiet, Holds
  <2>3. /\ \A s, n, c, m, k : WorkerBook(s, row, n, c, m, k) => WorkerBook(s, row', n, c, m, k)
        /\ \A n, c, m, k : QuietBook(row, n, c, m, k) => QuietBook(row', n, c, m, k)
    BY <2>1 DEF WorkerBook, QuietBook
  <2> QED BY <2>1, <2>2, <2>3 DEF Books
<1> QED BY <1>1, <1>2, <1>3

LEMMA BooksInit == Init => Books
<1> SUFFICES ASSUME Init PROVE Books
  OBVIOUS
<1>1. Net = 0 /\ ~ Lapsed /\ closings = 0 /\ ~ submitted /\ unsettled = 0 /\ row.status = "NONE"
      /\ charged = 0 /\ \A w \in Workers : work[w] = Idle
  BY DEF Init, Net, Lapsed
<1>2. QuietBook(row, Net, closings, Lapsed, charged) /\ Floor(Net, Lapsed, charged)
  BY <1>1 DEF QuietBook, Floor, Unfinished
<1> QED BY <1>1, <1>2, IdleBook DEF Books

LEMMA BooksNext ==
    ASSUME Graced, Typed, Placed, Single, Books, [Next]_vars
    PROVE  Books'
<1>1. ASSUME NEW w \in Workers,
             ReadTimedOut(w) \/ ReadFailed(w) \/ ReadPoll(w) \/ ReadFetch(w) \/ Step(w) \/ Crash(w)
      PROVE  Books'
  <2>1. submitted' = submitted
    BY <1>1, WorkerKeeps
  <2>2. Takes(w) \/ Turns(w) \/ Claims(w) \/ Charges(w) \/ Records(w) \/ Left(w)
    BY <1>1, Effects DEF Graced
  <2> QED BY <2>1, <2>2, BooksLeft, BooksTakes, BooksTurns, BooksClaims, BooksCharges, BooksRecords
<1> QED BY <1>1, BooksWorld, WorkerOrWorld

(* However sweeps and passes overlap, fail and die, the user gets back no more than the
   charge the row records; if a refund went unmarked, because the write that clears the
   marker failed or its worker died before it, at most twice that. *)
THEOREM RefundIsBounded ==
    ASSUME Graced
    PROVE  Spec => []NeverOverRefunded
<1>1. Typed /\ Placed /\ [Next]_vars => Placed'
  BY PlacedNext DEF Graced
<1>2. Typed /\ Placed /\ Single /\ [Next]_vars => Single'
  BY SingleNext
<1>3. Typed /\ Placed /\ Single /\ Books /\ [Next]_vars => Books'
  BY BooksNext
<1>4. Books => NeverOverRefunded
  BY DEF Books, Floor, Net, Lapsed, NeverOverRefunded
<1> QED BY <1>1, <1>2, <1>3, <1>4, TypedInit, TypedNext, PlacedInit, SingleInit, BooksInit, PTL DEF Spec

-----------------------------------------------------------------------------
(* The marker *)

LEMMA ExactEffects ==
    ASSUME Typed, Placed, Single, Books, Exact, NEW w \in Workers, legacy' = legacy,
           Takes(w) \/ Turns(w) \/ Claims(w) \/ Charges(w) \/ Records(w) \/ Left(w)
    PROVE  Exact'
<1> SUFFICES ASSUME lapses' = {}, Quiet', row'.status = "FAILURE", ~ legacy, row'.quota = 0
             PROVE  Net' = 0
  BY DEF Exact
<1>0. /\ WorkerBook(work[w], row, Net, closings, Lapsed, charged) /\ PlaceInv(work[w], row)
      /\ MarkerInv(work[w], row)
  BY DEF Books, Placed, Single
<1>a. lapses = {} /\ ~ Lapsed
  BY DEF Takes, Turns, Turned, Claims, Charges, Records, Left, Lapsed
<1>1. ASSUME NEW s \in WorkType, Goto(w, s), row' = row, Net' = Net, work[w].pc \notin Holding
      PROVE  Net' = 0
  <2>1. Quiet
    BY <1>1, QuietAfter, QuietIs
  <2> QED BY <1>1, <1>a, <2>1 DEF Exact
<1>2. CASE Left(w)
  <2>1. row' = row /\ Net' = Net /\ Goto(w, Idle)
    BY <1>2 DEF Left, ledger, submission, Net
  <2>2. CASE work[w].pc \in Holding
    <3>1. work[w].pc \notin Settling
      BY <1>0, <2>1 DEF PlaceInv
    <3>2. work[w].pc # "restore" /\ (work[w].pc = "refundFund" => ~ work[w].claimed)
      BY <1>0, <1>2, <2>1 DEF Left, Unrefunded, PlaceInv
    <3>3. work[w].pc # "refundFund"
      BY <1>0, <2>1, <3>2 DEF WorkerBook, PlaceInv, Refunding
    <3>4. work[w].pc \in {"refundToken", "clear"}
      BY <2>2, <3>1, <3>2, <3>3 DEF Holding, Refunding
    <3> QED BY <1>0, <1>a, <2>1, <3>4 DEF WorkerBook
  <2> QED BY <1>1, <2>1, <2>2, IdleType
<1>3. CASE Takes(w)
  <2>1. PICK p \in Reading \cup {"claim"} : Goto(w, Copy(p))
    BY <1>3 DEF Takes
  <2>2. Copy(p) \in WorkType
    BY CopyType DEF Typed, Reading, Steps
  <2> QED BY <1>1, <1>3, <2>1, <2>2 DEF Takes, ledger, submission, Net, Holding, Refunding, Settling
<1>4. CASE Turns(w)
  <2>1. /\ work[w].pc \in Reading /\ row.status = work[w].status /\ row.status \in Unfinished
        /\ Net' = Net
    BY <1>4 DEF Turns, Turned, ledger, submission, Net, Typed, CopyInv
  <2>2. Quiet
    BY <2>1, NoneHolds, QuietIs DEF Unfinished, Finished
  <2>3. work[w].quota = Net
    BY <1>0, <2>1, <2>2 DEF Books, QuietBook, WorkerBook
  <2> QED BY <1>4, <2>1, <2>3, RowFields DEF Turns, Turned
<1>5. CASE Claims(w)
  BY <1>5, AfterClaim, QuietAfter DEF Claims, Holding, Refunding
<1>6. CASE Charges(w)
  <2>1. PICK s \in WorkType : Goto(w, s) /\ s.pc \in Holding
    BY <1>6, ChargesMove, Zenon DEF Holding, Refunding, Settling
  <2> QED BY <2>1, QuietAfter
<1>7. CASE Records(w)
  <2>1. row'.status = row.status /\ Net' = Net
    BY <1>7, RowFields DEF Records, ledger, submission, Net
  <2>2. work[w].pc = "clear"
    BY <1>0, <1>7, <2>1, RowFields DEF Records, PlaceInv, Settling, Refunding
  <2> QED BY <1>0, <1>a, <2>1, <2>2 DEF WorkerBook
<1> QED BY <1>2, <1>3, <1>4, <1>5, <1>6, <1>7

LEMMA ExactWorld ==
    ASSUME Typed, Placed, Exact,
           \/ \E q \in Quotas, p \in PreQuotas : Submit(q, p)
           \/ (\E s \in Finished : Upstream(s)) \/ Age \/ UNCHANGED vars
    PROVE  Exact'
<1>1. work' = work /\ legacy' = legacy /\ lapses' = lapses /\ Quiet' = Quiet
  BY DEF Submit, Upstream, Age, vars, world, Quiet, Holds
<1>2. ASSUME NEW q \in Quotas, NEW p \in PreQuotas, Submit(q, p) PROVE Exact'
  <2>1. row'.status # "FAILURE"
    BY <1>2, RowFields DEF Submit, Placed
  <2> QED BY <2>1 DEF Exact
<1>3. CASE (\E s \in Finished : Upstream(s)) \/ UNCHANGED vars
  BY <1>1, <1>3 DEF Upstream, vars, ledger, submission, Net, Exact
<1>4. CASE Age
  BY <1>1, <1>4 DEF Age, ledger, submission, Net, Typed, TypeOK, Exact
<1> QED BY <1>2, <1>3, <1>4

LEMMA ExactNext ==
    ASSUME Graced, Typed, Placed, Single, Books, Exact, [Next]_vars
    PROVE  Exact'
<1>1. ASSUME NEW w \in Workers,
             ReadTimedOut(w) \/ ReadFailed(w) \/ ReadPoll(w) \/ ReadFetch(w) \/ Step(w) \/ Crash(w)
      PROVE  Exact'
  <2>1. legacy' = legacy
    BY <1>1, WorkerKeeps
  <2>2. Takes(w) \/ Turns(w) \/ Claims(w) \/ Charges(w) \/ Records(w) \/ Left(w)
    BY <1>1, Effects DEF Graced
  <2> QED BY <2>1, <2>2, ExactEffects
<1> QED BY <1>1, ExactWorld, WorkerOrWorld

LEMMA ExactInit == Init => Exact
BY DEF Init, Exact

(* Until a write of the marker is lost, by a failure or a death, the quota column is what
   the user has paid and what SettleBilling failed to take, whenever no refund or
   settlement is under way: a sweep that finds it gives back what the row records. *)
THEOREM MarkerIsExact ==
    ASSUME Graced
    PROVE  Spec => []MarkerExact
<1>1. Typed /\ Placed /\ [Next]_vars => Placed'
  BY PlacedNext DEF Graced
<1>2. Typed /\ Placed /\ Single /\ [Next]_vars => Single'
  BY SingleNext
<1>3. Typed /\ Placed /\ Single /\ Books /\ [Next]_vars => Books'
  BY BooksNext
<1>4. Typed /\ Placed /\ Single /\ Books /\ Exact /\ [Next]_vars => Exact'
  BY ExactNext
<1>5. Typed /\ Books /\ Exact => MarkerExact
  <2> SUFFICES ASSUME Typed, Books, Exact, Quiet, lapses = {}, row.status # "NONE"
               PROVE  IF legacy THEN row.quota \in {0, Net} ELSE row.quota = Net
    BY DEF MarkerExact, Net
  <2>1. QuietBook(row, Net, closings, Lapsed, charged) /\ row.status \in Unfinished \cup Finished
    BY DEF Books, Typed, TypeOK, Status
  <2>2. ~ Lapsed
    BY DEF Lapsed
  <2> QED BY <2>1, <2>2 DEF QuietBook, Exact, Finished
<1> QED BY <1>1, <1>2, <1>3, <1>4, <1>5, TypedInit, TypedNext, PlacedInit, SingleInit, BooksInit,
           ExactInit, PTL DEF Spec

-----------------------------------------------------------------------------
(* The token *)

LEMMA BehindType ==
    ASSUME NEW s \in WorkType
    PROVE  Behind(s) \in Int /\ (s.pc \notin Owing => Behind(s) = 0)
BY DEF Behind, Owing, WorkType

(* A step of worker w changes the shortfall by what it changes for w. *)
LEMMA ShortfallMoves ==
    ASSUME IsFiniteSet(Workers), work \in [Workers -> WorkType], NEW w \in Workers,
           NEW s \in WorkType, Goto(w, s)
    PROVE  \E rest \in Int : /\ Shortfall(work) = Behind(work[w]) + rest
                             /\ Shortfall(work') = Behind(s) + rest
<1>1. PICK f, g : f = [v \in Workers |-> Behind(work[v])] /\ g = [v \in Workers |-> Behind(work'[v])]
  OBVIOUS
<1>2. work' \in [Workers -> WorkType] /\ work'[w] = s /\ \A v \in Workers : v # w => work'[v] = work[v]
  BY Moved
<1>3. /\ \A v \in Workers : f[v] \in Int /\ g[v] \in Int
      /\ f[w] = Behind(work[w]) /\ g[w] = Behind(s)
      /\ \A v \in Workers \ {w} : f[v] = g[v]
  BY <1>1, <1>2, BehindType
<1>4. PICK R : R = Workers \ {w} /\ IsFiniteSet(R)
  BY FS_RemoveElement
<1>5. SumOf(f, R) \in Int /\ SumOf(f, R) = SumOf(g, R)
  <2>1. \A v \in R : f[v] \in Int /\ f[v] = g[v]
    BY <1>3, <1>4
  <2> QED BY <1>4, <2>1, SumInt, SumAgree
<1>6. SumOf(f, Workers) = f[w] + SumOf(f, R) /\ SumOf(g, Workers) = g[w] + SumOf(g, R)
  BY <1>3, <1>4, SumWithout
<1>7. Shortfall(work) = SumOf(f, Workers) /\ Shortfall(work') = SumOf(g, Workers)
  BY <1>1 DEF Shortfall
<1> QED BY <1>3, <1>5, <1>6, <1>7

LEMMA NothingBehind ==
    ASSUME IsFiniteSet(Workers), work \in [Workers -> WorkType],
           \A w \in Workers : work[w].pc \notin Owing
    PROVE  Shortfall(work) = 0
<1>1. PICK f : f = [v \in Workers |-> Behind(work[v])]
  OBVIOUS
<1>2. \A v \in Workers : f[v] = 0
  BY <1>1, BehindType
<1> QED BY <1>1, <1>2, SumZero DEF Shortfall

(* Worker w moves to s, and the token stays as far behind as the accounts say. *)
Even(w, s) ==
    /\ Goto(w, s)
    /\ (tokenPaid' - paid' - lostToken') - Behind(s) = (tokenPaid - paid - lostToken) - Behind(work[w])

(* A step that moves no money owes nothing before or after it. *)
LEMMA PlainIsEven ==
    ASSUME Typed, NEW w \in Workers, NEW s \in WorkType, Goto(w, s), UNCHANGED ledger,
           work[w].pc \notin Owing, s.pc \notin Owing
    PROVE  Even(w, s)
<1>1. Behind(s) = 0 /\ Behind(work[w]) = 0
  BY BehindType DEF Typed, TypeOK
<1> QED BY <1>1 DEF Even, ledger, Typed, TypeOK

LEMMA UpdatesAreEven ==
    ASSUME Typed, NEW w \in Workers,
           \/ TimeOut(w) \/ PollPending(w) \/ PollFailure(w) \/ PollSuccess(w) \/ Fetch(w)
           \/ \E actual \in Actuals : PollSuccessSettle(w, actual)
    PROVE  \E s \in WorkType : Even(w, s)
<1>0. work[w] \in WorkType /\ work[w].quota \in Nat /\ TypeOK
  BY DEF Typed, TypeOK, WorkType
<1>1. UNCHANGED ledger /\ work[w].pc \in {"timeout", "poll", "fetch"}
  BY DEF TimeOut, PollPending, PollFailure, PollSuccess, Fetch, PollSuccessSettle, At
<1>2. ASSUME NEW s \in WorkType, s.pc \notin Owing, Goto(w, s) PROVE Even(w, s)
  BY <1>1, <1>2, PlainIsEven DEF Owing
<1>3. \A q : RefundNext(w, q) \in WorkType /\ RefundNext(w, q).pc \notin Owing
  BY <1>0, RefundNextType, IdleType DEF Owing
<1>4. Idle \in WorkType /\ Idle.pc \notin Owing
  BY IdleType DEF Owing
<1>5. ASSUME NEW st, NEW q, NEW next \in WorkType, next.pc \notin Owing, UpdateWithStatus(w, st, q, next)
      PROVE  \E s \in WorkType : Even(w, s)
  <2>1. Goto(w, next) \/ Goto(w, Idle)
    BY <1>5, UpdateCases
  <2> QED BY <1>2, <1>4, <1>5, <2>1
<1>6. ASSUME NEW actual \in Actuals, PollSuccessSettle(w, actual) PROVE \E s \in WorkType : Even(w, s)
  <2>1. PICK d \in Int : d = actual - work[w].quota
    BY <1>0, TaskAssumption
  <2>2. PICK next : next = [work[w] EXCEPT !.pc = "settleFund", !.delta = d]
    OBVIOUS
  <2>3. next \in WorkType /\ next.pc = "settleFund"
    BY <1>0, <2>2, SettlingType
  <2>4. UpdateWithStatus(w, "SUCCESS", work[w].quota, next)
    BY <1>6, <2>1, <2>2 DEF PollSuccessSettle
  <2> QED BY <1>5, <2>3, <2>4 DEF Owing
<1>7. ASSUME TimeOut(w) PROVE \E s \in WorkType : Even(w, s)
  <2>1. PICK q : UpdateWithStatus(w, "FAILURE", q, RefundNext(w, q))
    BY <1>7 DEF TimeOut
  <2> QED BY <1>3, <1>5, <2>1
<1> QED BY <1>3, <1>4, <1>5, <1>6, <1>7 DEF PollPending, PollFailure, PollSuccess, Fetch

LEMMA OthersAreEven ==
    ASSUME Typed, NEW w \in Workers,
           \/ ReadTimedOut(w) \/ ReadFailed(w) \/ ReadPoll(w) \/ ReadFetch(w)
           \/ ClearQuota(w) \/ SettleQuota(w) \/ RestoreQuotaAfterFailedRefund(w) \/ BulkFail(w)
           \/ PollNothing(w) \/ FetchNothing(w) \/ ClaimQuotaForRefund(w)
    PROVE  \E s \in WorkType : Even(w, s)
<1>0. work[w] \in WorkType /\ TypeOK
  BY DEF Typed, TypeOK
<1>1. Idle \in WorkType /\ Idle.pc \notin Owing
  BY IdleType DEF Owing
<1>2. CASE ReadTimedOut(w) \/ ReadFailed(w) \/ ReadPoll(w) \/ ReadFetch(w)
  <2>1. PICK p \in {"timeout", "claim", "poll", "fetch"} : Goto(w, Copy(p))
    BY <1>2 DEF ReadTimedOut, ReadFailed, ReadPoll, ReadFetch
  <2>2. UNCHANGED ledger /\ row.status # "NONE" /\ work[w].pc = "idle"
    BY <1>2 DEF ReadTimedOut, ReadFailed, ReadPoll, ReadFetch, At, Unfinished
  <2>3. Copy(p) \in WorkType /\ Copy(p).pc \notin Owing
    BY <1>0, CopyType DEF Steps, Owing
  <2> QED BY <2>1, <2>2, <2>3, PlainIsEven DEF Owing
<1>3. CASE \/ ClearQuota(w) \/ SettleQuota(w) \/ RestoreQuotaAfterFailedRefund(w) \/ BulkFail(w)
           \/ PollNothing(w) \/ FetchNothing(w)
  <2>1. UNCHANGED ledger /\ Goto(w, Idle) /\ work[w].pc \notin Owing /\ work[w].pc # "idle"
    BY <1>3 DEF ClearQuota, SettleQuota, RestoreQuotaAfterFailedRefund, BulkFail, PollNothing,
                FetchNothing, Finish, At, Owing
  <2> QED BY <1>1, <2>1, PlainIsEven
<1>4. CASE ClaimQuotaForRefund(w)
  <2>1. PICK t : t = [work[w] EXCEPT !.pc = "refundFund", !.claimed = TRUE]
    OBVIOUS
  <2>2. t \in WorkType /\ t.pc \notin Owing
    BY <1>0, <2>1, ClaimedType DEF Owing
  <2>3. UNCHANGED ledger /\ (Goto(w, Idle) \/ Goto(w, t)) /\ work[w].pc = "claim"
    BY <1>4, <2>1 DEF ClaimQuotaForRefund, Finish, At
  <2> QED BY <1>1, <2>2, <2>3, PlainIsEven DEF Owing
<1> QED BY <1>2, <1>3, <1>4

LEMMA ChargesAreEven ==
    ASSUME Typed, NEW w \in Workers,
           RefundFunding(w) \/ RefundToken(w) \/ SettleFunding(w) \/ SettleToken(w)
    PROVE  \E s \in WorkType : Even(w, s)
<1>0. /\ work[w] \in WorkType /\ work[w].quota \in Nat /\ work[w].delta \in Int
      /\ paid \in Int /\ tokenPaid \in Int /\ lostToken \in Int
  BY DEF Typed, TypeOK, WorkType
<1>1. ASSUME NEW p \in Steps
      PROVE  \E t \in WorkType : /\ t = [work[w] EXCEPT !.pc = p] /\ t.pc = p
                                 /\ t.quota = work[w].quota /\ t.delta = work[w].delta
  BY <1>0, AtType
<1>2. CASE RefundToken(w)
  <2>1. PICK t \in WorkType : t = [work[w] EXCEPT !.pc = "clear"] /\ t.pc = "clear"
    BY <1>1 DEF Steps
  <2>2. Behind(t) = 0 /\ Behind(work[w]) = work[w].quota /\ Goto(w, t) /\ work[w].pc = "refundToken"
    BY <1>2, <2>1 DEF Behind, RefundToken, At
  <2>3. paid' = paid /\ \/ tokenPaid' = tokenPaid - work[w].quota /\ lostToken' = lostToken
                        \/ tokenPaid' = tokenPaid /\ lostToken' = lostToken + work[w].quota
    BY <1>2 DEF RefundToken, CreditToken
  <2> QED BY <1>0, <2>2, <2>3 DEF Even
<1>3. CASE SettleToken(w)
  <2>1. PICK t \in WorkType : t = [work[w] EXCEPT !.pc = "settleQuota"] /\ t.pc = "settleQuota"
    BY <1>1 DEF Steps
  <2>2. Behind(t) = 0 /\ Behind(work[w]) = - work[w].delta /\ Goto(w, t) /\ work[w].pc = "settleToken"
    BY <1>3, <2>1 DEF Behind, SettleToken, At
  <2>3. paid' = paid /\ \/ tokenPaid' = tokenPaid - (- work[w].delta) /\ lostToken' = lostToken
                        \/ tokenPaid' = tokenPaid /\ lostToken' = lostToken + (- work[w].delta)
    BY <1>3 DEF SettleToken, CreditToken
  <2> QED BY <1>0, <2>2, <2>3 DEF Even
<1>4. ASSUME work[w].pc = "refundFund", paid' = paid - work[w].quota, UNCHANGED <<tokenPaid, lostToken>>,
             Goto(w, [work[w] EXCEPT !.pc = "refundToken"])
      PROVE  \E s \in WorkType : Even(w, s)
  <2>1. PICK t \in WorkType : /\ t = [work[w] EXCEPT !.pc = "refundToken"] /\ t.pc = "refundToken"
                              /\ t.quota = work[w].quota
    BY <1>1 DEF Steps
  <2>2. Goto(w, t) /\ Behind(t) = work[w].quota /\ Behind(work[w]) = 0
    BY <1>4, <2>1 DEF Behind
  <2> QED BY <1>0, <1>4, <2>2 DEF Even
<1>5. ASSUME work[w].pc = "settleFund", paid' = paid + work[w].delta, UNCHANGED <<tokenPaid, lostToken>>,
             Goto(w, [work[w] EXCEPT !.pc = "settleToken"])
      PROVE  \E s \in WorkType : Even(w, s)
  <2>1. PICK t \in WorkType : /\ t = [work[w] EXCEPT !.pc = "settleToken"] /\ t.pc = "settleToken"
                              /\ t.delta = work[w].delta
    BY <1>1 DEF Steps
  <2>2. Goto(w, t) /\ Behind(t) = - work[w].delta /\ Behind(work[w]) = 0
    BY <1>5, <2>1 DEF Behind
  <2> QED BY <1>0, <1>5, <2>2 DEF Even
<1>6. ASSUME work[w].pc \in {"refundFund", "settleFund"}, UNCHANGED ledger,
             Goto(w, Idle) \/ Goto(w, [work[w] EXCEPT !.pc = "restore"])
      PROVE  \E s \in WorkType : Even(w, s)
  <2>1. PICK t \in WorkType : t = [work[w] EXCEPT !.pc = "restore"] /\ t.pc = "restore"
    BY <1>1 DEF Steps
  <2>2. Idle \in WorkType /\ Idle.pc \notin Owing /\ t.pc \notin Owing
    BY <2>1, IdleType DEF Owing
  <2> QED BY <1>6, <2>1, <2>2, PlainIsEven DEF Owing
<1>7. CASE RefundFunding(w)
  BY <1>4, <1>6, <1>7 DEF RefundFunding, Finish, At, ledger
<1>8. CASE SettleFunding(w)
  BY <1>5, <1>6, <1>8 DEF SettleFunding, Finish, At, ledger
<1> QED BY <1>2, <1>3, <1>7, <1>8

(* No step of a worker that lives on changes what the accounts say. *)
LEMMA StepsAreEven ==
    ASSUME MaxCrashes = 0, Typed, NEW w \in Workers,
           ReadTimedOut(w) \/ ReadFailed(w) \/ ReadPoll(w) \/ ReadFetch(w) \/ Step(w) \/ Crash(w)
    PROVE  \E s \in WorkType : Even(w, s)
<1>1. ~ Crash(w)
  BY DEF Crash, Typed, TypeOK
<1> QED BY <1>1, UpdatesAreEven, OthersAreEven, ChargesAreEven DEF Step

LEMMA TokenWorker ==
    ASSUME MaxCrashes = 0, IsFiniteSet(Workers), Typed, Opened, TokenBook, NEW w \in Workers,
           ReadTimedOut(w) \/ ReadFailed(w) \/ ReadPoll(w) \/ ReadFetch(w) \/ Step(w) \/ Crash(w)
    PROVE  TokenBook'
<1>1. PICK s \in WorkType : Even(w, s)
  BY StepsAreEven
<1>2. PICK rest \in Int : Shortfall(work) = Behind(work[w]) + rest /\ Shortfall(work') = Behind(s) + rest
  BY <1>1, ShortfallMoves DEF Even, Typed, TypeOK
<1>3. /\ paid \in Int /\ tokenPaid \in Int /\ lostToken \in Int /\ Behind(work[w]) \in Int
      /\ Behind(s) \in Int
  BY BehindType DEF Typed, TypeOK
<1>4. paid' \in Int /\ tokenPaid' \in Int /\ lostToken' \in Int
  BY TypedNext DEF Next, Typed, TypeOK
<1>5. tokenPaid' = paid' + lostToken' + Shortfall(work')
  BY <1>1, <1>2, <1>3, <1>4 DEF Even, TokenBook
<1>6. submitted' = submitted /\ submitted
  BY WorkerKeeps, WorkerHasTask DEF Opened
<1>7. Shortfall(work)' = Shortfall(work')
  BY DEF Shortfall, Behind
<1> QED BY <1>5, <1>6, <1>7 DEF TokenBook

LEMMA TokenWorld ==
    ASSUME IsFiniteSet(Workers), Typed, Opened, TokenBook,
           (\E q \in Quotas, p \in PreQuotas : Submit(q, p)) \/ (\E s \in Finished : Upstream(s)) \/ Age \/ UNCHANGED vars
    PROVE  TokenBook'
<1>1. work' = work /\ Shortfall(work)' = Shortfall(work)
  BY DEF Submit, Upstream, Age, vars, Shortfall, Behind
<1>2. ASSUME NEW q \in Quotas, NEW p \in PreQuotas, Submit(q, p) PROVE TokenBook'
  <2>1. /\ tokenPaid' = paid' + lostToken' /\ submitted'
        /\ \A w \in Workers : work[w].pc = "idle"
    BY <1>2, TaskAssumption DEF Submit, TokenBook, Opened
  <2>2. Shortfall(work) = 0
    BY <2>1, NothingBehind DEF Typed, TypeOK, Owing
  <2>3. paid' \in Int /\ lostToken' \in Int
    BY <1>2, TaskAssumption DEF Submit, Typed, TypeOK
  <2> QED BY <1>1, <2>1, <2>2, <2>3 DEF TokenBook
<1>3. CASE (\E s \in Finished : Upstream(s)) \/ Age \/ UNCHANGED vars
  <2>1. UNCHANGED <<paid, tokenPaid, lostToken, submitted>> /\ row'.status = row.status
    BY <1>3 DEF Upstream, Age, vars, world, ledger, Typed, TypeOK
  <2> QED BY <1>1, <2>1 DEF TokenBook
<1> QED BY <1>2, <1>3

LEMMA TokenInit == IsFiniteSet(Workers) /\ Init => TokenBook
<1> SUFFICES ASSUME IsFiniteSet(Workers), Init PROVE TokenBook
  OBVIOUS
<1>1. \A w \in Workers : work[w].pc = "idle"
  BY IdleType DEF Init
<1>2. Shortfall(work) = 0
  BY <1>1, TypedInit, NothingBehind DEF Typed, TypeOK, Owing
<1> QED BY <1>1, <1>2 DEF Init, TokenBook

(* With no deaths the token is changed by what the funding source is changed by, apart
   from the adjustments that were logged as lost: also when bulk updates, user polls and
   overlapping sweeps let several workers change the charge at once. *)
THEOREM TokenIsInStep ==
    ASSUME IsFiniteSet(Workers), MaxCrashes = 0
    PROVE  Spec => []TokenFollows
<1>1. Init => Typed /\ Opened /\ TokenBook
  BY TypedInit, OpenedInit, TokenInit
<1>2. Typed /\ Opened /\ TokenBook /\ [Next]_vars => Typed' /\ Opened' /\ TokenBook'
  BY TypedNext, OpenedNext, WorkerOrWorld, TokenWorker, TokenWorld
<1>3. Typed /\ TokenBook => TokenFollows
  <2> SUFFICES ASSUME Typed, TokenBook, Quiet PROVE tokenPaid = paid + lostToken
    BY DEF TokenFollows
  <2>1. \A w \in Workers : work[w].pc \notin Owing
    BY DEF Quiet, Holds, Owing
  <2>2. Shortfall(work) = 0
    BY <2>1, NothingBehind DEF Typed, TypeOK
  <2> QED BY <2>2 DEF TokenBook, Typed, TypeOK
<1> QED BY <1>1, <1>2, <1>3, PTL DEF Spec

-----------------------------------------------------------------------------
(* The detailed specification implements the ledger *)

LEMMA LedgerInit == Init => Ledger!LInit
BY DEF Init, Ledger!LInit, Phase

(* The charge is closed by the worker that holds it, once and at an amount of the ledger,
   and again only by the claimed refund that follows one that went unmarked; no other step
   after the submission moves money. *)
LEMMA LedgerStep ==
    ASSUME Graced, Typed, Placed, Single, Books, [Next]_vars
    PROVE  [Ledger!LNext]_<<Phase, paid, unsettled, "mark" \in lapses>>
<1>1. ASSUME NEW w \in Workers,
             ReadTimedOut(w) \/ ReadFailed(w) \/ ReadPoll(w) \/ ReadFetch(w) \/ Step(w) \/ Crash(w)
      PROVE  \/ UNCHANGED <<Phase, paid, unsettled, "mark" \in lapses>>
             \/ Ledger!Close \/ Ledger!Lapse \/ Ledger!Repeat
  <2>1. submitted' = submitted
    BY <1>1, WorkerKeeps
  <2>2. Takes(w) \/ Turns(w) \/ Claims(w) \/ Charges(w) \/ Records(w) \/ Left(w)
    BY <1>1, Effects DEF Graced
  <2>3. /\ WorkerBook(work[w], row, Net, closings, Lapsed, charged) /\ CopyInv(work[w])
        /\ PlaceInv(work[w], row) /\ (row.status # "NONE" => submitted /\ charged \in Quotas)
        /\ work[w].quota \in Nat /\ work[w].delta \in Int /\ charged \in Nat
        /\ paid \in Int /\ unsettled \in Int /\ closings \in Nat
    BY DEF Books, Typed, TypeOK, WorkType, Placed
  <2>4. CASE Takes(w) \/ Turns(w) \/ Claims(w) \/ Records(w)
    BY <2>1, <2>4 DEF Takes, Turns, Turned, Claims, Records, ledger, submission, Phase
  <2>5. CASE Left(w)
    <3>1. UNCHANGED <<paid, unsettled, closings>> /\ UNCHANGED Phase
      BY <2>1, <2>5 DEF Left, ledger, submission, Phase
    <3>2. CASE ~ Unmarked(w) \/ Lapsed
      BY <2>5, <3>1, <3>2 DEF Left, Lapsed
    <3>3. CASE Unmarked(w) /\ ~ Lapsed
      <4>1. closings = 1 /\ submitted
        BY <2>3, <3>3 DEF Unmarked, WorkerBook, PlaceInv, Refunding, Settling
      <4>2. Phase = "closed" /\ ("mark" \in lapses)' = TRUE
        BY <2>5, <3>3, <4>1 DEF Left, Lapsed, Phase
      <4> QED BY <3>1, <4>2 DEF Ledger!Lapse
    <3> QED BY <3>2, <3>3
  <2>6. CASE Charges(w)
    <3>0. unsettled' = unsettled /\ lapses' = lapses
      BY <2>6 DEF Charges, submission
    <3>1. CASE /\ To(w, "refundFund", "refundToken") /\ paid' = paid - work[w].quota
               /\ closings' = closings + 1
      <4>1. /\ submitted /\ work[w].quota = charged /\ charged \in Quotas
            /\ IF Lapsed THEN Net = 0 /\ closings = 1 ELSE Net = charged /\ closings = 0
        BY <2>3, <3>1 DEF To, WorkerBook, PlaceInv, Refunding
      <4>2. CASE Lapsed
        <5>1. /\ Phase = "closed" /\ Phase' = "repeated" /\ "mark" \in lapses
              /\ paid + unsettled = 0 /\ paid' = paid - charged
          BY <2>1, <2>3, <3>1, <4>1, <4>2 DEF Phase, Lapsed, Net
        <5> QED BY <3>0, <4>1, <5>1 DEF Ledger!Repeat
      <4>3. CASE ~ Lapsed
        <5>1. Phase = "charged" /\ Phase' = "closed" /\ paid' + unsettled = 0
          BY <2>1, <2>3, <3>1, <4>1, <4>3 DEF Phase, Net
        <5> QED BY <3>0, <5>1 DEF Ledger!Close
      <4> QED BY <4>2, <4>3
    <3>2. CASE /\ To(w, "settleFund", "settleToken") /\ paid' = paid + work[w].delta
               /\ closings' = closings + 1
      <4>1. /\ submitted /\ work[w].quota = charged /\ Net = charged /\ closings = 0
            /\ work[w].quota + work[w].delta \in Actuals
        BY <2>3, <3>2 DEF To, WorkerBook, PlaceInv, CopyInv, Settling
      <4>2. paid' + unsettled = work[w].quota + work[w].delta
        BY <2>3, <3>2, <4>1 DEF Net
      <4>3. Phase = "charged" /\ Phase' = "closed"
        BY <2>1, <3>2, <4>1 DEF Phase
      <4> QED BY <3>0, <4>1, <4>2, <4>3 DEF Ledger!Close
    <3>3. CASE UNCHANGED <<paid, closings>>
      BY <2>1, <3>0, <3>3 DEF Phase
    <3> QED BY <2>6, <3>1, <3>2, <3>3 DEF Charges, ledger
  <2> QED BY <2>2, <2>4, <2>5, <2>6
<1>2. ASSUME NEW q \in Quotas, NEW p \in PreQuotas, Submit(q, p) PROVE Ledger!Charge
  <2>1. /\ Phase = "none" /\ Phase' = "charged" /\ lapses' = lapses
        /\ paid' \in Int /\ unsettled' \in Int /\ paid' + unsettled' \in Quotas
    BY <1>2, SubmitOpens DEF Phase, Books, Net
  <2> QED BY <2>1 DEF Ledger!Charge
<1>3. CASE (\E s \in Finished : Upstream(s)) \/ Age \/ UNCHANGED vars
  BY <1>3 DEF Upstream, Age, vars, world, ledger, submission, Phase
<1> QED BY <1>1, <1>2, <1>3, WorkerOrWorld DEF Ledger!LNext

(* The task is charged once when it is submitted, and the charge is changed at most once
   more: to nothing when it failed, to the amount computed when it succeeded.  Only after
   a change that never reached the row is the charge given back again, once. *)
THEOREM BillRefinesLedger ==
    ASSUME Graced
    PROVE  Spec => BilledOnce
<1>1. Typed /\ Placed /\ [Next]_vars => Placed'
  BY PlacedNext DEF Graced
<1>2. Typed /\ Placed /\ Single /\ [Next]_vars => Single'
  BY SingleNext
<1>3. Typed /\ Placed /\ Single /\ Books /\ [Next]_vars => Books'
  BY BooksNext
<1>4. Typed /\ Placed /\ Single /\ Books /\ [Next]_vars =>
         [Ledger!LNext]_<<Phase, paid, unsettled, "mark" \in lapses>>
  BY LedgerStep
<1> QED BY <1>1, <1>2, <1>3, <1>4, TypedInit, TypedNext, PlacedInit, SingleInit, BooksInit,
           LedgerInit, PTL DEF Spec, BilledOnce, Ledger!LSpec
=============================================================================
