----------------------------- MODULE TaskBilling -----------------------------
(***************************************************************************)
(* The life of one asynchronous task (Suno, video) from its submission to  *)
(* its final charge: service/task_polling.go, service/task_billing.go and  *)
(* the row operations of model/task.go.                                    *)
(*                                                                         *)
(* Workers are passes of RunTaskPollingOnce on any node and requests of    *)
(* users that poll the task themselves (tryRealtimeFetch).  A worker works *)
(* on a COPY of the row read earlier; every read and every write of the    *)
(* row, of the funding source and of the token is an action of its own.    *)
(* Tasks do not share state apart from the balances, which only take       *)
(* increments, so one task is modelled and paid is what it cost its user.  *)
(***************************************************************************)
EXTENDS Integers

CONSTANTS
    Workers,         \* concurrent polling passes and user polls
    Quotas,          \* what a submission may cost, result.Quota
    PreQuotas,       \* what may have been pre-consumed for it
    Actuals,         \* what settlement may compute, positive
    Usages,          \* whether the adaptor reports usage, from which settlement computes
    MaxFetches,      \* bound: polls by the user, of Gemini and Vertex, which report none
    ChannelMayVanish,\* CacheGetChannel may fail, or the upstream id be empty
    GraceHolds,      \* an immediate refund takes less than the grace period
    FaultyWrites,    \* kinds of write that may fail
    MaxFaults,       \* bound: failed writes per behaviour
    MaxCrashes       \* bound: workers that die per behaviour

ASSUME TaskAssumption ==
    /\ Quotas \subseteq Nat /\ PreQuotas \subseteq Nat
    /\ Actuals \subseteq Nat \ {0}
    /\ Usages \subseteq BOOLEAN /\ MaxFetches \in Nat
    /\ ChannelMayVanish \in BOOLEAN /\ GraceHolds \in BOOLEAN
    /\ FaultyWrites \subseteq {"row", "fund", "token", "marker", "restore"}
    /\ MaxFaults \in Nat /\ MaxCrashes \in Nat

VARIABLES
    row,        \* the tasks row: status, quota and whether updated_at is recent
    legacy,     \* submitted before TaskRefundLegacyCutoff
    upstream,   \* what the provider knows of the task
    usage,      \* the adaptor of the task's channel reports usage
    work,       \* per worker: where it stands and its copy of the row
    submitted,  \* RelayTask accepted the task and charged for it
    paid,       \* history: net charge of the funding source
    tokenPaid,  \* history: net charge of the token
    lostToken,  \* history: token adjustments that failed
    charged,    \* history: result.Quota, the charge the row records
    unsettled,  \* history: the part of it SettleBilling failed to charge
    closings,   \* history: adjustments of the charge after the submission
    lapses,     \* history: "mark", a change of the charge the row was never told of,
                \* "restore", a claimed marker that was lost with no refund
    faults,     \* how often each bounded event has happened
    fetches,
    crashes

vars == <<row, legacy, upstream, usage, work, submitted, paid, tokenPaid, lostToken,
          charged, unsettled, closings, lapses, faults, fetches, crashes>>
submission == <<charged, unsettled>>
ledger == <<paid, tokenPaid, lostToken, submission, closings>>
world == <<legacy, upstream, usage, submitted, fetches, crashes>>

Unfinished == {"NOT_START", "IN_PROGRESS"}
Finished == {"SUCCESS", "FAILURE"}
Status == {"NONE"} \cup Unfinished \cup Finished

Steps == {"idle", "timeout", "claim", "poll", "fetch", "refundFund", "refundToken", "clear",
          "restore", "settleFund", "settleToken", "settleQuota"}

Idle == [pc |-> "idle", status |-> "NONE", quota |-> 0, claimed |-> FALSE, delta |-> 0]

Init ==
    /\ row = [status |-> "NONE", quota |-> 0, fresh |-> FALSE]
    /\ legacy \in BOOLEAN
    /\ upstream = "IN_PROGRESS"
    /\ usage \in Usages
    /\ work = [w \in Workers |-> Idle]
    /\ submitted = FALSE
    /\ paid = 0 /\ tokenPaid = 0 /\ lostToken = 0
    /\ charged = 0 /\ unsettled = 0 /\ closings = 0 /\ lapses = {}
    /\ faults = 0 /\ fetches = 0 /\ crashes = 0

-----------------------------------------------------------------------------
At(w, p) == work[w].pc = p

Goto(w, s) == work' = [work EXCEPT ![w] = s]

Finish(w) == Goto(w, Idle)

(* A copy of the row, as a SELECT returns it. *)
Copy(p) == [pc |-> p, status |-> row.status, quota |-> row.quota, claimed |-> FALSE, delta |-> 0]

(* The database refuses a write of this kind. *)
Fault(kind) == /\ kind \in FaultyWrites /\ faults < MaxFaults
               /\ faults' = faults + 1

(* Every write of the row also moves updated_at. *)
Written(status, quota) == [status |-> status, quota |-> quota, fresh |-> TRUE]

(* Mutant: the status predicate of the update is lost. *)
UpdateWithStatus_NoGuard(w, status, quota, next) ==
    /\ row' = Written(status, quota)
    /\ Goto(w, next)
    /\ UNCHANGED faults

(* UpdateWithStatus: the whole row, the quota column included, becomes what worker
   w made of its copy, if the status is still the one that was read, and the worker
   goes on to next; otherwise, or when the write fails, it is done with the task. *)
UpdateWithStatus(w, status, quota, next) ==
    \/ /\ row.status = work[w].status
       /\ row' = Written(status, quota)
       /\ Goto(w, next)
       /\ UNCHANGED faults
    \/ /\ row.status # work[w].status
       /\ Finish(w) /\ UNCHANGED <<row, faults>>
    \/ Fault("row") /\ Finish(w) /\ UNCHANGED row

(* What follows a won transition to FAILURE: RefundTaskQuota, empty for quota 0. *)
RefundNext(w, q) ==
    IF q # 0 THEN [work[w] EXCEPT !.pc = "refundFund"] ELSE Idle

-----------------------------------------------------------------------------
(* Submission *)

(* RelayTask after the upstream accepted, with pre pre-consumed: SettleBilling
   moves the charge to q.  When the funding source refuses or fails, or only the
   token's write fails, the error is logged.  The row is inserted with q in any
   case; a failed insert is logged too and the charge stays. *)
Submit(q, pre) ==
    /\ ~ submitted
    /\ submitted' = TRUE
    /\ charged' = q
    /\ \/ paid' = q /\ tokenPaid' = q /\ unsettled' = 0 /\ UNCHANGED lostToken
       \/ paid' = pre /\ tokenPaid' = pre /\ unsettled' = q - pre /\ UNCHANGED lostToken
       \/ paid' = q /\ tokenPaid' = pre /\ unsettled' = 0 /\ lostToken' = pre - q
    /\ \/ row' = Written("NOT_START", q) /\ UNCHANGED faults
       \/ Fault("row") /\ UNCHANGED row
    /\ UNCHANGED <<legacy, upstream, usage, fetches, crashes, work, closings, lapses>>

(* The provider finishes the task. *)
Upstream(s) ==
    /\ upstream = "IN_PROGRESS" /\ s \in Finished
    /\ upstream' = s
    /\ UNCHANGED <<row, legacy, usage, submitted, work, ledger, faults, fetches, crashes, lapses>>

(* Thirty seconds pass since the last write of the row. *)
Age ==
    /\ row.fresh
    /\ GraceHolds => \A w \in Workers :
          work[w].pc \in {"refundFund", "refundToken", "clear"} => work[w].claimed
    /\ row' = [row EXCEPT !.fresh = FALSE]
    /\ UNCHANGED <<world, work, ledger, faults, lapses>>

-----------------------------------------------------------------------------
(* RefundTaskQuota, reached with work[w].quota # 0 *)

(* taskAdjustFunding; on an error the marker stays, or a claimed one is restored. *)
RefundFunding(w) ==
    /\ At(w, "refundFund")
    /\ \/ /\ paid' = paid - work[w].quota
          /\ closings' = closings + 1
          /\ Goto(w, [work[w] EXCEPT !.pc = "refundToken"])
          /\ UNCHANGED faults
       \/ /\ Fault("fund")
          /\ IF work[w].claimed THEN Goto(w, [work[w] EXCEPT !.pc = "restore"]) ELSE Finish(w)
          /\ UNCHANGED <<paid, closings>>
    /\ UNCHANGED <<row, world, tokenPaid, lostToken, submission, lapses>>

(* taskAdjustTokenQuota by -d; a failure is only logged. *)
CreditToken(d) ==
    \/ tokenPaid' = tokenPaid - d /\ UNCHANGED <<lostToken, faults>>
    \/ Fault("token") /\ lostToken' = lostToken + d /\ UNCHANGED tokenPaid

RefundToken(w) ==
    /\ At(w, "refundToken")
    /\ CreditToken(work[w].quota)
    /\ Goto(w, [work[w] EXCEPT !.pc = "clear"])
    /\ UNCHANGED <<row, world, paid, submission, closings, lapses>>

(* Mutant: the marker is not cleared after the refund. *)
ClearQuota_Forgotten(w) ==
    /\ At(w, "clear")
    /\ Finish(w)
    /\ UNCHANGED <<row, world, ledger, faults, lapses>>

(* The write of the row that a change of the charge depends on did not happen. *)
Lapse(kind, b) == lapses' = IF b THEN lapses \cup {kind} ELSE lapses

(* task.Quota = 0; UpdateQuota by primary key.  A claim has cleared the column
   before. *)
ClearQuota(w) ==
    /\ At(w, "clear")
    /\ Finish(w)
    /\ \/ row' = Written(row.status, 0) /\ UNCHANGED <<faults, lapses>>
       \/ Fault("marker") /\ Lapse("mark", ~ work[w].claimed) /\ UNCHANGED row
    /\ UNCHANGED <<world, ledger>>

-----------------------------------------------------------------------------
(* sweepTimedOutTasks *)

(* Mutant: only tasks in progress can time out. *)
ReadTimedOut_OnlyStarted(w) ==
    /\ At(w, "idle") /\ row.status = "IN_PROGRESS"
    /\ Goto(w, Copy("timeout"))
    /\ UNCHANGED <<row, world, ledger, faults, lapses>>

(* GetTimedOutUnfinishedTasks; any unfinished task may be old enough. *)
ReadTimedOut(w) ==
    /\ At(w, "idle") /\ row.status \in Unfinished
    /\ Goto(w, Copy("timeout"))
    /\ UNCHANGED <<row, world, ledger, faults, lapses>>

(* A task from before the cutoff gives up its quota and is not refunded. *)
TimeOut(w) ==
    /\ At(w, "timeout")
    /\ LET q == IF legacy THEN 0 ELSE work[w].quota
       IN  UpdateWithStatus(w, "FAILURE", q, RefundNext(w, q))
    /\ UNCHANGED <<world, ledger, lapses>>

-----------------------------------------------------------------------------
(* sweepUnrefundedFailedTasks *)

(* Mutant: the reconciliation does not wait for the grace period. *)
ReadFailed_NoGrace(w) ==
    /\ At(w, "idle")
    /\ row.status = "FAILURE" /\ row.quota # 0 /\ ~ legacy
    /\ Goto(w, Copy("claim"))
    /\ UNCHANGED <<row, world, ledger, faults, lapses>>

(* GetUnrefundedFailedTasks *)
ReadFailed(w) ==
    /\ At(w, "idle")
    /\ row.status = "FAILURE" /\ row.quota # 0 /\ ~ row.fresh /\ ~ legacy
    /\ Goto(w, Copy("claim"))
    /\ UNCHANGED <<row, world, ledger, faults, lapses>>

(* Mutant: the claim does not compare the quota it read. *)
ClaimQuotaForRefund_Blind(w) ==
    /\ At(w, "claim")
    /\ row' = Written(row.status, 0)
    /\ Goto(w, [work[w] EXCEPT !.pc = "refundFund", !.claimed = TRUE])
    /\ UNCHANGED <<world, ledger, faults, lapses>>

(* The quota column, not the status, is compared and cleared. *)
ClaimQuotaForRefund(w) ==
    /\ At(w, "claim")
    /\ \/ /\ row.quota = work[w].quota
          /\ row' = Written(row.status, 0)
          /\ Goto(w, [work[w] EXCEPT !.pc = "refundFund", !.claimed = TRUE])
          /\ UNCHANGED faults
       \/ /\ row.quota # work[w].quota
          /\ Finish(w) /\ UNCHANGED <<row, faults>>
       \/ Fault("row") /\ Finish(w) /\ UNCHANGED row
    /\ UNCHANGED <<world, ledger, lapses>>

(* Mutant: the marker is not put back after a failed refund. *)
RestoreQuotaAfterFailedRefund_Skipped(w) ==
    /\ At(w, "restore")
    /\ Finish(w)
    /\ UNCHANGED <<row, world, ledger, faults, lapses>>

RestoreQuotaAfterFailedRefund(w) ==
    /\ At(w, "restore")
    /\ Finish(w)
    /\ \/ row.quota = 0 /\ row' = Written(row.status, work[w].quota) /\ UNCHANGED <<faults, lapses>>
       \/ row.quota # 0 /\ UNCHANGED <<row, faults, lapses>>
       \/ Fault("restore") /\ Lapse("restore", TRUE) /\ UNCHANGED row
    /\ UNCHANGED <<world, ledger>>

-----------------------------------------------------------------------------
(* updateSunoTasks and updateVideoSingleTask *)

(* GetAllUnFinishSyncTasks *)
ReadPoll(w) ==
    /\ At(w, "idle") /\ row.status \in Unfinished
    /\ Goto(w, Copy("poll"))
    /\ UNCHANGED <<row, world, ledger, faults, lapses>>

(* The fetch fails, is throttled, cannot be parsed or shows nothing new. *)
PollNothing(w) ==
    /\ At(w, "poll")
    /\ Finish(w)
    /\ UNCHANGED <<row, world, ledger, faults, lapses>>

PollPending(w) ==
    /\ At(w, "poll") /\ upstream = "IN_PROGRESS"
    /\ UpdateWithStatus(w, "IN_PROGRESS", work[w].quota, Idle)
    /\ UNCHANGED <<world, ledger, lapses>>

(* The task failed, or the provider answered the query with an error body. *)
PollFailure(w) ==
    /\ At(w, "poll")
    /\ UpdateWithStatus(w, "FAILURE", work[w].quota, RefundNext(w, work[w].quota))
    /\ UNCHANGED <<world, ledger, lapses>>

(* settleTaskBillingOnComplete computes no amount, or the one already charged. *)
PollSuccess(w) ==
    /\ At(w, "poll") /\ upstream = "SUCCESS"
    /\ UpdateWithStatus(w, "SUCCESS", work[w].quota, Idle)
    /\ UNCHANGED <<world, ledger, lapses>>

PollSuccessSettle(w, actual) ==
    /\ usage
    /\ At(w, "poll") /\ upstream = "SUCCESS"
    /\ actual # work[w].quota
    /\ UpdateWithStatus(w, "SUCCESS", work[w].quota,
                        [work[w] EXCEPT !.pc = "settleFund", !.delta = actual - work[w].quota])
    /\ UNCHANGED <<world, ledger, lapses>>

(* TaskBulkUpdateByID with status FAILURE, for an empty upstream id or a channel
   that is gone: unconditional, and the quota column is left for the sweep. *)
BulkFail(w) ==
    /\ ChannelMayVanish
    /\ At(w, "poll")
    /\ Finish(w)
    /\ \/ row' = Written("FAILURE", row.quota) /\ UNCHANGED faults
       \/ Fault("row") /\ UNCHANGED row
    /\ UNCHANGED <<world, ledger, lapses>>

-----------------------------------------------------------------------------
(* RecalculateTaskQuota, reached with a non-zero difference *)

SettleFunding(w) ==
    /\ At(w, "settleFund")
    /\ \/ /\ paid' = paid + work[w].delta
          /\ closings' = closings + 1
          /\ Goto(w, [work[w] EXCEPT !.pc = "settleToken"])
          /\ UNCHANGED faults
       \/ Fault("fund") /\ Finish(w) /\ UNCHANGED <<paid, closings>>
    /\ UNCHANGED <<row, world, tokenPaid, lostToken, submission, lapses>>

(* Mutant: the token is adjusted in the wrong direction. *)
SettleToken_Reversed(w) ==
    /\ At(w, "settleToken")
    /\ CreditToken(work[w].delta)
    /\ Goto(w, [work[w] EXCEPT !.pc = "settleQuota"])
    /\ UNCHANGED <<row, world, paid, submission, closings, lapses>>

SettleToken(w) ==
    /\ At(w, "settleToken")
    /\ CreditToken(- work[w].delta)
    /\ Goto(w, [work[w] EXCEPT !.pc = "settleQuota"])
    /\ UNCHANGED <<row, world, paid, submission, closings, lapses>>

(* Mutant: the difference is recorded instead of the amount. *)
SettleQuota_Difference(w) ==
    /\ At(w, "settleQuota")
    /\ Finish(w)
    /\ row' = Written(row.status, work[w].delta)
    /\ UNCHANGED <<world, ledger, faults, lapses>>

(* task.Quota = actualQuota; UpdateQuota by primary key. *)
SettleQuota(w) ==
    /\ At(w, "settleQuota")
    /\ Finish(w)
    /\ \/ row' = Written(row.status, work[w].quota + work[w].delta) /\ UNCHANGED <<faults, lapses>>
       \/ Fault("marker") /\ Lapse("mark", TRUE) /\ UNCHANGED row
    /\ UNCHANGED <<world, ledger>>

-----------------------------------------------------------------------------
(* tryRealtimeFetch: the user's own request polls the provider *)

ReadFetch(w) ==
    /\ ~ usage
    /\ fetches < MaxFetches
    /\ fetches' = fetches + 1
    /\ At(w, "idle") /\ row.status # "NONE"
    /\ Goto(w, Copy("fetch"))
    /\ UNCHANGED <<row, legacy, upstream, usage, submitted, ledger, faults, crashes, lapses>>

FetchNothing(w) ==
    /\ At(w, "fetch")
    /\ Finish(w)
    /\ UNCHANGED <<row, world, ledger, faults, lapses>>

(* Whatever status was read, the provider's replaces it; nothing is billed. *)
Fetch(w) ==
    /\ At(w, "fetch")
    /\ work[w].status \in Finished => upstream # work[w].status
    /\ UpdateWithStatus(w, upstream, work[w].quota, Idle)
    /\ UNCHANGED <<world, ledger, lapses>>

-----------------------------------------------------------------------------
(* The money has moved but the row does not say so yet. *)
Unmarked(w) ==
    \/ work[w].pc \in {"settleToken", "settleQuota"}
    \/ work[w].pc \in {"refundToken", "clear"} /\ ~ work[w].claimed

(* The row says the task was refunded but the money has not moved. *)
Unrefunded(w) == work[w].pc \in {"refundFund", "restore"} /\ work[w].claimed

(* The process of a worker dies and its goroutine's state is lost. *)
Crash(w) ==
    /\ crashes < MaxCrashes
    /\ ~ At(w, "idle")
    /\ crashes' = crashes + 1
    /\ Finish(w)
    /\ lapses' = lapses \cup (IF Unmarked(w) THEN {"mark"} ELSE {})
                        \cup (IF Unrefunded(w) THEN {"restore"} ELSE {})
    /\ UNCHANGED <<row, legacy, upstream, usage, submitted, ledger, faults, fetches>>

(* What a worker does with the copy it holds. *)
Step(w) ==
    \/ TimeOut(w) \/ ClaimQuotaForRefund(w) \/ RestoreQuotaAfterFailedRefund(w)
    \/ PollNothing(w) \/ PollPending(w) \/ PollFailure(w) \/ PollSuccess(w)
    \/ \E actual \in Actuals : PollSuccessSettle(w, actual)
    \/ BulkFail(w)
    \/ RefundFunding(w) \/ RefundToken(w) \/ ClearQuota(w)
    \/ SettleFunding(w) \/ SettleToken(w) \/ SettleQuota(w)
    \/ FetchNothing(w) \/ Fetch(w)

Next ==
    \/ \E q \in Quotas, p \in PreQuotas : Submit(q, p)
    \/ \E s \in Finished : Upstream(s)
    \/ Age
    \/ \E w \in Workers :
          ReadTimedOut(w) \/ ReadFailed(w) \/ ReadPoll(w) \/ ReadFetch(w) \/ Step(w) \/ Crash(w)

Spec == Init /\ [][Next]_vars

(* A worker that holds a copy goes on; every pass makes both sweeps before it
   polls, so on some node neither is passed over for ever; time passes. *)
Fairness ==
    /\ WF_vars(Age)
    /\ \A w \in Workers : WF_vars(Step(w))
    /\ SF_vars(\E w \in Workers : ReadTimedOut(w))
    /\ SF_vars(\E w \in Workers : ReadFailed(w))

LiveSpec == Spec /\ Fairness

-----------------------------------------------------------------------------
WorkType == [pc : Steps, status : Status, quota : Nat, claimed : BOOLEAN, delta : Int]

TypeOK ==
    /\ row \in [status : Status, quota : Nat, fresh : BOOLEAN]
    /\ legacy \in BOOLEAN
    /\ upstream \in {"IN_PROGRESS"} \cup Finished /\ usage \in Usages
    /\ work \in [Workers -> WorkType]
    /\ submitted \in BOOLEAN
    /\ paid \in Int /\ tokenPaid \in Int /\ lostToken \in Int
    /\ charged \in Nat /\ unsettled \in Int /\ lapses \subseteq {"mark", "restore"}
    /\ closings \in Nat /\ faults \in Nat /\ fetches \in Nat /\ crashes \in Nat

(* A worker that has won the right to change the charge of the task. *)
Holds(w) == work[w].pc \in {"refundFund", "refundToken", "clear", "restore",
                            "settleFund", "settleToken", "settleQuota"}

Quiet == \A w \in Workers : ~ Holds(w)

(* RefundTaskQuota and RecalculateTaskQuota run at most once at a time for a task:
   winning the transition or the claim excludes every other pass and sweep. *)
OneHolder == \A v, w \in Workers : Holds(v) /\ Holds(w) => v = w

(* Between refunds and settlements the quota column is what the user has paid, but
   for what SettleBilling failed to charge at the submission, so that a sweep that
   finds it gives back what the row was charged with, and that once.  It holds until
   a write of the marker is lost, by a failure or because its worker died.  A legacy
   task may have given up its marker in a timeout; a task whose row was never
   inserted has none. *)
MarkerExact ==
    Quiet /\ lapses = {} /\ row.status # "NONE" =>
        IF legacy THEN row.quota \in {0, paid + unsettled} ELSE row.quota = paid + unsettled

(* The token follows the funding source in every adjustment, apart from those that
   were logged as lost. *)
TokenFollows == Quiet => tokenPaid = paid + lostToken

(* However sweeps overlap, fail or die, the user gets back no more than the charge
   the row records, as long as no refund went unmarked (task_billing.go:197); one
   that did is repeated at most once, because the reconciliation clears the marker
   before it refunds.  What SettleBilling failed to charge, RelayTask records all
   the same: a refund gives that back too. *)
NeverOverRefunded == paid + unsettled >= IF "mark" \in lapses THEN -charged ELSE 0

(* Only two writes take a task out of SUCCESS or FAILURE: the bulk update of a task
   whose channel is gone, to FAILURE with the charge as it is, and a user poll that
   read the finished row, to the status of the provider.  Neither bills anything, and
   no pass or sweep does it with the status it read before another one decided. *)
TerminalGuarded ==
    [][row.status \in Finished /\ row'.status # row.status =>
         /\ UNCHANGED ledger
         /\ \E w \in Workers :
               /\ work'[w] = Idle
               /\ \/ At(w, "poll") /\ row' = Written("FAILURE", row.quota)
                  \/ At(w, "fetch") /\ work[w].status = row.status /\ row'.status = upstream]_vars

(* A failed task is refunded in the end, whatever writes failed on the way and
   whichever worker died, unless a claimed marker was lost before the refund. *)
RefundCompletes ==
    (row.status = "FAILURE" /\ ~ legacy) ~>
        ("restore" \in lapses \/ (row.status = "FAILURE" => paid + unsettled <= 0))

(* Every inserted task is finished in the end, by the provider or by the timeout. *)
TaskFinishes == (row.status # "NONE") ~> (row.status \in Finished)

Phase == IF ~ submitted THEN "none" ELSE IF closings = 0 THEN "charged"
         ELSE IF closings = 1 THEN "closed" ELSE "repeated"

(* The abstract bill of the task: charged once, changed at most once more, and
   refunded again at most once if the row was not told of the change. *)
Ledger == INSTANCE TaskLedger WITH
    phase <- Phase,
    amount <- paid,
    gap <- unsettled,
    lapsed <- "mark" \in lapses

BilledOnce == Ledger!LSpec
=============================================================================
