--------------------------- MODULE BillingSession ---------------------------
(***************************************************************************)
(* The billing life cycle of relay requests: pre-consume, reserve, settle, *)
(* refund (service/billing_session.go, service/funding_source.go).         *)
(*                                                                         *)
(* Several requests of ONE user run concurrently.  They share the user's   *)
(* wallet, one API token and one subscription, all rows of the database.   *)
(* Every access to a shared row is an action of its own, so reads used     *)
(* after other requests have written are part of the model.  Any write may *)
(* fail (at most MaxFaults times in a behaviour) and the process may crash *)
(* at any moment.  The deployment modelled here has no Redis and no batch  *)
(* updates, so a quota read or write goes straight to the database row.    *)
(***************************************************************************)
EXTENDS Integers

CONSTANTS
    Requests,        \* the concurrent requests
    Profiles,        \* what a request may look like, see ProfileType
    PreQuotas,       \* estimates priceData.QuotaToPreConsume
    ActualQuotas,    \* amounts the finished request really consumed
    ReserveTargets,  \* targets Reserve is called with
    WalletInit,      \* the user's quota when the model starts
    TokenInit,       \* the token's remain_quota when the model starts
    SubTotal,        \* amount_total of the subscription, 0 = unlimited
    TrustQuota,      \* common.GetTrustQuota(), 0 or less disables trust
    MaxReserves,     \* bound: Reserve calls per request
    MaxFaults        \* bound: failed database writes per behaviour

Prefs == {"subscription_only", "wallet_only", "wallet_first", "subscription_first"}

ProfileType == [pref : Prefs, playground : BOOLEAN, unlimited : BOOLEAN, force : BOOLEAN]

ASSUME BillingAssumption ==
    /\ Profiles \subseteq ProfileType
    /\ PreQuotas \subseteq Nat
    /\ ActualQuotas \subseteq Nat
    /\ ReserveTargets \subseteq Nat
    /\ WalletInit \in Int
    /\ TokenInit \in Int
    /\ SubTotal \in Nat
    /\ TrustQuota \in Int
    /\ MaxReserves \in Nat
    /\ MaxFaults \in Nat

VARIABLES
    wallet,     \* users.quota
    token,      \* tokens.remain_quota
    subUsed,    \* user_subscriptions.amount_used
    subActive,  \* user_subscriptions.status = "active" and not past end_time
    allowOverflow,  \* user_subscriptions.allow_wallet_overflow
    sess,       \* per request: the BillingSession and where its handler stands
    paid,       \* history: net amount taken from each row for the request; a
                \* credit counts in full, also where amount_used stops at 0
    lost,       \* history: credits (+) and debits (-) of the request that failed
    faults      \* number of database writes that failed so far

vars == <<wallet, token, subUsed, subActive, allowOverflow, sess, paid, lost, faults>>
subRow == <<subActive, allowOverflow>>
stores == <<wallet, token, subUsed, subRow>>
history == <<paid, lost, faults>>

(* Where the request handler stands.                                       *)
PC == {"idle", "hasSub", "overflow", "wallet", "preToken", "decToken", "preFund",
       "rollback", "ready", "resToken", "resDec", "resRollback", "setToken",
       "rejected", "done", "settleFailed", "crashed"}

(* Where the goroutine started by Refund stands.                           *)
BG == {"none", "fund", "extra", "token"}

SessionType ==
    [pc : PC, bg : BG,
     prof : ProfileType,
     asked : Nat,            \* preConsumedQuota, the estimate
     tokenQuota : Int,       \* context "token_quota", read by the auth middleware
     source : {"none", "wallet", "subscription"},
     amount : Int,           \* effectiveQuota, or the delta in progress
     preConsumed : Nat,      \* BillingSession.preConsumedQuota
     tokenConsumed : Nat,
     extraReserved : Nat,
     consumed : Nat,         \* WalletFunding.consumed, SubscriptionFunding.preConsumed
     trusted : BOOLEAN,
     fundingSettled : BOOLEAN,
     settled : BOOLEAN,
     refunded : BOOLEAN,
     err : {"none", "insufficient", "other"},
     actual : Nat,           \* the argument of Settle
     attempt : 0..2,         \* i of refundWithRetry
     returned : 0..3,        \* history: refunds of the pre-charge that committed
     unmarked : 0..3,        \* history: of these, the ones that reported an error
     reserves : 0..MaxReserves]

(* maxAttempts of refundWithRetry *)
MaxAttempts == 3

Terminal == {"rejected", "done", "settleFailed", "crashed"}

-----------------------------------------------------------------------------
(* Helpers *)

(* PostConsumeUserSubscriptionDelta: the row after adding d, or the refusal
   when the total would be exceeded. *)
NewUsed(d) == IF subUsed + d < 0 THEN 0 ELSE subUsed + d

(* Mutant: the limit is compared with the amount instead of the new usage. *)
SubAccepts_AmountOnly(d) == SubTotal = 0 \/ d <= SubTotal
SubAccepts(d) == SubTotal = 0 \/ NewUsed(d) <= SubTotal

(* shouldTrust for a wallet session that has just read the quota q. *)
ShouldTrust(s, q) ==
    /\ ~s.prof.force
    /\ TrustQuota > 0
    /\ s.prof.unlimited \/ s.tokenQuota > TrustQuota
    /\ q > TrustQuota

(* needsRefundLocked *)
NeedsRefund(s) ==
    /\ ~s.settled /\ ~s.refunded /\ ~s.fundingSettled
    /\ \/ s.tokenConsumed > 0
       \/ s.source = "subscription" /\ s.consumed > 0

(* The session trySubscription builds: at least one unit, never trusted. *)
SubscriptionSession(s) ==
    [s EXCEPT !.source = "subscription", !.err = "none",
              !.amount = IF s.asked <= 0 THEN 1 ELSE s.asked,
              !.pc = "preToken"]

(* The session tryWallet builds after reading the quota q. *)
WalletSession(s, q) ==
    LET trust == ShouldTrust(s, q)
        eff == IF trust THEN 0 ELSE s.asked
    IN [s EXCEPT !.source = "wallet", !.err = "none", !.trusted = trust,
                 !.amount = eff,
                 !.pc = IF eff > 0 THEN "preToken" ELSE "preFund"]

(* Mutant: a subscription that refuses is tried again until it accepts. *)
AfterFailedPreConsume_TriesAgain(s, e) ==
    IF e = "insufficient" THEN SubscriptionSession([s EXCEPT !.tokenConsumed = 0])
    ELSE [s EXCEPT !.tokenConsumed = 0, !.source = "none", !.amount = 0, !.err = e, !.pc = "rejected"]

(* What NewBillingSession does when preConsume returned an error. *)
AfterFailedPreConsume(s, e) ==
    [s EXCEPT !.tokenConsumed = 0, !.source = "none", !.amount = 0, !.err = e,
              !.pc = IF e = "insufficient" /\ s.prof.pref = "subscription_first"
                     THEN "overflow" ELSE "rejected"]

Free == [pc |-> "idle", bg |-> "none",
         prof |-> [pref |-> "wallet_only", playground |-> FALSE,
                   unlimited |-> FALSE, force |-> FALSE],
         asked |-> 0, tokenQuota |-> 0, source |-> "none", amount |-> 0,
         preConsumed |-> 0, tokenConsumed |-> 0, extraReserved |-> 0,
         consumed |-> 0, trusted |-> FALSE, fundingSettled |-> FALSE,
         settled |-> FALSE, refunded |-> FALSE, err |-> "none",
         actual |-> 0, attempt |-> 0, returned |-> 0, unmarked |-> 0,
         reserves |-> 0]

Init ==
    /\ wallet = WalletInit
    /\ token = TokenInit
    /\ subUsed = 0
    /\ subActive \in BOOLEAN
    /\ allowOverflow \in BOOLEAN
    /\ sess = [r \in Requests |-> Free]
    /\ paid = [r \in Requests |-> [wallet |-> 0, sub |-> 0, token |-> 0]]
    /\ lost = [r \in Requests |-> [fund |-> 0, token |-> 0]]
    /\ faults = 0

(* The token row moves by -d on behalf of request r. *)
DebitToken(r, d) ==
    /\ token' = token - d
    /\ paid' = [paid EXCEPT ![r].token = @ + d]
    /\ UNCHANGED <<wallet, subUsed, subRow, lost, faults>>

(* The funding source of request r is charged d, a credit when d < 0.  The wallet
   takes anything, the subscription checks its total. *)
ChargeFunding(r, d) ==
    /\ \/ /\ sess[r].source = "wallet"
          /\ wallet' = wallet - d
          /\ paid' = [paid EXCEPT ![r].wallet = @ + d]
          /\ UNCHANGED subUsed
       \/ /\ sess[r].source = "subscription" /\ SubAccepts(d)
          /\ subUsed' = NewUsed(d)
          /\ paid' = [paid EXCEPT ![r].sub = @ + d]
          /\ UNCHANGED wallet
    /\ UNCHANGED <<token, subRow, lost>>

DebitFunding(r, d) == ChargeFunding(r, d) /\ UNCHANGED faults

(* The charge commits, but the call returns an error. *)
UnreportedCharge(r, d) == ChargeFunding(r, d) /\ faults < MaxFaults /\ faults' = faults + 1

Refused(r, d) == sess[r].source = "subscription" /\ ~SubAccepts(d)

(* A write on behalf of r fails; f and t are what the funding source and the
   token should have been credited and were not. *)
FailedWrite(r, f, t) ==
    /\ faults < MaxFaults
    /\ faults' = faults + 1
    /\ lost' = [lost EXCEPT ![r] = [fund |-> @.fund + f, token |-> @.token + t]]
    /\ UNCHANGED <<stores, paid>>

At(r, p) == sess[r].pc = p

Become(r, s) == sess' = [sess EXCEPT ![r] = s]

-----------------------------------------------------------------------------
(* NewBillingSession *)

(* PreConsumeBilling is called: the auth middleware read the token row, the
   price estimate is known and the user's preference picks the first try. *)
Start(r, p, q) ==
    /\ At(r, "idle")
    /\ LET s == [sess[r] EXCEPT !.prof = p, !.asked = q, !.tokenQuota = token]
       IN Become(r, CASE p.pref = "subscription_only" -> SubscriptionSession(s)
                      [] p.pref \in {"wallet_only", "wallet_first"} -> [s EXCEPT !.pc = "wallet"]
                      [] OTHER -> [s EXCEPT !.pc = "hasSub"])
    /\ UNCHANGED <<stores, history>>

(* HasActiveUserSubscription *)
HasActive(r) ==
    /\ At(r, "hasSub")
    /\ Become(r, IF subActive THEN SubscriptionSession(sess[r])
                 ELSE [sess[r] EXCEPT !.pc = "wallet"])
    /\ UNCHANGED <<stores, history>>

(* Mutant: an exhausted subscription always falls back to the wallet. *)
CheckOverflow_Ignored(r) ==
    /\ At(r, "overflow")
    /\ Become(r, [sess[r] EXCEPT !.pc = "wallet"])
    /\ UNCHANGED <<stores, history>>

(* UserActiveSubscriptionsAllowWalletOverflow after the subscription refused. *)
CheckOverflow(r) ==
    /\ At(r, "overflow")
    /\ Become(r, [sess[r] EXCEPT !.pc = IF subActive => allowOverflow
                                        THEN "wallet" ELSE "rejected"])
    /\ UNCHANGED <<stores, history>>

(* tryWallet up to preConsume: read the quota, compare it with the estimate. *)
TryWallet(r) ==
    /\ At(r, "wallet")
    /\ LET s == sess[r] IN
       Become(r, IF wallet > 0 /\ wallet - s.asked >= 0 THEN WalletSession(s, wallet)
                 ELSE IF s.prof.pref = "wallet_first" THEN SubscriptionSession(s)
                 ELSE [s EXCEPT !.pc = "rejected", !.err = "insufficient"])
    /\ UNCHANGED <<stores, history>>

(* PreConsumeTokenQuota, the read and the check; the write comes later. *)
PreConsumeToken(r) ==
    /\ At(r, "preToken")
    /\ LET s == sess[r] IN
       Become(r, IF s.prof.playground
                 THEN [s EXCEPT !.pc = "preFund", !.tokenConsumed = s.amount]
                 ELSE IF ~s.prof.unlimited /\ token < s.amount
                 THEN AfterFailedPreConsume(s, "other")
                 ELSE [s EXCEPT !.pc = "decToken"])
    /\ UNCHANGED <<stores, history>>

(* PreConsumeTokenQuota, DecreaseTokenQuota. *)
DecreaseToken(r) ==
    /\ At(r, "decToken")
    /\ LET s == sess[r] IN
       \/ /\ DebitToken(r, s.amount)
          /\ Become(r, [s EXCEPT !.pc = "preFund", !.tokenConsumed = s.amount])
       \/ FailedWrite(r, 0, 0) /\ Become(r, AfterFailedPreConsume(s, "other"))

(* The session is complete and stored on relayInfo.Billing. *)
Opened(s) == [s EXCEPT !.pc = "ready", !.preConsumed = s.amount,
                       !.consumed = s.amount, !.amount = 0]

(* funding.PreConsume failed: a token that was charged is given back first. *)
FundingRefused(s, e) ==
    IF s.tokenConsumed > 0 /\ ~s.prof.playground
    THEN [s EXCEPT !.pc = "rollback", !.err = e]
    ELSE AfterFailedPreConsume(s, e)

(* Mutant: the subscription is charged before its limit is looked at. *)
PreConsumeFunding_ChargesFirst(r) ==
    /\ At(r, "preFund")
    /\ LET s == sess[r] IN
       \/ DebitFunding(r, s.amount) /\ Become(r, Opened(s))
       \/ /\ Refused(r, s.amount)
          /\ subUsed' = NewUsed(s.amount)
          /\ paid' = [paid EXCEPT ![r].sub = @ + s.amount]
          /\ Become(r, FundingRefused(s, "insufficient"))
          /\ UNCHANGED <<wallet, token, subRow, lost, faults>>

(* WalletFunding.PreConsume, or SubscriptionFunding.PreConsume in one
   transaction that also requires the subscription to be active.  A failed read
   of the subscriptions is reported as "no active subscription". *)
PreConsumeFunding(r) ==
    /\ At(r, "preFund")
    /\ LET s == sess[r]
           inactive == s.source = "subscription" /\ ~subActive
       IN \/ ~inactive /\ DebitFunding(r, s.amount) /\ Become(r, Opened(s))
          \/ /\ inactive \/ Refused(r, s.amount)
             /\ Become(r, FundingRefused(s, "insufficient"))
             /\ UNCHANGED <<stores, history>>
          \/ /\ s.amount > 0
             /\ FailedWrite(r, 0, 0)
             /\ \E e \in {"other"} \cup (IF s.source = "subscription" THEN {"insufficient"} ELSE {}) :
                   Become(r, FundingRefused(s, e))

(* preConsume gives the token back after the funding source refused. *)
RollbackToken(r) ==
    /\ At(r, "rollback")
    /\ LET s == sess[r] IN
       /\ Become(r, AfterFailedPreConsume(s, s.err))
       /\ DebitToken(r, -s.tokenConsumed) \/ FailedWrite(r, 0, s.tokenConsumed)

-----------------------------------------------------------------------------
(* Reserve *)

(* Reserve up to reserveFunding; an error returns with nothing changed. *)
ReserveFunding(r, target) ==
    /\ At(r, "ready")
    /\ sess[r].reserves < MaxReserves
    /\ LET s == sess[r]
           d == target - s.preConsumed
           t == [s EXCEPT !.reserves = @ + 1]
       IN /\ ~s.trusted /\ d > 0
          /\ \/ /\ DebitFunding(r, d)
                /\ Become(r, [t EXCEPT !.pc = "resToken", !.amount = d,
                                       !.consumed = IF s.source = "wallet" THEN @ + d ELSE @])
             \/ Refused(r, d) /\ Become(r, t) /\ UNCHANGED <<stores, history>>
             \/ FailedWrite(r, 0, 0) /\ Become(r, t)

(* Mutant: the reservation is not remembered for the refund. *)
Reserved_NoExtra(s) == [s EXCEPT !.pc = "ready", !.amount = 0,
                                 !.preConsumed = @ + s.amount,
                                 !.tokenConsumed = @ + s.amount]

Reserved(s) == [s EXCEPT !.pc = "ready", !.amount = 0,
                         !.preConsumed = @ + s.amount,
                         !.tokenConsumed = @ + s.amount,
                         !.extraReserved = @ + s.amount]

(* reserveToken, the read and the check. *)
ReserveToken(r) ==
    /\ At(r, "resToken")
    /\ LET s == sess[r] IN
       Become(r, IF s.prof.playground THEN Reserved(s)
                 ELSE [s EXCEPT !.pc = IF ~s.prof.unlimited /\ token < s.amount
                                       THEN "resRollback" ELSE "resDec"])
    /\ UNCHANGED <<stores, history>>

(* reserveToken, DecreaseTokenQuota. *)
ReserveDecrease(r) ==
    /\ At(r, "resDec")
    /\ LET s == sess[r] IN
       \/ DebitToken(r, s.amount) /\ Become(r, Reserved(s))
       \/ FailedWrite(r, 0, 0) /\ Become(r, [s EXCEPT !.pc = "resRollback"])

(* Mutant: the rollback shrinks the pre-consume of either funding source. *)
RollbackReserve_AnySource(r) ==
    /\ At(r, "resRollback")
    /\ LET s == sess[r]
           t == [s EXCEPT !.pc = "ready", !.amount = 0]
       IN DebitFunding(r, -s.amount) /\ Become(r, [t EXCEPT !.consumed = @ - s.amount])

(* rollbackFundingReserve; WalletFunding.consumed shrinks only on success. *)
RollbackReserve(r) ==
    /\ At(r, "resRollback")
    /\ LET s == sess[r]
           t == [s EXCEPT !.pc = "ready", !.amount = 0]
       IN \/ /\ DebitFunding(r, -s.amount)
             /\ Become(r, [t EXCEPT !.consumed = IF s.source = "wallet" THEN @ - s.amount ELSE @])
          \/ /\ FailedWrite(r, IF s.source = "wallet" THEN 0 ELSE s.amount, 0)
             /\ Become(r, t)

(* A read fails: NewBillingSession returns the error without a fallback, Reserve
   rolls the funding source back. *)
ReadFailed(r) ==
    /\ LET s == sess[r] IN
       \/ /\ s.pc \in {"hasSub", "overflow", "wallet"} \/ (s.pc = "preToken" /\ ~s.prof.playground)
          /\ Become(r, AfterFailedPreConsume(s, "other"))
       \/ /\ s.pc = "resToken" /\ ~s.prof.playground
          /\ Become(r, [s EXCEPT !.pc = "resRollback"])
    /\ UNCHANGED <<stores, history>>

-----------------------------------------------------------------------------
(* Settle: the request succeeded and consumed n. *)

AfterFundingSettled(s) ==
    IF s.prof.playground
    THEN [s EXCEPT !.fundingSettled = TRUE, !.settled = TRUE, !.pc = "done"]
    ELSE [s EXCEPT !.fundingSettled = TRUE, !.pc = "setToken"]

(* funding.Settle(delta); its error leaves the session open for good. *)
SettleFunding(r, n) ==
    /\ At(r, "ready")
    /\ LET s == sess[r]
           d == n - s.preConsumed
           t == [s EXCEPT !.actual = n, !.amount = d]
       IN \/ /\ d = 0
             /\ Become(r, [t EXCEPT !.pc = "done", !.settled = TRUE])
             /\ UNCHANGED <<stores, history>>
          \/ d # 0 /\ DebitFunding(r, d) /\ Become(r, AfterFundingSettled(t))
          \/ /\ d # 0
             /\ Become(r, [t EXCEPT !.pc = "settleFailed"])
             /\ \/ Refused(r, d) /\ UNCHANGED <<stores, history>>
                \/ FailedWrite(r, 0, 0)

(* The token half of Settle; an error is logged and the session is settled. *)
SettleToken(r) ==
    /\ At(r, "setToken")
    /\ LET s == sess[r] IN
       /\ Become(r, [s EXCEPT !.pc = "done", !.settled = TRUE])
       /\ DebitToken(r, s.amount) \/ FailedWrite(r, 0, -s.amount)

-----------------------------------------------------------------------------
(* Refund: the request failed; the deferred call in controller/relay.go. *)

Refund(r) ==
    /\ At(r, "ready")
    /\ LET s == sess[r] IN
       Become(r, [s EXCEPT !.pc = "done", !.refunded = NeedsRefund(s),
                           !.bg = IF NeedsRefund(s) THEN "fund" ELSE "none"])
    /\ UNCHANGED <<stores, history>>

(* Mutant: the extra reservation is returned whatever the funding source. *)
AfterRefund_ExtraForAll(s) ==
    [s EXCEPT !.bg = IF s.extraReserved > 0 THEN "extra" ELSE "token"]

(* The goroutine goes on after funding.Refund, whatever that returned. *)
AfterRefund(s) ==
    [s EXCEPT !.bg = IF s.source = "subscription" /\ s.extraReserved > 0
                     THEN "extra" ELSE "token"]

(* WalletFunding.Refund: one write, never repeated.  The wallet gets back all it
   was charged, a reservation whose rollback failed included. *)
RefundWallet(r) ==
    /\ sess[r].bg = "fund" /\ sess[r].source = "wallet"
    /\ LET s == sess[r] IN
       /\ Become(r, AfterRefund(s))
       /\ DebitFunding(r, -s.consumed) \/ FailedWrite(r, s.consumed, 0)

(* refundWithRetry after an attempt that returned an error. *)
NextAttempt(s) == IF s.attempt < MaxAttempts - 1 THEN [s EXCEPT !.attempt = @ + 1]
                  ELSE AfterRefund(s)

(* SubscriptionFunding.Refund: one attempt of RefundSubscriptionPreConsume.  Its
   amount_used is given back by PostConsumeUserSubscriptionDelta in a transaction
   of its own; the record is marked "refunded" after that, in the outer one.  When
   the inner commit's answer is lost or the mark fails, the next attempt finds the
   record unmarked and gives the amount back again.  An attempt whose answer is
   lost after the outer commit is as good as one that succeeded: the next one
   finds the mark. *)
RefundSubscription(r) ==
    /\ sess[r].bg = "fund" /\ sess[r].source = "subscription"
    /\ LET s == sess[r]
           given == [s EXCEPT !.returned = @ + 1]
           last == s.attempt = MaxAttempts - 1
       IN \/ DebitFunding(r, -s.consumed) /\ Become(r, AfterRefund(given))
          \/ /\ UnreportedCharge(r, -s.consumed)
             /\ Become(r, NextAttempt([given EXCEPT !.unmarked = @ + 1]))
          \/ /\ FailedWrite(r, IF last /\ s.returned = 0 THEN s.consumed ELSE 0, 0)
             /\ Become(r, NextAttempt(s))

(* funding.Refund in the goroutine *)
RefundFunding(r) == RefundWallet(r) \/ RefundSubscription(r)

(* The amount Reserve added has no pre-consume record and is returned apart. *)
RefundExtra(r) ==
    /\ sess[r].bg = "extra"
    /\ LET s == sess[r] IN
       /\ Become(r, [s EXCEPT !.bg = "token"])
       /\ DebitFunding(r, -s.extraReserved) \/ FailedWrite(r, s.extraReserved, 0)

RefundToken(r) ==
    /\ sess[r].bg = "token"
    /\ LET s == sess[r]
           due == IF s.prof.playground THEN 0 ELSE s.tokenConsumed
       IN /\ Become(r, [s EXCEPT !.bg = "none"])
          /\ \/ DebitToken(r, -due)
             \/ due > 0 /\ FailedWrite(r, 0, due)

-----------------------------------------------------------------------------
(* Environment *)

(* ExpireDueSubscriptions or an administrator ends the subscription. *)
ExpireSubscription ==
    /\ subActive
    /\ subActive' = FALSE
    /\ UNCHANGED <<wallet, token, subUsed, allowOverflow, sess, history>>

(* The process dies: running handlers and refund goroutines are gone, the rows
   stay as they are. *)
Crash ==
    /\ \E r \in Requests : sess[r].pc \notin Terminal \cup {"idle"} \/ sess[r].bg # "none"
    /\ sess' = [r \in Requests |->
                  IF sess[r].pc \notin Terminal \cup {"idle"} \/ sess[r].bg # "none"
                  THEN [sess[r] EXCEPT !.pc = "crashed", !.bg = "none"]
                  ELSE sess[r]]
    /\ UNCHANGED <<stores, history>>

(* The handler panics while it relays: the deferred call sees no error, so it
   refunds nothing, and the recovery middleware answers the client. *)
Panic(r) ==
    /\ At(r, "ready")
    /\ Become(r, [sess[r] EXCEPT !.pc = "crashed"])
    /\ UNCHANGED <<stores, history>>

(* One step of the code running on behalf of r; none while it waits for the
   upstream ("ready"). *)
Advance(r) ==
    \/ HasActive(r) \/ CheckOverflow(r) \/ TryWallet(r)
    \/ PreConsumeToken(r) \/ DecreaseToken(r)
    \/ PreConsumeFunding(r) \/ RollbackToken(r)
    \/ ReserveToken(r) \/ ReserveDecrease(r) \/ RollbackReserve(r)
    \/ SettleToken(r)

(* The upstream call ends, with a result or with an error. *)
UpstreamEnds(r) == (\E n \in ActualQuotas : SettleFunding(r, n)) \/ Refund(r)

Goroutine(r) == RefundFunding(r) \/ RefundExtra(r) \/ RefundToken(r)

Next ==
    \/ \E r \in Requests :
         \/ \E p \in Profiles, q \in PreQuotas : Start(r, p, q)
         \/ \E t \in ReserveTargets : ReserveFunding(r, t)
         \/ Advance(r)
         \/ UpstreamEnds(r)
         \/ Goroutine(r)
         \/ ReadFailed(r)
         \/ Panic(r)
    \/ ExpireSubscription
    \/ Crash

Spec == Init /\ [][Next]_vars

(* The Go scheduler runs every handler and every goroutine that can run.  Nothing
   is assumed of UpstreamEnds: by default (RELAY_TIMEOUT 0) the HTTP client has no
   timeout, so a handler may wait for its upstream for ever. *)
Fairness == \A r \in Requests : WF_vars(Advance(r)) /\ WF_vars(Goroutine(r))

LiveSpec == Spec /\ Fairness
-----------------------------------------------------------------------------
(* Properties *)

TypeOK ==
    /\ wallet \in Int /\ token \in Int /\ subUsed \in Nat /\ subActive \in BOOLEAN
    /\ allowOverflow \in BOOLEAN
    /\ sess \in [Requests -> SessionType]
    /\ paid \in [Requests -> [wallet : Int, sub : Int, token : Int]]
    /\ lost \in [Requests -> [fund : Int, token : Int]]
    /\ faults \in 0..MaxFaults

(* What a closed request owes: the settled amount; the pre-charge when the
   funding source refused the settlement; nothing when it was refunded or
   never admitted. *)
Due(s) == IF s.settled THEN s.actual
          ELSE IF s.pc = "settleFailed" THEN s.preConsumed ELSE 0

(* A wallet reservation whose rollback failed stays in WalletFunding.consumed:
   a refund returns it, a settlement does not. *)
Stranded(s) == IF s.source = "wallet" /\ ~s.refunded THEN s.consumed - s.preConsumed ELSE 0

(* What the subscription was given back again, by a retry after an attempt that
   had given it back and returned an error. *)
Again(s) == IF s.returned = 0 THEN 0 ELSE (s.returned - 1) * s.consumed

(* A request that is over has paid what it owes, from its funding source and from
   its token alike: every fallback, partial reservation, rollback and asynchronous
   refund adds up (BillingSession.Settle, Refund, Reserve, preConsume).  It is off
   only by the writes that failed on its behalf and by one pre-charge for every
   further refund of the subscription, of which there is none unless an earlier
   attempt committed and returned an error (RefundSubscriptionPreConsume). *)
ChargedExactly ==
    \A r \in Requests :
        LET s == sess[r] IN
        s.pc \in {"rejected", "done", "settleFailed"} /\ s.bg = "none" =>
            /\ paid[r].wallet + paid[r].sub = Due(s) + lost[r].fund + Stranded(s) - Again(s)
            /\ paid[r].token = (IF s.prof.playground THEN 0 ELSE Due(s)) + lost[r].token
            /\ s.returned <= s.unmarked + 1

(* At no moment, whatever fails and wherever the process crashes, have the wallet
   and the token been given back more than they paid.  The subscription has not
   either unless a refund of it committed and returned an error; then it gets at
   most two pre-charges too much (maxAttempts of refundWithRetry). *)
NoFreeCredit ==
    \A r \in Requests :
        LET s == sess[r] IN
        /\ paid[r].wallet >= 0 /\ paid[r].token >= 0
        /\ paid[r].sub >= IF s.unmarked = 0 THEN 0 ELSE -(2 * s.consumed)

(* The fallbacks of NewBillingSession never leave a request paying from the
   wallet and from the subscription at once. *)
OneSource == \A r \in Requests : paid[r].wallet = 0 \/ paid[r].sub = 0

(* The preference is kept through every fallback: an "only" preference never
   touches the other source, and a subscription that is still active and does
   not allow overflow keeps subscription_first requests off the wallet, unless
   none was active when the request looked (HasActiveUserSubscription). *)
PreferenceHonoured ==
    \A r \in Requests :
        LET s == sess[r] IN
        /\ s.prof.pref = "subscription_only" => paid[r].wallet = 0
        /\ s.prof.pref = "wallet_only" => paid[r].sub = 0
        /\ s.prof.pref = "subscription_first" /\ subActive /\ ~allowOverflow => paid[r].wallet = 0

(* Pre-charges, reservations and settlements together never push a limited
   subscription over its total. *)
SubscriptionLimit == SubTotal > 0 => subUsed <= SubTotal

(* Billing itself never leaves a request waiting: whatever it is doing, the
   request comes to the point where it waits for its upstream, or it is closed,
   its refund goroutine included; a request whose upstream has answered does not
   come back to wait, so it is closed. *)
EventuallyClosed ==
    \A r \in Requests :
        sess[r].pc \notin {"idle", "ready"} ~>
            \/ sess[r].pc = "ready"
            \/ sess[r].pc \in Terminal /\ sess[r].bg = "none"
=============================================================================
