------------------------ MODULE BillingSessionProofs ------------------------
(***************************************************************************)
(* Proofs about BillingSession for any set of requests, any amounts and    *)
(* any number of failed writes.                                            *)
(***************************************************************************)
EXTENDS BillingSession, TLAPS

PaidType == [wallet : Int, sub : Int, token : Int]
LostType == [fund : Int, token : Int]

(* Where the handler stands, grouped by what has been charged. *)
Opening == {"idle", "hasSub", "overflow", "wallet", "preToken", "decToken", "rejected"}
TokenHeld == {"preFund", "rollback"}
Reserving == {"resToken", "resDec", "resRollback"}

(* What the token was charged for an amount n of request s. *)
Tok(s, n) == IF s.prof.playground THEN 0 ELSE n

(* A reservation whose funding half is done and whose token half is not. *)
Pending(s) == IF s.pc \in Reserving THEN s.amount ELSE 0

(* Before the session is open only the token may have been charged. *)
OpeningInv(s, p, l) ==
    s.pc \in Opening \cup TokenHeld =>
        /\ p.wallet = 0 /\ p.sub = 0 /\ l.fund = 0
        /\ s.bg = "none" /\ ~s.settled /\ ~s.refunded /\ ~s.fundingSettled
        /\ s.preConsumed = 0 /\ s.consumed = 0 /\ s.extraReserved = 0
        /\ s.amount >= 0
        /\ s.tokenConsumed = IF s.pc \in TokenHeld THEN s.amount ELSE 0
        /\ p.token = Tok(s, s.tokenConsumed) + l.token
        /\ s.pc \in {"preToken", "decToken"} \cup TokenHeld => s.source # "none"
        /\ s.pc \in {"decToken", "rollback"} => ~s.prof.playground

(* While the session is open the charges are what its fields say. *)
OpenInv(s, p, l) ==
    s.pc \in {"ready", "settleFailed"} \cup Reserving =>
        /\ s.bg = "none" /\ ~s.settled /\ ~s.refunded /\ ~s.fundingSettled
        /\ s.source # "none"
        /\ s.tokenConsumed = s.preConsumed
        /\ p.token = Tok(s, s.preConsumed) + l.token
        /\ s.pc \in Reserving => s.amount > 0
        /\ s.pc \in {"resDec", "resRollback"} => ~s.prof.playground
        /\ s.source = "wallet" =>
              /\ p.wallet = s.consumed /\ l.fund = 0
              /\ s.consumed >= s.preConsumed + Pending(s)
        /\ s.source = "subscription" =>
              /\ p.sub = s.preConsumed + Pending(s) + l.fund
              /\ s.preConsumed = s.consumed + s.extraReserved

(* The funding source is settled; the token is being adjusted or is done. *)
SettledInv(s, p, l) ==
    s.pc = "setToken" \/ s.settled =>
        /\ s.pc \in {"setToken", "done", "crashed"}
        /\ s.bg = "none" /\ ~s.refunded
        /\ s.source # "none"
        /\ p.wallet + p.sub = s.actual + l.fund + Stranded(s)
        /\ s.source = "wallet" => s.consumed >= s.preConsumed
        /\ s.pc = "setToken" =>
              /\ ~s.prof.playground /\ ~s.settled
              /\ s.amount = s.actual - s.preConsumed
              /\ p.token = s.preConsumed + l.token
        /\ s.pc = "done" => p.token = Tok(s, s.actual) + l.token

(* What the refund goroutine has not given back to the funding source yet. *)
Unreturned(s) == IF s.bg = "fund" THEN IF s.source = "wallet" THEN s.consumed
                                       ELSE IF s.returned = 0 THEN s.preConsumed
                                       ELSE s.extraReserved
                 ELSE IF s.bg = "extra" THEN s.extraReserved
                 ELSE Stranded(s)

(* What retries have given back again; returned is 0..3. *)
Repeated(s) == IF s.returned = 2 THEN s.consumed
               ELSE IF s.returned = 3 THEN s.consumed + s.consumed ELSE 0

(* The request failed: what the refund goroutine still has to give back. *)
RefundInv(s, p, l) ==
    s.pc = "done" /\ ~s.settled =>
        /\ s.source # "none"
        /\ s.tokenConsumed = s.preConsumed
        /\ p.wallet + p.sub = l.fund + Unreturned(s) - Repeated(s)
        /\ s.bg = "extra" => s.source = "subscription"
        /\ s.bg = "fund" =>
              /\ s.source = "wallet" => l.fund = 0
              /\ s.source = "subscription" => s.preConsumed = s.consumed + s.extraReserved
              /\ s.returned <= s.attempt /\ s.returned = s.unmarked
        /\ ~s.refunded /\ s.source = "wallet" => s.consumed >= s.preConsumed
        /\ p.token = l.token + IF s.bg = "none" THEN 0 ELSE Tok(s, s.tokenConsumed)

(* In every state: one source at most, no credit beyond the charges. *)
LedgerInv(s, p, l) ==
    /\ s.source # "wallet" => p.wallet = 0
    /\ s.source # "subscription" => p.sub = 0
    /\ p.wallet >= 0 /\ p.token >= 0 /\ l.fund >= 0
    /\ p.sub >= -Repeated(s)
    /\ ~s.refunded => s.returned = 0 /\ s.unmarked = 0
    /\ s.source # "subscription" => s.returned = 0
    /\ s.returned <= s.unmarked + 1
    /\ ~s.settled /\ s.pc # "crashed" => l.token >= 0
    /\ s.bg # "none" => s.pc = "done" /\ s.refunded /\ ~s.settled

SessionInv(s, p, l) ==
    /\ OpeningInv(s, p, l) /\ OpenInv(s, p, l) /\ SettledInv(s, p, l)
    /\ RefundInv(s, p, l) /\ LedgerInv(s, p, l)

(* The inductive invariant: every request's ledger agrees with its session. *)
Accounting == \A r \in Requests : SessionInv(sess[r], paid[r], lost[r])

IInv == TypeOK /\ Accounting

RowsOK == /\ wallet \in Int /\ token \in Int /\ subUsed \in Nat
          /\ subActive \in BOOLEAN /\ allowOverflow \in BOOLEAN
          /\ faults \in 0..MaxFaults

(* The step gives request r the session t and the ledger entries p and l, leaves
   every other request alone and keeps the rows well typed. *)
Moves(r, t, p, l) ==
    /\ sess' = [sess EXCEPT ![r] = t]
    /\ paid' = [paid EXCEPT ![r] = p]
    /\ lost' = [lost EXCEPT ![r] = l]
    /\ RowsOK'

-----------------------------------------------------------------------------
(* How a step of one request lifts to the whole state. *)

LEMMA Current ==
    ASSUME IInv, NEW r \in Requests
    PROVE  /\ sess[r] \in SessionType /\ paid[r] \in PaidType /\ lost[r] \in LostType
           /\ SessionInv(sess[r], paid[r], lost[r])
           /\ RowsOK
BY DEF IInv, TypeOK, Accounting, PaidType, LostType, RowsOK

LEMMA Lift ==
    ASSUME IInv, NEW r \in Requests,
           NEW t \in SessionType, NEW p \in PaidType, NEW l \in LostType,
           Moves(r, t, p, l), SessionInv(t, p, l)
    PROVE  IInv'
<1>1. TypeOK'
  BY DEF IInv, TypeOK, Moves, RowsOK, PaidType, LostType
<1>2. Accounting'
  <2> SUFFICES ASSUME NEW q \in Requests
               PROVE  SessionInv(sess[q], paid[q], lost[q])'
    BY DEF Accounting
  <2>1. CASE q = r
    BY <2>1 DEF IInv, TypeOK, Moves
  <2>2. CASE q # r
    BY <2>2 DEF IInv, TypeOK, Moves, Accounting
  <2> QED BY <2>1, <2>2
<1> QED BY <1>1, <1>2 DEF IInv

LEMMA QuietMoves ==
    ASSUME IInv, NEW r \in Requests, NEW t, Become(r, t), UNCHANGED <<stores, history>>
    PROVE  Moves(r, t, paid[r], lost[r])
BY DEF IInv, TypeOK, Become, Moves, RowsOK, stores, subRow, history

LEMMA DebitTokenMoves ==
    ASSUME IInv, NEW r \in Requests, NEW t, NEW d \in Int, Become(r, t), DebitToken(r, d)
    PROVE  Moves(r, t, [paid[r] EXCEPT !.token = @ + d], lost[r])
BY DEF IInv, TypeOK, Become, Moves, RowsOK, DebitToken, subRow

LEMMA DebitFundingMoves ==
    ASSUME IInv, NEW r \in Requests, NEW t, NEW d \in Int, Become(r, t), DebitFunding(r, d)
    PROVE  \/ sess[r].source = "wallet"
              /\ Moves(r, t, [paid[r] EXCEPT !.wallet = @ + d], lost[r])
           \/ sess[r].source = "subscription"
              /\ Moves(r, t, [paid[r] EXCEPT !.sub = @ + d], lost[r])
BY DEF IInv, TypeOK, Become, Moves, RowsOK, DebitFunding, ChargeFunding, subRow, NewUsed

LEMMA UnreportedChargeMoves ==
    ASSUME IInv, NEW r \in Requests, NEW t, NEW d \in Int, Become(r, t), UnreportedCharge(r, d),
           sess[r].source = "subscription"
    PROVE  Moves(r, t, [paid[r] EXCEPT !.sub = @ + d], lost[r])
BY BillingAssumption
   DEF IInv, TypeOK, Become, Moves, RowsOK, UnreportedCharge, ChargeFunding, subRow, NewUsed

LEMMA FailedWriteMoves ==
    ASSUME IInv, NEW r \in Requests, NEW t, NEW f \in Int, NEW k \in Int,
           Become(r, t), FailedWrite(r, f, k)
    PROVE  Moves(r, t, paid[r], [fund |-> lost[r].fund + f, token |-> lost[r].token + k])
BY BillingAssumption DEF IInv, TypeOK, Become, Moves, RowsOK, FailedWrite, stores, subRow

LEMMA FailedTokenMoves ==
    ASSUME IInv, NEW r \in Requests, NEW t, NEW k \in Int, Become(r, t), FailedWrite(r, 0, k)
    PROVE  Moves(r, t, paid[r], [fund |-> lost[r].fund + 0, token |-> lost[r].token + k])
BY BillingAssumption DEF IInv, TypeOK, Become, Moves, RowsOK, FailedWrite, stores, subRow

LEMMA FailedFundMoves ==
    ASSUME IInv, NEW r \in Requests, NEW t, NEW f \in Int, Become(r, t), FailedWrite(r, f, 0)
    PROVE  Moves(r, t, paid[r], [fund |-> lost[r].fund + f, token |-> lost[r].token + 0])
BY BillingAssumption DEF IInv, TypeOK, Become, Moves, RowsOK, FailedWrite, stores, subRow

-----------------------------------------------------------------------------
(* The sessions after the operations that change several fields at once. *)
ReservingSession(s, n, d, c) ==
    [s EXCEPT !.reserves = n, !.pc = "resToken", !.amount = d, !.consumed = c]
RolledBackSession(s) ==
    [s EXCEPT !.pc = "ready", !.amount = 0,
              !.consumed = IF s.source = "wallet" THEN @ - s.amount ELSE @]
StrandedSession(s) == [s EXCEPT !.pc = "ready", !.amount = 0]
SettledSession(s, n, d) ==
    [s EXCEPT !.actual = n, !.amount = d, !.pc = "done", !.settled = TRUE]
FundedSession(s, n, d) == AfterFundingSettled([s EXCEPT !.actual = n, !.amount = d])
UnsettledSession(s, n, d) == [s EXCEPT !.actual = n, !.amount = d, !.pc = "settleFailed"]
TokenSettledSession(s) == [s EXCEPT !.pc = "done", !.settled = TRUE]
RefundingSession(s, b) ==
    [s EXCEPT !.pc = "done", !.refunded = b, !.bg = IF b THEN "fund" ELSE "none"]
RefundedSession(s, c) == [s EXCEPT !.bg = c]
RetriedSession(s, c, i, n, k) ==
    [s EXCEPT !.bg = c, !.attempt = i, !.returned = n, !.unmarked = k]

(* What each operation on a session does to the accounting of its request.  The
   session s and its ledger entries p and l are arbitrary here; t and z are the
   session and the entries after the operation. *)
USE DEF SessionType, PaidType, LostType, SessionInv, OpeningInv, OpenInv, SettledInv,
        RefundInv, LedgerInv, Opening, TokenHeld, Reserving, Tok, Pending, Stranded,
        Unreturned, ReservingSession, RolledBackSession, StrandedSession, SettledSession, FundedSession, UnsettledSession,
        TokenSettledSession, RefundingSession, RefundedSession, RetriedSession, AfterFundingSettled, Repeated

LEMMA SubscriptionSessionOpening ==
    ASSUME NEW s \in SessionType, NEW p \in PaidType, NEW l \in LostType,
           SessionInv(s, p, l), s.pc \in Opening,
           NEW t, t = SubscriptionSession(s)
    PROVE  t \in SessionType /\ SessionInv(t, p, l)
<1>1. t \in SessionType
  <2> HIDE DEF SessionInv
  <2>1. PICK a \in Int : a = IF s.asked <= 0 THEN 1 ELSE s.asked
    OBVIOUS
  <2> QED BY <2>1, ZenonT(60) DEF PC, SubscriptionSession
<1>2. SessionInv(t, p, l)
  BY <1>1 DEF SubscriptionSession
<1> QED BY <1>1, <1>2

LEMMA WalletSessionOpening ==
    ASSUME NEW s \in SessionType, NEW p \in PaidType, NEW l \in LostType,
           SessionInv(s, p, l), s.pc \in Opening, NEW q,
           NEW t, t = WalletSession(s, q)
    PROVE  t \in SessionType /\ SessionInv(t, p, l)
<1>1. PICK trust \in BOOLEAN : trust = ShouldTrust(s, q)
  BY DEF ShouldTrust
<1>2. PICK eff \in Int : eff >= 0 /\ eff = IF trust THEN 0 ELSE s.asked
  BY <1>1
<1>3. t = [s EXCEPT !.source = "wallet", !.err = "none", !.trusted = trust, !.amount = eff,
                    !.pc = IF eff > 0 THEN "preToken" ELSE "preFund"]
  BY <1>1, <1>2 DEF WalletSession
<1>4. t \in SessionType
  <2> HIDE DEF SessionInv
  <2>1. PICK c \in PC : c = IF eff > 0 THEN "preToken" ELSE "preFund"
    BY DEF PC
  <2>2. CASE trust = TRUE
    BY <1>3, <2>1, <2>2, ZenonT(60)
  <2>3. CASE trust = FALSE
    BY <1>3, <2>1, <2>3, ZenonT(60)
  <2> QED BY <2>2, <2>3
<1>5. SessionInv(t, p, l)
  <2>1. CASE eff > 0
    BY <1>3, <1>4, <2>1
  <2>2. CASE eff = 0
    BY <1>3, <1>4, <2>2
  <2> QED BY <1>2, <2>1, <2>2
<1> QED BY <1>4, <1>5

LEMMA FailedSession ==
    ASSUME NEW s \in SessionType, NEW p \in PaidType, NEW l \in LostType,
           SessionInv(s, p, l), s.pc \in Opening \cup TokenHeld,
           Tok(s, s.tokenConsumed) = 0, NEW e \in {"none", "insufficient", "other"},
           NEW t, t = AfterFailedPreConsume(s, e)
    PROVE  t \in SessionType /\ SessionInv(t, p, l)
<1>1. t \in SessionType
  BY ZenonT(60) DEF PC, AfterFailedPreConsume
<1>2. SessionInv(t, p, l)
  BY <1>1 DEF AfterFailedPreConsume
<1> QED BY <1>1, <1>2

LEMMA OpeningStays ==
    ASSUME NEW s \in SessionType, NEW p \in PaidType, NEW l \in LostType,
           SessionInv(s, p, l), s.pc \in Opening,
           NEW c \in {"wallet", "rejected", "hasSub"}, NEW e \in {"none", "insufficient", "other"},
           NEW t, t = [s EXCEPT !.pc = c, !.err = e]
    PROVE  t \in SessionType /\ SessionInv(t, p, l)
<1>1. t \in SessionType
  BY ZenonT(60) DEF PC
<1>2. SessionInv(t, p, l)
  BY <1>1
<1> QED BY <1>1, <1>2

LEMMA OpeningContinues ==
    ASSUME NEW s \in SessionType, NEW p \in PaidType, NEW l \in LostType,
           SessionInv(s, p, l), s.pc \in Opening,
           NEW c \in {"wallet", "rejected", "hasSub"}, NEW t, t = [s EXCEPT !.pc = c]
    PROVE  t \in SessionType /\ SessionInv(t, p, l)
BY DEF PC

LEMMA OpenedSession ==
    ASSUME NEW s \in SessionType, NEW p \in PaidType, NEW l \in LostType,
           SessionInv(s, p, l), s.pc = "preFund", NEW t, t = Opened(s),
           NEW z, \/ s.source = "wallet" /\ z = [p EXCEPT !.wallet = @ + s.amount]
                  \/ s.source = "subscription" /\ z = [p EXCEPT !.sub = @ + s.amount]
    PROVE  t \in SessionType /\ z \in PaidType /\ SessionInv(t, z, l)
<1>1. t \in SessionType
  BY DEF PC, Opened
<1>2. z \in PaidType
  OBVIOUS
<1>3. SessionInv(t, z, l)
  BY <1>1, <1>2 DEF Opened
<1> QED BY <1>1, <1>2, <1>3

LEMMA ReservedSession ==
    ASSUME NEW s \in SessionType, NEW p \in PaidType, NEW l \in LostType,
           SessionInv(s, p, l), s.pc \in {"resToken", "resDec"}, NEW t, t = Reserved(s),
           NEW z, z = IF s.prof.playground THEN p ELSE [p EXCEPT !.token = @ + s.amount]
    PROVE  t \in SessionType /\ z \in PaidType /\ SessionInv(t, z, l)
<1>1. t \in SessionType
  <2>1. s.amount \in Nat
    OBVIOUS
  <2> HIDE DEF SessionInv
  <2>2. PICK o \in Int, a \in Nat, b \in Nat, c \in Nat, g \in PC :
           o = 0 /\ g = "ready" /\ a = s.preConsumed + s.amount /\ b = s.tokenConsumed + s.amount
           /\ c = s.extraReserved + s.amount
    BY <2>1 DEF PC
  <2>3. t = [s EXCEPT !.pc = g, !.amount = o, !.preConsumed = a, !.tokenConsumed = b,
                      !.extraReserved = c]
    BY <2>2 DEF Reserved
  <2> QED BY <2>3, ZenonT(60)
<1>2. z \in PaidType
  OBVIOUS
<1>3. SessionInv(t, z, l)
  BY <1>1, <1>2 DEF Reserved
<1> QED BY <1>1, <1>2, <1>3

LEMMA PlaygroundToken ==
    ASSUME NEW s \in SessionType, NEW p \in PaidType, NEW l \in LostType,
           SessionInv(s, p, l), s.pc = "preToken", s.prof.playground,
           NEW t, t = [s EXCEPT !.pc = "preFund", !.tokenConsumed = s.amount]
    PROVE  t \in SessionType /\ SessionInv(t, p, l)
<1>1. t \in SessionType
  <2>1. PICK n \in Nat : n = s.amount
    OBVIOUS
  <2> HIDE DEF SessionInv
  <2>2. t = [s EXCEPT !.pc = "preFund", !.tokenConsumed = n]
    BY <2>1
  <2> QED BY <2>2, ZenonT(60) DEF PC
<1>2. SessionInv(t, p, l)
  BY <1>1
<1> QED BY <1>1, <1>2

LEMMA TokenChecked ==
    ASSUME NEW s \in SessionType, NEW p \in PaidType, NEW l \in LostType,
           SessionInv(s, p, l), s.pc = "preToken", ~s.prof.playground,
           NEW t, t = [s EXCEPT !.pc = "decToken"]
    PROVE  t \in SessionType /\ SessionInv(t, p, l)
<1>1. t \in SessionType
  BY DEF PC
<1>2. SessionInv(t, p, l)
  BY <1>1
<1> QED BY <1>1, <1>2

LEMMA TokenCharged ==
    ASSUME NEW s \in SessionType, NEW p \in PaidType, NEW l \in LostType,
           SessionInv(s, p, l), s.pc = "decToken",
           NEW t, t = [s EXCEPT !.pc = "preFund", !.tokenConsumed = s.amount],
           NEW z, z = [p EXCEPT !.token = @ + s.amount]
    PROVE  t \in SessionType /\ z \in PaidType /\ SessionInv(t, z, l)
<1>1. t \in SessionType
  <2>1. PICK n \in Nat : n = s.amount
    OBVIOUS
  <2> HIDE DEF SessionInv
  <2>2. t = [s EXCEPT !.pc = "preFund", !.tokenConsumed = n]
    BY <2>1
  <2> QED BY <2>2, ZenonT(60) DEF PC
<1>2. z \in PaidType
  OBVIOUS
<1>3. SessionInv(t, z, l)
  BY <1>1, <1>2
<1> QED BY <1>1, <1>2, <1>3

LEMMA RollbackBegun ==
    ASSUME NEW s \in SessionType, NEW p \in PaidType, NEW l \in LostType,
           SessionInv(s, p, l), s.pc = "preFund", ~s.prof.playground,
           NEW e \in {"none", "insufficient", "other"},
           NEW t, t = [s EXCEPT !.pc = "rollback", !.err = e]
    PROVE  t \in SessionType /\ SessionInv(t, p, l)
<1>1. t \in SessionType
  BY DEF PC
<1>2. SessionInv(t, p, l)
  BY <1>1
<1> QED BY <1>1, <1>2

LEMMA RolledBack ==
    ASSUME NEW s \in SessionType, NEW p \in PaidType, NEW l \in LostType,
           SessionInv(s, p, l), s.pc = "rollback", NEW t, t = AfterFailedPreConsume(s, s.err),
           NEW z, NEW m,
           \/ z = [p EXCEPT !.token = @ + (-s.tokenConsumed)] /\ m = l
           \/ z = p /\ m = [fund |-> l.fund + 0, token |-> l.token + s.tokenConsumed]
    PROVE  t \in SessionType /\ z \in PaidType /\ m \in LostType /\ SessionInv(t, z, m)
<1>1. t \in SessionType
  BY ZenonT(60) DEF PC, AfterFailedPreConsume
<1>2. z \in PaidType
  OBVIOUS
<1>3. m \in LostType
  OBVIOUS
<1>4. SessionInv(t, z, m)
  BY <1>1, <1>2, <1>3 DEF AfterFailedPreConsume
<1> QED BY <1>1, <1>2, <1>3, <1>4

LEMMA ReserveCharged ==
    ASSUME NEW s \in SessionType, NEW p \in PaidType, NEW l \in LostType,
           SessionInv(s, p, l), s.pc = "ready", NEW d \in Nat, d > 0,
           NEW n \in 0..MaxReserves,
           NEW c \in Nat, c = IF s.source = "wallet" THEN s.consumed + d ELSE s.consumed,
           NEW t, t = ReservingSession(s, n, d, c),
           NEW z, \/ s.source = "wallet" /\ z = [p EXCEPT !.wallet = @ + d]
                  \/ s.source = "subscription" /\ z = [p EXCEPT !.sub = @ + d]
    PROVE  t \in SessionType /\ z \in PaidType /\ SessionInv(t, z, l)
<1>1. t \in SessionType
  <2> HIDE DEF SessionInv
  <2>1. PICK g \in PC, a \in Int : g = "resToken" /\ a = d
    BY DEF PC
  <2>2. t = [s EXCEPT !.reserves = n, !.pc = g, !.amount = a, !.consumed = c]
    BY <2>1
  <2> QED BY <2>2, ZenonT(60)
<1>2. z \in PaidType
  OBVIOUS
<1>3. SessionInv(t, z, l)
  <2>1. CASE s.source = "wallet" /\ z = [p EXCEPT !.wallet = @ + d]
    BY <1>1, <1>2, <2>1
  <2>2. CASE s.source = "subscription" /\ z = [p EXCEPT !.sub = @ + d]
    BY <1>1, <1>2, <2>2
  <2> QED BY <2>1, <2>2
<1> QED BY <1>1, <1>2, <1>3

LEMMA ReserveRefused ==
    ASSUME NEW s \in SessionType, NEW p \in PaidType, NEW l \in LostType,
           SessionInv(s, p, l), s.pc = "ready", s.reserves < MaxReserves,
           NEW t, t = [s EXCEPT !.reserves = @ + 1]
    PROVE  t \in SessionType /\ SessionInv(t, p, l)
<1>1. t \in SessionType
  <2> HIDE DEF SessionInv
  <2>1. PICK n \in 0..MaxReserves : n = s.reserves + 1
    BY BillingAssumption
  <2>2. t = [s EXCEPT !.reserves = n]
    BY <2>1
  <2> QED BY <2>2
<1>2. SessionInv(t, p, l)
  BY <1>1
<1> QED BY <1>1, <1>2

LEMMA ReserveChecked ==
    ASSUME NEW s \in SessionType, NEW p \in PaidType, NEW l \in LostType,
           SessionInv(s, p, l), s.pc \in {"resToken", "resDec"}, ~s.prof.playground,
           NEW c \in {"resRollback", "resDec"}, NEW t, t = [s EXCEPT !.pc = c]
    PROVE  t \in SessionType /\ SessionInv(t, p, l)
<1>1. t \in SessionType
  BY DEF PC
<1>2. SessionInv(t, p, l)
  BY <1>1
<1> QED BY <1>1, <1>2

LEMMA ReserveRolledBack ==
    ASSUME NEW s \in SessionType, NEW p \in PaidType, NEW l \in LostType,
           SessionInv(s, p, l), s.pc = "resRollback",
           NEW t, t = RolledBackSession(s),
           NEW z, \/ s.source = "wallet" /\ z = [p EXCEPT !.wallet = @ + (-s.amount)]
                  \/ s.source = "subscription" /\ z = [p EXCEPT !.sub = @ + (-s.amount)]
    PROVE  t \in SessionType /\ z \in PaidType /\ SessionInv(t, z, l)
<1>1. t \in SessionType
  <2>1. s.source = "wallet" => s.consumed - s.amount \in Nat
    OBVIOUS
  <2> HIDE DEF SessionInv
  <2>2. PICK g \in PC, a \in Int, c \in Nat :
           g = "ready" /\ a = 0 /\ c = IF s.source = "wallet" THEN s.consumed - s.amount ELSE s.consumed
    BY <2>1 DEF PC
  <2>3. t = [s EXCEPT !.pc = g, !.amount = a, !.consumed = c]
    BY <2>2
  <2> QED BY <2>3, ZenonT(60)
<1>2. z \in PaidType
  OBVIOUS
<1>3. SessionInv(t, z, l)
  BY <1>1, <1>2
<1> QED BY <1>1, <1>2, <1>3

LEMMA ReserveStranded ==
    ASSUME NEW s \in SessionType, NEW p \in PaidType, NEW l \in LostType,
           SessionInv(s, p, l), s.pc = "resRollback",
           NEW t, t = StrandedSession(s),
           NEW f \in Int, f = IF s.source = "wallet" THEN 0 ELSE s.amount,
           NEW m, m = [fund |-> l.fund + f, token |-> l.token + 0]
    PROVE  t \in SessionType /\ m \in LostType /\ SessionInv(t, p, m)
<1>1. t \in SessionType
  <2> HIDE DEF SessionInv
  <2>1. PICK g \in PC, a \in Int : g = "ready" /\ a = 0
    BY DEF PC
  <2>2. t = [s EXCEPT !.pc = g, !.amount = a]
    BY <2>1
  <2> QED BY <2>2, ZenonT(60)
<1>2. m \in LostType
  OBVIOUS
<1>3. SessionInv(t, p, m)
  BY <1>1, <1>2
<1> QED BY <1>1, <1>2, <1>3

LEMMA SettledEqual ==
    ASSUME NEW s \in SessionType, NEW p \in PaidType, NEW l \in LostType,
           SessionInv(s, p, l), s.pc = "ready", NEW n \in Nat, n = s.preConsumed, NEW k \in Int,
           NEW t, t = SettledSession(s, n, k)
    PROVE  t \in SessionType /\ SessionInv(t, p, l)
<1>1. t \in SessionType
  <2> HIDE DEF SessionInv
  <2> QED BY DEF PC
<1>2. SessionInv(t, p, l)
  BY <1>1
<1> QED BY <1>1, <1>2

LEMMA FundingChargedPlayground ==
    ASSUME NEW s \in SessionType, NEW p \in PaidType, NEW l \in LostType,
           SessionInv(s, p, l), s.pc = "ready", s.prof.playground,
           NEW n \in Nat, NEW d \in Int, d = n - s.preConsumed,
           NEW t, t = FundedSession(s, n, d),
           NEW z, \/ s.source = "wallet" /\ z = [p EXCEPT !.wallet = @ + d]
                  \/ s.source = "subscription" /\ z = [p EXCEPT !.sub = @ + d]
    PROVE  t \in SessionType /\ z \in PaidType /\ SessionInv(t, z, l)
<1>1. t \in SessionType
  <2> HIDE DEF SessionInv
  <2> QED BY DEF PC
<1>2. z \in PaidType
  OBVIOUS
<1>3. SessionInv(t, z, l)
  <2>1. CASE s.source = "wallet" /\ z = [p EXCEPT !.wallet = @ + d]
    BY <1>1, <1>2, <2>1
  <2>2. CASE s.source = "subscription" /\ z = [p EXCEPT !.sub = @ + d]
    BY <1>1, <1>2, <2>2
  <2> QED BY <2>1, <2>2
<1> QED BY <1>1, <1>2, <1>3

LEMMA FundingCharged ==
    ASSUME NEW s \in SessionType, NEW p \in PaidType, NEW l \in LostType,
           SessionInv(s, p, l), s.pc = "ready", ~s.prof.playground,
           NEW n \in Nat, NEW d \in Int, d = n - s.preConsumed,
           NEW t, t = FundedSession(s, n, d),
           NEW z, \/ s.source = "wallet" /\ z = [p EXCEPT !.wallet = @ + d]
                  \/ s.source = "subscription" /\ z = [p EXCEPT !.sub = @ + d]
    PROVE  t \in SessionType /\ z \in PaidType /\ SessionInv(t, z, l)
<1>1. t \in SessionType
  <2> HIDE DEF SessionInv
  <2> QED BY DEF PC
<1>2. z \in PaidType
  <2> HIDE DEF SessionInv
  <2> QED OBVIOUS
<1>3. SessionInv(t, z, l)
  <2>1. CASE s.source = "wallet" /\ z = [p EXCEPT !.wallet = @ + d]
    BY <1>1, <1>2, <2>1
  <2>2. CASE s.source = "subscription" /\ z = [p EXCEPT !.sub = @ + d]
    BY <1>1, <1>2, <2>2
  <2> QED BY <2>1, <2>2
<1> QED BY <1>1, <1>2, <1>3

LEMMA FundingFailed ==
    ASSUME NEW s \in SessionType, NEW p \in PaidType, NEW l \in LostType,
           SessionInv(s, p, l), s.pc = "ready", NEW n \in Nat, NEW d \in Int,
           NEW t, t = UnsettledSession(s, n, d)
    PROVE  t \in SessionType /\ SessionInv(t, p, l)
<1>1. t \in SessionType
  <2> HIDE DEF SessionInv
  <2> QED BY DEF PC
<1>2. SessionInv(t, p, l)
  BY <1>1
<1> QED BY <1>1, <1>2

LEMMA TokenSettled ==
    ASSUME NEW s \in SessionType, NEW p \in PaidType, NEW l \in LostType,
           SessionInv(s, p, l), s.pc = "setToken", NEW t, t = TokenSettledSession(s),
           NEW z, NEW m,
           \/ z = [p EXCEPT !.token = @ + s.amount] /\ m = l
           \/ z = p /\ m = [fund |-> l.fund + 0, token |-> l.token + (-s.amount)]
    PROVE  t \in SessionType /\ z \in PaidType /\ m \in LostType /\ SessionInv(t, z, m)
<1>1. t \in SessionType
  BY DEF PC
<1>2. z \in PaidType
  OBVIOUS
<1>3. m \in LostType
  OBVIOUS
<1>4. SessionInv(t, z, m)
  BY <1>1, <1>2, <1>3
<1> QED BY <1>1, <1>2, <1>3, <1>4

LEMMA RefundBegun ==
    ASSUME NEW s \in SessionType, NEW p \in PaidType, NEW l \in LostType,
           SessionInv(s, p, l), s.pc = "ready", NEW b \in BOOLEAN, b = NeedsRefund(s),
           NEW t, t = RefundingSession(s, b)
    PROVE  t \in SessionType /\ SessionInv(t, p, l)
<1>1. t \in SessionType
  <2> HIDE DEF SessionInv
  <2>1. CASE b = TRUE
    BY <2>1, ZenonT(60) DEF PC, BG
  <2>2. CASE b = FALSE
    BY <2>2 DEF PC, BG
  <2> QED BY <2>1, <2>2
<1>2. SessionInv(t, p, l)
  BY <1>1 DEF NeedsRefund
<1> QED BY <1>1, <1>2

LEMMA WalletRefunded ==
    ASSUME NEW s \in SessionType, NEW p \in PaidType, NEW l \in LostType,
           SessionInv(s, p, l), s.bg = "fund", s.source = "wallet",
           NEW t, t = RefundedSession(s, "token"),
           NEW z, NEW m,
           \/ z = [p EXCEPT !.wallet = @ + (-s.consumed)] /\ m = l
           \/ z = p /\ m = [fund |-> l.fund + s.consumed, token |-> l.token + 0]
    PROVE  t \in SessionType /\ z \in PaidType /\ m \in LostType /\ SessionInv(t, z, m)
<1>1. t \in SessionType
  BY DEF BG
<1>2. z \in PaidType
  OBVIOUS
<1>3. m \in LostType
  OBVIOUS
<1>5. /\ t.bg = "token" /\ t.attempt = s.attempt /\ t.returned = s.returned
      /\ t.unmarked = s.unmarked /\ t.pc = s.pc /\ t.source = s.source /\ t.consumed = s.consumed
      /\ t.preConsumed = s.preConsumed /\ t.extraReserved = s.extraReserved
      /\ t.settled = s.settled /\ t.refunded = s.refunded /\ t.tokenConsumed = s.tokenConsumed
      /\ t.prof = s.prof /\ t.fundingSettled = s.fundingSettled /\ t.actual = s.actual
      /\ t.amount = s.amount
  BY DEF SessionType
<1>6. /\ s.pc = "done" /\ s.refunded /\ ~s.settled /\ s.returned = 0
      /\ s.consumed \in Nat /\ p.sub = 0 /\ p.wallet = s.consumed
  BY DEF SessionType
<1>4. SessionInv(t, z, m)
  <2>1. CASE z = [p EXCEPT !.wallet = @ + (-s.consumed)] /\ m = l
    <3>1. z.wallet = 0 /\ z.sub = p.sub /\ z.token = p.token
      BY <1>6, <2>1
    <3> QED BY <1>5, <1>6, <2>1, <3>1
  <2>2. CASE z = p /\ m = [fund |-> l.fund + s.consumed, token |-> l.token + 0]
    BY <1>1, <1>3, <2>2
  <2> QED BY <2>1, <2>2
<1> QED BY <1>1, <1>2, <1>3, <1>4

(* One attempt of the subscription's refund: it succeeds, it gives the amount back
   and returns an error, or it fails.  The goroutine goes on at c in attempt i; n
   and k are the counts of refunds and of unreported ones. *)
Attempted(s, p, l, c, i, n, k, z, m) ==
    /\ i \in 0..2 /\ n \in 0..3 /\ k \in 0..3
    /\ c = "fund" => i = s.attempt + 1
    /\ c # "fund" => c = IF s.extraReserved > 0 THEN "extra" ELSE "token"
    /\ \/ /\ z = [p EXCEPT !.sub = @ + (-s.consumed)] /\ m = l /\ n = s.returned + 1
          /\ k = s.unmarked + 1 \/ (c # "fund" /\ k = s.unmarked)
       \/ /\ z = p /\ n = s.returned /\ k = s.unmarked
          /\ IF c # "fund" /\ s.returned = 0
             THEN m = [fund |-> l.fund + s.consumed, token |-> l.token + 0]
             ELSE m = l

LEMMA SubscriptionRefunded ==
    ASSUME NEW s \in SessionType, NEW p \in PaidType, NEW l \in LostType,
           SessionInv(s, p, l), s.bg = "fund", s.source = "subscription",
           NEW c \in {"fund", "extra", "token"},
           NEW i, NEW n, NEW k, NEW t, t = RetriedSession(s, c, i, n, k),
           NEW z, NEW m, Attempted(s, p, l, c, i, n, k, z, m)
    PROVE  t \in SessionType /\ z \in PaidType /\ m \in LostType /\ SessionInv(t, z, m)
<1> USE DEF Attempted
<1>1. t \in SessionType
  <2> HIDE DEF SessionInv
  <2> QED BY DEF BG
<1>2. z \in PaidType
  OBVIOUS
<1>3. m \in LostType
  OBVIOUS
<1>4. /\ t.bg = c /\ t.attempt = i /\ t.returned = n /\ t.unmarked = k
      /\ t.pc = s.pc /\ t.source = s.source /\ t.consumed = s.consumed
      /\ t.preConsumed = s.preConsumed /\ t.extraReserved = s.extraReserved
      /\ t.settled = s.settled /\ t.refunded = s.refunded /\ t.tokenConsumed = s.tokenConsumed
      /\ t.prof = s.prof /\ t.fundingSettled = s.fundingSettled /\ t.actual = s.actual
      /\ t.amount = s.amount
  BY DEF SessionType
<1>5. /\ s.pc = "done" /\ s.refunded /\ ~s.settled
      /\ s.returned \in 0..2 /\ s.unmarked = s.returned
      /\ s.consumed \in Nat /\ s.preConsumed \in Nat /\ s.extraReserved \in Nat
      /\ s.preConsumed = s.consumed + s.extraReserved
      /\ p.wallet = 0 /\ p.sub = l.fund + Unreturned(s) - Repeated(s)
      /\ l.fund \in Int /\ l.fund >= 0
  BY DEF SessionType
<1>6. OpeningInv(t, z, m) /\ OpenInv(t, z, m) /\ SettledInv(t, z, m)
  BY <1>4, <1>5
<1>7. RefundInv(t, z, m) /\ LedgerInv(t, z, m)
  <2>1. CASE s.returned = 0
    BY <1>2, <1>3, <1>4, <1>5, <2>1, SMTT(30)
  <2>2. CASE s.returned = 1
    BY <1>2, <1>3, <1>4, <1>5, <2>2
  <2>3. CASE s.returned = 2
    BY <1>2, <1>3, <1>4, <1>5, <2>3
  <2> QED BY <1>5, <2>1, <2>2, <2>3
<1>8. SessionInv(t, z, m)
  BY <1>6, <1>7
<1> QED BY <1>1, <1>2, <1>3, <1>8

LEMMA ExtraRefunded ==
    ASSUME NEW s \in SessionType, NEW p \in PaidType, NEW l \in LostType,
           SessionInv(s, p, l), s.bg = "extra", NEW t, t = RefundedSession(s, "token"),
           NEW z, NEW m,
           \/ s.source = "subscription" /\ z = [p EXCEPT !.sub = @ + (-s.extraReserved)] /\ m = l
           \/ z = p /\ m = [fund |-> l.fund + s.extraReserved, token |-> l.token + 0]
    PROVE  t \in SessionType /\ z \in PaidType /\ m \in LostType /\ SessionInv(t, z, m)
<1>1. t \in SessionType
  BY DEF BG
<1>2. z \in PaidType
  OBVIOUS
<1>3. m \in LostType
  OBVIOUS
<1>4. SessionInv(t, z, m)
  BY <1>1, <1>2, <1>3
<1> QED BY <1>1, <1>2, <1>3, <1>4

LEMMA TokenRefunded ==
    ASSUME NEW s \in SessionType, NEW p \in PaidType, NEW l \in LostType,
           SessionInv(s, p, l), s.bg = "token", NEW t, t = RefundedSession(s, "none"),
           NEW z, NEW m,
           \/ z = [p EXCEPT !.token = @ + (-Tok(s, s.tokenConsumed))] /\ m = l
           \/ z = p /\ m = [fund |-> l.fund + 0, token |-> l.token + Tok(s, s.tokenConsumed)]
    PROVE  t \in SessionType /\ z \in PaidType /\ m \in LostType /\ SessionInv(t, z, m)
<1>1. t \in SessionType
  BY DEF BG
<1>2. z \in PaidType
  OBVIOUS
<1>3. m \in LostType
  OBVIOUS
<1>4. SessionInv(t, z, m)
  BY <1>1, <1>2, <1>3
<1> QED BY <1>1, <1>2, <1>3, <1>4

LEMMA CrashedSession ==
    ASSUME NEW s \in SessionType, NEW p \in PaidType, NEW l \in LostType,
           SessionInv(s, p, l), NEW t, t = [s EXCEPT !.pc = "crashed", !.bg = "none"]
    PROVE  t \in SessionType /\ SessionInv(t, p, l)
<1>1. t \in SessionType
  BY ZenonT(60) DEF PC, BG
<1>2. SessionInv(t, p, l)
  BY <1>1
<1> QED BY <1>1, <1>2

HIDE DEF SessionType, PaidType, LostType, SessionInv, OpeningInv, OpenInv, SettledInv,
         RefundInv, LedgerInv, Opening, TokenHeld, Reserving, Tok, Pending, Stranded,
         Unreturned, ReservingSession, RolledBackSession, StrandedSession, SettledSession, FundedSession, UnsettledSession,
        TokenSettledSession, RefundingSession, RefundedSession, RetriedSession, AfterFundingSettled, Repeated

-----------------------------------------------------------------------------
(* Every action preserves the invariant. *)

LEMMA QuietStep ==
    ASSUME IInv, NEW r \in Requests, NEW t \in SessionType, SessionInv(t, paid[r], lost[r]),
           Become(r, t), UNCHANGED <<stores, history>>
    PROVE  IInv'
BY Current, Lift, QuietMoves

(* A session that has no source yet may move on to another try or end. *)
LEMMA OpeningStep ==
    ASSUME IInv, NEW r \in Requests, sess[r].pc \in Opening,
           NEW c \in {"wallet", "rejected"}, NEW e \in {"none", "insufficient", "other"},
           \/ Become(r, [sess[r] EXCEPT !.pc = c])
           \/ Become(r, [sess[r] EXCEPT !.pc = c, !.err = e]),
           UNCHANGED <<stores, history>>
    PROVE  IInv'
<1>1. PICK v : v = [sess[r] EXCEPT !.pc = c, !.err = e]
  OBVIOUS
<1>2. PICK w : w = [sess[r] EXCEPT !.pc = c]
  BY SMTT(30)
<1>3. v \in SessionType /\ SessionInv(v, paid[r], lost[r])
  BY <1>1, Current, OpeningStays, ZenonT(60)
<1>4. w \in SessionType /\ SessionInv(w, paid[r], lost[r])
  BY <1>2, Current, OpeningContinues
<1> QED BY <1>1, <1>2, <1>3, <1>4, QuietStep

LEMMA StartStep ==
    ASSUME IInv, NEW r \in Requests, NEW f \in Profiles, NEW q \in PreQuotas, Start(r, f, q)
    PROVE  IInv'
<1>1. PICK k \in Int : k = token
  BY Current DEF RowsOK
<1>2. PICK s \in SessionType : s = sess[r]
  BY Current
<1>3. PICK u : u = [s EXCEPT !.prof = f, !.asked = q, !.tokenQuota = k]
  OBVIOUS
<1>4. s.pc = "idle" /\ f \in ProfileType /\ q \in Nat
  BY <1>2, BillingAssumption DEF Start, At
<1>5. u \in SessionType /\ u.pc = "idle" /\ SessionInv(u, paid[r], lost[r])
  <2>1. PICK p \in PaidType, l \in LostType : p = paid[r] /\ l = lost[r] /\ SessionInv(s, p, l)
    BY <1>2, Current
  <2>3. u.returned = s.returned /\ u.consumed = s.consumed
    BY <1>3 DEF SessionType
  <2>4. Repeated(u) = Repeated(s)
    BY <2>3 DEF Repeated
  <2>2. u \in SessionType /\ u.pc = "idle" /\ SessionInv(u, p, l)
    BY <1>3, <1>4, <2>1, <2>4, ZenonT(60)
       DEF PC, SessionType, PaidType, LostType, SessionInv, OpeningInv, OpenInv, SettledInv,
           RefundInv, LedgerInv, Opening, TokenHeld, Reserving, Tok, Pending
  <2> QED BY <2>1, <2>2
<1>6. PICK v : v = [u EXCEPT !.pc = "wallet"]
  OBVIOUS
<1>7. PICK w : w = [u EXCEPT !.pc = "hasSub"]
  OBVIOUS
<1>8. v \in SessionType /\ SessionInv(v, paid[r], lost[r])
  BY <1>5, <1>6, Current, OpeningContinues DEF Opening
<1>9. w \in SessionType /\ SessionInv(w, paid[r], lost[r])
  BY <1>5, <1>7, Current, OpeningContinues DEF Opening
<1>10. SubscriptionSession(u) \in SessionType /\ SessionInv(SubscriptionSession(u), paid[r], lost[r])
  BY <1>5, Current, SubscriptionSessionOpening DEF Opening
<1>11. /\ \/ Become(r, SubscriptionSession(u)) \/ Become(r, v) \/ Become(r, w)
       /\ UNCHANGED <<stores, history>>
  BY <1>1, <1>2, <1>3, <1>6, <1>7 DEF Start
<1> QED BY <1>8, <1>9, <1>10, <1>11, QuietStep

LEMMA SubscriptionStep ==
    ASSUME IInv, NEW r \in Requests, sess[r].pc \in Opening,
           Become(r, SubscriptionSession(sess[r])), UNCHANGED <<stores, history>>
    PROVE  IInv'
BY Current, SubscriptionSessionOpening, QuietStep

LEMMA FailedStep ==
    ASSUME IInv, NEW r \in Requests, sess[r].pc \in Opening \cup TokenHeld,
           Tok(sess[r], sess[r].tokenConsumed) = 0,
           NEW e \in {"none", "insufficient", "other"},
           Become(r, AfterFailedPreConsume(sess[r], e)),
           UNCHANGED <<stores, history>> \/ FailedWrite(r, 0, 0)
    PROVE  IInv'
<1>1. PICK t : t = AfterFailedPreConsume(sess[r], e)
  OBVIOUS
<1>2. t \in SessionType /\ SessionInv(t, paid[r], lost[r])
  BY <1>1, Current, FailedSession
<1>3. CASE UNCHANGED <<stores, history>>
  BY <1>1, <1>2, <1>3, QuietStep
<1>4. CASE FailedWrite(r, 0, 0)
  <2>1. lost[r] = [fund |-> lost[r].fund + 0, token |-> lost[r].token + 0]
    BY Current DEF LostType
  <2>2. Moves(r, t, paid[r], lost[r])
    BY <1>1, <1>4, <2>1, FailedWriteMoves, SMTT(30)
  <2> QED BY <1>2, <2>2, Current, Lift
<1> QED BY <1>3, <1>4

LEMMA HasActiveStep ==
    ASSUME IInv, NEW r \in Requests, HasActive(r)
    PROVE  IInv'
BY SubscriptionStep, OpeningStep, ZenonT(60) DEF HasActive, At, Opening

LEMMA CheckOverflowStep ==
    ASSUME IInv, NEW r \in Requests, CheckOverflow(r)
    PROVE  IInv'
BY OpeningStep DEF CheckOverflow, At, Opening

LEMMA TryWalletStep ==
    ASSUME IInv, NEW r \in Requests, TryWallet(r)
    PROVE  IInv'
<1>1. sess[r].pc \in Opening
  BY DEF TryWallet, At, Opening
<1>2. CASE Become(r, WalletSession(sess[r], wallet))
  BY <1>1, <1>2, Current, WalletSessionOpening, QuietStep, SMTT(30) DEF TryWallet
<1>3. CASE ~Become(r, WalletSession(sess[r], wallet))
  BY <1>1, <1>3, SubscriptionStep, OpeningStep DEF TryWallet
<1> QED BY <1>2, <1>3

LEMMA PreConsumeTokenStep ==
    ASSUME IInv, NEW r \in Requests, PreConsumeToken(r)
    PROVE  IInv'
<1>1. PICK s \in SessionType : s = sess[r]
  BY Current
<1>2. s.pc = "preToken" /\ SessionInv(s, paid[r], lost[r]) /\ UNCHANGED <<stores, history>>
  BY <1>1, Current DEF PreConsumeToken, At
<1>3. CASE s.prof.playground
  <2>1. PICK t : t = [s EXCEPT !.pc = "preFund", !.tokenConsumed = s.amount]
    OBVIOUS
  <2>2. Become(r, t)
    BY <1>1, <1>3, <2>1 DEF PreConsumeToken
  <2>3. t \in SessionType /\ SessionInv(t, paid[r], lost[r])
    BY <1>2, <1>3, <2>1, Current, PlaygroundToken
  <2> QED BY <1>2, <2>2, <2>3, QuietStep
<1>4. CASE ~s.prof.playground /\ ~s.prof.unlimited /\ token < s.amount
  <2>1. Become(r, AfterFailedPreConsume(sess[r], "other"))
    BY <1>1, <1>4 DEF PreConsumeToken
  <2>2. s.pc \in Opening \cup TokenHeld /\ Tok(s, s.tokenConsumed) = 0
    BY <1>2 DEF SessionInv, OpeningInv, Opening, TokenHeld, Tok
  <2> QED BY <1>1, <1>2, <2>1, <2>2, FailedStep
<1>5. CASE ~s.prof.playground /\ ~(~s.prof.unlimited /\ token < s.amount)
  <2>1. PICK t : t = [s EXCEPT !.pc = "decToken"]
    OBVIOUS
  <2>2. Become(r, t)
    BY <1>1, <1>5, <2>1 DEF PreConsumeToken
  <2>3. t \in SessionType /\ SessionInv(t, paid[r], lost[r])
    BY <1>2, <1>5, <2>1, Current, TokenChecked
  <2> QED BY <1>2, <2>2, <2>3, QuietStep
<1> QED BY <1>3, <1>4, <1>5

LEMMA DecreaseTokenStep ==
    ASSUME IInv, NEW r \in Requests, DecreaseToken(r)
    PROVE  IInv'
<1>1. PICK s \in SessionType : s = sess[r]
  BY Current
<1>2. s.pc = "decToken" /\ SessionInv(s, paid[r], lost[r]) /\ s.amount \in Int
  BY <1>1, Current DEF DecreaseToken, At, SessionType
<1>3. PICK t : t = [s EXCEPT !.pc = "preFund", !.tokenConsumed = s.amount]
  OBVIOUS
<1>4. PICK p \in PaidType, l \in LostType : p = paid[r] /\ l = lost[r]
  BY Current
<1>a. PICK z : z = [p EXCEPT !.token = @ + s.amount]
  OBVIOUS
<1>5. CASE DebitToken(r, s.amount) /\ Become(r, t)
  <2>1. Moves(r, t, z, lost[r])
    BY <1>2, <1>4, <1>a, <1>5, DebitTokenMoves
  <2>2. t \in SessionType /\ z \in PaidType /\ SessionInv(t, z, lost[r])
    <3>1. SessionInv(s, p, l)
      BY <1>2, <1>4
    <3>2. t \in SessionType /\ z \in PaidType /\ SessionInv(t, z, l)
      BY <1>2, <1>3, <1>4, <1>a, <3>1, TokenCharged
    <3> QED BY <1>4, <3>2
  <2> QED BY <2>1, <2>2, Current, Lift
<1>6. CASE FailedWrite(r, 0, 0) /\ Become(r, AfterFailedPreConsume(s, "other"))
  <2>1. s.pc \in Opening \cup TokenHeld /\ Tok(s, s.tokenConsumed) = 0
    BY <1>2 DEF SessionInv, OpeningInv, Opening, TokenHeld, Tok
  <2> QED BY <1>1, <1>6, <2>1, FailedStep
<1> QED BY <1>1, <1>3, <1>5, <1>6 DEF DecreaseToken

(* A failed write that owed nobody anything changes no ledger entry. *)
LEMMA FailedQuietStep ==
    ASSUME IInv, NEW r \in Requests, NEW t \in SessionType, SessionInv(t, paid[r], lost[r]),
           Become(r, t), FailedWrite(r, 0, 0)
    PROVE  IInv'
<1>1. lost[r] = [fund |-> lost[r].fund + 0, token |-> lost[r].token + 0]
  BY Current DEF LostType
<1>2. Moves(r, t, paid[r], lost[r])
  BY <1>1, FailedWriteMoves
<1> QED BY <1>2, Current, Lift

LEMMA FundingRefusedStep ==
    ASSUME IInv, NEW r \in Requests, sess[r].pc = "preFund",
           NEW e \in {"none", "insufficient", "other"},
           Become(r, FundingRefused(sess[r], e)),
           UNCHANGED <<stores, history>> \/ FailedWrite(r, 0, 0)
    PROVE  IInv'
<1>1. PICK s \in SessionType : s = sess[r]
  BY Current
<1>2. SessionInv(s, paid[r], lost[r]) /\ s.tokenConsumed \in Nat
  BY <1>1, Current DEF SessionType
<1>3. CASE s.tokenConsumed > 0 /\ ~s.prof.playground
  <2>1. PICK t : t = [s EXCEPT !.pc = "rollback", !.err = e]
    OBVIOUS
  <2>2. Become(r, t)
    BY <1>1, <1>3, <2>1 DEF FundingRefused
  <2>3. t \in SessionType /\ SessionInv(t, paid[r], lost[r])
    <3>1. PICK p \in PaidType, l \in LostType : p = paid[r] /\ l = lost[r]
      BY Current
    <3>2. SessionInv(s, p, l) /\ s.pc = "preFund"
      BY <1>1, <1>2, <3>1, SMTT(30)
    <3>3. t \in SessionType /\ SessionInv(t, p, l)
      BY <1>3, <2>1, <3>2, RollbackBegun
    <3> QED BY <3>1, <3>3
  <2> QED BY <2>2, <2>3, QuietStep, FailedQuietStep
<1>4. CASE ~(s.tokenConsumed > 0 /\ ~s.prof.playground)
  <2>1. Become(r, AfterFailedPreConsume(sess[r], e))
    BY <1>1, <1>4 DEF FundingRefused
  <2>2. sess[r].pc \in Opening \cup TokenHeld /\ Tok(sess[r], sess[r].tokenConsumed) = 0
    BY <1>1, <1>2, <1>4 DEF TokenHeld, Tok
  <2> QED BY <2>1, <2>2, FailedStep
<1> QED BY <1>3, <1>4

LEMMA PreConsumeFundingStep ==
    ASSUME IInv, NEW r \in Requests, PreConsumeFunding(r)
    PROVE  IInv'
<1>1. PICK s \in SessionType : s = sess[r]
  BY Current
<1>2. s.pc = "preFund" /\ SessionInv(s, paid[r], lost[r]) /\ s.amount \in Int
  BY <1>1, Current DEF PreConsumeFunding, At, SessionType
<1>3. CASE DebitFunding(r, s.amount) /\ Become(r, Opened(s))
  <2>1. PICK t : t = Opened(s)
    OBVIOUS
  <2>2. PICK z : /\ \/ s.source = "wallet" /\ z = [paid[r] EXCEPT !.wallet = @ + s.amount]
                    \/ s.source = "subscription" /\ z = [paid[r] EXCEPT !.sub = @ + s.amount]
                 /\ Moves(r, t, z, lost[r])
    BY <1>1, <1>2, <1>3, <2>1, DebitFundingMoves
  <2>3. t \in SessionType /\ z \in PaidType /\ SessionInv(t, z, lost[r])
    BY <1>2, <2>1, <2>2, Current, OpenedSession
  <2> QED BY <2>2, <2>3, Current, Lift
<1>4. CASE Become(r, FundingRefused(s, "insufficient")) /\ UNCHANGED <<stores, history>>
  BY <1>1, <1>2, <1>4, FundingRefusedStep
<1>5. CASE /\ FailedWrite(r, 0, 0)
           /\ \E e \in {"other", "insufficient"} : Become(r, FundingRefused(s, e))
  BY <1>1, <1>2, <1>5, FundingRefusedStep
<1> QED BY <1>1, <1>3, <1>4, <1>5 DEF PreConsumeFunding

LEMMA RollbackTokenStep ==
    ASSUME IInv, NEW r \in Requests, RollbackToken(r)
    PROVE  IInv'
<1>1. PICK s \in SessionType : s = sess[r]
  BY Current
<1>2. /\ s.pc = "rollback" /\ SessionInv(s, paid[r], lost[r])
      /\ s.tokenConsumed \in Int /\ -s.tokenConsumed \in Int
  BY <1>1, Current DEF RollbackToken, At, SessionType
<1>3. PICK t : t = AfterFailedPreConsume(s, s.err)
  OBVIOUS
<1>4. PICK z, m : /\ \/ z = [paid[r] EXCEPT !.token = @ + (-s.tokenConsumed)] /\ m = lost[r]
                     \/ z = paid[r] /\ m = [fund |-> lost[r].fund + 0,
                                            token |-> lost[r].token + s.tokenConsumed]
                  /\ Moves(r, t, z, m)
  <2>1. Become(r, t)
    BY <1>1, <1>3 DEF RollbackToken
  <2>2. CASE DebitToken(r, -s.tokenConsumed)
    BY <1>2, <2>1, <2>2, DebitTokenMoves
  <2>3. CASE FailedWrite(r, 0, s.tokenConsumed)
    BY <1>2, <2>1, <2>3, FailedTokenMoves
  <2> QED BY <1>1, <2>2, <2>3 DEF RollbackToken
<1>5. t \in SessionType /\ z \in PaidType /\ m \in LostType /\ SessionInv(t, z, m)
  BY <1>2, <1>3, <1>4, Current, RolledBack
<1> QED BY <1>4, <1>5, Lift
LEMMA ReserveFundingStep ==
    ASSUME IInv, NEW r \in Requests, NEW target \in ReserveTargets, ReserveFunding(r, target)
    PROVE  IInv'
<1>1. PICK s \in SessionType, p \in PaidType, l \in LostType :
         s = sess[r] /\ p = paid[r] /\ l = lost[r] /\ SessionInv(s, p, l)
  BY Current
<1>2. PICK d \in Nat : d = target - s.preConsumed /\ d > 0
  BY <1>1, BillingAssumption DEF ReserveFunding, SessionType
<1>3. s.pc = "ready" /\ s.reserves < MaxReserves /\ d \in Int
  BY <1>1 DEF ReserveFunding, At
<1>4. PICK t : t = [s EXCEPT !.reserves = @ + 1]
  OBVIOUS
<1>5. t \in SessionType /\ SessionInv(t, p, l)
  BY <1>1, <1>3, <1>4, ReserveRefused
<1>6. PICK n \in 0..MaxReserves, c \in Nat :
         /\ n = s.reserves + 1
         /\ c = IF s.source = "wallet" THEN s.consumed + d ELSE s.consumed
  BY <1>3, BillingAssumption DEF SessionType
<1>7. PICK u : u = ReservingSession(s, n, d, c)
  OBVIOUS
<1>8. u = [t EXCEPT !.pc = "resToken", !.amount = d,
                    !.consumed = IF s.source = "wallet" THEN @ + d ELSE @]
  BY <1>4, <1>6, <1>7 DEF SessionType, ReservingSession
<1>9. CASE DebitFunding(r, d) /\ Become(r, u)
  <2>1. PICK z : /\ \/ s.source = "wallet" /\ z = [p EXCEPT !.wallet = @ + d]
                    \/ s.source = "subscription" /\ z = [p EXCEPT !.sub = @ + d]
                 /\ Moves(r, u, z, lost[r])
    BY <1>1, <1>3, <1>9, DebitFundingMoves
  <2>2. u \in SessionType /\ z \in PaidType /\ SessionInv(u, z, l)
    BY <1>1, <1>2, <1>3, <1>6, <1>7, <2>1, ReserveCharged
  <2> QED BY <1>1, <2>1, <2>2, Lift
<1>10. CASE Become(r, t) /\ UNCHANGED <<stores, history>>
  BY <1>1, <1>5, <1>10, QuietStep
<1>11. CASE Become(r, t) /\ FailedWrite(r, 0, 0)
  BY <1>1, <1>5, <1>11, FailedQuietStep
<1> QED BY <1>1, <1>2, <1>4, <1>8, <1>9, <1>10, <1>11 DEF ReserveFunding

LEMMA ReserveTokenStep ==
    ASSUME IInv, NEW r \in Requests, ReserveToken(r)
    PROVE  IInv'
<1>1. PICK s \in SessionType, p \in PaidType, l \in LostType :
         s = sess[r] /\ p = paid[r] /\ l = lost[r] /\ SessionInv(s, p, l)
  BY Current
<1>2. s.pc = "resToken" /\ UNCHANGED <<stores, history>>
  BY <1>1 DEF ReserveToken, At
<1>3. CASE s.prof.playground
  <2>1. PICK t : t = Reserved(s)
    OBVIOUS
  <2>2. Become(r, t)
    BY <1>1, <1>3, <2>1 DEF ReserveToken
  <2>3. t \in SessionType /\ SessionInv(t, p, l)
    BY <1>1, <1>2, <1>3, <2>1, ReservedSession
  <2> QED BY <1>1, <1>2, <2>2, <2>3, QuietStep
<1>4. CASE ~s.prof.playground
  <2>1. PICK c \in {"resRollback", "resDec"} : Become(r, [s EXCEPT !.pc = c])
    BY <1>1, <1>4 DEF ReserveToken
  <2>a. PICK t : t = [s EXCEPT !.pc = c] /\ Become(r, t)
    BY <2>1
  <2>2. t \in SessionType /\ SessionInv(t, p, l)
    BY <1>1, <1>2, <1>4, <2>a, ReserveChecked
  <2> QED BY <1>1, <1>2, <2>a, <2>2, QuietStep
<1> QED BY <1>3, <1>4

LEMMA ReserveDecreaseStep ==
    ASSUME IInv, NEW r \in Requests, ReserveDecrease(r)
    PROVE  IInv'
<1>1. PICK s \in SessionType, p \in PaidType, l \in LostType :
         s = sess[r] /\ p = paid[r] /\ l = lost[r] /\ SessionInv(s, p, l)
  BY Current
<1>2. s.pc = "resDec" /\ s.amount \in Int
  BY <1>1 DEF ReserveDecrease, At, SessionType
<1>3. ~s.prof.playground
  BY <1>1, <1>2 DEF SessionInv, OpenInv, Reserving
<1>4. CASE DebitToken(r, s.amount) /\ Become(r, Reserved(s))
  <2>1. PICK t, z : t = Reserved(s) /\ z = [p EXCEPT !.token = @ + s.amount]
    OBVIOUS
  <2>2. Moves(r, t, z, lost[r])
    BY <1>1, <1>2, <1>4, <2>1, DebitTokenMoves
  <2>3. t \in SessionType /\ z \in PaidType /\ SessionInv(t, z, l)
    BY <1>1, <1>2, <1>3, <2>1, ReservedSession
  <2> QED BY <1>1, <2>2, <2>3, Lift
<1>5. CASE FailedWrite(r, 0, 0) /\ Become(r, [s EXCEPT !.pc = "resRollback"])
  <2>1. PICK t : t = [s EXCEPT !.pc = "resRollback"]
    OBVIOUS
  <2>2. t \in SessionType /\ SessionInv(t, p, l)
    BY <1>1, <1>2, <1>3, <2>1, ReserveChecked
  <2> QED BY <1>1, <1>5, <2>1, <2>2, FailedQuietStep
<1> QED BY <1>1, <1>4, <1>5 DEF ReserveDecrease

LEMMA RollbackReserveStep ==
    ASSUME IInv, NEW r \in Requests, RollbackReserve(r)
    PROVE  IInv'
<1>1. PICK s \in SessionType, p \in PaidType, l \in LostType :
         s = sess[r] /\ p = paid[r] /\ l = lost[r] /\ SessionInv(s, p, l)
  BY Current
<1>2. s.pc = "resRollback" /\ s.amount \in Int /\ -s.amount \in Int
  BY <1>1 DEF RollbackReserve, At, SessionType
<1>3. PICK t, u : t = StrandedSession(s) /\ u = RolledBackSession(s)
  OBVIOUS
<1>4. u = [t EXCEPT !.consumed = IF s.source = "wallet" THEN @ - s.amount ELSE @]
  BY <1>3 DEF SessionType, StrandedSession, RolledBackSession
<1>5. CASE DebitFunding(r, -s.amount) /\ Become(r, u)
  <2>1. PICK z : /\ \/ s.source = "wallet" /\ z = [p EXCEPT !.wallet = @ + (-s.amount)]
                    \/ s.source = "subscription" /\ z = [p EXCEPT !.sub = @ + (-s.amount)]
                 /\ Moves(r, u, z, lost[r])
    BY <1>1, <1>2, <1>5, DebitFundingMoves
  <2>2. u \in SessionType /\ z \in PaidType /\ SessionInv(u, z, l)
    BY <1>1, <1>2, <1>3, <2>1, ReserveRolledBack
  <2> QED BY <1>1, <2>1, <2>2, Lift
<1>6. CASE FailedWrite(r, IF s.source = "wallet" THEN 0 ELSE s.amount, 0) /\ Become(r, t)
  <2>1. PICK f \in Int : f = IF s.source = "wallet" THEN 0 ELSE s.amount
    BY <1>2
  <2>2. PICK m : m = [fund |-> l.fund + f, token |-> l.token + 0]
    OBVIOUS
  <2>3. Moves(r, t, paid[r], m)
    BY <1>1, <1>6, <2>1, <2>2, FailedFundMoves
  <2>4. t \in SessionType /\ m \in LostType /\ SessionInv(t, p, m)
    BY <1>1, <1>2, <1>3, <2>1, <2>2, ReserveStranded
  <2> QED BY <1>1, <2>3, <2>4, Lift
<1> QED BY <1>1, <1>3, <1>4, <1>5, <1>6 DEF RollbackReserve, StrandedSession

LEMMA ReadFailedStep ==
    ASSUME IInv, NEW r \in Requests, ReadFailed(r)
    PROVE  IInv'
<1>1. PICK s \in SessionType, p \in PaidType, l \in LostType :
         s = sess[r] /\ p = paid[r] /\ l = lost[r] /\ SessionInv(s, p, l)
  BY Current
<1>2. UNCHANGED <<stores, history>>
  BY DEF ReadFailed
<1>3. CASE s.pc \in {"hasSub", "overflow", "wallet", "preToken"}
           /\ Become(r, AfterFailedPreConsume(s, "other"))
  <2>1. s.pc \in Opening \cup TokenHeld /\ Tok(s, s.tokenConsumed) = 0
    BY <1>1, <1>3 DEF SessionInv, OpeningInv, Opening, TokenHeld, Tok
  <2> QED BY <1>1, <1>2, <1>3, <2>1, FailedStep
<1>4. CASE s.pc = "resToken" /\ ~s.prof.playground /\ Become(r, [s EXCEPT !.pc = "resRollback"])
  <2>1. PICK t : t = [s EXCEPT !.pc = "resRollback"]
    OBVIOUS
  <2>2. t \in SessionType /\ SessionInv(t, p, l)
    BY <1>1, <1>4, <2>1, ReserveChecked
  <2> QED BY <1>1, <1>2, <1>4, <2>1, <2>2, QuietStep
<1> QED BY <1>1, <1>3, <1>4 DEF ReadFailed
LEMMA SettleFundingStep ==
    ASSUME IInv, NEW r \in Requests, NEW n \in ActualQuotas, SettleFunding(r, n)
    PROVE  IInv'
<1>1. PICK s \in SessionType, p \in PaidType, l \in LostType :
         s = sess[r] /\ p = paid[r] /\ l = lost[r] /\ SessionInv(s, p, l)
  BY Current
<1>2. n \in Nat /\ s.pc = "ready"
  BY <1>1, BillingAssumption DEF SettleFunding, At
<1>3. PICK d \in Int : d = n - s.preConsumed
  BY <1>2 DEF SessionType
<1>4. CASE d = 0 /\ Become(r, SettledSession(s, n, d)) /\ UNCHANGED <<stores, history>>
  <2>1. PICK t : t = SettledSession(s, n, d)
    OBVIOUS
  <2>2. n = s.preConsumed
    BY <1>2, <1>3, <1>4 DEF SessionType
  <2>3. t \in SessionType /\ SessionInv(t, p, l)
    BY <1>1, <1>2, <2>1, <2>2, SettledEqual
  <2> QED BY <1>1, <1>4, <2>1, <2>3, QuietStep
<1>5. CASE DebitFunding(r, d) /\ Become(r, FundedSession(s, n, d))
  <2>1. PICK t : t = FundedSession(s, n, d)
    OBVIOUS
  <2>2. PICK z : /\ \/ s.source = "wallet" /\ z = [p EXCEPT !.wallet = @ + d]
                    \/ s.source = "subscription" /\ z = [p EXCEPT !.sub = @ + d]
                 /\ Moves(r, t, z, lost[r])
    BY <1>1, <1>5, <2>1, DebitFundingMoves
  <2>3. t \in SessionType /\ z \in PaidType /\ SessionInv(t, z, l)
    BY <1>1, <1>2, <1>3, <2>1, <2>2, FundingCharged, FundingChargedPlayground
  <2> QED BY <1>1, <2>2, <2>3, Lift
<1>6. CASE /\ Become(r, UnsettledSession(s, n, d))
           /\ UNCHANGED <<stores, history>> \/ FailedWrite(r, 0, 0)
  <2>1. PICK t : t = UnsettledSession(s, n, d)
    OBVIOUS
  <2>2. t \in SessionType /\ SessionInv(t, p, l)
    BY <1>1, <1>2, <2>1, FundingFailed
  <2> QED BY <1>1, <1>6, <2>1, <2>2, QuietStep, FailedQuietStep
<1> QED BY <1>1, <1>3, <1>4, <1>5, <1>6
        DEF SettleFunding, SettledSession, FundedSession, UnsettledSession

LEMMA SettleTokenStep ==
    ASSUME IInv, NEW r \in Requests, SettleToken(r)
    PROVE  IInv'
<1>1. PICK s \in SessionType, p \in PaidType, l \in LostType :
         s = sess[r] /\ p = paid[r] /\ l = lost[r] /\ SessionInv(s, p, l)
  BY Current
<1>2. s.pc = "setToken" /\ s.amount \in Int /\ -s.amount \in Int
  BY <1>1 DEF SettleToken, At, SessionType
<1>3. PICK t : t = TokenSettledSession(s) /\ Become(r, t)
  BY <1>1 DEF SettleToken, TokenSettledSession
<1>4. PICK z, m : /\ \/ z = [p EXCEPT !.token = @ + s.amount] /\ m = l
                     \/ z = p /\ m = [fund |-> l.fund + 0, token |-> l.token + (-s.amount)]
                  /\ Moves(r, t, z, m)
  <2>1. CASE DebitToken(r, s.amount)
    BY <1>1, <1>2, <1>3, <2>1, DebitTokenMoves
  <2>2. CASE FailedWrite(r, 0, -s.amount)
    BY <1>1, <1>2, <1>3, <2>2, FailedTokenMoves
  <2> QED BY <1>1, <2>1, <2>2 DEF SettleToken
<1>5. t \in SessionType /\ z \in PaidType /\ m \in LostType /\ SessionInv(t, z, m)
  BY <1>1, <1>2, <1>3, <1>4, TokenSettled
<1> QED BY <1>4, <1>5, Lift

LEMMA RefundStep ==
    ASSUME IInv, NEW r \in Requests, Refund(r)
    PROVE  IInv'
<1>1. PICK s \in SessionType, p \in PaidType, l \in LostType :
         s = sess[r] /\ p = paid[r] /\ l = lost[r] /\ SessionInv(s, p, l)
  BY Current
<1>2. PICK b \in BOOLEAN : b = NeedsRefund(s)
  BY DEF NeedsRefund
<1>3. PICK t : t = RefundingSession(s, b)
  OBVIOUS
<1>4. s.pc = "ready" /\ Become(r, t) /\ UNCHANGED <<stores, history>>
  BY <1>1, <1>2, <1>3 DEF Refund, At, RefundingSession
<1>5. t \in SessionType /\ SessionInv(t, p, l)
  BY <1>1, <1>2, <1>3, <1>4, RefundBegun
<1> QED BY <1>1, <1>4, <1>5, QuietStep

LEMMA RefundWalletStep ==
    ASSUME IInv, NEW r \in Requests, RefundWallet(r)
    PROVE  IInv'
<1>1. PICK s \in SessionType, p \in PaidType, l \in LostType :
         s = sess[r] /\ p = paid[r] /\ l = lost[r] /\ SessionInv(s, p, l)
  BY Current
<1>2. s.bg = "fund" /\ s.source = "wallet" /\ s.consumed \in Int /\ -s.consumed \in Int
  BY <1>1 DEF RefundWallet, SessionType
<1>3. PICK t : t = RefundedSession(s, "token") /\ Become(r, t)
  BY <1>1, <1>2 DEF RefundWallet, AfterRefund, RefundedSession
<1>4. PICK z, m : /\ \/ z = [p EXCEPT !.wallet = @ + (-s.consumed)] /\ m = l
                     \/ z = p /\ m = [fund |-> l.fund + s.consumed, token |-> l.token + 0]
                  /\ Moves(r, t, z, m)
  <2>1. CASE DebitFunding(r, -s.consumed)
    BY <1>1, <1>2, <1>3, <2>1, DebitFundingMoves
  <2>2. CASE FailedWrite(r, s.consumed, 0)
    BY <1>1, <1>2, <1>3, <2>2, FailedFundMoves
  <2> QED BY <1>1, <2>1, <2>2 DEF RefundWallet
<1>5. t \in SessionType /\ z \in PaidType /\ m \in LostType /\ SessionInv(t, z, m)
  BY <1>1, <1>2, <1>3, <1>4, WalletRefunded, ZenonT(60)
<1> QED BY <1>4, <1>5, Lift

LEMMA RefundSubscriptionStep ==
    ASSUME IInv, NEW r \in Requests, RefundSubscription(r)
    PROVE  IInv'
<1>1. PICK s \in SessionType, p \in PaidType, l \in LostType :
         s = sess[r] /\ p = paid[r] /\ l = lost[r] /\ SessionInv(s, p, l)
  BY Current
<1>2. /\ s.bg = "fund" /\ s.source = "subscription" /\ s.consumed \in Int /\ -s.consumed \in Int
      /\ s.attempt \in 0..2 /\ s.returned \in 0..3 /\ s.unmarked \in 0..3
      /\ s.extraReserved \in Nat
  BY <1>1 DEF RefundSubscription, SessionType
<1>3. s.returned <= s.attempt /\ s.returned = s.unmarked
  BY <1>1, <1>2 DEF SessionInv, RefundInv, LedgerInv
<1>4. PICK e \in {"extra", "token"} : e = IF s.extraReserved > 0 THEN "extra" ELSE "token"
  OBVIOUS
<1>5. PICK g : g = IF s.attempt < 2 THEN "fund" ELSE e
  OBVIOUS
<1>6. PICK i \in 0..2 : i = IF s.attempt < 2 THEN s.attempt + 1 ELSE s.attempt
  BY <1>2
<1>7. g \in {"fund", "extra", "token"} /\ (g = "fund" => i = s.attempt + 1)
      /\ (g # "fund" => g = e /\ s.attempt = 2)
  BY <1>2, <1>4, <1>5, <1>6
<1>8. PICK n \in 0..3 : n = s.returned + 1
  BY <1>2, <1>3
<1>9. PICK k \in 0..3 : k = s.unmarked + 1
  BY <1>2, <1>3
<1>10. AfterRefund([s EXCEPT !.returned = @ + 1]) = RetriedSession(s, e, s.attempt, n, s.unmarked)
  BY <1>2, <1>4, <1>8 DEF AfterRefund, RetriedSession, SessionType
<1>12. NextAttempt(s) = RetriedSession(s, g, i, s.returned, s.unmarked)
  <2>1. CASE s.attempt < 2
    <3>1. g = "fund" /\ i = s.attempt + 1
      BY <1>5, <1>6, <2>1
    <3>2. NextAttempt(s) = [s EXCEPT !.attempt = i]
      BY <1>2, <2>1, <3>1 DEF NextAttempt, MaxAttempts
    <3>3. s.bg = g
      BY <1>2, <3>1
    <3> QED BY <3>2, <3>3, Zenon DEF RetriedSession, SessionType
  <2>2. CASE ~(s.attempt < 2)
    <3>1. NextAttempt(s) = [s EXCEPT !.bg = e]
      BY <1>2, <1>4, <2>2 DEF NextAttempt, MaxAttempts, AfterRefund
    <3>2. g = e /\ i = s.attempt
      BY <1>5, <1>6, <2>2
    <3> QED BY <1>2, <3>1, <3>2 DEF RetriedSession, SessionType
  <2> QED BY <2>1, <2>2
<1>11. NextAttempt([[s EXCEPT !.returned = @ + 1] EXCEPT !.unmarked = @ + 1])
         = RetriedSession(s, g, i, n, k)
  <2>1. PICK u : u = [s EXCEPT !.returned = n, !.unmarked = k]
    OBVIOUS
  <2>2. u = [[s EXCEPT !.returned = @ + 1] EXCEPT !.unmarked = @ + 1]
    BY <1>8, <1>9, <2>1 DEF SessionType
  <2>3. /\ u.attempt = s.attempt /\ u.source = s.source /\ u.extraReserved = s.extraReserved
    BY <2>1 DEF SessionType
  <2>4. CASE s.attempt < 2
    <3>1. g = "fund" /\ i = s.attempt + 1
      BY <1>5, <1>6, <2>4
    <3>2. NextAttempt(u) = [u EXCEPT !.attempt = i]
      BY <1>2, <2>3, <2>4, <3>1 DEF NextAttempt, MaxAttempts
    <3>3. s.bg = g
      BY <1>2, <3>1
    <3>4. [u EXCEPT !.attempt = i] = RetriedSession(s, g, i, n, k)
      BY <2>1, <3>3, Zenon DEF RetriedSession, SessionType
    <3> QED BY <2>2, <3>2, <3>4
  <2>5. CASE ~(s.attempt < 2)
    <3>1. NextAttempt(u) = [u EXCEPT !.bg = e]
      BY <1>2, <1>4, <2>3, <2>5 DEF NextAttempt, MaxAttempts, AfterRefund
    <3>2. g = e /\ i = s.attempt
      BY <1>5, <1>6, <2>5
    <3> QED BY <1>2, <2>1, <2>2, <3>1, <3>2, ZenonT(60) DEF RetriedSession, SessionType
  <2> QED BY <2>4, <2>5
<1>13. CASE DebitFunding(r, -s.consumed) /\ Become(r, AfterRefund([s EXCEPT !.returned = @ + 1]))
  <2>1. PICK t : t = RetriedSession(s, e, s.attempt, n, s.unmarked) /\ Become(r, t)
    BY <1>10, <1>13
  <2>2. PICK z : z = [p EXCEPT !.sub = @ + (-s.consumed)] /\ Moves(r, t, z, l)
    BY <1>1, <1>2, <1>13, <2>1, DebitFundingMoves
  <2>3. t \in SessionType /\ z \in PaidType /\ SessionInv(t, z, l)
    <3>1. Attempted(s, p, l, e, s.attempt, n, s.unmarked, z, l)
      BY <1>2, <1>4, <1>8, <2>2 DEF Attempted
    <3>2. e \in {"fund", "extra", "token"}
      BY <1>4
    <3>3. SessionInv(s, p, l) /\ s.bg = "fund" /\ s.source = "subscription"
      BY <1>1, <1>2
    <3>4. t = RetriedSession(s, e, s.attempt, n, s.unmarked)
      BY <2>1
    <3> QED BY <3>1, <3>2, <3>3, <3>4, SubscriptionRefunded, ZenonT(60)
  <2> QED BY <2>2, <2>3, Lift
<1>14. CASE /\ UnreportedCharge(r, -s.consumed)
            /\ Become(r, NextAttempt([[s EXCEPT !.returned = @ + 1] EXCEPT !.unmarked = @ + 1]))
  <2>1. PICK t : t = RetriedSession(s, g, i, n, k) /\ Become(r, t)
    BY <1>11, <1>14
  <2>2. PICK z : z = [p EXCEPT !.sub = @ + (-s.consumed)] /\ Moves(r, t, z, l)
    BY <1>1, <1>2, <1>14, <2>1, UnreportedChargeMoves
  <2>3. t \in SessionType /\ z \in PaidType /\ SessionInv(t, z, l)
    <3>1. Attempted(s, p, l, g, i, n, k, z, l)
      BY <1>4, <1>6, <1>7, <1>8, <1>9, <2>2 DEF Attempted
    <3>2. g \in {"fund", "extra", "token"}
      BY <1>7
    <3>3. SessionInv(s, p, l) /\ s.bg = "fund" /\ s.source = "subscription"
      BY <1>1, <1>2
    <3>4. t = RetriedSession(s, g, i, n, k)
      BY <2>1
    <3> QED BY <3>1, <3>2, <3>3, <3>4, SubscriptionRefunded, ZenonT(60)
  <2> QED BY <2>2, <2>3, Lift
<1>15. CASE /\ FailedWrite(r, IF s.attempt = 2 /\ s.returned = 0 THEN s.consumed ELSE 0, 0)
            /\ Become(r, NextAttempt(s))
  <2>1. PICK t : t = RetriedSession(s, g, i, s.returned, s.unmarked) /\ Become(r, t)
    BY <1>12, <1>15
  <2>2. PICK f \in Int : f = IF s.attempt = 2 /\ s.returned = 0 THEN s.consumed ELSE 0
    BY <1>2
  <2>3. PICK m : m = [fund |-> l.fund + f, token |-> l.token + 0] /\ Moves(r, t, p, m)
    BY <1>1, <1>15, <2>1, <2>2, FailedFundMoves
  <2>4. IF g # "fund" /\ s.returned = 0
        THEN m = [fund |-> l.fund + s.consumed, token |-> l.token + 0] ELSE m = l
    BY <1>2, <1>4, <1>5, <1>7, <2>2, <2>3 DEF LostType
  <2>5. t \in SessionType /\ m \in LostType /\ SessionInv(t, p, m)
    <3>1. Attempted(s, p, l, g, i, s.returned, s.unmarked, p, m)
      BY <1>2, <1>4, <1>6, <1>7, <2>4 DEF Attempted
    <3>2. g \in {"fund", "extra", "token"}
      BY <1>7
    <3>3. SessionInv(s, p, l) /\ s.bg = "fund" /\ s.source = "subscription"
      BY <1>1, <1>2
    <3>4. t = RetriedSession(s, g, i, s.returned, s.unmarked)
      BY <2>1
    <3> QED BY <3>1, <3>2, <3>3, <3>4, SubscriptionRefunded, ZenonT(60)
  <2> QED BY <2>3, <2>5, Lift
<1> QED BY <1>1, <1>13, <1>14, <1>15 DEF RefundSubscription, MaxAttempts

LEMMA RefundExtraStep ==
    ASSUME IInv, NEW r \in Requests, RefundExtra(r)
    PROVE  IInv'
<1>1. PICK s \in SessionType, p \in PaidType, l \in LostType :
         s = sess[r] /\ p = paid[r] /\ l = lost[r] /\ SessionInv(s, p, l)
  BY Current
<1>2. s.bg = "extra" /\ s.extraReserved \in Int /\ -s.extraReserved \in Int
  BY <1>1 DEF RefundExtra, SessionType
<1>3. s.source = "subscription"
  BY <1>1, <1>2 DEF SessionInv, RefundInv, LedgerInv
<1>4. PICK t : t = RefundedSession(s, "token") /\ Become(r, t)
  BY <1>1 DEF RefundExtra, RefundedSession
<1>5. PICK z, m : /\ \/ /\ s.source = "subscription" /\ m = l
                        /\ z = [p EXCEPT !.sub = @ + (-s.extraReserved)]
                     \/ z = p /\ m = [fund |-> l.fund + s.extraReserved, token |-> l.token + 0]
                  /\ Moves(r, t, z, m)
  <2>1. CASE DebitFunding(r, -s.extraReserved)
    BY <1>1, <1>2, <1>3, <1>4, <2>1, DebitFundingMoves
  <2>2. CASE FailedWrite(r, s.extraReserved, 0)
    BY <1>1, <1>2, <1>4, <2>2, FailedFundMoves
  <2> QED BY <1>1, <2>1, <2>2 DEF RefundExtra
<1>6. t \in SessionType /\ z \in PaidType /\ m \in LostType /\ SessionInv(t, z, m)
  BY <1>1, <1>2, <1>4, <1>5, ExtraRefunded, ZenonT(60)
<1> QED BY <1>5, <1>6, Lift

LEMMA RefundTokenStep ==
    ASSUME IInv, NEW r \in Requests, RefundToken(r)
    PROVE  IInv'
<1>1. PICK s \in SessionType, p \in PaidType, l \in LostType :
         s = sess[r] /\ p = paid[r] /\ l = lost[r] /\ SessionInv(s, p, l)
  BY Current
<1>2. PICK k \in Int : k = Tok(s, s.tokenConsumed)
  BY DEF SessionType, Tok
<1>3. s.bg = "token" /\ -k \in Int
  BY <1>1 DEF RefundToken
<1>4. PICK t : t = RefundedSession(s, "none") /\ Become(r, t)
  BY <1>1 DEF RefundToken, RefundedSession
<1>5. PICK z, m : /\ \/ z = [p EXCEPT !.token = @ + (-k)] /\ m = l
                     \/ z = p /\ m = [fund |-> l.fund + 0, token |-> l.token + k]
                  /\ Moves(r, t, z, m)
  <2>1. CASE DebitToken(r, -k)
    BY <1>1, <1>3, <1>4, <2>1, DebitTokenMoves
  <2>2. CASE FailedWrite(r, 0, k)
    BY <1>1, <1>4, <2>2, FailedTokenMoves
  <2> QED BY <1>1, <1>2, <2>1, <2>2 DEF RefundToken, Tok
<1>6. t \in SessionType /\ z \in PaidType /\ m \in LostType /\ SessionInv(t, z, m)
  <2>1. \/ z = [p EXCEPT !.token = @ + (-Tok(s, s.tokenConsumed))] /\ m = l
        \/ z = p /\ m = [fund |-> l.fund + 0, token |-> l.token + Tok(s, s.tokenConsumed)]
    BY <1>2, <1>5
  <2> QED BY <1>1, <1>3, <1>4, <2>1, TokenRefunded, ZenonT(60)
<1> QED BY <1>5, <1>6, Lift

LEMMA PanicStep ==
    ASSUME IInv, NEW r \in Requests, Panic(r)
    PROVE  IInv'
<1>1. PICK s \in SessionType, p \in PaidType, l \in LostType :
         s = sess[r] /\ p = paid[r] /\ l = lost[r] /\ SessionInv(s, p, l)
  BY Current
<1>2. PICK t : t = [s EXCEPT !.pc = "crashed", !.bg = "none"]
  OBVIOUS
<1>3. s.pc = "ready" /\ s.bg = "none"
  BY <1>1 DEF Panic, At, SessionInv, OpenInv, Reserving
<1>4. t = [s EXCEPT !.pc = "crashed"]
  BY <1>2, <1>3 DEF SessionType
<1>5. t \in SessionType /\ SessionInv(t, p, l)
  BY <1>1, <1>2, CrashedSession
<1> QED BY <1>1, <1>4, <1>5, QuietStep DEF Panic

(* A crash moves every request that is still running, and no ledger. *)
LEMMA CrashStep ==
    ASSUME IInv, Crash
    PROVE  IInv'
<1>1. sess' \in [Requests -> SessionType] /\ UNCHANGED <<stores, history>>
  <2>1. \A q \in Requests : sess'[q] \in SessionType
    <3> SUFFICES ASSUME NEW q \in Requests PROVE sess'[q] \in SessionType
      OBVIOUS
    <3>1. PICK t : t = [sess[q] EXCEPT !.pc = "crashed", !.bg = "none"]
      OBVIOUS
    <3>2. t \in SessionType
      BY <3>1, Current, CrashedSession
    <3>3. sess'[q] = t \/ sess'[q] = sess[q]
      BY <3>1 DEF Crash
    <3> QED BY <3>2, <3>3, Current
  <2>2. sess' = [q \in Requests |-> sess'[q]]
    BY DEF Crash
  <2> QED BY <2>1, <2>2 DEF Crash
<1>2. \A q \in Requests : SessionInv(sess'[q], paid[q], lost[q])
  <2> SUFFICES ASSUME NEW q \in Requests PROVE SessionInv(sess'[q], paid[q], lost[q])
    OBVIOUS
  <2>1. PICK t : t = [sess[q] EXCEPT !.pc = "crashed", !.bg = "none"]
    OBVIOUS
  <2>2. SessionInv(t, paid[q], lost[q])
    BY <2>1, Current, CrashedSession
  <2>3. sess'[q] = t \/ sess'[q] = sess[q]
    BY <2>1 DEF Crash
  <2> QED BY <2>2, <2>3, Current
<1> QED BY <1>1, <1>2 DEF IInv, TypeOK, Accounting, stores, subRow, history

LEMMA ExpireSubscriptionStep ==
    ASSUME IInv, ExpireSubscription
    PROVE  IInv'
BY DEF IInv, TypeOK, Accounting, ExpireSubscription, history

-----------------------------------------------------------------------------
(* The invariant holds initially and is preserved. *)

LEMMA InitInv == Init => IInv
<1> SUFFICES ASSUME Init PROVE IInv
  OBVIOUS
<1>1. Free \in SessionType
  BY BillingAssumption DEF Free, SessionType, PC, BG, ProfileType, Prefs
<1>2. TypeOK
  BY <1>1, BillingAssumption DEF Init, TypeOK
<1>3. PICK p, l : p = [wallet |-> 0, sub |-> 0, token |-> 0] /\ l = [fund |-> 0, token |-> 0]
  OBVIOUS
<1>4. SessionInv(Free, p, l)
  BY <1>3 DEF Free, SessionInv, OpeningInv, OpenInv, SettledInv, RefundInv, LedgerInv,
              Opening, TokenHeld, Reserving, Tok, Repeated
<1>5. Accounting
  BY <1>3, <1>4 DEF Init, Accounting
<1> QED BY <1>2, <1>5 DEF IInv

LEMMA NextInv == IInv /\ [Next]_vars => IInv'
<1> SUFFICES ASSUME IInv, [Next]_vars PROVE IInv'
  OBVIOUS
<1>1. ASSUME NEW r \in Requests, NEW f \in Profiles, NEW q \in PreQuotas, Start(r, f, q)
      PROVE  IInv'
  BY <1>1, StartStep
<1>2. ASSUME NEW r \in Requests, NEW t \in ReserveTargets, ReserveFunding(r, t)
      PROVE  IInv'
  BY <1>2, ReserveFundingStep
<1>3. ASSUME NEW r \in Requests, Advance(r)
      PROVE  IInv'
  BY <1>3, HasActiveStep, CheckOverflowStep, TryWalletStep, PreConsumeTokenStep,
     DecreaseTokenStep, PreConsumeFundingStep, RollbackTokenStep, ReserveTokenStep,
     ReserveDecreaseStep, RollbackReserveStep, SettleTokenStep
     DEF Advance
<1>9. ASSUME NEW r \in Requests, UpstreamEnds(r)
      PROVE  IInv'
  BY <1>9, SettleFundingStep, RefundStep DEF UpstreamEnds
<1>4. ASSUME NEW r \in Requests, Goroutine(r)
      PROVE  IInv'
  BY <1>4, RefundWalletStep, RefundSubscriptionStep, RefundExtraStep, RefundTokenStep
     DEF Goroutine, RefundFunding
<1>5. ASSUME NEW r \in Requests, ReadFailed(r) \/ Panic(r)
      PROVE  IInv'
  BY <1>5, ReadFailedStep, PanicStep
<1>6. CASE ExpireSubscription
  BY <1>6, ExpireSubscriptionStep
<1>7. CASE Crash
  BY <1>7, CrashStep
<1>8. CASE UNCHANGED vars
  BY <1>8 DEF vars, subRow, IInv, TypeOK, Accounting
<1> QED BY <1>1, <1>2, <1>3, <1>4, <1>5, <1>6, <1>7, <1>8, <1>9 DEF Next

(* The types of every variable hold in every reachable state. *)
THEOREM TypeCorrect == Spec => []TypeOK
<1>1. IInv => TypeOK
  BY DEF IInv
<1> QED BY InitInv, NextInv, <1>1, PTL DEF Spec

LEMMA RepeatedIsAgain ==
    ASSUME NEW s \in SessionType
    PROVE  Again(s) = Repeated(s)
<1>1. PICK n \in 0..3, c \in Nat : n = s.returned /\ c = s.consumed
  BY DEF SessionType
<1>2. n = 0 \/ n = 1 \/ n = 2 \/ n = 3
  OBVIOUS
<1>3. /\ n = 1 => (n - 1) * c = 0
      /\ n = 2 => (n - 1) * c = c
      /\ n = 3 => (n - 1) * c = c + c
  OBVIOUS
<1> QED BY <1>1, <1>2, <1>3 DEF Again, Repeated

(* However many requests run, whatever fails and wherever the process stops, a
   request that is over has paid what it owes, off only by the writes that failed
   for it and by refunds repeated after one that committed and returned an error
   (BillingSession, RefundSubscriptionPreConsume). *)
THEOREM ExactCharge == Spec => []ChargedExactly
<1>1. IInv => ChargedExactly
  <2> SUFFICES ASSUME IInv, NEW r \in Requests,
                      sess[r].pc \in {"rejected", "done", "settleFailed"}, sess[r].bg = "none"
               PROVE  /\ paid[r].wallet + paid[r].sub = Due(sess[r]) + lost[r].fund
                                                       + Stranded(sess[r]) - Again(sess[r])
                      /\ sess[r].returned <= sess[r].unmarked + 1
                      /\ paid[r].token = (IF sess[r].prof.playground THEN 0 ELSE Due(sess[r]))
                                         + lost[r].token
    BY DEF ChargedExactly
  <2>1. PICK s \in SessionType, p \in PaidType, l \in LostType :
           s = sess[r] /\ p = paid[r] /\ l = lost[r] /\ SessionInv(s, p, l)
    BY Current
  <2>2. p.wallet + p.sub = Due(s) + l.fund + Stranded(s) - Repeated(s)
    <3>4. ~s.refunded => Repeated(s) = 0
      BY <2>1 DEF SessionInv, LedgerInv, Repeated
    <3>5. Due(s) \in Int /\ l.fund \in Int /\ Stranded(s) \in Int
      BY DEF SessionType, LostType, Due, Stranded
    <3>1. CASE s.pc \in {"rejected", "settleFailed"}
      <4>1. ~s.refunded
        BY <2>1, <3>1 DEF SessionInv, OpeningInv, OpenInv, Opening
      <4>2. p.wallet + p.sub = Due(s) + l.fund + Stranded(s)
        BY <2>1, <3>1, SMTT(30)
           DEF SessionType, PaidType, LostType, SessionInv, OpeningInv, OpenInv, SettledInv,
               LedgerInv, Opening, TokenHeld, Reserving, Pending, Due, Stranded
      <4> QED BY <3>4, <3>5, <4>1, <4>2
    <3>2. CASE s.pc = "done" /\ s.settled
      <4>1. ~s.refunded
        BY <2>1, <3>2 DEF SessionInv, SettledInv
      <4>2. p.wallet + p.sub = Due(s) + l.fund + Stranded(s)
        BY <2>1, <3>2 DEF SessionType, PaidType, LostType, SessionInv, SettledInv, Due
      <4> QED BY <3>4, <3>5, <4>1, <4>2
    <3>3. CASE s.pc = "done" /\ ~s.settled
      BY <2>1, <3>3 DEF SessionType, PaidType, LostType, SessionInv, RefundInv, Unreturned, Due
    <3> QED BY <2>1, <3>1, <3>2, <3>3
  <2>3. p.token = (IF s.prof.playground THEN 0 ELSE Due(s)) + l.token
    BY <2>1 DEF SessionType, PaidType, LostType, SessionInv, OpeningInv, OpenInv, SettledInv,
                RefundInv, LedgerInv, Opening, TokenHeld, Reserving, Tok, Due
  <2>4. s.returned <= s.unmarked + 1
    BY <2>1 DEF SessionInv, LedgerInv
  <2> QED BY <2>1, <2>2, <2>3, <2>4, RepeatedIsAgain
<1> QED BY InitInv, NextInv, <1>1, PTL DEF Spec

(* Wallet and token are never given back more than they paid, the subscription
   only after a refund that committed and returned an error, and then by no more
   than two pre-charges (refundWithRetry). *)
THEOREM NoCredit == Spec => []NoFreeCredit
<1>1. IInv => NoFreeCredit
  <2> SUFFICES ASSUME IInv, NEW r \in Requests
               PROVE  /\ paid[r].wallet >= 0 /\ paid[r].token >= 0
                      /\ paid[r].sub >= IF sess[r].unmarked = 0 THEN 0
                                        ELSE -(2 * sess[r].consumed)
    BY DEF NoFreeCredit
  <2>1. PICK s \in SessionType, p \in PaidType, l \in LostType :
           s = sess[r] /\ p = paid[r] /\ l = lost[r] /\ SessionInv(s, p, l)
    BY Current
  <2>2. /\ p.wallet >= 0 /\ p.token >= 0 /\ p.sub >= -Repeated(s)
        /\ s.returned <= s.unmarked + 1
    BY <2>1 DEF SessionInv, LedgerInv
  <2>3. s.consumed \in Nat /\ s.returned \in 0..3 /\ s.unmarked \in 0..3 /\ p.sub \in Int
    BY DEF SessionType, PaidType
  <2>4. p.sub >= IF s.unmarked = 0 THEN 0 ELSE -(2 * s.consumed)
    BY <2>2, <2>3 DEF Repeated
  <2> QED BY <2>1, <2>2, <2>4
<1> QED BY InitInv, NextInv, <1>1, PTL DEF Spec

(* No request pays from the wallet and from the subscription. *)
THEOREM SingleSource == Spec => []OneSource
<1>1. IInv => OneSource
  BY Current DEF OneSource, SessionInv, LedgerInv
<1> QED BY InitInv, NextInv, <1>1, PTL DEF Spec

(* The subscription row only ever takes a value its limit accepts. *)
LEMMA SubscriptionMoves ==
    ASSUME [Next]_vars
    PROVE  subUsed' = subUsed \/ \E d : SubAccepts(d) /\ subUsed' = NewUsed(d)
<1>1. ASSUME NEW r, NEW d, DebitFunding(r, d)
      PROVE  subUsed' = subUsed \/ \E e : SubAccepts(e) /\ subUsed' = NewUsed(e)
  BY <1>1 DEF DebitFunding, ChargeFunding
<1>11. ASSUME NEW r, NEW d, UnreportedCharge(r, d)
      PROVE  subUsed' = subUsed \/ \E e : SubAccepts(e) /\ subUsed' = NewUsed(e)
  BY <1>11 DEF UnreportedCharge, ChargeFunding
<1>2. ASSUME NEW r, NEW d, DebitToken(r, d)
      PROVE  subUsed' = subUsed
  BY <1>2 DEF DebitToken
<1>3. ASSUME NEW r, NEW f, NEW t, FailedWrite(r, f, t)
      PROVE  subUsed' = subUsed
  BY <1>3 DEF FailedWrite, stores
<1>4. ASSUME UNCHANGED <<stores, history>>
      PROVE  subUsed' = subUsed
  BY <1>4 DEF stores
<1>5. ASSUME NEW r \in Requests, NEW t \in ReserveTargets, ReserveFunding(r, t)
      PROVE  subUsed' = subUsed \/ \E d : SubAccepts(d) /\ subUsed' = NewUsed(d)
  BY <1>1, <1>3, <1>4, <1>5 DEF ReserveFunding
<1>6. ASSUME NEW r \in Requests, NEW n \in ActualQuotas, SettleFunding(r, n)
      PROVE  subUsed' = subUsed \/ \E d : SubAccepts(d) /\ subUsed' = NewUsed(d)
  BY <1>1, <1>3, <1>4, <1>6 DEF SettleFunding
<1>7. ASSUME NEW r \in Requests,
             \/ PreConsumeFunding(r) \/ RollbackReserve(r)
             \/ RefundWallet(r) \/ RefundSubscription(r) \/ RefundExtra(r)
      PROVE  subUsed' = subUsed \/ \E d : SubAccepts(d) /\ subUsed' = NewUsed(d)
  BY <1>1, <1>3, <1>4, <1>7, <1>11 DEF PreConsumeFunding, RollbackReserve, RefundWallet,
     RefundSubscription, RefundExtra
<1>8. ASSUME NEW r \in Requests,
             \/ DecreaseToken(r) \/ RollbackToken(r) \/ ReserveDecrease(r)
             \/ SettleToken(r) \/ RefundToken(r)
      PROVE  subUsed' = subUsed
  BY <1>2, <1>3, <1>8, SMTT(30) DEF DecreaseToken, RollbackToken, ReserveDecrease, SettleToken, RefundToken
<1>9. ASSUME NEW r \in Requests,
             \/ HasActive(r) \/ CheckOverflow(r) \/ TryWallet(r) \/ PreConsumeToken(r)
             \/ ReserveToken(r) \/ Refund(r) \/ ReadFailed(r) \/ Panic(r)
             \/ \E p \in Profiles, q \in PreQuotas : Start(r, p, q)
      PROVE  subUsed' = subUsed
  BY <1>4, <1>9 DEF HasActive, CheckOverflow, TryWallet, PreConsumeToken, ReserveToken, Refund,
                    ReadFailed, Panic, Start
<1>10. ASSUME ExpireSubscription \/ Crash \/ UNCHANGED vars
       PROVE  subUsed' = subUsed
  BY <1>4, <1>10 DEF ExpireSubscription, Crash, vars
<1> QED BY <1>5, <1>6, <1>7, <1>8, <1>9, <1>10 DEF Next, Advance, UpstreamEnds, Goroutine, RefundFunding

(* A limited subscription is never used beyond its total, by any number of
   concurrent pre-charges, reservations and settlements. *)
THEOREM WithinLimit == Spec => []SubscriptionLimit
<1>1. Init => SubscriptionLimit
  BY BillingAssumption DEF Init, SubscriptionLimit
<1>2. SubscriptionLimit /\ [Next]_vars => SubscriptionLimit'
  BY SubscriptionMoves, BillingAssumption DEF SubscriptionLimit, SubAccepts
<1> QED BY <1>1, <1>2, PTL DEF Spec
-----------------------------------------------------------------------------
(* Preferences *)

(* A request looks at its sources in the order of its preference, and none of the
   fallbacks leads to a source the preference excludes. *)
PrefInv(s) ==
    /\ s.pc = "idle" => s.source = "none"
    /\ s.pc \in {"hasSub", "overflow"} => s.prof.pref = "subscription_first"
    /\ s.prof.pref = "subscription_only" => s.source # "wallet" /\ s.pc # "wallet"
    /\ s.prof.pref = "wallet_only" => s.source # "subscription"

(* What an exhausted subscription without overflow keeps off the wallet. *)
Kept(s) == s.prof.pref = "subscription_first" => s.source # "wallet" /\ s.pc # "wallet"

Preferring ==
    /\ \A r \in Requests : PrefInv(sess[r])
    /\ subActive = TRUE /\ allowOverflow = FALSE => \A r \in Requests : Kept(sess[r])

(* A session goes on: it keeps its source or gives it up, and looks at no other. *)
Continues(s, t) ==
    /\ t.prof = s.prof /\ t.source \in {s.source, "none"}
    /\ t.pc \notin {"idle", "hasSub", "wallet"}
    /\ t.pc = "overflow" => s.prof.pref = "subscription_first"

LEMMA ContinuesPref ==
    ASSUME NEW s \in SessionType, NEW t, Continues(s, t), PrefInv(s)
    PROVE  PrefInv(t) /\ (Kept(s) => Kept(t))
BY DEF Continues, PrefInv, Kept, SessionType

LEMMA FailedContinues ==
    ASSUME NEW s \in SessionType, NEW e PROVE Continues(s, AfterFailedPreConsume(s, e))
BY DEF SessionType, AfterFailedPreConsume, Continues

LEMMA FundingRefusedContinues ==
    ASSUME NEW s \in SessionType, NEW e PROVE Continues(s, FundingRefused(s, e))
BY FailedContinues DEF SessionType, FundingRefused, Continues

LEMMA ReservedContinues ==
    ASSUME NEW s \in SessionType PROVE Continues(s, Reserved(s))
BY DEF SessionType, Reserved, Continues

LEMMA OpenedContinues ==
    ASSUME NEW s \in SessionType PROVE Continues(s, Opened(s))
BY DEF SessionType, Opened, Continues

LEMMA PlacedContinues ==
    ASSUME NEW s \in SessionType, NEW p \in PC \ {"idle", "hasSub", "wallet", "overflow"}
    PROVE  /\ Continues(s, [s EXCEPT !.pc = p])
           /\ \A n : Continues(s, [s EXCEPT !.pc = p, !.tokenConsumed = n])
           /\ \A n : Continues(s, [s EXCEPT !.pc = p, !.settled = n])
           /\ \A n, m : Continues(s, [s EXCEPT !.pc = p, !.refunded = n, !.bg = m])
           /\ \A n, m : Continues(s, [[s EXCEPT !.pc = p, !.amount = n] EXCEPT !.consumed = m])
           /\ \A n : Continues(s, [s EXCEPT !.pc = p, !.amount = n])
BY DEF SessionType, Continues

LEMMA BackgroundContinues ==
    ASSUME NEW s \in SessionType, s.pc = "done", NEW b
    PROVE  Continues(s, [s EXCEPT !.bg = b])
BY DEF SessionType, Continues

LEMMA RetryContinues ==
    ASSUME NEW s \in SessionType, s.pc = "done", NEW n, NEW k
    PROVE  LET t == [s EXCEPT !.returned = n] IN
           /\ Continues(s, AfterRefund(s)) /\ Continues(s, AfterRefund(t))
           /\ Continues(s, NextAttempt(s))
           /\ Continues(s, NextAttempt([t EXCEPT !.unmarked = k]))
BY DEF SessionType, Continues, AfterRefund, NextAttempt

LEMMA ReservingContinues ==
    ASSUME NEW s \in SessionType, s.pc = "ready"
    PROVE  /\ Continues(s, [s EXCEPT !.reserves = @ + 1])
           /\ \A d : Continues(s, [[s EXCEPT !.reserves = @ + 1]
                                     EXCEPT !.pc = "resToken", !.amount = d,
                                            !.consumed = IF s.source = "wallet" THEN @ + d ELSE @])
BY DEF SessionType, Continues

LEMMA SettlingContinues ==
    ASSUME NEW s \in SessionType, NEW n, NEW d
    PROVE  LET t == [s EXCEPT !.actual = n, !.amount = d] IN
           /\ Continues(s, [t EXCEPT !.pc = "done", !.settled = TRUE])
           /\ Continues(s, [t EXCEPT !.pc = "settleFailed"])
           /\ Continues(s, AfterFundingSettled(t))
BY DEF SessionType, Continues, AfterFundingSettled

(* A step of the request r after its sources have been looked at. *)
LEMMA StepContinues ==
    ASSUME IInv, NEW r \in Requests,
           \/ PreConsumeToken(r) \/ DecreaseToken(r) \/ PreConsumeFunding(r) \/ RollbackToken(r)
           \/ ReserveToken(r) \/ ReserveDecrease(r) \/ RollbackReserve(r)
           \/ (\E n \in ActualQuotas : SettleFunding(r, n)) \/ SettleToken(r) \/ Refund(r)
           \/ Goroutine(r) \/ ReadFailed(r) \/ Panic(r) \/ \E n \in ReserveTargets : ReserveFunding(r, n)
    PROVE  \E t : Become(r, t) /\ Continues(sess[r], t)
<1> DEFINE s == sess[r]
<1>1. s \in SessionType
  BY Current
<1>2. s.bg # "none" => s.pc = "done"
  BY Current DEF SessionInv, LedgerInv
<1>3. CASE PreConsumeToken(r)
  BY <1>1, <1>3, FailedContinues, PlacedContinues DEF PreConsumeToken, PC
<1>4. CASE DecreaseToken(r)
  BY <1>1, <1>4, FailedContinues, PlacedContinues DEF DecreaseToken, PC
<1>5. CASE PreConsumeFunding(r)
  BY <1>1, <1>5, OpenedContinues, FundingRefusedContinues DEF PreConsumeFunding
<1>6. CASE RollbackToken(r)
  BY <1>1, <1>6, FailedContinues DEF RollbackToken
<1>7. CASE ReserveToken(r) \/ ReserveDecrease(r)
  BY <1>1, <1>7, ReservedContinues, PlacedContinues DEF ReserveToken, ReserveDecrease, PC
<1>8. CASE RollbackReserve(r)
  <2> DEFINE b == [s EXCEPT !.pc = "ready", !.amount = 0]
  <2>1. Continues(s, b) /\ \A m : Continues(s, [b EXCEPT !.consumed = m])
    BY <1>1, PlacedContinues, ZenonT(60) DEF PC
  <2>2. Become(r, b) \/ \E m : Become(r, [b EXCEPT !.consumed = m])
    BY <1>8, ZenonT(60) DEF RollbackReserve
  <2> HIDE DEF b
  <2> QED BY <2>1, <2>2
<1>9. CASE \E n \in ActualQuotas : SettleFunding(r, n)
  BY <1>1, <1>9, SettlingContinues DEF SettleFunding
<1>10. CASE SettleToken(r) \/ Refund(r) \/ Panic(r)
  <2>1. CASE SettleToken(r)
    BY <1>1, <2>1, PlacedContinues DEF SettleToken, PC
  <2>2. CASE Refund(r)
    <3>1. \A n, m : Continues(s, [s EXCEPT !.pc = "done", !.refunded = n, !.bg = m])
      BY <1>1, PlacedContinues DEF PC
    <3>2. PICK n, m : Become(r, [s EXCEPT !.pc = "done", !.refunded = n, !.bg = m])
      BY <2>2 DEF Refund
    <3> QED BY <3>1, <3>2
  <2>3. CASE Panic(r)
    BY <1>1, <2>3, PlacedContinues DEF Panic, PC
  <2> QED BY <1>10, <2>1, <2>2, <2>3
<1>11. CASE Goroutine(r)
  <2>1. CASE RefundWallet(r) \/ RefundSubscription(r)
    BY <1>1, <1>2, <2>1, RetryContinues DEF RefundWallet, RefundSubscription
  <2>2. CASE RefundExtra(r) \/ RefundToken(r)
    BY <1>1, <1>2, <2>2, BackgroundContinues DEF RefundExtra, RefundToken
  <2> QED BY <1>11, <2>1, <2>2 DEF Goroutine, RefundFunding
<1>12. CASE ReadFailed(r)
  BY <1>1, <1>12, FailedContinues, PlacedContinues DEF ReadFailed, PC
<1>13. CASE \E n \in ReserveTargets : ReserveFunding(r, n)
  BY <1>1, <1>13, ReservingContinues DEF ReserveFunding, At
<1> QED BY <1>3, <1>4, <1>5, <1>6, <1>7, <1>8, <1>9, <1>10, <1>11, <1>12, <1>13

(* A step of the request r that looks at a source. *)
LEMMA StepLooks ==
    ASSUME IInv, Preferring, NEW r \in Requests,
           HasActive(r) \/ CheckOverflow(r) \/ TryWallet(r) \/ \E p \in Profiles, q \in PreQuotas : Start(r, p, q)
    PROVE  \E t : /\ Become(r, t) /\ PrefInv(t)
                  /\ subActive = TRUE /\ allowOverflow = FALSE => Kept(t)
<1> DEFINE s == sess[r]
<1>1. /\ s \in SessionType /\ PrefInv(s) /\ subActive \in BOOLEAN /\ allowOverflow \in BOOLEAN
      /\ subActive = TRUE /\ allowOverflow = FALSE => Kept(s)
  BY Current DEF Preferring, RowsOK
<1>2. ASSUME NEW c \in SessionType
      PROVE  LET t == SubscriptionSession(c) IN
             t.prof = c.prof /\ t.source = "subscription" /\ t.pc = "preToken"
  BY DEF SessionType, SubscriptionSession
<1>3. ASSUME NEW q
      PROVE  LET t == WalletSession(s, q) IN
             t.prof = s.prof /\ t.source = "wallet" /\ t.pc \in {"preToken", "preFund"}
  BY <1>1 DEF SessionType, WalletSession
<1>4. CASE HasActive(r)
  <2>1. CASE subActive
    <3> DEFINE t == SubscriptionSession(s)
    <3>1. t.prof = s.prof /\ t.source = "subscription" /\ t.pc = "preToken" /\ s.prof.pref = "subscription_first"
      BY <1>1, <1>2, <1>4 DEF HasActive, At, PrefInv
    <3>2. Become(r, t)
      BY <1>4, <2>1 DEF HasActive
    <3> HIDE DEF t
    <3> QED BY <3>1, <3>2 DEF PrefInv, Kept
  <2>2. CASE ~ subActive
    <3> DEFINE t == [s EXCEPT !.pc = "wallet"]
    <3>1. t.prof = s.prof /\ t.source = s.source /\ t.pc = "wallet" /\ s.prof.pref = "subscription_first"
      BY <1>1, <1>4 DEF HasActive, At, PrefInv, SessionType
    <3>2. Become(r, t)
      BY <1>4, <2>2 DEF HasActive
    <3> HIDE DEF t
    <3> QED BY <1>1, <2>2, <3>1, <3>2 DEF PrefInv, Kept
  <2> QED BY <2>1, <2>2
<1>5. CASE CheckOverflow(r)
  <2> DEFINE p == IF subActive => allowOverflow THEN "wallet" ELSE "rejected"
  <2> DEFINE t == [s EXCEPT !.pc = p]
  <2>1. t.prof = s.prof /\ t.source = s.source /\ t.pc = p /\ s.prof.pref = "subscription_first"
    BY <1>1, <1>5 DEF CheckOverflow, At, PrefInv, SessionType
  <2>2. Become(r, t)
    BY <1>5 DEF CheckOverflow
  <2>3. p \in {"wallet", "rejected"} /\ (subActive = TRUE /\ allowOverflow = FALSE => p = "rejected")
    OBVIOUS
  <2> HIDE DEF t, p
  <2> QED BY <1>1, <2>1, <2>2, <2>3 DEF PrefInv, Kept
<1>6. CASE TryWallet(r)
  <2>1. s.pc = "wallet" /\ s.prof.pref # "subscription_only"
    BY <1>1, <1>6 DEF TryWallet, At, PrefInv
  <2>2. \/ Become(r, WalletSession(s, wallet))
        \/ s.prof.pref = "wallet_first" /\ Become(r, SubscriptionSession(s))
        \/ Become(r, [s EXCEPT !.pc = "rejected", !.err = "insufficient"])
    BY <1>6 DEF TryWallet
  <2>3. CASE Become(r, WalletSession(s, wallet))
    <3> DEFINE t == WalletSession(s, wallet)
    <3>1. t.prof = s.prof /\ t.source = "wallet" /\ t.pc \in {"preToken", "preFund"} /\ Become(r, t)
      BY <1>3, <2>3
    <3> HIDE DEF t
    <3> QED BY <1>1, <2>1, <3>1 DEF PrefInv, Kept
  <2>4. CASE s.prof.pref = "wallet_first" /\ Become(r, SubscriptionSession(s))
    <3> DEFINE t == SubscriptionSession(s)
    <3>1. t.prof = s.prof /\ t.source = "subscription" /\ t.pc = "preToken" /\ Become(r, t)
      BY <1>1, <1>2, <2>4
    <3> HIDE DEF t
    <3> QED BY <2>4, <3>1 DEF PrefInv, Kept
  <2>5. CASE Become(r, [s EXCEPT !.pc = "rejected", !.err = "insufficient"])
    <3> DEFINE t == [s EXCEPT !.pc = "rejected", !.err = "insufficient"]
    <3>1. t.prof = s.prof /\ t.source = s.source /\ t.pc = "rejected" /\ Become(r, t)
      BY <1>1, <2>5 DEF SessionType
    <3> HIDE DEF t
    <3> QED BY <1>1, <3>1 DEF PrefInv, Kept
  <2> QED BY <2>2, <2>3, <2>4, <2>5
<1>7. ASSUME NEW p \in Profiles, NEW q \in PreQuotas, Start(r, p, q)
      PROVE  \E t : /\ Become(r, t) /\ PrefInv(t)
                    /\ subActive = TRUE /\ allowOverflow = FALSE => Kept(t)
  <2>1. p \in ProfileType /\ p.pref \in Prefs /\ q \in Nat /\ token \in Int
    BY Current, BillingAssumption DEF ProfileType, RowsOK
  <2>2. PICK c : c = [s EXCEPT !.prof = p, !.asked = q, !.tokenQuota = token]
    OBVIOUS
  <2>3. c \in SessionType /\ c.prof = p /\ c.source = "none"
    BY <1>1, <1>7, <2>1, <2>2, ZenonT(60) DEF SessionType, Start, At, PrefInv
  <2>4. \/ p.pref = "subscription_only" /\ Become(r, SubscriptionSession(c))
        \/ p.pref \in {"wallet_only", "wallet_first"} /\ Become(r, [c EXCEPT !.pc = "wallet"])
        \/ p.pref = "subscription_first" /\ Become(r, [c EXCEPT !.pc = "hasSub"])
    BY <1>7, <2>1, <2>2 DEF Start, Prefs
  <2>5. CASE p.pref = "subscription_only" /\ Become(r, SubscriptionSession(c))
    <3> DEFINE t == SubscriptionSession(c)
    <3>1. t.prof = p /\ t.source = "subscription" /\ t.pc = "preToken" /\ Become(r, t)
      BY <1>2, <2>3, <2>5
    <3> HIDE DEF t
    <3> QED BY <2>5, <3>1 DEF PrefInv, Kept
  <2>6. CASE p.pref \in {"wallet_only", "wallet_first"} /\ Become(r, [c EXCEPT !.pc = "wallet"])
    <3> DEFINE t == [c EXCEPT !.pc = "wallet"]
    <3>1. t.prof = p /\ t.source = "none" /\ t.pc = "wallet" /\ Become(r, t)
      BY <2>3, <2>6 DEF SessionType
    <3> HIDE DEF t
    <3> QED BY <2>6, <3>1 DEF PrefInv, Kept
  <2>7. CASE p.pref = "subscription_first" /\ Become(r, [c EXCEPT !.pc = "hasSub"])
    <3> DEFINE t == [c EXCEPT !.pc = "hasSub"]
    <3>1. t.prof = p /\ t.source = "none" /\ t.pc = "hasSub" /\ Become(r, t)
      BY <2>3, <2>7 DEF SessionType
    <3> HIDE DEF t
    <3> QED BY <2>7, <3>1 DEF PrefInv, Kept
  <2> QED BY <2>4, <2>5, <2>6, <2>7
<1> QED BY <1>4, <1>5, <1>6, <1>7

(* The row of the subscription changes only when it ends. *)
LEMMA RowStays ==
    ASSUME [Next]_vars
    PROVE  subActive' = TRUE /\ allowOverflow' = FALSE => subActive = TRUE /\ allowOverflow = FALSE
<1>1. ASSUME NEW r, NEW d, DebitFunding(r, d) \/ DebitToken(r, d) PROVE UNCHANGED subRow
  BY <1>1 DEF DebitFunding, ChargeFunding, DebitToken
<1>11. ASSUME NEW r, NEW d, UnreportedCharge(r, d) PROVE UNCHANGED subRow
  BY <1>11 DEF UnreportedCharge, ChargeFunding
<1>2. ASSUME NEW r, NEW f, NEW t, FailedWrite(r, f, t) PROVE UNCHANGED subRow
  BY <1>2 DEF FailedWrite, stores
<1>3. ASSUME UNCHANGED <<stores, history>> PROVE UNCHANGED subRow
  BY <1>3 DEF stores
<1>4. ASSUME NEW r \in Requests, NEW t \in ReserveTargets, ReserveFunding(r, t) PROVE UNCHANGED subRow
  BY <1>1, <1>2, <1>3, <1>4 DEF ReserveFunding
<1>5. ASSUME NEW r \in Requests, NEW n \in ActualQuotas, SettleFunding(r, n) PROVE UNCHANGED subRow
  BY <1>1, <1>2, <1>3, <1>5 DEF SettleFunding
<1>6. ASSUME NEW r \in Requests,
             \/ PreConsumeFunding(r) \/ RollbackReserve(r)
             \/ RefundWallet(r) \/ RefundSubscription(r) \/ RefundExtra(r)
             \/ DecreaseToken(r) \/ RollbackToken(r) \/ ReserveDecrease(r) \/ SettleToken(r) \/ RefundToken(r)
      PROVE  UNCHANGED subRow
  BY <1>1, <1>2, <1>3, <1>6, <1>11, SMTT(30) DEF PreConsumeFunding, RollbackReserve, RefundWallet,
     RefundSubscription, RefundExtra,
       DecreaseToken, RollbackToken, ReserveDecrease, SettleToken, RefundToken
<1>7. ASSUME NEW r \in Requests,
             \/ HasActive(r) \/ CheckOverflow(r) \/ TryWallet(r) \/ PreConsumeToken(r)
             \/ ReserveToken(r) \/ Refund(r) \/ ReadFailed(r) \/ Panic(r)
             \/ \E p \in Profiles, q \in PreQuotas : Start(r, p, q)
      PROVE  UNCHANGED subRow
  BY <1>3, <1>7 DEF HasActive, CheckOverflow, TryWallet, PreConsumeToken, ReserveToken, Refund,
                    ReadFailed, Panic, Start
<1>8. ASSUME Crash \/ UNCHANGED vars PROVE UNCHANGED subRow
  BY <1>3, <1>8 DEF Crash, vars, subRow
<1>9. ASSUME UNCHANGED subRow PROVE subActive' = subActive /\ allowOverflow' = allowOverflow
  BY <1>9 DEF subRow
<1>10. CASE ExpireSubscription
  BY <1>10 DEF ExpireSubscription
<1> QED BY <1>4, <1>5, <1>6, <1>7, <1>8, <1>9, <1>10 DEF Next, Advance, UpstreamEnds, Goroutine, RefundFunding

LEMMA PreferringStep == IInv /\ Preferring /\ [Next]_vars => Preferring'
<1> SUFFICES ASSUME IInv, Preferring, [Next]_vars PROVE Preferring'
  OBVIOUS
<1>1. subActive' = TRUE /\ allowOverflow' = FALSE => subActive = TRUE /\ allowOverflow = FALSE
  BY RowStays
<1>2. sess \in [Requests -> SessionType]
  BY DEF IInv, TypeOK
<1>3. ASSUME NEW r \in Requests, NEW t, Become(r, t), PrefInv(t),
             subActive = TRUE /\ allowOverflow = FALSE => Kept(t)
      PROVE  Preferring'
  <2>1. \A q \in Requests : sess'[q] = IF q = r THEN t ELSE sess[q]
    BY <1>2, <1>3 DEF Become
  <2> QED BY <1>1, <1>3, <2>1 DEF Preferring
<1>4. ASSUME NEW r \in Requests, NEW t, Become(r, t), Continues(sess[r], t) PROVE Preferring'
  <2>1. PrefInv(t) /\ (Kept(sess[r]) => Kept(t))
    BY <1>2, <1>4, ContinuesPref DEF Preferring
  <2> QED BY <1>3, <1>4, <2>1 DEF Preferring
<1>5. CASE ExpireSubscription \/ UNCHANGED vars
  BY <1>1, <1>5 DEF ExpireSubscription, vars, Preferring
<1>6. CASE Crash
  <2>1. \A r \in Requests : sess'[r] = sess[r] \/ sess'[r] = [sess[r] EXCEPT !.pc = "crashed", !.bg = "none"]
    BY <1>6 DEF Crash
  <2>2. ASSUME NEW s \in SessionType PROVE Continues(s, [s EXCEPT !.pc = "crashed", !.bg = "none"])
    BY DEF SessionType, Continues
  <2>3. \A r \in Requests : sess'[r] = sess[r] \/ Continues(sess[r], sess'[r])
    BY <1>2, <2>1, <2>2
  <2> QED BY <1>1, <1>2, <2>3, ContinuesPref DEF Preferring
<1>7. ASSUME NEW r \in Requests,
             \/ \E p \in Profiles, q \in PreQuotas : Start(r, p, q)
             \/ \E t \in ReserveTargets : ReserveFunding(r, t)
             \/ Advance(r) \/ UpstreamEnds(r) \/ Goroutine(r) \/ ReadFailed(r) \/ Panic(r)
      PROVE  Preferring'
  <2>1. CASE HasActive(r) \/ CheckOverflow(r) \/ TryWallet(r) \/ \E p \in Profiles, q \in PreQuotas : Start(r, p, q)
    BY <1>3, <2>1, StepLooks
  <2>2. CASE ~ (HasActive(r) \/ CheckOverflow(r) \/ TryWallet(r) \/ \E p \in Profiles, q \in PreQuotas : Start(r, p, q))
    BY <1>4, <1>7, <2>2, StepContinues DEF Advance, UpstreamEnds
  <2> QED BY <2>1, <2>2
<1> QED BY <1>5, <1>6, <1>7 DEF Next

LEMMA PreferringInit == Init => Preferring
BY DEF Init, Preferring, PrefInv, Kept, Free

(* A preference is kept through every fallback of NewBillingSession, for any mix of
   requests: an "only" preference never touches the other source, and an active
   subscription that does not allow overflow keeps subscription_first off the wallet. *)
THEOREM PreferenceIsHonoured == Spec => []PreferenceHonoured
<1>1. Init => IInv /\ Preferring
  BY InitInv, PreferringInit
<1>2. IInv /\ Preferring /\ [Next]_vars => (IInv /\ Preferring)'
  BY NextInv, PreferringStep
<1>3. IInv /\ Preferring => PreferenceHonoured
  <2> SUFFICES ASSUME IInv, Preferring, NEW r \in Requests
               PROVE  /\ sess[r].prof.pref = "subscription_only" => paid[r].wallet = 0
                      /\ sess[r].prof.pref = "wallet_only" => paid[r].sub = 0
                      /\ sess[r].prof.pref = "subscription_first" /\ subActive /\ ~allowOverflow => paid[r].wallet = 0
    BY DEF PreferenceHonoured
  <2>1. /\ sess[r].source # "wallet" => paid[r].wallet = 0
        /\ sess[r].source # "subscription" => paid[r].sub = 0
        /\ subActive \in BOOLEAN /\ allowOverflow \in BOOLEAN
    BY Current DEF SessionInv, LedgerInv, RowsOK
  <2>2. /\ PrefInv(sess[r])
        /\ subActive = TRUE /\ allowOverflow = FALSE => Kept(sess[r])
    BY DEF Preferring
  <2> QED BY <2>1, <2>2 DEF PrefInv, Kept
<1> QED BY <1>1, <1>2, <1>3, PTL DEF Spec
=============================================================================
