----------------------------- MODULE TaskLedger -----------------------------
(***************************************************************************)
(* What the billing of one asynchronous task promises: the task is charged *)
(* once when it is submitted, and the charge is changed at most once more, *)
(* to the amount really used when it succeeded or to nothing when it       *)
(* failed.  A part of the charge that could not be taken at the submission *)
(* is never made up for.  Only a change that was not recorded may be       *)
(* followed by a refund of the whole charge, once.                         *)
(***************************************************************************)
EXTENDS Integers

CONSTANTS Quotas,   \* what a submission may cost
          Actuals   \* what a finished task may really cost

VARIABLES phase,    \* "none", "charged", "closed" or "repeated"
          amount,   \* what the user has paid for the task
          gap,      \* what was recorded as charged and not taken
          lapsed    \* a change of the charge was not recorded

LInit == phase = "none" /\ amount = 0 /\ gap = 0 /\ lapsed = FALSE

Charge == /\ phase = "none"
          /\ phase' = "charged"
          /\ amount' \in Int /\ gap' \in Int /\ amount' + gap' \in Quotas
          /\ UNCHANGED lapsed

Close == /\ phase = "charged"
         /\ phase' = "closed"
         /\ amount' + gap \in Actuals \cup {0}
         /\ UNCHANGED <<gap, lapsed>>

Lapse == /\ phase \in {"closed", "repeated"}
         /\ lapsed' = TRUE
         /\ UNCHANGED <<phase, amount, gap>>

(* The refund is made again; nothing is closed twice otherwise. *)
Repeat == /\ phase = "closed" /\ lapsed
          /\ amount + gap = 0
          /\ phase' = "repeated"
          /\ \E q \in Quotas : amount' = amount - q
          /\ UNCHANGED <<gap, lapsed>>

LNext == Charge \/ Close \/ Lapse \/ Repeat

LSpec == LInit /\ [][LNext]_<<phase, amount, gap, lapsed>>
=============================================================================
