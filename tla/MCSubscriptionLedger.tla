------------------------ MODULE MCSubscriptionLedger ------------------------
(* Small instances of SubscriptionLedger for TLC. *)
EXTENDS SubscriptionLedger
=============================================================================
