--------------------------- MODULE MCBillingSession ---------------------------
(* Small instances of BillingSession for TLC. *)
EXTENDS BillingSession

Profile(pref, playground, unlimited, force) ==
    [pref |-> pref, playground |-> playground, unlimited |-> unlimited, force |-> force]

(* One profile per preference; the flags are spread so that a trusted, a forced,
   an unlimited and a playground request all occur. *)
MCProfiles ==
    {Profile("subscription_first", FALSE, FALSE, FALSE),
     Profile("wallet_first", FALSE, FALSE, TRUE),
     Profile("wallet_only", FALSE, TRUE, FALSE),
     Profile("subscription_only", TRUE, FALSE, FALSE)}
===============================================================================
