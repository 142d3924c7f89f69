--------------------------- MODULE MCLedgerLocks ---------------------------
(* Two accounts, a transaction between them and a hold on each; the hold on  *)
(* the account that is locked last is the first that is due.                *)
EXTENDS LedgerLocks, TLC

CONSTANTS user, application, t1, t2, h1, h2, one, other

MCId == (user :> 1) @@ (application :> 2)
MCLegs == [t \in Txns |-> Accounts]
MCHoldAccount == (h1 :> user) @@ (h2 :> application)
MCExpiry == (h1 :> 2) @@ (h2 :> 1)
=============================================================================
