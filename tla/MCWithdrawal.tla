---------------------------- MODULE MCWithdrawal ----------------------------
(* Two withdrawals of one user, for TLC.                                    *)
EXTENDS Withdrawal, TLC

CONSTANTS first, second

MCAmount == (first :> 1) @@ (second :> 2)

\* One payment may stay pending after it was accepted, the other is made at once.
MCVerdicts == (first :> {"pending", "made"}) @@ (second :> {"made"})
=============================================================================
