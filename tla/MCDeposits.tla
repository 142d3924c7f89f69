----------------------------- MODULE MCDeposits -----------------------------
(* Small instances of a user's deposits for TLC.                            *)
EXTENDS Deposits, TLC

CONSTANTS older, newer, withdrawal, a1, a2

MCRows == Invoices \X {1, 2}
MCSweepers == {"bridge", "job"}
Ages == (older :> 1) @@ (newer :> 2) @@ (withdrawal :> 3)
MCAge == [i \in Invoices |-> Ages[i]]
=============================================================================
