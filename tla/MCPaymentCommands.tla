------------------------- MODULE MCPaymentCommands -------------------------
(* Small instances of the PLS's command handling for TLC.                   *)
EXTENDS PaymentCommands, TLC

CONSTANTS withdrawal, tip, deposit, junk, odd

AllKinds == (withdrawal :> "pay") @@ (tip :> "lnurl") @@ (deposit :> "create")
              @@ (junk :> "invalid") @@ (odd :> "unknown")
MCKind == [c \in Cmds |-> AllKinds[c]]

Symmetry == Permutations(Sessions)
=============================================================================
