----------------------------- MODULE MCCheckout -----------------------------
(* Small instances of a checkout session for TLC.                           *)
EXTENDS Checkout, TLC

CONSTANTS one, other

Symmetry == Permutations(Tasks)
=============================================================================
