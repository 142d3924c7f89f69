-------------------------- MODULE MCAdministration --------------------------
(* Small instances of a checkout session and its administrators for TLC.    *)
EXTENDS Administration, TLC

CONSTANTS one, other
=============================================================================
