--------------------------- MODULE MCLedgerWallet ---------------------------
(* The small ledger of MCLedger, checked against the Wallet.                *)
EXTENDS MCLedger, LedgerWallet
=============================================================================
