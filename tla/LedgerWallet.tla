---------------------------- MODULE LedgerWallet ----------------------------
(***************************************************************************)
(* The Ledger implements the Wallet: free funds are balance less reserved,  *)
(* a hold sets money aside while it is active, and net is what the applied  *)
(* external transactions brought in and took out.                           *)
(***************************************************************************)
EXTENDS Ledger

\* SQL NULL is not a row.
ASSUME NoneAssumption == None \notin [account: Accounts, amount: Int]

AppliedOfKind(kind, side) ==
  UNION {SideLines(t, txn[t].entries, side) :
           t \in {x \in AppliedTxns : txn[x].kind = kind}}

Held(h) ==
  IF hold[h].status = "active"
  THEN [account |-> hold[h].account, amount |-> hold[h].amount]
  ELSE None

FreeFunds == [a \in Accounts |-> Available(a)]
HeldMoney == [h \in Holds |-> Held(h)]
NetInflow == Total(AppliedOfKind("external_credit", "credit"))
               - Total(AppliedOfKind("external_debit", "debit"))

W == INSTANCE Wallet WITH funds <- FreeFunds, held <- HeldMoney,
                          net <- NetInflow

\* Every step of the Ledger is a step of the Wallet or leaves it alone: money
\* is conserved, never overspent, and a hold gives back or spends exactly what
\* it set aside, once.
ImplementsWallet == W!Spec
=============================================================================
