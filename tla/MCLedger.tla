------------------------------ MODULE MCLedger ------------------------------
(* A small ledger for TLC: one user's account and the house's (SYSTEM).     *)
EXTENDS Ledger, TLC

CONSTANTS alice, house, user, inv, pay

MCOwner == (alice :> user) @@ (house :> None)

Line(n, a, s, m) == [line |-> n, account |-> a, side |-> s, amount |-> m]

\* A deposit, a purchase, a purchase that also pays a rebate back, and two
\* bodies the service must refuse.
Deposit == [kind |-> "external_credit",
            entries |-> {Line(1, alice, "credit", 2)}]
Purchase == [kind |-> "transfer",
             entries |-> {Line(1, alice, "debit", 1),
                          Line(2, house, "credit", 1)}]
Rebate == [kind |-> "transfer",
           entries |-> {Line(1, alice, "debit", 2),
                        Line(2, house, "credit", 1),
                        Line(3, alice, "credit", 1)}]
Unbalanced == [kind |-> "transfer",
               entries |-> {Line(1, alice, "debit", 1),
                            Line(2, house, "credit", 2)}]
Nothing == [kind |-> "external_credit",
          entries |-> {Line(1, alice, "credit", 0)}]
MCPayloads == {Deposit, Purchase, Rebate, Unbalanced, Nothing}

\* A hold with a deadline (a withdrawal of the payment pay) and one without.
MCHoldRequests ==
  {[account |-> alice, amount |-> 1, deadline |-> "ahead", reference |-> pay],
   [account |-> alice, amount |-> 2, deadline |-> "none", reference |-> None]}

\* The invoice the user pays, and the withdrawal the first hold is for.
Paid == [type |-> "invoice.paid", user |-> user, reference |-> inv, amount |-> 1]
Sent == [type |-> "sent", user |-> user, reference |-> pay, amount |-> 1]
MCEvents == {Paid, Sent}
MCDeposits == {Paid}

\* Fewer bodies, for the runs in which messages overlap with other writers.
FewPayloads == {Deposit, Purchase}

Symmetry == Permutations(Txns) \cup Permutations(Holds)
              \cup Permutations(Sessions)
=============================================================================
