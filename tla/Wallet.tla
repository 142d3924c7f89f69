------------------------------- MODULE Wallet -------------------------------
(***************************************************************************)
(* What the Ledger promises its callers, without transactions, entries,     *)
(* reserved counters or keys.  An account has funds that are free to spend; *)
(* a hold sets some of them aside.  Held money comes back whole or is       *)
(* spent whole, once, and spending it costs the account nothing more.       *)
(* Money moves between accounts without loss; what enters or leaves the     *)
(* system is counted in net.                                                *)
(***************************************************************************)
EXTENDS Amounts

CONSTANTS Accounts, Holds, None

VARIABLES
  funds,  \* what an account can spend
  held,   \* a hold's account and amount, None when nothing is held
  net     \* satoshis that entered the system less those that left it

vars == <<funds, held, net>>

InFunds(f) == Total({<<a, [amount |-> f[a]]>> : a \in Accounts})
HeldBy(S) == Total({<<h, held[h]>> : h \in {x \in S : held[x] # None}})

Init ==
  /\ funds = [a \in Accounts |-> 0]
  /\ held = [h \in Holds |-> None]
  /\ net = 0

NeverNegative == \A a \in Accounts : funds'[a] \in Nat

SetAside(h) ==
  /\ held[h] = None /\ held'[h] # None
  /\ LET H == held'[h]
     IN  /\ H.amount > 0
         /\ held' = [held EXCEPT ![h] = H]
         /\ funds' = [funds EXCEPT ![H.account] = @ - H.amount]
  /\ net' = net

GiveBack(S) ==
  /\ S # {} /\ \A h \in S : held[h] # None
  /\ held' = [h \in Holds |-> IF h \in S THEN None ELSE held[h]]
  /\ funds' = [a \in Accounts |->
                 funds[a] + HeldBy({h \in S : held[h].account = a})]
  /\ net' = net

\* The held money goes to other accounts or out of the system.
Spend(h) ==
  /\ held[h] # None
  /\ held' = [held EXCEPT ![h] = None]
  /\ funds'[held[h].account] >= funds[held[h].account]
  /\ InFunds(funds') = InFunds(funds) + HeldBy({h}) + net' - net

\* Free money is transferred, or enters or leaves the system.
Move ==
  /\ held' = held
  /\ InFunds(funds') = InFunds(funds) + net' - net

Next ==
  /\ NeverNegative
  /\ \/ \E h \in Holds : SetAside(h) \/ Spend(h)
     \/ \E S \in SUBSET Holds : GiveBack(S)
     \/ Move

Spec == Init /\ [][Next]_vars
=============================================================================
