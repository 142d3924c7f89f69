------------------------------- MODULE Ledger -------------------------------
(***************************************************************************)
(* The Ledger service: accounts, balance holds and double-entry            *)
(* transactions, with the three processes that write them: the HTTP API,   *)
(* the hold expiration worker and the consumer of payment events.           *)
(*                                                                         *)
(* One action is one committed database transaction.  An API handler and   *)
(* the worker lock every account, hold and transaction row they write with  *)
(* SELECT ... FOR UPDATE before they read it, so each of them is one step.  *)
(* The consumer reads the account WITHOUT a lock and later writes back a    *)
(* value computed from that read, so a message is two steps, BeginEvent     *)
(* and one of the Commit actions, and other writers may come between them.  *)
(*                                                                         *)
(* A handler that answers an error, and one that recognises a repeated      *)
(* idempotency key, changes nothing and is no step of this module.          *)
(***************************************************************************)
EXTENDS Amounts

CONSTANTS
  Accounts,      \* ids of accounts
  Txns,          \* ids of ledger transactions
  Holds,         \* ids of balance holds
  Sessions,      \* messages the consumer handles concurrently
  Keys,          \* idempotency keys callers send
  Users,         \* owners of USER accounts
  References,    \* invoice ids and withdrawal references
  None,          \* SQL NULL
  Owner,         \* owner_id of every account, None for a SYSTEM account
  Payloads,      \* bodies of POST /transactions: kind, entries
  HoldRequests,  \* bodies of POST /holds: account, amount, deadline, reference
  Events,        \* payment messages: type, user, reference, amount
  Overlap,       \* TRUE: other writers may run between a message's two steps
  Checks         \* TRUE: the CHECK constraints of the accounts table are there

Kinds == {"transfer", "external_credit", "external_debit"}
Sides == {"debit", "credit"}
Deadlines == {"none", "ahead", "passed"}
Operations == {"transaction.post", "transaction.reverse",
               "hold.consume", "hold.release", "hold.expire"}

Entry == [line: Nat, account: Accounts, side: Sides, amount: Int]

EventKey(e) == <<e.type, e.reference>>
TxnKeys == Keys \cup {None} \cup {EventKey(e) : e \in Events}

ASSUME SetsAssumption ==
  /\ IsFiniteSet(Accounts) /\ IsFiniteSet(Txns) /\ IsFiniteSet(Holds)
  /\ None \notin Accounts \cup Txns \cup Keys
  /\ Owner \in [Accounts -> Users \cup {None}]
  /\ None \notin Users
  /\ Overlap \in BOOLEAN /\ Checks \in BOOLEAN

ASSUME InputsAssumption ==
  /\ \A p \in Payloads :
       /\ p \in [kind: Kinds, entries: SUBSET Entry]
       /\ IsFiniteSet(p.entries)
  /\ HoldRequests \subseteq [account: Accounts, amount: Int,
                             deadline: Deadlines, reference: References \cup {None}]
  /\ Events \subseteq [type: {"invoice.paid", "sent"}, user: Users,
                       reference: References, amount: Int]

VARIABLES
  open,      \* accounts that have been created
  balance,   \* accounts.balance
  reserved,  \* accounts.reserved_balance
  txn,       \* ledger_transactions joined with their ledger_entries
  hold,      \* balance_holds
  opRows,    \* operation_idempotency: UNIQUE (operation, idempotency_key)
  seen       \* per consumer session: its message and the account row it read

vars == <<open, balance, reserved, txn, hold, opRows, seen>>

NoTxn == [status |-> "none", kind |-> "transfer", entries |-> {},
          key |-> None, reverses |-> None]
NoHold == [status |-> "none", account |-> None, amount |-> 0,
           deadline |-> "none", reference |-> None, key |-> None]

Init ==
  /\ open = {}
  /\ balance = [a \in Accounts |-> 0]
  /\ reserved = [a \in Accounts |-> 0]
  /\ txn = [t \in Txns |-> NoTxn]
  /\ hold = [h \in Holds |-> NoHold]
  /\ opRows = {}
  /\ seen = [s \in Sessions |-> None]

-----------------------------------------------------------------------------
(* Entries and their effect on balances.                                   *)

SideLines(t, E, side) == {<<t, e>> : e \in {x \in E : x.side = side}}
Lines(t, E, a, side) ==
  {<<t, e>> : e \in {x \in E : x.account = a /\ x.side = side}}

Debits(t, E, a) == Total(Lines(t, E, a, "debit"))
Credits(t, E, a) == Total(Lines(t, E, a, "credit"))

\* Mutant: the totals of the two sides are not compared.
UncheckedEntries(t, kind, E) == E # {} /\ \A e \in E : e.amount > 0

\* Every entry is positive; a transfer balances, an external credit has only
\* credits and an external debit only debits.
ValidEntries(t, kind, E) ==
  LET debit == Total(SideLines(t, E, "debit"))
      credit == Total(SideLines(t, E, "credit"))
  IN  /\ E # {}
      /\ \A e \in E : e.amount > 0
      /\ kind = "transfer" => debit = credit
      /\ kind = "external_credit" => debit = 0 /\ credit # 0
      /\ kind = "external_debit" => credit = 0 /\ debit # 0

\* Mutant: debit entries are left out.
CreditsApplied(bal, t, E) == [a \in Accounts |-> bal[a] + Credits(t, E, a)]

Applied(bal, t, E) ==
  [a \in Accounts |-> bal[a] + Credits(t, E, a) - Debits(t, E, a)]

\* Entries are applied one at a time, in the order the database returns them,
\* and every debit needs available >= amount.  The order is unspecified: some
\* order passes when the one with the credits first does.
Affordable(t, E, accounts) ==
  \A a \in accounts :
    Debits(t, E, a) > 0 =>
      balance[a] + Credits(t, E, a) - Debits(t, E, a) >= reserved[a]

\* Mutant: what is already reserved counts as available.
WholeBalance(a) == balance[a]

Available(a) == balance[a] - reserved[a]

-----------------------------------------------------------------------------
(* Row access shared by the handlers.                                      *)

\* No other writer is let in while a message is between its two steps.
Turn == Overlap \/ \A s \in Sessions : seen[s] = None

\* The UPDATE of account rows, refused by the CHECK constraints.
WriteAccounts(bal, res) ==
  /\ Checks => \A a \in Accounts : 0 <= res[a] /\ res[a] <= bal[a]
  /\ balance' = bal
  /\ reserved' = res

FreshTxn(t) == txn[t].status = "none"

\* Mutant: the key of a new transaction is not looked up.
AnyTxnKey(k) == TRUE

TxnKeyUnused(k) == k = None \/ \A t \in Txns : txn[t].key # k
HoldKeyUnused(k) == k = None \/ \A h \in Holds : hold[h].key # k

\* Mutant: neither the lookup nor the UNIQUE constraint is there.
AnyOpKey(op, k) == TRUE

\* No row has this operation and key: not this resource's (a replay, answered
\* from the row), nor another's (the commit violates the UNIQUE constraint).
OpKeyUnused(op, k) ==
  k = None \/ \A row \in opRows : ~(row.op = op /\ row.key = k)

\* Mutant: a row is recorded for a request without a key, too.
RecordedAlways(op, r, k) == opRows \cup {[op |-> op, resource |-> r, key |-> k]}

Recorded(op, r, k) ==
  IF k = None THEN opRows
  ELSE opRows \cup {[op |-> op, resource |-> r, key |-> k]}

HeldRows(S) == {<<h, [amount |-> hold[h].amount]>> : h \in S}
OfAccount(S, a) == {h \in S : hold[h].account = a}

-----------------------------------------------------------------------------
(* Accounts and transactions.                                              *)

CreateAccount(a) ==
  /\ Turn
  /\ a \notin open
  /\ open' = open \cup {a}
  /\ UNCHANGED <<balance, reserved, txn, hold, opRows, seen>>

CreateTransaction(t, p, k) ==
  /\ Turn
  /\ TxnKeyUnused(k)
  /\ ValidEntries(t, p.kind, p.entries)
  /\ \A e \in p.entries : e.account \in open
  /\ FreshTxn(t)
  /\ txn' = [txn EXCEPT ![t] =
               [status |-> "pending", kind |-> p.kind, entries |-> p.entries,
                key |-> k, reverses |-> None]]
  /\ UNCHANGED <<open, balance, reserved, hold, opRows, seen>>

PostTransaction(t, k) ==
  /\ Turn
  /\ OpKeyUnused("transaction.post", k)
  /\ txn[t].status = "pending"
  /\ Affordable(t, txn[t].entries, Accounts)
  /\ WriteAccounts(Applied(balance, t, txn[t].entries), reserved)
  /\ txn' = [txn EXCEPT ![t].status = "posted"]
  /\ opRows' = Recorded("transaction.post", t, k)
  /\ UNCHANGED <<open, hold, seen>>

Opposite(side) == IF side = "debit" THEN "credit" ELSE "debit"
Mirror(E) == {[e EXCEPT !.side = Opposite(e.side)] : e \in E}

\* Mutant: a reversal has the kind of the transaction it undoes.
SameKind(kind) == kind

MirrorKind(kind) ==
  CASE kind = "external_credit" -> "external_debit"
    [] kind = "external_debit" -> "external_credit"
    [] OTHER -> "transfer"

\* Mutant: a pending transaction may be reversed.
ReversibleEarly(t) ==
  /\ txn[t].status \in {"pending", "posted"}
  /\ \A x \in Txns : txn[x].reverses # t

Reversible(t) ==
  /\ txn[t].status = "posted"
  /\ \A x \in Txns : txn[x].reverses # t

\* Mutant: the reversal does not say which transaction it undoes.
UnlinkedReversal(t) ==
  [status |-> "posted", kind |-> MirrorKind(txn[t].kind),
   entries |-> Mirror(txn[t].entries), key |-> None, reverses |-> None]

ReversalOf(t) ==
  [status |-> "posted", kind |-> MirrorKind(txn[t].kind),
   entries |-> Mirror(txn[t].entries), key |-> None, reverses |-> t]

ReverseTransaction(t, r, k) ==
  LET E == Mirror(txn[t].entries)
  IN  /\ Turn
      /\ OpKeyUnused("transaction.reverse", k)
      /\ Reversible(t)
      /\ FreshTxn(r)
      /\ Affordable(r, E, Accounts)
      /\ WriteAccounts(Applied(balance, r, E), reserved)
      /\ txn' = [txn EXCEPT
           ![t].status = "reversed",
           ![r] = ReversalOf(t)]
      /\ opRows' = Recorded("transaction.reverse", t, k)
      /\ UNCHANGED <<open, hold, seen>>

-----------------------------------------------------------------------------
(* Holds.                                                                  *)

CreateHold(h, q, k) ==
  /\ Turn
  /\ HoldKeyUnused(k)
  /\ q.amount > 0
  /\ q.account \in open
  /\ Available(q.account) >= q.amount
  /\ hold[h].status = "none"
  /\ WriteAccounts(balance, [reserved EXCEPT ![q.account] = @ + q.amount])
  /\ hold' = [hold EXCEPT ![h] =
                [status |-> "active", account |-> q.account,
                 amount |-> q.amount, deadline |-> q.deadline,
                 reference |-> q.reference, key |-> k]]
  /\ UNCHANGED <<open, txn, opRows, seen>>

\* expires_at of an active hold comes to lie in the past.
DeadlinePasses(h) ==
  /\ hold[h].status = "active" /\ hold[h].deadline = "ahead"
  /\ hold' = [hold EXCEPT ![h].deadline = "passed"]
  /\ UNCHANGED <<open, balance, reserved, txn, opRows, seen>>

Due(h) == hold[h].status = "active" /\ hold[h].deadline = "passed"

\* Mutant: the amounts are given back and the status is left as it was.
FreeAmounts(S, status) ==
  /\ WriteAccounts(balance,
       [a \in Accounts |-> reserved[a] - Total(HeldRows(OfAccount(S, a)))])
  /\ hold' = hold

\* Active holds S give their amounts back and end with the given status.
Free(S, status) ==
  /\ WriteAccounts(balance,
       [a \in Accounts |-> reserved[a] - Total(HeldRows(OfAccount(S, a)))])
  /\ hold' = [h \in Holds |->
                IF h \in S THEN [hold[h] EXCEPT !.status = status] ELSE hold[h]]

\* POST /holds/{id}/expire does not ask whether the hold is due.
ExpireHold(h, k) ==
  /\ Turn
  /\ OpKeyUnused("hold.expire", k)
  /\ hold[h].status = "active"
  /\ Free({h}, "expired")
  /\ opRows' = Recorded("hold.expire", h, k)
  /\ UNCHANGED <<open, txn, seen>>

\* Mutant: expires_at is compared the wrong way round.
NotYetDue(left) ==
  {h \in Holds : hold[h].status = "active" /\ hold[h].deadline = "ahead"} \ left

\* The due holds a pass takes up: not those whose row another transaction has
\* locked, nor those beyond its batch.
Batch(left) == {h \in Holds : Due(h)} \ left

\* One pass of the worker, or POST /holds/expire-due: one transaction for the
\* whole batch, so a row the CHECK refuses leaves every hold as it was.
ExpireDueHolds(left) ==
  /\ Turn
  /\ Batch(left) # {}
  /\ Free(Batch(left), "expired")
  /\ UNCHANGED <<open, txn, opRows, seen>>

ReleaseHold(h, k) ==
  /\ Turn
  /\ OpKeyUnused("hold.release", k)
  /\ hold[h].status = "active"
  /\ \/ /\ Due(h)
        /\ Free({h}, "expired")
        /\ UNCHANGED opRows
     \/ /\ ~Due(h)
        /\ Free({h}, "released")
        /\ opRows' = Recorded("hold.release", h, k)
  /\ UNCHANGED <<open, txn, seen>>

\* Mutant: the amount of the debit is not compared with the hold's.
DebitsHoldAccount(E, H) ==
  \E e \in E : e.account = H.account /\ e.side = "debit"

\* The one debit of the hold's account is for the amount of the hold.
DebitsHold(E, H) ==
  \E d \in E : /\ d.amount = H.amount
               /\ {e \in E : e.account = H.account /\ e.side = "debit"} = {d}

ConsumeHold(h, t, k) ==
  /\ Turn
  /\ OpKeyUnused("hold.consume", k)
  /\ hold[h].status = "active"
  /\ \/ /\ Due(h)
        /\ Free({h}, "expired")
        /\ UNCHANGED <<txn, opRows>>
     \/ /\ ~Due(h)
        /\ txn[t].status = "pending"
        /\ DebitsHold(txn[t].entries, hold[h])
        /\ Affordable(t, txn[t].entries, Accounts \ {hold[h].account})
        /\ WriteAccounts(Applied(balance, t, txn[t].entries),
             [reserved EXCEPT ![hold[h].account] = @ - hold[h].amount])
        /\ txn' = [txn EXCEPT ![t].status = "posted"]
        /\ hold' = [hold EXCEPT ![h].status = "consumed"]
        /\ opRows' = Recorded("hold.consume", h, k)
  /\ UNCHANGED <<open, seen>>

-----------------------------------------------------------------------------
(* The consumer of payment events: at-least-once, any order.               *)

\* The message is not a known one and its user has an account: the account
\* row is read, and not locked.
BeginEvent(s, e, a) ==
  /\ Turn
  /\ seen[s] = None
  /\ e.amount > 0
  /\ TxnKeyUnused(EventKey(e))
  /\ a \in open /\ Owner[a] = e.user
  /\ seen' = [seen EXCEPT ![s] = [event |-> e, account |-> a,
                                  balance |-> balance[a],
                                  reserved |-> reserved[a]]]
  /\ UNCHANGED <<open, balance, reserved, txn, hold, opRows>>

\* The handler raises, or the process dies: the database rolls back.
AbandonEvent(s) ==
  /\ seen[s] # None
  /\ seen' = [seen EXCEPT ![s] = None]
  /\ UNCHANGED <<open, balance, reserved, txn, hold, opRows>>

EventTxn(m, kind, side) ==
  [status |-> "posted", kind |-> kind,
   entries |-> {[line |-> 1, account |-> m.account, side |-> side,
                 amount |-> m.event.amount]},
   key |-> EventKey(m.event), reverses |-> None]

\* payment.invoice.paid: a posted external credit, and the balance set to
\* what was read plus the amount.
CommitInvoicePaid(s, t) ==
  LET m == seen[s]
  IN  /\ m # None /\ m.event.type = "invoice.paid"
      /\ TxnKeyUnused(EventKey(m.event))
      /\ FreshTxn(t)
      /\ WriteAccounts(
           [balance EXCEPT ![m.account] = m.balance + m.event.amount],
           reserved)
      /\ txn' = [txn EXCEPT ![t] = EventTxn(m, "external_credit", "credit")]
      /\ seen' = [seen EXCEPT ![s] = None]
      /\ UNCHANGED <<open, hold, opRows>>

\* payment.sent: the withdrawal's active hold, due or not, is consumed by a
\* posted external debit; the session's stale account row is written back.
CommitPaymentSent(s, h, t) ==
  LET m == seen[s]
  IN  /\ m # None /\ m.event.type = "sent"
      /\ TxnKeyUnused(EventKey(m.event))
      /\ hold[h].status = "active"
      /\ hold[h].account = m.account
      /\ hold[h].reference = m.event.reference
      /\ hold[h].amount = m.event.amount
      /\ FreshTxn(t)
      /\ WriteAccounts(
           [balance EXCEPT ![m.account] = m.balance - m.event.amount],
           [reserved EXCEPT ![m.account] = m.reserved - m.event.amount])
      /\ txn' = [txn EXCEPT ![t] = EventTxn(m, "external_debit", "debit")]
      /\ hold' = [hold EXCEPT ![h].status = "consumed"]
      /\ seen' = [seen EXCEPT ![s] = None]
      /\ UNCHANGED <<open, opRows>>

-----------------------------------------------------------------------------
OptionalKey == Keys \cup {None}

TransactionStep ==
  \/ \E a \in Accounts : CreateAccount(a)
  \/ \E t \in Txns, p \in Payloads, k \in OptionalKey :
       CreateTransaction(t, p, k)
  \/ \E t \in Txns, k \in OptionalKey : PostTransaction(t, k)
  \/ \E t \in Txns, r \in Txns, k \in OptionalKey : ReverseTransaction(t, r, k)

HoldStep ==
  \/ \E h \in Holds, q \in HoldRequests, k \in OptionalKey : CreateHold(h, q, k)
  \/ \E h \in Holds, k \in OptionalKey : ExpireHold(h, k) \/ ReleaseHold(h, k)
  \/ \E h \in Holds, t \in Txns, k \in OptionalKey : ConsumeHold(h, t, k)
  \/ \E h \in Holds : DeadlinePasses(h)

WorkerStep == \E left \in SUBSET Holds : ExpireDueHolds(left)

EventStep ==
  \/ \E s \in Sessions, e \in Events, a \in Accounts : BeginEvent(s, e, a)
  \/ \E s \in Sessions : AbandonEvent(s)
  \/ \E s \in Sessions, t \in Txns : CommitInvoicePaid(s, t)
  \/ \E s \in Sessions, h \in Holds, t \in Txns : CommitPaymentSent(s, h, t)

Next == TransactionStep \/ HoldStep \/ WorkerStep \/ EventStep

Spec == Init /\ [][Next]_vars

\* The worker sleeps and runs again for ever, whatever a pass raised, and not
\* every pass finds rows of due holds locked by others.
FairSpec == Spec /\ WF_vars(ExpireDueHolds({}))

-----------------------------------------------------------------------------
(* Properties.                                                             *)

Transaction ==
  [status: {"none", "pending", "posted", "reversed"}, kind: Kinds,
   entries: SUBSET Entry, key: TxnKeys, reverses: Txns \cup {None}]
Hold ==
  [status: {"none", "active", "consumed", "released", "expired"},
   account: Accounts \cup {None}, amount: Int, deadline: Deadlines,
   reference: References \cup {None}, key: OptionalKey]
Seen == [event: Events, account: Accounts, balance: Int, reserved: Int]

\* Every column holds a value of its domain, and a transaction has finitely
\* many entries.
TypeOK ==
  /\ open \subseteq Accounts
  /\ balance \in [Accounts -> Int]
  /\ reserved \in [Accounts -> Int]
  /\ txn \in [Txns -> Transaction]
  /\ \A t \in Txns : IsFiniteSet(txn[t].entries)
  /\ hold \in [Holds -> Hold]
  /\ opRows \subseteq [op: Operations, resource: Txns \cup Holds, key: Keys]
  /\ seen \in [Sessions -> Seen \cup {None}]

AppliedTxns == {t \in Txns : txn[t].status \in {"posted", "reversed"}}
AppliedLines(a, side) ==
  UNION {Lines(t, txn[t].entries, a, side) : t \in AppliedTxns}
ActiveRows(a) ==
  HeldRows({h \in Holds : hold[h].status = "active" /\ hold[h].account = a})

\* The stored balance of an account is what the entries of its posted and
\* reversed transactions add up to (balances.py credit, debit_available).
BooksBalance ==
  \A a \in Accounts :
    balance[a] = Total(AppliedLines(a, "credit"))
                   - Total(AppliedLines(a, "debit"))

\* reserved_balance is the sum of the account's active holds: the check
\* _check_reserved_balances of the operational reconciliation.
ReservedMatchesHolds ==
  \A a \in Accounts : reserved[a] = Total(ActiveRows(a))

\* Money under hold is never spent by anything else, and no account goes
\* below zero: what the handlers' own guards keep without the database's
\* CHECK constraints (Checks = FALSE).
FundsCoverHolds ==
  \A a \in Accounts : 0 <= reserved[a] /\ reserved[a] <= balance[a]

\* A transaction is reversed exactly when one posted transaction mirrors it,
\* and no transaction is undone twice.
ReversalsPaired ==
  /\ \A t \in Txns :
       txn[t].status = "reversed" <=> \E r \in Txns : txn[r].reverses = t
  /\ \A r \in Txns : txn[r].reverses # None =>
       /\ r \in AppliedTxns
       /\ txn[r].entries = Mirror(txn[txn[r].reverses].entries)
       /\ \A x \in Txns : txn[x].reverses = txn[r].reverses => x = r

\* A transaction that moved money was well formed: a transfer creates and
\* destroys none, also when it is itself a reversal.
AppliedTransfersBalance ==
  \A t \in AppliedTxns :
    /\ txn[t].entries # {}
    /\ txn[t].kind = "transfer" =>
         Total(SideLines(t, txn[t].entries, "debit"))
           = Total(SideLines(t, txn[t].entries, "credit"))

\* Whatever operation a repeated key is answered from really took effect on
\* that resource, and a (operation, key) names one resource.
ReplaysTruthful ==
  \A row \in opRows :
    /\ row.op = "transaction.post" =>
         txn[row.resource].status \in {"posted", "reversed"}
    /\ row.op = "transaction.reverse" => txn[row.resource].status = "reversed"
    /\ row.op = "hold.consume" => hold[row.resource].status = "consumed"
    /\ row.op = "hold.release" => hold[row.resource].status = "released"
    /\ row.op = "hold.expire" => hold[row.resource].status = "expired"
    /\ \A other \in opRows :
         other.op = row.op /\ other.key = row.key => other = row

\* One invoice credits once and one withdrawal debits once, however often
\* and in whatever order the messages are delivered.
AppliedOnce ==
  \A t, u \in Txns :
    txn[t].key # None /\ txn[t].key = txn[u].key => t = u

\* The life of a hold: it ends once; it is consumed in the very step that
\* posts a debit of its amount on its account, and it is released or expired
\* in a step that leaves that account's balance alone.
HoldSettles(h) ==
  LET H == hold[h]
      G == hold'[h]
      posted == {t \in Txns : t \notin AppliedTxns /\ txn'[t].status = "posted"}
  IN  /\ H.status \in {"consumed", "released", "expired"} => G = H
      /\ H.status = "active" => G.status # "none" /\ G.amount = H.amount
                                  /\ G.account = H.account
      /\ H.status = "active" /\ G.status = "consumed" =>
           \E t \in posted : Debits(t, txn'[t].entries, H.account) = H.amount
      /\ H.status = "active" /\ G.status \in {"released", "expired"} =>
           balance'[H.account] = balance[H.account]
HoldsSettleOnce == [][\A h \in Holds : HoldSettles(h)]_vars

\* What was recorded is never rewritten: entries, kind, key and the reversal
\* link stay, and a status only moves pending, posted, reversed.
TxnAdvances(t) ==
  /\ txn[t].status # "none" => txn'[t] = [txn[t] EXCEPT !.status = txn'[t].status]
  /\ <<txn[t].status, txn'[t].status>> \in
       {<<s, s>> : s \in {"none", "pending", "posted", "reversed"}}
         \cup {<<"none", "pending">>, <<"none", "posted">>,
               <<"pending", "posted">>, <<"posted", "reversed">>}
HistoryAppendOnly == [][\A t \in Txns : TxnAdvances(t)]_vars

\* A hold whose deadline has passed does not keep funds reserved for ever
\* (ledger/README.md:605-606).  payment.sent can leave a reserved_balance below
\* what the holds need, and then the CHECK refuses every pass of the worker.
DueHoldsFreed == \A h \in Holds : Due(h) ~> hold[h].status # "active"

\* Nothing else keeps the worker from it, whichever handlers and messages come
\* between its passes and whatever they lock: unless the reserve of some account
\* is below the sum of its active holds, every due hold is given back.
ReserveTooLow == \E a \in Accounts : reserved[a] < Total(ActiveRows(a))
DueHoldsFreedUnlessStale ==
  \A h \in Holds : Due(h) ~> hold[h].status # "active" \/ ReserveTooLow
=============================================================================
