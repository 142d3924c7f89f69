------------------------------ MODULE Checkout ------------------------------
(***************************************************************************)
(* One checkout session of the hub: created, prepared, cancelled, settled,  *)
(* expired and given a prize by concurrent requests.  A request loads the   *)
(* row without a lock, calls the ledger over HTTP and commits at its end;   *)
(* the commit writes only the columns whose value differs from the loaded   *)
(* one (the ORM's UPDATE), over what others have committed since.           *)
(*                                                                         *)
(* Of the ledger there are the user's and the application's account, the    *)
(* session's hold, its two transactions and that of one prize; every call   *)
(* is one atomic step of it.  A request whose call fails, times out or dies *)
(* with the process ends without a commit, whether the ledger did its part  *)
(* or not.  Refused requests are no step.                                   *)
(***************************************************************************)
EXTENDS Integers, FiniteSets

CONSTANTS
  Amount,      \* amount of the checkout
  Tasks,       \* concurrent requests
  MaxBalance,  \* bound on the user's deposits
  None

ASSUME CheckoutAssumption ==
  /\ Amount \in Nat \ {0} /\ MaxBalance \in Nat
  /\ IsFiniteSet(Tasks)
  /\ None \notin [account: {"user"}, amount: Nat]  \* SQL NULL is not a row

VARIABLES
  row,       \* the checkout_sessions row
  due,       \* expires_at, which is the hold's as well, has passed
  task,      \* requests: what they loaded, what they hold in memory
  balance,   \* the user's account in the ledger, less what other holds keep
  received,  \* the application's account in the ledger
  hold,      \* the hold under the session's key
  txn        \* the transactions under its settlement keys and the prize's

vars == <<row, due, task, balance, received, hold, txn>>
ledgerVars == <<balance, received, hold, txn>>

Statuses == {"absent", "created", "awaiting", "reserved", "settled", "canceled",
             "expired"}
Final == {"settled", "canceled", "expired"}

TxnKeys == {"internal", "external", "prize"}
NewTxn == [status |-> "none", amount |-> 0]
NewRow == [status |-> "created", internal |-> 0, external |-> 0,
           hold |-> FALSE, invoice |-> FALSE]

Init ==
  /\ row = [NewRow EXCEPT !.status = "absent"]
  /\ due = FALSE
  /\ task = [t \in Tasks |-> None]
  /\ balance = 0 /\ received = 0
  /\ hold = [status |-> "none", amount |-> 0]
  /\ txn = [k \in TxnKeys |-> NewTxn]

-----------------------------------------------------------------------------
(* Requests.                                                               *)

Busy(t) == task[t] # None
At(t, op, place) == Busy(t) /\ task[t].op = op /\ task[t].at = place
Mine(t) == task[t].mine

Go(t, place) == task' = [task EXCEPT ![t].at = place]
Keep(t, mine, place) == task' = [task EXCEPT ![t].mine = mine, ![t].at = place]
End(t) == task' = [task EXCEPT ![t] = None]

Open(r) == r.status \notin Final

\* A session that is due is only marked as expired; one in a final state is
\* refused, or answered as it is.
Load(t, op, place) ==
  /\ ~Busy(t)
  /\ row.status # "absent" /\ Open(row)
  /\ task' = [task EXCEPT ![t] =
       [op |-> op, loaded |-> row,
        mine |-> IF due THEN [row EXCEPT !.status = "expired"] ELSE row,
        at |-> IF due THEN "commit" ELSE place]]
  /\ UNCHANGED <<row, due, ledgerVars>>

\* The order is unknown when it is looked up, and stored unless somebody else
\* has stored it: (game_id, order_id) is UNIQUE.
LookUpOrder(t) ==
  /\ ~Busy(t) /\ row.status = "absent"
  /\ task' = [task EXCEPT ![t] =
       [op |-> "create", loaded |-> row, mine |-> NewRow, at |-> "insert"]]
  /\ UNCHANGED <<row, due, ledgerVars>>

\* Mutant: nothing keeps a second row from taking the place of the first.
InsertAnyway(t) ==
  /\ At(t, "create", "insert")
  /\ row' = Mine(t)
  /\ End(t)
  /\ UNCHANGED <<due, ledgerVars>>

Insert(t) ==
  /\ At(t, "create", "insert")
  /\ row' = IF row.status = "absent" THEN Mine(t) ELSE row
  /\ End(t)
  /\ UNCHANGED <<due, ledgerVars>>

Written(t) ==
  [c \in DOMAIN row |->
     IF Mine(t)[c] # task[t].loaded[c] THEN Mine(t)[c] ELSE row[c]]

Commit(t) ==
  /\ Busy(t) /\ task[t].at = "commit"
  /\ row' = Written(t)
  /\ End(t)
  /\ UNCHANGED <<due, ledgerVars>>

\* A call failed, its answer was lost, or the process died.
Fail(t) ==
  /\ Busy(t)
  /\ End(t)
  /\ UNCHANGED <<row, due, ledgerVars>>

\* GET of a session: the only effect is to mark it as expired.
Look(t) == due /\ Load(t, "look", "commit")

-----------------------------------------------------------------------------
(* The ledger.                                                             *)

Reserved == IF hold.status = "active" THEN hold.amount ELSE 0
Available == balance - Reserved

ExpireHold == hold' = [hold EXCEPT !.status = "expired"]

\* Mutant: the ledger does not look whether the funds are there.
HoldUnchecked(n) ==
  \/ hold.status = "none" /\ hold' = [status |-> "active", amount |-> n]
  \/ hold.status # "none" /\ hold.amount = n /\ hold' = hold

\* The hold under the session's key: a repeated request is answered with it,
\* whatever became of it; another amount is refused.
HoldCreated(n) ==
  \/ /\ hold.status = "none" /\ n <= Available
     /\ hold' = [status |-> "active", amount |-> n]
  \/ hold.status # "none" /\ hold.amount = n /\ hold' = hold

TxnCreated(k, n) ==
  \/ /\ txn[k].status = "none"
     /\ txn' = [txn EXCEPT ![k] = [status |-> "pending", amount |-> n]]
  \/ txn[k].status # "none" /\ txn[k].amount = n /\ txn' = txn

\* Posting moves money from the user to the application, a prize back.
Moved(k, n) ==
  /\ balance' = balance - n /\ received' = received + n
  /\ txn' = [txn EXCEPT ![k].status = "posted"]
Pays(k) == Moved(k, txn[k].amount)

-----------------------------------------------------------------------------
(* Prepare.                                                                *)

\* Mutant: the balance is taken whole, what the session costs or not.
Everything == IF Available > 0 THEN Available ELSE 0

Internal ==
  LET free == IF Available > 0 THEN Available ELSE 0
  IN  IF free < Amount THEN free ELSE Amount

\* Mutant: the balance counts although the user does not want to use it.
RemainderOfBalance(internal) == Amount - Internal

Remainder(internal) == Amount - internal

\* A session prepared before keeps its plan; wallet balance is used if the
\* user says so.
Plan(t, useBalance) ==
  LET mine == Mine(t)
      internal == IF useBalance THEN Internal ELSE 0
      planned == IF mine.status # "created" THEN mine
                 ELSE [mine EXCEPT !.internal = internal,
                                   !.external = Remainder(internal)]
  IN  /\ At(t, "prepare", "plan")
      /\ Keep(t, planned, IF planned.internal > 0 /\ ~planned.hold
                          THEN "hold" ELSE "invoice")
      /\ UNCHANGED <<row, due, ledgerVars>>

Reserve(t) ==
  /\ At(t, "prepare", "hold")
  /\ HoldCreated(Mine(t).internal)
  /\ Keep(t, [Mine(t) EXCEPT !.hold = TRUE], "invoice")
  /\ UNCHANGED <<row, due, balance, received, txn>>

\* An invoice that does not come leaves the session awaiting payment.
AskInvoice(t) ==
  LET mine == Mine(t)
      status == IF mine.external > 0 THEN "awaiting" ELSE "reserved"
  IN  /\ At(t, "prepare", "invoice")
      /\ \E got \in BOOLEAN :
           /\ got => mine.external > 0
           /\ Keep(t, [mine EXCEPT !.status = status,
                                   !.invoice = @ \/ got], "commit")
      /\ UNCHANGED <<row, due, ledgerVars>>

-----------------------------------------------------------------------------
(* Cancel.                                                                 *)

Canceled(t) == [Mine(t) EXCEPT !.status = "canceled"]

\* Mutant: a consumed hold is nothing to give back either.
NothingHeldOrSpent(t) == ~Mine(t).hold \/ hold.status # "active"

NothingHeld(t) == ~Mine(t).hold \/ hold.status \in {"released", "expired"}

InspectHold(t) ==
  /\ At(t, "cancel", "inspect")
  /\ \/ NothingHeld(t) /\ Keep(t, Canceled(t), "commit")
     \/ Mine(t).hold /\ hold.status = "active" /\ Go(t, "release")
  /\ UNCHANGED <<row, due, ledgerVars>>

\* The second disjunct is the ledger's answer to a repeated key; in the last
\* one the hold turns out to be due, and the ledger answers an error.
Release(t) ==
  /\ At(t, "cancel", "release")
  /\ \/ /\ hold.status = "active" /\ ~due
        /\ hold' = [hold EXCEPT !.status = "released"]
        /\ Keep(t, Canceled(t), "commit")
     \/ /\ hold.status = "released" /\ hold' = hold
        /\ Keep(t, Canceled(t), "commit")
     \/ hold.status = "active" /\ due /\ ExpireHold /\ End(t)
  /\ UNCHANGED <<row, due, balance, received, txn>>

-----------------------------------------------------------------------------
(* Settle: at most two transactions, and the session is settled after both. *)

Settleable(mine) ==
  /\ mine.internal > 0 \/ mine.external > 0
  /\ mine.internal > 0 => mine.hold
  /\ mine.external > 0 => Available >= mine.external

\* Mutant: the invoice's part is taken first.
ExternalFirst(t) ==
  /\ At(t, "settle", "check") /\ Settleable(Mine(t))
  /\ Go(t, IF Mine(t).external > 0 THEN "external" ELSE "internal")
  /\ UNCHANGED <<row, due, ledgerVars>>

CheckFunds(t) ==
  LET mine == Mine(t)
  IN  /\ At(t, "settle", "check")
      /\ Settleable(mine)
      /\ Go(t, IF mine.internal > 0 THEN "internal" ELSE "external")
      /\ UNCHANGED <<row, due, ledgerVars>>

CreateInternal(t) ==
  /\ At(t, "settle", "internal")
  /\ TxnCreated("internal", Mine(t).internal)
  /\ Go(t, "consume")
  /\ UNCHANGED <<row, due, balance, received, hold>>

\* Mutant: a session with an internal part has no external one.
InternalOnly(mine) == TRUE

Paid(mine) == mine.external = 0

AfterInternal(t) ==
  IF Paid(Mine(t))
  THEN Keep(t, [Mine(t) EXCEPT !.status = "settled"], "commit")
  ELSE Go(t, "external")

Consume(t) ==
  /\ At(t, "settle", "consume")
  /\ \/ /\ hold.status = "active" /\ ~due
        /\ txn["internal"] = [status |-> "pending", amount |-> hold.amount]
        /\ Pays("internal")
        /\ hold' = [hold EXCEPT !.status = "consumed"]
        /\ AfterInternal(t)
     \/ /\ hold.status = "consumed"
        /\ AfterInternal(t)
        /\ UNCHANGED ledgerVars
     \/ /\ hold.status = "active" /\ due
        /\ ExpireHold /\ End(t)
        /\ UNCHANGED <<balance, received, txn>>
  /\ UNCHANGED <<row, due>>

CreateExternal(t) ==
  /\ At(t, "settle", "external")
  /\ TxnCreated("external", Mine(t).external)
  /\ Go(t, "post")
  /\ UNCHANGED <<row, due, balance, received, hold>>

Posted(t) ==
  /\ Keep(t, [Mine(t) EXCEPT !.status = "settled"], "commit")
  /\ \/ /\ txn["external"].status = "pending"
        /\ txn["external"].amount <= Available
        /\ Pays("external") /\ hold' = hold
     \/ txn["external"].status = "posted" /\ UNCHANGED ledgerVars

PostExternal(t) ==
  /\ At(t, "settle", "post")
  /\ Posted(t)
  /\ UNCHANGED <<row, due>>

-----------------------------------------------------------------------------
(* Prize: a transfer from the application to the user of a settled session, *)
(* under the key of its payout.                                             *)

Prizable(r) == r.status = "settled"

LoadPrize(t) ==
  /\ ~Busy(t) /\ Prizable(row)
  /\ task' = [task EXCEPT ![t] =
       [op |-> "prize", loaded |-> row, mine |-> row, at |-> "create"]]
  /\ UNCHANGED <<row, due, ledgerVars>>

\* A payout made before is answered as it is.
CreatePrize(t, n) ==
  /\ At(t, "prize", "create")
  /\ TxnCreated("prize", n)
  /\ IF txn["prize"].status = "posted" THEN End(t) ELSE Go(t, "post")
  /\ UNCHANGED <<row, due, balance, received, hold>>

PostPrize(t) ==
  /\ At(t, "prize", "post")
  /\ \/ /\ txn["prize"].status = "pending" /\ txn["prize"].amount <= received
        /\ Moved("prize", -txn["prize"].amount)
     \/ txn["prize"].status = "posted" /\ UNCHANGED <<balance, received, txn>>
  /\ End(t)
  /\ UNCHANGED <<row, due, hold>>

-----------------------------------------------------------------------------
(* The surroundings.                                                       *)

\* The invoice, or any other deposit, is paid.
Deposit ==
  /\ balance < MaxBalance
  /\ balance' = balance + 1
  /\ UNCHANGED <<row, due, task, received, hold, txn>>

SpendElsewhere ==
  /\ Available > 0
  /\ balance' = balance - 1
  /\ UNCHANGED <<row, due, task, received, hold, txn>>

TimePasses == row.status # "absent" /\ ~due /\ due' = TRUE /\ UNCHANGED <<row, task, ledgerVars>>

WorkerExpires ==
  /\ due /\ hold.status = "active"
  /\ ExpireHold
  /\ UNCHANGED <<row, due, task, balance, received, txn>>

PrepareStep(t) ==
  \/ Load(t, "prepare", "plan")
  \/ \E useBalance \in BOOLEAN : Plan(t, useBalance)
  \/ Reserve(t) \/ AskInvoice(t)
CancelStep(t) == Load(t, "cancel", "inspect") \/ InspectHold(t) \/ Release(t)
SettleStep(t) ==
  \/ Load(t, "settle", "check") \/ CheckFunds(t)
  \/ CreateInternal(t) \/ Consume(t) \/ CreateExternal(t) \/ PostExternal(t)
PrizeStep(t) ==
  LoadPrize(t) \/ PostPrize(t) \/ \E n \in 1 .. Amount : CreatePrize(t, n)

Next ==
  \/ \E t \in Tasks :
       LookUpOrder(t) \/ Insert(t)
         \/ PrepareStep(t) \/ CancelStep(t) \/ SettleStep(t) \/ PrizeStep(t)
         \/ Look(t) \/ Commit(t) \/ Fail(t)
  \/ Deposit \/ SpendElsewhere \/ TimePasses \/ WorkerExpires

Spec == Init /\ [][Next]_vars

-----------------------------------------------------------------------------
(* Properties.                                                             *)

Row == [status: Statuses, internal: 0 .. Amount, external: 0 .. Amount,
        hold: BOOLEAN, invoice: BOOLEAN]
Txn == [status: {"none", "pending", "posted"}, amount: 0 .. Amount]
Places == {"plan", "hold", "invoice", "inspect", "release", "check", "internal",
           "consume", "external", "post", "commit", "insert", "create"}

TypeOK ==
  /\ row \in Row
  /\ due \in BOOLEAN
  /\ task \in [Tasks -> {None} \cup
                 [op: {"create", "prepare", "cancel", "settle", "look", "prize"},
                  loaded: Row, mine: Row, at: Places]]
  /\ balance \in Nat /\ received \in Nat
  /\ hold \in [status: {"none", "active", "released", "expired", "consumed"},
               amount: 0 .. Amount]
  /\ txn \in [TxnKeys -> Txn]

\* A prepared session costs the user exactly its amount: what the wallet does
\* not cover is asked for as an invoice, and nothing else is.
FundedOnce ==
  row.status \in {"reserved", "awaiting", "settled"} =>
    row.internal + row.external = Amount

\* Settled means paid: the application has got the amount, all of it, once,
\* less the prize, once; whatever failed, was lost or was repeated on the way.
Prize == IF txn["prize"].status = "posted" THEN txn["prize"].amount ELSE 0
SettledIsPaid == row.status = "settled" => received + Prize = Amount

\* A settlement that broke off, whatever becomes of the session then, has
\* taken nothing, the part that was reserved, or all: each part once, whole,
\* and the one the user pays for by invoice not before the reserved one.
TakenInOrder == received + Prize \in {0, row.internal, Amount}

\* A cancelled session holds nothing it knows of and has not spent its hold.
CanceledGivesBack ==
  row.status = "canceled" =>
    /\ hold.status # "consumed"
    /\ row.hold => hold.status # "active"

\* A settled session stays settled (contract: test_cancel_endpoint_does_not_
\* overwrite_settled_session).
SettledStays == [][row.status = "settled" => row'.status = "settled"]_vars

\* One order has one session: requests that create it at the same time do not
\* start it anew, whatever has become of it in between.
CreatedOnce ==
  [][row'.status = "created" => row.status \in {"absent", "created"}]_vars

\* What the ledger's records come to in the terms of the abstract wallet.
FreeFunds == [a \in {"user", "application"} |->
                IF a = "user" THEN Available ELSE received]
HeldMoney == [h \in {"checkout"} |->
                IF hold.status = "active"
                THEN [account |-> "user", amount |-> hold.amount] ELSE None]
Wallets ==
  INSTANCE Wallet WITH
    Accounts <- {"user", "application"}, Holds <- {"checkout"},
    funds <- FreeFunds, held <- HeldMoney, net <- balance + received

\* The steps the session makes the ledger take are those the abstract wallet
\* allows: money is set aside, given back or spent once, and never lost.
StaysWithinWallet == [][Wallets!Next]_Wallets!vars
=============================================================================
