--------------------------- MODULE CheckoutProofs ---------------------------
(***************************************************************************)
(* Theorems about a checkout session and its administrators.  Those of the  *)
(* first part hold for any number of concurrent requests; those of the      *)
(* second for requests that come one after another, whatever fails between  *)
(* them: two that prepare a session at the same time break them.            *)
(***************************************************************************)
EXTENDS Administration, AmountFacts

\* The steps of one request, those of the checkout page included.
Requests(t) ==
  \/ LookUpOrder(t) \/ Insert(t)
  \/ PrepareStep(t) \/ CancelStep(t) \/ SettleStep(t) \/ PrizeStep(t)
  \/ Look(t) \/ Commit(t) \/ Fail(t)
  \/ SettlesAfterwards(t) /\ PageGoesOn(t)

\* The user's account changes for other reasons, by free funds only.
BalanceChanges ==
  /\ balance' \in Nat /\ balance' >= Reserved
  /\ UNCHANGED <<row, due, task, received, hold, txn>>

Surroundings == BalanceChanges \/ TimePasses \/ WorkerExpires

\* What a hold keeps is there, and no hold is created for nothing.
Funded ==
  /\ Available >= 0
  /\ hold.status # "none" => hold.amount > 0
  /\ \A t \in Tasks : At(t, "prepare", "hold") => Mine(t).internal > 0

FundsInv == TypeOK /\ Funded

\* No commit starts a session anew.
NothingStartsAnew ==
  \A t \in Tasks : Busy(t) /\ task[t].at = "commit" => Mine(t).status # "created"

-----------------------------------------------------------------------------
(* One request at a time.                                                  *)

OneAtATime == \A s, t \in Tasks : s = t

\* The plan of a session: none, or one that covers its amount.
Unplanned(r) == r.internal = 0 /\ r.external = 0 /\ ~r.hold
Planned(r) == r.internal + r.external = Amount /\ (r.hold <=> r.internal > 0)

RowSound ==
  /\ row.status \in {"absent", "created"} => Unplanned(row)
  /\ row.status \in {"awaiting", "reserved", "settled"} => Planned(row)
  /\ row.status \in {"canceled", "expired"} => Unplanned(row) \/ Planned(row)

Was(k) == txn[k].status # "none"
Done(k) == txn[k].status = "posted"

\* The ledger's side of the plan.
LedgerSound ==
  /\ row.hold => hold.status # "none" /\ hold.amount = row.internal
  /\ hold.status = "consumed" <=> Done("internal")
  /\ Was("internal") => row.hold /\ txn["internal"].amount = row.internal
  /\ Was("external") => /\ row.external > 0 /\ txn["external"].amount = row.external
                        /\ row.hold => Done("internal")
  /\ received + Prize = (IF Done("internal") THEN row.internal ELSE 0)
                          + (IF Done("external") THEN row.external ELSE 0)

AllDone == /\ row.internal > 0 => Done("internal")
           /\ row.external > 0 => Done("external")

\* A request has loaded the row as it is, and holds in memory what follows.
FitsPrepare(r) ==
  \/ r.at = "plan" /\ r.mine = row
  \/ /\ r.at \in {"hold", "invoice", "commit"}
     /\ r.mine.internal + r.mine.external = Amount
     /\ row.status # "created" => /\ r.mine.internal = row.internal
                                  /\ r.mine.external = row.external
                                  /\ r.mine.hold = row.hold
     /\ r.mine.hold => hold.status # "none" /\ hold.amount = r.mine.internal
     /\ IF r.at = "hold" THEN ~r.mine.hold /\ row.status = "created"
                         ELSE r.mine.hold <=> r.mine.internal > 0
     /\ r.at = "commit" => r.mine.status \in {"awaiting", "reserved"}

FitsCancel(r) ==
  \/ r.at = "inspect" /\ r.mine = row
  \/ r.at = "release" /\ r.mine = row /\ row.hold
  \/ /\ r.at = "commit" /\ r.mine = [row EXCEPT !.status = "canceled"]
     /\ hold.status # "consumed"
     /\ row.hold => hold.status \in {"released", "expired"}

FitsSettle(r) ==
  \/ /\ r.at \in {"check", "internal", "consume", "external", "post"}
     /\ r.mine = row
     /\ r.at \in {"internal", "consume"} => row.internal > 0
     /\ r.at = "consume" => Was("internal")
     /\ r.at \in {"external", "post"} =>
          row.external > 0 /\ (row.internal > 0 => Done("internal"))
     /\ r.at = "post" => Was("external")
  \/ /\ r.at = "commit" /\ r.mine = [row EXCEPT !.status = "settled"]
     /\ row.status # "created" /\ AllDone

Fits(r) ==
  /\ r.loaded = row
  /\ \/ r.op = "create" /\ r.at = "insert" /\ row.status = "absent" /\ r.mine = NewRow
     \/ r.op = "prize" /\ r.at \in {"create", "post"} /\ row.status = "settled"
     \/ /\ r.op \in {"prepare", "cancel", "settle", "look"}
        /\ row.status \in {"created", "awaiting", "reserved"}
        /\ \/ r.at = "commit" /\ r.mine = [row EXCEPT !.status = "expired"]
           \/ r.op = "prepare" /\ FitsPrepare(r)
           \/ r.op = "cancel" /\ FitsCancel(r)
           \/ r.op = "settle" /\ FitsSettle(r)

\* What has become of the money, in the state the session is in.
EndsWell ==
  /\ row.status = "settled" => AllDone
  /\ row.status = "canceled" =>
       /\ hold.status # "consumed"
       /\ row.hold => hold.status \in {"released", "expired"}

SessionInv ==
  /\ FundsInv /\ RowSound /\ LedgerSound /\ EndsWell
  /\ \A t \in Tasks : Busy(t) => Fits(task[t])

-----------------------------------------------------------------------------
(* A disabled application.                                                 *)

\* A request that cannot sell: it cancels, or marks a session as expired.
Harmless(t) ==
  /\ task[t].op \in {"cancel", "look"}
  /\ task[t].at \in {"inspect", "release", "commit"}
  /\ Mine(t).invoice = task[t].loaded.invoice
  /\ task[t].at = "commit" => Mine(t).status \in {"canceled", "expired"}

DisabledInv ==
  ~application.active =>
    \A t \in Tasks : Busy(t) => t \in underway \/ Harmless(t)
-----------------------------------------------------------------------------
(* Records and their updates.                                              *)

TaskRecords ==
  [op: {"create", "prepare", "cancel", "settle", "look", "prize"},
   loaded: Row, mine: Row, at: Places]

LEMMA RowFields ==
  ASSUME NEW r \in Row
  PROVE  /\ r.status \in Statuses /\ r.internal \in 0 .. Amount
         /\ r.external \in 0 .. Amount /\ r.hold \in BOOLEAN /\ r.invoice \in BOOLEAN
         /\ r = [status |-> r.status, internal |-> r.internal,
                 external |-> r.external, hold |-> r.hold, invoice |-> r.invoice]
BY DEF Row

LEMMA RowBuilt ==
  ASSUME NEW s \in Statuses, NEW m \in 0 .. Amount, NEW n \in 0 .. Amount,
         NEW h \in BOOLEAN, NEW v \in BOOLEAN
  PROVE  [status |-> s, internal |-> m, external |-> n, hold |-> h, invoice |-> v]
           \in Row
BY DEF Row

LEMMA RowParts ==
  ASSUME NEW r \in Row
  PROVE  \E a \in Statuses, b \in 0 .. Amount, c \in 0 .. Amount,
            d \in BOOLEAN, e \in BOOLEAN :
           r = [status |-> a, internal |-> b, external |-> c, hold |-> d, invoice |-> e]
BY RowFields

LEMMA WithStatus ==
  ASSUME NEW r \in Row, NEW s \in Statuses
  PROVE  /\ [r EXCEPT !.status = s] \in Row
         /\ [r EXCEPT !.status = s] =
              [status |-> s, internal |-> r.internal, external |-> r.external,
               hold |-> r.hold, invoice |-> r.invoice]
<1>1. PICK a \in Statuses, b \in 0 .. Amount, c \in 0 .. Amount,
           d \in BOOLEAN, e \in BOOLEAN :
        r = [status |-> a, internal |-> b, external |-> c, hold |-> d, invoice |-> e]
  BY RowParts
<1>2. [r EXCEPT !.status = s] =
        [status |-> s, internal |-> b, external |-> c, hold |-> d, invoice |-> e]
  BY <1>1
<1>3. r.internal = b /\ r.external = c /\ r.hold = d /\ r.invoice = e
  BY <1>1
<1> QED
  BY <1>2, <1>3, RowBuilt

LEMMA WithPlan ==
  ASSUME NEW r \in Row, NEW m \in 0 .. Amount, NEW n \in 0 .. Amount
  PROVE  /\ [r EXCEPT !.internal = m, !.external = n] \in Row
         /\ [r EXCEPT !.internal = m, !.external = n] =
              [status |-> r.status, internal |-> m, external |-> n,
               hold |-> r.hold, invoice |-> r.invoice]
<1>1. PICK a \in Statuses, b \in 0 .. Amount, c \in 0 .. Amount,
           d \in BOOLEAN, e \in BOOLEAN :
        r = [status |-> a, internal |-> b, external |-> c, hold |-> d, invoice |-> e]
  BY RowParts
<1>2. PICK q : q = [r EXCEPT !.internal = m]
  OBVIOUS
<1>3. [r EXCEPT !.internal = m, !.external = n] = [q EXCEPT !.external = n]
  BY <1>2
<1>4. q = [status |-> a, internal |-> m, external |-> c, hold |-> d, invoice |-> e]
  BY <1>1, <1>2
<1>5. [q EXCEPT !.external = n] =
        [status |-> a, internal |-> m, external |-> n, hold |-> d, invoice |-> e]
  BY <1>4
<1>6. r.status = a /\ r.hold = d /\ r.invoice = e
  BY <1>1
<1> QED
  BY <1>3, <1>5, <1>6, RowBuilt

LEMMA WithHold ==
  ASSUME NEW r \in Row
  PROVE  /\ [r EXCEPT !.hold = TRUE] \in Row
         /\ [r EXCEPT !.hold = TRUE] =
              [status |-> r.status, internal |-> r.internal, external |-> r.external,
               hold |-> TRUE, invoice |-> r.invoice]
<1>1. PICK a \in Statuses, b \in 0 .. Amount, c \in 0 .. Amount,
           d \in BOOLEAN, e \in BOOLEAN :
        r = [status |-> a, internal |-> b, external |-> c, hold |-> d, invoice |-> e]
  BY RowParts
<1>2. PICK yes \in BOOLEAN : yes = TRUE
  OBVIOUS
<1>3. [r EXCEPT !.hold = yes] =
        [status |-> a, internal |-> b, external |-> c, hold |-> yes, invoice |-> e]
  BY <1>1
<1>4. r.status = a /\ r.internal = b /\ r.external = c /\ r.invoice = e
  BY <1>1
<1>5. [r EXCEPT !.hold = yes] \in Row
  BY <1>3, RowBuilt
<1> QED
  BY <1>2, <1>3, <1>4, <1>5, Zenon

LEMMA WithInvoice ==
  ASSUME NEW r \in Row, NEW s \in Statuses, NEW got \in BOOLEAN
  PROVE  /\ [r EXCEPT !.status = s, !.invoice = @ \/ got] \in Row
         /\ [r EXCEPT !.status = s, !.invoice = @ \/ got] =
              [status |-> s, internal |-> r.internal, external |-> r.external,
               hold |-> r.hold, invoice |-> r.invoice \/ got]
<1>1. PICK a \in Statuses, b \in 0 .. Amount, c \in 0 .. Amount,
           d \in BOOLEAN, e \in BOOLEAN :
        r = [status |-> a, internal |-> b, external |-> c, hold |-> d, invoice |-> e]
  BY RowParts
<1>2. PICK v \in BOOLEAN : v = (r.invoice \/ got)
  OBVIOUS
<1>3. PICK q : q = [r EXCEPT !.status = s]
  OBVIOUS
<1>4. [r EXCEPT !.status = s, !.invoice = v] = [q EXCEPT !.invoice = v]
  BY <1>3
<1>5. q = [status |-> s, internal |-> b, external |-> c, hold |-> d, invoice |-> e]
  BY <1>1, <1>3
<1>6. [q EXCEPT !.invoice = v] =
        [status |-> s, internal |-> b, external |-> c, hold |-> d, invoice |-> v]
  BY <1>5
<1>7. r.internal = b /\ r.external = c /\ r.hold = d
  BY <1>1
<1>8. v \in BOOLEAN
  BY <1>2
<1>9. [q EXCEPT !.invoice = v] \in Row
  BY <1>6, <1>8, RowBuilt
<1> QED
  BY <1>2, <1>4, <1>6, <1>7, <1>9, Zenon

\* What a request has loaded and holds.
LEMMA TaskFields ==
  ASSUME TypeOK, NEW t \in Tasks, Busy(t)
  PROVE  /\ task[t] \in TaskRecords
         /\ task[t].op \in {"create", "prepare", "cancel", "settle", "look", "prize"}
         /\ task[t].loaded \in Row /\ task[t].mine \in Row /\ task[t].at \in Places
         /\ Mine(t) = task[t].mine /\ Mine(t) \in Row
<1>1. task[t] \in TaskRecords
  BY DEF TypeOK, Busy, TaskRecords
<1> QED
  BY <1>1 DEF TaskRecords, Mine

LEMMA TaskUpdates ==
  ASSUME NEW a, NEW b, NEW c, NEW d, NEW r, NEW x,
         r = [op |-> a, loaded |-> b, mine |-> c, at |-> d]
  PROVE  /\ [r EXCEPT !.mine = x] = [op |-> a, loaded |-> b, mine |-> x, at |-> d]
         /\ [r EXCEPT !.at = x] = [op |-> a, loaded |-> b, mine |-> c, at |-> x]
OBVIOUS

LEMMA Goes ==
  ASSUME TypeOK, NEW t \in Tasks, Busy(t), NEW place \in Places, Go(t, place)
  PROVE  task' = [task EXCEPT ![t] =
           [op |-> task[t].op, loaded |-> task[t].loaded, mine |-> task[t].mine,
            at |-> place]]
<1>1. task[t] = [op |-> task[t].op, loaded |-> task[t].loaded, mine |-> task[t].mine,
                 at |-> task[t].at]
  BY TaskFields DEF TaskRecords
<1>2. [task[t] EXCEPT !.at = place] =
        [op |-> task[t].op, loaded |-> task[t].loaded, mine |-> task[t].mine,
         at |-> place]
  BY <1>1, TaskUpdates
<1>3. task' = [task EXCEPT ![t] = [task[t] EXCEPT !.at = place]]
  BY DEF Go, TypeOK
<1> QED
  BY <1>2, <1>3

LEMMA Keeps ==
  ASSUME TypeOK, NEW t \in Tasks, Busy(t), NEW place \in Places, NEW mine \in Row,
         Keep(t, mine, place)
  PROVE  task' = [task EXCEPT ![t] =
           [op |-> task[t].op, loaded |-> task[t].loaded, mine |-> mine, at |-> place]]
<1>1. task[t] = [op |-> task[t].op, loaded |-> task[t].loaded, mine |-> task[t].mine,
                 at |-> task[t].at]
  BY TaskFields DEF TaskRecords
<1>2. PICK q : q = [task[t] EXCEPT !.mine = mine]
  OBVIOUS
<1>3. q = [op |-> task[t].op, loaded |-> task[t].loaded, mine |-> mine,
           at |-> task[t].at]
  BY <1>1, <1>2, TaskUpdates
<1>4. [q EXCEPT !.at = place] =
        [op |-> task[t].op, loaded |-> task[t].loaded, mine |-> mine, at |-> place]
  BY <1>3, TaskUpdates
<1>5. task' = [task EXCEPT ![t] = [q EXCEPT !.at = place]]
  BY <1>2 DEF Keep, TypeOK
<1> QED
  BY <1>4, <1>5

\* The row a commit leaves, column by column.
LEMMA WrittenIsRow ==
  ASSUME TypeOK, NEW t \in Tasks, Busy(t)
  PROVE  /\ Written(t) \in Row
         /\ Written(t) =
              [status |-> IF Mine(t).status # task[t].loaded.status
                          THEN Mine(t).status ELSE row.status,
               internal |-> IF Mine(t).internal # task[t].loaded.internal
                            THEN Mine(t).internal ELSE row.internal,
               external |-> IF Mine(t).external # task[t].loaded.external
                            THEN Mine(t).external ELSE row.external,
               hold |-> IF Mine(t).hold # task[t].loaded.hold
                        THEN Mine(t).hold ELSE row.hold,
               invoice |-> IF Mine(t).invoice # task[t].loaded.invoice
                           THEN Mine(t).invoice ELSE row.invoice]
<1>1. /\ row \in Row /\ Mine(t) \in Row /\ task[t].loaded \in Row
      /\ DOMAIN row = {"status", "internal", "external", "hold", "invoice"}
  BY TaskFields DEF TypeOK, Row
<1> QED
  BY <1>1 DEF Written, Row
-----------------------------------------------------------------------------
(* Types and funds.                                                        *)

Becomes(t, x) == task' = [task EXCEPT ![t] = x]

LedgerType ==
  /\ balance \in Nat /\ received \in Nat
  /\ hold \in [status: {"none", "active", "released", "expired", "consumed"},
               amount: 0 .. Amount]
  /\ txn \in [TxnKeys -> Txn]
  /\ Available >= 0
  /\ hold.status # "none" => hold.amount > 0

LEMMA LedgerSame ==
  ASSUME FundsInv, UNCHANGED ledgerVars
  PROVE  LedgerType'
BY DEF FundsInv, TypeOK, Funded, LedgerType, ledgerVars, Available, Reserved

\* A step of one request, that leaves the ledger in order.
LEMMA FundsMoves ==
  ASSUME FundsInv, NEW t \in Tasks, NEW x \in TaskRecords \cup {None}, Becomes(t, x),
         x # None /\ x.op = "prepare" /\ x.at = "hold" => x.mine.internal > 0,
         row' \in Row, due' \in BOOLEAN, LedgerType'
  PROVE  FundsInv'
<1>1. /\ task' \in [Tasks -> {None} \cup TaskRecords]
      /\ task'[t] = x /\ \A u \in Tasks : u # t => task'[u] = task[u]
  BY DEF FundsInv, TypeOK, Becomes, TaskRecords
<1>2. TypeOK'
  BY <1>1 DEF TypeOK, TaskRecords, LedgerType
<1>3. \A u \in Tasks : At(u, "prepare", "hold")' => Mine(u)'.internal > 0
  BY <1>1 DEF FundsInv, Funded, At, Busy, Mine
<1> QED
  BY <1>2, <1>3 DEF FundsInv, Funded, LedgerType

LEMMA Movement ==
  ASSUME LedgerType, NEW k \in TxnKeys, NEW n \in Int, Moved(k, n),
         balance - n >= 0, received + n >= 0
  PROVE  /\ balance' \in Nat /\ received' \in Nat /\ txn' \in [TxnKeys -> Txn]
         /\ balance' = balance - n /\ received' = received + n
         /\ txn'[k] = [status |-> "posted", amount |-> txn[k].amount]
         /\ \A j \in TxnKeys : j # k => txn'[j] = txn[j]
<1>1. balance' = balance - n /\ received' = received + n
  BY DEF Moved
<1>2. balance' \in Nat /\ received' \in Nat
  BY <1>1 DEF LedgerType
<1>3. txn[k] \in Txn /\ txn \in [TxnKeys -> Txn]
  BY DEF LedgerType
<1>4. [txn[k] EXCEPT !.status = "posted"] = [status |-> "posted", amount |-> txn[k].amount]
  BY <1>3 DEF Txn
<1>5. [status |-> "posted", amount |-> txn[k].amount] \in Txn
  BY <1>3 DEF Txn
<1>6. txn' = [txn EXCEPT ![k] = [txn[k] EXCEPT !.status = "posted"]]
  BY <1>3 DEF Moved
<1> QED
  BY <1>1, <1>2, <1>3, <1>4, <1>5, <1>6

LEMMA Creation ==
  ASSUME LedgerType, NEW k \in TxnKeys, NEW n \in 0 .. Amount, TxnCreated(k, n)
  PROVE  /\ txn' \in [TxnKeys -> Txn]
         /\ txn'[k].status # "none" /\ txn'[k].amount = n
         /\ txn[k].status # "none" => txn' = txn
         /\ txn'[k].status = "posted" <=> txn[k].status = "posted"
         /\ \A j \in TxnKeys : j # k => txn'[j] = txn[j]
<1>1. txn \in [TxnKeys -> Txn]
  BY DEF LedgerType
<1>2. CASE /\ txn[k].status = "none"
           /\ txn' = [txn EXCEPT ![k] = [status |-> "pending", amount |-> n]]
  <2>1. [status |-> "pending", amount |-> n] \in Txn
    BY DEF Txn
  <2> QED
    BY <1>1, <1>2, <2>1
<1>3. CASE txn[k].status # "none" /\ txn[k].amount = n /\ txn' = txn
  BY <1>1, <1>3
<1> QED
  BY <1>2, <1>3 DEF TxnCreated

\* A hold keeps its amount, whatever becomes of it.
LEMMA HoldBecomes ==
  ASSUME LedgerType, NEW s \in {"released", "expired", "consumed"},
         hold' = [hold EXCEPT !.status = s]
  PROVE  hold' = [status |-> s, amount |-> hold.amount]
BY DEF LedgerType

LEMMA HoldEnds ==
  ASSUME LedgerType, NEW s \in {"released", "expired"}, hold.status = "active",
         hold' = [hold EXCEPT !.status = s], UNCHANGED <<balance, received, txn>>
  PROVE  LedgerType'
<1>1. hold' = [status |-> s, amount |-> hold.amount]
  BY HoldBecomes
<1>2. Available' = balance
  BY <1>1 DEF Available, Reserved, LedgerType
<1> QED
  BY <1>1, <1>2 DEF LedgerType
-----------------------------------------------------------------------------
(* What the steps of a request do.                                         *)

Turned(t, mine, place) ==
  [op |-> task[t].op, loaded |-> task[t].loaded, mine |-> mine, at |-> place]

\* A request goes on with what it holds in memory at another place.
Turns(t, mine, place) == Becomes(t, Turned(t, mine, place))

LEMMA GoTurns ==
  ASSUME TypeOK, NEW t \in Tasks, Busy(t), NEW place \in Places, Go(t, place)
  PROVE  Turns(t, Mine(t), place)
BY Goes DEF Turns, Becomes, Turned, Mine

LEMMA KeepTurns ==
  ASSUME TypeOK, NEW t \in Tasks, Busy(t), NEW place \in Places, NEW mine \in Row,
         Keep(t, mine, place)
  PROVE  Turns(t, mine, place)
BY Keeps DEF Turns, Becomes, Turned

LEMMA TurnedType ==
  ASSUME TypeOK, NEW t \in Tasks, Busy(t), NEW place \in Places, NEW mine \in Row
  PROVE  /\ Turned(t, mine, place) \in TaskRecords
         /\ Turned(t, mine, place).op = task[t].op
         /\ Turned(t, mine, place).loaded = task[t].loaded
         /\ Turned(t, mine, place).mine = mine
         /\ Turned(t, mine, place).at = place
<1>1. task[t].op \in {"create", "prepare", "cancel", "settle", "look", "prize"}
      /\ task[t].loaded \in Row
  BY TaskFields
<1> QED
  BY <1>1 DEF Turned, TaskRecords

LEMMA PlanTurns ==
  ASSUME FundsInv, NEW t \in Tasks, NEW useBalance \in BOOLEAN, Plan(t, useBalance)
  PROVE  \E mine \in Row, place \in {"hold", "invoice"} :
           /\ Turns(t, mine, place)
           /\ Mine(t).status # "created" => mine = Mine(t)
           /\ Mine(t).status = "created" => mine.internal + mine.external = Amount
           /\ mine.status = Mine(t).status /\ mine.hold = Mine(t).hold
           /\ place = "hold" <=> mine.internal > 0 /\ ~mine.hold
<1>1. TypeOK /\ Busy(t) /\ Mine(t) \in Row
  BY TaskFields DEF FundsInv, Plan, At
<1>2. PICK m : m = IF useBalance THEN Internal ELSE 0
  OBVIOUS
<1>3. Available \in Int /\ Available >= 0 /\ Amount \in Nat
  <2>1. balance \in Nat /\ Reserved \in Nat
    BY DEF FundsInv, TypeOK, Reserved
  <2> QED
    BY <2>1, CheckoutAssumption DEF FundsInv, Funded, Available
<1>4. m \in 0 .. Amount
  BY <1>2, <1>3 DEF Internal
<1>5. PICK n : n = Remainder(m)
  OBVIOUS
<1>6. n \in 0 .. Amount /\ m + n = Amount
  BY <1>3, <1>4, <1>5 DEF Remainder
<1>7. PICK filled : filled = [Mine(t) EXCEPT !.internal = m, !.external = n]
  OBVIOUS
<1>8. /\ filled \in Row
      /\ filled = [status |-> Mine(t).status, internal |-> m, external |-> n,
                   hold |-> Mine(t).hold, invoice |-> Mine(t).invoice]
  BY <1>1, <1>4, <1>6, <1>7, WithPlan
<1>9. PICK mine : mine = IF Mine(t).status # "created" THEN Mine(t) ELSE filled
  OBVIOUS
<1>10. /\ mine \in Row
       /\ mine.status = Mine(t).status /\ mine.hold = Mine(t).hold
       /\ Mine(t).status = "created" => mine.internal + mine.external = Amount
  BY <1>1, <1>6, <1>8, <1>9
<1>11. PICK place \in {"hold", "invoice"} :
         place = IF mine.internal > 0 /\ ~mine.hold THEN "hold" ELSE "invoice"
  OBVIOUS
<1>12. Keep(t, mine, place)
  BY <1>2, <1>5, <1>7, <1>9, <1>11 DEF Plan
<1>13. Turns(t, mine, place)
  <2>1. place \in Places
    BY DEF Places
  <2> QED
    BY <1>1, <1>10, <1>12, <2>1, KeepTurns
<1> QED
  BY <1>9, <1>10, <1>11, <1>13

LEMMA ReserveTurns ==
  ASSUME FundsInv, NEW t \in Tasks, Reserve(t)
  PROVE  \E mine \in Row :
           /\ Turns(t, mine, "invoice")
           /\ mine.internal = Mine(t).internal /\ mine.external = Mine(t).external
           /\ mine.status = Mine(t).status /\ mine.hold
           /\ LedgerType'
           /\ hold'.status # "none" /\ hold'.amount = Mine(t).internal
           /\ hold.status = "none" => hold'.status = "active"
           /\ hold.status # "none" => hold' = hold
<1>1. TypeOK /\ Busy(t) /\ Mine(t) \in Row /\ Mine(t).internal > 0
  BY TaskFields DEF FundsInv, Funded, Reserve, At
<1>2. PICK mine : mine = [Mine(t) EXCEPT !.hold = TRUE]
  OBVIOUS
<1>3. /\ mine \in Row
      /\ mine = [status |-> Mine(t).status, internal |-> Mine(t).internal,
                 external |-> Mine(t).external, hold |-> TRUE,
                 invoice |-> Mine(t).invoice]
  BY <1>1, <1>2, WithHold
<1>4. mine.hold /\ mine.status = Mine(t).status
      /\ mine.internal = Mine(t).internal /\ mine.external = Mine(t).external
  BY <1>3
<1>5. Turns(t, mine, "invoice")
  <2>1. Keep(t, mine, "invoice") /\ "invoice" \in Places
    BY <1>2 DEF Reserve, Places
  <2> QED
    BY <1>1, <1>3, <2>1, KeepTurns
<1>6. PICK n : n = Mine(t).internal
  OBVIOUS
<1>7. HoldCreated(n) /\ UNCHANGED <<balance, received, txn>> /\ n \in 0 .. Amount /\ n > 0
  BY <1>1, <1>6, RowFields DEF Reserve
<1>8. /\ LedgerType'
      /\ hold'.status # "none" /\ hold'.amount = n
      /\ hold.status = "none" => hold'.status = "active"
      /\ hold.status # "none" => hold' = hold
  <2>1. CASE hold.status # "none" /\ hold.amount = n /\ hold' = hold
    BY <1>7, <2>1, LedgerSame DEF ledgerVars
  <2>2. CASE /\ hold.status = "none" /\ n <= Available
             /\ hold' = [status |-> "active", amount |-> n]
    <3>1. Available = balance /\ Available' = balance - n /\ balance \in Nat
      BY <1>7, <2>2 DEF Available, Reserved, FundsInv, TypeOK
    <3>2. hold' \in [status: {"none", "active", "released", "expired", "consumed"},
                     amount: 0 .. Amount]
      BY <1>7, <2>2
    <3>3. Available' >= 0
      BY <1>7, <2>2, <3>1, CheckoutAssumption
    <3> QED
      BY <1>7, <2>2, <3>2, <3>3 DEF LedgerType, FundsInv, TypeOK
  <2> QED
    BY <1>7, <2>1, <2>2 DEF HoldCreated
<1> QED
  BY <1>3, <1>4, <1>5, <1>6, <1>8

LEMMA AskTurns ==
  ASSUME FundsInv, NEW t \in Tasks, AskInvoice(t)
  PROVE  \E mine \in Row :
           /\ Turns(t, mine, "commit")
           /\ mine.internal = Mine(t).internal /\ mine.external = Mine(t).external
           /\ mine.hold = Mine(t).hold /\ mine.status \in {"awaiting", "reserved"}
<1>1. TypeOK /\ Busy(t) /\ Mine(t) \in Row
  BY TaskFields DEF FundsInv, AskInvoice, At
<1>2. PICK s \in {"awaiting", "reserved"} :
        s = IF Mine(t).external > 0 THEN "awaiting" ELSE "reserved"
  OBVIOUS
<1>3. PICK got \in BOOLEAN :
        Keep(t, [Mine(t) EXCEPT !.status = s, !.invoice = @ \/ got], "commit")
  BY <1>2 DEF AskInvoice
<1>4. PICK mine : mine = [Mine(t) EXCEPT !.status = s, !.invoice = @ \/ got]
  OBVIOUS
<1>5. /\ mine \in Row
      /\ mine = [status |-> s, internal |-> Mine(t).internal,
                 external |-> Mine(t).external, hold |-> Mine(t).hold,
                 invoice |-> Mine(t).invoice \/ got]
  <2>1. s \in Statuses
    BY DEF Statuses
  <2> QED
    BY <1>1, <1>4, <2>1, WithInvoice
<1>6. Turns(t, mine, "commit")
  <2>1. Keep(t, mine, "commit") /\ "commit" \in Places
    BY <1>3, <1>4 DEF Places
  <2> QED
    BY <1>1, <1>5, <2>1, KeepTurns
<1> QED
  BY <1>5, <1>6
LEMMA CancelTurns ==
  ASSUME FundsInv, NEW t \in Tasks, InspectHold(t) \/ Release(t)
  PROVE  \/ /\ InspectHold(t) /\ UNCHANGED ledgerVars
            /\ Turns(t, Mine(t), "release")
            /\ Mine(t).hold
         \/ /\ Turns(t, Canceled(t), "commit") /\ Canceled(t) \in Row
            /\ LedgerType' /\ UNCHANGED <<balance, received, txn>>
            /\ \/ InspectHold(t) /\ NothingHeld(t) /\ hold' = hold
               \/ Release(t) /\ hold.status = "released" /\ hold' = hold
               \/ /\ Release(t) /\ hold.status = "active"
                  /\ hold' = [status |-> "released", amount |-> hold.amount]
         \/ /\ Becomes(t, None) /\ LedgerType' /\ UNCHANGED <<balance, received, txn>>
            /\ hold.status = "active"
            /\ hold' = [status |-> "expired", amount |-> hold.amount]
<1>1. TypeOK /\ Busy(t) /\ Mine(t) \in Row
  BY TaskFields DEF FundsInv, InspectHold, Release, At
<1>2. Canceled(t) \in Row
  BY <1>1, WithStatus DEF Canceled, Statuses
<1>3. "commit" \in Places /\ "release" \in Places
  BY DEF Places
<1>4. LedgerType
  BY DEF FundsInv, TypeOK, Funded, LedgerType
<1>5. CASE InspectHold(t)
  <2>1. UNCHANGED ledgerVars /\ LedgerType' /\ UNCHANGED <<balance, received, txn, hold>>
    BY <1>5, LedgerSame DEF InspectHold, ledgerVars
  <2>2. CASE NothingHeld(t) /\ Keep(t, Canceled(t), "commit")
    BY <1>1, <1>2, <1>3, <1>5, <2>1, <2>2, KeepTurns
  <2>3. CASE Mine(t).hold /\ hold.status = "active" /\ Go(t, "release")
    BY <1>1, <1>3, <1>5, <2>1, <2>3, GoTurns
  <2> QED
    BY <1>5, <2>2, <2>3 DEF InspectHold
<1>6. CASE Release(t)
  <2>1. UNCHANGED <<balance, received, txn>>
    BY <1>6 DEF Release
  <2>2. CASE hold.status = "released" /\ hold' = hold /\ Keep(t, Canceled(t), "commit")
    <3>1. LedgerType'
      BY <2>1, <2>2, LedgerSame DEF ledgerVars
    <3>2. Turns(t, Canceled(t), "commit")
      BY <1>1, <1>2, <1>3, <2>2, KeepTurns
    <3> QED
      BY <1>2, <1>6, <2>1, <2>2, <3>1, <3>2
  <2>3. CASE /\ hold.status = "active" /\ ~due
             /\ hold' = [hold EXCEPT !.status = "released"]
             /\ Keep(t, Canceled(t), "commit")
    <3>1. LedgerType' /\ hold' = [status |-> "released", amount |-> hold.amount]
      BY <1>4, <2>1, <2>3, HoldEnds, HoldBecomes
    <3>2. Turns(t, Canceled(t), "commit")
      BY <1>1, <1>2, <1>3, <2>3, KeepTurns
    <3> QED
      BY <1>2, <1>6, <2>1, <2>3, <3>1, <3>2
  <2>4. CASE hold.status = "active" /\ due /\ ExpireHold /\ End(t)
    <3>1. LedgerType' /\ hold' = [status |-> "expired", amount |-> hold.amount]
      BY <1>4, <2>1, <2>4, HoldEnds, HoldBecomes DEF ExpireHold
    <3> QED
      BY <2>1, <2>4, <3>1 DEF End, Becomes
  <2> QED
    BY <1>6, <2>2, <2>3, <2>4 DEF Release
<1> QED
  BY <1>5, <1>6

Settled(t) == [Mine(t) EXCEPT !.status = "settled"]

LEMMA SettledType ==
  ASSUME TypeOK, NEW t \in Tasks, Busy(t)
  PROVE  /\ Mine(t) \in Row /\ Settled(t) \in Row
         /\ {"internal", "external", "consume", "post", "commit"} \subseteq Places
BY TaskFields, WithStatus DEF Settled, Statuses, Places

LEMMA CheckTurns ==
  ASSUME FundsInv, NEW t \in Tasks, CheckFunds(t)
  PROVE  /\ UNCHANGED ledgerVars
         /\ \/ Turns(t, Mine(t), "internal") /\ Mine(t).internal > 0
            \/ /\ Turns(t, Mine(t), "external")
               /\ ~(Mine(t).internal > 0) /\ Mine(t).external > 0
<1>1. TypeOK /\ Busy(t) /\ {"internal", "external"} \subseteq Places
  BY SettledType DEF FundsInv, CheckFunds, At
<1>2. CASE Mine(t).internal > 0
  <2>1. Go(t, "internal") /\ UNCHANGED ledgerVars
    BY <1>2 DEF CheckFunds
  <2> QED
    BY <1>1, <1>2, <2>1, GoTurns
<1>3. CASE ~(Mine(t).internal > 0)
  <2>1. Go(t, "external") /\ UNCHANGED ledgerVars /\ Mine(t).external > 0
    BY <1>3 DEF CheckFunds, Settleable
  <2> QED
    BY <1>1, <1>3, <2>1, GoTurns
<1> QED
  BY <1>2, <1>3

LEMMA CreateInternalTurns ==
  ASSUME FundsInv, NEW t \in Tasks, CreateInternal(t)
  PROVE  /\ Turns(t, Mine(t), "consume") /\ LedgerType'
         /\ TxnCreated("internal", Mine(t).internal)
         /\ UNCHANGED <<balance, received, hold>>
<1>1. TypeOK /\ Busy(t) /\ Mine(t) \in Row /\ "consume" \in Places
  BY SettledType DEF FundsInv, CreateInternal, At
<1>2. LedgerType
  BY DEF FundsInv, TypeOK, Funded, LedgerType
<1>3. TxnCreated("internal", Mine(t).internal) /\ UNCHANGED <<balance, received, hold>>
  BY DEF CreateInternal
<1>4. "internal" \in TxnKeys /\ Mine(t).internal \in 0 .. Amount
  BY <1>1, RowFields DEF TxnKeys
<1>5. txn' \in [TxnKeys -> Txn]
  BY <1>2, <1>3, <1>4, Creation
<1>6. LedgerType'
  BY <1>2, <1>3, <1>5 DEF LedgerType, Available, Reserved
<1>7. Turns(t, Mine(t), "consume")
  BY <1>1, GoTurns DEF CreateInternal
<1> QED
  BY <1>3, <1>6, <1>7

LEMMA CreateExternalTurns ==
  ASSUME FundsInv, NEW t \in Tasks, CreateExternal(t)
  PROVE  /\ Turns(t, Mine(t), "post") /\ LedgerType'
         /\ TxnCreated("external", Mine(t).external)
         /\ UNCHANGED <<balance, received, hold>>
<1>1. TypeOK /\ Busy(t) /\ Mine(t) \in Row /\ "post" \in Places
  BY SettledType DEF FundsInv, CreateExternal, At
<1>2. LedgerType
  BY DEF FundsInv, TypeOK, Funded, LedgerType
<1>3. TxnCreated("external", Mine(t).external) /\ UNCHANGED <<balance, received, hold>>
  BY DEF CreateExternal
<1>4. "external" \in TxnKeys /\ Mine(t).external \in 0 .. Amount
  BY <1>1, RowFields DEF TxnKeys
<1>5. txn' \in [TxnKeys -> Txn]
  BY <1>2, <1>3, <1>4, Creation
<1>6. LedgerType'
  BY <1>2, <1>3, <1>5 DEF LedgerType, Available, Reserved
<1>7. Turns(t, Mine(t), "post")
  BY <1>1, GoTurns DEF CreateExternal
<1> QED
  BY <1>3, <1>6, <1>7

\* A hold is spent: its amount leaves the account, and nothing else does.
Consumes ==
  /\ hold.status = "active" /\ hold' = [status |-> "consumed", amount |-> hold.amount]
  /\ txn["internal"] = [status |-> "pending", amount |-> hold.amount]
  /\ balance' = balance - hold.amount /\ received' = received + hold.amount
  /\ txn'["internal"] = [status |-> "posted", amount |-> hold.amount]
  /\ \A j \in TxnKeys : j # "internal" => txn'[j] = txn[j]

LEMMA AfterTurns ==
  ASSUME TypeOK, NEW t \in Tasks, Busy(t), AfterInternal(t)
  PROVE  \/ Paid(Mine(t)) /\ Turns(t, Settled(t), "commit")
         \/ ~Paid(Mine(t)) /\ Turns(t, Mine(t), "external")
<1>1. Settled(t) \in Row /\ {"external", "commit"} \subseteq Places
  BY SettledType
<1>2. CASE Paid(Mine(t))
  <2>1. Keep(t, Settled(t), "commit")
    BY <1>2 DEF AfterInternal, Settled
  <2> QED
    BY <1>1, <1>2, <2>1, KeepTurns
<1>3. CASE ~Paid(Mine(t))
  <2>1. Go(t, "external")
    BY <1>3 DEF AfterInternal
  <2> QED
    BY <1>1, <1>3, <2>1, GoTurns
<1> QED
  BY <1>2, <1>3

LEMMA ConsumeTurns ==
  ASSUME FundsInv, NEW t \in Tasks, Consume(t)
  PROVE  /\ LedgerType'
         /\ \/ Consumes /\ AfterInternal(t)
            \/ hold.status = "consumed" /\ UNCHANGED ledgerVars /\ AfterInternal(t)
            \/ /\ Becomes(t, None) /\ UNCHANGED <<balance, received, txn>>
               /\ hold.status = "active"
               /\ hold' = [status |-> "expired", amount |-> hold.amount]
<1>1. LedgerType
  BY DEF FundsInv, TypeOK, Funded, LedgerType
<1>2. CASE /\ hold.status = "active" /\ ~due
           /\ txn["internal"] = [status |-> "pending", amount |-> hold.amount]
           /\ Pays("internal")
           /\ hold' = [hold EXCEPT !.status = "consumed"]
           /\ AfterInternal(t)
  <2>1. hold' = [status |-> "consumed", amount |-> hold.amount]
    BY <1>1, <1>2, HoldBecomes
  <2>2. PICK n : n = hold.amount
    OBVIOUS
  <2>3. n \in 0 .. Amount /\ balance \in Nat /\ received \in Nat /\ balance - n >= 0
    BY <1>1, <1>2, <2>2 DEF LedgerType, Available, Reserved
  <2>4. txn["internal"].amount = n
    BY <1>2, <2>2
  <2>5. Moved("internal", n) /\ n \in Int /\ received + n >= 0 /\ "internal" \in TxnKeys
    BY <1>2, <2>3, <2>4, CheckoutAssumption DEF Pays, TxnKeys
  <2>6. /\ balance' \in Nat /\ received' \in Nat /\ txn' \in [TxnKeys -> Txn]
        /\ balance' = balance - n /\ received' = received + n
        /\ txn'["internal"] = [status |-> "posted", amount |-> n]
        /\ \A j \in TxnKeys : j # "internal" => txn'[j] = txn[j]
    BY <1>1, <2>3, <2>4, <2>5, Movement
  <2>7. Consumes
    BY <1>2, <2>1, <2>2, <2>6 DEF Consumes
  <2>8. Available' = balance'
    BY <2>1, <2>6 DEF Available, Reserved
  <2>9. LedgerType'
    BY <1>1, <1>2, <2>1, <2>6, <2>8 DEF LedgerType
  <2> QED
    BY <1>2, <2>7, <2>9
<1>3. CASE hold.status = "consumed" /\ AfterInternal(t) /\ UNCHANGED ledgerVars
  BY <1>3, LedgerSame
<1>4. CASE /\ hold.status = "active" /\ due
           /\ ExpireHold /\ End(t)
           /\ UNCHANGED <<balance, received, txn>>
  <2>1. LedgerType' /\ hold' = [status |-> "expired", amount |-> hold.amount]
    BY <1>1, <1>4, HoldEnds, HoldBecomes DEF ExpireHold
  <2> QED
    BY <1>4, <2>1 DEF End, Becomes
<1> QED
  BY <1>2, <1>3, <1>4 DEF Consume

\* A payment from free funds, or a prize (a payment the other way).
Moves(k, n) ==
  /\ balance' = balance - n /\ received' = received + n
  /\ txn[k].status = "pending" /\ hold' = hold
  /\ txn'[k] = [status |-> "posted", amount |-> txn[k].amount]
  /\ \A j \in TxnKeys : j # k => txn'[j] = txn[j]

LEMMA PostTurns ==
  ASSUME FundsInv, NEW t \in Tasks, PostExternal(t)
  PROVE  /\ Turns(t, Settled(t), "commit") /\ LedgerType'
         /\ \/ Moves("external", txn["external"].amount)
            \/ txn["external"].status = "posted" /\ UNCHANGED ledgerVars
<1>1. TypeOK /\ Busy(t) /\ Settled(t) \in Row /\ "commit" \in Places
  BY SettledType DEF FundsInv, PostExternal, At
<1>2. Turns(t, Settled(t), "commit")
  <2>1. Keep(t, Settled(t), "commit")
    BY DEF PostExternal, Posted, Settled
  <2> QED
    BY <1>1, <2>1, KeepTurns
<1>3. LedgerType
  BY DEF FundsInv, TypeOK, Funded, LedgerType
<1>4. CASE /\ txn["external"].status = "pending"
           /\ txn["external"].amount <= Available
           /\ Pays("external") /\ hold' = hold
  <2>1. PICK n : n = txn["external"].amount
    OBVIOUS
  <2>2. "external" \in TxnKeys /\ n \in 0 .. Amount
    BY <1>3, <2>1 DEF LedgerType, Txn, TxnKeys
  <2>3. /\ n \in Int /\ n <= balance - Reserved /\ Reserved \in Nat
        /\ balance \in Nat /\ received \in Nat /\ n >= 0
    BY <1>3, <1>4, <2>1, <2>2, CheckoutAssumption DEF Available, LedgerType, Reserved
  <2>4. Moved("external", n) /\ balance - n >= 0 /\ received + n >= 0
    BY <1>4, <2>1, <2>3 DEF Pays
  <2>5. /\ balance' \in Nat /\ received' \in Nat /\ txn' \in [TxnKeys -> Txn]
        /\ balance' = balance - n /\ received' = received + n
        /\ txn'["external"] = [status |-> "posted", amount |-> n]
        /\ \A j \in TxnKeys : j # "external" => txn'[j] = txn[j]
    BY <1>3, <2>1, <2>2, <2>3, <2>4, Movement
  <2>6. Reserved' = Reserved
    BY <1>4 DEF Reserved
  <2>7. Available' >= 0
    BY <2>3, <2>5, <2>6 DEF Available
  <2>8. LedgerType'
    BY <1>3, <1>4, <2>5, <2>7 DEF LedgerType
  <2> QED
    BY <1>2, <1>4, <2>1, <2>5, <2>8 DEF Moves
<1>5. CASE txn["external"].status = "posted" /\ UNCHANGED ledgerVars
  BY <1>2, <1>5, LedgerSame
<1> QED
  BY <1>4, <1>5 DEF PostExternal, Posted

LEMMA CreatePrizeTurns ==
  ASSUME FundsInv, NEW t \in Tasks, NEW n \in 1 .. Amount, CreatePrize(t, n)
  PROVE  /\ LedgerType' /\ UNCHANGED <<balance, received, hold>>
         /\ \A j \in TxnKeys : j # "prize" => txn'[j] = txn[j]
         /\ txn'["prize"].status = "posted" <=> txn["prize"].status = "posted"
         /\ txn["prize"].status # "none" => txn' = txn
         /\ Becomes(t, None) \/ Turns(t, Mine(t), "post")
<1>1. TypeOK /\ Busy(t) /\ "post" \in Places
  BY SettledType DEF FundsInv, CreatePrize, At
<1>2. LedgerType /\ "prize" \in TxnKeys /\ n \in 0 .. Amount
  BY CheckoutAssumption DEF FundsInv, TypeOK, Funded, LedgerType, TxnKeys
<1>3. TxnCreated("prize", n) /\ UNCHANGED <<balance, received, hold>>
  BY DEF CreatePrize
<1>4. /\ txn' \in [TxnKeys -> Txn]
      /\ \A j \in TxnKeys : j # "prize" => txn'[j] = txn[j]
      /\ txn'["prize"].status = "posted" <=> txn["prize"].status = "posted"
      /\ txn["prize"].status # "none" => txn' = txn
  BY <1>2, <1>3, Creation
<1>5. LedgerType'
  BY <1>2, <1>3, <1>4 DEF LedgerType, Available, Reserved
<1>6. End(t) \/ Go(t, "post")
  BY DEF CreatePrize
<1>7. Becomes(t, None) \/ Turns(t, Mine(t), "post")
  BY <1>1, <1>6, GoTurns DEF End, Becomes
<1> QED
  BY <1>3, <1>4, <1>5, <1>7

LEMMA PostPrizeTurns ==
  ASSUME FundsInv, NEW t \in Tasks, PostPrize(t)
  PROVE  /\ LedgerType' /\ Becomes(t, None) /\ hold' = hold
         /\ \/ Moves("prize", -txn["prize"].amount)
            \/ UNCHANGED ledgerVars
<1>1. LedgerType /\ hold' = hold /\ Becomes(t, None)
  BY DEF FundsInv, TypeOK, Funded, LedgerType, PostPrize, End, Becomes
<1>2. CASE /\ txn["prize"].status = "pending" /\ txn["prize"].amount <= received
           /\ Moved("prize", -txn["prize"].amount)
  <2>1. PICK n : n = txn["prize"].amount
    OBVIOUS
  <2>2. "prize" \in TxnKeys /\ n \in 0 .. Amount
    BY <1>1, <2>1 DEF LedgerType, Txn, TxnKeys
  <2>3. /\ -n \in Int /\ balance \in Nat /\ received \in Nat /\ Reserved \in Nat
        /\ balance - Reserved >= 0 /\ received + (-n) >= 0 /\ balance - (-n) >= 0
        /\ balance - (-n) >= balance
    BY <1>1, <1>2, <2>1, <2>2, CheckoutAssumption DEF LedgerType, Available, Reserved
  <2>4. /\ balance' \in Nat /\ received' \in Nat /\ txn' \in [TxnKeys -> Txn]
        /\ balance' = balance - (-n) /\ received' = received + (-n)
        /\ txn'["prize"] = [status |-> "posted", amount |-> n]
        /\ \A j \in TxnKeys : j # "prize" => txn'[j] = txn[j]
    BY <1>1, <1>2, <2>1, <2>2, <2>3, Movement
  <2>5. Reserved' = Reserved
    BY <1>1 DEF Reserved
  <2>6. Available' >= 0
    BY <2>3, <2>4, <2>5 DEF Available
  <2>7. LedgerType'
    BY <1>1, <2>4, <2>6 DEF LedgerType
  <2> QED
    BY <1>1, <1>2, <2>1, <2>4, <2>7 DEF Moves
<1>3. CASE UNCHANGED <<balance, received, txn>>
  BY <1>1, <1>3, LedgerSame DEF ledgerVars
<1> QED
  BY <1>2, <1>3 DEF PostPrize
Ops == {"create", "prepare", "cancel", "settle", "look", "prize"}

LEMMA LoadBecomes ==
  ASSUME TypeOK, NEW t \in Tasks, NEW op \in Ops, NEW place \in Places, Load(t, op, place)
  PROVE  /\ UNCHANGED <<row, due, ledgerVars>>
         /\ ~Busy(t) /\ row.status \in {"created", "awaiting", "reserved"}
         /\ \E x \in TaskRecords :
              /\ Becomes(t, x)
              /\ x.op = op /\ x.loaded = row
              /\ IF due THEN x.mine = [row EXCEPT !.status = "expired"] /\ x.at = "commit"
                        ELSE x.mine = row /\ x.at = place
<1>1. row \in Row /\ [row EXCEPT !.status = "expired"] \in Row /\ "commit" \in Places
  BY WithStatus DEF TypeOK, Statuses, Places
<1>2. row.status \in {"created", "awaiting", "reserved"}
  BY <1>1, RowFields DEF Load, Open, Final, Statuses
<1>3. PICK mine : mine = IF due THEN [row EXCEPT !.status = "expired"] ELSE row
  OBVIOUS
<1>4. PICK at : at = IF due THEN "commit" ELSE place
  OBVIOUS
<1>5. PICK x : x = [op |-> op, loaded |-> row, mine |-> mine, at |-> at]
  OBVIOUS
<1>6. mine \in Row /\ at \in Places
  BY <1>1, <1>3, <1>4
<1>7. x \in TaskRecords
  BY <1>1, <1>5, <1>6 DEF TaskRecords, Ops
<1>8. Becomes(t, x) /\ UNCHANGED <<row, due, ledgerVars>> /\ ~Busy(t)
  BY <1>3, <1>4, <1>5 DEF Load, Becomes
<1> QED
  BY <1>2, <1>3, <1>4, <1>5, <1>7, <1>8

LEMMA PageBecomes ==
  ASSUME TypeOK, NEW t \in Tasks, SettlesAfterwards(t), PageGoesOn(t)
  PROVE  /\ UNCHANGED <<due, ledgerVars>> /\ Busy(t) /\ task[t].op = "prepare"
         /\ task[t].at = "commit"
         /\ row' = Written(t) /\ row' \in Row /\ row'.status \in {"reserved", "awaiting"}
         /\ \E x \in TaskRecords :
              /\ Becomes(t, x)
              /\ x.op = "settle" /\ x.loaded = row'
              /\ IF due THEN x.mine = [row' EXCEPT !.status = "expired"] /\ x.at = "commit"
                        ELSE x.mine = row' /\ x.at = "check"
<1>1. /\ UNCHANGED <<due, ledgerVars>> /\ Busy(t) /\ task[t].op = "prepare"
      /\ task[t].at = "commit"
      /\ row' = Written(t) /\ row'.status \in {"reserved", "awaiting"}
  BY DEF PageGoesOn, SettlesAfterwards
<1>2. PICK w : w = row'
  OBVIOUS
<1>3. w \in Row
  BY <1>1, <1>2, WrittenIsRow
<1>4. [w EXCEPT !.status = "expired"] \in Row /\ {"commit", "check"} \subseteq Places
  BY <1>3, WithStatus DEF Statuses, Places
<1>5. PICK mine : mine = IF due THEN [w EXCEPT !.status = "expired"] ELSE w
  OBVIOUS
<1>6. PICK at : at = IF due THEN "commit" ELSE "check"
  OBVIOUS
<1>7. PICK x : x = [op |-> "settle", loaded |-> w, mine |-> mine, at |-> at]
  OBVIOUS
<1>8. mine \in Row /\ at \in Places
  BY <1>3, <1>4, <1>5, <1>6
<1>9. x \in TaskRecords
  BY <1>3, <1>7, <1>8 DEF TaskRecords
<1>10. Becomes(t, x)
  BY <1>2, <1>5, <1>6, <1>7 DEF PageGoesOn, Becomes
<1> QED
  BY <1>1, <1>2, <1>3, <1>5, <1>6, <1>7, <1>9, <1>10

LEMMA CreateBecomes ==
  ASSUME TypeOK, NEW t \in Tasks, LookUpOrder(t) \/ LoadPrize(t)
  PROVE  /\ UNCHANGED <<row, due, ledgerVars>> /\ ~Busy(t)
         /\ \E x \in TaskRecords :
              /\ Becomes(t, x) /\ x.loaded = row
              /\ \/ /\ LookUpOrder(t) /\ row.status = "absent"
                    /\ x.op = "create" /\ x.mine = NewRow /\ x.at = "insert"
                 \/ /\ LoadPrize(t) /\ row.status = "settled"
                    /\ x.op = "prize" /\ x.mine = row /\ x.at = "create"
<1>1. row \in Row
  BY DEF TypeOK
<1>2. CASE LookUpOrder(t)
  <2>1. NewRow \in Row
    <3>1. PICK no \in BOOLEAN : no = FALSE
      OBVIOUS
    <3>2. "created" \in Statuses /\ 0 \in 0 .. Amount
      BY CheckoutAssumption DEF Statuses
    <3>3. [status |-> "created", internal |-> 0, external |-> 0, hold |-> no,
           invoice |-> no] \in Row
      BY <3>2, RowBuilt
    <3> QED
      BY <3>1, <3>3, Zenon DEF NewRow
  <2>2. PICK x : x = [op |-> "create", loaded |-> row, mine |-> NewRow, at |-> "insert"]
    OBVIOUS
  <2>3. x \in TaskRecords
    BY <1>1, <2>1, <2>2 DEF TaskRecords, Places
  <2>4. Becomes(t, x) /\ UNCHANGED <<row, due, ledgerVars>> /\ ~Busy(t) /\ row.status = "absent"
    BY <1>2, <2>2 DEF LookUpOrder, Becomes
  <2> QED
    BY <1>2, <2>2, <2>3, <2>4
<1>3. CASE LoadPrize(t)
  <2>1. PICK x : x = [op |-> "prize", loaded |-> row, mine |-> row, at |-> "create"]
    OBVIOUS
  <2>2. x \in TaskRecords
    BY <1>1, <2>1 DEF TaskRecords, Places
  <2>3. Becomes(t, x) /\ UNCHANGED <<row, due, ledgerVars>> /\ ~Busy(t) /\ row.status = "settled"
    BY <1>3, <2>1 DEF LoadPrize, Becomes, Prizable
  <2> QED
    BY <1>3, <2>1, <2>2, <2>3
<1> QED
  BY <1>2, <1>3

LEMMA FundsTurns ==
  ASSUME FundsInv, NEW t \in Tasks, Busy(t), NEW mine \in Row, NEW place \in Places,
         Turns(t, mine, place), place = "hold" => mine.internal > 0,
         UNCHANGED <<row, due>>, LedgerType'
  PROVE  FundsInv'
<1>1. /\ Turned(t, mine, place) \in TaskRecords
      /\ Turned(t, mine, place).mine = mine /\ Turned(t, mine, place).at = place
  BY TurnedType DEF FundsInv
<1>2. row' \in Row /\ due' \in BOOLEAN
  BY DEF FundsInv, TypeOK
<1> QED
  BY <1>1, <1>2, FundsMoves DEF Turns

LEMMA FundsEnds ==
  ASSUME FundsInv, NEW t \in Tasks, Becomes(t, None), row' \in Row, UNCHANGED due,
         LedgerType'
  PROVE  FundsInv'
<1>1. due' \in BOOLEAN
  BY DEF FundsInv, TypeOK
<1> QED
  BY <1>1, FundsMoves

LEMMA FundsLoads ==
  ASSUME FundsInv, NEW t \in Tasks, NEW x \in TaskRecords, Becomes(t, x),
         x.at # "hold", row' \in Row, UNCHANGED due, UNCHANGED ledgerVars
  PROVE  FundsInv'
<1>1. due' \in BOOLEAN /\ LedgerType'
  BY LedgerSame DEF FundsInv, TypeOK
<1> QED
  BY <1>1, FundsMoves

LEMMA FundsStep ==
  ASSUME FundsInv, NEW t \in Tasks, Requests(t)
  PROVE  FundsInv'
<1>0. TypeOK /\ row \in Row
  BY DEF FundsInv, TypeOK
<1> USE DEF ledgerVars
<1>1. ASSUME NEW op \in Ops, NEW place \in Places, place # "hold", Load(t, op, place)
      PROVE  FundsInv'
  BY <1>0, <1>1, LoadBecomes, FundsLoads
<1>2. CASE LookUpOrder(t) \/ LoadPrize(t)
  BY <1>0, <1>2, CreateBecomes, FundsLoads
<1>3. CASE SettlesAfterwards(t) /\ PageGoesOn(t)
  BY <1>0, <1>3, PageBecomes, FundsLoads
<1>4. CASE Insert(t)
  <2>1. Busy(t) /\ Becomes(t, None) /\ UNCHANGED due /\ UNCHANGED ledgerVars
    BY <1>4 DEF Insert, End, Becomes, At
  <2>2. row' \in Row
    BY <1>0, <1>4, <2>1, TaskFields DEF Insert
  <2>3. LedgerType'
    BY <2>1, LedgerSame
  <2> QED
    BY <2>1, <2>2, <2>3, FundsEnds
<1>5. CASE Commit(t)
  <2>1. Busy(t) /\ Becomes(t, None) /\ UNCHANGED due /\ UNCHANGED ledgerVars
    BY <1>5 DEF Commit, End, Becomes
  <2>2. row' \in Row
    BY <1>0, <1>5, <2>1, WrittenIsRow DEF Commit
  <2>3. LedgerType'
    BY <2>1, LedgerSame
  <2> QED
    BY <2>1, <2>2, <2>3, FundsEnds
<1>6. CASE Fail(t)
  <2>1. Becomes(t, None) /\ UNCHANGED due /\ UNCHANGED ledgerVars /\ row' = row
    BY <1>6 DEF Fail, End, Becomes
  <2>2. LedgerType'
    BY <2>1, LedgerSame
  <2> QED
    BY <1>0, <2>1, <2>2, FundsEnds
<1>7. ASSUME NEW useBalance \in BOOLEAN, Plan(t, useBalance)
      PROVE  FundsInv'
  <2>1. Busy(t) /\ UNCHANGED <<row, due>> /\ UNCHANGED ledgerVars
    BY <1>7 DEF Plan, At
  <2>2. PICK mine \in Row, place \in {"hold", "invoice"} :
          /\ Turns(t, mine, place)
          /\ place = "hold" <=> mine.internal > 0 /\ ~mine.hold
    BY <1>7, PlanTurns
  <2>3. LedgerType' /\ place \in Places
    BY <2>1, LedgerSame DEF Places
  <2> QED
    BY <2>1, <2>2, <2>3, FundsTurns
<1>8. CASE Reserve(t)
  <2>1. Busy(t) /\ UNCHANGED <<row, due>> /\ "invoice" \in Places
    BY <1>8 DEF Reserve, At, Places
  <2>2. PICK mine \in Row : Turns(t, mine, "invoice") /\ LedgerType'
    BY <1>8, ReserveTurns
  <2> QED
    BY <2>1, <2>2, FundsTurns
<1>9. CASE AskInvoice(t)
  <2>1. Busy(t) /\ UNCHANGED <<row, due>> /\ UNCHANGED ledgerVars /\ "commit" \in Places
    BY <1>9 DEF AskInvoice, At, Places
  <2>2. PICK mine \in Row : Turns(t, mine, "commit")
    BY <1>9, AskTurns
  <2>3. LedgerType'
    BY <2>1, LedgerSame
  <2> QED
    BY <2>1, <2>2, <2>3, FundsTurns
<1>10. CASE InspectHold(t) \/ Release(t)
  <2>1. Busy(t) /\ UNCHANGED <<row, due>> /\ {"commit", "release"} \subseteq Places
    BY <1>10 DEF InspectHold, Release, At, Places
  <2>2. Mine(t) \in Row
    BY <1>0, <2>1, TaskFields
  <2>3. UNCHANGED ledgerVars => LedgerType'
    BY LedgerSame
  <2>4. /\ LedgerType'
        /\ \/ Turns(t, Mine(t), "release")
           \/ Turns(t, Canceled(t), "commit") /\ Canceled(t) \in Row
           \/ Becomes(t, None)
    BY <1>10, <2>3, CancelTurns
  <2> QED
    BY <1>0, <2>1, <2>2, <2>4, FundsTurns, FundsEnds
<1>11. CASE \/ CheckFunds(t) \/ CreateInternal(t) \/ Consume(t) \/ CreateExternal(t)
            \/ PostExternal(t)
  <2>1. Busy(t) /\ UNCHANGED <<row, due>>
    BY <1>11 DEF CheckFunds, CreateInternal, Consume, CreateExternal, PostExternal, At
  <2>2. /\ Mine(t) \in Row /\ Settled(t) \in Row
        /\ {"internal", "external", "consume", "post", "commit"} \subseteq Places
    BY <1>0, <2>1, SettledType
  <2>3. UNCHANGED ledgerVars => LedgerType'
    BY LedgerSame
  <2>4. /\ LedgerType'
        /\ \/ \E place \in {"internal", "external", "consume", "post"} :
                Turns(t, Mine(t), place)
           \/ Turns(t, Settled(t), "commit")
           \/ Becomes(t, None)
    <3>1. CASE CheckFunds(t)
      BY <2>3, <3>1, CheckTurns
    <3>2. CASE CreateInternal(t)
      BY <3>2, CreateInternalTurns
    <3>3. CASE Consume(t)
      BY <1>0, <2>1, <3>3, ConsumeTurns, AfterTurns
    <3>4. CASE CreateExternal(t)
      BY <3>4, CreateExternalTurns
    <3>5. CASE PostExternal(t)
      BY <3>5, PostTurns
    <3> QED
      BY <1>11, <3>1, <3>2, <3>3, <3>4, <3>5
  <2>5. ASSUME NEW place \in {"internal", "external", "consume", "post"},
               Turns(t, Mine(t), place)
        PROVE  FundsInv'
    <3>1. place \in Places /\ place # "hold"
      BY <2>2
    <3> QED
      BY <2>1, <2>2, <2>4, <2>5, <3>1, FundsTurns
  <2>6. CASE Turns(t, Settled(t), "commit")
    BY <2>1, <2>2, <2>4, <2>6, FundsTurns
  <2>7. CASE Becomes(t, None)
    BY <1>0, <2>1, <2>4, <2>7, FundsEnds
  <2> QED
    BY <2>4, <2>5, <2>6, <2>7
<1>12. CASE PostPrize(t) \/ \E n \in 1 .. Amount : CreatePrize(t, n)
  <2>1. Busy(t) /\ UNCHANGED <<row, due>> /\ "post" \in Places
    BY <1>12 DEF PostPrize, CreatePrize, At, Places
  <2>2. Mine(t) \in Row
    BY <1>0, <2>1, TaskFields
  <2>3. LedgerType' /\ (Becomes(t, None) \/ Turns(t, Mine(t), "post"))
    BY <1>12, PostPrizeTurns, CreatePrizeTurns
  <2> QED
    BY <1>0, <2>1, <2>2, <2>3, FundsTurns, FundsEnds
<1>13. CASE Look(t)
  <2>1. Load(t, "look", "commit") /\ "look" \in Ops /\ "commit" \in Places
    BY <1>13 DEF Look, Ops, Places
  <2> QED
    BY <1>1, <2>1
<1>14. CASE \/ Load(t, "prepare", "plan") \/ Load(t, "cancel", "inspect")
            \/ Load(t, "settle", "check")
  <2>1. {"prepare", "cancel", "settle"} \subseteq Ops
        /\ {"plan", "inspect", "check"} \subseteq Places
    BY DEF Ops, Places
  <2> QED
    BY <1>1, <1>14, <2>1
<1> QED
  BY <1>2, <1>3, <1>4, <1>5, <1>6, <1>7, <1>8, <1>9, <1>10, <1>11, <1>12, <1>13, <1>14
  DEF Requests, PrepareStep, CancelStep, SettleStep, PrizeStep

LEMMA FundsSurroundings ==
  ASSUME FundsInv, Surroundings
  PROVE  FundsInv'
<1>1. CASE BalanceChanges
  <2>1. Available' >= 0
    <3>1. Reserved' = Reserved /\ Reserved \in Nat
      BY <1>1, CheckoutAssumption DEF BalanceChanges, Reserved, FundsInv, TypeOK
    <3>2. balance' \in Nat /\ balance' >= Reserved
      BY <1>1 DEF BalanceChanges
    <3>3. PICK m : m = Reserved
      OBVIOUS
    <3>4. PICK b : b = balance'
      OBVIOUS
    <3>5. Available' = b - m
      BY <3>1, <3>3, <3>4 DEF Available
    <3>6. m \in Nat /\ b \in Nat /\ b >= m
      BY <3>1, <3>2, <3>3, <3>4
    <3>7. b - m >= 0
      BY <3>6
    <3> QED
      BY <3>5, <3>7
  <2> QED
    BY <1>1, <2>1 DEF BalanceChanges, FundsInv, TypeOK, Funded, At, Busy, Mine
<1>2. CASE TimePasses
  BY <1>2 DEF TimePasses, ledgerVars, FundsInv, TypeOK, Funded, Available, Reserved, At,
              Busy, Mine
<1>3. CASE WorkerExpires
  <2>1. LedgerType /\ UNCHANGED <<row, due, task, balance, received, txn>>
    BY <1>3 DEF FundsInv, TypeOK, Funded, LedgerType, WorkerExpires
  <2>2. LedgerType'
    BY <1>3, <2>1, HoldEnds DEF WorkerExpires, ExpireHold
  <2> QED
    BY <2>1, <2>2 DEF LedgerType, FundsInv, TypeOK, Funded, At, Busy, Mine
<1> QED
  BY <1>1, <1>2, <1>3 DEF Surroundings

LEMMA FundsStutter ==
  ASSUME FundsInv, UNCHANGED vars
  PROVE  FundsInv'
BY DEF vars, FundsInv, TypeOK, Funded, Available, Reserved, At, Busy, Mine

LEMMA FundsInit == Init => FundsInv
<1> SUFFICES ASSUME Init PROVE FundsInv
  OBVIOUS
<1>1. row \in Row
  <2>1. PICK no \in BOOLEAN : no = FALSE
    OBVIOUS
  <2>2. {"created", "absent"} \subseteq Statuses /\ 0 \in 0 .. Amount
    BY CheckoutAssumption DEF Statuses
  <2>3. PICK new : new = [status |-> "created", internal |-> 0, external |-> 0, hold |-> no,
                          invoice |-> no]
    OBVIOUS
  <2>4. new = NewRow
    BY <2>1, <2>3, Zenon DEF NewRow
  <2>5. new \in Row
    BY <2>2, <2>3, RowBuilt
  <2>6. [new EXCEPT !.status = "absent"] \in Row
    BY <2>2, <2>5, WithStatus
  <2> QED
    BY <2>4, <2>6 DEF Init
<1>2. /\ txn \in [TxnKeys -> Txn]
      /\ hold \in [status: {"none", "active", "released", "expired", "consumed"},
                   amount: 0 .. Amount]
  BY CheckoutAssumption DEF Init, NewTxn, Txn
<1>3. /\ due \in BOOLEAN /\ balance \in Nat /\ received \in Nat
      /\ task \in [Tasks -> {None} \cup TaskRecords]
  BY DEF Init
<1>4. hold.status = "none" /\ Available = 0 /\ \A t \in Tasks : ~Busy(t)
  BY DEF Init, Available, Reserved, Busy
<1> QED
  BY <1>1, <1>2, <1>3, <1>4 DEF FundsInv, TypeOK, Funded, At, TaskRecords
-----------------------------------------------------------------------------
(* The specification with administrators.                                  *)

LEMMA FreeFundsChange ==
  ASSUME FundsInv, Deposit \/ SpendElsewhere
  PROVE  BalanceChanges
<1>1. PICK m : m = Reserved
  OBVIOUS
<1>2. balance \in Nat /\ m \in Nat /\ balance - m >= 0
  BY <1>1, CheckoutAssumption DEF FundsInv, TypeOK, Reserved, Funded, Available
<1>3. CASE Deposit
  <2>1. balance' = balance + 1
    BY <1>3 DEF Deposit
  <2>2. balance' \in Nat /\ balance' >= m
    BY <1>2, <2>1
  <2> QED
    BY <1>1, <1>3, <2>2 DEF Deposit, BalanceChanges
<1>4. CASE SpendElsewhere
  <2>1. balance - m > 0 /\ balance' = balance - 1
    BY <1>1, <1>4 DEF SpendElsewhere, Available
  <2>2. balance' \in Nat /\ balance' >= m
    BY <1>2, <2>1
  <2> QED
    BY <1>1, <1>4, <2>2 DEF SpendElsewhere, BalanceChanges
<1> QED
  BY <1>3, <1>4

\* The specification without administrators.
LEMMA SpecSteps ==
  ASSUME FundsInv, [Next]_vars
  PROVE  (\E t \in Tasks : Requests(t)) \/ Surroundings \/ UNCHANGED vars
<1>1. CASE Deposit \/ SpendElsewhere
  BY <1>1, FreeFundsChange DEF Surroundings
<1> QED
  BY <1>1 DEF Next, Requests, Surroundings

LEMMA AdminSteps ==
  ASSUME ATypeOK, Funded, [ANext]_avars
  PROVE  (\E t \in Tasks : Requests(t)) \/ Surroundings \/ UNCHANGED vars
<1>1. balance \in Nat /\ kept \in Nat /\ Reserved \in Nat /\ balance - Reserved >= 0
  BY CheckoutAssumption DEF ATypeOK, TypeOK, Reserved, Funded, Available
<1>2. CASE UNCHANGED avars
  BY <1>2 DEF avars
<1>3. CASE CreateApplication \/ ChangeApplication \/ ServerGetsKey
  BY <1>3 DEF CreateApplication, ChangeApplication, ServerGetsKey
<1>4. ASSUME NEW t \in Tasks, Begins(t) \/ PageCancels(t) \/ PageConfirms(t) \/ PageWatches(t)
      PROVE  Requests(t)
  BY <1>4 DEF Begins, PageCancels, PageConfirms, PageWatches, PagePrepares, Requests,
              PrepareStep, CancelStep, SettleStep, PrizeStep
<1>5. ASSUME NEW t \in Tasks, RequestStep(t)
      PROVE  Requests(t)
  BY <1>5 DEF RequestStep, Requests, PrepareStep, CancelStep, SettleStep, PrizeStep
<1>6. ASSUME NEW m \in Int, balance - Reserved + m >= 0, balance' = balance + m,
             UNCHANGED <<row, due, task, received, hold, txn>>
      PROVE  BalanceChanges
  <2>1. PICK n : n = Reserved
    OBVIOUS
  <2>2. n \in Nat /\ balance - n + m >= 0
    BY <1>1, <1>6, <2>1
  <2>3. balance' \in Nat /\ balance' >= n
    BY <1>1, <1>6, <2>2
  <2> QED
    BY <1>6, <2>1, <2>3 DEF BalanceChanges
<1>7. CASE AdminOperates
  <2>1. ASSUME NEW n \in -Amount .. Amount, AdjustAccountBalance(n)
        PROVE  BalanceChanges
    <3>1. n \in Int /\ balance - Reserved + n >= 0
      BY <2>1, CheckoutAssumption DEF AdjustAccountBalance, Available
    <3> QED
      BY <1>6, <2>1, <3>1 DEF AdjustAccountBalance
  <2>2. ASSUME NEW n \in 1 .. Amount, ReserveAccountBalance(n)
        PROVE  BalanceChanges
    <3>1. PICK m : m = Reserved
      OBVIOUS
    <3>2. m \in Nat /\ n <= balance - m /\ balance' = balance - n
      BY <1>1, <2>2, <3>1 DEF ReserveAccountBalance, Available
    <3>3. n \in Int /\ balance' \in Nat /\ balance' >= m
      BY <1>1, <3>2, CheckoutAssumption
    <3> QED
      BY <2>2, <3>1, <3>3 DEF ReserveAccountBalance, BalanceChanges
  <2> QED
    BY <1>7, <2>1, <2>2 DEF AdminOperates, Surroundings
<1>8. CASE AdminHoldEnds
  <2>1. kept \in Int /\ balance - Reserved + kept >= 0
    BY <1>1
  <2> QED
    BY <1>6, <1>8, <2>1 DEF AdminHoldEnds, Surroundings
<1>9. CASE Deposit \/ SpendElsewhere
  <2>1. FundsInv
    BY DEF ATypeOK, FundsInv
  <2> QED
    BY <1>9, <2>1, FreeFundsChange DEF Surroundings
<1>10. CASE TimePasses \/ WorkerExpires
  BY <1>10 DEF Surroundings
<1> QED
  BY <1>2, <1>3, <1>4, <1>5, <1>7, <1>8, <1>9, <1>10 DEF ANext

LEMMA AdminTypes ==
  ASSUME ATypeOK, [ANext]_avars
  PROVE  /\ application' \in [exists: BOOLEAN, active: BOOLEAN, key: BOOLEAN]
         /\ page' \subseteq Tasks /\ underway' \subseteq Tasks /\ kept' \in Nat
<1> USE DEF ATypeOK
<1>1. CASE CreateApplication \/ ChangeApplication \/ ServerGetsKey
  <2>1. PICK yes \in BOOLEAN, no \in BOOLEAN : yes = TRUE /\ no = FALSE
    OBVIOUS
  <2>2. ASSUME NEW b \in BOOLEAN
        PROVE  /\ [application EXCEPT !.key = b]
                    \in [exists: BOOLEAN, active: BOOLEAN, key: BOOLEAN]
               /\ [application EXCEPT !.active = b]
                    \in [exists: BOOLEAN, active: BOOLEAN, key: BOOLEAN]
               /\ [exists |-> b, active |-> b, key |-> b]
                    \in [exists: BOOLEAN, active: BOOLEAN, key: BOOLEAN]
    OBVIOUS
  <2>3. application' \in {[application EXCEPT !.key = yes], [application EXCEPT !.key = no],
                         [application EXCEPT !.active = yes],
                         [application EXCEPT !.active = no],
                         [exists |-> yes, active |-> yes, key |-> yes]}
    BY <1>1, <2>1, Zenon DEF CreateApplication, ChangeApplication, ServerGetsKey, IssueKey
  <2>4. application' \in [exists: BOOLEAN, active: BOOLEAN, key: BOOLEAN]
    BY <2>2, <2>3
  <2> QED
    BY <1>1, <2>4 DEF CreateApplication, ChangeApplication, ServerGetsKey, IssueKey, Busy
<1>2. ASSUME NEW t \in Tasks, PageConfirms(t) \/ PageWatches(t),
             UNCHANGED <<application, kept, underway>>
      PROVE  page' \subseteq Tasks
  BY <1>2 DEF PageConfirms, PageWatches, PagePrepares
<1>3. ASSUME NEW t \in Tasks, RequestStep(t)
      PROVE  /\ page' \subseteq Tasks /\ underway' \subseteq Tasks
             /\ UNCHANGED <<application, kept>>
  BY <1>3 DEF RequestStep
<1>4. CASE AdminOperates
  BY <1>4, CheckoutAssumption
  DEF AdminOperates, AdjustAccountBalance, ReserveAccountBalance, adminVars
<1>5. CASE AdminHoldEnds
  BY <1>5 DEF AdminHoldEnds
<1> QED
  BY <1>1, <1>2, <1>3, <1>4, <1>5 DEF ANext, avars, adminVars

LEMMA AdminFunds == ATypeOK /\ Funded /\ [ANext]_avars => (ATypeOK /\ Funded)'
<1> SUFFICES ASSUME ATypeOK, Funded, [ANext]_avars
             PROVE  (ATypeOK /\ Funded)'
  OBVIOUS
<1>1. FundsInv
  BY DEF ATypeOK, FundsInv
<1>2. FundsInv'
  BY <1>1, AdminSteps, FundsStep, FundsSurroundings, FundsStutter
<1> QED
  BY <1>2, AdminTypes DEF FundsInv, ATypeOK

LEMMA AdminFundsInit == AInit => ATypeOK /\ Funded
BY FundsInit DEF AInit, FundsInv, ATypeOK, Unregistered

\* Every variable of a checkout session, of its requests and of the ledger's
\* side keeps its type, whatever fails and however many requests and
\* administrators interfere: no balance ever goes below zero, what the hold
\* keeps included.
THEOREM AdministrationType == ASpec => []ATypeOK
<1>1. AInit => ATypeOK /\ Funded
  BY AdminFundsInit
<1>2. ATypeOK /\ Funded /\ [ANext]_avars => (ATypeOK /\ Funded)'
  BY AdminFunds
<1> QED
  BY <1>1, <1>2, PTL DEF ASpec
-----------------------------------------------------------------------------
(* One order, one session.                                                 *)

\* The row is written by a new order's insertion and by commits.
LEMMA RowWrites ==
  ASSUME NEW t \in Tasks, Requests(t)
  PROVE  \/ row' = row
         \/ Insert(t) \/ Commit(t)
         \/ SettlesAfterwards(t) /\ PageGoesOn(t)
BY DEF Requests, PrepareStep, CancelStep, SettleStep, PrizeStep, Look, LookUpOrder, Load,
       Plan, Reserve, AskInvoice, InspectHold, Release, CheckFunds, CreateInternal,
       Consume, CreateExternal, PostExternal, LoadPrize, CreatePrize, PostPrize, Fail

LEMMA AnewMoves ==
  ASSUME FundsInv, NothingStartsAnew, NEW t \in Tasks, NEW x, Becomes(t, x),
         x # None => x.at # "commit" \/ x.mine.status # "created"
  PROVE  NothingStartsAnew'
<1>1. task'[t] = x /\ \A u \in Tasks : u # t => task'[u] = task[u]
  BY DEF FundsInv, TypeOK, Becomes
<1> QED
  BY <1>1 DEF NothingStartsAnew, Busy, Mine

LEMMA AnewTurns ==
  ASSUME FundsInv, NothingStartsAnew, NEW t \in Tasks, Busy(t), NEW mine \in Row,
         NEW place \in Places, Turns(t, mine, place),
         place # "commit" \/ mine.status # "created"
  PROVE  NothingStartsAnew'
<1>1. /\ Turned(t, mine, place).mine = mine /\ Turned(t, mine, place).at = place
  BY TurnedType DEF FundsInv
<1> QED
  BY <1>1, AnewMoves DEF Turns

LEMMA AnewStep ==
  ASSUME FundsInv, NothingStartsAnew, NEW t \in Tasks, Requests(t)
  PROVE  NothingStartsAnew'
<1>0. TypeOK /\ row \in Row
  BY DEF FundsInv, TypeOK
<1>1. ASSUME NEW op \in Ops, NEW place \in Places, place # "commit" \/ due,
             Load(t, op, place)
      PROVE  NothingStartsAnew'
  <2>1. PICK x \in TaskRecords :
          /\ Becomes(t, x)
          /\ IF due THEN x.mine = [row EXCEPT !.status = "expired"] /\ x.at = "commit"
                    ELSE x.mine = row /\ x.at = place
    BY <1>0, <1>1, LoadBecomes
  <2>2. [row EXCEPT !.status = "expired"].status = "expired"
    BY <1>0, WithStatus DEF Statuses
  <2> QED
    BY <1>1, <2>1, <2>2, AnewMoves
<1>2. CASE LookUpOrder(t) \/ LoadPrize(t)
  BY <1>0, <1>2, CreateBecomes, AnewMoves
<1>3. CASE SettlesAfterwards(t) /\ PageGoesOn(t)
  <2>1. PICK w : w = row'
    OBVIOUS
  <2>2. PICK x \in TaskRecords :
          /\ Becomes(t, x) /\ w \in Row
          /\ IF due THEN x.mine = [w EXCEPT !.status = "expired"] /\ x.at = "commit"
                    ELSE x.mine = w /\ x.at = "check"
    BY <1>0, <1>3, <2>1, PageBecomes
  <2>3. [w EXCEPT !.status = "expired"].status = "expired"
    BY <2>2, WithStatus DEF Statuses
  <2> QED
    BY <2>2, <2>3, AnewMoves
<1>4. CASE Insert(t) \/ Commit(t) \/ Fail(t)
  <2>1. Becomes(t, None)
    BY <1>4 DEF Insert, Commit, Fail, End, Becomes
  <2> QED
    BY <2>1, AnewMoves
<1>5. ASSUME NEW useBalance \in BOOLEAN, Plan(t, useBalance)
      PROVE  NothingStartsAnew'
  <2>1. PICK mine \in Row, place \in {"hold", "invoice"} : Turns(t, mine, place)
    BY <1>5, PlanTurns
  <2>2. Busy(t) /\ place \in Places
    BY <1>5 DEF Plan, At, Places
  <2> QED
    BY <2>1, <2>2, AnewTurns
<1>6. CASE Reserve(t)
  <2>1. Busy(t) /\ "invoice" \in Places
    BY <1>6 DEF Reserve, At, Places
  <2> QED
    BY <1>6, <2>1, ReserveTurns, AnewTurns
<1>7. CASE AskInvoice(t)
  <2>1. Busy(t) /\ "commit" \in Places
    BY <1>7 DEF AskInvoice, At, Places
  <2> QED
    BY <1>7, <2>1, AskTurns, AnewTurns
<1>8. CASE InspectHold(t) \/ Release(t)
  <2>1. Busy(t) /\ {"commit", "release"} \subseteq Places
    BY <1>8 DEF InspectHold, Release, At, Places
  <2>2. Mine(t) \in Row /\ Canceled(t).status = "canceled"
    BY <1>0, <2>1, TaskFields, WithStatus DEF Canceled, Statuses
  <2>3. \/ Turns(t, Mine(t), "release")
        \/ Turns(t, Canceled(t), "commit") /\ Canceled(t) \in Row
        \/ Becomes(t, None)
    BY <1>8, CancelTurns
  <2> QED
    BY <2>1, <2>2, <2>3, AnewTurns, AnewMoves
<1>9. CASE \/ CheckFunds(t) \/ CreateInternal(t) \/ Consume(t) \/ CreateExternal(t)
           \/ PostExternal(t)
  <2>1. Busy(t)
    BY <1>9 DEF CheckFunds, CreateInternal, Consume, CreateExternal, PostExternal, At
  <2>2. /\ Mine(t) \in Row /\ Settled(t) \in Row /\ Settled(t).status = "settled"
        /\ {"internal", "external", "consume", "post", "commit"} \subseteq Places
    BY <1>0, <2>1, SettledType, WithStatus DEF Settled, Statuses
  <2>3. \/ \E place \in {"internal", "external", "consume", "post"} :
             Turns(t, Mine(t), place)
        \/ Turns(t, Settled(t), "commit")
        \/ Becomes(t, None)
    <3>1. CASE CheckFunds(t)
      BY <3>1, CheckTurns
    <3>2. CASE CreateInternal(t)
      BY <3>2, CreateInternalTurns
    <3>3. CASE Consume(t)
      BY <1>0, <2>1, <3>3, ConsumeTurns, AfterTurns
    <3>4. CASE CreateExternal(t)
      BY <3>4, CreateExternalTurns
    <3>5. CASE PostExternal(t)
      BY <3>5, PostTurns
    <3> QED
      BY <1>9, <3>1, <3>2, <3>3, <3>4, <3>5
  <2>4. ASSUME NEW place \in {"internal", "external", "consume", "post"},
               Turns(t, Mine(t), place)
        PROVE  NothingStartsAnew'
    BY <2>1, <2>2, <2>4, AnewTurns
  <2> QED
    BY <2>1, <2>2, <2>3, <2>4, AnewTurns, AnewMoves
<1>10. CASE PostPrize(t) \/ \E n \in 1 .. Amount : CreatePrize(t, n)
  <2>1. Busy(t) /\ "post" \in Places
    BY <1>10 DEF PostPrize, CreatePrize, At, Places
  <2>2. Mine(t) \in Row
    BY <1>0, <2>1, TaskFields
  <2>3. Becomes(t, None) \/ Turns(t, Mine(t), "post")
    BY <1>10, PostPrizeTurns, CreatePrizeTurns
  <2> QED
    BY <2>1, <2>2, <2>3, AnewTurns, AnewMoves
<1>11. CASE \/ Look(t) \/ Load(t, "prepare", "plan") \/ Load(t, "cancel", "inspect")
            \/ Load(t, "settle", "check")
  <2>1. {"look", "prepare", "cancel", "settle"} \subseteq Ops
        /\ {"commit", "plan", "inspect", "check"} \subseteq Places
    BY DEF Ops, Places
  <2> QED
    BY <1>1, <1>11, <2>1 DEF Look
<1> QED
  BY <1>2, <1>3, <1>4, <1>5, <1>6, <1>7, <1>8, <1>9, <1>10, <1>11
  DEF Requests, PrepareStep, CancelStep, SettleStep, PrizeStep

LEMMA AnewFrame ==
  ASSUME NothingStartsAnew, Surroundings \/ UNCHANGED vars
  PROVE  NothingStartsAnew' /\ row' = row
BY DEF Surroundings, BalanceChanges, TimePasses, WorkerExpires, vars, NothingStartsAnew,
       Busy, Mine

LEMMA CreatedStep ==
  ASSUME FundsInv, NothingStartsAnew, NEW t \in Tasks, Requests(t),
         row'.status = "created"
  PROVE  row.status \in {"absent", "created"}
<1>0. TypeOK
  BY DEF FundsInv
<1>1. CASE Insert(t)
  BY <1>1 DEF Insert
<1>2. CASE Commit(t)
  <2>1. Busy(t) /\ task[t].at = "commit" /\ row' = Written(t)
    BY <1>2 DEF Commit
  <2>2. Mine(t).status # "created"
    BY <2>1 DEF NothingStartsAnew
  <2>3. Written(t).status = IF Mine(t).status # task[t].loaded.status
                            THEN Mine(t).status ELSE row.status
    BY <1>0, <2>1, WrittenIsRow
  <2> QED
    BY <2>1, <2>2, <2>3
<1>3. CASE SettlesAfterwards(t) /\ PageGoesOn(t)
  BY <1>0, <1>3, PageBecomes
<1> QED
  BY <1>1, <1>2, <1>3, RowWrites

\* One order has one session: whatever requests create it at the same time,
\* and whatever has become of it between the lookup of one and its insertion
\* or commit, no session starts anew.
THEOREM OneSessionPerOrder == Spec => CreatedOnce
<1> DEFINE I == FundsInv /\ NothingStartsAnew
           A == row'.status = "created" => row.status \in {"absent", "created"}
<1>1. Init => I
  BY FundsInit DEF Init, NothingStartsAnew, Busy
<1>2. I /\ [Next]_vars => I'
  BY SpecSteps, FundsStep, FundsSurroundings, FundsStutter, AnewStep, AnewFrame
<1>3. I /\ [Next]_vars => [A]_vars
  BY SpecSteps, CreatedStep, AnewFrame
<1> HIDE DEF I, A
<1>4. Spec => [][A]_vars
  BY <1>1, <1>2, <1>3, PTL DEF Spec
<1> QED
  BY <1>4 DEF A, CreatedOnce
-----------------------------------------------------------------------------
(* A disabled application gets nothing new.                                *)

LEMMA BecomesAt ==
  ASSUME TypeOK, NEW t \in Tasks, NEW x, Becomes(t, x)
  PROVE  task'[t] = x /\ \A u \in Tasks : u # t => task'[u] = task[u]
BY DEF TypeOK, Becomes

LEMMA TurnsAt ==
  ASSUME TypeOK, NEW t \in Tasks, Busy(t), NEW mine \in Row, NEW place \in Places,
         Turns(t, mine, place)
  PROVE  /\ task'[t].op = task[t].op /\ task'[t].loaded = task[t].loaded
         /\ task'[t].mine = mine /\ task'[t].at = place
BY BecomesAt, TurnedType DEF Turns

\* A harmless request can only go on cancelling, commit or end.
LEMMA HarmlessStep ==
  ASSUME FundsInv, NEW t \in Tasks, Busy(t), Harmless(t), RequestStep(t)
  PROVE  /\ task'[t] = None \/ Harmless(t)'
         /\ received' = received
         /\ hold'.status = "active" => hold.status = "active"
         /\ row' = row \/ /\ row'.invoice = row.invoice
                          /\ row'.status # row.status =>
                               row'.status \in {"canceled", "expired"}
<1>0. TypeOK /\ Mine(t) \in Row
  BY TaskFields DEF FundsInv
<1>1. InspectHold(t) \/ Release(t) \/ Fail(t) \/ Commit(t)
  BY DEF RequestStep, Harmless, Insert, Plan, Reserve, AskInvoice, CheckFunds,
         CreateInternal, Consume, CreateExternal, PostExternal, PostPrize, CreatePrize,
         SettlesAfterwards, At
<1>2. CASE Fail(t)
  <2>1. Becomes(t, None) /\ row' = row /\ UNCHANGED ledgerVars
    BY <1>2 DEF Fail, End, Becomes
  <2> QED
    BY <1>0, <2>1, BecomesAt DEF ledgerVars
<1>3. CASE Commit(t)
  <2>1. /\ Becomes(t, None) /\ row' = Written(t) /\ UNCHANGED ledgerVars
        /\ task[t].at = "commit"
    BY <1>3 DEF Commit, End, Becomes
  <2>2. /\ Mine(t).invoice = task[t].loaded.invoice
        /\ Mine(t).status \in {"canceled", "expired"}
    BY <2>1 DEF Harmless
  <2>3. /\ Written(t).status = IF Mine(t).status # task[t].loaded.status
                               THEN Mine(t).status ELSE row.status
        /\ Written(t).invoice = IF Mine(t).invoice # task[t].loaded.invoice
                                THEN Mine(t).invoice ELSE row.invoice
    BY <1>0, WrittenIsRow
  <2>4. Written(t).invoice = row.invoice
    BY <2>2, <2>3
  <2>5. Written(t).status # row.status => Written(t).status \in {"canceled", "expired"}
    BY <2>2, <2>3
  <2>6. task'[t] = None
    BY <1>0, <2>1, BecomesAt
  <2> QED
    BY <2>1, <2>4, <2>5, <2>6 DEF ledgerVars
<1>4. CASE InspectHold(t) \/ Release(t)
  <2>1. row' = row /\ {"commit", "release"} \subseteq Places
    BY <1>4 DEF InspectHold, Release, Places
  <2>2. /\ Canceled(t) \in Row /\ Canceled(t).status = "canceled"
        /\ Canceled(t).invoice = Mine(t).invoice
    <3>1. /\ Canceled(t) \in Row
          /\ Canceled(t) = [status |-> "canceled", internal |-> Mine(t).internal,
                            external |-> Mine(t).external, hold |-> Mine(t).hold,
                            invoice |-> Mine(t).invoice]
      BY <1>0, WithStatus DEF Canceled, Statuses
    <3>2. Canceled(t).status = "canceled"
      BY <3>1
    <3>3. PICK v : v = Mine(t).invoice
      OBVIOUS
    <3>4. Canceled(t).invoice = v
      BY <3>1, <3>3
    <3> QED
      BY <3>1, <3>2, <3>3, <3>4
  <2>3. /\ \/ Turns(t, Mine(t), "release") \/ Turns(t, Canceled(t), "commit")
           \/ Becomes(t, None)
        /\ received' = received
        /\ hold'.status = "active" => hold.status = "active"
    <3>1. \/ /\ InspectHold(t) /\ UNCHANGED ledgerVars
             /\ Turns(t, Mine(t), "release")
          \/ /\ Turns(t, Canceled(t), "commit") /\ UNCHANGED <<balance, received, txn>>
             /\ \/ hold' = hold
                \/ hold' = [status |-> "released", amount |-> hold.amount]
          \/ /\ Becomes(t, None) /\ UNCHANGED <<balance, received, txn>>
             /\ hold' = [status |-> "expired", amount |-> hold.amount]
      BY <1>4, CancelTurns
    <3> QED
      BY <3>1 DEF ledgerVars
  <2>4. CASE Turns(t, Mine(t), "release")
    <3>1. /\ task'[t].op = task[t].op /\ task'[t].loaded = task[t].loaded
          /\ task'[t].mine = task[t].mine /\ task'[t].at = "release"
      BY <1>0, <2>1, <2>4, TurnsAt DEF Mine
    <3> QED
      BY <2>1, <2>3, <3>1 DEF Harmless, Mine
  <2>5. CASE Turns(t, Canceled(t), "commit")
    <3>1. /\ task'[t].op = task[t].op /\ task'[t].loaded = task[t].loaded
          /\ task'[t].mine = Canceled(t) /\ task'[t].at = "commit"
      BY <1>0, <2>1, <2>2, <2>5, TurnsAt
    <3>2. Harmless(t)'
      BY <2>2, <3>1 DEF Harmless, Mine
    <3> QED
      BY <2>1, <2>3, <3>2
  <2>6. CASE Becomes(t, None)
    BY <1>0, <2>1, <2>3, <2>6, BecomesAt
  <2> QED
    BY <2>3, <2>4, <2>5, <2>6
<1> QED
  BY <1>1, <1>2, <1>3, <1>4

\* Every step of a request that has begun is seen in what it holds.
LEMMA RequestChanges ==
  ASSUME FundsInv, NEW t \in Tasks, RequestStep(t)
  PROVE  Busy(t) /\ task'[t] # task[t]
<1>0. TypeOK
  BY DEF FundsInv
<1>1. Busy(t)
  BY DEF RequestStep, Insert, Plan, Reserve, AskInvoice, InspectHold, Release, CheckFunds,
         CreateInternal, Consume, CreateExternal, PostExternal, PostPrize, CreatePrize,
         Fail, PageGoesOn, Commit, At
<1> SUFFICES task'[t] # task[t]
  BY <1>1
<1>2. ASSUME Becomes(t, None)
      PROVE  task'[t] # task[t]
  BY <1>0, <1>1, <1>2, BecomesAt DEF Busy
<1>3. ASSUME NEW mine \in Row, NEW place \in Places, Turns(t, mine, place),
             place # task[t].at
      PROVE  task'[t] # task[t]
  BY <1>0, <1>1, <1>3, TurnsAt
<1>4. /\ {"hold", "invoice", "commit", "release", "internal", "external", "consume",
          "post"} \subseteq Places
      /\ Mine(t) \in Row /\ Settled(t) \in Row
  BY <1>0, <1>1, SettledType DEF Places
<1>5. CASE \/ Insert(t) \/ Fail(t) \/ PostPrize(t)
           \/ ~SettlesAfterwards(t) /\ Commit(t)
  BY <1>2, <1>5 DEF Insert, Fail, PostPrize, Commit, End, Becomes
<1>6. CASE SettlesAfterwards(t) /\ PageGoesOn(t)
  <2>1. task[t].op = "prepare" /\ \E x \in TaskRecords : Becomes(t, x) /\ x.op = "settle"
    BY <1>0, <1>6, PageBecomes
  <2> QED
    BY <1>0, <2>1, BecomesAt
<1>7. CASE \/ \E useBalance \in BOOLEAN : Plan(t, useBalance)
           \/ Reserve(t) \/ AskInvoice(t)
  <2>1. CASE \E useBalance \in BOOLEAN : Plan(t, useBalance)
    <3>1. task[t].at = "plan"
      BY <2>1 DEF Plan, At
    <3> QED
      BY <1>3, <1>4, <2>1, <3>1, PlanTurns
  <2>2. CASE Reserve(t)
    BY <1>3, <1>4, <2>2, ReserveTurns DEF Reserve, At
  <2>3. CASE AskInvoice(t)
    BY <1>3, <1>4, <2>3, AskTurns DEF AskInvoice, At
  <2> QED
    BY <1>7, <2>1, <2>2, <2>3
<1>8. CASE InspectHold(t) \/ Release(t)
  <2>1. \/ InspectHold(t) /\ Turns(t, Mine(t), "release")
        \/ Turns(t, Canceled(t), "commit") /\ Canceled(t) \in Row
        \/ Becomes(t, None)
    BY <1>8, CancelTurns
  <2>2. task[t].at \in {"inspect", "release"} /\ (InspectHold(t) => task[t].at = "inspect")
    BY <1>8 DEF InspectHold, Release, At
  <2> QED
    BY <1>2, <1>3, <1>4, <2>1, <2>2
<1>9. CASE CheckFunds(t) \/ CreateInternal(t) \/ CreateExternal(t) \/ PostExternal(t)
  <2>1. CASE CheckFunds(t)
    <3>1. task[t].at = "check"
      BY <2>1 DEF CheckFunds, At
    <3> QED
      BY <1>3, <1>4, <2>1, <3>1, CheckTurns
  <2>2. CASE CreateInternal(t)
    BY <1>3, <1>4, <2>2, CreateInternalTurns DEF CreateInternal, At
  <2>3. CASE CreateExternal(t)
    BY <1>3, <1>4, <2>3, CreateExternalTurns DEF CreateExternal, At
  <2>4. CASE PostExternal(t)
    BY <1>3, <1>4, <2>4, PostTurns DEF PostExternal, At
  <2> QED
    BY <1>9, <2>1, <2>2, <2>3, <2>4
<1>10. CASE Consume(t)
  <2>1. Turns(t, Settled(t), "commit") \/ Turns(t, Mine(t), "external") \/ Becomes(t, None)
    BY <1>0, <1>1, <1>10, ConsumeTurns, AfterTurns
  <2>2. task[t].at = "consume"
    BY <1>10 DEF Consume, At
  <2> QED
    BY <1>2, <1>3, <1>4, <2>1, <2>2
<1>11. ASSUME NEW n \in 1 .. Amount, CreatePrize(t, n)
       PROVE  task'[t] # task[t]
  <2>1. Becomes(t, None) \/ Turns(t, Mine(t), "post")
    BY <1>11, CreatePrizeTurns
  <2>2. task[t].at = "create"
    BY <1>11 DEF CreatePrize, At
  <2> QED
    BY <1>2, <1>3, <1>4, <2>1, <2>2
<1> QED
  BY <1>1, <1>5, <1>6, <1>7, <1>8, <1>9, <1>10, <1>11 DEF RequestStep
DisabledPreserves ==
  /\ DisabledInv'
  /\ ~application.active /\ ~application'.active =>
       GetsNothing \/ \E t \in underway : task'[t] # task[t]

LEMMA DisabledStep ==
  ASSUME ATypeOK, Funded, DisabledInv, [ANext]_avars
  PROVE  DisabledPreserves
<1>0. FundsInv /\ TypeOK
  BY DEF ATypeOK, FundsInv
<1>1. ASSUME UNCHANGED <<task, received>>, row' = row,
             hold'.status = "active" => hold.status = "active"
      PROVE  GetsNothing
  BY <1>1 DEF GetsNothing
<1>2. ASSUME UNCHANGED <<task, application, underway>>
      PROVE  DisabledInv'
  BY <1>2 DEF DisabledInv, Busy, Harmless, Mine
<1>3. CASE UNCHANGED avars
  BY <1>1, <1>2, <1>3 DEF DisabledPreserves, avars, vars, adminVars
<1>4. CASE CreateApplication \/ ChangeApplication \/ ServerGetsKey
  <2>1. UNCHANGED vars
    BY <1>4 DEF CreateApplication, ChangeApplication, ServerGetsKey
  <2>2. GetsNothing
    BY <1>1, <2>1 DEF vars
  <2>3. DisabledInv'
    <3>1. CASE CreateApplication
      BY <3>1 DEF CreateApplication, DisabledInv
    <3>2. CASE ServerGetsKey
      <4>1. application'.active = application.active
        BY <3>2 DEF ServerGetsKey, ATypeOK
      <4> QED
        BY <2>1, <3>2, <4>1 DEF ServerGetsKey, DisabledInv, vars, Busy, Harmless, Mine
    <3>3. CASE ChangeApplication
      <4>1. CASE IssueKey /\ UNCHANGED underway
        <5>1. application'.active = application.active
          BY <4>1 DEF IssueKey, ATypeOK
        <5> QED
          BY <2>1, <4>1, <5>1 DEF DisabledInv, vars, Busy, Harmless, Mine
      <4>2. CASE application' = [application EXCEPT !.active = TRUE]
        <5>1. application'.active
          BY <4>2 DEF ATypeOK
        <5> QED
          BY <5>1 DEF DisabledInv
      <4>3. CASE underway' = {t \in Tasks : Busy(t)}
        BY <2>1, <4>3 DEF DisabledInv, vars, Busy
      <4> QED
        BY <3>3, <4>1, <4>2, <4>3 DEF ChangeApplication
    <3> QED
      BY <1>4, <3>1, <3>2, <3>3
  <2> QED
    BY <2>2, <2>3 DEF DisabledPreserves
\* Nobody but the page begins a request for a disabled application.
<1>5. ASSUME NEW t \in Tasks, NEW op \in {"cancel", "look"},
             NEW place \in {"inspect", "commit"}, op = "look" => due,
             op = "cancel" => place = "inspect",
             Load(t, op, place), UNCHANGED <<application, underway>>
      PROVE  DisabledPreserves
  <2>1. op \in Ops /\ place \in Places
    BY DEF Ops, Places
  <2>2. UNCHANGED <<row, ledgerVars>> /\ row \in Row
    BY <1>0, <1>5, <2>1, LoadBecomes DEF TypeOK
  <2>3. PICK x \in TaskRecords :
          /\ Becomes(t, x) /\ x.op = op /\ x.loaded = row
          /\ IF due THEN x.mine = [row EXCEPT !.status = "expired"] /\ x.at = "commit"
                    ELSE x.mine = row /\ x.at = place
    BY <1>0, <1>5, <2>1, LoadBecomes
  <2>4. /\ [row EXCEPT !.status = "expired"].status = "expired"
        /\ [row EXCEPT !.status = "expired"].invoice = row.invoice
    BY <2>2
  <2>5. x.mine.invoice = row.invoice /\ (x.at = "commit" => x.mine.status = "expired")
    BY <1>5, <2>3, <2>4
  <2>6. task'[t] = x /\ \A u \in Tasks : u # t => task'[u] = task[u]
    BY <1>0, <2>3, BecomesAt
  <2>7. Harmless(t)'
    BY <1>5, <2>3, <2>5, <2>6 DEF Harmless, Mine
  <2>8. DisabledInv'
    BY <1>5, <2>6, <2>7 DEF DisabledInv, Busy, Harmless, Mine
  <2>9. GetsNothing
    BY <2>2 DEF GetsNothing, ledgerVars
  <2> QED
    BY <2>8, <2>9 DEF DisabledPreserves
<1>6. ASSUME NEW t \in Tasks,
             \/ (Begins(t) \/ PageCancels(t)) /\ UNCHANGED adminVars
             \/ /\ PageConfirms(t) \/ PageWatches(t)
                /\ UNCHANGED <<application, kept, underway>>
      PROVE  DisabledPreserves
  <2>1. UNCHANGED <<application, underway>>
    BY <1>6 DEF adminVars
  <2>2. CASE application.active
    BY <2>1, <2>2 DEF DisabledPreserves, DisabledInv
  <2>3. CASE ~application.active
    <3>1. Load(t, "cancel", "inspect") \/ (Load(t, "look", "commit") /\ due)
      BY <1>6, <2>3 DEF Begins, PageCancels, PageConfirms, PageWatches, PagePrepares,
                        RequireApplication, ApplicationActive, Look
    <3> QED
      BY <1>5, <2>1, <3>1
  <2> QED
    BY <2>2, <2>3
<1>7. ASSUME NEW t \in Tasks, RequestStep(t)
      PROVE  DisabledPreserves
  <2>1. /\ application' = application
        /\ underway' = {u \in underway : task'[u] # None}
        /\ underway \subseteq Tasks
    BY <1>7 DEF RequestStep, ATypeOK
  <2>2. Busy(t) /\ task'[t] # task[t]
    BY <1>0, <1>7, RequestChanges
  <2>3. \A u \in Tasks : u # t => task'[u] = task[u]
    <3>1. \E x : Becomes(t, x)
      BY <1>7 DEF RequestStep, Insert, Plan, Reserve, AskInvoice, InspectHold, Release,
                  CheckFunds, CreateInternal, Consume, CreateExternal, PostExternal,
                  PostPrize, CreatePrize, Fail, PageGoesOn, Commit, Becomes, Go, Keep, End,
                  Posted, AfterInternal
    <3> QED
      BY <1>0, <3>1, BecomesAt
  <2>4. CASE application.active
    BY <2>1, <2>4 DEF DisabledPreserves, DisabledInv
  <2>5. CASE ~application.active
    <3>1. t \in underway \/ Harmless(t)
      BY <2>2, <2>5 DEF DisabledInv
    <3>2. ASSUME t \notin underway
          PROVE  (task'[t] = None \/ Harmless(t)') /\ GetsNothing
      BY <1>0, <1>7, <2>2, <3>1, <3>2, HarmlessStep DEF GetsNothing
    <3>3. ASSUME NEW u \in Tasks, Busy(u)'
          PROVE  u \in underway' \/ Harmless(u)'
      <4>1. CASE u = t
        BY <2>1, <3>2, <3>3, <4>1 DEF Busy
      <4>2. CASE u # t
        <5>1. task'[u] = task[u] /\ Busy(u)
          BY <2>3, <3>3, <4>2 DEF Busy
        <5>2. u \in underway \/ Harmless(u)
          BY <2>5, <5>1 DEF DisabledInv
        <5> QED
          BY <2>1, <5>1, <5>2 DEF Busy, Harmless, Mine
      <4> QED
        BY <4>1, <4>2
    <3>4. DisabledInv'
      BY <3>3 DEF DisabledInv
    <3> QED
      BY <2>2, <3>2, <3>4 DEF DisabledPreserves
  <2> QED
    BY <2>4, <2>5
<1>8. CASE AdminOperates \/ AdminHoldEnds
  <2>1. UNCHANGED <<row, task, received, hold, application, underway>>
    BY <1>8 DEF AdminOperates, AdminHoldEnds, AdjustAccountBalance, ReserveAccountBalance,
                adminVars
  <2> QED
    BY <1>1, <1>2, <2>1 DEF DisabledPreserves
<1>9. CASE (Deposit \/ SpendElsewhere \/ TimePasses \/ WorkerExpires) /\ UNCHANGED adminVars
  <2>1. /\ UNCHANGED <<row, task, received, application, underway>>
        /\ hold' = hold \/ hold'.status = "expired"
    BY <1>9 DEF Deposit, SpendElsewhere, TimePasses, WorkerExpires, ledgerVars, adminVars,
                ExpireHold, TypeOK, ATypeOK
  <2> QED
    BY <1>1, <1>2, <2>1 DEF DisabledPreserves
<1> QED
  BY <1>3, <1>4, <1>6, <1>7, <1>8, <1>9 DEF ANext

\* A disabled application gets nothing new: until it is enabled again, nothing
\* is sold, reserved, invoiced or paid for it but by requests that had begun
\* when it was disabled, however many those are.
THEOREM DisabledApplication == ASpec => DisabledGetsNothingNew
<1> DEFINE I == ATypeOK /\ Funded /\ DisabledInv
           A == ~application.active /\ ~application'.active =>
                  GetsNothing \/ \E t \in underway : task'[t] # task[t]
<1>1. AInit => I
  <2>1. AInit => DisabledInv
    BY DEF AInit, Init, DisabledInv, Busy
  <2> QED
    BY <2>1, AdminFundsInit
<1>2. I /\ [ANext]_avars => I'
  BY AdminFunds, DisabledStep DEF DisabledPreserves
<1>3. I /\ [ANext]_avars => [A]_avars
  BY DisabledStep DEF DisabledPreserves
<1> HIDE DEF I, A
<1>4. ASpec => [][A]_avars
  BY <1>1, <1>2, <1>3, PTL DEF ASpec
<1> QED
  BY <1>4 DEF A, DisabledGetsNothingNew
-----------------------------------------------------------------------------
(* One request after another: what the ledger has done fits the plan.      *)

SessionCore == RowSound /\ LedgerSound /\ EndsWell

LEMMA SessionMoves ==
  ASSUME OneAtATime, FundsInv, FundsInv', SessionCore', NEW t \in Tasks, NEW x,
         Becomes(t, x), x = None \/ Fits(x)'
  PROVE  SessionInv'
<1>1. task'[t] = x
  BY BecomesAt DEF FundsInv
<1>2. \A u \in Tasks : Busy(u)' => Fits(task[u])'
  BY <1>1 DEF OneAtATime, Busy
<1> QED
  BY <1>2 DEF SessionInv, SessionCore

\* Neither the row nor the ledger changes: all that fitted fits.
LEMMA CoreFrame ==
  ASSUME SessionCore, UNCHANGED <<row, received, hold, txn>>
  PROVE  SessionCore'
BY DEF SessionCore, RowSound, LedgerSound, EndsWell, Unplanned, Planned, Was, Done, Prize,
       AllDone

LEMMA FitsFrame ==
  ASSUME NEW x, Fits(x), UNCHANGED <<row, hold, txn>>
  PROVE  Fits(x)'
BY DEF Fits, FitsPrepare, FitsCancel, FitsSettle, Was, Done, AllDone

\* The fields of the row and of the ledger's records.
LEMMA SessionTypes ==
  ASSUME TypeOK
  PROVE  /\ row \in Row /\ row.internal \in Nat /\ row.external \in Nat
         /\ row.hold \in BOOLEAN /\ row.status \in Statuses
         /\ Amount \in Nat /\ Amount > 0
         /\ balance \in Nat /\ received \in Nat
         /\ hold.amount \in Nat
         /\ hold.status \in {"none", "active", "released", "expired", "consumed"}
         /\ \A k \in TxnKeys : /\ txn[k].amount \in Nat
                               /\ txn[k].status \in {"none", "pending", "posted"}
         /\ "internal" \in TxnKeys /\ "external" \in TxnKeys /\ "prize" \in TxnKeys
<1>1. row \in Row /\ Amount \in Nat /\ Amount > 0
  BY CheckoutAssumption DEF TypeOK
<1>2. /\ row.internal \in 0 .. Amount /\ row.external \in 0 .. Amount
      /\ row.hold \in BOOLEAN /\ row.status \in Statuses
  BY <1>1, RowFields
<1>3. \A k \in TxnKeys : /\ txn[k].amount \in 0 .. Amount
                         /\ txn[k].status \in {"none", "pending", "posted"}
  BY DEF TypeOK, Txn
<1> QED
  BY <1>1, <1>2, <1>3 DEF TypeOK, TxnKeys

\* The hold ends without having been spent.
LEMMA CoreHoldEnds ==
  ASSUME TypeOK, SessionCore, NEW s \in {"released", "expired"}, hold.status = "active",
         hold' = [status |-> s, amount |-> hold.amount],
         UNCHANGED <<row, received, txn>>
  PROVE  SessionCore'
<1>1. hold'.status = s /\ hold'.amount = hold.amount
  OBVIOUS
<1>2. RowSound'
  BY DEF SessionCore, RowSound, Unplanned, Planned
<1>3. LedgerSound'
  BY <1>1 DEF SessionCore, LedgerSound, Was, Done, Prize
<1>4. EndsWell'
  BY <1>1 DEF SessionCore, EndsWell, AllDone, Done
<1> QED
  BY <1>2, <1>3, <1>4 DEF SessionCore

\* The hold is created.
LEMMA CoreHoldBegins ==
  ASSUME TypeOK, SessionCore, hold'.status # "none",
         hold.status = "none" => hold'.status = "active",
         hold.status # "none" => hold' = hold,
         row.status = "created", UNCHANGED <<row, received, txn>>
  PROVE  SessionCore'
<1>1. RowSound' /\ ~row.hold
  BY DEF SessionCore, RowSound, Unplanned, Planned
<1>2. LedgerSound'
  BY <1>1 DEF SessionCore, LedgerSound, Was, Done, Prize
<1>3. EndsWell'
  BY DEF EndsWell
<1> QED
  BY <1>1, <1>2, <1>3 DEF SessionCore

\* One of the plan's transactions is created, under its turn.
LEMMA CoreCreates ==
  ASSUME TypeOK, Funded, SessionCore, NEW k \in {"internal", "external"}, NEW n \in 0 .. Amount,
         TxnCreated(k, n), UNCHANGED <<row, received, hold>>,
         k = "internal" => row.hold /\ n = row.internal,
         k = "external" => /\ n = row.external /\ row.external > 0
                           /\ row.internal > 0 => Done("internal"),
         row.status \in {"awaiting", "reserved"}
  PROVE  SessionCore' /\ Was(k)' /\ (Done("internal")' <=> Done("internal"))
<1>1. /\ txn'[k].status # "none" /\ txn'[k].amount = n
      /\ txn'[k].status = "posted" <=> txn[k].status = "posted"
      /\ \A j \in TxnKeys : j # k => txn'[j] = txn[j]
      /\ k \in TxnKeys
  <2>1. k \in TxnKeys /\ LedgerType
    BY DEF TxnKeys, TypeOK, Funded, LedgerType
  <2> QED
    BY <2>1, Creation
<1>2. /\ \A j \in {"internal", "external"} : Done(j)' <=> Done(j)
      /\ txn'["prize"] = txn["prize"]
  BY <1>1, SessionTypes DEF Done
<1>3. row.hold => row.internal > 0
  BY DEF SessionCore, RowSound, Planned
<1>4. LedgerSound'
  <2>1. Was("internal")' => row.hold /\ txn'["internal"].amount = row.internal
    BY <1>1, SessionTypes DEF SessionCore, LedgerSound, Was
  <2>2. Was("external")' => /\ row.external > 0 /\ txn'["external"].amount = row.external
                            /\ row.hold => Done("internal")
    BY <1>1, <1>3, SessionTypes DEF SessionCore, LedgerSound, Was
  <2> QED
    BY <1>2, <2>1, <2>2 DEF SessionCore, LedgerSound, Prize, Done
<1>5. RowSound' /\ EndsWell'
  BY DEF SessionCore, RowSound, Unplanned, Planned, EndsWell
<1> QED
  BY <1>1, <1>2, <1>4, <1>5 DEF SessionCore, Was

\* The hold is spent on the internal part.
LEMMA CoreConsumes ==
  ASSUME TypeOK, SessionCore, Consumes, row' = row,
         row.status \in {"awaiting", "reserved"}
  PROVE  SessionCore' /\ Done("internal")'
<1>1. /\ hold'.status = "consumed" /\ hold'.amount = hold.amount
      /\ txn'["internal"].status = "posted" /\ txn'["internal"].amount = hold.amount
      /\ txn["internal"].status = "pending" /\ txn["internal"].amount = hold.amount
      /\ received' = received + hold.amount
      /\ \A j \in TxnKeys : j # "internal" => txn'[j] = txn[j]
  BY DEF Consumes
<1>2. txn'["external"] = txn["external"] /\ txn'["prize"] = txn["prize"]
  BY <1>1, SessionTypes
<1>3. row.hold /\ hold.amount = row.internal
  BY <1>1 DEF SessionCore, LedgerSound, Was
<1>4. ~Done("internal") /\ Done("internal")'
  BY <1>1 DEF Done
<1>5. LedgerSound'
  <2>1. (received + Prize)' = (IF Done("internal")' THEN row.internal ELSE 0)
                                + (IF Done("external")' THEN row.external ELSE 0)
    <3>1. PICK p : p = Prize
      OBVIOUS
    <3>2. Prize' = p /\ p \in Nat
      BY <1>2, <3>1, SessionTypes DEF Prize
    <3>3. Done("external")' <=> Done("external")
      BY <1>2 DEF Done
    <3>4. received + p = IF Done("external") THEN row.external ELSE 0
      BY <1>4, <3>1, SessionTypes DEF SessionCore, LedgerSound
    <3>5. received' = received + row.internal
      BY <1>1, <1>3
    <3> QED
      BY <1>4, <3>2, <3>3, <3>4, <3>5, SessionTypes
  <2> QED
    BY <1>1, <1>2, <1>3, <1>4, <2>1 DEF SessionCore, LedgerSound, Was, Done
<1>6. RowSound' /\ EndsWell'
  BY DEF SessionCore, RowSound, Unplanned, Planned, EndsWell
<1> QED
  BY <1>4, <1>5, <1>6 DEF SessionCore

\* The external part is paid.
LEMMA CorePays ==
  ASSUME TypeOK, SessionCore, Moves("external", txn["external"].amount), row' = row,
         row.status \in {"awaiting", "reserved"}
  PROVE  SessionCore' /\ Done("external")' /\ (Done("internal")' <=> Done("internal"))
<1>1. /\ hold' = hold /\ received' = received + txn["external"].amount
      /\ txn["external"].status = "pending"
      /\ txn'["external"].status = "posted"
      /\ txn'["external"].amount = txn["external"].amount
      /\ \A j \in TxnKeys : j # "external" => txn'[j] = txn[j]
  BY DEF Moves
<1>2. txn'["internal"] = txn["internal"] /\ txn'["prize"] = txn["prize"]
  BY <1>1, SessionTypes
<1>3. txn["external"].amount = row.external
  BY <1>1 DEF SessionCore, LedgerSound, Was
<1>4. ~Done("external") /\ Done("external")' /\ (Done("internal")' <=> Done("internal"))
  BY <1>1, <1>2 DEF Done
<1>5. LedgerSound'
  <2>1. (received + Prize)' = (IF Done("internal")' THEN row.internal ELSE 0)
                                + (IF Done("external")' THEN row.external ELSE 0)
    <3>1. PICK p : p = Prize
      OBVIOUS
    <3>2. Prize' = p /\ p \in Nat
      BY <1>2, <3>1, SessionTypes DEF Prize
    <3>3. received + p = IF Done("internal") THEN row.internal ELSE 0
      BY <1>4, <3>1, SessionTypes DEF SessionCore, LedgerSound
    <3>4. received' = received + row.external
      BY <1>1, <1>3
    <3> QED
      BY <1>4, <3>2, <3>3, <3>4, SessionTypes
  <2> QED
    BY <1>1, <1>2, <1>4, <2>1 DEF SessionCore, LedgerSound, Was, Done
<1>6. RowSound' /\ EndsWell'
  BY DEF SessionCore, RowSound, Unplanned, Planned, EndsWell
<1> QED
  BY <1>4, <1>5, <1>6 DEF SessionCore

\* The prize is created, and paid: what was paid for the session stays paid.
LEMMA CorePrize ==
  ASSUME TypeOK, SessionCore, UNCHANGED <<row, hold>>,
         \/ /\ received' = received
            /\ \A j \in TxnKeys : j # "prize" => txn'[j] = txn[j]
            /\ txn'["prize"].status = "posted" <=> txn["prize"].status = "posted"
            /\ txn["prize"].status # "none" => txn' = txn
         \/ Moves("prize", -txn["prize"].amount)
  PROVE  SessionCore'
<1>1. txn'["internal"] = txn["internal"] /\ txn'["external"] = txn["external"]
  BY SessionTypes DEF Moves
<1>2. received' + Prize' = received + Prize
  <2>1. CASE /\ received' = received
             /\ txn'["prize"].status = "posted" <=> txn["prize"].status = "posted"
             /\ txn["prize"].status # "none" => txn' = txn
    BY <2>1 DEF Prize
  <2>2. CASE Moves("prize", -txn["prize"].amount)
    <3>1. PICK n : n = txn["prize"].amount
      OBVIOUS
    <3>2. Prize = 0 /\ Prize' = n /\ received' = received + (-n)
      BY <2>2, <3>1 DEF Moves, Prize
    <3>3. n \in Nat /\ received \in Nat
      BY <3>1, SessionTypes
    <3> QED
      BY <3>2, <3>3
  <2> QED
    BY <2>1, <2>2
<1>3. LedgerSound'
  BY <1>1, <1>2 DEF SessionCore, LedgerSound, Was, Done
<1>4. RowSound' /\ EndsWell'
  BY <1>1 DEF SessionCore, RowSound, Unplanned, Planned, EndsWell, AllDone, Done
<1> QED
  BY <1>3, <1>4 DEF SessionCore
OpenStatuses == {"created", "awaiting", "reserved"}

\* A request that has loaded the row as it is writes what it holds.
LEMMA WrittenIsMine ==
  ASSUME TypeOK, NEW t \in Tasks, Busy(t), task[t].loaded = row
  PROVE  Written(t) = Mine(t)
<1>1. Mine(t) \in Row
  BY TaskFields
<1>2. Mine(t) = [status |-> Mine(t).status, internal |-> Mine(t).internal,
                 external |-> Mine(t).external, hold |-> Mine(t).hold,
                 invoice |-> Mine(t).invoice]
  BY <1>1, RowFields
<1>3. PICK m : m = Mine(t)
  OBVIOUS
<1>4. Written(t) =
        [status |-> IF m.status # row.status THEN m.status ELSE row.status,
         internal |-> IF m.internal # row.internal THEN m.internal ELSE row.internal,
         external |-> IF m.external # row.external THEN m.external ELSE row.external,
         hold |-> IF m.hold # row.hold THEN m.hold ELSE row.hold,
         invoice |-> IF m.invoice # row.invoice THEN m.invoice ELSE row.invoice]
  BY <1>3, WrittenIsRow
<1>5. /\ (IF m.status # row.status THEN m.status ELSE row.status) = m.status
      /\ (IF m.internal # row.internal THEN m.internal ELSE row.internal) = m.internal
      /\ (IF m.external # row.external THEN m.external ELSE row.external) = m.external
      /\ (IF m.hold # row.hold THEN m.hold ELSE row.hold) = m.hold
      /\ (IF m.invoice # row.invoice THEN m.invoice ELSE row.invoice) = m.invoice
  OBVIOUS
<1>6. Written(t) = [status |-> m.status, internal |-> m.internal, external |-> m.external,
                    hold |-> m.hold, invoice |-> m.invoice]
  BY <1>4, <1>5
<1> QED
  BY <1>2, <1>3, <1>6

\* The session comes to an end.
LEMMA CoreEnds ==
  ASSUME TypeOK, SessionCore, row.status \in OpenStatuses,
         NEW s \in Final, row' = [row EXCEPT !.status = s],
         s = "canceled" => /\ hold.status # "consumed"
                           /\ row.hold => hold.status \in {"released", "expired"},
         s = "settled" => row.status # "created" /\ AllDone,
         UNCHANGED <<received, hold, txn>>
  PROVE  SessionCore'
<1>1. /\ row'.status = s /\ row'.internal = row.internal /\ row'.external = row.external
      /\ row'.hold = row.hold
  BY SessionTypes, WithStatus DEF Statuses, Final
<1>2. s \in {"settled", "canceled", "expired"}
  BY DEF Final
<1>3. RowSound'
  BY <1>1, <1>2 DEF SessionCore, RowSound, Unplanned, Planned, OpenStatuses
<1>4. LedgerSound'
  BY <1>1 DEF SessionCore, LedgerSound, Was, Done, Prize
<1>5. EndsWell'
  BY <1>1 DEF EndsWell, AllDone, Done
<1> QED
  BY <1>3, <1>4, <1>5 DEF SessionCore

\* A plan is stored: that of a new session, or the one the session has.
LEMMA CorePlans ==
  ASSUME TypeOK, SessionCore, row.status \in OpenStatuses,
         row' \in Row, row'.status \in {"awaiting", "reserved"}, Planned(row'),
         row.status # "created" => /\ row'.internal = row.internal
                                   /\ row'.external = row.external
                                   /\ row'.hold = row.hold,
         row'.hold => hold.status # "none" /\ hold.amount = row'.internal,
         UNCHANGED <<received, hold, txn>>
  PROVE  SessionCore'
<1>1. RowSound'
  BY DEF RowSound, Planned
<1>2. ASSUME row.status = "created" PROVE LedgerSound'
  <2>1. ~row.hold /\ row.external = 0
    BY <1>2 DEF SessionCore, RowSound, Unplanned
  <2>2. ~Was("internal") /\ ~Was("external")
    BY <2>1 DEF SessionCore, LedgerSound
  <2>3. ~Done("internal") /\ ~Done("external")
    BY <2>2, SessionTypes DEF Was, Done
  <2>4. received + Prize = 0 /\ hold.status # "consumed"
    BY <2>3 DEF SessionCore, LedgerSound
  <2> QED
    BY <2>2, <2>3, <2>4 DEF LedgerSound, Was, Done, Prize
<1>3. ASSUME row.status # "created" PROVE LedgerSound'
  BY <1>3 DEF SessionCore, LedgerSound, Was, Done, Prize
<1>4. LedgerSound'
  BY <1>2, <1>3
<1>5. EndsWell'
  BY DEF EndsWell
<1> QED
  BY <1>1, <1>4, <1>5 DEF SessionCore

\* A session is created.
LEMMA CoreBegins ==
  ASSUME TypeOK, SessionCore, row.status = "absent", row' = NewRow,
         UNCHANGED <<received, hold, txn>>
  PROVE  SessionCore'
<1>1. /\ row'.status = "created" /\ row'.internal = 0 /\ row'.external = 0 /\ ~row'.hold
  BY DEF NewRow
<1>2. ~row.hold /\ row.external = 0 /\ row.internal = 0
  BY DEF SessionCore, RowSound, Unplanned
<1>3. LedgerSound'
  BY <1>1, <1>2 DEF SessionCore, LedgerSound, Was, Done, Prize
<1>4. RowSound' /\ EndsWell'
  BY <1>1 DEF RowSound, Unplanned, EndsWell
<1> QED
  BY <1>3, <1>4 DEF SessionCore

\* A request goes on, with what it has loaded.
LEMMA SessionTurns ==
  ASSUME OneAtATime, SessionInv, NEW t \in Tasks, Busy(t), NEW mine \in Row,
         NEW place \in Places, Turns(t, mine, place), FundsInv', SessionCore',
         NEW x, x = Turned(t, mine, place), Fits(x)'
  PROVE  SessionInv'
BY SessionMoves DEF SessionInv, Turns

\* It ends, without a commit.
LEMMA SessionStops ==
  ASSUME OneAtATime, SessionInv, NEW t \in Tasks, Becomes(t, None), FundsInv', SessionCore'
  PROVE  SessionInv'
BY SessionMoves DEF SessionInv

\* The record of a request that goes on.
LEMMA TurnedFields ==
  ASSUME SessionInv, NEW t \in Tasks, Busy(t), NEW mine \in Row, NEW place \in Places
  PROVE  /\ Turned(t, mine, place).op = task[t].op
         /\ Turned(t, mine, place).loaded = row
         /\ Turned(t, mine, place).mine = mine
         /\ Turned(t, mine, place).at = place
<1>1. task[t].loaded = row
  BY DEF SessionInv, Fits
<1> QED
  BY <1>1, TurnedType DEF SessionInv, FundsInv

\* What fits a request that is at one of a place's steps.
LEMMA FitsAt ==
  ASSUME SessionInv, NEW t \in Tasks, NEW op, NEW place, At(t, op, place)
  PROVE  /\ TypeOK /\ SessionCore /\ Busy(t) /\ task[t].loaded = row /\ Mine(t) \in Row
         /\ op \in {"prepare", "cancel", "settle"} /\ place # "commit" =>
              row.status \in {"created", "awaiting", "reserved"}
         /\ op = "prepare" /\ place # "commit" => FitsPrepare(task[t])
         /\ op = "cancel" /\ place # "commit" => FitsCancel(task[t])
         /\ op = "settle" /\ place # "commit" => FitsSettle(task[t])
         /\ op = "create" => row.status = "absent" /\ Mine(t) = NewRow
         /\ op = "prize" => row.status = "settled"
<1>1. TypeOK /\ SessionCore /\ Busy(t) /\ Fits(task[t]) /\ task[t].op = op /\ task[t].at = place
  BY DEF SessionInv, FundsInv, SessionCore, At
<1>2. Mine(t) \in Row
  BY <1>1, TaskFields
<1> QED
  BY <1>1, <1>2 DEF Fits, Mine

\* A session is loaded, or marked as expired.
LEMMA SessionLoads ==
  ASSUME OneAtATime, SessionInv, NEW t \in Tasks, FundsInv',
         \/ Load(t, "prepare", "plan") \/ Load(t, "cancel", "inspect")
         \/ Load(t, "settle", "check") \/ Look(t)
         \/ LookUpOrder(t) \/ LoadPrize(t)
  PROVE  SessionInv'
<1>0. TypeOK /\ SessionCore
  BY DEF SessionInv, FundsInv, SessionCore
<1>1. ASSUME NEW op \in {"prepare", "cancel", "settle", "look"}, NEW place \in Places,
             Load(t, op, place),
             op = "prepare" => place = "plan", op = "cancel" => place = "inspect",
             op = "settle" => place = "check", op = "look" => due
      PROVE  SessionInv'
  <2>1. /\ UNCHANGED <<row, due, ledgerVars>>
        /\ row.status \in {"created", "awaiting", "reserved"}
    BY <1>0, <1>1, LoadBecomes DEF Ops
  <2>2. PICK x \in TaskRecords :
          /\ Becomes(t, x)
          /\ x.op = op /\ x.loaded = row
          /\ IF due THEN x.mine = [row EXCEPT !.status = "expired"] /\ x.at = "commit"
                    ELSE x.mine = row /\ x.at = place
    BY <1>0, <1>1, LoadBecomes DEF Ops
  <2>3. Fits(x)
    BY <1>1, <2>1, <2>2 DEF Fits, FitsPrepare, FitsCancel, FitsSettle
  <2>4. SessionCore' /\ Fits(x)'
    BY <1>0, <2>1, <2>3, CoreFrame, FitsFrame DEF ledgerVars
  <2> QED
    BY <2>2, <2>4, SessionMoves DEF SessionInv
<1>2. CASE LookUpOrder(t) \/ LoadPrize(t)
  <2>1. UNCHANGED <<row, due, ledgerVars>>
    BY <1>0, <1>2, CreateBecomes
  <2>2. PICK x \in TaskRecords :
          /\ Becomes(t, x) /\ x.loaded = row
          /\ \/ /\ row.status = "absent"
                /\ x.op = "create" /\ x.mine = NewRow /\ x.at = "insert"
             \/ /\ row.status = "settled"
                /\ x.op = "prize" /\ x.mine = row /\ x.at = "create"
    BY <1>0, <1>2, CreateBecomes
  <2>3. Fits(x)
    BY <2>2 DEF Fits
  <2>4. SessionCore' /\ Fits(x)'
    BY <1>0, <2>1, <2>3, CoreFrame, FitsFrame DEF ledgerVars
  <2> QED
    BY <2>2, <2>4, SessionMoves DEF SessionInv
<1>3. {"plan", "inspect", "check", "commit"} \subseteq Places
  BY DEF Places
<1> QED
  BY <1>1, <1>2, <1>3 DEF Look

\* A session is prepared.
LEMMA SessionPrepares ==
  ASSUME OneAtATime, SessionInv, NEW t \in Tasks, FundsInv',
         \/ \E useBalance \in BOOLEAN : Plan(t, useBalance)
         \/ Reserve(t) \/ AskInvoice(t)
  PROVE  SessionInv'
<1>0. FundsInv /\ SessionCore
  BY DEF SessionInv, SessionCore
<1>1. {"hold", "invoice", "commit"} \subseteq Places
  BY DEF Places
<1>2. CASE \E useBalance \in BOOLEAN : Plan(t, useBalance)
  <2>1. PICK useBalance \in BOOLEAN : Plan(t, useBalance)
    BY <1>2
  <2>2. At(t, "prepare", "plan") /\ UNCHANGED <<row, due, ledgerVars>>
    BY <2>1 DEF Plan
  <2>3. PICK mine \in Row, place \in {"hold", "invoice"} :
           /\ Turns(t, mine, place)
           /\ Mine(t).status # "created" => mine = Mine(t)
           /\ Mine(t).status = "created" => mine.internal + mine.external = Amount
           /\ mine.status = Mine(t).status /\ mine.hold = Mine(t).hold
           /\ place = "hold" <=> mine.internal > 0 /\ ~mine.hold
    BY <1>0, <2>1, PlanTurns
  <2>4. /\ Busy(t) /\ task[t].op = "prepare" /\ Mine(t) = row
        /\ row.status \in {"created", "awaiting", "reserved"}
    BY <2>2, FitsAt DEF At, FitsPrepare, Mine
  <2>5. PICK x : x = Turned(t, mine, place)
    OBVIOUS
  <2>6. x.op = "prepare" /\ x.loaded = row /\ x.mine = mine /\ x.at = place
    BY <1>1, <2>4, <2>5, TurnedFields
  <2>7. /\ mine.internal + mine.external = Amount
        /\ row.status = "created" => ~mine.hold
        /\ row.status # "created" => mine = row /\ (mine.hold <=> mine.internal > 0)
    BY <1>0, <2>3, <2>4 DEF SessionCore, RowSound, Planned, Unplanned
  <2>8. mine.hold => hold.status # "none" /\ hold.amount = mine.internal
    BY <1>0, <2>4, <2>7 DEF SessionCore, LedgerSound
  <2>9. Fits(x)
    BY <2>3, <2>4, <2>6, <2>7, <2>8 DEF Fits, FitsPrepare
  <2>10. SessionCore' /\ Fits(x)'
    BY <1>0, <2>2, <2>9, CoreFrame, FitsFrame DEF ledgerVars
  <2> QED
    BY <1>1, <2>3, <2>4, <2>5, <2>10, SessionTurns
<1>3. CASE Reserve(t)
  <2>1. At(t, "prepare", "hold") /\ UNCHANGED <<row, due, balance, received, txn>>
    BY <1>3 DEF Reserve
  <2>2. PICK mine \in Row :
           /\ Turns(t, mine, "invoice")
           /\ mine.internal = Mine(t).internal /\ mine.external = Mine(t).external
           /\ mine.status = Mine(t).status /\ mine.hold
           /\ hold'.status # "none" /\ hold'.amount = Mine(t).internal
           /\ hold.status = "none" => hold'.status = "active"
           /\ hold.status # "none" => hold' = hold
    BY <1>0, <1>3, ReserveTurns
  <2>3. /\ Busy(t) /\ task[t].op = "prepare" /\ row.status = "created" /\ TypeOK
        /\ Mine(t).internal + Mine(t).external = Amount
        /\ Mine(t).internal > 0
    BY <1>0, <2>1, FitsAt DEF At, FitsPrepare, Mine, FundsInv, Funded
  <2>4. SessionCore'
    BY <1>0, <2>1, <2>2, <2>3, CoreHoldBegins
  <2>5. PICK x : x = Turned(t, mine, "invoice")
    OBVIOUS
  <2>6. x.op = "prepare" /\ x.loaded = row /\ x.mine = mine /\ x.at = "invoice"
    BY <1>1, <2>3, <2>5, TurnedFields
  <2>7. Fits(x)'
    BY <2>1, <2>2, <2>3, <2>6 DEF Fits, FitsPrepare
  <2> QED
    BY <1>1, <2>2, <2>3, <2>4, <2>5, <2>7, SessionTurns
<1>4. CASE AskInvoice(t)
  <2>1. At(t, "prepare", "invoice") /\ UNCHANGED <<row, due, ledgerVars>>
    BY <1>4 DEF AskInvoice
  <2>2. PICK mine \in Row :
           /\ Turns(t, mine, "commit")
           /\ mine.internal = Mine(t).internal /\ mine.external = Mine(t).external
           /\ mine.hold = Mine(t).hold /\ mine.status \in {"awaiting", "reserved"}
    BY <1>0, <1>4, AskTurns
  <2>3. /\ Busy(t) /\ task[t].op = "prepare" /\ task[t].at = "invoice" /\ FitsPrepare(task[t])
        /\ row.status \in {"created", "awaiting", "reserved"}
    BY <2>1, FitsAt DEF At
  <2>4. PICK x : x = Turned(t, mine, "commit")
    OBVIOUS
  <2>5. x.op = "prepare" /\ x.loaded = row /\ x.mine = mine /\ x.at = "commit"
    BY <1>1, <2>3, <2>4, TurnedFields
  <2>6. Fits(x)
    BY <2>2, <2>3, <2>5 DEF Fits, FitsPrepare, Mine
  <2>7. SessionCore' /\ Fits(x)'
    BY <1>0, <2>1, <2>6, CoreFrame, FitsFrame DEF ledgerVars
  <2> QED
    BY <1>1, <2>2, <2>3, <2>4, <2>7, SessionTurns
<1> QED
  BY <1>2, <1>3, <1>4

\* A session is cancelled.
LEMMA SessionCancels ==
  ASSUME OneAtATime, SessionInv, NEW t \in Tasks, FundsInv', InspectHold(t) \/ Release(t)
  PROVE  SessionInv'
<1>0. FundsInv /\ SessionCore /\ TypeOK
  BY DEF SessionInv, SessionCore, FundsInv
<1>1. {"release", "commit"} \subseteq Places
  BY DEF Places
<1>2. /\ Busy(t) /\ task[t].op = "cancel" /\ FitsCancel(task[t]) /\ row' = row
      /\ row.status \in {"created", "awaiting", "reserved"}
      /\ task[t].at \in {"inspect", "release"}
  BY FitsAt DEF InspectHold, Release, At
<1>3. Mine(t) = row /\ (Release(t) => row.hold)
  BY <1>2 DEF FitsCancel, Mine, Release, At
<1>4. Mine(t) \in Row
  BY <1>0, <1>2, TaskFields
<1>5. CASE /\ UNCHANGED ledgerVars /\ Turns(t, Mine(t), "release") /\ Mine(t).hold
  <2>1. PICK x : x = Turned(t, Mine(t), "release")
    OBVIOUS
  <2>2. x.op = "cancel" /\ x.loaded = row /\ x.mine = row /\ x.at = "release"
    BY <1>1, <1>2, <1>3, <1>4, <2>1, TurnedFields
  <2>3. Fits(x)
    BY <1>2, <1>3, <1>5, <2>2 DEF Fits, FitsCancel
  <2>4. SessionCore' /\ Fits(x)'
    BY <1>0, <1>2, <1>5, <2>3, CoreFrame, FitsFrame DEF ledgerVars
  <2> QED
    BY <1>1, <1>2, <1>4, <1>5, <2>1, <2>4, SessionTurns
<1>6. CASE /\ Turns(t, Canceled(t), "commit") /\ Canceled(t) \in Row
           /\ UNCHANGED <<balance, received, txn>>
           /\ \/ InspectHold(t) /\ NothingHeld(t) /\ hold' = hold
              \/ Release(t) /\ hold.status = "released" /\ hold' = hold
              \/ /\ Release(t) /\ hold.status = "active"
                 /\ hold' = [status |-> "released", amount |-> hold.amount]
  <2>1. PICK mine \in Row : mine = Canceled(t)
    BY <1>6
  <2>2. mine = [row EXCEPT !.status = "canceled"]
    BY <1>3, <2>1 DEF Canceled
  <2>3. PICK x : x = Turned(t, mine, "commit")
    OBVIOUS
  <2>4. x.op = "cancel" /\ x.loaded = row /\ x.mine = mine /\ x.at = "commit"
    BY <1>1, <1>2, <2>3, TurnedFields
  <2>5. SessionCore'
    BY <1>0, <1>2, <1>6, CoreFrame, CoreHoldEnds
  <2>6. hold'.status # "consumed"
    <3>1. ~row.hold => hold.status # "consumed"
      BY <1>0, SessionTypes DEF SessionCore, LedgerSound, Was, Done
    <3> QED
      BY <1>3, <1>6, <3>1 DEF NothingHeld
  <2>7. row.hold => hold'.status \in {"released", "expired"}
    BY <1>3, <1>6 DEF NothingHeld
  <2>8. Fits(x)'
    BY <1>2, <2>2, <2>4, <2>6, <2>7 DEF Fits, FitsCancel
  <2> QED
    BY <1>1, <1>2, <1>6, <2>1, <2>3, <2>5, <2>8, SessionTurns
<1>7. CASE /\ Becomes(t, None) /\ UNCHANGED <<balance, received, txn>>
           /\ hold.status = "active"
           /\ hold' = [status |-> "expired", amount |-> hold.amount]
  BY <1>0, <1>2, <1>7, CoreHoldEnds, SessionStops
<1> QED
  BY <1>0, <1>5, <1>6, <1>7, CancelTurns

\* A request that settles, at one of its steps.
LEMMA SettlesAt ==
  ASSUME SessionInv, NEW t \in Tasks,
         NEW place \in {"check", "internal", "consume", "external", "post"},
         At(t, "settle", place),
         row.internal > 0 \/ row.external > 0
  PROVE  /\ Busy(t) /\ task[t].op = "settle" /\ Mine(t) = row /\ Mine(t) \in Row
         /\ row.status \in {"awaiting", "reserved"} /\ Planned(row)
         /\ FitsSettle(task[t]) /\ task[t].at = place
<1>1. /\ Busy(t) /\ task[t].op = "settle" /\ Mine(t) = row /\ Mine(t) \in Row
      /\ row.status \in {"created", "awaiting", "reserved"}
      /\ FitsSettle(task[t]) /\ task[t].at = place
  BY FitsAt DEF FitsSettle, Mine, At
<1>2. row.status # "created"
  BY DEF SessionInv, RowSound, Unplanned
<1> QED
  BY <1>1, <1>2 DEF SessionInv, RowSound

\* The request goes on to the next step of its settlement.
LEMMA SettlesOn ==
  ASSUME OneAtATime, SessionInv, NEW t \in Tasks, Busy(t), task[t].op = "settle",
         FundsInv', SessionCore', row' = row,
         row.status \in {"awaiting", "reserved"}, row \in Row,
         NEW place \in {"internal", "consume", "external", "post"}, Turns(t, row, place),
         place \in {"internal", "consume"} => row.internal > 0,
         place = "consume" => Was("internal")',
         place \in {"external", "post"} =>
           row.external > 0 /\ (row.internal > 0 => Done("internal")'),
         place = "post" => Was("external")'
  PROVE  SessionInv'
<1>1. place \in Places
  BY DEF Places
<1>2. PICK x : x = Turned(t, row, place)
  OBVIOUS
<1>3. x.op = "settle" /\ x.loaded = row /\ x.mine = row /\ x.at = place
  BY <1>1, <1>2, TurnedFields
<1>4. Fits(x)'
  BY <1>3 DEF Fits, FitsSettle
<1> QED
  BY <1>1, <1>2, <1>4, SessionTurns

\* It has done its part: the session is settled when it commits.
LEMMA SettlesFinally ==
  ASSUME OneAtATime, SessionInv, NEW t \in Tasks, Busy(t), task[t].op = "settle",
         FundsInv', SessionCore', row' = row,
         row.status \in {"awaiting", "reserved"}, Mine(t) = row,
         Turns(t, Settled(t), "commit"), AllDone'
  PROVE  SessionInv'
<1>1. Settled(t) \in Row /\ "commit" \in Places
  BY SettledType DEF SessionInv, FundsInv
<1>2. PICK mine \in Row : mine = Settled(t)
  BY <1>1
<1>3. mine = [row EXCEPT !.status = "settled"]
  BY <1>2 DEF Settled
<1>4. PICK x : x = Turned(t, mine, "commit")
  OBVIOUS
<1>5. x.op = "settle" /\ x.loaded = row /\ x.mine = mine /\ x.at = "commit"
  BY <1>1, <1>4, TurnedFields
<1>6. Fits(x)'
  BY <1>3, <1>5 DEF Fits, FitsSettle
<1> QED
  BY <1>1, <1>2, <1>4, <1>6, SessionTurns

\* A session is settled.
LEMMA SessionSettles ==
  ASSUME OneAtATime, SessionInv, NEW t \in Tasks, FundsInv',
         CheckFunds(t) \/ CreateInternal(t) \/ Consume(t) \/ CreateExternal(t) \/ PostExternal(t)
  PROVE  SessionInv'
<1>0. FundsInv /\ SessionCore /\ TypeOK /\ Funded /\ row \in Row
  BY DEF SessionInv, SessionCore, FundsInv, TypeOK
<1>a. row' = row
  BY DEF CheckFunds, CreateInternal, Consume, CreateExternal, PostExternal
<1>b. /\ row.internal \in Nat /\ row.external \in Nat
      /\ row.internal \in 0 .. Amount /\ row.external \in 0 .. Amount
  BY <1>0, RowFields, SessionTypes
<1>1. CASE CheckFunds(t)
  <2>1. At(t, "settle", "check") /\ Settleable(Mine(t))
    BY <1>1 DEF CheckFunds
  <2>2. Mine(t) = row
    BY <2>1, FitsAt DEF FitsSettle, Mine, At
  <2>3. row.internal > 0 \/ row.external > 0
    BY <2>1, <2>2 DEF Settleable
  <2>4. /\ Busy(t) /\ task[t].op = "settle" /\ row.status \in {"awaiting", "reserved"}
    BY <2>1, <2>3, SettlesAt
  <2>5. /\ UNCHANGED ledgerVars
        /\ \/ Turns(t, row, "internal") /\ row.internal > 0
           \/ Turns(t, row, "external") /\ ~(row.internal > 0) /\ row.external > 0
    BY <1>0, <1>1, <2>2, CheckTurns
  <2>6. SessionCore'
    BY <1>0, <1>a, <2>5, CoreFrame DEF ledgerVars
  <2>7. CASE Turns(t, row, "internal") /\ row.internal > 0
    BY <1>0, <1>a, <2>4, <2>6, <2>7, SettlesOn
  <2>8. CASE Turns(t, row, "external") /\ ~(row.internal > 0) /\ row.external > 0
    BY <1>0, <1>a, <2>4, <2>6, <2>8, SettlesOn
  <2> QED
    BY <2>5, <2>7, <2>8
<1>2. CASE CreateInternal(t)
  <2>1. At(t, "settle", "internal")
    BY <1>2 DEF CreateInternal
  <2>2. row.internal > 0
    BY <2>1, FitsAt DEF FitsSettle, Mine, At
  <2>3. /\ Busy(t) /\ task[t].op = "settle" /\ row.status \in {"awaiting", "reserved"}
        /\ Mine(t) = row /\ row.hold
    BY <2>1, <2>2, SettlesAt DEF Planned
  <2>4. /\ Turns(t, row, "consume") /\ TxnCreated("internal", row.internal)
        /\ UNCHANGED <<balance, received, hold>>
    BY <1>0, <1>2, <2>3, CreateInternalTurns
  <2>5. SessionCore' /\ Was("internal")'
    BY <1>0, <1>a, <1>b, <2>3, <2>4, CoreCreates
  <2> QED
    BY <1>0, <1>a, <2>2, <2>3, <2>4, <2>5, SettlesOn
<1>3. CASE Consume(t)
  <2>1. At(t, "settle", "consume")
    BY <1>3 DEF Consume
  <2>2. row.internal > 0
    BY <2>1, FitsAt DEF FitsSettle, Mine, At
  <2>3. /\ Busy(t) /\ task[t].op = "settle" /\ row.status \in {"awaiting", "reserved"}
        /\ Mine(t) = row
    BY <2>1, <2>2, SettlesAt
  <2>4. ASSUME AfterInternal(t), SessionCore', Done("internal")'
        PROVE  SessionInv'
    <3>1. \/ row.external = 0 /\ Turns(t, Settled(t), "commit")
          \/ row.external # 0 /\ Turns(t, row, "external")
      BY <1>0, <2>3, <2>4, AfterTurns DEF Paid
    <3>2. CASE row.external = 0 /\ Turns(t, Settled(t), "commit")
      <4>1. AllDone'
        BY <1>a, <2>4, <3>2 DEF AllDone
      <4> QED
        BY <1>a, <2>3, <2>4, <3>2, <4>1, SettlesFinally
    <3>3. CASE row.external # 0 /\ Turns(t, row, "external")
      <4>1. row.external > 0
        BY <1>b, <3>3
      <4> QED
        BY <1>0, <1>a, <2>3, <2>4, <3>3, <4>1, SettlesOn
    <3> QED
      BY <3>1, <3>2, <3>3
  <2>5. CASE Consumes /\ AfterInternal(t)
    BY <1>0, <1>a, <2>3, <2>4, <2>5, CoreConsumes
  <2>6. CASE hold.status = "consumed" /\ UNCHANGED ledgerVars /\ AfterInternal(t)
    <3>1. SessionCore'
      BY <1>0, <1>a, <2>6, CoreFrame DEF ledgerVars
    <3>2. Done("internal")'
      BY <1>0, <2>6 DEF SessionCore, LedgerSound, Done, ledgerVars
    <3> QED
      BY <2>4, <2>6, <3>1, <3>2
  <2>7. CASE /\ Becomes(t, None) /\ UNCHANGED <<balance, received, txn>>
             /\ hold.status = "active"
             /\ hold' = [status |-> "expired", amount |-> hold.amount]
    BY <1>0, <1>a, <2>7, CoreHoldEnds, SessionStops
  <2> QED
    BY <1>0, <1>3, <2>5, <2>6, <2>7, ConsumeTurns
<1>4. CASE CreateExternal(t)
  <2>1. At(t, "settle", "external")
    BY <1>4 DEF CreateExternal
  <2>2. row.external > 0 /\ (row.internal > 0 => Done("internal"))
    BY <2>1, FitsAt DEF FitsSettle, Mine, At
  <2>3. /\ Busy(t) /\ task[t].op = "settle" /\ row.status \in {"awaiting", "reserved"}
        /\ Mine(t) = row
    BY <2>1, <2>2, SettlesAt
  <2>4. /\ Turns(t, row, "post") /\ TxnCreated("external", row.external)
        /\ UNCHANGED <<balance, received, hold>>
    BY <1>0, <1>4, <2>3, CreateExternalTurns
  <2>5. SessionCore' /\ Was("external")' /\ (Done("internal")' <=> Done("internal"))
    BY <1>0, <1>a, <1>b, <2>2, <2>3, <2>4, CoreCreates
  <2> QED
    BY <1>0, <1>a, <2>2, <2>3, <2>4, <2>5, SettlesOn
<1>5. CASE PostExternal(t)
  <2>1. At(t, "settle", "post")
    BY <1>5 DEF PostExternal
  <2>2. row.external > 0 /\ (row.internal > 0 => Done("internal"))
    BY <2>1, FitsAt DEF FitsSettle, Mine, At
  <2>3. /\ Busy(t) /\ task[t].op = "settle" /\ row.status \in {"awaiting", "reserved"}
        /\ Mine(t) = row
    BY <2>1, <2>2, SettlesAt
  <2>4. /\ Turns(t, Settled(t), "commit")
        /\ \/ Moves("external", txn["external"].amount)
           \/ txn["external"].status = "posted" /\ UNCHANGED ledgerVars
    BY <1>0, <1>5, PostTurns
  <2>5. SessionCore' /\ Done("external")' /\ (Done("internal")' <=> Done("internal"))
    <3>1. CASE Moves("external", txn["external"].amount)
      BY <1>0, <1>a, <2>3, <3>1, CorePays
    <3>2. CASE txn["external"].status = "posted" /\ UNCHANGED ledgerVars
      BY <1>0, <1>a, <3>2, CoreFrame DEF ledgerVars, Done
    <3> QED
      BY <2>4, <3>1, <3>2
  <2>6. AllDone'
    BY <1>a, <2>2, <2>5 DEF AllDone
  <2> QED
    BY <1>a, <2>3, <2>4, <2>5, <2>6, SettlesFinally
<1> QED
  BY <1>1, <1>2, <1>3, <1>4, <1>5

\* A prize is paid.
LEMMA SessionPrizes ==
  ASSUME OneAtATime, SessionInv, NEW t \in Tasks, FundsInv',
         PostPrize(t) \/ \E n \in 1 .. Amount : CreatePrize(t, n)
  PROVE  SessionInv'
<1>0. FundsInv /\ SessionCore /\ TypeOK
  BY DEF SessionInv, SessionCore, FundsInv
<1>a. row' = row
  BY DEF PostPrize, CreatePrize
<1>1. CASE PostPrize(t)
  <2>1. Becomes(t, None) /\ hold' = hold
    BY <1>0, <1>1, PostPrizeTurns
  <2>2. SessionCore'
    <3>1. CASE Moves("prize", -txn["prize"].amount)
      BY <1>0, <1>a, <2>1, <3>1, CorePrize
    <3>2. CASE UNCHANGED ledgerVars
      BY <1>0, <1>a, <3>2, CoreFrame DEF ledgerVars
    <3> QED
      BY <1>0, <1>1, <3>1, <3>2, PostPrizeTurns
  <2> QED
    BY <2>1, <2>2, SessionStops
<1>2. CASE \E n \in 1 .. Amount : CreatePrize(t, n)
  <2>1. PICK n \in 1 .. Amount : CreatePrize(t, n)
    BY <1>2
  <2>2. At(t, "prize", "create")
    BY <2>1 DEF CreatePrize
  <2>3. /\ UNCHANGED <<balance, received, hold>>
        /\ \A j \in TxnKeys : j # "prize" => txn'[j] = txn[j]
        /\ txn'["prize"].status = "posted" <=> txn["prize"].status = "posted"
        /\ txn["prize"].status # "none" => txn' = txn
        /\ Becomes(t, None) \/ Turns(t, Mine(t), "post")
    BY <1>0, <2>1, CreatePrizeTurns
  <2>4. SessionCore'
    BY <1>0, <1>a, <2>3, CorePrize
  <2>5. CASE Becomes(t, None)
    BY <2>4, <2>5, SessionStops
  <2>6. CASE Turns(t, Mine(t), "post")
    <3>1. /\ Busy(t) /\ task[t].op = "prize" /\ row.status = "settled" /\ Mine(t) \in Row
          /\ "post" \in Places
      BY <2>2, FitsAt DEF At, Places
    <3>2. PICK mine \in Row : mine = Mine(t)
      BY <3>1
    <3>3. PICK x : x = Turned(t, mine, "post")
      OBVIOUS
    <3>4. x.op = "prize" /\ x.loaded = row /\ x.mine = mine /\ x.at = "post"
      BY <3>1, <3>3, TurnedFields
    <3>5. Fits(x)'
      BY <1>a, <3>1, <3>4 DEF Fits
    <3> QED
      BY <2>4, <2>6, <3>1, <3>2, <3>3, <3>5, SessionTurns
  <2> QED
    BY <2>3, <2>5, <2>6
<1> QED
  BY <1>1, <1>2

\* A request that prepares and has something to commit.
LEMMA PreparedCommits ==
  ASSUME SessionInv, NEW t \in Tasks, Busy(t), task[t].at = "commit",
         task[t].op = "prepare", Mine(t).status # "expired",
         row' = Mine(t), UNCHANGED <<received, hold, txn>>
  PROVE  SessionCore'
<1>1. TypeOK /\ SessionCore /\ Mine(t) \in Row
  BY TaskFields DEF SessionInv, FundsInv, SessionCore
<1>2. Fits(task[t])
  BY DEF SessionInv
<1>3. row.status \in OpenStatuses
  BY <1>2 DEF Fits, OpenStatuses
<1>4. Mine(t) # [row EXCEPT !.status = "expired"]
  <2>1. [row EXCEPT !.status = "expired"].status = "expired"
    BY <1>1, WithStatus DEF TypeOK, Statuses
  <2> QED
    BY <2>1
<1>5. FitsPrepare(task[t])
  BY <1>2, <1>4 DEF Fits, Mine
<1>6. /\ Mine(t).status \in {"awaiting", "reserved"} /\ Planned(Mine(t))
      /\ row.status # "created" => /\ Mine(t).internal = row.internal
                                   /\ Mine(t).external = row.external
                                   /\ Mine(t).hold = row.hold
      /\ Mine(t).hold => hold.status # "none" /\ hold.amount = Mine(t).internal
  BY <1>5 DEF FitsPrepare, Planned, Mine
<1> QED
  BY <1>1, <1>3, <1>6, CorePlans DEF Planned

\* A request commits, is inserted, fails, or settles what it has prepared.
LEMMA SessionCommits ==
  ASSUME OneAtATime, SessionInv, NEW t \in Tasks, FundsInv', Commit(t)
  PROVE  SessionInv'
<1>0. TypeOK /\ SessionCore /\ row \in Row
  BY DEF SessionInv, SessionCore, FundsInv, TypeOK
<1>1. /\ Busy(t) /\ task[t].at = "commit" /\ Fits(task[t]) /\ Becomes(t, None)
      /\ row' = Written(t) /\ UNCHANGED <<received, hold, txn>>
  BY DEF Commit, SessionInv, End, Becomes, ledgerVars
<1>2. row' = Mine(t)
  BY <1>0, <1>1, WrittenIsMine DEF Fits
<1>3. row.status \in OpenStatuses /\ task[t].op \in {"prepare", "cancel", "settle", "look"}
  BY <1>1 DEF Fits, OpenStatuses
<1>4. CASE Mine(t) = [row EXCEPT !.status = "expired"]
  BY <1>0, <1>1, <1>2, <1>3, <1>4, CoreEnds, SessionStops DEF Final
<1>5. CASE task[t].op = "prepare" /\ Mine(t).status # "expired"
  BY <1>1, <1>2, <1>5, PreparedCommits, SessionStops
<1>6. CASE task[t].op = "cancel" /\ Mine(t) # [row EXCEPT !.status = "expired"]
  <2>1. /\ Mine(t) = [row EXCEPT !.status = "canceled"]
        /\ hold.status # "consumed"
        /\ row.hold => hold.status \in {"released", "expired"}
    BY <1>1, <1>6 DEF Fits, FitsCancel, Mine
  <2> QED
    BY <1>0, <1>1, <1>2, <1>3, <2>1, CoreEnds, SessionStops DEF Final
<1>7. CASE task[t].op = "settle" /\ Mine(t) # [row EXCEPT !.status = "expired"]
  <2>1. /\ Mine(t) = [row EXCEPT !.status = "settled"]
        /\ row.status # "created" /\ AllDone
    BY <1>1, <1>7 DEF Fits, FitsSettle, Mine
  <2> QED
    BY <1>0, <1>1, <1>2, <1>3, <2>1, CoreEnds, SessionStops DEF Final
<1>8. \/ Mine(t) = [row EXCEPT !.status = "expired"]
      \/ task[t].op = "prepare" /\ Mine(t).status # "expired"
      \/ task[t].op \in {"cancel", "settle"} /\ Mine(t) # [row EXCEPT !.status = "expired"]
  BY <1>1 DEF Fits, FitsPrepare, Mine
<1> QED
  BY <1>4, <1>5, <1>6, <1>7, <1>8

LEMMA SessionInserts ==
  ASSUME OneAtATime, SessionInv, NEW t \in Tasks, FundsInv', Insert(t) \/ Fail(t)
  PROVE  SessionInv'
<1>0. TypeOK /\ SessionCore
  BY DEF SessionInv, SessionCore, FundsInv
<1>1. Becomes(t, None) /\ UNCHANGED <<received, hold, txn>>
  BY DEF Insert, Fail, End, Becomes, ledgerVars
<1>2. CASE Insert(t)
  <2>1. row.status = "absent" /\ row' = NewRow
    BY <1>2, FitsAt DEF Insert
  <2> QED
    BY <1>0, <1>1, <2>1, CoreBegins, SessionStops
<1>3. CASE Fail(t)
  BY <1>0, <1>1, <1>3, CoreFrame, SessionStops DEF Fail
<1> QED
  BY <1>2, <1>3

LEMMA SessionPages ==
  ASSUME OneAtATime, SessionInv, NEW t \in Tasks, FundsInv',
         SettlesAfterwards(t), PageGoesOn(t)
  PROVE  SessionInv'
<1>0. TypeOK /\ SessionCore
  BY DEF SessionInv, SessionCore, FundsInv
<1>1. /\ UNCHANGED <<due, ledgerVars>> /\ Busy(t) /\ task[t].op = "prepare"
      /\ task[t].at = "commit"
      /\ row' = Written(t) /\ row'.status \in {"reserved", "awaiting"}
  BY <1>0, PageBecomes
<1>2. PICK x \in TaskRecords :
        /\ Becomes(t, x)
        /\ x.op = "settle" /\ x.loaded = row'
        /\ IF due THEN x.mine = [row' EXCEPT !.status = "expired"] /\ x.at = "commit"
                  ELSE x.mine = row' /\ x.at = "check"
  BY <1>0, PageBecomes
<1>3. task[t].loaded = row
  BY <1>1 DEF SessionInv, Fits
<1>4. row' = Mine(t)
  BY <1>0, <1>1, <1>3, WrittenIsMine
<1>5. SessionCore'
  <2>1. Mine(t).status # "expired"
    BY <1>1, <1>4
  <2> QED
    BY <1>1, <1>4, <2>1, PreparedCommits DEF ledgerVars
<1>6. Fits(x)'
  BY <1>1, <1>2 DEF Fits, FitsSettle
<1> QED
  BY <1>2, <1>5, <1>6, SessionMoves DEF SessionInv

LEMMA SessionStep ==
  ASSUME OneAtATime, SessionInv, NEW t \in Tasks, Requests(t)
  PROVE  SessionInv'
<1>1. FundsInv'
  BY FundsStep DEF SessionInv
<1>2. CASE \/ Load(t, "prepare", "plan") \/ Load(t, "cancel", "inspect")
           \/ Load(t, "settle", "check") \/ Look(t)
           \/ LookUpOrder(t) \/ LoadPrize(t)
  BY <1>1, <1>2, SessionLoads
<1>3. CASE \/ \E useBalance \in BOOLEAN : Plan(t, useBalance)
           \/ Reserve(t) \/ AskInvoice(t)
  BY <1>1, <1>3, SessionPrepares
<1>4. CASE InspectHold(t) \/ Release(t)
  BY <1>1, <1>4, SessionCancels
<1>5. CASE CheckFunds(t) \/ CreateInternal(t) \/ Consume(t) \/ CreateExternal(t) \/ PostExternal(t)
  BY <1>1, <1>5, SessionSettles
<1>6. CASE PostPrize(t) \/ \E n \in 1 .. Amount : CreatePrize(t, n)
  BY <1>1, <1>6, SessionPrizes
<1>7. CASE Commit(t)
  BY <1>1, <1>7, SessionCommits
<1>8. CASE Insert(t) \/ Fail(t)
  BY <1>1, <1>8, SessionInserts
<1>9. CASE SettlesAfterwards(t) /\ PageGoesOn(t)
  BY <1>1, <1>9, SessionPages
<1> QED
  BY <1>2, <1>3, <1>4, <1>5, <1>6, <1>7, <1>8, <1>9
  DEF Requests, PrepareStep, CancelStep, SettleStep, PrizeStep

\* The worker expires the hold, time passes, the user's balance changes.
LEMMA SessionSurroundings ==
  ASSUME SessionInv, Surroundings
  PROVE  SessionInv'
<1>0. TypeOK /\ SessionCore
  BY DEF SessionInv, SessionCore, FundsInv
<1>1. FundsInv' /\ task' = task
  BY FundsSurroundings DEF SessionInv, Surroundings, BalanceChanges, TimePasses, WorkerExpires
<1>2. ASSUME SessionCore', \A t \in Tasks : Busy(t) => Fits(task[t])'
      PROVE  SessionInv'
  BY <1>1, <1>2 DEF SessionInv, SessionCore, Busy
<1>3. CASE BalanceChanges \/ TimePasses
  <2>1. UNCHANGED <<row, received, hold, txn>>
    BY <1>3 DEF BalanceChanges, TimePasses, ledgerVars
  <2>2. SessionCore'
    BY <1>0, <2>1, CoreFrame
  <2>3. ASSUME NEW t \in Tasks, Busy(t) PROVE Fits(task[t])'
    <3>1. PICK x : x = task[t]
      OBVIOUS
    <3>2. Fits(x)
      BY <2>3, <3>1 DEF SessionInv
    <3>3. Fits(x)'
      BY <2>1, <3>2, FitsFrame
    <3> QED
      BY <1>1, <3>1, <3>3
  <2> QED
    BY <1>2, <2>2, <2>3
<1>4. CASE WorkerExpires
  <2>1. /\ UNCHANGED <<row, received, txn>> /\ hold.status = "active"
        /\ hold' = [hold EXCEPT !.status = "expired"]
    BY <1>4 DEF WorkerExpires, ExpireHold
  <2>2. hold' = [status |-> "expired", amount |-> hold.amount]
    BY <1>0, <2>1 DEF TypeOK
  <2>3. SessionCore'
    BY <1>0, <2>1, <2>2, CoreHoldEnds
  <2>4. ASSUME NEW t \in Tasks, Busy(t) PROVE Fits(task[t])'
    <3>1. PICK x : x = task[t]
      OBVIOUS
    <3>2. Fits(x)
      BY <2>4, <3>1 DEF SessionInv
    <3>3. hold'.status = "expired" /\ hold'.amount = hold.amount
      BY <2>2
    <3>4. FitsPrepare(x) => FitsPrepare(x)'
      BY <2>1, <3>3 DEF FitsPrepare
    <3>5. FitsCancel(x) => FitsCancel(x)'
      BY <2>1, <3>3 DEF FitsCancel
    <3>6. FitsSettle(x) => FitsSettle(x)'
      BY <2>1 DEF FitsSettle, Was, Done, AllDone
    <3>7. Fits(x)'
      BY <2>1, <3>2, <3>4, <3>5, <3>6 DEF Fits
    <3> QED
      BY <1>1, <3>1, <3>7
  <2> QED
    BY <1>2, <2>3, <2>4
<1> QED
  BY <1>3, <1>4 DEF Surroundings

LEMMA SessionStutter ==
  ASSUME SessionInv, UNCHANGED vars
  PROVE  SessionInv'
<1>1. UNCHANGED <<row, task, received, hold, txn>>
  BY DEF vars
<1>2. RowSound'
  BY <1>1 DEF SessionInv, RowSound, Unplanned, Planned
<1>3. LedgerSound'
  BY <1>1 DEF SessionInv, LedgerSound, Was, Done, Prize
<1>4. EndsWell'
  BY <1>1 DEF SessionInv, EndsWell, AllDone, Done
<1>5. ASSUME NEW t \in Tasks, Busy(t)' PROVE Fits(task[t])'
  <2>1. Fits(task[t])
    BY <1>1, <1>5 DEF SessionInv, Busy
  <2>2. Fits(task[t])' <=> Fits(task[t])
    BY <1>1 DEF Fits, FitsPrepare, FitsCancel, FitsSettle, AllDone, Was, Done
  <2> QED
    BY <2>1, <2>2
<1> QED
  BY <1>2, <1>3, <1>4, <1>5, FundsStutter DEF SessionInv

LEMMA SessionInit == Init => SessionInv
<1> SUFFICES ASSUME Init PROVE SessionInv
  OBVIOUS
<1>1. FundsInv
  BY FundsInit
<1>2. PICK no \in BOOLEAN : no = FALSE
  OBVIOUS
<1>3. row = [status |-> "absent", internal |-> 0, external |-> 0, hold |-> no, invoice |-> no]
  <2>1. PICK new : new = [status |-> "created", internal |-> 0, external |-> 0, hold |-> no,
                          invoice |-> no]
    OBVIOUS
  <2>2. new = NewRow
    BY <1>2, <2>1, Zenon DEF NewRow
  <2>3. [new EXCEPT !.status = "absent"]
          = [status |-> "absent", internal |-> 0, external |-> 0, hold |-> no, invoice |-> no]
    BY <2>1
  <2> QED
    BY <2>2, <2>3 DEF Init
<1>4. /\ row.status = "absent" /\ row.internal = 0 /\ row.external = 0 /\ ~row.hold
  BY <1>2, <1>3
<1>5. /\ \A k \in TxnKeys : txn[k].status = "none" /\ txn[k].amount = 0
      /\ hold.status = "none" /\ received = 0 /\ \A t \in Tasks : ~Busy(t)
  BY DEF Init, NewTxn, Busy
<1>6. LedgerSound
  BY <1>4, <1>5 DEF LedgerSound, Was, Done, Prize, TxnKeys
<1>7. RowSound /\ EndsWell
  BY <1>4 DEF RowSound, Unplanned, EndsWell
<1> QED
  BY <1>1, <1>5, <1>6, <1>7 DEF SessionInv

\* The inductive invariant of a session whose requests do not overlap.
SessionsInv == ATypeOK /\ SessionInv

LEMMA SessionsInit == AInit => SessionsInv
BY AdminFundsInit, SessionInit DEF AInit, SessionsInv

LEMMA SessionsStep ==
  ASSUME OneAtATime
  PROVE  SessionsInv /\ [ANext]_avars => SessionsInv'
<1> SUFFICES ASSUME SessionsInv, [ANext]_avars PROVE SessionsInv'
  OBVIOUS
<1>1. ATypeOK /\ Funded /\ SessionInv
  BY DEF SessionsInv, SessionInv, FundsInv
<1>2. ATypeOK'
  BY <1>1, AdminFunds
<1>3. SessionInv'
  BY <1>1, AdminSteps, SessionStep, SessionSurroundings, SessionStutter
<1> QED
  BY <1>2, <1>3 DEF SessionsInv

\* What the properties say of a state the invariant describes.
LEMMA SessionSays ==
  ASSUME SessionInv
  PROVE  FundedOnce /\ SettledIsPaid /\ TakenInOrder /\ CanceledGivesBack
<1>0. TypeOK /\ RowSound /\ LedgerSound /\ EndsWell
  BY DEF SessionInv, FundsInv
<1>1. FundedOnce
  BY <1>0 DEF FundedOnce, RowSound, Planned
<1> DEFINE i == row.internal
           e == row.external
           p == received + Prize
<1>2. /\ p = (IF Done("internal") THEN i ELSE 0) + (IF Done("external") THEN e ELSE 0)
      /\ i \in Nat /\ e \in Nat /\ Amount \in Nat
  BY <1>0, SessionTypes DEF LedgerSound
<1>3. SettledIsPaid
  <2>1. SUFFICES ASSUME row.status = "settled" PROVE p = Amount
    BY DEF SettledIsPaid
  <2>2. i + e = Amount /\ (i > 0 => Done("internal")) /\ (e > 0 => Done("external"))
    BY <1>0, <2>1 DEF EndsWell, AllDone, RowSound, Planned
  <2> HIDE DEF i, e, p
  <2> QED
    BY <1>2, <2>2
<1>4. TakenInOrder
  <2>1. CASE Planned(row)
    <3>1. i + e = Amount /\ (row.hold <=> i > 0)
      BY <2>1 DEF Planned
    <3>2. Done("external") => (row.hold => Done("internal"))
      BY <1>0 DEF LedgerSound, Was, Done
    <3> HIDE DEF i, e, p
    <3>3. p \in {0, i, Amount}
      BY <1>2, <3>1, <3>2
    <3> QED
      BY <3>3 DEF i, p, TakenInOrder
  <2>2. CASE Unplanned(row)
    <3>1. i = 0 /\ e = 0
      BY <2>2 DEF Unplanned
    <3> HIDE DEF i, e, p
    <3>2. p = 0
      BY <1>2, <3>1
    <3> QED
      BY <3>2 DEF p, TakenInOrder
  <2>3. Planned(row) \/ Unplanned(row)
    BY <1>0, SessionTypes DEF RowSound, Statuses
  <2> QED
    BY <2>1, <2>2, <2>3
<1>5. CanceledGivesBack
  BY <1>0 DEF EndsWell, CanceledGivesBack
<1> QED
  BY <1>1, <1>3, <1>4, <1>5

\* The theorems that follow are about a session whose requests come one after
\* another.  Any of them may fail or die at any point, with or without the
\* ledger's answer, and be repeated; administrators, the page and the worker
\* interfere.

\* A prepared session costs the user exactly its amount.
THEOREM SessionsFundedOnce ==
  ASSUME OneAtATime
  PROVE  ASpec => []FundedOnce
<1>1. AInit => SessionsInv
  BY SessionsInit
<1>2. SessionsInv /\ [ANext]_avars => SessionsInv'
  BY SessionsStep
<1>3. SessionsInv => FundedOnce
  BY SessionSays DEF SessionsInv
<1> QED
  BY <1>1, <1>2, <1>3, PTL DEF ASpec

\* The application has got all of what a settled session costs, once.
THEOREM SettlementPays ==
  ASSUME OneAtATime
  PROVE  ASpec => []SettledIsPaid
<1>1. AInit => SessionsInv
  BY SessionsInit
<1>2. SessionsInv /\ [ANext]_avars => SessionsInv'
  BY SessionsStep
<1>3. SessionsInv => SettledIsPaid
  BY SessionSays DEF SessionsInv
<1> QED
  BY <1>1, <1>2, <1>3, PTL DEF ASpec

\* A settlement that broke off has taken nothing, the reserved part, or all.
THEOREM SettlementInOrder ==
  ASSUME OneAtATime
  PROVE  ASpec => []TakenInOrder
<1>1. AInit => SessionsInv
  BY SessionsInit
<1>2. SessionsInv /\ [ANext]_avars => SessionsInv'
  BY SessionsStep
<1>3. SessionsInv => TakenInOrder
  BY SessionSays DEF SessionsInv
<1> QED
  BY <1>1, <1>2, <1>3, PTL DEF ASpec

\* A cancelled session keeps nothing of the user's money.
THEOREM CancellationGivesBack ==
  ASSUME OneAtATime
  PROVE  ASpec => []CanceledGivesBack
<1>1. AInit => SessionsInv
  BY SessionsInit
<1>2. SessionsInv /\ [ANext]_avars => SessionsInv'
  BY SessionsStep
<1>3. SessionsInv => CanceledGivesBack
  BY SessionSays DEF SessionsInv
<1> QED
  BY <1>1, <1>2, <1>3, PTL DEF ASpec
-----------------------------------------------------------------------------
(* The abstract wallet.                                                    *)

\* It sums as Amounts does.
LEMMA SameTotal ==
  ASSUME NEW R
  PROVE  Wallets!Total(R) = Total(R)
<1>1. \A r : Wallets!Units(r) = Units(r)
  BY DEF Wallets!Units, Units
<1>2. Wallets!AllUnits(R) = AllUnits(R)
  BY <1>1 DEF Wallets!AllUnits, AllUnits
<1>3. \A S : Wallets!Cardinality(S) = Cardinality(S)
  BY DEF Wallets!Cardinality, Cardinality
<1> QED
  BY <1>2, <1>3 DEF Wallets!Total, Total

\* The funds of the user and of the application.
LEMMA InFundsSum ==
  ASSUME NEW f, f["user"] \in Nat, f["application"] \in Nat
  PROVE  Wallets!InFunds(f) = f["user"] + f["application"]
<1>1. PICK u, v : u = <<"user", [amount |-> f["user"]]>>
                  /\ v = <<"application", [amount |-> f["application"]]>>
  OBVIOUS
<1>2. u # v /\ u[2].amount = f["user"] /\ v[2].amount = f["application"]
  BY <1>1
<1>3. {<<a, [amount |-> f[a]]>> : a \in {"user", "application"}} = {u} \cup {v}
  BY <1>1
<1>4. Total({u}) = f["user"] /\ Total({v}) = f["application"]
  BY <1>2, TotalOne
<1>5. AmountRows({u}) /\ AmountRows({v}) /\ {u} \cap {v} = {}
  <2>1. u[2].amount \in Int /\ v[2].amount \in Int
    BY <1>2
  <2>2. IsFiniteSet({u}) /\ IsFiniteSet({v})
    BY FS_Singleton
  <2>3. {u} \cap {v} = {}
    BY <1>2
  <2> QED
    BY <2>1, <2>2, <2>3 DEF AmountRows
<1>6. Total({u} \cup {v}) = Total({u}) + Total({v})
  BY <1>5, TotalUnion
<1> QED
  BY <1>3, <1>4, <1>6, SameTotal DEF Wallets!InFunds

\* The money an active hold keeps.
LEMMA HeldByHold ==
  ASSUME FundsInv, hold.status = "active"
  PROVE  /\ HeldMoney["checkout"] # None
         /\ HeldMoney["checkout"].account = "user"
         /\ HeldMoney["checkout"].amount = hold.amount
         /\ hold.amount \in Nat /\ hold.amount > 0
         /\ Wallets!HeldBy({"checkout"}) = hold.amount
         /\ Wallets!HeldBy({}) = 0
<1>1. hold.amount \in Nat /\ hold.amount > 0
  BY CheckoutAssumption DEF FundsInv, TypeOK, Funded
<1>2. PICK H : H = [account |-> "user", amount |-> hold.amount]
  OBVIOUS
<1>3. HeldMoney["checkout"] = H /\ H.account = "user" /\ H.amount = hold.amount
  BY <1>2 DEF HeldMoney
<1>4. H # None
  BY <1>1, <1>2, CheckoutAssumption
<1>5. PICK r : r = <<"checkout", H>>
  OBVIOUS
<1>6. r[2].amount = hold.amount
  BY <1>3, <1>5
<1>7. {<<h, HeldMoney[h]>> : h \in {x \in {"checkout"} : HeldMoney[x] # None}} = {r}
  BY <1>3, <1>4, <1>5
<1>8. Total({r}) = hold.amount
  BY <1>1, <1>6, TotalOne
<1>9. Wallets!HeldBy({"checkout"}) = hold.amount
  BY <1>7, <1>8, SameTotal DEF Wallets!HeldBy
<1>10. Wallets!HeldBy({}) = 0
  <2>1. {<<h, HeldMoney[h]>> : h \in {x \in {} : HeldMoney[x] # None}} = {}
    OBVIOUS
  <2> QED
    BY <2>1, SameTotal, TotalEmpty DEF Wallets!HeldBy
<1> QED
  BY <1>1, <1>3, <1>4, <1>9, <1>10

\* Free funds in numbers.
LEMMA FreeNumbers ==
  ASSUME FundsInv
  PROVE  /\ FreeFunds["user"] = Available /\ FreeFunds["application"] = received
         /\ Available \in Nat /\ received \in Nat /\ balance \in Nat
         /\ Reserved \in Nat /\ Available = balance - Reserved
         /\ Wallets!InFunds(FreeFunds) = Available + received
<1>1. /\ FreeFunds["user"] = Available /\ FreeFunds["application"] = received
      /\ received \in Nat /\ balance \in Nat /\ Reserved \in Nat
      /\ Available = balance - Reserved
  BY CheckoutAssumption DEF FreeFunds, FundsInv, TypeOK, Reserved, Available
<1>2. Available \in Nat
  BY <1>1 DEF FundsInv, Funded
<1> QED
  BY <1>1, <1>2, InFundsSum

LEMMA FreeNatural ==
  ASSUME FundsInv
  PROVE  \A a \in {"user", "application"} : FreeFunds[a] \in Nat
BY FreeNumbers

LEMMA WalletNeverNegative ==
  ASSUME FundsInv'
  PROVE  Wallets!NeverNegative
<1>1. \A a \in {"user", "application"} : FreeFunds'[a] \in Nat
  <2>1. /\ FreeFunds'["user"] = Available' /\ FreeFunds'["application"] = received'
    BY DEF FreeFunds
  <2>2. Available' \in Nat /\ received' \in Nat
    <3>1. received' \in Nat /\ balance' \in Nat /\ Reserved' \in Nat
      BY CheckoutAssumption DEF FundsInv, TypeOK, Reserved
    <3>2. Available' \in Int
      BY <3>1 DEF Available
    <3> QED
      BY <3>1, <3>2 DEF FundsInv, Funded
  <2> QED
    BY <2>1, <2>2
<1> QED
  BY <1>1 DEF Wallets!NeverNegative

\* Numbers after a step.
LEMMA FreeNumbersNext ==
  ASSUME FundsInv'
  PROVE  /\ FreeFunds'["user"] = Available' /\ FreeFunds'["application"] = received'
         /\ Available' \in Nat /\ received' \in Nat /\ balance' \in Nat
         /\ Available' = balance' - Reserved'
         /\ Wallets!InFunds(FreeFunds') = Available' + received'
<1>1. /\ FreeFunds'["user"] = Available' /\ FreeFunds'["application"] = received'
      /\ received' \in Nat /\ balance' \in Nat /\ Reserved' \in Nat
      /\ Available' = balance' - Reserved'
  BY CheckoutAssumption DEF FreeFunds, FundsInv, TypeOK, Reserved, Available
<1>2. Available' \in Int
  BY <1>1
<1>3. Available' \in Nat
  BY <1>2 DEF FundsInv, Funded
<1> QED
  BY <1>1, <1>3, InFundsSum

\* A step that leaves the accounts and the hold alone is none of the wallet.
LEMMA WalletStays ==
  ASSUME UNCHANGED <<balance, received, hold>>
  PROVE  UNCHANGED Wallets!vars
BY DEF Wallets!vars, FreeFunds, HeldMoney, Available, Reserved

\* Money that is free moves between the accounts, enters or leaves.
LEMMA WalletMoves ==
  ASSUME FundsInv, FundsInv', hold' = hold
  PROVE  Wallets!Next
<1>1. PICK m, b, c, r, s : /\ m = Reserved /\ b = balance /\ c = balance'
                           /\ r = received /\ s = received'
  OBVIOUS
<1>2. Reserved' = m
  BY <1>1 DEF Reserved
<1>3. Available = b - m /\ Available' = c - m
  BY <1>1, <1>2, FreeNumbers, FreeNumbersNext
<1>4. b \in Nat /\ c \in Nat /\ r \in Nat /\ s \in Nat /\ m \in Nat
  BY <1>1, FreeNumbers, FreeNumbersNext
<1>5. Wallets!InFunds(FreeFunds') = (c - m) + s /\ Wallets!InFunds(FreeFunds) = (b - m) + r
  BY <1>1, <1>3, FreeNumbers, FreeNumbersNext
<1>6. (c - m) + s = ((b - m) + r) + (c + s) - (b + r)
  BY <1>4
<1>7. HeldMoney' = HeldMoney
  BY DEF HeldMoney
<1>8. Wallets!Move
  BY <1>1, <1>5, <1>6, <1>7 DEF Wallets!Move
<1> QED
  BY <1>8, WalletNeverNegative DEF Wallets!Next

\* The hold is created: its money is set aside.
LEMMA WalletSetsAside ==
  ASSUME FundsInv, FundsInv', UNCHANGED <<balance, received>>,
         hold.status = "none", hold'.status = "active"
  PROVE  Wallets!Next
<1>1. hold'.amount \in Nat /\ hold'.amount > 0
  BY CheckoutAssumption DEF FundsInv, TypeOK, Funded
<1>2. PICK H : H = [account |-> "user", amount |-> hold'.amount]
  OBVIOUS
<1>3. H.account = "user" /\ H.amount = hold'.amount
  BY <1>2
<1>4. H # None
  BY <1>1, <1>2, CheckoutAssumption
<1>5. HeldMoney' = [HeldMoney EXCEPT !["checkout"] = H] /\ HeldMoney'["checkout"] = H
  BY <1>2 DEF HeldMoney
<1>6. HeldMoney["checkout"] = None
  BY DEF HeldMoney
<1>7. FreeFunds' = [FreeFunds EXCEPT ![H.account] = @ - H.amount]
  <2>1. Reserved = 0 /\ Reserved' = hold'.amount
    BY DEF Reserved
  <2>2. Available' = Available - hold'.amount
    BY <1>1, <2>1, FreeNumbers, FreeNumbersNext
  <2> QED
    BY <1>3, <2>2 DEF FreeFunds
<1>8. (balance + received)' = balance + received
  OBVIOUS
<1>9. Wallets!SetAside("checkout")
  BY <1>1, <1>3, <1>4, <1>5, <1>6, <1>7, <1>8 DEF Wallets!SetAside
<1> QED
  BY <1>9, WalletNeverNegative DEF Wallets!Next

\* The hold ends unspent: its money comes back, whole.
LEMMA WalletGivesBack ==
  ASSUME FundsInv, FundsInv', UNCHANGED <<balance, received>>,
         hold.status = "active", hold'.status \in {"released", "expired"}
  PROVE  Wallets!Next
<1>1. /\ HeldMoney["checkout"] # None /\ HeldMoney["checkout"].account = "user"
      /\ hold.amount \in Nat
      /\ Wallets!HeldBy({"checkout"}) = hold.amount /\ Wallets!HeldBy({}) = 0
  BY HeldByHold
<1>2. HeldMoney' = [h \in {"checkout"} |-> IF h \in {"checkout"} THEN None ELSE HeldMoney[h]]
  BY DEF HeldMoney
<1>3. Available' = Available + hold.amount
  <2>1. Reserved = hold.amount /\ Reserved' = 0
    BY DEF Reserved
  <2> QED
    BY <1>1, <2>1, FreeNumbers, FreeNumbersNext
<1>4. FreeFunds' = [a \in {"user", "application"} |->
                      FreeFunds[a]
                        + Wallets!HeldBy({h \in {"checkout"} : HeldMoney[h].account = a})]
  <2>1. {h \in {"checkout"} : HeldMoney[h].account = "user"} = {"checkout"}
    BY <1>1
  <2>2. {h \in {"checkout"} : HeldMoney[h].account = "application"} = {}
    BY <1>1
  <2>3. FreeFunds'["user"]
          = FreeFunds["user"]
              + Wallets!HeldBy({h \in {"checkout"} : HeldMoney[h].account = "user"})
    BY <1>1, <1>3, <2>1, FreeNumbers, FreeNumbersNext
  <2>4. FreeFunds'["application"]
          = FreeFunds["application"]
              + Wallets!HeldBy({h \in {"checkout"} : HeldMoney[h].account = "application"})
    <3>1. FreeFunds'["application"] = received /\ FreeFunds["application"] = received
          /\ received \in Nat
      BY FreeNumbers, FreeNumbersNext
    <3>2. Wallets!HeldBy({h \in {"checkout"} : HeldMoney[h].account = "application"}) = 0
      BY <1>1, <2>2
    <3> QED
      BY <3>1, <3>2
  <2>5. FreeFunds' = [a \in {"user", "application"} |-> FreeFunds'[a]]
    BY DEF FreeFunds
  <2> QED
    BY <2>3, <2>4, <2>5
<1>5. (balance + received)' = balance + received
  OBVIOUS
<1>6. Wallets!GiveBack({"checkout"})
  BY <1>1, <1>2, <1>4, <1>5 DEF Wallets!GiveBack
<1> QED
  BY <1>6, WalletNeverNegative DEF Wallets!Next

\* The hold is consumed: its money goes to the application.
LEMMA WalletSpends ==
  ASSUME FundsInv, FundsInv', Consumes
  PROVE  Wallets!Next
<1>1. /\ HeldMoney["checkout"] # None /\ HeldMoney["checkout"].account = "user"
      /\ hold.amount \in Nat /\ Wallets!HeldBy({"checkout"}) = hold.amount
  BY HeldByHold DEF Consumes
<1>2. HeldMoney' = [HeldMoney EXCEPT !["checkout"] = None]
  BY DEF HeldMoney, Consumes
<1>3. Reserved = hold.amount /\ Reserved' = 0
  BY DEF Reserved, Consumes
<1>4. PICK n, b, r : n = hold.amount /\ b = balance /\ r = received
  OBVIOUS
<1>5. balance' = b - n /\ received' = r + n
  BY <1>4 DEF Consumes
<1>6. Available = b - n /\ Available' = (b - n) - 0
  BY <1>3, <1>4, <1>5, FreeNumbers, FreeNumbersNext
<1>7. n \in Nat /\ b \in Nat /\ r \in Nat
  BY <1>1, <1>4, FreeNumbers
<1>8. Wallets!InFunds(FreeFunds') = (b - n) + (r + n) /\ Wallets!InFunds(FreeFunds) = (b - n) + r
  BY <1>4, <1>5, <1>6, <1>7, FreeNumbers, FreeNumbersNext
<1>9. (b - n) + (r + n) = ((b - n) + r) + n + ((b - n) + (r + n)) - (b + r)
  BY <1>7
<1>10. FreeFunds'["user"] >= FreeFunds["user"]
  BY <1>6, <1>7, FreeNumbers, FreeNumbersNext
<1>11. Wallets!Spend("checkout")
  BY <1>1, <1>2, <1>4, <1>5, <1>8, <1>9, <1>10 DEF Wallets!Spend
<1> QED
  BY <1>11, WalletNeverNegative DEF Wallets!Next

\* What a request makes the ledger do.
LEMMA WalletStep ==
  ASSUME FundsInv, FundsInv', NEW t \in Tasks, Requests(t)
  PROVE  Wallets!Next \/ UNCHANGED Wallets!vars
<1> USE DEF ledgerVars
<1>1. CASE UNCHANGED ledgerVars
  BY <1>1, WalletStays
<1>2. CASE Reserve(t)
  <2>1. UNCHANGED <<balance, received>>
    BY <1>2 DEF Reserve
  <2>2. /\ hold.status = "none" => hold'.status = "active"
        /\ hold.status # "none" => hold' = hold
    BY <1>2, ReserveTurns
  <2> QED
    BY <2>1, <2>2, WalletStays, WalletSetsAside
<1>3. CASE InspectHold(t) \/ Release(t)
  <2>1. /\ UNCHANGED <<balance, received>>
        /\ \/ hold' = hold
           \/ /\ hold.status = "active"
              /\ \E s \in {"released", "expired"} :
                    hold' = [status |-> s, amount |-> hold.amount]
    BY <1>3, CancelTurns
  <2>2. \/ hold' = hold
        \/ hold.status = "active" /\ hold'.status \in {"released", "expired"}
    BY <2>1
  <2> QED
    BY <2>1, <2>2, WalletStays, WalletGivesBack
<1>4. CASE CreateInternal(t) \/ CreateExternal(t) \/ \E n \in 1 .. Amount : CreatePrize(t, n)
  <2>1. UNCHANGED <<balance, received, hold>>
    BY <1>4 DEF CreateInternal, CreateExternal, CreatePrize
  <2> QED
    BY <2>1, WalletStays
<1>5. CASE Consume(t)
  <2>1. \/ Consumes
        \/ UNCHANGED ledgerVars
        \/ /\ UNCHANGED <<balance, received, txn>>
           /\ hold.status = "active" /\ hold'.status = "expired"
    BY <1>5, ConsumeTurns
  <2> QED
    BY <1>1, <2>1, WalletSpends, WalletGivesBack
<1>6. CASE PostExternal(t)
  <2>1. hold' = hold
    BY <1>6, PostTurns DEF Moves
  <2> QED
    BY <2>1, WalletMoves
<1>7. CASE PostPrize(t)
  BY <1>7, WalletMoves DEF PostPrize
<1>8. \/ UNCHANGED ledgerVars
      \/ Reserve(t) \/ InspectHold(t) \/ Release(t) \/ CreateInternal(t) \/ CreateExternal(t)
      \/ \E n \in 1 .. Amount : CreatePrize(t, n)
      \/ Consume(t) \/ PostExternal(t) \/ PostPrize(t)
  BY DEF Requests, PrepareStep, CancelStep, SettleStep, PrizeStep, LookUpOrder, Insert,
         Look, Load, LoadPrize, Plan, AskInvoice, CheckFunds, Commit, Fail, PageGoesOn
<1> QED
  BY <1>1, <1>2, <1>3, <1>4, <1>5, <1>6, <1>7, <1>8

\* What happens to the ledger otherwise.
LEMMA WalletSurroundings ==
  ASSUME FundsInv, FundsInv', Surroundings
  PROVE  Wallets!Next \/ UNCHANGED Wallets!vars
<1>1. CASE BalanceChanges
  BY <1>1, WalletMoves DEF BalanceChanges
<1>2. CASE TimePasses
  BY <1>2, WalletStays DEF TimePasses, ledgerVars
<1>3. CASE WorkerExpires
  <2>1. /\ UNCHANGED <<balance, received>> /\ hold.status = "active"
        /\ hold' = [hold EXCEPT !.status = "expired"]
    BY <1>3 DEF WorkerExpires, ExpireHold
  <2>2. hold'.status = "expired"
    BY <2>1 DEF FundsInv, TypeOK
  <2> QED
    BY <2>1, <2>2, WalletGivesBack
<1> QED
  BY <1>1, <1>2, <1>3 DEF Surroundings

LEMMA FundsNext ==
  ASSUME FundsInv, [Next]_vars
  PROVE  FundsInv' /\ [Wallets!Next]_(Wallets!vars)
<1>1. (\E t \in Tasks : Requests(t)) \/ Surroundings \/ UNCHANGED vars
  BY SpecSteps
<1>2. FundsInv'
  BY <1>1, FundsStep, FundsSurroundings, FundsStutter
<1>3. Wallets!Next \/ UNCHANGED Wallets!vars
  BY <1>1, <1>2, WalletStep, WalletSurroundings, WalletStays DEF vars
<1> QED
  BY <1>2, <1>3

\* However many requests prepare, cancel, settle and pay prizes at the same
\* time, and wherever they break off: each step of theirs moves money in the
\* ledger as the abstract wallet does, set aside once, spent or given back
\* whole, and never lost.
THEOREM SessionWithinWallet == Spec => StaysWithinWallet
<1>1. Init => FundsInv
  BY FundsInit
<1>2. FundsInv /\ [Next]_vars => FundsInv'
  BY FundsNext
<1>3. FundsInv /\ [Next]_vars => [Wallets!Next]_(Wallets!vars)
  BY FundsNext
<1>4. Spec => [][Wallets!Next]_(Wallets!vars)
  BY <1>1, <1>2, <1>3, PTL DEF Spec
<1> QED
  BY <1>4 DEF StaysWithinWallet
=============================================================================
