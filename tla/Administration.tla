--------------------------- MODULE Administration ---------------------------
(***************************************************************************)
(* A checkout session with those who administer the hub around it.  They    *)
(* register the application that sells, disable and enable it and replace   *)
(* its key, and they move and reserve the user's balance on their own.      *)
(* Requests of the application's server carry the key; the user's browser   *)
(* prepares and settles over the API, or through the checkout page, which   *)
(* does both in one request.  A request looks at the application once, when *)
(* it begins: the page's settlement finds the row its preparation has read  *)
(* in the session's identity map.                                          *)
(***************************************************************************)
EXTENDS Checkout

VARIABLES
  application,  \* the connected_applications row, and the key its server has
  page,         \* requests of the checkout page that prepare, then settle
  kept,         \* what a hold of an administrator keeps of the user's funds
  underway      \* while it is disabled: requests that had begun before

adminVars == <<application, page, kept, underway>>
avars == <<vars, adminVars>>

Unregistered == [exists |-> FALSE, active |-> FALSE, key |-> FALSE]

AInit ==
  /\ Init
  /\ application = Unregistered
  /\ page = {} /\ kept = 0 /\ underway = {}

-----------------------------------------------------------------------------
(* The application.                                                        *)

\* The destination account exists and the identifier is new; the key is shown
\* once and given to the application's server.
CreateApplication ==
  /\ ~application.exists
  /\ application' = [exists |-> TRUE, active |-> TRUE, key |-> TRUE]
  /\ UNCHANGED <<vars, page, kept, underway>>

\* The key the server has is invalid until it is given the new one.
IssueKey == application' = [application EXCEPT !.key = FALSE]

ChangeApplication ==
  /\ application.exists
  /\ \/ IssueKey /\ UNCHANGED underway
     \/ application' = [application EXCEPT !.active = TRUE] /\ underway' = {}
     \/ /\ application.active
        /\ application' = [application EXCEPT !.active = FALSE]
        /\ underway' = {t \in Tasks : Busy(t)}
  /\ UNCHANGED <<vars, page, kept>>

ServerGetsKey ==
  /\ application.exists
  /\ application' = [application EXCEPT !.key = TRUE]
  /\ UNCHANGED <<vars, page, kept, underway>>

RequireApplication == application.exists /\ application.key /\ application.active

\* Mutant: the row is found, and that is all that is asked for.
Registered == application.exists

ApplicationActive == application.exists /\ application.active

-----------------------------------------------------------------------------
(* Requests: who may begin one, and how the page's goes on.                *)

Begins(t) ==
  \/ /\ RequireApplication
     /\ \/ LookUpOrder(t) \/ LoadPrize(t) \/ Look(t)
        \/ Load(t, "cancel", "inspect")
  \/ /\ ApplicationActive
     /\ Load(t, "prepare", "plan") \/ Load(t, "settle", "check")

\* The page's button asks for no application.
PageCancels(t) == Load(t, "cancel", "inspect")

\* A session that is due is only marked, before the application is looked at.
PagePrepares(t) ==
  /\ ~due /\ ApplicationActive
  /\ Load(t, "prepare", "plan") /\ page' = page \cup {t}

PageConfirms(t) == row.status = "created" /\ PagePrepares(t)

\* Every three seconds, while the session waits for the payment.
PageWatches(t) ==
  \/ row.status # "created" /\ PagePrepares(t)
  \/ Look(t) /\ page' = page

\* The prepared row is read again and settled in the same request.  The status
\* of the application is looked at once more if its row has left the session's
\* memory by then: a settlement that is refused, for this or another reason,
\* leaves the session as prepared (Fail).
PageGoesOn(t) ==
  /\ Busy(t) /\ task[t].at = "commit"
  /\ row' = Written(t)
  /\ task' = [task EXCEPT ![t] =
       [op |-> "settle", loaded |-> row',
        mine |-> IF due THEN [row' EXCEPT !.status = "expired"] ELSE row',
        at |-> IF due THEN "commit" ELSE "check"]]
  /\ UNCHANGED <<due, ledgerVars>>
SettlesAfterwards(t) ==
  t \in page /\ task[t].op = "prepare" /\ Written(t).status \in {"reserved", "awaiting"}

RequestStep(t) ==
  /\ \/ Insert(t)
     \/ \E useBalance \in BOOLEAN : Plan(t, useBalance)
     \/ Reserve(t) \/ AskInvoice(t)
     \/ InspectHold(t) \/ Release(t)
     \/ CheckFunds(t) \/ CreateInternal(t) \/ Consume(t)
     \/ CreateExternal(t) \/ PostExternal(t)
     \/ PostPrize(t) \/ \E n \in 1 .. Amount : CreatePrize(t, n)
     \/ Fail(t)
     \/ SettlesAfterwards(t) /\ PageGoesOn(t)
     \/ ~SettlesAfterwards(t) /\ Commit(t)
  /\ page' = {u \in page : task'[u] # None}
  /\ underway' = {u \in underway : task'[u] # None}
  /\ UNCHANGED <<application, kept>>

-----------------------------------------------------------------------------
(* The administrators' operations on the user's balance: each has keys of   *)
(* its own, so one that is repeated is another one.  Of the two calls a     *)
(* credit or a debit makes, the second moves the money.                     *)

AdjustAccountBalance(n) ==
  /\ n # 0 /\ Available + n >= 0
  /\ balance + n <= MaxBalance
  /\ balance' = balance + n
  /\ UNCHANGED <<row, due, task, received, hold, txn, adminVars>>

\* One hold of an administrator at a time.
ReserveAccountBalance(n) ==
  /\ kept = 0 /\ n > 0 /\ n <= Available
  /\ kept' = n /\ balance' = balance - n
  /\ UNCHANGED <<row, due, task, received, hold, txn, application, page, underway>>
AdminHoldEnds ==
  /\ kept > 0
  /\ kept' = 0 /\ balance' = balance + kept
  /\ UNCHANGED <<row, due, task, received, hold, txn, application, page, underway>>

AdminOperates ==
  \/ \E n \in -Amount .. Amount : AdjustAccountBalance(n)
  \/ \E n \in 1 .. Amount : ReserveAccountBalance(n)

-----------------------------------------------------------------------------
ANext ==
  \/ CreateApplication \/ ChangeApplication \/ ServerGetsKey
  \/ \E t \in Tasks :
       \/ (Begins(t) \/ PageCancels(t)) /\ UNCHANGED adminVars
       \/ /\ PageConfirms(t) \/ PageWatches(t)
          /\ UNCHANGED <<application, kept, underway>>
       \/ RequestStep(t)
  \/ AdminOperates \/ AdminHoldEnds
  \/ (Deposit \/ SpendElsewhere \/ TimePasses \/ WorkerExpires) /\ UNCHANGED adminVars

ASpec == AInit /\ [][ANext]_avars

-----------------------------------------------------------------------------
(* Properties.                                                             *)

ATypeOK ==
  /\ TypeOK
  /\ application \in [exists: BOOLEAN, active: BOOLEAN, key: BOOLEAN]
  /\ page \subseteq Tasks /\ underway \subseteq Tasks
  /\ kept \in Nat

\* A disabled application gets nothing new: until it is enabled again, nothing
\* is sold, reserved, invoiced or paid for it but by requests that had begun
\* when it was disabled (contract: docs/application-integration.md, disabling
\* blocks the application's access and the preparation and settlement of its
\* pending charges).
GetsNothing ==
  /\ received' = received
  /\ row'.status # row.status => row'.status \in {"canceled", "expired"}
  /\ row'.invoice = row.invoice
  /\ hold'.status = "active" => hold.status = "active"
DisabledGetsNothingNew ==
  [][~application.active /\ ~application'.active =>
       GetsNothing \/ \E t \in underway : task'[t] # task[t]]_avars
=============================================================================
