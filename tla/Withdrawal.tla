----------------------------- MODULE Withdrawal -----------------------------
(***************************************************************************)
(* Withdrawals of one user, across the three services.  A withdrawal holds  *)
(* its amount in the ledger, asks the PLS to pay over RabbitMQ and waits    *)
(* for a reply that may come late or never; the ledger takes the held money *)
(* when payment.sent arrives and gives it back when the hold's deadline     *)
(* passes first.                                                            *)
(*                                                                         *)
(* The PLS and the ledger act here as PaymentCommands and Ledger allow      *)
(* them to, one step per committed transaction.                             *)
(***************************************************************************)
EXTENDS Amounts

CONSTANTS
  Withdrawals,  \* each has a payment reference and a correlation id of its own
  Amount,       \* what each of them asks for
  Funds,        \* what the user has at first
  Verdicts,     \* what the provider may say of each payment it accepts
  MaxCrashes,   \* bound on crashes of the hub and the PLS
  None          \* no held funds

ASSUME WithdrawalAssumption ==
  /\ IsFiniteSet(Withdrawals)
  /\ Amount \in [Withdrawals -> Nat \ {0}]
  /\ Funds \in Nat /\ MaxCrashes \in Nat
  /\ Verdicts \in [Withdrawals -> SUBSET {"pending", "made"}]
  /\ None \notin [account: {"user"}, amount: Nat]  \* SQL NULL is not a row

VARIABLES
  at,       \* where each withdrawal is in the hub; ended without an answer
  table,    \* pending_responses: those a reply is delivered to
  stale,    \* entries of the table older than its time to live
  box,      \* those whose queue holds their answer
  free,     \* the user's available balance
  hold,     \* the hold of every withdrawal
  due,      \* holds whose deadline has passed
  cmd,      \* the command of every withdrawal, in the PLS
  payment,  \* what has become of its payment at the provider
  event,    \* its payment.sent event
  replies,  \* messages on payment.response
  crashes

hubVars == <<at, table, stale, box>>
ledgerVars == <<free, hold, due>>
plsVars == <<cmd, payment, event, replies>>
vars == <<hubVars, ledgerVars, plsVars, crashes>>

Init ==
  /\ at = [w \in Withdrawals |-> "start"]
  /\ table = {} /\ stale = {} /\ box = {}
  /\ free = Funds
  /\ hold = [w \in Withdrawals |-> "none"] /\ due = {}
  /\ cmd = [w \in Withdrawals |-> "none"]
  /\ payment = [w \in Withdrawals |-> "none"]
  /\ event = [w \in Withdrawals |-> "none"]
  /\ replies = {}
  /\ crashes = 0

Goto(w, place) == at' = [at EXCEPT ![w] = place]
Become(w, status) == cmd' = [cmd EXCEPT ![w] = status]

-----------------------------------------------------------------------------
(* The hub: balance and hold.                                              *)

\* Mutant: the ledger trusts the hub's check.
FundedBefore(w) == TRUE

Funded(w) == free >= Amount[w]

CheckBalance(w) ==
  /\ at[w] = "start" /\ free >= Amount[w]
  /\ Goto(w, "checked")
  /\ UNCHANGED <<table, stale, box, ledgerVars, plsVars, crashes>>

\* The answer of the ledger may be lost, and the hold stays.
PlaceHold(w) ==
  /\ at[w] = "checked" /\ Funded(w)
  /\ hold' = [hold EXCEPT ![w] = "active"]
  /\ free' = free - Amount[w]
  /\ \E place \in {"held", "ended"} : Goto(w, place)
  /\ UNCHANGED <<table, stale, box, due, plsVars, crashes>>

\* The balance is too low, or the ledger refuses or does not answer.
LedgerDeclines(w) ==
  /\ at[w] \in {"start", "checked"}
  /\ Goto(w, "ended")
  /\ UNCHANGED <<table, stale, box, ledgerVars, plsVars, crashes>>

-----------------------------------------------------------------------------
(* The hub: a request and its reply over RabbitMQ.                         *)

\* Mutant: the payment is asked for before the funds are held.
ReadyEarly(w) == at[w] = "checked"

Ready(w) == at[w] = "held"

\* A request first removes the entries that are too old.
Register(w) ==
  /\ Ready(w)
  /\ table' = (table \ stale) \cup {w} /\ stale' = {}
  /\ Goto(w, "publishing")
  /\ UNCHANGED <<box, ledgerVars, plsVars, crashes>>

\* The time to live counts from before the publication, which may block.
GrowsOld(w) ==
  /\ w \in table /\ stale' = stale \cup {w}
  /\ UNCHANGED <<at, table, box, ledgerVars, plsVars, crashes>>

\* The broker has the command before the publication returns, if it does.
Arrives(w) ==
  /\ at[w] = "publishing" /\ cmd[w] = "none"
  /\ Become(w, "queued")
  /\ UNCHANGED <<hubVars, ledgerVars, payment, event, replies, crashes>>

Published(w) ==
  /\ at[w] = "publishing" /\ cmd[w] # "none"
  /\ Goto(w, "waiting")
  /\ UNCHANGED <<table, stale, box, ledgerVars, plsVars, crashes>>

\* Mutant: only a reply removes the entry.
Left(w, place) == Goto(w, place) /\ box' = box \ {w} /\ UNCHANGED <<table, stale>>

\* The request ends, and with it its entry.
Leave(w, place) ==
  /\ Goto(w, place)
  /\ table' = table \ {w} /\ stale' = stale \ {w} /\ box' = box \ {w}

\* The connection broke, before or after the broker had the command.
PublishFails(w) ==
  /\ at[w] = "publishing"
  /\ Leave(w, "ended")
  /\ UNCHANGED <<ledgerVars, plsVars, crashes>>

\* Mutant: a reply goes to whoever waits.
Somebody(w) == table

\* Whom a reply is delivered to.
Addressee(w) == table \cap {w}

ConsumeResponse(w) ==
  /\ w \in replies /\ replies' = replies \ {w}
  /\ \/ \E x \in Addressee(w) :
          box' = box \cup {x} /\ table' = table \ {x} /\ stale' = stale \ {x}
     \/ Addressee(w) = {} /\ UNCHANGED <<box, table, stale>>
  /\ UNCHANGED <<at, ledgerVars, cmd, payment, event, crashes>>

TakeAnswer(w) ==
  /\ at[w] = "waiting" /\ w \in box
  /\ Leave(w, "sent")
  /\ UNCHANGED <<ledgerVars, plsVars, crashes>>

\* The hold is left to its deadline.
TimeOut(w) ==
  /\ at[w] = "waiting"
  /\ Leave(w, "ended")
  /\ UNCHANGED <<ledgerVars, plsVars, crashes>>

\* The process dies: replies to come find an empty table.
HubCrash ==
  /\ crashes < MaxCrashes /\ crashes' = crashes + 1
  /\ at' = [w \in Withdrawals |->
              IF at[w] \in {"checked", "held", "publishing", "waiting"}
              THEN "ended" ELSE at[w]]
  /\ table' = {} /\ stale' = {} /\ box' = {}
  /\ UNCHANGED <<ledgerVars, plsVars>>

-----------------------------------------------------------------------------
(* The PLS.                                                                *)

\* The provider accepts the payment, already made or still pending, unless one
\* of this invoice is; when the last answer is lost the command fails all the
\* same.
Execute(w) ==
  /\ cmd[w] = "queued" /\ payment[w] \in {"none", "failed"}
  /\ \E verdict \in Verdicts[w] :
       payment' = [payment EXCEPT ![w] = verdict]
  /\ \E status \in {"executed", "failed"} : Become(w, status)
  /\ UNCHANGED <<hubVars, ledgerVars, event, replies, crashes>>

\* A pending payment is made in the end, or fails; the PLS never asks.
Settles(w) ==
  /\ payment[w] = "pending"
  /\ \E verdict \in {"made", "failed"} :
       payment' = [payment EXCEPT ![w] = verdict]
  /\ UNCHANGED <<hubVars, ledgerVars, cmd, event, replies, crashes>>

\* A failed command has no event, and nothing the hub takes for a reply.
Refuse(w) ==
  /\ cmd[w] = "queued"
  /\ Become(w, "failed")
  /\ UNCHANGED <<hubVars, ledgerVars, payment, event, replies, crashes>>

\* The verdict goes into the invoice row, and payment.sent is stored whatever
\* it is.
Record(w) ==
  /\ cmd[w] = "executed"
  /\ Become(w, "recorded")
  /\ event' = [event EXCEPT ![w] = "stored"]
  /\ UNCHANGED <<hubVars, ledgerVars, payment, replies, crashes>>

\* Events are swept by the handler that stored them or by a later one.
PublishEvent(w) ==
  /\ event[w] = "stored"
  /\ event' = [event EXCEPT ![w] = "published"]
  /\ UNCHANGED <<hubVars, ledgerVars, cmd, payment, replies, crashes>>

\* The handler returns after its sweep, which may have failed to publish; the
\* reply may be lost as well.
Reply(w) ==
  /\ cmd[w] = "recorded"
  /\ Become(w, "done")
  /\ replies' \in {replies, replies \cup {w}}
  /\ UNCHANGED <<hubVars, ledgerVars, payment, event, crashes>>

\* Commands are delivered again: an uncommitted one starts afresh, a committed
\* one is a duplicate and gets no reply.
PLSCrash ==
  /\ crashes < MaxCrashes /\ crashes' = crashes + 1
  /\ cmd' = [w \in Withdrawals |->
               IF cmd[w] = "executed" THEN "queued"
               ELSE IF cmd[w] = "recorded" THEN "done" ELSE cmd[w]]
  /\ UNCHANGED <<hubVars, ledgerVars, payment, event, replies>>

-----------------------------------------------------------------------------
(* The ledger: payment.sent, deadlines and the expiration worker.          *)

\* Mutant: any active hold of the user will do.
HoldsOfUser(w) == {x \in Withdrawals : hold[x] = "active"}

\* Mutant: the hold's status is not asked for.
HoldsOfAnyStatus(w) == {x \in {w} : hold[x] # "none"}

\* The hold a payment.sent message refers to.
HoldsOf(w) == {x \in {w} : hold[x] = "active"}

ApplySent(w) ==
  /\ event[w] = "published"
  /\ \E x \in HoldsOf(w) : hold' = [hold EXCEPT ![x] = "consumed"]
  /\ event' = [event EXCEPT ![w] = "applied"]
  /\ UNCHANGED <<hubVars, free, due, cmd, payment, replies, crashes>>

\* No active hold: the consumer raises and the message is rejected.
RejectSent(w) ==
  /\ event[w] = "published" /\ HoldsOf(w) = {}
  /\ event' = [event EXCEPT ![w] = "rejected"]
  /\ UNCHANGED <<hubVars, ledgerVars, cmd, payment, replies, crashes>>

DeadlinePasses(w) ==
  /\ hold[w] = "active" /\ w \notin due
  /\ due' = due \cup {w}
  /\ UNCHANGED <<hubVars, free, hold, plsVars, crashes>>

\* Mutant: the deadline is compared the wrong way round.
ExpireEarly(w) ==
  /\ hold[w] = "active" /\ w \notin due
  /\ hold' = [hold EXCEPT ![w] = "expired"]
  /\ free' = free + Amount[w]
  /\ UNCHANGED <<hubVars, due, plsVars, crashes>>

Expire(w) ==
  /\ hold[w] = "active" /\ w \in due
  /\ hold' = [hold EXCEPT ![w] = "expired"]
  /\ free' = free + Amount[w]
  /\ UNCHANGED <<hubVars, due, plsVars, crashes>>

-----------------------------------------------------------------------------
HubStep(w) ==
  \/ CheckBalance(w) \/ PlaceHold(w) \/ LedgerDeclines(w)
  \/ Register(w) \/ Arrives(w) \/ Published(w) \/ PublishFails(w)
  \/ TakeAnswer(w) \/ TimeOut(w)
PLSStep(w) == Execute(w) \/ Refuse(w) \/ Record(w) \/ Reply(w)
SentStep(w) == ApplySent(w) \/ RejectSent(w)

Next ==
  \/ \E w \in Withdrawals :
       \/ HubStep(w) \/ GrowsOld(w) \/ ConsumeResponse(w)
       \/ PLSStep(w) \/ Settles(w) \/ PublishEvent(w)
       \/ SentStep(w) \/ DeadlinePasses(w) \/ Expire(w)
  \/ HubCrash \/ PLSCrash

Spec == Init /\ [][Next]_vars

\* The ledger's consumer runs for ever; a hold's deadline passes, and the worker,
\* which runs for ever, comes after it.  Nothing is assumed of hub and PLS.
FairSpec ==
  /\ Spec
  /\ \A w \in Withdrawals :
       WF_vars(SentStep(w)) /\ WF_vars(DeadlinePasses(w) \/ Expire(w))

-----------------------------------------------------------------------------
(* Properties.                                                             *)

TypeOK ==
  /\ at \in [Withdrawals -> {"start", "checked", "held", "publishing",
                             "waiting", "sent", "ended"}]
  /\ table \subseteq Withdrawals /\ stale \subseteq table
  /\ box \subseteq Withdrawals
  /\ free \in 0 .. Funds
  /\ hold \in [Withdrawals -> {"none", "active", "consumed", "expired"}]
  /\ due \subseteq Withdrawals
  /\ cmd \in [Withdrawals -> {"none", "queued", "executed", "failed", "recorded",
                              "done"}]
  /\ payment \in [Withdrawals -> {"none", "pending", "made", "failed"}]
  /\ replies \subseteq Withdrawals
  /\ event \in [Withdrawals -> {"none", "stored", "published", "applied",
                                "rejected"}]
  /\ crashes \in 0 .. MaxCrashes

Accepted(w) == payment[w] # "none"

\* A user is debited exactly for the payments whose event the ledger applied,
\* and the provider had accepted each of these: timeouts, crashes and other
\* withdrawals of the same user change nothing about it.
DebitMeansAccepted ==
  \A w \in Withdrawals :
    /\ hold[w] = "consumed" => Accepted(w)
    /\ hold[w] = "consumed" <=> event[w] = "applied"

\* What the ledger's README promises (ledger/README.md:397-400: consume the hold
\* when the payment is confirmed, release it when it fails).  The PLS announces
\* a payment as soon as it is accepted, and does not look at it again.
FailedNotDebited ==
  \A w \in Withdrawals : payment[w] = "failed" => hold[w] # "consumed"

\* No payment is asked of the provider for which no funds had been set aside.
PaidWasCovered == \A w \in Withdrawals : Accepted(w) => hold[w] # "none"

\* Who is told that the money was sent gets the answer to the withdrawal made,
\* which the provider accepted and whose event is stored by then.
AnswersAreOwn ==
  \A w \in Withdrawals : at[w] = "sent" => Accepted(w) /\ event[w] # "none"

\* Only withdrawals under way have an entry in the table, or an answer to take.
TableOfWaiting ==
  \A w \in table \cup box : at[w] \in {"publishing", "waiting"}

\* An announced payment is debited, or its hold has ended before; and no hold
\* outlives its deadline.
HoldsSettle ==
  \A w \in Withdrawals :
    /\ event[w] = "published" ~> event[w] = "applied" \/ hold[w] = "expired"
    /\ hold[w] = "active" ~> hold[w] \in {"consumed", "expired"}

\* What was spent, and what the user has in the terms of the abstract wallet.
Spent == {<<w, [amount |-> Amount[w]]>> :
            w \in {x \in Withdrawals : hold[x] = "consumed"}}
FreeFunds == [a \in {"user"} |-> free]
HeldMoney == [w \in Withdrawals |->
                IF hold[w] = "active"
                THEN [account |-> "user", amount |-> Amount[w]] ELSE None]
NetInflow == Funds - Total(Spent)
Wallets ==
  INSTANCE Wallet WITH
    Accounts <- {"user"}, Holds <- Withdrawals,
    funds <- FreeFunds, held <- HeldMoney, net <- NetInflow

\* Each step is one the abstract wallet allows: what a withdrawal sets aside is
\* spent once or comes back whole.
StaysWithinWallet == [][Wallets!Next]_Wallets!vars
=============================================================================
