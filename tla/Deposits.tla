------------------------------ MODULE Deposits ------------------------------
(***************************************************************************)
(* The deposits of one user from end to end.  A page of the hub looks up    *)
(* the user's ledger account, and has the ledger create one the first time; *)
(* its panel asks the PLS for an invoice; InvoiceReconciliation learns that *)
(* it was paid; and the ledger's consumer credits an account of the owner   *)
(* the event names.  The hub and the consumer never compare accounts: the   *)
(* hub's row is UNIQUE for its user, an owner's accounts are not.           *)
(***************************************************************************)
EXTENDS InvoiceReconciliation

CONSTANT Accounts  \* ids for ledger accounts of the user

ASSUME DepositsAssumption == IsFiniteSet(Accounts) /\ None \notin Accounts

VARIABLES
  accounts,  \* the user's accounts in the ledger
  visiting,  \* those a visit has had created and not yet told the hub of
  mapped,    \* account in the hub's user_ledger_accounts row
  asked,     \* invoices: asked for, and did the hub know an account then
  queue,     \* payment.invoice.paid messages the ledger has not handled
  failed,    \* those whose handling raised although there was an account
  credit     \* accounts credited for an invoice

accountVars == <<accounts, visiting, mapped>>
depositVars == <<accountVars, asked, queue, failed, credit>>
dvars == <<vars, depositVars>>

DInit ==
  /\ Init
  /\ accounts = {} /\ visiting = {} /\ mapped = None
  /\ asked = [i \in Incoming |-> "no"]
  /\ queue = {} /\ failed = {}
  /\ credit = [i \in Invoices |-> {}]

-----------------------------------------------------------------------------
(* The hub's page and the user's account.                                  *)

\* A visit finds no account and has the ledger create one.  The ledger creates
\* whatever it is asked for, under a new id: an owner may have many.
CreateAccount ==
  /\ mapped = None /\ accounts # Accounts
  /\ LET a == CHOOSE a \in Accounts : a \notin accounts
     IN  accounts' = accounts \cup {a} /\ visiting' = visiting \cup {a}
  /\ UNCHANGED <<vars, mapped, asked, queue, failed, credit>>

\* user_sub is UNIQUE: of two visits that had an account created, one fails.
MapAccount(a) ==
  /\ a \in visiting /\ visiting' = visiting \ {a}
  /\ mapped' = IF mapped = None THEN a ELSE mapped
  /\ UNCHANGED <<vars, accounts, asked, queue, failed, credit>>

\* The ledger's answer is lost.
VisitFails(a) ==
  /\ a \in visiting /\ visiting' = visiting \ {a}
  /\ UNCHANGED <<vars, accounts, mapped, asked, queue, failed, credit>>

\* The panel is there whether the account is or not: an error of the ledger
\* leaves the page open without it.
RequestDeposit(i) ==
  /\ asked[i] = "no"
  /\ asked' = [asked EXCEPT ![i] = IF mapped = None THEN "unmapped" ELSE "mapped"]
  /\ UNCHANGED <<vars, accountVars, queue, failed, credit>>

\* The PLS and the provider deal with what the hub has asked for: an invoice of
\* a deposit, or a payment to a user who has funds, which deposits are here.
Requested(i) ==
  IF i \in Incoming THEN asked[i] # "no" ELSE \E j \in Incoming : credit[j] # {}

-----------------------------------------------------------------------------
(* The ledger's consumer.                                                  *)

\* Every publication of an event is a message, also one that repeats another.
PublishedBy(w) ==
  IF sweep[w] # None /\ sweep'[w] # None THEN sweep'[w].done \ sweep[w].done ELSE {}

Sweeps(w) ==
  /\ SweepOutbox(w)
  /\ queue' = queue \cup PublishedBy(w)
  /\ UNCHANGED <<accountVars, asked, failed, credit>>

\* An invoice that has been credited is a duplicate.  Any account of the owner
\* is credited; if there is none, the handler raises, and the message is gone.
ApplyInvoicePaid(r) ==
  /\ r \in queue /\ queue' = queue \ {r}
  /\ \/ /\ credit[r[1]] = {}
        /\ \E a \in accounts : credit' = [credit EXCEPT ![r[1]] = {a}]
     \/ credit[r[1]] # {} /\ UNCHANGED credit
     \/ accounts = {} /\ UNCHANGED credit
  /\ UNCHANGED <<vars, accountVars, asked, failed>>

\* The database refuses or is gone: the handler raises, and the message is
\* rejected like any other.
HandlingFails(r) ==
  /\ Fault
  /\ r \in queue /\ queue' = queue \ {r}
  /\ failed' = failed \cup {r}
  /\ UNCHANGED <<outboxVars, invoice, settled, notices, at, todo, found,
                 accountVars, asked, credit>>

-----------------------------------------------------------------------------
DepositJobStep ==
  \/ /\ JobBegins \/ JobCommits \/ JobAbandons \/ \E i \in Invoices : JobLooksUp(i)
     /\ UNCHANGED depositVars
  \/ Sweeps("job")

Consumes == \E r \in queue : ApplyInvoicePaid(r)

DNext ==
  \/ CreateAccount
  \/ \E a \in Accounts : MapAccount(a) \/ VisitFails(a)
  \/ \E i \in Incoming : RequestDeposit(i)
  \/ \E i \in Invoices :
       /\ Requested(i)
       /\ \/ \E status \in {"pending", "paid"} : StoreInvoice(i, status)
          \/ ProviderSettles(i) \/ ProviderReports(i)
       /\ UNCHANGED depositVars
  \/ (\E notice \in notices : BridgeHandles(notice)) /\ UNCHANGED depositVars
  \/ Sweeps("bridge")
  \/ DepositJobStep
  \/ Consumes
  \/ \E r \in queue : HandlingFails(r)
  \/ (BridgeEnds \/ Crash) /\ UNCHANGED depositVars

DSpec == DInit /\ [][DNext]_dvars

\* The job loops for ever and survives every exception, the bridge ends the
\* sweep it has begun, and the consumer takes what is on its queue.  Nothing is
\* assumed of notices, of the user or of the hub.
FairDSpec ==
  /\ DSpec
  /\ WF_dvars(DepositJobStep) /\ WF_dvars(Sweeps("bridge"))
  /\ WF_dvars(Consumes)

-----------------------------------------------------------------------------
(* Properties.                                                             *)

DTypeOK ==
  /\ TypeOK
  /\ accounts \subseteq Accounts /\ visiting \subseteq accounts
  /\ mapped \in Accounts \cup {None}
  /\ asked \in [Incoming -> {"no", "unmapped", "mapped"}]
  /\ queue \subseteq Rows /\ failed \subseteq Rows
  /\ credit \in [Invoices -> SUBSET Accounts]

\* The ledger credits an invoice only when the provider has seen it settled,
\* and once, to one account: although bridge and job may both announce it,
\* sweeps publish it again and the owner may have several accounts.
CreditedWasPaid ==
  \A i \in Invoices : credit[i] # {} => i \in settled /\ Cardinality(credit[i]) = 1

\* The money of a deposit that was asked for with an account known is credited
\* in the end, whatever notices, lookups and publications are lost; unless the
\* ledger failed to handle its message, which is then gone, or a crash has left
\* its event in the outbox and nothing sweeps that again.
Resting(i) == \E n \in {1, 2} : outbox[<<i, n>>] = "pending"
Failed(i) == \E n \in {1, 2} : <<i, n>> \in failed
DepositIsCredited ==
  \A i \in Incoming :
    \/ <>[]Resting(i)
    \/ i \in settled /\ asked[i] = "mapped" ~> credit[i] # {} \/ Failed(i)

\* A deposit is credited to the account whose balance the hub shows, the one
\* account of the user (contract: README.md, one balance account per user).
CreditIsShown ==
  \A i \in Incoming : mapped # None => credit[i] \subseteq {mapped}
=============================================================================
