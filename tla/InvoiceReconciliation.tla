----------------------- MODULE InvoiceReconciliation -----------------------
(***************************************************************************)
(* How the PLS learns that an invoice was paid: the websocket bridge, which *)
(* handles one notice after another and never sees those it missed, and the *)
(* periodic job, which asks the provider about a batch of pending invoices  *)
(* and commits all it found at the end.  Each stores a payment.invoice.paid *)
(* event with the invoice it marks, and the two do not know of each other.  *)
(***************************************************************************)
EXTENDS Outbox

CONSTANTS
  Invoices,          \* lightning_invoices rows, before and after they exist
  Incoming,          \* those users pay to the platform; it pays the others
  Age,               \* their order by created_at
  JobBatch,          \* RECONCILIATION_BATCH_SIZE
  NotifiesOutgoing,  \* TRUE: the provider's notices cover both directions
  MaxFaults          \* bound on crashes, failed lookups, batches and messages

\* The bridge announces an invoice once, and so does the job.
ASSUME ReconciliationAssumption ==
  /\ Rows = Invoices \X {1, 2} /\ Sweepers = {"bridge", "job"}
  /\ Incoming \subseteq Invoices /\ Age \in [Invoices -> Nat]
  /\ \A i, j \in Invoices : Age[i] = Age[j] => i = j
  /\ JobBatch \in Nat \ {0}
  /\ NotifiesOutgoing \in BOOLEAN /\ MaxFaults \in Nat

VARIABLES
  invoice,      \* status of every row: none, pending or paid
  settled,      \* invoices the provider has seen paid
  notices,      \* websocket messages to come: an invoice and a status
  at,           \* where the bridge and the job are
  todo, found,  \* the job's batch: still to look up, and uncommitted as paid
  faults        \* how many have happened

vars == <<outboxVars, invoice, settled, notices, at, todo, found, faults>>

Init ==
  /\ OutboxInit
  /\ invoice = [i \in Invoices |-> "none"]
  /\ settled = {} /\ notices = {}
  /\ at = [w \in Sweepers |-> "idle"]
  /\ todo = {} /\ found = {}
  /\ faults = 0

Fault == faults < MaxFaults /\ faults' = faults + 1

Goto(w, place) == at' = [at EXCEPT ![w] = place]

-----------------------------------------------------------------------------
(* The surroundings: commands that store invoices, the provider.           *)

\* An outgoing payment may be stored as pending: the provider's answer to a
\* payment need not say that it is paid.
StoreInvoice(i, status) ==
  /\ invoice[i] = "none"
  /\ i \in Incoming => status = "pending"
  /\ invoice' = [invoice EXCEPT ![i] = status]
  /\ UNCHANGED <<outboxVars, settled, notices, at, todo, found, faults>>

Notified(i) ==
  at["bridge"] # "ended" /\ (i \in Incoming \/ NotifiesOutgoing)

\* Nobody can pay an invoice before its request has left the PLS.  A notice
\* sent while the bridge is not connected is lost.
ProviderSettles(i) ==
  /\ i \notin settled
  /\ i \in Incoming => invoice[i] # "none"
  /\ settled' = settled \cup {i}
  /\ \/ Notified(i) /\ notices' = notices \cup {<<i, "success">>}
     \/ notices' = notices
  /\ UNCHANGED <<outboxVars, invoice, at, todo, found, faults>>

\* A payment that is under way, or failed, is notified as well.
ProviderReports(i) ==
  /\ i \notin settled /\ Notified(i)
  /\ notices' = notices \cup {<<i, "other">>}
  /\ UNCHANGED <<outboxVars, invoice, settled, at, todo, found, faults>>

-----------------------------------------------------------------------------
(* Marking invoices as paid, with the event that says so.                  *)

Unannounced(i) == {n \in {1, 2} : outbox[<<i, n>>] = "absent"}
NextEvent(i) == <<i, CHOOSE n \in Unannounced(i) : \A m \in Unannounced(i) : n <= m>>

\* Mutant: the events are left for after the commit.
MarkOnly(I) ==
  /\ invoice' = [i \in Invoices |-> IF i \in I THEN "paid" ELSE invoice[i]]
  /\ UNCHANGED outboxVars

MarkPaid(I) ==
  /\ invoice' = [i \in Invoices |-> IF i \in I THEN "paid" ELSE invoice[i]]
  /\ Enqueue({NextEvent(i) : i \in I})

\* Mutant: any notice of a known invoice confirms it.
ConfirmsAnyStatus(notice) == invoice[notice[1]] # "none"

\* The row is looked up by the provider's id; neither its status nor its
\* direction is looked at.
Confirms(notice) == notice[2] = "success" /\ invoice[notice[1]] # "none"

BridgeHandles(notice) ==
  /\ at["bridge"] = "idle" /\ notice \in notices
  /\ notices' = notices \ {notice}
  /\ MarkPaid(IF Confirms(notice) THEN {notice[1]} ELSE {})
  /\ Goto("bridge", "sweep")
  /\ UNCHANGED <<settled, todo, found, faults>>

\* Mutant: the direction is not asked for.
PendingOfAnyDirection == {i \in Invoices : invoice[i] = "pending"}

PendingInvoices == {i \in Incoming : invoice[i] = "pending"}
Oldest(I) == {i \in I : Cardinality({j \in I : Age[j] < Age[i]}) < JobBatch}

JobBegins ==
  /\ at["job"] = "idle"
  /\ todo' = Oldest(PendingInvoices) /\ found' = {}
  /\ Goto("job", "looking")
  /\ UNCHANGED <<outboxVars, invoice, settled, notices, faults>>

JobLooksUp(i) ==
  /\ at["job"] = "looking" /\ i \in todo
  /\ todo' = todo \ {i}
  /\ \/ /\ found' = IF i \in settled THEN found \cup {i} ELSE found
        /\ UNCHANGED faults
     \/ found' = found /\ Fault
  /\ UNCHANGED <<outboxVars, invoice, settled, notices, at>>

JobCommits ==
  /\ at["job"] = "looking" /\ todo = {}
  /\ MarkPaid(found)
  /\ found' = {}
  /\ Goto("job", IF found = {} THEN "idle" ELSE "sweep")
  /\ UNCHANGED <<settled, notices, todo, faults>>

\* Mutant: an exception ends the loop.
JobDies ==
  /\ Fault /\ at["job"] # "idle"
  /\ AbandonSweep("job")
  /\ todo' = {} /\ found' = {}
  /\ Goto("job", "ended")
  /\ UNCHANGED <<invoice, settled, notices>>

\* The loop logs the exception and goes on.
JobAbandons ==
  /\ Fault /\ at["job"] # "idle"
  /\ AbandonSweep("job")
  /\ todo' = {} /\ found' = {}
  /\ Goto("job", "idle")
  /\ UNCHANGED <<invoice, settled, notices>>

\* Of the bridge's exceptions only a broken connection is retried.  Any other,
\* and a connection that the provider closes in order, end its task, and
\* nothing starts it again before the process.
BridgeEnds ==
  /\ Fault /\ at["bridge"] # "ended"
  /\ AbandonSweep("bridge")
  /\ notices' = {}
  /\ Goto("bridge", "ended")
  /\ UNCHANGED <<invoice, settled, todo, found>>

SweepOutbox(w) ==
  /\ \/ /\ at[w] = "sweep"
        /\ \E batch \in SUBSET Pending : BeginSweep(w, batch)
        /\ Goto(w, "sweeping") /\ UNCHANGED faults
     \/ /\ at[w] = "sweeping"
        /\ \/ (\E r \in Rows : PublishRow(w, r)) /\ UNCHANGED faults
           \/ (\E r \in Rows : SkipRow(w, r)) /\ Fault
        /\ UNCHANGED at
     \/ /\ at[w] = "sweeping"
        /\ EndSweep(w)
        /\ Goto(w, "idle") /\ UNCHANGED faults
  /\ UNCHANGED <<invoice, settled, notices, todo, found>>

\* Notices in flight are gone, and so is what the job had not committed.
Crash ==
  /\ Fault
  /\ LoseSweeps
  /\ at' = [w \in Sweepers |-> "idle"]
  /\ notices' = {} /\ todo' = {} /\ found' = {}
  /\ UNCHANGED <<invoice, settled>>

-----------------------------------------------------------------------------
JobStep ==
  \/ JobBegins \/ JobCommits \/ JobAbandons
  \/ \E i \in Invoices : JobLooksUp(i)
  \/ SweepOutbox("job")

Next ==
  \/ \E i \in Invoices :
       \/ \E status \in {"pending", "paid"} : StoreInvoice(i, status)
       \/ ProviderSettles(i) \/ ProviderReports(i)
  \/ \E notice \in notices : BridgeHandles(notice)
  \/ SweepOutbox("bridge")
  \/ JobStep
  \/ BridgeEnds \/ Crash

Spec == Init /\ [][Next]_vars

-----------------------------------------------------------------------------
(* Properties.                                                             *)

TypeOK ==
  /\ OutboxTypeOK
  /\ invoice \in [Invoices -> {"none", "pending", "paid"}]
  /\ settled \subseteq Invoices
  /\ notices \subseteq Invoices \X {"success", "other"}
  /\ at \in [Sweepers -> {"idle", "looking", "sweep", "sweeping", "ended"}]
  /\ todo \subseteq Incoming /\ found \subseteq Incoming
  /\ faults \in 0 .. MaxFaults

\* An incoming invoice is paid exactly when an event that says so is stored,
\* wherever the process died: an unpaid row is looked up again, and a paid row
\* never is.
PaidHasEvent ==
  \A i \in Incoming :
    invoice[i] = "paid" <=> \E n \in {1, 2} : outbox[<<i, n>>] # "absent"

\* Only incoming payments are announced as payment.invoice.paid (contract: it
\* is published when the provider confirms an incoming invoice).
OnlyIncomingAnnounced ==
  \A r \in Rows : outbox[r] # "absent" => r[1] \in Incoming

\* The bridge is there again in the end (contract: it reconnects, with an
\* exponential backoff).
BridgeReturns == []<>(at["bridge"] # "ended")
=============================================================================
