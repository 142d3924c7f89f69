-------------------------- MODULE PaymentCommands --------------------------
(***************************************************************************)
(* The PLS handling payment commands: an at-least-once queue, concurrent    *)
(* handlers, a provider that may execute a request and not say so, one      *)
(* database transaction per command that stays open over the provider call, *)
(* and the outbox.                                                          *)
(*                                                                         *)
(* A handler inserts the operation's idempotency row first and commits at   *)
(* the very end.  A second handler of the same key waits at that insert for *)
(* the first one's transaction, so `op` shows committed rows and            *)
(* `sess[s].inserted` the uncommitted one.                                  *)
(***************************************************************************)
EXTENDS Outbox

CONSTANTS
  Cmds,            \* commands, each with an idempotency key of its own
  Kind,            \* create, pay, lnurl; invalid and unknown ones fail at once
  Sessions,        \* concurrent handlers
  Attempts,        \* COMMAND_RETRY_ATTEMPTS
  Lossy,           \* TRUE: a provider call may fail, the provider having acted or not
  MaxCrashes,      \* bound on crashes of the process
  MaxRedeliveries  \* bound on deliveries repeated while a handler runs

ASSUME CommandsAssumption ==
  /\ Rows = Cmds /\ Sweepers = Sessions
  /\ Kind \in [Cmds -> {"create", "pay", "lnurl", "invalid", "unknown"}]
  /\ Attempts \in Nat \ {0} /\ Lossy \in BOOLEAN
  /\ MaxCrashes \in Nat /\ MaxRedeliveries \in Nat

VARIABLES
  sent,         \* commands the callers have sent
  queue,        \* commands to deliver
  sess,         \* handlers
  op,           \* committed operation_idempotencies rows
  invoices,     \* commands with a lightning_invoices row
  executed,     \* how often the provider acted on a command
  dlq,          \* commands reported on the dead letter queue
  crashes, redeliveries

vars == <<outboxVars, sent, queue, sess, op, invoices, executed, dlq,
          crashes, redeliveries>>

Init ==
  /\ OutboxInit
  /\ sent = {} /\ queue = {}
  /\ sess = [s \in Sessions |-> None]
  /\ op = [c \in Cmds |-> "none"]
  /\ invoices = {}
  /\ executed = [c \in Cmds |-> 0]
  /\ dlq = {}
  /\ crashes = 0 /\ redeliveries = 0

Send(c) ==
  /\ c \notin sent
  /\ sent' = sent \cup {c} /\ queue' = queue \cup {c}
  /\ UNCHANGED <<outboxVars, sess, op, invoices, executed, dlq, crashes,
                 redeliveries>>

-----------------------------------------------------------------------------
(* Delivery and the idempotency row.                                       *)

Busy(s) == sess[s] # None
At(s, place) == Busy(s) /\ sess[s].at = place

\* Mutant: the row is added and not flushed until the commit.
Unflushed(c) == FALSE

Inserting(c) == \E s \in Sessions : Busy(s) /\ sess[s].cmd = c /\ sess[s].inserted
Goto(s, place) == sess' = [sess EXCEPT ![s].at = place]

\* start_operation found no row, or a failed one; or no row and, at the
\* insert, another transaction's uncommitted one.
Receive(s, c) ==
  /\ ~Busy(s) /\ c \in queue /\ op[c] # "succeeded"
  /\ queue' = queue \ {c}
  /\ sess' = [sess EXCEPT ![s] =
                [cmd |-> c, tries |-> 0, owns |-> TRUE,
                 inserted |-> op[c] = "none" /\ ~Inserting(c),
                 at |-> IF op[c] = "none" /\ Inserting(c)
                        THEN "waiting" ELSE "calling"]]
  /\ UNCHANGED <<outboxVars, sent, op, invoices, executed, dlq, crashes,
                 redeliveries>>

\* The operation has succeeded: acknowledged without a reply or an event.
Duplicate(s, c) ==
  /\ ~Busy(s) /\ c \in queue /\ op[c] = "succeeded"
  /\ queue' = queue \ {c}
  /\ UNCHANGED <<outboxVars, sent, sess, op, invoices, executed, dlq, crashes,
                 redeliveries>>

\* The other transaction ended: if it stored the row the insert violates the
\* UNIQUE constraint, the handler raises and the message is rejected.
EndWait(s) ==
  /\ At(s, "waiting") /\ ~Inserting(sess[s].cmd)
  /\ sess' = [sess EXCEPT ![s] =
                IF op[sess[s].cmd] = "none"
                THEN [sess[s] EXCEPT !.at = "calling", !.inserted = TRUE]
                ELSE None]
  /\ UNCHANGED <<outboxVars, sent, queue, op, invoices, executed, dlq, crashes,
                 redeliveries>>

-----------------------------------------------------------------------------
(* The provider call, repeated after a timeout or a refused connection.    *)

Callable(c) == Kind[c] \in {"create", "pay", "lnurl"}

\* Lightning pays an invoice once; it pays an LNURL, and creates an invoice,
\* as often as it is asked.
Executable(c) == Kind[c] = "pay" => executed[c] = 0

\* Mutant: nobody counts the attempts.
RetriedForEver(s) == [sess[s] EXCEPT !.tries = @ + 1]

\* What a timeout leads to.
Retried(s) ==
  IF sess[s].tries + 1 = Attempts
  THEN [sess[s] EXCEPT !.at = "failing"]
  ELSE [sess[s] EXCEPT !.tries = @ + 1]

Reject(s) ==
  /\ At(s, "calling") /\ ~Callable(sess[s].cmd)
  /\ Goto(s, "failing")
  /\ UNCHANGED <<outboxVars, sent, queue, op, invoices, executed, dlq, crashes,
                 redeliveries>>

ProviderAccepts(s) ==
  LET c == sess[s].cmd
  IN  /\ At(s, "calling") /\ Callable(c) /\ Executable(c)
      /\ executed' = [executed EXCEPT ![c] = @ + 1]
      /\ \/ Goto(s, "saving")
         \/ Lossy /\ sess' = [sess EXCEPT ![s] = Retried(s)]
      /\ UNCHANGED <<outboxVars, sent, queue, op, invoices, dlq, crashes,
                     redeliveries>>

ProviderRefuses(s) ==
  /\ At(s, "calling") /\ Callable(sess[s].cmd)
  /\ Goto(s, "failing")
  /\ UNCHANGED <<outboxVars, sent, queue, op, invoices, executed, dlq, crashes,
                 redeliveries>>

ProviderUnreachable(s) ==
  /\ Lossy
  /\ At(s, "calling") /\ Callable(sess[s].cmd)
  /\ sess' = [sess EXCEPT ![s] = Retried(s)]
  /\ UNCHANGED <<outboxVars, sent, queue, op, invoices, executed, dlq, crashes,
                 redeliveries>>

\* An error that is no answer and no timeout, like a connection reset during
\* the call or a refusal of the database: the handler raises, its transaction is
\* rolled back and the message rejected, whether the provider acted or not.
HandlerRaises(s) ==
  LET c == sess[s].cmd
  IN  /\ Lossy
      /\ \/ At(s, "calling") /\ Callable(c) /\ executed' = executed
         \/ /\ At(s, "calling") /\ Callable(c) /\ Executable(c)
            /\ executed' = [executed EXCEPT ![c] = @ + 1]
         \/ At(s, "saving") /\ executed' = executed
      /\ sess' = [sess EXCEPT ![s] = None]
      /\ UNCHANGED <<outboxVars, sent, queue, op, invoices, dlq, crashes,
                     redeliveries>>

-----------------------------------------------------------------------------
(* The end of a command.                                                   *)

\* The dead letter is published before the failure is committed.
ReportFailure(s) ==
  /\ At(s, "failing")
  /\ dlq' = dlq \cup {sess[s].cmd}
  /\ Goto(s, "closing")
  /\ UNCHANGED <<outboxVars, sent, queue, op, invoices, executed, crashes,
                 redeliveries>>

\* The dead letter could not be published: the handler raises, its transaction
\* is rolled back and the message rejected.
DeadLetterLost(s) ==
  /\ BrokerFails
  /\ At(s, "failing")
  /\ sess' = [sess EXCEPT ![s] = None]
  /\ UNCHANGED <<outboxVars, sent, queue, op, invoices, executed, dlq, crashes,
                 redeliveries>>

\* Mutant: the failure is committed before it is reported.
CommitFailureFirst(s) ==
  LET c == sess[s].cmd
  IN  /\ At(s, "failing")
      /\ op' = IF sess[s].inserted THEN [op EXCEPT ![c] = "failed"] ELSE op
      /\ sess' = [sess EXCEPT ![s].inserted = FALSE]
      /\ UNCHANGED <<outboxVars, sent, queue, invoices, executed, dlq, crashes,
                     redeliveries>>

\* A row that was loaded as failed is not written again.
CommitFailure(s) ==
  LET c == sess[s].cmd
  IN  /\ At(s, "closing")
      /\ op' = IF sess[s].inserted THEN [op EXCEPT ![c] = "failed"] ELSE op
      /\ sess' = [sess EXCEPT ![s] =
                    IF Kind[c] = "unknown" THEN None
                    ELSE [sess[s] EXCEPT !.at = "sweep", !.inserted = FALSE]]
      /\ UNCHANGED <<outboxVars, sent, queue, invoices, executed, dlq, crashes,
                     redeliveries>>

\* Mutant: the event is stored and the operation left as it was.
CommitEventOnly(s) ==
  LET c == sess[s].cmd
  IN  /\ At(s, "saving") /\ c \notin invoices
      /\ op' = op
      /\ invoices' = invoices \cup {c}
      /\ Enqueue({c})
      /\ sess' = [sess EXCEPT ![s].at = "sweep", ![s].inserted = FALSE]
      /\ UNCHANGED <<sent, queue, executed, dlq, crashes, redeliveries>>

\* Mutant: the handler returns as soon as it has committed.
CommitAndReturn(s) ==
  LET c == sess[s].cmd
  IN  /\ At(s, "saving") /\ c \notin invoices
      /\ op' = [op EXCEPT ![c] = "succeeded"]
      /\ invoices' = invoices \cup {c}
      /\ Enqueue({c})
      /\ sess' = [sess EXCEPT ![s] = None]
      /\ UNCHANGED <<sent, queue, executed, dlq, crashes, redeliveries>>

CommitSuccess(s) ==
  LET c == sess[s].cmd
  IN  /\ At(s, "saving") /\ c \notin invoices
      /\ op' = [op EXCEPT ![c] = "succeeded"]
      /\ invoices' = invoices \cup {c}
      /\ Enqueue({c})
      /\ sess' = [sess EXCEPT ![s].at = "sweep", ![s].inserted = FALSE]
      /\ UNCHANGED <<sent, queue, executed, dlq, crashes, redeliveries>>

\* lightning_invoices.idempotency_key is UNIQUE: the handler raises, its
\* transaction is rolled back and the message rejected.
CommitConflicts(s) ==
  /\ At(s, "saving") /\ sess[s].cmd \in invoices
  /\ sess' = [sess EXCEPT ![s] = None]
  /\ UNCHANGED <<outboxVars, sent, queue, op, invoices, executed, dlq, crashes,
                 redeliveries>>

\* publish_pending_outbox, then the reply and the acknowledgement.
Sweep(s) ==
  \/ /\ At(s, "sweep")
     /\ \E batch \in SUBSET Pending : BeginSweep(s, batch)
     /\ Goto(s, "sweeping")
  \/ /\ At(s, "sweeping")
     /\ \E r \in Rows : PublishRow(s, r) \/ SkipRow(s, r)
     /\ UNCHANGED sess
  \/ /\ At(s, "sweeping")
     /\ EndSweep(s)
     /\ sess' = [sess EXCEPT ![s] = None]
SweepOutbox(s) ==
  /\ Sweep(s)
  /\ UNCHANGED <<sent, queue, op, invoices, executed, dlq, crashes,
                 redeliveries>>

-----------------------------------------------------------------------------
(* Failures around the handlers.                                           *)

\* The connection is lost and the message delivered again, while the handler
\* that has it runs on.
Redeliver(s) ==
  /\ redeliveries < MaxRedeliveries
  /\ Busy(s) /\ sess[s].owns
  /\ queue' = queue \cup {sess[s].cmd}
  /\ sess' = [sess EXCEPT ![s].owns = FALSE]
  /\ redeliveries' = redeliveries + 1
  /\ UNCHANGED <<outboxVars, sent, op, invoices, executed, dlq, crashes>>

\* Uncommitted work is rolled back; what was not acknowledged comes back.
Crash ==
  /\ crashes < MaxCrashes
  /\ \E s \in Sessions : Busy(s)
  /\ LoseSweeps
  /\ queue' = queue \cup {sess[s].cmd : s \in {x \in Sessions :
                                                 Busy(x) /\ sess[x].owns}}
  /\ sess' = [s \in Sessions |-> None]
  /\ crashes' = crashes + 1
  /\ UNCHANGED <<sent, op, invoices, executed, dlq, redeliveries>>

-----------------------------------------------------------------------------
HandlerStep(s) ==
  \/ \E c \in Cmds : Receive(s, c) \/ Duplicate(s, c)
  \/ EndWait(s) \/ Reject(s)
  \/ ProviderAccepts(s) \/ ProviderRefuses(s) \/ ProviderUnreachable(s)
  \/ HandlerRaises(s)
  \/ ReportFailure(s) \/ DeadLetterLost(s) \/ CommitFailure(s)
  \/ CommitSuccess(s) \/ CommitConflicts(s)
  \/ SweepOutbox(s)

Next ==
  \/ \E c \in Cmds : Send(c)
  \/ \E s \in Sessions : HandlerStep(s) \/ Redeliver(s)
  \/ Crash

Spec == Init /\ [][Next]_vars

\* A handler that can go on does: the event loop runs every task, and the
\* provider call ends, if only by its timeout.
FairSpec == Spec /\ \A s \in Sessions : WF_vars(HandlerStep(s))

-----------------------------------------------------------------------------
(* Properties.                                                             *)

Places == {"waiting", "calling", "failing", "closing", "saving", "sweep",
           "sweeping"}

Session == [cmd: Cmds, tries: 0 .. Attempts, owns: BOOLEAN, inserted: BOOLEAN,
            at: Places]

\* A task that has no message is not mistaken for one that has.
ASSUME NoSession == None \notin Session

TypeOK ==
  /\ OutboxTypeOK
  /\ sent \subseteq Cmds /\ queue \subseteq sent
  /\ sess \in [Sessions -> {None} \cup Session]
  /\ op \in [Cmds -> {"none", "failed", "succeeded"}]
  /\ invoices \subseteq Cmds
  /\ executed \in [Cmds -> Nat]
  /\ dlq \subseteq Cmds
  /\ crashes \in 0 .. MaxCrashes /\ redeliveries \in 0 .. MaxRedeliveries

\* An operation has succeeded exactly when its invoice row and its event are
\* stored, and then the provider did act: whatever crashed, was delivered
\* twice or ran at the same time.
OutcomeRecorded ==
  \A c \in Cmds :
    /\ op[c] = "succeeded" <=> c \in invoices
    /\ op[c] = "succeeded" <=> outbox[c] # "absent"
    /\ op[c] = "succeeded" => executed[c] > 0

\* No failure is recorded that was not reported on the dead letter queue.
FailureReported == \A c \in Cmds : op[c] = "failed" => c \in dlq

\* Deliveries repeated while a handler runs do not make the provider act
\* twice, unless the command had failed and was reported so (checked without
\* crashes and with a provider that answers).
PaysOnce == \A c \in Cmds : executed[c] > 1 => c \in dlq

\* Every stored event is announced in the end: the sweep of the transaction
\* that stored it finds it, as long as a batch holds what is pending.
OutboxDrains ==
  \A r \in Rows : outbox[r] = "pending" ~> outbox[r] = "published"

\* When nobody is going to handle a payment any more, a payment the provider
\* accepted has its event (contract: when LNbits accepts the payment, the PLS
\* publishes payment.sent).
Settled(c) ==
  c \in sent \ queue /\ \A s \in Sessions : Busy(s) => sess[s].cmd # c
AcceptedIsAnnounced ==
  \A c \in Cmds :
    Settled(c) /\ Kind[c] \in {"pay", "lnurl"} /\ executed[c] > 0
      => outbox[c] # "absent"
=============================================================================
