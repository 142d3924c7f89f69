# Leprechaun: TLA+ models, model checking and proofs

Leprechaun moves satoshis between users of small applications and the Lightning
network. Three services share the work; this directory models what they do to
money and to the records of it, checks the models with TLC and proves their main
invariants with TLAPS.

Contents: 1 the system, 2 the plan, 3 Ledger and LedgerLocks, 4 PaymentCommands
and Outbox, 5 InvoiceReconciliation and Deposits, 6 Checkout and Administration,
7 Withdrawal, 8 findings and other disagreements, 9 what is proved and what only model-checked, 10 what is not
modelled. `PROJECT.json` lists the components, the runs, for every definition the
lines it models, the hazards of the code and the properties aimed at them.

To check: `tlc -config Ledger_books.cfg MCLedgerWallet` (likewise for the other
runs; `PROJECT.json` names the module and the configuration of each), `tlapm LedgerProofs.tla`
(likewise for `AmountFacts`, `LedgerLocksProofs`, `OutboxProofs`, `PaymentCommandsProofs`,
`DepositsProofs`, `CheckoutProofs` and `WithdrawalProofs`).

## 1. The system

| Part | State it keeps | Operations | Talks to |
|---|---|---|---|
| **Ledger** (`ledger/ledger`) | accounts (`balance`, `reserved_balance`), transactions with their entries, balance holds, operation idempotency rows, audit events | HTTP: create account; create / post / reverse a transaction; create / expire / consume / release a hold; expire due holds | database; called by the hub |
| **Hold expiration worker** (`hold_expiration_worker.py`) | none | every interval: expire a batch of due holds, whatever the previous pass raised | ledger database |
| **Ledger payment consumer** (`payment_consumer.py`, `payment_events.py`) | none | `payment.invoice.paid`: credit a user; `payment.sent`: consume the withdrawal's hold | queue fed by the PLS |
| **PLS** (`pls/pls`) | payment operations (idempotency), invoices, payments, outbox | commands `create_invoice`, `pay_invoice`, `pay_lnurl`; provider notifications over a websocket; periodic reconciliation of pending invoices; outbox publishing | provider (LNbits), RabbitMQ |
| **Hub** (`hub/hub`) | users, applications and their keys, checkout sessions, prizes, pending request/reply futures | prepare / cancel / settle a checkout; deposits; withdrawals; administration; pages | ledger over HTTP, PLS over RabbitMQ |

What is hard here:

* *Interleaving at the database.* Handlers lock rows with `SELECT ... FOR UPDATE`
  before they read what they write, except the payment consumer, which reads the
  account without a lock and writes back a value computed from that read.
* *At-least-once messages* in any order, between services that each commit on
  their own: duplicated commands, replies after a timeout, a crash between an
  effect and the record of it.
* *Time*: holds and checkouts expire while something else is in progress.
* *Idempotency* at four levels: transaction keys, hold keys, operation rows and
  payment operations.
* *Multi-step settlement* over HTTP without a distributed transaction.

What makes each part correct:

| Part | It is right when |
|---|---|
| Ledger | balances are the sums of applied entries, reserved balances those of active holds; reserved never exceeds balance; a key names one effect; a hold ends once; history is never rewritten |
| Worker | every due hold ends, whatever a pass raises (a stale reserve is the exception, section 8) |
| Payment consumer | an invoice credits once and a withdrawal debits once, overlapping whatever else is written |
| PLS commands | an operation, its invoice row and its event are recorded together and after the provider acted; a repeated delivery does not pay again; a failure is reported before it is recorded |
| PLS outbox | a row is marked as published only when its message is on the queue, and every stored row is published in the end |
| Row locks | handlers that lock by id never wait for each other in a circle; a due hold ends although the worker skips locked rows and may be picked as a deadlock's victim |
| PLS reconciliation | a paid row has its event, wherever the process died |
| Hub deposits | what is credited was paid, and once; a paid deposit is credited in the end, or a named fault has hit it |
| Hub applications | a disabled application gets nothing new |
| Hub checkout | the plan adds up to the price; settled means paid in full and once; the steps of a settlement are taken in their order; cancelling gives back and takes nothing; what is settled stays settled (it need not, section 8) |
| Hub withdrawal | a debit means a payment accepted and announced; a payment was covered; an answer belongs to its request; no hold outlives its deadline |

## 2. Plan

Modules in the order of their importance to money.

| Module | Subject | State |
|---|---|---|
| `Amounts`, `AmountFacts` | sums of amounts, and lemmas about them | done, proved |
| `Ledger` | accounts, transactions, holds, worker, consumer | done, checked, proved |
| `Wallet`, `LedgerWallet` | the abstract promise of the Ledger and its refinement | done, checked, proved |
| `Outbox` | the PLS's outbox: rows, sweeps, crashes | done, proved |
| `PaymentCommands` | PLS commands: idempotency rows, retries, provider, dead letters; uses `Outbox` | done, checked, proved |
| `LedgerLocks` | the row locks each handler takes one at a time: deadlock | done, checked, proved |
| `InvoiceReconciliation` | websocket bridge and periodic job; uses `Outbox` | done, checked as part of `Deposits`, proved |
| `Deposits` | extends it to the whole way of a deposit: account, request, settlement, event, credit | done, checked, proved |
| `Checkout` | hub checkout sessions and prizes over ledger calls that may fail half way | done, checked, proved |
| `Administration` | extends it with applications, their keys, the checkout page and the administrators' operations | done, checked, proved |
| `Withdrawal` | hub, RabbitMQ request/reply, PLS and ledger around one user's withdrawals | done, checked, proved |
| the audit | `reconcile.py` reading table after table while handlers commit | later |

Every safety property and every refinement a passing run checks is also a theorem
(section 9). Left of the plan: the audit; and the link from `Withdrawal` to `PaymentCommands` and
from `Checkout` to `Ledger`, each of which models the other's part again, in fewer steps
(section 7, and the abstractions of section 6).

## 3. The Ledger

### Modules

* `Ledger.tla` - the service. One action is one committed database transaction.

| State | Code |
|---|---|
| `open`, `balance`, `reserved` | rows and columns of `accounts` |
| `txn` | `ledger_transactions` joined with `ledger_entries`; status `none` is a row that does not exist yet |
| `hold` | `balance_holds`; `deadline` abstracts `expires_at` against the clock: none, ahead, passed |
| `opRows` | `operation_idempotency` |
| `seen` | a consumer session: its message and the account row it has read and not locked |

| Action | Code |
|---|---|
| `CreateAccount` | `routes/accounts.py create_account` |
| `CreateTransaction`, `PostTransaction`, `ReverseTransaction` | `routes/transactions.py` |
| `CreateHold`, `ExpireHold`, `ReleaseHold`, `ConsumeHold` | `routes/holds.py`; release and consume of a due hold commit its expiry and answer 409 |
| `ExpireDueHolds` | `hold_expiration.py`, by the worker or by `POST /holds/expire-due` |
| `DeadlinePasses` | the clock |
| `BeginEvent`, `CommitInvoicePaid`, `CommitPaymentSent`, `AbandonEvent` | `payment_events.py`; abandoning is a raised error or a crash |

  Two constants select what surrounds the handlers. `Overlap` says whether other
  writers may run between the two steps of a message (the code lets them);
  `Checks` whether the CHECK constraints of `accounts` are there (the migrations
  create them). With `Checks = FALSE` the guards of the handlers stand alone,
  which makes the books invariants a statement about the code and not about the
  database.
* `Amounts.tla` - the sums, counted satoshi by satoshi so that no recursion is
  needed and the proofs can use the library's facts about cardinality.
* `Wallet.tla` - the abstract promise: an account has funds, a hold sets some
  aside and either gives them back whole or spends them whole; money moves
  without loss. `LedgerWallet.tla` maps the Ledger's state to it.
* `MCLedger.tla`, `MCLedgerWallet.tla` - the small instances.
* `AmountFacts.tla`, `LedgerProofs.tla` - the proofs.

Where a configuration says `CHECK_DEADLOCK FALSE`, its instance comes to an end:
ids are spent, commands handled, sessions final and deposits used up.

Definitions whose comment begins with "Mutant" are deliberate mistakes. No action
uses them: each is put in the place of the definition below it to see that the
property named in `PROJECT.json` notices.

### Abstractions

* A request that ends in an error, and one answered from an idempotency row or a
  unique key, commits nothing; both are the absence of a step.
* A reused key with a different payload is answered 409 and commits nothing: the
  payload hash decides an answer and no state, so it is left out.
* Entries are applied one at a time and each debit needs the funds at that
  moment. The database returns them in no particular order; `Affordable` allows
  what some order allows (credits of the account first).
* A pass of the worker takes up a batch of the due holds, any of them that are left
  over being beyond its limit or locked by others (`SKIP LOCKED`). The batch is one
  transaction: a single hold whose release the CHECK refuses leaves all of it undone.
* Amounts are integers without a bound (the columns are 64 bit, the amounts far
  below). Audit events, metrics and log lines are left out.
* Row locks themselves, and with them deadlock, are the subject of `LedgerLocks`.

### Runs

| Run | Instance | Shows |
|---|---|---|
| `books` (`MCLedgerWallet`) | 2 accounts, 3 transactions, 2 holds, 1 key, 1 message at a time, no CHECK constraints | `TypeOK`, `BooksBalance`, `ReservedMatchesHolds`, `FundsCoverHolds`, `AppliedTransfersBalance`, `ReplaysTruthful`, `ReversalsPaired`, `HoldsSettleOnce`, `HistoryAppendOnly`, `ImplementsWallet` |
| `overlap` | `FairSpec`, 2 messages at a time, deposits and `payment.sent`, overlapping everything, CHECK constraints on | `AppliedOnce`, `DueHoldsFreedUnlessStale` |
| `locks` (`MCLedgerLocks`) | see below | `OrderedNeverDeadlock`, `DueHoldsEnd` |
| `lost_credit` | deposits only, overlapping | `BooksBalance` fails: finding 1 |

`DueHoldsFreedUnlessStale` lets a due hold stay only while some account's reserve is
below the sum of its active holds. `payment.sent` can bring that about (*Stuck hold* in
section 8); the run shows that a due hold stays for no other reason.

*Bounds.* Three transactions are a deposit, a purchase and the reversal of one of
them, or two messages and an API transaction; two holds are one with and one
without a deadline, competing for one balance; one key is enough to be reused,
for the same resource, for another one and for another operation. The instance
has an unbalanced body, an empty amount and a body with a debit and a credit of
the same account, which the validation must judge. Two sessions are a message
and its redelivery at the same time.

*Fairness.* `FairSpec` adds weak fairness of a pass of the worker that leaves no due
hold over, and nothing else. `run_worker` loops for ever and catches every exception
of a pass, so a pass that stays possible is eventually made. That the batch holds
every due hold (its default limit is 100, `settings.py:14`, and `POST
/holds/expire-due` has none) and that not every pass finds one of them locked is
assumed here; what skipped locks can do is the subject of `LedgerLocks`. Nothing
forces a client to call, or a message to be handled. The symmetric run checks safety
only. The history properties of `books` are run with one message at a time; the
theorems of section 9 cover any overlap.

### LedgerLocks

`Ledger` has whole transactions as its actions because handlers lock what they
write before they read it. `LedgerLocks.tla` is about those locks: which a handler
takes, in which order, and who may end up waiting for whom.

| State | Code |
|---|---|
| `job` | the handler's kind, the holds and the transaction it is about |
| `wants`, `has` | the row locks it has still to take, and those it has until its commit |
| `hold`, `due`, `txn` | what a handler checks once it has the lock, and finds changed by whoever had it before |

| Action | Code |
|---|---|
| `Create`, `CreateHold`, `Post`, `Reverse`, `EndHold`, `Consume`, `InvoicePaid`, `PaymentSent`, `ExpireDue` | the beginning of a handler of `routes/transactions.py`, `routes/holds.py`, `payment_events.py`, `hold_expiration.py`, with the locks it is going to take |
| `Acquire` | one row lock granted; a hold that turns out to be due is expired instead of consumed |
| `GiveUp` | a locked row is not in the state the handler needs: 409 |
| `Commit` | the commit, which ends the locks |
| `Victim` | PostgreSQL rolls back one transaction of a cycle; the worker's loop survives it |

A lock has a rank, and a handler takes its locks by increasing rank, those of one
rank in any order: holds (0), transactions (1), the foreign keys of inserted
entries (2), accounts by their id (3 and up, `ORDER BY id FOR UPDATE`). Foreign keys take
`FOR KEY SHARE` locks, which are compatible with each other and with an UPDATE of
a balance, and not with `FOR UPDATE`. `ExpireDue` locks its holds in one query,
skipping the locked ones, and then their accounts in the order of the deadlines.
So the handlers outside `Ordered` can be in a cycle: those that insert entries
before they lock the accounts (`create_transaction` with nothing after it to wait
for, `reverse_transaction`, `payment.sent`) and the batch. Rows of
`operation_idempotency` are looked up before any other lock, and inserted last; the
unique key of a new transaction is waited for with no lock held, or with that of
the hold only. They close no cycle and are left out.

*Bounds.* Two requests and the worker are the three of a cycle with somebody
else's transaction in it; two accounts, two transactions between them and a hold
on each, due in the opposite order of the ids; a batch holds both. A request is
handled once. So nobody can keep a hold locked for ever: `SKIP LOCKED` gives no
promise against an endless succession of handlers, and neither does the model.

*Fairness.* A transaction that has begun goes on, a lock that stays free is granted,
the database breaks deadlocks, the worker's loop runs for ever. Requests need not
come.

## 4. PaymentCommands and Outbox

`Outbox.tla` is the table of outbox events and the sweeps that publish it. It is
extended by the two modules whose transactions store rows in it.

| State | Code |
|---|---|
| `outbox` | `outbox_events.status`; `absent` is a row not stored yet |
| `bus` | the events that have reached their queue at least once |
| `sweep` | of each task in `publish_pending_outbox`, the rows it selected and those it has published |

| Action | Code (`pls/outbox.py`) |
|---|---|
| `Enqueue` | `enqueue_outbox_event`, within the caller's transaction |
| `BeginSweep`, `PublishRow`, `SkipRow`, `EndSweep` | `publish_pending_outbox`: an unlocked SELECT, one publication after another, one commit |
| `LoseSweeps` | the process dies |

`PaymentCommands.tla` is the consumer of `payment.lightning.commands`
(`pls/commands.py`, `idempotency.py`, `messaging.py`).

| State | Code |
|---|---|
| `queue`, `sent` | the RabbitMQ queue, and what callers have put on it |
| `sess` | handlers: the command, the attempts made, whether the message is still the handler's to acknowledge, whether it has inserted the operation's row, and where it is |
| `op` | committed `operation_idempotencies` rows |
| `invoices` | commands with a `lightning_invoices` row (`idempotency_key` is UNIQUE) |
| `executed` | how often the provider acted on a command (external) |
| `dlq` | the dead letter queue |

| Action | Code |
|---|---|
| `Receive`, `Duplicate`, `EndWait` | `start_operation`: the lookup, and an insert that waits for another transaction with the same key |
| `ProviderAccepts`, `ProviderRefuses`, `ProviderUnreachable` | `provider.py` under `retry_provider_call`; an answer that is lost is a timeout after the provider acted |
| `HandlerRaises` | an exception nobody catches, like a connection reset in the middle of a call: rolled back, rejected |
| `Reject` | a payload that cannot be parsed, an amount of no satoshi, an unknown command |
| `ReportFailure`, `DeadLetterLost`, `CommitFailure` | `publish_failed_command`, then the commit of the failed row |
| `CommitSuccess`, `CommitConflicts` | the one commit of operation, invoice and event |
| `SweepOutbox` | `publish_pending_outbox` at the end of the handler; its last step is the reply and the acknowledgement |
| `Redeliver`, `Crash` | RabbitMQ; a message is acknowledged by the end of its handler and comes back when the connection or the process is lost |

Abstractions: PostgreSQL is assumed (a second insert of a key waits for the first
transaction). `created_at` is the start of the transaction, so the oldest rows of
a batch may be any of the pending ones. Payloads, fees and the contents of an
event are left out: a command is its kind and its key. A message a handler
raises for is rejected, which is FastStream's default, and is not delivered again.

| Run | Instance | Shows |
|---|---|---|
| `commands_faults` | 2 commands (an invoice, which Lightning pays once, and an LNURL, which it pays as often as it is asked), 2 handlers, 2 attempts, 1 crash, 1 redelivery, a broker that may fail, a provider that may not answer, batches of 1 | `TypeOK`, `OutcomeRecorded`, `FailureReported`, `PublishedTruthful` |
| `commands_redelivery` | 4 commands (payment, invoice creation, malformed, unknown), a redelivery while the handler runs; no crash, every call answered | `PaysOnce`, `OutboxDrains` |
| `commands_stuck_event` | 1 command, 1 crash | `OutboxDrains` fails: finding 2 |

*Bounds.* Two handlers and one redelivery are one key handled twice at the same
time, which is what the idempotency row is for; two attempts are a retry and a
last one; a batch of one row with two handlers makes sweeps overlap and leave
rows to one another. In `commands_redelivery` a batch holds every row: the
number of pending rows beyond the batch size delays a row and needs later
commands to be drained, which nothing guarantees.

*Fairness.* Weak fairness of each handler: the event loop runs every task, and a
provider call ends, if only by its timeout. Senders, the provider's verdict, lost
connections and crashes are not fair.

## 5. InvoiceReconciliation and Deposits

Two paths learn that an invoice was paid (`pls/reconciliation.py`,
`pls/lnbits_ws_bridge.py`), each marking the row and storing an event in one
transaction, without knowing of the other.

| State | Code |
|---|---|
| `invoice` | `lightning_invoices.status` |
| `settled`, `notices` | LNbits: payments it has seen, websocket messages on their way (external) |
| `at`, `todo`, `found` | the bridge's and the job's place; the batch still to look up and what was found and not committed |
| `faults` | counts crashes, failed lookups, failed batches and failed publications against `MaxFaults` |

| Action | Code |
|---|---|
| `BridgeHandles` | `handle_lnbits_wallet_event`: the row is found by the provider's id, whatever its direction and status |
| `JobBegins`, `JobLooksUp`, `JobCommits` | `reconcile_pending_invoices`: the oldest pending incoming rows, one provider call each, one commit |
| `JobAbandons` | `reconcile_pending_invoices_loop` logs an exception and goes on |
| `BridgeEnds` | `lnbits_ws_bridge.py`: the bridge's task ends for good, see section 8; notices from then on are lost |
| `SweepOutbox` | the sweep after a bridge transaction, and after a batch that found something |
| `StoreInvoice` | the rows the handlers of section 4 store |

`Deposits.tla` extends it with what is before and after: the hub's page on one side
(`checkout_service.py get_or_create_user_ledger_account`, `pages/user.py`), the
ledger's consumer on the other.

| State | Code |
|---|---|
| `accounts` | `accounts` rows of the user in the ledger |
| `visiting` | visits whose account the ledger has created and the hub has not recorded |
| `mapped` | `user_ledger_accounts.ledger_account_id` of the hub (`user_sub` is UNIQUE) |
| `asked` | deposits asked for, and whether the hub knew an account then |
| `queue`, `failed` | `payment.invoice.paid` messages waiting, and those whose handling raised |
| `credit` | the accounts credited for an invoice |

| Action | Code |
|---|---|
| `CreateAccount`, `MapAccount`, `VisitFails` | the lookup and the ledger's POST; the insert; a lost answer |
| `RequestDeposit` | `on_request_invoice`: the panel is there even when the account could not be created |
| `Sweeps` | the sweep of the outbox, whose every publication is a message |
| `ApplyInvoicePaid`, `HandlingFails` | `apply_payment_invoice_paid`: any active account of the owner; a handler that raises rejects its message |

| Run (`MCDeposits`) | Instance | Shows |
|---|---|---|
| `reconciliation` | one incoming invoice, one outgoing payment, 2 accounts, batches of one, `MaxFaults = 2`, a broker that may fail | `DTypeOK`, `CreditedWasPaid`, `PaidHasEvent`, `DepositIsCredited` |

`DepositIsCredited` names what it does not promise: a message whose handling
raised is gone (`failed`), and an event left pending by a crash (finding 2) rests in
the outbox. It is about users whose account was known when they asked; without
one the ledger finds nobody to credit, raises, and the money stays with the
platform.

*Bounds.* Two accounts are two first visits at the same time, or one repeated after
a lost answer. Two faults are a fault and a second one during the recovery from
it. An event of an invoice has two rows, since each path announces an invoice
once at most; the ledger's transaction key makes one credit of them. A withdrawal
is asked for when the user has been credited. Looking for the hub's row and the
ledger's creation are one step; what may happen between is another visit that
maps first, which `MapAccount` has.

*Fairness.* `WF(DepositJobStep)`: the job's loop catches every exception; `WF` of the
sweep the bridge has begun; `WF` of the consumer. No fairness of notices: the
provider need not send them and the bridge need not be connected. Nothing is
assumed of the user or the hub. Deadlock is checked.

*External assumption.* `NotifiesOutgoing`: the wallet's websocket reports
payments in both directions. Only the LNbits deployment can say; the
run has it FALSE, section 8 says what follows when it is TRUE.

## 6. Checkout and Administration

One checkout session and all that happens to it.

| State | Code |
|---|---|
| `row` | the `checkout_sessions` row: status, `internal_amount_msat`, `external_amount_msat`, whether `ledger_hold_id` and `invoice_id` are set; `absent` before it is created |
| `due` | `expires_at` has passed; the hold is given the same time |
| `task` | requests: the row as loaded, the object in memory, the next call |
| `balance`, `received`, `hold`, `txn` | the ledger's side: user account, application account, the hold under the session's key, the transactions under its two settlement keys and the payout's |

| Action | Code |
|---|---|
| `LookUpOrder`, `Insert` | `create_session`; `(game_id, order_id)` is UNIQUE |
| `Load`, `Commit`, `Fail`, `Look` | every request: load without a lock, `expire_if_due`, commit of the changed columns; an error ends it without a commit; GET only expires |
| `Plan`, `Reserve`, `AskInvoice` | `prepare_checkout_payment`, `funding_plan` |
| `InspectHold`, `Release` | `cancel_checkout_payment` |
| `CheckFunds`, `CreateInternal`, `Consume`, `CreateExternal`, `PostExternal` | `settle_checkout_payment`, one action per ledger call |
| `LoadPrize`, `CreatePrize`, `PostPrize` | `credit_prize`, one payout |
| `Deposit`, `SpendElsewhere`, `TimePasses`, `WorkerExpires` | the user's other business, the clock, the ledger's worker |

Abstractions: a ledger call is one atomic step, which `Ledger` justifies for every
call a checkout makes; its answer may be lost, which is `Fail` after it. A call
that takes effect after its request has already given up (a connection that
outlives the caller) is left out. The user's ledger account exists. Amounts are
whole satoshis. All requests of a session are of one user.

`Administration.tla` extends it with those who may call and those who interfere.

| State | Code |
|---|---|
| `application` | the `connected_applications` row: registered, active, and whether the application's server has the key that is valid |
| `page` | requests of the hub's checkout page, which prepare and then settle |
| `kept` | what a hold of an administrator keeps of the user's balance |
| `underway` | requests that had begun when the application was disabled (history) |

| Action | Code |
|---|---|
| `CreateApplication`, `ChangeApplication`, `ServerGetsKey` | `applications.py`; the operator hands the new key over (external) |
| `Begins` | `require_application` (the server's requests), `ensure_application_active` (the user's) |
| `PageConfirms`, `PageWatches`, `PageCancels`, `PageGoesOn` | `pages/user.py`: the buttons, the timer, and settling after preparing in one request |
| `RequestStep` | a step of a request as in `Checkout` |
| `AdjustAccountBalance`, `ReserveAccountBalance`, `AdminHoldEnds` | `pages/admin_balances.py` and the end of its hold in the ledger |

A request looks at the application once, when it begins. One that passed may
reserve, be invoiced and settle after the application was disabled. Only the page's
request, which prepares and then settles, calls `ensure_application_active` a second
time. The first half keeps the row in a local variable and the session's memory holds
it weakly, so the second look will mostly read it again and refuse. The model allows
both, a settlement that goes on (`PageGoesOn`) and one that is refused (`Fail`): more
behaviours than the code has, and no property becomes easier by them. `docs/application-integration.md` (21-24) says that disabling blocks
preparation and settlement; `DisabledGetsNothingNew` is what the code makes of it.

| Run | Instance | Shows |
|---|---|---|
| `checkout_retries` (`MCAdministration`) | one request at a time, amount 3, balance up to 4 plus a prize, one application, an administrator | `ATypeOK`, `FundedOnce`, `SettledIsPaid`, `CanceledGivesBack`, `TakenInOrder`, `DisabledGetsNothingNew` |
| `checkout_concurrent` | two requests at a time, amount 2 | `CreatedOnce`, `StaysWithinWallet`: the ledger's side of the session is one of the abstract `Wallet` of section 3, whatever the row says |
| `checkout_two_prepares` | two requests at a time | `FundedOnce` fails: finding 3 |

*Bounds.* An amount of 3 has plans that are all internal, all external and two
uneven mixtures; the balance can exceed the amount. Requests are not bounded in
number: a task is reused, so every call may be repeated after every failure. An
administrator moves up to 3 either way and has one hold at a time. Two tasks are two overlapping requests of any two kinds. The model has no liveness
property: nothing obliges a user to come back.

## 7. Withdrawal

Two withdrawals of one user, across hub, RabbitMQ, PLS and ledger.

| State | Code |
|---|---|
| `at` | `withdraw_wallet_balance` of each withdrawal |
| `table`, `stale`, `box` | `pending_responses` of `hub/rabbitmq`; entries past their time to live; answers delivered and not yet taken |
| `free`, `hold`, `due` | the ledger: available balance, the holds, their deadlines |
| `cmd`, `payment`, `event`, `replies` | the PLS: the command, what the provider has said and done about the payment, the `payment.sent` event, messages on `payment.response` |

| Action | Code |
|---|---|
| `CheckBalance`, `PlaceHold`, `LedgerDeclines` | `withdraw_wallet_balance` |
| `Register`, `Arrives`, `Published`, `PublishFails`, `TimeOut`, `GrowsOld`, `ConsumeResponse` | `_request_payment_command`, `_cleanup_stale_pending`, `consume_payment_responses` |
| `TakeAnswer` | the hub tells the user that the money was sent |
| `Execute`, `Refuse`, `Record`, `PublishEvent`, `Reply` | section 4, one step per transaction or message; the provider accepts a payment and has made it, or has it pending (`paid` false or null) |
| `Settles` | LNbits makes a pending payment, or gives it up (external) |
| `ApplySent`, `RejectSent`, `DeadlinePasses`, `Expire` | section 3: `apply_payment_sent`, the worker |
| `HubCrash`, `PLSCrash` | the table is lost; commands are delivered again |

PLS and ledger may do here what `PaymentCommands` and `Ledger` let them do, one
message at a time in the ledger; the correspondence is read off the actions and
not checked. There is one hub process. The time to live of an entry counts from
before the publication, which may block, so an entry may be too old while its
request still waits: `GrowsOld` may happen at any time. A failed command gives
the hub nothing it takes for an answer. The worker's batch is one hold after
another.

`Record` stores the two answers as `PAID` and `PENDING` and announces `payment.sent`
for both, so `DebitMeansAccepted` says what the code keeps: a user is debited exactly
for announced payments that the provider had accepted. That they were made it does
not keep (*Pending, and debited* in section 8).

Run `withdrawal`: `TypeOK`, `DebitMeansAccepted`, `PaidWasCovered`, `AnswersAreOwn`,
`TableOfWaiting`, `HoldsSettle`, `StaysWithinWallet`.

*Bounds.* Amounts 1 and 2, funds 2, one crash of the hub or the PLS. Funds of 2 cannot
cover both withdrawals, so they compete, and one may go through because the other's
hold has ended; two requests are enough for one to clean up the entry of the other.
`Verdicts` lets one of the two payments stay pending after it was accepted and fail
later; payments do not look at each other's verdict, and the theorems have any.

*Fairness.* The ledger's consumer and worker run for ever, and a deadline passes. Nothing
is assumed of the hub and the PLS, so `HoldsSettle` does not depend on them.

## 8. Findings and other disagreements

Three runs end in a counterexample; `PROJECT.json` quotes the line of the
documentation, the source or the tests that each of them contradicts.

1. `lost_credit`. `payment.invoice.paid` reads the account without a lock and
   stores a balance computed from that read: a credit or debit committed in
   between is lost. Transactions, holds and keys stay right (`overlap`, and the
   theorems of `LedgerProofs` that do not assume `~Overlap`), so balances can be recomputed from them.
2. `commands_stuck_event`. A crash after the commit and before the sweep leaves the
   event pending. The message comes back, is a duplicate, and returns before the
   sweep; nothing sweeps at the start or periodically. Until some other command
   is handled the event stays where it is.
3. `checkout_two_prepares`. Two confirmations of one session at a time leave a row
   that holds the balance and asks for an invoice of the whole price as well.

Others can be seen by giving a property that holds elsewhere, or one defined in a
module and not listed in a run, to a changed configuration:

* *Two accounts of one user.* `CreditIsShown` in `Reconciliation.cfg`. The repository's
  README (25) promises one balance account per user. Two first visits at a time, or
  one repeated after the ledger's answer was lost, create two
  (`checkout_service.py:75`; an owner's accounts are not unique in the ledger). The hub
  shows one, and a deposit is credited to either (`payment_events.py:83`).
* *Stale reserve.* `ReservedMatchesHolds` in `Ledger_overlap.cfg` with
  `SPECIFICATION Spec`: `payment.sent` writes a `reserved_balance` it read before
  it had the lock. The later `SELECT ... FOR UPDATE` does not refresh the object
  the session already has.
* *Stuck hold.* `DueHoldsFreed` in `Ledger_overlap.cfg`. After the above a hold that
  was placed in between has lost its part of `reserved_balance`. When it is due, its
  release would take the reserve below zero, the constraint refuses, and the worker's
  pass, with all its batch, fails each time. The ledger's README (605) promises that due
  holds do not keep funds.
* *Settled, then cancelled.* `SettledStays` in `Checkout_two_prepares.cfg`: a
  cancellation that loaded the session before it was settled commits its status
  over it. A test requires that a settled session is not overwritten; it makes
  the two calls one after the other.
* *Pending, and debited.* `FailedNotDebited` in `Withdrawal.cfg` with `SPECIFICATION
  Spec`: a payment that is accepted and not made yet is announced as sent and debited.
  If it fails later nothing gives the money back: the periodic job looks at incoming
  rows only (`reconciliation.py:152`). The documents disagree with each other: the
  ledger's (397-400) says that a payment is confirmed first, the PLS's (28) that acceptance
  is announced. What LNbits answers for a payment under way is outside the repository.
* *Bridge gone.* `BridgeReturns` as a `PROPERTY` in `Reconciliation.cfg`. `pls/README.md` (313)
  says that the bridge reconnects. `tenacity` repeats it after a broken connection;
  but a connection closed in order ends its `async for` without an exception, and a
  message that is no JSON, a database error of the handler or of its sweep raises
  something that is not retried. The task ends, and only `lifecycle.py` starts one.
  `DepositIsCredited` holds all the same: the job finds what the bridge misses.
* *Paid and reported as failed.* `AcceptedIsAnnounced` in `Commands_faults.cfg` with
  `Cmds = Rows = {withdrawal}`, `Sessions = Sweepers = {s1}`, no crash and no
  redelivery: the provider pays, its answer is lost, the retry is refused because
  the invoice is paid, and the command ends as failed without `payment.sent`; or the
  connection is reset after the provider paid, which is neither caught nor retried,
  and the command is gone without any report.
* *Starved invoice.* `DepositIsCredited` in `Reconciliation.cfg` with
  `Invoices = Incoming = {older, newer}`, `MaxFaults = 0`: the job takes the oldest
  pending rows, and an old invoice that nobody pays keeps a newer one, whose notice
  was lost, out of every batch of one. With the default batch of 100 it takes as
  many abandoned invoices.
* *Outgoing announced as incoming.* `OnlyIncomingAnnounced` in `Reconciliation.cfg` with
  `NotifiesOutgoing = TRUE`: the bridge does not look at the direction of the row a
  notice names. It depends on what the provider notifies.
* *No reservation.* `hub/README.md` (82) says that withdrawals have no prior reservation;
  the code has one, and `Withdrawal` models it.

The README of the repository lists two more as known limits, which the models
have and no run reports: settlements that stay half done, and withdrawals whose
`payment.sent` comes when the hold has ended (`RejectSent`). Of the first kind is a
session that is cancelled or expires after its external part was posted and
before the commit that says so: cancelling looks at the hold and at nothing else.

Three consequences of the code the models contain, or leave out, without a
property: two `payment.sent` of one user may deadlock (each locks the account's key
with its entry before it asks for the account; `LedgerLocks` has the cycle), and the
victim's message is rejected, so that a withdrawal that was paid is not debited.
A disabled application is still paid by requests under way (section 6). An
external part that is no multiple of 1000 msat, possible after prizes counted in
msat, is invoiced as fewer whole satoshis (`pls/utils.py`), and its deposit cannot
fund the session; amounts here are whole satoshis.

## 9. Proofs

Everything in this section is checked by TLAPS for all values of the constants
that satisfy the named assumptions of the modules (finite sets, positive amounts
and bounds, request bodies of the declared types).

The modules use `None` for what is not there: no row, no hold, no handler. Named assumptions
(`NoneAssumption`, `NoSession`, and conjuncts of `OutboxAssumption`, `CheckoutAssumption` and
`WithdrawalAssumption`) say that it is none of the records it stands beside, as SQL's NULL and
Python's `None` are none; TLC evaluates them with `None` a model value.

**Ledger** (`AmountFacts`, `LedgerProofs`).

* `TypeCorrect`: `TypeOK` is inductive.
* `BalancesAddUp`, `ReservedAddsUp`, `HeldFundsAreThere` (with `~Overlap`; `Checks`
  arbitrary): the inductive invariant `BooksInv` joins the three with `TypeOK`,
  `FreshReads` (what an open message read is still there, and only one message is
  open; without it nothing is known of the value a commit writes) and
  `HoldsPositive` (an active hold has a positive amount on an account; without it
  consuming a hold could raise the balance). `BooksStep` has one step per action;
  the arithmetic is in lemmas about one account: `BooksStayBalanced`,
  `HoldsEnd`, `AffordableCovers`, `ApplyKeepsBooks`, `ConsumeKeepsHolds`.
* `AppliedAtMostOnce`, `ReversedOnce`, `HistoryKept`, `HoldsEndOnce`,
  `RepliesTrue` (`Overlap` and `Checks` arbitrary): `TxnSteps` and `HoldSteps`
  reduce the fourteen actions to the few things a step can do to the transactions
  and to the holds; each property is then preserved by each of those.
* `TransfersBalance` (`Overlap` and `Checks` arbitrary): the invariant says that the entries of
  every stored transaction, not only of an applied one, are such as the validation accepts,
  those the consumer makes included. The one step where that is work is a reversal: `MirrorSums` shows that
  turning every entry round exchanges the two totals.
* `LedgerImplementsWallet` (with `~Overlap`): from `BooksInv`, which the mapping needs
  because it derives the funds from the entries and the holds, each step is shown to be
  one of `Wallet` or to stutter (`SetAsideStep`, `GiveBackStep`, `SpendStep`, `MoveStep`). That
  a transaction moves money without loss needs its lines summed account by account
  instead of entry by entry: `SumsBalance`, from the last section of `AmountFacts`. With
  `Overlap` it is false: that is finding 1.

**LedgerLocks** (`LedgerLocksProofs`): `OrderedLocksAcyclic`, for any number of
accounts, transactions, holds and handlers, ids and deadlines in any order.

* The inductive invariant `LocksInv` says that a handler of `Ordered` `GoesUp`: the
  rank of each of its locks is that of the row (`Level`), what it has is below
  what it wants, and it wants one lock of a rank. `AcquireKeeps` needs it for the
  consume that turns into an expiry, which has no lock but the hold's then.
* `NoCircle` uses it: who waits for a lock waits for a handler that has a lock on the
  same row, of the same rank, and therefore asks for a higher one. Of the handlers
  of a finite circle the one with the fewest above it has no such other.
* The handlers outside `Ordered` break one of the parts: `create_transaction` and
  `reverse_transaction` lock accounts in the order of insertion, several of one rank,
  `payment.sent` locks a row twice, the batch goes by deadlines.

**Outbox and PaymentCommands** (`OutboxProofs`, `PaymentCommandsProofs`).

* `SweepsTellTruth`: `PublishedTruthful` needs `SweepsTruthful`, that what a sweep is
  about to record is on the queue already and that it selected stored rows.
  `OutboxProofs` proves what each outbox operation keeps, and that sweeps change
  nothing about which rows exist; its lemmas are what the other module cites.
* `CommandsTyped`, `OutcomesRecorded`, `FailuresReported`: the inductive invariant adds
  `AllSound` (what the place of a handler says: a row it inserted is not
  committed, one it did not insert was found, in `saving` the provider has acted,
  in `closing` the dead letter is out) and `RowAlone` (one uncommitted row for a
  key). `RowAlone` is why a commit of one handler cannot contradict what another
  one knows. Two lemmas carry most actions: `HandlerMoves` and `HandlerGoesOn`
  say what has to be seen of a step that leaves the rows alone.
* `RedeliveriesPayOnce` (with `~Lossy` and `MaxCrashes = 0`): `PaysOnce` for any number of commands,
  handlers and redeliveries, and whatever the broker does. `OnceInv` adds to the above that the
  provider has acted on a command that was not reported as failed never, or once, and then
  the outcome is stored or a handler with the uncommitted row is about to store it
  (`Saves`); and that a handler without a row of its own repeats a reported failure
  (`Repeats`). `OnceAccepted` is the step that matters: who calls the provider has the row,
  so by `RowAlone` nobody else is saving. Both hypotheses are needed: after a crash, or a call
  whose answer was lost, the provider creates an invoice or pays an LNURL again.

**InvoiceReconciliation and Deposits** (`DepositsProofs`): `DepositsType`, `PaidIsAnnounced`,
`CreditsArePaid`, for any invoices, accounts, batch size, faults and `NotifiesOutgoing`.

* Bridge and job may each announce an invoice once, and its events are numbered in
  order. `NumbersLeft` says that a number is left for every announcement that may still
  come; without it the second one would have no row to store.
* `KnownIsSettled` says that a notice, a lookup's answer and an event are only about
  invoices the provider has seen settled, and `CreditsSound` that a message of the
  ledger's queue is a stored event and an invoice has at most one credited account.

**Checkout and Administration** (`CheckoutProofs`). The first four hold for any number of
overlapping requests, the others for requests that come one after another (`OneAtATime`), any
of which may fail at any point, be repeated, and be interrupted by the user's
other business, administrators, deadlines and the worker.

* `AdministrationType`, `OneSessionPerOrder`, `DisabledApplication`, `SessionWithinWallet`: `Funded`
  says that what a hold keeps is there and that no hold is asked for nothing; without it
  balances are not naturals. `OneSessionPerOrder` needs that no request commits the status
  `created`, `DisabledApplication` that a request which began after the disabling only cancels
  or expires (`Harmless`).
* `SessionsFundedOnce`, `SettlementPays`, `SettlementInOrder`, `CancellationGivesBack`:
  the inductive invariant `SessionInv` has the plan in the row (`RowSound`),
  the ledger's records that belong to it (`LedgerSound`: hold and transactions have the
  planned amounts, the hold is spent exactly when the internal part is posted, the
  external part follows it, the application has received what was posted), what has
  become of the money in a final state (`EndsWell`), and for the request under way what
  its place says of the row and the ledger (`Fits`). `Fits` is what lets a request that
  resumes a broken one find the hold or transaction it left.
* `OneAtATime` is not a convenience: with two preparations at a time the plan is
  torn (finding 3), and a cancellation can overwrite a settlement (section 8).

**Withdrawal** (`WithdrawalProofs`): `WithdrawalType`, `DebitsMatch`, `PaymentsCovered`,
`AnswersMatch`, `TableKept`, `WithdrawalsWithinWallet`, for any number of withdrawals, funds and
crashes.

* The inductive invariant `IInv` follows a withdrawal along the services: no command before
  the hold, no record before the payment was accepted, no reply or event before the record, a
  debit exactly when the event was applied.
* `MoneyInv` adds `Conserved`: what is free, set aside and spent comes to the user's funds.
  A sum over the withdrawals, it is kept by `CostGrows`, one hold changing its state at a
  time. It gives the type of `free` and that the total the wallet allows is never exceeded.

**Only model-checked.** Liveness (`DueHoldsFreedUnlessStale`, `DueHoldsEnd`, `OutboxDrains`,
`DepositIsCredited`, `HoldsSettle`): the prover has neither fairness nor ENABLED. That the
properties of `Checkout` hold for one request at a time and fail for two is shown by
the runs of section 6; no theorem says what remains of them when requests overlap beyond
the first four above.

## 10. Not modelled

Metrics, logging, request tracing and audit events (they decide nothing);
pages, layouts and forms of the hub (presentation around calls that are
modelled); authentication, roles and API keys (a request that fails them never
reaches a handler), except for an application's key and whether it is active;
`reconcile.py`, which reads and reports (planned); migrations and deployment files, except for the constraints they
create; wire formats and conversions of units; the provider beyond its verdicts.
