----------------------------- MODULE LedgerLocks -----------------------------
(***************************************************************************)
(* The row locks the ledger's handlers take, one after another, in their    *)
(* database transactions.  Ledger has whole transactions as its actions;    *)
(* here is only what they lock, in which order, and which of them may end   *)
(* up waiting for each other.                                               *)
(*                                                                         *)
(* A handler's locks are a set of [row, mode, rank] that it takes by        *)
(* increasing rank, those of one rank in any order.  Holds come before      *)
(* transactions, and those before accounts, which are locked by their id    *)
(* (ORDER BY id FOR UPDATE).  A foreign key locks the account of an entry   *)
(* as the entry is inserted, in the order of the insertions; the worker     *)
(* locks the accounts of its batch in the order of the holds' deadlines.    *)
(***************************************************************************)
EXTENDS Integers, FiniteSets

CONSTANTS
  Accounts, Txns, Holds,  \* the rows
  Id,                     \* the order of the accounts' ids
  Legs,                   \* the accounts a transaction has entries of
  HoldAccount,            \* the account a hold is on
  Expiry,                 \* the order of the holds' deadlines
  Requests,               \* HTTP requests and messages, each handled once
  Batch,                  \* HOLD_EXPIRATION_BATCH_SIZE
  None

ASSUME LocksAssumption ==
  /\ Id \in [Accounts -> Nat] /\ Expiry \in [Holds -> Nat]
  /\ \A a, b \in Accounts : Id[a] = Id[b] => a = b
  /\ \A g, h \in Holds : Expiry[g] = Expiry[h] => g = h
  /\ Legs \in [Txns -> SUBSET Accounts] /\ HoldAccount \in [Holds -> Accounts]
  /\ Accounts \cap Txns = {} /\ Accounts \cap Holds = {} /\ Txns \cap Holds = {}
  /\ IsFiniteSet(Requests) /\ "worker" \notin Requests
  /\ Batch \in Nat \ {0}

VARIABLES
  job,    \* what a request or the worker is doing
  wants,  \* of each, the locks it has still to take
  has,    \* and the ones it has, until its transaction ends
  hold,   \* status of every hold
  due,    \* holds whose deadline has passed
  txn     \* status of every transaction

vars == <<job, wants, has, hold, due, txn>>
rows == <<hold, due, txn>>

Handlers == Requests \cup {"worker"}
Idle == [kind |-> "idle", holds |-> {}, txn |-> None]
Ended == [kind |-> "ended", holds |-> {}, txn |-> None]

Init ==
  /\ job = [p \in Handlers |-> Idle]
  /\ wants = [p \in Handlers |-> {}] /\ has = [p \in Handlers |-> {}]
  /\ hold = [h \in Holds |-> "active"]
  /\ due = {}
  /\ txn \in [Txns -> {"pending", "posted"}]

-----------------------------------------------------------------------------
(* The locks of each handler.                                              *)

Lock(row, mode, rank) == [row |-> row, mode |-> mode, rank |-> rank]
HoldLock(h) == Lock(h, "update", 0)
TxnLock(t) == Lock(t, "update", 1)

\* The foreign key of the entries a handler inserts.
EntryLocks(A) == {Lock(a, "share", 2) : a \in A}

\* Mutant: the rows are locked as the query finds them.
AnyOrderLocks(A) == {Lock(a, "update", 3) : a \in A}

AccountLocks(A) == {Lock(a, "update", 3 + Id[a]) : a \in A}

\* UPDATE of a balance that was read without a lock.
UpdateLock(a) == Lock(a, "nokey", 3 + Id[a])

BatchLocks(S) == {Lock(HoldAccount[h], "update", 3 + Expiry[h]) : h \in S}

PostLocks(t) == {TxnLock(t)} \cup AccountLocks(Legs[t])
ReverseLocks(t) == PostLocks(t) \cup EntryLocks(Legs[t])
ConsumeLocks(h, t) == {HoldLock(h)} \cup PostLocks(t)
EndHoldLocks(h) == {HoldLock(h)} \cup AccountLocks({HoldAccount[h]})
SentLocks(h) == EndHoldLocks(h) \cup EntryLocks({HoldAccount[h]})

-----------------------------------------------------------------------------
(* Who waits for whom.                                                     *)

Conflict(m, n) == "update" \in {m, n} \/ (m = "nokey" /\ n = "nokey")
Clash(k, l) == k.row = l.row /\ Conflict(k.mode, l.mode)

\* The locks p may ask for next.
Asks(p) == {k \in wants[p] : \A l \in wants[p] : k.rank <= l.rank}
Blockers(p, k) == {q \in Handlers \ {p} : \E l \in has[q] : Clash(k, l)}

Waiting == {p \in Handlers : /\ Asks(p) # {}
                             /\ \A k \in Asks(p) : Blockers(p, k) # {}}

\* Everyone in S waits for someone in S, and in a cycle for exactly one.
Stuck(S) == \A p \in S : \A k \in Asks(p) : Blockers(p, k) \cap S # {}
Cycles == {S \in SUBSET Waiting : /\ S # {} /\ Stuck(S)
                                  /\ \A R \in SUBSET S : Stuck(R) => R \in {{}, S}}

-----------------------------------------------------------------------------
(* A handler's transaction: it begins, takes its locks, looks at the rows   *)
(* it has locked and commits; or gives up; or the database picks it as the  *)
(* victim of a deadlock.                                                    *)

Job(kind, S, t) == [kind |-> kind, holds |-> S, txn |-> t]

Begin(p, work, locks) ==
  /\ job[p] = Idle
  /\ job' = [job EXCEPT ![p] = work]
  /\ wants' = [wants EXCEPT ![p] = locks]
  /\ UNCHANGED <<has, rows>>

\* The request is answered, or the worker sleeps; the locks are gone.
Leave(p) ==
  /\ job' = [job EXCEPT ![p] = IF p = "worker" THEN Idle ELSE Ended]
  /\ wants' = [wants EXCEPT ![p] = {}] /\ has' = [has EXCEPT ![p] = {}]

\* The rows of a new transaction or hold are nobody else's before the commit,
\* and are left out.
Create(p, A) == A # {} /\ Begin(p, Job("create", {}, None), EntryLocks(A))
CreateHold(p, a) == Begin(p, Job("hold", {}, None), AccountLocks({a}))

Post(p, t) == Begin(p, Job("post", {}, t), PostLocks(t))
Reverse(p, t) == Begin(p, Job("reverse", {}, t), ReverseLocks(t))

\* A release, or the expiry of one hold.
EndHold(p, h) == Begin(p, Job("end", {h}, None), EndHoldLocks(h))
Consume(p, h, t) == Begin(p, Job("consume", {h}, t), ConsumeLocks(h, t))

InvoicePaid(p, a) == Begin(p, Job("paid", {}, None), {UpdateLock(a)})
\* A hold that has ended is not found, and the message is rejected.
PaymentSent(p, h) ==
  hold[h] = "active" /\ Begin(p, Job("sent", {h}, None), SentLocks(h))

\* FOR UPDATE SKIP LOCKED, of the first that are due.
Unlocked == {h \in due : hold[h] = "active" /\
                         \A q \in Handlers : HoldLock(h) \notin has[q]}
First(S) == {h \in S : Cardinality({g \in S : Expiry[g] < Expiry[h]}) < Batch}
ExpireDue(p) ==
  LET S == IF p = "worker" THEN First(Unlocked) ELSE Unlocked
  IN  /\ job[p] = Idle /\ S # {}
      /\ job' = [job EXCEPT ![p] = Job("batch", S, None)]
      /\ has' = [has EXCEPT ![p] = {HoldLock(h) : h \in S}]
      /\ wants' = [wants EXCEPT ![p] = BatchLocks(S)]
      /\ UNCHANGED rows

\* What p has locked is as it has to be.
Expected == [post |-> "pending", consume |-> "pending", reverse |-> "posted"]
Valid(p) ==
  /\ \A h \in job[p].holds : HoldLock(h) \in has[p] => hold[h] = "active"
  /\ \A t \in {job[p].txn} \ {None} :
       TxnLock(t) \in has[p] => txn[t] = Expected[job[p].kind]

\* A hold that turns out to be due is expired instead of consumed.
Acquire(p, k) ==
  LET expires == job[p].kind = "consume" /\ k.row \in due
  IN  /\ k \in Asks(p) /\ Blockers(p, k) = {} /\ Valid(p)
      /\ has' = [has EXCEPT ![p] = @ \cup {k}]
      /\ job' = IF expires THEN [job EXCEPT ![p] = Job("end", {k.row}, None)]
                ELSE job
      /\ wants' = [wants EXCEPT ![p] =
           IF expires THEN AccountLocks({HoldAccount[k.row]}) ELSE @ \ {k}]
      /\ UNCHANGED rows

GiveUp(p) == ~Valid(p) /\ Leave(p) /\ UNCHANGED rows

Outcome == [post |-> "posted", consume |-> "posted", reverse |-> "reversed"]
Commit(p) ==
  /\ has[p] # {} /\ wants[p] = {} /\ Valid(p)
  /\ hold' = [h \in Holds |->
                IF h \in job[p].holds THEN "ended" ELSE hold[h]]
  /\ txn' = [t \in Txns |->
               IF t = job[p].txn THEN Outcome[job[p].kind] ELSE txn[t]]
  /\ Leave(p)
  /\ UNCHANGED due

InDeadlock(p) == p \in UNION Cycles

\* Mutant: the exception ends the worker's loop.
VictimForEver(p) ==
  /\ InDeadlock(p)
  /\ job' = [job EXCEPT ![p] = Ended]
  /\ wants' = [wants EXCEPT ![p] = {}] /\ has' = [has EXCEPT ![p] = {}]
  /\ UNCHANGED rows

\* The transaction is rolled back: a request is answered 500, a message is
\* rejected, the worker logs the exception and goes on.
Victim(p) == InDeadlock(p) /\ Leave(p) /\ UNCHANGED rows

TimePasses(h) ==
  /\ hold[h] = "active" /\ h \notin due
  /\ due' = due \cup {h}
  /\ UNCHANGED <<job, wants, has, hold, txn>>

-----------------------------------------------------------------------------
Arrives(p) ==
  \/ \E A \in SUBSET Accounts : Create(p, A)
  \/ \E t \in Txns : Post(p, t) \/ Reverse(p, t)
  \/ \E h \in Holds : EndHold(p, h) \/ PaymentSent(p, h)
  \/ \E h \in Holds, t \in Txns : Consume(p, h, t)
  \/ \E a \in Accounts : CreateHold(p, a) \/ InvoicePaid(p, a)
  \/ ExpireDue(p)

Step(p) == (\E k \in wants[p] : Acquire(p, k)) \/ GiveUp(p) \/ Commit(p) \/ Victim(p)

Next ==
  \/ \E p \in Requests : Arrives(p)
  \/ ExpireDue("worker")
  \/ \E p \in Handlers : Step(p)
  \/ \E h \in Holds : TimePasses(h)

Spec == Init /\ [][Next]_vars

\* A transaction that has begun goes on, the database breaks deadlocks, and
\* the worker's loop runs for ever.
FairSpec ==
  /\ Spec
  /\ \A p \in Handlers : WF_vars(Step(p))
  /\ WF_vars(ExpireDue("worker"))

-----------------------------------------------------------------------------
(* Properties.                                                             *)

\* Posting, consuming, releasing and creating holds, and deposits, never
\* deadlock with each other: whoever waits in a cycle, somebody in it inserts
\* entries before it locks their accounts, or locks a batch of holds.
Ordered == {"post", "consume", "end", "hold", "paid"}
OrderedNeverDeadlock ==
  \A S \in Cycles : \E p \in S : job[p].kind \notin Ordered

\* The deadline of a hold ends it, although the worker skips locked holds and
\* may be the victim of deadlocks with those who hold the accounts.
DueHoldsEnd == \A h \in Holds : h \in due ~> hold[h] = "ended"
=============================================================================
