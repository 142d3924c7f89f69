------------------------------- MODULE Outbox -------------------------------
(***************************************************************************)
(* The transactional outbox of the PLS.  A row is stored by the transaction *)
(* whose effect it announces.  A sweep selects pending rows without locking *)
(* them, publishes them one by one and commits at its end that it did; so   *)
(* sweeps overlap, and a crash loses the record of what was published.      *)
(***************************************************************************)
EXTENDS Integers, FiniteSets

CONSTANTS
  Rows,         \* ids of outbox events
  Sweepers,     \* tasks that sweep
  BatchSize,    \* OUTBOX_PUBLISH_BATCH_SIZE
  BrokerFails,  \* TRUE: publishing a message may raise
  None

ASSUME OutboxAssumption ==
  /\ IsFiniteSet(Rows) /\ BatchSize \in Nat \ {0} /\ BrokerFails \in BOOLEAN
  /\ None \notin [todo: SUBSET Rows, done: SUBSET Rows]

VARIABLES
  outbox,  \* status of every row, absent before it is stored
  bus,     \* events that reached the queue, at least once
  sweep    \* of every sweeper: rows still to publish, rows published

outboxVars == <<outbox, bus, sweep>>

OutboxInit ==
  /\ outbox = [r \in Rows |-> "absent"]
  /\ bus = {}
  /\ sweep = [w \in Sweepers |-> None]

\* Part of the transaction whose effect the rows R announce.
Enqueue(R) ==
  /\ \A r \in R : outbox[r] = "absent"
  /\ outbox' = [r \in Rows |-> IF r \in R THEN "pending" ELSE outbox[r]]
  /\ UNCHANGED <<bus, sweep>>

Pending == {r \in Rows : outbox[r] = "pending"}

\* The batch is the oldest rows by created_at, the start of the transaction
\* that stored them: that is any order of their commits.
BeginSweep(w, batch) ==
  /\ sweep[w] = None
  /\ batch \subseteq Pending
  /\ Cardinality(batch) = BatchSize \/ batch = Pending
  /\ Cardinality(batch) <= BatchSize
  /\ sweep' = [sweep EXCEPT ![w] = [todo |-> batch, done |-> {}]]
  /\ UNCHANGED <<outbox, bus>>

PublishRow(w, r) ==
  /\ sweep[w] # None /\ r \in sweep[w].todo
  /\ bus' = bus \cup {r}
  /\ sweep' = [sweep EXCEPT ![w] = [todo |-> @.todo \ {r},
                                     done |-> @.done \cup {r}]]
  /\ UNCHANGED outbox

\* The broker raised: the row stays pending and the sweep goes on.
SkipRow(w, r) ==
  /\ BrokerFails
  /\ sweep[w] # None /\ r \in sweep[w].todo
  /\ sweep' = [sweep EXCEPT ![w] = [todo |-> @.todo \ {r}, done |-> @.done]]
  /\ UNCHANGED <<outbox, bus>>

\* Mutant: the whole batch is marked, with the rows that were skipped.
MarkPending(w) ==
  /\ sweep[w] # None /\ sweep[w].todo = {}
  /\ outbox' = [r \in Rows |->
                  IF outbox[r] = "pending" THEN "published" ELSE outbox[r]]
  /\ sweep' = [sweep EXCEPT ![w] = None]
  /\ UNCHANGED bus

EndSweep(w) ==
  /\ sweep[w] # None /\ sweep[w].todo = {}
  /\ outbox' = [r \in Rows |->
                  IF r \in sweep[w].done THEN "published" ELSE outbox[r]]
  /\ sweep' = [sweep EXCEPT ![w] = None]
  /\ UNCHANGED bus

\* The database refuses the sweep's statements: what it published stays pending.
AbandonSweep(w) ==
  /\ sweep' = [sweep EXCEPT ![w] = None]
  /\ UNCHANGED <<outbox, bus>>

\* The process dies in the middle of its sweeps.
LoseSweeps ==
  /\ sweep' = [w \in Sweepers |-> None]
  /\ UNCHANGED <<outbox, bus>>

OutboxTypeOK ==
  /\ outbox \in [Rows -> {"absent", "pending", "published"}]
  /\ bus \subseteq Rows
  /\ sweep \in [Sweepers -> {None} \cup [todo: SUBSET Rows, done: SUBSET Rows]]

\* A row is marked as published only when its message is on the queue, and no
\* message is on the queue that no committed transaction stored.
PublishedTruthful ==
  /\ \A r \in Rows : outbox[r] = "published" => r \in bus
  /\ \A r \in bus : outbox[r] # "absent"
=============================================================================
