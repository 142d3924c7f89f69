---------------------------- MODULE OutboxProofs ----------------------------
(***************************************************************************)
(* What every operation of the outbox keeps, for whoever uses it: rows are  *)
(* marked as published only when they are on the queue, and sweeps neither  *)
(* create rows nor lose them.                                               *)
(***************************************************************************)
EXTENDS Outbox, TLAPS

\* A sweep publishes stored rows, and has published what it is to record.
SweepsTruthful ==
  \A w \in Sweepers : sweep[w] # None =>
    /\ sweep[w].done \subseteq bus
    /\ \A r \in sweep[w].todo : outbox[r] # "absent"

OutboxInv == OutboxTypeOK /\ PublishedTruthful /\ SweepsTruthful

\* The rows that are not stored.
Absent == {r \in Rows : outbox[r] = "absent"}

\* A step of a sweep.
SweepStep(w) ==
  \/ \E batch \in SUBSET Pending : BeginSweep(w, batch)
  \/ \E r \in Rows : PublishRow(w, r) \/ SkipRow(w, r)
  \/ EndSweep(w)

LEMMA OutboxInitHolds == OutboxInit => OutboxInv
  BY DEF OutboxInit, OutboxInv, OutboxTypeOK, PublishedTruthful, SweepsTruthful

\* Storing rows that announce something.
LEMMA EnqueueKeeps ==
  ASSUME OutboxInv, NEW R \in SUBSET Rows, Enqueue(R)
  PROVE  /\ OutboxInv'
         /\ \A r \in Rows : outbox'[r] = IF r \in R THEN "pending" ELSE outbox[r]
  BY DEF OutboxInv, OutboxTypeOK, PublishedTruthful, SweepsTruthful, Enqueue

LEMMA SweepKeeps ==
  ASSUME OutboxInv, NEW w \in Sweepers, SweepStep(w)
  PROVE  OutboxInv' /\ Absent' = Absent
<1> USE DEF OutboxInv, OutboxTypeOK, PublishedTruthful, SweepsTruthful, Absent
<1>1. ASSUME NEW batch \in SUBSET Pending, BeginSweep(w, batch)
      PROVE  OutboxInv' /\ Absent' = Absent
  <2> DEFINE S == [todo |-> batch, done |-> {}]
  <2>1. S \in [todo: SUBSET Rows, done: SUBSET Rows]
    BY DEF Pending
  <2>2. sweep' = [sweep EXCEPT ![w] = S] /\ UNCHANGED <<outbox, bus>>
    BY <1>1 DEF BeginSweep
  <2> QED
    BY <2>1, <2>2 DEF Pending
<1>2. ASSUME NEW r \in Rows, PublishRow(w, r)
      PROVE  OutboxInv' /\ Absent' = Absent
  <2> DEFINE S == [todo |-> sweep[w].todo \ {r}, done |-> sweep[w].done \cup {r}]
  <2>1. /\ sweep[w] \in [todo: SUBSET Rows, done: SUBSET Rows]
        /\ r \in sweep[w].todo
    BY <1>2 DEF PublishRow
  <2>2. /\ S \in [todo: SUBSET Rows, done: SUBSET Rows]
        /\ S.todo = sweep[w].todo \ {r} /\ S.done = sweep[w].done \cup {r}
    BY <2>1
  <2>3. /\ sweep' = [sweep EXCEPT ![w] = S]
        /\ bus' = bus \cup {r} /\ UNCHANGED outbox
    BY <1>2, <2>1 DEF PublishRow
  <2> HIDE DEF S
  <2>4. outbox[r] # "absent" /\ sweep[w] # None
    BY <1>2, <2>1 DEF PublishRow
  <2> QED
    BY <2>1, <2>2, <2>3, <2>4
<1>3. ASSUME NEW r \in Rows, SkipRow(w, r)
      PROVE  OutboxInv' /\ Absent' = Absent
  <2> DEFINE S == [todo |-> sweep[w].todo \ {r}, done |-> sweep[w].done]
  <2>1. sweep[w] \in [todo: SUBSET Rows, done: SUBSET Rows]
    BY <1>3 DEF SkipRow
  <2>2. /\ S \in [todo: SUBSET Rows, done: SUBSET Rows]
        /\ S.todo = sweep[w].todo \ {r} /\ S.done = sweep[w].done
    BY <2>1
  <2>3. sweep' = [sweep EXCEPT ![w] = S] /\ UNCHANGED <<outbox, bus>>
    BY <1>3, <2>1 DEF SkipRow
  <2> HIDE DEF S
  <2> QED
    BY <1>3, <2>1, <2>2, <2>3 DEF SkipRow
<1>4. CASE EndSweep(w)
  BY <1>4 DEF EndSweep
<1> QED
  BY <1>1, <1>2, <1>3, <1>4 DEF SweepStep

\* The death of the sweepers.
LEMMA LoseKeeps ==
  ASSUME OutboxInv, LoseSweeps
  PROVE  OutboxInv' /\ Absent' = Absent
  BY DEF OutboxInv, OutboxTypeOK, PublishedTruthful, SweepsTruthful, LoseSweeps,
         Absent

\* The end of one sweep whose statements the database refused.
LEMMA AbandonKeeps ==
  ASSUME OutboxInv, NEW w \in Sweepers, AbandonSweep(w)
  PROVE  OutboxInv' /\ Absent' = Absent
  BY DEF OutboxInv, OutboxTypeOK, PublishedTruthful, SweepsTruthful, AbandonSweep,
         Absent

\* Steps of others.
LEMMA FrameKeeps ==
  ASSUME OutboxInv, UNCHANGED outboxVars
  PROVE  OutboxInv' /\ Absent' = Absent
  BY DEF OutboxInv, OutboxTypeOK, PublishedTruthful, SweepsTruthful, outboxVars,
         Absent, Pending
=============================================================================
