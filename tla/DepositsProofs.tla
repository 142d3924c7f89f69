--------------------------- MODULE DepositsProofs ---------------------------
(***************************************************************************)
(* Theorems about deposits, for every set of invoices and accounts, every   *)
(* batch size and every number of faults.                                   *)
(***************************************************************************)
EXTENDS Deposits, OutboxProofs, FiniteSetTheorems

Stored(i, n) == outbox[<<i, n>>] # "absent"

\* What may still announce an invoice: a notice, now or to come, and the job.
BridgeLeft(i) == i \notin settled \/ <<i, "success">> \in notices
JobLeft(i) == invoice[i] # "paid" \/ i \in todo \cup found

\* The events of an invoice are numbered in order, and there is a number left
\* for each announcement that may still come.
NumbersLeft ==
  \A i \in Invoices :
    /\ Stored(i, 2) => Stored(i, 1)
    /\ BridgeLeft(i) /\ JobLeft(i) => ~Stored(i, 1)
    /\ BridgeLeft(i) \/ JobLeft(i) => ~Stored(i, 2)

\* Whatever the PLS knows or announces as paid the provider has seen settled.
KnownIsSettled ==
  /\ \A i \in Invoices : <<i, "success">> \in notices => i \in settled
  /\ found \subseteq settled
  /\ \A i \in Invoices, n \in {1, 2} : Stored(i, n) => i \in settled

ReconciliationInv ==
  TypeOK /\ NumbersLeft /\ KnownIsSettled /\ PaidHasEvent

\* An invoice has at most one credit, and only stored events are credited.
CreditsSound ==
  /\ \A r \in queue : r \in Rows /\ outbox[r] # "absent"
  /\ \A i \in Invoices : credit[i] # {} =>
       i \in settled /\ \E a \in Accounts : credit[i] = {a}

DepositsInv == OutboxInv /\ ReconciliationInv /\ DTypeOK /\ CreditsSound

-----------------------------------------------------------------------------
(* The reconciliation of invoices.                                         *)

\* A step that stores no event: the same rows are stored after it.
LEMMA StoredSame ==
  ASSUME OutboxTypeOK, OutboxTypeOK', Absent' = Absent,
         NEW i \in Invoices, NEW n \in {1, 2}
  PROVE  Stored(i, n)' <=> Stored(i, n)
<1>1. <<i, n>> \in Rows
  BY ReconciliationAssumption
<1> QED
  BY <1>1 DEF Stored, Absent

\* Marking invoices that have a number left stores one event for each, under
\* the next number.
LEMMA MarkPaidStores ==
  ASSUME OutboxInv, NumbersLeft, NEW I \in SUBSET Invoices,
         \A i \in I : BridgeLeft(i) \/ JobLeft(i), MarkPaid(I)
  PROVE  /\ OutboxInv'
         /\ \A i \in Invoices :
              /\ Stored(i, 1)' <=> Stored(i, 1) \/ i \in I
              /\ Stored(i, 2)' <=> Stored(i, 2) \/ (i \in I /\ Stored(i, 1))
<1> DEFINE R == {NextEvent(i) : i \in I}
<1>1. ASSUME NEW i \in I
      PROVE  NextEvent(i) = IF Stored(i, 1) THEN <<i, 2>> ELSE <<i, 1>>
  <2>1. ~Stored(i, 2)
    BY DEF NumbersLeft
  <2>2. Unannounced(i) = IF Stored(i, 1) THEN {2} ELSE {1, 2}
    BY <2>1 DEF Unannounced, Stored
  <2>3. PICK k : k = CHOOSE n \in Unannounced(i) : \A m \in Unannounced(i) : n <= m
    OBVIOUS
  <2>4. k = IF Stored(i, 1) THEN 2 ELSE 1
    <3>1. \E n \in Unannounced(i) : \A m \in Unannounced(i) : n <= m
      <4>1. CASE Stored(i, 1)
        BY <2>2, <4>1
      <4>2. CASE ~Stored(i, 1)
        <5>1. 1 \in Unannounced(i) /\ \A m \in Unannounced(i) : 1 <= m
          BY <2>2, <4>2
        <5> QED
          BY <5>1
      <4> QED
        BY <4>1, <4>2
    <3>2. k \in Unannounced(i) /\ \A m \in Unannounced(i) : k <= m
      BY <2>3, <3>1
    <3> QED
      BY <2>2, <3>2
  <2> QED
    BY <2>3, <2>4 DEF NextEvent
<1>2. R \in SUBSET Rows
  BY <1>1, ReconciliationAssumption
<1>3. OutboxInv' /\ \A r \in Rows : outbox'[r] = IF r \in R THEN "pending" ELSE outbox[r]
  BY <1>2, EnqueueKeeps DEF MarkPaid
<1>4. ASSUME NEW i \in Invoices
      PROVE  /\ <<i, 1>> \in R <=> i \in I /\ ~Stored(i, 1)
             /\ <<i, 2>> \in R <=> i \in I /\ Stored(i, 1)
             /\ <<i, 1>> \in Rows /\ <<i, 2>> \in Rows
  BY <1>1, ReconciliationAssumption
<1> HIDE DEF R
<1> QED
  BY <1>3, <1>4 DEF Stored, NumbersLeft

\* Faults are counted up to their bound.
LEMMA FaultCounted ==
  ASSUME TypeOK, Fault
  PROVE  faults' \in 0 .. MaxFaults
<1>1. faults \in Nat /\ MaxFaults \in Nat /\ faults < MaxFaults /\ faults' = faults + 1
  BY ReconciliationAssumption DEF TypeOK, Fault
<1> QED
  BY <1>1

LEMMA GotoType ==
  ASSUME TypeOK, NEW w \in Sweepers,
         NEW place \in {"idle", "looking", "sweep", "sweeping", "ended"},
         Goto(w, place)
  PROVE  at' \in [Sweepers -> {"idle", "looking", "sweep", "sweeping", "ended"}]
BY DEF TypeOK, Goto

\* A step that announces nothing, and makes nobody announce more than before.
LEMMA QuietKeeps ==
  ASSUME OutboxInv, ReconciliationInv, OutboxInv', Absent' = Absent, TypeOK',
         \A i \in Invoices : BridgeLeft(i)' => BridgeLeft(i),
         \A i \in Invoices : JobLeft(i)' => JobLeft(i),
         settled \subseteq settled',
         \A i \in Invoices : <<i, "success">> \in notices' => i \in settled',
         found' \subseteq settled',
         \A i \in Incoming : invoice'[i] = "paid" <=> invoice[i] = "paid"
  PROVE  ReconciliationInv'
<1> USE DEF ReconciliationInv
<1>1. \A i \in Invoices, n \in {1, 2} : Stored(i, n)' <=> Stored(i, n)
  BY StoredSame DEF OutboxInv
<1>2. \A i \in Invoices : /\ Stored(i, 1)' <=> Stored(i, 1)
                          /\ Stored(i, 2)' <=> Stored(i, 2)
  BY <1>1
<1>3. NumbersLeft'
  <2> SUFFICES ASSUME NEW i \in Invoices
               PROVE  /\ Stored(i, 2)' => Stored(i, 1)'
                      /\ BridgeLeft(i)' /\ JobLeft(i)' => ~Stored(i, 1)'
                      /\ BridgeLeft(i)' \/ JobLeft(i)' => ~Stored(i, 2)'
    BY DEF NumbersLeft
  <2> QED
    BY <1>2 DEF NumbersLeft
<1>4. KnownIsSettled'
  BY <1>1 DEF KnownIsSettled
<1>5. PaidHasEvent'
  <2> SUFFICES ASSUME NEW i \in Incoming
               PROVE  invoice'[i] = "paid" <=> \E n \in {1, 2} : Stored(i, n)'
    BY DEF PaidHasEvent, Stored
  <2>1. invoice[i] = "paid" <=> \E n \in {1, 2} : Stored(i, n)
    BY DEF PaidHasEvent, Stored
  <2> QED
    BY <1>1, <2>1, ReconciliationAssumption
<1> QED
  BY <1>3, <1>4, <1>5

\* A step that marks invoices as paid, whose announcement it uses up.
UsesUp(I) ==
  \A i \in I : \/ BridgeLeft(i) /\ ~BridgeLeft(i)'
               \/ JobLeft(i) /\ ~JobLeft(i)'

LEMMA MarkPaidKeeps ==
  ASSUME OutboxInv, ReconciliationInv, TypeOK', NEW I \in SUBSET Invoices,
         I \subseteq settled, MarkPaid(I), settled' = settled,
         \A i \in Invoices : BridgeLeft(i)' => BridgeLeft(i),
         \A i \in Invoices : JobLeft(i)' => JobLeft(i),
         UsesUp(I), notices' \subseteq notices, found' \subseteq found
  PROVE  OutboxInv' /\ ReconciliationInv'
<1> USE DEF ReconciliationInv
<1>1. /\ OutboxInv'
      /\ \A i \in Invoices :
           /\ Stored(i, 1)' <=> Stored(i, 1) \/ i \in I
           /\ Stored(i, 2)' <=> Stored(i, 2) \/ (i \in I /\ Stored(i, 1))
  <2>1. \A i \in I : BridgeLeft(i) \/ JobLeft(i)
    BY DEF UsesUp
  <2> QED
    BY <2>1, MarkPaidStores
<1>2. NumbersLeft'
  <2> SUFFICES ASSUME NEW i \in Invoices
               PROVE  /\ Stored(i, 2)' => Stored(i, 1)'
                      /\ BridgeLeft(i)' /\ JobLeft(i)' => ~Stored(i, 1)'
                      /\ BridgeLeft(i)' \/ JobLeft(i)' => ~Stored(i, 2)'
    BY DEF NumbersLeft
  <2> QED
    BY <1>1 DEF NumbersLeft, UsesUp
<1>3. KnownIsSettled'
  <2>1. \A i \in Invoices, n \in {1, 2} : Stored(i, n)' => i \in settled
    <3> SUFFICES ASSUME NEW i \in Invoices, NEW n \in {1, 2}, Stored(i, n)'
                 PROVE  i \in settled
      OBVIOUS
    <3>1. Stored(i, 1) \/ Stored(i, 2) => i \in settled
      BY DEF KnownIsSettled
    <3>2. n = 1 \/ n = 2
      OBVIOUS
    <3> QED
      BY <1>1, <3>1, <3>2
  <2> QED
    BY <2>1 DEF KnownIsSettled
<1>4. PaidHasEvent'
  <2> SUFFICES ASSUME NEW i \in Incoming
               PROVE  invoice'[i] = "paid" <=> \E n \in {1, 2} : Stored(i, n)'
    BY DEF PaidHasEvent, Stored
  <2>1. invoice[i] = "paid" <=> Stored(i, 1) \/ Stored(i, 2)
    BY DEF PaidHasEvent, Stored
  <2>2. i \in Invoices
    BY ReconciliationAssumption
  <2>3. invoice'[i] = "paid" <=> invoice[i] = "paid" \/ i \in I
    BY <2>2 DEF MarkPaid
  <2> QED
    BY <1>1, <2>1, <2>2, <2>3
<1> QED
  BY <1>1, <1>2, <1>3, <1>4

\* The steps of a sweep.
LEMMA SweepOutboxKeeps ==
  ASSUME OutboxInv, ReconciliationInv, NEW w \in Sweepers, SweepOutbox(w)
  PROVE  /\ OutboxInv' /\ ReconciliationInv' /\ Absent' = Absent
         /\ UNCHANGED <<invoice, settled, notices, todo, found>>
<1>1. SweepStep(w) /\ UNCHANGED <<invoice, settled, notices, todo, found>>
  BY DEF SweepOutbox, SweepStep
<1>2. OutboxInv' /\ Absent' = Absent
  BY <1>1, SweepKeeps
<1>3. TypeOK'
  <2>1. faults' = faults \/ Fault
    BY DEF SweepOutbox
  <2>2. at' = at \/ Goto(w, "sweeping") \/ Goto(w, "idle")
    BY DEF SweepOutbox
  <2>3. /\ faults' \in 0 .. MaxFaults
        /\ at' \in [Sweepers -> {"idle", "looking", "sweep", "sweeping", "ended"}]
    BY <2>1, <2>2, FaultCounted, GotoType DEF ReconciliationInv, TypeOK
  <2> QED
    BY <1>1, <1>2, <2>3 DEF ReconciliationInv, TypeOK, OutboxInv
<1>4. ReconciliationInv'
  BY <1>1, <1>2, <1>3, QuietKeeps DEF BridgeLeft, JobLeft, ReconciliationInv,
                                     KnownIsSettled
<1> QED
  BY <1>1, <1>2, <1>4

\* Every step of the reconciliation keeps its invariant; a step that only
\* counts a fault does, too.
LEMMA ReconciliationStep ==
  ASSUME OutboxInv, ReconciliationInv
  PROVE  /\ Next => OutboxInv' /\ ReconciliationInv'
         /\ Fault /\ UNCHANGED <<outboxVars, invoice, settled, notices, at, todo,
                               found>>
              => OutboxInv' /\ ReconciliationInv'
<1> USE DEF ReconciliationInv
<1> DEFINE Good == OutboxInv' /\ ReconciliationInv'
<1>1. ASSUME NEW i \in Invoices, NEW status \in {"pending", "paid"},
             StoreInvoice(i, status)
      PROVE  Good
  <2>1. OutboxInv' /\ Absent' = Absent
    BY <1>1, FrameKeeps DEF StoreInvoice
  <2>2. TypeOK'
    BY <1>1, <2>1 DEF StoreInvoice, TypeOK, OutboxInv
  <2>3. /\ \A j \in Invoices : JobLeft(j)' => JobLeft(j)
        /\ \A j \in Incoming : invoice'[j] = "paid" <=> invoice[j] = "paid"
    BY <1>1, ReconciliationAssumption DEF StoreInvoice, JobLeft, TypeOK
  <2> QED
    BY <1>1, <2>1, <2>2, <2>3, QuietKeeps DEF StoreInvoice, BridgeLeft, KnownIsSettled
<1>2. ASSUME NEW i \in Invoices, ProviderSettles(i) \/ ProviderReports(i)
      PROVE  Good
  <2>1. UNCHANGED <<outboxVars, invoice, at, todo, found, faults>>
    BY <1>2 DEF ProviderSettles, ProviderReports
  <2>2. OutboxInv' /\ Absent' = Absent
    BY <2>1, FrameKeeps
  <2>3. \/ /\ settled' = settled \cup {i} /\ i \notin settled
           /\ notices' = notices \/ notices' = notices \cup {<<i, "success">>}
        \/ settled' = settled /\ notices' = notices \cup {<<i, "other">>}
    BY <1>2 DEF ProviderSettles, ProviderReports
  <2>4. TypeOK'
    BY <2>1, <2>2, <2>3 DEF TypeOK, OutboxInv
  <2>5. \A j \in Invoices :
          <<j, "success">> \in notices' => <<j, "success">> \in notices
                                           \/ (j = i /\ i \notin settled /\ i \in settled')
    BY <2>3
  <2>6. settled \subseteq settled'
    BY <2>3
  <2>7. \A j \in Invoices : BridgeLeft(j)' => BridgeLeft(j)
    BY <2>5, <2>6 DEF BridgeLeft
  <2> QED
    BY <2>1, <2>2, <2>4, <2>5, <2>6, <2>7, QuietKeeps DEF JobLeft, KnownIsSettled
<1>3. ASSUME NEW notice \in notices, BridgeHandles(notice)
      PROVE  Good
  <2>1. PICK I \in SUBSET Invoices :
          /\ I = IF Confirms(notice) THEN {notice[1]} ELSE {}
          /\ MarkPaid(I)
    BY <1>3 DEF BridgeHandles, TypeOK
  <2>2. /\ notices' = notices \ {notice} /\ Goto("bridge", "sweep")
        /\ UNCHANGED <<settled, todo, found, faults>>
    BY <1>3 DEF BridgeHandles
  <2>3. \A i \in I : notice = <<i, "success">> /\ i \in settled
    BY <2>1 DEF Confirms, TypeOK, KnownIsSettled
  <2>4. /\ \A i \in Invoices : BridgeLeft(i)' => BridgeLeft(i)
        /\ \A i \in I : BridgeLeft(i) /\ ~BridgeLeft(i)'
    BY <2>2, <2>3 DEF BridgeLeft
  <2>5. \A i \in Invoices : invoice[i] = "paid" => invoice'[i] = "paid"
    BY <2>1 DEF MarkPaid
  <2>6. \A i \in Invoices : JobLeft(i)' => JobLeft(i)
    BY <2>2, <2>5 DEF JobLeft
  <2>7. OutboxInv'
    BY <2>1, <2>4, MarkPaidStores
  <2>8. TypeOK'
    <3>1. at' \in [Sweepers -> {"idle", "looking", "sweep", "sweeping", "ended"}]
      BY <2>2, GotoType, ReconciliationAssumption
    <3>2. invoice' \in [Invoices -> {"none", "pending", "paid"}]
      BY <2>1 DEF MarkPaid, TypeOK
    <3> QED
      BY <2>2, <2>7, <3>1, <3>2 DEF TypeOK, OutboxInv
  <2>9. /\ I \subseteq settled /\ settled' = settled
        /\ notices' \subseteq notices /\ found' \subseteq found
    BY <2>2, <2>3
  <2>10. UsesUp(I)
    BY <2>2, <2>3 DEF UsesUp, BridgeLeft
  <2>11. MarkPaid(I) /\ I \in SUBSET Invoices
    BY <2>1
  <2> QED
    BY <2>4, <2>6, <2>8, <2>9, <2>10, <2>11, MarkPaidKeeps
<1>4. ASSUME JobBegins
      PROVE  Good
  <2>1. /\ todo' = Oldest(PendingInvoices) /\ found' = {} /\ Goto("job", "looking")
        /\ UNCHANGED <<outboxVars, invoice, settled, notices, faults>>
    BY <1>4 DEF JobBegins
  <2>2. OutboxInv' /\ Absent' = Absent
    BY <2>1, FrameKeeps
  <2>3. \A i \in todo' : i \in Incoming /\ invoice[i] = "pending"
    BY <2>1 DEF Oldest, PendingInvoices
  <2>4. TypeOK'
    <3>1. at' \in [Sweepers -> {"idle", "looking", "sweep", "sweeping", "ended"}]
      BY <2>1, GotoType, ReconciliationAssumption
    <3> QED
      BY <2>1, <2>2, <2>3, <3>1 DEF TypeOK, OutboxInv
  <2> QED
    BY <2>1, <2>2, <2>3, <2>4, QuietKeeps DEF JobLeft, BridgeLeft, KnownIsSettled
<1>5. ASSUME NEW i \in Invoices, JobLooksUp(i)
      PROVE  Good
  <2>1. /\ i \in todo /\ todo' = todo \ {i} /\ found \subseteq found'
        /\ found' = found \/ (i \in settled /\ found' = found \cup {i})
        /\ UNCHANGED faults \/ Fault
        /\ UNCHANGED <<outboxVars, invoice, settled, notices, at>>
    BY <1>5 DEF JobLooksUp
  <2>2. OutboxInv' /\ Absent' = Absent
    BY <2>1, FrameKeeps
  <2>3. TypeOK'
    BY <2>1, <2>2, FaultCounted DEF TypeOK, OutboxInv
  <2> QED
    BY <2>1, <2>2, <2>3, QuietKeeps DEF JobLeft, BridgeLeft, KnownIsSettled
<1>6. ASSUME JobCommits
      PROVE  Good
  <2>1. /\ todo = {} /\ MarkPaid(found) /\ found' = {}
        /\ Goto("job", "idle") \/ Goto("job", "sweep")
        /\ UNCHANGED <<settled, notices, todo, faults>>
    BY <1>6 DEF JobCommits
  <2>2. found \in SUBSET Invoices /\ found \subseteq settled
    BY ReconciliationAssumption DEF TypeOK, KnownIsSettled
  <2>3. /\ \A i \in Invoices : invoice[i] = "paid" => invoice'[i] = "paid"
        /\ \A i \in found : invoice'[i] = "paid"
    BY <2>1, <2>2 DEF MarkPaid
  <2>4. /\ \A i \in Invoices : BridgeLeft(i)' => BridgeLeft(i)
        /\ \A i \in Invoices : JobLeft(i)' => JobLeft(i)
        /\ \A i \in found : JobLeft(i) /\ ~JobLeft(i)'
        /\ UsesUp(found)
    BY <2>1, <2>2, <2>3 DEF BridgeLeft, JobLeft, UsesUp
  <2>5. OutboxInv'
    BY <2>1, <2>2, <2>4, MarkPaidStores
  <2>6. TypeOK'
    <3>1. at' \in [Sweepers -> {"idle", "looking", "sweep", "sweeping", "ended"}]
      BY <2>1, GotoType, ReconciliationAssumption
    <3>2. invoice' \in [Invoices -> {"none", "pending", "paid"}]
      BY <2>1 DEF MarkPaid, TypeOK
    <3> QED
      BY <2>1, <2>5, <3>1, <3>2 DEF TypeOK, OutboxInv
  <2> QED
    BY <2>1, <2>2, <2>4, <2>6, MarkPaidKeeps
<1>7. ASSUME JobAbandons \/ BridgeEnds \/ Crash
      PROVE  Good
  <2>1. /\ Fault /\ UNCHANGED <<invoice, settled>>
        /\ notices' \subseteq notices /\ todo' \subseteq todo /\ found' \subseteq found
    BY <1>7 DEF JobAbandons, BridgeEnds, Crash
  <2>2. AbandonSweep("job") \/ AbandonSweep("bridge") \/ LoseSweeps
    BY <1>7 DEF JobAbandons, BridgeEnds, Crash
  <2>3. OutboxInv' /\ Absent' = Absent
    BY <2>2, AbandonKeeps, LoseKeeps, ReconciliationAssumption
  <2>4. at' \in [Sweepers -> {"idle", "looking", "sweep", "sweeping", "ended"}]
    <3>1. CASE Crash
      BY <3>1 DEF Crash
    <3>2. CASE JobAbandons \/ BridgeEnds
      BY <3>2, GotoType, ReconciliationAssumption DEF JobAbandons, BridgeEnds
    <3> QED
      BY <1>7, <3>1, <3>2
  <2>5. TypeOK'
    BY <2>1, <2>3, <2>4, FaultCounted DEF TypeOK, OutboxInv
  <2> QED
    BY <2>1, <2>3, <2>5, QuietKeeps DEF JobLeft, BridgeLeft, KnownIsSettled
<1>8. ASSUME NEW w \in Sweepers, SweepOutbox(w)
      PROVE  Good
  BY <1>8, SweepOutboxKeeps
<1>9. ASSUME Fault, UNCHANGED <<outboxVars, invoice, settled, notices, at, todo, found>>
      PROVE  Good
  <2>1. OutboxInv' /\ Absent' = Absent
    BY <1>9, FrameKeeps
  <2>2. TypeOK'
    BY <1>9, <2>1, FaultCounted DEF TypeOK, OutboxInv
  <2> QED
    BY <1>9, <2>1, <2>2, QuietKeeps DEF JobLeft, BridgeLeft, KnownIsSettled
<1> HIDE DEF Good
<1>10. Next => Good
  <2>1. JobStep => Good
    BY <1>4, <1>5, <1>6, <1>7, <1>8, ReconciliationAssumption DEF JobStep
  <2> QED
    BY <1>1, <1>2, <1>3, <1>7, <1>8, <2>1, ReconciliationAssumption DEF Next
<1> QED
  BY <1>9, <1>10 DEF Good
-----------------------------------------------------------------------------
(* Deposits.                                                               *)

LEMMA InitHolds == Init => OutboxInv /\ ReconciliationInv
<1> SUFFICES ASSUME Init PROVE OutboxInv /\ ReconciliationInv
  OBVIOUS
<1>1. OutboxInv
  BY OutboxInitHolds DEF Init
<1>2. TypeOK
  BY <1>1, ReconciliationAssumption DEF Init, TypeOK, OutboxInv
<1>3. \A i \in Invoices, n \in {1, 2} : outbox[<<i, n>>] = "absent"
  BY ReconciliationAssumption DEF Init, OutboxInit
<1>4. NumbersLeft /\ KnownIsSettled
  BY <1>3 DEF Init, NumbersLeft, KnownIsSettled, Stored
<1>5. PaidHasEvent
  BY <1>3, ReconciliationAssumption DEF Init, PaidHasEvent
<1> QED
  BY <1>1, <1>2, <1>4, <1>5 DEF ReconciliationInv

LEMMA DepositsInit == DInit => DepositsInv
BY InitHolds DEF DInit, DepositsInv, DTypeOK, CreditsSound, ReconciliationInv

\* Credits and messages that a step leaves alone stay sound, whatever the
\* reconciliation does: rows stay stored and invoices settled.
LEMMA CreditsKept ==
  ASSUME OutboxTypeOK, OutboxTypeOK', CreditsSound, Absent' \subseteq Absent,
         settled \subseteq settled', queue' \subseteq queue, credit' = credit
  PROVE  CreditsSound'
<1>1. \A r \in queue' : r \in Rows /\ outbox'[r] # "absent"
  BY DEF CreditsSound, Absent
<1> QED
  BY <1>1 DEF CreditsSound

\* No step takes a row or a settlement back.
LEMMA NothingForgotten ==
  ASSUME OutboxInv, ReconciliationInv, Next
  PROVE  Absent' \subseteq Absent /\ settled \subseteq settled'
<1> USE DEF ReconciliationInv
<1>1. ASSUME NEW I, MarkPaid(I)
      PROVE  Absent' \subseteq Absent
  BY <1>1 DEF MarkPaid, Enqueue, Absent
<1>2. ASSUME NEW w \in Sweepers, SweepOutbox(w)
      PROVE  Absent' \subseteq Absent /\ settled' = settled
  BY <1>2, SweepOutboxKeeps
<1>3. ASSUME JobAbandons \/ BridgeEnds \/ Crash
      PROVE  Absent' \subseteq Absent /\ settled' = settled
  BY <1>3 DEF JobAbandons, BridgeEnds, Crash, AbandonSweep, LoseSweeps, Absent
<1>4. ASSUME JobStep
      PROVE  Absent' \subseteq Absent /\ settled' = settled
  <2>1. ASSUME JobBegins \/ \E i \in Invoices : JobLooksUp(i)
        PROVE  Absent' \subseteq Absent /\ settled' = settled
    BY <2>1 DEF JobBegins, JobLooksUp, outboxVars, Absent
  <2>2. ASSUME JobCommits
        PROVE  Absent' \subseteq Absent /\ settled' = settled
    BY <2>2, <1>1 DEF JobCommits
  <2> QED
    BY <1>2, <1>3, <1>4, <2>1, <2>2, ReconciliationAssumption DEF JobStep
<1>5. ASSUME NEW notice \in notices, BridgeHandles(notice)
      PROVE  Absent' \subseteq Absent /\ settled' = settled
  BY <1>1, <1>5 DEF BridgeHandles
<1>6. ASSUME NEW i \in Invoices,
             \/ \E status \in {"pending", "paid"} : StoreInvoice(i, status)
             \/ ProviderSettles(i) \/ ProviderReports(i)
      PROVE  Absent' \subseteq Absent /\ settled \subseteq settled'
  BY <1>6 DEF StoreInvoice, ProviderSettles, ProviderReports, outboxVars, Absent
<1> QED
  BY <1>2, <1>3, <1>4, <1>5, <1>6, ReconciliationAssumption DEF Next

\* A sweep publishes only rows that are stored, and what it had published
\* before is on the bus already.
LEMMA PublishedAreStored ==
  ASSUME OutboxInv', NEW w \in Sweepers
  PROVE  \A r \in PublishedBy(w) : r \in Rows /\ outbox'[r] # "absent"
<1>1. sweep'[w] # None => sweep'[w].done \subseteq bus'
  BY DEF OutboxInv, SweepsTruthful
<1>2. \A r \in bus' : r \in Rows /\ outbox'[r] # "absent"
  BY DEF OutboxInv, OutboxTypeOK, PublishedTruthful
<1> QED
  BY <1>1, <1>2 DEF PublishedBy

LEMMA DepositsStep == DepositsInv /\ [DNext]_dvars => DepositsInv'
<1> SUFFICES ASSUME DepositsInv, [DNext]_dvars
             PROVE  DepositsInv'
  OBVIOUS
<1> USE DEF DepositsInv
<1> DEFINE Base == OutboxInv' /\ ReconciliationInv'
<1>1. ASSUME Base, Absent' \subseteq Absent, settled \subseteq settled',
             queue' \subseteq queue, credit' = credit, failed' \subseteq failed \cup queue,
             asked' \in [Incoming -> {"no", "unmapped", "mapped"}],
             accounts' \subseteq Accounts, visiting' \subseteq accounts',
             mapped' \in Accounts \cup {None}
      PROVE  DepositsInv'
  <2>1. CreditsSound'
    BY <1>1, CreditsKept DEF OutboxInv
  <2>2. DTypeOK'
    BY <1>1 DEF DTypeOK, ReconciliationInv
  <2> QED
    BY <1>1, <2>1, <2>2
<1>2. ASSUME UNCHANGED vars
      PROVE  Base /\ Absent' = Absent /\ settled' = settled
  <2>1. OutboxInv' /\ Absent' = Absent
    BY <1>2, FrameKeeps DEF vars
  <2>2. TypeOK'
    BY <1>2, <2>1 DEF vars, TypeOK, OutboxInv, ReconciliationInv
  <2> QED
    BY <1>2, <2>1, <2>2, QuietKeeps
    DEF vars, BridgeLeft, JobLeft, ReconciliationInv, KnownIsSettled
<1>3. ASSUME Next, UNCHANGED depositVars
      PROVE  DepositsInv'
  <2>1. Base /\ Absent' \subseteq Absent /\ settled \subseteq settled'
    BY <1>3, ReconciliationStep, NothingForgotten
  <2>2. /\ queue' \subseteq queue /\ credit' = credit /\ failed' \subseteq failed \cup queue
        /\ accounts' = accounts /\ visiting' = visiting /\ mapped' = mapped
        /\ asked' = asked
    BY <1>3 DEF depositVars, accountVars
  <2> HIDE DEF Base
  <2> QED
    BY <2>1, <2>2, <1>1 DEF DTypeOK
<1>4. ASSUME CreateAccount
      PROVE  DepositsInv'
  <2>1. PICK a : a = CHOOSE x \in Accounts : x \notin accounts
    OBVIOUS
  <2>2. a \in Accounts
    BY <1>4, <2>1 DEF CreateAccount, DTypeOK
  <2>3. /\ accounts' = accounts \cup {a} /\ visiting' = visiting \cup {a}
        /\ UNCHANGED vars /\ UNCHANGED <<mapped, asked, queue, failed, credit>>
    BY <1>4, <2>1 DEF CreateAccount
  <2>4. Base /\ Absent' = Absent /\ settled' = settled
    BY <2>3, <1>2
  <2> HIDE DEF Base
  <2> QED
    BY <1>1, <2>2, <2>3, <2>4 DEF DTypeOK
<1>5. ASSUME NEW a \in Accounts, MapAccount(a) \/ VisitFails(a)
      PROVE  DepositsInv'
  <2>1. /\ visiting' = visiting \ {a} /\ mapped' \in {mapped, a}
        /\ UNCHANGED vars /\ UNCHANGED <<accounts, asked, queue, failed, credit>>
    BY <1>5 DEF MapAccount, VisitFails
  <2>2. Base /\ Absent' = Absent /\ settled' = settled
    BY <2>1, <1>2
  <2> HIDE DEF Base
  <2> QED
    BY <1>1, <2>1, <2>2 DEF DTypeOK
<1>6. ASSUME NEW i \in Incoming, RequestDeposit(i)
      PROVE  DepositsInv'
  <2>1. /\ asked' \in [Incoming -> {"no", "unmapped", "mapped"}]
        /\ UNCHANGED vars /\ UNCHANGED <<accounts, visiting, mapped, queue, failed, credit>>
    BY <1>6 DEF RequestDeposit, accountVars, DTypeOK
  <2>2. Base /\ Absent' = Absent /\ settled' = settled
    BY <2>1, <1>2
  <2> HIDE DEF Base
  <2> QED
    BY <1>1, <2>1, <2>2 DEF DTypeOK
<1>7. ASSUME NEW w \in Sweepers, Sweeps(w)
      PROVE  DepositsInv'
  <2>1. /\ Base /\ Absent' = Absent /\ settled' = settled
    BY <1>7, SweepOutboxKeeps DEF Sweeps
  <2>2. /\ queue' = queue \cup PublishedBy(w)
        /\ UNCHANGED <<accounts, visiting, mapped, asked, failed, credit>>
    BY <1>7 DEF Sweeps, accountVars
  <2>3. \A r \in queue' : r \in Rows /\ outbox'[r] # "absent"
    <3>1. \A r \in queue : r \in Rows /\ outbox'[r] # "absent"
      BY <2>1 DEF CreditsSound, Absent
    <3>2. \A r \in PublishedBy(w) : r \in Rows /\ outbox'[r] # "absent"
      BY <2>1, PublishedAreStored
    <3> QED
      BY <2>2, <3>1, <3>2
  <2>4. CreditsSound'
    BY <2>1, <2>2, <2>3 DEF CreditsSound
  <2>5. DTypeOK'
    BY <2>1, <2>2, <2>3 DEF DTypeOK, ReconciliationInv
  <2> QED
    BY <2>1, <2>4, <2>5
<1>8. ASSUME NEW r \in queue, ApplyInvoicePaid(r)
      PROVE  DepositsInv'
  <2>1. /\ queue' = queue \ {r} /\ UNCHANGED vars
        /\ UNCHANGED <<accounts, visiting, mapped, asked, failed>>
    BY <1>8 DEF ApplyInvoicePaid, accountVars
  <2>2. Base /\ Absent' = Absent /\ settled' = settled
    BY <2>1, <1>2
  <2>3. PICK i \in Invoices, n \in {1, 2} : r = <<i, n>>
    BY ReconciliationAssumption DEF DTypeOK
  <2>4. i \in settled
    BY <2>3 DEF CreditsSound, ReconciliationInv, KnownIsSettled, Stored
  <2>5. \/ credit' = credit
        \/ \E a \in accounts : credit' = [credit EXCEPT ![i] = {a}]
    BY <1>8, <2>3 DEF ApplyInvoicePaid
  <2>6. CreditsSound'
    <3>1. \A x \in queue' : x \in Rows /\ outbox'[x] # "absent"
      BY <2>1, <2>2 DEF CreditsSound, Absent
    <3>2. ASSUME NEW j \in Invoices, credit'[j] # {}
          PROVE  j \in settled' /\ \E a \in Accounts : credit'[j] = {a}
      BY <2>2, <2>4, <2>5, <3>2 DEF CreditsSound, DTypeOK
    <3> QED
      BY <3>1, <3>2 DEF CreditsSound
  <2>7. DTypeOK'
    <3>1. credit' \in [Invoices -> SUBSET Accounts]
      BY <2>5 DEF DTypeOK
    <3> QED
      BY <2>1, <2>2, <3>1 DEF DTypeOK, ReconciliationInv
  <2> QED
    BY <2>2, <2>6, <2>7
<1>9. ASSUME NEW r \in queue, HandlingFails(r)
      PROVE  DepositsInv'
  <2>1. Base
    BY <1>9, ReconciliationStep DEF HandlingFails
  <2>2. Absent' = Absent /\ settled' = settled
    BY <1>9 DEF HandlingFails, outboxVars, Absent
  <2>3. /\ queue' \subseteq queue /\ failed' \subseteq failed \cup queue
        /\ UNCHANGED <<accounts, visiting, mapped, asked, credit>>
    BY <1>9 DEF HandlingFails, accountVars
  <2> HIDE DEF Base
  <2> QED
    BY <1>1, <2>1, <2>2, <2>3 DEF DTypeOK
<1>10. CASE UNCHANGED dvars
  <2>1. Base /\ Absent' = Absent /\ settled' = settled
    BY <1>10, <1>2 DEF dvars
  <2> HIDE DEF Base
  <2> QED
    BY <1>1, <1>10, <2>1 DEF dvars, depositVars, accountVars, DTypeOK
<1>11. CASE DNext
  <2>1. CASE \E i \in Invoices :
               /\ Requested(i)
               /\ \/ \E status \in {"pending", "paid"} : StoreInvoice(i, status)
                  \/ ProviderSettles(i) \/ ProviderReports(i)
               /\ UNCHANGED depositVars
    BY <1>3, <2>1 DEF Next
  <2>2. CASE (\E notice \in notices : BridgeHandles(notice)) /\ UNCHANGED depositVars
    BY <1>3, <2>2 DEF Next
  <2>3. CASE DepositJobStep
    BY <1>3, <1>7, <2>3, ReconciliationAssumption DEF DepositJobStep, JobStep, Next
  <2>4. CASE (BridgeEnds \/ Crash) /\ UNCHANGED depositVars
    BY <1>3, <2>4 DEF Next
  <2> QED
    BY <1>4, <1>5, <1>6, <1>7, <1>8, <1>9, <1>11, <2>1, <2>2, <2>3, <2>4,
       ReconciliationAssumption DEF DNext, Consumes
<1> QED
  BY <1>10, <1>11

LEMMA DepositsCorrect == DSpec => []DepositsInv
<1>1. DInit => DepositsInv
  BY DepositsInit
<1>2. DepositsInv /\ [DNext]_dvars => DepositsInv'
  BY DepositsStep
<1> QED
  BY <1>1, <1>2, PTL DEF DSpec

-----------------------------------------------------------------------------
\* Every variable of deposits keeps its type, whatever is lost and however
\* bridge, job, hub and consumer interleave.
THEOREM DepositsType == DSpec => []DTypeOK
<1>1. DepositsInv => DTypeOK
  BY DEF DepositsInv
<1> QED
  BY <1>1, DepositsCorrect, PTL

\* An incoming invoice is paid exactly when an event that says so is stored: a
\* transaction of the bridge or the job marks the row and stores the event, and
\* neither runs out of events to store.
THEOREM PaidIsAnnounced == DSpec => []PaidHasEvent
<1>1. DepositsInv => PaidHasEvent
  BY DEF DepositsInv, ReconciliationInv
<1> QED
  BY <1>1, DepositsCorrect, PTL

\* The ledger credits an invoice only when the provider has seen it settled,
\* and to one account, although its event may be stored twice and published
\* any number of times.
THEOREM CreditsArePaid == DSpec => []CreditedWasPaid
<1>1. DepositsInv => CreditedWasPaid
  <2> SUFFICES ASSUME DepositsInv, NEW i \in Invoices, credit[i] # {}
               PROVE  i \in settled /\ Cardinality(credit[i]) = 1
    BY DEF CreditedWasPaid
  <2>1. PICK a \in Accounts : i \in settled /\ credit[i] = {a}
    BY DEF DepositsInv, CreditsSound
  <2>2. Cardinality({a}) = 1
    BY FS_Singleton
  <2> QED
    BY <2>1, <2>2
<1> QED
  BY <1>1, DepositsCorrect, PTL
=============================================================================
