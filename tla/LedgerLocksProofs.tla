------------------------- MODULE LedgerLocksProofs -------------------------
(***************************************************************************)
(* For every number of accounts, transactions, holds and handlers: those    *)
(* that take their locks by rank, one lock of a rank, never wait for each   *)
(* other in a circle.  Whoever waits for one of them asks for a lock that   *)
(* the other has, and the other asks for one of a higher rank.              *)
(***************************************************************************)
EXTENDS LedgerLocks, FiniteSetTheorems, WellFoundedInduction, TLAPS

LockRecords == [row: Accounts \cup Txns \cup Holds,
                mode: {"update", "share", "nokey"}, rank: Nat]

JobKinds == {"idle", "ended", "create", "hold", "post", "reverse", "end",
             "consume", "paid", "sent", "batch"}
Jobs == [kind: JobKinds, holds: SUBSET Holds, txn: Txns \cup {None}]

LocksTyped ==
  /\ job \in [Handlers -> Jobs]
  /\ wants \in [Handlers -> SUBSET LockRecords]
  /\ has \in [Handlers -> SUBSET LockRecords]
  /\ due \subseteq Holds

\* The rank a row has for those who lock in order.
Level(row) == IF row \in Holds THEN 0 ELSE IF row \in Txns THEN 1 ELSE 3 + Id[row]

\* A handler that locks in order goes up, one rank after another.
GoesUp(H, W) ==
  /\ \A k \in H \cup W : k.rank = Level(k.row)
  /\ \A k \in H, l \in W : k.rank < l.rank
  /\ \A k, l \in W : k.rank = l.rank => k = l

InOrder(p) == job[p].kind \in Ordered => GoesUp(has[p], wants[p])
IdleHasNothing(p) == job[p].kind = "idle" => has[p] = {} /\ wants[p] = {}

LocksInv == LocksTyped /\ \A p \in Handlers : InOrder(p) /\ IdleHasNothing(p)

-----------------------------------------------------------------------------
(* The locks of the handlers.                                              *)

LEMMA LockIs ==
  ASSUME NEW r, NEW m, NEW n
  PROVE  /\ Lock(r, m, n).row = r /\ Lock(r, m, n).rank = n
         /\ Lock(r, m, n).mode = m
  BY DEF Lock

LEMMA LocksOfHandlers ==
  /\ \A h \in Holds : HoldLock(h) \in LockRecords
  /\ \A t \in Txns : TxnLock(t) \in LockRecords
  /\ \A A \in SUBSET Accounts :
       AccountLocks(A) \subseteq LockRecords /\ EntryLocks(A) \subseteq LockRecords
  /\ \A a \in Accounts : UpdateLock(a) \in LockRecords
  /\ \A T \in SUBSET Holds : BatchLocks(T) \subseteq LockRecords
  BY LocksAssumption
  DEF LockRecords, HoldLock, TxnLock, AccountLocks, EntryLocks, UpdateLock,
      BatchLocks, Lock

LEMMA AccountsGoUp ==
  ASSUME NEW A \in SUBSET Accounts
  PROVE  /\ \A k \in AccountLocks(A) : k.rank = Level(k.row) /\ k.rank >= 3
         /\ \A k, l \in AccountLocks(A) : k.rank = l.rank => k = l
<1>1. \A a \in Accounts : Id[a] \in Nat /\ a \notin Holds /\ a \notin Txns
  BY LocksAssumption
<1>2. \A k \in AccountLocks(A) : \E a \in A : k = Lock(a, "update", 3 + Id[a])
  BY DEF AccountLocks
<1>3. \A k \in AccountLocks(A) : k.rank = Level(k.row) /\ k.rank >= 3
  BY <1>1, <1>2, LockIs DEF Level
<1>4. ASSUME NEW k \in AccountLocks(A), NEW l \in AccountLocks(A), k.rank = l.rank
      PROVE  k = l
  <2>1. PICK a \in A : k = Lock(a, "update", 3 + Id[a])
    BY <1>2
  <2>2. PICK b \in A : l = Lock(b, "update", 3 + Id[b])
    BY <1>2
  <2>3. Id[a] = Id[b]
    BY <1>1, <1>4, <2>1, <2>2, LockIs
  <2> QED
    BY <2>1, <2>2, <2>3, LocksAssumption
<1> QED
  BY <1>3, <1>4

LEMMA OneBelow ==
  ASSUME NEW k, NEW W, GoesUp({}, W), k.rank = Level(k.row),
         \A l \in W : k.rank < l.rank /\ k.rank # l.rank
  PROVE  GoesUp({}, {k} \cup W)
  BY DEF GoesUp

LEMMA AccountLocksGoUp ==
  ASSUME NEW A \in SUBSET Accounts
  PROVE  /\ AccountLocks(A) \subseteq LockRecords /\ GoesUp({}, AccountLocks(A))
         /\ \A k \in AccountLocks(A) : k.rank \in Nat /\ k.rank >= 3
<1>1. AccountLocks(A) \subseteq LockRecords
  BY LocksOfHandlers
<1>2. \A k \in AccountLocks(A) : k.rank \in Nat
  BY <1>1 DEF LockRecords
<1> QED
  BY <1>1, <1>2, AccountsGoUp DEF GoesUp

LEMMA OrderedLocksGoUp ==
  /\ \A t \in Txns : PostLocks(t) \subseteq LockRecords /\ GoesUp({}, PostLocks(t))
  /\ \A h \in Holds, t \in Txns :
       ConsumeLocks(h, t) \subseteq LockRecords /\ GoesUp({}, ConsumeLocks(h, t))
  /\ \A h \in Holds :
       EndHoldLocks(h) \subseteq LockRecords /\ GoesUp({}, EndHoldLocks(h))
  /\ \A a \in Accounts :
       /\ AccountLocks({a}) \subseteq LockRecords /\ GoesUp({}, AccountLocks({a}))
       /\ {UpdateLock(a)} \subseteq LockRecords /\ GoesUp({}, {UpdateLock(a)})
<1>1. ASSUME NEW A \in SUBSET Accounts
      PROVE  /\ AccountLocks(A) \subseteq LockRecords /\ GoesUp({}, AccountLocks(A))
             /\ \A k \in AccountLocks(A) : k.rank \in Nat /\ k.rank >= 3
  BY AccountLocksGoUp
<1>2. ASSUME NEW t \in Txns
      PROVE  /\ PostLocks(t) \subseteq LockRecords /\ GoesUp({}, PostLocks(t))
             /\ \A k \in PostLocks(t) : k.rank \in Nat /\ k.rank >= 1
  <2>1. TxnLock(t).rank = 1 /\ TxnLock(t).rank = Level(TxnLock(t).row)
    BY LocksAssumption, LockIs DEF TxnLock, Level
  <2>2. Legs[t] \in SUBSET Accounts
    BY LocksAssumption
  <2>3. PostLocks(t) \subseteq LockRecords
    BY <1>1, <2>2, LocksOfHandlers DEF PostLocks
  <2>4. \A l \in AccountLocks(Legs[t]) : l.rank \in Nat /\ l.rank >= 3
    BY <1>1, <2>2
  <2>5. \A k \in PostLocks(t) : k.rank \in Nat /\ k.rank >= 1
    BY <2>1, <2>4 DEF PostLocks
  <2>6. \A l \in AccountLocks(Legs[t]) :
          TxnLock(t).rank < l.rank /\ TxnLock(t).rank # l.rank
    BY <2>1, <2>4
  <2>7. GoesUp({}, PostLocks(t))
    BY <1>1, <2>1, <2>2, <2>6, OneBelow DEF PostLocks
  <2> QED
    BY <2>3, <2>5, <2>7
<1>3. ASSUME NEW h \in Holds
      PROVE  /\ HoldLock(h) \in LockRecords /\ HoldLock(h).rank = 0
             /\ HoldLock(h).rank = Level(HoldLock(h).row)
  BY LocksOfHandlers, LockIs DEF HoldLock, Level
<1>4. ASSUME NEW h \in Holds, NEW t \in Txns
      PROVE  ConsumeLocks(h, t) \subseteq LockRecords /\ GoesUp({}, ConsumeLocks(h, t))
  <2>1. \A l \in PostLocks(t) :
          HoldLock(h).rank < l.rank /\ HoldLock(h).rank # l.rank
    BY <1>2, <1>3
  <2>2. GoesUp({}, ConsumeLocks(h, t))
    BY <1>2, <1>3, <2>1, OneBelow DEF ConsumeLocks
  <2> QED
    BY <1>2, <1>3, <2>2 DEF ConsumeLocks
<1>5. ASSUME NEW h \in Holds
      PROVE  EndHoldLocks(h) \subseteq LockRecords /\ GoesUp({}, EndHoldLocks(h))
  <2>1. {HoldAccount[h]} \in SUBSET Accounts
    BY LocksAssumption
  <2>2. \A l \in AccountLocks({HoldAccount[h]}) :
          HoldLock(h).rank < l.rank /\ HoldLock(h).rank # l.rank
    BY <1>1, <1>3, <2>1
  <2>3. GoesUp({}, EndHoldLocks(h))
    BY <1>1, <1>3, <2>1, <2>2, OneBelow DEF EndHoldLocks
  <2> QED
    BY <1>1, <1>3, <2>1, <2>3 DEF EndHoldLocks
<1>6. ASSUME NEW a \in Accounts
      PROVE  {UpdateLock(a)} \subseteq LockRecords /\ GoesUp({}, {UpdateLock(a)})
  <2>1. UpdateLock(a).rank = Level(UpdateLock(a).row)
    BY LocksAssumption, LockIs DEF UpdateLock, Level
  <2> QED
    BY <2>1, LocksOfHandlers DEF GoesUp
<1>7. \A a \in Accounts : {a} \in SUBSET Accounts
  OBVIOUS
<1> QED
  BY <1>1, <1>2, <1>4, <1>5, <1>6, <1>7

-----------------------------------------------------------------------------
(* Nobody waits in a circle of those who lock in order: from whoever asks    *)
(* for the lock of the highest rank, one more step leads higher.             *)

LEMMA NoCircle ==
  ASSUME LocksInv, NEW S \in SUBSET Waiting, S # {}, Stuck(S),
         \A p \in S : job[p].kind \in Ordered
  PROVE  FALSE
<1> DEFINE ask(p) == CHOOSE k \in Asks(p) : TRUE
           rank(p) == ask(p).rank
           above(p) == {q \in S : rank(q) > rank(p)}
           size(p) == Cardinality(above(p))
           sizes == {size(p) : p \in S}
<1>1. S \subseteq Handlers /\ IsFiniteSet(S)
  <2>1. IsFiniteSet(Handlers)
    BY LocksAssumption, FS_AddElement DEF Handlers
  <2> QED
    BY <2>1, FS_Subset DEF Waiting
<1>2. ASSUME NEW p \in S
      PROVE  /\ ask(p) \in Asks(p) /\ ask(p) \in wants[p] /\ rank(p) \in Nat
  <2>1. ask(p) \in Asks(p)
    BY DEF Waiting
  <2>2. ask(p) \in wants[p]
    BY <2>1 DEF Asks
  <2>3. ask(p) \in LockRecords
    BY <1>1, <2>2 DEF LocksInv, LocksTyped
  <2> QED
    BY <2>1, <2>2, <2>3 DEF LockRecords
<1>3. ASSUME NEW p \in S
      PROVE  \E q \in S : rank(q) > rank(p)
  <2>1. PICK q \in Blockers(p, ask(p)) : q \in S
    BY <1>2 DEF Stuck
  <2>2. PICK l \in has[q] : l.row = ask(p).row
    BY <2>1 DEF Blockers, Clash
  <2>3. GoesUp(has[p], wants[p]) /\ GoesUp(has[q], wants[q])
    BY <1>1, <2>1 DEF LocksInv, InOrder
  <2>4. l.rank = rank(p)
    BY <1>2, <2>2, <2>3 DEF GoesUp
  <2>5. l.rank < rank(q)
    BY <1>2, <2>1, <2>2, <2>3 DEF GoesUp
  <2> QED
    BY <1>2, <2>1, <2>4, <2>5
<1>4. ASSUME NEW p \in S
      PROVE  IsFiniteSet(above(p)) /\ size(p) \in Nat
  BY <1>1, FS_Subset, FS_CardinalityType
<1>5. ASSUME NEW p \in S
      PROVE  \E q \in S : size(q) < size(p)
  <2>1. PICK q \in S : rank(q) > rank(p)
    BY <1>3
  <2>2. above(q) \subseteq above(p)
    <3> SUFFICES ASSUME NEW r \in S, rank(r) > rank(q)
                 PROVE  rank(r) > rank(p)
      OBVIOUS
    <3>1. rank(p) \in Nat /\ rank(q) \in Nat /\ rank(r) \in Nat
      BY <1>2
    <3> HIDE DEF rank
    <3> QED
      BY <2>1, <3>1
  <2>3. q \in above(p) /\ q \notin above(q)
    BY <1>2, <2>1
  <2> HIDE DEF above
  <2>4. Cardinality(above(q)) <= Cardinality(above(p)) /\
        Cardinality(above(q)) # Cardinality(above(p))
    BY <1>4, <2>2, <2>3, FS_Subset
  <2> QED
    BY <1>4, <2>4
<1>6. sizes \subseteq Nat /\ sizes # {}
  BY <1>4
<1>7. PICK n \in sizes : \A m \in sizes : ~ (<<m, n>> \in OpToRel(<, Nat))
  BY <1>6, NatLessThanWellFounded, WFMin
<1>8. PICK p \in S : n = size(p)
  BY <1>7
<1>9. PICK q \in S : size(q) < size(p)
  BY <1>5
<1>10. size(q) \in sizes /\ <<size(q), n>> \in OpToRel(<, Nat)
  BY <1>4, <1>8, <1>9 DEF OpToRel
<1> QED
  BY <1>7, <1>10

LEMMA InOrderNoCycle ==
  ASSUME LocksInv
  PROVE  OrderedNeverDeadlock
<1> SUFFICES ASSUME NEW S \in Cycles, \A p \in S : job[p].kind \in Ordered
             PROVE  FALSE
  BY DEF OrderedNeverDeadlock
<1>1. S \in SUBSET Waiting /\ S # {} /\ Stuck(S)
  BY DEF Cycles
<1> QED
  BY <1>1, NoCircle

-----------------------------------------------------------------------------
(* Every step keeps the order.                                             *)

LEMMA LocksInit == Init => LocksInv
<1> SUFFICES ASSUME Init PROVE LocksInv
  OBVIOUS
<1>1. Idle \in Jobs /\ Idle.kind = "idle"
  BY DEF Idle, Jobs, JobKinds
<1>2. LocksTyped
  BY <1>1 DEF Init, LocksTyped
<1>3. ASSUME NEW p \in Handlers
      PROVE  InOrder(p) /\ IdleHasNothing(p)
  BY <1>1 DEF Init, InOrder, IdleHasNothing, Ordered
<1> QED
  BY <1>2, <1>3 DEF LocksInv

\* One handler's job and locks change.
LEMMA OneHandler ==
  ASSUME LocksInv, NEW p \in Handlers, due' \subseteq Holds,
         NEW w \in Jobs, NEW H \in SUBSET LockRecords, NEW W \in SUBSET LockRecords,
         job' = [job EXCEPT ![p] = w], has' = [has EXCEPT ![p] = H],
         wants' = [wants EXCEPT ![p] = W],
         w.kind \in Ordered => GoesUp(H, W),
         w.kind = "idle" => H = {} /\ W = {}
  PROVE  LocksInv'
<1>1. LocksTyped'
  BY DEF LocksInv, LocksTyped
<1>2. job'[p] = w /\ has'[p] = H /\ wants'[p] = W
  BY DEF LocksInv, LocksTyped
<1>3. ASSUME NEW q \in Handlers
      PROVE  InOrder(q)' /\ IdleHasNothing(q)'
  <2>1. CASE q = p
    BY <1>2, <2>1 DEF InOrder, IdleHasNothing, GoesUp
  <2>2. CASE q # p
    <3>1. job'[q] = job[q] /\ has'[q] = has[q] /\ wants'[q] = wants[q]
      BY <2>2 DEF LocksInv, LocksTyped
    <3>2. InOrder(q) /\ IdleHasNothing(q)
      BY DEF LocksInv
    <3> QED
      BY <3>1, <3>2 DEF InOrder, IdleHasNothing, GoesUp
  <2> QED
    BY <2>1, <2>2
<1> QED
  BY <1>1, <1>3 DEF LocksInv

LEMMA BeginKeeps ==
  ASSUME LocksInv, NEW p \in Handlers, NEW w \in Jobs,
         NEW W \in SUBSET LockRecords, Begin(p, w, W), w.kind # "idle",
         w.kind \in Ordered => GoesUp({}, W)
  PROVE  LocksInv'
<1>1. has[p] = {} /\ has' = [has EXCEPT ![p] = {}]
  <2>1. job[p].kind = "idle"
    BY DEF Begin, Idle
  <2>2. has[p] = {}
    BY <2>1 DEF LocksInv, IdleHasNothing
  <2> QED
    BY <2>2 DEF Begin, LocksInv, LocksTyped
<1>2. due' \subseteq Holds
  BY DEF Begin, rows, LocksInv, LocksTyped
<1> QED
  BY <1>1, <1>2, OneHandler DEF Begin

LEMMA LeaveKeeps ==
  ASSUME LocksInv, NEW p \in Handlers, Leave(p), due' = due
  PROVE  LocksInv'
<1>1. /\ Idle \in Jobs /\ Ended \in Jobs
      /\ Idle.kind \notin Ordered /\ Ended.kind \notin Ordered
  BY DEF Idle, Ended, Jobs, JobKinds, Ordered
<1>2. PICK w \in {Idle, Ended} : job' = [job EXCEPT ![p] = w]
  BY DEF Leave
<1>3. due' \subseteq Holds
  BY DEF LocksInv, LocksTyped
<1>4. w \in Jobs /\ w.kind \notin Ordered
  BY <1>1, <1>2
<1>5. has' = [has EXCEPT ![p] = {}] /\ wants' = [wants EXCEPT ![p] = {}]
  BY DEF Leave
<1>6. {} \in SUBSET LockRecords
  OBVIOUS
<1> QED
  BY <1>2, <1>3, <1>4, <1>5, <1>6, OneHandler

\* A batch of holds is out of order, whatever it locks.
LEMMA ExpiryKeeps ==
  ASSUME LocksInv, NEW p \in Handlers, ExpireDue(p)
  PROVE  LocksInv'
<1>1. PICK S : /\ S \subseteq Unlocked
               /\ job' = [job EXCEPT ![p] = Job("batch", S, None)]
               /\ has' = [has EXCEPT ![p] = {HoldLock(h) : h \in S}]
               /\ wants' = [wants EXCEPT ![p] = BatchLocks(S)]
               /\ due' = due
  <2> DEFINE S == IF p = "worker" THEN First(Unlocked) ELSE Unlocked
  <2>1. S \subseteq Unlocked
    BY DEF First
  <2> QED
    BY <2>1 DEF ExpireDue, rows
<1> DEFINE w == Job("batch", S, None)
           H == {HoldLock(h) : h \in S}
<1>2. S \subseteq Holds /\ due' \subseteq Holds
  BY <1>1 DEF Unlocked, LocksInv, LocksTyped
<1>3. w \in Jobs /\ w.kind = "batch"
  BY <1>2 DEF Job, Jobs, JobKinds
<1>4. H \in SUBSET LockRecords /\ BatchLocks(S) \in SUBSET LockRecords
  BY <1>2, LocksOfHandlers
<1>5. w.kind \notin Ordered
  BY <1>3 DEF Ordered
<1>6. /\ job' = [job EXCEPT ![p] = w] /\ has' = [has EXCEPT ![p] = H]
      /\ wants' = [wants EXCEPT ![p] = BatchLocks(S)]
  BY <1>1
<1> HIDE DEF w, H
<1> QED
  BY <1>2, <1>3, <1>4, <1>5, <1>6, OneHandler

LEMMA ArrivalKeeps ==
  ASSUME LocksInv, NEW p \in Requests, Arrives(p)
  PROVE  LocksInv'
<1> USE DEF Jobs, JobKinds, Job, Ordered
<1>1. p \in Handlers
  BY DEF Handlers
<1>2. ASSUME NEW A \in SUBSET Accounts, Create(p, A)
      PROVE  LocksInv'
  BY <1>1, <1>2, BeginKeeps, LocksOfHandlers DEF Create
<1>3. ASSUME NEW t \in Txns, Post(p, t)
      PROVE  LocksInv'
  BY <1>1, <1>3, BeginKeeps, OrderedLocksGoUp DEF Post
<1>4. ASSUME NEW t \in Txns, Reverse(p, t)
      PROVE  LocksInv'
  <2>1. Legs[t] \in SUBSET Accounts
    BY LocksAssumption
  <2>2. ReverseLocks(t) \in SUBSET LockRecords
    BY <2>1, OrderedLocksGoUp, LocksOfHandlers DEF ReverseLocks
  <2> QED
    BY <1>1, <1>4, <2>2, BeginKeeps DEF Reverse
<1>5. ASSUME NEW h \in Holds, EndHold(p, h)
      PROVE  LocksInv'
  BY <1>1, <1>5, BeginKeeps, OrderedLocksGoUp DEF EndHold
<1>6. ASSUME NEW h \in Holds, PaymentSent(p, h)
      PROVE  LocksInv'
  <2>1. {HoldAccount[h]} \in SUBSET Accounts
    BY LocksAssumption
  <2>2. SentLocks(h) \in SUBSET LockRecords
    BY <2>1, OrderedLocksGoUp, LocksOfHandlers DEF SentLocks
  <2> QED
    BY <1>1, <1>6, <2>2, BeginKeeps DEF PaymentSent
<1>7. ASSUME NEW h \in Holds, NEW t \in Txns, Consume(p, h, t)
      PROVE  LocksInv'
  BY <1>1, <1>7, BeginKeeps, OrderedLocksGoUp DEF Consume
<1>8. ASSUME NEW a \in Accounts, CreateHold(p, a)
      PROVE  LocksInv'
  <2>1. AccountLocks({a}) \in SUBSET LockRecords /\ GoesUp({}, AccountLocks({a}))
    BY OrderedLocksGoUp
  <2>2. Job("hold", {}, None) \in Jobs /\ Job("hold", {}, None).kind = "hold"
    OBVIOUS
  <2>3. Begin(p, Job("hold", {}, None), AccountLocks({a}))
    BY <1>8 DEF CreateHold
  <2> QED
    BY <1>1, <2>1, <2>2, <2>3, BeginKeeps
<1>9. ASSUME NEW a \in Accounts, InvoicePaid(p, a)
      PROVE  LocksInv'
  <2>1. {UpdateLock(a)} \in SUBSET LockRecords /\ GoesUp({}, {UpdateLock(a)})
    BY OrderedLocksGoUp
  <2>2. Job("paid", {}, None) \in Jobs /\ Job("paid", {}, None).kind = "paid"
    OBVIOUS
  <2>3. Begin(p, Job("paid", {}, None), {UpdateLock(a)})
    BY <1>9 DEF InvoicePaid
  <2> QED
    BY <1>1, <2>1, <2>2, <2>3, BeginKeeps
<1>10. CASE ExpireDue(p)
  BY <1>1, <1>10, ExpiryKeeps
<1> QED
  BY <1>2, <1>3, <1>4, <1>5, <1>6, <1>7, <1>8, <1>9, <1>10 DEF Arrives

\* A lock that is taken is the lowest of those that were wanted; a hold that
\* turns out to be due is the first lock of its handler.
LEMMA AcquireKeeps ==
  ASSUME LocksInv, NEW p \in Handlers, NEW k \in wants[p], Acquire(p, k)
  PROVE  LocksInv'
<1>1. k \in LockRecords /\ wants[p] \in SUBSET LockRecords /\ has[p] \in SUBSET LockRecords
  BY DEF LocksInv, LocksTyped
<1>2. \A l \in has[p] \cup wants[p] : l.rank \in Nat
  BY <1>1 DEF LockRecords
<1>3. due' \subseteq Holds
  BY DEF Acquire, rows, LocksInv, LocksTyped
<1>4. has[p] \cup {k} \in SUBSET LockRecords
  BY <1>1
<1>5. has' = [has EXCEPT ![p] = has[p] \cup {k}]
  BY DEF Acquire
<1>6. CASE job[p].kind = "consume" /\ k.row \in due
  <2>1. k.row \in Holds
    BY <1>6 DEF LocksInv, LocksTyped
  <2> DEFINE W == AccountLocks({HoldAccount[k.row]})
             w == Job("end", {k.row}, None)
  <2>2. GoesUp(has[p], wants[p])
    BY <1>6 DEF LocksInv, InOrder, Ordered
  <2>3. k.rank = 0 /\ k.rank = Level(k.row)
    BY <2>1, <2>2 DEF GoesUp, Level
  <2>4. has[p] = {}
    <3>1. \A l \in has[p] : l.rank < k.rank
      BY <2>2 DEF GoesUp
    <3> QED
      BY <1>2, <2>3, <3>1
  <2>5. {HoldAccount[k.row]} \in SUBSET Accounts
    BY <2>1, LocksAssumption
  <2>6. /\ W \in SUBSET LockRecords /\ GoesUp({}, W)
        /\ \A l \in W : l.rank \in Nat /\ l.rank >= 3
    BY <2>5, AccountLocksGoUp
  <2>7. w \in Jobs /\ w.kind = "end"
    BY <2>1 DEF Job, Jobs, JobKinds
  <2>8. job' = [job EXCEPT ![p] = w] /\ wants' = [wants EXCEPT ![p] = W]
    BY <1>6 DEF Acquire
  <2> HIDE DEF W, w
  <2>9. GoesUp({k}, W)
    <3>1. \A l \in W : k.rank < l.rank
      BY <2>3, <2>6
    <3> QED
      BY <2>3, <2>6, <3>1 DEF GoesUp
  <2>10. GoesUp(has[p] \cup {k}, W)
    BY <2>4, <2>9
  <2> QED
    BY <1>3, <1>4, <1>5, <2>6, <2>7, <2>8, <2>10, OneHandler
<1>7. CASE ~ (job[p].kind = "consume" /\ k.row \in due)
  <2> DEFINE W == wants[p] \ {k}
  <2>1. job' = [job EXCEPT ![p] = job[p]] /\ job[p] \in Jobs
    BY <1>7 DEF Acquire, LocksInv, LocksTyped
  <2>2. wants' = [wants EXCEPT ![p] = W] /\ W \in SUBSET LockRecords
    BY <1>1, <1>7 DEF Acquire
  <2>3. job[p].kind # "idle"
    BY DEF LocksInv, IdleHasNothing
  <2>4. ASSUME GoesUp(has[p], wants[p])
        PROVE  GoesUp(has[p] \cup {k}, W)
    <3>1. \A l \in W : k.rank <= l.rank /\ k.rank # l.rank
      BY <2>4 DEF Acquire, Asks, GoesUp
    <3>2. \A l \in W : k.rank < l.rank
      BY <1>2, <3>1
    <3> QED
      BY <2>4, <3>2 DEF GoesUp
  <2>5. job[p].kind \in Ordered => GoesUp(has[p] \cup {k}, W)
    BY <2>4 DEF LocksInv, InOrder
  <2> HIDE DEF W
  <2> QED
    BY <1>3, <1>4, <1>5, <2>1, <2>2, <2>3, <2>5, OneHandler
<1> QED
  BY <1>6, <1>7

LEMMA LocksStep == LocksInv /\ [Next]_vars => LocksInv'
<1> SUFFICES ASSUME LocksInv, [Next]_vars PROVE LocksInv'
  OBVIOUS
<1>1. ASSUME NEW p \in Requests, Arrives(p)
      PROVE  LocksInv'
  BY <1>1, ArrivalKeeps
<1>2. CASE ExpireDue("worker")
  BY <1>2, ExpiryKeeps DEF Handlers
<1>3. ASSUME NEW p \in Handlers, NEW k \in wants[p], Acquire(p, k)
      PROVE  LocksInv'
  BY <1>3, AcquireKeeps
<1>4. ASSUME NEW p \in Handlers, GiveUp(p) \/ Commit(p) \/ Victim(p)
      PROVE  LocksInv'
  BY <1>4, LeaveKeeps DEF GiveUp, Commit, Victim, rows
<1>5. ASSUME NEW h \in Holds, TimePasses(h)
      PROVE  LocksInv'
  BY <1>5 DEF TimePasses, LocksInv, LocksTyped, InOrder, IdleHasNothing, GoesUp
<1>6. CASE UNCHANGED vars
  BY <1>6 DEF vars, LocksInv, LocksTyped, InOrder, IdleHasNothing, GoesUp
<1> QED
  BY <1>1, <1>2, <1>3, <1>4, <1>5, <1>6 DEF Next, Step

\* Posting, consuming, releasing and creating holds, and deposits, never
\* deadlock with each other, however many they are.
THEOREM OrderedLocksAcyclic == Spec => []OrderedNeverDeadlock
<1>1. LocksInv => OrderedNeverDeadlock
  BY InOrderNoCycle
<1> QED
  BY <1>1, LocksInit, LocksStep, PTL DEF Spec
=============================================================================
