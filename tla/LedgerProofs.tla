---------------------------- MODULE LedgerProofs ----------------------------
(***************************************************************************)
(* Theorems about the Ledger, for every set of accounts, transactions,      *)
(* holds, messages and request bodies: its types; its books, as long as no  *)
(* writer runs between the two steps of a payment message; what it records, *)
(* however messages overlap with other writers (Overlap is arbitrary): the  *)
(* row locks, the UNIQUE constraints and the status guards protect the      *)
(* history even where the balances are not protected; and that it           *)
(* implements the Wallet.                                                   *)
(***************************************************************************)
EXTENDS LedgerWallet, AmountFacts

-----------------------------------------------------------------------------
(* Sums over entries and holds are natural numbers.                        *)

\* The lines of finitely many entries are rows that can be summed.
LEMMA LinesAreRows ==
  ASSUME NEW t, NEW E \in SUBSET Entry, IsFiniteSet(E), NEW a, NEW side
  PROVE  /\ AmountRows(Lines(t, E, a, side))
         /\ AmountRows(SideLines(t, E, side))
<1>1. IsFiniteSet({t} \X E)
  BY FS_Singleton, FS_Product
<1>2. /\ Lines(t, E, a, side) \subseteq {t} \X E
      /\ SideLines(t, E, side) \subseteq {t} \X E
  BY DEF Lines, SideLines
<1>3. \A r \in {t} \X E : r[2].amount \in Int
  BY DEF Entry
<1> QED
  BY <1>1, <1>2, <1>3, FS_Subset DEF AmountRows

\* What finitely many entries debit and credit an account is natural.
LEMMA EntrySumsNat ==
  ASSUME NEW t, NEW E \in SUBSET Entry, IsFiniteSet(E), NEW a
  PROVE  Debits(t, E, a) \in Nat /\ Credits(t, E, a) \in Nat
BY LinesAreRows, TotalNat DEF Debits, Credits

\* Applying finitely many entries to balances yields balances.
LEMMA AppliedType ==
  ASSUME NEW bal \in [Accounts -> Int],
         NEW t, NEW E \in SUBSET Entry, IsFiniteSet(E)
  PROVE  Applied(bal, t, E) \in [Accounts -> Int]
BY EntrySumsNat DEF Applied

\* The amounts of holds are rows that can be summed.
LEMMA HeldRowsAreRows ==
  ASSUME TypeOK, NEW S \in SUBSET Holds
  PROVE  AmountRows(HeldRows(S))
<1> DEFINE f == [h \in S |-> <<h, [amount |-> hold[h].amount]>>]
<1>1. f \in Surjection(S, HeldRows(S))
  BY DEF Surjection, HeldRows
<1>2. IsFiniteSet(S)
  BY SetsAssumption, FS_Subset
<1>3. IsFiniteSet(HeldRows(S))
  BY <1>1, <1>2, FS_Surjection
<1>4. \A h \in S : hold[h].amount \in Int
  BY DEF TypeOK, Hold
<1>5. \A r \in HeldRows(S) : r[2].amount \in Int
  BY <1>4 DEF HeldRows
<1> QED
  BY <1>3, <1>5 DEF AmountRows

\* The mirror of finitely many entries is finitely many entries.
LEMMA MirrorType ==
  ASSUME NEW E \in SUBSET Entry, IsFiniteSet(E)
  PROVE  Mirror(E) \in SUBSET Entry /\ IsFiniteSet(Mirror(E))
<1> DEFINE f == [e \in E |-> [e EXCEPT !.side = Opposite(e.side)]]
<1>1. Mirror(E) \in SUBSET Entry
  BY DEF Mirror, Entry, Opposite, Sides
<1>2. f \in Surjection(E, Mirror(E))
  BY DEF Surjection, Mirror
<1> QED
  BY <1>1, <1>2, FS_Surjection

\* Giving held amounts back leaves reserved balances that are integers.
LEMMA FreeReserved ==
  ASSUME TypeOK, NEW S \in SUBSET Holds
  PROVE  [a \in Accounts |-> reserved[a] - Total(HeldRows(OfAccount(S, a)))]
           \in [Accounts -> Int]
<1>1. \A a \in Accounts : OfAccount(S, a) \in SUBSET Holds
  BY DEF OfAccount
<1>2. \A a \in Accounts : Total(HeldRows(OfAccount(S, a))) \in Nat
  BY <1>1, HeldRowsAreRows, TotalNat
<1> QED
  BY <1>2 DEF TypeOK

\* The transaction a payment message posts is a transaction.
LEMMA EventTxnType ==
  ASSUME NEW m \in Seen, NEW kind \in Kinds, NEW side \in Sides
  PROVE  /\ EventTxn(m, kind, side) \in Transaction
         /\ IsFiniteSet(EventTxn(m, kind, side).entries)
<1> DEFINE e == [line |-> 1, account |-> m.account, side |-> side,
                 amount |-> m.event.amount]
<1>1. e \in Entry
  BY InputsAssumption DEF Entry, Seen, Sides
<1>2. IsFiniteSet({e})
  BY FS_Singleton
<1>3. EventKey(m.event) \in TxnKeys
  BY DEF Seen, TxnKeys
<1>4. EventTxn(m, kind, side).entries = {e}
  BY DEF EventTxn
<1>5. EventTxn(m, kind, side) \in Transaction
  BY <1>1, <1>3 DEF EventTxn, Transaction
<1> QED
  BY <1>2, <1>4, <1>5

-----------------------------------------------------------------------------
(* Type correctness.                                                       *)

\* What a pass of the worker does, in terms of the holds it takes up.
Expires(S) ==
  /\ Turn
  /\ S # {} /\ \A h \in S : Due(h)
  /\ Free(S, "expired")
  /\ UNCHANGED <<open, txn, opRows, seen>>

LEMMA WorkerExpires ==
  ASSUME WorkerStep
  PROVE  \E S \in SUBSET Holds : Expires(S)
<1>1. PICK left \in SUBSET Holds : ExpireDueHolds(left)
  BY DEF WorkerStep
<1>2. Batch(left) \in SUBSET Holds /\ \A h \in Batch(left) : Due(h)
  BY DEF Batch
<1> QED
  BY <1>1, <1>2 DEF ExpireDueHolds, Expires

\* Every step keeps the columns within their types.
LEMMA TypeStep == TypeOK /\ [Next]_vars => TypeOK'
<1> SUFFICES ASSUME TypeOK, [Next]_vars
             PROVE  TypeOK'
  OBVIOUS
<1>1. ASSUME NEW a \in Accounts, CreateAccount(a)
      PROVE  TypeOK'
  BY <1>1 DEF CreateAccount, TypeOK
<1>2. ASSUME NEW t \in Txns, NEW p \in Payloads, NEW k \in OptionalKey,
             CreateTransaction(t, p, k)
      PROVE  TypeOK'
  <2>1. /\ p \in [kind: Kinds, entries: SUBSET Entry]
        /\ IsFiniteSet(p.entries)
    BY InputsAssumption
  <2>2. [status |-> "pending", kind |-> p.kind, entries |-> p.entries,
         key |-> k, reverses |-> None] \in Transaction
    BY <2>1 DEF Transaction, OptionalKey, TxnKeys
  <2> QED
    BY <1>2, <2>1, <2>2 DEF CreateTransaction, TypeOK
<1>3. ASSUME NEW t \in Txns, NEW k \in OptionalKey, PostTransaction(t, k)
      PROVE  TypeOK'
  <2>1. Applied(balance, t, txn[t].entries) \in [Accounts -> Int]
    BY AppliedType DEF TypeOK, Transaction
  <2>2. opRows' \subseteq [op: Operations, resource: Txns \cup Holds, key: Keys]
    BY <1>3 DEF PostTransaction, Recorded, TypeOK, Operations, OptionalKey
  <2>3. balance' \in [Accounts -> Int] /\ reserved' \in [Accounts -> Int]
    BY <1>3, <2>1 DEF PostTransaction, WriteAccounts, TypeOK
  <2>4. txn' \in [Txns -> Transaction]
    BY <1>3 DEF PostTransaction, TypeOK, Transaction
  <2>5. \A x \in Txns : IsFiniteSet(txn'[x].entries)
    BY <1>3 DEF PostTransaction, TypeOK, Transaction
  <2> QED
    BY <1>3, <2>2, <2>3, <2>4, <2>5 DEF PostTransaction, TypeOK
<1>4. ASSUME NEW t \in Txns, NEW r \in Txns, NEW k \in OptionalKey,
             ReverseTransaction(t, r, k)
      PROVE  TypeOK'
  <2> DEFINE E == Mirror(txn[t].entries)
             R == [status |-> "posted", kind |-> MirrorKind(txn[t].kind),
                   entries |-> E, key |-> None, reverses |-> t]
  <2>1. E \in SUBSET Entry /\ IsFiniteSet(E)
    BY MirrorType DEF TypeOK, Transaction
  <2>2. R \in Transaction
    BY <2>1 DEF Transaction, MirrorKind, Kinds, TxnKeys, TypeOK
  <2>3. Applied(balance, r, E) \in [Accounts -> Int]
    BY <2>1, AppliedType DEF TypeOK
  <2>4. opRows' \subseteq [op: Operations, resource: Txns \cup Holds, key: Keys]
    BY <1>4 DEF ReverseTransaction, Reversible, ReversalOf, Recorded, TypeOK, Operations, OptionalKey
  <2> HIDE DEF E, R
  <2>5. txn' = [txn EXCEPT ![t].status = "reversed", ![r] = R]
    BY <1>4 DEF ReverseTransaction, Reversible, ReversalOf, E, R
  <2>6. txn' \in [Txns -> Transaction]
    BY <2>2, <2>5 DEF TypeOK, Transaction
  <2>7. R.entries = E
    BY DEF R
  <2>8. \A x \in Txns : IsFiniteSet(txn'[x].entries)
    BY <2>1, <2>5, <2>7 DEF TypeOK, Transaction
  <2>9. balance' \in [Accounts -> Int] /\ reserved' \in [Accounts -> Int]
    BY <1>4, <2>3 DEF ReverseTransaction, Reversible, ReversalOf, WriteAccounts, TypeOK, E
  <2> QED
    BY <1>4, <2>4, <2>6, <2>8, <2>9 DEF ReverseTransaction, Reversible, ReversalOf, TypeOK
<1>5. ASSUME NEW h \in Holds, NEW q \in HoldRequests, NEW k \in OptionalKey,
             CreateHold(h, q, k)
      PROVE  TypeOK'
  <2>1. q \in [account: Accounts, amount: Int, deadline: Deadlines,
               reference: References \cup {None}]
    BY InputsAssumption
  <2>2. [status |-> "active", account |-> q.account, amount |-> q.amount,
         deadline |-> q.deadline, reference |-> q.reference, key |-> k]
           \in Hold
    BY <2>1 DEF Hold
  <2> QED
    BY <1>5, <2>1, <2>2 DEF CreateHold, WriteAccounts, TypeOK
<1>6. ASSUME NEW h \in Holds, DeadlinePasses(h)
      PROVE  TypeOK'
  BY <1>6 DEF DeadlinePasses, TypeOK, Hold, Deadlines
<1>7. ASSUME NEW S \in SUBSET Holds, NEW status \in {"released", "expired"},
             Free(S, status)
      PROVE  /\ balance' \in [Accounts -> Int]
             /\ reserved' \in [Accounts -> Int]
             /\ hold' \in [Holds -> Hold]
  <2>1. balance' \in [Accounts -> Int] /\ reserved' \in [Accounts -> Int]
    BY <1>7, FreeReserved DEF Free, WriteAccounts, TypeOK
  <2>2. hold' \in [Holds -> Hold]
    BY <1>7 DEF Free, TypeOK, Hold
  <2> QED
    BY <2>1, <2>2
<1>8. ASSUME NEW h \in Holds, NEW k \in OptionalKey, ExpireHold(h, k)
      PROVE  TypeOK'
  <2>1. opRows' \subseteq [op: Operations, resource: Txns \cup Holds, key: Keys]
    BY <1>8 DEF ExpireHold, Recorded, TypeOK, Operations, OptionalKey
  <2> QED
    BY <1>7, <1>8, <2>1 DEF ExpireHold, TypeOK
<1>9. ASSUME NEW S \in SUBSET Holds, Expires(S)
      PROVE  TypeOK'
  BY <1>7, <1>9 DEF Expires, TypeOK
<1>10. ASSUME NEW h \in Holds, NEW k \in OptionalKey, ReleaseHold(h, k)
       PROVE  TypeOK'
  <2>1. opRows' \subseteq [op: Operations, resource: Txns \cup Holds, key: Keys]
    BY <1>10 DEF ReleaseHold, Recorded, TypeOK, Operations, OptionalKey
  <2>2. Free({h}, "expired") \/ Free({h}, "released")
    BY <1>10 DEF ReleaseHold
  <2>3. /\ balance' \in [Accounts -> Int] /\ reserved' \in [Accounts -> Int]
        /\ hold' \in [Holds -> Hold]
    BY <1>7, <2>2
  <2> QED
    BY <1>10, <2>1, <2>3 DEF ReleaseHold, TypeOK
<1>11. ASSUME NEW h \in Holds, NEW t \in Txns, NEW k \in OptionalKey,
              ConsumeHold(h, t, k)
       PROVE  TypeOK'
  <2>1. CASE Due(h)
    <3>1. Free({h}, "expired") /\ UNCHANGED <<txn, opRows, open, seen>>
      BY <1>11, <2>1 DEF ConsumeHold
    <3> QED
      BY <1>7, <3>1 DEF TypeOK
  <2>2. CASE ~Due(h)
    <3>1. Applied(balance, t, txn[t].entries) \in [Accounts -> Int]
      BY AppliedType DEF TypeOK, Transaction
    <3>2. balance' \in [Accounts -> Int]
      BY <1>11, <2>2, <3>1 DEF ConsumeHold, WriteAccounts
    <3>3. reserved' \in [Accounts -> Int]
      BY <1>11, <2>2 DEF ConsumeHold, WriteAccounts, TypeOK, Hold
    <3>4. opRows' \subseteq
            [op: Operations, resource: Txns \cup Holds, key: Keys]
      BY <1>11, <2>2 DEF ConsumeHold, Recorded, TypeOK, Operations, OptionalKey
    <3>5. txn' = [txn EXCEPT ![t].status = "posted"]
      BY <1>11, <2>2 DEF ConsumeHold
    <3>6. /\ txn' \in [Txns -> Transaction]
          /\ \A x \in Txns : IsFiniteSet(txn'[x].entries)
      BY <3>5 DEF TypeOK, Transaction
    <3>7. hold' \in [Holds -> Hold]
      BY <1>11, <2>2 DEF ConsumeHold, TypeOK, Hold
    <3> QED
      BY <1>11, <2>2, <3>2, <3>3, <3>4, <3>6, <3>7 DEF ConsumeHold, TypeOK
  <2> QED
    BY <2>1, <2>2
<1>12. ASSUME NEW s \in Sessions, NEW e \in Events, NEW a \in Accounts,
              BeginEvent(s, e, a)
       PROVE  TypeOK'
  BY <1>12 DEF BeginEvent, TypeOK, Seen
<1>13. ASSUME NEW s \in Sessions, AbandonEvent(s)
       PROVE  TypeOK'
  BY <1>13 DEF AbandonEvent, TypeOK
<1>14. ASSUME NEW s \in Sessions, NEW t \in Txns, CommitInvoicePaid(s, t)
       PROVE  TypeOK'
  <2>1. seen[s] \in Seen
    BY <1>14 DEF CommitInvoicePaid, TypeOK
  <2>2. /\ seen[s].balance \in Int /\ seen[s].event.amount \in Int
        /\ seen[s].account \in Accounts
    BY <2>1, InputsAssumption DEF Seen
  <2>3. /\ EventTxn(seen[s], "external_credit", "credit") \in Transaction
        /\ IsFiniteSet(EventTxn(seen[s], "external_credit", "credit").entries)
    BY <2>1, EventTxnType DEF Kinds, Sides
  <2>4. txn' = [txn EXCEPT ![t] = EventTxn(seen[s], "external_credit", "credit")]
    BY <1>14 DEF CommitInvoicePaid
  <2>5. /\ txn' \in [Txns -> Transaction]
        /\ \A x \in Txns : IsFiniteSet(txn'[x].entries)
    BY <2>3, <2>4 DEF TypeOK
  <2>6. balance' \in [Accounts -> Int] /\ reserved' \in [Accounts -> Int]
    BY <1>14, <2>2 DEF CommitInvoicePaid, WriteAccounts, TypeOK
  <2> QED
    BY <1>14, <2>5, <2>6 DEF CommitInvoicePaid, TypeOK
<1>15. ASSUME NEW s \in Sessions, NEW h \in Holds, NEW t \in Txns,
              CommitPaymentSent(s, h, t)
       PROVE  TypeOK'
  <2>1. seen[s] \in Seen
    BY <1>15 DEF CommitPaymentSent, TypeOK
  <2>2. /\ seen[s].balance \in Int /\ seen[s].reserved \in Int
        /\ seen[s].event.amount \in Int /\ seen[s].account \in Accounts
    BY <2>1, InputsAssumption DEF Seen
  <2>3. /\ EventTxn(seen[s], "external_debit", "debit") \in Transaction
        /\ IsFiniteSet(EventTxn(seen[s], "external_debit", "debit").entries)
    BY <2>1, EventTxnType DEF Kinds, Sides
  <2>4. txn' = [txn EXCEPT ![t] = EventTxn(seen[s], "external_debit", "debit")]
    BY <1>15 DEF CommitPaymentSent
  <2>5. /\ txn' \in [Txns -> Transaction]
        /\ \A x \in Txns : IsFiniteSet(txn'[x].entries)
    BY <2>3, <2>4 DEF TypeOK
  <2>6. balance' \in [Accounts -> Int] /\ reserved' \in [Accounts -> Int]
    BY <1>15, <2>2 DEF CommitPaymentSent, WriteAccounts, TypeOK
  <2>7. hold' \in [Holds -> Hold]
    BY <1>15 DEF CommitPaymentSent, TypeOK, Hold
  <2> QED
    BY <1>15, <2>5, <2>6, <2>7 DEF CommitPaymentSent, TypeOK
<1>16. CASE UNCHANGED vars
  BY <1>16 DEF vars, TypeOK
<1> QED
  BY <1>1, <1>2, <1>3, <1>4, <1>5, <1>6, <1>8, <1>9, <1>10, <1>11, <1>12,
     <1>13, <1>14, <1>15, <1>16, WorkerExpires
  DEF Next, TransactionStep, HoldStep, EventStep

\* The database starts empty and every handler writes values of the column
\* types.
THEOREM TypeCorrect == Spec => []TypeOK
<1>1. Init => TypeOK
  <2> SUFFICES ASSUME Init PROVE TypeOK
    OBVIOUS
  <2>1. NoTxn \in Transaction /\ NoHold \in Hold
    BY DEF NoTxn, NoHold, Transaction, Hold, Kinds, Deadlines, TxnKeys,
           OptionalKey
  <2>2. IsFiniteSet(NoTxn.entries)
    BY FS_EmptySet DEF NoTxn
  <2> QED
    BY <2>1, <2>2 DEF Init, TypeOK
<1>2. TypeOK /\ [Next]_vars => TypeOK'
  BY TypeStep
<1> QED
  BY <1>1, <1>2, PTL DEF Spec

-----------------------------------------------------------------------------
(* The books, when no writer runs between the two steps of a message.      *)

\* What an open message read is still what the account row says, and at most
\* one message is open.
FreshReads ==
  /\ \A s \in Sessions : seen[s] # None =>
       /\ seen[s].balance = balance[seen[s].account]
       /\ seen[s].reserved = reserved[seen[s].account]
       /\ seen[s].event.amount > 0
  /\ \A s1, s2 \in Sessions : seen[s1] # None /\ seen[s2] # None => s1 = s2

\* Only positive amounts are held, on accounts.
HoldsPositive ==
  \A h \in Holds : hold[h].status = "active" =>
    hold[h].amount > 0 /\ hold[h].account \in Accounts

BooksInv ==
  TypeOK /\ FreshReads /\ HoldsPositive
    /\ BooksBalance /\ ReservedMatchesHolds /\ FundsCoverHolds

\* The lines of all applied transactions are rows that can be summed.
LEMMA AppliedLinesRows ==
  ASSUME TypeOK, NEW a, NEW side
  PROVE  AmountRows(AppliedLines(a, side))
<1> DEFINE f == [t \in AppliedTxns |-> Lines(t, txn[t].entries, a, side)]
           T == {Lines(t, txn[t].entries, a, side) : t \in AppliedTxns}
<1>1. IsFiniteSet(AppliedTxns)
  BY SetsAssumption, FS_Subset DEF AppliedTxns
<1>2. f \in Surjection(AppliedTxns, T)
  BY DEF Surjection
<1>3. IsFiniteSet(T)
  BY <1>1, <1>2, FS_Surjection
<1>4. \A t \in Txns : AmountRows(Lines(t, txn[t].entries, a, side))
  BY LinesAreRows DEF TypeOK, Transaction
<1>5. \A L \in T : IsFiniteSet(L) /\ \A r \in L : r[2].amount \in Int
  BY <1>4 DEF AppliedTxns, AmountRows
<1>6. IsFiniteSet(UNION T)
  BY <1>3, <1>5, FS_UNION
<1> QED
  BY <1>5, <1>6 DEF AppliedLines, AmountRows

\* When a transaction becomes applied, the account's entries grow by its own.
LEMMA AppliedLinesGrow ==
  ASSUME TypeOK, TypeOK', NEW t \in Txns, t \notin AppliedTxns,
         AppliedTxns' = AppliedTxns \cup {t},
         \A x \in AppliedTxns : txn'[x].entries = txn[x].entries,
         NEW a, NEW side
  PROVE  Total(AppliedLines(a, side))'
           = Total(AppliedLines(a, side)) + Total(Lines(t, txn'[t].entries, a, side))
<1> DEFINE L == Lines(t, txn'[t].entries, a, side)
<1>1. AppliedLines(a, side)' = AppliedLines(a, side) \cup L
  BY DEF AppliedLines, Lines
<1>2. AppliedLines(a, side) \cap L = {}
  BY DEF AppliedLines, Lines
<1>3. AmountRows(AppliedLines(a, side))
  BY AppliedLinesRows
<1>4. AmountRows(L)
  BY LinesAreRows DEF TypeOK, Transaction
<1> HIDE DEF L
<1>5. Total(AppliedLines(a, side) \cup L) = Total(AppliedLines(a, side)) + Total(L)
  BY <1>2, <1>3, <1>4, TotalUnion
<1> QED
  BY <1>1, <1>5 DEF L, Total

\* One more transaction is applied and its entries move the balances: the
\* books still balance.
LEMMA BooksStayBalanced ==
  ASSUME TypeOK, TypeOK', BooksBalance, NEW t \in Txns, t \notin AppliedTxns,
         AppliedTxns' = AppliedTxns \cup {t},
         \A x \in AppliedTxns : txn'[x].entries = txn[x].entries,
         \A a \in Accounts :
           balance'[a] = balance[a] + Credits(t, txn'[t].entries, a)
                           - Debits(t, txn'[t].entries, a)
  PROVE  BooksBalance'
<1> SUFFICES ASSUME NEW a \in Accounts
             PROVE  balance'[a] = Total(AppliedLines(a, "credit"))'
                                    - Total(AppliedLines(a, "debit"))'
  BY DEF BooksBalance
<1> DEFINE c == Total(AppliedLines(a, "credit"))
           d == Total(AppliedLines(a, "debit"))
           C == Credits(t, txn'[t].entries, a)
           D == Debits(t, txn'[t].entries, a)
<1>1. c' = c + C /\ d' = d + D
  BY AppliedLinesGrow DEF Credits, Debits
<1>2. c \in Nat /\ d \in Nat
  BY AppliedLinesRows, TotalNat
<1>3. C \in Nat /\ D \in Nat
  BY EntrySumsNat DEF TypeOK, Transaction
<1>4. balance[a] = c - d
  BY DEF BooksBalance
<1>5. balance'[a] = balance[a] + C - D
  OBVIOUS
<1> HIDE DEF c, d, C, D
<1>6. balance'[a] = c' - d'
  BY <1>1, <1>2, <1>3, <1>4, <1>5
<1> QED
  BY <1>6 DEF c, d

\* Nothing about applied transactions changes: neither do the books.
LEMMA BooksUntouched ==
  ASSUME BooksBalance, balance' = balance, AppliedTxns' = AppliedTxns,
         \A x \in AppliedTxns : txn'[x].entries = txn[x].entries
  PROVE  BooksBalance'
<1>1. \A a, side : AppliedLines(a, side)' = AppliedLines(a, side)
  BY DEF AppliedLines
<1> QED
  BY <1>1 DEF BooksBalance, Total

\* The holds of S on an account, and what they add up to.
LEMMA HeldPart ==
  ASSUME TypeOK, NEW S \in SUBSET Holds,
         \A h \in S : hold[h].status = "active", NEW a
  PROVE  /\ HeldRows(OfAccount(S, a)) \subseteq ActiveRows(a)
         /\ AmountRows(ActiveRows(a))
         /\ Total(HeldRows(OfAccount(S, a))) \in Nat
         /\ Total(ActiveRows(a)) \in Nat
         /\ Total(HeldRows(OfAccount(S, a))) <= Total(ActiveRows(a))
         /\ Total(ActiveRows(a) \ HeldRows(OfAccount(S, a)))
              = Total(ActiveRows(a)) - Total(HeldRows(OfAccount(S, a)))
<1> DEFINE R == ActiveRows(a)
           P == HeldRows(OfAccount(S, a))
<1>1. P \subseteq R
  BY DEF HeldRows, OfAccount, ActiveRows
<1>2. AmountRows(R)
  BY HeldRowsAreRows DEF ActiveRows
<1> HIDE DEF P, R
<1>3. AmountRows(P) /\ AmountRows(R \ P) /\ Total(R \ P) = Total(R) - Total(P)
  BY <1>1, <1>2, TotalDifference
<1>4. Total(P) \in Nat /\ Total(R) \in Nat /\ Total(R \ P) \in Nat
  BY <1>2, <1>3, TotalNat
<1>5. Total(P) <= Total(R)
  BY <1>3, <1>4
<1> QED
  BY <1>1, <1>2, <1>3, <1>4, <1>5 DEF P, R

\* A single hold stands for its amount on its own account, for nothing on
\* the others.
LEMMA HeldAlone ==
  ASSUME TypeOK, NEW h \in Holds, hold[h].amount > 0, NEW a
  PROVE  Total(HeldRows(OfAccount({h}, a)))
           = IF hold[h].account = a THEN hold[h].amount ELSE 0
<1> DEFINE r == <<h, [amount |-> hold[h].amount]>>
<1>1. hold[h].amount \in Int
  BY DEF TypeOK, Hold
<1>2. CASE hold[h].account = a
  <2>1. HeldRows(OfAccount({h}, a)) = {r}
    BY <1>2 DEF HeldRows, OfAccount
  <2>2. r[2].amount = hold[h].amount
    OBVIOUS
  <2>3. Total({r}) = hold[h].amount
    <3> HIDE DEF r
    <3> QED
      BY <1>1, <2>2, TotalOne
  <2> QED
    BY <1>2, <2>1, <2>3
<1>3. CASE hold[h].account # a
  <2>1. HeldRows(OfAccount({h}, a)) = {}
    BY <1>3 DEF HeldRows, OfAccount
  <2> QED
    BY <1>3, <2>1, TotalEmpty
<1> QED
  BY <1>2, <1>3

\* The one debit of a hold's account is for the amount of the hold.
LEMMA HoldDebit ==
  ASSUME NEW t, NEW E \in SUBSET Entry, NEW H, H.amount > 0, DebitsHold(E, H)
  PROVE  Debits(t, E, H.account) = H.amount
<1>1. PICK d \in E : /\ d.amount = H.amount
                     /\ {e \in E : e.account = H.account /\ e.side = "debit"}
                          = {d}
  BY DEF DebitsHold
<1> DEFINE r == <<t, d>>
<1>2. Lines(t, E, H.account, "debit") = {r}
  BY <1>1 DEF Lines
<1>3. r[2].amount = H.amount /\ H.amount \in Int
  BY <1>1 DEF Entry
<1> HIDE DEF r
<1>4. Total({r}) = H.amount
  BY <1>3, TotalOne
<1> QED
  BY <1>2, <1>4 DEF Debits

\* Active holds S end and their amounts leave the reserved balances: the
\* reserved balances are again what the remaining active holds add up to.
LEMMA HoldsEnd ==
  ASSUME TypeOK, ReservedMatchesHolds, HoldsPositive,
         NEW S \in SUBSET Holds, \A h \in S : hold[h].status = "active",
         \A h \in Holds :
           /\ h \in S => hold'[h].status # "active"
           /\ h \notin S => hold'[h] = hold[h],
         \A a \in Accounts :
           reserved'[a] = reserved[a] - Total(HeldRows(OfAccount(S, a)))
  PROVE  /\ ReservedMatchesHolds'
         /\ HoldsPositive'
         /\ \A a \in Accounts : 0 <= reserved'[a] /\ reserved'[a] <= reserved[a]
<1>1. HoldsPositive'
  BY DEF HoldsPositive
<1>2. ASSUME NEW a \in Accounts
      PROVE  /\ reserved'[a] = Total(ActiveRows(a))'
             /\ 0 <= reserved'[a] /\ reserved'[a] <= reserved[a]
  <2> DEFINE R == ActiveRows(a)
             P == HeldRows(OfAccount(S, a))
  <2>1. R' = R \ P
    BY DEF HeldRows, OfAccount, ActiveRows
  <2>2. /\ Total(R \ P) = Total(R) - Total(P)
        /\ Total(P) \in Nat /\ Total(R) \in Nat /\ Total(P) <= Total(R)
    BY HeldPart
  <2>3. reserved[a] = Total(R)
    BY DEF ReservedMatchesHolds
  <2>4. reserved'[a] = reserved[a] - Total(P)
    OBVIOUS
  <2> HIDE DEF R, P
  <2>5. Total(R)' = Total(R \ P)
    BY <2>1 DEF Total
  <2>6. reserved'[a] = Total(R)' /\ 0 <= reserved'[a] /\ reserved'[a] <= reserved[a]
    BY <2>2, <2>3, <2>4, <2>5
  <2> QED
    BY <2>6 DEF R
<1> QED
  BY <1>1, <1>2 DEF ReservedMatchesHolds

\* Holds keep their status, account and amount, and reserved balances stay.
LEMMA HoldsUntouched ==
  ASSUME ReservedMatchesHolds, HoldsPositive, reserved' = reserved,
         \A h \in Holds : /\ hold'[h].status = hold[h].status
                          /\ hold'[h].account = hold[h].account
                          /\ hold'[h].amount = hold[h].amount
  PROVE  ReservedMatchesHolds' /\ HoldsPositive'
<1>1. \A a : ActiveRows(a)' = ActiveRows(a)
  BY DEF ActiveRows, HeldRows
<1> QED
  BY <1>1 DEF ReservedMatchesHolds, HoldsPositive, Total

\* The entry of a payment message.
LEMMA OneEntrySums ==
  ASSUME NEW t, NEW d \in Entry, d.amount > 0, NEW a
  PROVE  /\ Credits(t, {d}, a)
              = IF d.account = a /\ d.side = "credit" THEN d.amount ELSE 0
         /\ Debits(t, {d}, a)
              = IF d.account = a /\ d.side = "debit" THEN d.amount ELSE 0
<1> DEFINE r == <<t, d>>
<1>a. r[2] = d /\ d.amount \in Int /\ d.amount >= 0
  BY DEF Entry
<1>1. Total({r}) = d.amount
  <2> HIDE DEF r
  <2> QED
    BY <1>a, TotalOne
<1>2. ASSUME NEW side
      PROVE  Total(Lines(t, {d}, a, side))
               = IF d.account = a /\ d.side = side THEN d.amount ELSE 0
  <2>1. CASE d.account = a /\ d.side = side
    <3>1. Lines(t, {d}, a, side) = {r}
      BY <2>1 DEF Lines
    <3> QED
      BY <1>1, <2>1, <3>1
  <2>2. CASE ~(d.account = a /\ d.side = side)
    <3>1. Lines(t, {d}, a, side) = {}
      BY <2>2 DEF Lines
    <3> QED
      BY <2>2, <3>1, TotalEmpty
  <2> QED
    BY <2>1, <2>2
<1> QED
  BY <1>2 DEF Credits, Debits

\* A payable transaction leaves every account with at least what it holds.
LEMMA AffordableCovers ==
  ASSUME TypeOK, FundsCoverHolds, NEW t, NEW E \in SUBSET Entry,
         IsFiniteSet(E), NEW A \in SUBSET Accounts, Affordable(t, E, A),
         NEW a \in A
  PROVE  /\ Applied(balance, t, E)[a]
              = balance[a] + Credits(t, E, a) - Debits(t, E, a)
         /\ reserved[a] <= balance[a] + Credits(t, E, a) - Debits(t, E, a)
<1>1. Credits(t, E, a) \in Nat /\ Debits(t, E, a) \in Nat
  BY EntrySumsNat
<1>2. balance[a] \in Int /\ reserved[a] \in Int /\ reserved[a] <= balance[a]
  BY DEF TypeOK, FundsCoverHolds
<1>3. Debits(t, E, a) > 0 =>
        balance[a] + Credits(t, E, a) - Debits(t, E, a) >= reserved[a]
  BY DEF Affordable
<1>4. Applied(balance, t, E)[a]
        = balance[a] + Credits(t, E, a) - Debits(t, E, a)
  BY DEF Applied
<1>5. reserved[a] <= balance[a] + Credits(t, E, a) - Debits(t, E, a)
  <2> DEFINE c == Credits(t, E, a)
             d == Debits(t, E, a)
  <2> HIDE DEF c, d
  <2>1. c \in Nat /\ d \in Nat /\ (d > 0 => balance[a] + c - d >= reserved[a])
    BY <1>1, <1>3 DEF c, d
  <2>2. reserved[a] <= balance[a] + c - d
    BY <1>2, <2>1
  <2> QED
    BY <2>2 DEF c, d
<1> QED
  BY <1>4, <1>5

\* No message is open: reads are fresh whatever the step writes.
LEMMA NoOpenMessage ==
  ASSUME ~Overlap, Turn, seen' = seen
  PROVE  FreshReads'
BY DEF Turn, FreshReads

\* Accounts keep their rows and holds and applied transactions theirs.
LEMMA RowsUntouched ==
  ASSUME FundsCoverHolds, balance' = balance, reserved' = reserved
  PROVE  FundsCoverHolds'
BY DEF FundsCoverHolds

\* A hold ends and its money is given back, by whatever handler.
LEMMA FreeKeepsBooks ==
  ASSUME BooksInv, NEW S \in SUBSET Holds,
         \A h \in S : hold[h].status = "active",
         NEW status \in {"released", "expired"}, Free(S, status), txn' = txn
  PROVE  HoldsPositive' /\ BooksBalance' /\ ReservedMatchesHolds'
           /\ FundsCoverHolds'
<1> USE DEF BooksInv
<1>1. \A a \in Accounts :
        reserved'[a] = reserved[a] - Total(HeldRows(OfAccount(S, a)))
  BY DEF Free, WriteAccounts
<1>2. \A h \in Holds : /\ h \in S => hold'[h].status # "active"
                       /\ h \notin S => hold'[h] = hold[h]
  BY DEF Free, TypeOK, Hold
<1>3. /\ ReservedMatchesHolds' /\ HoldsPositive'
      /\ \A a \in Accounts : 0 <= reserved'[a] /\ reserved'[a] <= reserved[a]
  BY <1>1, <1>2, HoldsEnd
<1>4. balance' = balance
  BY DEF Free, WriteAccounts
<1>5. BooksBalance'
  BY <1>4, BooksUntouched DEF AppliedTxns
<1>6. FundsCoverHolds'
  <2> SUFFICES ASSUME NEW a \in Accounts
               PROVE  0 <= reserved'[a] /\ reserved'[a] <= balance'[a]
    BY DEF FundsCoverHolds
  <2>1. reserved[a] \in Int /\ balance[a] \in Int /\ reserved[a] <= balance[a]
    BY DEF TypeOK, FundsCoverHolds
  <2>2. reserved'[a] \in Int
    <3>1. Total(HeldRows(OfAccount(S, a))) \in Nat
      BY HeldPart
    <3> QED
      BY <1>1, <2>1, <3>1
  <2> QED
    BY <1>3, <1>4, <2>1, <2>2
<1> QED
  BY <1>3, <1>5, <1>6

\* A hold is consumed: its amount leaves the reserved balance of its account.
LEMMA ConsumeKeepsHolds ==
  ASSUME BooksInv, NEW h \in Holds, hold[h].status = "active",
         hold' = [hold EXCEPT ![h].status = "consumed"],
         reserved' = [reserved EXCEPT ![hold[h].account] = @ - hold[h].amount]
  PROVE  /\ HoldsPositive' /\ ReservedMatchesHolds'
         /\ \A a \in Accounts : 0 <= reserved'[a]
         /\ \A a \in Accounts \ {hold[h].account} : reserved'[a] = reserved[a]
         /\ reserved'[hold[h].account]
              = reserved[hold[h].account] - hold[h].amount
<1> USE DEF BooksInv
<1>1. /\ hold[h].account \in Accounts /\ hold[h].amount > 0
      /\ hold[h].amount \in Int
  BY DEF HoldsPositive, TypeOK, Hold
<1>2. ASSUME NEW a \in Accounts
      PROVE  reserved'[a] = reserved[a] - Total(HeldRows(OfAccount({h}, a)))
  <2>1. Total(HeldRows(OfAccount({h}, a)))
          = IF hold[h].account = a THEN hold[h].amount ELSE 0
    BY <1>1, HeldAlone
  <2>2. reserved[a] \in Int
    BY DEF TypeOK
  <2> QED
    BY <1>1, <2>1, <2>2 DEF TypeOK
<1>3. \A x \in Holds : /\ x \in {h} => hold'[x].status # "active"
                       /\ x \notin {h} => hold'[x] = hold[x]
  BY DEF TypeOK, Hold
<1>4. \A x \in {h} : hold[x].status = "active"
  OBVIOUS
<1>5. /\ ReservedMatchesHolds' /\ HoldsPositive'
      /\ \A a \in Accounts : 0 <= reserved'[a] /\ reserved'[a] <= reserved[a]
  BY <1>2, <1>3, <1>4, HoldsEnd
<1>6. /\ \A a \in Accounts \ {hold[h].account} : reserved'[a] = reserved[a]
      /\ reserved'[hold[h].account]
           = reserved[hold[h].account] - hold[h].amount
  BY <1>1 DEF TypeOK
<1> QED
  BY <1>5, <1>6

\* A pending transaction whose entries are applied as they are, with the
\* reserved balances untouched: posting, and reversing with the mirror.
LEMMA ApplyKeepsBooks ==
  ASSUME BooksInv, TypeOK', NEW t \in Txns, t \notin AppliedTxns,
         AppliedTxns' = AppliedTxns \cup {t},
         \A x \in AppliedTxns : txn'[x].entries = txn[x].entries,
         NEW E \in SUBSET Entry, IsFiniteSet(E), txn'[t].entries = E,
         Affordable(t, E, Accounts),
         balance' = Applied(balance, t, E), reserved' = reserved
  PROVE  BooksBalance' /\ FundsCoverHolds'
<1> USE DEF BooksInv
<1>1. ASSUME NEW a \in Accounts
      PROVE  /\ balance'[a] = balance[a] + Credits(t, E, a) - Debits(t, E, a)
             /\ reserved[a] <= balance'[a]
  BY AffordableCovers
<1>2. BooksBalance'
  BY <1>1, BooksStayBalanced
<1>3. FundsCoverHolds'
  BY <1>1 DEF FundsCoverHolds
<1> QED
  BY <1>2, <1>3

\* The books stay in order in every step.
LEMMA BooksStep ==
  ASSUME ~Overlap, BooksInv, [Next]_vars
  PROVE  BooksInv'
<1> USE DEF BooksInv
<1>1. TypeOK'
  BY TypeStep
<1>2. ASSUME NEW a \in Accounts, CreateAccount(a)
      PROVE  BooksInv'
  <2> USE <1>2 DEF CreateAccount
  <2>1. FreshReads'
    BY NoOpenMessage
  <2>2. BooksBalance'
    BY BooksUntouched DEF AppliedTxns
  <2>3. ReservedMatchesHolds' /\ HoldsPositive'
    BY HoldsUntouched
  <2> QED
    BY <1>1, <2>1, <2>2, <2>3, RowsUntouched
<1>3. ASSUME NEW t \in Txns, NEW p \in Payloads, NEW k \in OptionalKey,
             CreateTransaction(t, p, k)
      PROVE  BooksInv'
  <2> USE <1>3 DEF CreateTransaction
  <2>1. FreshReads'
    BY NoOpenMessage
  <2>2. /\ AppliedTxns' = AppliedTxns
        /\ \A x \in AppliedTxns : txn'[x].entries = txn[x].entries
    BY DEF AppliedTxns, FreshTxn, TypeOK
  <2>3. BooksBalance'
    BY <2>2, BooksUntouched
  <2>4. ReservedMatchesHolds' /\ HoldsPositive'
    BY HoldsUntouched
  <2> QED
    BY <1>1, <2>1, <2>3, <2>4, RowsUntouched
<1>4. ASSUME NEW t \in Txns, NEW k \in OptionalKey, PostTransaction(t, k)
      PROVE  BooksInv'
  <2> DEFINE E == txn[t].entries
  <2>1. FreshReads'
    BY <1>4, NoOpenMessage DEF PostTransaction
  <2>2. txn' = [txn EXCEPT ![t].status = "posted"] /\ txn[t].status = "pending"
    BY <1>4 DEF PostTransaction
  <2>3. /\ t \notin AppliedTxns
        /\ AppliedTxns' = AppliedTxns \cup {t}
        /\ \A x \in Txns : txn'[x].entries = txn[x].entries
    BY <2>2 DEF AppliedTxns, TypeOK, Transaction
  <2>4. E \in SUBSET Entry /\ IsFiniteSet(E)
    BY DEF TypeOK, Transaction
  <2>5. /\ Affordable(t, E, Accounts)
        /\ balance' = Applied(balance, t, E) /\ reserved' = reserved
    BY <1>4 DEF PostTransaction, WriteAccounts
  <2>6. ReservedMatchesHolds' /\ HoldsPositive'
    BY <1>4, <2>5, HoldsUntouched DEF PostTransaction
  <2> HIDE DEF E
  <2>7. txn'[t].entries = E
    BY <2>3 DEF E
  <2>8. BooksBalance' /\ FundsCoverHolds'
    BY <1>1, <2>3, <2>4, <2>5, <2>7, ApplyKeepsBooks DEF AppliedTxns
  <2> QED
    BY <1>1, <2>1, <2>6, <2>8
<1>5. ASSUME NEW t \in Txns, NEW r \in Txns, NEW k \in OptionalKey,
             ReverseTransaction(t, r, k)
      PROVE  BooksInv'
  <2> DEFINE E == Mirror(txn[t].entries)
  <2>1. FreshReads'
    BY <1>5, NoOpenMessage DEF ReverseTransaction, Reversible, ReversalOf
  <2>2. E \in SUBSET Entry /\ IsFiniteSet(E)
    BY MirrorType DEF TypeOK, Transaction
  <2>3. /\ r \notin AppliedTxns /\ t # r
        /\ AppliedTxns' = AppliedTxns \cup {r}
        /\ \A x \in AppliedTxns : txn'[x].entries = txn[x].entries
    BY <1>5 DEF ReverseTransaction, Reversible, ReversalOf, AppliedTxns, TypeOK, Transaction, FreshTxn
  <2>4. txn'[r].entries = E
    BY <1>5, <2>3 DEF ReverseTransaction, Reversible, ReversalOf, TypeOK
  <2>5. /\ Affordable(r, E, Accounts)
        /\ balance' = Applied(balance, r, E) /\ reserved' = reserved
    BY <1>5 DEF ReverseTransaction, Reversible, ReversalOf, WriteAccounts
  <2>6. ReservedMatchesHolds' /\ HoldsPositive'
    BY <1>5, <2>5, HoldsUntouched DEF ReverseTransaction, Reversible, ReversalOf
  <2> HIDE DEF E
  <2>7. BooksBalance' /\ FundsCoverHolds'
    BY <1>1, <2>2, <2>3, <2>4, <2>5, ApplyKeepsBooks
  <2> QED
    BY <1>1, <2>1, <2>6, <2>7
<1>6. ASSUME NEW h \in Holds, NEW q \in HoldRequests, NEW k \in OptionalKey,
             CreateHold(h, q, k)
      PROVE  BooksInv'
  <2> DEFINE r == <<h, [amount |-> q.amount]>>
  <2>1. FreshReads'
    BY <1>6, NoOpenMessage DEF CreateHold
  <2>2. BooksBalance'
    BY <1>6, BooksUntouched DEF CreateHold, WriteAccounts, AppliedTxns
  <2>3. q.account \in Accounts /\ q.amount \in Int /\ q.amount > 0
    BY <1>6, InputsAssumption DEF CreateHold
  <2>4. /\ hold[h].status = "none"
        /\ balance' = balance
        /\ reserved' = [reserved EXCEPT ![q.account] = @ + q.amount]
        /\ balance[q.account] - reserved[q.account] >= q.amount
    BY <1>6 DEF CreateHold, WriteAccounts, Available
  <2>5. /\ hold'[h].status = "active" /\ hold'[h].account = q.account
        /\ hold'[h].amount = q.amount
        /\ \A x \in Holds \ {h} : hold'[x] = hold[x]
    BY <1>6 DEF CreateHold, TypeOK
  <2>6. HoldsPositive'
    BY <2>3, <2>5 DEF HoldsPositive
  <2>7. FundsCoverHolds'
    <3> SUFFICES ASSUME NEW a \in Accounts
                 PROVE  0 <= reserved'[a] /\ reserved'[a] <= balance'[a]
      BY DEF FundsCoverHolds
    <3>1. /\ reserved[a] \in Int /\ balance[a] \in Int
          /\ 0 <= reserved[a] /\ reserved[a] <= balance[a]
      BY DEF TypeOK, FundsCoverHolds
    <3>2. reserved'[a] = IF a = q.account THEN reserved[a] + q.amount
                         ELSE reserved[a]
      BY <2>4 DEF TypeOK
    <3> QED
      BY <2>3, <2>4, <3>1, <3>2
  <2>8. ReservedMatchesHolds'
    <3> SUFFICES ASSUME NEW a \in Accounts
                 PROVE  reserved'[a] = Total(ActiveRows(a))'
      BY DEF ReservedMatchesHolds
    <3>1. reserved[a] = Total(ActiveRows(a)) /\ reserved[a] \in Int
      BY DEF ReservedMatchesHolds, TypeOK
    <3>2. CASE a = q.account
      <4>1. ActiveRows(a)' = ActiveRows(a) \cup {r}
        BY <2>4, <2>5, <3>2 DEF ActiveRows, HeldRows
      <4>2. ActiveRows(a) \cap {r} = {}
        BY <2>4 DEF ActiveRows, HeldRows
      <4>3. AmountRows(ActiveRows(a))
        BY HeldRowsAreRows DEF ActiveRows
      <4>4. r[2].amount = q.amount
        OBVIOUS
      <4> HIDE DEF r
      <4>5. r[2].amount \in Int /\ r[2].amount >= 0
        BY <2>3, <4>4
      <4>8. Total({r}) = q.amount
        BY <4>4, <4>5, TotalOne
      <4>9. AmountRows({r})
        BY <4>5, FS_Singleton DEF AmountRows
      <4>6. Total(ActiveRows(a) \cup {r}) = Total(ActiveRows(a)) + Total({r})
        BY <4>2, <4>3, <4>9, TotalUnion
      <4>7. reserved'[a] = reserved[a] + q.amount
        BY <2>4, <3>2 DEF TypeOK
      <4> QED
        BY <3>1, <4>1, <4>8, <4>6, <4>7 DEF Total
    <3>3. CASE a # q.account
      <4>1. ActiveRows(a)' = ActiveRows(a)
        BY <2>4, <2>5, <3>3 DEF ActiveRows, HeldRows
      <4>2. reserved'[a] = reserved[a]
        BY <2>4, <3>3 DEF TypeOK
      <4> QED
        BY <3>1, <4>1, <4>2 DEF Total
    <3> QED
      BY <3>2, <3>3
  <2> QED
    BY <1>1, <2>1, <2>2, <2>6, <2>7, <2>8
<1>7. ASSUME NEW h \in Holds, DeadlinePasses(h)
      PROVE  BooksInv'
  <2>1. FreshReads'
    BY <1>7 DEF DeadlinePasses, FreshReads
  <2>2. BooksBalance'
    BY <1>7, BooksUntouched DEF DeadlinePasses, AppliedTxns
  <2>3. \A x \in Holds : /\ hold'[x].status = hold[x].status
                         /\ hold'[x].account = hold[x].account
                         /\ hold'[x].amount = hold[x].amount
    BY <1>7 DEF DeadlinePasses, TypeOK, Hold
  <2>4. ReservedMatchesHolds' /\ HoldsPositive'
    BY <1>7, <2>3, HoldsUntouched DEF DeadlinePasses
  <2> QED
    BY <1>1, <1>7, <2>1, <2>2, <2>4, RowsUntouched DEF DeadlinePasses
<1>8. ASSUME NEW h \in Holds, NEW k \in OptionalKey, ExpireHold(h, k)
      PROVE  BooksInv'
  <2>1. FreshReads'
    BY <1>8, NoOpenMessage DEF ExpireHold
  <2>2. Free({h}, "expired") /\ hold[h].status = "active" /\ txn' = txn
    BY <1>8 DEF ExpireHold
  <2> QED
    BY <1>1, <2>1, <2>2, FreeKeepsBooks
<1>9. ASSUME NEW S \in SUBSET Holds, Expires(S)
      PROVE  BooksInv'
  <2>1. FreshReads'
    BY <1>9, NoOpenMessage DEF Expires
  <2>2. /\ Free(S, "expired") /\ txn' = txn
        /\ \A h \in S : hold[h].status = "active"
    BY <1>9 DEF Expires, Due
  <2> QED
    BY <1>1, <2>1, <2>2, FreeKeepsBooks
<1>10. ASSUME NEW h \in Holds, NEW k \in OptionalKey, ReleaseHold(h, k)
       PROVE  BooksInv'
  <2>1. FreshReads'
    BY <1>10, NoOpenMessage DEF ReleaseHold
  <2>2. /\ Free({h}, "expired") \/ Free({h}, "released")
        /\ hold[h].status = "active" /\ txn' = txn
    BY <1>10 DEF ReleaseHold
  <2> QED
    BY <1>1, <2>1, <2>2, FreeKeepsBooks
<1>11. ASSUME NEW h \in Holds, NEW t \in Txns, NEW k \in OptionalKey,
              ConsumeHold(h, t, k)
       PROVE  BooksInv'
  <2>1. FreshReads'
    BY <1>11, NoOpenMessage DEF ConsumeHold
  <2>2. CASE Due(h)
    <3>1. Free({h}, "expired") /\ hold[h].status = "active" /\ txn' = txn
      BY <1>11, <2>2 DEF ConsumeHold
    <3> QED
      BY <1>1, <2>1, <3>1, FreeKeepsBooks
  <2>3. CASE ~Due(h)
    <3> DEFINE E == txn[t].entries
               acc == hold[h].account
               amt == hold[h].amount
    <3>1. /\ hold[h].status = "active" /\ txn[t].status = "pending"
          /\ DebitsHold(E, hold[h])
          /\ Affordable(t, E, Accounts \ {acc})
          /\ balance' = Applied(balance, t, E)
          /\ reserved' = [reserved EXCEPT ![acc] = @ - amt]
          /\ txn' = [txn EXCEPT ![t].status = "posted"]
          /\ hold' = [hold EXCEPT ![h].status = "consumed"]
      BY <1>11, <2>3 DEF ConsumeHold, WriteAccounts
    <3>2. /\ HoldsPositive' /\ ReservedMatchesHolds'
          /\ \A a \in Accounts : 0 <= reserved'[a]
          /\ \A a \in Accounts \ {acc} : reserved'[a] = reserved[a]
          /\ reserved'[acc] = reserved[acc] - amt
      BY <3>1, ConsumeKeepsHolds
    <3>3. /\ t \notin AppliedTxns
          /\ AppliedTxns' = AppliedTxns \cup {t}
          /\ \A x \in Txns : txn'[x].entries = txn[x].entries
      BY <3>1 DEF AppliedTxns, TypeOK, Transaction
    <3>4. E \in SUBSET Entry /\ IsFiniteSet(E)
      BY DEF TypeOK, Transaction
    <3>5. acc \in Accounts /\ amt \in Int /\ amt > 0
      BY <3>1 DEF HoldsPositive, TypeOK, Hold
    <3>6. Debits(t, E, acc) = amt
      BY <3>1, <3>4, <3>5, HoldDebit
    <3> HIDE DEF E, acc, amt
    <3>7. txn'[t].entries = E
      BY <3>3 DEF E
    <3>8. \A a \in Accounts :
            balance'[a] = balance[a] + Credits(t, E, a) - Debits(t, E, a)
      BY <3>1 DEF Applied
    <3>9. BooksBalance'
      BY <1>1, <3>3, <3>7, <3>8, BooksStayBalanced DEF AppliedTxns
    <3>10. FundsCoverHolds'
      <4> SUFFICES ASSUME NEW a \in Accounts
                   PROVE  reserved'[a] <= balance'[a]
        BY <3>2 DEF FundsCoverHolds
      <4>1. /\ reserved[a] \in Int /\ balance[a] \in Int
            /\ reserved[a] <= balance[a]
            /\ Credits(t, E, a) \in Nat
        BY <3>4, EntrySumsNat DEF TypeOK, FundsCoverHolds
      <4>2. CASE a = acc
        <5>1. reserved'[a] = reserved[a] - amt
          BY <3>2, <4>2
        <5>2. balance'[a] = balance[a] + Credits(t, E, a) - amt
          BY <3>6, <3>8, <4>2
        <5> QED
          BY <3>5, <4>1, <5>1, <5>2
      <4>3. CASE a # acc
        <5>1. a \in Accounts \ {acc}
          BY <4>3
        <5>2. reserved[a] <= balance[a] + Credits(t, E, a) - Debits(t, E, a)
          BY <3>1, <3>4, <5>1, AffordableCovers
        <5> QED
          BY <3>2, <3>8, <5>1, <5>2
      <4> QED
        BY <4>2, <4>3
    <3> QED
      BY <1>1, <2>1, <3>2, <3>9, <3>10
  <2> QED
    BY <2>2, <2>3
<1>12. ASSUME NEW s \in Sessions, NEW e \in Events, NEW a \in Accounts,
              BeginEvent(s, e, a)
       PROVE  BooksInv'
  <2>1. FreshReads'
    BY <1>12 DEF BeginEvent, FreshReads, Turn, TypeOK
  <2>2. BooksBalance'
    BY <1>12, BooksUntouched DEF BeginEvent, AppliedTxns
  <2>3. ReservedMatchesHolds' /\ HoldsPositive'
    BY <1>12, HoldsUntouched DEF BeginEvent
  <2> QED
    BY <1>1, <1>12, <2>1, <2>2, <2>3, RowsUntouched DEF BeginEvent
<1>13. ASSUME NEW s \in Sessions, AbandonEvent(s)
       PROVE  BooksInv'
  <2>1. FreshReads'
    BY <1>13 DEF AbandonEvent, FreshReads, TypeOK
  <2>2. BooksBalance'
    BY <1>13, BooksUntouched DEF AbandonEvent, AppliedTxns
  <2>3. ReservedMatchesHolds' /\ HoldsPositive'
    BY <1>13, HoldsUntouched DEF AbandonEvent
  <2> QED
    BY <1>1, <1>13, <2>1, <2>2, <2>3, RowsUntouched DEF AbandonEvent
<1>14. ASSUME NEW m \in Seen, NEW t \in Txns, FreshTxn(t),
              NEW kind \in Kinds, NEW side \in Sides,
              txn' = [txn EXCEPT ![t] = EventTxn(m, kind, side)],
              m.event.amount > 0,
              balance' = [balance EXCEPT ![m.account] =
                            IF side = "credit"
                            THEN balance[m.account] + m.event.amount
                            ELSE balance[m.account] - m.event.amount]
       PROVE  BooksBalance'
  <2> DEFINE d == [line |-> 1, account |-> m.account, side |-> side,
                   amount |-> m.event.amount]
  <2>1. d \in Entry /\ d.amount > 0 /\ m.account \in Accounts
    BY <1>14, InputsAssumption DEF Entry, Seen, Sides
  <2>2. txn'[t].entries = {d} /\ txn'[t].status = "posted"
    BY <1>14 DEF EventTxn, TypeOK
  <2>3. /\ t \notin AppliedTxns /\ AppliedTxns' = AppliedTxns \cup {t}
        /\ \A x \in AppliedTxns : txn'[x].entries = txn[x].entries
    BY <1>14, <2>2 DEF AppliedTxns, FreshTxn, TypeOK
  <2>4. /\ d.account = m.account /\ d.side = side
        /\ d.amount = m.event.amount
    OBVIOUS
  <2> HIDE DEF d
  <2>5. ASSUME NEW a \in Accounts
        PROVE  balance'[a] = balance[a] + Credits(t, {d}, a) - Debits(t, {d}, a)
    <3>1. /\ Credits(t, {d}, a)
               = IF d.account = a /\ d.side = "credit" THEN d.amount ELSE 0
          /\ Debits(t, {d}, a)
               = IF d.account = a /\ d.side = "debit" THEN d.amount ELSE 0
      BY <2>1, OneEntrySums
    <3>2. balance[a] \in Int /\ d.amount \in Int
      BY <2>1 DEF TypeOK, Entry
    <3>3. side \in {"credit", "debit"}
      BY DEF Sides
    <3>4. balance'[a] = IF a = m.account
                        THEN IF side = "credit"
                             THEN balance[a] + m.event.amount
                             ELSE balance[a] - m.event.amount
                        ELSE balance[a]
      BY <1>14 DEF TypeOK
    <3> QED
      BY <2>4, <3>1, <3>2, <3>3, <3>4
  <2> QED
    BY <1>1, <2>2, <2>3, <2>5, BooksStayBalanced
<1>15. ASSUME NEW s \in Sessions, NEW t \in Txns, CommitInvoicePaid(s, t)
       PROVE  BooksInv'
  <2> DEFINE m == seen[s]
  <2>1. m \in Seen /\ m # None
    BY <1>15 DEF CommitInvoicePaid, TypeOK
  <2>2. /\ m.event.amount \in Int /\ m.event.amount > 0
        /\ m.account \in Accounts
        /\ m.balance = balance[m.account]
    BY <2>1, InputsAssumption DEF FreshReads, Seen
  <2>3. FreshReads'
    BY <1>15 DEF CommitInvoicePaid, FreshReads, TypeOK
  <2>4. /\ balance' = [balance EXCEPT ![m.account] =
                         balance[m.account] + m.event.amount]
        /\ reserved' = reserved
    BY <1>15, <2>2 DEF CommitInvoicePaid, WriteAccounts
  <2>5. ReservedMatchesHolds' /\ HoldsPositive'
    BY <1>15, <2>4, HoldsUntouched DEF CommitInvoicePaid
  <2>6. BooksBalance'
    <3>1. /\ FreshTxn(t)
          /\ txn' = [txn EXCEPT ![t] = EventTxn(m, "external_credit", "credit")]
      BY <1>15 DEF CommitInvoicePaid
    <3> HIDE DEF m
    <3>2. "external_credit" \in Kinds /\ "credit" \in Sides
      BY DEF Kinds, Sides
    <3>3. balance' = [balance EXCEPT ![m.account] =
                        IF "credit" = "credit"
                        THEN balance[m.account] + m.event.amount
                        ELSE balance[m.account] - m.event.amount]
      BY <2>4
    <3> QED
      BY <1>14, <2>1, <2>2, <3>1, <3>2, <3>3
  <2>7. FundsCoverHolds'
    <3> HIDE DEF m
    <3> SUFFICES ASSUME NEW a \in Accounts
                 PROVE  0 <= reserved[a] /\ reserved[a] <= balance'[a]
      BY <2>4 DEF FundsCoverHolds
    <3>1. /\ reserved[a] \in Int /\ balance[a] \in Int
          /\ 0 <= reserved[a] /\ reserved[a] <= balance[a]
      BY DEF TypeOK, FundsCoverHolds
    <3>2. balance'[a] = IF a = m.account THEN balance[a] + m.event.amount
                        ELSE balance[a]
      BY <2>4 DEF TypeOK
    <3> QED
      BY <2>2, <3>1, <3>2
  <2> QED
    BY <1>1, <2>3, <2>5, <2>6, <2>7
<1>16. ASSUME NEW s \in Sessions, NEW h \in Holds, NEW t \in Txns,
              CommitPaymentSent(s, h, t)
       PROVE  BooksInv'
  <2> DEFINE m == seen[s]
  <2>1. m \in Seen /\ m # None
    BY <1>16 DEF CommitPaymentSent, TypeOK
  <2>2. /\ m.event.amount \in Int /\ m.event.amount > 0
        /\ m.account \in Accounts
        /\ m.balance = balance[m.account] /\ m.reserved = reserved[m.account]
    BY <2>1, InputsAssumption DEF FreshReads, Seen
  <2>3. FreshReads'
    BY <1>16 DEF CommitPaymentSent, FreshReads, TypeOK
  <2>4. /\ hold[h].status = "active" /\ hold[h].account = m.account
        /\ hold[h].amount = m.event.amount
        /\ hold' = [hold EXCEPT ![h].status = "consumed"]
        /\ balance' = [balance EXCEPT ![m.account] =
                         balance[m.account] - m.event.amount]
        /\ reserved' = [reserved EXCEPT ![m.account] =
                          reserved[m.account] - m.event.amount]
    BY <1>16, <2>2 DEF CommitPaymentSent, WriteAccounts
  <2>5. /\ HoldsPositive' /\ ReservedMatchesHolds'
        /\ \A a \in Accounts : 0 <= reserved'[a]
        /\ \A a \in Accounts \ {m.account} : reserved'[a] = reserved[a]
        /\ reserved'[m.account] = reserved[m.account] - m.event.amount
    <3> HIDE DEF m
    <3>1. reserved' = [reserved EXCEPT ![hold[h].account] = @ - hold[h].amount]
      BY <2>4
    <3> QED
      BY <2>4, <3>1, ConsumeKeepsHolds
  <2>6. BooksBalance'
    <3>1. /\ FreshTxn(t)
          /\ txn' = [txn EXCEPT ![t] = EventTxn(m, "external_debit", "debit")]
      BY <1>16 DEF CommitPaymentSent
    <3> HIDE DEF m
    <3>2. "external_debit" \in Kinds /\ "debit" \in Sides
      BY DEF Kinds, Sides
    <3>3. balance' = [balance EXCEPT ![m.account] =
                        IF "debit" = "credit"
                        THEN balance[m.account] + m.event.amount
                        ELSE balance[m.account] - m.event.amount]
      BY <2>4
    <3> QED
      BY <1>14, <2>1, <2>2, <3>1, <3>2, <3>3
  <2>7. FundsCoverHolds'
    <3> HIDE DEF m
    <3> SUFFICES ASSUME NEW a \in Accounts
                 PROVE  reserved'[a] <= balance'[a]
      BY <2>5 DEF FundsCoverHolds
    <3>1. /\ reserved[a] \in Int /\ balance[a] \in Int
          /\ reserved[a] <= balance[a]
      BY DEF TypeOK, FundsCoverHolds
    <3>2. balance'[a] = IF a = m.account THEN balance[a] - m.event.amount
                        ELSE balance[a]
      BY <2>4 DEF TypeOK
    <3>3. reserved'[a] = IF a = m.account THEN reserved[a] - m.event.amount
                         ELSE reserved[a]
      BY <2>5
    <3> QED
      BY <2>2, <3>1, <3>2, <3>3
  <2> QED
    BY <1>1, <2>3, <2>5, <2>6, <2>7
<1>17. CASE UNCHANGED vars
  <2> USE <1>17 DEF vars
  <2>1. FreshReads'
    BY DEF FreshReads
  <2>2. BooksBalance'
    BY BooksUntouched DEF AppliedTxns
  <2>3. ReservedMatchesHolds' /\ HoldsPositive'
    BY HoldsUntouched
  <2> QED
    BY <1>1, <2>1, <2>2, <2>3, RowsUntouched
<1> QED
  BY <1>2, <1>3, <1>4, <1>5, <1>6, <1>7, <1>8, <1>9, <1>10, <1>11, <1>12,
     <1>13, <1>15, <1>16, <1>17, WorkerExpires
  DEF Next, TransactionStep, HoldStep, EventStep

\* The empty ledger is in order.
LEMMA BooksInit == Init => BooksInv
<1> SUFFICES ASSUME Init PROVE BooksInv
  OBVIOUS
<1>1. TypeOK
  <2>1. NoTxn \in Transaction /\ NoHold \in Hold
    BY DEF NoTxn, NoHold, Transaction, Hold, Kinds, Deadlines, TxnKeys,
           OptionalKey
  <2>2. IsFiniteSet(NoTxn.entries)
    BY FS_EmptySet DEF NoTxn
  <2> QED
    BY <2>1, <2>2 DEF Init, TypeOK
<1>2. FreshReads /\ HoldsPositive /\ FundsCoverHolds
  BY DEF Init, FreshReads, HoldsPositive, FundsCoverHolds, NoHold
<1>3. BooksBalance
  <2>1. AppliedTxns = {}
    BY DEF Init, AppliedTxns, NoTxn
  <2>2. \A a \in Accounts, side \in Sides : AppliedLines(a, side) = {}
    BY <2>1 DEF AppliedLines
  <2>3. \A a \in Accounts : balance[a] = 0
    BY DEF Init
  <2> QED
    BY <2>2, <2>3, TotalEmpty DEF BooksBalance, Sides
<1>4. ReservedMatchesHolds
  <2>1. \A a \in Accounts : ActiveRows(a) = {}
    BY DEF Init, ActiveRows, HeldRows, NoHold
  <2> QED
    BY <2>1, TotalEmpty DEF Init, ReservedMatchesHolds
<1> QED
  BY <1>1, <1>2, <1>3, <1>4 DEF BooksInv

\* Without an overlapping message the books stay in order for ever.
LEMMA BooksAlways ==
  ASSUME ~Overlap
  PROVE  Spec => []BooksInv
<1>1. Init => BooksInv
  BY BooksInit
<1>2. BooksInv /\ [Next]_vars => BooksInv'
  BY BooksStep
<1> QED
  BY <1>1, <1>2, PTL DEF Spec

\* Every stored balance is the sum of the posted and reversed entries, as long
\* as no writer runs between the two steps of a payment message.
THEOREM BalancesAddUp ==
  ASSUME ~Overlap
  PROVE  Spec => []BooksBalance
<1>1. BooksInv => BooksBalance
  BY DEF BooksInv
<1> QED
  BY <1>1, BooksAlways, PTL

\* Every reserved balance is the sum of the active holds, as long as no writer
\* runs between the two steps of a payment message.
THEOREM ReservedAddsUp ==
  ASSUME ~Overlap
  PROVE  Spec => []ReservedMatchesHolds
<1>1. BooksInv => ReservedMatchesHolds
  BY DEF BooksInv
<1> QED
  BY <1>1, BooksAlways, PTL

\* The guards of the handlers keep 0 <= reserved <= balance by themselves,
\* whether or not the CHECK constraints back them (Checks is arbitrary).
THEOREM HeldFundsAreThere ==
  ASSUME ~Overlap
  PROVE  Spec => []FundsCoverHolds
<1>1. BooksInv => FundsCoverHolds
  BY DEF BooksInv
<1> QED
  BY <1>1, BooksAlways, PTL

-----------------------------------------------------------------------------
(* What a step may do to transactions and to holds.                        *)

\* A step that leaves every transaction alone.
SameTxns == txn' = txn

\* A step that records a new transaction t.
Records(t) ==
  /\ txn[t].status = "none"
  /\ txn' = [txn EXCEPT ![t] = txn'[t]]
  /\ txn'[t].status \in {"pending", "posted"} /\ txn'[t].reverses = None
  /\ TxnKeyUnused(txn'[t].key)

\* A step that posts the pending transaction t.
Posts(t) ==
  /\ txn[t].status = "pending"
  /\ txn' = [txn EXCEPT ![t].status = "posted"]

\* A step that reverses t with r.
Reverses(t, r) ==
  /\ txn[t].status = "posted" /\ txn[r].status = "none"
  /\ \A x \in Txns : txn[x].reverses # t
  /\ txn' = [txn EXCEPT ![t].status = "reversed", ![r] = txn'[r]]
  /\ txn'[r].status = "posted" /\ txn'[r].reverses = t
  /\ txn'[r].key = None
  /\ txn'[r].entries = Mirror(txn[t].entries)

\* Every step leaves the transactions alone, records one, posts one or
\* reverses one.
LEMMA TxnSteps ==
  ASSUME TypeOK, [Next]_vars
  PROVE  \/ SameTxns
         \/ \E t \in Txns : Records(t) \/ Posts(t)
         \/ \E t \in Txns, r \in Txns : Reverses(t, r)
<1> DEFINE Goal == \/ SameTxns
                   \/ \E t \in Txns : Records(t) \/ Posts(t)
                   \/ \E t \in Txns, r \in Txns : Reverses(t, r)
<1>1. ASSUME NEW t \in Txns, NEW p \in Payloads, NEW k \in OptionalKey,
             CreateTransaction(t, p, k)
      PROVE  Records(t)
  BY <1>1 DEF CreateTransaction, Records, FreshTxn, TypeOK
<1>2. ASSUME NEW t \in Txns, NEW k \in OptionalKey, PostTransaction(t, k)
      PROVE  Posts(t)
  BY <1>2 DEF PostTransaction, Posts
<1>3. ASSUME NEW t \in Txns, NEW r \in Txns, NEW k \in OptionalKey,
             ReverseTransaction(t, r, k)
      PROVE  Reverses(t, r)
  <2> DEFINE R == [status |-> "posted", kind |-> MirrorKind(txn[t].kind),
                   entries |-> Mirror(txn[t].entries), key |-> None,
                   reverses |-> t]
  <2>1. /\ txn' = [txn EXCEPT ![t].status = "reversed", ![r] = R]
        /\ txn[t].status = "posted" /\ txn[r].status = "none"
        /\ \A x \in Txns : txn[x].reverses # t
    BY <1>3 DEF ReverseTransaction, Reversible, ReversalOf, FreshTxn
  <2>2. /\ R.status = "posted" /\ R.reverses = t /\ R.key = None
        /\ R.entries = Mirror(txn[t].entries)
    OBVIOUS
  <2> HIDE DEF R
  <2>3. txn'[r] = R
    BY <2>1 DEF TypeOK
  <2> QED
    BY <2>1, <2>2, <2>3 DEF Reverses
<1>4. ASSUME NEW h \in Holds, NEW t \in Txns, NEW k \in OptionalKey,
             ConsumeHold(h, t, k)
      PROVE  SameTxns \/ Posts(t)
  BY <1>4 DEF ConsumeHold, SameTxns, Posts
<1>5. ASSUME NEW s \in Sessions, NEW t \in Txns, NEW kind, NEW side,
             FreshTxn(t), TxnKeyUnused(EventKey(seen[s].event)),
             txn' = [txn EXCEPT ![t] = EventTxn(seen[s], kind, side)]
      PROVE  Records(t)
  <2>1. txn'[t] = EventTxn(seen[s], kind, side)
    BY <1>5 DEF TypeOK
  <2>2. /\ txn'[t].status = "posted" /\ txn'[t].reverses = None
        /\ txn'[t].key = EventKey(seen[s].event)
    BY <2>1 DEF EventTxn
  <2> QED
    BY <1>5, <2>1, <2>2 DEF Records, FreshTxn
<1>6. ASSUME NEW s \in Sessions, NEW t \in Txns, CommitInvoicePaid(s, t)
      PROVE  Records(t)
  BY <1>5, <1>6 DEF CommitInvoicePaid
<1>7. ASSUME NEW s \in Sessions, NEW h \in Holds, NEW t \in Txns,
             CommitPaymentSent(s, h, t)
      PROVE  Records(t)
  BY <1>5, <1>7 DEF CommitPaymentSent
<1>8. ASSUME NEW h \in Holds, NEW k \in OptionalKey,
             ExpireHold(h, k) \/ ReleaseHold(h, k) \/ DeadlinePasses(h)
      PROVE  SameTxns
  BY <1>8 DEF ExpireHold, ReleaseHold, DeadlinePasses, SameTxns
<1>9. ASSUME NEW h \in Holds, NEW q \in HoldRequests, NEW k \in OptionalKey,
             CreateHold(h, q, k)
      PROVE  SameTxns
  BY <1>9 DEF CreateHold, SameTxns
<1>10. ASSUME \/ \E a \in Accounts : CreateAccount(a)
              \/ \E S \in SUBSET Holds : Expires(S)
              \/ \E s \in Sessions, e \in Events, a \in Accounts :
                   BeginEvent(s, e, a)
              \/ \E s \in Sessions : AbandonEvent(s)
              \/ UNCHANGED vars
       PROVE  SameTxns
  BY <1>10 DEF CreateAccount, Expires, BeginEvent, AbandonEvent, vars,
               SameTxns
<1> HIDE DEF Goal
<1>11. ASSUME TransactionStep PROVE Goal
  BY <1>1, <1>2, <1>3, <1>10, <1>11 DEF TransactionStep, Goal
<1>12. ASSUME HoldStep PROVE Goal
  <2>1. None \in OptionalKey
    BY DEF OptionalKey
  <2> QED
    BY <1>4, <1>8, <1>9, <1>12, <2>1 DEF HoldStep, Goal
<1>13. ASSUME WorkerStep PROVE Goal
  BY <1>10, <1>13, WorkerExpires DEF Goal
<1>14. ASSUME EventStep PROVE Goal
  BY <1>6, <1>7, <1>10, <1>14 DEF EventStep, Goal
<1>15. Goal
  BY <1>10, <1>11, <1>12, <1>13, <1>14 DEF Next, Goal
<1> QED
  BY <1>15 DEF Goal

-----------------------------------------------------------------------------
(* Transactions.                                                           *)

\* No key names two transactions.
LEMMA OnceStep ==
  ASSUME TypeOK, AppliedOnce, [Next]_vars
  PROVE  AppliedOnce'
<1>1. CASE SameTxns
  BY <1>1 DEF SameTxns, AppliedOnce
<1>2. ASSUME NEW t \in Txns, Records(t)
      PROVE  AppliedOnce'
  BY <1>2 DEF Records, TxnKeyUnused, AppliedOnce, TypeOK
<1>3. ASSUME NEW t \in Txns, Posts(t)
      PROVE  AppliedOnce'
  BY <1>3 DEF Posts, AppliedOnce, TypeOK, Transaction
<1>4. ASSUME NEW t \in Txns, NEW r \in Txns, Reverses(t, r)
      PROVE  AppliedOnce'
  <2>1. t # r
    BY <1>4 DEF Reverses
  <2>2. /\ txn'[r].key = None
        /\ \A x \in Txns \ {r} : txn'[x].key = txn[x].key
    BY <1>4, <2>1 DEF Reverses, TypeOK, Transaction
  <2> QED
    BY <2>2 DEF AppliedOnce
<1> QED
  BY <1>1, <1>2, <1>3, <1>4, TxnSteps

\* An invoice is credited and a withdrawal debited at most once, however its
\* messages are delivered and interleaved.
THEOREM AppliedAtMostOnce == Spec => []AppliedOnce
<1>1. Init => AppliedOnce
  BY DEF Init, AppliedOnce, NoTxn
<1>2. TypeOK /\ AppliedOnce /\ [Next]_vars => AppliedOnce'
  BY OnceStep
<1> QED
  BY <1>1, <1>2, TypeCorrect, PTL DEF Spec

\* A reversal and the transaction it undoes stay paired.
LEMMA PairedStep ==
  ASSUME TypeOK, ReversalsPaired, [Next]_vars
  PROVE  ReversalsPaired'
<1>1. CASE SameTxns
  BY <1>1 DEF SameTxns, ReversalsPaired, AppliedTxns
<1>2. ASSUME NEW t \in Txns, Records(t)
      PROVE  ReversalsPaired'
  <2>1. /\ txn[t].reverses = None
        /\ \A r \in Txns : txn[r].reverses # t
    BY <1>2, SetsAssumption DEF Records, ReversalsPaired, AppliedTxns
  <2>2. /\ txn'[t].reverses = None /\ txn'[t].status # "reversed"
        /\ \A x \in Txns \ {t} : txn'[x] = txn[x]
    BY <1>2 DEF Records, TypeOK
  <2>3. \A r \in Txns : txn'[r].reverses # None =>
          r # t /\ txn'[r] = txn[r] /\ txn[r].reverses # t
    BY <2>1, <2>2
  <2>4. \A x \in Txns : txn'[x].status = "reversed"
                          <=> \E r \in Txns : txn'[r].reverses = x
    BY <2>1, <2>2, SetsAssumption DEF ReversalsPaired
  <2>5. \A r \in Txns : txn'[r].reverses # None =>
          /\ r \in AppliedTxns'
          /\ txn'[r].entries = Mirror(txn'[txn'[r].reverses].entries)
          /\ \A x \in Txns : txn'[x].reverses = txn'[r].reverses => x = r
    <3> SUFFICES ASSUME NEW r \in Txns, txn'[r].reverses # None
                 PROVE  /\ r \in AppliedTxns'
                        /\ txn'[r].entries
                             = Mirror(txn'[txn'[r].reverses].entries)
                        /\ \A x \in Txns :
                             txn'[x].reverses = txn'[r].reverses => x = r
      OBVIOUS
    <3>1. /\ txn'[r] = txn[r] /\ txn[r].reverses # t
          /\ txn[r].reverses \in Txns
      BY <2>3 DEF TypeOK, Transaction
    <3>2. txn'[txn[r].reverses] = txn[txn[r].reverses]
      BY <2>2, <3>1
    <3> QED
      BY <2>2, <2>3, <3>1, <3>2 DEF ReversalsPaired, AppliedTxns
  <2> QED
    BY <2>4, <2>5 DEF ReversalsPaired
<1>3. ASSUME NEW t \in Txns, Posts(t)
      PROVE  ReversalsPaired'
  <2>1. \A x \in Txns : /\ txn'[x].reverses = txn[x].reverses
                        /\ txn'[x].entries = txn[x].entries
                        /\ txn'[x].status = "reversed"
                             <=> txn[x].status = "reversed"
                        /\ x \in AppliedTxns => x \in AppliedTxns'
    BY <1>3 DEF Posts, TypeOK, Transaction, AppliedTxns
  <2>2. \A r \in Txns : txn[r].reverses # None => txn[r].reverses \in Txns
    BY DEF TypeOK, Transaction
  <2> QED
    BY <2>1, <2>2 DEF ReversalsPaired
<1>4. ASSUME NEW t \in Txns, NEW r \in Txns, Reverses(t, r)
      PROVE  ReversalsPaired'
  <2>1. /\ t # r /\ txn[r].reverses = None
        /\ \A x \in Txns : txn[x].reverses # r
    BY <1>4, SetsAssumption DEF Reverses, ReversalsPaired, AppliedTxns
  <2>2. /\ txn'[r].status = "posted" /\ txn'[r].reverses = t
        /\ txn'[r].entries = Mirror(txn[t].entries)
        /\ txn'[t].status = "reversed"
        /\ \A x \in Txns \ {r} : /\ txn'[x].reverses = txn[x].reverses
                                 /\ txn'[x].entries = txn[x].entries
        /\ \A x \in Txns \ {r, t} : txn'[x].status = txn[x].status
    BY <1>4, <2>1 DEF Reverses, TypeOK, Transaction
  <2>3. \A x \in Txns : txn'[x].status = "reversed"
                          <=> \E y \in Txns : txn'[y].reverses = x
    <3> SUFFICES ASSUME NEW x \in Txns
                 PROVE  txn'[x].status = "reversed"
                          <=> \E y \in Txns : txn'[y].reverses = x
      OBVIOUS
    <3>1. CASE x = t
      BY <2>2, <3>1
    <3>2. CASE x = r
      BY <2>1, <2>2, <3>2
    <3>3. CASE x # t /\ x # r
      <4>1. txn'[x].status = "reversed"
              <=> \E y \in Txns : txn[y].reverses = x
        BY <2>2, <3>3 DEF ReversalsPaired
      <4>2. ASSUME NEW y \in Txns
            PROVE  txn'[y].reverses = x <=> txn[y].reverses = x
        BY <2>1, <2>2, <3>3, SetsAssumption
      <4> QED
        BY <4>1, <4>2
    <3> QED
      BY <3>1, <3>2, <3>3
  <2>4. ASSUME NEW y \in Txns, txn'[y].reverses # None
        PROVE  /\ y \in AppliedTxns'
               /\ txn'[y].entries = Mirror(txn'[txn'[y].reverses].entries)
               /\ \A x \in Txns : txn'[x].reverses = txn'[y].reverses => x = y
    <3>1. CASE y = r
      <4>1. \A x \in Txns \ {r} : txn'[x].reverses # t
        BY <1>4, <2>2 DEF Reverses
      <4> QED
        BY <2>1, <2>2, <3>1, <4>1 DEF AppliedTxns
    <3>2. CASE y # r
      <4>1. /\ txn[y].reverses \in Txns \ {r}
            /\ txn'[y].reverses = txn[y].reverses
            /\ txn[y].reverses # t
        BY <1>4, <2>1, <2>2, <2>4, <3>2 DEF TypeOK, Transaction, Reverses
      <4>2. y \in AppliedTxns'
        BY <2>2, <2>4, <3>2 DEF ReversalsPaired, AppliedTxns
      <4>3. txn'[y].entries = Mirror(txn'[txn'[y].reverses].entries)
        BY <2>2, <2>4, <3>2, <4>1 DEF ReversalsPaired
      <4>4. \A x \in Txns : txn'[x].reverses = txn'[y].reverses => x = y
        BY <2>2, <2>4, <3>2, <4>1 DEF ReversalsPaired
      <4> QED
        BY <4>2, <4>3, <4>4
    <3> QED
      BY <3>1, <3>2
  <2> QED
    BY <2>3, <2>4 DEF ReversalsPaired
<1> QED
  BY <1>1, <1>2, <1>3, <1>4, TxnSteps

\* A reversed transaction has exactly one mirror, and only it does, however
\* the requests that reverse it race.
THEOREM ReversedOnce == Spec => []ReversalsPaired
<1>1. Init => ReversalsPaired
  BY SetsAssumption DEF Init, ReversalsPaired, NoTxn
<1>2. TypeOK /\ ReversalsPaired /\ [Next]_vars => ReversalsPaired'
  BY PairedStep
<1> QED
  BY <1>1, <1>2, TypeCorrect, PTL DEF Spec

\* A transaction's record only advances.
LEMMA AdvanceStep ==
  ASSUME TypeOK, [Next]_vars
  PROVE  \A t \in Txns : TxnAdvances(t)
<1>1. CASE SameTxns
  BY <1>1 DEF SameTxns, TxnAdvances, TypeOK, Transaction
<1>2. ASSUME NEW t \in Txns, Records(t)
      PROVE  \A x \in Txns : TxnAdvances(x)
  BY <1>2 DEF Records, TxnAdvances, TypeOK, Transaction
<1>3. ASSUME NEW t \in Txns, Posts(t)
      PROVE  \A x \in Txns : TxnAdvances(x)
  BY <1>3 DEF Posts, TxnAdvances, TypeOK, Transaction
<1>4. ASSUME NEW t \in Txns, NEW r \in Txns, Reverses(t, r)
      PROVE  \A x \in Txns : TxnAdvances(x)
  BY <1>4 DEF Reverses, TxnAdvances, TypeOK, Transaction
<1> QED
  BY <1>1, <1>2, <1>3, <1>4, TxnSteps

\* Nothing that was recorded is rewritten.
THEOREM HistoryKept == Spec => HistoryAppendOnly
<1>1. TypeOK /\ [Next]_vars => [\A t \in Txns : TxnAdvances(t)]_vars
  BY AdvanceStep
<1> QED
  BY <1>1, TypeCorrect, PTL DEF Spec, HistoryAppendOnly

-----------------------------------------------------------------------------
(* Holds.                                                                  *)

SameHolds == hold' = hold

\* A step that puts the new hold h on an account.
Opens(h) ==
  /\ hold[h].status = "none"
  /\ hold' = [hold EXCEPT ![h] = hold'[h]]
  /\ hold'[h].status = "active"
  /\ hold'[h].amount > 0 /\ hold'[h].account \in Accounts

\* A step that ends the active holds S and leaves every balance alone.
Frees(S, status) ==
  /\ \A h \in S : hold[h].status = "active"
  /\ hold' = [h \in Holds |->
                IF h \in S THEN [hold[h] EXCEPT !.status = status] ELSE hold[h]]
  /\ balance' = balance

\* A step that consumes h and posts a debit of its amount on its account.
Spends(h) ==
  /\ hold[h].status = "active"
  /\ hold' = [hold EXCEPT ![h].status = "consumed"]
  /\ \E t \in Txns : /\ t \notin AppliedTxns
                     /\ txn'[t].status = "posted"
                     /\ Debits(t, txn'[t].entries, hold[h].account)
                          = hold[h].amount

\* Every step leaves the holds alone, opens one, lets a deadline pass, frees
\* some or spends one.
LEMMA HoldSteps ==
  ASSUME TypeOK, HoldsPositive, [Next]_vars
  PROVE  \/ SameHolds
         \/ \E h \in Holds : Opens(h) \/ DeadlinePasses(h) \/ Spends(h)
         \/ \E S \in SUBSET Holds, status \in {"released", "expired"} :
              Frees(S, status)
<1> DEFINE Goal ==
      \/ SameHolds
      \/ \E h \in Holds : Opens(h) \/ DeadlinePasses(h) \/ Spends(h)
      \/ \E S \in SUBSET Holds, status \in {"released", "expired"} :
           Frees(S, status)
<1>1. ASSUME NEW h \in Holds, NEW q \in HoldRequests, NEW k \in OptionalKey,
             CreateHold(h, q, k)
      PROVE  Opens(h)
  BY <1>1, InputsAssumption DEF CreateHold, Opens, TypeOK
<1>2. ASSUME NEW S \in SUBSET Holds, NEW status, Free(S, status),
             \A h \in S : hold[h].status = "active"
      PROVE  Frees(S, status)
  BY <1>2 DEF Free, WriteAccounts, Frees
<1>3. ASSUME NEW h \in Holds, NEW k \in OptionalKey,
             ExpireHold(h, k) \/ ReleaseHold(h, k)
      PROVE  Frees({h}, "expired") \/ Frees({h}, "released")
  BY <1>2, <1>3 DEF ExpireHold, ReleaseHold
<1>4. ASSUME NEW S \in SUBSET Holds, Expires(S)
      PROVE  Frees(S, "expired")
  BY <1>2, <1>4 DEF Expires, Due
<1>5. ASSUME NEW h \in Holds, NEW t \in Txns, NEW k \in OptionalKey,
             ConsumeHold(h, t, k)
      PROVE  Frees({h}, "expired") \/ Spends(h)
  <2>1. CASE Due(h)
    BY <1>2, <1>5, <2>1 DEF ConsumeHold
  <2>2. CASE ~Due(h)
    <3>1. /\ hold[h].status = "active" /\ txn[t].status = "pending"
          /\ DebitsHold(txn[t].entries, hold[h])
          /\ txn' = [txn EXCEPT ![t].status = "posted"]
          /\ hold' = [hold EXCEPT ![h].status = "consumed"]
      BY <1>5, <2>2 DEF ConsumeHold
    <3>2. txn'[t].status = "posted" /\ txn'[t].entries = txn[t].entries
      BY <3>1 DEF TypeOK, Transaction
    <3>3. Debits(t, txn[t].entries, hold[h].account) = hold[h].amount
      BY <3>1, HoldDebit DEF TypeOK, Transaction, HoldsPositive
    <3> QED
      BY <3>1, <3>2, <3>3 DEF Spends, AppliedTxns
  <2> QED
    BY <2>1, <2>2
<1>6. ASSUME NEW s \in Sessions, NEW h \in Holds, NEW t \in Txns,
             CommitPaymentSent(s, h, t)
      PROVE  Spends(h)
  <2> DEFINE m == seen[s]
             d == [line |-> 1, account |-> m.account, side |-> "debit",
                   amount |-> m.event.amount]
  <2>1. m \in Seen /\ m.event \in Events
    BY <1>6 DEF CommitPaymentSent, TypeOK, Seen
  <2>2. /\ hold[h].status = "active" /\ hold[h].account = m.account
        /\ hold[h].amount = m.event.amount
        /\ hold' = [hold EXCEPT ![h].status = "consumed"]
        /\ txn[t].status = "none"
        /\ txn' = [txn EXCEPT ![t] = EventTxn(m, "external_debit", "debit")]
    BY <1>6 DEF CommitPaymentSent, FreshTxn
  <2>3. d \in Entry /\ d.amount > 0
    BY <2>1, <2>2, InputsAssumption DEF Entry, Seen, Sides, HoldsPositive
  <2>4. /\ d.account = hold[h].account /\ d.side = "debit"
        /\ d.amount = hold[h].amount
    BY <2>2
  <2>5. txn'[t].status = "posted" /\ txn'[t].entries = {d}
    BY <2>2 DEF TypeOK, EventTxn
  <2> HIDE DEF d, m
  <2>6. Debits(t, {d}, hold[h].account) = hold[h].amount
    BY <2>3, <2>4, OneEntrySums
  <2> QED
    BY <2>2, <2>5, <2>6 DEF Spends, AppliedTxns
<1>7. ASSUME \/ TransactionStep \/ UNCHANGED vars
             \/ \E s \in Sessions, e \in Events, a \in Accounts :
                  BeginEvent(s, e, a)
             \/ \E s \in Sessions : AbandonEvent(s)
             \/ \E s \in Sessions, t \in Txns : CommitInvoicePaid(s, t)
      PROVE  SameHolds
  BY <1>7 DEF TransactionStep, CreateAccount, CreateTransaction,
     PostTransaction, ReverseTransaction, BeginEvent, AbandonEvent,
     CommitInvoicePaid, vars, SameHolds
<1> HIDE DEF Goal
<1>8. ASSUME HoldStep PROVE Goal
  <2>1. ASSUME NEW h \in Holds, Frees({h}, "expired") \/ Frees({h}, "released")
        PROVE  Goal
    BY <2>1 DEF Goal
  <2> QED
    BY <1>1, <1>3, <1>5, <1>8, <2>1 DEF HoldStep, Goal
<1>9. ASSUME WorkerStep PROVE Goal
  BY <1>4, <1>9, WorkerExpires DEF Goal
<1>10. ASSUME EventStep PROVE Goal
  BY <1>6, <1>7, <1>10 DEF EventStep, Goal
<1>11. Goal
  BY <1>7, <1>8, <1>9, <1>10 DEF Next, Goal
<1> QED
  BY <1>11 DEF Goal

\* A hold ends once, whole, and for the reason its status says.
LEMMA SettleStep ==
  ASSUME TypeOK, HoldsPositive, [Next]_vars
  PROVE  (\A h \in Holds : HoldSettles(h)) /\ HoldsPositive'
<1>1. CASE SameHolds
  BY <1>1 DEF SameHolds, HoldSettles, HoldsPositive
<1>2. ASSUME NEW h \in Holds, Opens(h)
      PROVE  (\A x \in Holds : HoldSettles(x)) /\ HoldsPositive'
  <2>1. \A x \in Holds \ {h} : hold'[x] = hold[x]
    BY <1>2 DEF Opens, TypeOK
  <2> QED
    BY <1>2, <2>1 DEF Opens, HoldSettles, HoldsPositive
<1>3. ASSUME NEW h \in Holds, DeadlinePasses(h)
      PROVE  (\A x \in Holds : HoldSettles(x)) /\ HoldsPositive'
  <2>1. /\ \A x \in Holds \ {h} : hold'[x] = hold[x]
        /\ hold'[h].status = "active" /\ hold[h].status = "active"
        /\ hold'[h].amount = hold[h].amount
        /\ hold'[h].account = hold[h].account
    BY <1>3 DEF DeadlinePasses, TypeOK, Hold
  <2> QED
    BY <2>1 DEF HoldSettles, HoldsPositive
<1>4. ASSUME NEW h \in Holds, Spends(h)
      PROVE  (\A x \in Holds : HoldSettles(x)) /\ HoldsPositive'
  <2>1. /\ \A x \in Holds \ {h} : hold'[x] = hold[x]
        /\ hold'[h].status = "consumed" /\ hold[h].status = "active"
        /\ hold'[h].amount = hold[h].amount
        /\ hold'[h].account = hold[h].account
    BY <1>4 DEF Spends, TypeOK, Hold
  <2> QED
    BY <1>4, <2>1 DEF Spends, HoldSettles, HoldsPositive
<1>5. ASSUME NEW S \in SUBSET Holds, NEW status \in {"released", "expired"},
             Frees(S, status)
      PROVE  (\A x \in Holds : HoldSettles(x)) /\ HoldsPositive'
  <2>1. \A x \in Holds \ S : hold'[x] = hold[x]
    BY <1>5 DEF Frees
  <2>2. \A x \in S : /\ hold'[x].status = status /\ hold[x].status = "active"
                     /\ hold'[x].amount = hold[x].amount
                     /\ hold'[x].account = hold[x].account
    BY <1>5 DEF Frees, TypeOK, Hold
  <2>3. balance' = balance
    BY <1>5 DEF Frees
  <2> QED
    BY <2>1, <2>2, <2>3 DEF HoldSettles, HoldsPositive
<1> QED
  BY <1>1, <1>2, <1>3, <1>4, <1>5, HoldSteps

\* Held money is spent or given back exactly once, also when requests, the
\* worker and payment messages race for the hold.
THEOREM HoldsEndOnce == Spec => HoldsSettleOnce
<1>1. Init => HoldsPositive
  BY DEF Init, HoldsPositive, NoHold
<1>2. TypeOK /\ HoldsPositive /\ [Next]_vars
        => HoldsPositive' /\ [\A h \in Holds : HoldSettles(h)]_vars
  BY SettleStep
<1> QED
  BY <1>1, <1>2, TypeCorrect, PTL DEF Spec, HoldsSettleOnce

-----------------------------------------------------------------------------
(* Idempotency rows.                                                       *)

\* What a row promises the caller who repeats its key.
RowTrue(row) ==
  /\ row.op \in {"transaction.post", "transaction.reverse"}
       => row.resource \in Txns
  /\ row.op \in {"hold.consume", "hold.release", "hold.expire"}
       => row.resource \in Holds
  /\ row.op = "transaction.post" =>
       txn[row.resource].status \in {"posted", "reversed"}
  /\ row.op = "transaction.reverse" => txn[row.resource].status = "reversed"
  /\ row.op = "hold.consume" => hold[row.resource].status = "consumed"
  /\ row.op = "hold.release" => hold[row.resource].status = "released"
  /\ row.op = "hold.expire" => hold[row.resource].status = "expired"

RowsInv ==
  /\ \A row \in opRows : RowTrue(row)
  /\ \A row, other \in opRows :
       other.op = row.op /\ other.key = row.key => other = row

\* A row stays true: statuses it speaks of are final, or posted and reversed.
LEMMA RowStaysTrue ==
  ASSUME TypeOK, HoldsPositive, [Next]_vars,
         NEW row \in opRows, RowTrue(row)
  PROVE  RowTrue(row)'
<1>1. row.op \in Operations
  BY DEF TypeOK
<1>2. ASSUME NEW t \in Txns
      PROVE  /\ txn[t].status \in {"posted", "reversed"}
                  => txn'[t].status \in {"posted", "reversed"}
             /\ txn[t].status = "reversed" => txn'[t].status = "reversed"
  BY AdvanceStep DEF TxnAdvances
<1>3. ASSUME NEW h \in Holds,
             hold[h].status \in {"consumed", "released", "expired"}
      PROVE  hold'[h].status = hold[h].status
  BY <1>3, SettleStep DEF HoldSettles
<1> QED
  BY <1>1, <1>2, <1>3 DEF RowTrue, Operations

\* A step that records no row.
LEMMA RowsKept ==
  ASSUME TypeOK, HoldsPositive, [Next]_vars, RowsInv, opRows' = opRows
  PROVE  RowsInv'
BY RowStaysTrue DEF RowsInv

\* A step that records one row, whose promise it has just made true.
LEMMA RowsGrow ==
  ASSUME TypeOK, HoldsPositive, [Next]_vars, RowsInv,
         NEW op, NEW r, NEW k, OpKeyUnused(op, k),
         opRows' = Recorded(op, r, k),
         RowTrue([op |-> op, resource |-> r, key |-> k])'
  PROVE  RowsInv'
<1> DEFINE new == [op |-> op, resource |-> r, key |-> k]
<1>1. CASE k = None
  BY <1>1, RowsKept DEF Recorded
<1>2. CASE k # None
  <2>1. opRows' = opRows \cup {new}
    BY <1>2 DEF Recorded
  <2>2. \A row \in opRows : ~(row.op = new.op /\ row.key = new.key)
    BY <1>2 DEF OpKeyUnused
  <2>3. RowTrue(new)'
    OBVIOUS
  <2> HIDE DEF new
  <2>4. \A row \in opRows' : RowTrue(row)'
    BY <2>1, <2>3, RowStaysTrue DEF RowsInv
  <2>5. \A row, other \in opRows' :
          other.op = row.op /\ other.key = row.key => other = row
    BY <2>1, <2>2 DEF RowsInv
  <2> QED
    BY <2>4, <2>5 DEF RowsInv
<1> QED
  BY <1>1, <1>2

\* Every step records at most one row, and only for what it does.
LEMMA RowsStep ==
  ASSUME TypeOK, HoldsPositive, RowsInv, [Next]_vars
  PROVE  RowsInv'
<1>1. ASSUME NEW t \in Txns, NEW k \in OptionalKey, PostTransaction(t, k)
      PROVE  RowsInv'
  <2>1. /\ OpKeyUnused("transaction.post", k)
        /\ opRows' = Recorded("transaction.post", t, k)
        /\ txn' = [txn EXCEPT ![t].status = "posted"]
    BY <1>1 DEF PostTransaction
  <2>2. txn'[t].status = "posted"
    BY <2>1 DEF TypeOK, Transaction
  <2>3. RowTrue([op |-> "transaction.post", resource |-> t, key |-> k])'
    BY <2>2 DEF RowTrue
  <2> QED
    BY <2>1, <2>3, RowsGrow
<1>2. ASSUME NEW t \in Txns, NEW r \in Txns, NEW k \in OptionalKey,
             ReverseTransaction(t, r, k)
      PROVE  RowsInv'
  <2> DEFINE R == [status |-> "posted", kind |-> MirrorKind(txn[t].kind),
                   entries |-> Mirror(txn[t].entries), key |-> None,
                   reverses |-> t]
  <2>1. /\ OpKeyUnused("transaction.reverse", k)
        /\ opRows' = Recorded("transaction.reverse", t, k)
        /\ txn' = [txn EXCEPT ![t].status = "reversed", ![r] = R]
        /\ txn[t].status = "posted" /\ txn[r].status = "none"
    BY <1>2 DEF ReverseTransaction, Reversible, ReversalOf, FreshTxn
  <2> HIDE DEF R
  <2>2. txn'[t].status = "reversed"
    BY <2>1 DEF TypeOK, Transaction
  <2>3. RowTrue([op |-> "transaction.reverse", resource |-> t, key |-> k])'
    BY <2>2 DEF RowTrue
  <2> QED
    BY <2>1, <2>3, RowsGrow
<1>3. ASSUME NEW h \in Holds, NEW k \in OptionalKey, ExpireHold(h, k)
      PROVE  RowsInv'
  <2>1. /\ OpKeyUnused("hold.expire", k)
        /\ opRows' = Recorded("hold.expire", h, k)
        /\ hold'[h].status = "expired"
    BY <1>3 DEF ExpireHold, Free, TypeOK, Hold
  <2>2. RowTrue([op |-> "hold.expire", resource |-> h, key |-> k])'
    BY <2>1 DEF RowTrue
  <2> QED
    BY <2>1, <2>2, RowsGrow
<1>4. ASSUME NEW h \in Holds, NEW k \in OptionalKey, ReleaseHold(h, k)
      PROVE  RowsInv'
  <2>1. CASE Due(h)
    BY <1>4, <2>1, RowsKept DEF ReleaseHold
  <2>2. CASE ~Due(h)
    <3>1. /\ OpKeyUnused("hold.release", k)
          /\ opRows' = Recorded("hold.release", h, k)
          /\ hold'[h].status = "released"
      BY <1>4, <2>2 DEF ReleaseHold, Free, TypeOK, Hold
    <3>2. RowTrue([op |-> "hold.release", resource |-> h, key |-> k])'
      BY <3>1 DEF RowTrue
    <3> QED
      BY <3>1, <3>2, RowsGrow
  <2> QED
    BY <2>1, <2>2
<1>5. ASSUME NEW h \in Holds, NEW t \in Txns, NEW k \in OptionalKey,
             ConsumeHold(h, t, k)
      PROVE  RowsInv'
  <2>1. CASE Due(h)
    BY <1>5, <2>1, RowsKept DEF ConsumeHold
  <2>2. CASE ~Due(h)
    <3>1. /\ OpKeyUnused("hold.consume", k)
          /\ opRows' = Recorded("hold.consume", h, k)
          /\ hold' = [hold EXCEPT ![h].status = "consumed"]
      BY <1>5, <2>2 DEF ConsumeHold
    <3>2. hold'[h].status = "consumed"
      BY <3>1 DEF TypeOK, Hold
    <3>3. RowTrue([op |-> "hold.consume", resource |-> h, key |-> k])'
      BY <3>2 DEF RowTrue
    <3> QED
      BY <3>1, <3>3, RowsGrow
  <2> QED
    BY <2>1, <2>2
<1>6. ASSUME \/ \E a \in Accounts : CreateAccount(a)
             \/ \E t \in Txns, p \in Payloads, k \in OptionalKey :
                  CreateTransaction(t, p, k)
             \/ \E h \in Holds, q \in HoldRequests, k \in OptionalKey :
                  CreateHold(h, q, k)
             \/ \E h \in Holds : DeadlinePasses(h)
             \/ WorkerStep \/ EventStep \/ UNCHANGED vars
      PROVE  RowsInv'
  <2>1. opRows' = opRows
    BY <1>6 DEF CreateAccount, CreateTransaction, CreateHold, DeadlinePasses,
       WorkerStep, ExpireDueHolds, EventStep, BeginEvent, AbandonEvent,
       CommitInvoicePaid, CommitPaymentSent, vars
  <2> QED
    BY <2>1, RowsKept
<1> QED
  BY <1>1, <1>2, <1>3, <1>4, <1>5, <1>6 DEF Next, TransactionStep, HoldStep

\* A caller that repeats a key is told of something that did happen, to the
\* resource it names, and for one resource only.
THEOREM RepliesTrue == Spec => []ReplaysTruthful
<1>1. Init => HoldsPositive /\ RowsInv
  BY DEF Init, HoldsPositive, NoHold, RowsInv
<1>2. TypeOK /\ HoldsPositive /\ RowsInv /\ [Next]_vars
        => HoldsPositive' /\ RowsInv'
  BY SettleStep, RowsStep
<1>3. RowsInv => ReplaysTruthful
  BY DEF RowsInv, RowTrue, ReplaysTruthful
<1> QED
  BY <1>1, <1>2, <1>3, TypeCorrect, PTL DEF Spec

-----------------------------------------------------------------------------
(* What is stored is well formed.                                          *)

\* Every stored transaction passed the validation of its entries, a reversal
\* and the transaction of a payment message included.
SoundTxns ==
  \A t \in Txns :
    txn[t].status # "none" => ValidEntries(t, txn[t].kind, txn[t].entries)

EventsPositive == \A s \in Sessions : seen[s] # None => seen[s].event.amount > 0

SoundInv == TypeOK /\ SoundTxns /\ EventsPositive

\* The mirror of entries debits what they credit and credits what they debit.
LEMMA MirrorSums ==
  ASSUME NEW E \in SUBSET Entry, IsFiniteSet(E), \A e \in E : e.amount > 0,
         NEW t, NEW r, NEW side \in Sides
  PROVE  Total(SideLines(r, Mirror(E), side))
           = Total(SideLines(t, E, Opposite(side)))
<1> DEFINE S == {e \in E : e.side = Opposite(side)}
           m == [e \in S |-> [e EXCEPT !.side = side]]
           f == [e \in S |-> <<t, e>>]
           g == [e \in S |-> <<r, m[e]>>]
           F == [e \in S |-> [amount |-> e.amount]]
<1>1. IsFiniteSet(S)
  BY FS_Subset
<1>2. \A e \in S : e \in Entry /\ e.amount \in Nat /\ e.side = Opposite(side)
  BY DEF Entry
<1>3. \A e \in S : /\ m[e].amount = e.amount
                   /\ m[e].side = side
                   /\ m[e].line = e.line
                   /\ m[e].account = e.account
                   /\ m[e] \in Entry
  BY <1>2 DEF Entry, Sides
<1>4. \A e, d \in S : m[e] = m[d] => e = d
  <2> SUFFICES ASSUME NEW e \in S, NEW d \in S, m[e] = m[d]
               PROVE  e = d
    OBVIOUS
  <2>1. /\ e.amount = d.amount /\ e.line = d.line /\ e.account = d.account
        /\ e.side = d.side
    <3>1. m[e].amount = m[d].amount /\ m[e].line = m[d].line /\ m[e].account = m[d].account
      OBVIOUS
    <3> HIDE DEF m, S, f, g, F
    <3>2. e.amount = d.amount /\ e.line = d.line /\ e.account = d.account
      BY <1>3, <3>1
    <3>3. e.side = d.side
      BY <1>2
    <3> QED
      BY <3>2, <3>3
  <2> QED
    BY <1>2, <2>1 DEF Entry
<1>5. Total({f[e] : e \in S}) = Total(RowsOf(S, F))
  <2>1. \A e \in S : f[e][2].amount \in Nat /\ F[e].amount = f[e][2].amount
    BY <1>2
  <2>2. \A e, d \in S : e # d => f[e] # f[d]
    OBVIOUS
  <2> HIDE DEF f, F, S
  <2> QED
    BY <1>1, <2>1, <2>2, TotalIndexed
<1>6. Total({g[e] : e \in S}) = Total(RowsOf(S, F))
  <2>1. \A e \in S : g[e][2].amount \in Nat /\ F[e].amount = g[e][2].amount
    BY <1>2, <1>3
  <2>2. \A e, d \in S : e # d => g[e] # g[d]
    BY <1>4
  <2> HIDE DEF g, F, S
  <2> QED
    BY <1>1, <2>1, <2>2, TotalIndexed
<1>7. {f[e] : e \in S} = SideLines(t, E, Opposite(side))
  BY DEF SideLines
<1>8. {g[e] : e \in S} = SideLines(r, Mirror(E), side)
  <2>1. Opposite(Opposite(side)) = side /\ Opposite(side) # side
    BY DEF Opposite, Sides
  <2>2. \A e \in E : [e EXCEPT !.side = Opposite(e.side)].side = Opposite(e.side)
    BY DEF Entry
  <2>3. \A e \in E : Opposite(e.side) = side => e.side = Opposite(side)
    BY DEF Opposite, Sides, Entry
  <2>4. {x \in Mirror(E) : x.side = side} = {m[e] : e \in S}
    <3>1. ASSUME NEW x \in Mirror(E), x.side = side
          PROVE  x \in {m[e] : e \in S}
      <4>1. PICK e \in E : x = [e EXCEPT !.side = Opposite(e.side)]
        BY DEF Mirror
      <4>2. Opposite(e.side) = side /\ e \in S
        BY <2>2, <2>3, <3>1, <4>1
      <4>3. x = m[e]
        BY <4>1, <4>2
      <4> QED
        BY <4>2, <4>3
    <3>2. ASSUME NEW e \in S
          PROVE  m[e] \in Mirror(E) /\ m[e].side = side
      <4>1. m[e] = [e EXCEPT !.side = Opposite(e.side)] /\ e \in E
        BY <1>2, <2>1
      <4>2. m[e] \in Mirror(E)
        BY <4>1 DEF Mirror
      <4> QED
        BY <1>3, <4>2
    <3> HIDE DEF m, S
    <3> QED
      BY <3>1, <3>2
  <2>5. SideLines(r, Mirror(E), side) = {<<r, x>> : x \in {m[e] : e \in S}}
    BY <2>4 DEF SideLines
  <2> HIDE DEF m, S
  <2> QED
    BY <2>5
<1> QED
  BY <1>5, <1>6, <1>7, <1>8

\* What was valid is valid when it is undone.
LEMMA MirrorValid ==
  ASSUME NEW E \in SUBSET Entry, IsFiniteSet(E), NEW t, NEW r,
         NEW kind \in Kinds, ValidEntries(t, kind, E)
  PROVE  ValidEntries(r, MirrorKind(kind), Mirror(E))
<1>1. \A e \in E : e.amount > 0
  BY DEF ValidEntries
<1>2. Mirror(E) # {} /\ \A e \in Mirror(E) : e.amount > 0
  BY <1>1 DEF Mirror, ValidEntries, Entry
<1>3. /\ Total(SideLines(r, Mirror(E), "debit")) = Total(SideLines(t, E, "credit"))
      /\ Total(SideLines(r, Mirror(E), "credit")) = Total(SideLines(t, E, "debit"))
  BY <1>1, MirrorSums DEF Opposite, Sides
<1> QED
  BY <1>2, <1>3 DEF ValidEntries, MirrorKind, Kinds

\* The one entry of a payment message.
LEMMA OneEntrySide ==
  ASSUME NEW t, NEW d \in Entry, d.amount > 0, NEW side
  PROVE  Total(SideLines(t, {d}, side)) = IF d.side = side THEN d.amount ELSE 0
<1> DEFINE r == <<t, d>>
<1>1. r[2] = d /\ d.amount \in Int /\ d.amount >= 0
  BY DEF Entry
<1>2. CASE d.side = side
  <2>1. SideLines(t, {d}, side) = {r}
    BY <1>2 DEF SideLines
  <2> HIDE DEF r
  <2>2. Total({r}) = d.amount
    BY <1>1, TotalOne
  <2> QED
    BY <1>2, <2>1, <2>2
<1>3. CASE d.side # side
  <2>1. SideLines(t, {d}, side) = {}
    BY <1>3 DEF SideLines
  <2> QED
    BY <1>3, <2>1, TotalEmpty
<1> QED
  BY <1>2, <1>3

\* The transaction of a payment message is valid.
LEMMA EventTxnSound ==
  ASSUME NEW m \in Seen, m.event.amount > 0, NEW t,
         NEW k \in {<<"external_credit", "credit">>, <<"external_debit", "debit">>}
  PROVE  ValidEntries(t, k[1], EventTxn(m, k[1], k[2]).entries)
<1> DEFINE d == [line |-> 1, account |-> m.account, side |-> k[2],
                 amount |-> m.event.amount]
<1>1. k = <<"external_credit", "credit">> \/ k = <<"external_debit", "debit">>
  OBVIOUS
<1>2. d \in Entry /\ d.amount > 0 /\ d.side = k[2] /\ d.amount \in Int
  BY <1>1, InputsAssumption DEF Entry, Seen, Sides
<1>3. EventTxn(m, k[1], k[2]).entries = {d}
  BY DEF EventTxn
<1> HIDE DEF d
<1>4. \A side : Total(SideLines(t, {d}, side)) = IF k[2] = side THEN d.amount ELSE 0
  BY <1>2, OneEntrySide
<1> QED
  BY <1>1, <1>2, <1>3, <1>4 DEF ValidEntries

\* What is stored stays well formed in every step.
LEMMA SoundStep == SoundInv /\ [Next]_vars => SoundInv'
<1> SUFFICES ASSUME TypeOK, SoundTxns, EventsPositive, [Next]_vars
             PROVE  SoundTxns' /\ EventsPositive'
  BY TypeStep DEF SoundInv
<1> DEFINE Same(x) == /\ txn'[x].entries = txn[x].entries
                      /\ txn'[x].kind = txn[x].kind
                      /\ txn'[x].status # "none" => txn[x].status # "none"
           New(x) == ValidEntries(x, txn'[x].kind, txn'[x].entries)
<1>1. ASSUME \A x \in Txns : Same(x) \/ New(x)
      PROVE  SoundTxns'
  BY <1>1 DEF SoundTxns
<1>2. ASSUME txn' = txn
      PROVE  \A x \in Txns : Same(x) \/ New(x)
  BY <1>2
<1>3. ASSUME NEW t \in Txns, txn[t].status = "pending",
             txn' = [txn EXCEPT ![t].status = "posted"]
      PROVE  \A x \in Txns : Same(x) \/ New(x)
  BY <1>3 DEF TypeOK, Transaction
<1>4. ASSUME NEW t \in Txns, NEW R, txn' = [txn EXCEPT ![t] = R],
             ValidEntries(t, R.kind, R.entries)
      PROVE  \A x \in Txns : Same(x) \/ New(x)
  BY <1>4 DEF TypeOK
<1>5. ASSUME TransactionStep
      PROVE  SoundTxns' /\ seen' = seen
  <2>1. ASSUME NEW a \in Accounts, CreateAccount(a)
        PROVE  SoundTxns' /\ seen' = seen
    BY <1>1, <1>2, <2>1 DEF CreateAccount
  <2>2. ASSUME NEW t \in Txns, NEW p \in Payloads, NEW k \in OptionalKey,
               CreateTransaction(t, p, k)
        PROVE  SoundTxns' /\ seen' = seen
    <3>1. PICK R : R = [status |-> "pending", kind |-> p.kind,
                        entries |-> p.entries, key |-> k, reverses |-> None]
      OBVIOUS
    <3>2. R.kind = p.kind /\ R.entries = p.entries
      BY <3>1
    <3>3. /\ txn' = [txn EXCEPT ![t] = R] /\ seen' = seen
          /\ ValidEntries(t, p.kind, p.entries)
      BY <2>2, <3>1 DEF CreateTransaction
    <3> QED
      BY <1>1, <1>4, <3>2, <3>3
  <2>3. ASSUME NEW t \in Txns, NEW k \in OptionalKey, PostTransaction(t, k)
        PROVE  SoundTxns' /\ seen' = seen
    BY <1>1, <1>3, <2>3 DEF PostTransaction
  <2>4. ASSUME NEW t \in Txns, NEW r \in Txns, NEW k \in OptionalKey,
               ReverseTransaction(t, r, k)
        PROVE  SoundTxns' /\ seen' = seen
    <3>1. PICK R : R = ReversalOf(t)
      OBVIOUS
    <3>2. R.kind = MirrorKind(txn[t].kind) /\ R.entries = Mirror(txn[t].entries)
      BY <3>1 DEF ReversalOf
    <3>3. /\ txn' = [txn EXCEPT ![t].status = "reversed", ![r] = R]
          /\ seen' = seen /\ txn[t].status = "posted" /\ t # r
      BY <2>4, <3>1 DEF ReverseTransaction, Reversible, FreshTxn
    <3>4. ValidEntries(r, R.kind, R.entries)
      <4>1. /\ txn[t].entries \in SUBSET Entry /\ IsFiniteSet(txn[t].entries)
            /\ txn[t].kind \in Kinds
        BY DEF TypeOK, Transaction
      <4>2. ValidEntries(t, txn[t].kind, txn[t].entries)
        BY <3>3 DEF SoundTxns
      <4> QED
        BY <3>2, <4>1, <4>2, MirrorValid
    <3>5. \A x \in Txns : Same(x) \/ New(x)
      <4>1. txn'[r] = R
        BY <3>3 DEF TypeOK
      <4>2. \A x \in Txns \ {r} : Same(x)
        BY <3>3 DEF TypeOK, Transaction
      <4> QED
        BY <3>4, <4>1, <4>2
    <3> QED
      BY <1>1, <3>3, <3>5
  <2> QED
    BY <1>5, <2>1, <2>2, <2>3, <2>4 DEF TransactionStep
<1>6. ASSUME HoldStep \/ WorkerStep
      PROVE  SoundTxns' /\ seen' = seen
  <2>1. /\ seen' = seen
        /\ \/ txn' = txn
           \/ \E t \in Txns : /\ txn[t].status = "pending"
                              /\ txn' = [txn EXCEPT ![t].status = "posted"]
    BY <1>6 DEF HoldStep, WorkerStep, CreateHold, ExpireHold, ReleaseHold,
                ConsumeHold, DeadlinePasses, ExpireDueHolds
  <2> QED
    BY <1>1, <1>2, <1>3, <2>1
<1>7. ASSUME EventStep
      PROVE  SoundTxns' /\ EventsPositive'
  <2>1. ASSUME NEW s \in Sessions, NEW e \in Events, NEW a \in Accounts,
               BeginEvent(s, e, a)
        PROVE  SoundTxns' /\ EventsPositive'
    <3>1. PICK m : m = [event |-> e, account |-> a, balance |-> balance[a],
                        reserved |-> reserved[a]]
      OBVIOUS
    <3>2. m.event = e
      BY <3>1
    <3>3. seen' = [seen EXCEPT ![s] = m] /\ txn' = txn /\ e.amount > 0
      BY <2>1, <3>1 DEF BeginEvent
    <3>4. EventsPositive'
      BY <3>2, <3>3 DEF EventsPositive, TypeOK
    <3> QED
      BY <1>1, <1>2, <3>3, <3>4
  <2>2. ASSUME NEW s \in Sessions, AbandonEvent(s)
        PROVE  SoundTxns' /\ EventsPositive'
    <3>1. EventsPositive'
      BY <2>2 DEF AbandonEvent, EventsPositive, TypeOK
    <3> QED
      BY <1>1, <1>2, <2>2, <3>1 DEF AbandonEvent
  <2>3. ASSUME NEW s \in Sessions, NEW t \in Txns,
               NEW k \in {<<"external_credit", "credit">>,
                          <<"external_debit", "debit">>},
               seen[s] # None, seen' = [seen EXCEPT ![s] = None],
               txn' = [txn EXCEPT ![t] = EventTxn(seen[s], k[1], k[2])]
        PROVE  SoundTxns' /\ EventsPositive'
    <3>1. PICK R : R = EventTxn(seen[s], k[1], k[2])
      OBVIOUS
    <3>2. R.kind = k[1]
      BY <3>1 DEF EventTxn
    <3>3. seen[s] \in Seen /\ seen[s].event.amount > 0
      BY <2>3 DEF TypeOK, EventsPositive
    <3>4. ValidEntries(t, R.kind, R.entries)
      BY <3>1, <3>2, <3>3, EventTxnSound
    <3>5. EventsPositive'
      BY <2>3 DEF EventsPositive, TypeOK
    <3>6. \A x \in Txns : Same(x) \/ New(x)
      BY <1>4, <2>3, <3>1, <3>4
    <3> QED
      BY <1>1, <3>5, <3>6
  <2>4. ASSUME NEW s \in Sessions, NEW t \in Txns, CommitInvoicePaid(s, t)
        PROVE  SoundTxns' /\ EventsPositive'
    <3>1. PICK k \in {<<"external_credit", "credit">>,
                      <<"external_debit", "debit">>} :
            k[1] = "external_credit" /\ k[2] = "credit"
      OBVIOUS
    <3> QED
      BY <2>3, <2>4, <3>1 DEF CommitInvoicePaid
  <2>5. ASSUME NEW s \in Sessions, NEW h \in Holds, NEW t \in Txns,
               CommitPaymentSent(s, h, t)
        PROVE  SoundTxns' /\ EventsPositive'
    <3>1. PICK k \in {<<"external_credit", "credit">>,
                      <<"external_debit", "debit">>} :
            k[1] = "external_debit" /\ k[2] = "debit"
      OBVIOUS
    <3> QED
      BY <2>3, <2>5, <3>1 DEF CommitPaymentSent
  <2> QED
    BY <1>7, <2>1, <2>2, <2>4, <2>5 DEF EventStep
<1>8. ASSUME UNCHANGED vars
      PROVE  SoundTxns' /\ seen' = seen
  BY <1>1, <1>2, <1>8 DEF vars
<1>9. seen' = seen => EventsPositive'
  BY DEF EventsPositive
<1> QED
  BY <1>5, <1>6, <1>7, <1>8, <1>9 DEF Next

\* An empty ledger stores nothing that could be ill formed.
LEMMA SoundInit == Init => SoundInv
<1>1. Init => TypeOK
  BY BooksInit DEF BooksInv
<1> QED
  BY <1>1 DEF Init, SoundInv, SoundTxns, EventsPositive, NoTxn

\* Every transaction that moved money has entries, and a transfer neither
\* creates nor destroys any: also when it is itself a reversal, and whatever
\* writer comes between the two steps of a message (Overlap is arbitrary).
THEOREM TransfersBalance == Spec => []AppliedTransfersBalance
<1>1. SoundInv => AppliedTransfersBalance
  BY DEF SoundInv, SoundTxns, AppliedTransfersBalance, AppliedTxns, ValidEntries
<1> QED
  BY <1>1, SoundInit, SoundStep, PTL DEF Spec

-----------------------------------------------------------------------------
(* The Ledger implements the Wallet.                                       *)

WalletInv == BooksInv /\ SoundTxns

\* A number for every account, as rows that can be summed.
PerAccount(f) == [a \in Accounts |-> [amount |-> f[a]]]
Sum(f) == Total(RowsOf(Accounts, PerAccount(f)))

\* The Wallet sums as the Ledger does.
LEMMA SameTotal ==
  ASSUME NEW R
  PROVE  W!Total(R) = Total(R)
<1>1. \A r : W!Units(r) = Units(r)
  BY DEF W!Units, Units
<1>2. W!AllUnits(R) = AllUnits(R)
  BY <1>1 DEF W!AllUnits, AllUnits
<1>3. \A S : W!Cardinality(S) = Cardinality(S)
  BY DEF W!Cardinality, Cardinality
<1> QED
  BY <1>2, <1>3 DEF W!Total, Total

\* The Wallet's sum of all funds.
LEMMA InFundsSum ==
  ASSUME NEW f
  PROVE  W!InFunds(f) = Sum(f)
<1>1. {<<a, [amount |-> f[a]]>> : a \in Accounts}
        = RowsOf(Accounts, PerAccount(f))
  BY DEF RowsOf, PerAccount
<1> QED
  BY <1>1, SameTotal DEF W!InFunds, Sum

\* What an entry side adds up to is the sum of what the accounts get from it.
LEMMA SideByAccount ==
  ASSUME NEW t, NEW E \in SUBSET Entry, IsFiniteSet(E), NEW side, NEW f,
         \A a \in Accounts : f[a] = Total(Lines(t, E, a, side))
  PROVE  Total(SideLines(t, E, side)) = Sum(f)
<1> DEFINE P == [a \in Accounts |-> Lines(t, E, a, side)]
           L == SideLines(t, E, side)
           F == PerAccount(f)
<1>1. AmountRows(L)
  BY LinesAreRows
<1>2. \A a \in Accounts : P[a] \subseteq L
  BY DEF Lines, SideLines
<1>3. \A a, b \in Accounts : a # b => P[a] \cap P[b] = {}
  BY DEF Lines
<1>4. \A a \in Accounts : F[a].amount = Total(P[a])
  BY DEF PerAccount
<1>5. UNION {P[a] : a \in Accounts} = L
  BY DEF Lines, SideLines, Entry
<1>6. IsFiniteSet(Accounts)
  BY SetsAssumption
<1> HIDE DEF P, F, L
<1>7. Total(UNION {P[a] : a \in Accounts}) = Total(RowsOf(Accounts, F))
  BY <1>1, <1>2, <1>3, <1>4, <1>6, TotalParts
<1> QED
  BY <1>5, <1>7 DEF L, F, Sum

\* What an account has in f and g it has in u, v and w.
Balanced(f, g, u, v, w) ==
  \A a \in Accounts : /\ f[a] \in Nat /\ g[a] \in Nat /\ u[a] \in Nat
                      /\ v[a] \in Nat /\ w[a] \in Nat
                      /\ f[a] + g[a] = u[a] + v[a] + w[a]

\* Sums are equal where the two sides are, account by account.
LEMMA SumsBalance ==
  ASSUME NEW f, NEW g, NEW u, NEW v, NEW w, Balanced(f, g, u, v, w)
  PROVE  /\ Sum(f) + Sum(g) = Sum(u) + Sum(v) + Sum(w)
         /\ Sum(f) \in Nat /\ Sum(g) \in Nat /\ Sum(u) \in Nat
         /\ Sum(v) \in Nat /\ Sum(w) \in Nat
<1> DEFINE F == PerAccount(f)
           G == PerAccount(g)
           H == PerAccount(u)
           I == PerAccount(v)
           J == PerAccount(w)
           M == PerAccount([a \in Accounts |-> v[a] + w[a]])
<1>1. \A a \in Accounts : /\ F[a].amount = f[a] /\ G[a].amount = g[a]
                          /\ H[a].amount = u[a] /\ I[a].amount = v[a]
                          /\ J[a].amount = w[a] /\ M[a].amount = v[a] + w[a]
                          /\ f[a] \in Nat /\ g[a] \in Nat /\ u[a] \in Nat
                          /\ v[a] \in Nat /\ w[a] \in Nat
                          /\ f[a] + g[a] = u[a] + v[a] + w[a]
  BY DEF PerAccount, Balanced
<1>2. IsFiniteSet(Accounts)
  BY SetsAssumption
<1> HIDE DEF F, G, H, I, J, M
<1>3. /\ \A a \in Accounts : F[a].amount \in Nat
      /\ \A a \in Accounts : G[a].amount \in Nat
      /\ \A a \in Accounts : H[a].amount \in Nat
      /\ \A a \in Accounts : I[a].amount \in Nat
      /\ \A a \in Accounts : J[a].amount \in Nat
      /\ \A a \in Accounts : M[a].amount \in Nat
      /\ \A a \in Accounts : F[a].amount + G[a].amount = H[a].amount + M[a].amount
      /\ \A a \in Accounts : M[a].amount = I[a].amount + J[a].amount
  BY <1>1
<1>4. Total(RowsOf(Accounts, F)) + Total(RowsOf(Accounts, G))
        = Total(RowsOf(Accounts, H)) + Total(RowsOf(Accounts, M))
  BY <1>2, <1>3, TotalBalance
<1>5. Total(RowsOf(Accounts, M))
        = Total(RowsOf(Accounts, I)) + Total(RowsOf(Accounts, J))
  BY <1>2, <1>3, TotalPlus
<1>6. Total(RowsOf(Accounts, F)) \in Nat
  BY <1>2, <1>3, RowsOfFinite
<1>7. Total(RowsOf(Accounts, G)) \in Nat
  BY <1>2, <1>3, RowsOfFinite
<1>8. Total(RowsOf(Accounts, H)) \in Nat
  BY <1>2, <1>3, RowsOfFinite
<1>9. Total(RowsOf(Accounts, I)) \in Nat
  BY <1>2, <1>3, RowsOfFinite
<1>10. Total(RowsOf(Accounts, J)) \in Nat
  BY <1>2, <1>3, RowsOfFinite
<1> QED
  BY <1>4, <1>5, <1>6, <1>7, <1>8, <1>9, <1>10 DEF F, G, H, I, J, Sum

\* What active holds set aside adds up to their amounts.
LEMMA HeldByRows ==
  ASSUME TypeOK, HoldsPositive, NEW S \in SUBSET Holds,
         \A h \in S : hold[h].status = "active"
  PROVE  /\ W!HeldBy(S) = Total(HeldRows(S))
         /\ \A h \in S : HeldMoney[h] = [account |-> hold[h].account,
                                        amount |-> hold[h].amount]
         /\ \A h \in S : HeldMoney[h] # None
<1>a. \A h \in S : hold[h].account \in Accounts /\ hold[h].amount \in Nat
  BY DEF HoldsPositive, TypeOK, Hold
<1>1. \A h \in S : HeldMoney[h] = [account |-> hold[h].account,
                                   amount |-> hold[h].amount]
  BY DEF HeldMoney, Held
<1>2. \A h \in S : HeldMoney[h] # None
  <2> SUFFICES ASSUME NEW h \in S
               PROVE  HeldMoney[h] # None
    OBVIOUS
  <2>1. hold[h].account \in Accounts /\ hold[h].amount \in Int
    BY <1>a
  <2>2. [account |-> hold[h].account, amount |-> hold[h].amount]
          \in [account: Accounts, amount: Int]
    BY <2>1
  <2> QED
    BY <1>1, <2>2, NoneAssumption
<1> DEFINE F == [h \in S |-> [amount |-> hold[h].amount]]
<1>3. {<<h, HeldMoney[h]>> : h \in {x \in S : HeldMoney[x] # None}}
        = RowsOf(S, HeldMoney)
  BY <1>2 DEF RowsOf
<1>4. HeldRows(S) = RowsOf(S, F)
  BY DEF HeldRows, RowsOf
<1>5. \A h \in S : F[h].amount \in Nat /\ HeldMoney[h].amount = F[h].amount
  <2> SUFFICES ASSUME NEW h \in S
               PROVE  F[h].amount \in Nat /\ HeldMoney[h].amount = F[h].amount
    OBVIOUS
  <2>1. F[h].amount = hold[h].amount
    OBVIOUS
  <2>2. HeldMoney[h].amount = hold[h].amount
    <3>1. PICK H : H = [account |-> hold[h].account, amount |-> hold[h].amount]
      OBVIOUS
    <3>2. H.amount = hold[h].amount
      BY <3>1
    <3>3. HeldMoney[h] = H
      BY <1>1, <3>1
    <3> QED
      BY <3>2, <3>3
  <2> QED
    BY <1>a, <2>1, <2>2
<1>6. IsFiniteSet(S)
  BY SetsAssumption, FS_Subset
<1> HIDE DEF F
<1>7. Total(RowsOf(S, F)) = Total(RowsOf(S, HeldMoney))
  BY <1>5, <1>6, TotalSame
<1>8. W!HeldBy(S) = Total(RowsOf(S, HeldMoney))
  BY <1>3, SameTotal DEF W!HeldBy
<1> QED
  BY <1>1, <1>2, <1>4, <1>7, <1>8

\* What the accounts hold among S is what the holds of S amount to.
LEMMA HeldByAccount ==
  ASSUME TypeOK, HoldsPositive, NEW S \in SUBSET Holds,
         \A h \in S : hold[h].status = "active", NEW f,
         \A a \in Accounts : f[a] = Total(HeldRows(OfAccount(S, a)))
  PROVE  /\ Total(HeldRows(S)) = Sum(f)
         /\ \A a \in Accounts : f[a] \in Nat
<1> DEFINE P == [a \in Accounts |-> HeldRows(OfAccount(S, a))]
           L == HeldRows(S)
           F == PerAccount(f)
<1>1. AmountRows(L)
  BY HeldRowsAreRows
<1>2. \A a \in Accounts : P[a] \subseteq L
  BY DEF HeldRows, OfAccount
<1>3. \A a, b \in Accounts : a # b => P[a] \cap P[b] = {}
  BY DEF HeldRows, OfAccount
<1>4. \A a \in Accounts : F[a].amount = Total(P[a])
  BY DEF PerAccount
<1>5. UNION {P[a] : a \in Accounts} = L
  BY DEF HeldRows, OfAccount, HoldsPositive
<1>6. IsFiniteSet(Accounts)
  BY SetsAssumption
<1>7. \A a \in Accounts : f[a] \in Nat
  BY <1>1, <1>2, TotalDifference, TotalNat
<1> HIDE DEF P, F, L
<1>8. Total(UNION {P[a] : a \in Accounts}) = Total(RowsOf(Accounts, F))
  BY <1>1, <1>2, <1>3, <1>4, <1>6, TotalParts
<1> QED
  BY <1>5, <1>7, <1>8 DEF L, F, Sum

\* The applied lines of one kind and side are rows that can be summed.
LEMMA AppliedOfKindRows ==
  ASSUME TypeOK, NEW kind, NEW side
  PROVE  AmountRows(AppliedOfKind(kind, side))
<1> DEFINE A == {x \in AppliedTxns : txn[x].kind = kind}
           f == [t \in A |-> SideLines(t, txn[t].entries, side)]
           T == {SideLines(t, txn[t].entries, side) : t \in A}
<1>1. IsFiniteSet(A)
  BY SetsAssumption, FS_Subset DEF AppliedTxns
<1>2. f \in Surjection(A, T)
  BY DEF Surjection
<1>3. IsFiniteSet(T)
  BY <1>1, <1>2, FS_Surjection
<1>4. \A t \in Txns : AmountRows(SideLines(t, txn[t].entries, side))
  BY LinesAreRows DEF TypeOK, Transaction
<1>5. \A L \in T : IsFiniteSet(L) /\ \A r \in L : r[2].amount \in Int
  BY <1>4 DEF AppliedTxns, AmountRows
<1>6. IsFiniteSet(UNION T)
  BY <1>3, <1>5, FS_UNION
<1> QED
  BY <1>5, <1>6 DEF AppliedOfKind, AmountRows

\* A newly applied transaction adds its lines to those of its kind.
LEMMA AppliedOfKindGrow ==
  ASSUME TypeOK, TypeOK', NEW t \in Txns, t \notin AppliedTxns,
         AppliedTxns' = AppliedTxns \cup {t},
         \A x \in AppliedTxns : /\ txn'[x].entries = txn[x].entries
                                /\ txn'[x].kind = txn[x].kind,
         NEW kind, NEW side
  PROVE  /\ Total(AppliedOfKind(kind, side))'
              = Total(AppliedOfKind(kind, side))
                  + (IF txn'[t].kind = kind
                     THEN Total(SideLines(t, txn'[t].entries, side)) ELSE 0)
         /\ Total(AppliedOfKind(kind, side)) \in Nat
<1> DEFINE L == SideLines(t, txn'[t].entries, side)
           A == AppliedOfKind(kind, side)
<1>1. AmountRows(A)
  BY AppliedOfKindRows
<1>2. AmountRows(L)
  BY LinesAreRows DEF TypeOK, Transaction
<1>3. Total(A) \in Nat
  BY <1>1, TotalNat
<1>4. CASE txn'[t].kind = kind
  <2>1. A' = A \cup L
    BY <1>4 DEF AppliedOfKind, SideLines
  <2>2. A \cap L = {}
    BY DEF AppliedOfKind, SideLines
  <2> HIDE DEF A, L
  <2>3. Total(A \cup L) = Total(A) + Total(L)
    BY <1>1, <1>2, <2>2, TotalUnion
  <2>4. Total(A)' = Total(A) + Total(L)
    BY <2>1, <2>3 DEF Total
  <2> QED
    BY <1>3, <1>4, <2>4 DEF A, L
<1>5. CASE txn'[t].kind # kind
  <2>1. A' = A
    BY <1>5 DEF AppliedOfKind, SideLines
  <2> HIDE DEF A
  <2>2. Total(A)' = Total(A)
    BY <2>1 DEF Total
  <2> QED
    BY <1>3, <1>5, <2>2 DEF A
<1> QED
  BY <1>4, <1>5

\* Free funds are never negative.
LEMMA FreeNat ==
  ASSUME BooksInv
  PROVE  \A a \in Accounts : FreeFunds[a] = balance[a] - reserved[a]
                             /\ FreeFunds[a] \in Nat
BY DEF BooksInv, TypeOK, FundsCoverHolds, FreeFunds, Available

\* The step applies the transaction t and no other, and leaves the content of
\* those applied before as it was.
Applies(t) ==
  /\ t \notin AppliedTxns /\ AppliedTxns' = AppliedTxns \cup {t}
  /\ \A x \in AppliedTxns : /\ txn'[x].entries = txn[x].entries
                            /\ txn'[x].kind = txn[x].kind
  /\ \A a \in Accounts :
       balance'[a] = balance[a] + Credits(t, txn'[t].entries, a)
                       - Debits(t, txn'[t].entries, a)

\* A transaction is applied, and the active holds S with it or none: what the
\* accounts can spend grows by what S set aside and by what came in, and
\* shrinks by what went out.
LEMMA AppliedMoves ==
  ASSUME WalletInv, WalletInv', NEW t \in Txns, Applies(t),
         NEW S \in SUBSET Holds, \A h \in S : hold[h].status = "active",
         \A a \in Accounts :
           reserved'[a] = reserved[a] - Total(HeldRows(OfAccount(S, a)))
  PROVE  W!InFunds(FreeFunds') = W!InFunds(FreeFunds) + Total(HeldRows(S))
                                   + NetInflow' - NetInflow
<1> USE DEF WalletInv, Applies
<1> DEFINE E == txn'[t].entries
           D == [a \in Accounts |-> Debits(t, E, a)]
           C == [a \in Accounts |-> Credits(t, E, a)]
           R == [a \in Accounts |-> Total(HeldRows(OfAccount(S, a)))]
           c == Total(SideLines(t, E, "credit"))
           d == Total(SideLines(t, E, "debit"))
<1>1. TypeOK /\ TypeOK' /\ HoldsPositive
  BY DEF BooksInv
<1>2. E \in SUBSET Entry /\ IsFiniteSet(E) /\ txn'[t].kind \in Kinds
  BY <1>1 DEF TypeOK, Transaction
<1>3. ValidEntries(t, txn'[t].kind, E)
  BY DEF SoundTxns, AppliedTxns
<1> HIDE DEF E
<1>4. c = Sum(C) /\ d = Sum(D)
  BY <1>2, SideByAccount DEF Credits, Debits
<1>5. Total(HeldRows(S)) = Sum(R) /\ \A a \in Accounts : R[a] \in Nat
  BY <1>1, HeldByAccount
<1>6. \A a \in Accounts : C[a] \in Nat /\ D[a] \in Nat
  BY <1>2, EntrySumsNat
<1>7. ASSUME NEW a \in Accounts
      PROVE  /\ FreeFunds'[a] \in Nat /\ D[a] \in Nat /\ FreeFunds[a] \in Nat
             /\ C[a] \in Nat /\ R[a] \in Nat
             /\ FreeFunds'[a] + D[a] = FreeFunds[a] + C[a] + R[a]
  <2>1. FreeFunds[a] = balance[a] - reserved[a] /\ FreeFunds[a] \in Nat
    BY FreeNat
  <2>2. FreeFunds'[a] \in Nat
    BY DEF BooksInv, TypeOK, FundsCoverHolds, FreeFunds, Available
  <2>3. FreeFunds'[a] = balance'[a] - reserved'[a]
    BY DEF FreeFunds, Available
  <2>4. balance'[a] = balance[a] + C[a] - D[a]
    BY DEF E
  <2>5. reserved'[a] = reserved[a] - R[a]
    OBVIOUS
  <2>6. balance[a] \in Int /\ reserved[a] \in Int
    BY <1>1 DEF TypeOK
  <2>7. C[a] \in Nat /\ D[a] \in Nat /\ R[a] \in Nat
    BY <1>5, <1>6
  <2> HIDE DEF C, D, R
  <2> QED
    BY <2>1, <2>2, <2>3, <2>4, <2>5, <2>6, <2>7
<1> HIDE DEF C, D, R, c, d
<1>8. /\ Sum(FreeFunds') + Sum(D) = Sum(FreeFunds) + Sum(C) + Sum(R)
      /\ Sum(FreeFunds') \in Nat /\ Sum(D) \in Nat /\ Sum(FreeFunds) \in Nat
      /\ Sum(C) \in Nat /\ Sum(R) \in Nat
  <2>1. PICK f, g, u, v, w :
          f = FreeFunds' /\ g = D /\ u = FreeFunds /\ v = C /\ w = R
    OBVIOUS
  <2>2. Balanced(f, g, u, v, w)
    BY <1>7, <2>1 DEF Balanced
  <2>3. /\ Sum(f) + Sum(g) = Sum(u) + Sum(v) + Sum(w)
        /\ Sum(f) \in Nat /\ Sum(g) \in Nat /\ Sum(u) \in Nat
        /\ Sum(v) \in Nat /\ Sum(w) \in Nat
    BY <2>2, SumsBalance
  <2> QED
    BY <2>1, <2>3
<1>9. /\ NetInflow \in Int /\ NetInflow' \in Int
      /\ c - d = NetInflow' - NetInflow
  <2> DEFINE X == Total(AppliedOfKind("external_credit", "credit"))
             Y == Total(AppliedOfKind("external_debit", "debit"))
  <2>1. /\ X' = X + (IF txn'[t].kind = "external_credit" THEN c ELSE 0)
        /\ X \in Nat
    BY <1>1, AppliedOfKindGrow DEF c, E
  <2>2. /\ Y' = Y + (IF txn'[t].kind = "external_debit" THEN d ELSE 0)
        /\ Y \in Nat
    BY <1>1, AppliedOfKindGrow DEF d, E
  <2>3. NetInflow = X - Y /\ NetInflow' = X' - Y'
    BY DEF NetInflow
  <2>4. /\ txn'[t].kind = "transfer" => d = c
        /\ txn'[t].kind = "external_credit" => d = 0
        /\ txn'[t].kind = "external_debit" => c = 0
    BY <1>3 DEF ValidEntries, c, d
  <2>5. /\ c \in Nat /\ d \in Nat
        /\ txn'[t].kind \in {"transfer", "external_credit", "external_debit"}
    BY <1>2, <1>4, <1>8 DEF Kinds
  <2>6. PICK x0, x1, y0, y1 : x0 = X /\ x1 = X' /\ y0 = Y /\ y1 = Y'
    OBVIOUS
  <2> HIDE DEF X, Y
  <2>7. /\ x1 = x0 + (IF txn'[t].kind = "external_credit" THEN c ELSE 0)
        /\ x0 \in Nat
    BY <2>1, <2>6
  <2>8. /\ y1 = y0 + (IF txn'[t].kind = "external_debit" THEN d ELSE 0)
        /\ y0 \in Nat
    BY <2>2, <2>6
  <2>9. NetInflow = x0 - y0 /\ NetInflow' = x1 - y1
    BY <2>3, <2>6
  <2>10. /\ x0 - y0 \in Int /\ x1 - y1 \in Int
         /\ c - d = (x1 - y1) - (x0 - y0)
    BY <2>4, <2>5, <2>7, <2>8
  <2> QED
    BY <2>9, <2>10
<1>10. /\ W!InFunds(FreeFunds') = Sum(FreeFunds')
       /\ W!InFunds(FreeFunds) = Sum(FreeFunds)
  BY InFundsSum
<1> QED
  BY <1>4, <1>5, <1>8, <1>9, <1>10

\* Posting and reversing, and a payment received, move free money.
LEMMA MoveStep ==
  ASSUME WalletInv, WalletInv', NEW t \in Txns, Applies(t),
         reserved' = reserved, hold' = hold
  PROVE  W!Next
<1>1. \A a \in Accounts : HeldRows(OfAccount({}, a)) = {}
  BY DEF HeldRows, OfAccount
<1>2. \A a \in Accounts :
        reserved'[a] = reserved[a] - Total(HeldRows(OfAccount({}, a)))
  <2> SUFFICES ASSUME NEW a \in Accounts
               PROVE  reserved'[a] = reserved[a] - Total(HeldRows(OfAccount({}, a)))
    OBVIOUS
  <2>1. Total(HeldRows(OfAccount({}, a))) = 0
    BY <1>1, TotalEmpty
  <2>2. reserved[a] \in Int
    BY DEF WalletInv, BooksInv, TypeOK
  <2> QED
    BY <2>1, <2>2
<1>3. W!InFunds(FreeFunds') = W!InFunds(FreeFunds) + Total(HeldRows({}))
                                + NetInflow' - NetInflow
  BY <1>2, AppliedMoves
<1>4. Total(HeldRows({})) = 0
  <2>1. HeldRows({}) = {}
    BY DEF HeldRows
  <2> QED
    BY <2>1, TotalEmpty
<1>5. HeldMoney' = HeldMoney
  BY DEF HeldMoney, Held
<1>6. W!InFunds(FreeFunds) \in Nat
  <2>1. PICK f, z : f = FreeFunds /\ z = [a \in Accounts |-> 0]
    OBVIOUS
  <2>2. Balanced(f, z, f, z, z)
    BY <2>1, FreeNat DEF WalletInv, Balanced
  <2>3. Sum(f) \in Nat
    BY <2>2, SumsBalance
  <2> QED
    BY <2>1, <2>3, InFundsSum
<1>7. W!Move
  BY <1>3, <1>4, <1>5, <1>6 DEF W!Move
<1>8. W!NeverNegative
  BY DEF W!NeverNegative, WalletInv, BooksInv, TypeOK, FundsCoverHolds,
         FreeFunds, Available
<1> QED
  BY <1>7, <1>8 DEF W!Next

\* Nothing enters or leaves while the applied transactions stay.
LEMMA NetSame ==
  ASSUME AppliedTxns' = AppliedTxns,
         \A x \in AppliedTxns : /\ txn'[x].entries = txn[x].entries
                                /\ txn'[x].kind = txn[x].kind
  PROVE  NetInflow' = NetInflow
<1>1. \A kind, side : AppliedOfKind(kind, side)' = AppliedOfKind(kind, side)
  BY DEF AppliedOfKind
<1> QED
  BY <1>1 DEF NetInflow, Total

\* No account's free funds are negative after a step, either.
LEMMA NeverNegativeStep ==
  ASSUME WalletInv'
  PROVE  W!NeverNegative
BY DEF W!NeverNegative, WalletInv, BooksInv, TypeOK, FundsCoverHolds,
       FreeFunds, Available

\* Active holds that end without a transaction are given back.
LEMMA GiveBackStep ==
  ASSUME WalletInv, WalletInv', NEW S \in SUBSET Holds, S # {},
         \A h \in S : hold[h].status = "active",
         NEW status \in {"released", "expired"}, Free(S, status), txn' = txn
  PROVE  W!Next
<1> USE DEF WalletInv
<1>1. TypeOK /\ HoldsPositive
  BY DEF BooksInv
<1>2. \A h \in S : HeldMoney[h] # None
  BY <1>1, HeldByRows
<1>3. HeldMoney' = [h \in Holds |-> IF h \in S THEN None ELSE HeldMoney[h]]
  BY <1>1 DEF Free, HeldMoney, Held, TypeOK, Hold
<1>4. FreeFunds' = [a \in Accounts |->
                      FreeFunds[a] + W!HeldBy({h \in S : HeldMoney[h].account = a})]
  <2> SUFFICES ASSUME NEW a \in Accounts
               PROVE  balance'[a] - reserved'[a]
                        = FreeFunds[a]
                            + W!HeldBy({h \in S : HeldMoney[h].account = a})
    BY DEF FreeFunds, Available
  <2>1. PICK T \in SUBSET Holds : T = OfAccount(S, a)
    BY DEF OfAccount
  <2>2. {h \in S : HeldMoney[h].account = a} = T
    <3>1. \A h \in S : HeldMoney[h].account = hold[h].account
      <4> SUFFICES ASSUME NEW h \in S
                   PROVE  HeldMoney[h].account = hold[h].account
        OBVIOUS
      <4>1. PICK H : H = [account |-> hold[h].account, amount |-> hold[h].amount]
        OBVIOUS
      <4>2. H.account = hold[h].account
        BY <4>1
      <4>3. HeldMoney[h] = H
        BY <1>1, <4>1, HeldByRows
      <4> QED
        BY <4>2, <4>3
    <3> QED
      BY <2>1, <3>1 DEF OfAccount
  <2>3. W!HeldBy(T) = Total(HeldRows(T)) /\ Total(HeldRows(T)) \in Nat
    <3>1. \A h \in T : hold[h].status = "active"
      BY <2>1 DEF OfAccount
    <3> QED
      BY <1>1, <3>1, HeldByRows, HeldRowsAreRows, TotalNat
  <2>4. balance'[a] = balance[a] /\ reserved'[a] = reserved[a] - Total(HeldRows(T))
    BY <2>1 DEF Free, WriteAccounts
  <2>5. balance[a] \in Int /\ reserved[a] \in Int
    BY <1>1 DEF TypeOK
  <2>6. FreeFunds[a] = balance[a] - reserved[a]
    BY DEF FreeFunds, Available
  <2>7. balance'[a] - reserved'[a] = FreeFunds[a] + Total(HeldRows(T))
    BY <2>3, <2>4, <2>5, <2>6
  <2> QED
    BY <2>2, <2>3, <2>7
<1>5. NetInflow' = NetInflow
  BY NetSame DEF AppliedTxns
<1>6. W!GiveBack(S)
  BY <1>2, <1>3, <1>4, <1>5 DEF W!GiveBack
<1> QED
  BY <1>6, NeverNegativeStep DEF W!Next

\* A new hold sets free money of its account aside.
LEMMA SetAsideStep ==
  ASSUME WalletInv, WalletInv', NEW h \in Holds, NEW q \in HoldRequests,
         NEW k \in OptionalKey, CreateHold(h, q, k)
  PROVE  W!Next
<1> USE DEF WalletInv
<1>1. TypeOK
  BY DEF BooksInv
<1>2. q.account \in Accounts /\ q.amount \in Int
  BY InputsAssumption
<1>3. PICK G : G = [status |-> "active", account |-> q.account,
                    amount |-> q.amount, deadline |-> q.deadline,
                    reference |-> q.reference, key |-> k]
  OBVIOUS
<1>4. G.status = "active" /\ G.account = q.account /\ G.amount = q.amount
  BY <1>3
<1>5. /\ hold' = [hold EXCEPT ![h] = G]
      /\ balance' = balance
      /\ reserved' = [reserved EXCEPT ![q.account] = @ + q.amount]
      /\ q.amount > 0 /\ hold[h].status = "none" /\ txn' = txn
  BY <1>3 DEF CreateHold, WriteAccounts
<1>6. PICK H : H = [account |-> q.account, amount |-> q.amount]
  OBVIOUS
<1>7. H.account = q.account /\ H.amount = q.amount
  BY <1>6
<1>8. H # None
  BY <1>2, <1>6, NoneAssumption
<1>9. HeldMoney[h] = None
  BY <1>5 DEF HeldMoney, Held
<1>10. HeldMoney' = [HeldMoney EXCEPT ![h] = H]
  BY <1>1, <1>4, <1>5, <1>6 DEF HeldMoney, Held, TypeOK
<1>11. HeldMoney'[h] = H
  BY <1>10 DEF HeldMoney
<1>12. FreeFunds' = [FreeFunds EXCEPT ![q.account] = @ - q.amount]
  BY <1>1, <1>2, <1>5 DEF FreeFunds, Available, TypeOK
<1>13. NetInflow' = NetInflow
  BY <1>5, NetSame DEF AppliedTxns
<1>14. W!SetAside(h)
  BY <1>5, <1>7, <1>8, <1>9, <1>10, <1>11, <1>12, <1>13 DEF W!SetAside
<1> QED
  BY <1>14, NeverNegativeStep DEF W!Next

\* A consumed hold is spent: its account can spend no less than before, and
\* what it set aside goes to the others or leaves.
LEMMA SpendStep ==
  ASSUME WalletInv, WalletInv', NEW t \in Txns, Applies(t),
         NEW h \in Holds, hold[h].status = "active",
         Debits(t, txn'[t].entries, hold[h].account) = hold[h].amount,
         hold' = [hold EXCEPT ![h].status = "consumed"],
         reserved' = [reserved EXCEPT ![hold[h].account] = @ - hold[h].amount]
  PROVE  W!Next
<1> USE DEF WalletInv
<1>1. TypeOK /\ TypeOK' /\ HoldsPositive
  BY DEF BooksInv
<1>2. /\ hold[h].account \in Accounts /\ hold[h].amount \in Int
      /\ hold[h].amount > 0
  BY <1>1 DEF TypeOK, Hold, HoldsPositive
<1>3. ASSUME NEW a \in Accounts
      PROVE  reserved'[a] = reserved[a] - Total(HeldRows(OfAccount({h}, a)))
  <2>1. Total(HeldRows(OfAccount({h}, a)))
          = IF hold[h].account = a THEN hold[h].amount ELSE 0
    BY <1>1, <1>2, HeldAlone
  <2>2. reserved[a] \in Int
    BY <1>1 DEF TypeOK
  <2> QED
    BY <1>1, <1>2, <2>1, <2>2 DEF TypeOK
<1>4. W!InFunds(FreeFunds') = W!InFunds(FreeFunds) + Total(HeldRows({h}))
                                + NetInflow' - NetInflow
  BY <1>3, AppliedMoves
<1>5. W!HeldBy({h}) = Total(HeldRows({h})) /\ HeldMoney[h] # None
  BY <1>1, HeldByRows
<1>6. HeldMoney[h].account = hold[h].account
  <2>1. PICK H : H = [account |-> hold[h].account, amount |-> hold[h].amount]
    OBVIOUS
  <2>2. H.account = hold[h].account
    BY <2>1
  <2>3. HeldMoney[h] = H
    BY <2>1 DEF HeldMoney, Held
  <2> QED
    BY <2>2, <2>3
<1>7. HeldMoney' = [HeldMoney EXCEPT ![h] = None]
  <2>1. \A x \in Holds : x # h => hold'[x] = hold[x]
    BY <1>1 DEF TypeOK
  <2>2. hold'[h].status = "consumed"
    BY <1>1 DEF TypeOK, Hold
  <2> QED
    BY <2>1, <2>2 DEF HeldMoney, Held
<1>8. FreeFunds'[hold[h].account] >= FreeFunds[hold[h].account]
  <2>1. PICK a \in Accounts : a = hold[h].account
    BY <1>2
  <2>2. /\ balance[a] \in Int /\ reserved[a] \in Int
        /\ Credits(t, txn'[t].entries, a) \in Nat
    BY <1>1, EntrySumsNat DEF TypeOK, Transaction
  <2>3. reserved'[a] = reserved[a] - hold[h].amount
    BY <1>1, <2>1 DEF TypeOK
  <2>4. balance'[a] = balance[a] + Credits(t, txn'[t].entries, a) - hold[h].amount
    BY <2>1 DEF Applies
  <2>5. /\ FreeFunds[a] = balance[a] - reserved[a]
        /\ FreeFunds'[a] = balance'[a] - reserved'[a]
    BY DEF FreeFunds, Available
  <2> QED
    BY <1>2, <2>1, <2>2, <2>3, <2>4, <2>5
<1>9. W!Spend(h)
  BY <1>4, <1>5, <1>6, <1>7, <1>8 DEF W!Spend
<1> QED
  BY <1>9, NeverNegativeStep DEF W!Next

\* Steps that move no money: nothing the Wallet speaks of changes.
LEMMA WalletStutters ==
  ASSUME balance' = balance, reserved' = reserved,
         \A h \in Holds : Held(h)' = Held(h),
         AppliedTxns' = AppliedTxns,
         \A x \in AppliedTxns : /\ txn'[x].entries = txn[x].entries
                                /\ txn'[x].kind = txn[x].kind
  PROVE  UNCHANGED W!vars
<1>1. FreeFunds' = FreeFunds
  BY DEF FreeFunds, Available
<1>2. HeldMoney' = HeldMoney
  BY DEF HeldMoney
<1> QED
  BY <1>1, <1>2, NetSame DEF W!vars

\* What the two Commit steps of a message do to the books.
LEMMA EventMoves ==
  ASSUME TypeOK, NEW m \in Seen, NEW t \in Txns, FreshTxn(t),
         m.event.amount > 0, NEW kind, NEW side \in Sides,
         txn' = [txn EXCEPT ![t] = EventTxn(m, kind, side)],
         balance' = [balance EXCEPT ![m.account] =
                       IF side = "credit" THEN balance[m.account] + m.event.amount
                       ELSE balance[m.account] - m.event.amount]
  PROVE  /\ Applies(t)
         /\ Debits(t, txn'[t].entries, m.account)
              = IF side = "debit" THEN m.event.amount ELSE 0
<1> DEFINE d == [line |-> 1, account |-> m.account, side |-> side,
                 amount |-> m.event.amount]
<1>2. d \in Entry /\ d.amount > 0 /\ m.account \in Accounts
  BY InputsAssumption DEF Entry, Seen, Sides
<1>3. txn'[t].entries = {d} /\ txn'[t].status = "posted"
  BY DEF EventTxn, TypeOK
<1>4. /\ t \notin AppliedTxns /\ AppliedTxns' = AppliedTxns \cup {t}
      /\ \A x \in AppliedTxns : /\ txn'[x].entries = txn[x].entries
                                /\ txn'[x].kind = txn[x].kind
  BY <1>3 DEF AppliedTxns, FreshTxn, TypeOK
<1>5. d.account = m.account /\ d.side = side /\ d.amount = m.event.amount
  OBVIOUS
<1> HIDE DEF d
<1>6. ASSUME NEW a
      PROVE  /\ Credits(t, {d}, a)
                  = IF d.account = a /\ d.side = "credit" THEN d.amount ELSE 0
             /\ Debits(t, {d}, a)
                  = IF d.account = a /\ d.side = "debit" THEN d.amount ELSE 0
  BY <1>2, OneEntrySums
<1>7. ASSUME NEW a \in Accounts
      PROVE  balance'[a] = balance[a] + Credits(t, {d}, a) - Debits(t, {d}, a)
  <2>1. balance[a] \in Int /\ d.amount \in Int
    BY <1>2 DEF TypeOK, Entry
  <2>2. balance'[a] = IF a = m.account
                      THEN IF side = "credit" THEN balance[a] + m.event.amount
                           ELSE balance[a] - m.event.amount
                      ELSE balance[a]
    BY DEF TypeOK
  <2>3. side \in {"credit", "debit"}
    BY DEF Sides
  <2>4. PICK n : n = m.event.amount
    OBVIOUS
  <2>5. /\ Credits(t, {d}, a) = IF m.account = a /\ side = "credit" THEN n ELSE 0
        /\ Debits(t, {d}, a) = IF m.account = a /\ side = "debit" THEN n ELSE 0
    BY <1>5, <1>6, <2>4
  <2>6. balance'[a] = IF a = m.account
                      THEN IF side = "credit" THEN balance[a] + n
                           ELSE balance[a] - n
                      ELSE balance[a]
    BY <2>2, <2>4
  <2>7. n \in Int
    BY <1>5, <2>1, <2>4
  <2> QED
    BY <2>1, <2>3, <2>5, <2>6, <2>7
<1>8. Debits(t, {d}, m.account) = IF side = "debit" THEN m.event.amount ELSE 0
  BY <1>5, <1>6
<1> QED
  BY <1>3, <1>4, <1>7, <1>8 DEF Applies

\* A step of the Ledger is a step of the Wallet, or leaves it alone.
LEMMA WalletStep ==
  ASSUME WalletInv, WalletInv', [Next]_vars
  PROVE  [W!Next]_(W!vars)
<1> USE DEF WalletInv
<1>0. TypeOK /\ TypeOK' /\ HoldsPositive /\ FreshReads
  BY DEF BooksInv
<1>1. ASSUME NEW a \in Accounts, CreateAccount(a)
      PROVE  UNCHANGED W!vars
  BY <1>1, WalletStutters DEF CreateAccount, Held, AppliedTxns
<1>2. ASSUME NEW t \in Txns, NEW p \in Payloads, NEW k \in OptionalKey,
             CreateTransaction(t, p, k)
      PROVE  UNCHANGED W!vars
  <2>1. \A x \in Txns \ {t} : txn'[x] = txn[x]
    BY <1>0, <1>2 DEF CreateTransaction, TypeOK
  <2>2. txn[t].status = "none" /\ txn'[t].status = "pending"
    BY <1>0, <1>2 DEF CreateTransaction, FreshTxn, TypeOK
  <2>3. /\ AppliedTxns' = AppliedTxns
        /\ \A x \in AppliedTxns : txn'[x] = txn[x]
    BY <2>1, <2>2 DEF AppliedTxns
  <2> QED
    BY <1>2, <2>3, WalletStutters DEF CreateTransaction, Held
<1>3. ASSUME NEW t \in Txns, txn[t].status = "pending",
             txn' = [txn EXCEPT ![t].status = "posted"],
             balance' = Applied(balance, t, txn[t].entries)
      PROVE  Applies(t) /\ txn'[t].entries = txn[t].entries
  <2>1. /\ t \notin AppliedTxns /\ AppliedTxns' = AppliedTxns \cup {t}
        /\ \A x \in AppliedTxns : /\ txn'[x].entries = txn[x].entries
                                  /\ txn'[x].kind = txn[x].kind
        /\ txn'[t].entries = txn[t].entries
    BY <1>0, <1>3 DEF AppliedTxns, TypeOK, Transaction
  <2>2. \A a \in Accounts :
          balance'[a] = balance[a] + Credits(t, txn'[t].entries, a)
                          - Debits(t, txn'[t].entries, a)
    BY <1>3, <2>1 DEF Applied
  <2> QED
    BY <2>1, <2>2 DEF Applies
<1>4. ASSUME NEW t \in Txns, NEW k \in OptionalKey, PostTransaction(t, k)
      PROVE  W!Next
  BY <1>3, <1>4, MoveStep DEF PostTransaction, WriteAccounts
<1>5. ASSUME NEW t \in Txns, NEW r \in Txns, NEW k \in OptionalKey,
             ReverseTransaction(t, r, k)
      PROVE  W!Next
  <2>1. PICK R : R = ReversalOf(t)
    OBVIOUS
  <2>2. R.entries = Mirror(txn[t].entries) /\ R.status = "posted"
    BY <2>1 DEF ReversalOf
  <2>3. /\ txn' = [txn EXCEPT ![t].status = "reversed", ![r] = R]
        /\ txn[t].status = "posted" /\ txn[r].status = "none"
        /\ balance' = Applied(balance, r, Mirror(txn[t].entries))
        /\ reserved' = reserved /\ hold' = hold
    BY <1>5, <2>1 DEF ReverseTransaction, Reversible, FreshTxn, WriteAccounts
  <2>4. /\ txn'[r] = R
        /\ txn'[t].entries = txn[t].entries /\ txn'[t].kind = txn[t].kind
        /\ txn'[t].status = "reversed"
        /\ \A x \in Txns \ {r, t} : txn'[x] = txn[x]
    BY <1>0, <2>3 DEF TypeOK, Transaction
  <2>5. /\ r \notin AppliedTxns /\ AppliedTxns' = AppliedTxns \cup {r}
        /\ \A x \in AppliedTxns : /\ txn'[x].entries = txn[x].entries
                                  /\ txn'[x].kind = txn[x].kind
    BY <2>2, <2>3, <2>4 DEF AppliedTxns
  <2>6. \A a \in Accounts :
          balance'[a] = balance[a] + Credits(r, txn'[r].entries, a)
                          - Debits(r, txn'[r].entries, a)
    BY <2>2, <2>3, <2>4 DEF Applied
  <2>7. Applies(r)
    BY <2>5, <2>6 DEF Applies
  <2> QED
    BY <2>3, <2>7, MoveStep
<1>6. ASSUME NEW h \in Holds, NEW q \in HoldRequests, NEW k \in OptionalKey,
             CreateHold(h, q, k)
      PROVE  W!Next
  BY <1>6, SetAsideStep
<1>7. ASSUME NEW h \in Holds, DeadlinePasses(h)
      PROVE  UNCHANGED W!vars
  <2>1. \A x \in Holds : /\ hold'[x].status = hold[x].status
                         /\ hold'[x].account = hold[x].account
                         /\ hold'[x].amount = hold[x].amount
    BY <1>0, <1>7 DEF DeadlinePasses, TypeOK, Hold
  <2>2. \A x \in Holds : Held(x)' = Held(x)
    BY <2>1 DEF Held
  <2> QED
    BY <1>7, <2>2, WalletStutters DEF DeadlinePasses, AppliedTxns
<1>8. ASSUME NEW h \in Holds, NEW k \in OptionalKey,
             ExpireHold(h, k) \/ ReleaseHold(h, k)
      PROVE  W!Next
  <2>1. /\ Free({h}, "expired") \/ Free({h}, "released")
        /\ hold[h].status = "active" /\ txn' = txn
    BY <1>8 DEF ExpireHold, ReleaseHold
  <2> QED
    BY <2>1, GiveBackStep
<1>9. ASSUME NEW S \in SUBSET Holds, Expires(S)
      PROVE  W!Next
  BY <1>9, GiveBackStep DEF Expires, Due
<1>10. ASSUME NEW h \in Holds, NEW t \in Txns, NEW k \in OptionalKey,
              ConsumeHold(h, t, k)
       PROVE  W!Next
  <2>1. CASE Due(h)
    <3>1. Free({h}, "expired") /\ hold[h].status = "active" /\ txn' = txn
      BY <1>10, <2>1 DEF ConsumeHold
    <3> QED
      BY <3>1, GiveBackStep
  <2>2. CASE ~Due(h)
    <3>1. /\ hold[h].status = "active" /\ txn[t].status = "pending"
          /\ DebitsHold(txn[t].entries, hold[h])
          /\ balance' = Applied(balance, t, txn[t].entries)
          /\ reserved' = [reserved EXCEPT ![hold[h].account] = @ - hold[h].amount]
          /\ txn' = [txn EXCEPT ![t].status = "posted"]
          /\ hold' = [hold EXCEPT ![h].status = "consumed"]
      BY <1>10, <2>2 DEF ConsumeHold, WriteAccounts
    <3>2. hold[h].amount > 0
      BY <1>0, <3>1 DEF HoldsPositive
    <3>3. Debits(t, txn'[t].entries, hold[h].account) = hold[h].amount
      <4>1. /\ txn'[t].entries = txn[t].entries
            /\ txn[t].entries \in SUBSET Entry
        BY <1>0, <1>3, <3>1 DEF TypeOK, Transaction
      <4> QED
        BY <3>1, <3>2, <4>1, HoldDebit
    <3> QED
      BY <1>3, <3>1, <3>3, SpendStep
  <2> QED
    BY <2>1, <2>2
<1>11. ASSUME NEW s \in Sessions, NEW e \in Events, NEW a \in Accounts,
              BeginEvent(s, e, a)
       PROVE  UNCHANGED W!vars
  BY <1>11, WalletStutters DEF BeginEvent, Held, AppliedTxns
<1>11b. ASSUME NEW s \in Sessions, AbandonEvent(s)
        PROVE  UNCHANGED W!vars
  BY <1>11b, WalletStutters DEF AbandonEvent, Held, AppliedTxns
<1>12. ASSUME NEW s \in Sessions, NEW t \in Txns, CommitInvoicePaid(s, t)
       PROVE  W!Next
  <2>1. PICK m : m = seen[s]
    OBVIOUS
  <2>2. /\ m \in Seen /\ m.event.amount > 0 /\ m.balance = balance[m.account]
        /\ FreshTxn(t)
        /\ txn' = [txn EXCEPT ![t] = EventTxn(m, "external_credit", "credit")]
        /\ balance' = [balance EXCEPT ![m.account] = m.balance + m.event.amount]
        /\ reserved' = reserved /\ hold' = hold
    BY <1>0, <1>12, <2>1
       DEF CommitInvoicePaid, WriteAccounts, FreshReads, TypeOK
  <2>3. "credit" \in Sides
    BY DEF Sides
  <2>4. balance' = [balance EXCEPT ![m.account] =
          IF "credit" = "credit" THEN balance[m.account] + m.event.amount
          ELSE balance[m.account] - m.event.amount]
    BY <2>2
  <2>5. Applies(t)
    BY <1>0, <2>2, <2>3, <2>4, EventMoves
  <2> QED
    BY <2>2, <2>5, MoveStep
<1>13. ASSUME NEW s \in Sessions, NEW h \in Holds, NEW t \in Txns,
              CommitPaymentSent(s, h, t)
       PROVE  W!Next
  <2>1. PICK m : m = seen[s]
    OBVIOUS
  <2>2. /\ m \in Seen /\ m.event.amount > 0 /\ m.balance = balance[m.account]
        /\ m.reserved = reserved[m.account] /\ FreshTxn(t)
        /\ hold[h].status = "active" /\ hold[h].account = m.account
        /\ hold[h].amount = m.event.amount
        /\ txn' = [txn EXCEPT ![t] = EventTxn(m, "external_debit", "debit")]
        /\ balance' = [balance EXCEPT ![m.account] = m.balance - m.event.amount]
        /\ reserved' = [reserved EXCEPT ![m.account] = m.reserved - m.event.amount]
        /\ hold' = [hold EXCEPT ![h].status = "consumed"]
    BY <1>0, <1>13, <2>1
       DEF CommitPaymentSent, WriteAccounts, FreshReads, TypeOK
  <2>3. "debit" \in Sides
    BY DEF Sides
  <2>5. /\ Applies(t)
        /\ Debits(t, txn'[t].entries, m.account)
             = IF "debit" = "debit" THEN m.event.amount ELSE 0
    <3>1. PICK S \in Sides : S = "debit"
      BY <2>3
    <3>2. /\ txn' = [txn EXCEPT ![t] = EventTxn(m, "external_debit", S)]
          /\ balance' = [balance EXCEPT ![m.account] =
               IF S = "credit" THEN balance[m.account] + m.event.amount
               ELSE balance[m.account] - m.event.amount]
      BY <2>2, <3>1
    <3>3. m.event.amount > 0 /\ m \in Seen /\ FreshTxn(t)
      BY <2>2
    <3>4. Applies(t) /\ Debits(t, txn'[t].entries, m.account)
                          = IF S = "debit" THEN m.event.amount ELSE 0
      BY <1>0, <3>2, <3>3, EventMoves
    <3> QED
      BY <3>1, <3>4
  <2>6. /\ Debits(t, txn'[t].entries, hold[h].account) = hold[h].amount
        /\ reserved' = [reserved EXCEPT ![hold[h].account] = @ - hold[h].amount]
    BY <2>2, <2>5
  <2> QED
    BY <2>2, <2>5, <2>6, SpendStep
<1>14. CASE UNCHANGED vars
  BY <1>14, WalletStutters DEF vars, Held, AppliedTxns
<1>15. TransactionStep => W!Next \/ UNCHANGED W!vars
  BY <1>1, <1>2, <1>4, <1>5 DEF TransactionStep
<1>16. HoldStep => W!Next \/ UNCHANGED W!vars
  BY <1>6, <1>7, <1>8, <1>10 DEF HoldStep
<1>17. WorkerStep => W!Next \/ UNCHANGED W!vars
  BY <1>9, WorkerExpires
<1>18. EventStep => W!Next \/ UNCHANGED W!vars
  BY <1>11, <1>11b, <1>12, <1>13 DEF EventStep
<1> QED
  BY <1>14, <1>15, <1>16, <1>17, <1>18 DEF Next

\* The empty ledger is an empty wallet.
LEMMA WalletInit == Init => W!Init
<1> SUFFICES ASSUME Init PROVE W!Init
  OBVIOUS
<1>1. FreeFunds = [a \in Accounts |-> 0]
  BY DEF Init, FreeFunds, Available
<1>2. HeldMoney = [h \in Holds |-> None]
  BY DEF Init, HeldMoney, Held, NoHold
<1>3. AppliedTxns = {}
  BY DEF Init, AppliedTxns, NoTxn
<1>4. \A kind, side : AppliedOfKind(kind, side) = {}
  BY <1>3 DEF AppliedOfKind
<1>5. /\ Total(AppliedOfKind("external_credit", "credit")) = 0
      /\ Total(AppliedOfKind("external_debit", "debit")) = 0
  <2>1. /\ AppliedOfKind("external_credit", "credit") = {}
        /\ AppliedOfKind("external_debit", "debit") = {}
    BY <1>4
  <2> QED
    BY <2>1, TotalEmpty
<1>6. NetInflow = 0
  BY <1>5 DEF NetInflow
<1> QED
  BY <1>1, <1>2, <1>6 DEF W!Init

\* The Ledger implements the Wallet, as long as no writer runs between the two
\* steps of a payment message: money moves without loss, a hold gives back or
\* spends exactly what it set aside, once, and nobody spends what is not free.
THEOREM LedgerImplementsWallet ==
  ASSUME ~Overlap
  PROVE  Spec => ImplementsWallet
<1>1. Spec => []BooksInv
  BY BooksAlways
<1>2. Spec => []SoundInv
  BY SoundInit, SoundStep, PTL DEF Spec
<1>3. BooksInv /\ SoundInv => WalletInv
  BY DEF SoundInv, WalletInv
<1>4. WalletInv /\ WalletInv' /\ [Next]_vars => [W!Next]_(W!vars)
  BY WalletStep
<1> QED
  BY <1>1, <1>2, <1>3, <1>4, WalletInit, PTL DEF Spec, ImplementsWallet, W!Spec
=============================================================================
