-------------------------- MODULE WithdrawalProofs --------------------------
(***************************************************************************)
(* What holds of every number of withdrawals, amounts and crashes: debits   *)
(* match payments accepted, payments were covered, replies reach the         *)
(* withdrawal they answer, and no money is lost on the way.                 *)
(***************************************************************************)
EXTENDS Withdrawal, AmountFacts

\* The shapes of the variables; TypeOK also bounds the balance.
Shapes ==
  /\ at \in [Withdrawals -> {"start", "checked", "held", "publishing",
                             "waiting", "sent", "ended"}]
  /\ table \subseteq Withdrawals /\ box \subseteq Withdrawals
  /\ hold \in [Withdrawals -> {"none", "active", "consumed", "expired"}]
  /\ cmd \in [Withdrawals -> {"none", "queued", "executed", "failed", "recorded",
                              "done"}]
  /\ payment \in [Withdrawals -> {"none", "pending", "made", "failed"}]
  /\ replies \subseteq Withdrawals
  /\ event \in [Withdrawals -> {"none", "stored", "published", "applied",
                                "rejected"}]

\* A hold is placed before anything is asked of the PLS, and only once.
HoldFirst(w) ==
  /\ at[w] \in {"start", "checked"} => hold[w] = "none"
  /\ hold[w] = "none" =>
       at[w] \in {"start", "checked", "ended"} /\ cmd[w] = "none"

\* What the PLS's command says of the payment and its event.
CommandTruthful(w) ==
  /\ cmd[w] = "none" => ~Accepted(w)
  /\ cmd[w] = "executed" => Accepted(w)
  /\ event[w] # "none" => Accepted(w)
  /\ event[w] # "none" <=> cmd[w] \in {"recorded", "done"}

DebitApplied(w) == hold[w] = "consumed" <=> event[w] = "applied"

\* An answer, wherever it is, is that of a payment accepted and recorded.
AnswerTruthful(w) ==
  w \in replies \cup box \/ at[w] = "sent" => event[w] # "none"

Waiting(w) == w \in table \cup box => at[w] \in {"publishing", "waiting"}

WithdrawalInv(w) ==
  /\ HoldFirst(w) /\ CommandTruthful(w) /\ DebitApplied(w)
  /\ AnswerTruthful(w) /\ Waiting(w)

IInv == Shapes /\ \A w \in Withdrawals : WithdrawalInv(w)

\* At first nothing has been asked for.
LEMMA InitHolds == Init => IInv
  BY DEF Init, IInv, Shapes, WithdrawalInv, HoldFirst, CommandTruthful,
         DebitApplied, AnswerTruthful, Waiting, Accepted

\* A step of the hub concerns the withdrawal it is for.
LEMMA HubKeeps ==
  ASSUME IInv, NEW w \in Withdrawals, HubStep(w) \/ GrowsOld(w) \/ ConsumeResponse(w)
  PROVE  IInv'
<1> USE DEF IInv, Shapes, WithdrawalInv, HoldFirst, CommandTruthful,
            DebitApplied, AnswerTruthful, Waiting, Accepted, hubVars, ledgerVars, plsVars,
            Goto, Become, Leave
<1>1. CASE CheckBalance(w)
  BY <1>1 DEF CheckBalance
<1>2. CASE PlaceHold(w)
  BY <1>2 DEF PlaceHold
<1>3. CASE LedgerDeclines(w)
  BY <1>3 DEF LedgerDeclines
<1>4. CASE Register(w)
  BY <1>4 DEF Register, Ready
<1>5. CASE Arrives(w)
  BY <1>5 DEF Arrives
<1>6. CASE Published(w)
  BY <1>6 DEF Published
<1>7. CASE PublishFails(w)
  BY <1>7 DEF PublishFails
<1>8. CASE TakeAnswer(w)
  BY <1>8 DEF TakeAnswer
<1>9. CASE TimeOut(w)
  BY <1>9 DEF TimeOut
<1>10. CASE GrowsOld(w)
  BY <1>10 DEF GrowsOld
<1>11. CASE ConsumeResponse(w)
  BY <1>11 DEF ConsumeResponse, Addressee
<1> QED
  BY <1>1, <1>2, <1>3, <1>4, <1>5, <1>6, <1>7, <1>8, <1>9, <1>10, <1>11
  DEF HubStep

\* So does a step of the PLS.
LEMMA PLSKeeps ==
  ASSUME IInv, NEW w \in Withdrawals, PLSStep(w) \/ Settles(w) \/ PublishEvent(w)
  PROVE  IInv'
<1> USE DEF IInv, Shapes, WithdrawalInv, HoldFirst, CommandTruthful,
            DebitApplied, AnswerTruthful, Waiting, Accepted, hubVars, ledgerVars, plsVars,
            Goto, Become
<1>1. CASE Execute(w)
  <2>1. Verdicts[w] \subseteq {"pending", "made"}
    BY WithdrawalAssumption
  <2> QED
    BY <1>1, <2>1 DEF Execute
<1>2. CASE Refuse(w)
  BY <1>2 DEF Refuse
<1>3. CASE Record(w)
  BY <1>3 DEF Record
<1>4. CASE Reply(w)
  BY <1>4 DEF Reply
<1>5. CASE PublishEvent(w)
  BY <1>5 DEF PublishEvent
<1>6. CASE Settles(w)
  BY <1>6 DEF Settles
<1> QED
  BY <1>1, <1>2, <1>3, <1>4, <1>5, <1>6 DEF PLSStep

\* And of the ledger.
LEMMA LedgerKeeps ==
  ASSUME IInv, NEW w \in Withdrawals, SentStep(w) \/ DeadlinePasses(w) \/ Expire(w)
  PROVE  IInv'
<1> USE DEF IInv, Shapes, WithdrawalInv, HoldFirst, CommandTruthful,
            DebitApplied, AnswerTruthful, Waiting, Accepted, hubVars, ledgerVars, plsVars
<1>1. CASE ApplySent(w)
  BY <1>1 DEF ApplySent, HoldsOf
<1>2. CASE RejectSent(w)
  BY <1>2 DEF RejectSent
<1>3. CASE DeadlinePasses(w)
  BY <1>3 DEF DeadlinePasses
<1>4. CASE Expire(w)
  BY <1>4 DEF Expire
<1> QED
  BY <1>1, <1>2, <1>3, <1>4 DEF SentStep

\* A crash forgets the table, or sends commands back to the queue.
LEMMA CrashKeeps ==
  ASSUME IInv, HubCrash \/ PLSCrash
  PROVE  IInv'
<1> USE DEF IInv, Shapes, WithdrawalInv, HoldFirst, CommandTruthful,
            DebitApplied, AnswerTruthful, Waiting, Accepted, hubVars, ledgerVars, plsVars
<1>1. CASE HubCrash
  BY <1>1 DEF HubCrash
<1>2. CASE PLSCrash
  BY <1>2 DEF PLSCrash
<1> QED
  BY <1>1, <1>2

\* The invariant is inductive.
LEMMA StepKeeps ==
  ASSUME IInv, [Next]_vars
  PROVE  IInv'
<1>1. CASE Next
  BY <1>1, HubKeeps, PLSKeeps, LedgerKeeps, CrashKeeps DEF Next
<1>2. CASE UNCHANGED vars
  BY <1>2 DEF vars, hubVars, ledgerVars, plsVars, IInv, Shapes, WithdrawalInv,
              HoldFirst, CommandTruthful, DebitApplied, AnswerTruthful, Waiting, Accepted
<1> QED
  BY <1>1, <1>2

LEMMA Invariance == Spec => []IInv
  BY InitHolds, StepKeeps, PTL DEF Spec

\* Whatever is late, lost, restarted or going on at the same time, a user is
\* debited for exactly the payments the ledger was told of, all of them accepted
\* by the provider.  (That they were made is not so: see FailedNotDebited.)
THEOREM DebitsMatch == Spec => []DebitMeansAccepted
<1>1. IInv => DebitMeansAccepted
  BY DEF IInv, WithdrawalInv, CommandTruthful, DebitApplied, DebitMeansAccepted
<1> QED
  BY <1>1, Invariance, PTL

\* No payment is asked for before funds have been set aside for it.
THEOREM PaymentsCovered == Spec => []PaidWasCovered
<1>1. IInv => PaidWasCovered
  BY DEF IInv, Shapes, WithdrawalInv, HoldFirst, CommandTruthful, PaidWasCovered
<1> QED
  BY <1>1, Invariance, PTL

\* Who is told that the money was sent has been told of the own payment.
THEOREM AnswersMatch == Spec => []AnswersAreOwn
<1>1. IInv => AnswersAreOwn
  BY DEF IInv, WithdrawalInv, CommandTruthful, AnswerTruthful, AnswersAreOwn
<1> QED
  BY <1>1, Invariance, PTL

\* The table of waiting requests keeps no entry of a request that is over.
THEOREM TableKept == Spec => []TableOfWaiting
<1>1. IInv => TableOfWaiting
  BY DEF IInv, Shapes, WithdrawalInv, Waiting, TableOfWaiting
<1> QED
  BY <1>1, Invariance, PTL
-----------------------------------------------------------------------------
(* The user's money: free, held or spent.                                  *)

Prices == [w \in Withdrawals |-> [amount |-> Amount[w]]]
Cost(S) == Total(RowsOf(S, Prices))
Having(status) == {w \in Withdrawals : hold[w] = status}

Conserved ==
  free \in Nat /\ free + Cost(Having("active")) + Cost(Having("consumed")) = Funds

\* The rest of the type invariant.
Bounds ==
  /\ stale \subseteq table /\ due \subseteq Withdrawals
  /\ crashes \in 0 .. MaxCrashes

MoneyInv == IInv /\ Conserved /\ Bounds

LEMMA PriceTypes == \A w \in Withdrawals : /\ Prices[w].amount = Amount[w]
                                           /\ Amount[w] \in Nat /\ Amount[w] > 0
BY WithdrawalAssumption DEF Prices

\* One withdrawal more costs its amount more.
LEMMA CostGrows ==
  ASSUME NEW S \in SUBSET Withdrawals, NEW w \in Withdrawals, w \notin S
  PROVE  Cost(S \cup {w}) = Cost(S) + Amount[w]
<1>1. IsFiniteSet(Withdrawals) /\ \A x \in Withdrawals : Prices[x].amount \in Nat
  BY PriceTypes, WithdrawalAssumption
<1>2. Total(RowsOf(S \cup {w}, Prices)) = Total(RowsOf(S, Prices)) + Prices[w].amount
  BY <1>1, RowsOfGrow
<1> QED
  BY <1>2, PriceTypes DEF Cost

LEMMA CostNat ==
  ASSUME NEW S \in SUBSET Withdrawals
  PROVE  Cost(S) \in Nat
<1>1. IsFiniteSet(S)
  BY FS_Subset, WithdrawalAssumption
<1>2. \A x \in S : Prices[x].amount \in Nat
  BY PriceTypes
<1> QED
  BY <1>1, <1>2, RowsOfFinite DEF Cost

LEMMA CostShrinks ==
  ASSUME NEW S \in SUBSET Withdrawals, NEW w \in S
  PROVE  Cost(S) = Cost(S \ {w}) + Amount[w]
<1>1. S \ {w} \in SUBSET Withdrawals /\ w \in Withdrawals /\ w \notin S \ {w}
  OBVIOUS
<1>2. (S \ {w}) \cup {w} = S
  OBVIOUS
<1> QED
  BY <1>1, <1>2, CostGrows

LEMMA CostAlone ==
  ASSUME NEW w \in Withdrawals
  PROVE  Cost({w}) = Amount[w] /\ Cost({}) = 0
<1>1. Cost({}) = 0
  <2>1. RowsOf({}, Prices) = {}
    BY DEF RowsOf
  <2> QED
    BY <2>1, TotalEmpty DEF Cost
<1>2. Cost({} \cup {w}) = Cost({}) + Amount[w]
  BY CostGrows
<1>3. {} \cup {w} = {w}
  OBVIOUS
<1> QED
  BY <1>1, <1>2, <1>3, PriceTypes

LEMMA SpentCost == Total(Spent) = Cost(Having("consumed"))
<1>1. Spent = RowsOf(Having("consumed"), Prices)
  BY DEF Spent, RowsOf, Having, Prices
<1> QED
  BY <1>1 DEF Cost

\* The steps that concern money.
Places(w) ==
  /\ hold[w] = "none" /\ free >= Amount[w]
  /\ hold' = [hold EXCEPT ![w] = "active"] /\ free' = free - Amount[w]
Spends(w) ==
  /\ hold[w] = "active"
  /\ hold' = [hold EXCEPT ![w] = "consumed"] /\ free' = free
Returns(w) ==
  /\ hold[w] = "active"
  /\ hold' = [hold EXCEPT ![w] = "expired"] /\ free' = free + Amount[w]

LEMMA MoneySteps ==
  ASSUME IInv, [Next]_vars
  PROVE  \/ UNCHANGED <<hold, free>>
         \/ \E w \in Withdrawals : Places(w) \/ Spends(w) \/ Returns(w)
<1> USE DEF hubVars, ledgerVars, plsVars
<1>1. CASE UNCHANGED vars
  BY <1>1 DEF vars
<1>2. CASE HubCrash \/ PLSCrash
  BY <1>2 DEF HubCrash, PLSCrash
<1>3. ASSUME NEW w \in Withdrawals, PlaceHold(w)
      PROVE  Places(w)
  BY <1>3 DEF PlaceHold, Places, Funded, IInv, WithdrawalInv, HoldFirst
<1>4. ASSUME NEW w \in Withdrawals, ApplySent(w)
      PROVE  Spends(w)
  BY <1>4 DEF ApplySent, HoldsOf, Spends
<1>5. ASSUME NEW w \in Withdrawals, Expire(w)
      PROVE  Returns(w)
  BY <1>5 DEF Expire, Returns
<1>6. ASSUME NEW w \in Withdrawals,
             \/ HubStep(w) /\ ~PlaceHold(w)
             \/ GrowsOld(w) \/ ConsumeResponse(w) \/ PLSStep(w) \/ Settles(w)
             \/ PublishEvent(w) \/ RejectSent(w) \/ DeadlinePasses(w)
      PROVE  UNCHANGED <<hold, free>>
  BY <1>6
  DEF HubStep, CheckBalance, LedgerDeclines, Register, Arrives, Published, PublishFails,
      TakeAnswer, TimeOut, GrowsOld, ConsumeResponse, PLSStep, Execute, Refuse, Record,
      Reply, Settles, PublishEvent, RejectSent, DeadlinePasses
<1> QED
  BY <1>1, <1>2, <1>3, <1>4, <1>5, <1>6 DEF Next, SentStep

\* The sets of active and consumed holds after such a step.
LEMMA HavingMoves ==
  ASSUME Shapes, NEW w \in Withdrawals, NEW s, NEW u, s # u, hold[w] = s,
         hold' = [hold EXCEPT ![w] = u]
  PROVE  /\ w \in Having(s) /\ Having(s)' = Having(s) \ {w}
         /\ w \notin Having(u) /\ Having(u)' = Having(u) \cup {w}
BY DEF Shapes, Having

LEMMA HavingStays ==
  ASSUME Shapes, NEW w \in Withdrawals, NEW u, NEW v, hold[w] # v, u # v,
         hold' = [hold EXCEPT ![w] = u]
  PROVE  Having(v)' = Having(v)
BY DEF Shapes, Having

LEMMA ConservedStep ==
  ASSUME IInv, Conserved, [Next]_vars
  PROVE  Conserved'
<1>0. Shapes
  BY DEF IInv
<1>1. CASE UNCHANGED <<hold, free>>
  BY <1>1 DEF Conserved, Having
<1> DEFINE A == Having("active")
           C == Having("consumed")
<1>2. /\ A \in SUBSET Withdrawals /\ C \in SUBSET Withdrawals
      /\ Cost(A) \in Nat /\ Cost(C) \in Nat /\ Funds \in Nat
  BY CostNat, WithdrawalAssumption DEF Having
<1>3. ASSUME NEW w \in Withdrawals, Places(w)
      PROVE  Conserved'
  <2>1. w \notin A /\ A' = A \cup {w} /\ C' = C
    <3>1. w \notin A /\ A' = A \cup {w}
      BY <1>0, <1>3, HavingMoves DEF Places
    <3>2. C' = C
      BY <1>0, <1>3, HavingStays DEF Places
    <3> QED
      BY <3>1, <3>2
  <2>2. free \in Nat /\ free + Cost(A) + Cost(C) = Funds
    BY DEF Conserved
  <2>3. Amount[w] \in Nat /\ free >= Amount[w] /\ free' = free - Amount[w]
    BY <1>3, PriceTypes DEF Places
  <2> HIDE DEF A, C
  <2>4. Cost(A \cup {w}) = Cost(A) + Amount[w]
    BY <1>2, <2>1, CostGrows
  <2>5. free' \in Nat /\ free' + Cost(A \cup {w}) + Cost(C) = Funds
    BY <1>2, <2>2, <2>3, <2>4
  <2>6. Cost(A)' = Cost(A \cup {w}) /\ Cost(C)' = Cost(C)
    BY <2>1 DEF Cost, Prices
  <2> QED
    BY <2>5, <2>6 DEF Conserved, A, C
<1>4. ASSUME NEW w \in Withdrawals, Spends(w)
      PROVE  Conserved'
  <2>1. w \in A /\ A' = A \ {w} /\ w \notin C /\ C' = C \cup {w}
    BY <1>0, <1>4, HavingMoves DEF Spends
  <2>2. free \in Nat /\ free + Cost(A) + Cost(C) = Funds
    BY DEF Conserved
  <2>3. Amount[w] \in Nat /\ free' = free
    BY <1>4, PriceTypes DEF Spends
  <2> HIDE DEF A, C
  <2>4. Cost(C \cup {w}) = Cost(C) + Amount[w] /\ Cost(A) = Cost(A \ {w}) + Amount[w]
    BY <1>2, <2>1, CostGrows, CostShrinks
  <2>5. Cost(A \ {w}) \in Nat
    BY <1>2, CostNat
  <2>6. free' \in Nat /\ free' + Cost(A \ {w}) + Cost(C \cup {w}) = Funds
    BY <1>2, <2>2, <2>3, <2>4, <2>5
  <2>7. Cost(A)' = Cost(A \ {w}) /\ Cost(C)' = Cost(C \cup {w})
    BY <2>1 DEF Cost, Prices
  <2> QED
    BY <2>6, <2>7 DEF Conserved, A, C
<1>5. ASSUME NEW w \in Withdrawals, Returns(w)
      PROVE  Conserved'
  <2>1. w \in A /\ A' = A \ {w} /\ C' = C
    <3>1. w \in A /\ A' = A \ {w}
      BY <1>0, <1>5, HavingMoves DEF Returns
    <3>2. C' = C
      BY <1>0, <1>5, HavingStays DEF Returns
    <3> QED
      BY <3>1, <3>2
  <2>2. free \in Nat /\ free + Cost(A) + Cost(C) = Funds
    BY DEF Conserved
  <2>3. Amount[w] \in Nat /\ free' = free + Amount[w]
    BY <1>5, PriceTypes DEF Returns
  <2> HIDE DEF A, C
  <2>4. Cost(A) = Cost(A \ {w}) + Amount[w]
    BY <1>2, <2>1, CostShrinks
  <2>5. Cost(A \ {w}) \in Nat
    BY <1>2, CostNat
  <2>6. free' \in Nat /\ free' + Cost(A \ {w}) + Cost(C) = Funds
    BY <1>2, <2>2, <2>3, <2>4, <2>5
  <2>7. Cost(A)' = Cost(A \ {w}) /\ Cost(C)' = Cost(C)
    BY <2>1 DEF Cost, Prices
  <2> QED
    BY <2>6, <2>7 DEF Conserved, A, C
<1> QED
  BY <1>1, <1>3, <1>4, <1>5, MoneySteps

LEMMA BoundsStep ==
  ASSUME IInv, Bounds, [Next]_vars
  PROVE  Bounds'
<1> USE DEF Bounds, hubVars, ledgerVars, plsVars
<1>1. CASE UNCHANGED vars
  BY <1>1 DEF vars
<1>2. CASE HubCrash \/ PLSCrash
  BY <1>2, WithdrawalAssumption DEF HubCrash, PLSCrash
<1>3. ASSUME NEW w \in Withdrawals, HubStep(w) \/ GrowsOld(w) \/ ConsumeResponse(w)
      PROVE  Bounds'
  BY <1>3
  DEF HubStep, CheckBalance, PlaceHold, LedgerDeclines, Register, Arrives, Published,
      PublishFails, TakeAnswer, TimeOut, Leave, GrowsOld, ConsumeResponse, Addressee
<1>4. ASSUME NEW w \in Withdrawals,
             \/ PLSStep(w) \/ Settles(w) \/ PublishEvent(w)
             \/ SentStep(w) \/ DeadlinePasses(w) \/ Expire(w)
      PROVE  Bounds'
  BY <1>4
  DEF PLSStep, Execute, Settles, Refuse, Record, Reply, PublishEvent, SentStep, ApplySent,
      RejectSent, DeadlinePasses, Expire
<1> QED
  BY <1>1, <1>2, <1>3, <1>4 DEF Next

LEMMA MoneyInit == Init => MoneyInv
<1> SUFFICES ASSUME Init PROVE MoneyInv
  OBVIOUS
<1>1. Having("active") = {} /\ Having("consumed") = {}
  BY DEF Init, Having
<1>2. Cost({}) = 0
  <2>1. RowsOf({}, Prices) = {}
    BY DEF RowsOf
  <2> QED
    BY <2>1, TotalEmpty DEF Cost
<1>3. Conserved
  <2>1. free = Funds /\ Funds \in Nat
    BY WithdrawalAssumption DEF Init
  <2> QED
    BY <1>1, <1>2, <2>1 DEF Conserved
<1>4. Bounds
  BY WithdrawalAssumption DEF Init, Bounds
<1> QED
  BY <1>3, <1>4, InitHolds DEF MoneyInv

LEMMA MoneyStep == MoneyInv /\ [Next]_vars => MoneyInv'
BY StepKeeps, ConservedStep, BoundsStep DEF MoneyInv

\* Every variable keeps its type; what is free never exceeds what the user had,
\* and is never negative: free, held and spent money add up to it.
THEOREM WithdrawalType == Spec => []TypeOK
<1>1. MoneyInv => TypeOK
  <2> SUFFICES ASSUME MoneyInv PROVE TypeOK
    OBVIOUS
  <2>1. Cost(Having("active")) \in Nat /\ Cost(Having("consumed")) \in Nat
    BY CostNat DEF Having
  <2>2. free \in 0 .. Funds
    BY <2>1, WithdrawalAssumption DEF MoneyInv, Conserved
  <2> QED
    BY <2>2 DEF MoneyInv, IInv, Shapes, Bounds, TypeOK
<1> QED
  BY <1>1, MoneyInit, MoneyStep, PTL DEF Spec
-----------------------------------------------------------------------------
(* The abstract wallet.                                                    *)

\* It sums as Amounts does.
LEMMA SameTotal ==
  ASSUME NEW R
  PROVE  Wallets!Total(R) = Total(R)
<1>1. \A r : Wallets!Units(r) = Units(r)
  BY DEF Wallets!Units, Units
<1>2. Wallets!AllUnits(R) = AllUnits(R)
  BY <1>1 DEF Wallets!AllUnits, AllUnits
<1>3. \A S : Wallets!Cardinality(S) = Cardinality(S)
  BY DEF Wallets!Cardinality, Cardinality
<1> QED
  BY <1>2, <1>3 DEF Wallets!Total, Total

\* The funds of the only account.
LEMMA InFundsOne ==
  ASSUME NEW f, f["user"] \in Nat
  PROVE  Wallets!InFunds(f) = f["user"]
<1>1. PICK r : r = <<"user", [amount |-> f["user"]]>>
  OBVIOUS
<1>2. r[2].amount = f["user"]
  BY <1>1
<1>3. {<<a, [amount |-> f[a]]>> : a \in {"user"}} = {r}
  BY <1>1
<1>4. Total({r}) = f["user"]
  BY <1>2, TotalOne
<1> QED
  BY <1>3, <1>4, SameTotal DEF Wallets!InFunds

LEMMA FreeNumbers ==
  ASSUME Conserved
  PROVE  FreeFunds["user"] = free /\ free \in Nat /\ Wallets!InFunds(FreeFunds) = free
<1>1. FreeFunds["user"] = free /\ free \in Nat
  BY DEF FreeFunds, Conserved
<1> QED
  BY <1>1, InFundsOne

LEMMA FreeNumbersNext ==
  ASSUME Conserved'
  PROVE  FreeFunds'["user"] = free' /\ free' \in Nat /\ Wallets!InFunds(FreeFunds') = free'
<1>1. FreeFunds'["user"] = free' /\ free' \in Nat
  BY DEF FreeFunds, Conserved
<1> QED
  BY <1>1, InFundsOne

LEMMA WalletNeverNegative ==
  ASSUME Conserved'
  PROVE  Wallets!NeverNegative
BY FreeNumbersNext DEF Wallets!NeverNegative

\* The money one withdrawal keeps.
LEMMA HeldByOne ==
  ASSUME NEW w \in Withdrawals, hold[w] = "active"
  PROVE  /\ HeldMoney[w] # None /\ HeldMoney[w].account = "user"
         /\ Wallets!HeldBy({w}) = Amount[w]
<1>1. PICK H : H = [account |-> "user", amount |-> Amount[w]]
  OBVIOUS
<1>2. HeldMoney[w] = H /\ H.account = "user" /\ H.amount = Amount[w]
  BY <1>1 DEF HeldMoney
<1>3. H # None
  BY <1>1, PriceTypes, WithdrawalAssumption
<1>4. PICK r : r = <<w, H>>
  OBVIOUS
<1>5. r[2].amount = Amount[w]
  BY <1>2, <1>4
<1>6. {<<h, HeldMoney[h]>> : h \in {x \in {w} : HeldMoney[x] # None}} = {r}
  BY <1>2, <1>3, <1>4
<1>7. Total({r}) = Amount[w]
  BY <1>5, PriceTypes, TotalOne
<1> QED
  BY <1>2, <1>3, <1>6, <1>7, SameTotal DEF Wallets!HeldBy

\* What was spent counts as having left.
LEMMA NetChange ==
  /\ NetInflow = Funds - Cost(Having("consumed"))
  /\ NetInflow' = Funds - Cost(Having("consumed")')
<1>1. Total(Spent) = Cost(Having("consumed"))
  BY SpentCost
<1>2. Spent' = RowsOf(Having("consumed")', Prices)
  BY DEF Spent, RowsOf, Having, Prices
<1> QED
  BY <1>1, <1>2 DEF NetInflow, Cost

\* A withdrawal's hold sets its amount aside.
LEMMA WalletSetsAside ==
  ASSUME MoneyInv, Conserved', NEW w \in Withdrawals, Places(w)
  PROVE  Wallets!Next
<1>0. Shapes /\ Conserved
  BY DEF MoneyInv, IInv
<1>1. PICK H : H = [account |-> "user", amount |-> Amount[w]]
  OBVIOUS
<1>2. H.account = "user" /\ H.amount = Amount[w] /\ H.amount > 0
  BY <1>1, PriceTypes
<1>3. H # None
  BY <1>1, PriceTypes, WithdrawalAssumption
<1>4. HeldMoney[w] = None
  BY DEF HeldMoney, Places
<1>5. HeldMoney' = [HeldMoney EXCEPT ![w] = H] /\ HeldMoney'[w] = H
  BY <1>0, <1>1 DEF HeldMoney, Places, Shapes
<1>6. FreeFunds' = [FreeFunds EXCEPT ![H.account] = @ - H.amount]
  BY <1>2 DEF FreeFunds, Places
<1>7. NetInflow' = NetInflow
  <2>1. Having("consumed")' = Having("consumed")
    BY <1>0, HavingStays DEF Places
  <2> QED
    BY <2>1, NetChange
<1>8. Wallets!SetAside(w)
  BY <1>2, <1>3, <1>4, <1>5, <1>6, <1>7 DEF Wallets!SetAside
<1> QED
  BY <1>8, WalletNeverNegative DEF Wallets!Next

\* A hold whose deadline has passed gives it back.
LEMMA WalletGivesBack ==
  ASSUME MoneyInv, Conserved', NEW w \in Withdrawals, Returns(w)
  PROVE  Wallets!Next
<1>0. Shapes /\ Conserved
  BY DEF MoneyInv, IInv
<1>1. /\ HeldMoney[w] # None /\ HeldMoney[w].account = "user"
      /\ Wallets!HeldBy({w}) = Amount[w]
  BY HeldByOne DEF Returns
<1>2. HeldMoney' = [h \in Withdrawals |-> IF h \in {w} THEN None ELSE HeldMoney[h]]
  BY <1>0 DEF HeldMoney, Returns, Shapes
<1>3. FreeFunds' = [a \in {"user"} |->
                      FreeFunds[a] + Wallets!HeldBy({h \in {w} : HeldMoney[h].account = a})]
  <2>1. {h \in {w} : HeldMoney[h].account = "user"} = {w}
    BY <1>1
  <2>2. FreeFunds["user"] + Wallets!HeldBy({h \in {w} : HeldMoney[h].account = "user"})
          = free + Amount[w]
    BY <1>1, <2>1 DEF FreeFunds
  <2>3. free' = free + Amount[w]
    BY DEF Returns
  <2> QED
    BY <2>2, <2>3 DEF FreeFunds
<1>4. NetInflow' = NetInflow
  <2>1. Having("consumed")' = Having("consumed")
    BY <1>0, HavingStays DEF Returns
  <2> QED
    BY <2>1, NetChange
<1>5. Wallets!GiveBack({w})
  BY <1>1, <1>2, <1>3, <1>4 DEF Wallets!GiveBack
<1> QED
  BY <1>5, WalletNeverNegative DEF Wallets!Next

\* A payment that was sent spends it: it leaves the system.
LEMMA WalletSpends ==
  ASSUME MoneyInv, Conserved', NEW w \in Withdrawals, Spends(w)
  PROVE  Wallets!Next
<1>0. Shapes /\ Conserved
  BY DEF MoneyInv, IInv
<1>1. /\ HeldMoney[w] # None /\ HeldMoney[w].account = "user"
      /\ Wallets!HeldBy({w}) = Amount[w]
  BY HeldByOne DEF Spends
<1>2. HeldMoney' = [HeldMoney EXCEPT ![w] = None]
  BY <1>0 DEF HeldMoney, Spends, Shapes
<1> DEFINE C == Having("consumed")
<1>3. w \notin C /\ C' = C \cup {w}
  BY <1>0, HavingMoves DEF Spends
<1>4. C \in SUBSET Withdrawals
  BY DEF Having
<1> HIDE DEF C
<1>5. Cost(C \cup {w}) = Cost(C) + Amount[w] /\ Cost(C) \in Nat
  BY <1>3, <1>4, CostGrows, CostNat
<1>6. NetInflow = Funds - Cost(C) /\ NetInflow' = Funds - (Cost(C) + Amount[w])
  BY <1>3, <1>5, NetChange DEF C
<1>7. free' = free
  BY DEF Spends
<1>8. Wallets!InFunds(FreeFunds') = free /\ Wallets!InFunds(FreeFunds) = free /\ free \in Nat
      /\ FreeFunds'["user"] = free /\ FreeFunds["user"] = free
  BY <1>0, <1>7, FreeNumbers, FreeNumbersNext
<1>9. free = free + Amount[w] + (Funds - (Cost(C) + Amount[w])) - (Funds - Cost(C))
  BY <1>5, <1>8, PriceTypes, WithdrawalAssumption
<1>10. Wallets!Spend(w)
  <2>1. Wallets!InFunds(FreeFunds')
          = Wallets!InFunds(FreeFunds) + Wallets!HeldBy({w}) + NetInflow' - NetInflow
    BY <1>1, <1>6, <1>8, <1>9
  <2>2. FreeFunds'["user"] >= FreeFunds["user"]
    BY <1>8
  <2> QED
    BY <1>1, <1>2, <2>1, <2>2 DEF Wallets!Spend
<1> QED
  BY <1>10, WalletNeverNegative DEF Wallets!Next

LEMMA WalletStep ==
  ASSUME MoneyInv, MoneyInv', [Next]_vars
  PROVE  [Wallets!Next]_(Wallets!vars)
<1>1. Conserved' /\ IInv
  BY DEF MoneyInv
<1>2. CASE UNCHANGED <<hold, free>>
  BY <1>2 DEF Wallets!vars, FreeFunds, HeldMoney, NetInflow, Spent, Total
<1>3. ASSUME NEW w \in Withdrawals, Places(w) \/ Spends(w) \/ Returns(w)
      PROVE  Wallets!Next
  BY <1>1, <1>3, WalletSetsAside, WalletSpends, WalletGivesBack
<1> QED
  BY <1>1, <1>2, <1>3, MoneySteps

\* What a withdrawal sets aside is spent once or comes back whole, whatever is
\* late, lost or restarted: each step is one the abstract wallet allows.
THEOREM WithdrawalsWithinWallet == Spec => StaysWithinWallet
<1>1. MoneyInv /\ [Next]_vars => MoneyInv' /\ [Wallets!Next]_(Wallets!vars)
  BY MoneyStep, WalletStep
<1>2. Spec => [][Wallets!Next]_(Wallets!vars)
  BY <1>1, MoneyInit, PTL DEF Spec
<1> QED
  BY <1>2 DEF StaysWithinWallet
=============================================================================
