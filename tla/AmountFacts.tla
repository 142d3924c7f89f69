---------------------------- MODULE AmountFacts ----------------------------
(***************************************************************************)
(* Facts about Total that the proofs about money rest on: it is a natural   *)
(* number, it is additive over disjoint sets of rows, a single row          *)
(* contributes its amount, and sums over the same accounts or holds add up  *)
(* account by account, hold by hold.                                        *)
(***************************************************************************)
EXTENDS Amounts, FiniteSetTheorems, WellFoundedInduction, TLAPS

\* A finite set of rows whose amounts are integers.
AmountRows(R) == IsFiniteSet(R) /\ \A r \in R : r[2].amount \in Int

\* One row has as many satoshis as its amount says, none if it is negative.
LEMMA UnitsCount ==
  ASSUME NEW r, r[2].amount \in Int
  PROVE  /\ IsFiniteSet(Units(r))
         /\ Cardinality(Units(r)) = IF r[2].amount > 0 THEN r[2].amount ELSE 0
<1> DEFINE n == r[2].amount
<1>1. IsFiniteSet({r}) /\ Cardinality({r}) = 1
  BY FS_Singleton
<1>a. /\ IsFiniteSet(1 .. n)
      /\ Cardinality(1 .. n) = IF 1 > n THEN 0 ELSE n - 1 + 1
  BY FS_Interval
<1>2. /\ IsFiniteSet({r} \X (1 .. n))
      /\ Cardinality({r} \X (1 .. n)) = 1 * Cardinality(1 .. n)
  BY <1>1, <1>a, FS_Product
<1> HIDE DEF n
<1>b. Cardinality({r} \X (1 .. n)) = IF n > 0 THEN n ELSE 0
  BY <1>a, <1>2 DEF n
<1> QED
  BY <1>2, <1>b DEF Units, n

\* Finitely many rows have finitely many satoshis.
LEMMA AllUnitsFinite ==
  ASSUME NEW R, AmountRows(R)
  PROVE  IsFiniteSet(AllUnits(R))
<1> DEFINE f == [r \in R |-> Units(r)]
           T == {Units(r) : r \in R}
<1>1. f \in Surjection(R, T)
  BY DEF Surjection
<1>2. IsFiniteSet(T)
  BY <1>1, FS_Surjection DEF AmountRows
<1>3. \A U \in {Units(r) : r \in R} : IsFiniteSet(U)
  BY UnitsCount DEF AmountRows
<1> QED
  BY <1>1, <1>2, <1>3, FS_UNION DEF AllUnits

\* A sum is a natural number.
LEMMA TotalNat ==
  ASSUME NEW R, AmountRows(R)
  PROVE  Total(R) \in Nat
BY AllUnitsFinite, FS_CardinalityType DEF Total

\* Nothing adds up to nothing.
LEMMA TotalEmpty == Total({}) = 0
<1>1. AllUnits({}) = {}
  BY DEF AllUnits
<1> QED
  BY <1>1, FS_EmptySet DEF Total

\* One row adds up to its amount.
LEMMA TotalOne ==
  ASSUME NEW r, r[2].amount \in Int, r[2].amount >= 0
  PROVE  Total({r}) = r[2].amount
<1>1. AllUnits({r}) = Units(r)
  BY DEF AllUnits
<1> QED
  BY <1>1, UnitsCount DEF Total

\* The sum over two disjoint sets of rows is the sum of their sums.
LEMMA TotalUnion ==
  ASSUME NEW R, AmountRows(R), NEW S, AmountRows(S), R \cap S = {}
  PROVE  /\ AmountRows(R \cup S)
         /\ Total(R \cup S) = Total(R) + Total(S)
<1>1. AllUnits(R \cup S) = AllUnits(R) \cup AllUnits(S)
  BY DEF AllUnits
<1>2. AllUnits(R) \cap AllUnits(S) = {}
  BY DEF AllUnits, Units
<1>3. IsFiniteSet(AllUnits(R)) /\ IsFiniteSet(AllUnits(S))
  BY AllUnitsFinite
<1>4. /\ Cardinality(AllUnits(R)) \in Nat /\ Cardinality(AllUnits(S)) \in Nat
  BY <1>3, FS_CardinalityType
<1>5. Cardinality(AllUnits(R) \cup AllUnits(S))
        = Cardinality(AllUnits(R)) + Cardinality(AllUnits(S))
            - Cardinality({})
  BY <1>2, <1>3, FS_Union
<1>6. Cardinality({}) = 0
  BY FS_EmptySet
<1>7. Total(R \cup S) = Total(R) + Total(S)
  <2> DEFINE x == Cardinality(AllUnits(R))
             y == Cardinality(AllUnits(S))
  <2>1. Total(R \cup S) = x + y - 0
    BY <1>1, <1>5, <1>6 DEF Total
  <2>2. Total(R) = x /\ Total(S) = y
    BY DEF Total
  <2>3. x \in Nat /\ y \in Nat
    BY <1>4
  <2> QED
    BY <2>1, <2>2, <2>3
<1>8. AmountRows(R \cup S)
  BY FS_Union DEF AmountRows
<1> QED
  BY <1>7, <1>8

\* Taking some of the rows away takes their sum away.
LEMMA TotalDifference ==
  ASSUME NEW R, AmountRows(R), NEW S \in SUBSET R
  PROVE  /\ AmountRows(S) /\ AmountRows(R \ S)
         /\ Total(R \ S) = Total(R) - Total(S)
<1>1. AmountRows(S) /\ AmountRows(R \ S)
  BY FS_Subset DEF AmountRows
<1>2. (R \ S) \cup S = R /\ (R \ S) \cap S = {}
  OBVIOUS
<1>3. Total(R) = Total(R \ S) + Total(S)
  BY <1>1, <1>2, TotalUnion
<1>4. Total(R \ S) \in Nat /\ Total(S) \in Nat
  BY <1>1, TotalNat
<1> QED
  BY <1>1, <1>3, <1>4

-----------------------------------------------------------------------------
(* Sums account by account.                                                *)

\* What holds of nothing, and of one element more, holds of a finite set; G is
\* the set of the subsets of which it holds.
LEMMA SubsetInduction ==
  ASSUME NEW S, IsFiniteSet(S), NEW G, {} \in G,
         \A T \in SUBSET S : \A x \in S \ T : T \in G => T \cup {x} \in G
  PROVE  S \in G
<1> SUFFICES ASSUME S \notin G
             PROVE  FALSE
  OBVIOUS
<1> DEFINE B == {T \in SUBSET S : T \notin G}
           sizes == {Cardinality(T) : T \in B}
<1>1. \A T \in SUBSET S : IsFiniteSet(T) /\ Cardinality(T) \in Nat
  BY FS_Subset, FS_CardinalityType
<1>2. sizes \subseteq Nat /\ sizes # {}
  BY <1>1
<1>3. PICK n \in sizes : \A m \in sizes : ~ (<<m, n>> \in OpToRel(<, Nat))
  BY <1>2, NatLessThanWellFounded, WFMin
<1>4. PICK T \in B : n = Cardinality(T)
  BY <1>3
<1>5. PICK x \in T : TRUE
  BY <1>4
<1> DEFINE R == T \ {x}
<1>6. IsFiniteSet(R) /\ Cardinality(R) = n - 1 /\ n \in Nat
  BY <1>1, <1>4, <1>5, FS_RemoveElement
<1>7. R \in SUBSET S /\ Cardinality(R) \in Nat /\ Cardinality(R) < n
  BY <1>1, <1>6
<1>8. R \notin B
  BY <1>3, <1>6, <1>7 DEF OpToRel
<1>9. R \in G /\ x \in S \ R /\ R \cup {x} = T
  BY <1>5, <1>7, <1>8
<1> QED
  BY <1>4, <1>7, <1>9

\* A row for every element of T.
RowsOf(T, F) == {<<x, F[x]>> : x \in T}

\* One row more.
LEMMA RowsOfGrow ==
  ASSUME NEW S, IsFiniteSet(S), NEW F, \A x \in S : F[x].amount \in Nat,
         NEW T \in SUBSET S, NEW x \in S, x \notin T
  PROVE  /\ AmountRows(RowsOf(T, F)) /\ Total(RowsOf(T, F)) \in Nat
         /\ Total(RowsOf(T \cup {x}, F)) = Total(RowsOf(T, F)) + F[x].amount
<1> DEFINE r == <<x, F[x]>>
           f == [y \in T |-> <<y, F[y]>>]
<1>1. AmountRows(RowsOf(T, F))
  <2>1. IsFiniteSet(T) /\ f \in Surjection(T, RowsOf(T, F))
    BY FS_Subset DEF Surjection, RowsOf
  <2>2. IsFiniteSet(RowsOf(T, F))
    BY <2>1, FS_Surjection
  <2> QED
    BY <2>2 DEF AmountRows, RowsOf
<1>2. r[2].amount \in Int /\ r[2].amount >= 0 /\ r[2].amount = F[x].amount
  OBVIOUS
<1>3. RowsOf(T \cup {x}, F) = RowsOf(T, F) \cup {r} /\ RowsOf(T, F) \cap {r} = {}
  BY DEF RowsOf
<1> HIDE DEF r
<1>4. AmountRows({r})
  BY <1>2, FS_Singleton DEF AmountRows
<1>5. Total(RowsOf(T, F) \cup {r}) = Total(RowsOf(T, F)) + Total({r})
  BY <1>1, <1>3, <1>4, TotalUnion
<1>6. Total({r}) = F[x].amount
  BY <1>2, TotalOne
<1> QED
  BY <1>1, <1>3, <1>5, <1>6, TotalNat

\* The rows of a finite set.
LEMMA RowsOfFinite ==
  ASSUME NEW S, IsFiniteSet(S), NEW F, \A x \in S : F[x].amount \in Nat
  PROVE  AmountRows(RowsOf(S, F)) /\ Total(RowsOf(S, F)) \in Nat
<1> DEFINE f == [y \in S |-> <<y, F[y]>>]
<1>1. f \in Surjection(S, RowsOf(S, F))
  BY DEF Surjection, RowsOf
<1>2. IsFiniteSet(RowsOf(S, F))
  BY <1>1, FS_Surjection
<1>3. AmountRows(RowsOf(S, F))
  BY <1>2 DEF AmountRows, RowsOf
<1> QED
  BY <1>3, TotalNat

\* Only the amounts count, not what else is in the rows.
LEMMA TotalSame ==
  ASSUME NEW S, IsFiniteSet(S), NEW F, NEW G,
         \A x \in S : F[x].amount \in Nat,
         \A x \in S : G[x].amount = F[x].amount
  PROVE  Total(RowsOf(S, F)) = Total(RowsOf(S, G))
<1> DEFINE good == {T \in SUBSET S : Total(RowsOf(T, F)) = Total(RowsOf(T, G))}
<1>1. {} \in good
  BY DEF RowsOf
<1>2. ASSUME NEW T \in SUBSET S, NEW x \in S \ T, T \in good
      PROVE  T \cup {x} \in good
  <2>a. \A y \in S : G[y].amount \in Nat
    OBVIOUS
  <2>1. Total(RowsOf(T \cup {x}, F)) = Total(RowsOf(T, F)) + F[x].amount
    BY RowsOfGrow
  <2>2. Total(RowsOf(T \cup {x}, G)) = Total(RowsOf(T, G)) + G[x].amount
    BY <2>a, RowsOfGrow
  <2> QED
    BY <1>2, <2>1, <2>2
<1>3. S \in good
  <2> HIDE DEF good
  <2> QED
    BY <1>1, <1>2, SubsetInduction
<1> QED
  BY <1>3

\* Sums of sums: what every element of S gets is the sum of two amounts.
LEMMA TotalPlus ==
  ASSUME NEW S, IsFiniteSet(S), NEW F, NEW G, NEW H,
         \A x \in S : F[x].amount \in Nat,
         \A x \in S : G[x].amount \in Nat,
         \A x \in S : H[x].amount = F[x].amount + G[x].amount
  PROVE  Total(RowsOf(S, H)) = Total(RowsOf(S, F)) + Total(RowsOf(S, G))
<1> DEFINE good == {T \in SUBSET S : Total(RowsOf(T, H))
                                       = Total(RowsOf(T, F)) + Total(RowsOf(T, G))}
<1>a. \A y \in S : H[y].amount \in Nat
  OBVIOUS
<1>1. {} \in good
  BY TotalEmpty DEF RowsOf
<1>2. ASSUME NEW T \in SUBSET S, NEW x \in S \ T, T \in good
      PROVE  T \cup {x} \in good
  <2>b. x \in S /\ x \notin T
    OBVIOUS
  <2>1. Total(RowsOf(T \cup {x}, F)) = Total(RowsOf(T, F)) + F[x].amount
    BY <2>b, RowsOfGrow
  <2>2. Total(RowsOf(T \cup {x}, G)) = Total(RowsOf(T, G)) + G[x].amount
    BY <2>b, RowsOfGrow
  <2>c. Total(RowsOf(T, F)) \in Nat
    BY <2>b, RowsOfGrow
  <2>d. Total(RowsOf(T, G)) \in Nat
    BY <2>b, RowsOfGrow
  <2>3. Total(RowsOf(T \cup {x}, H)) = Total(RowsOf(T, H)) + H[x].amount
    BY <1>a, RowsOfGrow
  <2>4. F[x].amount \in Nat /\ G[x].amount \in Nat
        /\ H[x].amount = F[x].amount + G[x].amount
    OBVIOUS
  <2> QED
    BY <1>2, <2>c, <2>d, <2>1, <2>2, <2>3, <2>4
<1>3. S \in good
  <2> HIDE DEF good
  <2> QED
    BY <1>1, <1>2, SubsetInduction
<1> QED
  BY <1>3

\* The sum of the parts: L is split into the rows P[x] of every element of S.
LEMMA TotalParts ==
  ASSUME NEW S, IsFiniteSet(S), NEW L, AmountRows(L),
         NEW P, \A x \in S : P[x] \subseteq L,
         \A x, y \in S : x # y => P[x] \cap P[y] = {},
         NEW F, \A x \in S : F[x].amount = Total(P[x])
  PROVE  Total(UNION {P[x] : x \in S}) = Total(RowsOf(S, F))
<1> DEFINE U(T) == UNION {P[x] : x \in T}
           good == {T \in SUBSET S : Total(U(T)) = Total(RowsOf(T, F))}
<1>a. \A x \in S : AmountRows(P[x])
  BY TotalDifference
<1>b. \A x \in S : F[x].amount \in Nat
  BY <1>a, TotalNat
<1>1. {} \in good
  <2>1. U({}) = {} /\ RowsOf({}, F) = {}
    BY DEF RowsOf
  <2> QED
    BY <2>1
<1>2. ASSUME NEW T \in SUBSET S, NEW x \in S \ T, T \in good
      PROVE  T \cup {x} \in good
  <2>1. U(T \cup {x}) = U(T) \cup P[x] /\ U(T) \cap P[x] = {} /\ U(T) \subseteq L
    OBVIOUS
  <2> HIDE DEF U
  <2>2. AmountRows(U(T))
    BY <2>1, TotalDifference
  <2>3. Total(U(T) \cup P[x]) = Total(U(T)) + Total(P[x])
    BY <1>a, <2>1, <2>2, TotalUnion
  <2>4. Total(RowsOf(T \cup {x}, F)) = Total(RowsOf(T, F)) + F[x].amount
    BY <1>b, RowsOfGrow
  <2> QED
    BY <1>2, <2>1, <2>3, <2>4
<1>3. S \in good
  <2> HIDE DEF good
  <2> QED
    BY <1>1, <1>2, SubsetInduction
<1> QED
  BY <1>3

\* Where F and G weigh as much as H and K, element by element, so do their sums.
LEMMA TotalBalance ==
  ASSUME NEW S, IsFiniteSet(S), NEW F, NEW G, NEW H, NEW K,
         \A x \in S : F[x].amount \in Nat,
         \A x \in S : G[x].amount \in Nat,
         \A x \in S : H[x].amount \in Nat,
         \A x \in S : K[x].amount \in Nat,
         \A x \in S : F[x].amount + G[x].amount = H[x].amount + K[x].amount
  PROVE  Total(RowsOf(S, F)) + Total(RowsOf(S, G))
           = Total(RowsOf(S, H)) + Total(RowsOf(S, K))
<1> DEFINE M == [x \in S |-> [amount |-> F[x].amount + G[x].amount]]
<1>1. \A x \in S : M[x].amount = F[x].amount + G[x].amount
  OBVIOUS
<1>2. \A x \in S : M[x].amount = H[x].amount + K[x].amount
  OBVIOUS
<1> HIDE DEF M
<1>3. Total(RowsOf(S, M)) = Total(RowsOf(S, F)) + Total(RowsOf(S, G))
  BY <1>1, TotalPlus
<1>4. Total(RowsOf(S, M)) = Total(RowsOf(S, H)) + Total(RowsOf(S, K))
  BY <1>2, TotalPlus
<1> QED
  BY <1>3, <1>4

\* Rows that are distinct add up element by element, whatever they carry.
LEMMA TotalIndexed ==
  ASSUME NEW S, IsFiniteSet(S), NEW f, NEW F,
         \A x \in S : f[x][2].amount \in Nat,
         \A x \in S : F[x].amount = f[x][2].amount,
         \A x, y \in S : x # y => f[x] # f[y]
  PROVE  Total({f[x] : x \in S}) = Total(RowsOf(S, F))
<1> DEFINE L == {f[x] : x \in S}
           g == [x \in S |-> f[x]]
           P == [x \in S |-> {f[x]}]
<1>1. g \in Surjection(S, L)
  BY DEF Surjection
<1>2. IsFiniteSet(L)
  BY <1>1, FS_Surjection
<1>3. AmountRows(L)
  BY <1>2 DEF AmountRows
<1>4. \A x \in S : P[x] = {f[x]}
  OBVIOUS
<1>5. \A x \in S : P[x] \subseteq L
  BY <1>4
<1>6. \A x, y \in S : x # y => P[x] \cap P[y] = {}
  BY <1>4
<1>7. \A x \in S : F[x].amount = Total(P[x])
  <2> SUFFICES ASSUME NEW x \in S
               PROVE  F[x].amount = Total(P[x])
    OBVIOUS
  <2>1. PICK r : r = f[x]
    OBVIOUS
  <2>2. Total({r}) = r[2].amount
    <3>1. r[2].amount \in Int /\ r[2].amount >= 0
      BY <2>1
    <3> QED
      BY <3>1, TotalOne
  <2> QED
    BY <1>4, <2>1, <2>2
<1>8. UNION {P[x] : x \in S} = L
  BY <1>4
<1> HIDE DEF P, L
<1>9. Total(UNION {P[x] : x \in S}) = Total(RowsOf(S, F))
  BY <1>3, <1>5, <1>6, <1>7, TotalParts
<1> QED
  BY <1>8, <1>9 DEF L
=============================================================================
