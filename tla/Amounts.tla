------------------------------ MODULE Amounts ------------------------------
(***************************************************************************)
(* Sums of integer amounts, as the ledger's SQL computes them with         *)
(* coalesce(sum(amount), 0).  A sum runs over a set of rows; a row is a     *)
(* pair <<id, record>> whose record has an amount, so that two rows with    *)
(* equal contents stay two rows.  The sum is counted satoshi by satoshi:    *)
(* it is the number of pairs <<row, i>> with 1 <= i <= amount.  Rows whose  *)
(* amount is not positive count for nothing (both tables forbid them).      *)
(***************************************************************************)
EXTENDS Integers, FiniteSets

\* The satoshis of one row.
Units(row) == {row} \X (1 .. row[2].amount)

\* The satoshis of a set of rows, and how many they are.
AllUnits(rows) == UNION {Units(row) : row \in rows}
Total(rows) == Cardinality(AllUnits(rows))
=============================================================================
