---------------------------- MODULE Collections ----------------------------
(***************************************************************************)
(* What SUM does with a column and what a filter does with a list, for the *)
(* modules above the database: SumOver as a fold, Within as a recursive    *)
(* function over the list.                                                 *)
(***************************************************************************)
EXTENDS Integers, Sequences, FiniteSetsExt

(* SUM of a column over the rows of T.                                     *)
SumOver(values, T) == FoldSet(LAMBDA t, sum : values[t] + sum, 0, T)

(* The elements of s that belong to S, in their order.                     *)
Within(s, S) ==
  LET kept[n \in 0..Len(s)] ==
        IF n = 0 THEN <<>>
        ELSE IF s[n] \in S THEN Append(kept[n - 1], s[n]) ELSE kept[n - 1]
  IN kept[Len(s)]
=============================================================================
