----------------------------- MODULE LedgerSums -----------------------------
(***************************************************************************)
(* COALESCE(SUM(amount), 0): the total of a column over the rows 1 .. n.   *)
(* Ids are auto-increment integers, so the rows of a table are 1 .. n and  *)
(* a column is a function on them; rows that do not exist contribute 0.    *)
(***************************************************************************)
EXTENDS Integers

SumTo(f, n) ==
    LET s[i \in Nat] == IF i = 0 THEN 0 ELSE s[i - 1] + f[i]
    IN  s[n]

=============================================================================
