------------------------------ MODULE DebtRules ------------------------------
(***************************************************************************)
(* The pure rules of a debt (package services/debt): statuses, how a       *)
(* balance follows from what was paid, and how a status follows from a     *)
(* balance. Money is an integer number of cents: roundMoney keeps every    *)
(* amount at two decimals, and MoneyEpsilon (half a cent) then only turns  *)
(* "<= epsilon" into "= 0" and "> x + epsilon" into "> x".                 *)
(***************************************************************************)
EXTENDS Integers

Pending   == "pendiente"
Partial   == "parcial"
Paid      == "pagado"
Cancelled == "anulado"
Exonerado == "exonerado"

Statuses == {Pending, Partial, Paid, Cancelled, Exonerado}

\* Tolerance of EffectiveBalance between the stored and the computed balance.
DriftCents == 2

IsTerminalWriteoffStatus(st) == st \in {Cancelled, Exonerado}

\* Mutant of BalanceFromTotalPaid: an overpaid debt owes a negative amount.
BalanceUnclamped(total, paid) == total - paid

BalanceFromTotalPaid(total, paid) ==
    IF paid >= total THEN 0 ELSE total - paid

ComputeStatusFromAmounts(total, balance, current) ==
    IF IsTerminalWriteoffStatus(current) THEN current
    ELSE IF balance <= 0 THEN Paid
    ELSE IF balance >= total THEN Pending
    ELSE Partial

ComputeStatusFromPaid(paid, total, current) ==
    ComputeStatusFromAmounts(total, BalanceFromTotalPaid(total, paid), current)

(***************************************************************************)
(* The dual read: the stored balance, unless what was paid contradicts it. *)
(***************************************************************************)
EffectiveBalance(status, total, stored, paid) ==
    LET calc == BalanceFromTotalPaid(total, paid)
        drift == IF stored >= calc THEN stored - calc ELSE calc - stored
    IN  IF IsTerminalWriteoffStatus(status) THEN 0
        ELSE IF (stored <= 0 /\ calc > 0) \/ drift > DriftCents THEN calc
        ELSE stored

=============================================================================
