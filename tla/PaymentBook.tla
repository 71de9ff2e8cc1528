----------------------------- MODULE PaymentBook -----------------------------
(***************************************************************************)
(* What the finance ledger promises about received money, with no tables,  *)
(* balances or statuses: a payment holds funds, its funds are placed on    *)
(* debts, more can be placed while some are left, and what is placed stays *)
(* where it is until the whole payment is voided, for good.                *)
(***************************************************************************)
EXTENDS LedgerSums

CONSTANTS MaxDebts, MaxMovements

VARIABLES
    state,      \* state[p]: "none", then "open", then "void"
    funds,      \* funds[p]: the money payment p brought, in cents
    placed      \* placed[p][d]: how much of it pays debt d

bookVars == <<state, funds, placed>>

Debts == 1 .. MaxDebts
Movements == 1 .. MaxMovements

Covered(p) == SumTo(placed[p], MaxDebts)

BookInit ==
    /\ state = [p \in Movements |-> "none"]
    /\ funds = [p \in Movements |-> 0]
    /\ placed = [p \in Movements |-> [d \in Debts |-> 0]]

OthersUntouched(p) ==
    \A q \in Movements \ {p} :
        /\ state'[q] = state[q]
        /\ funds'[q] = funds[q]
        /\ placed'[q] = placed[q]

Receive(p) ==
    /\ state[p] = "none" /\ state'[p] = "open"
    /\ Covered(p)' <= funds'[p]
    /\ OthersUntouched(p)

\* Placing more of what is left.
Place(p) ==
    /\ state[p] = "open" /\ state'[p] = "open"
    /\ funds'[p] = funds[p]
    /\ \A d \in Debts : placed[p][d] <= placed'[p][d]
    /\ Covered(p)' <= funds'[p]
    /\ OthersUntouched(p)

\* Only money that pays no debt yet can be corrected.
Amend(p) ==
    /\ state[p] = "open" /\ state'[p] = "open"
    /\ \A d \in Debts : placed[p][d] = 0
    /\ Covered(p)' <= funds'[p]
    /\ OthersUntouched(p)

Void(p) ==
    /\ state[p] = "open" /\ state'[p] = "void"
    /\ funds'[p] = 0
    /\ \A d \in Debts : placed'[p][d] = 0
    /\ OthersUntouched(p)

BookNext == \E p \in Movements : Receive(p) \/ Place(p) \/ Amend(p) \/ Void(p)

BookSpec == BookInit /\ [][BookNext]_bookVars

=============================================================================
