\* Two companies, payments that are not meant for debts, and payments of 60 over
\* debts of 100, so that FIFO spreads one payment over two debts.
SPECIFICATION Spec
CONSTANTS
    MaxDocuments = 2
    MaxPayments = 2
    Companies = {1, 2}
    Totals = {100}
    PlanPrices = {100}
    Amounts = {60}
    Discounts = {0}
    Purposes = {"deuda", "servicio"}
INVARIANTS MoneyRestsOnOwnDebts FifoPaysOldestFirst
CHECK_DEADLOCK FALSE
