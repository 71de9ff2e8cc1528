SPECIFICATION Spec
CONSTANTS
    MaxDocuments = 2
    MaxPayments = 2
    Companies = {1}
    Totals = {100, 200}
    PlanPrices = {100}
    Amounts = {100, 200}
    Discounts = {0}
    Purposes = {"deuda"}
INVARIANTS BalanceInSync
CHECK_DEADLOCK FALSE
