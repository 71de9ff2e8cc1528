\* One company, two debts, two payments; totals of 100 and 102 cents differ by exactly
\* the drift the dual read tolerates; 98 and a discount of 2 pay the smaller debt, 96
\* and the same discount none.
SPECIFICATION Spec
CONSTANTS
    MaxDocuments = 2
    MaxPayments = 2
    Companies = {1}
    Totals = {100, 102}
    PlanPrices = {}
    Amounts = {96, 98}
    Discounts = {0, 2}
    Purposes = {"deuda"}
INVARIANTS TypeOK MoneyCountedOnce
PROPERTIES SyncedWhenMoneyMoves WriteOffIsFinal WrittenOffGetsNoAllocation DiscountClosesItsDebts KeepsPaymentBook
CHECK_DEADLOCK FALSE
