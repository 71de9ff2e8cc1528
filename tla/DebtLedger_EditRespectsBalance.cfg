SPECIFICATION Spec
CONSTANTS
    MaxDocuments = 2
    MaxPayments = 2
    Companies = {1}
    Totals = {100, 200}
    PlanPrices = {}
    Amounts = {100, 200}
    Discounts = {0}
    Purposes = {"deuda"}
PROPERTIES EditRespectsBalance
CHECK_DEADLOCK FALSE
