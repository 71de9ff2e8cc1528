\* One debt that its settlement created, one payment of it.
SPECIFICATION SettlementSpec
CONSTANTS
    MaxDocuments = 1
    MaxPayments = 1
    Companies = {1}
    Totals = {100}
    PlanPrices = {}
    Amounts = {50}
    Discounts = {0}
    Purposes = {"deuda"}
    MaxSettlements = 1
    Periods = {jan}
PROPERTIES VoidingKeepsOlderLinks
CHECK_DEADLOCK FALSE
