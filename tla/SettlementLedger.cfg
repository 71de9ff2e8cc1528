\* One company, two periods, two settlements; debts of 100 cents and payments of 50, so
\* that two payments together pay a debt.
SPECIFICATION SettlementSpec
CONSTANTS
    MaxDocuments = 2
    MaxPayments = 2
    Companies = {1}
    Totals = {100}
    PlanPrices = {}
    Amounts = {50}
    Discounts = {0}
    Purposes = {"deuda"}
    MaxSettlements = 2
    Periods = {jan, feb}
SYMMETRY PeriodSymmetry
INVARIANTS SettlementTypeOK OneSettlementPerPeriod LinksFollowLines ListedDebtsExist MoneyOnlyOnIssued MoneyRestsOnOwnDebts
PROPERTIES ClosedIsFrozen
CHECK_DEADLOCK FALSE
