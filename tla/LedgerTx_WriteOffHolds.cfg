\* One debt, and two requests that pay it, edit it or write it off.
SPECIFICATION TxSpec
CONSTANTS
    MaxDocuments = 1
    MaxPayments = 3
    Companies = {1}
    Totals = {2}
    PlanPrices = {}
    Amounts = {1}
    Discounts = {0}
    Purposes = {"deuda"}
    Requests = {t1, t2}
    Programs = {"apply", "edit", "writeoff"}
    EditedTo = {"pendiente"}
    Received = 0
PROPERTIES WriteOffHolds
