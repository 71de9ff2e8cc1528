\* Three payments on account of one cent, one of the requests allocating to a debt of two.
SPECIFICATION TxSpec
CONSTANTS
    MaxDocuments = 1
    MaxPayments = 3
    Companies = {1}
    Totals = {2}
    PlanPrices = {}
    Amounts = {1}
    Discounts = {0}
    Purposes = {"deuda"}
    Requests = {t1, t2, t3}
    Programs = {"allocate"}
    EditedTo = {"pendiente"}
    Received = 3
INVARIANTS NoDebtOverpaid
