\* Two requests of any kind over two debts and two payments of one cent already
\* received; each debt is of one or two cents, so that a line fills it, half fills it or does not fit.
SPECIFICATION TxSpec
CONSTANTS
    MaxDocuments = 2
    MaxPayments = 4
    Companies = {1}
    Totals = {1, 2}
    PlanPrices = {}
    Amounts = {1}
    Discounts = {0, 1}
    Purposes = {"deuda"}
    Requests = {t1, t2}
    Programs = {"apply", "allocate", "void", "delete", "writeoff", "edit"}
    EditedTo = {"pendiente"}
    Received = 2
INVARIANTS MoneyRestsOnOwnDebts OnlyLineEditsDeadlock
PROPERTIES EveryRequestEnds TakesEffectAtCommit CommitsKeepPaymentBook
