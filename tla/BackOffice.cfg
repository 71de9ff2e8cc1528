SPECIFICATION Spec
CONSTANTS
  Clerks = {c1, c2}
  MaxReceipts = 2
  MaxPays = 2
  MaxNumber = 3
  MaxAsked = 4
  Received = {0, 1}
  Applied = {0, 1}
  SaleRefs = {"ref"}
  NoRef = "none"
  MaxBills = 2
  Months = {jan, feb}
  MaxFirms = 3
  MaxDebts = 3
  People = {"ana", "beto"}
  MaxChanges = 2
SYMMETRY ClerkSymmetry
INVARIANTS OneReceiptPerSale NumbersNeverReused LinkedBothWays BilledOnceUnlessContested PaidOnlyWhenIssued NothingTwiceUnlessTogether BootstrapLeavesNoneOut CarryOverDecidedOnce JudgedByPresentPermissions
PROPERTIES VoidIsFinal
CHECK_DEADLOCK FALSE
