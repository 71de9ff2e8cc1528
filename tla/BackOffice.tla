------------------------------ MODULE BackOffice ------------------------------
(* The requests of the server that take several steps: the receipts (ReceiptDesk), the settlements
   (BillDesk), the runs over the companies (FirmRuns) and the cache of permissions (AuthCache).
   The rows of one are not written by another here, so a behaviour follows one of the four and
   leaves the others as they began. *)
EXTENDS ReceiptDesk, BillDesk, FirmRuns, AuthCache, TLC

VARIABLE focus      \* the part that is followed

vars == <<focus, receiptVars, billVars, firmVars, cacheVars>>

Focuses == {"receipts", "bills", "firms", "cache"}

\* A part that is not followed begins in one way.
Init ==
  /\ focus \in Focuses
  /\ ReceiptsInit(IF focus = "receipts" THEN Received \X Applied ELSE {<<0, 0>>})
  /\ FirmsInit(IF focus = "firms" THEN Topics ELSE {"charges"})
  /\ BillsInit /\ CacheInit

Next ==
  \/ focus = "receipts" /\ ReceiptsNext /\ UNCHANGED <<focus, billVars, firmVars, cacheVars>>
  \/ focus = "bills" /\ BillsNext /\ UNCHANGED <<focus, receiptVars, firmVars, cacheVars>>
  \/ focus = "firms" /\ FirmsNext /\ UNCHANGED <<focus, receiptVars, billVars, cacheVars>>
  \/ focus = "cache" /\ CacheNext /\ UNCHANGED <<focus, receiptVars, billVars, firmVars>>

Spec == Init /\ [][Next]_vars

\* The requests are alike.
ClerkSymmetry == Permutations(Clerks)
=============================================================================
