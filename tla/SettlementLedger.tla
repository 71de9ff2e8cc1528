-------------------------- MODULE SettlementLedger --------------------------
(***************************************************************************)
(* Tax settlements over the debt ledger. A settlement bills a company for  *)
(* one period: its lines name debts that already existed (references) and  *)
(* debts it created itself (charges). While it is a draft it can be edited;*)
(* issued, it takes payments; closed, it is history and sets the debts it  *)
(* did not collect free. The debt keeps two foreign keys: the settlement   *)
(* that bills it now (link) and the one that created it (origin).          *)
(***************************************************************************)
EXTENDS DebtLedger, TLC

CONSTANTS
    MaxSettlements,     \* bound: settlements ever created
    Periods             \* the periods (YYYY-MM) that are billed

ASSUME SettlementAssumption == MaxSettlements \in Nat

VARIABLES
    settle,     \* the settlements with their lines
    link,       \* link[d]: tax_settlement_id of debt d, 0 for NULL
    origin,     \* origin[d]: origin_settlement_id of debt d, 0 for NULL
    paidFor     \* paidFor[p]: tax_settlement_id of payment p, 0 for NULL

settlementVars == <<docs, pays, alloc, settle, link, origin, paidFor>>

Settlements == 1 .. MaxSettlements

Draft  == "borrador"
Issued == "emitida"
Closed == "cerrada"

\* A line of a draft names a debt as a document_ref, or is a charge (tax_manual,
\* adjustment); a debt named twice counts as a charge.
LineKinds == {"none", "ref", "charge"}

NoKinds == [d \in Documents |-> "none"]

NoSettlement == [status |-> "absent", company |-> 0, period |-> "", kinds |-> NoKinds]

NextSettlement(s) ==
    settle[s].status = "absent" /\ \A u \in 1 .. s - 1 : settle[u].status # "absent"

Named(kinds) == {d \in Documents : kinds[d] # "none"}

Listed(s) == Named(settle[s].kinds)

\* The next charges become debts with the next ids.
NextDocuments(new) ==
    \A d \in new : docs[d].life = "absent" /\ \A e \in 1 .. d - 1 : e \in new \/ docs[e].life # "absent"

-----------------------------------------------------------------------------
(* One settlement for each company and period. *)

Existing(s) == settle[s].status \in {Draft, Issued, Closed}

\* Mutant of DuplicatePeriod: a closed settlement no longer counts.
DuplicateOpenPeriod(c, period, s) ==
    \E u \in Settlements \ {s} :
        settle[u].status \in {Draft, Issued} /\ settle[u].company = c /\ settle[u].period = period

DuplicatePeriod(c, period, s) ==
    \E u \in Settlements \ {s} :
        Existing(u) /\ settle[u].company = c /\ settle[u].period = period

-----------------------------------------------------------------------------
(* Linking debts to a settlement. *)

\* A debt is free, or already here, or left behind by a closed settlement.
CanLink(d, s, c) ==
    /\ LiveDocument(d) /\ docs[d].company = c
    /\ link[d] \notin {0, s} => settle[link[d]].status = Closed

Linked(s, debts) == [d \in Documents |-> IF d \in debts THEN s ELSE link[d]]

Unlinked(s, debts, from) ==
    [d \in Documents |-> IF d \in debts /\ from[d] = s THEN 0 ELSE from[d]]

\* The lines a user sends: debts of the company, and new charges with their totals.
CanBill(s, c, kinds, new) ==
    /\ NextDocuments(new)
    /\ \A d \in Named(kinds) : CanLink(d, s, c)

Charge(c, total) ==
    [life |-> "live", company |-> c, total |-> total, balance |-> total, status |-> Pending]

\* The charges become debts, and every line is linked to its debt.
Bill(s, c, period, kinds, new, total) ==
    /\ settle' = [settle EXCEPT ![s] =
                     [status |-> Draft, company |-> c, period |-> period,
                      kinds |-> [d \in Documents |-> IF d \in new THEN "charge" ELSE kinds[d]]]]
    /\ origin' = [d \in Documents |-> IF d \in new THEN s ELSE origin[d]]

ReferencedElsewhere(d, s) == \E u \in Settlements \ {s} : d \in Listed(u)

\* Mutant of Untouchable: what was paid of the debt is not looked at.
UntouchableNever(d) == FALSE

\* A debt with money on it stops the whole request instead of disappearing.
Untouchable(d) == PaidTotal(pays, alloc, d) > 0 \/ HasPayments(d)

\* Mutant of Removed: references from other settlements are not looked at.
RemovedAnyway(s, debts) == {d \in debts : LiveDocument(d) /\ origin[d] = s}

\* What disappears with its line: only debts this settlement created, nowhere else listed.
Removed(s, debts) ==
    {d \in debts : LiveDocument(d) /\ origin[d] = s /\ ~ ReferencedElsewhere(d, s)}

-----------------------------------------------------------------------------
(* Drafts. *)

CreateDraft(c, period, kinds, new, total) ==
    \E s \in Settlements :
        /\ NextSettlement(s)
        /\ ~ DuplicatePeriod(c, period, s)
        /\ CanBill(s, c, kinds, new)
        /\ Bill(s, c, period, kinds, new, total)
        /\ docs' = [d \in Documents |-> IF d \in new THEN Charge(c, total[d]) ELSE docs[d]]
        /\ link' = Linked(s, Named(kinds) \cup new)
        /\ UNCHANGED <<pays, alloc, paidFor>>

\* The supervisor leaves an empty draft for Finance to go on with.
CreateSupervisorInitialDraft(c, period) ==
    \E s \in Settlements :
        /\ NextSettlement(s)
        /\ ~ DuplicatePeriod(c, period, s)
        /\ settle' = [settle EXCEPT ![s] = [NoSettlement EXCEPT !.status = Draft, !.company = c,
                                                                !.period = period]]
        /\ UNCHANGED <<docs, pays, alloc, link, origin, paidFor>>

UpdateSupervisorDraft(s, period) ==
    /\ settle[s].status = Draft
    /\ ~ DuplicatePeriod(settle[s].company, period, s)
    /\ settle' = [settle EXCEPT ![s].period = period]
    /\ UNCHANGED <<docs, pays, alloc, link, origin, paidFor>>

\* Mutant of Dropped: only the debts the settlement created are looked at.
DroppedOwned(s, kept) == {d \in Documents \ kept : LiveDocument(d) /\ link[d] = s /\ origin[d] = s}

\* The debts linked here that the new lines no longer name.
Dropped(s, kept) == {d \in Documents \ kept : LiveDocument(d) /\ link[d] = s}

UpdateDraft(s, period, kinds, new, total) ==
    LET c == settle[s].company
        kept == Named(kinds) \cup new
        gone == Removed(s, Dropped(s, kept))
    IN  /\ settle[s].status = Draft
        /\ ~ DuplicatePeriod(c, period, s)
        /\ CanBill(s, c, kinds, new)
        /\ \A d \in Dropped(s, kept) : origin[d] = s => ~ Untouchable(d)
        /\ Bill(s, c, period, kinds, new, total)
        /\ docs' = [d \in Documents |-> IF d \in new THEN Charge(c, total[d])
                                        ELSE IF d \in gone THEN [docs[d] EXCEPT !.life = "deleted"]
                                        ELSE docs[d]]
        /\ link' = Unlinked(s, Dropped(s, kept) \ gone, Linked(s, kept))
        /\ UNCHANGED <<pays, alloc, paidFor>>

LinkDebtToDraft(s, d) ==
    /\ settle[s].status = Draft
    /\ CanLink(d, s, settle[s].company)
    /\ OpenBalance(d) > 0
    /\ settle' = [settle EXCEPT ![s].kinds[d] = IF @ = "charge" THEN @ ELSE "ref"]
    /\ link' = Linked(s, {d})
    /\ UNCHANGED <<docs, pays, alloc, origin, paidFor>>

\* Every line is linked again: its debt may have come loose since.
Relink(s) ==
    /\ \A d \in Listed(s) : CanLink(d, s, settle[s].company)
    /\ link' = Linked(s, Listed(s))
    /\ UNCHANGED <<docs, pays, alloc, origin, paidFor>>

Emit(s) ==
    /\ settle[s].status = Draft
    /\ ~ DuplicatePeriod(settle[s].company, settle[s].period, s)
    /\ Relink(s)
    /\ settle' = [settle EXCEPT ![s].status = Issued]

-----------------------------------------------------------------------------
(* Issued settlements. *)

\* The form that suggests payments also repairs the links.
PaymentSuggestions(s) == settle[s].status = Issued /\ Relink(s) /\ UNCHANGED settle

\* Mutant of Payable: a closed settlement still takes payments.
PayableWhenClosed(s, c) == settle[s].status \in {Issued, Closed} /\ settle[s].company = c

Payable(s, c) == settle[s].status = Issued /\ settle[s].company = c

\* A payment made from the settlement brings the debts it pays under it.
PayFromSettlement(s, c, amount, discount, purpose, lines) ==
    /\ Payable(s, c)
    /\ \A d \in LineDocuments(lines) : link[d] \in {0, s}
    /\ ApplyPayment(c, amount, discount, purpose, lines)
    /\ paidFor' = [p \in Payments |-> IF NextPayment(p) THEN s ELSE paidFor[p]]
    /\ link' = Linked(s, LineDocuments(lines))
    /\ settle' = [settle EXCEPT ![s].kinds =
                     [d \in Documents |-> IF d \in LineDocuments(lines) /\ @[d] = "none"
                                          THEN "ref" ELSE @[d]]]
    /\ UNCHANGED origin

\* RevertSettlementDebtLinksTx: voiding a payment made from a settlement takes the
\* debts it paid out of it, unless another payment made from it still pays them.
Sustained(d, s, voided) ==
    \E q \in Payments \ voided : ActivePayment(q) /\ paidFor[q] = s /\ alloc[q][d] > 0

LinksAfterVoiding(voided) ==
    [d \in Documents |->
        IF \E p \in voided : /\ paidFor[p] # 0 /\ link[d] = paidFor[p]
                             /\ d \in TouchedBy(p) /\ ~ Sustained(d, paidFor[p], voided)
        THEN 0 ELSE link[d]]

VoidOne(p) ==
    /\ VoidPayment(p)
    /\ link' = LinksAfterVoiding({p})
    /\ UNCHANGED <<settle, origin, paidFor>>

\* Mutant of PaymentsOf: the payments of the settlement are left alone.
PaymentsOfNone(s) == {}

PaymentsOf(s) == {p \in Payments : ActivePayment(p) /\ paidFor[p] = s}

\* revertSettlementPaymentsAndFiscal: DeletePaymentTx of each, one after the other.
Touched(voided) == UNION {TouchedBy(p) : p \in voided}

VoidAll(voided) ==
    /\ \A d \in Touched(voided) : LiveDocument(d)
    /\ pays' = [p \in Payments |-> IF p \in voided THEN [pays[p] EXCEPT !.life = "voided"] ELSE pays[p]]
    /\ alloc' = [p \in Payments |-> IF p \in voided THEN NoLines ELSE alloc[p]]
    /\ docs' = Persisted(Touched(voided), pays', alloc')

RevertToDraft(s) ==
    /\ settle[s].status = Issued
    /\ VoidAll(PaymentsOf(s))
    /\ link' = LinksAfterVoiding(PaymentsOf(s))
    /\ settle' = [settle EXCEPT ![s].status = Draft]
    /\ UNCHANGED <<origin, paidFor>>

\* Mutant of Erased: the lines outlive their settlement.
ErasedButLines(s) == [settle[s] EXCEPT !.status = "deleted"]

\* The lines go with their settlement.
Erased(s) == [NoSettlement EXCEPT !.status = "deleted"]

\* Deleting an issued settlement voids its payments and only unlinks its debts.
DeleteIssued(s) ==
    /\ settle[s].status = Issued
    /\ VoidAll(PaymentsOf(s))
    /\ link' = Unlinked(s, Listed(s), LinksAfterVoiding(PaymentsOf(s)))
    /\ settle' = [settle EXCEPT ![s] = Erased(s)]
    /\ UNCHANGED <<origin, paidFor>>

\* Deleting a draft deletes the debts it created, if they are nobody else's.
DeleteDraft(s) ==
    LET charges == {d \in Listed(s) : settle[s].kinds[d] = "charge"}
        gone == Removed(s, charges)
    IN  /\ settle[s].status = Draft
        /\ \A d \in charges : LiveDocument(d) /\ origin[d] = s => ~ Untouchable(d)
        /\ docs' = [d \in Documents |-> IF d \in gone THEN [docs[d] EXCEPT !.life = "deleted"] ELSE docs[d]]
        /\ link' = Unlinked(s, Listed(s) \ gone, link)
        /\ settle' = [settle EXCEPT ![s] = Erased(s)]
        /\ UNCHANGED <<pays, alloc, origin, paidFor>>

\* The debts that are still open are released for a later settlement.
Close(s) ==
    /\ settle[s].status = Issued
    /\ link' = Unlinked(s, {d \in Listed(s) : LiveDocument(d) /\ OpenBalance(d) > 0 /\ docs[d].status # Paid}, link)
    /\ settle' = [settle EXCEPT ![s].status = Closed]
    /\ UNCHANGED <<docs, pays, alloc, origin, paidFor>>

-----------------------------------------------------------------------------
(* Debts and payments beside the settlements. *)

Aside == UNCHANGED <<settle, link, origin, paidFor>>

Unbilled(d) == origin[d] = 0 /\ \A s \in Settlements : d \notin Listed(s)

DeleteUnbilled(d) == Unbilled(d) /\ DeleteDocument(d) /\ Aside

WriteOffUnlinked(d, st) == link[d] = 0 /\ WriteOffUnlinkedDebt(d, st) /\ Aside

-----------------------------------------------------------------------------
SettlementInit ==
    /\ Init
    /\ settle = [s \in Settlements |-> NoSettlement]
    /\ link = [d \in Documents |-> 0]
    /\ origin = [d \in Documents |-> 0]
    /\ paidFor = [p \in Payments |-> 0]

Kinds == [Documents -> LineKinds]

DraftNext ==
    \/ \E c \in Companies, period \in Periods :
          \/ CreateSupervisorInitialDraft(c, period)
          \/ \E kinds \in Kinds, new \in SUBSET Documents, total \in [Documents -> Totals] :
                CreateDraft(c, period, kinds, new, total)
    \/ \E s \in Settlements, period \in Periods :
          \/ UpdateSupervisorDraft(s, period)
          \/ \E kinds \in Kinds, new \in SUBSET Documents, total \in [Documents -> Totals] :
                UpdateDraft(s, period, kinds, new, total)
    \/ \E s \in Settlements, d \in Documents : LinkDebtToDraft(s, d)
    \/ \E s \in Settlements : Emit(s) \/ DeleteDraft(s)

IssuedNext ==
    \/ \E s \in Settlements : PaymentSuggestions(s) \/ RevertToDraft(s) \/ DeleteIssued(s) \/ Close(s)
    \/ \E s \in Settlements, c \in Companies, amount \in Amounts, discount \in Discounts,
          purpose \in Purposes, lines \in Lines :
          PayFromSettlement(s, c, amount, discount, purpose, lines)

\* Beside the settlements, new debts are pending, payments are applied by hand and a
\* write-off exonerates; DebtLedger has the other ways to do each.
AsideNext ==
    \/ \E c \in Companies, total \in Totals : CreateDocument(c, total, Pending) /\ Aside
    \/ \E d \in Documents : DeleteUnbilled(d) \/ WriteOffUnlinked(d, Exonerado)
    \/ \E c \in Companies, amount \in Amounts, discount \in Discounts, purpose \in Purposes,
          lines \in Lines : ApplyPayment(c, amount, discount, purpose, lines) /\ Aside
    \/ \E p \in Payments : VoidOne(p)

SettlementNext == DraftNext \/ IssuedNext \/ AsideNext

PeriodSymmetry == Permutations(Periods)

SettlementSpec == SettlementInit /\ [][SettlementNext]_settlementVars

-----------------------------------------------------------------------------
(* Properties; MoneyRestsOnOwnDebts and SyncedWhenMoneyMoves are DebtLedger's. *)

NoRow == {"absent", "deleted"}

\* Nothing is left of a settlement that is not there.
SettlementTypeOK ==
    /\ TypeOK
    /\ settle \in [Settlements ->
          [status : {Draft, Issued, Closed}, company : Companies, period : Periods, kinds : Kinds]
          \cup [status : NoRow, company : {0}, period : {""}, kinds : {NoKinds}]]
    /\ link \in [Documents -> Settlements \cup {0}]
    /\ origin \in [Documents -> Settlements \cup {0}]
    /\ paidFor \in [Payments -> Settlements \cup {0}]

\* A company is billed once for a period, whatever is drafted, moved to another
\* period, issued, reverted, closed or deleted (duplicateLiquidationPeriod).
OneSettlementPerPeriod ==
    \A s, u \in Settlements :
        Existing(s) /\ Existing(u) /\ settle[s].company = settle[u].company
        /\ settle[s].period = settle[u].period => s = u

\* The foreign key of a debt never outlives the line that explains it: a debt under
\* a settlement is on one of its lines, and the settlement exists and is of the
\* company that owes (CleanupSettlementDebtsNotInLines, PurgeSettlementDocumentsOnDelete).
LinksFollowLines ==
    \A d \in Documents :
        LiveDocument(d) /\ link[d] # 0
        => /\ Existing(link[d])
           /\ d \in Listed(link[d])
           /\ settle[link[d]].company = docs[d].company

\* No settlement, not even a closed one, lists a debt that is gone: deleting a debt,
\* a draft or the line of a draft spares what another settlement lists.
ListedDebtsExist ==
    \A s \in Settlements : \A d \in Listed(s) : LiveDocument(d)

\* Money is held in the name of a settlement only while it is issued or closed:
\* reverting or deleting it voids every payment made from it.
MoneyOnlyOnIssued ==
    \A p \in Payments :
        ActivePayment(p) /\ paidFor[p] # 0 => settle[paidFor[p]].status \in {Issued, Closed}

\* "no se puede eliminar una liquidación cerrada; es un registro histórico": nothing that
\* happens later, to its debts or its payments, changes a closed settlement.
ClosedIsFrozen ==
    [][\A s \in Settlements : settle[s].status = Closed => settle'[s] = settle[s]]_settlementVars

-----------------------------------------------------------------------------
(* What a comment says and voiding breaks. *)

\* "revierte Document.tax_settlement_id cuando este pago lo había establecido":
\* voiding a payment leaves the link the settlement itself gave a debt it created.
VoidingKeepsOlderLinks ==
    [][\A p \in Payments, d \in Documents :
          /\ ActivePayment(p) /\ pays'[p].life = "voided"
          /\ paidFor[p] # 0 /\ link[d] = paidFor[p] /\ origin[d] = paidFor[p]
          /\ settle'[paidFor[p]].status = Issued
          => link'[d] = link[d]]_settlementVars

=============================================================================
