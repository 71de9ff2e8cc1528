----------------------------- MODULE DebtLedger -----------------------------
(***************************************************************************)
(* The debt ledger: debts (documents), payments and the allocations that   *)
(* tie them. One action is one HTTP request that commits; a request that   *)
(* an early return rejects changes nothing and is not an action. Requests  *)
(* are serial here; LedgerTx opens them up into concurrent transactions.   *)
(*                                                                         *)
(* Rows are numbered from 1 as MySQL numbers them; 0 is the NULL of an     *)
(* optional foreign key. alloc[p][d] is the sum of the live allocation     *)
(* rows of payment p on debt d (voiding a payment soft-deletes them).      *)
(***************************************************************************)
EXTENDS LedgerSums, DebtRules

CONSTANTS
    MaxDocuments,   \* bound: debts ever created
    MaxPayments,    \* bound: payments ever created
    Companies,      \* company ids
    Totals,         \* the totals, in cents, a user gives a debt
    PlanPrices,     \* what a month of a subscription plan costs, in cents
    Amounts,        \* the amounts, in cents, a user pays or imputes
    Discounts,      \* the discounts, in cents, a user enters (0: none)
    Purposes        \* payment purposes a user picks ("": unclassified)

ASSUME LedgerAssumption ==
    /\ MaxDocuments \in Nat
    /\ MaxPayments \in Nat
    /\ Companies \subseteq Nat \ {0}
    /\ Totals \subseteq Nat \ {0}
    /\ PlanPrices \subseteq Nat \ {0}
    /\ Amounts \subseteq Nat \ {0}
    /\ Discounts \subseteq Nat
    /\ Purposes \subseteq {"", "deuda", "servicio"}

VARIABLES docs, pays, alloc

vars == <<docs, pays, alloc>>

Documents == 1 .. MaxDocuments
Payments  == 1 .. MaxPayments

Document == [life : {"absent", "live", "deleted"}, company : Nat,
             total : Nat, balance : Nat, status : Statuses]

Payment == [life : {"absent", "active", "voided"}, company : Nat,
            type : {"on_account", "applied"}, purpose : {"", "deuda", "servicio"},
            amount : Nat, discount : Nat, document : Documents \cup {0}]

NoDocument == [life |-> "absent", company |-> 0, total |-> 0,
               balance |-> 0, status |-> Pending]

NoPayment == [life |-> "absent", company |-> 0, type |-> "on_account",
              purpose |-> "", amount |-> 0, discount |-> 0, document |-> 0]

NoLines == [d \in Documents |-> 0]

-----------------------------------------------------------------------------
(* What the queries return. *)

LiveDocument(d)  == docs[d].life = "live"
ActivePayment(p) == pays[p].life = "active"

\* The row an INSERT creates: ids are handed out in order.
NextDocument(d) == docs[d].life = "absent" /\ \A e \in 1 .. d - 1 : docs[e].life # "absent"
NextPayment(p)  == pays[p].life = "absent" /\ \A q \in 1 .. p - 1 : pays[q].life # "absent"

HasAllocations(al, p) == \E d \in Documents : al[p][d] > 0

\* What payment p brings to debt d: its allocations, or, while it has none,
\* all of its amount on the debt its legacy document_id names.
Contribution(ps, al, p, d) ==
    IF ps[p].life # "active" THEN 0
    ELSE IF HasAllocations(al, p) THEN al[p][d]
    ELSE IF ps[p].document = d THEN ps[p].amount
    ELSE 0

PaidTotal(ps, al, d) ==
    SumTo([p \in Payments |-> Contribution(ps, al, p, d)], MaxPayments)

OpenBalance(d) ==
    EffectiveBalance(docs[d].status, docs[d].total, docs[d].balance,
                     PaidTotal(pays, alloc, d))

\* What PersistBalanceAndStatus writes.
WithBalance(doc, paid) ==
    [doc EXCEPT !.balance = BalanceFromTotalPaid(doc.total, paid),
                !.status = ComputeStatusFromPaid(paid, doc.total, doc.status)]

\* PersistBalanceAndStatus of one debt, given what the payments and allocations
\* this request leaves behind pay of it. A written-off debt is not recomputed.
PersistBalanceAndStatus(doc, paid) ==
    IF IsTerminalWriteoffStatus(doc.status) THEN doc ELSE WithBalance(doc, paid)

Persisted(touched, ps, al) ==
    [d \in Documents |-> IF d \in touched
                         THEN PersistBalanceAndStatus(docs[d], PaidTotal(ps, al, d))
                         ELSE docs[d]]

LineDocuments(lines) == {d \in Documents : lines[d] > 0}

LineSum(lines) == SumTo(lines, MaxDocuments)

\* Mutant of ValidAllocations: the status of the debt is not looked at.
ValidAllocationsAnyStatus(c, lines) ==
    /\ LineDocuments(lines) # {}
    /\ \A d \in LineDocuments(lines) :
          LiveDocument(d) /\ docs[d].company = c /\ lines[d] <= docs[d].balance

\* ValidateAllocationsTx without a settlement.
ValidAllocations(c, lines) ==
    /\ LineDocuments(lines) # {}
    /\ \A d \in LineDocuments(lines) :
          /\ LiveDocument(d)
          /\ docs[d].company = c
          /\ docs[d].status # Cancelled
          /\ lines[d] <= docs[d].balance

\* Mutant of ValidAmounts: only the sum is compared when there is a discount.
ValidAmountsSumOnly(amount, discount, lines) ==
    IF discount > 0 THEN amount + discount = LineSum(lines) ELSE LineSum(lines) <= amount

\* ValidatePaymentAmountsAndAllocations: a discount settles every debt it touches.
ValidAmounts(amount, discount, lines) ==
    IF discount > 0
    THEN /\ amount + discount = LineSum(lines)
         /\ \A d \in LineDocuments(lines) : LiveDocument(d) /\ lines[d] = OpenBalance(d)
    ELSE LineSum(lines) <= amount

-----------------------------------------------------------------------------
(* Debts. *)

CreateDocument(c, total, st) ==
    \E d \in Documents :
        /\ NextDocument(d)
        /\ docs' = [docs EXCEPT ![d] =
                       [life |-> "live", company |-> c, total |-> total, status |-> st,
                        balance |-> IF st = Cancelled THEN 0 ELSE total]]
        /\ UNCHANGED <<pays, alloc>>

\* ensureMonthlyCharge: the charge of one more month of the plan. The row is built
\* without InitBalanceOnCreate, so its balance_amount is the column's default, 0.
EnsureMonthlyCharge(c, price) ==
    \E d \in Documents :
        /\ NextDocument(d)
        /\ docs' = [docs EXCEPT ![d] =
                       [life |-> "live", company |-> c, total |-> price, status |-> Pending,
                        balance |-> 0]]
        /\ UNCHANGED <<pays, alloc>>

\* The edit writes total and status and leaves balance_amount as it was.
UpdateDocument(d, total, st) ==
    /\ LiveDocument(d)
    /\ ~ IsTerminalWriteoffStatus(docs[d].status)
    /\ docs' = [docs EXCEPT ![d].total = total, ![d].status = st]
    /\ UNCHANGED <<pays, alloc>>

\* Mutant of HasPayments: the old check, which saw only the legacy link.
HasLegacyPayments(d) == \E p \in Payments : ActivePayment(p) /\ pays[p].document = d

HasPayments(d) ==
    \E p \in Payments : \/ alloc[p][d] > 0
                        \/ ActivePayment(p) /\ pays[p].document = d

DeleteDocument(d) ==
    /\ LiveDocument(d)
    /\ ~ HasPayments(d)
    /\ docs' = [docs EXCEPT ![d].life = "deleted"]
    /\ UNCHANGED <<pays, alloc>>

CanWriteOff(d) ==
    /\ LiveDocument(d)
    /\ ~ IsTerminalWriteoffStatus(docs[d].status)
    /\ docs[d].status # Paid
    /\ OpenBalance(d) > 0
    /\ ~ HasPayments(d)

WriteOffUnlinkedDebt(d, st) ==
    /\ CanWriteOff(d)
    /\ docs' = [docs EXCEPT ![d].status = st, ![d].balance = 0]
    /\ UNCHANGED <<pays, alloc>>

-----------------------------------------------------------------------------
(* Payments. *)

\* The row CreateFromParams and ApplyPaymentTx insert.
NewPayment(type, c, amount, discount, purpose) ==
    [NoPayment EXCEPT !.life = "active", !.company = c, !.type = type, !.purpose = purpose,
                      !.amount = amount, !.discount = discount]

CreateOnAccount(c, amount, purpose) ==
    \E p \in Payments :
        /\ NextPayment(p)
        /\ pays' = [pays EXCEPT ![p] = NewPayment("on_account", c, amount, 0, purpose)]
        /\ UNCHANGED <<docs, alloc>>

ApplyPayment(c, amount, discount, purpose, lines) ==
    \E p \in Payments :
        /\ NextPayment(p)
        /\ ValidAmounts(amount, discount, lines)
        /\ ValidAllocations(c, lines)
        /\ pays' = [pays EXCEPT ![p] = NewPayment("applied", c, amount, discount, purpose)]
        /\ alloc' = [alloc EXCEPT ![p] = lines]
        /\ docs' = Persisted(LineDocuments(lines), pays', alloc')

\* One debt named by the request: the line is capped at its open balance.
SingleLine(d, amount, discount) ==
    LET bal == OpenBalance(d)
    IN  [NoLines EXCEPT ![d] = IF discount > 0 \/ bal < amount THEN bal ELSE amount]

CreateSingle(c, d, amount, discount, purpose) ==
    /\ LiveDocument(d)
    /\ ApplyPayment(c, amount, discount, purpose, SingleLine(d, amount, discount))

\* FIFO: open debts of the company by issue date, each taking what it lacks
\* from what the earlier ones left. rank is the order of the issue dates.
FifoCandidates(c) ==
    {d \in Documents : LiveDocument(d) /\ docs[d].company = c /\ docs[d].status \in {Pending, Partial}}

\* Mutant of Take: the line is not capped at what is left of the payment.
TakeAll(owed, remaining) == IF remaining = 0 THEN 0 ELSE owed

Take(owed, remaining) == IF owed > remaining THEN remaining ELSE owed

FifoLines(c, amount, rank) ==
    LET owed(d) == IF d \in FifoCandidates(c) THEN OpenBalance(d) ELSE 0
        at(i) == CHOOSE d \in Documents : rank[d] = i
        left[i \in Nat] == IF i = 0 THEN amount
                           ELSE left[i - 1] - Take(owed(at(i)), left[i - 1])
    IN  [d \in Documents |-> Take(owed(d), left[rank[d] - 1])]

IssueOrders == {r \in [Documents -> Documents] :
                   \A d, e \in Documents : r[d] = r[e] => d = e}

CreateFifo(c, amount, purpose, rank) ==
    ApplyPayment(c, amount, 0, purpose, FifoLines(c, amount, rank))

\* With nothing to pay and allow_unallocated_remainder the money is kept on account.
CreateFifoNothingOwed(c, amount, purpose, rank) ==
    /\ LineDocuments(FifoLines(c, amount, rank)) = {}
    /\ CreateOnAccount(c, amount, purpose)

\* Mutant of Available: what the payment already pays is not subtracted.
AvailableIgnoringApplied(p) == pays[p].amount

Available(p) == pays[p].amount - LineSum(alloc[p])

\* What AllocateExistingPaymentTx asks of the payment it has locked.
CanAllocate(p, lines) ==
    /\ ActivePayment(p)
    /\ pays[p].purpose = "deuda"
    /\ pays[p].document # 0 => HasAllocations(alloc, p)
    /\ LineSum(lines) <= Available(p)

AllocateExisting(p, lines) ==
    /\ CanAllocate(p, lines)
    /\ ValidAllocations(pays[p].company, lines)
    /\ pays' = [pays EXCEPT ![p].type = "applied"]
    /\ alloc' = [alloc EXCEPT ![p] = [d \in Documents |-> alloc[p][d] + lines[d]]]
    /\ docs' = Persisted(LineDocuments(lines), pays', alloc')

\* PUT /payments/:id is for money on account only. It may tie all of the payment
\* to one debt the legacy way (document_id, no allocation row). The check
\* subtracts the payment's own amount from what the debt has received.
Editable(p) ==
    ActivePayment(p) /\ pays[p].document = 0 /\ pays[p].type # "applied" /\ ~ HasAllocations(alloc, p)

TieFits(ds, ps, al, c, amount, d) ==
    LET paid == PaidTotal(ps, al, d)
        others == IF paid <= amount THEN 0 ELSE paid - amount
    IN  /\ ds[d].life = "live" /\ ds[d].company = c /\ ds[d].status # Cancelled
        /\ amount <= BalanceFromTotalPaid(ds[d].total, others)

EditedPayment(row, amount, d) ==
    [row EXCEPT !.amount = amount, !.document = d, !.type = IF d = 0 THEN "on_account" ELSE "applied"]

UpdatePayment(p, amount, d) ==
    /\ Editable(p)
    /\ d # 0 => TieFits(docs, pays, alloc, pays[p].company, amount, d)
    /\ pays' = [pays EXCEPT ![p] = EditedPayment(pays[p], amount, d)]
    /\ docs' = Persisted({d} \ {0}, pays', alloc)
    /\ UNCHANGED alloc

\* Mutant of TouchedBy: only the legacy document is recomputed.
TouchedByLegacy(p) == {pays[p].document} \ {0}

TouchedBy(p) == LineDocuments(alloc[p]) \cup ({pays[p].document} \ {0})

\* DeletePaymentTx: voids the payment and gives its money back.
VoidPayment(p) ==
    /\ ActivePayment(p)
    /\ \A d \in TouchedBy(p) : LiveDocument(d)
    /\ pays' = [pays EXCEPT ![p].life = "voided"]
    /\ alloc' = [alloc EXCEPT ![p] = NoLines]
    /\ docs' = Persisted(TouchedBy(p), pays', alloc')

\* Start-up: every legacy document_id becomes an allocation row.
\* Mutant of NeedsBackfill: the rows of an earlier start are not looked at.
NeedsBackfillAgain(p) == ActivePayment(p) /\ pays[p].document # 0

NeedsBackfill(p) ==
    ActivePayment(p) /\ pays[p].document # 0 /\ ~ HasAllocations(alloc, p)

BackfillPaymentAllocations ==
    /\ \E p \in Payments : NeedsBackfill(p)
    /\ alloc' = [p \in Payments |->
                    IF NeedsBackfill(p)
                    THEN [alloc[p] EXCEPT ![pays[p].document] = @ + pays[p].amount]
                    ELSE alloc[p]]
    /\ UNCHANGED <<docs, pays>>

-----------------------------------------------------------------------------
Init ==
    /\ docs = [d \in Documents |-> NoDocument]
    /\ pays = [p \in Payments |-> NoPayment]
    /\ alloc = [p \in Payments |-> NoLines]

\* The lines a user can send: one amount, or none, for each debt.
Lines == [Documents -> Amounts \cup {0}]

DocumentNext ==
    \/ \E c \in Companies, total \in Totals, st \in Statuses \ {Exonerado} :
          CreateDocument(c, total, st)
    \/ \E c \in Companies, price \in PlanPrices : EnsureMonthlyCharge(c, price)
    \/ \E d \in Documents, st \in Statuses \ {Exonerado} :
          \E total \in Totals : UpdateDocument(d, total, st)
    \/ \E d \in Documents : DeleteDocument(d)
    \/ \E d \in Documents, st \in {Exonerado, Cancelled} : WriteOffUnlinkedDebt(d, st)

PaymentNext ==
    \/ \E c \in Companies, amount \in Amounts, purpose \in Purposes :
          \/ CreateOnAccount(c, amount, purpose)
          \/ \E discount \in Discounts :
                \/ \E lines \in Lines : ApplyPayment(c, amount, discount, purpose, lines)
                \/ \E d \in Documents : CreateSingle(c, d, amount, discount, purpose)
          \/ \E rank \in IssueOrders :
                \/ CreateFifo(c, amount, purpose, rank)
                \/ CreateFifoNothingOwed(c, amount, purpose, rank)
    \/ \E p \in Payments, lines \in Lines : AllocateExisting(p, lines)
    \/ \E p \in Payments, amount \in Amounts, d \in Documents \cup {0} :
          UpdatePayment(p, amount, d)
    \/ \E p \in Payments : VoidPayment(p)

Next == DocumentNext \/ PaymentNext \/ BackfillPaymentAllocations

Spec == Init /\ [][Next]_vars

-----------------------------------------------------------------------------
(* Properties. *)

TypeOK ==
    /\ docs \in [Documents -> Document]
    /\ pays \in [Payments -> Payment]
    /\ alloc \in [Payments -> [Documents -> Nat]]

\* The money a payment may cover: what was received plus the discount granted.
Funds(p) == IF ActivePayment(p) THEN pays[p].amount + pays[p].discount ELSE 0

\* No cent pays two debts: what a payment brings to all the debts together, by
\* allocation rows or by its legacy document_id, never exceeds its funds, and a
\* voided payment brings nothing (payment_apply.go, DeletePaymentTx, backfill).
MoneyCountedOnce ==
    \A p \in Payments :
        SumTo([d \in Documents |-> Contribution(pays, alloc, p, d)], MaxDocuments) <= Funds(p)

\* Money rests on debts that exist and belong to the company that paid: neither
\* an allocation nor a legacy link ever points to a deleted debt or to a debt of
\* another company (DocumentFinancialOrSettlementHistory, ValidateAllocationsTx).
MoneyRestsOnOwnDebts ==
    \A p \in Payments, d \in Documents :
        alloc[p][d] > 0 \/ (ActivePayment(p) /\ pays[p].document = d)
        => LiveDocument(d) /\ docs[d].company = pays[p].company

\* FIFO imputation pays the oldest debts first and wastes nothing: a debt gets
\* money only if every open debt issued before it is covered in full, and money
\* is left only when nothing is owed (buildFIFOAllocations).
FifoPaysOldestFirst ==
    \A c \in Companies, amount \in Amounts, rank \in IssueOrders :
        LET lines == FifoLines(c, amount, rank)
            owed == [d \in Documents |-> IF d \in FifoCandidates(c) THEN OpenBalance(d) ELSE 0]
        IN  /\ \A d, e \in Documents :
                  lines[d] > 0 /\ rank[e] < rank[d] => lines[e] = owed[e]
            /\ LineSum(lines) = IF LineSum(owed) < amount THEN LineSum(owed) ELSE amount

\* Whoever changes the money on a debt leaves its balance and status right: in
\* the same commit they are those of its total and of all it has received, unless
\* the debt is written off (PersistBalanceAndStatus in every payment handler).
SyncedWhenMoneyMoves ==
    [][\A d \in Documents :
          LET paid == PaidTotal(pays', alloc', d)
          IN  paid # PaidTotal(pays, alloc, d) /\ ~ IsTerminalWriteoffStatus(docs'[d].status)
              => /\ docs'[d].balance = BalanceFromTotalPaid(docs'[d].total, paid)
                 /\ docs'[d].status = ComputeStatusFromPaid(paid, docs'[d].total, docs'[d].status)]_vars

\* A write-off is final: no edit, payment or voiding ever changes the status or
\* the balance of a cancelled or exonerated debt again.
WriteOffIsFinal ==
    [][\A d \in Documents :
          IsTerminalWriteoffStatus(docs[d].status)
          => docs'[d].status = docs[d].status /\ docs'[d].balance = docs[d].balance]_vars

\* No payment is allocated to a written-off debt; the start-up backfill only
\* turns a legacy link that was already there into an allocation row.
WrittenOffGetsNoAllocation ==
    [][\A p \in Payments, d \in Documents :
          alloc'[p][d] > alloc[p][d] /\ IsTerminalWriteoffStatus(docs[d].status)
          => pays[p].document = d]_vars

\* A discount is granted only to close debts: in the commit that applies a
\* payment with a discount every debt it touches ends with at most the drift
\* the dual read tolerates still open (EffectiveBalance, ApplyPaymentTx).
DiscountClosesItsDebts ==
    [][\A p \in Payments, d \in Documents :
          pays[p].life = "absent" /\ pays'[p].discount > 0 /\ alloc'[p][d] > 0
          => docs'[d].balance <= DriftCents]_vars

\* The ledger keeps the promise of the payment book.
Book == INSTANCE PaymentBook WITH
    MaxDebts <- MaxDocuments,
    MaxMovements <- MaxPayments,
    state <- [p \in Payments |->
                 [absent |-> "none", active |-> "open", voided |-> "void"][pays[p].life]],
    funds <- [p \in Payments |-> Funds(p)],
    placed <- [p \in Payments |-> [d \in Documents |-> Contribution(pays, alloc, p, d)]]

\* Every request is a step of the payment book or leaves it alone: money placed
\* on a debt stays there until its payment is voided, and voiding is final.
KeepsPaymentBook == Book!BookSpec

-----------------------------------------------------------------------------
(* What the documentation says and a monthly charge or an edit breaks. *)

\* "balance_amount ... mantenido exclusivamente por PersistBalanceAndStatus":
\* the stored balance of a collectable debt is the one its payments imply.
BalanceInSync ==
    \A d \in Documents :
        LiveDocument(d) /\ ~ IsTerminalWriteoffStatus(docs[d].status)
        => docs[d].balance = BalanceFromTotalPaid(docs[d].total, PaidTotal(pays, alloc, d))

\* "el monto excede el saldo del documento": tying a payment on account to a
\* debt never brings the debt more than it lacks.
EditRespectsBalance ==
    [][\A p \in Payments, d \in Documents :
          pays[p].life = "active" /\ pays[p].document = 0 /\ pays'[p].document = d
          => pays'[p].amount <= BalanceFromTotalPaid(docs[d].total, PaidTotal(pays, alloc, d))]_vars

=============================================================================
