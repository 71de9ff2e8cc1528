------------------------ MODULE SettlementLedger_proofs ------------------------
(***************************************************************************)
(* Proofs about the settlements over the ledger, for every number of       *)
(* settlements, debts and payments. Each step is the ledger's for debts    *)
(* and payments, or a few of them at once, and writes one settlement.      *)
(***************************************************************************)
EXTENDS SettlementLedger, DebtLedger_proofs

There == {Draft, Issued, Closed}

SettlementRow ==
    [status : There, company : Companies, period : Periods, kinds : Kinds]
    \cup [status : NoRow, company : {0}, period : {""}, kinds : {NoKinds}]

KeyTypes ==
    /\ link \in [Documents -> Settlements \cup {0}]
    /\ origin \in [Documents -> Settlements \cup {0}]
    /\ paidFor \in [Payments -> Settlements \cup {0}]

-----------------------------------------------------------------------------
(* The inductive invariant. Debts and payments that are not created yet     *)
(* carry no key: one that is created beside the settlements must not find   *)
(* itself under one of them.                                                *)

FreshRowsCarryNoKey ==
    /\ \A d \in Documents : docs[d].life = "absent" => link[d] = 0
    /\ \A p \in Payments : pays[p].life = "absent" => paidFor[p] = 0

SInv ==
    /\ IInv
    /\ settle \in [Settlements -> SettlementRow]
    /\ KeyTypes
    /\ FreshRowsCarryNoKey
    /\ OneSettlementPerPeriod
    /\ LinksFollowLines
    /\ ListedDebtsExist
    /\ MoneyOnlyOnIssued

LEMMA Statuses3 ==
    /\ Draft # Issued /\ Draft # Closed /\ Issued # Closed
    /\ There \cap NoRow = {} /\ {Draft, Issued, Closed} = There
BY DEF There, Draft, Issued, Closed, NoRow

LEMMA RowFacts ==
    ASSUME NEW row \in SettlementRow
    PROVE  /\ row.status \in There => row.company \in Companies /\ row.period \in Periods
           /\ row.status \in There \/ (row.status \in NoRow /\ row.kinds = NoKinds)
           /\ row.kinds \in Kinds
<1>1. NoKinds \in Kinds
  BY DEF NoKinds, Kinds, LineKinds
<1> QED
  BY <1>1, Statuses3 DEF SettlementRow

LEMMA SInvImplies == SInv => SettlementTypeOK
BY DEF SInv, IInv, KeyTypes, SettlementRow, There, SettlementTypeOK

LEMMA InitSInv == SettlementInit => SInv
<1> SUFFICES ASSUME SettlementInit PROVE SInv
  OBVIOUS
<1>1. IInv
  BY InitIInv DEF SettlementInit
<1>2. NoSettlement \in SettlementRow /\ NoSettlement.status = "absent" /\ NoSettlement.kinds = NoKinds
  BY DEF NoSettlement, SettlementRow, NoRow
<1>3. settle \in [Settlements -> SettlementRow] /\ KeyTypes /\ FreshRowsCarryNoKey
  BY <1>2 DEF SettlementInit, KeyTypes, FreshRowsCarryNoKey
<1>4. OneSettlementPerPeriod
  BY <1>2, Statuses3 DEF SettlementInit, OneSettlementPerPeriod, Existing, There, NoRow
<1>5. LinksFollowLines /\ MoneyOnlyOnIssued
  BY DEF SettlementInit, LinksFollowLines, MoneyOnlyOnIssued
<1>6. ListedDebtsExist
  BY <1>2 DEF SettlementInit, ListedDebtsExist, Listed, Named, NoKinds
<1> QED
  BY <1>1, <1>3, <1>4, <1>5, <1>6 DEF SInv

-----------------------------------------------------------------------------
(* What is left to show of a step. *)

\* What a step that leaves the settlement s with this row has to do, to its row, its lines, the
\* lines of the others, the links of the debts and the money made from settlements.
PeriodIsFree(s, row) ==
    \/ row.status \in NoRow
    \/ ~ DuplicatePeriod(row.company, row.period, s)
    \/ Existing(s) /\ row.company = settle[s].company /\ row.period = settle[s].period

LinesAreLive(row) == \A d \in Named(row.kinds) : docs'[d].life = "live"

OthersKeepTheirLines(s) ==
    \A d \in Documents : LiveDocument(d) => docs'[d].life = "live" \/ ~ ReferencedElsewhere(d, s)

LinksAreExplained(s, row) ==
    \A d \in Documents : docs'[d].life = "live" /\ link'[d] # 0 =>
        \/ /\ link'[d] = s /\ row.status \in There /\ d \in Named(row.kinds)
           /\ row.company = docs'[d].company
        \/ /\ link'[d] = link[d] /\ link[d] # s
           /\ LiveDocument(d) /\ docs'[d].company = docs[d].company

MoneyIsExplained(s, row) ==
    \A p \in Payments : pays'[p].life = "active" /\ paidFor'[p] # 0 =>
        \/ paidFor'[p] = s /\ row.status \in {Issued, Closed}
        \/ paidFor'[p] = paidFor[p] /\ paidFor[p] # s /\ ActivePayment(p)

\* A step that writes the settlement s.
LEMMA RowStep ==
    ASSUME SInv, NEW s \in Settlements, NEW row \in SettlementRow, settle' = [settle EXCEPT ![s] = row],
           IInv', KeyTypes', FreshRowsCarryNoKey', PeriodIsFree(s, row), LinesAreLive(row),
           OthersKeepTheirLines(s), LinksAreExplained(s, row), MoneyIsExplained(s, row)
    PROVE  SInv'
<1> USE DEF SInv, PeriodIsFree, LinesAreLive, OthersKeepTheirLines, LinksAreExplained, MoneyIsExplained
<1>1. settle' \in [Settlements -> SettlementRow]
  OBVIOUS
<1>2. \A u \in Settlements : settle'[u] = IF u = s THEN row ELSE settle[u]
  OBVIOUS
<1>3. OneSettlementPerPeriod'
  <2> SUFFICES ASSUME NEW u \in Settlements, NEW v \in Settlements, u # v,
                      settle'[u].status \in There, settle'[v].status \in There,
                      settle'[u].company = settle'[v].company, settle'[u].period = settle'[v].period
               PROVE  FALSE
    BY Statuses3 DEF OneSettlementPerPeriod, Existing
  <2>1. CASE u # s /\ v # s
    BY <1>2, <2>1, Statuses3 DEF OneSettlementPerPeriod, Existing
  <2>2. CASE row.status \in NoRow
    BY <1>2, <2>1, <2>2, Statuses3
  <2>3. CASE Existing(s) /\ row.company = settle[s].company /\ row.period = settle[s].period
    BY <1>2, <2>1, <2>3, Statuses3 DEF OneSettlementPerPeriod, Existing
  <2>4. CASE ~ DuplicatePeriod(row.company, row.period, s)
    BY <1>2, <2>1, <2>4, Statuses3 DEF DuplicatePeriod, Existing
  <2> QED
    BY <2>2, <2>3, <2>4
<1>4. LinksFollowLines'
  <2> SUFFICES ASSUME NEW d \in Documents, docs'[d].life = "live", link'[d] # 0
               PROVE  /\ settle'[link'[d]].status \in There
                      /\ d \in Named(settle'[link'[d]].kinds)
                      /\ settle'[link'[d]].company = docs'[d].company
    BY Statuses3 DEF LinksFollowLines, LiveDocument, Existing, Listed
  <2>1. CASE link'[d] = s /\ row.status \in There /\ d \in Named(row.kinds) /\ row.company = docs'[d].company
    BY <1>2, <2>1
  <2>2. CASE link'[d] = link[d] /\ link[d] # s /\ LiveDocument(d) /\ docs'[d].company = docs[d].company
    <3>1. link[d] \in Settlements
      BY <2>2 DEF KeyTypes
    <3>2. settle'[link'[d]] = settle[link[d]]
      BY <1>2, <2>2, <3>1
    <3> QED
      BY <2>2, <3>2, Statuses3 DEF LinksFollowLines, Existing, Listed
  <2> QED
    BY <2>1, <2>2
<1>5. ListedDebtsExist'
  <2> SUFFICES ASSUME NEW u \in Settlements, NEW d \in Named(settle'[u].kinds)
               PROVE  docs'[d].life = "live"
    BY DEF ListedDebtsExist, Listed, LiveDocument
  <2>1. CASE u = s
    BY <1>2, <2>1
  <2>2. CASE u # s
    <3>1. d \in Documents /\ d \in Listed(u)
      BY <1>2, <2>2 DEF Listed, Named
    <3>2. LiveDocument(d) /\ ReferencedElsewhere(d, s)
      BY <2>2, <3>1 DEF ListedDebtsExist, ReferencedElsewhere
    <3> QED
      BY <3>1, <3>2
  <2> QED
    BY <2>1, <2>2
<1>6. MoneyOnlyOnIssued'
  <2> SUFFICES ASSUME NEW p \in Payments, pays'[p].life = "active", paidFor'[p] # 0
               PROVE  settle'[paidFor'[p]].status \in {Issued, Closed}
    BY DEF MoneyOnlyOnIssued, ActivePayment
  <2>1. CASE paidFor'[p] = s /\ row.status \in {Issued, Closed}
    BY <1>2, <2>1
  <2>2. CASE paidFor'[p] = paidFor[p] /\ paidFor[p] # s /\ ActivePayment(p)
    <3>1. paidFor[p] \in Settlements
      BY <2>2 DEF KeyTypes
    <3> QED
      BY <1>2, <2>2, <3>1 DEF MoneyOnlyOnIssued
  <2> QED
    BY <2>1, <2>2
<1> QED
  BY <1>1, <1>3, <1>4, <1>5, <1>6

\* What a step that writes no settlement has to do.
ListedDebtsStay ==
    \A d \in Documents : LiveDocument(d) => docs'[d].life = "live" \/ \A u \in Settlements : d \notin Listed(u)

LinksAreOld ==
    \A d \in Documents : docs'[d].life = "live" /\ link'[d] # 0 =>
        link'[d] = link[d] /\ LiveDocument(d) /\ docs'[d].company = docs[d].company

MoneyIsOld ==
    \A p \in Payments : pays'[p].life = "active" /\ paidFor'[p] # 0 =>
        paidFor'[p] = paidFor[p] /\ ActivePayment(p)

LEMMA AsideStep ==
    ASSUME SInv, settle' = settle, IInv', KeyTypes', FreshRowsCarryNoKey',
           ListedDebtsStay, LinksAreOld, MoneyIsOld
    PROVE  SInv'
<1> USE DEF SInv, ListedDebtsStay, LinksAreOld, MoneyIsOld
<1>1. OneSettlementPerPeriod'
  BY DEF OneSettlementPerPeriod, Existing
<1>2. LinksFollowLines'
  BY Statuses3 DEF LinksFollowLines, LiveDocument, Existing, Listed
<1>3. ListedDebtsExist'
  <2> SUFFICES ASSUME NEW u \in Settlements, NEW d \in Listed(u)
               PROVE  docs'[d].life = "live"
    BY DEF ListedDebtsExist, Listed, LiveDocument
  <2>1. d \in Documents /\ LiveDocument(d)
    BY DEF ListedDebtsExist, Listed, Named
  <2> QED
    BY <2>1
<1>4. MoneyOnlyOnIssued'
  BY DEF MoneyOnlyOnIssued, ActivePayment
<1> QED
  BY <1>1, <1>2, <1>3, <1>4

-----------------------------------------------------------------------------
(* The ledger under a settlement: several debts or payments in one step.    *)

LEMMA IInvSame ==
    ASSUME IInv, UNCHANGED <<docs, pays, alloc>>
    PROVE  IInv'
BY DEF IInv, TypeOK, AllocationsWithinFunds, RowsOfActivePayments, AbsentIsPending,
       ExoneratedOwesNothing, MoneyRestsOnOwnDebts, Funds, ActivePayment, LiveDocument

\* Debts appear as charges, or disappear if no money rests on them.

LEMMA DebtsStep ==
    ASSUME IInv, docs' \in [Documents -> Document], UNCHANGED <<pays, alloc>>,
           \A d \in Documents :
               \/ docs'[d] = docs[d]
               \/ docs[d].life = "absent" /\ docs'[d].life = "live" /\ docs'[d].status = Pending
               \/ /\ docs'[d] = [docs[d] EXCEPT !.life = "deleted"]
                  /\ ~ HasPayments(d)
    PROVE  IInv'
<1> USE DEF IInv
<1>1. TypeOK'
  BY DEF TypeOK
<1>2. AllocationsWithinFunds' /\ RowsOfActivePayments'
  BY DEF AllocationsWithinFunds, RowsOfActivePayments, Funds, ActivePayment
<1>3. \A d \in Documents :
          /\ [docs[d] EXCEPT !.life = "deleted"].life = "deleted"
          /\ [docs[d] EXCEPT !.life = "deleted"].status = docs[d].status
          /\ [docs[d] EXCEPT !.life = "deleted"].balance = docs[d].balance
  BY DEF TypeOK, Document
<1>4. AbsentIsPending'
  BY <1>3 DEF AbsentIsPending
<1>5. ExoneratedOwesNothing'
  BY <1>3 DEF ExoneratedOwesNothing, Pending, Exonerado
<1>6. MoneyRestsOnOwnDebts'
  <2> SUFFICES ASSUME NEW p \in Payments, NEW d \in Documents,
                      alloc[p][d] > 0 \/ (ActivePayment(p) /\ pays[p].document = d)
               PROVE  docs'[d].life = "live" /\ docs'[d].company = pays[p].company
    BY DEF MoneyRestsOnOwnDebts, ActivePayment, LiveDocument
  <2>1. docs[d].life = "live" /\ docs[d].company = pays[p].company
    BY DEF MoneyRestsOnOwnDebts, LiveDocument
  <2>2. HasPayments(d)
    BY DEF HasPayments
  <2> QED
    BY <2>1, <2>2
<1> QED
  BY <1>1, <1>2, <1>4, <1>5, <1>6

\* Voiding several payments gives their money back and leaves the debts where they are.
LEMMA VoidAllStep ==
    ASSUME IInv, NEW voided \in SUBSET Payments, VoidAll(voided)
    PROVE  /\ IInv'
           /\ \A d \in Documents : docs'[d].life = docs[d].life /\ docs'[d].company = docs[d].company
           /\ \A p \in Payments :
                 IF p \in voided THEN pays'[p].life = "voided" ELSE pays'[p] = pays[p]
<1> USE DEF IInv
<1>1. \A p \in Payments : [pays[p] EXCEPT !.life = "voided"] \in Payment
                          /\ [pays[p] EXCEPT !.life = "voided"].life = "voided"
  BY DEF TypeOK, Payment
<1>2. NoLines \in [Documents -> Nat] /\ \A d \in Documents : NoLines[d] = 0
  BY DEF NoLines
<1>3. pays' \in PaymentTable /\ alloc' \in AllocationTable
  BY <1>1, <1>2 DEF VoidAll, TypeOK, PaymentTable, AllocationTable
<1>4. \A p \in Payments :
          /\ p \in voided => pays'[p].life = "voided" /\ alloc'[p] = NoLines
          /\ p \notin voided => pays'[p] = pays[p] /\ alloc'[p] = alloc[p]
  BY <1>1 DEF VoidAll
<1>5. /\ docs' \in [Documents -> Document]
      /\ \A d \in Documents : /\ docs'[d].life = docs[d].life
                              /\ docs'[d].company = docs[d].company
                              /\ d \notin Touched(voided) => docs'[d] = docs[d]
                              /\ IsTerminalWriteoffStatus(docs[d].status) => docs'[d] = docs[d]
                              /\ ~ IsTerminalWriteoffStatus(docs[d].status)
                                 => ~ IsTerminalWriteoffStatus(docs'[d].status)
  <2>1. docs \in [Documents -> Document] /\ docs' = Persisted(Touched(voided), pays', alloc')
    BY DEF TypeOK, VoidAll
  <2> QED
    BY <1>3, <2>1, PersistedFacts
<1>6. TypeOK'
  BY <1>3, <1>5 DEF TypeOK, PaymentTable, AllocationTable
<1>7. AllocationsWithinFunds'
  <2> SUFFICES ASSUME NEW p \in Payments PROVE LineSum(alloc'[p]) <= Funds(p)'
    BY DEF AllocationsWithinFunds
  <2>1. CASE p \in voided
    BY <1>4, <2>1, NoLinesSum DEF Funds, ActivePayment
  <2>2. CASE p \notin voided
    BY <1>4, <2>2 DEF AllocationsWithinFunds, Funds, ActivePayment
  <2> QED
    BY <2>1, <2>2
<1>8. RowsOfActivePayments'
  BY <1>2, <1>4 DEF RowsOfActivePayments, ActivePayment
<1>9. AbsentIsPending'
  <2> SUFFICES ASSUME NEW d \in Documents, docs'[d].life = "absent" PROVE docs'[d].status = Pending
    BY DEF AbsentIsPending
  <2>1. d \notin Touched(voided)
    BY <1>5 DEF VoidAll, LiveDocument
  <2> QED
    BY <1>5, <2>1 DEF AbsentIsPending
<1>10. ExoneratedOwesNothing'
  <2> SUFFICES ASSUME NEW d \in Documents, docs'[d].status = Exonerado PROVE docs'[d].balance = 0
    BY DEF ExoneratedOwesNothing
  <2>1. IsTerminalWriteoffStatus(docs'[d].status)
    BY DEF IsTerminalWriteoffStatus
  <2> QED
    BY <1>5, <2>1 DEF ExoneratedOwesNothing
<1>11. MoneyRestsOnOwnDebts'
  <2> SUFFICES ASSUME NEW p \in Payments, NEW d \in Documents,
                      alloc'[p][d] > 0 \/ (pays'[p].life = "active" /\ pays'[p].document = d)
               PROVE  docs'[d].life = "live" /\ docs'[d].company = pays'[p].company
    BY DEF MoneyRestsOnOwnDebts, ActivePayment, LiveDocument
  <2>1. p \notin voided
    BY <1>2, <1>4
  <2>2. docs[d].life = "live" /\ docs[d].company = pays[p].company /\ pays'[p] = pays[p]
    BY <1>4, <2>1 DEF MoneyRestsOnOwnDebts, LiveDocument, ActivePayment
  <2> QED
    BY <1>5, <2>2
<1> QED
  BY <1>4, <1>5, <1>6, <1>7, <1>8, <1>9, <1>10, <1>11

\* A payment applied, as DebtLedger does it: only its row is new, the debts stay where they are.
LEMMA ApplyFacts ==
    ASSUME IInv, NEW c, NEW amount \in Amounts, NEW discount \in Discounts,
           NEW purpose \in Purposes, NEW lines \in Lines, ApplyPayment(c, amount, discount, purpose, lines),
           c \in Companies
    PROVE  /\ IInv'
           /\ \A d \in Documents : docs'[d].life = docs[d].life /\ docs'[d].company = docs[d].company
           /\ \A d \in LineDocuments(lines) : LiveDocument(d) /\ docs[d].company = c
           /\ \A p \in Payments : IF NextPayment(p) THEN pays'[p].life = "active" ELSE pays'[p] = pays[p]
<1>1. lines \in [Documents -> Nat] /\ discount \in Nat
  <2>1. Amounts \subseteq Nat \ {0} /\ Discounts \subseteq Nat
    BY LedgerAssumption
  <2>2. \A a \in Amounts \cup {0} : a \in Nat
    BY <2>1
  <2>3. discount \in Nat
    BY <2>1
  <2> QED
    BY <2>2, <2>3 DEF Lines
<1>2. IInv'
  BY <1>1, ApplyPaymentIInv
<1>3. PICK p \in Payments :
          /\ NextPayment(p) /\ ValidAllocations(c, lines)
          /\ pays' = [pays EXCEPT ![p] = NewPayment("applied", c, amount, discount, purpose)]
          /\ alloc' = [alloc EXCEPT ![p] = lines]
          /\ docs' = Persisted(LineDocuments(lines), pays', alloc')
  BY DEF ApplyPayment
<1>4. \A d \in Documents : docs'[d].life = docs[d].life /\ docs'[d].company = docs[d].company
  <2>1. docs \in [Documents -> Document] /\ pays' \in PaymentTable /\ alloc' \in AllocationTable
    BY <1>2 DEF IInv, TypeOK, PaymentTable, AllocationTable
  <2> QED
    BY <1>3, <2>1, PersistedFacts
<1>5. \A d \in LineDocuments(lines) : LiveDocument(d) /\ docs[d].company = c
  BY <1>3 DEF ValidAllocations
<1>6. ASSUME NEW q \in Payments
      PROVE  IF NextPayment(q) THEN pays'[q].life = "active" ELSE pays'[q] = pays[q]
  <2>1. NextPayment(q) => q = p
    BY <1>3, BoundsNat DEF NextPayment, Payments
  <2>2. NewPayment("applied", c, amount, discount, purpose).life = "active"
    BY DEF NewPayment, NoPayment
  <2> QED
    BY <1>3, <2>1, <2>2 DEF IInv, TypeOK
<1> QED
  BY <1>2, <1>4, <1>5, <1>6

-----------------------------------------------------------------------------
(* Drafts. *)

\* The money made from a settlement rests on one that is issued or closed.
LEMMA NoMoneyYet ==
    ASSUME SInv, NEW s \in Settlements, settle[s].status \notin {Issued, Closed}, NEW p \in Payments,
           ActivePayment(p), paidFor[p] # 0
    PROVE  paidFor[p] # s
BY DEF SInv, MoneyOnlyOnIssued

\* What becomes of the debts and of their links when a draft is written with its lines: the
\* charges appear, the lines are linked, and what is gone was nobody else's.
ChargesAppear(c, new, total, gone) ==
    docs' = [d \in Documents |-> IF d \in new THEN Charge(c, total[d])
                                 ELSE IF d \in gone THEN [docs[d] EXCEPT !.life = "deleted"]
                                 ELSE docs[d]]

GoneWasItsOwn(s, kept, gone) ==
    \A d \in gone : LiveDocument(d) /\ d \notin kept /\ ~ ReferencedElsewhere(d, s) /\ ~ HasPayments(d)

KeptAreLinked(s, kept, gone) ==
    \A d \in Documents :
        /\ d \in kept => link'[d] = s
        /\ d \notin kept /\ d \notin gone =>
              link'[d] = 0 \/ (link'[d] = link[d] /\ (LiveDocument(d) => link[d] # s))

LEMMA BillStep ==
    ASSUME SInv, NEW s \in Settlements, NEW c \in Companies, NEW period \in Periods, NEW kinds \in Kinds,
           NEW new \in SUBSET Documents, NEW total \in [Documents -> Totals], NEW gone \in SUBSET Documents,
           settle[s].status \notin {Issued, Closed},
           ~ DuplicatePeriod(c, period, s), CanBill(s, c, kinds, new),
           Bill(s, c, period, kinds, new, total), UNCHANGED <<pays, alloc, paidFor>>,
           GoneWasItsOwn(s, Named(kinds) \cup new, gone), ChargesAppear(c, new, total, gone),
           KeyTypes', KeptAreLinked(s, Named(kinds) \cup new, gone)
    PROVE  SInv'
<1> USE DEF SInv, ChargesAppear, GoneWasItsOwn, KeptAreLinked
<1>1. PICK row \in SettlementRow :
          /\ row.status = Draft /\ row.company = c /\ row.period = period
          /\ row.kinds = [d \in Documents |-> IF d \in new THEN "charge" ELSE kinds[d]]
          /\ settle' = [settle EXCEPT ![s] = row]
  <2> DEFINE lines == [d \in Documents |-> IF d \in new THEN "charge" ELSE kinds[d]]
             row == [status |-> Draft, company |-> c, period |-> period, kinds |-> lines]
  <2>1. lines \in Kinds
    BY DEF Kinds, LineKinds
  <2> HIDE DEF lines
  <2>2. row \in SettlementRow
    BY <2>1 DEF SettlementRow, There
  <2>3. settle' = [settle EXCEPT ![s] = row]
    BY DEF Bill, lines
  <2> QED
    BY <2>2, <2>3 DEF lines
<1>2. Named(row.kinds) = Named(kinds) \cup new
  BY <1>1 DEF Named
<1>3. ASSUME NEW d \in Documents
      PROVE  /\ d \in Named(kinds) => LiveDocument(d) /\ docs[d].company = c
             /\ d \in new => docs[d].life = "absent"
  BY <1>3 DEF CanBill, CanLink, NextDocuments
<1>4. \A d \in Documents :
          /\ Charge(c, total[d]) \in Document /\ Charge(c, total[d]).life = "live"
          /\ Charge(c, total[d]).company = c /\ Charge(c, total[d]).status = Pending
  BY LedgerAssumption DEF Charge, Document, Statuses
<1>5. \A d \in Documents :
          /\ [docs[d] EXCEPT !.life = "deleted"] \in Document
          /\ [docs[d] EXCEPT !.life = "deleted"].life = "deleted"
  BY DEF IInv, TypeOK, Document
<1>6. ASSUME NEW d \in Documents
      PROVE  /\ d \in new => docs'[d] = Charge(c, total[d])
             /\ d \notin new /\ d \in gone => docs'[d] = [docs[d] EXCEPT !.life = "deleted"]
             /\ d \notin new /\ d \notin gone => docs'[d] = docs[d]
  BY <1>6
<1>7. IInv'
  <2>1. docs' \in [Documents -> Document]
    BY <1>4, <1>5 DEF IInv, TypeOK
  <2>2. ASSUME NEW d \in Documents
        PROVE  \/ docs'[d] = docs[d]
               \/ docs[d].life = "absent" /\ docs'[d].life = "live" /\ docs'[d].status = Pending
               \/ docs'[d] = [docs[d] EXCEPT !.life = "deleted"] /\ ~ HasPayments(d)
    BY <1>3, <1>4, <1>6
  <2> QED
    BY <2>1, <2>2, DebtsStep
<1>8. FreshRowsCarryNoKey'
  <2> SUFFICES ASSUME NEW d \in Documents, docs'[d].life = "absent" PROVE link'[d] = 0
    BY DEF FreshRowsCarryNoKey
  <2>1. d \notin new /\ d \notin gone
    BY <1>4, <1>5, <1>6
  <2>2. docs[d].life = "absent" /\ link[d] = 0
    BY <1>6, <2>1 DEF FreshRowsCarryNoKey
  <2>3. d \notin Named(kinds)
    BY <1>3, <2>2 DEF LiveDocument
  <2> QED
    BY <2>1, <2>2, <2>3
<1>9. LinesAreLive(row)
  <2> USE DEF LinesAreLive
  <2> TAKE d \in Named(row.kinds)
  <2>1. d \in Documents /\ d \in Named(kinds) \cup new
    BY <1>2 DEF Named
  <2> QED
    BY <1>3, <1>4, <1>6, <2>1 DEF LiveDocument
<1>10. OthersKeepTheirLines(s)
  BY <1>4, <1>6 DEF LiveDocument, OthersKeepTheirLines
<1>11. ASSUME NEW d \in Documents, docs'[d].life = "live", link'[d] # 0
       PROVE  \/ /\ link'[d] = s /\ row.status \in There /\ d \in Named(row.kinds)
                 /\ row.company = docs'[d].company
              \/ /\ link'[d] = link[d] /\ link[d] # s
                 /\ LiveDocument(d) /\ docs'[d].company = docs[d].company
  <2>1. CASE d \in Named(kinds) \cup new
    <3>1. docs'[d].company = c
      BY <1>3, <1>4, <1>6, <2>1
    <3> QED
      BY <1>1, <1>2, <2>1, <3>1 DEF There
  <2>2. CASE d \notin Named(kinds) \cup new
    <3>1. d \notin gone /\ docs'[d] = docs[d]
      BY <1>5, <1>6, <1>11, <2>2
    <3> QED
      BY <1>11, <2>2, <3>1 DEF LiveDocument
  <2> QED
    BY <2>1, <2>2
<1>12. MoneyIsExplained(s, row)
  BY NoMoneyYet DEF ActivePayment, MoneyIsExplained
<1>13. LinksAreExplained(s, row)
  BY <1>11 DEF LinksAreExplained
<1>14. PeriodIsFree(s, row)
  BY <1>1 DEF PeriodIsFree
<1>15. KeyTypes' /\ SInv
  OBVIOUS
<1> HIDE DEF SInv, ChargesAppear, GoneWasItsOwn, KeptAreLinked
<1> QED
  BY <1>1, <1>7, <1>8, <1>9, <1>10, <1>12, <1>13, <1>14, <1>15, RowStep

LEMMA CreateDraftStep ==
    ASSUME SInv, NEW c \in Companies, NEW period \in Periods, NEW kinds \in Kinds,
           NEW new \in SUBSET Documents, NEW total \in [Documents -> Totals],
           CreateDraft(c, period, kinds, new, total)
    PROVE  SInv'
<1>1. PICK s \in Settlements :
          /\ NextSettlement(s) /\ ~ DuplicatePeriod(c, period, s) /\ CanBill(s, c, kinds, new)
          /\ Bill(s, c, period, kinds, new, total)
          /\ docs' = [d \in Documents |-> IF d \in new THEN Charge(c, total[d]) ELSE docs[d]]
          /\ link' = Linked(s, Named(kinds) \cup new)
          /\ UNCHANGED <<pays, alloc, paidFor>>
  BY DEF CreateDraft
<1>2. settle[s].status \notin There
  BY <1>1, Statuses3 DEF NextSettlement, NoRow
<1>3. \A d \in Documents : LiveDocument(d) => link[d] # s
  BY <1>2, Statuses3 DEF SInv, LinksFollowLines, Existing, Settlements
<1>4. KeyTypes'
  BY <1>1 DEF SInv, KeyTypes, Linked, Bill
<1>5. KeptAreLinked(s, Named(kinds) \cup new, {})
  BY <1>1, <1>3 DEF Linked, KeptAreLinked
<1>6. ChargesAppear(c, new, total, {})
  BY <1>1 DEF ChargesAppear
<1>7. settle[s].status \notin {Issued, Closed}
  BY <1>2, Statuses3
<1>8. GoneWasItsOwn(s, Named(kinds) \cup new, {})
  BY DEF GoneWasItsOwn
<1> QED
  BY <1>1, <1>4, <1>5, <1>6, <1>7, <1>8, BillStep

LEMMA UpdateDraftStep ==
    ASSUME SInv, NEW s \in Settlements, NEW period \in Periods, NEW kinds \in Kinds,
           NEW new \in SUBSET Documents, NEW total \in [Documents -> Totals],
           UpdateDraft(s, period, kinds, new, total)
    PROVE  SInv'
<1> DEFINE c == settle[s].company
           kept == Named(kinds) \cup new
           gone == Removed(s, Dropped(s, kept))
<1>1. c \in Companies /\ settle[s].status = Draft
  BY RowFacts DEF UpdateDraft, SInv, There
<1>2. gone \in SUBSET Documents
  BY DEF Removed, Dropped
<1>3. GoneWasItsOwn(s, kept, gone)
  BY DEF UpdateDraft, Removed, Dropped, Untouchable, GoneWasItsOwn
<1>4. KeyTypes'
  <2>1. link' = Unlinked(s, Dropped(s, kept) \ gone, Linked(s, kept))
    BY DEF UpdateDraft
  <2> QED
    BY <2>1 DEF SInv, KeyTypes, UpdateDraft, Bill, Unlinked, Linked
<1>5. ASSUME NEW d \in Documents
      PROVE  /\ d \in kept => link'[d] = s
             /\ d \notin kept /\ d \notin gone =>
                   link'[d] = 0 \/ (link'[d] = link[d] /\ (LiveDocument(d) => link[d] # s))
  <2>1. link'[d] = IF d \in Dropped(s, kept) \ gone /\ Linked(s, kept)[d] = s THEN 0
                   ELSE IF d \in kept THEN s ELSE link[d]
    BY DEF UpdateDraft, Unlinked, Linked
  <2>2. d \in Dropped(s, kept) <=> d \notin kept /\ LiveDocument(d) /\ link[d] = s
    BY DEF Dropped
  <2>3. d \notin kept => Linked(s, kept)[d] = link[d]
    BY DEF Linked
  <2> QED
    BY <2>1, <2>2, <2>3
<1>6. KeptAreLinked(s, kept, gone)
  BY <1>5 DEF KeptAreLinked
<1>7. settle[s].status \notin {Issued, Closed}
  BY <1>1, Statuses3
<1>8. /\ ~ DuplicatePeriod(c, period, s) /\ CanBill(s, c, kinds, new)
      /\ Bill(s, c, period, kinds, new, total) /\ UNCHANGED <<pays, alloc, paidFor>>
      /\ ChargesAppear(c, new, total, gone)
  BY DEF UpdateDraft, ChargesAppear
<1> HIDE DEF gone, c
<1> QED
  BY <1>1, <1>2, <1>3, <1>4, <1>6, <1>7, <1>8, BillStep

\* A settlement whose links and money are its own can go on: its lines may become more.
DebtsStay == \A d \in Documents : docs'[d].life = docs[d].life /\ docs'[d].company = docs[d].company

PaymentsStay ==
    /\ paidFor' = paidFor
    /\ \A p \in Payments : /\ pays'[p].life = "active" => ActivePayment(p)
                           /\ pays'[p].life = "absent" => pays[p].life = "absent"

LinksGrow(s, more) ==
    \A d \in Documents : \/ link'[d] \in {0, link[d]}
                         \/ link'[d] = s /\ d \in Listed(s) \cup more /\ docs[d].company = settle[s].company

LEMMA MoneyStays ==
    ASSUME SInv, NEW s \in Settlements, NEW row, PaymentsStay,
           row.status \in {Issued, Closed} \/ settle[s].status \notin {Issued, Closed}
    PROVE  MoneyIsExplained(s, row)
BY NoMoneyYet DEF MoneyIsExplained, PaymentsStay

LEMMA FreshPaymentsStay ==
    ASSUME SInv, PaymentsStay
    PROVE  \A p \in Payments : pays'[p].life = "absent" => paidFor'[p] = 0
BY DEF SInv, FreshRowsCarryNoKey, PaymentsStay

LEMMA GrowStep ==
    ASSUME SInv, NEW s \in Settlements, NEW row \in SettlementRow, settle' = [settle EXCEPT ![s] = row],
           NEW more \in SUBSET Documents,
           Existing(s), row.status \in There, row.company = settle[s].company,
           Named(row.kinds) = Listed(s) \cup more,
           \A d \in more : LiveDocument(d) /\ docs[d].company = settle[s].company,
           IInv', KeyTypes', PeriodIsFree(s, row), MoneyIsExplained(s, row), DebtsStay, LinksGrow(s, more),
           \A p \in Payments : pays'[p].life = "absent" => paidFor'[p] = 0
    PROVE  SInv'
<1>1. \A d \in Listed(s) \cup more : d \in Documents /\ LiveDocument(d)
  BY DEF SInv, ListedDebtsExist, Listed, Named
<1>2. LinesAreLive(row)
  BY <1>1 DEF LinesAreLive, DebtsStay, LiveDocument
<1>3. OthersKeepTheirLines(s)
  BY DEF OthersKeepTheirLines, DebtsStay, LiveDocument
<1>4. LinksAreExplained(s, row)
  <2> SUFFICES ASSUME NEW d \in Documents, docs'[d].life = "live", link'[d] # 0
               PROVE  \/ /\ link'[d] = s /\ row.status \in There /\ d \in Named(row.kinds)
                         /\ row.company = docs'[d].company
                      \/ /\ link'[d] = link[d] /\ link[d] # s
                         /\ LiveDocument(d) /\ docs'[d].company = docs[d].company
    BY DEF LinksAreExplained
  <2>1. LiveDocument(d) /\ docs'[d].company = docs[d].company
    BY DEF DebtsStay, LiveDocument
  <2>2. CASE link'[d] = s /\ d \in Listed(s) \cup more /\ docs[d].company = settle[s].company
    BY <2>1, <2>2
  <2>3. CASE link'[d] = link[d] /\ link[d] = s
    <3>1. d \in Listed(s) /\ settle[s].company = docs[d].company
      BY <2>1, <2>3 DEF SInv, LinksFollowLines
    <3> QED
      BY <2>1, <2>3, <3>1
  <2>4. CASE link'[d] = link[d] /\ link[d] # s
    BY <2>1, <2>4
  <2> QED
    BY <2>2, <2>3, <2>4 DEF LinksGrow
<1>5. FreshRowsCarryNoKey'
  <2> SUFFICES ASSUME NEW d \in Documents, docs'[d].life = "absent" PROVE link'[d] = 0
    BY DEF FreshRowsCarryNoKey
  <2>1. docs[d].life = "absent" /\ link[d] = 0
    BY DEF SInv, FreshRowsCarryNoKey, DebtsStay
  <2>2. d \notin Listed(s) \cup more
    BY <1>1, <2>1 DEF LiveDocument
  <2> QED
    BY <2>1, <2>2 DEF LinksGrow
<1> QED
  BY <1>2, <1>3, <1>4, <1>5, RowStep

LEMMA ThereIsExisting ==
    ASSUME NEW s \in Settlements
    PROVE  /\ Existing(s) <=> settle[s].status \in There
           /\ Draft \in There /\ Issued \in There /\ Closed \in There
BY DEF Existing, There

\* A row with another status or period is a row.
LEMMA RowEdits ==
    ASSUME NEW row \in SettlementRow, row.status \in There
    PROVE  /\ \A st \in There : LET new == [row EXCEPT !.status = st]
                                IN  /\ new \in SettlementRow /\ new.status = st /\ new.kinds = row.kinds
                                    /\ new.company = row.company /\ new.period = row.period
           /\ \A period \in Periods : LET new == [row EXCEPT !.period = period]
                                      IN  /\ new \in SettlementRow /\ new.status = row.status
                                          /\ new.kinds = row.kinds /\ new.company = row.company
                                          /\ new.period = period
           /\ \A kinds \in Kinds : LET new == [row EXCEPT !.kinds = kinds]
                                   IN  /\ new \in SettlementRow /\ new.status = row.status
                                       /\ new.kinds = kinds /\ new.company = row.company
                                       /\ new.period = row.period
<1>1. row \in [status : There, company : Companies, period : Periods, kinds : Kinds]
  BY Statuses3 DEF SettlementRow
<1> QED
  BY <1>1 DEF SettlementRow

LEMMA InitialDraftStep ==
    ASSUME SInv, NEW c \in Companies, NEW period \in Periods, CreateSupervisorInitialDraft(c, period)
    PROVE  SInv'
<1>1. PICK s \in Settlements :
          /\ NextSettlement(s) /\ ~ DuplicatePeriod(c, period, s)
          /\ settle' = [settle EXCEPT ![s] = [NoSettlement EXCEPT !.status = Draft, !.company = c,
                                                                  !.period = period]]
          /\ UNCHANGED <<docs, pays, alloc, link, origin, paidFor>>
  BY DEF CreateSupervisorInitialDraft
<1> DEFINE row == [NoSettlement EXCEPT !.status = Draft, !.company = c, !.period = period]
<1>2. NoKinds \in Kinds /\ Named(NoKinds) = {}
  BY DEF NoKinds, Kinds, LineKinds, Named
<1>3. /\ row \in SettlementRow /\ row.status = Draft /\ row.company = c /\ row.period = period
      /\ Named(row.kinds) = {}
  BY <1>2 DEF NoSettlement, SettlementRow, There
<1>4. settle[s].status \notin There
  BY <1>1, Statuses3 DEF NextSettlement, NoRow
<1>5. \A d \in Documents : LiveDocument(d) => link[d] # s
  BY <1>4, Statuses3 DEF SInv, LinksFollowLines, Existing, Settlements
<1>6. IInv' /\ KeyTypes' /\ FreshRowsCarryNoKey'
  BY <1>1, IInvSame DEF SInv, KeyTypes, FreshRowsCarryNoKey
<1>7. PeriodIsFree(s, row) /\ LinesAreLive(row)
  BY <1>1, <1>3 DEF PeriodIsFree, LinesAreLive
<1>8. OthersKeepTheirLines(s) /\ LinksAreExplained(s, row)
  BY <1>1, <1>5 DEF OthersKeepTheirLines, LinksAreExplained, LiveDocument
<1>9. MoneyIsExplained(s, row)
  <2>1. PaymentsStay /\ settle[s].status \notin {Issued, Closed}
    BY <1>1, <1>4, Statuses3 DEF PaymentsStay, ActivePayment
  <2> QED
    BY <2>1, MoneyStays
<1>10. settle' = [settle EXCEPT ![s] = row]
  BY <1>1
<1> HIDE DEF row
<1> QED
  BY <1>3, <1>6, <1>7, <1>8, <1>9, <1>10, RowStep

\* A settlement that is not duplicated and keeps its lines, whatever its status was and becomes.
LEMMA KeepLinesStep ==
    ASSUME SInv, NEW s \in Settlements, NEW row \in SettlementRow, settle' = [settle EXCEPT ![s] = row],
           settle[s].status \in There, row.status \in There, row.company = settle[s].company,
           row.kinds = settle[s].kinds, IInv', KeyTypes', DebtsStay, LinksGrow(s, {}),
           PeriodIsFree(s, row), MoneyIsExplained(s, row), PaymentsStay
    PROVE  SInv'
<1>1. Existing(s) /\ Named(row.kinds) = Listed(s) \cup {}
  BY ThereIsExisting DEF Listed
<1>2. \A p \in Payments : pays'[p].life = "absent" => paidFor'[p] = 0
  BY FreshPaymentsStay
<1> QED
  BY <1>1, <1>2, GrowStep

LEMMA LedgerSame ==
    ASSUME SInv, UNCHANGED <<docs, pays, alloc, paidFor>>
    PROVE  IInv' /\ DebtsStay /\ PaymentsStay
BY IInvSame DEF SInv, DebtsStay, PaymentsStay, ActivePayment

LEMMA UpdateSupervisorDraftStep ==
    ASSUME SInv, NEW s \in Settlements, NEW period \in Periods, UpdateSupervisorDraft(s, period)
    PROVE  SInv'
<1> DEFINE row == [settle[s] EXCEPT !.period = period]
<1>1. /\ settle[s].status = Draft /\ ~ DuplicatePeriod(settle[s].company, period, s)
      /\ UNCHANGED <<docs, pays, alloc, link, origin, paidFor>>
  BY DEF UpdateSupervisorDraft
<1>2. settle[s] \in SettlementRow /\ settle[s].status \in There
  BY <1>1, ThereIsExisting DEF SInv
<1>3. /\ row \in SettlementRow /\ row.status = Draft /\ row.company = settle[s].company
      /\ row.kinds = settle[s].kinds /\ row.period = period
  BY <1>1, <1>2, RowEdits
<1>4. settle' = [settle EXCEPT ![s] = row]
  BY <1>2 DEF UpdateSupervisorDraft, SInv
<1>5. IInv' /\ DebtsStay /\ PaymentsStay
  BY <1>1, LedgerSame
<1>6. KeyTypes' /\ LinksGrow(s, {})
  BY <1>1 DEF SInv, KeyTypes, LinksGrow
<1> HIDE DEF row
<1>7. PeriodIsFree(s, row) /\ MoneyIsExplained(s, row)
  BY <1>1, <1>3, <1>5, MoneyStays, Statuses3 DEF PeriodIsFree
<1> QED
  BY <1>1, <1>2, <1>3, <1>4, <1>5, <1>6, <1>7, KeepLinesStep

\* Linking again the lines of a settlement.
LEMMA RelinkGrows ==
    ASSUME SInv, NEW s \in Settlements, Relink(s)
    PROVE  /\ KeyTypes' /\ LinksGrow(s, {})
           /\ IInv' /\ DebtsStay /\ PaymentsStay
<1>1. KeyTypes'
  BY DEF Relink, SInv, KeyTypes, Linked
<1>2. LinksGrow(s, {})
  BY DEF Relink, Linked, LinksGrow, CanLink
<1> QED
  BY <1>1, <1>2, LedgerSame DEF Relink

LEMMA EmitStep ==
    ASSUME SInv, NEW s \in Settlements, Emit(s)
    PROVE  SInv'
<1> DEFINE row == [settle[s] EXCEPT !.status = Issued]
<1>1. /\ settle[s].status = Draft /\ ~ DuplicatePeriod(settle[s].company, settle[s].period, s)
      /\ Relink(s)
  BY DEF Emit
<1>2. settle[s] \in SettlementRow /\ settle[s].status \in There /\ Issued \in There
  BY <1>1, ThereIsExisting DEF SInv
<1>3. /\ row \in SettlementRow /\ row.status = Issued /\ row.company = settle[s].company
      /\ row.kinds = settle[s].kinds /\ row.period = settle[s].period
  BY <1>2, RowEdits
<1>4. settle' = [settle EXCEPT ![s] = row]
  BY DEF Emit
<1> HIDE DEF row
<1>5. PeriodIsFree(s, row)
  BY <1>1, <1>3 DEF PeriodIsFree
<1>6. MoneyIsExplained(s, row)
  BY <1>1, <1>3, MoneyStays, RelinkGrows
<1> QED
  BY <1>1, <1>2, <1>3, <1>4, <1>5, <1>6, RelinkGrows, KeepLinesStep

LEMMA LinkDebtStep ==
    ASSUME SInv, NEW s \in Settlements, NEW d \in Documents, LinkDebtToDraft(s, d)
    PROVE  SInv'
<1> DEFINE kinds == [settle[s].kinds EXCEPT ![d] = IF @ = "charge" THEN @ ELSE "ref"]
           row == [settle[s] EXCEPT !.kinds = kinds]
<1>1. /\ settle[s].status = Draft /\ CanLink(d, s, settle[s].company)
      /\ link' = Linked(s, {d}) /\ UNCHANGED <<docs, pays, alloc, origin, paidFor>>
  BY DEF LinkDebtToDraft
<1>2. settle[s] \in SettlementRow /\ settle[s].status \in There /\ settle[s].kinds \in Kinds
  BY <1>1, ThereIsExisting, RowFacts DEF SInv
<1>3. kinds \in Kinds /\ Named(kinds) = Listed(s) \cup {d}
  BY <1>2 DEF Kinds, LineKinds, Named, Listed
<1>4. settle' = [settle EXCEPT ![s] = row]
  <2>1. settle' = [settle EXCEPT ![s].kinds[d] = IF @ = "charge" THEN @ ELSE "ref"]
    BY DEF LinkDebtToDraft
  <2> QED
    BY <2>1
<1> HIDE DEF kinds
<1>5. /\ row \in SettlementRow /\ row.status = Draft /\ row.company = settle[s].company
      /\ row.kinds = kinds /\ row.period = settle[s].period
  BY <1>1, <1>2, <1>3, RowEdits
<1>6. IInv' /\ DebtsStay /\ PaymentsStay
  BY <1>1, LedgerSame
<1>7. KeyTypes' /\ LinksGrow(s, {d})
  BY <1>1 DEF SInv, KeyTypes, LinksGrow, Linked, CanLink
<1>8. \A e \in {d} : LiveDocument(e) /\ docs[e].company = settle[s].company
  BY <1>1 DEF CanLink
<1>9. Existing(s) /\ row.status \in There
  BY <1>2, <1>5, ThereIsExisting
<1> HIDE DEF row
<1>10. PeriodIsFree(s, row) /\ MoneyIsExplained(s, row)
  BY <1>1, <1>5, <1>6, <1>9, MoneyStays, Statuses3 DEF PeriodIsFree
<1>11. Named(row.kinds) = Listed(s) \cup {d} /\ {d} \in SUBSET Documents
  BY <1>3, <1>5
<1> QED
  BY <1>4, <1>5, <1>6, <1>7, <1>8, <1>9, <1>10, <1>11, FreshPaymentsStay, GrowStep

\* A settlement and its lines are gone: nothing is linked to it and no money is in its name.
DebtsOnlyGo ==
    \A d \in Documents : /\ docs'[d].life = "absent" => docs[d].life = "absent"
                         /\ docs'[d].life = "live" => LiveDocument(d) /\ docs'[d].company = docs[d].company

LinksGo(s) ==
    \A d \in Documents : /\ link'[d] \in {0, link[d]}
                         /\ docs'[d].life = "live" /\ link[d] = s => link'[d] = 0

MoneyGoes(s) == \A p \in Payments : pays'[p].life = "active" => ActivePayment(p) /\ paidFor[p] # s

LEMMA EraseStep ==
    ASSUME SInv, NEW s \in Settlements, settle' = [settle EXCEPT ![s] = Erased(s)], IInv', KeyTypes',
           OthersKeepTheirLines(s), DebtsOnlyGo, LinksGo(s), PaymentsStay, MoneyGoes(s)
    PROVE  SInv'
<1>1. /\ Erased(s) \in SettlementRow /\ Erased(s).status \in NoRow
      /\ Named(Erased(s).kinds) = {}
  BY DEF Erased, NoSettlement, SettlementRow, NoRow, NoKinds, Named
<1>2. PeriodIsFree(s, Erased(s)) /\ LinesAreLive(Erased(s))
  BY <1>1 DEF PeriodIsFree, LinesAreLive
<1>3. LinksAreExplained(s, Erased(s))
  <2>1. 0 \notin Settlements
    BY DEF Settlements
  <2> QED
    BY <2>1 DEF LinksAreExplained, LinksGo, DebtsOnlyGo
<1>4. MoneyIsExplained(s, Erased(s))
  BY DEF MoneyIsExplained, MoneyGoes, PaymentsStay
<1>5. FreshRowsCarryNoKey'
  <2>1. \A p \in Payments : pays'[p].life = "absent" => paidFor'[p] = 0
    BY FreshPaymentsStay
  <2>2. \A d \in Documents : docs'[d].life = "absent" => link'[d] = 0
    BY DEF DebtsOnlyGo, LinksGo, SInv, FreshRowsCarryNoKey
  <2> QED
    BY <2>1, <2>2 DEF FreshRowsCarryNoKey
<1> QED
  BY <1>1, <1>2, <1>3, <1>4, <1>5, RowStep

LEMMA DeleteDraftStep ==
    ASSUME SInv, NEW s \in Settlements, DeleteDraft(s)
    PROVE  SInv'
<1> DEFINE charges == {d \in Listed(s) : settle[s].kinds[d] = "charge"}
           gone == Removed(s, charges)
<1>1. /\ settle[s].status = Draft
      /\ \A d \in charges : LiveDocument(d) /\ origin[d] = s => ~ Untouchable(d)
      /\ docs' = [d \in Documents |-> IF d \in gone THEN [docs[d] EXCEPT !.life = "deleted"] ELSE docs[d]]
      /\ link' = Unlinked(s, Listed(s) \ gone, link)
      /\ settle' = [settle EXCEPT ![s] = Erased(s)]
      /\ UNCHANGED <<pays, alloc, origin, paidFor>>
  BY DEF DeleteDraft
<1>2. \A d \in gone : LiveDocument(d) /\ ~ ReferencedElsewhere(d, s) /\ ~ HasPayments(d)
  BY <1>1 DEF Removed, Untouchable
<1> HIDE DEF gone
<1>3. \A d \in Documents :
          /\ [docs[d] EXCEPT !.life = "deleted"] \in Document
          /\ [docs[d] EXCEPT !.life = "deleted"].life = "deleted"
  BY DEF SInv, IInv, TypeOK, Document
<1>4. \A d \in Documents : docs'[d] = IF d \in gone THEN [docs[d] EXCEPT !.life = "deleted"] ELSE docs[d]
  BY <1>1
<1>5. IInv'
  <2>1. docs' \in [Documents -> Document]
    BY <1>1, <1>3 DEF SInv, IInv, TypeOK
  <2>2. ASSUME NEW d \in Documents
        PROVE  \/ docs'[d] = docs[d]
               \/ docs[d].life = "absent" /\ docs'[d].life = "live" /\ docs'[d].status = Pending
               \/ docs'[d] = [docs[d] EXCEPT !.life = "deleted"] /\ ~ HasPayments(d)
    BY <1>2, <1>4
  <2> QED
    BY <1>1, <2>1, <2>2, DebtsStep DEF SInv
<1>6. KeyTypes'
  BY <1>1 DEF SInv, KeyTypes, Unlinked
<1>7. OthersKeepTheirLines(s)
  BY <1>2, <1>4 DEF OthersKeepTheirLines, LiveDocument
<1>8. DebtsOnlyGo
  BY <1>3, <1>4 DEF DebtsOnlyGo, LiveDocument
<1>9. LinksGo(s)
  <2> SUFFICES ASSUME NEW d \in Documents
               PROVE  /\ link'[d] \in {0, link[d]}
                      /\ docs'[d].life = "live" /\ link[d] = s => link'[d] = 0
    BY DEF LinksGo
  <2>1. link'[d] = IF d \in Listed(s) \ gone /\ link[d] = s THEN 0 ELSE link[d]
    BY <1>1 DEF Unlinked
  <2>2. docs'[d].life = "live" /\ link[d] = s => d \in Listed(s) /\ d \notin gone
    <3>1. 0 # s
      BY DEF Settlements
    <3>2. docs'[d].life = "live" => d \notin gone /\ LiveDocument(d)
      BY <1>3, <1>4 DEF LiveDocument
    <3> QED
      BY <3>1, <3>2 DEF SInv, LinksFollowLines
  <2> QED
    BY <2>1, <2>2
<1>10. PaymentsStay
  BY <1>1 DEF PaymentsStay, ActivePayment
<1>11. MoneyGoes(s)
  <2> SUFFICES ASSUME NEW p \in Payments, pays'[p].life = "active"
               PROVE  ActivePayment(p) /\ paidFor[p] # s
    BY DEF MoneyGoes
  <2>1. ActivePayment(p)
    BY <1>1 DEF ActivePayment
  <2>2. 0 # s /\ settle[s].status \notin {Issued, Closed}
    BY <1>1, Statuses3 DEF Settlements
  <2> QED
    BY <2>1, <2>2, NoMoneyYet
<1> QED
  BY <1>1, <1>5, <1>6, <1>7, <1>8, <1>9, <1>10, <1>11, EraseStep

-----------------------------------------------------------------------------
(* Issued settlements. *)

LEMMA PaymentSuggestionsStep ==
    ASSUME SInv, NEW s \in Settlements, PaymentSuggestions(s)
    PROVE  SInv'
<1>1. settle[s].status = Issued /\ Relink(s) /\ settle' = settle
  BY DEF PaymentSuggestions
<1>2. settle[s] \in SettlementRow /\ settle[s].status \in There
  BY <1>1, ThereIsExisting DEF SInv
<1>3. settle' = [settle EXCEPT ![s] = settle[s]]
  BY <1>1 DEF SInv
<1>4. PeriodIsFree(s, settle[s])
  BY <1>2, ThereIsExisting DEF PeriodIsFree
<1>5. MoneyIsExplained(s, settle[s])
  BY <1>1, MoneyStays, RelinkGrows
<1> QED
  BY <1>1, <1>2, <1>3, <1>4, <1>5, RelinkGrows, KeepLinesStep

LEMMA CloseStep ==
    ASSUME SInv, NEW s \in Settlements, Close(s)
    PROVE  SInv'
<1> DEFINE row == [settle[s] EXCEPT !.status = Closed]
           free == {d \in Listed(s) : LiveDocument(d) /\ OpenBalance(d) > 0 /\ docs[d].status # Paid}
<1>1. /\ settle[s].status = Issued /\ link' = Unlinked(s, free, link)
      /\ UNCHANGED <<docs, pays, alloc, origin, paidFor>>
  BY DEF Close
<1> HIDE DEF free
<1>2. settle[s] \in SettlementRow /\ settle[s].status \in There /\ Closed \in There
  BY <1>1, ThereIsExisting DEF SInv
<1>3. /\ row \in SettlementRow /\ row.status = Closed /\ row.company = settle[s].company
      /\ row.kinds = settle[s].kinds /\ row.period = settle[s].period
  BY <1>2, RowEdits
<1>4. settle' = [settle EXCEPT ![s] = row]
  BY DEF Close
<1> HIDE DEF row
<1>5. IInv' /\ DebtsStay /\ PaymentsStay
  BY <1>1, LedgerSame
<1>6. KeyTypes' /\ LinksGrow(s, {})
  BY <1>1 DEF SInv, KeyTypes, LinksGrow, Unlinked
<1>7. PeriodIsFree(s, row) /\ MoneyIsExplained(s, row)
  BY <1>2, <1>3, <1>5, MoneyStays, ThereIsExisting DEF PeriodIsFree
<1> QED
  BY <1>2, <1>3, <1>4, <1>5, <1>6, <1>7, KeepLinesStep

\* What voiding the payments made from a settlement leaves behind.
LEMMA VoidAllFacts ==
    ASSUME SInv, NEW s \in Settlements, VoidAll(PaymentsOf(s)), paidFor' = paidFor
    PROVE  /\ IInv' /\ DebtsStay /\ PaymentsStay /\ MoneyGoes(s)
           /\ \A d \in Documents : LinksAfterVoiding(PaymentsOf(s))[d] \in {0, link[d]}
<1>1. PaymentsOf(s) \in SUBSET Payments
  BY DEF PaymentsOf
<1>2. /\ IInv'
      /\ \A d \in Documents : docs'[d].life = docs[d].life /\ docs'[d].company = docs[d].company
      /\ \A p \in Payments :
            IF p \in PaymentsOf(s) THEN pays'[p].life = "voided" ELSE pays'[p] = pays[p]
  BY <1>1, VoidAllStep DEF SInv
<1>3. DebtsStay /\ PaymentsStay
  BY <1>2 DEF DebtsStay, PaymentsStay, ActivePayment
<1>4. MoneyGoes(s)
  BY <1>2 DEF MoneyGoes, PaymentsOf, ActivePayment
<1>5. \A d \in Documents : LinksAfterVoiding(PaymentsOf(s))[d] \in {0, link[d]}
  BY DEF LinksAfterVoiding
<1> QED
  BY <1>2, <1>3, <1>4, <1>5

LEMMA RevertToDraftStep ==
    ASSUME SInv, NEW s \in Settlements, RevertToDraft(s)
    PROVE  SInv'
<1> DEFINE row == [settle[s] EXCEPT !.status = Draft]
<1>1. /\ settle[s].status = Issued /\ VoidAll(PaymentsOf(s))
      /\ link' = LinksAfterVoiding(PaymentsOf(s)) /\ UNCHANGED <<origin, paidFor>>
  BY DEF RevertToDraft
<1>2. settle[s] \in SettlementRow /\ settle[s].status \in There /\ Draft \in There
  BY <1>1, ThereIsExisting DEF SInv
<1>3. /\ row \in SettlementRow /\ row.status = Draft /\ row.company = settle[s].company
      /\ row.kinds = settle[s].kinds /\ row.period = settle[s].period
  BY <1>2, RowEdits
<1>4. settle' = [settle EXCEPT ![s] = row]
  BY DEF RevertToDraft
<1> HIDE DEF row
<1>5. IInv' /\ DebtsStay /\ PaymentsStay /\ MoneyGoes(s)
  BY <1>1, VoidAllFacts
<1>6. \A d \in Documents : link'[d] \in {0, link[d]}
  BY <1>1, VoidAllFacts
<1>7. KeyTypes' /\ LinksGrow(s, {})
  <2>1. link' = [d \in Documents |-> link'[d]]
    BY <1>1 DEF LinksAfterVoiding
  <2> QED
    BY <1>1, <1>6, <2>1 DEF SInv, KeyTypes, LinksGrow
<1>8. PeriodIsFree(s, row) /\ MoneyIsExplained(s, row)
  BY <1>1, <1>2, <1>3, <1>5, ThereIsExisting DEF PeriodIsFree, MoneyIsExplained, MoneyGoes
<1> QED
  BY <1>2, <1>3, <1>4, <1>5, <1>7, <1>8, KeepLinesStep

LEMMA DeleteIssuedStep ==
    ASSUME SInv, NEW s \in Settlements, DeleteIssued(s)
    PROVE  SInv'
<1>1. /\ settle[s].status = Issued /\ VoidAll(PaymentsOf(s))
      /\ link' = Unlinked(s, Listed(s), LinksAfterVoiding(PaymentsOf(s)))
      /\ settle' = [settle EXCEPT ![s] = Erased(s)] /\ UNCHANGED <<origin, paidFor>>
  BY DEF DeleteIssued
<1>2. IInv' /\ DebtsStay /\ PaymentsStay /\ MoneyGoes(s)
  BY <1>1, VoidAllFacts
<1>3. \A d \in Documents :
          /\ link'[d] \in {0, link[d]}
          /\ d \in Listed(s) /\ link[d] = s => link'[d] = 0
  <2>1. \A d \in Documents : LinksAfterVoiding(PaymentsOf(s))[d] \in {0, link[d]}
    BY <1>1, VoidAllFacts
  <2> QED
    BY <1>1, <2>1 DEF Unlinked
<1>4. KeyTypes'
  <2>1. link' = [d \in Documents |-> link'[d]]
    BY <1>1 DEF Unlinked
  <2> QED
    BY <1>1, <1>3, <2>1 DEF SInv, KeyTypes
<1>5. OthersKeepTheirLines(s) /\ DebtsOnlyGo
  BY <1>2 DEF OthersKeepTheirLines, DebtsOnlyGo, DebtsStay, LiveDocument
<1>6. LinksGo(s)
  <2>1. 0 # s
    BY DEF Settlements
  <2> QED
    BY <1>2, <1>3, <2>1 DEF LinksGo, DebtsStay, SInv, LinksFollowLines, LiveDocument
<1> QED
  BY <1>1, <1>2, <1>4, <1>5, <1>6, EraseStep

LEMMA PayFromSettlementStep ==
    ASSUME SInv, NEW s \in Settlements, NEW c \in Companies, NEW amount \in Amounts,
           NEW discount \in Discounts, NEW purpose \in Purposes, NEW lines \in Lines,
           PayFromSettlement(s, c, amount, discount, purpose, lines)
    PROVE  SInv'
<1> DEFINE more == LineDocuments(lines)
           kinds == [d \in Documents |-> IF d \in more /\ settle[s].kinds[d] = "none"
                                         THEN "ref" ELSE settle[s].kinds[d]]
           row == [settle[s] EXCEPT !.kinds = kinds]
<1>1. /\ settle[s].status = Issued /\ settle[s].company = c
      /\ ApplyPayment(c, amount, discount, purpose, lines)
      /\ paidFor' = [p \in Payments |-> IF NextPayment(p) THEN s ELSE paidFor[p]]
      /\ link' = Linked(s, more) /\ origin' = origin
  BY DEF PayFromSettlement, Payable
<1>2. settle[s] \in SettlementRow /\ settle[s].status \in There /\ settle[s].kinds \in Kinds
  BY <1>1, ThereIsExisting, RowFacts DEF SInv
<1>3. kinds \in Kinds /\ Named(kinds) = Listed(s) \cup more /\ more \in SUBSET Documents
  BY <1>2 DEF Kinds, LineKinds, Named, Listed, LineDocuments
<1>4. settle' = [settle EXCEPT ![s] = row]
  BY DEF PayFromSettlement
<1> HIDE DEF kinds
<1>5. /\ row \in SettlementRow /\ row.status = Issued /\ row.company = c
      /\ row.kinds = kinds /\ row.period = settle[s].period
  BY <1>1, <1>2, <1>3, RowEdits
<1> HIDE DEF row
<1>6. /\ IInv'
      /\ \A d \in Documents : docs'[d].life = docs[d].life /\ docs'[d].company = docs[d].company
      /\ \A d \in more : LiveDocument(d) /\ docs[d].company = c
      /\ \A p \in Payments : IF NextPayment(p) THEN pays'[p].life = "active" ELSE pays'[p] = pays[p]
  BY <1>1, ApplyFacts DEF SInv
<1> HIDE DEF more
<1>7. KeyTypes' /\ LinksGrow(s, more)
  BY <1>1, <1>6 DEF SInv, KeyTypes, LinksGrow, Linked
<1>8. \A p \in Payments : pays'[p].life = "absent" => paidFor'[p] = 0
  BY <1>1, <1>6 DEF SInv, FreshRowsCarryNoKey
<1>9. MoneyIsExplained(s, row)
  BY <1>1, <1>5, <1>6 DEF MoneyIsExplained, ActivePayment
<1>10. Existing(s) /\ row.status \in There /\ PeriodIsFree(s, row)
  BY <1>1, <1>2, <1>5, ThereIsExisting DEF PeriodIsFree
<1>11. DebtsStay
  BY <1>6 DEF DebtsStay
<1> QED
  BY <1>1, <1>3, <1>4, <1>5, <1>6, <1>7, <1>8, <1>9, <1>10, <1>11, GrowStep

-----------------------------------------------------------------------------
(* Debts and payments beside the settlements.                              *)

\* Only new rows, and debts that are on no line, change where they are.
AsideLedger ==
    /\ \A d \in Documents :
          \/ docs'[d].life = docs[d].life /\ docs'[d].company = docs[d].company
          \/ docs[d].life = "absent" /\ docs'[d].life = "live"
          \/ docs'[d].life = "deleted" /\ \A u \in Settlements : d \notin Listed(u)
    /\ \A p \in Payments : pays'[p].life = pays[p].life \/ pays[p].life = "absent"
                           \/ pays'[p].life = "voided"

LEMMA AsideLedgerStep ==
    ASSUME SInv, UNCHANGED <<settle, origin, paidFor>>, IInv', AsideLedger,
           link' = [d \in Documents |-> link'[d]],
           \A d \in Documents : link'[d] \in {0, link[d]}
    PROVE  SInv'
<1>1. KeyTypes'
  BY DEF SInv, KeyTypes
<1>2. FreshRowsCarryNoKey'
  <2>1. \A d \in Documents : docs'[d].life = "absent" => docs[d].life = "absent"
    BY DEF AsideLedger
  <2>2. \A p \in Payments : pays'[p].life = "absent" => pays[p].life = "absent"
    BY DEF AsideLedger
  <2> QED
    BY <2>1, <2>2 DEF SInv, FreshRowsCarryNoKey
<1>3. ListedDebtsStay
  BY DEF ListedDebtsStay, AsideLedger, LiveDocument
<1>4. LinksAreOld
  <2> SUFFICES ASSUME NEW d \in Documents, docs'[d].life = "live", link'[d] # 0
               PROVE  link'[d] = link[d] /\ LiveDocument(d) /\ docs'[d].company = docs[d].company
    BY DEF LinksAreOld
  <2>1. link'[d] = link[d] /\ docs[d].life # "absent"
    BY DEF SInv, FreshRowsCarryNoKey
  <2> QED
    BY <2>1 DEF AsideLedger, LiveDocument
<1>5. MoneyIsOld
  BY DEF MoneyIsOld, AsideLedger, SInv, FreshRowsCarryNoKey, ActivePayment
<1> QED
  BY <1>1, <1>2, <1>3, <1>4, <1>5, AsideStep

LEMMA AsideKeepsLinks ==
    ASSUME SInv, Aside
    PROVE  /\ UNCHANGED <<settle, origin, paidFor>>
           /\ link' = [d \in Documents |-> link'[d]]
           /\ \A d \in Documents : link'[d] \in {0, link[d]}
BY DEF Aside, SInv, KeyTypes

LEMMA CreateDocumentAside ==
    ASSUME SInv, NEW c \in Companies, NEW total \in Totals, CreateDocument(c, total, Pending), Aside
    PROVE  SInv'
<1>1. IInv'
  <2>1. Pending \in Statuses \ {Exonerado}
    BY DEF Statuses, Pending, Exonerado, Paid, Partial, Cancelled
  <2> QED
    BY <2>1, CreateDocumentIInv DEF SInv
<1>2. AsideLedger
  <2>1. PICK d \in Documents : /\ docs[d].life = "absent" /\ docs'[d].life = "live"
                               /\ \A e \in Documents \ {d} : docs'[e] = docs[e]
                               /\ pays' = pays
    BY DEF CreateDocument, NextDocument, SInv, IInv, TypeOK
  <2> QED
    BY <2>1 DEF AsideLedger
<1> QED
  BY <1>1, <1>2, AsideKeepsLinks, AsideLedgerStep

LEMMA DeleteUnbilledStep ==
    ASSUME SInv, NEW d \in Documents, DeleteUnbilled(d)
    PROVE  SInv'
<1>1. Unbilled(d) /\ DeleteDocument(d) /\ Aside
  BY DEF DeleteUnbilled
<1>2. IInv'
  BY <1>1, DeleteDocumentIInv DEF SInv
<1>3. AsideLedger
  <2>1. /\ docs'[d].life = "deleted" /\ pays' = pays
        /\ \A e \in Documents \ {d} : docs'[e] = docs[e]
    BY <1>1 DEF DeleteDocument, SInv, IInv, TypeOK, Document
  <2> QED
    BY <1>1, <2>1 DEF AsideLedger, Unbilled
<1> QED
  BY <1>1, <1>2, <1>3, AsideKeepsLinks, AsideLedgerStep

LEMMA WriteOffUnlinkedStep ==
    ASSUME SInv, NEW d \in Documents, WriteOffUnlinked(d, Exonerado)
    PROVE  SInv'
<1>1. WriteOffUnlinkedDebt(d, Exonerado) /\ Aside
  BY DEF WriteOffUnlinked
<1>2. IInv'
  BY <1>1, WriteOffIInv DEF SInv
<1>3. AsideLedger
  BY <1>1 DEF WriteOffUnlinkedDebt, AsideLedger, SInv, IInv, TypeOK, Document
<1> QED
  BY <1>1, <1>2, <1>3, AsideKeepsLinks, AsideLedgerStep

LEMMA ApplyAsideStep ==
    ASSUME SInv, NEW c \in Companies, NEW amount \in Amounts, NEW discount \in Discounts,
           NEW purpose \in Purposes, NEW lines \in Lines,
           ApplyPayment(c, amount, discount, purpose, lines), Aside
    PROVE  SInv'
<1>1. /\ IInv'
      /\ \A d \in Documents : docs'[d].life = docs[d].life /\ docs'[d].company = docs[d].company
      /\ \A p \in Payments : IF NextPayment(p) THEN pays'[p].life = "active" ELSE pays'[p] = pays[p]
  BY ApplyFacts DEF SInv
<1>2. AsideLedger
  BY <1>1 DEF AsideLedger, NextPayment
<1> QED
  BY <1>1, <1>2, AsideKeepsLinks, AsideLedgerStep

LEMMA VoidOneStep ==
    ASSUME SInv, NEW p \in Payments, VoidOne(p)
    PROVE  SInv'
<1>1. /\ VoidPayment(p) /\ link' = LinksAfterVoiding({p})
      /\ UNCHANGED <<settle, origin, paidFor>>
  BY DEF VoidOne
<1>2. IInv'
  BY <1>1, VoidPaymentIInv DEF SInv
<1>3. /\ link' = [d \in Documents |-> link'[d]]
      /\ \A d \in Documents : link'[d] \in {0, link[d]}
  BY <1>1 DEF LinksAfterVoiding
<1>4. AsideLedger
  <2>1. /\ docs \in [Documents -> Document] /\ pays' \in PaymentTable /\ alloc' \in AllocationTable
        /\ docs' = Persisted(TouchedBy(p), pays', alloc')
    BY <1>1, <1>2 DEF SInv, IInv, TypeOK, PaymentTable, AllocationTable, VoidPayment
  <2>2. \A d \in Documents : docs'[d].life = docs[d].life /\ docs'[d].company = docs[d].company
    BY <2>1, PersistedFacts
  <2>3. \A q \in Payments : pays'[q].life = pays[q].life \/ pays'[q].life = "voided"
    BY <1>1 DEF VoidPayment, SInv, IInv, TypeOK, Payment
  <2> QED
    BY <2>2, <2>3 DEF AsideLedger
<1> QED
  BY <1>1, <1>2, <1>3, <1>4, AsideLedgerStep

-----------------------------------------------------------------------------
(* Every step.                                                             *)

LEMMA SameSInv ==
    ASSUME SInv, UNCHANGED settlementVars
    PROVE  SInv'
<1>1. UNCHANGED <<docs, pays, alloc, settle, link, origin, paidFor>>
  BY DEF settlementVars
<1>2. IInv'
  BY <1>1, IInvSame DEF SInv
<1> QED
  BY <1>1, <1>2 DEF SInv, KeyTypes, FreshRowsCarryNoKey, OneSettlementPerPeriod, LinksFollowLines,
     ListedDebtsExist, MoneyOnlyOnIssued, Existing, Listed, Named, LiveDocument, ActivePayment

LEMMA DraftNextSInv ==
    ASSUME SInv, DraftNext
    PROVE  SInv'
BY InitialDraftStep, CreateDraftStep, UpdateSupervisorDraftStep, UpdateDraftStep, LinkDebtStep,
   EmitStep, DeleteDraftStep DEF DraftNext

LEMMA IssuedNextSInv ==
    ASSUME SInv, IssuedNext
    PROVE  SInv'
BY PaymentSuggestionsStep, RevertToDraftStep, DeleteIssuedStep, CloseStep, PayFromSettlementStep
   DEF IssuedNext

LEMMA AsideNextSInv ==
    ASSUME SInv, AsideNext
    PROVE  SInv'
BY CreateDocumentAside, DeleteUnbilledStep, WriteOffUnlinkedStep, ApplyAsideStep, VoidOneStep
   DEF AsideNext

LEMMA NextSInv == SInv /\ [SettlementNext]_settlementVars => SInv'
BY SameSInv, DraftNextSInv, IssuedNextSInv, AsideNextSInv DEF SettlementNext

LEMMA SettlementInductive == SettlementSpec => []SInv
BY InitSInv, NextSInv, PTL DEF SettlementSpec

\* Every settlement, link, origin and key of a payment keeps its type, and nothing is left of a
\* settlement that is not there, for every bound.
THEOREM SettlementTypes == SettlementSpec => []SettlementTypeOK
BY SInvImplies, SettlementInductive, PTL

\* A company is billed once for a period, however its settlements are drafted, moved, issued,
\* reverted, closed and deleted (duplicateLiquidationPeriod in every handler).
THEOREM BilledOncePerPeriod == SettlementSpec => []OneSettlementPerPeriod
<1>1. SInv => OneSettlementPerPeriod
  BY DEF SInv
<1> QED
  BY <1>1, SettlementInductive, PTL

\* A debt under a settlement is on one of its lines, and the settlement exists and is of the
\* company that owes: no handler leaves a foreign key behind.
THEOREM KeysHaveLines == SettlementSpec => []LinksFollowLines
<1>1. SInv => LinksFollowLines
  BY DEF SInv
<1> QED
  BY <1>1, SettlementInductive, PTL

\* No settlement lists a debt that is gone: whatever deletes debts spares those of others.
THEOREM LinesHaveDebts == SettlementSpec => []ListedDebtsExist
<1>1. SInv => ListedDebtsExist
  BY DEF SInv
<1> QED
  BY <1>1, SettlementInductive, PTL

\* Money made from a settlement rests on one that is issued or closed: reverting or deleting it
\* voids every payment made from it.
THEOREM MoneyHasItsSettlement == SettlementSpec => []MoneyOnlyOnIssued
<1>1. SInv => MoneyOnlyOnIssued
  BY DEF SInv
<1> QED
  BY <1>1, SettlementInductive, PTL

\* Under settlements too, money rests on debts that exist and are of the company that paid:
\* the debts a settlement deletes have none.
THEOREM SettledOwnDebts == SettlementSpec => []MoneyRestsOnOwnDebts
<1>1. SInv => MoneyRestsOnOwnDebts
  BY DEF SInv, IInv
<1> QED
  BY <1>1, SettlementInductive, PTL

-----------------------------------------------------------------------------
(* What a step may not do.                                                 *)

\* Every step writes at most one settlement, and never a closed one.
LEMMA OneRowIsWritten ==
    ASSUME SInv, SettlementNext
    PROVE  \/ settle' = settle
           \/ \E s \in Settlements : /\ settle[s].status # Closed
                                     /\ \A u \in Settlements \ {s} : settle'[u] = settle[u]
<1> USE DEF SInv
<1>1. CASE DraftNext
  <2>1. ASSUME NEW c, NEW period, CreateSupervisorInitialDraft(c, period)
        PROVE  \E s \in Settlements : /\ settle[s].status # Closed
                                      /\ \A u \in Settlements \ {s} : settle'[u] = settle[u]
    BY <2>1 DEF CreateSupervisorInitialDraft, NextSettlement, Closed
  <2>2. ASSUME NEW c, NEW period, NEW kinds, NEW new, NEW total, CreateDraft(c, period, kinds, new, total)
        PROVE  \E s \in Settlements : /\ settle[s].status # Closed
                                      /\ \A u \in Settlements \ {s} : settle'[u] = settle[u]
    BY <2>2 DEF CreateDraft, Bill, NextSettlement, Closed
  <2>3. ASSUME NEW s \in Settlements, NEW period, UpdateSupervisorDraft(s, period)
        PROVE  /\ settle[s].status # Closed
               /\ \A u \in Settlements \ {s} : settle'[u] = settle[u]
    BY <2>3 DEF UpdateSupervisorDraft, Draft, Closed
  <2>4. ASSUME NEW s \in Settlements, NEW period, NEW kinds, NEW new, NEW total,
               UpdateDraft(s, period, kinds, new, total)
        PROVE  /\ settle[s].status # Closed
               /\ \A u \in Settlements \ {s} : settle'[u] = settle[u]
    BY <2>4 DEF UpdateDraft, Bill, Draft, Closed
  <2>5. ASSUME NEW s \in Settlements, NEW d, LinkDebtToDraft(s, d)
        PROVE  /\ settle[s].status # Closed
               /\ \A u \in Settlements \ {s} : settle'[u] = settle[u]
    BY <2>5 DEF LinkDebtToDraft, Draft, Closed
  <2>6. ASSUME NEW s \in Settlements, Emit(s) \/ DeleteDraft(s)
        PROVE  /\ settle[s].status # Closed
               /\ \A u \in Settlements \ {s} : settle'[u] = settle[u]
    BY <2>6 DEF Emit, DeleteDraft, Draft, Closed
  <2> QED
    BY <1>1, <2>1, <2>2, <2>3, <2>4, <2>5, <2>6 DEF DraftNext
<1>2. CASE IssuedNext
  <2>1. ASSUME NEW s \in Settlements, RevertToDraft(s) \/ DeleteIssued(s) \/ Close(s)
        PROVE  /\ settle[s].status # Closed
               /\ \A u \in Settlements \ {s} : settle'[u] = settle[u]
    BY <2>1 DEF RevertToDraft, DeleteIssued, Close, Issued, Closed
  <2>2. ASSUME NEW s \in Settlements, PaymentSuggestions(s) PROVE settle' = settle
    BY <2>2 DEF PaymentSuggestions
  <2>3. ASSUME NEW s \in Settlements, NEW c, NEW amount, NEW discount, NEW purpose, NEW lines,
               PayFromSettlement(s, c, amount, discount, purpose, lines)
        PROVE  /\ settle[s].status # Closed
               /\ \A u \in Settlements \ {s} : settle'[u] = settle[u]
    BY <2>3 DEF PayFromSettlement, Payable, Issued, Closed
  <2> QED
    BY <1>2, <2>1, <2>2, <2>3 DEF IssuedNext
<1>3. CASE AsideNext
  BY <1>3 DEF AsideNext, Aside, DeleteUnbilled, WriteOffUnlinked, VoidOne
<1> QED
  BY <1>1, <1>2, <1>3 DEF SettlementNext

\* A closed settlement is history: no later step, on its debts or payments or on other
\* settlements, changes it.
THEOREM ClosedForGood == SettlementSpec => ClosedIsFrozen
<1>1. SInv /\ [SettlementNext]_settlementVars
      => [\A s \in Settlements : settle[s].status = Closed => settle'[s] = settle[s]]_settlementVars
  <2> SUFFICES ASSUME SInv, SettlementNext, NEW s \in Settlements, settle[s].status = Closed
               PROVE  settle'[s] = settle[s]
    OBVIOUS
  <2> QED
    BY OneRowIsWritten
<1> QED
  BY <1>1, SettlementInductive, PTL DEF SettlementSpec, ClosedIsFrozen

\* Voiding several payments recomputes every debt they paid.
LEMMA VoidAllPersists ==
    ASSUME IInv, NEW voided \in SUBSET Payments, VoidAll(voided)
    PROVE  Touched(voided) \in SUBSET Documents /\ Persists(Touched(voided))
<1>1. \A p \in Payments : pays[p] \in Payment /\ alloc[p] \in [Documents -> Nat]
  BY DEF IInv, TypeOK
<1>2. Touched(voided) \in SUBSET Documents
  <2>1. \A p \in Payments : TouchedBy(p) \subseteq Documents
    BY <1>1 DEF TouchedBy, LineDocuments, Payment
  <2> QED
    BY <2>1 DEF Touched
<1>3. ASSUME NEW d \in Documents \ Touched(voided), NEW q \in Payments
      PROVE  Contribution(pays', alloc', q, d) = Contribution(pays, alloc, q, d)
  <2>1. CASE q \notin voided
    <3>1. pays'[q] = pays[q] /\ alloc'[q] = alloc[q]
      BY <2>1 DEF VoidAll
    <3> QED
      BY <3>1 DEF Contribution, HasAllocations
  <2>2. CASE q \in voided
    <3>1. pays'[q].life # "active"
      BY <1>1, <2>2 DEF VoidAll, Payment
    <3>2. d \notin TouchedBy(q)
      BY <1>3, <2>2 DEF Touched
    <3>3. d # 0 /\ ~ (alloc[q][d] > 0) /\ d # pays[q].document
      BY <1>3, <3>2 DEF TouchedBy, LineDocuments, Documents
    <3>4. alloc[q][d] = 0
      BY <1>1, <3>3
    <3> QED
      BY <3>1, <3>3, <3>4 DEF Contribution
  <2> QED
    BY <2>1, <2>2
<1> QED
  BY <1>2, <1>3 DEF VoidAll, Persists

\* Under settlements too, a step that changes the money on a debt leaves its balance and status
\* right: reverting or deleting one recomputes every debt its payments paid.
THEOREM SettledSynced == SettlementSpec => SyncedWhenMoneyMoves
<1>1. ASSUME IInv, IInv', NEW s \in Settlements, VoidAll(PaymentsOf(s))
      PROVE  MovedMoneyIsSynced
  <2>1. PaymentsOf(s) \in SUBSET Payments
    BY DEF PaymentsOf
  <2> QED
    BY <1>1, <2>1, VoidAllPersists, PersistsSynced
<1>2. ASSUME UNCHANGED <<pays, alloc>> PROVE MovedMoneyIsSynced
  BY <1>2, UnmovedSynced
<1>3. ASSUME IInv, IInv', NEW c \in Companies, NEW amount \in Amounts, NEW discount \in Discounts,
             NEW purpose \in Purposes, NEW lines \in Lines,
             ApplyPayment(c, amount, discount, purpose, lines)
      PROVE  MovedMoneyIsSynced
  BY <1>3, NextSynced DEF Next, PaymentNext
<1>4. ASSUME IInv, IInv', NEW p \in Payments, VoidPayment(p) PROVE MovedMoneyIsSynced
  BY <1>4, NextSynced DEF Next, PaymentNext
<1>5. ASSUME IInv, IInv', SettlementNext PROVE MovedMoneyIsSynced
  <2>1. CASE DraftNext
    <3>1. UNCHANGED <<pays, alloc>>
      <4>1. ASSUME NEW c \in Companies, NEW period \in Periods,
                   CreateSupervisorInitialDraft(c, period)
            PROVE  UNCHANGED <<pays, alloc>>
        BY <4>1 DEF CreateSupervisorInitialDraft
      <4>2. ASSUME NEW c \in Companies, NEW period \in Periods, NEW kinds \in Kinds,
                   NEW new \in SUBSET Documents, NEW total \in [Documents -> Totals],
                   CreateDraft(c, period, kinds, new, total)
            PROVE  UNCHANGED <<pays, alloc>>
        BY <4>2 DEF CreateDraft
      <4>3. ASSUME NEW s \in Settlements, NEW period \in Periods, UpdateSupervisorDraft(s, period)
            PROVE  UNCHANGED <<pays, alloc>>
        BY <4>3 DEF UpdateSupervisorDraft
      <4>4. ASSUME NEW s \in Settlements, NEW period \in Periods, NEW kinds \in Kinds,
                   NEW new \in SUBSET Documents, NEW total \in [Documents -> Totals],
                   UpdateDraft(s, period, kinds, new, total)
            PROVE  UNCHANGED <<pays, alloc>>
        BY <4>4 DEF UpdateDraft
      <4>5. ASSUME NEW s \in Settlements, NEW d \in Documents, LinkDebtToDraft(s, d)
            PROVE  UNCHANGED <<pays, alloc>>
        BY <4>5 DEF LinkDebtToDraft
      <4>6. ASSUME NEW s \in Settlements, Emit(s) \/ DeleteDraft(s)
            PROVE  UNCHANGED <<pays, alloc>>
        BY <4>6 DEF Emit, Relink, DeleteDraft
      <4> QED
        BY <2>1, <4>1, <4>2, <4>3, <4>4, <4>5, <4>6 DEF DraftNext
    <3> QED
      BY <1>2, <3>1
  <2>2. CASE IssuedNext
    BY <1>1, <1>2, <1>3, <1>5, <2>2 DEF IssuedNext, PaymentSuggestions, Relink, RevertToDraft,
       DeleteIssued, Close, PayFromSettlement
  <2>3. CASE AsideNext
    BY <1>2, <1>3, <1>4, <1>5, <2>3 DEF AsideNext, CreateDocument, DeleteUnbilled, DeleteDocument,
       WriteOffUnlinked, WriteOffUnlinkedDebt, VoidOne
  <2> QED
    BY <1>5, <2>1, <2>2, <2>3 DEF SettlementNext
<1>6. SInv /\ SInv' /\ [SettlementNext]_settlementVars => [MovedMoneyIsSynced]_vars
  BY <1>5 DEF SInv, settlementVars, vars
<1> QED
  BY <1>6, SettlementInductive, PTL DEF SettlementSpec, SyncedWhenMoneyMoves, MovedMoneyIsSynced

=============================================================================
