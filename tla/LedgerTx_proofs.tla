------------------------------ MODULE LedgerTx_proofs ------------------------------
(***************************************************************************)
(* Proofs about the concurrent transactions, for every number of requests, *)
(* debts and payments and every handler they call: whatever interleaves,   *)
(* money is counted once and rests on debts of its company, and a payment  *)
(* without a discount and a deletion act as if they ran alone.             *)
(***************************************************************************)
EXTENDS LedgerTx, DebtLedger_proofs

-----------------------------------------------------------------------------
(* The inductive invariant: the tables, the locks, and what each request   *)
(* has made sure of before the step it stands at.                          *)
Snapshots == [docs : [Documents -> Document], pays : PaymentTable, alloc : AllocationTable]

Views == {<<>>} \cup {<<seen>> : seen \in Snapshots}

RequestTypes ==
    [op : {"none", "apply", "allocate", "void", "delete", "writeoff", "edit"},
     company : Nat, payment : Payments \cup {0}, document : Documents \cup {0},
     lines : [Documents -> Nat], amount : Nat, discount : Nat, total : Nat, status : Statuses,
     items : {"kept", "cleared", "replaced"}, found : BOOLEAN]

Transactions ==
    [stage : {"idle", "paying", "locking", "items", "inserting", "writing", "over"},
     req : RequestTypes, view : Views,
     payment : Payments \cup {0}, ahead : SUBSET Documents, held : SUBSET Documents]

\* No other request has the debt FOR UPDATE.
NotHeld(t, d) == \A u \in Requests \ {t} : d \notin tx[u].held

\* Payments made through these requests have no legacy link.
NoLegacyLinks == \A p \in Payments : pays[p].document = 0

\* A row is held by one request at a time.
PaymentsHeldByOne ==
    \A t, u \in Requests : t # u /\ tx[t].payment # 0 => tx[u].payment # tx[t].payment

DebtsHeldByOne == \A t, u \in Requests : t # u => tx[t].held \cap tx[u].held = {}

\* Nobody deletes or voids a row that a request holds.
HoldsLive(x) ==
    /\ \A d \in x.held : LiveDocument(d)
    /\ x.payment # 0 => ActivePayment(x.payment)

\* A debt keeps its company, so what a snapshot says of it still holds.
CompaniesStay(x) ==
    x.view # <<>> => \A d \in Documents : x.view[1].docs[d].company = docs[d].company

HoldsNothing(x) == x.held = {} /\ x.payment = 0

\* What a request holds or will hold: the debts its operation changes.
WillHold(x, debts) ==
    x.ahead \cup x.held = debts /\ (x.stage \in {"items", "writing"} => x.ahead = {})

Locking(x) == x.stage \in {"locking", "writing"}

PreparedApply(x) ==
    /\ Locking(x) /\ WillHold(x, LineDocuments(x.req.lines)) /\ x.payment = 0
    /\ LineSum(x.req.lines) <= x.req.amount + x.req.discount
    /\ x.req.discount = 0 => x.view = <<>>
    /\ x.stage = "writing" => ValidAllocations(x.req.company, x.req.lines)

PreparedAllocate(x) ==
    \/ x.stage = "paying" /\ HoldsNothing(x)
    \/ /\ Locking(x) /\ WillHold(x, LineDocuments(x.req.lines)) /\ x.payment = x.req.payment
       /\ CanAllocate(x.req.payment, x.req.lines)
       /\ x.stage = "writing" => ValidAllocations(pays[x.req.payment].company, x.req.lines)

PreparedVoid(x) ==
    \/ x.stage = "paying" /\ HoldsNothing(x)
    \/ Locking(x) /\ x.payment = x.req.payment

PreparedDelete(x) ==
    /\ x.stage \in {"locking", "items", "writing"}
    /\ WillHold(x, {x.req.document}) /\ x.payment = 0
    /\ x.stage \in {"items", "writing"} => ~ HasPayments(x.req.document)

PreparedPlain(x) == x.stage = "writing" /\ HoldsNothing(x)

\* The edit read a live row, which its Save will write back.
PreparedEdit(x) ==
    /\ x.stage \in {"items", "inserting", "writing"} /\ HoldsNothing(x)
    /\ x.view # <<>> /\ x.view[1].docs[x.req.document].life = "live"

Prepared(x) ==
    IF x.stage \in {"idle", "over"} THEN HoldsNothing(x)
    ELSE \/ x.req.op = "apply" /\ PreparedApply(x)
         \/ x.req.op = "allocate" /\ x.req.payment # 0 /\ PreparedAllocate(x)
         \/ x.req.op = "void" /\ x.req.payment # 0 /\ PreparedVoid(x)
         \/ x.req.op = "delete" /\ x.req.document # 0 /\ PreparedDelete(x)
         \/ x.req.op = "writeoff" /\ x.req.document # 0 /\ PreparedPlain(x)
         \/ x.req.op = "edit" /\ x.req.document # 0 /\ PreparedEdit(x)

\* Debts are locked in ascending order, and only an edit or a deletion touches lines.
Orderly(x) ==
    /\ \A d \in x.held, e \in x.ahead : d < e
    /\ x.req.items # "kept" => x.req.op \in {"delete", "edit"}
    /\ x.req.op = "delete" => x.req.items = "cleared"
    /\ x.stage \in {"items", "inserting"} => x.req.items # "kept"

\* The tables, without the states of the requests.
TablesInv ==
    /\ TypeOK
    /\ AllocationsWithinFunds
    /\ RowsOfActivePayments
    /\ MoneyRestsOnOwnDebts
    /\ NoLegacyLinks

TxInv ==
    /\ TablesInv
    /\ tx \in [Requests -> Transactions]
    /\ PaymentsHeldByOne /\ DebtsHeldByOne
    /\ \A t \in Requests : /\ HoldsLive(tx[t]) /\ CompaniesStay(tx[t]) /\ Prepared(tx[t])
                          /\ Orderly(tx[t])

-----------------------------------------------------------------------------
(* Types of what a request carries and sees. *)

\* The least element of a set of ids is one of them.
LEMMA LeastIn ==
    ASSUME NEW S \in SUBSET Documents, S # {}
    PROVE  Min(S) \in S /\ \A e \in S \ {Min(S)} : Min(S) < e
<1> DEFINE B == {n \in Nat : \A m \in S : m > n}
<1>1. S \subseteq Nat \ {0}
  BY BoundsNat DEF Documents
<1>2. 0 \in B
  BY <1>1
<1>3. PICK k \in S : TRUE
  OBVIOUS
<1>4. k \in Nat /\ k \notin B
  BY <1>1
<1>5. ~ (Nat \subseteq B)
  BY <1>4
<1>6. ~ (\A n \in Nat : n \in B => n + 1 \in B)
  <2> HIDE DEF B
  <2> QED
    BY <1>2, <1>5, NatInductionSet
<1>7. PICK n \in Nat : n \in B /\ n + 1 \notin B
  BY <1>6
<1>8. PICK m \in S : ~ (m > n + 1)
  BY <1>7
<1>9. m = n + 1 /\ \A j \in S : m <= j
  BY <1>1, <1>7, <1>8
<1>10. \E x \in S : \A j \in S : x <= j
  BY <1>9
<1>11. PICK x \in S : x = Min(S) /\ \A j \in S : x <= j
  BY <1>10 DEF Min
<1> HIDE DEF B
<1> QED
  BY <1>1, <1>11

LEMMA TablesTyped ==
    ASSUME TypeOK
    PROVE  /\ Tables \in Snapshots
           /\ <<Tables>> \in Views /\ <<>> \in Views /\ <<Tables>> # <<>> /\ <<Tables>>[1] = Tables
           /\ Tables.docs = docs /\ Tables.pays = pays /\ Tables.alloc = alloc
<1>1. Tables \in Snapshots
  BY DEF TypeOK, Tables, Snapshots, PaymentTable, AllocationTable
<1> QED
  BY <1>1 DEF Views, Tables

LEMMA ViewTyped ==
    ASSUME NEW v \in Views, v # <<>>
    PROVE  v[1] \in Snapshots
BY DEF Views

LEMMA SnapshotTyped ==
    ASSUME TypeOK, NEW t, tx[t].view \in Views
    PROVE  Snapshot(t) \in Snapshots
BY TablesTyped, ViewTyped DEF Snapshot

\* What the requests that arrive carry.
LEMMA NoRequestTyped ==
    NoRequest \in RequestTypes /\ NoRequest.items = "kept" /\ NoRequest.op = "none"
<1>1. NoLines \in [Documents -> Nat] /\ Pending \in Statuses
  BY DEF NoLines, Statuses
<1> QED
  BY <1>1 DEF NoRequest, RequestTypes

LEMMA RequestsTyped ==
    /\ \A r \in ApplyRequests : r \in RequestTypes /\ r.op = "apply" /\ r.items = "kept"
    /\ \A r \in AllocateRequests :
          r \in RequestTypes /\ r.op = "allocate" /\ r.payment \in Payments /\ r.items = "kept"
    /\ \A r \in VoidRequests :
          r \in RequestTypes /\ r.op = "void" /\ r.payment \in Payments /\ r.items = "kept"
    /\ \A r \in DeleteRequests :
          r \in RequestTypes /\ r.op = "delete" /\ r.document \in Documents /\ r.items = "cleared"
    /\ \A r \in WriteOffRequests :
          r \in RequestTypes /\ r.op = "writeoff" /\ r.document \in Documents /\ r.items = "kept"
    /\ \A r \in EditRequests : r \in RequestTypes /\ r.op = "edit" /\ r.document \in Documents
<1> DEFINE Apply(c, a, k, l) ==
               [Request("apply") EXCEPT !.company = c, !.amount = a, !.discount = k, !.lines = l]
           Allocate(p, l) == [Request("allocate") EXCEPT !.payment = p, !.lines = l]
           Void(p) == [Request("void") EXCEPT !.payment = p]
           Delete(d, f) ==
               [Request("delete") EXCEPT !.document = d, !.items = "cleared", !.found = f]
           WriteOff(d, st) == [Request("writeoff") EXCEPT !.document = d, !.status = st]
           Items == {<<"kept", FALSE>>} \cup {"cleared", "replaced"} \X BOOLEAN
           Edit(d, n, st, i) ==
               [Request("edit") EXCEPT !.document = d, !.total = n, !.status = st,
                                       !.items = i[1], !.found = i[2]]
<1>1. /\ \A c \in Nat, a \in Nat, k \in Nat, l \in [Documents -> Nat] :
            /\ Apply(c, a, k, l) \in RequestTypes /\ Apply(c, a, k, l).op = "apply"
            /\ Apply(c, a, k, l).items = "kept"
      /\ \A p \in Payments, l \in [Documents -> Nat] :
            /\ Allocate(p, l) \in RequestTypes /\ Allocate(p, l).op = "allocate"
            /\ Allocate(p, l).payment = p /\ Allocate(p, l).items = "kept"
      /\ \A p \in Payments :
            /\ Void(p) \in RequestTypes /\ Void(p).op = "void" /\ Void(p).payment = p
            /\ Void(p).items = "kept"
  BY NoRequestTyped DEF Request, RequestTypes
<1>2. /\ \A d \in Documents, f \in BOOLEAN :
            /\ Delete(d, f) \in RequestTypes /\ Delete(d, f).op = "delete"
            /\ Delete(d, f).document = d /\ Delete(d, f).items = "cleared"
      /\ \A d \in Documents, st \in Statuses :
            /\ WriteOff(d, st) \in RequestTypes /\ WriteOff(d, st).op = "writeoff"
            /\ WriteOff(d, st).document = d /\ WriteOff(d, st).items = "kept"
      /\ \A d \in Documents, n \in Nat, st \in Statuses :
            \A i \in Items :
               /\ Edit(d, n, st, i) \in RequestTypes /\ Edit(d, n, st, i).op = "edit"
               /\ Edit(d, n, st, i).document = d /\ Edit(d, n, st, i).items = i[1]
  <2>1. ASSUME NEW i \in Items PROVE i[1] \in {"kept", "cleared", "replaced"} /\ i[2] \in BOOLEAN
    <3>1. CASE i = <<"kept", FALSE>>
      BY <3>1
    <3>2. CASE i \in {"cleared", "replaced"} \X BOOLEAN
      BY <3>2
    <3> QED
      BY <3>1, <3>2
  <2> HIDE DEF Items
  <2>2. \A d \in Documents, f \in BOOLEAN :
            /\ Delete(d, f) \in RequestTypes /\ Delete(d, f).op = "delete"
            /\ Delete(d, f).document = d /\ Delete(d, f).items = "cleared"
    BY NoRequestTyped DEF Request, RequestTypes
  <2>3. \A d \in Documents, st \in Statuses :
            /\ WriteOff(d, st) \in RequestTypes /\ WriteOff(d, st).op = "writeoff"
            /\ WriteOff(d, st).document = d /\ WriteOff(d, st).items = "kept"
    BY NoRequestTyped DEF Request, RequestTypes
  <2>4. ASSUME NEW d \in Documents, NEW n \in Nat, NEW st \in Statuses, NEW i \in Items
        PROVE  /\ Edit(d, n, st, i) \in RequestTypes /\ Edit(d, n, st, i).op = "edit"
               /\ Edit(d, n, st, i).document = d /\ Edit(d, n, st, i).items = i[1]
    <3>1. PICK a \in {"kept", "cleared", "replaced"}, b \in BOOLEAN : a = i[1] /\ b = i[2]
      BY <2>1
    <3> QED
      BY <3>1, NoRequestTyped DEF Request, RequestTypes
  <2> QED
    BY <2>2, <2>3, <2>4
<1>3. /\ ApplyRequests = {Apply(c, a, k, l) : c \in Companies, a \in Amounts, k \in Discounts, l \in Lines}
      /\ AllocateRequests = {Allocate(p, l) : p \in Payments, l \in Lines}
      /\ VoidRequests = {Void(p) : p \in Payments}
      /\ DeleteRequests = {Delete(d, f) : d \in Documents, f \in BOOLEAN}
      /\ WriteOffRequests = {WriteOff(d, st) : d \in Documents, st \in {Exonerado, Cancelled}}
      /\ EditRequests = {Edit(d, n, st, i) : d \in Documents, n \in Totals, st \in EditedTo, i \in Items}
  BY DEF ApplyRequests, AllocateRequests, VoidRequests, DeleteRequests, WriteOffRequests, EditRequests
<1>4. /\ Companies \subseteq Nat /\ Amounts \subseteq Nat /\ Discounts \subseteq Nat /\ Totals \subseteq Nat
  BY LedgerAssumption
<1>5. Lines \subseteq [Documents -> Nat]
  <2>1. Amounts \cup {0} \subseteq Nat
    BY <1>4
  <2> QED
    BY <2>1 DEF Lines
<1>6. {Exonerado, Cancelled} \subseteq Statuses /\ EditedTo \subseteq Statuses
  BY TxAssumption DEF Statuses
<1> HIDE DEF Apply, Allocate, Void, Delete, WriteOff, Edit, Items
<1>7. \A r \in ApplyRequests : r \in RequestTypes /\ r.op = "apply" /\ r.items = "kept"
  BY <1>1, <1>3, <1>4, <1>5
<1>8. /\ \A r \in AllocateRequests :
            r \in RequestTypes /\ r.op = "allocate" /\ r.payment \in Payments /\ r.items = "kept"
      /\ \A r \in VoidRequests :
            r \in RequestTypes /\ r.op = "void" /\ r.payment \in Payments /\ r.items = "kept"
  BY <1>1, <1>3, <1>5
<1>9. /\ \A r \in DeleteRequests :
            r \in RequestTypes /\ r.op = "delete" /\ r.document \in Documents /\ r.items = "cleared"
      /\ \A r \in WriteOffRequests :
            r \in RequestTypes /\ r.op = "writeoff" /\ r.document \in Documents /\ r.items = "kept"
      /\ \A r \in EditRequests : r \in RequestTypes /\ r.op = "edit" /\ r.document \in Documents
  BY <1>2, <1>3, <1>4, <1>6
<1> QED
  BY <1>7, <1>8, <1>9

OverTransaction == [Idle EXCEPT !.stage = "over"]

LEMMA IdleTyped ==
    /\ Idle \in Transactions /\ Idle.stage = "idle"
    /\ OverTransaction \in Transactions /\ OverTransaction.stage = "over"
    /\ \A x \in {Idle, OverTransaction} :
          /\ HoldsNothing(x) /\ x.view = <<>> /\ HoldsLive(x) /\ CompaniesStay(x) /\ Prepared(x)
          /\ Orderly(x)
<1>1. <<>> \in Views
  BY DEF Views
<1>2. /\ Idle \in Transactions /\ Idle.stage = "idle"
      /\ OverTransaction \in Transactions /\ OverTransaction.stage = "over"
  BY <1>1, NoRequestTyped DEF Idle, OverTransaction, Transactions
<1>3. \A x \in {Idle, OverTransaction} : HoldsNothing(x) /\ x.view = <<>> /\ x.req = NoRequest
  BY DEF Idle, OverTransaction, HoldsNothing
<1>4. \A x \in {Idle, OverTransaction} : x.stage \in {"idle", "over"}
  BY <1>2
<1>5. \A x \in {Idle, OverTransaction} : Orderly(x)
  <2>1. ASSUME NEW x \in {Idle, OverTransaction} PROVE Orderly(x)
    <3>1. x.held = {} /\ x.req.items = "kept" /\ x.req.op = "none" /\ x.stage \in {"idle", "over"}
      BY <1>3, <1>4, NoRequestTyped DEF HoldsNothing
    <3> QED
      BY <3>1 DEF Orderly
  <2> QED
    BY <2>1
<1> QED
  BY <1>2, <1>3, <1>4, <1>5 DEF HoldsNothing, HoldsLive, CompaniesStay, Prepared

-----------------------------------------------------------------------------
(* A step that leaves the tables alone only has to prepare its own request. *)

LEMMA MoveKeeps ==
    ASSUME TxInv, NEW t \in Requests, NEW next \in Transactions, Move(t, next),
           next.payment # 0 => PaymentFree(t, next.payment),
           \A d \in next.held : NotHeld(t, d),
           HoldsLive(next), CompaniesStay(next), Prepared(next), Orderly(next)
    PROVE  TxInv'
<1>1. /\ tx' \in [Requests -> Transactions]
      /\ \A u \in Requests : tx'[u] = IF u = t THEN next ELSE tx[u]
  BY DEF Move, TxInv
<1>2. docs' = docs /\ pays' = pays /\ alloc' = alloc
  BY DEF Move, vars
<1>3. TablesInv'
  BY <1>2 DEF TxInv, TablesInv, TypeOK, AllocationsWithinFunds, RowsOfActivePayments,
              MoneyRestsOnOwnDebts, NoLegacyLinks, Funds, ActivePayment, LiveDocument
<1>4. PaymentsHeldByOne' /\ DebtsHeldByOne'
  <2>1. \A u \in Requests \ {t} : /\ next.payment # 0 => tx[u].payment # next.payment
                                  /\ next.held \cap tx[u].held = {}
    BY DEF PaymentFree, NotHeld
  <2>2. PaymentsHeldByOne'
    BY <1>1, <2>1 DEF TxInv, PaymentsHeldByOne
  <2>3. DebtsHeldByOne'
    BY <1>1, <2>1 DEF TxInv, DebtsHeldByOne
  <2> QED
    BY <2>2, <2>3
<1>5. ASSUME NEW u \in Requests
      PROVE  (HoldsLive(tx[u]) /\ CompaniesStay(tx[u]) /\ Prepared(tx[u]) /\ Orderly(tx[u]))'
  <2> DEFINE x == tx'[u]
  <2>1. HoldsLive(x) /\ CompaniesStay(x) /\ Prepared(x) /\ Orderly(x)
    BY <1>1 DEF TxInv
  <2> HIDE DEF x
  <2>2. (HoldsLive(tx[u]))'
    BY <1>2, <2>1 DEF HoldsLive, LiveDocument, ActivePayment, x
  <2>3. (CompaniesStay(tx[u]))'
    BY <1>2, <2>1 DEF CompaniesStay, x
  <2>4. (Prepared(tx[u]))'
    BY <1>2, <2>1 DEF Prepared, HoldsNothing, Locking, WillHold, PreparedApply, PreparedAllocate,
                      PreparedVoid, PreparedDelete, PreparedPlain, PreparedEdit, ValidAllocations,
                      CanAllocate, HasPayments, ActivePayment, Available, LiveDocument, x
  <2>5. (Orderly(tx[u]))'
    BY <2>1 DEF Orderly, x
  <2> QED
    BY <2>2, <2>3, <2>4, <2>5
<1> QED
  BY <1>1, <1>3, <1>4, <1>5 DEF TxInv

\* A rollback drops the locks and changes nothing else.
LEMMA RollbackKeeps ==
    ASSUME TxInv, NEW t \in Requests, Rollback(t)
    PROVE  TxInv'
<1>1. Move(t, OverTransaction)
  BY DEF Rollback, Over, Move, OverTransaction
<1>2. /\ OverTransaction \in Transactions /\ HoldsNothing(OverTransaction)
      /\ HoldsLive(OverTransaction) /\ CompaniesStay(OverTransaction) /\ Prepared(OverTransaction)
      /\ Orderly(OverTransaction)
  BY IdleTyped
<1> QED
  BY <1>1, <1>2, MoveKeeps DEF HoldsNothing

-----------------------------------------------------------------------------
(* A commit changes only debts and payments that no other request holds, so *)
(* what the others have made sure of stays true.                            *)

CommitFrame(t) ==
    /\ TablesInv'
    /\ Over(t)
    /\ \A d \in Documents : docs'[d].company = docs[d].company
    /\ \A d \in Documents : ~ NotHeld(t, d)
          => docs'[d] = docs[d] /\ \A p \in Payments : alloc'[p][d] > 0 => alloc[p][d] > 0
    /\ \A p \in Payments : ~ PaymentFree(t, p) => pays'[p] = pays[p] /\ alloc'[p] = alloc[p]

LEMMA CommitKeeps ==
    ASSUME TxInv, NEW t \in Requests, CommitFrame(t)
    PROVE  TxInv'
<1>1. /\ tx' \in [Requests -> Transactions]
      /\ \A u \in Requests : tx'[u] = IF u = t THEN OverTransaction ELSE tx[u]
  BY IdleTyped DEF CommitFrame, Over, TxInv, OverTransaction
<1>2. PaymentsHeldByOne' /\ DebtsHeldByOne'
  <2>1. OverTransaction.payment = 0 /\ OverTransaction.held = {}
    BY IdleTyped DEF HoldsNothing
  <2> QED
    BY <1>1, <2>1 DEF TxInv, PaymentsHeldByOne, DebtsHeldByOne
<1>3. ASSUME NEW u \in Requests
      PROVE  (HoldsLive(tx[u]) /\ CompaniesStay(tx[u]) /\ Prepared(tx[u]) /\ Orderly(tx[u]))'
  <2>1. CASE u = t
    <3>1. tx'[u] = OverTransaction
      BY <1>1, <2>1
    <3>2. tx'[u].held = {} /\ tx'[u].payment = 0 /\ tx'[u].view = <<>> /\ tx'[u].stage = "over"
      BY <3>1, IdleTyped DEF HoldsNothing
    <3>3. (Orderly(tx[u]))'
      <4>1. Orderly(OverTransaction)
        BY IdleTyped
      <4> QED
        BY <3>1, <4>1 DEF Orderly
    <3> QED
      BY <3>2, <3>3 DEF HoldsNothing, HoldsLive, CompaniesStay, Prepared
  <2>2. CASE u # t
    <3>1. PICK x \in Transactions : x = tx[u] /\ tx'[u] = x
      BY <1>1, <2>2 DEF TxInv
    <3>2. HoldsLive(x) /\ CompaniesStay(x) /\ Prepared(x) /\ Orderly(x)
      BY <3>1 DEF TxInv
    <3>3. \A d \in x.held : /\ d \in Documents /\ docs'[d] = docs[d]
                            /\ \A p \in Payments : alloc'[p][d] > 0 => alloc[p][d] > 0
      BY <2>2, <3>1 DEF CommitFrame, NotHeld, Transactions
    <3>4. x.payment # 0 => /\ x.payment \in Payments
                           /\ pays'[x.payment] = pays[x.payment] /\ alloc'[x.payment] = alloc[x.payment]
      BY <2>2, <3>1 DEF CommitFrame, PaymentFree, Transactions
    <3>5. NoLegacyLinks' /\ \A d \in Documents : docs'[d].company = docs[d].company
      BY DEF CommitFrame, TablesInv
    <3>6. x.req \in RequestTypes
      BY <3>1 DEF Transactions
    <3>7. (HoldsLive(tx[u]))'
      BY <3>1, <3>2, <3>3, <3>4 DEF HoldsLive, LiveDocument, ActivePayment
    <3>8. (CompaniesStay(tx[u]))'
      BY <3>1, <3>2, <3>5 DEF CompaniesStay
    <3>9. Prepared(x)'
      <4>1. CASE x.stage \in {"idle", "over"}
        BY <3>2, <4>1 DEF Prepared, HoldsNothing
      <4>2. CASE x.stage \notin {"idle", "over"} /\ x.req.op = "apply"
        <5>1. PreparedApply(x)
          BY <3>2, <4>2 DEF Prepared
        <5>2. PreparedApply(x)'
          <6>1. x.stage = "writing" => LineDocuments(x.req.lines) = x.held
            BY <5>1 DEF PreparedApply, WillHold
          <6>2. x.stage = "writing" => ValidAllocations(x.req.company, x.req.lines)'
            BY <5>1, <6>1, <3>3 DEF PreparedApply, ValidAllocations, LiveDocument
          <6> QED
            BY <5>1, <6>2 DEF PreparedApply, Locking, WillHold
        <5> QED
          BY <4>2, <5>2 DEF Prepared
      <4>3. CASE x.stage \notin {"idle", "over"} /\ x.req.op = "allocate"
        <5>1. PreparedAllocate(x) /\ x.req.payment # 0
          BY <3>2, <4>3 DEF Prepared
        <5>2. CASE x.stage = "paying" /\ HoldsNothing(x)
          BY <4>3, <5>1, <5>2 DEF Prepared, PreparedAllocate, HoldsNothing
        <5>3. CASE ~ (x.stage = "paying" /\ HoldsNothing(x))
          <6>1. /\ Locking(x) /\ WillHold(x, LineDocuments(x.req.lines)) /\ x.payment = x.req.payment
                /\ CanAllocate(x.req.payment, x.req.lines)
                /\ x.stage = "writing" => ValidAllocations(pays[x.req.payment].company, x.req.lines)
            BY <5>1, <5>3 DEF PreparedAllocate
          <6>2. pays'[x.req.payment] = pays[x.req.payment] /\ alloc'[x.req.payment] = alloc[x.req.payment]
            BY <3>4, <5>1, <6>1
          <6>3. CanAllocate(x.req.payment, x.req.lines)'
            BY <6>1, <6>2 DEF CanAllocate, ActivePayment, HasAllocations, Available
          <6>4. x.stage = "writing" => LineDocuments(x.req.lines) = x.held
            BY <6>1 DEF WillHold
          <6>5. x.stage = "writing" => ValidAllocations(pays[x.req.payment].company, x.req.lines)'
            BY <6>1, <6>2, <6>4, <3>3 DEF ValidAllocations, LiveDocument
          <6>6. PreparedAllocate(x)'
            BY <6>1, <6>3, <6>5 DEF PreparedAllocate, Locking, WillHold
          <6> QED
            BY <4>3, <5>1, <6>6 DEF Prepared
        <5> QED
          BY <5>2, <5>3
      <4>4. CASE x.stage \notin {"idle", "over"} /\ x.req.op = "delete"
        <5>1. PreparedDelete(x) /\ x.req.document # 0
          BY <3>2, <4>4 DEF Prepared
        <5>2. x.stage \in {"items", "writing"} => x.req.document \in x.held
          BY <5>1 DEF PreparedDelete, WillHold
        <5>3. x.stage \in {"items", "writing"} => ~ HasPayments(x.req.document)'
          BY <3>3, <3>5, <5>1, <5>2 DEF PreparedDelete, HasPayments, NoLegacyLinks
        <5>4. PreparedDelete(x)'
          BY <5>1, <5>3 DEF PreparedDelete, Locking, WillHold
        <5> QED
          BY <4>4, <5>1, <5>4 DEF Prepared
      <4>5. CASE x.stage \notin {"idle", "over"} /\ x.req.op \in {"void", "writeoff", "edit"}
        BY <3>2, <4>5 DEF Prepared, PreparedVoid, PreparedPlain, PreparedEdit, HoldsNothing, Locking
      <4> QED
        BY <3>2, <4>1, <4>2, <4>3, <4>4, <4>5 DEF Prepared
    <3>10. (Prepared(tx[u]))'
      BY <3>1, <3>9 DEF Prepared, HoldsNothing, Locking, WillHold, PreparedApply, PreparedAllocate,
                        PreparedVoid, PreparedDelete, PreparedPlain, PreparedEdit
    <3>11. (Orderly(tx[u]))'
      BY <3>1, <3>2 DEF Orderly
    <3> QED
      BY <3>7, <3>8, <3>10, <3>11
  <2> QED
    BY <2>1, <2>2
<1> QED
  BY <1>1, <1>2, <1>3 DEF TxInv, CommitFrame

-----------------------------------------------------------------------------
(* Requests arrive. *)

\* A request that arrives holds nothing yet.
LEMMA ArrivedKeeps ==
    ASSUME TxInv, NEW t \in Requests, NEW next \in Transactions, Move(t, next),
           next.held = {}, next.payment = 0, next.view \in {<<>>, <<Tables>>}, Prepared(next),
           Orderly(next)
    PROVE  TxInv'
<1>1. <<Tables>>[1].docs = docs
  BY TablesTyped DEF TxInv, TablesInv
<1>2. HoldsLive(next)
  BY DEF HoldsLive
<1>3. CompaniesStay(next)
  BY <1>1 DEF CompaniesStay
<1> QED
  BY <1>2, <1>3, MoveKeeps

\* The fields a request starts with.
LEMMA IdleFields ==
    /\ Idle \in Transactions /\ Idle.held = {} /\ Idle.payment = 0 /\ Idle.ahead = {} /\ Idle.view = <<>>
    /\ <<>> \in Views
BY IdleTyped DEF HoldsNothing, Idle, Views

\* 0 is the NULL of a foreign key, never a row.
LEMMA ZeroIsNull == 0 \notin Payments /\ 0 \notin Documents
BY BoundsNat DEF Payments, Documents

LEMMA LinesTyped ==
    ASSUME NEW lines
    PROVE  LineDocuments(lines) \in SUBSET Documents
BY DEF LineDocuments

LEMMA BeginApplyKeeps ==
    ASSUME TxInv, NEW t \in Requests, NEW r \in ApplyRequests, BeginApply(t, r)
    PROVE  TxInv'
<1> DEFINE ahead == LineDocuments(r.lines)
           next == [Idle EXCEPT !.stage = "locking", !.req = r, !.view = FirstView(r), !.ahead = ahead]
<1>1. r \in RequestTypes /\ r.op = "apply" /\ r.items = "kept"
  BY RequestsTyped
<1>2. ahead \in SUBSET Documents
  BY LinesTyped
<1>3. FirstView(r) \in {<<>>, <<Tables>>} /\ FirstView(r) \in Views
  BY TablesTyped DEF FirstView, TxInv, TablesInv
<1>4. Move(t, next)
  BY DEF BeginApply
<1> HIDE DEF ahead
<1>5. /\ next \in Transactions /\ next.stage = "locking" /\ next.req = r /\ next.view = FirstView(r)
      /\ next.ahead = ahead /\ next.held = {} /\ next.payment = 0
  BY <1>1, <1>2, <1>3, IdleFields DEF Transactions
<1>6. LineSum(r.lines) <= r.amount + r.discount
  <2>1. ValidAmounts(r.amount, r.discount, r.lines)
    BY DEF BeginApply
  <2>2. r.amount \in Nat /\ r.discount \in Nat /\ r.lines \in [Documents -> Nat]
    BY <1>1 DEF RequestTypes
  <2>3. LineSum(r.lines) \in Nat
    BY <2>2, LineSumNat
  <2> QED
    BY <2>1, <2>2, <2>3 DEF ValidAmounts
<1>7. r.discount = 0 => FirstView(r) = <<>>
  BY DEF FirstView
<1> HIDE DEF next
<1>8. PreparedApply(next)
  BY <1>5, <1>6, <1>7 DEF PreparedApply, Locking, WillHold, ahead
<1>9. Prepared(next)
  BY <1>1, <1>5, <1>8 DEF Prepared
<1>10. Orderly(next)
  BY <1>1, <1>5 DEF Orderly
<1> QED
  BY <1>3, <1>4, <1>5, <1>9, <1>10, ArrivedKeeps

LEMMA BeginPayingKeeps ==
    ASSUME TxInv, NEW t \in Requests, NEW r \in AllocateRequests \cup VoidRequests,
           Move(t, [Idle EXCEPT !.stage = "paying", !.req = r])
    PROVE  TxInv'
<1> DEFINE next == [Idle EXCEPT !.stage = "paying", !.req = r]
<1>1. r \in RequestTypes /\ r.op \in {"allocate", "void"} /\ r.payment # 0 /\ r.items = "kept"
  BY RequestsTyped, ZeroIsNull
<1>2. /\ next \in Transactions /\ next.stage = "paying" /\ next.req = r /\ next.view = <<>>
      /\ next.held = {} /\ next.payment = 0
  BY <1>1, IdleFields DEF Transactions
<1> HIDE DEF next
<1>3. Prepared(next)
  BY <1>1, <1>2 DEF Prepared, PreparedAllocate, PreparedVoid, HoldsNothing
<1>4. Orderly(next)
  BY <1>1, <1>2 DEF Orderly
<1> QED
  BY <1>2, <1>3, <1>4, ArrivedKeeps DEF next

LEMMA BeginDeleteKeeps ==
    ASSUME TxInv, NEW t \in Requests, NEW r \in DeleteRequests, BeginDelete(t, r)
    PROVE  TxInv'
<1> DEFINE next == [Idle EXCEPT !.stage = "locking", !.req = r, !.ahead = {r.document}]
<1>1. /\ r \in RequestTypes /\ r.op = "delete" /\ r.document \in Documents /\ r.document # 0
      /\ r.items = "cleared"
  BY RequestsTyped, ZeroIsNull
<1>2. /\ next \in Transactions /\ next.stage = "locking" /\ next.req = r /\ next.view = <<>>
      /\ next.ahead = {r.document} /\ next.held = {} /\ next.payment = 0
  BY <1>1, IdleFields DEF Transactions
<1>3. Move(t, next)
  BY DEF BeginDelete
<1> HIDE DEF next
<1>4. PreparedDelete(next)
  BY <1>2 DEF PreparedDelete, Locking, WillHold
<1>5. Prepared(next)
  BY <1>1, <1>2, <1>4 DEF Prepared
<1>6. Orderly(next)
  BY <1>1, <1>2 DEF Orderly
<1> QED
  BY <1>2, <1>3, <1>5, <1>6, ArrivedKeeps

LEMMA BeginWritingKeeps ==
    ASSUME TxInv, NEW t \in Requests, NEW r \in WriteOffRequests \cup EditRequests,
           LiveDocument(r.document), NEW stage \in {"items", "writing"},
           r.op = "writeoff" => stage = "writing", stage = "items" => r.items # "kept",
           Move(t, [Idle EXCEPT !.stage = stage, !.req = r, !.view = <<Tables>>])
    PROVE  TxInv'
<1> DEFINE next == [Idle EXCEPT !.stage = stage, !.req = r, !.view = <<Tables>>]
<1>1. /\ r \in RequestTypes /\ r.op \in {"writeoff", "edit"} /\ r.document # 0
      /\ r.op = "writeoff" => r.items = "kept"
  BY RequestsTyped, ZeroIsNull
<1>2. /\ <<Tables>> \in Views /\ <<Tables>> # <<>> /\ <<Tables>>[1].docs = docs
  BY TablesTyped DEF TxInv, TablesInv
<1>3. /\ next \in Transactions /\ next.stage = stage /\ next.req = r
      /\ next.view = <<Tables>> /\ next.held = {} /\ next.payment = 0
  BY <1>1, <1>2, IdleFields DEF Transactions
<1> HIDE DEF next
<1>4. r.op = "writeoff" => PreparedPlain(next)
  BY <1>3 DEF PreparedPlain, HoldsNothing
<1>5. PreparedEdit(next)
  BY <1>2, <1>3 DEF PreparedEdit, HoldsNothing, LiveDocument
<1>6. Prepared(next)
  BY <1>1, <1>3, <1>4, <1>5 DEF Prepared
<1>7. Orderly(next)
  BY <1>1, <1>3 DEF Orderly
<1> QED
  BY <1>3, <1>6, <1>7, ArrivedKeeps DEF next

LEMMA BeginKeeps ==
    ASSUME TxInv, NEW t \in Requests, Begin(t)
    PROVE  TxInv'
<1>1. ASSUME NEW r \in ApplyRequests, BeginApply(t, r) PROVE TxInv'
  BY <1>1, BeginApplyKeeps
<1>2. ASSUME NEW r \in AllocateRequests, BeginAllocate(t, r) PROVE TxInv'
  BY <1>2, BeginPayingKeeps DEF BeginAllocate
<1>3. ASSUME NEW r \in VoidRequests, BeginVoid(t, r) PROVE TxInv'
  BY <1>3, BeginPayingKeeps DEF BeginVoid
<1>4. ASSUME NEW r \in DeleteRequests, BeginDelete(t, r) PROVE TxInv'
  BY <1>4, BeginDeleteKeeps
<1>5. ASSUME NEW r \in WriteOffRequests, BeginWriteOff(t, r) PROVE TxInv'
  BY <1>5, BeginWritingKeeps DEF BeginWriteOff, CanWriteOff
<1>6. ASSUME NEW r \in EditRequests, BeginEdit(t, r) PROVE TxInv'
  <2>1. r.op = "edit"
    BY RequestsTyped
  <2> QED
    BY <1>6, <2>1, BeginWritingKeeps DEF BeginEdit
<1> QED
  BY <1>1, <1>2, <1>3, <1>4, <1>5, <1>6 DEF Begin

-----------------------------------------------------------------------------
(* Locks. *)

LEMMA LockPaymentKeeps ==
    ASSUME TxInv, NEW t \in Requests, LockPayment(t)
    PROVE  TxInv'
<1> DEFINE x == tx[t]
           r == tx[t].req
           next(debts) == [tx[t] EXCEPT !.stage = "locking", !.view = <<Tables>>,
                                        !.payment = r.payment, !.ahead = debts]
<1>1. x \in Transactions /\ r \in RequestTypes /\ x.stage = "paying" /\ Prepared(x)
  BY DEF TxInv, LockPayment, Transactions
<1>2. x.held = {} /\ r.payment # 0 /\ r.payment \in Payments
  BY <1>1 DEF Prepared, PreparedApply, PreparedAllocate, PreparedVoid, PreparedDelete,
              PreparedPlain, PreparedEdit, HoldsNothing, Locking, RequestTypes
<1>3. <<Tables>> \in Views /\ <<Tables>>[1].docs = docs
  BY TablesTyped DEF TxInv, TablesInv
<1>4. ASSUME NEW debts \in SUBSET Documents
      PROVE  /\ next(debts) \in Transactions /\ next(debts).stage = "locking"
             /\ next(debts).view = <<Tables>> /\ next(debts).payment = r.payment
             /\ next(debts).ahead = debts /\ next(debts).held = {} /\ next(debts).req = r
  BY <1>1, <1>2, <1>3 DEF Transactions
<1>5. ASSUME NEW debts \in SUBSET Documents, Move(t, next(debts)), ActivePayment(r.payment),
             Prepared(next(debts))
      PROVE  TxInv'
  <2>4. /\ r.items # "kept" => r.op \in {"delete", "edit"}
        /\ r.op = "delete" => r.items = "cleared"
    BY DEF TxInv, Orderly
  <2> DEFINE y == next(debts)
  <2>6. y.stage = "locking" /\ y.held = {} /\ y.req = r
    BY <1>4
  <2> HIDE DEF next
  <2> HIDE DEF y
  <2>7. Orderly(y)
    BY <2>4, <2>6 DEF Orderly
  <2>5. Orderly(next(debts))
    BY <2>7 DEF y
  <2>1. PaymentFree(t, r.payment)
    BY DEF LockPayment
  <2>2. HoldsLive(next(debts))
    BY <1>4, <1>5 DEF HoldsLive
  <2>3. CompaniesStay(next(debts))
    BY <1>3, <1>4 DEF CompaniesStay
  <2> QED
    BY <1>4, <1>5, <2>1, <2>2, <2>3, <2>5, MoveKeeps
<1>6. CASE Rollback(t)
  BY <1>6, RollbackKeeps
<1>7. CASE r.op = "allocate" /\ CanAllocate(r.payment, r.lines) /\ Move(t, next(LineDocuments(r.lines)))
  <2> DEFINE y == next(LineDocuments(r.lines))
  <2>1. LineDocuments(r.lines) \in SUBSET Documents
    BY LinesTyped
  <2>2. /\ y.stage = "locking" /\ y.payment = r.payment /\ y.ahead = LineDocuments(r.lines)
        /\ y.held = {} /\ y.req = r
    BY <1>4, <2>1
  <2> HIDE DEF y
  <2>3. PreparedAllocate(y)
    BY <1>7, <2>2 DEF PreparedAllocate, Locking, WillHold
  <2>4. Prepared(y)
    BY <1>2, <1>7, <2>2, <2>3 DEF Prepared
  <2>5. ActivePayment(r.payment)
    BY <1>7 DEF CanAllocate
  <2> HIDE DEF next
  <2> QED
    BY <1>5, <1>7, <2>1, <2>4, <2>5 DEF y
<1>8. CASE r.op = "void" /\ ActivePayment(r.payment) /\ Move(t, next(TouchedBy(r.payment)))
  <2> DEFINE y == next(TouchedBy(r.payment))
  <2>1. TouchedBy(r.payment) \in SUBSET Documents
    BY <1>2, LinesTyped DEF TouchedBy, TxInv, TablesInv, NoLegacyLinks
  <2>2. y.stage = "locking" /\ y.payment = r.payment /\ y.req = r
    BY <1>4, <2>1
  <2> HIDE DEF y
  <2>3. Prepared(y)
    BY <1>2, <1>8, <2>2 DEF Prepared, PreparedVoid, Locking
  <2> HIDE DEF next
  <2> QED
    BY <1>5, <1>8, <2>1, <2>3 DEF y
<1> QED
  BY <1>6, <1>7, <1>8 DEF LockPayment

LEMMA LockDocumentKeeps ==
    ASSUME TxInv, NEW t \in Requests, LockDocument(t)
    PROVE  TxInv'
<1> DEFINE x == tx[t]
<1>1. /\ x \in Transactions /\ x.stage = "locking" /\ x.ahead # {}
      /\ HoldsLive(x) /\ CompaniesStay(x) /\ Prepared(x) /\ Orderly(x)
  BY DEF TxInv, LockDocument
<1>2. PICK d \in LockOrder(x.ahead) :
         /\ NotHeld(t, d)
         /\ IF LiveDocument(d)
            THEN Move(t, [x EXCEPT !.ahead = @ \ {d}, !.held = @ \cup {d}])
            ELSE Rollback(t)
  BY DEF LockDocument, DocumentFree, NotHeld
<1>3. d \in x.ahead /\ d \in Documents /\ \A e \in x.ahead \ {d} : d < e
  <2>1. x.ahead \in SUBSET Documents /\ Documents \subseteq Nat
    BY <1>1, BoundsNat DEF Transactions, Documents
  <2>2. d = Min(x.ahead)
    BY <1>2 DEF LockOrder
  <2> QED
    BY <1>1, <2>1, <2>2, LeastIn
<1>4. CASE ~ LiveDocument(d)
  BY <1>2, <1>4, RollbackKeeps
<1>5. CASE LiveDocument(d)
  <2> DEFINE next == [x EXCEPT !.ahead = @ \ {d}, !.held = @ \cup {d}]
  <2>1. /\ next \in Transactions /\ next.stage = "locking" /\ next.req = x.req
        /\ next.view = x.view /\ next.payment = x.payment
        /\ next.ahead = x.ahead \ {d} /\ next.held = x.held \cup {d}
        /\ next.ahead \cup next.held = x.ahead \cup x.held
    BY <1>1, <1>3 DEF Transactions
  <2>2. Move(t, next)
    BY <1>2, <1>5
  <2> HIDE DEF next
  <2>3. HoldsLive(next) /\ CompaniesStay(next)
    BY <1>1, <1>5, <2>1 DEF HoldsLive, CompaniesStay
  <2>4. Prepared(next)
    BY <1>1, <2>1 DEF Prepared, PreparedApply, PreparedAllocate, PreparedVoid, PreparedDelete,
                      PreparedPlain, PreparedEdit, WillHold, Locking, HoldsNothing
  <2>5. next.payment # 0 => PaymentFree(t, next.payment)
    BY <2>1 DEF TxInv, PaymentsHeldByOne, PaymentFree
  <2>6. \A e \in next.held : NotHeld(t, e)
    BY <1>2, <2>1 DEF TxInv, DebtsHeldByOne, NotHeld
  <2>7. Orderly(next)
    BY <1>1, <1>3, <2>1 DEF Orderly
  <2> QED
    BY <2>1, <2>2, <2>3, <2>4, <2>5, <2>6, <2>7, MoveKeeps
<1> QED
  BY <1>4, <1>5

\* A request that goes on to its next statement keeps its locks and its snapshot.
LEMMA GoOnKeeps ==
    ASSUME TxInv, NEW t \in Requests,
           NEW stage \in {"idle", "paying", "locking", "items", "inserting", "writing", "over"},
           stage \in {"items", "inserting"} => tx[t].req.items # "kept",
           Move(t, [tx[t] EXCEPT !.stage = stage]), Prepared([tx[t] EXCEPT !.stage = stage])
    PROVE  TxInv'
<1> DEFINE x == tx[t]
           next == [x EXCEPT !.stage = stage]
<1>1. x \in Transactions /\ HoldsLive(x) /\ CompaniesStay(x) /\ Orderly(x)
  BY DEF TxInv
<1>2. /\ next \in Transactions /\ next.view = x.view /\ next.payment = x.payment
      /\ next.held = x.held /\ next.ahead = x.ahead /\ next.req = x.req /\ next.stage = stage
  BY <1>1 DEF Transactions
<1>3. Move(t, next) /\ Prepared(next)
  OBVIOUS
<1> HIDE DEF next
<1>4. HoldsLive(next) /\ CompaniesStay(next)
  BY <1>1, <1>2 DEF HoldsLive, CompaniesStay
<1>5. next.payment # 0 => PaymentFree(t, next.payment)
  BY <1>2 DEF TxInv, PaymentsHeldByOne, PaymentFree
<1>6. \A e \in next.held : NotHeld(t, e)
  BY <1>2 DEF TxInv, DebtsHeldByOne, NotHeld
<1>7. Orderly(next)
  BY <1>1, <1>2 DEF Orderly
<1> QED
  BY <1>2, <1>3, <1>4, <1>5, <1>6, <1>7, MoveKeeps

LEMMA ValidateKeeps ==
    ASSUME TxInv, NEW t \in Requests, Validate(t)
    PROVE  TxInv'
<1> DEFINE x == tx[t]
           stage == IF x.req.op = "delete" THEN "items" ELSE "writing"
           next == [x EXCEPT !.stage = stage]
<1>1. x \in Transactions /\ x.stage = "locking" /\ x.ahead = {} /\ Prepared(x)
  BY DEF TxInv, Validate
<1>2. CASE ~ Accepted(x.req)
  BY <1>2, RollbackKeeps DEF Validate
<1>3. CASE Accepted(x.req)
  <2>1. /\ next.stage = stage /\ next.req = x.req /\ next.view = x.view
        /\ next.payment = x.payment /\ next.ahead = {} /\ next.held = x.held
    BY <1>1 DEF Transactions
  <2>2. Move(t, next)
    BY <1>3 DEF Validate
  <2>4. stage \in {"items", "writing"} /\ (stage = "items" => x.req.items # "kept")
    BY DEF TxInv, Orderly
  <2> HIDE DEF next
  <2>3. Prepared(next)
    BY <1>1, <1>3, <2>1 DEF Accepted, Prepared, PreparedApply, PreparedAllocate, PreparedVoid,
                            PreparedDelete, PreparedPlain, PreparedEdit, WillHold, Locking, HoldsNothing
  <2> QED
    BY <2>2, <2>3, <2>4, GoOnKeeps DEF next
<1> QED
  BY <1>2, <1>3

LEMMA DeleteItemsKeeps ==
    ASSUME TxInv, NEW t \in Requests, DeleteItems(t)
    PROVE  TxInv'
<1> DEFINE x == tx[t]
           stage == IF x.req.items = "replaced" THEN "inserting" ELSE "writing"
           next == [x EXCEPT !.stage = stage]
<1>1. x \in Transactions /\ x.stage = "items" /\ Prepared(x) /\ Move(t, next)
  BY DEF TxInv, DeleteItems
<1>2. /\ next.stage = stage /\ next.req = x.req /\ next.view = x.view
      /\ next.payment = x.payment /\ next.ahead = x.ahead /\ next.held = x.held
  BY <1>1 DEF Transactions
<1>3. x.req.op \in {"delete", "edit"} /\ x.req.document # 0
  BY <1>1 DEF Prepared, PreparedApply, PreparedAllocate, PreparedVoid, PreparedPlain, Locking
<1>4. Orderly(x) /\ (x.req.op = "delete" => x.req.items # "replaced")
  BY DEF TxInv, Orderly
<1> HIDE DEF next
<1>5. Prepared(next)
  BY <1>1, <1>2, <1>3, <1>4 DEF Prepared, PreparedDelete, PreparedEdit, WillHold, HoldsNothing
<1>6. x.req.items # "kept"
  BY <1>1, <1>4 DEF Orderly
<1> QED
  BY <1>1, <1>5, <1>6, GoOnKeeps DEF next

LEMMA InsertItemsKeeps ==
    ASSUME TxInv, NEW t \in Requests, InsertItems(t)
    PROVE  TxInv'
<1> DEFINE x == tx[t]
           next == [x EXCEPT !.stage = "writing"]
<1>1. x \in Transactions /\ x.stage = "inserting" /\ Prepared(x) /\ (Move(t, next) \/ Rollback(t))
  BY DEF TxInv, InsertItems
<1>2. /\ next.stage = "writing" /\ next.req = x.req /\ next.view = x.view
      /\ next.payment = x.payment /\ next.held = x.held
  BY <1>1 DEF Transactions
<1>3. x.req.op = "edit" /\ x.req.document # 0 /\ PreparedEdit(x)
  BY <1>1 DEF Prepared, PreparedApply, PreparedAllocate, PreparedVoid, PreparedDelete,
              PreparedPlain, Locking
<1> HIDE DEF next
<1>4. Prepared(next)
  BY <1>2, <1>3 DEF Prepared, PreparedEdit, HoldsNothing
<1> QED
  BY <1>1, <1>4, GoOnKeeps, RollbackKeeps DEF next

-----------------------------------------------------------------------------
(* Commits. *)

\* A recomputed debt keeps its company and its life.
LEMMA RecomputedFacts ==
    ASSUME TypeOK, NEW t, Snapshot(t) \in Snapshots, NEW ps \in PaymentTable,
           NEW al \in AllocationTable, NEW d \in Documents
    PROVE  /\ Recomputed(t, d, ps, al) \in Document
           /\ Recomputed(t, d, ps, al).life = docs[d].life
           /\ Recomputed(t, d, ps, al).company = docs[d].company
<1> DEFINE seen == Snapshot(t).docs[d]
           paid == PaidTotal(ps, al, d)
           balance == BalanceFromTotalPaid(seen.total, paid)
           status == ComputeStatusFromPaid(paid, seen.total, seen.status)
<1>1. docs[d] \in Document /\ seen \in Document
  BY DEF TypeOK, Snapshots
<1>2. paid \in Nat
  BY PaidTotalNat
<1>3. balance \in Nat
  BY <1>1, <1>2 DEF BalanceFromTotalPaid, Document
<1>4. status \in Statuses
  <2>1. seen.status \in Statuses
    BY <1>1 DEF Document
  <2>2. Paid \in Statuses /\ Pending \in Statuses /\ Partial \in Statuses
    BY DEF Statuses
  <2> QED
    BY <2>1, <2>2 DEF ComputeStatusFromPaid, ComputeStatusFromAmounts
<1>5. Recomputed(t, d, ps, al) = IF IsTerminalWriteoffStatus(seen.status) THEN docs[d]
                                 ELSE [docs[d] EXCEPT !.balance = balance, !.status = status]
  BY DEF Recomputed
<1> HIDE DEF balance, status, seen, paid
<1> QED
  BY <1>1, <1>3, <1>4, <1>5 DEF Document

\* What Post does to the tables.
LEMMA PostFacts ==
    ASSUME TypeOK, NEW t, tx[t].view \in Views, NEW p \in Payments, NEW row \in Payment,
           NEW lines \in [Documents -> Nat], NEW debts, Post(t, p, row, lines, debts)
    PROVE  /\ pays' = [pays EXCEPT ![p] = row] /\ alloc' = [alloc EXCEPT ![p] = lines]
           /\ docs' \in [Documents -> Document]
           /\ \A d \in Documents : /\ docs'[d].life = docs[d].life
                                   /\ docs'[d].company = docs[d].company
                                   /\ d \notin debts => docs'[d] = docs[d]
           /\ Over(t)
<1> DEFINE ps == [Snapshot(t).pays EXCEPT ![p] = row]
           al == [Snapshot(t).alloc EXCEPT ![p] = lines]
<1>1. Snapshot(t) \in Snapshots
  BY SnapshotTyped
<1>2. ps \in PaymentTable /\ al \in AllocationTable
  BY <1>1 DEF Snapshots, PaymentTable, AllocationTable
<1>3. docs' = [d \in Documents |-> IF d \in debts THEN Recomputed(t, d, ps, al) ELSE docs[d]]
  BY DEF Post
<1> HIDE DEF ps, al
<1>4. \A d \in Documents : /\ Recomputed(t, d, ps, al) \in Document
                           /\ Recomputed(t, d, ps, al).life = docs[d].life
                           /\ Recomputed(t, d, ps, al).company = docs[d].company
  BY <1>1, <1>2, RecomputedFacts
<1>5. docs' \in [Documents -> Document]
  BY <1>3, <1>4 DEF TypeOK
<1>6. \A d \in Documents : docs'[d] = IF d \in debts THEN Recomputed(t, d, ps, al) ELSE docs[d]
  BY <1>3
<1> QED
  BY <1>4, <1>5, <1>6 DEF Post

\* A request that writes one payment, within its funds and on debts of its company.
LEMMA PostKeepsTables ==
    ASSUME TablesInv, NEW p \in Payments, NEW row \in Payment, NEW lines \in [Documents -> Nat],
           pays' = [pays EXCEPT ![p] = row], alloc' = [alloc EXCEPT ![p] = lines],
           docs' \in [Documents -> Document],
           \A d \in Documents : docs'[d].life = docs[d].life /\ docs'[d].company = docs[d].company,
           row.document = 0,
           row.life # "active" => \A d \in Documents : lines[d] = 0,
           LineSum(lines) <= IF row.life = "active" THEN row.amount + row.discount ELSE 0,
           \A d \in Documents : lines[d] > 0 => LiveDocument(d) /\ docs[d].company = row.company
    PROVE  TablesInv'
<1>1. \A q \in Payments : /\ pays'[q] = IF q = p THEN row ELSE pays[q]
                          /\ alloc'[q] = IF q = p THEN lines ELSE alloc[q]
  BY DEF TablesInv, TypeOK
<1>2. TypeOK'
  BY DEF TablesInv, TypeOK
<1>3. AllocationsWithinFunds'
  BY <1>1 DEF TablesInv, AllocationsWithinFunds, Funds, ActivePayment
<1>4. RowsOfActivePayments'
  BY <1>1 DEF TablesInv, RowsOfActivePayments, ActivePayment
<1>5. NoLegacyLinks'
  BY <1>1 DEF TablesInv, NoLegacyLinks
<1>6. MoneyRestsOnOwnDebts'
  <2> SUFFICES ASSUME NEW q \in Payments, NEW d \in Documents,
                      alloc'[q][d] > 0 \/ (pays'[q].life = "active" /\ pays'[q].document = d)
               PROVE  docs'[d].life = "live" /\ docs'[d].company = pays'[q].company
    BY DEF MoneyRestsOnOwnDebts, LiveDocument, ActivePayment
  <2>1. alloc'[q][d] > 0
    BY <1>5, BoundsNat DEF NoLegacyLinks, Documents
  <2>2. docs[d].life = "live" /\ docs[d].company = pays'[q].company
    BY <1>1, <2>1 DEF TablesInv, MoneyRestsOnOwnDebts, LiveDocument
  <2> QED
    BY <2>2
<1> QED
  BY <1>2, <1>3, <1>4, <1>5, <1>6 DEF TablesInv

\* A request that posts one payment nobody else holds, on the debts it holds.
LEMMA PostKeeps ==
    ASSUME TxInv, NEW t \in Requests, NEW p \in Payments, NEW row \in Payment,
           NEW lines \in [Documents -> Nat], Post(t, p, row, lines, tx[t].held),
           PaymentFree(t, p), row.document = 0,
           row.life # "active" => \A d \in Documents : lines[d] = 0,
           LineSum(lines) <= IF row.life = "active" THEN row.amount + row.discount ELSE 0,
           \A d \in Documents : lines[d] > 0 => LiveDocument(d) /\ docs[d].company = row.company,
           \A d \in Documents : lines[d] > 0 => alloc[p][d] > 0 \/ d \in tx[t].held
    PROVE  TxInv'
<1>1. TablesInv /\ TypeOK /\ tx[t].view \in Views
  BY DEF TxInv, TablesInv, Transactions
<1>2. /\ pays' = [pays EXCEPT ![p] = row] /\ alloc' = [alloc EXCEPT ![p] = lines]
      /\ docs' \in [Documents -> Document]
      /\ \A d \in Documents : /\ docs'[d].life = docs[d].life
                              /\ docs'[d].company = docs[d].company
                              /\ d \notin tx[t].held => docs'[d] = docs[d]
      /\ Over(t)
  BY <1>1, PostFacts
<1>3. TablesInv'
  BY <1>1, <1>2, PostKeepsTables
<1>4. ASSUME NEW d \in Documents, ~ NotHeld(t, d)
      PROVE  docs'[d] = docs[d] /\ \A q \in Payments : alloc'[q][d] > 0 => alloc[q][d] > 0
  <2>1. d \notin tx[t].held
    BY <1>4 DEF TxInv, DebtsHeldByOne, NotHeld
  <2> QED
    BY <1>1, <1>2, <2>1 DEF TypeOK
<1>5. ASSUME NEW q \in Payments, ~ PaymentFree(t, q)
      PROVE  pays'[q] = pays[q] /\ alloc'[q] = alloc[q]
  <2>1. q # p
    BY <1>5
  <2> QED
    BY <1>1, <1>2, <2>1 DEF TypeOK
<1>6. CommitFrame(t)
  BY <1>2, <1>3, <1>4, <1>5 DEF CommitFrame
<1> QED
  BY <1>6, CommitKeeps

LEMMA CommitApplyKeeps ==
    ASSUME TxInv, NEW t \in Requests, CommitApply(t)
    PROVE  TxInv'
<1> DEFINE x == tx[t]
           r == tx[t].req
           row == NewPayment("applied", r.company, r.amount, r.discount, "deuda")
<1>1. /\ x \in Transactions /\ r \in RequestTypes /\ x.stage = "writing" /\ r.op = "apply"
      /\ Prepared(x)
  BY DEF TxInv, CommitApply, Writing, Transactions
<1>2. PreparedApply(x)
  BY <1>1 DEF Prepared
<1>3. /\ x.held = LineDocuments(r.lines) /\ ValidAllocations(r.company, r.lines)
      /\ LineSum(r.lines) <= r.amount + r.discount
  BY <1>1, <1>2 DEF PreparedApply, WillHold
<1>4. PICK p \in Payments : NextPayment(p) /\ Post(t, p, row, r.lines, x.held)
  BY DEF CommitApply
<1>5. /\ row \in Payment /\ row.life = "active" /\ row.document = 0 /\ row.company = r.company
      /\ row.amount = r.amount /\ row.discount = r.discount
  BY <1>1 DEF NewPayment, NoPayment, Payment, RequestTypes
<1>6. r.lines \in [Documents -> Nat]
  BY <1>1 DEF RequestTypes
<1>7. PaymentFree(t, p)
  <2>1. ~ ActivePayment(p) /\ p # 0
    BY <1>4, BoundsNat DEF NextPayment, ActivePayment, Payments
  <2> QED
    BY <2>1 DEF TxInv, HoldsLive, PaymentFree
<1>8. \A d \in Documents : r.lines[d] > 0 => LiveDocument(d) /\ docs[d].company = r.company
  BY <1>3, <1>6, LinesRest
<1>9. \A d \in Documents : r.lines[d] > 0 => d \in x.held
  BY <1>3 DEF LineDocuments
<1> HIDE DEF row
<1> QED
  BY <1>3, <1>4, <1>5, <1>6, <1>7, <1>8, <1>9, PostKeeps

LEMMA CommitAllocateKeeps ==
    ASSUME TxInv, NEW t \in Requests, CommitAllocate(t)
    PROVE  TxInv'
<1> DEFINE x == tx[t]
           r == tx[t].req
           p == tx[t].req.payment
           row == [pays[p] EXCEPT !.type = "applied"]
           lines == [d \in Documents |-> alloc[p][d] + r.lines[d]]
<1>1. /\ x \in Transactions /\ r \in RequestTypes /\ x.stage = "writing" /\ r.op = "allocate"
      /\ Prepared(x)
  BY DEF TxInv, CommitAllocate, Writing, Transactions
<1>2. PreparedAllocate(x) /\ p # 0 /\ p \in Payments
  BY <1>1 DEF Prepared, RequestTypes
<1>3. /\ x.held = LineDocuments(r.lines) /\ x.payment = p
      /\ CanAllocate(p, r.lines) /\ ValidAllocations(pays[p].company, r.lines)
  BY <1>1, <1>2 DEF PreparedAllocate, WillHold
<1>4. Post(t, p, row, lines, x.held)
  BY DEF CommitAllocate
<1>5. /\ pays[p] \in Payment /\ pays[p].life = "active" /\ pays[p].document = 0
      /\ alloc[p] \in [Documents -> Nat] /\ r.lines \in [Documents -> Nat]
  BY <1>1, <1>2, <1>3 DEF TxInv, TablesInv, TypeOK, NoLegacyLinks, CanAllocate, ActivePayment, RequestTypes
<1>6. /\ row \in Payment /\ row.life = "active" /\ row.document = 0
      /\ row.company = pays[p].company /\ row.amount = pays[p].amount
      /\ row.discount = pays[p].discount /\ row.amount \in Nat /\ row.discount \in Nat
  BY <1>5 DEF Payment
<1>7. lines \in [Documents -> Nat] /\ \A d \in Documents : lines[d] = alloc[p][d] + r.lines[d]
  BY <1>5
<1>8. LineSum(lines) <= row.amount + row.discount
  <2>1. \A i \in 1 .. MaxDocuments : /\ alloc[p][i] \in Nat /\ r.lines[i] \in Nat
                                     /\ lines[i] = alloc[p][i] + r.lines[i]
    BY <1>5, <1>7 DEF Documents
  <2> HIDE DEF lines
  <2>2. LineSum(lines) = LineSum(alloc[p]) + LineSum(r.lines)
    BY <2>1, BoundsNat, SumPlus DEF LineSum
  <2>3. LineSum(alloc[p]) \in Nat /\ LineSum(r.lines) \in Nat
    BY <1>5, LineSumNat
  <2>4. LineSum(r.lines) <= pays[p].amount - LineSum(alloc[p])
    BY <1>3 DEF CanAllocate, Available
  <2> QED
    BY <1>6, <2>2, <2>3, <2>4
<1>9. PaymentFree(t, p)
  BY <1>2, <1>3 DEF TxInv, PaymentsHeldByOne, PaymentFree
<1>10. ASSUME NEW d \in Documents, lines[d] > 0
       PROVE  LiveDocument(d) /\ docs[d].company = row.company
  <2>1. CASE r.lines[d] > 0
    BY <2>1, <1>3, <1>5, <1>6, LinesRest
  <2>2. CASE ~ (r.lines[d] > 0)
    <3>1. alloc[p][d] > 0
      BY <2>2, <1>10, <1>5, <1>7
    <3> QED
      BY <3>1, <1>2, <1>6 DEF TxInv, TablesInv, MoneyRestsOnOwnDebts
  <2> QED
    BY <2>1, <2>2
<1>11. ASSUME NEW d \in Documents, lines[d] > 0
       PROVE  alloc[p][d] > 0 \/ d \in x.held
  <2>1. alloc[p][d] > 0 \/ r.lines[d] > 0
    BY <1>11, <1>5, <1>7
  <2> QED
    BY <2>1, <1>3 DEF LineDocuments
<1> HIDE DEF row, lines
<1> QED
  BY <1>2, <1>4, <1>6, <1>7, <1>8, <1>9, <1>10, <1>11, PostKeeps

LEMMA CommitVoidKeeps ==
    ASSUME TxInv, NEW t \in Requests, CommitVoid(t)
    PROVE  TxInv'
<1> DEFINE x == tx[t]
           p == tx[t].req.payment
           row == [pays[p] EXCEPT !.life = "voided"]
<1>1. /\ x \in Transactions /\ x.req \in RequestTypes /\ x.stage = "writing" /\ x.req.op = "void"
      /\ Prepared(x)
  BY DEF TxInv, CommitVoid, Writing, Transactions
<1>2. p # 0 /\ p \in Payments /\ x.payment = p
  BY <1>1 DEF Prepared, PreparedVoid, RequestTypes
<1>3. Post(t, p, row, NoLines, x.held)
  BY DEF CommitVoid
<1>4. pays[p] \in Payment /\ pays[p].document = 0
  BY <1>2 DEF TxInv, TablesInv, TypeOK, NoLegacyLinks
<1>5. row \in Payment /\ row.life = "voided" /\ row.document = 0
  BY <1>4 DEF Payment
<1>6. NoLines \in [Documents -> Nat] /\ \A d \in Documents : NoLines[d] = 0
  BY DEF NoLines
<1>7. PaymentFree(t, p)
  BY <1>2 DEF TxInv, PaymentsHeldByOne, PaymentFree
<1>8. /\ LineSum(NoLines) <= IF row.life = "active" THEN row.amount + row.discount ELSE 0
      /\ \A d \in Documents : ~ (NoLines[d] > 0)
  BY <1>5, <1>6, NoLinesSum
<1> HIDE DEF row
<1> QED
  BY <1>2, <1>3, <1>5, <1>6, <1>7, <1>8, PostKeeps

\* A request that writes one debt that nobody else holds, and no payment.
LEMMA DebtKeeps ==
    ASSUME TxInv, NEW t \in Requests, Over(t), NEW d \in Documents, NEW new \in Document,
           docs' = [docs EXCEPT ![d] = new], UNCHANGED <<pays, alloc>>, NotHeld(t, d),
           new.company = docs[d].company,
           new.life = "live" \/ ~ HasPayments(d)
    PROVE  TxInv'
<1>1. TypeOK /\ docs' \in [Documents -> Document]
  BY DEF TxInv, TablesInv, TypeOK
<1>2. \A e \in Documents : docs'[e] = IF e = d THEN new ELSE docs[e]
  BY <1>1 DEF TypeOK
<1>3. MoneyRestsOnOwnDebts'
  BY <1>2 DEF TxInv, TablesInv, MoneyRestsOnOwnDebts, HasPayments, LiveDocument, ActivePayment
<1>4. TablesInv'
  BY <1>1, <1>3 DEF TxInv, TablesInv, TypeOK, AllocationsWithinFunds, RowsOfActivePayments,
                    NoLegacyLinks, Funds, ActivePayment
<1>5. CommitFrame(t)
  BY <1>2, <1>4 DEF CommitFrame
<1> QED
  BY <1>5, CommitKeeps

\* What a deletion that commits has made sure of.
LEMMA DeletePrepared ==
    ASSUME TxInv, NEW t \in Requests, CommitDelete(t)
    PROVE  /\ tx[t].req.document \in Documents /\ tx[t].held = {tx[t].req.document}
           /\ LiveDocument(tx[t].req.document) /\ ~ HasPayments(tx[t].req.document)
<1>1. /\ tx[t] \in Transactions /\ tx[t].req \in RequestTypes /\ tx[t].stage = "writing"
      /\ tx[t].req.op = "delete" /\ Prepared(tx[t]) /\ HoldsLive(tx[t])
  BY DEF TxInv, CommitDelete, Writing, Transactions
<1>2. tx[t].req.document \in Documents /\ PreparedDelete(tx[t])
  BY <1>1 DEF Prepared, RequestTypes
<1>3. tx[t].held = {tx[t].req.document} /\ ~ HasPayments(tx[t].req.document)
  BY <1>1, <1>2 DEF PreparedDelete, WillHold
<1> QED
  BY <1>1, <1>2, <1>3 DEF HoldsLive

LEMMA CommitDeleteKeeps ==
    ASSUME TxInv, NEW t \in Requests, CommitDelete(t)
    PROVE  TxInv'
<1> DEFINE d == tx[t].req.document
           new == [docs[d] EXCEPT !.life = "deleted"]
<1>1. d \in Documents /\ tx[t].held = {d} /\ ~ HasPayments(d)
  BY DeletePrepared
<1>2. docs[d] \in Document
  BY <1>1 DEF TxInv, TablesInv, TypeOK
<1>3. new \in Document /\ new.company = docs[d].company
  BY <1>2 DEF Document
<1>4. docs' = [docs EXCEPT ![d] = new] /\ UNCHANGED <<pays, alloc>> /\ Over(t)
  BY <1>1 DEF CommitDelete, TxInv, TablesInv, TypeOK
<1>5. NotHeld(t, d)
  BY <1>1 DEF TxInv, DebtsHeldByOne, NotHeld
<1> HIDE DEF new
<1> QED
  BY <1>1, <1>3, <1>4, <1>5, DebtKeeps

LEMMA CommitWriteOffKeeps ==
    ASSUME TxInv, NEW t \in Requests, CommitWriteOff(t)
    PROVE  TxInv'
<1> DEFINE r == tx[t].req
           d == tx[t].req.document
           new == IF LiveDocument(d) THEN [docs[d] EXCEPT !.status = r.status, !.balance = 0] ELSE docs[d]
<1>1. r \in RequestTypes /\ tx[t].stage = "writing" /\ r.op = "writeoff" /\ Prepared(tx[t])
  BY DEF TxInv, CommitWriteOff, Writing, Transactions
<1>2. d \in Documents
  BY <1>1 DEF Prepared, RequestTypes
<1>3. docs[d] \in Document
  BY <1>2 DEF TxInv, TablesInv, TypeOK
<1>4. new \in Document /\ new.company = docs[d].company /\ new.life = docs[d].life
  BY <1>1, <1>3 DEF Document, RequestTypes
<1>5. /\ docs' = [docs EXCEPT ![d] = new] /\ UNCHANGED <<pays, alloc>> /\ Over(t)
      /\ NotHeld(t, d)
  BY <1>2 DEF CommitWriteOff, DocumentFree, NotHeld, TxInv, TablesInv, TypeOK
<1>6. docs[d].life = "live" \/ ~ HasPayments(d)
  BY <1>2 DEF TxInv, TablesInv, MoneyRestsOnOwnDebts, HasPayments, LiveDocument
<1> HIDE DEF new
<1> QED
  BY <1>2, <1>4, <1>5, <1>6, DebtKeeps

LEMMA CommitEditKeeps ==
    ASSUME TxInv, NEW t \in Requests, CommitEdit(t)
    PROVE  TxInv'
<1> DEFINE r == tx[t].req
           d == tx[t].req.document
           seen == tx[t].view[1].docs[d]
           new == [seen EXCEPT !.total = r.total, !.status = r.status]
<1>1. /\ tx[t] \in Transactions /\ r \in RequestTypes /\ tx[t].stage = "writing" /\ r.op = "edit"
      /\ Prepared(tx[t]) /\ CompaniesStay(tx[t])
  BY DEF TxInv, CommitEdit, Writing, Transactions
<1>2. d \in Documents /\ PreparedEdit(tx[t])
  BY <1>1 DEF Prepared, RequestTypes
<1>3. tx[t].view # <<>> /\ seen.life = "live" /\ seen.company = docs[d].company
  BY <1>1, <1>2 DEF PreparedEdit, CompaniesStay
<1>4. tx[t].view[1] \in Snapshots
  BY <1>1, <1>3, ViewTyped DEF Transactions
<1>5. seen \in Document
  BY <1>2, <1>4 DEF Snapshots
<1>6. Snapshot(t).docs[d] = seen
  BY <1>3 DEF Snapshot
<1>7. /\ docs' = [docs EXCEPT ![d] = new] /\ UNCHANGED <<pays, alloc>> /\ Over(t)
      /\ NotHeld(t, d)
  BY <1>6 DEF CommitEdit, DocumentFree, NotHeld
<1> HIDE DEF seen
<1>8. new \in Document /\ new.company = docs[d].company /\ new.life = "live"
  BY <1>1, <1>3, <1>5 DEF Document, RequestTypes
<1> HIDE DEF new
<1> QED
  BY <1>2, <1>7, <1>8, DebtKeeps

-----------------------------------------------------------------------------
(* The tables the requests find, and the invariant of every run. *)

LEMMA InitTables ==
    ASSUME TxInit
    PROVE  TablesInv
<1> DEFINE type(placed, p) == IF LineDocuments(placed[p]) = {} THEN "on_account" ELSE "applied"
           row(p, c, amount, placed) == NewPayment(type(placed, p), c, amount[p], 0, "deuda")
           doc(d, c, total) == [life |-> "live", company |-> c, total |-> total[d],
                                balance |-> 0, status |-> Pending]
           ps(c, amount, placed) ==
               [p \in Payments |-> IF p <= Received THEN row(p, c, amount, placed) ELSE NoPayment]
           al(placed) == [p \in Payments |-> IF p <= Received THEN placed[p] ELSE NoLines]
           Start(total, amount, placed, c) ==
               /\ \A p \in 1 .. Received : LineSum(placed[p]) <= amount[p]
               /\ \A d \in Documents : PaidTotal(ps(c, amount, placed), al(placed), d) <= total[d]
               /\ docs = [d \in Documents |->
                             WithBalance(doc(d, c, total), PaidTotal(ps(c, amount, placed), al(placed), d))]
               /\ pays = ps(c, amount, placed)
               /\ alloc = al(placed)
<1>1. \E total \in [Documents -> Totals], amount \in [1 .. Received -> Amounts],
         placed \in [1 .. Received -> Lines], c \in Companies : Start(total, amount, placed, c)
  BY DEF TxInit
<1> HIDE DEF Start
<1>2. PICK total \in [Documents -> Totals], amount \in [1 .. Received -> Amounts],
           placed \in [1 .. Received -> Lines], c \in Companies : Start(total, amount, placed, c)
  BY <1>1
<1>3. Companies \subseteq Nat /\ Amounts \subseteq Nat /\ Totals \subseteq Nat /\ Received \in Nat
  <2>1. Companies \subseteq Nat /\ Amounts \subseteq Nat /\ Totals \subseteq Nat
    BY LedgerAssumption
  <2>2. Received \in Nat
    BY TxAssumption, BoundsNat
  <2> QED
    BY <2>1, <2>2
<1>4. Lines \subseteq [Documents -> Nat]
  <2>1. Amounts \cup {0} \subseteq Nat
    BY <1>3
  <2> QED
    BY <2>1 DEF Lines
<1>5. \A p \in Payments : p <= Received => p \in 1 .. Received
  BY <1>3, BoundsNat DEF Payments
<1>6. /\ \A p \in 1 .. Received : LineSum(placed[p]) <= amount[p]
      /\ docs = [d \in Documents |->
                    WithBalance(doc(d, c, total), PaidTotal(ps(c, amount, placed), al(placed), d))]
      /\ pays = ps(c, amount, placed)
      /\ alloc = al(placed)
  BY <1>2 DEF Start
<1>7. \A p \in Payments : p <= Received => /\ amount[p] \in Nat /\ placed[p] \in [Documents -> Nat]
                                           /\ LineSum(placed[p]) <= amount[p]
  BY <1>3, <1>4, <1>5, <1>6
<1>8. ASSUME NEW p \in Payments, p <= Received
      PROVE  LET new == row(p, c, amount, placed)
             IN  /\ new \in Payment /\ new.life = "active" /\ new.document = 0
                 /\ new.company = c /\ new.amount = amount[p] /\ new.discount = 0
  <2>1. type(placed, p) \in {"on_account", "applied"}
    OBVIOUS
  <2> HIDE DEF type
  <2> QED
    BY <1>3, <1>7, <1>8, <2>1 DEF NewPayment, NoPayment, Payment
<1>9. NoPayment \in Payment /\ NoPayment.life = "absent" /\ NoPayment.document = 0
  BY DEF NoPayment, Payment
<1>10. NoLines \in [Documents -> Nat] /\ \A d \in Documents : NoLines[d] = 0
  BY DEF NoLines
<1>11. \A p \in Payments :
          /\ pays[p] = IF p <= Received THEN row(p, c, amount, placed) ELSE NoPayment
          /\ alloc[p] = IF p <= Received THEN placed[p] ELSE NoLines
  <2> HIDE DEF row
  <2> QED
    BY <1>6
<1>12. pays \in PaymentTable /\ alloc \in AllocationTable
  <2> HIDE DEF row
  <2> QED
    BY <1>6, <1>7, <1>8, <1>9, <1>10 DEF PaymentTable, AllocationTable
<1> HIDE DEF row, ps, al
<1>13. \A d \in Documents : PaidTotal(pays, alloc, d) \in Nat
  BY <1>12, PaidTotalNat
<1>14. ASSUME NEW d \in Documents, NEW paid \in Nat
       PROVE  LET new == WithBalance(doc(d, c, total), paid)
              IN  new \in Document /\ new.life = "live" /\ new.company = c
  <2>1. Pending \in Statuses /\ ~ IsTerminalWriteoffStatus(Pending)
    BY DEF Statuses, IsTerminalWriteoffStatus, Pending, Cancelled, Exonerado
  <2>2. /\ doc(d, c, total) \in Document /\ ~ IsTerminalWriteoffStatus(doc(d, c, total).status)
        /\ doc(d, c, total).life = "live" /\ doc(d, c, total).company = c
    BY <1>3, <2>1 DEF Document
  <2> HIDE DEF doc
  <2>3. WithBalance(doc(d, c, total), paid) = PersistBalanceAndStatus(doc(d, c, total), paid)
    BY <2>2 DEF PersistBalanceAndStatus
  <2> QED
    BY <2>2, <2>3, PersistType
<1> HIDE DEF doc
<1>15. /\ docs \in [Documents -> Document]
       /\ \A d \in Documents : docs[d].life = "live" /\ docs[d].company = c
  BY <1>6, <1>13, <1>14
<1>16. TypeOK
  BY <1>12, <1>15 DEF TypeOK, PaymentTable, AllocationTable
<1>17. AllocationsWithinFunds
  <2> SUFFICES ASSUME NEW p \in Payments PROVE LineSum(alloc[p]) <= Funds(p)
      BY DEF AllocationsWithinFunds
  <2>1. CASE p <= Received
    <3>1. pays[p].life = "active" /\ pays[p].amount = amount[p] /\ pays[p].discount = 0
      BY <1>8, <1>11, <2>1
    <3>2. alloc[p] = placed[p] /\ LineSum(placed[p]) <= amount[p] /\ amount[p] \in Nat
      BY <1>7, <1>11, <2>1
    <3> QED
      BY <3>1, <3>2 DEF Funds, ActivePayment
  <2>2. CASE ~ (p <= Received)
    <3>1. pays[p].life = "absent" /\ alloc[p] = NoLines
      BY <1>9, <1>11, <2>2
    <3> QED
      BY <3>1, NoLinesSum DEF Funds, ActivePayment
  <2> QED
    BY <2>1, <2>2
<1>18. RowsOfActivePayments
  BY <1>8, <1>10, <1>11 DEF RowsOfActivePayments, ActivePayment
<1>19. NoLegacyLinks
  BY <1>8, <1>9, <1>11 DEF NoLegacyLinks
<1>20. MoneyRestsOnOwnDebts
  <2> SUFFICES ASSUME NEW p \in Payments, NEW d \in Documents,
                      alloc[p][d] > 0 \/ (ActivePayment(p) /\ pays[p].document = d)
               PROVE  LiveDocument(d) /\ docs[d].company = pays[p].company
    BY DEF MoneyRestsOnOwnDebts
  <2>1. alloc[p][d] > 0
    BY <1>19, ZeroIsNull DEF NoLegacyLinks
  <2>2. p <= Received
    BY <1>10, <1>11, <2>1
  <2> QED
    BY <1>8, <1>11, <1>15, <2>2 DEF LiveDocument
<1> QED
  BY <1>16, <1>17, <1>18, <1>19, <1>20 DEF TablesInv

LEMMA InitTxInv == TxInit => TxInv
<1> SUFFICES ASSUME TxInit PROVE TxInv
    OBVIOUS
<1>1. tx = [t \in Requests |-> Idle]
  BY DEF TxInit
<1>2. /\ Idle \in Transactions /\ Idle.held = {} /\ Idle.payment = 0
      /\ HoldsLive(Idle) /\ CompaniesStay(Idle) /\ Prepared(Idle) /\ Orderly(Idle)
  BY IdleTyped DEF HoldsNothing
<1>3. tx \in [Requests -> Transactions] /\ \A t \in Requests : tx[t] = Idle
  BY <1>1, <1>2
<1>4. PaymentsHeldByOne /\ DebtsHeldByOne
  BY <1>2, <1>3 DEF PaymentsHeldByOne, DebtsHeldByOne
<1>5. \A t \in Requests : /\ HoldsLive(tx[t]) /\ CompaniesStay(tx[t]) /\ Prepared(tx[t])
                          /\ Orderly(tx[t])
  BY <1>2, <1>3
<1> QED
  BY <1>3, <1>4, <1>5, InitTables DEF TxInv

LEMMA StutterKeeps ==
    ASSUME TxInv, UNCHANGED txVars
    PROVE  TxInv'
<1>1. docs' = docs /\ pays' = pays /\ alloc' = alloc /\ tx' = tx
  BY DEF txVars
<1>2. TablesInv'
  BY <1>1 DEF TxInv, TablesInv, TypeOK, AllocationsWithinFunds, RowsOfActivePayments,
              MoneyRestsOnOwnDebts, NoLegacyLinks, Funds, ActivePayment, LiveDocument
<1>3. ASSUME NEW u \in Requests
      PROVE  (HoldsLive(tx[u]) /\ CompaniesStay(tx[u]) /\ Prepared(tx[u]) /\ Orderly(tx[u]))'
  BY <1>1 DEF TxInv, Orderly, HoldsLive, CompaniesStay, Prepared, HoldsNothing, Locking, WillHold,
              PreparedApply, PreparedAllocate, PreparedVoid, PreparedDelete, PreparedPlain,
              PreparedEdit, ValidAllocations, CanAllocate, HasPayments, ActivePayment, Available,
              LiveDocument
<1> QED
  BY <1>1, <1>2, <1>3 DEF TxInv, PaymentsHeldByOne, DebtsHeldByOne

LEMMA TxNextKeeps == TxInv /\ [TxNext]_txVars => TxInv'
<1> SUFFICES ASSUME TxInv, [TxNext]_txVars PROVE TxInv'
    OBVIOUS
<1>1. ASSUME NEW t \in Requests, Begin(t) PROVE TxInv'
  BY <1>1, BeginKeeps
<1>2. ASSUME NEW t \in Requests, LockPayment(t) PROVE TxInv'
  BY <1>2, LockPaymentKeeps
<1>3. ASSUME NEW t \in Requests, LockDocument(t) PROVE TxInv'
  BY <1>3, LockDocumentKeeps
<1>4. ASSUME NEW t \in Requests, Validate(t) PROVE TxInv'
  BY <1>4, ValidateKeeps
<1>5. ASSUME NEW t \in Requests, Commit(t) PROVE TxInv'
  BY <1>5, CommitApplyKeeps, CommitAllocateKeeps, CommitVoidKeeps, CommitDeleteKeeps,
     CommitWriteOffKeeps, CommitEditKeeps DEF Commit
<1>6. ASSUME NEW t \in Requests, DeleteItems(t) \/ InsertItems(t) \/ Victim(t) PROVE TxInv'
  BY <1>6, DeleteItemsKeeps, InsertItemsKeeps, RollbackKeeps DEF Victim
<1>7. CASE UNCHANGED txVars
  BY <1>7, StutterKeeps
<1> QED
  BY <1>1, <1>2, <1>3, <1>4, <1>5, <1>6, <1>7 DEF TxNext, Advance, Quiet

\* The inductive invariant of the concurrent transactions: the tables are sound, no
\* row is held twice or lost while it is held, and what a request has checked
\* under its locks is still so when it writes.
THEOREM TransactionsInductive == TxSpec => []TxInv
<1> QED
  BY InitTxInv, TxNextKeeps, PTL DEF TxSpec

\* However requests interleave, no cent pays two debts: what a payment brings to
\* all the debts together never exceeds its funds (FOR UPDATE of the payment in
\* AllocateExistingPaymentTx), for every number of requests.
THEOREM CountedOnceConcurrently == TxSpec => []MoneyCountedOnce
<1>1. TxInv => MoneyCountedOnce
  BY CountedOnce DEF TxInv, TablesInv
<1> QED
  BY <1>1, TransactionsInductive, PTL

\* However requests interleave, money rests on live debts of the company that paid:
\* a debt is never deleted under a payment that is being applied to it, nor the
\* other way round (LockDocumentsForUpdateAsc), for every number of requests.
THEOREM OwnDebtsConcurrently == TxSpec => []MoneyRestsOnOwnDebts
<1>1. TxInv => MoneyRestsOnOwnDebts
  BY DEF TxInv, TablesInv
<1> QED
  BY <1>1, TransactionsInductive, PTL

-----------------------------------------------------------------------------
(* A payment without a discount and a deletion act as if they ran alone. *)

LEMMA ApplyActsAlone ==
    ASSUME TxInv, NEW t \in Requests, CommitApply(t), tx[t].req.discount = 0
    PROVE  ApplyPayment(tx[t].req.company, tx[t].req.amount, 0, "deuda", tx[t].req.lines)
<1> DEFINE x == tx[t]
           r == tx[t].req
           row == NewPayment("applied", r.company, r.amount, r.discount, "deuda")
<1>1. /\ x \in Transactions /\ r \in RequestTypes /\ x.stage = "writing" /\ r.op = "apply"
      /\ Prepared(x)
  BY DEF TxInv, CommitApply, Writing, Transactions
<1>2. PreparedApply(x)
  BY <1>1 DEF Prepared
<1>3. /\ x.held = LineDocuments(r.lines) /\ ValidAllocations(r.company, r.lines)
      /\ LineSum(r.lines) <= r.amount + r.discount /\ x.view = <<>>
  BY <1>1, <1>2 DEF PreparedApply, WillHold
<1>4. PICK p \in Payments : NextPayment(p) /\ Post(t, p, row, r.lines, x.held)
  BY DEF CommitApply
<1>5. ValidAmounts(r.amount, 0, r.lines)
  BY <1>1, <1>3 DEF ValidAmounts, RequestTypes
<1>6. Snapshot(t).docs = docs /\ Snapshot(t).pays = pays /\ Snapshot(t).alloc = alloc
  BY <1>3 DEF Snapshot, Tables
<1>7. /\ pays' = [pays EXCEPT ![p] = row] /\ alloc' = [alloc EXCEPT ![p] = r.lines]
      /\ docs' = [d \in Documents |-> IF d \in x.held THEN Recomputed(t, d, pays', alloc') ELSE docs[d]]
  BY <1>4, <1>6 DEF Post
<1>8. \A d \in Documents :
         Recomputed(t, d, pays', alloc') = PersistBalanceAndStatus(docs[d], PaidTotal(pays', alloc', d))
  BY <1>6 DEF Recomputed, PersistBalanceAndStatus, WithBalance
<1>9. docs' = Persisted(LineDocuments(r.lines), pays', alloc')
  BY <1>3, <1>7, <1>8 DEF Persisted
<1>10. row = NewPayment("applied", r.company, r.amount, 0, "deuda")
  OBVIOUS
<1> QED
  BY <1>3, <1>4, <1>5, <1>7, <1>9, <1>10 DEF ApplyPayment

LEMMA DeleteActsAlone ==
    ASSUME TxInv, NEW t \in Requests, CommitDelete(t)
    PROVE  DeleteDocument(tx[t].req.document)
BY DeletePrepared DEF CommitDelete, DeleteDocument

\* Only its own commit ends a request that is writing.
LEMMA OnlyCommitEnds ==
    ASSUME TxInv, TxNext, NEW t \in Requests, tx[t].stage = "writing", tx'[t].stage = "over",
           tx[t].req.op \in {"apply", "delete"}
    PROVE  Commit(t)
<1>1. ~ Quiet
  BY DEF Quiet, txVars
<1>2. PICK u \in Requests : Begin(u) \/ Advance(u)
  BY <1>1 DEF TxNext
<1>3. PICK next : tx' = [tx EXCEPT ![u] = next]
  <2>1. ASSUME Begin(u) PROVE \E next : tx' = [tx EXCEPT ![u] = next]
    BY <2>1 DEF Begin, BeginApply, BeginAllocate, BeginVoid, BeginDelete, BeginWriteOff, BeginEdit, Move
  <2>2. ASSUME Advance(u) PROVE \E next : tx' = [tx EXCEPT ![u] = next]
    BY <2>2 DEF Advance, LockPayment, LockDocument, Validate, Commit, CommitApply, CommitAllocate,
                CommitVoid, CommitDelete, CommitWriteOff, CommitEdit, Post, Move, Rollback, Over,
                DeleteItems, InsertItems, Victim
  <2> QED
    BY <1>2, <2>1, <2>2
<1>4. u = t
  BY <1>3 DEF TxInv
<1>5. ~ Victim(t)
  <2>1. \A v \in Requests : ~ WaitsFor(t, v)
    BY DEF WaitsFor, Wanted, Shared, TxInv, Orderly
  <2> QED
    BY <2>1 DEF Victim, Deadlock
<1> QED
  BY <1>2, <1>4, <1>5 DEF Begin, BeginApply, BeginAllocate, BeginVoid, BeginDelete, BeginWriteOff,
                    BeginEdit, Advance, LockPayment, LockDocument, Validate, DeleteItems, InsertItems

\* Whatever runs beside it, a payment applied without a discount or a debt deleted
\* takes effect as the serial handler of DebtLedger would at the moment of its
\* commit (ValidateAllocationsTx and DocumentService.Delete run under the locks),
\* for every number of requests, debts and payments.
THEOREM SerialAtCommit == TxSpec => TakesEffectAtCommit
<1> DEFINE Effect(t) ==
               LET r == tx[t].req
               IN  tx[t].stage = "writing" /\ tx'[t].stage = "over"
                   => /\ r.op = "apply" /\ r.discount = 0
                         => ApplyPayment(r.company, r.amount, 0, "deuda", r.lines)
                      /\ r.op = "delete" => DeleteDocument(r.document)
<1>1. ASSUME TxInv, [TxNext]_txVars PROVE [\A t \in Requests : Effect(t)]_txVars
  <2>1. CASE UNCHANGED txVars
    BY <2>1
  <2>2. ASSUME TxNext, NEW t \in Requests, tx[t].stage = "writing", tx'[t].stage = "over"
        PROVE  /\ tx[t].req.op = "apply" /\ tx[t].req.discount = 0
                  => ApplyPayment(tx[t].req.company, tx[t].req.amount, 0, "deuda", tx[t].req.lines)
               /\ tx[t].req.op = "delete" => DeleteDocument(tx[t].req.document)
    <3>1. tx[t].req.op \in {"apply", "delete"} => Commit(t)
      BY <1>1, <2>2, OnlyCommitEnds
    <3>2. ASSUME tx[t].req.op = "apply", tx[t].req.discount = 0
          PROVE  ApplyPayment(tx[t].req.company, tx[t].req.amount, 0, "deuda", tx[t].req.lines)
      <4>1. CommitApply(t)
        BY <3>1, <3>2 DEF Commit, CommitApply, CommitAllocate, CommitVoid, CommitDelete,
                          CommitWriteOff, CommitEdit, Writing
      <4> QED
        BY <1>1, <3>2, <4>1, ApplyActsAlone
    <3>3. ASSUME tx[t].req.op = "delete" PROVE DeleteDocument(tx[t].req.document)
      <4>1. CommitDelete(t)
        BY <3>1, <3>3 DEF Commit, CommitApply, CommitAllocate, CommitVoid, CommitDelete,
                          CommitWriteOff, CommitEdit, Writing
      <4> QED
        BY <1>1, <4>1, DeleteActsAlone
    <3> QED
      BY <3>2, <3>3
  <2> QED
    BY <1>1, <2>1, <2>2
<1> QED
  BY <1>1, TransactionsInductive, PTL DEF TxSpec, TakesEffectAtCommit

-----------------------------------------------------------------------------
(* Each commit is one step of the payment book. *)

LEMMA TxFunded == TxInv => Funded
BY DEF TxInv, TablesInv, Funded

\* Tables that stay leave the book alone.
LEMMA BookRests ==
    ASSUME UNCHANGED <<pays, alloc>>
    PROVE  UNCHANGED Book!bookVars
<1>1. BookState' = BookState /\ BookFunds' = BookFunds /\ BookPlaced' = BookPlaced
  BY DEF BookState, BookFunds, BookPlaced, Funds, ActivePayment, Contribution
<1> QED
  BY <1>1, BookVars DEF Book!bookVars, BookState, BookFunds, BookPlaced

\* A posted payment is the only one that changes.
LEMMA PostedAlone ==
    ASSUME TxInv, NEW t, NEW p \in Payments, NEW row, NEW lines, NEW debts,
           Post(t, p, row, lines, debts)
    PROVE  /\ pays'[p] = row /\ alloc'[p] = lines
           /\ \A q \in Payments \ {p} : pays'[q] = pays[q] /\ alloc'[q] = alloc[q]
BY DEF Post, TxInv, TablesInv, TypeOK

LEMMA CommitApplyBook ==
    ASSUME TxInv, TxInv', NEW t \in Requests, CommitApply(t)
    PROVE  Book!BookNext
<1> DEFINE r == tx[t].req
           row == NewPayment("applied", r.company, r.amount, r.discount, "deuda")
<1>1. PICK p \in Payments : NextPayment(p) /\ Post(t, p, row, r.lines, tx[t].held)
  BY DEF CommitApply
<1>2. row.life = "active"
  BY DEF NewPayment, NoPayment
<1> HIDE DEF row
<1>3. /\ pays'[p] = row
      /\ \A q \in Payments \ {p} : pays'[q] = pays[q] /\ alloc'[q] = alloc[q]
  BY <1>1, PostedAlone
<1>4. pays[p].life = "absent" /\ pays'[p].life = "active"
  BY <1>1, <1>2, <1>3 DEF NextPayment
<1>5. Funded'
  BY TxFunded, PTL
<1>6. Book!Receive(p)
  BY <1>3, <1>4, <1>5, BookReceive
<1> QED
  BY <1>6, BookNextIntro

LEMMA CommitAllocateBook ==
    ASSUME TxInv, TxInv', NEW t \in Requests, CommitAllocate(t)
    PROVE  Book!BookNext
<1>1. /\ tx[t] \in Transactions /\ tx[t].req \in RequestTypes /\ tx[t].stage = "writing"
      /\ tx[t].req.op = "allocate" /\ Prepared(tx[t])
  BY DEF TxInv, CommitAllocate, Writing, Transactions
<1>2. PreparedAllocate(tx[t]) /\ tx[t].req.payment \in Payments
  BY <1>1 DEF Prepared, RequestTypes
<1>3. PICK p \in Payments, l \in [Documents -> Nat] : p = tx[t].req.payment /\ l = tx[t].req.lines
  BY <1>1, <1>2 DEF RequestTypes
<1> DEFINE row == [pays[p] EXCEPT !.type = "applied"]
           lines == [d \in Documents |-> alloc[p][d] + l[d]]
<1>4. /\ pays[p] \in Payment /\ pays[p].life = "active" /\ pays[p].document = 0
      /\ alloc[p] \in [Documents -> Nat]
  BY <1>1, <1>2, <1>3 DEF PreparedAllocate, TxInv, TablesInv, TypeOK, NoLegacyLinks,
                          CanAllocate, ActivePayment
<1>5. /\ row.life = "active" /\ row.document = 0 /\ row.amount = pays[p].amount
      /\ row.discount = pays[p].discount
  BY <1>4 DEF Payment
<1>6. \A d \in Documents : lines[d] = alloc[p][d] + l[d]
  OBVIOUS
<1>7. Post(t, p, row, lines, tx[t].held)
  BY <1>3 DEF CommitAllocate
<1> HIDE DEF row, lines
<1>8. /\ pays'[p] = row /\ alloc'[p] = lines
      /\ \A q \in Payments \ {p} : pays'[q] = pays[q] /\ alloc'[q] = alloc[q]
  BY <1>7, PostedAlone
<1>9. Funds(p)' = Funds(p)
  BY <1>4, <1>5, <1>8 DEF Funds, ActivePayment
<1>10. ASSUME NEW d \in Documents
       PROVE  Contribution(pays, alloc, p, d) <= Contribution(pays', alloc', p, d)
  <2>1. alloc[p][d] <= alloc'[p][d] /\ alloc'[p][d] \in Nat /\ alloc[p][d] \in Nat
    BY <1>4, <1>6, <1>8
  <2>2. Contribution(pays, alloc, p, d) = alloc[p][d]
    BY <1>4, <2>1, ZeroIsNull DEF Contribution, HasAllocations
  <2>3. alloc'[p][d] > 0 => HasAllocations(alloc', p)
    BY DEF HasAllocations
  <2>4. Contribution(pays', alloc', p, d) = alloc'[p][d]
    BY <1>5, <1>8, <2>1, <2>3, ZeroIsNull DEF Contribution
  <2> QED
    BY <2>1, <2>2, <2>4
<1>11. Funded'
  BY TxFunded, PTL
<1>12. Book!Place(p)
  BY <1>4, <1>5, <1>8, <1>9, <1>10, <1>11, BookPlace
<1> QED
  BY <1>12, BookNextIntro

LEMMA CommitVoidBook ==
    ASSUME TxInv, NEW t \in Requests, CommitVoid(t)
    PROVE  Book!BookNext
<1>1. /\ tx[t] \in Transactions /\ tx[t].req \in RequestTypes /\ tx[t].stage = "writing"
      /\ tx[t].req.op = "void" /\ Prepared(tx[t]) /\ HoldsLive(tx[t])
  BY DEF TxInv, CommitVoid, Writing, Transactions
<1>2. /\ tx[t].req.payment # 0 /\ tx[t].req.payment \in Payments
      /\ tx[t].payment = tx[t].req.payment
  BY <1>1 DEF Prepared, PreparedVoid, RequestTypes
<1>3. PICK p \in Payments : p = tx[t].req.payment
  BY <1>2
<1> DEFINE row == [pays[p] EXCEPT !.life = "voided"]
<1>4. pays[p] \in Payment /\ pays[p].life = "active"
  BY <1>1, <1>2, <1>3 DEF HoldsLive, ActivePayment, TxInv, TablesInv, TypeOK
<1>5. row.life = "voided"
  BY <1>4 DEF Payment
<1>6. Post(t, p, row, NoLines, tx[t].held)
  BY <1>3 DEF CommitVoid
<1> HIDE DEF row
<1>7. /\ pays'[p] = row
      /\ \A q \in Payments \ {p} : pays'[q] = pays[q] /\ alloc'[q] = alloc[q]
  BY <1>6, PostedAlone
<1>8. Book!Void(p)
  BY <1>4, <1>5, <1>7, BookVoid
<1> QED
  BY <1>8, BookNextIntro

LEMMA TxBookStep ==
    ASSUME TxInv, TxInv', [TxNext]_txVars
    PROVE  [Book!BookNext]_(Book!bookVars)
<1>1. ASSUME NEW t \in Requests,
             \/ Begin(t) \/ LockPayment(t) \/ LockDocument(t) \/ Validate(t)
             \/ DeleteItems(t) \/ InsertItems(t) \/ Victim(t)
      PROVE  UNCHANGED <<pays, alloc>>
  BY <1>1 DEF Begin, BeginApply, BeginAllocate, BeginVoid, BeginDelete, BeginWriteOff, BeginEdit,
              LockPayment, LockDocument, Validate, DeleteItems, InsertItems, Victim, Move, Rollback, vars
<1>2. ASSUME NEW t \in Requests, CommitDelete(t) \/ CommitWriteOff(t) \/ CommitEdit(t)
      PROVE  UNCHANGED <<pays, alloc>>
  BY <1>2 DEF CommitDelete, CommitWriteOff, CommitEdit
<1>3. CASE Quiet \/ UNCHANGED txVars
  BY <1>3, BookRests DEF Quiet, txVars
<1>4. ASSUME NEW t \in Requests, CommitApply(t) \/ CommitAllocate(t) \/ CommitVoid(t)
      PROVE  Book!BookNext
  BY <1>4, CommitApplyBook, CommitAllocateBook, CommitVoidBook
<1> QED
  BY <1>1, <1>2, <1>3, <1>4, BookRests DEF TxNext, Advance, Commit

\* Whatever interleaves, each commit is one step of the payment book, for every
\* number of requests, debts and payments: money placed on a debt stays there
\* until its payment is voided, within its funds, and voiding is final.
THEOREM BookKeptConcurrently == TxSpec => CommitsKeepPaymentBook
<1>1. TxInv /\ TxInv' /\ [TxNext]_txVars => [Book!BookNext]_(Book!bookVars)
  BY TxBookStep
<1> QED
  BY <1>1, TransactionsInductive, PTL DEF TxSpec, CommitsKeepPaymentBook
-----------------------------------------------------------------------------
(* Who waits for whom. *)

\* The greatest element of a set of ids.
LEMMA GreatestIn ==
    ASSUME NEW S \in SUBSET Documents, S # {}
    PROVE  \E m \in S : \A e \in S : e <= m
<1> DEFINE B == {n \in Nat : \E m \in S : m >= n}
<1>1. S \subseteq Nat /\ MaxDocuments \in Nat /\ \A m \in S : m <= MaxDocuments
  <2>1. S \subseteq Nat /\ MaxDocuments \in Nat
    BY BoundsNat DEF Documents
  <2>2. ASSUME NEW m \in S PROVE m <= MaxDocuments
    BY DEF Documents
  <2> QED
    BY <2>1, <2>2
<1>2. 0 \in B
  <2>1. PICK m \in S : TRUE
    OBVIOUS
  <2>2. m \in Nat /\ m >= 0
    BY <1>1
  <2> QED
    BY <2>1, <2>2
<1>3. MaxDocuments + 1 \in Nat /\ MaxDocuments + 1 \notin B
  BY <1>1
<1>4. ~ (\A n \in Nat : n \in B => n + 1 \in B)
  <2> HIDE DEF B
  <2> QED
    BY <1>2, <1>3, NatInductionSet
<1>5. PICK n \in Nat : n \in B /\ n + 1 \notin B
  BY <1>4
<1>6. PICK m \in S : m >= n
  BY <1>5
<1>7. \A e \in S : e <= n
  BY <1>1, <1>5
<1> QED
  BY <1>1, <1>6, <1>7

LineEdit(t) == tx[t].req.op = "edit" /\ tx[t].req.items # "kept"

\* A request that edits no lines holds the debt whose lines it asks for.
LEMMA WithoutLineEdit ==
    ASSUME TxInv, NEW t \in Requests, ~ LineEdit(t)
    PROVE  /\ Shared(tx[t]) = {} /\ tx[t].stage # "inserting"
           /\ ItemsOf(tx[t]) \subseteq tx[t].held
           /\ tx[t].stage = "items" => tx[t].req.document \in tx[t].held
           /\ tx[t].stage = "paying" => HoldsNothing(tx[t]) /\ tx[t].req.payment # 0
<1> DEFINE x == tx[t]
<1>1. x \in Transactions /\ Prepared(x) /\ Orderly(x)
  BY DEF TxInv
<1>2. x.stage = "paying" => HoldsNothing(x) /\ x.req.payment # 0
  BY <1>1 DEF Prepared, PreparedApply, PreparedAllocate, PreparedVoid, PreparedDelete,
              PreparedPlain, PreparedEdit, Locking
<1>3. x.req.items # "kept" => x.req.op = "delete" /\ x.req.items = "cleared"
  BY <1>1 DEF Orderly, LineEdit
<1>4. Shared(x) = {}
  BY <1>3 DEF Shared
<1>5. ASSUME x.req.op = "delete", x.stage \in {"items", "inserting", "writing"}
      PROVE  x.stage # "inserting" /\ x.req.document \in x.held
  <2>1. PreparedDelete(x)
    BY <1>1, <1>5 DEF Prepared
  <2> QED
    BY <1>5, <2>1 DEF PreparedDelete, WillHold
<1>6. x.stage \in {"items", "inserting"} => x.req.op = "delete"
  BY <1>1, <1>3 DEF Orderly
<1>7. ItemsOf(x) \subseteq x.held
  BY <1>3, <1>5 DEF ItemsOf
<1> QED
  BY <1>2, <1>4, <1>5, <1>6, <1>7

\* Without edits of lines, what a request waits for is a payment or a greater debt.
LEMMA NoCircleOfMoney ==
    ASSUME TxInv, NEW group \in SUBSET Requests, group # {}, \A t \in group : ~ LineEdit(t)
    PROVE  ~ Deadlock(group)
<1> SUFFICES ASSUME Deadlock(group) PROVE FALSE
  OBVIOUS
<1> DEFINE Asked(t, u) == {d \in Documents : d \in Wanted(tx[t]) /\ d \in tx[u].held}
           W == {d \in Documents : \E t, u \in group : d \in Asked(t, u)}
<1>1. ASSUME NEW t \in group, NEW u \in group, WaitsFor(t, u)
      PROVE  \/ tx[t].stage = "paying" /\ tx[u].payment # 0
             \/ Asked(t, u) # {}
  <2>1. t # u /\ t \in Requests /\ u \in Requests /\ tx[u] \in Transactions
    BY <1>1 DEF WaitsFor, TxInv
  <2>2. /\ Shared(tx[t]) = {} /\ Shared(tx[u]) = {} /\ tx[t].stage # "inserting"
        /\ ItemsOf(tx[u]) \subseteq tx[u].held
        /\ tx[t].stage = "items" => tx[t].req.document \in tx[t].held
        /\ tx[t].stage = "paying" => tx[t].req.payment # 0
    BY <2>1, WithoutLineEdit
  <2>3. tx[t].held \cap tx[u].held = {}
    BY <2>1 DEF TxInv, DebtsHeldByOne
  <2>4. CASE tx[t].stage = "paying" /\ tx[t].req.payment = tx[u].payment
    BY <2>2, <2>4
  <2>5. CASE Wanted(tx[t]) \cap (tx[u].held \cup Shared(tx[u])) # {}
    <3>1. PICK d \in tx[u].held : d \in Wanted(tx[t])
      BY <2>2, <2>5
    <3>2. d \in Documents
      BY <2>1 DEF Transactions
    <3> QED
      BY <3>1, <3>2
  <2>6. CASE tx[t].stage = "items" /\ tx[t].req.document \in ItemsOf(tx[u])
    BY <2>2, <2>3, <2>6
  <2> QED
    BY <1>1, <2>2, <2>4, <2>5, <2>6 DEF WaitsFor
<1>2. \A t \in group : \E u \in group : WaitsFor(t, u)
  BY DEF Deadlock
<1>3. ASSUME NEW t \in group, ~ HoldsNothing(tx[t])
      PROVE  \E u \in group : Asked(t, u) # {}
  <2>1. tx[t].stage # "paying"
    BY <1>3, WithoutLineEdit
  <2>2. PICK u \in group : WaitsFor(t, u)
    BY <1>2
  <2> QED
    BY <1>1, <2>1, <2>2
<1>4. W # {}
  <2>1. PICK t \in group : TRUE
    OBVIOUS
  <2>2. PICK u \in group : WaitsFor(t, u)
    BY <1>2
  <2>3. CASE Asked(t, u) # {}
    BY <2>3
  <2>4. CASE tx[u].payment # 0
    <3>1. ~ HoldsNothing(tx[u])
      BY <2>4 DEF HoldsNothing
    <3>2. PICK v \in group : Asked(u, v) # {}
      BY <1>3, <3>1
    <3> QED
      BY <3>2
  <2> QED
    BY <1>1, <2>2, <2>3, <2>4
<1>5. PICK d \in W : \A e \in W : e <= d
  <2> HIDE DEF W
  <2>1. W \in SUBSET Documents
    BY DEF W
  <2> QED
    BY <1>4, <2>1, GreatestIn
<1>6. PICK t \in group, u \in group : d \in Asked(t, u)
  OBVIOUS
<1>7. d \in tx[u].held
  BY <1>6
<1>8. ~ HoldsNothing(tx[u])
  BY <1>7 DEF HoldsNothing
<1>9. PICK v \in group : Asked(u, v) # {}
  BY <1>3, <1>8
<1>10. PICK e \in Asked(u, v) : TRUE
  BY <1>9
<1>11. e \in W /\ e \in Wanted(tx[u]) /\ e \in Documents /\ d \in Documents
  BY <1>10
<1>12. tx[u] \in Transactions /\ Prepared(tx[u]) /\ Orderly(tx[u])
  BY DEF TxInv
<1>13. ~ (tx[u].stage = "writing" /\ tx[u].req.op \in {"edit", "writeoff"})
  BY <1>8, <1>12 DEF Prepared, PreparedPlain, PreparedEdit
<1>14. tx[u].ahead # {} /\ e \in LockOrder(tx[u].ahead)
  BY <1>11, <1>13 DEF Wanted
<1>15. e \in tx[u].ahead
  <2>1. tx[u].ahead \in SUBSET Documents
    BY <1>12 DEF Transactions
  <2> QED
    BY <1>14, <2>1, LeastIn DEF LockOrder
<1>16. d < e
  BY <1>7, <1>12, <1>15 DEF Orderly
<1>17. e <= d
  BY <1>5, <1>11
<1>18. d \in Nat /\ e \in Nat
  BY <1>11, BoundsNat DEF Documents
<1> QED
  BY <1>16, <1>17, <1>18

\* For every number of requests, debts and payments: when requests wait for each
\* other in a circle, an edit of a debt's lines is among them. The locks on
\* payments and debts alone, which move the money, never close one.
THEOREM OnlyLineEdits == TxSpec => []OnlyLineEditsDeadlock
<1>1. TxInv => OnlyLineEditsDeadlock
  BY NoCircleOfMoney DEF OnlyLineEditsDeadlock, LineEdit
<1> QED
  BY <1>1, TransactionsInductive, PTL

=============================================================================
