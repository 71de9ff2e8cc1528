------------------------------ MODULE LedgerTx ------------------------------
(***************************************************************************)
(* The requests of DebtLedger as they run: concurrent InnoDB transactions  *)
(* at REPEATABLE READ over the same tables.                                *)
(*                                                                         *)
(*   - a plain SELECT reads the snapshot its transaction took at its first *)
(*     plain read (view), with the transaction's own writes on top;        *)
(*   - SELECT ... FOR UPDATE and UPDATE read the latest commit, and wait   *)
(*     while another transaction holds the row;                            *)
(*   - locks are held, and writes stay private, until commit or rollback;  *)
(*   - a DELETE locks the rows it finds, or else only the gap, which       *)
(*     others may lock too but not insert into; an INSERT of a row that    *)
(*     refers to another one locks that one in share mode;                 *)
(*   - of requests that wait for each other InnoDB rolls one back.         *)
(*                                                                         *)
(* docs, pays and alloc are the committed tables. Statements that neither  *)
(* wait nor read what others write are merged with the step before them.   *)
(***************************************************************************)
EXTENDS DebtLedger, FiniteSetsExt

CONSTANTS
    Requests,   \* bound: the requests that arrive, each served once
    Programs,   \* the handlers they may call
    EditedTo,   \* bound: the statuses an edit may set
    Received    \* bound: payments 1 .. Received were already there

ASSUME TxAssumption ==
    /\ Programs \subseteq {"apply", "allocate", "void", "delete", "writeoff", "edit"}
    /\ EditedTo \subseteq Statuses \ {Exonerado}
    /\ Received \in 0 .. MaxPayments

VARIABLE tx     \* the transaction of each request

txVars == <<docs, pays, alloc, tx>>

NoRequest == [op |-> "none", company |-> 0, payment |-> 0, document |-> 0, lines |-> NoLines,
              amount |-> 0, discount |-> 0, total |-> 0, status |-> Pending,
              items |-> "kept",     \* what becomes of the debt's document_items
              found |-> FALSE]      \* their DELETE finds rows

Idle == [stage |-> "idle", req |-> NoRequest,
         view |-> <<>>,     \* <<>>, or <<the snapshot>>
         payment |-> 0,     \* the payment row it holds FOR UPDATE
         ahead |-> {},      \* the debts it has still to lock
         held |-> {}]       \* the debts it holds FOR UPDATE

Request(op) == [NoRequest EXCEPT !.op = op]

ApplyRequests ==
    {[Request("apply") EXCEPT !.company = c, !.amount = a, !.discount = k, !.lines = l] :
        c \in Companies, a \in Amounts, k \in Discounts, l \in Lines}

AllocateRequests ==
    {[Request("allocate") EXCEPT !.payment = p, !.lines = l] : p \in Payments, l \in Lines}

VoidRequests == {[Request("void") EXCEPT !.payment = p] : p \in Payments}

DeleteRequests ==
    {[Request("delete") EXCEPT !.document = d, !.items = "cleared", !.found = f] :
        d \in Documents, f \in BOOLEAN}

WriteOffRequests ==
    {[Request("writeoff") EXCEPT !.document = d, !.status = st] :
        d \in Documents, st \in {Exonerado, Cancelled}}

EditRequests ==
    {[Request("edit") EXCEPT !.document = d, !.total = n, !.status = st, !.items = i[1], !.found = i[2]] :
        d \in Documents, n \in Totals, st \in EditedTo,
        i \in {<<"kept", FALSE>>} \cup {"cleared", "replaced"} \X BOOLEAN}

Tables == [docs |-> docs, pays |-> pays, alloc |-> alloc]

\* What a plain read of request t sees: its snapshot, or a new one.
Snapshot(t) == IF tx[t].view = <<>> THEN Tables ELSE tx[t].view[1]

Over(t) == tx' = [tx EXCEPT ![t] = [Idle EXCEPT !.stage = "over"]]

\* Mutant of Rollback: the handler answers and leaves its transaction open.
RollbackNever(t) == tx' = [tx EXCEPT ![t].stage = "over"] /\ UNCHANGED vars

\* Rolling back releases the locks and leaves the tables alone.
Rollback(t) == Over(t) /\ UNCHANGED vars

Move(t, next) == tx' = [tx EXCEPT ![t] = next] /\ UNCHANGED vars

-----------------------------------------------------------------------------
(* A request arrives and runs up to the first row it may have to wait for. *)

\* Mutant of FirstView: the snapshot is taken before the locks.
FirstViewAlways(r) == <<Tables>>

\* Only a discount makes ApplyPaymentTx read plainly before it locks.
FirstView(r) == IF r.discount > 0 THEN <<Tables>> ELSE <<>>

BeginApply(t, r) ==
    /\ tx[t].stage = "idle" /\ r \in ApplyRequests
    /\ LineDocuments(r.lines) # {}
    /\ ValidAmounts(r.amount, r.discount, r.lines)
    /\ Move(t, [Idle EXCEPT !.stage = "locking", !.req = r, !.view = FirstView(r),
                            !.ahead = LineDocuments(r.lines)])

BeginAllocate(t, r) ==
    /\ tx[t].stage = "idle" /\ r \in AllocateRequests
    /\ LineDocuments(r.lines) # {}
    /\ Move(t, [Idle EXCEPT !.stage = "paying", !.req = r])

BeginVoid(t, r) ==
    /\ tx[t].stage = "idle" /\ r \in VoidRequests
    /\ Move(t, [Idle EXCEPT !.stage = "paying", !.req = r])

BeginDelete(t, r) ==
    /\ tx[t].stage = "idle" /\ r \in DeleteRequests
    /\ Move(t, [Idle EXCEPT !.stage = "locking", !.req = r, !.ahead = {r.document}])

\* The write-off and the edit check everything on a plain read.
BeginWriteOff(t, r) ==
    /\ tx[t].stage = "idle" /\ r \in WriteOffRequests
    /\ CanWriteOff(r.document)
    /\ Move(t, [Idle EXCEPT !.stage = "writing", !.req = r, !.view = <<Tables>>])

BeginEdit(t, r) ==
    /\ tx[t].stage = "idle" /\ r \in EditRequests
    /\ LiveDocument(r.document) /\ ~ IsTerminalWriteoffStatus(docs[r.document].status)
    /\ Move(t, [Idle EXCEPT !.stage = IF r.items = "kept" THEN "writing" ELSE "items",
                            !.req = r, !.view = <<Tables>>])

-----------------------------------------------------------------------------
(* Locks: the payment first, then the debts in ascending order of id. The *)
(* lines of a debt are locked before it by an edit, after it by a deletion. *)

\* The debt whose document_items, or whose gap for them, transaction x holds.
ItemsOf(x) ==
    IF x.req.items # "kept" /\ x.stage \in {"inserting", "writing"} THEN {x.req.document} ELSE {}

\* The debt that new lines refer to, locked in share mode by the foreign key.
Shared(x) ==
    IF x.req.items = "replaced" /\ x.stage = "writing" THEN {x.req.document} ELSE {}

\* Mutant of PaymentFree: AllocateExistingPaymentTx reads the payment without FOR UPDATE.
PaymentFreeUnlocked(t, p) == TRUE

PaymentFree(t, p) == \A u \in Requests \ {t} : tx[u].payment # p

\* Mutant of DocumentFree: the debts are read without FOR UPDATE.
DocumentFreeUnlocked(t, d) == TRUE

DocumentFree(t, d) == \A u \in Requests \ {t} : d \notin tx[u].held \cup Shared(tx[u])

\* The first plain read follows the lock of the payment at once: in between,
\* nobody else changes its row or its allocations.
LockPayment(t) ==
    LET r == tx[t].req
        goOn(debts) == Move(t, [tx[t] EXCEPT !.stage = "locking", !.view = <<Tables>>,
                                             !.payment = r.payment, !.ahead = debts])
    IN  /\ tx[t].stage = "paying"
        /\ PaymentFree(t, r.payment)
        /\ \/ r.op = "allocate" /\ CanAllocate(r.payment, r.lines) /\ goOn(LineDocuments(r.lines))
           \/ r.op = "allocate" /\ ~ CanAllocate(r.payment, r.lines) /\ Rollback(t)
           \/ r.op = "void" /\ ActivePayment(r.payment) /\ goOn(TouchedBy(r.payment))
           \/ r.op = "void" /\ ~ ActivePayment(r.payment) /\ Rollback(t)

\* Mutant of LockOrder: the debts are locked in the order the request names them.
LockOrderAny(debts) == debts

LockOrder(debts) == {Min(debts)}

LockDocument(t) ==
    /\ tx[t].stage = "locking" /\ tx[t].ahead # {}
    /\ \E d \in LockOrder(tx[t].ahead) :
          /\ DocumentFree(t, d)
          /\ IF LiveDocument(d)
             THEN Move(t, [tx[t] EXCEPT !.ahead = @ \ {d}, !.held = @ \cup {d}])
             ELSE Rollback(t)

\* What is validated once every lock is held.
Accepted(r) ==
    \/ r.op = "apply" /\ ValidAllocations(r.company, r.lines)
    \/ r.op = "allocate" /\ ValidAllocations(pays[r.payment].company, r.lines)
    \/ r.op = "void"
    \/ r.op = "delete" /\ ~ HasPayments(r.document)

Validate(t) ==
    /\ tx[t].stage = "locking" /\ tx[t].ahead = {}
    /\ IF Accepted(tx[t].req)
       THEN Move(t, [tx[t] EXCEPT !.stage = IF tx[t].req.op = "delete" THEN "items" ELSE "writing"])
       ELSE Rollback(t)

ItemsFree(t, d) == \A u \in Requests \ {t} : d \notin ItemsOf(tx[u])

\* DELETE FROM document_items: it waits for the rows it finds, not for a gap.
DeleteItems(t) ==
    LET r == tx[t].req
    IN  /\ tx[t].stage = "items"
        /\ r.found => ItemsFree(t, r.document)
        /\ Move(t, [tx[t] EXCEPT !.stage = IF r.items = "replaced" THEN "inserting" ELSE "writing"])

\* INSERT INTO document_items: it waits for the gap and for the debt, which may be gone by then.
InsertItems(t) ==
    LET d == tx[t].req.document
    IN  /\ tx[t].stage = "inserting"
        /\ ItemsFree(t, d)
        /\ \A u \in Requests \ {t} : d \notin tx[u].held
        /\ IF LiveDocument(d) THEN Move(t, [tx[t] EXCEPT !.stage = "writing"]) ELSE Rollback(t)

-----------------------------------------------------------------------------
(* Waiting. *)

\* Debts that x has asked for, or is about to ask for, FOR UPDATE or to write.
Wanted(x) ==
    IF x.stage = "locking" /\ x.ahead # {} THEN LockOrder(x.ahead)
    ELSE IF x.stage = "writing" /\ x.req.op \in {"edit", "writeoff"} THEN {x.req.document}
    ELSE {}

\* Request t waits for a row that u holds, or stands in line for it behind u.
WaitsFor(t, u) ==
    LET x == tx[t]
        d == x.req.document
    IN  /\ t # u
        /\ \/ x.stage = "paying" /\ x.req.payment = tx[u].payment
           \/ Wanted(x) \cap (tx[u].held \cup Shared(tx[u])) # {}
           \/ x.stage = "items" /\ x.req.found /\ d \in ItemsOf(tx[u])
           \/ x.stage = "inserting" /\ d \in tx[u].held \cup ItemsOf(tx[u])
           \/ d \in Shared(x) /\ d \in Wanted(tx[u])

\* Every one of these requests waits, in turn, for every other one.
Deadlock(group) ==
    /\ \A t \in group : \E u \in group : WaitsFor(t, u)
    /\ \A part \in SUBSET group :
          (\A t \in part, u \in group : WaitsFor(t, u) => u \in part) => part \in {{}, group}

\* InnoDB finds the requests that wait for each other and rolls one of them back.
Victim(t) == (\E group \in SUBSET Requests : t \in group /\ Deadlock(group)) /\ Rollback(t)

-----------------------------------------------------------------------------
(* The writes, and the commit that makes them visible and drops the locks. *)

\* PersistBalanceAndStatus inside a transaction: the debt and what was paid of it
\* are plain reads; the UPDATE writes two columns of the current row.
Recomputed(t, d, ps, al) ==
    LET seen == Snapshot(t).docs[d]
        paid == PaidTotal(ps, al, d)
    IN  IF IsTerminalWriteoffStatus(seen.status) THEN docs[d]
        ELSE [docs[d] EXCEPT !.balance = BalanceFromTotalPaid(seen.total, paid),
                             !.status = ComputeStatusFromPaid(paid, seen.total, seen.status)]

\* Payment p becomes row with these lines, and its debts are recomputed.
Post(t, p, row, lines, debts) ==
    LET ps == [Snapshot(t).pays EXCEPT ![p] = row]
        al == [Snapshot(t).alloc EXCEPT ![p] = lines]
    IN  /\ pays' = [pays EXCEPT ![p] = row]
        /\ alloc' = [alloc EXCEPT ![p] = lines]
        /\ docs' = [d \in Documents |-> IF d \in debts THEN Recomputed(t, d, ps, al) ELSE docs[d]]
        /\ Over(t)

Writing(t, op) == tx[t].stage = "writing" /\ tx[t].req.op = op

CommitApply(t) ==
    LET r == tx[t].req
    IN  /\ Writing(t, "apply")
        /\ \E p \in Payments :
              /\ NextPayment(p)
              /\ Post(t, p, NewPayment("applied", r.company, r.amount, r.discount, "deuda"),
                      r.lines, tx[t].held)

CommitAllocate(t) ==
    LET r == tx[t].req
    IN  /\ Writing(t, "allocate")
        /\ Post(t, r.payment, [pays[r.payment] EXCEPT !.type = "applied"],
                [d \in Documents |-> alloc[r.payment][d] + r.lines[d]], tx[t].held)

CommitVoid(t) ==
    LET r == tx[t].req
    IN  /\ Writing(t, "void")
        /\ Post(t, r.payment, [pays[r.payment] EXCEPT !.life = "voided"], NoLines, tx[t].held)

CommitDelete(t) ==
    /\ Writing(t, "delete")
    /\ docs' = [docs EXCEPT ![tx[t].req.document].life = "deleted"]
    /\ UNCHANGED <<pays, alloc>>
    /\ Over(t)

\* The UPDATE is scoped to rows that are not deleted.
CommitWriteOff(t) ==
    LET r == tx[t].req
        d == r.document
    IN  /\ Writing(t, "writeoff")
        /\ DocumentFree(t, d)
        /\ docs' = IF LiveDocument(d)
                   THEN [docs EXCEPT ![d].status = r.status, ![d].balance = 0]
                   ELSE docs
        /\ UNCHANGED <<pays, alloc>>
        /\ Over(t)

\* Save writes every column as it was read, and inserts the row if it is gone.
CommitEdit(t) ==
    LET r == tx[t].req
        d == r.document
    IN  /\ Writing(t, "edit")
        /\ DocumentFree(t, d)
        /\ docs' = [docs EXCEPT ![d] = [Snapshot(t).docs[d] EXCEPT !.total = r.total,
                                                                  !.status = r.status]]
        /\ UNCHANGED <<pays, alloc>>
        /\ Over(t)

-----------------------------------------------------------------------------
\* Debts open and payments received, some of them already allocated in part.
TxInit ==
    /\ \E total \in [Documents -> Totals], amount \in [1 .. Received -> Amounts],
          placed \in [1 .. Received -> Lines], c \in Companies :
          LET al == [p \in Payments |-> IF p <= Received THEN placed[p] ELSE NoLines]
              type(p) == IF LineDocuments(placed[p]) = {} THEN "on_account" ELSE "applied"
              ps == [p \in Payments |->
                        IF p <= Received THEN NewPayment(type(p), c, amount[p], 0, "deuda")
                        ELSE NoPayment]
          IN  /\ \A p \in 1 .. Received : LineSum(placed[p]) <= amount[p]
              /\ \A d \in Documents : PaidTotal(ps, al, d) <= total[d]
              /\ docs = [d \in Documents |->
                            WithBalance([life |-> "live", company |-> c, total |-> total[d],
                                         balance |-> 0, status |-> Pending], PaidTotal(ps, al, d))]
              /\ pays = ps
              /\ alloc = al
    /\ tx = [t \in Requests |-> Idle]

Begin(t) ==
    \/ "apply" \in Programs /\ \E r \in ApplyRequests : BeginApply(t, r)
    \/ "allocate" \in Programs /\ \E r \in AllocateRequests : BeginAllocate(t, r)
    \/ "void" \in Programs /\ \E r \in VoidRequests : BeginVoid(t, r)
    \/ "delete" \in Programs /\ \E r \in DeleteRequests : BeginDelete(t, r)
    \/ "writeoff" \in Programs /\ \E r \in WriteOffRequests : BeginWriteOff(t, r)
    \/ "edit" \in Programs /\ \E r \in EditRequests : BeginEdit(t, r)

Commit(t) ==
    \/ CommitApply(t) \/ CommitAllocate(t) \/ CommitVoid(t)
    \/ CommitDelete(t) \/ CommitWriteOff(t) \/ CommitEdit(t)

Advance(t) ==
    \/ LockPayment(t) \/ LockDocument(t) \/ Validate(t) \/ DeleteItems(t) \/ InsertItems(t)
    \/ Commit(t) \/ Victim(t)

\* No request is being served.
Quiet == (\A t \in Requests : tx[t].stage \in {"idle", "over"}) /\ UNCHANGED txVars

TxNext == (\E t \in Requests : Begin(t) \/ Advance(t)) \/ Quiet

\* InnoDB runs a transaction that waits for nobody, grants a freed row and breaks a deadlock.
TxFairness == \A t \in Requests : WF_txVars(Advance(t))

TxSpec == TxInit /\ [][TxNext]_txVars /\ TxFairness

-----------------------------------------------------------------------------
(* Properties; MoneyCountedOnce and MoneyRestsOnOwnDebts are DebtLedger's. *)

\* Each request commits, is rejected or is rolled back to break a deadlock: none is left waiting
\* for a row, since every handler runs in database.DB.Transaction, which rolls back on each error.
EveryRequestEnds ==
    \A t \in Requests : (tx[t].stage # "idle") ~> (tx[t].stage = "over")

\* Requests that wait for each other always have an edit of a debt's lines among them: it locks
\* the lines before the debt (DocumentService.Update), a deletion after it. Those that move
\* money lock the payment first and the debts in ascending order (LockDocumentsForUpdateAsc),
\* and never wait for each other in a circle.
OnlyLineEditsDeadlock ==
    \A group \in SUBSET Requests :
        group # {} /\ Deadlock(group)
        => \E t \in group : tx[t].req.op = "edit" /\ tx[t].req.items # "kept"

\* Whatever runs beside it, a payment applied without a discount or a debt deleted
\* takes effect as if it ran alone at its commit: with checks, balances and
\* statuses of that moment (ValidateAllocationsTx, DocumentService.Delete).
TakesEffectAtCommit ==
    [][\A t \in Requests :
          LET r == tx[t].req
          IN  tx[t].stage = "writing" /\ tx'[t].stage = "over"
              => /\ r.op = "apply" /\ r.discount = 0
                    => ApplyPayment(r.company, r.amount, 0, "deuda", r.lines)
                 /\ r.op = "delete" => DeleteDocument(r.document)]_txVars

\* Whatever interleaves, each commit is one step of the payment book: it brings a
\* payment, places more of what is left of one, or voids one for good, and takes
\* no money off a debt otherwise (AllocateExistingPaymentTx, DeletePaymentTx).
CommitsKeepPaymentBook == [][Book!BookNext]_(Book!bookVars)

-----------------------------------------------------------------------------
(* What tests and comments say and concurrency breaks. *)

\* "SUM(allocations) sobre el documento ... nunca debe exceder su total_amount".
NoDebtOverpaid ==
    \A d \in Documents : PaidTotal(pays, alloc, d) <= docs[d].total

\* "Acción definitiva: fija saldo 0 y estado terminal", and "bloquear ... cuando ya existe
\* dinero real aplicado a la deuda": a write-off commits only on a debt no money rests on, and
\* what is written off stays so and owes nothing.
WriteOffHolds ==
    [][\A d \in Documents :
          /\ IsTerminalWriteoffStatus(docs[d].status)
             => IsTerminalWriteoffStatus(docs'[d].status) /\ docs'[d].balance = 0
          /\ \A t \in Requests :
                Writing(t, "writeoff") /\ docs'[d].status # docs[d].status => ~ HasPayments(d)]_txVars

=============================================================================
