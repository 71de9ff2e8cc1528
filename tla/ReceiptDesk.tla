----------------------------- MODULE ReceiptDesk -----------------------------
(* The receipts of the office: the correlative of a series, the sale that creates a payment and
   its receipt, the receipt issued from a payment, and the receipts received from outside that are
   paid, linked to a payment or discarded by hand. A request runs in steps of its own connection:
   each step is one statement or one transaction, and between two of them others run and the
   request may die. *)
EXTENDS Requests, Naturals, FiniteSets

CONSTANTS MaxReceipts,  \* bound on the receipts
          MaxPays,      \* bound on the payments
          MaxNumber,    \* bound on the correlative
          Received,     \* how many receipts may have come from outside
          Applied,      \* how many payments may have been applied before
          MaxAsked,     \* bound on the requests that arrive
          SaleRefs,     \* references a client may send with a sale
          NoRef         \* a sale without one

ASSUME DeskAssumption ==
  /\ MaxReceipts \in Nat /\ MaxPays \in Nat /\ MaxNumber \in Nat /\ MaxAsked \in Nat
  /\ Received \subseteq Nat /\ Applied \subseteq Nat
  /\ NoRef \notin SaleRefs

VARIABLES receipts,     \* tukifac_fiscal_receipts
          pays,         \* payments
          correlative,  \* current_number of the series
          desk,         \* the request each clerk has under way
          asked,        \* requests that have arrived
          raced,        \* rows on which two requests were under way at once
          torn,         \* rows of a request that died between two of its writes
          rewound       \* an edit of the series has set the correlative back

receiptVars == <<receipts, pays, correlative, desk, asked, raced, torn, rewound>>

Receipts == 1 .. MaxReceipts
Pays == 1 .. MaxPays
Numbers == 0 .. MaxNumber

\* pay is the payment it is linked to, from the one it was issued from: external_id names that and
\* the number.
NoReceipt == [status |-> "absent", pay |-> 0, from |-> 0, number |-> 0, ref |-> NoRef]
NoPay == [life |-> "absent", type |-> "", fiscal |-> FALSE]
NoRequest == [op |-> "none", step |-> "", receipt |-> 0, pay |-> 0, number |-> 0,
              ref |-> NoRef, fiscal |-> FALSE]

Live(p) == pays[p].life = "live"
NextReceipt(r) == receipts[r].status = "absent" /\ \A q \in 1 .. r - 1 : receipts[q].status # "absent"
NextPay(p) == pays[p].life = "absent" /\ \A q \in 1 .. p - 1 : pays[q].life # "absent"
BackedBy(p) == {r \in Receipts : receipts[r].pay = p}
\* ------------------------------------------------------------ the requests
Rows(request) ==
  {<<"receipt", r>> : r \in {request.receipt} \ {0}} \cup {<<"payment", p>> : p \in {request.pay} \ {0}}

\* The rows of requests that meet: those of the one and of all it meets.
Meeting(c, rows) ==
  LET met == {d \in Clerks \ {c} : Rows(desk[d]) \cap rows # {}}
  IN IF met = {} THEN {} ELSE rows \cup UNION {Rows(desk[d]) : d \in met}

Begin(c, request) ==
  /\ desk[c] = NoRequest /\ asked < MaxAsked
  /\ desk' = [desk EXCEPT ![c] = request] /\ asked' = asked + 1
  /\ raced' = raced \cup Meeting(c, Rows(request))
  /\ UNCHANGED <<receipts, pays, correlative, torn, rewound>>

At(c, op, step) == desk[c].op = op /\ desk[c].step = step
GoOn(c, request) == desk' = [desk EXCEPT ![c] = request] /\ UNCHANGED asked
End(c) == GoOn(c, NoRequest)

\* A row a raced request creates is raced too.
Spread(c, rows) ==
  raced' = IF Rows(desk[c]) \cap raced = {} THEN raced ELSE raced \cup rows

\* Mutant of Die: the number a dying request has reserved is given back.
DieGivingBack(c) ==
  /\ desk[c] # NoRequest
  /\ End(c)
  /\ correlative' = IF desk[c].step = "create" THEN correlative - 1 ELSE correlative
  /\ torn' = IF desk[c].step = "save" THEN torn \cup Rows(desk[c]) ELSE torn
  /\ UNCHANGED <<receipts, pays, raced, rewound>>

\* The process dies or loses its connection: what it has committed stays, a number it has
\* reserved stays reserved.
Die(c) ==
  /\ desk[c] # NoRequest
  /\ End(c)
  /\ torn' = IF desk[c].step = "save" THEN torn \cup Rows(desk[c]) ELSE torn
  /\ UNCHANGED <<receipts, pays, correlative, raced, rewound>>
\* --------------------------------------------------------- numbers of a series
\* ReserveNextNumber, a transaction of its own that holds the row of the series.
ReserveNextNumber(c) ==
  /\ desk[c].step = "reserve" /\ correlative < MaxNumber
  /\ correlative' = correlative + 1
  /\ GoOn(c, [desk[c] EXCEPT !.number = correlative + 1, !.step = "create"])
  /\ UNCHANGED <<receipts, pays, raced, torn, rewound>>

\* Update of the series reads the row, and saves all of it without a lock: the number of the
\* form, or the one it read.
BeginSeries(c, n) == Begin(c, [NoRequest EXCEPT !.op = "series", !.step = "write", !.number = n])

SaveSeries(c) ==
  /\ At(c, "series", "write")
  /\ correlative' = desk[c].number
  /\ rewound' = (rewound \/ desk[c].number < correlative)
  /\ End(c)
  /\ UNCHANGED <<receipts, pays, raced, torn>>
\* ------------------------------------------------ sales and receipts issued here
\* IssueComprobanteFromPayment: the payment is read; whether it has a receipt is not.
BeginIssue(c, p) ==
  /\ Live(p) /\ pays[p].type = "applied"
  /\ Begin(c, [NoRequest EXCEPT !.op = "issue", !.step = "reserve", !.pay = p])

Issued(p, n) == \E r \in Receipts : receipts[r].from = p /\ receipts[r].number = n

CreateIssued(c, r) ==
  /\ At(c, "issue", "create") /\ NextReceipt(r) /\ ~Issued(desk[c].pay, desk[c].number)
  /\ receipts' = [receipts EXCEPT ![r] = [status |-> "linked", pay |-> desk[c].pay, from |-> desk[c].pay,
                                          number |-> desk[c].number, ref |-> NoRef]]
  /\ pays' = [pays EXCEPT ![desk[c].pay].fiscal = @ \/ Live(desk[c].pay)]
  /\ Spread(c, {<<"receipt", r>>})
  /\ End(c)
  /\ UNCHANGED <<correlative, torn, rewound>>

\* external_id is looked for, and unique: a number that comes again is not issued twice from one
\* payment.
RefuseIssued(c) ==
  /\ At(c, "issue", "create") /\ Issued(desk[c].pay, desk[c].number)
  /\ End(c)
  /\ UNCHANGED <<receipts, pays, correlative, raced, torn, rewound>>

SoldAs(ref) == {r \in Receipts : ref # NoRef /\ receipts[r].status # "absent" /\ receipts[r].ref = ref}

\* CreatePaymentWithComprobante: a reference that is there already returns its receipt at once.
BeginSale(c, ref) ==
  /\ SoldAs(ref) = {}
  /\ Begin(c, [NoRequest EXCEPT !.op = "sale", !.step = "reserve", !.ref = ref])

\* Mutant of CreateSale: no unique index on the company and the reference.
CreateSaleAnyway(c, p, r) ==
  /\ At(c, "sale", "create")
  /\ NextPay(p) /\ NextReceipt(r)
  /\ pays' = [pays EXCEPT ![p] = [life |-> "live", type |-> "on_account", fiscal |-> TRUE]]
  /\ receipts' = [receipts EXCEPT ![r] = [status |-> "linked", pay |-> p, from |-> 0,
                                          number |-> desk[c].number, ref |-> desk[c].ref]]
  /\ End(c)
  /\ UNCHANGED <<correlative, raced, torn, rewound>>

\* The payment and the receipt, both or none.
CreateSale(c, p, r) ==
  /\ At(c, "sale", "create") /\ SoldAs(desk[c].ref) = {}
  /\ NextPay(p) /\ NextReceipt(r)
  /\ pays' = [pays EXCEPT ![p] = [life |-> "live", type |-> "on_account", fiscal |-> TRUE]]
  /\ receipts' = [receipts EXCEPT ![r] = [status |-> "linked", pay |-> p, from |-> 0,
                                          number |-> desk[c].number, ref |-> desk[c].ref]]
  /\ End(c)
  /\ UNCHANGED <<correlative, raced, torn, rewound>>

\* The unique index (company, reference) refuses the second of two at once, which then returns
\* the first; its number is a gap.
ReturnFirstSale(c) ==
  /\ At(c, "sale", "create") /\ SoldAs(desk[c].ref) # {}
  /\ End(c)
  /\ UNCHANGED <<receipts, pays, correlative, raced, torn, rewound>>
\* ------------------------------------------- receipts received from outside
Pending(r) == receipts[r].status = "pending"

\* CreatePaymentFromReceipt: the payment is created in its own transaction, then the receipt is
\* saved as it was read.
BeginPayReceipt(c, r) ==
  /\ Pending(r)
  /\ Begin(c, [NoRequest EXCEPT !.op = "payReceipt", !.step = "pay", !.receipt = r])

CreateFromParams(c, p) ==
  /\ At(c, "payReceipt", "pay") /\ NextPay(p)
  /\ pays' = [pays EXCEPT ![p] = [life |-> "live", type |-> "applied", fiscal |-> TRUE]]
  /\ Spread(c, {<<"payment", p>>})
  /\ GoOn(c, [desk[c] EXCEPT !.step = "save", !.pay = p])
  /\ UNCHANGED <<receipts, correlative, torn, rewound>>

\* Mutant of Readable: the payment is read Unscoped, voided or not.
ReadableVoided(p) == pays[p].life # "absent"

\* A plain read of a payment leaves out the voided ones (deleted_at).
Readable(p) == Live(p)

\* LinkReceiptToPayment: the receipt, the payment and the count of its links are read, then the
\* whole row of the payment is saved, then the receipt.
BeginLink(c, r, p) ==
  /\ Pending(r) /\ Readable(p) /\ BackedBy(p) \subseteq {r}
  /\ Begin(c, [NoRequest EXCEPT !.op = "link", !.step = "mark", !.receipt = r, !.pay = p])

\* Save of a row that was voided meanwhile inserts it anew: it is live again.
MarkPayment(c) ==
  /\ At(c, "link", "mark")
  /\ pays' = [pays EXCEPT ![desk[c].pay] = [@ EXCEPT !.life = "live", !.fiscal = TRUE]]
  /\ GoOn(c, [desk[c] EXCEPT !.step = "save"])
  /\ UNCHANGED <<receipts, correlative, raced, torn, rewound>>

SaveReceipt(c) ==
  /\ desk[c].step = "save"
  /\ receipts' = [receipts EXCEPT ![desk[c].receipt] = [@ EXCEPT !.status = "linked",
                                                                 !.pay = desk[c].pay]]
  /\ End(c)
  /\ UNCHANGED <<pays, correlative, raced, torn, rewound>>

BeginDiscard(c, r) ==
  /\ receipts[r].status \in {"pending", "discarded"}
  /\ Begin(c, [NoRequest EXCEPT !.op = "discard", !.step = "write", !.receipt = r])

SaveDiscarded(c) ==
  /\ At(c, "discard", "write")
  /\ receipts' = [receipts EXCEPT ![desk[c].receipt] = [@ EXCEPT !.status = "discarded", !.pay = 0]]
  /\ End(c)
  /\ UNCHANGED <<pays, correlative, raced, torn, rewound>>
\* ----------------------------------------------------------------- payments
\* PUT of a payment on account: read without a lock, saved whole.
BeginEdit(c, p) ==
  /\ Live(p) /\ pays[p].type = "on_account"
  /\ Begin(c, [NoRequest EXCEPT !.op = "edit", !.step = "write", !.pay = p, !.fiscal = pays[p].fiscal])

SaveEdit(c) ==
  /\ At(c, "edit", "write")
  /\ pays' = [pays EXCEPT ![desk[c].pay] = [@ EXCEPT !.life = "live", !.fiscal = desk[c].fiscal]]
  /\ End(c)
  /\ UNCHANGED <<receipts, correlative, raced, torn, rewound>>

\* Mutant of Released: the receipts of a voided payment stay linked to it.
ReleasedNone(p) == receipts

Released(p) ==
  [r \in Receipts |-> IF r \in BackedBy(p) THEN [receipts[r] EXCEPT !.status = "pending", !.pay = 0]
                      ELSE receipts[r]]

\* DeletePaymentTx, in one transaction.
VoidPay(p) ==
  LET rows == {<<"payment", p>>} \cup {<<"receipt", r>> : r \in BackedBy(p)}
      met == {d \in Clerks : Rows(desk[d]) \cap rows # {}}
  IN /\ Live(p) /\ asked < MaxAsked
     /\ asked' = asked + 1
     /\ receipts' = Released(p)
     /\ pays' = [pays EXCEPT ![p].life = "voided"]
     /\ raced' = IF met = {} THEN raced ELSE raced \cup rows \cup UNION {Rows(desk[d]) : d \in met}
     /\ UNCHANGED <<correlative, desk, torn, rewound>>
\* ----------------------------------------------------------- the specification
\* The first receipts have come from outside, the first payments have been applied to debts: how
\* many of each is one of these pairs.
ReceiptsInit(before) ==
  /\ \E n \in before :
       /\ receipts = [r \in Receipts |-> IF r <= n[1] THEN [NoReceipt EXCEPT !.status = "pending"]
                                         ELSE NoReceipt]
       /\ pays = [p \in Pays |-> IF p <= n[2]
                                 THEN [life |-> "live", type |-> "applied", fiscal |-> FALSE]
                                 ELSE NoPay]
  /\ correlative = 0
  /\ desk = [c \in Clerks |-> NoRequest]
  /\ asked = 0 /\ raced = {} /\ torn = {} /\ rewound = FALSE

RequestSteps(c) ==
  \/ \E n \in Numbers : BeginSeries(c, n)
  \/ \E p \in Pays : BeginIssue(c, p) \/ BeginEdit(c, p) \/ CreateFromParams(c, p)
  \/ \E ref \in SaleRefs \cup {NoRef} : BeginSale(c, ref)
  \/ \E r \in Receipts : BeginPayReceipt(c, r) \/ BeginDiscard(c, r) \/ CreateIssued(c, r)
  \/ \E r \in Receipts, p \in Pays : BeginLink(c, r, p) \/ CreateSale(c, p, r)
  \/ ReserveNextNumber(c) \/ ReturnFirstSale(c) \/ RefuseIssued(c)
  \/ MarkPayment(c) \/ SaveReceipt(c) \/ SaveDiscarded(c) \/ SaveEdit(c) \/ SaveSeries(c) \/ Die(c)

ReceiptsNext == (\E c \in Clerks : RequestSteps(c)) \/ \E p \in Pays : VoidPay(p)

ReceiptsSpec == ReceiptsInit(Received \X Applied) /\ [][ReceiptsNext]_receiptVars
\* -------------------------------------------------------------- properties
\* A sale sent with a reference yields one receipt, however often it is retried, also when two
\* are in flight and when one dies after any step (CreatePaymentWithComprobante).
OneReceiptPerSale ==
  \A r, q \in Receipts :
    receipts[r].ref # NoRef /\ receipts[r].ref = receipts[q].ref => r = q

\* No two receipts of the series have one number: a number that was reserved and not used is a
\* gap and never comes back. The one way round it is an edit of the series that saves a number
\* lower than the current one, given in the form or read before others reserved.
NumbersNeverReused ==
  \A r, q \in Receipts :
    receipts[r].number # 0 /\ receipts[r].number = receipts[q].number => r = q \/ rewound

UnderWay == UNION {Rows(desk[c]) : c \in Clerks}
Disturbed == raced \cup torn \cup UnderWay

\* A linked receipt rests on a live payment that knows it is invoiced, and a live payment that
\* says it is invoiced has its receipt, after any sequence of sales, issues, payments of receipts,
\* links, discards and voidings; only requests that ran over one row at once, or one that died
\* between its two saves, leave one without the other.
LinkedBothWays ==
  /\ \A r \in Receipts :
       receipts[r].status = "linked" =>
         \/ Live(receipts[r].pay) /\ pays[receipts[r].pay].fiscal
         \/ {<<"receipt", r>>, <<"payment", receipts[r].pay>>} \cap Disturbed # {}
  /\ \A p \in Pays :
       Live(p) /\ pays[p].fiscal =>
         \/ \E r \in BackedBy(p) : receipts[r].status = "linked"
         \/ <<"payment", p>> \in Disturbed

\* A voided payment stays voided, unless a link or an edit had read it before it was voided: the
\* Save of the whole row then brings it back without its allocations.
VoidIsFinal ==
  [][\A p \in Pays : pays[p].life = "voided" /\ pays'[p].life # "voided"
                       => <<"payment", p>> \in raced]_receiptVars
=============================================================================
