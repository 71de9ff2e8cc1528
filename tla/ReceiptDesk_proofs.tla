-------------------------- MODULE ReceiptDesk_proofs --------------------------
(* The receipts of the office under any number of overlapping requests: one receipt for a sale's
   reference, no correlative twice, no voided payment back unseen, receipts and payments that agree. *)
EXTENDS ReceiptDesk, TLAPS

Receipt == [status : {"absent", "linked", "pending", "discarded"}, pay : Nat, from : Nat,
            number : Nat, ref : SaleRefs \cup {NoRef}]
Payment == [life : {"absent", "live", "voided"}, type : {"", "applied", "on_account"},
            fiscal : BOOLEAN]
Request == [op : {"none", "series", "issue", "sale", "payReceipt", "link", "discard", "edit"},
            step : {"", "reserve", "create", "write", "pay", "mark", "save"},
            receipt : Nat, pay : Nat, number : Nat, ref : SaleRefs \cup {NoRef}, fiscal : BOOLEAN]

DeskTypes ==
  /\ receipts \in [Receipts -> Receipt]
  /\ pays \in [Pays -> Payment]
  /\ correlative \in Nat
  /\ desk \in [Clerks -> Request]
  /\ rewound \in BOOLEAN

\* A receipt that is not there yet is blank.
AbsentIsBlank ==
  \A r \in Receipts :
    receipts[r].status = "absent" => receipts[r].ref = NoRef /\ receipts[r].number = 0

\* As long as no series was set back, the numbers of receipts and those reserved are all different
\* and behind the correlative.
NumbersBehind ==
  /\ \A r \in Receipts : receipts[r].number <= correlative
  /\ \A c \in Clerks : desk[c].step = "create" => desk[c].number \in 1 .. correlative
  /\ \A c \in Clerks, r \in Receipts : desk[c].step = "create" => receipts[r].number # desk[c].number
  /\ \A c, d \in Clerks :
       desk[c].step = "create" /\ desk[d].step = "create" /\ desk[c].number = desk[d].number => c = d
  /\ \A r, q \in Receipts :
       receipts[r].number # 0 /\ receipts[r].number = receipts[q].number => r = q

\* A request that will save the whole row of a voided payment is on record.
WritersOnRecord ==
  \A c \in Clerks, p \in Pays :
    pays[p].life = "voided" /\ desk[c].op \in {"link", "edit"} /\ desk[c].step \in {"mark", "write"}
      /\ desk[c].pay = p => <<"payment", p>> \in raced

DeskInv ==
  /\ DeskTypes /\ AbsentIsBlank
  /\ OneReceiptPerSale
  /\ rewound \/ NumbersBehind
  /\ WritersOnRecord

LEMMA BlankTypes == NoReceipt \in Receipt /\ NoPay \in Payment /\ NoRequest \in Request
BY DEF NoReceipt, NoPay, NoRequest, Receipt, Payment, Request

LEMMA NoRequestIdle == NoRequest.op = "none" /\ NoRequest.step = ""
BY DEF NoRequest

\* A request that reserved a number, and one that got its payment.
LEMMA RequestGoesOn ==
  ASSUME NEW request \in Request, NEW n \in Nat
  PROVE  /\ [request EXCEPT !.number = n, !.step = "create"] \in Request
         /\ [request EXCEPT !.number = n, !.step = "create"].step = "create"
         /\ [request EXCEPT !.number = n, !.step = "create"].number = n
         /\ [request EXCEPT !.step = "save", !.pay = n] \in Request
         /\ [request EXCEPT !.step = "save", !.pay = n].step = "save"
         /\ [request EXCEPT !.step = "save"] \in Request
         /\ [request EXCEPT !.step = "save"].step = "save"
BY DEF Request

LEMMA RowsAreNat == Receipts \subseteq Nat /\ Pays \subseteq Nat /\ Numbers \subseteq Nat
BY DeskAssumption DEF Receipts, Pays, Numbers

LEMMA FirstState == ReceiptsInit(Received \X Applied) => DeskInv
<1> SUFFICES ASSUME ReceiptsInit(Received \X Applied) PROVE DeskInv
  OBVIOUS
<1>1. PICK n \in Received \X Applied :
        /\ receipts = [r \in Receipts |-> IF r <= n[1] THEN [NoReceipt EXCEPT !.status = "pending"]
                                          ELSE NoReceipt]
        /\ pays = [p \in Pays |-> IF p <= n[2]
                                  THEN [life |-> "live", type |-> "applied", fiscal |-> FALSE]
                                  ELSE NoPay]
  BY DEF ReceiptsInit
<1>2. [NoReceipt EXCEPT !.status = "pending"] \in Receipt
      /\ [life |-> "live", type |-> "applied", fiscal |-> FALSE] \in Payment
  BY DEF NoReceipt, Receipt, Payment
<1>3. DeskTypes
  BY <1>1, <1>2, BlankTypes DEF DeskTypes, ReceiptsInit
<1>4. \A r \in Receipts : receipts[r].ref = NoRef /\ receipts[r].number = 0
  BY <1>1 DEF NoReceipt
<1>5. \A c \in Clerks : desk[c].op = "none" /\ desk[c].step = ""
  BY NoRequestIdle DEF ReceiptsInit
<1>6. correlative = 0
  BY DEF ReceiptsInit
<1>7. NumbersBehind
  <2>1. \A r \in Receipts : receipts[r].number <= correlative
    BY <1>4, <1>6
  <2>2. \A c \in Clerks : desk[c].step # "create"
    BY <1>5
  <2> QED
    BY <1>4, <2>1, <2>2 DEF NumbersBehind
<1>8. WritersOnRecord
  BY <1>5 DEF WritersOnRecord
<1> QED
  BY <1>3, <1>4, <1>7, <1>8 DEF DeskInv, AbsentIsBlank, OneReceiptPerSale

\* A request begins: nothing is written, and a payment it will save whole is live.
LEMMA BeginStep ==
  ASSUME DeskInv, NEW c \in Clerks, NEW request \in Request, Begin(c, request),
         request.step # "create",
         request.op \in {"link", "edit"} => request.pay \in Pays /\ Live(request.pay)
  PROVE  DeskInv'
<1> USE DEF DeskInv
<1>1. \A d \in Clerks : desk'[d] = desk[d] \/ (d = c /\ desk'[d] = request)
  BY DEF Begin, DeskTypes
<1>2. DeskTypes' /\ AbsentIsBlank' /\ OneReceiptPerSale'
  BY DEF Begin, DeskTypes, AbsentIsBlank, OneReceiptPerSale
<1>3. NumbersBehind => NumbersBehind'
  BY <1>1 DEF Begin, NumbersBehind
<1>4. WritersOnRecord'
  BY <1>1 DEF Begin, WritersOnRecord, Live
<1> QED
  BY <1>2, <1>3, <1>4 DEF Begin

\* A request goes on, or ends, and writes nothing.
LEMMA GoOnStep ==
  ASSUME DeskInv, NEW c \in Clerks, NEW request \in Request, GoOn(c, request),
         UNCHANGED <<receipts, pays, correlative, rewound>>, raced \subseteq raced',
         request.step # "create",
         ~ (request.op \in {"link", "edit"} /\ request.step \in {"mark", "write"})
  PROVE  DeskInv'
<1> USE DEF DeskInv
<1>1. \A d \in Clerks : desk'[d] = desk[d] \/ (d = c /\ desk'[d] = request)
  BY DEF GoOn, DeskTypes
<1>2. DeskTypes' /\ AbsentIsBlank' /\ OneReceiptPerSale'
  BY DEF GoOn, DeskTypes, AbsentIsBlank, OneReceiptPerSale
<1>3. NumbersBehind => NumbersBehind'
  BY <1>1 DEF NumbersBehind
<1>4. WritersOnRecord'
  BY <1>1 DEF WritersOnRecord
<1> QED
  BY <1>2, <1>3, <1>4

LEMMA EndStep ==
  ASSUME DeskInv, NEW c \in Clerks, End(c),
         UNCHANGED <<receipts, pays, correlative, rewound>>, raced \subseteq raced'
  PROVE  DeskInv'
BY GoOnStep, BlankTypes DEF End, NoRequest

\* A fresh number is ahead of all others.
LEMMA ReserveStep ==
  ASSUME DeskInv, NEW c \in Clerks, ReserveNextNumber(c)
  PROVE  DeskInv'
<1> USE DEF DeskInv
<1> DEFINE request == [desk[c] EXCEPT !.number = correlative + 1, !.step = "create"]
<1>1. request \in Request /\ request.step = "create" /\ request.number = correlative + 1
  <2>1. desk[c] \in Request /\ correlative + 1 \in Nat
    BY DEF DeskTypes
  <2> QED
    BY <2>1, RequestGoesOn
<1>2. \A d \in Clerks : IF d = c THEN desk'[d] = request ELSE desk'[d] = desk[d]
  BY DEF ReserveNextNumber, GoOn, DeskTypes
<1>3. DeskTypes' /\ AbsentIsBlank' /\ OneReceiptPerSale'
  BY <1>1 DEF ReserveNextNumber, GoOn, DeskTypes, AbsentIsBlank, OneReceiptPerSale
<1> HIDE DEF request
<1>4. correlative \in Nat /\ correlative' = correlative + 1 /\ receipts' = receipts
      /\ \A r \in Receipts : receipts[r].number \in Nat
  BY DEF ReserveNextNumber, DeskTypes, Receipt
<1>5. NumbersBehind => NumbersBehind'
  <2> SUFFICES ASSUME NumbersBehind PROVE NumbersBehind'
    OBVIOUS
  <2>1. \A d \in Clerks : desk'[d].step = "create" => desk'[d].number \in 1 .. correlative'
    BY <1>1, <1>2, <1>4 DEF NumbersBehind
  <2>2. \A d \in Clerks, r \in Receipts :
          desk'[d].step = "create" => receipts[r].number # desk'[d].number
    BY <1>1, <1>2, <1>4 DEF NumbersBehind
  <2>3. \A d, e \in Clerks :
          desk'[d].step = "create" /\ desk'[e].step = "create" /\ desk'[d].number = desk'[e].number
            => d = e
    BY <1>1, <1>2, <1>4 DEF NumbersBehind
  <2> QED
    BY <1>4, <2>1, <2>2, <2>3 DEF NumbersBehind
<1>6. WritersOnRecord'
  BY <1>1, <1>2 DEF ReserveNextNumber, WritersOnRecord
<1> QED
  BY <1>3, <1>5, <1>6 DEF ReserveNextNumber

\* An edit of the series raises the correlative or is on record.
LEMMA SeriesStep ==
  ASSUME DeskInv, NEW c \in Clerks, SaveSeries(c)
  PROVE  DeskInv'
<1> USE DEF DeskInv
<1>1. \A d \in Clerks : desk'[d] = desk[d] \/ (d = c /\ desk'[d] = NoRequest)
  BY DEF SaveSeries, End, GoOn, DeskTypes
<1>2. correlative \in Nat /\ correlative' = desk[c].number /\ desk[c].number \in Nat
      /\ \A r \in Receipts : receipts[r].number \in Nat
  BY DEF SaveSeries, DeskTypes, Request, Receipt
<1>3. DeskTypes' /\ AbsentIsBlank' /\ OneReceiptPerSale'
  BY <1>2, BlankTypes DEF SaveSeries, End, GoOn, DeskTypes, AbsentIsBlank, OneReceiptPerSale
<1>4. ASSUME NumbersBehind, ~ (desk[c].number < correlative) PROVE NumbersBehind'
  <2>1. correlative <= correlative' /\ receipts' = receipts
    BY <1>2, <1>4 DEF SaveSeries
  <2>2. \A d \in Clerks : desk'[d].step = "create" => desk'[d] = desk[d]
    BY <1>1, NoRequestIdle
  <2> QED
    BY <1>2, <1>4, <2>1, <2>2 DEF NumbersBehind
<1>5. WritersOnRecord'
  BY <1>1, NoRequestIdle DEF SaveSeries, WritersOnRecord
<1> QED
  BY <1>3, <1>4, <1>5 DEF SaveSeries

\* ----------------------------------------------- receipts made in this office
\* A blank row becomes a receipt with a number that was reserved for it, and the request ends.
LEMMA NewReceipt ==
  ASSUME DeskInv, NEW c \in Clerks, NEW r \in Receipts, NEW new \in Receipt, NextReceipt(r),
         desk[c].step = "create", End(c),
         receipts' = [receipts EXCEPT ![r] = new],
         new.status # "absent", new.number = desk[c].number,
         new.ref # NoRef => \A q \in Receipts : receipts[q].ref # new.ref,
         pays' \in [Pays -> Payment],
         \A p \in Pays : pays'[p].life = "voided" => pays[p].life = "voided",
         UNCHANGED <<correlative, rewound>>, raced \subseteq raced'
  PROVE  DeskInv'
<1> USE DEF DeskInv
<1>1. \A d \in Clerks : IF d = c THEN desk'[d] = NoRequest ELSE desk'[d] = desk[d]
  BY DEF End, GoOn, DeskTypes
<1>2. \A q \in Receipts : IF q = r THEN receipts'[q] = new ELSE receipts'[q] = receipts[q]
  BY DEF DeskTypes
<1>3. DeskTypes'
  BY BlankTypes DEF End, GoOn, DeskTypes
<1>4. AbsentIsBlank' /\ OneReceiptPerSale'
  BY <1>2 DEF AbsentIsBlank, OneReceiptPerSale
<1>5. NumbersBehind => NumbersBehind'
  <2> SUFFICES ASSUME NumbersBehind PROVE NumbersBehind'
    OBVIOUS
  <2>1. desk[c].number \in 1 .. correlative
    BY DEF NumbersBehind
  <2>2. \A d \in Clerks : desk'[d].step = "create" => d # c /\ desk'[d] = desk[d]
    BY <1>1, NoRequestIdle
  <2>3. \A q \in Receipts : receipts'[q].number <= correlative
    BY <1>2, <2>1 DEF NumbersBehind
  <2>4. \A d \in Clerks, q \in Receipts :
          desk'[d].step = "create" => receipts'[q].number # desk'[d].number
    BY <1>2, <2>2 DEF NumbersBehind
  <2>5. \A q, t \in Receipts :
          receipts'[q].number # 0 /\ receipts'[q].number = receipts'[t].number => q = t
    BY <1>2 DEF NumbersBehind
  <2> QED
    BY <2>2, <2>3, <2>4, <2>5 DEF NumbersBehind
<1>6. WritersOnRecord'
  BY <1>1, NoRequestIdle DEF WritersOnRecord
<1> QED
  BY <1>3, <1>4, <1>5, <1>6

LEMMA IssueStep ==
  ASSUME DeskInv, NEW c \in Clerks, NEW r \in Receipts, CreateIssued(c, r)
  PROVE  DeskInv'
<1> DEFINE new == [status |-> "linked", pay |-> desk[c].pay, from |-> desk[c].pay,
                   number |-> desk[c].number, ref |-> NoRef]
<1>1. new \in Receipt
  BY DEF DeskInv, DeskTypes, Request, Receipt
<1>2. pays' \in [Pays -> Payment] /\ \A p \in Pays : pays'[p].life = pays[p].life
  <2>1. pays \in [Pays -> Payment]
    BY DEF DeskInv, DeskTypes
  <2>2. \A p \in Pays, flag \in BOOLEAN : [pays[p] EXCEPT !.fiscal = flag] \in Payment
          /\ [pays[p] EXCEPT !.fiscal = flag].life = pays[p].life
    BY <2>1 DEF Payment
  <2>3. \A p \in Pays : (pays[p].fiscal \/ Live(p)) \in BOOLEAN
    OBVIOUS
  <2> QED
    BY <2>1, <2>2, <2>3 DEF CreateIssued
<1>3. raced \subseteq raced'
  BY DEF CreateIssued, Spread
<1> QED
  BY <1>1, <1>2, <1>3, NewReceipt DEF CreateIssued, At

\* The unique index on the reference keeps the second receipt out.
LEMMA SaleStep ==
  ASSUME DeskInv, NEW c \in Clerks, NEW p \in Pays, NEW r \in Receipts, CreateSale(c, p, r)
  PROVE  DeskInv'
<1> DEFINE new == [status |-> "linked", pay |-> p, from |-> 0,
                   number |-> desk[c].number, ref |-> desk[c].ref]
<1>1. new \in Receipt
  BY RowsAreNat DEF DeskInv, DeskTypes, Request, Receipt
<1>2. new.ref # NoRef => \A q \in Receipts : receipts[q].ref # new.ref
  BY DEF CreateSale, SoldAs, DeskInv, AbsentIsBlank
<1>3. pays' \in [Pays -> Payment] /\ \A q \in Pays : pays'[q].life = "voided" => pays[q].life = "voided"
  BY DEF CreateSale, DeskInv, DeskTypes, Payment
<1> QED
  BY <1>1, <1>2, <1>3, NewReceipt DEF CreateSale, At

\* --------------------------------------------- receipts received, and payments
\* A step that leaves each receipt its number, its reference and whether it is there, brings no
\* payment to "voided" and ends or goes on with the request.
LEMMA RowsRewritten ==
  ASSUME DeskInv, NEW c \in Clerks, NEW request \in Request, GoOn(c, request),
         request.step \in {"", "save"},
         receipts' \in [Receipts -> Receipt],
         \A r \in Receipts : /\ receipts'[r].number = receipts[r].number
                             /\ receipts'[r].ref = receipts[r].ref
                             /\ receipts'[r].status = "absent" => receipts[r].status = "absent",
         pays' \in [Pays -> Payment],
         \A p \in Pays : pays'[p].life = "voided" => pays[p].life = "voided",
         UNCHANGED <<correlative, rewound>>, raced \subseteq raced'
  PROVE  DeskInv'
<1> USE DEF DeskInv
<1>1. \A d \in Clerks : IF d = c THEN desk'[d] = request ELSE desk'[d] = desk[d]
  BY DEF GoOn, DeskTypes
<1>2. DeskTypes'
  BY DEF GoOn, DeskTypes
<1>3. AbsentIsBlank' /\ OneReceiptPerSale'
  BY DEF AbsentIsBlank, OneReceiptPerSale
<1>4. ASSUME NumbersBehind PROVE NumbersBehind'
  <2>1. \A d \in Clerks : desk'[d].step = "create" => desk'[d] = desk[d]
    BY <1>1
  <2>2. \A r \in Receipts : receipts'[r].number = receipts[r].number
    OBVIOUS
  <2>3. \A r \in Receipts : receipts'[r].number <= correlative'
    BY <1>4, <2>2 DEF NumbersBehind
  <2>4. \A d \in Clerks : desk'[d].step = "create" => desk'[d].number \in 1 .. correlative'
    BY <1>4, <2>1 DEF NumbersBehind
  <2>5. \A d \in Clerks, r \in Receipts :
          desk'[d].step = "create" => receipts'[r].number # desk'[d].number
    BY <1>4, <2>1, <2>2 DEF NumbersBehind
  <2>6. \A d, e \in Clerks :
          desk'[d].step = "create" /\ desk'[e].step = "create" /\ desk'[d].number = desk'[e].number
            => d = e
    BY <1>4, <2>1 DEF NumbersBehind
  <2>7. \A r, q \in Receipts :
          receipts'[r].number # 0 /\ receipts'[r].number = receipts'[q].number => r = q
    <3>1. \A r, q \in Receipts :
            receipts[r].number # 0 /\ receipts[r].number = receipts[q].number => r = q
      BY <1>4 DEF NumbersBehind
    <3>2. TAKE r, q \in Receipts
    <3>3. receipts'[r].number = receipts[r].number /\ receipts'[q].number = receipts[q].number
      BY <2>2
    <3> QED
      BY <3>1, <3>3
  <2> QED
    BY <2>3, <2>4, <2>5, <2>6, <2>7 DEF NumbersBehind
<1>5. WritersOnRecord'
  BY <1>1 DEF WritersOnRecord
<1> QED
  BY <1>2, <1>3, <1>4, <1>5

LEMMA PayStep ==
  ASSUME DeskInv, NEW c \in Clerks, NEW p \in Pays, CreateFromParams(c, p)
  PROVE  DeskInv'
<1>1. desk[c] \in Request /\ p \in Nat
  BY RowsAreNat DEF DeskInv, DeskTypes
<1>2. [desk[c] EXCEPT !.step = "save", !.pay = p] \in Request
      /\ [desk[c] EXCEPT !.step = "save", !.pay = p].step = "save"
  BY <1>1, RequestGoesOn
<1>3. pays' \in [Pays -> Payment] /\ \A q \in Pays : pays'[q].life = "voided" => pays[q].life = "voided"
  BY DEF CreateFromParams, DeskInv, DeskTypes, Payment
<1>4. receipts' = receipts /\ receipts \in [Receipts -> Receipt] /\ raced \subseteq raced'
  BY DEF CreateFromParams, Spread, DeskInv, DeskTypes
<1> QED
  BY <1>2, <1>3, <1>4, RowsRewritten DEF CreateFromParams

\* Saving a whole payment row makes it live, whatever it has become.
LEMMA MarkStep ==
  ASSUME DeskInv, NEW c \in Clerks, MarkPayment(c)
  PROVE  DeskInv'
<1>1. desk[c] \in Request
  BY DEF DeskInv, DeskTypes
<1>2. [desk[c] EXCEPT !.step = "save"] \in Request /\ [desk[c] EXCEPT !.step = "save"].step = "save"
  BY <1>1, RequestGoesOn
<1>3. pays' \in [Pays -> Payment] /\ \A q \in Pays : pays'[q].life = "voided" => pays[q].life = "voided"
  BY DEF MarkPayment, DeskInv, DeskTypes, Payment
<1>4. receipts' = receipts /\ receipts \in [Receipts -> Receipt] /\ raced' = raced
  BY DEF MarkPayment, DeskInv, DeskTypes
<1> QED
  BY <1>2, <1>3, <1>4, RowsRewritten DEF MarkPayment

LEMMA EditStep ==
  ASSUME DeskInv, NEW c \in Clerks, SaveEdit(c)
  PROVE  DeskInv'
<1>1. desk[c].fiscal \in BOOLEAN
  BY DEF DeskInv, DeskTypes, Request
<1>2. pays' \in [Pays -> Payment] /\ \A q \in Pays : pays'[q].life = "voided" => pays[q].life = "voided"
  BY <1>1 DEF SaveEdit, DeskInv, DeskTypes, Payment
<1>3. receipts' = receipts /\ receipts \in [Receipts -> Receipt] /\ raced' = raced
  BY DEF SaveEdit, DeskInv, DeskTypes
<1> QED
  BY <1>2, <1>3, BlankTypes, NoRequestIdle, RowsRewritten DEF SaveEdit, End

LEMMA ReceiptSteps ==
  ASSUME DeskInv, NEW c \in Clerks, SaveReceipt(c) \/ SaveDiscarded(c)
  PROVE  DeskInv'
<1>1. desk[c].pay \in Nat /\ receipts \in [Receipts -> Receipt]
  BY DEF DeskInv, DeskTypes, Request
<1>2. ASSUME NEW r \in Receipts, NEW status \in {"linked", "discarded"}, NEW pay \in Nat
      PROVE  /\ [receipts[r] EXCEPT !.status = status, !.pay = pay] \in Receipt
             /\ [receipts[r] EXCEPT !.status = status, !.pay = pay].number = receipts[r].number
             /\ [receipts[r] EXCEPT !.status = status, !.pay = pay].ref = receipts[r].ref
             /\ [receipts[r] EXCEPT !.status = status, !.pay = pay].status = status
  BY <1>1 DEF Receipt
<1>3. /\ receipts' \in [Receipts -> Receipt]
      /\ \A r \in Receipts : /\ receipts'[r].number = receipts[r].number
                             /\ receipts'[r].ref = receipts[r].ref
                             /\ receipts'[r].status = "absent" => receipts[r].status = "absent"
  <2>1. PICK status \in {"linked", "discarded"}, pay \in Nat :
          receipts' = [receipts EXCEPT ![desk[c].receipt] = [@ EXCEPT !.status = status, !.pay = pay]]
    BY <1>1 DEF SaveReceipt, SaveDiscarded
  <2>2. \A r \in Receipts :
          receipts'[r] = receipts[r] \/ receipts'[r] = [receipts[r] EXCEPT !.status = status, !.pay = pay]
    BY <1>1, <2>1
  <2>3. receipts' \in [Receipts -> Receipt]
    BY <1>1, <1>2, <2>1
  <2>4. ASSUME NEW r \in Receipts
        PROVE  /\ receipts'[r].number = receipts[r].number
               /\ receipts'[r].ref = receipts[r].ref
               /\ receipts'[r].status = "absent" => receipts[r].status = "absent"
    <3>1. CASE receipts'[r] = receipts[r]
      BY <3>1
    <3>2. CASE receipts'[r] = [receipts[r] EXCEPT !.status = status, !.pay = pay]
      <4>1. /\ [receipts[r] EXCEPT !.status = status, !.pay = pay].number = receipts[r].number
            /\ [receipts[r] EXCEPT !.status = status, !.pay = pay].ref = receipts[r].ref
            /\ [receipts[r] EXCEPT !.status = status, !.pay = pay].status = status
        BY <1>1 DEF Receipt
      <4> QED
        BY <3>2, <4>1
    <3> QED
      BY <2>2, <3>1, <3>2
  <2> QED
    BY <2>3, <2>4
<1>4. pays' = pays /\ pays \in [Pays -> Payment] /\ raced' = raced
  BY DEF SaveReceipt, SaveDiscarded, DeskInv, DeskTypes
<1> QED
  BY <1>3, <1>4, BlankTypes, NoRequestIdle, RowsRewritten DEF SaveReceipt, SaveDiscarded, End

\* Whoever is about to save the payment that is voided meets the voiding.
LEMMA VoidStep ==
  ASSUME DeskInv, NEW p \in Pays, VoidPay(p)
  PROVE  DeskInv'
<1> USE DEF DeskInv
<1>1. receipts \in [Receipts -> Receipt] /\ pays \in [Pays -> Payment] /\ p # 0
  BY DEF DeskTypes, Pays
<1>2. ASSUME NEW r \in Receipts
      PROVE  /\ [receipts[r] EXCEPT !.status = "pending", !.pay = 0] \in Receipt
             /\ [receipts[r] EXCEPT !.status = "pending", !.pay = 0].number = receipts[r].number
             /\ [receipts[r] EXCEPT !.status = "pending", !.pay = 0].ref = receipts[r].ref
             /\ [receipts[r] EXCEPT !.status = "pending", !.pay = 0].status = "pending"
  BY <1>1 DEF Receipt
<1>3. /\ receipts' \in [Receipts -> Receipt]
      /\ \A r \in Receipts : /\ receipts'[r].number = receipts[r].number
                             /\ receipts'[r].ref = receipts[r].ref
                             /\ receipts'[r].status = "absent" => receipts[r].status = "absent"
  BY <1>1, <1>2 DEF VoidPay, Released
<1>4. /\ pays' \in [Pays -> Payment]
      /\ \A q \in Pays : q # p => pays'[q] = pays[q]
  BY <1>1 DEF VoidPay, Payment
<1>5. UNCHANGED <<correlative, desk, rewound>> /\ raced \subseteq raced'
  BY DEF VoidPay
<1>6. DeskTypes' /\ AbsentIsBlank' /\ OneReceiptPerSale'
  BY <1>3, <1>4, <1>5 DEF DeskTypes, AbsentIsBlank, OneReceiptPerSale
<1>7. NumbersBehind => NumbersBehind'
  BY <1>3, <1>5 DEF NumbersBehind
<1>8. ASSUME NEW c \in Clerks, desk[c].pay = p PROVE <<"payment", p>> \in raced'
  BY <1>1, <1>8 DEF VoidPay, Rows
<1>9. WritersOnRecord'
  BY <1>4, <1>5, <1>8 DEF WritersOnRecord
<1> QED
  BY <1>5, <1>6, <1>7, <1>9

\* ------------------------------------------------------------- the theorems
LEMMA DeskStep == DeskInv /\ [ReceiptsNext]_receiptVars => DeskInv'
<1> SUFFICES ASSUME DeskInv, [ReceiptsNext]_receiptVars PROVE DeskInv'
  OBVIOUS
<1>1. ASSUME NEW c \in Clerks, NEW n \in Numbers, BeginSeries(c, n) PROVE DeskInv'
  <2>1. [NoRequest EXCEPT !.op = "series", !.step = "write", !.number = n] \in Request
    BY RowsAreNat DEF NoRequest, Request
  <2> QED
    BY <1>1, <2>1, BeginStep DEF BeginSeries, NoRequest
<1>2. ASSUME NEW c \in Clerks, NEW p \in Pays, BeginIssue(c, p) PROVE DeskInv'
  <2>1. [NoRequest EXCEPT !.op = "issue", !.step = "reserve", !.pay = p] \in Request
    BY RowsAreNat DEF NoRequest, Request
  <2> QED
    BY <1>2, <2>1, BeginStep DEF BeginIssue, NoRequest
<1>3. ASSUME NEW c \in Clerks, NEW p \in Pays, BeginEdit(c, p) PROVE DeskInv'
  <2>1. pays[p].fiscal \in BOOLEAN
    BY DEF DeskInv, DeskTypes, Payment
  <2>2. [NoRequest EXCEPT !.op = "edit", !.step = "write", !.pay = p, !.fiscal = pays[p].fiscal]
          \in Request
    BY <2>1, RowsAreNat DEF NoRequest, Request
  <2> QED
    BY <1>3, <2>2, BeginStep DEF BeginEdit, NoRequest
<1>4. ASSUME NEW c \in Clerks, NEW ref \in SaleRefs \cup {NoRef}, BeginSale(c, ref) PROVE DeskInv'
  <2>1. [NoRequest EXCEPT !.op = "sale", !.step = "reserve", !.ref = ref] \in Request
    BY DEF NoRequest, Request
  <2> QED
    BY <1>4, <2>1, BeginStep DEF BeginSale, NoRequest
<1>5. ASSUME NEW c \in Clerks, NEW r \in Receipts, BeginPayReceipt(c, r) PROVE DeskInv'
  <2>1. [NoRequest EXCEPT !.op = "payReceipt", !.step = "pay", !.receipt = r] \in Request
    BY RowsAreNat DEF NoRequest, Request
  <2> QED
    BY <1>5, <2>1, BeginStep DEF BeginPayReceipt, NoRequest
<1>6. ASSUME NEW c \in Clerks, NEW r \in Receipts, BeginDiscard(c, r) PROVE DeskInv'
  <2>1. [NoRequest EXCEPT !.op = "discard", !.step = "write", !.receipt = r] \in Request
    BY RowsAreNat DEF NoRequest, Request
  <2> QED
    BY <1>6, <2>1, BeginStep DEF BeginDiscard, NoRequest
<1>7. ASSUME NEW c \in Clerks, NEW r \in Receipts, NEW p \in Pays, BeginLink(c, r, p) PROVE DeskInv'
  <2>1. [NoRequest EXCEPT !.op = "link", !.step = "mark", !.receipt = r, !.pay = p] \in Request
    BY RowsAreNat DEF NoRequest, Request
  <2> QED
    BY <1>7, <2>1, BeginStep DEF BeginLink, Readable, NoRequest
<1>8. ASSUME NEW c \in Clerks, ReturnFirstSale(c) \/ RefuseIssued(c) \/ Die(c) PROVE DeskInv'
  BY <1>8, EndStep DEF ReturnFirstSale, RefuseIssued, Die
<1>9. ASSUME NEW c \in Clerks, ReserveNextNumber(c) \/ SaveSeries(c) PROVE DeskInv'
  BY <1>9, ReserveStep, SeriesStep
<1>10. ASSUME NEW c \in Clerks, NEW r \in Receipts, CreateIssued(c, r) PROVE DeskInv'
  BY <1>10, IssueStep
<1>11. ASSUME NEW c \in Clerks, NEW r \in Receipts, NEW p \in Pays, CreateSale(c, p, r) PROVE DeskInv'
  BY <1>11, SaleStep
<1>12. ASSUME NEW c \in Clerks, NEW p \in Pays, CreateFromParams(c, p) PROVE DeskInv'
  BY <1>12, PayStep
<1>13. ASSUME NEW c \in Clerks, MarkPayment(c) \/ SaveEdit(c) PROVE DeskInv'
  BY <1>13, MarkStep, EditStep
<1>14. ASSUME NEW c \in Clerks, SaveReceipt(c) \/ SaveDiscarded(c) PROVE DeskInv'
  BY <1>14, ReceiptSteps
<1>15. ASSUME NEW p \in Pays, VoidPay(p) PROVE DeskInv'
  BY <1>15, VoidStep
<1>16. CASE UNCHANGED receiptVars
  BY <1>16 DEF receiptVars, DeskInv, DeskTypes, AbsentIsBlank, OneReceiptPerSale, NumbersBehind,
               WritersOnRecord
<1> QED
  BY <1>1, <1>2, <1>3, <1>4, <1>5, <1>6, <1>7, <1>8, <1>9, <1>10, <1>11, <1>12, <1>13, <1>14, <1>15,
     <1>16 DEF ReceiptsNext, RequestSteps

LEMMA DeskAlways == ReceiptsSpec => []DeskInv
BY FirstState, DeskStep, PTL DEF ReceiptsSpec

\* A sale's reference has one receipt at most, however many requests retry it at once
\* (CreatePaymentWithComprobante and the unique index behind it).
THEOREM OneReceiptForASale == ReceiptsSpec => []OneReceiptPerSale
<1>1. DeskInv => OneReceiptPerSale
  BY DEF DeskInv
<1> QED
  BY <1>1, DeskAlways, PTL

\* No correlative is used twice unless the series was edited backwards (ReserveNextNumber).
THEOREM NumbersUsedOnce == ReceiptsSpec => []NumbersNeverReused
<1>1. DeskInv => NumbersNeverReused
  BY DEF DeskInv, NumbersBehind, NumbersNeverReused
<1> QED
  BY <1>1, DeskAlways, PTL

\* Only a link or an edit that met the voiding brings a voided payment back.
THEOREM VoidedForGood == ReceiptsSpec => VoidIsFinal
<1>1. ASSUME DeskInv, [ReceiptsNext]_receiptVars, NEW p \in Pays,
             pays[p].life = "voided", pays'[p].life # "voided"
      PROVE  <<"payment", p>> \in raced
  <2>1. PICK c \in Clerks : RequestSteps(c)
    BY <1>1 DEF ReceiptsNext, receiptVars, VoidPay, Live, DeskInv, DeskTypes
  <2>2. CASE UNCHANGED pays
    BY <1>1, <2>2
  <2>3. ASSUME NEW r \in Receipts, CreateIssued(c, r) PROVE FALSE
    BY <1>1, <2>3 DEF CreateIssued, DeskInv, DeskTypes, Payment
  <2>4. ASSUME NEW r \in Receipts, NEW q \in Pays, CreateSale(c, q, r) PROVE FALSE
    BY <1>1, <2>4 DEF CreateSale, NextPay, DeskInv, DeskTypes
  <2>5. ASSUME NEW q \in Pays, CreateFromParams(c, q) PROVE FALSE
    BY <1>1, <2>5 DEF CreateFromParams, NextPay, DeskInv, DeskTypes
  <2>6. CASE MarkPayment(c)
    <3>1. desk[c].pay = p
      BY <1>1, <2>6 DEF MarkPayment, DeskInv, DeskTypes
    <3> QED
      BY <1>1, <2>6, <3>1 DEF MarkPayment, At, DeskInv, WritersOnRecord
  <2>7. CASE SaveEdit(c)
    <3>1. desk[c].pay = p
      BY <1>1, <2>7 DEF SaveEdit, DeskInv, DeskTypes
    <3> QED
      BY <1>1, <2>7, <3>1 DEF SaveEdit, At, DeskInv, WritersOnRecord
  <2> QED
    BY <2>1, <2>2, <2>3, <2>4, <2>5, <2>6, <2>7
    DEF RequestSteps, BeginSeries, BeginIssue, BeginEdit, BeginSale, BeginPayReceipt, BeginDiscard,
        BeginLink, Begin, ReserveNextNumber, ReturnFirstSale, RefuseIssued, SaveReceipt, SaveDiscarded,
        SaveSeries, Die
<1>2. DeskInv /\ [ReceiptsNext]_receiptVars =>
        \A p \in Pays : pays[p].life = "voided" /\ pays'[p].life # "voided" => <<"payment", p>> \in raced
  BY <1>1
<1> QED
  BY <1>2, DeskAlways, PTL DEF ReceiptsSpec, VoidIsFinal

\* ------------------------------------------------- links of receipts and payments
\* A linked receipt names a payment that was created, any other names none.
LinkedIsNamed ==
  \A r \in Receipts :
    IF receipts[r].status = "linked"
    THEN receipts[r].pay \in Pays /\ pays[receipts[r].pay].life # "absent"
    ELSE receipts[r].pay = 0

\* The rows of a request are there, and those its step writes are among them.
RowsThere(request) ==
  /\ request.receipt # 0 =>
       request.receipt \in Receipts /\ receipts[request.receipt].status # "absent"
  /\ request.pay # 0 => request.pay \in Pays /\ pays[request.pay].life # "absent"
  /\ request.step \in {"save", "mark"} => request.receipt # 0 /\ request.pay # 0
  /\ request.op \in {"issue", "edit"} => request.pay # 0
  /\ request.op \in {"payReceipt", "discard"} => request.receipt # 0
  /\ request.op = "payReceipt" /\ request.step = "pay" => request.pay = 0

Meets(request, other) ==
  \/ request.receipt # 0 /\ request.receipt = other.receipt
  \/ request.pay # 0 /\ request.pay = other.pay

OnRecord(request) ==
  /\ request.receipt # 0 => <<"receipt", request.receipt>> \in raced
  /\ request.pay # 0 => <<"payment", request.pay>> \in raced

\* Requests that meet on a row are on record with all their rows.
MeetingsOnRecord ==
  \A c, d \in Clerks : c # d /\ Meets(desk[c], desk[d]) => OnRecord(desk[c])

\* What a request read when it began, and what it has written since, holds still.
ReadsHold(request) ==
  /\ request.receipt # 0 => receipts[request.receipt].pay = 0
  /\ request.pay # 0 => pays[request.pay].life = "live"
  /\ request.receipt # 0 /\ request.pay # 0 => \A r \in Receipts : receipts[r].pay # request.pay
  /\ request.step = "save" => pays[request.pay].fiscal
  /\ request.op = "edit" => pays[request.pay].fiscal = request.fiscal

\* A receipt that was linked under a request names a payment that is on record.
RelinkedOnRecord(request) ==
  request.receipt # 0 /\ receipts[request.receipt].pay # 0
    => <<"payment", receipts[request.receipt].pay>> \in raced

\* A request wrote or read what still holds, unless it met another one.
SoundRequest(request) ==
  /\ RowsThere(request)
  /\ OnRecord(request) \/ ReadsHold(request)
  /\ RelinkedOnRecord(request)

ReceiptExcused(r) ==
  <<"receipt", r>> \in raced \cup torn \/ \E c \in Clerks : desk[c].step = "save" /\ desk[c].receipt = r
PayExcused(p) ==
  <<"payment", p>> \in raced \cup torn \/ \E c \in Clerks : desk[c].step = "save" /\ desk[c].pay = p

\* LinkedBothWays, where of the requests under way only those between their two saves are an
\* excuse: the one that ends leaves nothing behind it.
RestsOnPay ==
  \A r \in Receipts : receipts[r].status = "linked" =>
    \/ pays[receipts[r].pay].life = "live" /\ pays[receipts[r].pay].fiscal
    \/ ReceiptExcused(r) \/ PayExcused(receipts[r].pay)
HasReceipt ==
  \A p \in Pays : pays[p].life = "live" /\ pays[p].fiscal =>
    (\E r \in Receipts : receipts[r].pay = p) \/ PayExcused(p)

LinkInv ==
  /\ LinkedIsNamed /\ MeetingsOnRecord
  /\ \A c \in Clerks : SoundRequest(desk[c])
  /\ RestsOnPay /\ HasReceipt


LEMMA RowsOfRequest ==
  ASSUME NEW request, NEW n
  PROVE  /\ <<"receipt", n>> \in Rows(request) <=> n # 0 /\ request.receipt = n
         /\ <<"payment", n>> \in Rows(request) <=> n # 0 /\ request.pay = n
BY DEF Rows

LEMMA RowsMeet ==
  ASSUME NEW request, NEW other, Meets(request, other)
  PROVE  Rows(other) \cap Rows(request) # {}
<1>1. CASE request.receipt # 0 /\ request.receipt = other.receipt
  BY <1>1, RowsOfRequest
<1>2. CASE request.pay # 0 /\ request.pay = other.pay
  BY <1>2, RowsOfRequest
<1> QED
  BY <1>1, <1>2 DEF Meets

LEMMA WholeOnRecord ==
  ASSUME NEW request, Rows(request) \subseteq raced
  PROVE  OnRecord(request)
BY RowsOfRequest DEF OnRecord

LEMMA BlankMeetsNone ==
  /\ NoRequest.receipt = 0 /\ NoRequest.pay = 0 /\ NoRequest.step = "" /\ NoRequest.op = "none"
  /\ \A request : ~ Meets(NoRequest, request) /\ ~ Meets(request, NoRequest)
  /\ SoundRequest(NoRequest)
BY DEF NoRequest, Meets, SoundRequest, RowsThere, OnRecord, ReadsHold, RelinkedOnRecord

LEMMA LinksFirst == ReceiptsInit(Received \X Applied) => LinkInv
<1> SUFFICES ASSUME ReceiptsInit(Received \X Applied) PROVE LinkInv
  OBVIOUS
<1>1. \A r \in Receipts : receipts[r].status # "linked" /\ receipts[r].pay = 0
  BY DEF ReceiptsInit, NoReceipt
<1>2. ASSUME NEW p \in Pays PROVE pays[p].fiscal = FALSE
  <2>1. pays[p] \in {NoPay, [life |-> "live", type |-> "applied", fiscal |-> FALSE]}
    BY DEF ReceiptsInit
  <2>2. NoPay.fiscal = FALSE /\ [life |-> "live", type |-> "applied", fiscal |-> FALSE].fiscal = FALSE
    BY DEF NoPay
  <2> QED
    BY <2>1, <2>2
<1>3. \A c \in Clerks : desk[c] = NoRequest
  BY DEF ReceiptsInit
<1>4. MeetingsOnRecord /\ \A c \in Clerks : SoundRequest(desk[c])
  BY <1>3, BlankMeetsNone DEF MeetingsOnRecord
<1> QED
  BY <1>1, <1>2, <1>4 DEF LinkInv, LinkedIsNamed, RestsOnPay, HasReceipt

\* ------------------------------------------------------- requests begin and end
\* A request that begins on the row of another one puts both on record.
LEMMA MeetingIsSeen ==
  ASSUME NEW c \in Clerks, NEW request, Begin(c, request), NEW d \in Clerks, d # c,
         Meets(request, desk[d])
  PROVE  Rows(request) \subseteq raced' /\ Rows(desk[d]) \subseteq raced'
<1>1. d \in {e \in Clerks \ {c} : Rows(desk[e]) \cap Rows(request) # {}}
  BY RowsMeet
<1> QED
  BY <1>1 DEF Begin, Meeting

\* The excuses that stay when the request of one clerk changes.
LEMMA ExcusesStay ==
  ASSUME NEW c \in Clerks, DeskTypes, NEW request, desk' = [desk EXCEPT ![c] = request],
         raced \subseteq raced', torn \subseteq torn'
  PROVE  /\ \A r : ReceiptExcused(r) => ReceiptExcused(r)' \/ (desk[c].step = "save" /\ desk[c].receipt = r)
         /\ \A p : PayExcused(p) => PayExcused(p)' \/ (desk[c].step = "save" /\ desk[c].pay = p)
         /\ request.step = "save" =>
              \A n : (request.receipt = n => ReceiptExcused(n)') /\ (request.pay = n => PayExcused(n)')
<1>1. \A d \in Clerks : desk'[d] = IF d = c THEN request ELSE desk[d]
  BY DEF DeskTypes
<1> QED
  BY <1>1 DEF ReceiptExcused, PayExcused

LEMMA LinksBegin ==
  ASSUME DeskTypes, LinkInv, NEW c \in Clerks, NEW request \in Request, Begin(c, request),
         request.step # "save", RowsThere(request), ReadsHold(request)
  PROVE  LinkInv'
<1> USE DEF LinkInv
<1>1. \A d \in Clerks : desk'[d] = IF d = c THEN request ELSE desk[d]
  BY DEF Begin, DeskTypes
<1>2. /\ desk' = [desk EXCEPT ![c] = request] /\ raced \subseteq raced'
      /\ UNCHANGED <<receipts, pays, torn>> /\ desk[c] = NoRequest
  BY DEF Begin
<1>3. ASSUME NEW q, OnRecord(q) PROVE OnRecord(q)'
  BY <1>2, <1>3 DEF OnRecord
<1>4. MeetingsOnRecord'
  <2> SUFFICES ASSUME NEW d \in Clerks, NEW e \in Clerks, d # e, Meets(desk[d], desk[e])'
               PROVE  OnRecord(desk[d])'
    BY DEF MeetingsOnRecord
  <2>1. CASE d = c
    <3>1. Meets(request, desk[e])
      BY <1>1, <2>1 DEF Meets
    <3>2. Rows(request) \subseteq raced'
      BY <2>1, <3>1, MeetingIsSeen
    <3> QED
      BY <1>1, <2>1, <3>2, RowsOfRequest DEF OnRecord
  <2>2. CASE e = c
    <3>1. Meets(request, desk[d])
      BY <1>1, <2>2 DEF Meets
    <3>2. Rows(desk[d]) \subseteq raced'
      BY <2>2, <3>1, MeetingIsSeen
    <3> QED
      BY <1>1, <2>2, <3>2, RowsOfRequest DEF OnRecord
  <2>3. CASE d # c /\ e # c
    BY <1>1, <1>2, <2>3 DEF MeetingsOnRecord, Meets, OnRecord
  <2> QED
    BY <2>1, <2>2, <2>3
<1>5. \A d \in Clerks : SoundRequest(desk[d])'
  BY <1>1, <1>2 DEF SoundRequest, RowsThere, OnRecord, ReadsHold, RelinkedOnRecord
<1>6. LinkedIsNamed'
  BY <1>2 DEF LinkedIsNamed
<1>7. RestsOnPay' /\ HasReceipt'
  BY <1>2, ExcusesStay, BlankMeetsNone DEF RestsOnPay, HasReceipt
<1> QED
  BY <1>4, <1>5, <1>6, <1>7

\* A request that goes on with its rows, or ends, meets no more requests than before.
LEMMA MeetingsStay ==
  ASSUME DeskTypes, MeetingsOnRecord, NEW c \in Clerks, NEW request,
         desk' = [desk EXCEPT ![c] = request], raced \subseteq raced',
         \/ request.receipt = desk[c].receipt /\ request.pay = desk[c].pay
         \/ request = NoRequest
  PROVE  MeetingsOnRecord'
<1> SUFFICES ASSUME NEW d \in Clerks, NEW e \in Clerks, d # e, Meets(desk[d], desk[e])'
             PROVE  OnRecord(desk[d])'
  BY DEF MeetingsOnRecord
<1>1. \A b \in Clerks : desk'[b] = IF b = c THEN request ELSE desk[b]
  BY DEF DeskTypes
<1>2. CASE request = NoRequest
  <2>1. d # c /\ e # c
    BY <1>1, <1>2, BlankMeetsNone DEF Meets
  <2> QED
    BY <1>1, <2>1 DEF MeetingsOnRecord, Meets, OnRecord
<1>3. CASE request.receipt = desk[c].receipt /\ request.pay = desk[c].pay
  BY <1>1, <1>3 DEF MeetingsOnRecord, Meets, OnRecord
<1> QED
  BY <1>2, <1>3

LEMMA BlankIsSound ==
  ASSUME NEW c \in Clerks, desk'[c] = NoRequest
  PROVE  SoundRequest(desk[c])'
<1>1. /\ desk'[c].receipt = 0 /\ desk'[c].pay = 0
      /\ desk'[c].step = "" /\ desk'[c].op = "none"
  BY BlankMeetsNone
<1> QED
  BY <1>1 DEF SoundRequest, RowsThere, OnRecord, ReadsHold, RelinkedOnRecord

\* A request writes its own rows and rows that were absent.
WritesOwnRows(c) ==
  /\ \A r \in Receipts :
       /\ receipts'[r] = receipts[r] \/ r = desk[c].receipt \/ receipts[r].status = "absent"
       /\ receipts[r].status # "absent" =>
            /\ receipts'[r].status # "absent"
            /\ receipts'[r].pay \in {receipts[r].pay, 0, desk[c].pay}
       /\ \/ receipts'[r].pay \in {receipts[r].pay, 0, desk[c].pay}
          \/ receipts'[r].pay \in Pays /\ pays[receipts'[r].pay].life = "absent"
  /\ \A p \in Pays :
       /\ pays'[p] = pays[p] \/ p = desk[c].pay \/ pays[p].life = "absent"
       /\ pays[p].life # "absent" => pays'[p].life # "absent"

\* The others have read what it writes only if they met it.
LEMMA OthersStaySound ==
  ASSUME DeskTypes, LinkInv, NEW c \in Clerks, NEW request,
         desk' = [desk EXCEPT ![c] = request], raced \subseteq raced',
         WritesOwnRows(c),
         NEW d \in Clerks, d # c
  PROVE  SoundRequest(desk[d])'
<1> USE DEF LinkInv, WritesOwnRows
<1>1. desk'[d] = desk[d] /\ SoundRequest(desk[d])
  BY DEF DeskTypes
<1>2. Meets(desk[d], desk[c]) => OnRecord(desk[d]) /\ OnRecord(desk[c])
  BY DEF MeetingsOnRecord, Meets
<1>3. RowsThere(desk[d])'
  BY <1>1 DEF SoundRequest, RowsThere
<1>4. CASE Meets(desk[d], desk[c])
  <2>1. OnRecord(desk[d])'
    BY <1>1, <1>2, <1>4 DEF OnRecord
  <2>2. RelinkedOnRecord(desk[d])'
    BY <1>1, <1>2, <1>4 DEF SoundRequest, RowsThere, OnRecord, RelinkedOnRecord
  <2> QED
    BY <1>3, <2>1, <2>2 DEF SoundRequest
<1>5. CASE ~ Meets(desk[d], desk[c])
  <2>1. /\ desk[d].receipt # 0 => receipts'[desk[d].receipt] = receipts[desk[d].receipt]
        /\ desk[d].pay # 0 => pays'[desk[d].pay] = pays[desk[d].pay]
    BY <1>1, <1>5 DEF Meets, SoundRequest, RowsThere
  <2>2. RelinkedOnRecord(desk[d])'
    BY <1>1, <2>1 DEF SoundRequest, RelinkedOnRecord
  <2>3. CASE OnRecord(desk[d])
    <3>1. OnRecord(desk[d])'
      BY <1>1, <2>3 DEF OnRecord
    <3> QED
      BY <1>3, <2>2, <3>1 DEF SoundRequest
  <2>4. CASE ReadsHold(desk[d])
    <3>1. desk[d].receipt # 0 /\ desk[d].pay # 0 =>
            \A r \in Receipts : receipts'[r].pay # desk[d].pay
      BY <1>1, <1>5, <2>4 DEF ReadsHold, Meets, SoundRequest, RowsThere
    <3>2. ReadsHold(desk[d])'
      <4>1. desk[d].step = "save" => desk[d].pay # 0
        BY <1>1 DEF SoundRequest, RowsThere
      <4>2. desk[d].op = "edit" => desk[d].pay # 0
        BY <1>1 DEF SoundRequest, RowsThere
      <4> QED
        BY <1>1, <2>1, <2>4, <3>1, <4>1, <4>2 DEF ReadsHold
    <3> QED
      BY <1>3, <2>2, <3>2 DEF SoundRequest
  <2> QED
    BY <1>1, <2>3, <2>4 DEF SoundRequest
<1> QED
  BY <1>4, <1>5

LEMMA RequestsAfterEnd ==
  ASSUME DeskTypes, LinkInv, NEW c \in Clerks, End(c), raced \subseteq raced', WritesOwnRows(c)
  PROVE  MeetingsOnRecord' /\ \A d \in Clerks : SoundRequest(desk[d])'
<1>1. desk' = [desk EXCEPT ![c] = NoRequest]
  BY DEF End, GoOn
<1>2. MeetingsOnRecord'
  BY <1>1, MeetingsStay DEF LinkInv
<1>3. ASSUME NEW d \in Clerks PROVE SoundRequest(desk[d])'
  <2>1. CASE d = c
    BY <1>1, <2>1, BlankIsSound DEF DeskTypes
  <2>2. CASE d # c
    BY <1>1, <2>2, OthersStaySound
  <2> QED
    BY <2>1, <2>2
<1> QED
  BY <1>2, <1>3

\* A request ends, or dies between its two saves, without another write.
LEMMA LinksEnd ==
  ASSUME DeskTypes, LinkInv, NEW c \in Clerks, End(c), UNCHANGED <<receipts, pays, raced>>,
         torn \subseteq torn', desk[c].step = "save" => Rows(desk[c]) \subseteq torn'
  PROVE  LinkInv'
<1> USE DEF LinkInv
<1>1. desk' = [desk EXCEPT ![c] = NoRequest] /\ raced \subseteq raced'
  BY DEF End, GoOn
<1>2. WritesOwnRows(c)
  BY DEF WritesOwnRows
<1>3. MeetingsOnRecord' /\ \A d \in Clerks : SoundRequest(desk[d])'
  BY <1>1, <1>2, RequestsAfterEnd
<1>4. \A r \in Receipts : ReceiptExcused(r) => ReceiptExcused(r)'
  <2> TAKE r \in Receipts
  <2>1. r # 0
    BY DEF Receipts
  <2>2. desk[c].step = "save" /\ desk[c].receipt = r => <<"receipt", r>> \in torn'
    BY <2>1, RowsOfRequest
  <2> QED
    BY <1>1, <2>2, ExcusesStay DEF ReceiptExcused
<1>5. \A p \in Pays : PayExcused(p) => PayExcused(p)'
  <2> TAKE p \in Pays
  <2>1. p # 0
    BY DEF Pays
  <2>2. desk[c].step = "save" /\ desk[c].pay = p => <<"payment", p>> \in torn'
    BY <2>1, RowsOfRequest
  <2> QED
    BY <1>1, <2>2, ExcusesStay DEF PayExcused
<1>6. LinkedIsNamed' /\ HasReceipt'
  BY <1>5 DEF LinkedIsNamed, HasReceipt
<1>7. RestsOnPay'
  BY <1>4, <1>5 DEF LinkedIsNamed, RestsOnPay
<1> QED
  BY <1>3, <1>6, <1>7

LEMMA LinksReserve ==
  ASSUME DeskTypes, LinkInv, NEW c \in Clerks, ReserveNextNumber(c)
  PROVE  LinkInv'
<1> USE DEF LinkInv
<1> DEFINE request == [desk[c] EXCEPT !.number = correlative + 1, !.step = "create"]
<1>1. desk[c] \in Request
  BY DEF DeskTypes
<1>2. /\ request.receipt = desk[c].receipt /\ request.pay = desk[c].pay /\ request.op = desk[c].op
      /\ request.step = "create" /\ request.fiscal = desk[c].fiscal
  BY <1>1 DEF Request
<1>3. /\ desk' = [desk EXCEPT ![c] = request]
      /\ UNCHANGED <<receipts, pays, raced, torn>> /\ desk[c].step = "reserve"
  BY DEF ReserveNextNumber, GoOn
<1> HIDE DEF request
<1>4. MeetingsOnRecord'
  BY <1>2, <1>3, MeetingsStay
<1>5. ASSUME NEW d \in Clerks PROVE SoundRequest(desk[d])'
  <2>1. CASE d = c
    <3>1. desk'[d] = request /\ SoundRequest(desk[c])
      BY <1>3, <2>1 DEF DeskTypes
    <3> QED
      BY <1>2, <1>3, <3>1 DEF SoundRequest, RowsThere, OnRecord, ReadsHold, RelinkedOnRecord
  <2>2. CASE d # c
    BY <1>3, <2>2, OthersStaySound DEF WritesOwnRows
  <2> QED
    BY <2>1, <2>2
<1>6. /\ \A r \in Receipts : ReceiptExcused(r) => ReceiptExcused(r)'
      /\ \A p \in Pays : PayExcused(p) => PayExcused(p)'
  BY <1>3, ExcusesStay
<1>7. LinkedIsNamed' /\ HasReceipt'
  BY <1>3, <1>6 DEF LinkedIsNamed, HasReceipt
<1>8. RestsOnPay'
  BY <1>3, <1>6 DEF LinkedIsNamed, RestsOnPay
<1> QED
  BY <1>4, <1>5, <1>7, <1>8

\* ------------------------------------------------------------ requests that write
\* The receipt of a payment: the payment is live unless the request met its voiding.
LEMMA LinksIssue ==
  ASSUME DeskInv, LinkInv, NEW c \in Clerks, NEW r \in Receipts, CreateIssued(c, r)
  PROVE  LinkInv'
<1> USE DEF LinkInv, DeskInv
<1>1. /\ desk' = [desk EXCEPT ![c] = NoRequest] /\ raced \subseteq raced' /\ torn' = torn
      /\ desk[c].step = "create" /\ desk[c].op = "issue"
  BY DEF CreateIssued, End, GoOn, Spread, At
<1>2. PICK p \in Pays : p = desk[c].pay /\ p # 0 /\ pays[p].life # "absent"
  BY <1>1 DEF SoundRequest, RowsThere
<1>3. ASSUME NEW q \in Receipts
      PROVE  /\ q # r => receipts'[q] = receipts[q]
             /\ q = r => receipts'[q].status = "linked" /\ receipts'[q].pay = p
  BY <1>2, <1>3 DEF CreateIssued, DeskTypes
<1>4. ASSUME NEW q \in Pays
      PROVE  /\ q # p => pays'[q] = pays[q]
             /\ pays'[q].life = pays[q].life
             /\ pays[q].fiscal => pays'[q].fiscal
             /\ q = p /\ pays[q].life = "live" => pays'[q].fiscal
  BY <1>2, <1>4 DEF CreateIssued, DeskTypes, Live, Payment
<1>5. receipts[r].status = "absent" /\ receipts[r].pay = 0
  BY DEF CreateIssued, NextReceipt, LinkedIsNamed
<1>6. WritesOwnRows(c)
  BY <1>2, <1>3, <1>4, <1>5 DEF WritesOwnRows
<1>7. MeetingsOnRecord' /\ \A d \in Clerks : SoundRequest(desk[d])'
  BY <1>1, <1>6, RequestsAfterEnd DEF CreateIssued
<1>8. LinkedIsNamed'
  BY <1>2, <1>3, <1>4 DEF LinkedIsNamed
<1>9. /\ \A q \in Receipts : ReceiptExcused(q) => ReceiptExcused(q)'
      /\ \A q \in Pays : PayExcused(q) => PayExcused(q)'
  BY <1>1, ExcusesStay
<1>10. (pays'[p].life = "live" /\ pays'[p].fiscal) \/ PayExcused(p)'
  <2>1. CASE pays[p].life = "live"
    BY <1>2, <1>4, <2>1
  <2>2. CASE pays[p].life # "live"
    <3>1. OnRecord(desk[c])
      BY <1>2, <2>2 DEF SoundRequest, ReadsHold
    <3> QED
      BY <1>1, <1>2, <3>1 DEF OnRecord, PayExcused
  <2> QED
    BY <2>1, <2>2
<1>11. RestsOnPay'
  <2> SUFFICES ASSUME NEW q \in Receipts, receipts'[q].status = "linked"
               PROVE  \/ pays'[receipts'[q].pay].life = "live" /\ pays'[receipts'[q].pay].fiscal
                      \/ ReceiptExcused(q)' \/ PayExcused(receipts[q].pay)'
    BY DEF RestsOnPay
  <2>1. CASE q = r
    <3>1. receipts'[q].pay = p
      BY <1>3, <2>1
    <3> QED
      BY <1>10, <3>1
  <2>2. CASE q # r
    <3>1. receipts'[q] = receipts[q] /\ receipts[q].status = "linked" /\ receipts[q].pay \in Pays
      BY <1>3, <2>2 DEF LinkedIsNamed
    <3>2. \/ pays[receipts[q].pay].life = "live" /\ pays[receipts[q].pay].fiscal
          \/ ReceiptExcused(q) \/ PayExcused(receipts[q].pay)
      BY <3>1 DEF RestsOnPay
    <3>3. PayExcused(receipts[q].pay) => PayExcused(receipts[q].pay)'
      BY <1>1, <3>1, ExcusesStay DEF PayExcused
    <3> QED
      BY <1>4, <1>9, <3>1, <3>2, <3>3
  <2> QED
    BY <2>1, <2>2
<1>12. HasReceipt'
  <2> SUFFICES ASSUME NEW q \in Pays, pays'[q].life = "live", pays'[q].fiscal
               PROVE  (\E t \in Receipts : receipts'[t].pay = q) \/ PayExcused(q)'
    BY DEF HasReceipt
  <2>1. CASE q = p
    BY <1>3, <2>1
  <2>2. CASE q # p
    <3>1. (\E t \in Receipts : receipts[t].pay = q) \/ PayExcused(q)
      BY <1>4, <2>2 DEF HasReceipt
    <3>2. \A t \in Receipts : receipts[t].pay = q => t # r
      BY <1>5 DEF Pays
    <3> QED
      BY <1>3, <1>9, <3>1, <3>2
  <2> QED
    BY <2>1, <2>2
<1> QED
  BY <1>7, <1>8, <1>11, <1>12

LEMMA LinksSale ==
  ASSUME DeskInv, LinkInv, NEW c \in Clerks, NEW p \in Pays, NEW r \in Receipts, CreateSale(c, p, r)
  PROVE  LinkInv'
<1> USE DEF LinkInv, DeskInv
<1>1. /\ desk' = [desk EXCEPT ![c] = NoRequest] /\ raced' = raced /\ torn' = torn
      /\ desk[c].step = "create" /\ End(c)
  BY DEF CreateSale, End, GoOn, At
<1>2. /\ receipts[r].status = "absent" /\ receipts[r].pay = 0
      /\ pays[p].life = "absent" /\ p # 0
  BY DEF CreateSale, NextReceipt, NextPay, LinkedIsNamed, Pays
<1>3. ASSUME NEW q \in Receipts
      PROVE  /\ q # r => receipts'[q] = receipts[q]
             /\ q = r => receipts'[q].status = "linked" /\ receipts'[q].pay = p
  BY <1>3 DEF CreateSale, DeskTypes
<1>4. ASSUME NEW q \in Pays
      PROVE  /\ q # p => pays'[q] = pays[q]
             /\ q = p => pays'[q].life = "live" /\ pays'[q].fiscal
  BY <1>4 DEF CreateSale, DeskTypes
<1>5. WritesOwnRows(c)
  BY <1>2, <1>3, <1>4 DEF WritesOwnRows
<1>6. MeetingsOnRecord' /\ \A d \in Clerks : SoundRequest(desk[d])'
  BY <1>1, <1>5, RequestsAfterEnd
<1>7. LinkedIsNamed'
  BY <1>2, <1>3, <1>4 DEF LinkedIsNamed
<1>8. \A n : (ReceiptExcused(n) => ReceiptExcused(n)') /\ (PayExcused(n) => PayExcused(n)')
  BY <1>1, ExcusesStay
<1>9. RestsOnPay'
  <2> SUFFICES ASSUME NEW q \in Receipts, receipts'[q].status = "linked", q # r
               PROVE  \/ pays'[receipts'[q].pay].life = "live" /\ pays'[receipts'[q].pay].fiscal
                      \/ ReceiptExcused(q)' \/ PayExcused(receipts[q].pay)'
    BY <1>3, <1>4 DEF RestsOnPay
  <2>1. /\ receipts'[q] = receipts[q] /\ receipts[q].status = "linked"
        /\ receipts[q].pay \in Pays /\ receipts[q].pay # p
    BY <1>2, <1>3 DEF LinkedIsNamed
  <2>2. \/ pays[receipts[q].pay].life = "live" /\ pays[receipts[q].pay].fiscal
        \/ ReceiptExcused(q) \/ PayExcused(receipts[q].pay)
    BY <2>1 DEF RestsOnPay
  <2>3. PayExcused(receipts[q].pay) => PayExcused(receipts[q].pay)'
    BY <1>1, <2>1, ExcusesStay DEF PayExcused
  <2> QED
    BY <1>4, <1>8, <2>1, <2>2, <2>3
<1>10. HasReceipt'
  <2> SUFFICES ASSUME NEW q \in Pays, pays'[q].life = "live", pays'[q].fiscal, q # p
               PROVE  (\E t \in Receipts : receipts'[t].pay = q) \/ PayExcused(q)'
    BY <1>3 DEF HasReceipt
  <2>1. (\E t \in Receipts : receipts[t].pay = q) \/ PayExcused(q)
    BY <1>4 DEF HasReceipt
  <2>2. \A t \in Receipts : receipts[t].pay = q => t # r
    BY <1>2 DEF Pays
  <2> QED
    BY <1>3, <1>8, <2>1, <2>2
<1> QED
  BY <1>6, <1>7, <1>9, <1>10

\* The payment of a received receipt: until the receipt is saved the request is its excuse.
LEMMA LinksPay ==
  ASSUME DeskInv, LinkInv, NEW c \in Clerks, NEW p \in Pays, CreateFromParams(c, p)
  PROVE  LinkInv'
<1> USE DEF LinkInv, DeskInv
<1>0. PICK request : request = [desk[c] EXCEPT !.step = "save", !.pay = p]
  OBVIOUS
<1>1. /\ request.receipt = desk[c].receipt /\ request.pay = p /\ request.op = "payReceipt"
      /\ request.step = "save"
  BY <1>0 DEF DeskTypes, Request, CreateFromParams, At
<1>2. /\ desk' = [desk EXCEPT ![c] = request] /\ UNCHANGED <<receipts, torn>>
      /\ desk[c].op = "payReceipt" /\ desk[c].step = "pay"
      /\ raced' = IF Rows(desk[c]) \cap raced = {} THEN raced ELSE raced \cup {<<"payment", p>>}
  BY <1>0 DEF CreateFromParams, GoOn, Spread, At
<1>3. pays[p].life = "absent" /\ p # 0
  BY DEF CreateFromParams, NextPay, Pays
<1>4. ASSUME NEW q \in Pays
      PROVE  /\ q # p => pays'[q] = pays[q]
             /\ q = p => pays'[q].life = "live" /\ pays'[q].fiscal
  BY <1>4 DEF CreateFromParams, DeskTypes
<1>5. /\ desk[c].receipt # 0 /\ desk[c].receipt \in Receipts
      /\ receipts[desk[c].receipt].status # "absent" /\ desk[c].pay = 0
  BY <1>2 DEF SoundRequest, RowsThere
<1>6. OnRecord(desk[c]) => OnRecord(request)'
  <2> SUFFICES ASSUME OnRecord(desk[c]) PROVE OnRecord(request)'
    OBVIOUS
  <2>1. <<"receipt", desk[c].receipt>> \in Rows(desk[c]) \cap raced
    BY <1>5, RowsOfRequest DEF OnRecord
  <2> QED
    BY <1>1, <1>2, <2>1 DEF OnRecord
<1>7. \A d \in Clerks : desk'[d] = IF d = c THEN request ELSE desk[d]
  BY <1>2 DEF DeskTypes
<1>8. \A d \in Clerks : desk[d].pay # p
  BY <1>3 DEF SoundRequest, RowsThere
<1>9. raced \subseteq raced'
  BY <1>2
<1>10. MeetingsOnRecord'
  <2> SUFFICES ASSUME NEW d \in Clerks, NEW e \in Clerks, d # e, Meets(desk[d], desk[e])'
               PROVE  OnRecord(desk[d])'
    BY DEF MeetingsOnRecord
  <2>1. Meets(desk[d], desk[e])
    BY <1>1, <1>7, <1>8 DEF Meets
  <2>2. OnRecord(desk[d])
    BY <2>1 DEF MeetingsOnRecord
  <2>3. CASE d = c
    BY <1>6, <1>7, <2>2, <2>3 DEF OnRecord
  <2>4. CASE d # c
    BY <1>7, <1>9, <2>2, <2>4 DEF OnRecord
  <2> QED
    BY <2>3, <2>4
<1>11. WritesOwnRows(c)
  BY <1>2, <1>3, <1>4 DEF WritesOwnRows
<1>12. ASSUME NEW d \in Clerks PROVE SoundRequest(desk[d])'
  <2>1. CASE d = c
    <3>1. RowsThere(request)'
      BY <1>1, <1>2, <1>3, <1>4, <1>5 DEF RowsThere
    <3>2. RelinkedOnRecord(request)'
      BY <1>1, <1>2, <1>9 DEF SoundRequest, RelinkedOnRecord
    <3>3. CASE OnRecord(desk[c])
      BY <1>6, <1>7, <2>1, <3>1, <3>2, <3>3 DEF SoundRequest, RowsThere, OnRecord, RelinkedOnRecord
    <3>4. CASE ReadsHold(desk[c])
      <4>1. \A r \in Receipts : receipts[r].pay # p
        BY <1>3 DEF LinkedIsNamed
      <4>2. ReadsHold(request)'
        BY <1>1, <1>2, <1>4, <3>4, <4>1 DEF ReadsHold
      <4> QED
        BY <1>7, <2>1, <3>1, <3>2, <4>2 DEF SoundRequest, RowsThere, ReadsHold, RelinkedOnRecord
    <3> QED
      BY <3>3, <3>4 DEF SoundRequest
  <2>2. CASE d # c
    BY <1>2, <1>9, <1>11, <2>2, OthersStaySound
  <2> QED
    BY <2>1, <2>2
<1>13. LinkedIsNamed'
  BY <1>2, <1>4 DEF LinkedIsNamed
<1>14. \A n : (ReceiptExcused(n) => ReceiptExcused(n)') /\ (PayExcused(n) => PayExcused(n)')
  BY <1>2, <1>9, ExcusesStay
<1>15. PayExcused(p)'
  BY <1>1, <1>2, <1>9, ExcusesStay
<1>16. RestsOnPay'
  <2> SUFFICES ASSUME NEW q \in Receipts, receipts'[q].status = "linked"
               PROVE  \/ pays'[receipts'[q].pay].life = "live" /\ pays'[receipts'[q].pay].fiscal
                      \/ ReceiptExcused(q)' \/ PayExcused(receipts[q].pay)'
    BY DEF RestsOnPay
  <2>1. /\ receipts'[q] = receipts[q] /\ receipts[q].status = "linked"
        /\ receipts[q].pay \in Pays /\ receipts[q].pay # p
    BY <1>2, <1>3 DEF LinkedIsNamed
  <2>2. \/ pays[receipts[q].pay].life = "live" /\ pays[receipts[q].pay].fiscal
        \/ ReceiptExcused(q) \/ PayExcused(receipts[q].pay)
    BY <2>1 DEF RestsOnPay
  <2>3. PayExcused(receipts[q].pay) => PayExcused(receipts[q].pay)'
    BY <1>14, <1>2
  <2> QED
    BY <1>4, <1>14, <2>1, <2>2, <2>3
<1>17. HasReceipt'
  BY <1>2, <1>4, <1>14, <1>15 DEF HasReceipt
<1> QED
  BY <1>10, <1>12, <1>13, <1>16, <1>17

\* The first save of a link: the payment says it has a receipt, the request is its excuse.
LEMMA LinksMark ==
  ASSUME DeskInv, LinkInv, NEW c \in Clerks, MarkPayment(c)
  PROVE  LinkInv'
<1> USE DEF LinkInv, DeskInv
<1>1. PICK request : request = [desk[c] EXCEPT !.step = "save"]
  OBVIOUS
<1>2. /\ desk' = [desk EXCEPT ![c] = request] /\ UNCHANGED <<receipts, raced, torn>>
      /\ desk[c].op = "link" /\ desk[c].step = "mark"
  BY <1>1 DEF MarkPayment, GoOn, At
<1>3. /\ request.receipt = desk[c].receipt /\ request.pay = desk[c].pay /\ request.op = "link"
      /\ request.step = "save"
  BY <1>1, <1>2 DEF DeskTypes, Request
<1>4. PICK p \in Pays : p = desk[c].pay /\ p # 0 /\ pays[p].life # "absent" /\ desk[c].receipt # 0
  BY <1>2 DEF SoundRequest, RowsThere
<1>5. ASSUME NEW q \in Pays
      PROVE  /\ q # p => pays'[q] = pays[q]
             /\ q = p => pays'[q].life = "live" /\ pays'[q].fiscal
  BY <1>4, <1>5 DEF MarkPayment, DeskTypes, Payment
<1>6. \A d \in Clerks : desk'[d] = IF d = c THEN request ELSE desk[d]
  BY <1>2 DEF DeskTypes
<1>7. MeetingsOnRecord'
  BY <1>2, <1>3, MeetingsStay
<1>8. WritesOwnRows(c)
  BY <1>2, <1>4, <1>5 DEF WritesOwnRows
<1>9. ASSUME NEW d \in Clerks PROVE SoundRequest(desk[d])'
  <2>1. CASE d = c
    <3>1. SoundRequest(desk[c])
      OBVIOUS
    <3>2. SoundRequest(request)'
      BY <1>2, <1>3, <1>4, <1>5, <3>1 DEF SoundRequest, RowsThere, OnRecord, ReadsHold, RelinkedOnRecord
    <3> QED
      BY <1>6, <2>1, <3>2 DEF SoundRequest, RowsThere, OnRecord, ReadsHold, RelinkedOnRecord
  <2>2. CASE d # c
    BY <1>2, <1>8, <2>2, OthersStaySound
  <2> QED
    BY <2>1, <2>2
<1>10. LinkedIsNamed'
  BY <1>2, <1>5 DEF LinkedIsNamed
<1>11. \A n : (ReceiptExcused(n) => ReceiptExcused(n)') /\ (PayExcused(n) => PayExcused(n)')
  BY <1>2, ExcusesStay
<1>12. RestsOnPay'
  <2> SUFFICES ASSUME NEW q \in Receipts, receipts'[q].status = "linked"
               PROVE  \/ pays'[receipts'[q].pay].life = "live" /\ pays'[receipts'[q].pay].fiscal
                      \/ ReceiptExcused(q)' \/ PayExcused(receipts[q].pay)'
    BY DEF RestsOnPay
  <2>1. receipts'[q] = receipts[q] /\ receipts[q].status = "linked" /\ receipts[q].pay \in Pays
    BY <1>2 DEF LinkedIsNamed
  <2>2. \/ pays[receipts[q].pay].life = "live" /\ pays[receipts[q].pay].fiscal
        \/ ReceiptExcused(q) \/ PayExcused(receipts[q].pay)
    BY <2>1 DEF RestsOnPay
  <2>3. PayExcused(receipts[q].pay) => PayExcused(receipts[q].pay)'
    BY <1>2, <1>11
  <2> QED
    BY <1>5, <1>11, <2>1, <2>2, <2>3
<1>13. PayExcused(p)'
  BY <1>2, <1>3, <1>4, ExcusesStay
<1>14. HasReceipt'
  BY <1>2, <1>5, <1>11, <1>13 DEF HasReceipt
<1> QED
  BY <1>7, <1>9, <1>10, <1>12, <1>14

\* The second save: the receipt names its payment, and whatever it named before is on record.
LEMMA LinksSave ==
  ASSUME DeskInv, LinkInv, NEW c \in Clerks, SaveReceipt(c)
  PROVE  LinkInv'
<1> USE DEF LinkInv, DeskInv
<1>1. /\ desk' = [desk EXCEPT ![c] = NoRequest] /\ UNCHANGED <<pays, raced, torn>>
      /\ desk[c].step = "save" /\ End(c)
  BY DEF SaveReceipt, End, GoOn
<1>2. PICK p \in Pays, r \in Receipts : p = desk[c].pay /\ r = desk[c].receipt /\ p # 0 /\ r # 0
  BY <1>1 DEF SoundRequest, RowsThere
<1>3. pays[p].life # "absent"
  BY <1>2 DEF SoundRequest, RowsThere
<1>4. ASSUME NEW q \in Receipts
      PROVE  /\ q # r => receipts'[q] = receipts[q]
             /\ q = r => receipts'[q].status = "linked" /\ receipts'[q].pay = p
  BY <1>2, <1>4 DEF SaveReceipt, DeskTypes, Receipt
<1>5. WritesOwnRows(c)
  BY <1>1, <1>2, <1>4 DEF WritesOwnRows
<1>6. MeetingsOnRecord' /\ \A d \in Clerks : SoundRequest(desk[d])'
  BY <1>1, <1>5, RequestsAfterEnd
<1>7. LinkedIsNamed'
  BY <1>1, <1>3, <1>4 DEF LinkedIsNamed
<1>8. /\ \A n : ReceiptExcused(n) => ReceiptExcused(n)' \/ n = r
      /\ \A n : PayExcused(n) => PayExcused(n)' \/ n = p
  BY <1>1, <1>2, ExcusesStay
<1>9. \A n : <<"payment", n>> \in raced => PayExcused(n)'
  BY <1>1 DEF PayExcused
<1>10. \/ <<"receipt", r>> \in raced /\ <<"payment", p>> \in raced
       \/ /\ pays[p].life = "live" /\ pays[p].fiscal
          /\ \A q \in Receipts : receipts[q].pay # p
  BY <1>1, <1>2 DEF SoundRequest, OnRecord, ReadsHold
<1>11. RestsOnPay'
  <2> SUFFICES ASSUME NEW q \in Receipts, receipts'[q].status = "linked"
               PROVE  \/ pays'[receipts'[q].pay].life = "live" /\ pays'[receipts'[q].pay].fiscal
                      \/ ReceiptExcused(q)' \/ PayExcused(receipts[q].pay)'
    BY DEF RestsOnPay
  <2>1. CASE q = r
    <3>1. <<"receipt", r>> \in raced => ReceiptExcused(r)'
      BY <1>1 DEF ReceiptExcused
    <3> QED
      BY <1>1, <1>4, <1>10, <2>1, <3>1
  <2>2. CASE q # r
    <3>1. receipts'[q] = receipts[q] /\ receipts[q].status = "linked" /\ receipts[q].pay \in Pays
      BY <1>4, <2>2 DEF LinkedIsNamed
    <3>2. \/ pays[receipts[q].pay].life = "live" /\ pays[receipts[q].pay].fiscal
          \/ ReceiptExcused(q) \/ PayExcused(receipts[q].pay)
      BY <3>1 DEF RestsOnPay
    <3>3. PICK n \in Pays : n = receipts[q].pay /\ n = receipts'[q].pay
      BY <3>1
    <3>4. PayExcused(n)' => PayExcused(receipts[q].pay)'
      BY <3>3
    <3>5. PayExcused(n) => PayExcused(n)'
      BY <1>8, <1>9, <1>10, <3>3
    <3> QED
      BY <1>1, <1>8, <2>2, <3>2, <3>3, <3>4, <3>5
  <2> QED
    BY <2>1, <2>2
<1>12. HasReceipt'
  <2> SUFFICES ASSUME NEW q \in Pays, pays'[q].life = "live", pays'[q].fiscal, q # p
               PROVE  (\E t \in Receipts : receipts'[t].pay = q) \/ PayExcused(q)'
    BY <1>4 DEF HasReceipt
  <2>1. (\E t \in Receipts : receipts[t].pay = q) \/ PayExcused(q)
    BY <1>1 DEF HasReceipt
  <2>2. receipts[r].pay = q => <<"payment", q>> \in raced
    BY <1>2 DEF SoundRequest, RelinkedOnRecord, Pays
  <2> QED
    BY <1>4, <1>8, <1>9, <2>1, <2>2
<1> QED
  BY <1>6, <1>7, <1>11, <1>12

LEMMA LinksDiscard ==
  ASSUME DeskInv, LinkInv, NEW c \in Clerks, SaveDiscarded(c)
  PROVE  LinkInv'
<1> USE DEF LinkInv, DeskInv
<1>1. /\ desk' = [desk EXCEPT ![c] = NoRequest] /\ UNCHANGED <<pays, raced, torn>>
      /\ desk[c].op = "discard" /\ desk[c].step = "write" /\ End(c)
  BY DEF SaveDiscarded, End, GoOn, At
<1>2. PICK r \in Receipts : r = desk[c].receipt /\ r # 0
  BY <1>1 DEF SoundRequest, RowsThere
<1>3. ASSUME NEW q \in Receipts
      PROVE  /\ q # r => receipts'[q] = receipts[q]
             /\ q = r => receipts'[q].status = "discarded" /\ receipts'[q].pay = 0
  BY <1>2, <1>3 DEF SaveDiscarded, DeskTypes, Receipt
<1>4. WritesOwnRows(c)
  BY <1>1, <1>2, <1>3 DEF WritesOwnRows
<1>5. MeetingsOnRecord' /\ \A d \in Clerks : SoundRequest(desk[d])'
  BY <1>1, <1>4, RequestsAfterEnd
<1>6. LinkedIsNamed'
  BY <1>1, <1>3 DEF LinkedIsNamed
<1>7. \A n : (ReceiptExcused(n) => ReceiptExcused(n)') /\ (PayExcused(n) => PayExcused(n)')
  BY <1>1, ExcusesStay
<1>8. RestsOnPay'
  <2> SUFFICES ASSUME NEW q \in Receipts, receipts'[q].status = "linked"
               PROVE  \/ pays'[receipts'[q].pay].life = "live" /\ pays'[receipts'[q].pay].fiscal
                      \/ ReceiptExcused(q)' \/ PayExcused(receipts[q].pay)'
    BY DEF RestsOnPay
  <2>1. PICK n \in Pays :
          /\ receipts'[q] = receipts[q] /\ receipts[q].status = "linked"
          /\ n = receipts[q].pay /\ n = receipts'[q].pay
    BY <1>3 DEF LinkedIsNamed
  <2>2. \/ pays[n].life = "live" /\ pays[n].fiscal
        \/ ReceiptExcused(q) \/ PayExcused(n)
    BY <2>1 DEF RestsOnPay
  <2>3. PayExcused(n)' => PayExcused(receipts[q].pay)'
    BY <2>1
  <2> QED
    BY <1>1, <1>7, <2>1, <2>2, <2>3
<1>9. HasReceipt'
  <2> SUFFICES ASSUME NEW q \in Pays, pays'[q].life = "live", pays'[q].fiscal
               PROVE  (\E t \in Receipts : receipts'[t].pay = q) \/ PayExcused(q)'
    BY DEF HasReceipt
  <2>1. (\E t \in Receipts : receipts[t].pay = q) \/ PayExcused(q)
    BY <1>1 DEF HasReceipt
  <2>2. receipts[r].pay = q => <<"payment", q>> \in raced
    BY <1>2 DEF SoundRequest, RelinkedOnRecord, Pays
  <2>3. <<"payment", q>> \in raced => PayExcused(q)'
    BY <1>1 DEF PayExcused
  <2> QED
    BY <1>3, <1>7, <2>1, <2>2, <2>3
<1> QED
  BY <1>5, <1>6, <1>8, <1>9

\* An edit saves the payment as it was, unless it met another request.
LEMMA LinksEdit ==
  ASSUME DeskInv, LinkInv, NEW c \in Clerks, SaveEdit(c)
  PROVE  LinkInv'
<1> USE DEF LinkInv, DeskInv
<1>1. /\ desk' = [desk EXCEPT ![c] = NoRequest] /\ UNCHANGED <<receipts, raced, torn>>
      /\ desk[c].op = "edit" /\ desk[c].step = "write" /\ End(c)
  BY DEF SaveEdit, End, GoOn, At
<1>2. PICK p \in Pays : p = desk[c].pay /\ p # 0 /\ pays[p].life # "absent"
  BY <1>1 DEF SoundRequest, RowsThere
<1>3. ASSUME NEW q \in Pays
      PROVE  /\ q # p => pays'[q] = pays[q]
             /\ q = p => pays'[q].life = "live" /\ pays'[q].fiscal = desk[c].fiscal
  BY <1>2, <1>3 DEF SaveEdit, DeskTypes, Payment
<1>4. WritesOwnRows(c)
  BY <1>1, <1>2, <1>3 DEF WritesOwnRows
<1>5. MeetingsOnRecord' /\ \A d \in Clerks : SoundRequest(desk[d])'
  BY <1>1, <1>4, RequestsAfterEnd
<1>6. LinkedIsNamed'
  BY <1>1, <1>3 DEF LinkedIsNamed
<1>7. \A n : (ReceiptExcused(n) => ReceiptExcused(n)') /\ (PayExcused(n) => PayExcused(n)')
  BY <1>1, ExcusesStay
<1>8. \/ PayExcused(p)'
      \/ pays[p].life = "live" /\ pays'[p].life = "live" /\ pays'[p].fiscal = pays[p].fiscal
  <2>1. CASE OnRecord(desk[c])
    BY <1>1, <1>2, <2>1 DEF OnRecord, PayExcused
  <2>2. CASE ReadsHold(desk[c])
    BY <1>1, <1>2, <1>3, <2>2 DEF ReadsHold
  <2> QED
    BY <2>1, <2>2 DEF SoundRequest
<1>9. RestsOnPay'
  <2> SUFFICES ASSUME NEW q \in Receipts, receipts'[q].status = "linked"
               PROVE  \/ pays'[receipts'[q].pay].life = "live" /\ pays'[receipts'[q].pay].fiscal
                      \/ ReceiptExcused(q)' \/ PayExcused(receipts[q].pay)'
    BY DEF RestsOnPay
  <2>1. PICK n \in Pays :
          receipts[q].status = "linked" /\ n = receipts[q].pay /\ n = receipts'[q].pay
    BY <1>1 DEF LinkedIsNamed
  <2>2. \/ pays[n].life = "live" /\ pays[n].fiscal
        \/ ReceiptExcused(q) \/ PayExcused(n)
    BY <2>1 DEF RestsOnPay
  <2>3. PayExcused(n)' => PayExcused(receipts[q].pay)'
    BY <2>1
  <2> QED
    BY <1>3, <1>7, <1>8, <2>1, <2>2, <2>3
<1>10. HasReceipt'
  BY <1>1, <1>3, <1>7, <1>8 DEF HasReceipt
<1> QED
  BY <1>5, <1>6, <1>9, <1>10

\* Voiding a payment releases its receipts, and puts on record the requests it meets.
LEMMA LinksVoid ==
  ASSUME DeskInv, LinkInv, NEW p \in Pays, VoidPay(p)
  PROVE  LinkInv'
<1> USE DEF LinkInv, DeskInv
<1>1. p # 0 /\ UNCHANGED <<desk, torn>> /\ raced \subseteq raced'
  BY DEF VoidPay, Pays
<1>2. ASSUME NEW q \in Receipts
      PROVE  /\ receipts[q].pay # p => receipts'[q] = receipts[q]
             /\ receipts[q].pay = p => receipts'[q].status = "pending" /\ receipts'[q].pay = 0
  BY <1>2 DEF VoidPay, Released, BackedBy, DeskTypes, Receipt
<1>3. ASSUME NEW q \in Pays
      PROVE  /\ q # p => pays'[q] = pays[q]
             /\ q = p => pays'[q].life = "voided"
  BY <1>3 DEF VoidPay, DeskTypes, Payment
<1>4. ASSUME NEW d \in Clerks,
             desk[d].pay = p \/ (desk[d].receipt \in Receipts /\ receipts[desk[d].receipt].pay = p)
      PROVE  OnRecord(desk[d])'
  <2> DEFINE rows == {<<"payment", p>>} \cup {<<"receipt", r>> : r \in BackedBy(p)}
             met == {e \in Clerks : Rows(desk[e]) \cap rows # {}}
  <2>1. Rows(desk[d]) \cap rows # {}
    <3>1. CASE desk[d].pay = p
      <4>1. <<"payment", p>> \in Rows(desk[d])
        BY <1>1, <3>1, RowsOfRequest
      <4> QED
        BY <4>1
    <3>2. CASE desk[d].receipt \in Receipts /\ receipts[desk[d].receipt].pay = p
      <4>0. desk[d].receipt # 0
        BY <3>2 DEF Receipts
      <4>1. <<"receipt", desk[d].receipt>> \in Rows(desk[d])
        BY <4>0, RowsOfRequest
      <4>2. <<"receipt", desk[d].receipt>> \in rows
        BY <3>2 DEF BackedBy
      <4> QED
        BY <4>1, <4>2
    <3> QED
      BY <1>4, <3>1, <3>2
  <2>2. raced' = IF met = {} THEN raced ELSE raced \cup rows \cup UNION {Rows(desk[e]) : e \in met}
    BY DEF VoidPay
  <2>3. Rows(desk[d]) \subseteq raced'
    BY <2>1, <2>2
  <2> QED
    BY <1>1, <2>3, RowsOfRequest DEF OnRecord
<1>5. MeetingsOnRecord'
  BY <1>1 DEF MeetingsOnRecord, Meets, OnRecord
<1>6. ASSUME NEW d \in Clerks PROVE SoundRequest(desk[d])'
  <2>1. SoundRequest(desk[d]) /\ desk'[d] = desk[d]
    BY <1>1
  <2>2. RowsThere(desk[d])'
    <3>1. /\ \A q \in Receipts : receipts[q].status # "absent" => receipts'[q].status # "absent"
          /\ \A q \in Pays : pays[q].life # "absent" => pays'[q].life # "absent"
      BY <1>2, <1>3
    <3> QED
      BY <2>1, <3>1 DEF SoundRequest, RowsThere
  <2>3. RelinkedOnRecord(desk[d])'
    <3>1. \A q \in Receipts : receipts'[q].pay \in {receipts[q].pay, 0}
      BY <1>2
    <3> QED
      BY <1>1, <2>1, <3>1 DEF SoundRequest, RowsThere, RelinkedOnRecord
  <2>4. OnRecord(desk[d])' \/ ReadsHold(desk[d])'
    <3>1. CASE OnRecord(desk[d])
      BY <1>1, <3>1 DEF OnRecord
    <3>2. CASE ReadsHold(desk[d]) /\ desk[d].pay # p
      <4>1. desk[d].receipt # 0 => receipts'[desk[d].receipt].pay = 0
        BY <1>1, <1>2, <2>1, <3>2 DEF SoundRequest, RowsThere, ReadsHold
      <4>2. desk[d].pay # 0 => pays'[desk[d].pay] = pays[desk[d].pay]
        BY <1>3, <2>1, <3>2 DEF SoundRequest, RowsThere
      <4>3. desk[d].receipt # 0 /\ desk[d].pay # 0 => \A r \in Receipts : receipts'[r].pay # desk[d].pay
        BY <1>2, <3>2 DEF ReadsHold
      <4>4. desk[d].step = "save" \/ desk[d].op = "edit" => desk[d].pay # 0
        BY <2>1 DEF SoundRequest, RowsThere
      <4> QED
        BY <2>1, <3>2, <4>1, <4>2, <4>3, <4>4 DEF ReadsHold
    <3>3. CASE desk[d].pay = p
      BY <1>4, <3>3
    <3> QED
      BY <2>1, <3>1, <3>2, <3>3 DEF SoundRequest
  <2> QED
    BY <2>2, <2>3, <2>4 DEF SoundRequest
<1>7. LinkedIsNamed'
  BY <1>2, <1>3 DEF LinkedIsNamed
<1>8. \A n : (ReceiptExcused(n) => ReceiptExcused(n)') /\ (PayExcused(n) => PayExcused(n)')
  BY <1>1 DEF ReceiptExcused, PayExcused
<1>9. RestsOnPay'
  <2> SUFFICES ASSUME NEW q \in Receipts, receipts'[q].status = "linked"
               PROVE  \/ pays'[receipts'[q].pay].life = "live" /\ pays'[receipts'[q].pay].fiscal
                      \/ ReceiptExcused(q)' \/ PayExcused(receipts[q].pay)'
    BY DEF RestsOnPay
  <2>1. PICK n \in Pays :
          /\ receipts'[q] = receipts[q] /\ receipts[q].status = "linked"
          /\ n = receipts[q].pay /\ n = receipts'[q].pay /\ n # p
    BY <1>2 DEF LinkedIsNamed
  <2>2. \/ pays[n].life = "live" /\ pays[n].fiscal
        \/ ReceiptExcused(q) \/ PayExcused(n)
    BY <2>1 DEF RestsOnPay
  <2>3. PayExcused(n)' => PayExcused(receipts[q].pay)'
    BY <2>1
  <2> QED
    BY <1>3, <1>8, <2>1, <2>2, <2>3
<1>10. HasReceipt'
  <2> SUFFICES ASSUME NEW q \in Pays, pays'[q].life = "live", pays'[q].fiscal
               PROVE  (\E t \in Receipts : receipts'[t].pay = q) \/ PayExcused(q)'
    BY DEF HasReceipt
  <2>1. q # p /\ pays'[q] = pays[q]
    BY <1>3
  <2>2. (\E t \in Receipts : receipts[t].pay = q) \/ PayExcused(q)
    BY <2>1 DEF HasReceipt
  <2> QED
    BY <1>2, <1>8, <2>1, <2>2
<1> QED
  BY <1>5, <1>6, <1>7, <1>9, <1>10

LEMMA LinksStep == DeskInv /\ LinkInv /\ [ReceiptsNext]_receiptVars => LinkInv'
<1> SUFFICES ASSUME DeskInv, LinkInv, [ReceiptsNext]_receiptVars PROVE LinkInv'
  OBVIOUS
<1> USE DEF DeskInv
<1>1. ASSUME NEW c \in Clerks, NEW n \in Numbers, BeginSeries(c, n) PROVE LinkInv'
  <2> DEFINE request == [NoRequest EXCEPT !.op = "series", !.step = "write", !.number = n]
  <2>1. /\ request \in Request
      /\ request.receipt = 0 /\ request.pay = 0 /\ request.op = "series" /\ request.step = "write"
    BY RowsAreNat DEF NoRequest, Request
  <2>2. RowsThere(request) /\ ReadsHold(request)
    BY <2>1 DEF RowsThere, ReadsHold
  <2> QED
    BY <1>1, <2>1, <2>2, LinksBegin DEF BeginSeries
<1>2. ASSUME NEW c \in Clerks, NEW p \in Pays, BeginIssue(c, p) PROVE LinkInv'
  <2> DEFINE request == [NoRequest EXCEPT !.op = "issue", !.step = "reserve", !.pay = p]
  <2>1. /\ request \in Request
      /\ request.receipt = 0 /\ request.pay = p /\ request.op = "issue" /\ request.step = "reserve"
    BY RowsAreNat DEF NoRequest, Request
  <2>2. RowsThere(request) /\ ReadsHold(request)
    BY <1>2, <2>1 DEF BeginIssue, Live, Pays, RowsThere, ReadsHold
  <2> QED
    BY <1>2, <2>1, <2>2, LinksBegin DEF BeginIssue
<1>3. ASSUME NEW c \in Clerks, NEW p \in Pays, BeginEdit(c, p) PROVE LinkInv'
  <2>1. pays[p].fiscal \in BOOLEAN
    BY DEF DeskTypes, Payment
  <2> DEFINE request == [NoRequest EXCEPT !.op = "edit", !.step = "write", !.pay = p,
                                      !.fiscal = pays[p].fiscal]
  <2>2. /\ request \in Request
      /\ request.receipt = 0 /\ request.pay = p /\ request.op = "edit" /\ request.step = "write"
      /\ request.fiscal = pays[p].fiscal
    BY <2>1, RowsAreNat DEF NoRequest, Request
  <2>3. RowsThere(request) /\ ReadsHold(request)
    BY <1>3, <2>2 DEF BeginEdit, Live, Pays, RowsThere, ReadsHold
  <2> QED
    BY <1>3, <2>2, <2>3, LinksBegin DEF BeginEdit
<1>4. ASSUME NEW c \in Clerks, NEW ref \in SaleRefs \cup {NoRef}, BeginSale(c, ref) PROVE LinkInv'
  <2> DEFINE request == [NoRequest EXCEPT !.op = "sale", !.step = "reserve", !.ref = ref]
  <2>1. /\ request \in Request
      /\ request.receipt = 0 /\ request.pay = 0 /\ request.op = "sale" /\ request.step = "reserve"
    BY DEF NoRequest, Request
  <2>2. RowsThere(request) /\ ReadsHold(request)
    BY <2>1 DEF RowsThere, ReadsHold
  <2> QED
    BY <1>4, <2>1, <2>2, LinksBegin DEF BeginSale
<1>5. ASSUME NEW c \in Clerks, NEW r \in Receipts, BeginPayReceipt(c, r) PROVE LinkInv'
  <2> DEFINE request == [NoRequest EXCEPT !.op = "payReceipt", !.step = "pay", !.receipt = r]
  <2>1. /\ request \in Request
      /\ request.receipt = r /\ request.pay = 0 /\ request.op = "payReceipt" /\ request.step = "pay"
    BY RowsAreNat DEF NoRequest, Request
  <2>2. RowsThere(request) /\ ReadsHold(request)
    BY <1>5, <2>1 DEF BeginPayReceipt, Pending, Receipts, LinkInv, LinkedIsNamed, RowsThere, ReadsHold
  <2> QED
    BY <1>5, <2>1, <2>2, LinksBegin DEF BeginPayReceipt
<1>6. ASSUME NEW c \in Clerks, NEW r \in Receipts, BeginDiscard(c, r) PROVE LinkInv'
  <2> DEFINE request == [NoRequest EXCEPT !.op = "discard", !.step = "write", !.receipt = r]
  <2>1. /\ request \in Request
      /\ request.receipt = r /\ request.pay = 0 /\ request.op = "discard" /\ request.step = "write"
    BY RowsAreNat DEF NoRequest, Request
  <2>2. RowsThere(request) /\ ReadsHold(request)
    BY <1>6, <2>1 DEF BeginDiscard, Receipts, LinkInv, LinkedIsNamed, RowsThere, ReadsHold
  <2> QED
    BY <1>6, <2>1, <2>2, LinksBegin DEF BeginDiscard
<1>7. ASSUME NEW c \in Clerks, NEW r \in Receipts, NEW p \in Pays, BeginLink(c, r, p) PROVE LinkInv'
  <2> DEFINE request == [NoRequest EXCEPT !.op = "link", !.step = "mark", !.receipt = r, !.pay = p]
  <2>1. /\ request \in Request
      /\ request.receipt = r /\ request.pay = p /\ request.op = "link" /\ request.step = "mark"
    BY RowsAreNat DEF NoRequest, Request
  <2>2. receipts[r].status = "pending" /\ receipts[r].pay = 0 /\ pays[p].life = "live" /\ r # 0 /\ p # 0
    BY <1>7 DEF BeginLink, Pending, Readable, Live, LinkInv, LinkedIsNamed, Receipts, Pays
  <2>3. \A q \in Receipts : receipts[q].pay # p
    BY <1>7, <2>2 DEF BeginLink, BackedBy
  <2>4. RowsThere(request) /\ ReadsHold(request)
    BY <2>1, <2>2, <2>3 DEF RowsThere, ReadsHold
  <2> QED
    BY <1>7, <2>1, <2>4, LinksBegin DEF BeginLink
<1>8. ASSUME NEW c \in Clerks, ReturnFirstSale(c) \/ RefuseIssued(c) \/ SaveSeries(c) PROVE LinkInv'
  BY <1>8, LinksEnd DEF ReturnFirstSale, RefuseIssued, SaveSeries, At
<1>9. ASSUME NEW c \in Clerks, Die(c) PROVE LinkInv'
  BY <1>9, LinksEnd DEF Die
<1>10. ASSUME NEW c \in Clerks, NEW r \in Receipts, CreateIssued(c, r) PROVE LinkInv'
  BY <1>10, LinksIssue
<1>11. ASSUME NEW c \in Clerks, NEW r \in Receipts, NEW p \in Pays, CreateSale(c, p, r) PROVE LinkInv'
  BY <1>11, LinksSale
<1>12. ASSUME NEW c \in Clerks, NEW p \in Pays, CreateFromParams(c, p) PROVE LinkInv'
  BY <1>12, LinksPay
<1>13. ASSUME NEW c \in Clerks,
              MarkPayment(c) \/ SaveReceipt(c) \/ SaveDiscarded(c) \/ SaveEdit(c) \/ ReserveNextNumber(c)
       PROVE  LinkInv'
  BY <1>13, LinksMark, LinksSave, LinksDiscard, LinksEdit, LinksReserve
<1>14. ASSUME NEW p \in Pays, VoidPay(p) PROVE LinkInv'
  BY <1>14, LinksVoid
<1>15. CASE UNCHANGED receiptVars
  BY <1>15 DEF receiptVars, LinkInv, LinkedIsNamed, MeetingsOnRecord, Meets, SoundRequest, RowsThere,
               OnRecord, ReadsHold, RelinkedOnRecord, RestsOnPay, HasReceipt, ReceiptExcused, PayExcused
<1> QED
  BY <1>1, <1>2, <1>3, <1>4, <1>5, <1>6, <1>7, <1>8, <1>9, <1>10, <1>11, <1>12, <1>13, <1>14, <1>15
  DEF ReceiptsNext, RequestSteps

\* A linked receipt rests on a live payment marked as invoiced, and such a payment has its receipt,
\* unless requests met over them, one died between its two saves, or one is under way.
THEOREM LinksAgree == ReceiptsSpec => []LinkedBothWays
<1>1. ASSUME LinkInv PROVE LinkedBothWays
  <2>1. \A r \in Receipts : ReceiptExcused(r) => <<"receipt", r>> \in Disturbed
    <3> TAKE r \in Receipts
    <3>1. r # 0
      BY DEF Receipts
    <3>2. ASSUME NEW c \in Clerks, desk[c].receipt = r PROVE <<"receipt", r>> \in UnderWay
      <4>1. <<"receipt", r>> \in Rows(desk[c])
        BY <3>1, <3>2, RowsOfRequest
      <4> QED
        BY <4>1 DEF UnderWay
    <3> QED
      BY <3>2 DEF ReceiptExcused, Disturbed
  <2>2. \A p \in Pays : PayExcused(p) => <<"payment", p>> \in Disturbed
    <3> TAKE p \in Pays
    <3>1. p # 0
      BY DEF Pays
    <3>2. ASSUME NEW c \in Clerks, desk[c].pay = p PROVE <<"payment", p>> \in UnderWay
      <4>1. <<"payment", p>> \in Rows(desk[c])
        BY <3>1, <3>2, RowsOfRequest
      <4> QED
        BY <4>1 DEF UnderWay
    <3> QED
      BY <3>2 DEF PayExcused, Disturbed
  <2>3. ASSUME NEW r \in Receipts, receipts[r].status = "linked"
        PROVE  \/ Live(receipts[r].pay) /\ pays[receipts[r].pay].fiscal
               \/ {<<"receipt", r>>, <<"payment", receipts[r].pay>>} \cap Disturbed # {}
    <3>1. receipts[r].pay \in Pays
      BY <1>1, <2>3 DEF LinkInv, LinkedIsNamed
    <3>2. \/ Live(receipts[r].pay) /\ pays[receipts[r].pay].fiscal
          \/ ReceiptExcused(r) \/ PayExcused(receipts[r].pay)
      BY <1>1, <2>3 DEF LinkInv, RestsOnPay, Live
    <3>3. \/ Live(receipts[r].pay) /\ pays[receipts[r].pay].fiscal
          \/ <<"receipt", r>> \in Disturbed \/ <<"payment", receipts[r].pay>> \in Disturbed
      BY <2>1, <2>2, <3>1, <3>2
    <3> QED
      BY <3>3
  <2>4. ASSUME NEW p \in Pays, Live(p), pays[p].fiscal
        PROVE  (\E r \in BackedBy(p) : receipts[r].status = "linked") \/ <<"payment", p>> \in Disturbed
    <3>1. (\E r \in Receipts : receipts[r].pay = p) \/ PayExcused(p)
      BY <1>1, <2>4 DEF LinkInv, HasReceipt, Live
    <3>2. \A r \in Receipts : receipts[r].pay = p => r \in BackedBy(p) /\ receipts[r].status = "linked"
      BY <1>1 DEF LinkInv, LinkedIsNamed, BackedBy, Pays
    <3> QED
      BY <2>2, <3>1, <3>2
  <2> QED
    BY <2>3, <2>4 DEF LinkedBothWays
<1>2. DeskInv /\ LinkInv /\ [ReceiptsNext]_receiptVars => LinkInv'
  BY LinksStep
<1> QED
  BY <1>1, <1>2, LinksFirst, DeskAlways, PTL DEF ReceiptsSpec
=============================================================================
