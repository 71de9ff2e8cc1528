--------------------------- MODULE BillDesk_proofs ---------------------------
(* Settlements under any number of overlapping requests: what the count of a period and the check
   of a status guarantee to requests that meet nobody. *)
EXTENDS BillDesk, TLAPS

Bill == [status : {"absent", "borrador", "emitida", "cerrada", "deleted"},
         month : Months \cup {noMonth}, paid : BOOLEAN]
Task == [op : {"none", "create", "update", "emit", "pay"}, step : {"", "write", "count"},
         bill : Bills \cup {0}, month : Months \cup {noMonth}]

BillTypes ==
  /\ bills \in [Bills -> Bill]
  /\ tasks \in [Clerks -> Task]

\* A request that is to insert or save a settlement has a period, and a settlement if it is there.
Saving(c) == tasks[c].op \in {"create", "update", "emit"}
TasksFilled ==
  \A c \in Clerks : /\ Saving(c) => tasks[c].month \in Months
                    /\ tasks[c].op = "create" => tasks[c].bill = 0
                    /\ tasks[c].op \in {"update", "emit", "pay"} => tasks[c].bill \in Bills

\* Requests with a stake in common are on record, with all their stakes.
MeetingsOnRecord ==
  \A c, d \in Clerks :
    c # d /\ Stakes(tasks[c]) \cap Stakes(tasks[d]) # {} => Stakes(tasks[c]) \subseteq contested

\* What a request counted still holds when it writes.
CountHolds ==
  \A c \in Clerks, u \in Bills :
    Saving(c) /\ tasks[c].step = "write" /\ u # tasks[c].bill /\ Existing(u)
      /\ bills[u].month = tasks[c].month =>
        \/ Stakes(tasks[c]) \cap contested # {}
        \/ <<"bill", u>> \in contested

\* What a request read of its settlement still holds when it writes.
ReadingHolds ==
  \A c \in Clerks, b \in Bills :
    tasks[c].bill = b /\ <<"bill", b>> \notin contested =>
      /\ tasks[c].op = "pay" => bills[b].status = "emitida"
      /\ tasks[c].op \in {"update", "emit"} => bills[b].status = "borrador" /\ ~ bills[b].paid

\* A settlement that exists has a period.
MonthsKnown == \A b \in Bills : Existing(b) => bills[b].month \in Months

BillInv ==
  /\ BillTypes /\ TasksFilled /\ MeetingsOnRecord /\ CountHolds /\ ReadingHolds /\ MonthsKnown
  /\ BilledOnceUnlessContested /\ PaidOnlyWhenIssued

LEMMA NoTaskType ==
  NoTask \in Task /\ NoTask.op = "none" /\ NoTask.step = "" /\ NoTask.bill = 0
  /\ NoTask.month = noMonth /\ Stakes(NoTask) = {}
BY DEF NoTask, Task, Stakes

LEMMA ZeroIsNoBill == 0 \notin Bills
BY BillAssumption DEF Bills

LEMMA BillsInitInv == BillsInit => BillInv
<1> SUFFICES ASSUME BillsInit PROVE BillInv
  OBVIOUS
<1>1. bills = [b \in Bills |-> NoBill] /\ \A c \in Clerks : tasks[c] = NoTask
  BY DEF BillsInit
<1>2. NoBill \in Bill /\ NoBill.status = "absent" /\ NoBill.paid = FALSE
  BY DEF NoBill, Bill
<1>3. BillTypes
  BY <1>1, <1>2, NoTaskType DEF BillsInit, BillTypes
<1>4. TasksFilled /\ MeetingsOnRecord /\ CountHolds
  BY <1>1, NoTaskType DEF TasksFilled, Saving, MeetingsOnRecord, CountHolds
<1>5. ReadingHolds
  BY <1>1, <1>2, NoTaskType, ZeroIsNoBill DEF ReadingHolds
<1>6. MonthsKnown /\ BilledOnceUnlessContested /\ PaidOnlyWhenIssued
  BY <1>1, <1>2 DEF MonthsKnown, BilledOnceUnlessContested, Existing, PaidOnlyWhenIssued
<1> QED
  BY <1>3, <1>4, <1>5, <1>6 DEF BillInv

\* What a request has at stake.
LEMMA StakesAre ==
  ASSUME NEW task
  PROVE  /\ task.bill # 0 => <<"bill", task.bill>> \in Stakes(task)
         /\ task.month # noMonth => <<"month", task.month>> \in Stakes(task)
BY DEF Stakes

\* A request begins: it is put on record with all whom it meets.
LEMMA BeginTaskStep ==
  ASSUME BillInv, NEW c \in Clerks, NEW task \in Task, BeginTask(c, task),
         task.op \in {"create", "update", "emit"} => task.month \in Months,
         task.op = "create" => task.bill = 0,
         task.op \in {"update", "emit", "pay"} => task.bill \in Bills,
         task.op \in {"create", "update", "emit"} /\ task.step = "write" =>
           \A u \in Bills \ {task.bill} : Existing(u) /\ bills[u].month = task.month =>
             \/ Stakes(task) \cap contested # {}
             \/ <<"bill", u>> \in contested,
         task.op = "pay" => bills[task.bill].status = "emitida",
         task.op \in {"update", "emit"} => bills[task.bill].status = "borrador"
  PROVE  BillInv'
<1> USE DEF BillInv
<1>1. /\ bills' = bills
      /\ \A d \in Clerks : IF d = c THEN tasks'[d] = task ELSE tasks'[d] = tasks[d]
      /\ contested \subseteq contested'
  BY DEF BeginTask, Contest, BillTypes
<1>2. BillTypes' /\ TasksFilled'
  BY <1>1 DEF BeginTask, BillTypes, TasksFilled, Saving
<1>3. ASSUME NEW d \in Clerks \ {c}, Stakes(task) \cap Stakes(tasks[d]) # {}
      PROVE  Stakes(task) \subseteq contested' /\ Stakes(tasks[d]) \subseteq contested'
  BY <1>3 DEF BeginTask, Contest
<1>4. MeetingsOnRecord'
  BY <1>1, <1>3 DEF MeetingsOnRecord
<1>5. CountHolds'
  <2> SUFFICES ASSUME NEW d \in Clerks, NEW u \in Bills,
                      Saving(d)', tasks'[d].step = "write", u # tasks'[d].bill, Existing(u)',
                      bills'[u].month = tasks'[d].month
               PROVE  Stakes(tasks'[d]) \cap contested' # {} \/ <<"bill", u>> \in contested'
    BY DEF CountHolds
  <2>1. CASE d = c
    BY <1>1, <2>1 DEF Saving, Existing
  <2>2. CASE d # c
    BY <1>1, <2>2 DEF CountHolds, Saving, Existing
  <2> QED
    BY <2>1, <2>2
<1>6. ReadingHolds'
  BY <1>1 DEF ReadingHolds, PaidOnlyWhenIssued
<1>7. MonthsKnown' /\ BilledOnceUnlessContested' /\ PaidOnlyWhenIssued'
  BY <1>1 DEF MonthsKnown, BilledOnceUnlessContested, Existing, PaidOnlyWhenIssued
<1> QED
  BY <1>2, <1>4, <1>5, <1>6, <1>7

\* A task ends, and nothing is written.
LEMMA EndTaskStep ==
  ASSUME BillInv, NEW c \in Clerks, EndTask(c), UNCHANGED <<bills, contested>>
  PROVE  BillInv'
<1> USE DEF BillInv
<1>1. \A d \in Clerks : IF d = c THEN tasks'[d] = NoTask ELSE tasks'[d] = tasks[d]
  BY DEF EndTask, BillTypes
<1>2. BillTypes'
  BY NoTaskType DEF EndTask, BillTypes
<1>3. TasksFilled' /\ MeetingsOnRecord' /\ CountHolds'
  BY <1>1, NoTaskType DEF TasksFilled, Saving, MeetingsOnRecord, CountHolds, Existing
<1>4. ReadingHolds'
  BY <1>1, NoTaskType, ZeroIsNoBill DEF ReadingHolds
<1>5. MonthsKnown' /\ BilledOnceUnlessContested' /\ PaidOnlyWhenIssued'
  BY DEF MonthsKnown, BilledOnceUnlessContested, Existing, PaidOnlyWhenIssued
<1> QED
  BY <1>2, <1>3, <1>4, <1>5

\* The count finds no other settlement of the period.
LEMMA CountStep ==
  ASSUME BillInv, NEW c \in Clerks, CountPeriod(c)
  PROVE  BillInv'
<1> USE DEF BillInv
<1>1. tasks[c] \in Task /\ UNCHANGED <<bills, contested>>
  BY DEF BillTypes, CountPeriod
<1>2. /\ [tasks[c] EXCEPT !.step = "write"] \in Task
      /\ [tasks[c] EXCEPT !.step = "write"].op = tasks[c].op
      /\ [tasks[c] EXCEPT !.step = "write"].bill = tasks[c].bill
      /\ [tasks[c] EXCEPT !.step = "write"].month = tasks[c].month
  BY <1>1 DEF Task
<1>3. \A d \in Clerks : /\ d # c => tasks'[d] = tasks[d]
                        /\ tasks'[d].op = tasks[d].op
                        /\ tasks'[d].bill = tasks[d].bill
                        /\ tasks'[d].month = tasks[d].month
  BY <1>2 DEF CountPeriod, BillTypes
<1>4. \A d \in Clerks : Stakes(tasks'[d]) = Stakes(tasks[d])
  BY <1>3 DEF Stakes
<1>5. BillTypes'
  BY <1>1, <1>2 DEF CountPeriod, BillTypes
<1>6. TasksFilled' /\ MeetingsOnRecord' /\ ReadingHolds'
  BY <1>1, <1>3, <1>4 DEF TasksFilled, Saving, MeetingsOnRecord, ReadingHolds
<1>7. CountHolds'
  <2> SUFFICES ASSUME NEW d \in Clerks, NEW u \in Bills,
                      Saving(d)', tasks'[d].step = "write", u # tasks'[d].bill, Existing(u)',
                      bills'[u].month = tasks'[d].month
               PROVE  Stakes(tasks'[d]) \cap contested' # {} \/ <<"bill", u>> \in contested'
    BY DEF CountHolds
  <2>1. CASE d = c
    BY <1>1, <1>3, <2>1 DEF CountPeriod, DuplicatePeriod, Existing
  <2>2. CASE d # c
    BY <1>1, <1>3, <1>4, <2>2 DEF CountHolds, Saving, Existing
  <2> QED
    BY <2>1, <2>2
<1>8. MonthsKnown' /\ BilledOnceUnlessContested' /\ PaidOnlyWhenIssued'
  BY <1>1 DEF MonthsKnown, BilledOnceUnlessContested, Existing, PaidOnlyWhenIssued
<1> QED
  BY <1>5, <1>6, <1>7, <1>8

\* A request writes the settlement it has at stake, or a new one, and ends. A settlement it makes
\* exist in a period, it made exist there by what it counted.
LEMMA WriteStep ==
  ASSUME BillInv, NEW c \in Clerks, NEW b \in Bills, NEW new \in Bill,
         bills' = [bills EXCEPT ![b] = new], EndTask(c), UNCHANGED contested,
         tasks[c].bill = b \/ bills[b].status = "absent",
         new.status \in {"borrador", "emitida", "cerrada"} =>
           \/ Existing(b) /\ new.month = bills[b].month
           \/ /\ Saving(c) /\ tasks[c].step = "write" /\ new.month = tasks[c].month
              /\ tasks[c].bill \in {0, b},
         new.paid => new.status \in {"emitida", "cerrada"} \/ <<"bill", b>> \in contested
  PROVE  BillInv'
<1> USE DEF BillInv
<1>1. \A d \in Clerks : IF d = c THEN tasks'[d] = NoTask ELSE tasks'[d] = tasks[d]
  BY DEF EndTask, BillTypes
<1>2. \A u \in Bills : IF u = b THEN bills'[u] = new ELSE bills'[u] = bills[u]
  BY DEF BillTypes
<1>3. BillTypes'
  BY NoTaskType DEF EndTask, BillTypes
<1>4. TasksFilled' /\ MeetingsOnRecord'
  BY <1>1, NoTaskType DEF TasksFilled, Saving, MeetingsOnRecord
<1>5. CountHolds'
  <2> SUFFICES ASSUME NEW d \in Clerks, NEW u \in Bills,
                      Saving(d)', tasks'[d].step = "write", u # tasks'[d].bill, Existing(u)',
                      bills'[u].month = tasks'[d].month
               PROVE  Stakes(tasks'[d]) \cap contested' # {} \/ <<"bill", u>> \in contested'
    BY DEF CountHolds
  <2>1. d # c /\ tasks'[d] = tasks[d]
    BY <1>1, NoTaskType DEF Saving
  <2>2. CASE Existing(u) /\ bills[u].month = bills'[u].month
    BY <2>1, <2>2 DEF CountHolds, Saving
  <2>3. CASE ~ (Existing(u) /\ bills[u].month = bills'[u].month)
    <3>1. Saving(c) /\ tasks[c].month = tasks[d].month
      BY <1>2, <2>1, <2>3 DEF Existing
    <3>2. tasks[d].month \in Months /\ tasks[d].month # noMonth
      BY <3>1, BillAssumption DEF TasksFilled
    <3>3. <<"month", tasks[d].month>> \in Stakes(tasks[c]) \cap Stakes(tasks[d])
      BY <3>1, <3>2 DEF Stakes
    <3> QED
      BY <2>1, <3>3 DEF MeetingsOnRecord
  <2> QED
    BY <2>2, <2>3
<1>6. ReadingHolds'
  <2> SUFFICES ASSUME NEW d \in Clerks, tasks'[d].bill \in Bills,
                      <<"bill", tasks'[d].bill>> \notin contested'
               PROVE  LET u == tasks'[d].bill
                      IN  /\ tasks'[d].op = "pay" => bills'[u].status = "emitida"
                          /\ tasks'[d].op \in {"update", "emit"} =>
                               bills'[u].status = "borrador" /\ ~ bills'[u].paid
    BY DEF ReadingHolds
  <2>1. d # c /\ tasks'[d] = tasks[d]
    BY <1>1, NoTaskType, ZeroIsNoBill
  <2>2. CASE tasks[d].bill # b
    BY <1>2, <2>1, <2>2 DEF ReadingHolds
  <2>3. CASE tasks[d].bill = b /\ tasks[c].bill = b
    <3>1. <<"bill", b>> \in Stakes(tasks[c]) \cap Stakes(tasks[d])
      BY <2>3, ZeroIsNoBill DEF Stakes
    <3> QED
      BY <2>1, <2>3, <3>1 DEF MeetingsOnRecord
  <2>4. CASE tasks[d].bill = b /\ bills[b].status = "absent"
    BY <2>1, <2>4 DEF ReadingHolds
  <2> QED
    BY <2>2, <2>3, <2>4
<1>7. BilledOnceUnlessContested'
  <2>1. ASSUME NEW u \in Bills \ {b}, Existing(b)', Existing(u), new.month = bills[u].month
        PROVE  {<<"bill", b>>, <<"bill", u>>, <<"month", new.month>>} \cap contested # {}
    <3>1. new.status \in {"borrador", "emitida", "cerrada"}
      BY <1>2, <2>1 DEF Existing
    <3>2. CASE Existing(b) /\ new.month = bills[b].month
      BY <2>1, <3>2 DEF BilledOnceUnlessContested
    <3>3. CASE /\ Saving(c) /\ tasks[c].step = "write" /\ new.month = tasks[c].month
               /\ tasks[c].bill \in {0, b}
      <4>1. Stakes(tasks[c]) \cap contested # {} \/ <<"bill", u>> \in contested
        BY <2>1, <3>3, ZeroIsNoBill DEF CountHolds
      <4>2. Stakes(tasks[c]) \subseteq {<<"bill", b>>, <<"month", new.month>>}
        BY <3>3 DEF Stakes
      <4> QED
        BY <4>1, <4>2
    <3> QED
      BY <3>1, <3>2, <3>3
  <2>2. \A u \in Bills \ {b} : Existing(u)' <=> Existing(u)
    BY <1>2 DEF Existing
  <2> QED
    BY <1>2, <2>1, <2>2 DEF BilledOnceUnlessContested
<1>8. PaidOnlyWhenIssued'
  BY <1>2 DEF PaidOnlyWhenIssued
<1>9. MonthsKnown'
  BY <1>2 DEF MonthsKnown, Existing, TasksFilled
<1> QED
  BY <1>3, <1>4, <1>5, <1>6, <1>7, <1>8, <1>9

\* A request in one step puts itself on record with all that are under way on its settlement.
LEMMA AtOnceStep ==
  ASSUME BillInv, NEW b \in Bills, NEW new \in Bill, AtOnce(b, new),
         Existing(b), new.month = bills[b].month,
         new.paid => new.status \in {"emitida", "cerrada"} \/ <<"bill", b>> \in contested
  PROVE  BillInv'
<1> USE DEF BillInv
<1>1. tasks' = tasks /\ contested \subseteq contested'
  BY DEF AtOnce
<1>2. \A u \in Bills : IF u = b THEN bills'[u] = new ELSE bills'[u] = bills[u]
  BY DEF AtOnce, BillTypes
<1>3. \A u \in Bills : bills'[u].month = bills[u].month /\ (Existing(u)' => Existing(u))
  BY <1>2 DEF Existing
<1>4. BillTypes'
  BY <1>1 DEF AtOnce, BillTypes
<1>5. TasksFilled' /\ MeetingsOnRecord'
  BY <1>1 DEF TasksFilled, Saving, MeetingsOnRecord
<1>6. CountHolds'
  <2> SUFFICES ASSUME NEW d \in Clerks, NEW u \in Bills,
                      Saving(d), tasks[d].step = "write", u # tasks[d].bill, Existing(u),
                      bills[u].month = tasks[d].month
               PROVE  Stakes(tasks[d]) \cap contested' # {} \/ <<"bill", u>> \in contested'
    BY <1>1, <1>3 DEF CountHolds, Saving
  <2>1. Stakes(tasks[d]) \cap contested # {} \/ <<"bill", u>> \in contested
    BY DEF CountHolds
  <2> QED
    BY <1>1, <2>1
<1>7. ASSUME NEW d \in Clerks, tasks[d].bill = b PROVE <<"bill", b>> \in contested'
  <2>1. <<"bill", b>> \in Stakes(tasks[d])
    BY <1>7, ZeroIsNoBill DEF Stakes
  <2> QED
    BY <2>1 DEF AtOnce
<1>8. ReadingHolds'
  BY <1>1, <1>2, <1>7 DEF ReadingHolds
<1>9. BilledOnceUnlessContested'
  <2> SUFFICES ASSUME NEW u \in Bills, NEW v \in Bills, u # v, Existing(u), Existing(v),
                      bills[u].month = bills[v].month
               PROVE  {<<"bill", u>>, <<"bill", v>>, <<"month", bills[u].month>>} \cap contested' # {}
    BY <1>3 DEF BilledOnceUnlessContested
  <2>1. {<<"bill", u>>, <<"bill", v>>, <<"month", bills[u].month>>} \cap contested # {}
    BY DEF BilledOnceUnlessContested
  <2> QED
    BY <1>1, <2>1
<1>10. PaidOnlyWhenIssued' /\ MonthsKnown'
  BY <1>1, <1>2, <1>3 DEF PaidOnlyWhenIssued, MonthsKnown
<1> QED
  BY <1>4, <1>5, <1>6, <1>8, <1>9, <1>10

\* ------------------------------------------------------------- the theorems
LEMMA BillTypesOf ==
  ASSUME BillInv
  PROVE  /\ \A b \in Bills : /\ bills[b] \in Bill /\ bills[b].month \in Months \cup {noMonth}
                             /\ bills[b].paid \in BOOLEAN
         /\ \A c \in Clerks : tasks[c] \in Task
BY DEF BillInv, BillTypes, Bill

LEMMA BeginStep ==
  ASSUME BillInv, NEW c \in Clerks,
         \/ \E m \in Months : BeginCreate(c, m)
         \/ \E b \in Bills : \/ \E m \in Months : BeginUpdate(c, b, m)
                             \/ BeginEmit(c, b) \/ BeginRetype(c, b) \/ BeginPay(c, b)
  PROVE  BillInv'
<1>1. ASSUME NEW m \in Months, BeginCreate(c, m) PROVE BillInv'
  <2> DEFINE task == [NoTask EXCEPT !.op = "create", !.step = "write", !.month = m]
  <2>1. task \in Task /\ task.op = "create" /\ task.month = m /\ task.bill = 0
    BY DEF NoTask, Task
  <2>2. \A u \in Bills \ {0} : ~ (Existing(u) /\ bills[u].month = m)
    BY <1>1 DEF BeginCreate, DuplicatePeriod
  <2> QED
    BY <1>1, <2>1, <2>2, BeginTaskStep DEF BeginCreate
<1>2. ASSUME NEW m \in Months, NEW b \in Bills, BeginUpdate(c, b, m) PROVE BillInv'
  <2> DEFINE task == [op |-> "update", step |-> "count", bill |-> b, month |-> m]
  <2>1. task \in Task
    BY DEF Task
  <2> QED
    BY <1>2, <2>1, BeginTaskStep DEF BeginUpdate
<1>3. ASSUME NEW b \in Bills, BeginEmit(c, b) PROVE BillInv'
  <2> DEFINE task == [op |-> "emit", step |-> "count", bill |-> b, month |-> bills[b].month]
  <2>1. task \in Task
    BY BillTypesOf DEF Task
  <2>2. bills[b].month \in Months
    BY <1>3 DEF BeginEmit, BillInv, MonthsKnown, Existing
  <2> QED
    BY <1>3, <2>1, <2>2, BeginTaskStep DEF BeginEmit
<1>4. ASSUME NEW b \in Bills, BeginRetype(c, b) PROVE BillInv'
  <2> DEFINE task == [op |-> "update", step |-> "write", bill |-> b, month |-> bills[b].month]
  <2>1. task \in Task
    BY BillTypesOf DEF Task
  <2>2. bills[b].month \in Months /\ Existing(b)
    BY <1>4 DEF BeginRetype, BillInv, MonthsKnown, Existing
  <2>3. Stakes(task) = {<<"bill", b>>, <<"month", bills[b].month>>}
    BY <2>2, BillAssumption, ZeroIsNoBill DEF Stakes
  <2>4. ASSUME NEW u \in Bills \ {b}, Existing(u), bills[u].month = bills[b].month
        PROVE  Stakes(task) \cap contested # {} \/ <<"bill", u>> \in contested
    BY <2>2, <2>3, <2>4 DEF BillInv, BilledOnceUnlessContested
  <2> HIDE DEF task
  <2>5. /\ task.op = "update" /\ task.step = "write" /\ task.bill = b
        /\ task.month = bills[b].month /\ BeginTask(c, task) /\ bills[b].status = "borrador"
    BY <1>4 DEF BeginRetype, task
  <2> QED
    BY <2>1, <2>2, <2>4, <2>5, BeginTaskStep
<1>5. ASSUME NEW b \in Bills, BeginPay(c, b) PROVE BillInv'
  <2> DEFINE task == [NoTask EXCEPT !.op = "pay", !.step = "write", !.bill = b]
  <2>1. task \in Task /\ task.op = "pay" /\ task.bill = b
    BY DEF NoTask, Task
  <2> QED
    BY <1>5, <2>1, BeginTaskStep DEF BeginPay
<1> QED
  BY <1>1, <1>2, <1>3, <1>4, <1>5

LEMMA RequestWrites ==
  ASSUME BillInv, NEW c \in Clerks,
         (\E b \in Bills : InsertBill(c, b)) \/ SaveBill(c) \/ ApplyPayment(c)
  PROVE  BillInv'
<1>1. ASSUME NEW b \in Bills, InsertBill(c, b) PROVE BillInv'
  <2> DEFINE new == [status |-> "borrador", month |-> tasks[c].month, paid |-> FALSE]
  <2>1. tasks[c].month \in Months /\ tasks[c].bill = 0 /\ Saving(c)
    BY <1>1 DEF InsertBill, Doing, BillInv, TasksFilled, Saving
  <2>2. new \in Bill
    BY <2>1 DEF Bill
  <2> QED
    BY <1>1, <2>1, <2>2, WriteStep DEF InsertBill, NextBill, Doing
<1>2. ASSUME SaveBill(c) PROVE BillInv'
  <2>1. tasks[c].month \in Months /\ tasks[c].bill \in Bills /\ Saving(c)
    BY <1>2 DEF SaveBill, BillInv, TasksFilled, Saving
  <2> DEFINE b == tasks[c].bill
             status == IF tasks[c].op = "emit" THEN "emitida" ELSE "borrador"
             new == [bills[b] EXCEPT !.status = status, !.month = tasks[c].month]
  <2>2. bills[b] \in Bill /\ status \in {"borrador", "emitida"}
    BY <2>1, BillTypesOf
  <2>3. new \in Bill /\ new.month = tasks[c].month /\ new.paid = bills[b].paid
        /\ new.status = status
    BY <2>1, <2>2 DEF Bill
  <2>4. bills' = [bills EXCEPT ![b] = new]
    BY <1>2 DEF SaveBill
  <2>5. bills[b].paid => <<"bill", b>> \in contested
    BY <1>2, <2>1 DEF SaveBill, BillInv, ReadingHolds
  <2> HIDE DEF new, status
  <2> QED
    BY <1>2, <2>1, <2>3, <2>4, <2>5, WriteStep DEF SaveBill
<1>3. ASSUME ApplyPayment(c) PROVE BillInv'
  <2>1. tasks[c].bill \in Bills /\ tasks[c].op = "pay"
    BY <1>3 DEF ApplyPayment, Doing, BillInv, TasksFilled
  <2> DEFINE b == tasks[c].bill
             new == [bills[b] EXCEPT !.paid = TRUE]
  <2>2. new \in Bill /\ new.month = bills[b].month /\ new.status = bills[b].status
    BY <2>1, BillTypesOf DEF Bill
  <2>3. bills' = [bills EXCEPT ![b] = new]
    BY <1>3, <2>1 DEF ApplyPayment, BillInv, BillTypes
  <2>4. <<"bill", b>> \in contested \/ bills[b].status = "emitida"
    BY <2>1 DEF BillInv, ReadingHolds
  <2> HIDE DEF new
  <2> QED
    BY <1>3, <2>1, <2>2, <2>3, <2>4, WriteStep DEF ApplyPayment, Existing
<1> QED
  BY <1>1, <1>2, <1>3

LEMMA SettlementWrites ==
  ASSUME BillInv, NEW b \in Bills, RevertToDraft(b) \/ DeleteBill(b) \/ Close(b)
  PROVE  BillInv'
<1>1. bills[b] \in Bill /\ bills[b].paid \in BOOLEAN
  BY BillTypesOf
<1>2. Existing(b)
  BY DEF RevertToDraft, DeleteBill, Close, Existing
<1>3. bills[b].status = "borrador" /\ bills[b].paid => <<"bill", b>> \in contested
  BY DEF BillInv, PaidOnlyWhenIssued
<1>4. PICK status \in {"borrador", "deleted", "cerrada"}, paid \in BOOLEAN :
        /\ AtOnce(b, [bills[b] EXCEPT !.status = status, !.paid = paid])
        /\ paid => status = "cerrada" \/ <<"bill", b>> \in contested
  <2>1. CASE RevertToDraft(b)
    BY <2>1 DEF RevertToDraft, Voided
  <2>2. CASE DeleteBill(b)
    BY <1>1, <1>3, <2>2 DEF DeleteBill, Voided
  <2>3. CASE Close(b)
    <3>1. [bills[b] EXCEPT !.status = "cerrada"]
            = [bills[b] EXCEPT !.status = "cerrada", !.paid = bills[b].paid]
      BY <1>1 DEF Bill
    <3> QED
      BY <1>1, <2>3, <3>1 DEF Close
  <2> QED
    BY <2>1, <2>2, <2>3
<1> DEFINE new == [bills[b] EXCEPT !.status = status, !.paid = paid]
<1>5. new \in Bill /\ new.month = bills[b].month /\ new.status = status /\ new.paid = paid
  BY <1>1 DEF Bill
<1>6. AtOnce(b, new)
  BY <1>4
<1> HIDE DEF new
<1> QED
  BY <1>2, <1>4, <1>5, <1>6, AtOnceStep

LEMMA BillStep == BillInv /\ [BillsNext]_billVars => BillInv'
<1> SUFFICES ASSUME BillInv, [BillsNext]_billVars PROVE BillInv'
  OBVIOUS
<1>1. ASSUME NEW c \in Clerks, CountPeriod(c) \/ GiveUp(c) PROVE BillInv'
  BY <1>1, CountStep, EndTaskStep DEF GiveUp
<1>2. CASE UNCHANGED billVars
  BY <1>2 DEF billVars, BillInv, BillTypes, TasksFilled, Saving, MeetingsOnRecord, CountHolds,
              ReadingHolds, MonthsKnown, BilledOnceUnlessContested, PaidOnlyWhenIssued, Existing
<1> QED
  BY <1>1, <1>2, BeginStep, RequestWrites, SettlementWrites DEF BillsNext

LEMMA BillsAlways == BillsSpec => []BillInv
BY BillsInitInv, BillStep, PTL DEF BillsSpec

\* The count of a period is enough for requests that do not overlap on it (duplicateLiquidationPeriod
\* in Create, UpdateDraft and Emit), for any number of clerks, settlements and periods.
THEOREM BilledOnce == BillsSpec => []BilledOnceUnlessContested
<1>1. BillInv => BilledOnceUnlessContested
  BY DEF BillInv
<1> QED
  BY <1>1, BillsAlways, PTL

\* Live money from a settlement that is not issued is left only by requests that overlapped on it
\* (CreateFromParams against RevertToDraft, Delete and the saves of a draft).
THEOREM PaidMeansIssued == BillsSpec => []PaidOnlyWhenIssued
<1>1. BillInv => PaidOnlyWhenIssued
  BY DEF BillInv
<1> QED
  BY <1>1, BillsAlways, PTL
=============================================================================
