------------------------------- MODULE BillDesk -------------------------------
(* The settlements of one company as requests that run at once. SettlementLedger has each request
   in one step; here a request that reads before its transaction, or counts before it inserts,
   takes two, and others run in between. Saves write every column as it was read, and the only
   guard of one settlement for a period is the count of duplicateLiquidationPeriod: there is no
   unique index. *)
EXTENDS Requests, Naturals, FiniteSets

CONSTANTS MaxBills,     \* bound on the settlements
          Months        \* the periods (YYYY-MM) that are billed

noMonth == "noMonth"

ASSUME BillAssumption == MaxBills \in Nat /\ noMonth \notin Months

VARIABLES bills,        \* tax_settlements: status, period and whether a payment made from it is live
          tasks,        \* the request each clerk has under way
          contested     \* settlements and periods with two requests under way at once

billVars == <<bills, tasks, contested>>

Bills == 1 .. MaxBills
NoBill == [status |-> "absent", month |-> noMonth, paid |-> FALSE]
NoTask == [op |-> "none", step |-> "", bill |-> 0, month |-> noMonth]

Existing(b) == bills[b].status \in {"borrador", "emitida", "cerrada"}

NextBill(b) == bills[b].status = "absent" /\ \A u \in 1 .. b - 1 : bills[u].status # "absent"

\* Mutant of DuplicatePeriod: only drafts count.
DuplicateDraft(month, b) ==
  \E u \in Bills \ {b} : bills[u].status = "borrador" /\ bills[u].month = month

DuplicatePeriod(month, b) == \E u \in Bills \ {b} : Existing(u) /\ bills[u].month = month

Stakes(task) ==
  {<<"bill", b>> : b \in {task.bill} \ {0}} \cup {<<"month", m>> : m \in {task.month} \ {noMonth}}

Contest(c, stakes) ==
  LET met == {d \in Clerks \ {c} : Stakes(tasks[d]) \cap stakes # {}}
  IN contested' = IF met = {} THEN contested
                  ELSE contested \cup stakes \cup UNION {Stakes(tasks[d]) : d \in met}

BeginTask(c, task) ==
  /\ tasks[c] = NoTask
  /\ tasks' = [tasks EXCEPT ![c] = task]
  /\ Contest(c, Stakes(task))
  /\ UNCHANGED bills

Doing(c, op, step) == tasks[c].op = op /\ tasks[c].step = step
EndTask(c) == tasks' = [tasks EXCEPT ![c] = NoTask]

\* The transaction rolls back, the process dies, or a check refuses.
GiveUp(c) == tasks[c] # NoTask /\ EndTask(c) /\ UNCHANGED <<bills, contested>>
\* ------------------------------------------------------------------- drafts
\* Create and CreateSupervisorInitialDraft count, then insert, in one transaction without locks.
BeginCreate(c, month) ==
  /\ ~DuplicatePeriod(month, 0)
  /\ BeginTask(c, [NoTask EXCEPT !.op = "create", !.step = "write", !.month = month])

InsertBill(c, b) ==
  /\ Doing(c, "create", "write") /\ NextBill(b)
  /\ bills' = [bills EXCEPT ![b] = [status |-> "borrador", month |-> tasks[c].month, paid |-> FALSE]]
  /\ EndTask(c) /\ UNCHANGED contested

\* UpdateDraft reads the settlement and its status, builds the row, and only then begins the
\* transaction that counts and saves it. UpdateSupervisorDraft does the same.
BeginUpdate(c, b, month) ==
  /\ bills[b].status = "borrador"
  /\ BeginTask(c, [op |-> "update", step |-> "count", bill |-> b, month |-> month])

\* Emit reads the settlement too, and saves it with the period it read.
BeginEmit(c, b) ==
  /\ bills[b].status = "borrador"
  /\ BeginTask(c, [op |-> "emit", step |-> "count", bill |-> b, month |-> bills[b].month])

\* UpdatePaymentDocumentType reads and saves without a count: the period is as it was read.
BeginRetype(c, b) ==
  /\ bills[b].status = "borrador"
  /\ BeginTask(c, [op |-> "update", step |-> "write", bill |-> b, month |-> bills[b].month])

CountPeriod(c) ==
  /\ tasks[c].step = "count"
  /\ ~DuplicatePeriod(tasks[c].month, tasks[c].bill)
  /\ tasks' = [tasks EXCEPT ![c].step = "write"]
  /\ UNCHANGED <<bills, contested>>

\* Save of a settlement that was deleted meanwhile inserts it anew.
SaveBill(c) ==
  /\ tasks[c].step = "write" /\ tasks[c].op \in {"update", "emit"}
  /\ bills' = [bills EXCEPT ![tasks[c].bill] =
                 [@ EXCEPT !.status = IF tasks[c].op = "emit" THEN "emitida" ELSE "borrador",
                           !.month = tasks[c].month]]
  /\ EndTask(c) /\ UNCHANGED contested
\* -------------------------------------------------------- issued settlements
\* CreateFromParams finds the settlement issued, then applies the payment in a transaction that
\* does not look again.
BeginPay(c, b) ==
  /\ bills[b].status = "emitida"
  /\ BeginTask(c, [NoTask EXCEPT !.op = "pay", !.step = "write", !.bill = b])

ApplyPayment(c) ==
  /\ Doing(c, "pay", "write")
  /\ bills' = [bills EXCEPT ![tasks[c].bill].paid = TRUE]
  /\ EndTask(c) /\ UNCHANGED contested

\* These read and write in one transaction, and are one step here.
AtOnce(b, bill) ==
  /\ bills' = [bills EXCEPT ![b] = bill]
  /\ LET met == {d \in Clerks : <<"bill", b>> \in Stakes(tasks[d])}
     IN contested' = IF met = {} THEN contested
                     ELSE contested \cup {<<"bill", b>>} \cup UNION {Stakes(tasks[d]) : d \in met}
  /\ UNCHANGED tasks

\* Mutant of Voided: the payments of a settlement outlive it.
VoidedNone(b) == bills[b].paid

\* revertSettlementPaymentsAndFiscal voids every payment made from the settlement.
Voided(b) == FALSE

RevertToDraft(b) ==
  /\ bills[b].status = "emitida"
  /\ AtOnce(b, [bills[b] EXCEPT !.status = "borrador", !.paid = Voided(b)])

DeleteBill(b) ==
  /\ bills[b].status \in {"borrador", "emitida"}
  /\ AtOnce(b, [bills[b] EXCEPT !.status = "deleted",
                                !.paid = IF bills[b].status = "emitida" THEN Voided(b) ELSE @])

Close(b) ==
  /\ bills[b].status = "emitida"
  /\ AtOnce(b, [bills[b] EXCEPT !.status = "cerrada"])
\* ----------------------------------------------------------- the specification
BillsInit ==
  /\ bills = [b \in Bills |-> NoBill]
  /\ tasks = [c \in Clerks |-> NoTask]
  /\ contested = {}

BillsNext ==
  \/ \E c \in Clerks :
       \/ \E m \in Months : BeginCreate(c, m) \/ \E b \in Bills : BeginUpdate(c, b, m)
       \/ \E b \in Bills : InsertBill(c, b) \/ BeginEmit(c, b) \/ BeginRetype(c, b) \/ BeginPay(c, b)
       \/ CountPeriod(c) \/ SaveBill(c) \/ ApplyPayment(c) \/ GiveUp(c)
  \/ \E b \in Bills : RevertToDraft(b) \/ DeleteBill(b) \/ Close(b)

BillsSpec == BillsInit /\ [][BillsNext]_billVars
\* -------------------------------------------------------------- properties
\* A company is billed once for a period as long as requests on that period, or on its
\* settlements, do not overlap: the count is enough alone, and nothing but the count prevents it.
BilledOnceUnlessContested ==
  \A b, u \in Bills :
    b # u /\ Existing(b) /\ Existing(u) /\ bills[b].month = bills[u].month =>
      {<<"bill", b>>, <<"bill", u>>, <<"month", bills[b].month>>} \cap contested # {}

\* Money paid from a settlement rests on one that is issued or closed: a draft or a deleted one
\* with live payments is left only by requests that overlapped on it, as a payment that read it
\* issued before it was reverted, or a save of a draft that was issued meanwhile.
PaidOnlyWhenIssued ==
  \A b \in Bills :
    bills[b].paid => bills[b].status \in {"emitida", "cerrada"} \/ <<"bill", b>> \in contested
=============================================================================
