---------------------------- MODULE ScreenShapes ----------------------------
(* The screens of the web client where a read that follows the route, a filter or a row meets the
   handler of a button: what each of them does with late answers, with the address of a save and
   with its answer. *)
EXTENDS WebRoutes

Thens == {"none", "patch",  \* the answer of the save is shown as it comes
          "reload",         \* the handler reads the record again and shows the answer as it comes
          "reread",         \* the effect of the page runs again
          "close",          \* what is shown goes away
          "leave"}          \* the page goes away

\* What a screen reads.
\*   guard    "flag": the cleanup of the effect turns the answers of earlier keys away; "none":
\*            every answer is shown
\*   onFail   whether a failed read clears what is shown or keeps it
\*   hides    the page is a spinner while it reads: its buttons are out of reach
\*   repeats  the effect runs again for the same key, something else having changed
ReadShape(guard, onFail, hides, repeats) ==
  [guard |-> guard, onFail |-> onFail, hides |-> hides, repeats |-> repeats]

\* What the handler of a button sends: to the record of the route or of what is shown; what its
\* answer does, and whether a refusal is followed by a read.
WriteShape(write, on, then, again) ==
  [lock |-> write.lock, on |-> on, then |-> then, again |-> again]

NoWrite == [lock |-> "none", on |-> "nothing", then |-> "none", again |-> FALSE]

Pairs(read, writes) == {[read |-> read, write |-> w] : w \in writes}
Alone(guard, onFail) == Pairs(ReadShape(guard, onFail, FALSE, FALSE), {NoWrite})

\* The settlement: its handlers take settlementId from the route and call setRow(updated).
SettlementRow ==
  Pairs(ReadShape("flag", "clear", TRUE, FALSE),
    {WriteShape(SettlementDetailLinkDebt, "route", "patch", FALSE),
     WriteShape(SettlementDetailClose, "route", "patch", FALSE),
     WriteShape(SettlementDetailPaymentDocType, "route", "patch", FALSE),
     WriteShape(SettlementDetailEmit, "route", "patch", FALSE),
     WriteShape(SettlementDetailDelete, "route", "leave", FALSE),
     WriteShape(SettlementDetailRevert, "route", "leave", FALSE)})

\* Its debts: the effect of [settlementId, row?.status] turns late answers away,
\* reloadDebtsContext, which the handlers call, shows whatever answer it gets.
SettlementDebts ==
  Pairs(ReadShape("flag", "clear", FALSE, TRUE),
    {WriteShape(SettlementDetailLinkDebt, "route", "reload", FALSE),
     WriteShape(SettlementDetailWriteOff, "shown", "reload", FALSE),
     WriteShape(SettlementDetailClose, "route", "reload", FALSE)})

\* The permissions of a role: the spinner covers the ticks, not the button that saves them; the
\* handler saves them to roleId, reads that role again and ticks what it answers.
RolePermissions ==
  Pairs(ReadShape("flag", "keep", FALSE, FALSE),
    {WriteShape(RolePermissionsSave, "route", "reload", FALSE)})

\* The queue of the supervisors' board: an approval bumps reloadKey.
ReviewQueue ==
  Pairs(ReadShape("flag", "clear", FALSE, FALSE), {WriteShape(SupDashApprove, "shown", "reread", FALSE)})

SettlementDraft ==
  Pairs(ReadShape("flag", "keep", TRUE, FALSE), {WriteShape(SettlementNewSave, "route", "leave", FALSE)})

\* The settlement a payment is registered for.
PaymentSettlement ==
  Pairs(ReadShape("flag", "keep", FALSE, FALSE), {WriteShape(PaymentFormSave, "shown", "leave", FALSE)})

SectionsDraft ==
  Pairs(ReadShape("flag", "clear", TRUE, FALSE),
    {WriteShape(LiquidacionSave, "route", "leave", FALSE),
     WriteShape(LiquidacionResync, "shown", "none", FALSE)})

\* The suspensions carried over from the month before: a refused decision is followed by a read
\* of the month it was for, whose answer is shown as it comes.
DetraccionesSuspensions ==
  Pairs(ReadShape("flag", "keep", FALSE, FALSE),
    {WriteShape(DetraccionesCarryOverApply, "route", "close", TRUE)})

PreliminarSuspensions ==
  Pairs(ReadShape("flag", "keep", FALSE, FALSE),
    {WriteShape(PreliminarCarryOverApply, "route", "close", TRUE)})

\* The company of a SIRE page, read again when its keys are saved.
SireCompanyKeys ==
  Pairs(ReadShape("flag", "keep", FALSE, FALSE), {WriteShape(SireCredentialsSave, "route", "reread", FALSE)})

\* Reads no button of the screen depends on: those of CompanySearchInput, AssistantDashboard and
\* AssistantWorkspace clear what they fail to read again, those of Dashboard, of the buckets and
\* of the receipt viewer keep it; the indicators are also read again after an approval.
ReadsThatClear == Alone("flag", "clear")
ReadsThatKeep == Alone("flag", "keep")
IndicatorsOfFilters == Pairs(ReadShape("flag", "clear", FALSE, TRUE), {NoWrite})

GuardedShapes ==
  SettlementRow \cup SettlementDebts \cup RolePermissions \cup ReviewQueue \cup SettlementDraft
    \cup PaymentSettlement \cup SectionsDraft \cup DetraccionesSuspensions
    \cup PreliminarSuspensions \cup SireCompanyKeys \cup ReadsThatClear \cup ReadsThatKeep
    \cup IndicatorsOfFilters

\* The buttons of every screen, by what keeps them from being pressed again: the lists most of
\* them stand on show each answer as it comes.
Offered(view) == UNION {offer.item : offer \in view.offers}
Writes == {item \in UNION {Offered(view) : view \in UNION {screen.views : screen \in WebScreenSet}} :
             item.kind = "write"}
ButtonShapes ==
  {[read |-> ReadShape("none", "keep", FALSE, FALSE), write |-> WriteShape(w, "shown", "none", FALSE)] :
     w \in Writes}

Shapes == GuardedShapes \cup ButtonShapes

\* The shapes have no parameters: TLC evaluates this for each of them. What a refused save has
\* read again belongs to handlers whose success only closes what is shown.
ASSUME ShapesAssumption ==
  \A s \in Shapes : /\ s.write.lock \in Locks /\ s.write.then \in Thens
                    /\ s.write.again => s.write.then = "close"
=============================================================================
