------------------------------- MODULE FirmRuns -------------------------------
(* Requests that go through the companies one after the other, or count rows before they insert
   one: the monthly charges of the plans, the controls of a period, the suspensions carried over
   from the period before, and the numbers of debts. Each run is a sequence of transactions; two
   may run at once, and a run may stop between two companies. A behaviour follows one of the four:
   they share no table. *)
EXTENDS Requests, Naturals, FiniteSets, FiniteSetsExt

CONSTANTS MaxFirms,     \* the companies, in the order the run visits them
          MaxDebts      \* bound on the debts of the company that is numbered

ASSUME FirmAssumption == MaxFirms \in Nat /\ MaxDebts \in Nat

VARIABLES topic,        \* what is followed: "charges", "controls", "carryOver" or "numbers"
          runs,         \* the run each clerk has under way
          charges,      \* live charges of each company for the month
          controls,     \* control of each company in the period: none, live or deleted
          suspended,    \* companies carried over as suspended
          resolved,     \* suspension_carry_over_resolved of the period
          decisions,    \* ghost: the decisions that were accepted
          debts,        \* the debts of one company: their number, and who gave it
          together,     \* ghost: two runs have been under way at once
          mishaps       \* ghost: a run "died" or was "refused", a claim was "undone"

firmVars == <<topic, runs, charges, controls, suspended, resolved, decisions, debts, together, mishaps>>

Firms == 1 .. MaxFirms
Debts == 1 .. MaxDebts
Topics == {"charges", "controls", "carryOver", "numbers"}
NoDebt == [life |-> "absent", number |-> 0, auto |-> FALSE]
NoRun == [step |-> "idle", ahead |-> {}, keep |-> {}, number |-> 0]

Start(c, run) ==
  /\ runs[c] = NoRun
  /\ runs' = [runs EXCEPT ![c] = run]
  /\ together' = (together \/ \E d \in Clerks \ {c} : runs[d] # NoRun)

Step(c, run) == runs' = [runs EXCEPT ![c] = run] /\ UNCHANGED together
Over(c) == Step(c, NoRun)
IsNext(f, run) == run.ahead # {} /\ f = Min(run.ahead)

\* The process dies: what has been committed stays.
DieMidway(c) ==
  /\ runs[c] # NoRun
  /\ Over(c)
  /\ mishaps' = mishaps \cup {"died"}
  /\ UNCHANGED <<topic, charges, controls, suspended, resolved, decisions, debts>>
\* ------------------------------------------------------------ monthly charges
\* RunLiquidation visits every company with a plan.
BeginLiquidation(c) ==
  /\ topic = "charges"
  /\ Start(c, [NoRun EXCEPT !.step = "count", !.ahead = Firms])
  /\ UNCHANGED <<topic, charges, controls, suspended, resolved, decisions, debts, mishaps>>

Onward(run, f) == IF run.ahead = {f} THEN NoRun
                  ELSE [run EXCEPT !.step = "count", !.ahead = @ \ {f}]

\* Mutant of ChargeIsThere: the charge of the month is not looked for.
ChargeNeverThere(f) == FALSE

\* ensureMonthlyCharge counts the charges of the month in the transaction that inserts one.
ChargeIsThere(f) == charges[f] > 0

CountCharges(c, f) ==
  /\ topic = "charges" /\ runs[c].step = "count" /\ IsNext(f, runs[c])
  /\ Step(c, IF ChargeIsThere(f) THEN Onward(runs[c], f) ELSE [runs[c] EXCEPT !.step = "insert"])
  /\ UNCHANGED <<topic, charges, controls, suspended, resolved, decisions, debts, mishaps>>

InsertCharge(c, f) ==
  /\ topic = "charges" /\ runs[c].step = "insert" /\ IsNext(f, runs[c])
  /\ charges' = [charges EXCEPT ![f] = @ + 1]
  /\ Step(c, Onward(runs[c], f))
  /\ UNCHANGED <<topic, controls, suspended, resolved, decisions, debts, mishaps>>

\* A charge that failed (no price, a lost connection) is an error of the result: the run goes on.
ChargeFails(c, f) ==
  /\ topic = "charges" /\ runs[c].step = "insert" /\ IsNext(f, runs[c])
  /\ Step(c, Onward(runs[c], f))
  /\ UNCHANGED <<topic, charges, controls, suspended, resolved, decisions, debts, mishaps>>

\* The debt of a month is deleted by hand: the next run charges it again.
DeleteCharge(f) ==
  /\ topic = "charges" /\ charges[f] > 0
  /\ charges' = [charges EXCEPT ![f] = @ - 1]
  /\ UNCHANGED <<topic, runs, controls, suspended, resolved, decisions, debts, together, mishaps>>
\* ------------------------------------------------------ controls of a period
BeginBootstrap(c) ==
  /\ topic = "controls"
  /\ Start(c, [NoRun EXCEPT !.step = "count", !.ahead = Firms])
  /\ UNCHANGED <<topic, charges, controls, suspended, resolved, decisions, debts, mishaps>>

\* Mutant of ControlIsThere: the company is not asked for its control.
ControlNeverThere(f) == FALSE

\* The count leaves out the deleted ones.
ControlIsThere(f) == controls[f] = "live"

CountControls(c, f) ==
  /\ topic = "controls" /\ runs[c].step = "count" /\ IsNext(f, runs[c])
  /\ Step(c, IF ControlIsThere(f) THEN Onward(runs[c], f) ELSE [runs[c] EXCEPT !.step = "insert"])
  /\ UNCHANGED <<topic, charges, controls, suspended, resolved, decisions, debts, mishaps>>

InsertControl(c, f) ==
  /\ topic = "controls" /\ runs[c].step = "insert" /\ IsNext(f, runs[c])
  /\ controls[f] = "none"
  /\ controls' = [controls EXCEPT ![f] = "live"]
  /\ Step(c, Onward(runs[c], f))
  /\ UNCHANGED <<topic, charges, suspended, resolved, decisions, debts, mishaps>>

\* The unique index (company, period) refuses a second control, also when the first is only
\* marked as deleted: the run ends with an error and leaves the companies after it without one.
ControlRefused(c, f) ==
  /\ topic = "controls" /\ runs[c].step = "insert" /\ IsNext(f, runs[c])
  /\ controls[f] # "none"
  /\ Over(c)
  /\ mishaps' = mishaps \cup {"refused"}
  /\ UNCHANGED <<topic, charges, controls, suspended, resolved, decisions, debts>>

\* DeleteControl marks the row as deleted.
DeleteControl(f) ==
  /\ topic = "controls" /\ controls[f] = "live"
  /\ controls' = [controls EXCEPT ![f] = "deleted"]
  /\ UNCHANGED <<topic, runs, charges, suspended, resolved, decisions, debts, together, mishaps>>
\* ------------------------------------------- suspensions of the period before
\* ApplySuspensionCarryOver: the user keeps some of the companies that were suspended.
BeginCarryOver(c, keep) ==
  /\ topic = "carryOver"
  /\ Start(c, [NoRun EXCEPT !.step = "claim", !.keep = keep])
  /\ UNCHANGED <<topic, charges, controls, suspended, resolved, decisions, debts, mishaps>>

\* Mutant of Claim: the flag was read when the request began, and is only written.
ClaimAnyway(c) ==
  /\ topic = "carryOver" /\ runs[c].step = "claim"
  /\ resolved' = TRUE
  /\ decisions' = decisions \cup {runs[c].keep}
  /\ Step(c, IF runs[c].keep = {} THEN NoRun
             ELSE [runs[c] EXCEPT !.step = "suspend", !.ahead = runs[c].keep])
  /\ UNCHANGED <<topic, charges, controls, suspended, debts, mishaps>>

\* UPDATE ... WHERE suspension_carry_over_resolved = false: who comes first decides.
Claim(c) ==
  /\ topic = "carryOver" /\ runs[c].step = "claim" /\ ~resolved
  /\ resolved' = TRUE
  /\ decisions' = decisions \cup {runs[c].keep}
  /\ Step(c, IF runs[c].keep = {} THEN NoRun
             ELSE [runs[c] EXCEPT !.step = "suspend", !.ahead = runs[c].keep])
  /\ UNCHANGED <<topic, charges, controls, suspended, debts, mishaps>>

\* "este arrastre ya fue resuelto por otro usuario"
ClaimRefused(c) ==
  /\ topic = "carryOver" /\ runs[c].step = "claim" /\ resolved
  /\ Over(c)
  /\ UNCHANGED <<topic, charges, controls, suspended, resolved, decisions, debts, mishaps>>

\* SetDetraccionesSuspendida of each company that is kept, in any order (keepSet is a map).
Suspend(c, f) ==
  /\ topic = "carryOver" /\ runs[c].step = "suspend" /\ f \in runs[c].ahead
  /\ suspended' = suspended \cup {f}
  /\ Step(c, IF runs[c].ahead = {f} THEN NoRun ELSE [runs[c] EXCEPT !.ahead = @ \ {f}])
  /\ UNCHANGED <<topic, charges, controls, resolved, decisions, debts, mishaps>>

\* UpdatePeriod reads the period, and saves the whole row with its notes: a claim in between is
\* undone.
BeginNotes(c) ==
  /\ topic = "carryOver"
  /\ Start(c, [NoRun EXCEPT !.step = IF resolved THEN "notes" ELSE "notesUnresolved"])
  /\ UNCHANGED <<topic, charges, controls, suspended, resolved, decisions, debts, mishaps>>

SaveNotes(c) ==
  /\ topic = "carryOver" /\ runs[c].step \in {"notes", "notesUnresolved"}
  /\ resolved' = (runs[c].step = "notes")
  /\ mishaps' = IF resolved /\ ~resolved' THEN mishaps \cup {"undone"} ELSE mishaps
  /\ Over(c)
  /\ UNCHANGED <<topic, charges, controls, suspended, decisions, debts>>
\* --------------------------------------------------------- numbers of debts
LiveDebts == {d \in Debts : debts[d].life = "live"}
Taken(n) == \E d \in LiveDebts : debts[d].number = n
NextDebt(d) == debts[d].life = "absent" /\ \A e \in 1 .. d - 1 : debts[e].life # "absent"

\* Mutant of ShortNumber: the number after the count is taken as free.
ShortNumberAfterCount(n) == n = Cardinality(LiveDebts) + 1

\* allocateShortDebtNumber counts the debts of the company and takes the first free number after
\* that. (Its numbers run to 999999 and then wrap, which is out of reach here.)
ShortNumber(n) ==
  /\ n > Cardinality(LiveDebts) /\ ~Taken(n)
  /\ \A m \in Cardinality(LiveDebts) + 1 .. n - 1 : Taken(m)

BeginDebt(c, n) ==
  /\ topic = "numbers" /\ ShortNumber(n)
  /\ Start(c, [NoRun EXCEPT !.step = "debt", !.number = n])
  /\ UNCHANGED <<topic, charges, controls, suspended, resolved, decisions, debts, mishaps>>

InsertDebt(c, d) ==
  /\ topic = "numbers" /\ runs[c].step = "debt" /\ NextDebt(d)
  /\ debts' = [debts EXCEPT ![d] = [life |-> "live", number |-> runs[c].number, auto |-> TRUE]]
  /\ Over(c)
  /\ UNCHANGED <<topic, charges, controls, suspended, resolved, decisions, mishaps>>

\* A number typed by the user is taken as it is.
TypeDebt(d, n) ==
  /\ topic = "numbers" /\ NextDebt(d)
  /\ debts' = [debts EXCEPT ![d] = [life |-> "live", number |-> n, auto |-> FALSE]]
  /\ UNCHANGED <<topic, runs, charges, controls, suspended, resolved, decisions, together, mishaps>>

DeleteDebt(d) ==
  /\ topic = "numbers" /\ d \in LiveDebts
  /\ debts' = [debts EXCEPT ![d].life = "deleted"]
  /\ UNCHANGED <<topic, runs, charges, controls, suspended, resolved, decisions, together, mishaps>>
\* ----------------------------------------------------------- the specification
FirmsInit(topics) ==
  /\ topic \in topics
  /\ runs = [c \in Clerks |-> NoRun]
  /\ charges = [f \in Firms |-> 0] /\ controls = [f \in Firms |-> "none"]
  /\ suspended = {} /\ resolved = FALSE /\ decisions = {}
  /\ debts = [d \in Debts |-> NoDebt]
  /\ together = FALSE /\ mishaps = {}

RunSteps(c) ==
  \/ BeginLiquidation(c) \/ BeginBootstrap(c) \/ Claim(c) \/ ClaimRefused(c)
  \/ BeginNotes(c) \/ SaveNotes(c) \/ DieMidway(c)
  \/ \E keep \in SUBSET Firms : BeginCarryOver(c, keep)
  \/ \E f \in Firms : \/ CountCharges(c, f) \/ InsertCharge(c, f) \/ ChargeFails(c, f)
                      \/ CountControls(c, f) \/ InsertControl(c, f) \/ ControlRefused(c, f)
                      \/ Suspend(c, f)
  \/ \E n \in 1 .. 2 * MaxDebts : BeginDebt(c, n)
  \/ \E d \in Debts : InsertDebt(c, d)

FirmsNext ==
  \/ \E c \in Clerks : RunSteps(c)
  \/ \E f \in Firms : DeleteCharge(f) \/ DeleteControl(f)
  \/ \E d \in Debts : DeleteDebt(d) \/ \E n \in Debts : TypeDebt(d, n)

FirmsSpec == FirmsInit(Topics) /\ [][FirmsNext]_firmVars
\* -------------------------------------------------------------- properties
Idle == \A c \in Clerks : runs[c] = NoRun

\* A company is charged once for a month and two of its debts never get one number, however often
\* the liquidation is run, stopped, partly failed and run again, and whatever is deleted or typed
\* in between; only two requests at once may do either twice, because both count before either
\* inserts and no unique index stands behind the count.
NothingTwiceUnlessTogether ==
  \/ together
  \/ /\ \A f \in Firms : charges[f] <= 1
     /\ \A d, e \in LiveDebts :
          d # e /\ debts[d].auto /\ debts[e].auto => debts[d].number # debts[e].number

\* A bootstrap leaves no company out in silence: once a control has been created and no run is
\* under way, every company has had one, unless a run died or was refused. It is refused only when
\* two ran at once or when a control had been deleted, whose row still holds the unique index:
\* then no later run gets past that company either.
BootstrapLeavesNoneOut ==
  /\ Idle /\ (\E f \in Firms : controls[f] # "none") /\ mishaps = {} =>
       \A f \in Firms : controls[f] # "none"
  /\ "refused" \in mishaps => together \/ \E f \in Firms : controls[f] = "deleted"

\* The suspensions of a period come from one decision, and that decision is carried out in full
\* when its run is over; not if the run died half-way, since the claim is not given back, nor if
\* an edit of the period's notes undid the claim and let a second decision in.
CarryOverDecidedOnce ==
  mishaps # {} \/ /\ Cardinality(decisions) <= 1
                  /\ \A keep \in decisions : suspended \subseteq keep /\ (Idle => suspended = keep)
=============================================================================
