--------------------------- MODULE FirmRuns_proofs ---------------------------
(* The runs through the companies, for any number of companies, debts and requests: what one run
   at a time guarantees, and what an interrupted one leaves. *)
EXTENDS FirmRuns, FiniteSetTheorems, TLAPS

Run == [step : {"idle", "count", "insert", "claim", "suspend", "notes", "notesUnresolved", "debt"},
        ahead : SUBSET Firms, keep : SUBSET Firms, number : Nat]
Debt == [life : {"absent", "live", "deleted"}, number : Nat, auto : BOOLEAN]

FirmTypes ==
  /\ runs \in [Clerks -> Run]
  /\ charges \in [Firms -> Nat]
  /\ controls \in [Firms -> {"none", "live", "deleted"}]
  /\ suspended \subseteq Firms
  /\ resolved \in BOOLEAN
  /\ debts \in [Debts -> Debt]
  /\ together \in BOOLEAN

\* The ghost tells when two runs are under way.
Alone == \A c, d \in Clerks : runs[c] # NoRun /\ runs[d] # NoRun => c = d

\* What was counted for a company still holds when its charge is inserted.
ChargeCounted ==
  topic = "charges" =>
    \A c \in Clerks, f \in Firms :
      runs[c].step = "insert" /\ IsNext(f, runs[c]) => charges[f] = 0

\* A number that was found free is not given to another debt before it is used.
NumberFree ==
  \A c \in Clerks, d \in Debts :
    runs[c].step = "debt" /\ debts[d].life = "live" /\ debts[d].auto =>
      debts[d].number # runs[c].number

OneCharge == \A f \in Firms : charges[f] <= 1
OneNumber ==
  \A d, e \in Debts :
    debts[d].life = "live" /\ debts[e].life = "live" /\ d # e /\ debts[d].auto /\ debts[e].auto =>
      debts[d].number # debts[e].number

\* A bootstrap leaves a control behind at each company it has visited.
Bootstrapped ==
  topic = "controls" =>
    /\ \A c \in Clerks, f \in Firms :
         runs[c] # NoRun /\ f \notin runs[c].ahead => controls[f] # "none"
    /\ mishaps = {} /\ (\E f \in Firms : controls[f] # "none") =>
         (\E c \in Clerks : runs[c] # NoRun) \/ \A f \in Firms : controls[f] # "none"
BootstrapElsewhere == topic # "controls" => \A f \in Firms : controls[f] = "none"

\* Two bootstraps, or a deleted control, are behind a refusal: the control a run is to insert was
\* not live when it counted.
RefusalExplained ==
  /\ "refused" \in mishaps => together \/ \E f \in Firms : controls[f] = "deleted"
  /\ topic = "controls" =>
       \A c \in Clerks, f \in Firms :
         runs[c].step = "insert" /\ IsNext(f, runs[c]) /\ controls[f] = "live" => together

\* Nothing decided yet, or one decision, of which the runs at work still have the rest ahead.
Undecided ==
  /\ decisions = {} /\ ~ resolved /\ suspended = {}
  /\ \A c \in Clerks : runs[c].step # "suspend"
Carrying(keep) ==
  /\ resolved /\ decisions = {keep} /\ suspended \subseteq keep
  /\ \A c \in Clerks : runs[c].step = "suspend" =>
       runs[c].ahead \subseteq keep /\ keep \ runs[c].ahead \subseteq suspended
  /\ suspended = keep \/ \E c \in Clerks : runs[c].step = "suspend"
OneDecision ==
  mishaps = {} => /\ Undecided \/ \E keep \in SUBSET Firms : Carrying(keep)
                  /\ \A c \in Clerks : runs[c].step = "notes" => resolved

FirmInv ==
  /\ FirmTypes
  /\ together \/ (Alone /\ ChargeCounted /\ NumberFree /\ OneCharge /\ OneNumber)
  /\ Bootstrapped /\ BootstrapElsewhere /\ RefusalExplained
  /\ OneDecision

LEMMA BlankTypes ==
  /\ NoRun \in Run /\ NoRun.step = "idle" /\ NoRun.ahead = {}
  /\ NoDebt \in Debt /\ NoDebt.life = "absent"
BY DEF NoRun, Run, NoDebt, Debt

LEMMA RowsAreNat == Firms \subseteq Nat /\ Debts \subseteq Nat /\ 1 .. 2 * MaxDebts \subseteq Nat
BY FirmAssumption DEF Firms, Debts

LEMMA FirstState == FirmsInit(Topics) => FirmInv
<1> SUFFICES ASSUME FirmsInit(Topics) PROVE FirmInv
  OBVIOUS
<1>1. \A c \in Clerks : runs[c] = NoRun /\ runs[c].step = "idle"
  BY BlankTypes DEF FirmsInit
<1>2. \A d \in Debts : debts[d].life = "absent"
  BY BlankTypes DEF FirmsInit
<1>3. FirmTypes
  BY BlankTypes DEF FirmsInit, FirmTypes
<1>4. Alone /\ ChargeCounted /\ NumberFree
  BY <1>1 DEF Alone, ChargeCounted, NumberFree
<1>5. OneCharge /\ OneNumber
  BY <1>2 DEF FirmsInit, OneCharge, OneNumber
<1>6. Bootstrapped /\ BootstrapElsewhere /\ RefusalExplained
  BY <1>1 DEF FirmsInit, Bootstrapped, BootstrapElsewhere, RefusalExplained
<1>7. OneDecision
  BY <1>1 DEF FirmsInit, OneDecision, Undecided
<1> QED
  BY <1>3, <1>4, <1>5, <1>6, <1>7 DEF FirmInv

\* A run that goes on to the next company.
LEMMA OnwardType ==
  ASSUME NEW run \in Run, NEW f
  PROVE  /\ Onward(run, f) \in Run
         /\ Onward(run, f).step \in {"idle", "count"}
         /\ Onward(run, f) # NoRun => Onward(run, f).ahead = run.ahead \ {f}
         /\ Onward(run, f) = NoRun => run.ahead = {f}
<1>1. CASE run.ahead = {f}
  BY <1>1, BlankTypes DEF Onward
<1>2. CASE run.ahead # {f}
  <2>1. Onward(run, f) = [run EXCEPT !.step = "count", !.ahead = run.ahead \ {f}]
    BY <1>2 DEF Onward
  <2>2. run.ahead \ {f} \in SUBSET Firms
    BY DEF Run
  <2> QED
    BY <2>1, <2>2, BlankTypes DEF Run
<1> QED
  BY <1>1, <1>2

\* Each request changes its own run only, and to a run.
LEMMA RunChanges ==
  ASSUME FirmTypes, NEW c \in Clerks, RunSteps(c)
  PROVE  \E run \in Run : runs' = [runs EXCEPT ![c] = run] /\ (Start(c, run) \/ Step(c, run))
<1>1. runs[c] \in Run /\ NoRun \in Run
  BY BlankTypes DEF FirmTypes
<1>2. CASE BeginLiquidation(c) \/ BeginBootstrap(c)
  <2>1. [NoRun EXCEPT !.step = "count", !.ahead = Firms] \in Run
    BY DEF NoRun, Run
  <2> QED
    BY <1>2, <2>1 DEF BeginLiquidation, BeginBootstrap, Start
<1>3. ASSUME NEW keep \in SUBSET Firms, BeginCarryOver(c, keep)
      PROVE  \E run \in Run : runs' = [runs EXCEPT ![c] = run] /\ (Start(c, run) \/ Step(c, run))
  <2>1. [NoRun EXCEPT !.step = "claim", !.keep = keep] \in Run
    BY DEF NoRun, Run
  <2> QED
    BY <1>3, <2>1 DEF BeginCarryOver, Start
<1>4. CASE BeginNotes(c)
  <2>1. [NoRun EXCEPT !.step = IF resolved THEN "notes" ELSE "notesUnresolved"] \in Run
    BY DEF NoRun, Run
  <2> QED
    BY <1>4, <2>1 DEF BeginNotes, Start
<1>5. ASSUME NEW n \in 1 .. 2 * MaxDebts, BeginDebt(c, n)
      PROVE  \E run \in Run : runs' = [runs EXCEPT ![c] = run] /\ (Start(c, run) \/ Step(c, run))
  <2>1. [NoRun EXCEPT !.step = "debt", !.number = n] \in Run
    BY RowsAreNat DEF NoRun, Run
  <2> QED
    BY <1>5, <2>1 DEF BeginDebt, Start
<1>6. CASE ClaimRefused(c) \/ SaveNotes(c) \/ DieMidway(c) \/ (\E f \in Firms : ControlRefused(c, f))
           \/ \E d \in Debts : InsertDebt(c, d)
  BY <1>1, <1>6 DEF ClaimRefused, SaveNotes, DieMidway, ControlRefused, InsertDebt, Over, Step
<1>7. CASE Claim(c)
  <2>1. [runs[c] EXCEPT !.step = "suspend", !.ahead = runs[c].keep] \in Run
    BY <1>1 DEF Run
  <2> QED
    BY <1>1, <1>7, <2>1 DEF Claim, Step
<1>8. ASSUME NEW f \in Firms, Suspend(c, f)
      PROVE  \E run \in Run : runs' = [runs EXCEPT ![c] = run] /\ (Start(c, run) \/ Step(c, run))
  <2>1. [runs[c] EXCEPT !.ahead = runs[c].ahead \ {f}] \in Run
    BY <1>1 DEF Run
  <2> QED
    BY <1>1, <1>8, <2>1 DEF Suspend, Step
<1>9. ASSUME NEW f \in Firms,
             \/ CountCharges(c, f) \/ InsertCharge(c, f) \/ ChargeFails(c, f)
             \/ CountControls(c, f) \/ InsertControl(c, f)
      PROVE  \E run \in Run : runs' = [runs EXCEPT ![c] = run] /\ (Start(c, run) \/ Step(c, run))
  <2>1. [runs[c] EXCEPT !.step = "insert"] \in Run
    BY <1>1 DEF Run
  <2>2. Onward(runs[c], f) \in Run
    BY <1>1, OnwardType
  <2> QED
    BY <1>9, <2>1, <2>2 DEF CountCharges, InsertCharge, ChargeFails, CountControls, InsertControl, Step
<1> QED
  BY <1>2, <1>3, <1>4, <1>5, <1>6, <1>7, <1>8, <1>9 DEF RunSteps

\* All other runs stay as they are.
LEMMA OthersStay ==
  ASSUME FirmTypes, NEW c \in Clerks, RunSteps(c)
  PROVE  /\ runs' \in [Clerks -> Run] /\ topic' = topic /\ together' \in BOOLEAN
         /\ together => together'
         /\ \A d \in Clerks \ {c} : runs'[d] = runs[d]
<1>1. PICK run \in Run : runs' = [runs EXCEPT ![c] = run] /\ (Start(c, run) \/ Step(c, run))
  BY RunChanges
<1>2. together' \in BOOLEAN /\ (together => together')
  BY <1>1 DEF Start, Step, FirmTypes
<1>3. topic' = topic
  BY DEF RunSteps, BeginLiquidation, BeginBootstrap, BeginCarryOver, BeginNotes, BeginDebt,
         ClaimRefused, SaveNotes, DieMidway, ControlRefused, InsertDebt, Claim, Suspend, CountCharges,
         InsertCharge, ChargeFails, CountControls, InsertControl
<1>4. runs' \in [Clerks -> Run] /\ \A d \in Clerks \ {c} : runs'[d] = runs[d]
  BY <1>1 DEF FirmTypes
<1> QED
  BY <1>2, <1>3, <1>4

\* Unless two are under way, the other clerks have no run.
LEMMA OneAtATime ==
  ASSUME FirmTypes, Alone, NEW c \in Clerks, RunSteps(c), ~ together'
  PROVE  ~ together /\ (\A d \in Clerks \ {c} : runs[d] = NoRun) /\ Alone'
<1>1. PICK run \in Run : runs' = [runs EXCEPT ![c] = run] /\ (Start(c, run) \/ Step(c, run))
  BY RunChanges
<1>2. ~ together
  BY <1>1 DEF Start, Step
<1>3. ASSUME NEW d \in Clerks \ {c} PROVE runs[d] = NoRun
  <2>1. CASE Start(c, run)
    BY <2>1 DEF Start
  <2>2. CASE Step(c, run) /\ runs[c] # NoRun
    BY <2>2 DEF Alone
  <2>3. CASE runs[c] = NoRun /\ ~ Start(c, run)
    <3>1. runs[c].step = "idle" /\ Step(c, run)
      BY <1>1, <2>3, BlankTypes
    <3>2. \E any : Start(c, any)
      BY <2>3, <3>1
      DEF RunSteps, BeginLiquidation, BeginBootstrap, BeginCarryOver, BeginNotes, BeginDebt,
          ClaimRefused, SaveNotes, DieMidway, ControlRefused, InsertDebt, Claim, Suspend, CountCharges,
          InsertCharge, ChargeFails, CountControls, InsertControl
    <3> QED
      BY <3>2 DEF Start
  <2> QED
    BY <1>1, <2>1, <2>2, <2>3
<1>4. Alone'
  BY <1>3, OthersStay DEF Alone
<1> QED
  BY <1>2, <1>3, <1>4

LEMMA TypesStep ==
  ASSUME FirmTypes, FirmsNext
  PROVE  FirmTypes'
<1>1. ASSUME NEW c \in Clerks, RunSteps(c) PROVE FirmTypes'
  <2>1. runs' \in [Clerks -> Run] /\ together' \in BOOLEAN
    BY <1>1, OthersStay
  <2>2. charges' \in [Firms -> Nat]
    <3>1. charges' = charges \/ \E f \in Firms : charges' = [charges EXCEPT ![f] = charges[f] + 1]
      BY <1>1
      DEF RunSteps, BeginLiquidation, BeginBootstrap, BeginCarryOver, BeginNotes, BeginDebt,
          ClaimRefused, SaveNotes, DieMidway, ControlRefused, InsertDebt, Claim, Suspend, CountCharges,
          InsertCharge, ChargeFails, CountControls, InsertControl
    <3> QED
      BY <3>1 DEF FirmTypes
  <2>6. controls' \in [Firms -> {"none", "live", "deleted"}]
    <3>1. controls' = controls \/ \E f \in Firms : controls' = [controls EXCEPT ![f] = "live"]
      BY <1>1
      DEF RunSteps, BeginLiquidation, BeginBootstrap, BeginCarryOver, BeginNotes, BeginDebt,
          ClaimRefused, SaveNotes, DieMidway, ControlRefused, InsertDebt, Claim, Suspend, CountCharges,
          InsertCharge, ChargeFails, CountControls, InsertControl
    <3> QED
      BY <3>1 DEF FirmTypes
  <2>5. resolved' \in BOOLEAN
    <3>1. \/ resolved' = resolved \/ resolved' = TRUE
          \/ resolved' = (runs[c].step = "notes")
      BY <1>1
      DEF RunSteps, BeginLiquidation, BeginBootstrap, BeginCarryOver, BeginNotes, BeginDebt,
          ClaimRefused, SaveNotes, DieMidway, ControlRefused, InsertDebt, Claim, Suspend, CountCharges,
          InsertCharge, ChargeFails, CountControls, InsertControl
    <3> QED
      BY <3>1 DEF FirmTypes
  <2>3. suspended' \subseteq Firms
    BY <1>1
    DEF FirmTypes, RunSteps, BeginLiquidation, BeginBootstrap, BeginCarryOver, BeginNotes, BeginDebt,
        ClaimRefused, SaveNotes, DieMidway, ControlRefused, InsertDebt, Claim, Suspend, CountCharges,
        InsertCharge, ChargeFails, CountControls, InsertControl
  <2>4. debts' \in [Debts -> Debt]
    <3>1. runs[c].number \in Nat /\ debts \in [Debts -> Debt]
      BY DEF FirmTypes, Run
    <3>2. [life |-> "live", number |-> runs[c].number, auto |-> TRUE] \in Debt
      BY <3>1 DEF Debt
    <3> QED
      BY <1>1, <3>1, <3>2
      DEF RunSteps, BeginLiquidation, BeginBootstrap, BeginCarryOver, BeginNotes, BeginDebt,
          ClaimRefused, SaveNotes, DieMidway, ControlRefused, InsertDebt, Claim, Suspend, CountCharges,
          InsertCharge, ChargeFails, CountControls, InsertControl
  <2> QED
    BY <2>1, <2>2, <2>3, <2>4, <2>5, <2>6 DEF FirmTypes
<1>2. ASSUME NEW f \in Firms, DeleteCharge(f) \/ DeleteControl(f) PROVE FirmTypes'
  BY <1>2 DEF DeleteCharge, DeleteControl, FirmTypes
<1>3. ASSUME NEW d \in Debts, DeleteDebt(d) \/ \E n \in Debts : TypeDebt(d, n) PROVE FirmTypes'
  <2>1. debts \in [Debts -> Debt]
    BY DEF FirmTypes
  <2>2. \A n \in Debts : [life |-> "live", number |-> n, auto |-> FALSE] \in Debt
    BY RowsAreNat DEF Debt
  <2>3. [debts[d] EXCEPT !.life = "deleted"] \in Debt
    BY <2>1 DEF Debt
  <2>4. debts' \in [Debts -> Debt]
    BY <1>3, <2>1, <2>2, <2>3 DEF DeleteDebt, TypeDebt
  <2> QED
    BY <1>3, <2>4 DEF DeleteDebt, TypeDebt, FirmTypes
<1> QED
  BY <1>1, <1>2, <1>3 DEF FirmsNext

\* ----------------------------------------------------- one run at a time
\* What was counted holds while nobody else runs, also against a deletion or a number typed.
LEMMA OneRunStep ==
  ASSUME FirmInv, NEW c \in Clerks, RunSteps(c), ~ together'
  PROVE  (Alone /\ ChargeCounted /\ NumberFree /\ OneCharge /\ OneNumber)'
<1> USE DEF FirmInv
<1>1. ~ together
  BY OthersStay
<1>2. Alone' /\ \A d \in Clerks \ {c} : runs'[d].step = "idle"
  BY <1>1, OneAtATime, OthersStay, BlankTypes
<1>3. runs \in [Clerks -> Run] /\ charges \in [Firms -> Nat] /\ topic' = topic
  BY OthersStay DEF FirmTypes
<1>4. \A f : Onward(runs[c], f).step \in {"idle", "count"}
  BY <1>3, OnwardType
<1>5. ChargeCounted'
  <2> SUFFICES ASSUME topic = "charges", NEW f \in Firms,
                      runs'[c].step = "insert", IsNext(f, runs'[c])
               PROVE  charges'[f] = 0
    BY <1>2, <1>3 DEF ChargeCounted
  <2>1. PICK g \in Firms : CountCharges(c, g)
    BY <1>3, <1>4, BlankTypes
    DEF RunSteps, BeginLiquidation, BeginBootstrap, BeginCarryOver, BeginNotes, BeginDebt,
        ClaimRefused, SaveNotes, DieMidway, ControlRefused, InsertDebt, Claim, Suspend,
        InsertCharge, ChargeFails, CountControls, InsertControl, Over, Step, Start, NoRun
  <2>2. /\ ~ ChargeIsThere(g) /\ charges' = charges
        /\ runs'[c] = [runs[c] EXCEPT !.step = "insert"]
    BY <1>3, <1>4, <2>1 DEF CountCharges, Step
  <2>3. runs'[c].ahead = runs[c].ahead
    BY <1>3, <2>2 DEF Run
  <2>4. f = g
    BY <2>1, <2>3 DEF CountCharges, IsNext
  <2> QED
    BY <1>3, <2>2, <2>4 DEF ChargeIsThere
<1>6. OneCharge'
  <2>1. CASE charges' = charges
    BY <1>1, <2>1 DEF OneCharge
  <2>2. ASSUME NEW f \in Firms, InsertCharge(c, f) PROVE OneCharge'
    <3>1. charges[f] = 0
      BY <1>1, <2>2 DEF InsertCharge, ChargeCounted
    <3> QED
      BY <1>1, <1>3, <2>2, <3>1 DEF InsertCharge, OneCharge
  <2> QED
    BY <2>1, <2>2
    DEF RunSteps, BeginLiquidation, BeginBootstrap, BeginCarryOver, BeginNotes, BeginDebt,
        ClaimRefused, SaveNotes, DieMidway, ControlRefused, InsertDebt, Claim, Suspend, CountCharges,
        ChargeFails, CountControls, InsertControl
<1>7. NumberFree'
  <2> SUFFICES ASSUME NEW d \in Debts, runs'[c].step = "debt", debts'[d].life = "live", debts'[d].auto
               PROVE  debts'[d].number # runs'[c].number
    BY <1>2 DEF NumberFree
  <2>3. NoRun.step = "idle" /\ runs[c] \in Run
    BY <1>3, BlankTypes
  <2>4. ~ (BeginLiquidation(c) \/ BeginBootstrap(c) \/ BeginNotes(c))
    BY <1>3 DEF BeginLiquidation, BeginBootstrap, BeginNotes, Start, NoRun
  <2>5. ~ \E keep \in SUBSET Firms : BeginCarryOver(c, keep)
    BY <1>3 DEF BeginCarryOver, Start, NoRun
  <2>6. ~ (\/ ClaimRefused(c) \/ SaveNotes(c) \/ DieMidway(c)
           \/ (\E f \in Firms : ControlRefused(c, f)) \/ \E e \in Debts : InsertDebt(c, e))
    BY <1>3, <2>3 DEF ClaimRefused, SaveNotes, DieMidway, ControlRefused, InsertDebt, Over, Step
  <2>7. ~ Claim(c)
    BY <1>3, <2>3 DEF Claim, Step, Run
  <2>8. ~ \E f \in Firms : Suspend(c, f)
    BY <1>3, <2>3 DEF Suspend, Step, Run
  <2>9. ~ \E f \in Firms : \/ CountCharges(c, f) \/ InsertCharge(c, f) \/ ChargeFails(c, f)
                            \/ CountControls(c, f) \/ InsertControl(c, f)
    BY <1>3, <1>4, <2>3
    DEF CountCharges, InsertCharge, ChargeFails, CountControls, InsertControl, Step, Run
  <2>1. PICK n \in 1 .. 2 * MaxDebts : BeginDebt(c, n)
    BY <2>4, <2>5, <2>6, <2>7, <2>8, <2>9 DEF RunSteps
  <2>2. debts' = debts /\ ~ Taken(n) /\ runs'[c].number = n
    BY <1>3, <2>1 DEF BeginDebt, ShortNumber, Start, NoRun
  <2> QED
    BY <2>2 DEF Taken, LiveDebts
<1>8. OneNumber'
  <2>1. CASE debts' = debts
    BY <1>1, <2>1 DEF OneNumber
  <2>2. ASSUME NEW d \in Debts, InsertDebt(c, d) PROVE OneNumber'
    <3>1. \A e \in Debts : IF e = d THEN debts'[e].number = runs[c].number
                                    ELSE debts'[e] = debts[e]
      BY <2>2 DEF InsertDebt, FirmTypes
    <3>2. \A e \in Debts : debts[e].life = "live" /\ debts[e].auto => debts[e].number # runs[c].number
      BY <1>1, <2>2 DEF InsertDebt, NumberFree
    <3> QED
      BY <1>1, <3>1, <3>2 DEF OneNumber
  <2> QED
    BY <2>1, <2>2
    DEF RunSteps, BeginLiquidation, BeginBootstrap, BeginCarryOver, BeginNotes, BeginDebt,
        ClaimRefused, SaveNotes, DieMidway, ControlRefused, InsertCharge, Claim, Suspend, CountCharges,
        ChargeFails, CountControls, InsertControl
<1> QED
  BY <1>2, <1>5, <1>6, <1>7, <1>8

\* A deletion, or a number typed by hand, disturbs no count.
LEMMA ByHandStep ==
  ASSUME FirmInv, ~ together,
         \/ \E f \in Firms : DeleteCharge(f) \/ DeleteControl(f)
         \/ \E d \in Debts : DeleteDebt(d) \/ \E n \in Debts : TypeDebt(d, n)
  PROVE  (Alone /\ ChargeCounted /\ NumberFree /\ OneCharge /\ OneNumber)'
<1> USE DEF FirmInv
<1>1. runs' = runs /\ topic' = topic
  BY DEF DeleteCharge, DeleteControl, DeleteDebt, TypeDebt
<1>2. \A f \in Firms : charges[f] \in Nat /\ (\/ charges'[f] = charges[f]
                                              \/ charges[f] > 0 /\ charges'[f] = charges[f] - 1)
  BY DEF DeleteCharge, DeleteControl, DeleteDebt, TypeDebt, FirmTypes
<1>3. \A d \in Debts : debts'[d].life = "live" /\ debts'[d].auto =>
        debts[d].life = "live" /\ debts[d].auto /\ debts'[d].number = debts[d].number
  <2>1. debts \in [Debts -> Debt]
    BY DEF FirmTypes
  <2> QED
    BY <2>1 DEF DeleteCharge, DeleteControl, DeleteDebt, TypeDebt, Debt
<1>4. Alone'
  BY <1>1 DEF Alone
<1>5. ChargeCounted'
  BY <1>1, <1>2 DEF ChargeCounted, IsNext
<1>6. OneCharge'
  BY <1>2 DEF OneCharge
<1>7. NumberFree' /\ OneNumber'
  BY <1>1, <1>3 DEF NumberFree, OneNumber
<1> QED
  BY <1>4, <1>5, <1>6, <1>7

\* -------------------------------------------------- the controls of a period
\* The only steps that matter to the controls of a period.
ControlSteps(c) ==
  \/ BeginBootstrap(c) \/ DieMidway(c)
  \/ \E f \in Firms : CountControls(c, f) \/ InsertControl(c, f) \/ ControlRefused(c, f)

LEMMA ControlTopic ==
  ASSUME NEW c \in Clerks, RunSteps(c), topic = "controls"
  PROVE  ControlSteps(c)
BY DEF RunSteps, BeginLiquidation, BeginCarryOver, BeginNotes, BeginDebt, ClaimRefused, SaveNotes,
       InsertDebt, Claim, Suspend, CountCharges, InsertCharge, ChargeFails, ControlSteps

LEMMA OtherTopics ==
  ASSUME NEW c \in Clerks, RunSteps(c), topic # "controls"
  PROVE  controls' = controls /\ ("refused" \in mishaps' => "refused" \in mishaps)
BY DEF RunSteps, BeginLiquidation, BeginBootstrap, BeginCarryOver, BeginNotes, BeginDebt,
       ClaimRefused, SaveNotes, DieMidway, ControlRefused, InsertDebt, Claim, Suspend, CountCharges,
       InsertCharge, ChargeFails, CountControls, InsertControl

\* A control, once there, keeps its row, also when it is deleted.
LEMMA RowsStay ==
  ASSUME FirmInv, topic = "controls", NEW c \in Clerks, ControlSteps(c), NEW f \in Firms
  PROVE  /\ controls[f] # "none" => controls'[f] # "none"
         /\ controls[f] = "deleted" => controls'[f] = "deleted"
         /\ InsertControl(c, f) => controls'[f] = "live"
BY DEF ControlSteps, BeginBootstrap, DieMidway, CountControls, InsertControl, ControlRefused, FirmInv,
       FirmTypes

LEMMA BootstrapStep ==
  ASSUME FirmInv, topic = "controls", NEW c \in Clerks, RunSteps(c)
  PROVE  Bootstrapped'
<1> USE DEF FirmInv
<1>1. ControlSteps(c)
  BY ControlTopic
<1>2. runs \in [Clerks -> Run] /\ runs[c] \in Run /\ NoRun.step = "idle"
  BY BlankTypes DEF FirmTypes
<1>3. /\ \A d \in Clerks \ {c} : runs'[d] = runs[d]
      /\ topic' = topic
  BY OthersStay
<1>4. \A f \in Firms : controls[f] # "none" => controls'[f] # "none"
  BY <1>1, RowsStay
<1>5. ASSUME NEW f \in Firms, runs'[c] # NoRun, f \notin runs'[c].ahead PROVE controls'[f] # "none"
  <2>1. CASE BeginBootstrap(c)
    BY <1>2, <1>5, <2>1 DEF BeginBootstrap, Start, NoRun
  <2>2. CASE DieMidway(c) \/ \E g \in Firms : ControlRefused(c, g)
    BY <1>2, <1>5, <2>2 DEF DieMidway, ControlRefused, Over, Step
  <2>3. ASSUME NEW g \in Firms, CountControls(c, g) \/ InsertControl(c, g),
               runs'[c] = Onward(runs[c], g), controls'[g] # "none"
        PROVE  controls'[f] # "none"
    <3>1. runs'[c].ahead = runs[c].ahead \ {g}
      BY <1>2, <1>5, <2>3, OnwardType
    <3>2. f = g \/ f \notin runs[c].ahead
      BY <1>5, <3>1
    <3>3. runs[c] # NoRun
      BY <1>2, <2>3 DEF CountControls, InsertControl
    <3> QED
      BY <1>4, <2>3, <3>2, <3>3 DEF Bootstrapped
  <2>4. ASSUME NEW g \in Firms, CountControls(c, g), ~ ControlIsThere(g) PROVE controls'[f] # "none"
    <3>1. runs'[c].ahead = runs[c].ahead /\ runs[c] # NoRun
      BY <1>2, <2>4 DEF CountControls, Step, Run
    <3> QED
      BY <1>4, <1>5, <3>1 DEF Bootstrapped
  <2>5. ASSUME NEW g \in Firms, CountControls(c, g), ControlIsThere(g) PROVE controls'[f] # "none"
    <3>1. runs'[c] = Onward(runs[c], g) /\ controls'[g] # "none"
      BY <1>2, <2>5 DEF CountControls, Step, ControlIsThere
    <3> QED
      BY <2>3, <2>5, <3>1
  <2>6. ASSUME NEW g \in Firms, InsertControl(c, g) PROVE controls'[f] # "none"
    <3>1. runs'[c] = Onward(runs[c], g) /\ controls'[g] # "none"
      BY <1>2, <2>6 DEF InsertControl, Step, FirmTypes
    <3> QED
      BY <2>3, <2>6, <3>1
  <2> QED
    BY <1>1, <2>1, <2>2, <2>4, <2>5, <2>6 DEF ControlSteps
<1>6. ASSUME mishaps' = {}, NEW h \in Firms, controls'[h] # "none"
      PROVE  (\E d \in Clerks : runs'[d] # NoRun) \/ \A f \in Firms : controls'[f] # "none"
  <2>1. CASE BeginBootstrap(c)
    <3>1. runs'[c].step = "count"
      BY <1>2, <2>1 DEF BeginBootstrap, Start, NoRun
    <3> QED
      BY <1>2, <3>1
  <2>2. CASE DieMidway(c) \/ \E g \in Firms : ControlRefused(c, g)
    BY <1>6, <2>2 DEF DieMidway, ControlRefused
  <2>3. ASSUME NEW g \in Firms, CountControls(c, g) \/ InsertControl(c, g),
               runs'[c] = Onward(runs[c], g), controls'[g] # "none", runs'[c] = NoRun
        PROVE  \A f \in Firms : controls'[f] # "none"
    <3>1. runs[c].ahead = {g} /\ runs[c] # NoRun
      BY <1>2, <2>3, OnwardType DEF CountControls, InsertControl
    <3> QED
      BY <1>4, <2>3, <3>1 DEF Bootstrapped
  <2>4. ASSUME NEW g \in Firms, CountControls(c, g), ~ ControlIsThere(g) PROVE runs'[c].step = "insert"
    BY <1>2, <2>4 DEF CountControls, Step, Run
  <2>5. ASSUME NEW g \in Firms, CountControls(c, g), ControlIsThere(g)
        PROVE  runs'[c] = Onward(runs[c], g) /\ controls'[g] # "none"
    BY <1>2, <2>5 DEF CountControls, Step, ControlIsThere
  <2>6. ASSUME NEW g \in Firms, InsertControl(c, g)
        PROVE  runs'[c] = Onward(runs[c], g) /\ controls'[g] # "none"
    BY <1>2, <2>6 DEF InsertControl, Step, FirmTypes
  <2> QED
    BY <1>1, <1>2, <2>1, <2>2, <2>3, <2>4, <2>5, <2>6 DEF ControlSteps
<1> QED
  BY <1>3, <1>4, <1>5, <1>6 DEF Bootstrapped

LEMMA RefusalStep ==
  ASSUME FirmInv, topic = "controls", NEW c \in Clerks, RunSteps(c)
  PROVE  RefusalExplained'
<1> USE DEF FirmInv
<1>1. ControlSteps(c)
  BY ControlTopic
<1>2. runs \in [Clerks -> Run] /\ runs[c] \in Run /\ NoRun.step = "idle"
  BY BlankTypes DEF FirmTypes
<1>3. (\A d \in Clerks \ {c} : runs'[d] = runs[d]) /\ (together => together')
  BY OthersStay
<1>4. "refused" \in mishaps' => together' \/ \E f \in Firms : controls'[f] = "deleted"
  <2>1. CASE "refused" \in mishaps
    BY <1>1, <1>3, <2>1, RowsStay DEF RefusalExplained
  <2>2. ASSUME NEW f \in Firms, ControlRefused(c, f) PROVE together \/ controls'[f] = "deleted"
    BY <2>2 DEF ControlRefused, RefusalExplained, FirmTypes
  <2>3. "refused" \in mishaps' => "refused" \in mishaps \/ \E f \in Firms : ControlRefused(c, f)
    BY <1>1 DEF ControlSteps, BeginBootstrap, DieMidway, CountControls, InsertControl
  <2> QED
    BY <1>3, <2>1, <2>2, <2>3
<1>5. ASSUME NEW d \in Clerks, NEW f \in Firms, runs'[d].step = "insert", IsNext(f, runs'[d]),
             controls'[f] = "live"
      PROVE  together'
  <2>1. CASE controls' = controls /\ d # c
    BY <1>3, <1>5, <2>1 DEF RefusalExplained
  <2>2. ASSUME NEW g \in Firms, InsertControl(c, g) PROVE together'
    <3>1. runs'[c].step # "insert"
      BY <1>2, <2>2, OnwardType DEF InsertControl, Step
    <3>2. d # c /\ runs[d] # NoRun /\ runs[c] # NoRun
      BY <1>2, <1>3, <1>5, <2>2, <3>1 DEF InsertControl
    <3> QED
      BY <1>3, <3>2 DEF Alone
  <2>3. CASE d = c /\ BeginBootstrap(c)
    BY <1>2, <1>5, <2>3 DEF BeginBootstrap, Start, NoRun
  <2>4. CASE d = c /\ (DieMidway(c) \/ \E g \in Firms : ControlRefused(c, g))
    BY <1>2, <1>5, <2>4 DEF DieMidway, ControlRefused, Over, Step
  <2>5. ASSUME NEW g \in Firms, CountControls(c, g), d = c PROVE together'
    <3>1. ~ ControlIsThere(g) /\ controls' = controls
      BY <1>2, <1>5, <2>5, OnwardType DEF CountControls, Step
    <3>2. runs'[c].ahead = runs[c].ahead
      BY <1>2, <2>5, <3>1 DEF CountControls, Step, Run
    <3>3. f = g
      BY <1>5, <2>5, <3>2 DEF CountControls, IsNext
    <3> QED
      BY <1>5, <3>1, <3>3 DEF ControlIsThere
  <2>6. controls' = controls \/ \E g \in Firms : InsertControl(c, g)
    BY <1>1 DEF ControlSteps, BeginBootstrap, DieMidway, CountControls, ControlRefused
  <2> QED
    BY <1>1, <2>1, <2>2, <2>3, <2>4, <2>5, <2>6 DEF ControlSteps
<1> QED
  BY <1>4, <1>5 DEF RefusalExplained

\* A run about something else, and a change by hand, leave the controls to their own.
LEMMA ControlsStep ==
  ASSUME FirmInv, FirmsNext
  PROVE  Bootstrapped' /\ BootstrapElsewhere' /\ RefusalExplained'
<1> USE DEF FirmInv
<1>1. ASSUME NEW c \in Clerks, RunSteps(c), topic = "controls"
      PROVE  Bootstrapped' /\ BootstrapElsewhere' /\ RefusalExplained'
  <2>1. topic' = "controls"
    BY <1>1, OthersStay
  <2> QED
    BY <1>1, <2>1, BootstrapStep, RefusalStep DEF BootstrapElsewhere
<1>2. ASSUME NEW c \in Clerks, RunSteps(c), topic # "controls"
      PROVE  Bootstrapped' /\ BootstrapElsewhere' /\ RefusalExplained'
  <2>1. topic' = topic /\ (together => together')
    BY <1>2, OthersStay
  <2> QED
    BY <1>2, <2>1, OtherTopics DEF Bootstrapped, BootstrapElsewhere, RefusalExplained
<1>3. CASE \/ \E f \in Firms : DeleteCharge(f)
           \/ \E d \in Debts : DeleteDebt(d) \/ \E n \in Debts : TypeDebt(d, n)
  <2>1. UNCHANGED <<topic, runs, controls, together, mishaps>>
    BY <1>3 DEF DeleteCharge, DeleteDebt, TypeDebt
  <2> QED
    BY <2>1 DEF Bootstrapped, BootstrapElsewhere, RefusalExplained, IsNext
<1>4. ASSUME NEW f \in Firms, DeleteControl(f)
      PROVE  Bootstrapped' /\ BootstrapElsewhere' /\ RefusalExplained'
  <2>1. UNCHANGED <<topic, runs, together, mishaps>> /\ topic = "controls" /\ controls[f] = "live"
    BY <1>4 DEF DeleteControl
  <2>2. \A g \in Firms : IF g = f THEN controls'[g] = "deleted" ELSE controls'[g] = controls[g]
    BY <1>4 DEF DeleteControl, FirmTypes
  <2>3. Bootstrapped'
    BY <2>1, <2>2 DEF Bootstrapped
  <2>4. RefusalExplained' /\ BootstrapElsewhere'
    BY <2>1, <2>2 DEF RefusalExplained, BootstrapElsewhere, IsNext
  <2> QED
    BY <2>3, <2>4
<1> QED
  BY <1>1, <1>2, <1>3, <1>4 DEF FirmsNext

\* ------------------------------------------------------- the carry-over
\* A step that neither decides, nor suspends, nor touches the flag.
LEMMA DecisionUntouched ==
  ASSUME FirmInv, UNCHANGED <<suspended, resolved, decisions>>, mishaps \subseteq mishaps',
         NEW c \in Clerks, \A d \in Clerks \ {c} : runs'[d] = runs[d],
         runs'[c].step # "suspend",
         runs[c].step = "suspend" => mishaps' # {},
         runs'[c].step = "notes" => resolved
  PROVE  OneDecision'
<1> SUFFICES ASSUME mishaps' = {} PROVE OneDecision'
  BY DEF OneDecision
<1> USE DEF FirmInv
<1>1. mishaps = {} /\ runs[c].step # "suspend"
  OBVIOUS
<1>2. \A d \in Clerks : runs'[d].step = "notes" => resolved
  BY <1>1 DEF OneDecision
<1>3. CASE Undecided
  BY <1>2, <1>3 DEF Undecided, OneDecision
<1>4. ASSUME NEW keep \in SUBSET Firms, Carrying(keep) PROVE Carrying(keep)'
  <2>1. \A d \in Clerks : runs'[d].step = "suspend" => d # c /\ runs'[d] = runs[d]
    OBVIOUS
  <2>2. \A d \in Clerks : runs[d].step = "suspend" => runs'[d] = runs[d]
    BY <1>1
  <2> QED
    BY <1>4, <2>1, <2>2 DEF Carrying
<1> QED
  BY <1>1, <1>2, <1>3, <1>4 DEF OneDecision

\* The claim of a period that is not resolved: the companies to keep are all ahead.
LEMMA ClaimStep ==
  ASSUME FirmInv, NEW c \in Clerks, Claim(c)
  PROVE  OneDecision'
<1> SUFFICES ASSUME mishaps = {} PROVE OneDecision'
  BY DEF OneDecision, Claim
<1> USE DEF FirmInv
<1>1. Undecided /\ runs[c] \in Run /\ runs \in [Clerks -> Run] /\ NoRun.step = "idle"
  BY BlankTypes DEF Claim, OneDecision, Carrying, FirmTypes
<1> PICK keep \in SUBSET Firms : runs[c].keep = keep
  BY <1>1 DEF Run
<1>2. resolved' /\ decisions' = {keep} /\ suspended' = {} /\ mishaps' = {}
  BY <1>1 DEF Claim, Undecided
<1>3. \A d \in Clerks \ {c} : runs'[d] = runs[d]
  BY <1>1 DEF Claim, Step
<1>4. CASE keep = {}
  <2>1. runs'[c].step = "idle"
    BY <1>1, <1>4 DEF Claim, Step
  <2>2. Carrying(keep)'
    BY <1>1, <1>2, <1>3, <1>4, <2>1 DEF Carrying, Undecided
  <2> QED
    BY <1>2, <2>2 DEF OneDecision
<1>5. CASE keep # {}
  <2>1. runs'[c].step = "suspend" /\ runs'[c].ahead = keep
    BY <1>1, <1>5 DEF Claim, Step, Run
  <2>2. \A d \in Clerks : runs'[d].step = "suspend" => d = c
    BY <1>1, <1>3 DEF Undecided
  <2>3. /\ \A d \in Clerks : runs'[d].step = "suspend" =>
             runs'[d].ahead \subseteq keep /\ keep \ runs'[d].ahead \subseteq suspended'
        /\ \E d \in Clerks : runs'[d].step = "suspend"
    BY <2>1, <2>2
  <2>4. Carrying(keep)'
    BY <1>2, <2>3 DEF Carrying
  <2> QED
    BY <1>2, <2>4 DEF OneDecision
<1> QED
  BY <1>4, <1>5

\* A company is suspended as decided; with the last one the decision is carried out.
LEMMA SuspendStep ==
  ASSUME FirmInv, NEW c \in Clerks, NEW f \in Firms, Suspend(c, f)
  PROVE  OneDecision'
<1> SUFFICES ASSUME mishaps = {} PROVE OneDecision'
  BY DEF OneDecision, Suspend
<1> USE DEF FirmInv
<1>1. runs[c] \in Run /\ runs \in [Clerks -> Run] /\ NoRun.step = "idle"
  BY BlankTypes DEF FirmTypes
<1>2. PICK keep \in SUBSET Firms : Carrying(keep)
  BY DEF OneDecision, Undecided, Suspend
<1>3. /\ suspended' = suspended \cup {f} /\ resolved' = resolved /\ decisions' = decisions
      /\ mishaps' = {} /\ runs[c].step = "suspend" /\ f \in runs[c].ahead
  BY DEF Suspend
<1>4. \A d \in Clerks \ {c} : runs'[d] = runs[d]
  BY <1>1 DEF Suspend, Step
<1>5. runs[c].ahead \subseteq keep /\ keep \ runs[c].ahead \subseteq suspended
  BY <1>2, <1>3 DEF Carrying
<1>6. CASE runs[c].ahead = {f}
  <2>1. runs'[c].step = "idle"
    BY <1>1, <1>6 DEF Suspend, Step
  <2>2. suspended' = keep
    BY <1>2, <1>3, <1>5, <1>6 DEF Carrying
  <2>3. Carrying(keep)'
    BY <1>2, <1>3, <1>4, <2>1, <2>2 DEF Carrying
  <2> QED
    BY <1>1, <1>2, <1>3, <1>4, <2>1, <2>3 DEF OneDecision, Carrying
<1>7. CASE runs[c].ahead # {f}
  <2>1. runs'[c].step = "suspend" /\ runs'[c].ahead = runs[c].ahead \ {f}
    BY <1>1, <1>3, <1>7 DEF Suspend, Step, Run
  <2>2. Carrying(keep)'
    BY <1>2, <1>3, <1>4, <1>5, <2>1 DEF Carrying
  <2> QED
    BY <1>1, <1>2, <1>3, <1>4, <2>1, <2>2 DEF OneDecision, Carrying
<1> QED
  BY <1>6, <1>7

\* Notes saved from a row read as it is undo nothing; else the claim is undone on record.
LEMMA NotesStep ==
  ASSUME FirmInv, NEW c \in Clerks, SaveNotes(c)
  PROVE  OneDecision'
<1> SUFFICES ASSUME mishaps' = {} PROVE OneDecision'
  BY DEF OneDecision
<1> USE DEF FirmInv
<1>1. runs[c] \in Run /\ runs \in [Clerks -> Run] /\ NoRun.step = "idle"
  BY BlankTypes DEF FirmTypes
<1>2. mishaps = {} /\ (resolved => resolved')
  BY DEF SaveNotes
<1>3. resolved' = resolved
  BY <1>2 DEF SaveNotes, OneDecision, FirmTypes
<1>4. runs'[c].step = "idle" /\ \A d \in Clerks \ {c} : runs'[d] = runs[d]
  BY <1>1 DEF SaveNotes, Over, Step
<1> QED
  BY <1>2, <1>3, <1>4, DecisionUntouched DEF SaveNotes

LEMMA DecisionStep ==
  ASSUME FirmInv, FirmsNext
  PROVE  OneDecision'
<1> USE DEF FirmInv
<1>1. ASSUME NEW c \in Clerks, RunSteps(c) PROVE OneDecision'
  <2>1. /\ runs[c] \in Run /\ runs \in [Clerks -> Run] /\ NoRun.step = "idle"
        /\ \A d \in Clerks \ {c} : runs'[d] = runs[d]
    BY <1>1, OthersStay, BlankTypes DEF FirmTypes
  <2>2. CASE BeginLiquidation(c) \/ BeginBootstrap(c) \/ BeginNotes(c)
    <3>1. runs[c].step = "idle" /\ runs'[c].step \in {"count", "notes", "notesUnresolved"}
          /\ (runs'[c].step = "notes" => resolved)
      BY <2>1, <2>2 DEF BeginLiquidation, BeginBootstrap, BeginNotes, Start, NoRun
    <3>2. UNCHANGED <<suspended, resolved, decisions, mishaps>>
      BY <2>2 DEF BeginLiquidation, BeginBootstrap, BeginNotes
    <3> QED
      BY <2>1, <3>1, <3>2, DecisionUntouched
  <2>3. ASSUME NEW keep \in SUBSET Firms, BeginCarryOver(c, keep) PROVE OneDecision'
    <3>1. runs[c].step = "idle" /\ runs'[c].step = "claim"
      BY <2>1, <2>3 DEF BeginCarryOver, Start, NoRun
    <3> QED
      BY <2>1, <2>3, <3>1, DecisionUntouched DEF BeginCarryOver
  <2>4. ASSUME NEW n \in 1 .. 2 * MaxDebts, BeginDebt(c, n) PROVE OneDecision'
    <3>1. runs[c].step = "idle" /\ runs'[c].step = "debt"
      BY <2>1, <2>4 DEF BeginDebt, Start, NoRun
    <3> QED
      BY <2>1, <2>4, <3>1, DecisionUntouched DEF BeginDebt
  <2>5. CASE \/ ClaimRefused(c) \/ \E d \in Debts : InsertDebt(c, d)
             \/ \E f \in Firms : ControlRefused(c, f)
    <3>1. runs[c].step # "suspend" /\ runs'[c].step = "idle"
      BY <2>1, <2>5 DEF ClaimRefused, InsertDebt, ControlRefused, Over, Step
    <3>2. UNCHANGED <<suspended, resolved, decisions>> /\ mishaps \subseteq mishaps'
      BY <2>5 DEF ClaimRefused, InsertDebt, ControlRefused
    <3> QED
      BY <2>1, <3>1, <3>2, DecisionUntouched
  <2>6. CASE DieMidway(c)
    BY <2>6 DEF DieMidway, OneDecision
  <2>7. ASSUME NEW f \in Firms,
               \/ CountCharges(c, f) \/ InsertCharge(c, f) \/ ChargeFails(c, f)
               \/ CountControls(c, f) \/ InsertControl(c, f)
        PROVE  OneDecision'
    <3>1. runs'[c] = Onward(runs[c], f) \/ runs'[c] = [runs[c] EXCEPT !.step = "insert"]
      BY <2>1, <2>7 DEF CountCharges, InsertCharge, ChargeFails, CountControls, InsertControl, Step
    <3>2. runs'[c].step \in {"idle", "count", "insert"}
      BY <2>1, <3>1, OnwardType DEF Run
    <3>3. runs[c].step # "suspend" /\ UNCHANGED <<suspended, resolved, decisions, mishaps>>
      BY <2>7 DEF CountCharges, InsertCharge, ChargeFails, CountControls, InsertControl
    <3> QED
      BY <2>1, <3>2, <3>3, DecisionUntouched
  <2> QED
    BY <1>1, <2>2, <2>3, <2>4, <2>5, <2>6, <2>7, ClaimStep, SuspendStep, NotesStep DEF RunSteps
<1>2. CASE \/ \E f \in Firms : DeleteCharge(f) \/ DeleteControl(f)
           \/ \E d \in Debts : DeleteDebt(d) \/ \E n \in Debts : TypeDebt(d, n)
  <2>1. UNCHANGED <<runs, suspended, resolved, decisions, mishaps>>
    BY <1>2 DEF DeleteCharge, DeleteControl, DeleteDebt, TypeDebt
  <2> QED
    BY <2>1 DEF OneDecision, Undecided, Carrying
<1> QED
  BY <1>1, <1>2 DEF FirmsNext

\* ------------------------------------------------------------- the theorems
LEMMA FirmStep == FirmInv /\ [FirmsNext]_firmVars => FirmInv'
<1> SUFFICES ASSUME FirmInv, [FirmsNext]_firmVars PROVE FirmInv'
  OBVIOUS
<1>1. CASE FirmsNext
  <2>1. FirmTypes'
    BY <1>1, TypesStep DEF FirmInv
  <2>2. together' \/ (Alone /\ ChargeCounted /\ NumberFree /\ OneCharge /\ OneNumber)'
    <3>1. ASSUME NEW c \in Clerks, RunSteps(c), ~ together'
          PROVE  (Alone /\ ChargeCounted /\ NumberFree /\ OneCharge /\ OneNumber)'
      BY <3>1, OneRunStep
    <3>2. ASSUME ~ together', \/ \E f \in Firms : DeleteCharge(f) \/ DeleteControl(f)
                              \/ \E d \in Debts : DeleteDebt(d) \/ \E n \in Debts : TypeDebt(d, n)
          PROVE  (Alone /\ ChargeCounted /\ NumberFree /\ OneCharge /\ OneNumber)'
      <4>1. ~ together
        BY <3>2 DEF DeleteCharge, DeleteControl, DeleteDebt, TypeDebt
      <4> QED
        BY <3>2, <4>1, ByHandStep
    <3> QED
      BY <1>1, <3>1, <3>2 DEF FirmsNext
  <2> QED
    BY <1>1, <2>1, <2>2, ControlsStep, DecisionStep DEF FirmInv
<1>2. CASE UNCHANGED firmVars
  <2>1. FirmTypes' /\ (together' \/ (Alone /\ ChargeCounted /\ NumberFree /\ OneCharge /\ OneNumber)')
    BY <1>2 DEF firmVars, FirmInv, FirmTypes, Alone, ChargeCounted, IsNext, NumberFree, OneCharge,
                OneNumber
  <2>2. Bootstrapped' /\ BootstrapElsewhere' /\ RefusalExplained'
    BY <1>2 DEF firmVars, FirmInv, Bootstrapped, BootstrapElsewhere, RefusalExplained, IsNext
  <2>3. OneDecision'
    BY <1>2 DEF firmVars, FirmInv, OneDecision, Undecided, Carrying
  <2> QED
    BY <2>1, <2>2, <2>3 DEF FirmInv
<1> QED
  BY <1>1, <1>2

LEMMA FirmsAlways == FirmsSpec => []FirmInv
BY FirstState, FirmStep, PTL DEF FirmsSpec

\* A month is charged once and a number given once as long as runs do not overlap, for any number
\* of companies and debts (ensureMonthlyCharge, allocateShortDebtNumber).
THEOREM NothingTwice == FirmsSpec => []NothingTwiceUnlessTogether
<1>1. FirmInv => NothingTwiceUnlessTogether
  BY DEF FirmInv, OneCharge, OneNumber, NothingTwiceUnlessTogether, LiveDebts
<1> QED
  BY <1>1, FirmsAlways, PTL

\* A bootstrap that is over has visited every company, and only an overlap or a deleted control
\* refuses it (BootstrapPeriod).
THEOREM BootstrapComplete == FirmsSpec => []BootstrapLeavesNoneOut
<1>1. FirmInv => BootstrapLeavesNoneOut
  BY DEF FirmInv, Bootstrapped, BootstrapElsewhere, RefusalExplained, Idle, BootstrapLeavesNoneOut
<1> QED
  BY <1>1, FirmsAlways, PTL

\* The suspensions of a period come from one decision and carry it out in full
\* (ApplySuspensionCarryOver), but for a process that dies and for notes that undo the claim.
THEOREM CarryOverOnce == FirmsSpec => []CarryOverDecidedOnce
<1>1. ASSUME FirmInv, mishaps = {}
      PROVE  /\ Cardinality(decisions) <= 1
             /\ \A keep \in decisions : suspended \subseteq keep /\ (Idle => suspended = keep)
  <2>1. CASE Undecided
    BY <2>1, FS_EmptySet DEF Undecided
  <2>2. ASSUME NEW keep \in SUBSET Firms, Carrying(keep)
        PROVE  /\ Cardinality(decisions) <= 1
               /\ \A kept \in decisions : suspended \subseteq kept /\ (Idle => suspended = kept)
    <3>1. Cardinality(decisions) = 1
      BY <2>2, FS_Singleton DEF Carrying
    <3>2. Idle => \A c \in Clerks : runs[c].step # "suspend"
      BY BlankTypes DEF Idle
    <3> QED
      BY <2>2, <3>1, <3>2 DEF Carrying
  <2> QED
    BY <1>1, <2>1, <2>2 DEF FirmInv, OneDecision
<1>2. FirmInv => CarryOverDecidedOnce
  BY <1>1 DEF CarryOverDecidedOnce
<1> QED
  BY <1>2, FirmsAlways, PTL
=============================================================================
