------------------------------- MODULE WebDesks -------------------------------
(* Two desks of the web client where one save takes two requests: the import of a spreadsheet,
   validated and then committed (Companies, CompanyAccessCredentials), and the sale of the point
   of sale, issued and then read back (PosSale). *)
EXTENDS Naturals, Sequences, FiniteSets

CONSTANTS Files,        \* spreadsheets the user may choose
          GoodFiles,    \* those of them the server's validation accepts
          MaxSales      \* bound on the requests to issue a sale

ASSUME DesksAssumption == GoodFiles \subseteq Files /\ MaxSales \in Nat

VARIABLES file,         \* the file chosen, or none
          validated,    \* importValidatedOk
          validating,   \* the file of the validation on its way, or none
          committing,   \* the file of the commit on its way, or none
          swapped,      \* a file was chosen while another was being validated
          form,         \* number of the sale on the form: a reset starts the next
          saving,       \* the button of the sale is disabled
          emissions,    \* requests to issue or to read back: the sale and the step they are at
          receipts,     \* the sale of each receipt the server has issued, in order
          misled,       \* sales reported as not issued though a receipt exists
          dialog     \* the import dialog is open

deskVars == <<file, validated, validating, committing, swapped, form, saving, emissions,
              receipts, misled, dialog>>
importVars == <<file, validated, validating, committing, swapped, dialog>>
saleVars == <<form, saving, emissions, receipts, misled>>

none == "none"
\* --------------------------------------------------------- the import dialog
OpenImport ==
  /\ ~dialog
  /\ dialog' = TRUE /\ file' = none /\ validated' = FALSE
  /\ UNCHANGED <<validating, committing, swapped, saleVars>>

CloseImport ==
  /\ dialog
  /\ dialog' = FALSE /\ file' = none /\ validated' = FALSE
  /\ UNCHANGED <<validating, committing, swapped, saleVars>>

\* Mutant of ChooseFile: the validation of the file before still counts.
ChooseFileValidated(f) ==
  /\ dialog
  /\ file' = f
  /\ swapped' = (validating \notin {none, f})
  /\ UNCHANGED <<validated, validating, committing, dialog, saleVars>>

\* The input of the file, which is not disabled while another file is being validated.
ChooseFile(f) ==
  /\ dialog
  /\ file' = f /\ validated' = FALSE
  /\ swapped' = (validating \notin {none, f})
  /\ UNCHANGED <<validating, committing, dialog, saleVars>>

PressValidate ==
  /\ dialog /\ file # none /\ validating = none
  /\ validating' = file /\ validated' = FALSE /\ swapped' = FALSE
  /\ UNCHANGED <<file, committing, dialog, saleVars>>

\* The answer says whether the file that was sent is right; the dialog takes it for the one
\* chosen by now. A failed request says no.
Validated ==
  /\ validating # none
  /\ \E answered \in BOOLEAN : validated' = (answered /\ validating \in GoodFiles)
  /\ validating' = none
  /\ UNCHANGED <<file, committing, swapped, dialog, saleVars>>

PressCommit ==
  /\ dialog /\ file # none /\ validated /\ committing = none
  /\ committing' = file
  /\ UNCHANGED <<file, validated, validating, swapped, dialog, saleVars>>

\* Done: the dialog closes. Refused with errors by rows: the validation no longer counts.
Committed ==
  /\ committing # none
  /\ committing' = none
  /\ \/ dialog' = FALSE /\ file' = none /\ validated' = FALSE
     \/ UNCHANGED <<dialog, file>> /\ validated' \in {validated, FALSE}
  /\ UNCHANGED <<validating, swapped, saleVars>>
\* ------------------------------------------------------- the point of sale
Emission(step) == [no |-> Len(receipts) + Cardinality(emissions), form |-> form, step |-> step]

\* Mutant of PressEmit: the button stays enabled while the sale is being issued.
PressEmitAgain ==
  /\ Len(receipts) + Cardinality(emissions) < MaxSales
  /\ saving' = TRUE
  /\ emissions' = emissions \cup {Emission("issue")}
  /\ UNCHANGED <<form, receipts, misled, importVars>>

PressEmit ==
  /\ ~saving /\ Len(receipts) + Cardinality(emissions) < MaxSales
  /\ saving' = TRUE
  /\ emissions' = emissions \cup {Emission("issue")}
  /\ UNCHANGED <<form, receipts, misled, importVars>>

\* The server issues the receipt: the client sends no sale_client_ref that would tell a retry.
Issue(e) ==
  /\ e.step = "issue"
  /\ receipts' = Append(receipts, e.form)
  /\ emissions' = (emissions \ {e}) \cup {[e EXCEPT !.step = "issued"]}
  /\ UNCHANGED <<form, saving, misled, importVars>>

\* The answer arrives and the receipt is asked for: emit() goes on to getDetail().
ReadBack(e) ==
  /\ e.step = "issued"
  /\ emissions' = (emissions \ {e}) \cup {[e EXCEPT !.step = "detail"]}
  /\ UNCHANGED <<form, saving, receipts, misled, importVars>>

\* Only the receipt read back shows the sale as done and resets the form.
ShowReceipt(e) ==
  /\ e.step = "detail"
  /\ emissions' = emissions \ {e}
  /\ form' = form + 1 /\ saving' = FALSE
  /\ UNCHANGED <<receipts, misled, importVars>>

\* Any failure on the way says "No se pudo emitir el comprobante" and keeps the form.
EmitFails(e) ==
  /\ emissions' = emissions \ {e}
  /\ saving' = FALSE
  /\ misled' = IF e.step = "issue" THEN misled ELSE misled \cup {e.form}
  /\ UNCHANGED <<form, receipts, importVars>>

DesksInit ==
  /\ file = none /\ validated = FALSE /\ validating = none /\ committing = none
  /\ swapped = FALSE /\ dialog = FALSE
  /\ form = 1 /\ saving = FALSE /\ emissions = {} /\ receipts = <<>> /\ misled = {}

DesksNext ==
  \/ OpenImport \/ CloseImport \/ PressValidate \/ Validated \/ PressCommit \/ Committed
  \/ \E f \in Files : ChooseFile(f)
  \/ PressEmit
  \/ \E e \in emissions : Issue(e) \/ ReadBack(e) \/ ShowReceipt(e) \/ EmitFails(e)

DesksSpec == DesksInit /\ [][DesksNext]_deskVars
\* -------------------------------------------------------------- properties
\* A file that is committed is one the server has found right: choosing another file takes the
\* validation back. It fails only when the other file was chosen while the first was still being
\* validated, because the late answer is taken for the new file.
OnlyValidatedFilesAreImported ==
  [][committing' \notin {none, committing} => committing' \in GoodFiles \/ swapped]_deskVars

\* A sale on the form is issued twice only after the user was told that it was not issued while
\* its receipt existed: the answer was lost or the receipt could not be read back.
SoldTwiceOnlyWhenMisled ==
  \A i, j \in DOMAIN receipts : i # j /\ receipts[i] = receipts[j] => receipts[i] \in misled
=============================================================================
