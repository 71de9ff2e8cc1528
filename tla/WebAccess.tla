------------------------------ MODULE WebAccess ------------------------------
(* Permission codes across the client and the server: a user with a role opens the pages whose
   guard lets him in, uses what they offer him and is refused, or not, by the middlewares of the
   endpoints behind it, while somebody changes his role. *)
EXTENDS WebRoutes, Integers

CONSTANT MaxAlternatives   \* bound on the codes of a clause that roles are tried with

ASSUME AccessAssumption == MaxAlternatives \in Nat \ {0}

VARIABLES desk,       \* the page and the control or link of it under study
          role,       \* the codes of the user's role on the server
          codes,      \* the codes the client has stored
          captured,   \* the codes of when the page appeared
          at,         \* whether the page is open, or where its link has led
          outcome     \* what became of the last use of the control

accessVars == <<desk, role, codes, captured, at, outcome>>

\* Reads and writes that a page offers to users whom the server refuses: the page asks for fewer
\* codes than the endpoints do, or for others.
KnownRefusals ==
  {CompanySearch, ClockOfServer, DetraccionesDetail, DetraccionesCarryOverApply,
   PdfReportDetail, Pdt601Detail, Pdt621Detail, PreliminarPdf, PreliminarCarryOverApply,
   TemplateFormLoad, TemplatesList, ReceiptPaymentLoad, ReceiptPaymentSave,
   ReceiptViewerDetail, QuickClientLookup, StatementBranding, ComprobantesCompanies,
   ComprobantesSettlements, DocumentFormLoad, DocumentFormSave, DocumentsPay,
   PaymentFormUpload, PaymentFormBranding, PaymentFormLoad, PaymentFormDocuments,
   PaymentFormSettlement, PaymentFormSeries, PaymentFormSave, PaymentsCompanies,
   PaymentsVoidedCompanies, SettlementDetailLoad, SettlementDetailDebts,
   SettlementDetailPdf, SettlementNewCompanies,
   SettlementNewLoadDraft, SettlementNewPreview, PosSaleLoad, PosSaleEmit,
   ProductPickerLoad, RolesList, CompaniesSetStatus, CompaniesTeam, CompaniesSaveTeam,
   CompaniesImportTemplate, CompaniesImportValidate, CompaniesImportCommit,
   ContactFormLoad, ContactFormSave, ContactsLoad, ContactsDelete, CompanyFormLoad,
   CompanyFormLookup, CompanyFormAddContact, CompanyFormDeleteContact, CompanyFormSave,
   CompanyFormReactivate, ExternalClientsList, PlanCategorySave, ProductFormCategories,
   ProductFormCategory, ProductFormSave, ReportsCompanies, SettingsLogo,
   SettingsStatementImages, PlanFormLoad, PlanFormSave, UserFormLoad, UserFormSave,
   ControlDetailLoad, ControlDetailAudit, LiquidacionPlanilla, LiquidacionLoad,
   LiquidacionResync}

\* Links shown for one code to a page that asks for another.
KnownDeadLinks ==
  {<<"/", "supervisors/controls/:id">>, <<"/", "supervisors/activities/pdt-601/:companyId">>,
   <<"/", "supervisors/companies">>, <<"/", "assistant/companies">>,
   <<"/", "finance/activity-templates">>, <<"dashboard", "documents/new">>,
   <<"dashboard", "payments/new">>, <<"companies/external", "companies/:id/edit">>,
   <<"tax-settlements", "payments/new">>}

\* What a desk is made of: a page with its guard, and a control or a link on it.
GuardAt(path) == IF path = "/" THEN NoCode ELSE GuardOf(path)
GateOf(item) == IF item.kind = "write" THEN item.gate ELSE "live"
DemandsOf(item) == {[asks |-> way.asks, needs |-> Needs(way)] : way \in item.ways}

Control(path, asks, item) ==
  [path |-> path, guard |-> GuardAt(path), asks |-> asks, gate |-> GateOf(item),
   ways |-> DemandsOf(item), known |-> item \in KnownRefusals, to |-> "", beyond |-> NoCode]
Passage(path, link) ==
  [path |-> path, guard |-> GuardAt(path), asks |-> link.asks, gate |-> "live", ways |-> {},
   known |-> <<path, link.to>> \in KnownDeadLinks, to |-> link.to, beyond |-> GuardAt(link.to)]

ControlsOf(path, view) ==
  {Control(path, NoCode, item) : item \in view.shows}
    \cup UNION {{Control(path, offer.asks, item) : item \in offer.item} : offer \in view.offers}
GatedLinksOf(path, view) ==
  {Passage(path, link) : link \in {o \in view.offers : o.to # "" /\ o.asks # NoCode}}

Desks == UNION {UNION {ControlsOf(path, view) \cup GatedLinksOf(path, view) :
                         path \in screen.paths, view \in screen.views} : screen \in WebScreenSet}

\* Whoever holds the codes that meet this demand holds those of the other: each clause of the
\* other contains one of this demand.
Covers(met, demand) == \A wanted \in demand : \E clause \in met : clause \subseteq wanted

\* A fact of the catalogues, which hold no parameter: but for the known exceptions, what is asked of
\* a user to reach a control and to be shown it covers what its endpoints, or its page, demand.
ASSUME CodesAssumption ==
  \A d \in Desks :
    /\ d.to # "turned away" /\ (d.to # "" => d.gate = "live")
    /\ d.known \/ d.to = "" \/ Covers(d.guard \cup d.asks, d.beyond)
    /\ d.known \/ \A way \in d.ways : Covers(d.guard \cup d.asks \cup way.asks, way.needs)

\* The codes of a clause to try a role with: all of a short one, one of a long one.
Tried(clause) ==
  IF Cardinality(clause) <= MaxAlternatives THEN clause ELSE {CHOOSE code \in clause : TRUE}

\* The least sets of codes that meet a demand, one choice of a code for each clause.
Meeting(demand) ==
  LET tried == {Tried(clause) : clause \in demand}
  IN  {{choice[clause] : clause \in tried} :
         choice \in {f \in [tried -> UNION tried] : \A clause \in tried : f[clause] \in clause}}

\* The roles worth giving a user at a desk: nothing, just enough to be offered the control but
\* not the page, to reach the page, to be offered the control on it, or to be served.
Roles(d) ==
  {{}} \cup Meeting(d.asks) \cup Meeting(d.guard) \cup Meeting(d.guard \cup d.asks)
    \cup UNION {Meeting(d.guard \cup d.asks \cup way.asks)
                  \cup Meeting(d.guard \cup d.asks \cup way.asks \cup way.needs) : way \in d.ways}
\* ---------------------------------------------------------------- actions
\* Mutant of Admits: the routes have no guard.
AdmitsAnyone(held, demand) == TRUE

\* RequirePermission: without codes every page opens, with codes its guard decides.
Admits(held, demand) == held = {} \/ Grants(held, demand)

\* Where the page reads the codes that offer the control.
Consulted == IF desk.gate = "captured" THEN captured ELSE codes

\* Mutant of Visible: links and buttons are drawn whatever the codes.
VisibleToAll(d) == TRUE

Visible(d) == Grants(Consulted, d.asks)

\* PUT /roles/:id/permissions, or another role given to the user: the codes on the server change
\* (the server's cache is left out), the client's do not.
ChangeRole ==
  /\ outcome = "none"
  /\ role' \in Roles(desk)
  /\ UNCHANGED <<desk, codes, captured, at, outcome>>

\* auth.refreshPermissions, after a login or a change of roles in this client.
RefreshCodes ==
  /\ codes' = role
  /\ UNCHANGED <<desk, role, captured, at, outcome>>

OpenPage ==
  /\ at = "away" /\ Admits(codes, desk.guard)
  /\ at' = "page" /\ captured' = codes
  /\ UNCHANGED <<desk, role, codes, outcome>>

\* The guard reads the codes again at every change of them and sends the user home.
SendHome ==
  /\ at = "page" /\ ~Admits(codes, desk.guard)
  /\ at' = "away"
  /\ UNCHANGED <<desk, role, codes, captured, outcome>>

\* The control is used, in one of the ways the codes allow: the middlewares of the endpoints it
\* calls serve or refuse.
Use(way) ==
  /\ at = "page" /\ Admits(codes, desk.guard) /\ Visible(desk) /\ Grants(Consulted, way.asks)
  /\ outcome' = IF Grants(role, way.needs) THEN "served" ELSE "refused"
  /\ UNCHANGED <<desk, role, codes, captured, at>>

\* A link leads to its page, or its guard turns the user away.
Follow ==
  /\ at = "page" /\ desk.to # "" /\ Admits(codes, desk.guard) /\ Visible(desk)
  /\ at' = IF Admits(codes, desk.beyond) THEN desk.to ELSE "turned away"
  /\ UNCHANGED <<desk, role, codes, captured, outcome>>

AccessInit(desks) ==
  /\ desk \in desks
  /\ role \in Roles(desk) /\ codes = role
  /\ captured = {} /\ at = "away" /\ outcome = "none"

AccessNext ==
  \/ ChangeRole \/ RefreshCodes \/ OpenPage \/ SendHome \/ Follow
  \/ \E way \in desk.ways : Use(way)

AccessSpec == AccessInit(Desks) /\ [][AccessNext]_accessVars
\* ------------------------------------------------------------- properties
\* A control that a page offers is one the server serves: a user whose stored codes are those of
\* his role, drawn on a page that has appeared since they were read, is refused nothing but the
\* items of KnownRefusals. Who has no codes at all is let into every page.
OfferedIsServed ==
  [][outcome' = "refused" /\ outcome # "refused" =>
       desk.known \/ codes # role \/ captured # codes \/ codes = {}]_accessVars

\* A link of the menus, the home page or a page that is shown for a code leads to a page which
\* that code opens, but for those of KnownDeadLinks.
LinksLead == at = "turned away" => desk.known
=============================================================================
