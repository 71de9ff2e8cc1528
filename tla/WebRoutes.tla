--------------------------------- MODULE WebRoutes ---------------------------------
(* The router of the web client (App.tsx): the guard of each page and the redirects, and the
   links of the sidebar, the home page and the tools, each with the codes that show it. *)
EXTENDS ScreensTools

Page(path, demand) == [path |-> path, demand |-> demand]

HomeRoutes == {
  Page("/", NoCode), Page("logout", NoCode), Page("dashboard", Code("dashboard.view")),
  Page("m/:slug", NoCode), Page("tools/sire", Code("finance.company_credentials_view")),
  Page("tools/sire/:companyId", Code("finance.company_credentials_view")),
  Page("tools/rh", Code("finance.company_credentials_view")),
  Page("tools/rh/:companyId", Code("finance.company_credentials_view")),
  Page("tools/notificaciones-sunat", Code("finance.company_credentials_view")),
  Page("tools/notificaciones-sunat/:companyId", Code("finance.company_credentials_view")),
  Page("tools/:slug", NoCode) }

OfficeRoutes == {
  Page("companies", Code("companies.view")),
  Page("companies/external", AnyOf({"access.studio", "companies.external_view"})),
  Page("companies/new", Code("companies.view")),
  Page("companies/:id/edit", Code("companies.view")),
  Page("companies/:id/statement", Code("companies.view")),
  Page("companies/:companyID/contacts", Code("companies.view")),
  Page("companies/:companyID/contacts/new", Code("companies.view")),
  Page("companies/:companyID/contacts/:id/edit", Code("companies.view")),
  Page("documents", Code("documents.view")),
  Page("tax-settlements", Code("tax_settlements.list")) }

LedgerPages == {
  Page("tax-settlements/new", Code("tax_settlements.list")),
  Page("tax-settlements/:id/edit", Code("tax_settlements.list")),
  Page("tax-settlements/:id", Code("tax_settlements.list")),
  Page("comprobantes", Code("fiscal.receipts_list")),
  Page("documents/fiscal-receipts", Code("fiscal.receipts_list")),
  Page("plan-categories", Code("plan_categories.view")),
  Page("plan-categories/new", Code("plan_categories.view")),
  Page("plan-categories/:id/edit", Code("plan_categories.view")),
  Page("subscription-plans", Code("subscription_plans.view")),
  Page("subscription-plans/new", Code("subscription_plans.view")),
  Page("subscription-plans/:id/edit", Code("subscription_plans.view")),
  Page("products", Code("products.view")), Page("products/new", Code("products.view")),
  Page("products/:id/edit", Code("products.view")),
  Page("documents/new", Code("documents.view")),
  Page("documents/:id/edit", Code("documents.view")),
  Page("payments", Code("payments.view")),
  Page("payments/voided", Code("payments.view_voided")),
  Page("payments/new", Code("payments.view")),
  Page("payments/:id/edit", Code("payments.view")),
  Page("reports/financial", Code("reports.financial_view")) }

SupervisorPages == {
  Page("supervisors/dashboard", Code("supervisors.dashboard_view")),
  Page("supervisors/periods", Code("supervisors.periods_view")),
  Page("supervisors/companies", Code("supervisors.controls_view")),
  Page("supervisors/liquidaciones", Code("supervisors.liquidations_view")),
  Page("supervisors/liquidaciones/crear/:companyId", Code("supervisors.liquidations_view")),
  Page("supervisors/liquidaciones/editar/:settlementId", Code("supervisors.liquidations_view")),
  Page("supervisors/liquidaciones/ver/:settlementId", Code("supervisors.liquidations_view")),
  Page("supervisors/activities/pdt-601", Code("supervisors.controls_view")),
  Page("supervisors/activities/pdt-601/:companyId", Code("supervisors.controls_view")),
  Page("supervisors/activities/pdt-621", Code("supervisors.controls_view")),
  Page("supervisors/activities/pdt-621/:companyId", Code("supervisors.controls_view")),
  Page("supervisors/activities/sunat-inbox", Code("supervisors.controls_view")),
  Page("supervisors/activities/sunat-inbox/:companyId", Code("supervisors.controls_view")),
  Page("supervisors/activities/detracciones", Code("supervisors.controls_view")),
  Page("supervisors/activities/detracciones/:companyId", Code("supervisors.controls_view")),
  Page("supervisors/activities/preliminar-ventas", Code("supervisors.controls_view")),
  Page("supervisors/activities/preliminar-ventas/:companyId/:slotIndex", Code("supervisors.controls_view")),
  Page("supervisors/activities/informe-detracciones", Code("supervisors.controls_view")),
  Page("supervisors/activities/informe-detracciones/:companyId", Code("supervisors.controls_view")),
  Page("supervisors/activities/siscont-balances", Code("supervisors.controls_view")),
  Page("supervisors/activities/siscont-balances/:companyId", Code("supervisors.controls_view")),
  Page("supervisors/controls/:id", Code("supervisors.controls_view")),
  Page("supervisors/reports", Code("supervisors.reports_view")),
  Page("supervisors/notifications", Code("supervisors.notifications_view")) }

FinancePages == {
  Page("finance/calendar", Code("finance.calendar_view")),
  Page("finance/activity-templates", AnyOf({"finance.calendar_manage", "settings.firm_view"})),
  Page("finance/activity-templates/new", AnyOf({"finance.calendar_manage", "settings.firm_view"})),
  Page("finance/activity-templates/:id/edit", AnyOf({"finance.calendar_manage", "settings.firm_view"})),
  Page("finance/claves-sol", Code("finance.company_credentials_view")),
  Page("finance/sunat-due-dates", Code("finance.sunat_due_dates_view")),
  Page("assistant", Code("supervisors.controls_view")),
  Page("assistant/dashboard", Code("supervisors.dashboard_view")) }

AssistantPages == {
  Page("assistant/companies", Code("supervisors.controls_view")),
  Page("assistant/activities/pdt-601", Code("supervisors.controls_view")),
  Page("assistant/activities/pdt-601/:companyId", Code("supervisors.controls_view")),
  Page("assistant/activities/pdt-621", Code("supervisors.controls_view")),
  Page("assistant/activities/pdt-621/:companyId", Code("supervisors.controls_view")),
  Page("assistant/activities/sunat-inbox", Code("supervisors.controls_view")),
  Page("assistant/activities/sunat-inbox/:companyId", Code("supervisors.controls_view")),
  Page("assistant/activities/detracciones", Code("supervisors.controls_view")),
  Page("assistant/activities/detracciones/:companyId", Code("supervisors.controls_view")),
  Page("assistant/activities/preliminar-ventas", Code("supervisors.controls_view")),
  Page("assistant/activities/preliminar-ventas/:companyId/:slotIndex", Code("supervisors.controls_view")),
  Page("assistant/activities/informe-detracciones", Code("supervisors.controls_view")),
  Page("assistant/activities/informe-detracciones/:companyId", Code("supervisors.controls_view")),
  Page("assistant/activities/siscont-balances", Code("supervisors.controls_view")),
  Page("assistant/activities/siscont-balances/:companyId", Code("supervisors.controls_view")),
  Page("assistant/activities/informe-deudas", Code("supervisors.controls_view")),
  Page("assistant/notifications", Code("supervisors.notifications_view")),
  Page("assistant/controls/:id", Code("supervisors.controls_view")),
  Page("pos", Code("sales.emit")) }

SettingsPages == {
  Page("pos/history", Code("sales.history")),
  Page("settings/firm", Code("settings.firm_view")),
  Page("settings/activity-configuration", Code("settings.firm_view")),
  Page("settings/fiscal-series", Code("fiscal.series_view")),
  Page("users", Code("users.view")), Page("users/roles", Code("rbac.roles_view")),
  Page("users/new", Code("users.view")), Page("users/:id/edit", Code("users.view")),
  Page("profile", NoCode) }

PageRoutes ==
  HomeRoutes \cup OfficeRoutes \cup LedgerPages \cup SupervisorPages
    \cup FinancePages \cup AssistantPages \cup SettingsPages

\* What the guard of a page asks of the visitor.
GuardOf(path) == UNION {page.demand : page \in {p \in PageRoutes : p.path = path}}

Redirects == {
  <<"tukifac/documentos", "comprobantes">>, <<"documents/tukifac", "comprobantes">>,
  <<"documents/fiscal-receipts", "comprobantes">>, <<"fiscal-receipts", "comprobantes">>,
  <<"supervisors/activities", "supervisors/dashboard">>,
  <<"supervisors/activities/distractions", "supervisors/activities/detracciones">>,
  <<"supervisors/activities/distractions/:companyId", "supervisors/activities/detracciones/:companyId">>,
  <<"supervisors/controls", "supervisors/dashboard">>,
  <<"assistant/activities", "assistant">>,
  <<"assistant/activities/distractions", "assistant/activities/detracciones">>,
  <<"assistant/activities/distractions/:companyId", "assistant/activities/detracciones/:companyId">>,
  <<"assistant/controls", "assistant">> }

GlobalMenu == {
  Link("finance/calendar"), Link("finance/claves-sol"),
  GatedLink(Code("finance.sunat_due_dates_view"), "finance/sunat-due-dates") }

FinanceMenu == {
  GatedLink(Code("dashboard.view"), "dashboard"),
  GatedLink(Code("companies.view"), "companies"),
  GatedLink(Code("companies.external_view"), "companies/external"),
  GatedLink(Code("documents.view"), "documents"),
  GatedLink(Code("tax_settlements.list"), "tax-settlements"),
  GatedLink(Code("fiscal.receipts_list"), "comprobantes"),
  GatedLink(Code("payments.view"), "payments"),
  GatedLink(Code("reports.financial_view"), "reports/financial") }

SupervisorsGate == Code("supervisors.reports_view")

SupervisorsMenu == {
  GatedLink(SupervisorsGate \cup Code("supervisors.dashboard_view"), "supervisors/dashboard"),
  GatedLink(SupervisorsGate \cup Code("finance.company_credentials_view"), "supervisors/companies"),
  GatedLink(SupervisorsGate \cup Code("supervisors.liquidations_view"), "supervisors/liquidaciones"),
  GatedLink(SupervisorsGate \cup Code("supervisors.controls_view"), "supervisors/activities/sunat-inbox"),
  GatedLink(SupervisorsGate \cup Code("supervisors.controls_view"), "supervisors/activities/detracciones"),
  GatedLink(SupervisorsGate \cup Code("supervisors.controls_view"), "supervisors/activities/pdt-601"),
  GatedLink(SupervisorsGate \cup Code("supervisors.controls_view"), "supervisors/activities/pdt-621"),
  GatedLink(SupervisorsGate \cup Code("supervisors.controls_view"), "supervisors/activities/preliminar-ventas"),
  GatedLink(SupervisorsGate \cup Code("supervisors.controls_view"), "supervisors/activities/informe-detracciones"),
  GatedLink(SupervisorsGate \cup Code("supervisors.controls_view"), "supervisors/activities/siscont-balances"),
  GatedLink(SupervisorsGate \cup Code("supervisors.reports_view"), "supervisors/reports"),
  GatedLink(SupervisorsGate \cup Code("supervisors.notifications_view"), "supervisors/notifications") }

AssistantMenu == {
  GatedLink(Code("supervisors.controls_view"), "assistant"),
  GatedLink(Code("finance.company_credentials_view"), "assistant/companies"),
  GatedLink(Code("supervisors.controls_view"), "assistant/activities/sunat-inbox"),
  GatedLink(Code("supervisors.controls_view"), "assistant/activities/detracciones"),
  GatedLink(Code("supervisors.controls_view"), "assistant/activities/pdt-601"),
  GatedLink(Code("supervisors.controls_view"), "assistant/activities/pdt-621"),
  GatedLink(Code("supervisors.controls_view"), "assistant/activities/preliminar-ventas"),
  GatedLink(Code("supervisors.controls_view"), "assistant/activities/informe-detracciones"),
  GatedLink(Code("supervisors.controls_view"), "assistant/activities/siscont-balances"),
  GatedLink(Code("supervisors.controls_view"), "assistant/activities/informe-deudas"),
  GatedLink(Code("supervisors.notifications_view"), "assistant/notifications") }

PosMenu == {
  GatedLink(Code("sales.emit"), "pos"), GatedLink(Code("sales.history"), "pos/history") }

ToolsMenu == {
  GatedLink(Code("finance.company_credentials_view"), "tools/sire"),
  GatedLink(Code("finance.company_credentials_view"), "tools/rh"), Link("tools/:slug"),
  GatedLink(Code("finance.company_credentials_view"), "tools/notificaciones-sunat") }

\* "Estudio" shows when the block of finance or that of the supervisors does.
FinanceCodes == {
  "dashboard.view", "companies.view", "companies.external_view", "documents.view",
  "tax_settlements.list", "fiscal.receipts_list", "payments.view", "reports.financial_view" }
SupervisorsCodes == {
  "supervisors.dashboard_view", "finance.company_credentials_view",
  "supervisors.liquidations_view", "supervisors.controls_view", "supervisors.reports_view",
  "supervisors.notifications_view" }
StudioGate == AnyOf(FinanceCodes \cup {"supervisors.reports_view"})
  \cup AnyOf(FinanceCodes \cup SupervisorsCodes)

StudioMenu == {
  GatedLink(StudioGate \cup Code("settings.firm_view"), "settings/firm"),
  GatedLink(StudioGate \cup Code("settings.firm_view"), "settings/activity-configuration"),
  GatedLink(StudioGate \cup Code("users.view"), "users"),
  GatedLink(StudioGate \cup Code("rbac.roles_view"), "users/roles"),
  GatedLink(StudioGate \cup Code("fiscal.series_view"), "settings/fiscal-series"),
  GatedLink(StudioGate \cup Code("finance.calendar_view"), "finance/activity-templates"),
  GatedLink(StudioGate \cup Code("subscription_plans.view"), "subscription-plans"),
  GatedLink(StudioGate \cup Code("products.view"), "products") }

\* The accesses of the home page; the one that replaces another when a code is missing asks
\* here only for the codes it does need.
HomeTiles == {
  GatedLink(Code("companies.view"), "companies"),
  GatedLink(Code("finance.company_credentials_view") \cup Code("supervisors.reports_view"), "supervisors/companies"),
  GatedLink(Code("finance.company_credentials_view"), "assistant/companies"),
  GatedLink(Code("supervisors.controls_view") \cup Code("supervisors.reports_view"), "supervisors/activities/pdt-621"),
  GatedLink(Code("supervisors.controls_view"), "assistant/activities/pdt-621"),
  GatedLink(Code("supervisors.reports_view") \cup Code("supervisors.dashboard_view"), "supervisors/dashboard"),
  GatedLink(Code("finance.calendar_view"), "finance/calendar"),
  GatedLink(Code("finance.sunat_due_dates_view"), "finance/sunat-due-dates"),
  GatedLink(Code("finance.company_credentials_view"), "finance/claves-sol"),
  GatedLink(Code("reports.financial_view"), "reports/financial"),
  GatedLink(Code("supervisors.reports_view"), "supervisors/reports"),
  GatedLink(Code("supervisors.controls_view") \cup Code("supervisors.reports_view"), "supervisors/activities/preliminar-ventas"),
  GatedLink(Code("supervisors.controls_view"), "assistant/activities/preliminar-ventas"),
  GatedLink(Code("fiscal.receipts_list"), "comprobantes") }

Sidebar == View({}, GlobalMenu \cup FinanceMenu \cup SupervisorsMenu \cup AssistantMenu
                      \cup PosMenu \cup ToolsMenu \cup StudioMenu)
HomeAccesses == View({}, HomeTiles)

WebScreenSet ==
  {Screen(AnyPage, {Sidebar, HomeAccesses})}
    \cup OfficeScreens \cup ActivityScreens \cup FinanceScreens
    \cup SupervisionScreens \cup LedgerScreens \cup ToolsScreens
============================================================================
