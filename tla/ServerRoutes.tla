-------------------------------- MODULE ServerRoutes --------------------------------
(* The routes that src/backend/routes/routes.go registers under /api, each with the permission
   codes its middleware demands (middleware.RequirePermission, RequireAny: one clause of the
   demand; two middlewares in a row: two clauses). A route with no middleware of its own is open
   to every signed-in user. The paths leave out the prefix /api, which the client adds. *)
EXTENDS Permissions

Route(endpoint, demand) == [endpoint |-> endpoint, demand |-> demand]

SessionRoutes == {
  Route("GET /dashboard", Code("dashboard.view")),
  Route("GET /dashboard/overview", Code("dashboard.view")),
  Route("GET /logout", NoCode),
  Route("GET /me/permissions", NoCode),
  Route("GET /roles", Code("rbac.roles_view")),
  Route("GET /roles/default", Code("rbac.roles_view")),
  Route("POST /roles", Code("rbac.roles_manage")),
  Route("GET /roles/:id", Code("rbac.roles_view")),
  Route("PUT /roles/:id/default", Code("rbac.roles_manage")),
  Route("POST /roles/:id/clone", Code("rbac.roles_manage")),
  Route("PUT /roles/:id", Code("rbac.roles_manage")),
  Route("DELETE /roles/:id", Code("rbac.roles_manage")),
  Route("GET /permissions/catalog", Code("rbac.permissions_catalog")) }

SettingsRoutes == {
  Route("PUT /roles/:id/permissions", Code("rbac.roles_manage")),
  Route("GET /firm-config", Code("settings.firm_view")),
  Route("GET /firm-config/branding", Code("settings.firm_branding_view")),
  Route("PUT /firm-config", Code("settings.firm_update")),
  Route("POST /firm-config/logo", Code("settings.firm_upload_logo")),
  Route("POST /firm-config/statement-bank-logo", Code("settings.firm_upload_bank_logo")),
  Route("POST /firm-config/statement-payment-qr", Code("settings.firm_upload_payment_qr")),
  Route("POST /firm-config/statement-bank-logo-factura", Code("settings.firm_upload_bank_logo")),
  Route("POST /firm-config/statement-payment-qr-factura", Code("settings.firm_upload_payment_qr")),
  Route("GET /activity-rules", Code("settings.firm_view")),
  Route("GET /activity-rules/:id", Code("settings.firm_view")),
  Route("GET /activity-rules/:id/audits", Code("settings.firm_view")),
  Route("POST /activity-rules", Code("settings.firm_update")),
  Route("PUT /activity-rules/:id", Code("settings.firm_update")),
  Route("DELETE /activity-rules/:id", Code("settings.firm_update")),
  Route("GET /activity-templates", Code("settings.firm_view")),
  Route("PATCH /activity-templates/:id/activity-rule", Code("settings.firm_update")) }

CompanyRoutes == {
  Route("POST /companies/validate-ruc", Code("companies.validate_ruc")),
  Route("POST /companies/validate-dni", Code("companies.validate_dni")),
  Route("GET /companies/next-internal-code", Code("companies.next_code")),
  Route("GET /companies/import/template", Code("companies.import_template")),
  Route("POST /companies/import", Code("companies.import_spreadsheet")),
  Route("GET /companies", Code("companies.view")),
  Route("GET /companies/:id", Code("companies.view")),
  Route("GET /companies/:id/statement", Code("companies.view")),
  Route("POST /companies", Code("companies.create")),
  Route("POST /companies/:id/reactivate", Code("companies.create")),
  Route("PUT /companies/:id", Code("companies.update")),
  Route("PUT /companies/:id/convert-to-studio", Code("companies.convert_to_studio")),
  Route("PATCH /companies/:id/status", Code("companies.status")),
  Route("DELETE /companies/:id", Code("companies.delete")),
  Route("GET /companies/:companyID/contacts", Code("contacts.view")),
  Route("GET /companies/:companyID/contacts/:id", Code("contacts.view")),
  Route("POST /companies/:companyID/contacts", Code("contacts.create")),
  Route("PUT /companies/:companyID/contacts/:id", Code("contacts.update")),
  Route("DELETE /companies/:companyID/contacts/:id", Code("contacts.delete")),
  Route("GET /documents", Code("documents.view")),
  Route("GET /documents/:id", Code("documents.view")),
  Route("POST /documents", Code("documents.create")),
  Route("PUT /documents/:id", Code("documents.update")) }

LedgerRoutes == {
  Route("DELETE /documents/:id", Code("documents.delete")),
  Route("GET /payments", Code("payments.view")),
  Route("GET /payments/voided", Code("payments.view_voided")),
  Route("GET /payments/:id", Code("payments.view")),
  Route("POST /payments", Code("payments.create")),
  Route("POST /payments/:id/issue-comprobante", Code("payments.issue_comprobante")),
  Route("POST /payments/:id/issue-tukifac", Code("payments.issue_comprobante")),
  Route("POST /payments/:id/allocate", Code("payments.update")),
  Route("PUT /payments/:id", Code("payments.update")),
  Route("DELETE /payments/:id", Code("payments.delete")),
  Route("POST /payments/upload-attachment", Code("payments.upload_attachment")),
  Route("GET /users", Code("users.view")),
  Route("GET /users/:id", Code("users.view")),
  Route("POST /users", Code("users.create")),
  Route("PUT /users/:id", Code("users.update")),
  Route("DELETE /users/:id", Code("users.delete")),
  Route("GET /reports/financial", Code("reports.financial_view")),
  Route("GET /reports/debts", Code("reports.financial_view")),
  Route("GET /fiscal-document-series", Code("fiscal.series_view")),
  Route("GET /fiscal-document-series/:id", Code("fiscal.series_view")),
  Route("POST /fiscal-document-series", Code("fiscal.series_manage")),
  Route("PUT /fiscal-document-series/:id", Code("fiscal.series_manage")) }

FiscalRoutes == {
  Route("GET /document/series", Code("fiscal.series_view")),
  Route("GET /sale-note/series", Code("fiscal.series_view")),
  Route("GET /fiscal-receipts", Code("fiscal.receipts_list")),
  Route("GET /fiscal-receipts/:id", Code("fiscal.receipts_list")),
  Route("GET /tukifac/fiscal-receipts", Code("fiscal.receipts_list")),
  Route("GET /tukifac/fiscal-receipts/:id", Code("fiscal.receipts_list")),
  Route("POST /fiscal-receipts/:id/create-payment", Code("fiscal.receipts_create_payment")),
  Route("POST /tukifac/fiscal-receipts/:id/create-payment", Code("fiscal.receipts_create_payment")),
  Route("POST /fiscal-receipts/:id/link-payment", Code("fiscal.receipts_link_payment")),
  Route("POST /tukifac/fiscal-receipts/:id/link-payment", Code("fiscal.receipts_link_payment")),
  Route("PATCH /fiscal-receipts/:id/tax-settlement", Code("fiscal.receipts_patch_tax_settlement")),
  Route("PATCH /tukifac/fiscal-receipts/:id/tax-settlement", Code("fiscal.receipts_patch_tax_settlement")),
  Route("POST /fiscal-receipts/:id/discard", Code("fiscal.receipts_discard")),
  Route("POST /tukifac/fiscal-receipts/:id/discard", Code("fiscal.receipts_discard")),
  Route("POST /pos/sales", Code("sales.emit")),
  Route("POST /pos/upload-payment-proof", Code("sales.emit")),
  Route("GET /pos/sales", Code("sales.history")),
  Route("GET /pos/sales/:id", Code("sales.history")),
  Route("GET /pos/companies", Code("sales.companies_pick")),
  Route("POST /pos/companies", Code("sales.companies_pick")),
  Route("POST /pos/companies/validate-ruc", Code("sales.companies_pick")),
  Route("POST /pos/companies/validate-dni", Code("sales.companies_pick")),
  Route("GET /pos/products", Code("sales.catalog_pick")),
  Route("GET /pos/document-series", Code("sales.emit")),
  Route("GET /products", Code("products.view")),
  Route("GET /products/:id", Code("products.view")),
  Route("POST /products", Code("products.create")) }

CatalogueRoutes == {
  Route("PUT /products/:id", Code("products.update")),
  Route("DELETE /products/:id", Code("products.delete")),
  Route("GET /product-categories", Code("product_categories.view")),
  Route("POST /product-categories", Code("product_categories.create")),
  Route("GET /plan-categories", Code("plan_categories.view")),
  Route("GET /plan-categories/:id", Code("plan_categories.view")),
  Route("POST /plan-categories", Code("plan_categories.create")),
  Route("PUT /plan-categories/:id", Code("plan_categories.update")),
  Route("DELETE /plan-categories/:id", Code("plan_categories.delete")),
  Route("GET /subscription-plans", Code("subscription_plans.view")),
  Route("GET /subscription-plans/:id", Code("subscription_plans.view")),
  Route("POST /subscription-plans", Code("subscription_plans.create")),
  Route("PUT /subscription-plans/:id", Code("subscription_plans.update")),
  Route("PUT /subscription-plans/:id/tiers", Code("subscription_plans.tiers")),
  Route("DELETE /subscription-plans/:id", Code("subscription_plans.delete")),
  Route("POST /liquidation/run", Code("liquidation.run")),
  Route("GET /companies/:id/settlements/preview", Code("tax_settlements.preview")),
  Route("GET /companies/:id/settlements/pending-from-closed", Code("tax_settlements.preview")),
  Route("GET /tax-settlements", Code("tax_settlements.list")),
  Route("POST /tax-settlements", Code("tax_settlements.create")) }

SettlementRoutes == {
  Route("GET /tax-settlements/:id/payment-suggestions", Code("tax_settlements.payment_suggestions")),
  Route("GET /tax-settlements/:id/debts-context", Code("tax_settlements.view")),
  Route("POST /tax-settlements/:id/link-debt", Code("tax_settlements.update")),
  Route("POST /tax-settlements/debts/:documentId/writeoff", Code("tax_settlements.update")),
  Route("GET /tax-settlements/:id", Code("tax_settlements.view")),
  Route("PUT /tax-settlements/:id", Code("tax_settlements.update")),
  Route("POST /tax-settlements/:id/revert-to-draft", Code("tax_settlements.update")),
  Route("POST /tax-settlements/:id/emit", Code("tax_settlements.emit")),
  Route("POST /tax-settlements/:id/payment-document-type", Code("tax_settlements.update")),
  Route("POST /tax-settlements/:id/close", Code("tax_settlements.update")),
  Route("DELETE /tax-settlements/:id", Code("tax_settlements.delete")),
  Route("GET /supervisors/dashboard", Code("supervisors.dashboard_view")),
  Route("GET /supervisors/dashboard/pdt-summary", Code("supervisors.dashboard_view")),
  Route("GET /supervisors/dashboard/pdt-assistant-performance", Code("supervisors.dashboard_view")) }

ControlRoutes == {
  Route("GET /supervisors/dashboard/pdt-bucket-companies", Code("supervisors.dashboard_view")),
  Route("GET /supervisors/dashboard/compliance-trend", Code("supervisors.dashboard_view")),
  Route("GET /supervisors/dashboard/overview", Code("supervisors.dashboard_view")),
  Route("GET /supervisors/dashboard/indicators", Code("supervisors.dashboard_view")),
  Route("GET /supervisors/assistant/overview", Code("supervisors.controls_view")),
  Route("GET /supervisors/periods", Code("supervisors.periods_view")),
  Route("POST /supervisors/periods", Code("supervisors.periods_create")),
  Route("PUT /supervisors/periods/:id", Code("supervisors.periods_update")),
  Route("DELETE /supervisors/periods/:id", Code("supervisors.periods_delete")),
  Route("POST /supervisors/periods/:id/close", Code("supervisors.periods_close")),
  Route("POST /supervisors/periods/:id/bootstrap-controls", Code("supervisors.periods_bootstrap")),
  Route("GET /supervisors/controls", Code("supervisors.controls_view")),
  Route("GET /supervisors/controls/:id", Code("supervisors.controls_view")),
  Route("POST /supervisors/controls", Code("supervisors.controls_create")),
  Route("PUT /supervisors/controls/:id", Code("supervisors.controls_update")),
  Route("POST /supervisors/controls/:id/info-received", Code("supervisors.controls_update")),
  Route("DELETE /supervisors/controls/:id", Code("supervisors.controls_delete")),
  Route("GET /supervisors/controls/:controlId/declarations", Code("supervisors.declarations_view")),
  Route("PUT /supervisors/declarations/:id", Code("supervisors.declarations_update")),
  Route("POST /supervisors/declarations/:id/approve", Code("supervisors.declarations_approve")),
  Route("POST /supervisors/declarations/:id/observe", Code("supervisors.declarations_observe")),
  Route("POST /supervisors/declarations/:id/reopen", Code("supervisors.declarations_reopen")),
  Route("DELETE /supervisors/declarations/:id", Code("supervisors.declarations_delete")),
  Route("GET /supervisors/controls/:controlId/liquidation", Code("supervisors.liquidations_view")),
  Route("PUT /supervisors/controls/:controlId/liquidation", Code("supervisors.liquidations_update")),
  Route("POST /supervisors/controls/:controlId/liquidation/approve", Code("supervisors.liquidations_approve")),
  Route("POST /supervisors/controls/:controlId/liquidation/observe", Code("supervisors.liquidations_approve")),
  Route("GET /supervisors/reports/monthly", Code("supervisors.reports_view")),
  Route("GET /supervisors/history", Code("supervisors.history_view")),
  Route("GET /supervisors/observations", Code("supervisors.observations_view")),
  Route("POST /supervisors/observations", Code("supervisors.observations_create")),
  Route("GET /supervisors/attachments", Code("supervisors.observations_view")),
  Route("POST /supervisors/attachments/upload", Code("supervisors.attachments_upload")),
  Route("DELETE /supervisors/attachments/:id", Code("supervisors.attachments_upload")),
  Route("GET /supervisors/notifications", Code("supervisors.notifications_view")),
  Route("POST /supervisors/notifications/:id/read", Code("supervisors.notifications_view")),
  Route("GET /supervisors/activity-modules/preliminar-ventas", Code("supervisors.controls_view")),
  Route("GET /supervisors/activity-modules/preliminar-ventas/export", Code("supervisors.controls_view")),
  Route("GET /supervisors/activity-modules/preliminar-ventas/companies/:companyId/slots/:slotIndex", Code("supervisors.controls_view")),
  Route("PUT /supervisors/activity-modules/preliminar-ventas/companies/:companyId/slots/:slotIndex", Code("supervisors.declarations_update")),
  Route("POST /supervisors/activity-modules/preliminar-ventas/companies/:companyId/slots/:slotIndex/sent", Code("supervisors.declarations_update")) }

ActivityRoutes == {
  Route("GET /supervisors/activity-modules/informe-detracciones", Code("supervisors.controls_view")),
  Route("GET /supervisors/activity-modules/informe-detracciones/export", Code("supervisors.controls_view")),
  Route("GET /supervisors/activity-modules/informe-detracciones/companies/:companyId", Code("supervisors.controls_view")),
  Route("POST /supervisors/activity-modules/informe-detracciones/companies/:companyId/submit", Code("supervisors.attachments_upload")),
  Route("GET /supervisors/activity-modules/informe-deudas", Code("supervisors.controls_view")),
  Route("GET /supervisors/activity-modules/sunat-inbox", Code("supervisors.controls_view")),
  Route("GET /supervisors/activity-modules/sunat-inbox/export", Code("supervisors.controls_view")),
  Route("GET /supervisors/activity-modules/sunat-inbox/month", Code("supervisors.controls_view")),
  Route("GET /supervisors/activity-modules/sunat-inbox/companies/:companyId", Code("supervisors.controls_view")),
  Route("POST /supervisors/activity-modules/sunat-inbox/companies/:companyId/slots/:slotIndex/upload", Code("supervisors.attachments_upload")),
  Route("POST /supervisors/activity-modules/sunat-inbox/slots/:slotId/verify", Code("supervisors.declarations_approve")),
  Route("POST /supervisors/activity-modules/sunat-inbox/slots/:slotId/observe", Code("supervisors.declarations_approve")),
  Route("GET /supervisors/activity-modules/detracciones", Code("supervisors.controls_view")),
  Route("GET /supervisors/activity-modules/detracciones/export", Code("supervisors.controls_view")),
  Route("GET /supervisors/activity-modules/detracciones/companies/:companyId", Code("supervisors.controls_view")),
  Route("GET /supervisors/activity-modules/detracciones/suspension-carry-over", Code("supervisors.controls_view")),
  Route("POST /supervisors/activity-modules/detracciones/suspension-carry-over/apply", Code("supervisors.attachments_upload")),
  Route("PUT /supervisors/activity-modules/detracciones/companies/:companyId/suspendida", Code("supervisors.attachments_upload")),
  Route("PUT /supervisors/activity-modules/companies/:companyId/suspendida", Code("supervisors.attachments_upload")),
  Route("POST /supervisors/activity-modules/detracciones/companies/:companyId/upload", Code("supervisors.attachments_upload")),
  Route("POST /supervisors/activity-modules/detracciones/declarations/:declarationId/verify", Code("supervisors.declarations_approve")),
  Route("POST /supervisors/activity-modules/detracciones/declarations/:declarationId/validate", Code("supervisors.declarations_approve")),
  Route("PUT /supervisors/activity-modules/detracciones/declarations/:declarationId/status", Code("supervisors.detracciones_mark_status")),
  Route("GET /supervisors/activity-modules/distractions", Code("supervisors.controls_view")),
  Route("GET /supervisors/activity-modules/distractions/companies/:companyId", Code("supervisors.controls_view")),
  Route("POST /supervisors/activity-modules/distractions/declarations/:declarationId/validate", Code("supervisors.declarations_approve")),
  Route("GET /supervisors/activity-modules/pdt-601", Code("supervisors.controls_view")),
  Route("GET /supervisors/activity-modules/pdt-601/export", Code("supervisors.controls_view")),
  Route("GET /supervisors/activity-modules/pdt-601/companies/:companyId", Code("supervisors.controls_view")),
  Route("GET /supervisors/activity-modules/pdt-601/companies/:companyId/planilla", Code("supervisors.controls_view")),
  Route("PUT /supervisors/activity-modules/pdt-601/companies/:companyId/planilla", Code("supervisors.declarations_update")),
  Route("GET /supervisors/activity-modules/pdt-621", Code("supervisors.controls_view")),
  Route("GET /supervisors/activity-modules/pdt-621/export", Code("supervisors.controls_view")),
  Route("GET /supervisors/activity-modules/pdt-621/companies/:companyId", Code("supervisors.controls_view")),
  Route("GET /supervisors/activity-modules/pdt-621/companies/:companyId/record", Code("supervisors.controls_view")),
  Route("PUT /supervisors/activity-modules/pdt-621/companies/:companyId/record", Code("supervisors.declarations_update")),
  Route("GET /supervisors/activity-modules/pdt-621/server-time", Code("supervisors.declarations_approve")),
  Route("POST /supervisors/activity-modules/pdt-621/companies/:companyId/recepcionar", Code("supervisors.declarations_approve")),
  Route("GET /supervisors/tax-settlements/drafts-by-companies", Code("supervisors.liquidations_view")),
  Route("GET /supervisors/tax-settlements/:id", Code("supervisors.liquidations_view")),
  Route("POST /supervisors/tax-settlements", Code("supervisors.liquidations_create")),
  Route("PUT /supervisors/tax-settlements/:id", Code("supervisors.liquidations_update")),
  Route("GET /finance/activity-templates", Code("finance.calendar_view")),
  Route("GET /finance/activity-templates/next-code", Code("finance.calendar_manage")),
  Route("GET /finance/activity-templates/:id", Code("finance.calendar_view")) }

CalendarRoutes == {
  Route("POST /finance/activity-templates", Code("finance.calendar_manage")),
  Route("PUT /finance/activity-templates/:id", Code("finance.calendar_manage")),
  Route("PATCH /finance/activity-templates/:id/active", Code("finance.calendar_manage")),
  Route("DELETE /finance/activity-templates/:id", Code("finance.calendar_manage")),
  Route("GET /finance/calendar", NoCode),
  Route("GET /finance/calendar/activities/:activityId/compliance", NoCode),
  Route("GET /finance/calendar/:periodYm", NoCode),
  Route("POST /finance/calendar/duplicate", Code("finance.calendar_manage")),
  Route("POST /finance/calendar", Code("finance.calendar_manage")),
  Route("PUT /finance/calendar/months/:id", Code("finance.calendar_manage")),
  Route("PUT /finance/calendar/months/:id/close", Code("finance.calendar_manage")),
  Route("PUT /finance/calendar/months/:id/reopen", Code("finance.calendar_manage")),
  Route("DELETE /finance/calendar/months/:id", Code("finance.calendar_manage")),
  Route("POST /finance/calendar/months/:calendarId/marks", Code("finance.calendar_manage")),
  Route("DELETE /finance/calendar/marks/:id", Code("finance.calendar_manage")),
  Route("POST /finance/calendar/months/:calendarId/activities", Code("finance.calendar_manage")),
  Route("PUT /finance/calendar/activities/:id", Code("finance.calendar_manage")),
  Route("DELETE /finance/calendar/activities/:id", Code("finance.calendar_manage")),
  Route("GET /finance/company-credentials", NoCode),
  Route("GET /finance/company-credentials/filter-facets", NoCode),
  Route("GET /finance/company-credentials/:companyId", NoCode) }

CredentialRoutes == {
  Route("POST /finance/company-credentials/:companyId/sunat-access", Code("finance.company_credentials_view")),
  Route("GET /finance/company-credentials/import/template", Code("finance.company_credentials_import")),
  Route("POST /finance/company-credentials/import", Code("finance.company_credentials_import")),
  Route("PUT /finance/company-credentials/:companyId", Code("finance.company_credentials_manage")),
  Route("GET /tools/sire/catalog", Code("finance.company_credentials_view")),
  Route("POST /tools/sire/:companyId/test", Code("finance.company_credentials_view")),
  Route("GET /tools/sire/:companyId/periods", Code("finance.company_credentials_view")),
  Route("GET /tools/sire/:companyId/tickets", Code("finance.company_credentials_view")),
  Route("GET /tools/sire/:companyId/tickets/file", Code("finance.company_credentials_view")),
  Route("POST /tools/sire/:companyId/reports/request", Code("finance.company_credentials_view")),
  Route("GET /tools/sire/:companyId/reports/direct", Code("finance.company_credentials_view")),
  Route("GET /tools/sire/:companyId/summary", Code("finance.company_credentials_view")),
  Route("GET /tools/sire/:companyId/inconsistencies", Code("finance.company_credentials_view")),
  Route("GET /tools/sire/:companyId/preliminares", Code("finance.company_credentials_view")),
  Route("GET /tools/sire/:companyId/fv0621", Code("finance.company_credentials_view")),
  Route("GET /tools/sire/:companyId/ajustes", Code("finance.company_credentials_view")),
  Route("GET /tools/sire/:companyId/constancia", Code("finance.company_credentials_view")),
  Route("GET /tools/sire/:companyId/downloads", Code("finance.company_credentials_view")),
  Route("POST /tools/sire/:companyId/downloads", Code("finance.company_credentials_view")),
  Route("DELETE /tools/sire/:companyId/downloads", Code("finance.company_credentials_view")),
  Route("GET /tools/sire/:companyId/downloads/:downloadId/file", Code("finance.company_credentials_view")),
  Route("DELETE /tools/sire/:companyId/downloads/:downloadId", Code("finance.company_credentials_view")),
  Route("PUT /tools/sire/:companyId/credentials", Code("finance.company_credentials_view") \cup Code("finance.company_credentials_sire_edit")),
  Route("GET /tools/rh/:companyId/comprobantes", Code("finance.company_credentials_view")),
  Route("GET /tools/buzon/summary", Code("finance.company_credentials_view")),
  Route("GET /tools/buzon/:companyId", Code("finance.company_credentials_view")),
  Route("POST /tools/buzon/:companyId/sync", Code("finance.company_credentials_view")),
  Route("POST /tools/buzon/:companyId/seen", Code("finance.company_credentials_view")),
  Route("GET /finance/sunat-due-dates", Code("finance.sunat_due_dates_view")),
  Route("PUT /finance/sunat-due-dates", Code("finance.sunat_due_dates_manage")) }

ServerRoutes ==
  SessionRoutes \cup SettingsRoutes \cup CompanyRoutes \cup LedgerRoutes
    \cup FiscalRoutes \cup CatalogueRoutes \cup SettlementRoutes \cup ControlRoutes
    \cup ActivityRoutes \cup CalendarRoutes \cup CredentialRoutes

\* What the server demands of a caller; an endpoint that is not registered answers nobody.
DemandOf(endpoint) ==
  UNION {r.demand : r \in {s \in ServerRoutes : s.endpoint = endpoint}}
    \cup (IF \E r \in ServerRoutes : r.endpoint = endpoint THEN NoCode ELSE Nobody)
============================================================================
