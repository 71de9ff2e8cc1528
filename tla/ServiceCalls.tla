-------------------------------- MODULE ServiceCalls --------------------------------
(* The calls of the web client's services (src/frontend/src/services): each operation with the
   endpoint it asks. The bodies of the requests and the shapes of the answers are left out. *)
EXTENDS ServerRoutes

activityConfigurationService == [
   listTemplates |-> "GET /activity-templates",
   setTemplateRule |-> "PATCH /activity-templates/:id/activity-rule"]

activityRulesService == [
   list |-> "GET /activity-rules",
   get |-> "GET /activity-rules/:id",
   create |-> "POST /activity-rules",
   update |-> "PUT /activity-rules/:id",
   remove |-> "DELETE /activity-rules/:id",
   listAudits |-> "GET /activity-rules/:id/audits"]

activityTemplatesService == [
   list |-> "GET /finance/activity-templates",
   get |-> "GET /finance/activity-templates/:id",
   previewNextCode |-> "GET /finance/activity-templates/next-code",
   create |-> "POST /finance/activity-templates",
   update |-> "PUT /finance/activity-templates/:id",
   setActive |-> "PATCH /finance/activity-templates/:id/active",
   remove |-> "DELETE /finance/activity-templates/:id"]

companiesService == [
   getNextInternalCode |-> "GET /companies/next-internal-code",
   list |-> "GET /companies",
   listPaged |-> "GET /companies",
   get |-> "GET /companies/:id",
   create |-> "POST /companies",
   reactivate |-> "POST /companies/:id/reactivate",
   update |-> "PUT /companies/:id",
   patchStatus |-> "PATCH /companies/:id/status",
   delete |-> "DELETE /companies/:id",
   getStatement |-> "GET /companies/:id/statement",
   search |-> "GET /companies",
   validateRuc |-> "POST /companies/validate-ruc",
   validateDni |-> "POST /companies/validate-dni",
   convertToStudio |-> "PUT /companies/:id/convert-to-studio",
   downloadImportTemplate |-> "GET /companies/import/template",
   importCompaniesValidate |-> "POST /companies/import",
   importCompaniesCommit |-> "POST /companies/import"]

companyAccessCredentialsService == [
   sunatAccess |-> "POST /finance/company-credentials/:companyId/sunat-access",
   filterFacets |-> "GET /finance/company-credentials/filter-facets",
   list |-> "GET /finance/company-credentials",
   get |-> "GET /finance/company-credentials/:companyId",
   update |-> "PUT /finance/company-credentials/:companyId",
   downloadImportTemplate |-> "GET /finance/company-credentials/import/template",
   importValidate |-> "POST /finance/company-credentials/import",
   importCommit |-> "POST /finance/company-credentials/import"]

companySuspensionService == [
   set |-> "PUT /supervisors/activity-modules/companies/:companyId/suspendida"]

configService == [
   getFirmConfig |-> "GET /firm-config",
   getFirmBranding |-> "GET /firm-config/branding",
   updateFirmConfig |-> "PUT /firm-config",
   uploadFirmLogo |-> "POST /firm-config/logo",
   uploadStatementBankLogo |-> "POST /firm-config/statement-bank-logo",
   uploadStatementPaymentQr |-> "POST /firm-config/statement-payment-qr",
   uploadStatementBankLogoFactura |-> "POST /firm-config/statement-bank-logo-factura",
   uploadStatementPaymentQrFactura |-> "POST /firm-config/statement-payment-qr-factura"]

contactsService == [
   listByCompany |-> "GET /companies/:companyID/contacts",
   get |-> "GET /companies/:companyID/contacts/:id",
   create |-> "POST /companies/:companyID/contacts",
   update |-> "PUT /companies/:companyID/contacts/:id",
   delete |-> "DELETE /companies/:companyID/contacts/:id"]

detraccionesService == [
   list |-> "GET /supervisors/activity-modules/detracciones",
   fetchExportData |-> "GET /supervisors/activity-modules/detracciones/export",
   getDetail |-> "GET /supervisors/activity-modules/detracciones/companies/:companyId",
   uploadPdf |-> "POST /supervisors/activity-modules/detracciones/companies/:companyId/upload",
   verify |-> "POST /supervisors/activity-modules/detracciones/declarations/:declarationId/verify",
   setSupervisorStatus |-> "PUT /supervisors/activity-modules/detracciones/declarations/:declarationId/status",
   setSuspendida |-> "PUT /supervisors/activity-modules/detracciones/companies/:companyId/suspendida",
   getSuspensionCarryOverStatus |-> "GET /supervisors/activity-modules/detracciones/suspension-carry-over",
   applySuspensionCarryOver |-> "POST /supervisors/activity-modules/detracciones/suspension-carry-over/apply"]

documentsService == [
   list |-> "GET /documents",
   listPaged |-> "GET /documents",
   get |-> "GET /documents/:id",
   create |-> "POST /documents",
   update |-> "PUT /documents/:id",
   delete |-> "DELETE /documents/:id",
   syncTukifac |-> "POST /documents/sync-tukifac",
   listTukifacDocuments |-> "GET /tukifac/documents/lists",
   listTukifacSaleNotes |-> "GET /tukifac/sale-note/lists",
   syncTukifacSaleNotes |-> "POST /tukifac/sale-note/sync"]

financeCalendarService == [
   list |-> "GET /finance/calendar",
   get |-> "GET /finance/calendar/:periodYm",
   create |-> "POST /finance/calendar",
   updateNotes |-> "PUT /finance/calendar/months/:id",
   close |-> "PUT /finance/calendar/months/:id/close",
   reopen |-> "PUT /finance/calendar/months/:id/reopen",
   remove |-> "DELETE /finance/calendar/months/:id",
   duplicate |-> "POST /finance/calendar/duplicate",
   addMark |-> "POST /finance/calendar/months/:calendarId/marks",
   removeMark |-> "DELETE /finance/calendar/marks/:id",
   addActivity |-> "POST /finance/calendar/months/:calendarId/activities",
   updateActivity |-> "PUT /finance/calendar/activities/:id",
   removeActivity |-> "DELETE /finance/calendar/activities/:id",
   compliance |-> "GET /finance/calendar/activities/:activityId/compliance"]

fiscalDocumentSeriesService == [
   list |-> "GET /fiscal-document-series",
   get |-> "GET /fiscal-document-series/:id",
   create |-> "POST /fiscal-document-series",
   update |-> "PUT /fiscal-document-series/:id"]

fiscalReceiptsService == [
   getDetail |-> "GET /fiscal-receipts/:id",
   listPaged |-> "GET /tukifac/fiscal-receipts",
   createPayment |-> "POST /tukifac/fiscal-receipts/:id/create-payment",
   linkPayment |-> "POST /tukifac/fiscal-receipts/:id/link-payment",
   discard |-> "POST /tukifac/fiscal-receipts/:id/discard",
   patchTaxSettlement |-> "PATCH /tukifac/fiscal-receipts/:id/tax-settlement"]

informeDeudasService == [
   list |-> "GET /supervisors/activity-modules/informe-deudas"]

paymentsService == [
   list |-> "GET /payments",
   listPaged |-> "GET /payments",
   get |-> "GET /payments/:id",
   create |-> "POST /payments",
   issueComprobanteFromPayment |-> "POST /payments/:id/issue-comprobante",
   issueTukifacFromPayment |-> "POST /payments/:id/issue-comprobante",
   update |-> "PUT /payments/:id",
   delete |-> "DELETE /payments/:id",
   listVoided |-> "GET /payments/voided",
   uploadAttachment |-> "POST /payments/upload-attachment"]

pdfReportService == [
   list |-> "GET /supervisors/activity-modules/informe-detracciones",
   getDetail |-> "GET /supervisors/activity-modules/informe-detracciones/companies/:companyId",
   submit |-> "POST /supervisors/activity-modules/informe-detracciones/companies/:companyId/submit",
   fetchExportData |-> "GET /supervisors/activity-modules/informe-detracciones/export"]

pdt601Service == [
   list |-> "GET /supervisors/activity-modules/pdt-601",
   getDetail |-> "GET /supervisors/activity-modules/pdt-601/companies/:companyId",
   getPlanillaOnly |-> "GET /supervisors/activity-modules/pdt-601/companies/:companyId/planilla",
   savePlanilla |-> "PUT /supervisors/activity-modules/pdt-601/companies/:companyId/planilla",
   fetchExportData |-> "GET /supervisors/activity-modules/pdt-601/export"]

pdt621Service == [
   list |-> "GET /supervisors/activity-modules/pdt-621",
   getDetail |-> "GET /supervisors/activity-modules/pdt-621/companies/:companyId",
   getRecord |-> "GET /supervisors/activity-modules/pdt-621/companies/:companyId/record",
   saveRecord |-> "PUT /supervisors/activity-modules/pdt-621/companies/:companyId/record",
   serverTime |-> "GET /supervisors/activity-modules/pdt-621/server-time",
   recepcionar |-> "POST /supervisors/activity-modules/pdt-621/companies/:companyId/recepcionar",
   fetchExportData |-> "GET /supervisors/activity-modules/pdt-621/export"]

planCategoriesService == [
   list |-> "GET /plan-categories",
   get |-> "GET /plan-categories/:id",
   create |-> "POST /plan-categories",
   update |-> "PUT /plan-categories/:id",
   delete |-> "DELETE /plan-categories/:id"]

posSalesService == [
   listCompanies |-> "GET /pos/companies",
   createQuickCompany |-> "POST /pos/companies",
   validateRuc |-> "POST /pos/companies/validate-ruc",
   validateDni |-> "POST /pos/companies/validate-dni",
   listSeries |-> "GET /pos/document-series",
   searchProducts |-> "GET /pos/products",
   emit |-> "POST /pos/sales",
   listHistory |-> "GET /pos/sales",
   getDetail |-> "GET /pos/sales/:id",
   uploadPaymentProof |-> "POST /pos/upload-payment-proof"]

preliminarVentasService == [
   list |-> "GET /supervisors/activity-modules/preliminar-ventas",
   fetchExportData |-> "GET /supervisors/activity-modules/preliminar-ventas/export",
   getSlotDetail |-> "GET /supervisors/activity-modules/preliminar-ventas/companies/:companyId/slots/:slotIndex",
   saveSlotRecord |-> "PUT /supervisors/activity-modules/preliminar-ventas/companies/:companyId/slots/:slotIndex",
   markSlotSent |-> "POST /supervisors/activity-modules/preliminar-ventas/companies/:companyId/slots/:slotIndex/sent"]

productCategoriesService == [
   list |-> "GET /product-categories",
   create |-> "POST /product-categories"]

productsService == [
   listPaged |-> "GET /products",
   get |-> "GET /products/:id",
   create |-> "POST /products",
   update |-> "PUT /products/:id",
   remove |-> "DELETE /products/:id",
   syncTukifac |-> "POST /products/sync-tukifac",
   listTukifacSellnow |-> "GET /tukifac/sellnow/items"]

reportsService == [
   getFinancialReport |-> "GET /reports/financial"]

rheService == [
   list |-> "GET /tools/rh/:companyId/comprobantes"]

rolesService == [
   list |-> "GET /roles",
   get |-> "GET /roles/:id",
   create |-> "POST /roles",
   update |-> "PUT /roles/:id",
   remove |-> "DELETE /roles/:id",
   getDefault |-> "GET /roles/default",
   setDefault |-> "PUT /roles/:id/default",
   clone |-> "POST /roles/:id/clone",
   catalog |-> "GET /permissions/catalog",
   replacePermissions |-> "PUT /roles/:id/permissions"]

sireService == [
   test |-> "POST /tools/sire/:companyId/test",
   saveCredentials |-> "PUT /tools/sire/:companyId/credentials",
   periods |-> "GET /tools/sire/:companyId/periods",
   downloads |-> "GET /tools/sire/:companyId/downloads",
   startDownloads |-> "POST /tools/sire/:companyId/downloads",
   downloadBlob |-> "GET /tools/sire/:companyId/downloads/:downloadId/file",
   removeDownload |-> "DELETE /tools/sire/:companyId/downloads/:downloadId",
   clearDownloads |-> "DELETE /tools/sire/:companyId/downloads"]

subscriptionPlansService == [
   list |-> "GET /subscription-plans",
   get |-> "GET /subscription-plans/:id",
   create |-> "POST /subscription-plans",
   update |-> "PUT /subscription-plans/:id",
   replaceTiers |-> "PUT /subscription-plans/:id/tiers",
   delete |-> "DELETE /subscription-plans/:id",
   runLiquidation |-> "POST /liquidation/run"]

sunatBuzonService == [
   summary |-> "GET /tools/buzon/summary",
   get |-> "GET /tools/buzon/:companyId",
   sync |-> "POST /tools/buzon/:companyId/sync",
   markSeen |-> "POST /tools/buzon/:companyId/seen"]

sunatDueDatesService == [
   list |-> "GET /finance/sunat-due-dates",
   update |-> "PUT /finance/sunat-due-dates"]

sunatInboxService == [
   list |-> "GET /supervisors/activity-modules/sunat-inbox",
   getDetail |-> "GET /supervisors/activity-modules/sunat-inbox/companies/:companyId",
   uploadCapture |-> "POST /supervisors/activity-modules/sunat-inbox/companies/:companyId/slots/:slotIndex/upload",
   verifyCapture |-> "POST /supervisors/activity-modules/sunat-inbox/slots/:slotId/verify",
   observeCapture |-> "POST /supervisors/activity-modules/sunat-inbox/slots/:slotId/observe",
   fetchExportData |-> "GET /supervisors/activity-modules/sunat-inbox/export",
   listMonth |-> "GET /supervisors/activity-modules/sunat-inbox/month"]

supervisorTaxSettlementsService == [
   create |-> "POST /supervisors/tax-settlements",
   get |-> "GET /supervisors/tax-settlements/:id",
   update |-> "PUT /supervisors/tax-settlements/:id",
   draftsByCompanies |-> "GET /supervisors/tax-settlements/drafts-by-companies"]

supervisorsService == [
   listPeriods |-> "GET /supervisors/periods",
   createPeriod |-> "POST /supervisors/periods",
   bootstrapPeriodControls |-> "POST /supervisors/periods/:id/bootstrap-controls",
   updatePeriod |-> "PUT /supervisors/periods/:id",
   deletePeriod |-> "DELETE /supervisors/periods/:id",
   closePeriod |-> "POST /supervisors/periods/:id/close",
   listControls |-> "GET /supervisors/controls",
   getControl |-> "GET /supervisors/controls/:id",
   createControl |-> "POST /supervisors/controls",
   updateControl |-> "PUT /supervisors/controls/:id",
   registerInfoReceived |-> "POST /supervisors/controls/:id/info-received",
   deleteControl |-> "DELETE /supervisors/controls/:id",
   listDeclarations |-> "GET /supervisors/controls/:controlId/declarations",
   updateDeclaration |-> "PUT /supervisors/declarations/:id",
   approveDeclaration |-> "POST /supervisors/declarations/:id/approve",
   observeDeclaration |-> "POST /supervisors/declarations/:id/observe",
   reopenDeclaration |-> "POST /supervisors/declarations/:id/reopen",
   getLiquidation |-> "GET /supervisors/controls/:controlId/liquidation"]

supervisorReviews == [
   updateLiquidation |-> "PUT /supervisors/controls/:controlId/liquidation",
   approveLiquidation |-> "POST /supervisors/controls/:controlId/liquidation/approve",
   observeLiquidation |-> "POST /supervisors/controls/:controlId/liquidation/observe",
   reportMonthly |-> "GET /supervisors/reports/monthly",
   listHistory |-> "GET /supervisors/history",
   listObservations |-> "GET /supervisors/observations",
   createObservation |-> "POST /supervisors/observations",
   listAttachments |-> "GET /supervisors/attachments",
   uploadAttachment |-> "POST /supervisors/attachments/upload",
   deleteAttachment |-> "DELETE /supervisors/attachments/:id",
   listNotifications |-> "GET /supervisors/notifications",
   markNotificationRead |-> "POST /supervisors/notifications/:id/read",
   dashboard |-> "GET /supervisors/dashboard",
   pdtDashboardSummary |-> "GET /supervisors/dashboard/pdt-summary"]

supervisorBoards == [
   pdtAssistantPerformance |-> "GET /supervisors/dashboard/pdt-assistant-performance",
   pdtBucketCompanies |-> "GET /supervisors/dashboard/pdt-bucket-companies",
   complianceTrend |-> "GET /supervisors/dashboard/compliance-trend",
   assistantOverview |-> "GET /supervisors/assistant/overview",
   dashboardOverview |-> "GET /supervisors/dashboard/overview",
   dashboardIndicators |-> "GET /supervisors/dashboard/indicators"]

taxSettlementsService == [
   preview |-> "GET /companies/:id/settlements/preview",
   listPaged |-> "GET /tax-settlements",
   get |-> "GET /tax-settlements/:id",
   create |-> "POST /tax-settlements",
   update |-> "PUT /tax-settlements/:id",
   emit |-> "POST /tax-settlements/:id/emit",
   updatePaymentDocumentType |-> "POST /tax-settlements/:id/payment-document-type",
   close |-> "POST /tax-settlements/:id/close",
   pendingFromClosed |-> "GET /companies/:id/settlements/pending-from-closed",
   paymentSuggestions |-> "GET /tax-settlements/:id/payment-suggestions",
   debtsContext |-> "GET /tax-settlements/:id/debts-context",
   linkDebt |-> "POST /tax-settlements/:id/link-debt",
   writeOffDebt |-> "POST /tax-settlements/debts/:documentId/writeoff",
   revertToDraft |-> "POST /tax-settlements/:id/revert-to-draft",
   delete |-> "DELETE /tax-settlements/:id"]

usersService == [
   list |-> "GET /users",
   get |-> "GET /users/:id",
   create |-> "POST /users",
   update |-> "PUT /users/:id",
   delete |-> "DELETE /users/:id"]

\* Two calls the pages make without a service.
dashboardCall == "GET /dashboard"
============================================================================
