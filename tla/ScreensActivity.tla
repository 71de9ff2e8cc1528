------------------------------ MODULE ScreensActivity ------------------------------
(* The pages of the monthly activities: PDT 601 and 621, detractions, mailbox captures, sales
   drafts and PDF reports, with the components they share. *)
EXTENDS ScreensOffice

CompanySearch == Read(Calls({companiesService.listPaged}))
ActivityOwners == Read(Asking(AnyOf({"access.studio", "supervisors.reports_view"}), {companyAccessCredentialsService.filterFacets}))
ClockOfServer == Read(Calls({pdt621Service.serverTime}))
Pdt621Recepcionar == Write("none", "busy", Asking(Code("supervisors.declarations_approve"), {pdt621Service.recepcionar}))
SuspendCompany == Write("live", "busy", Asking(Code("supervisors.attachments_upload"), {companySuspensionService.set}))
Indicators == Read(Calls({supervisorBoards.dashboardIndicators}))
AssignedCompaniesList == Read(Calls({companyAccessCredentialsService.list}))
DetraccionesDetail == Read(Calls({supervisorReviews.listAttachments, detraccionesService.getDetail}))
DetraccionesDetailUpload == Write("captured", "busy", Asking(Code("supervisors.attachments_upload"), {detraccionesService.uploadPdf}))
DetraccionesDetailVerify == Write("captured", "busy", Asking(Code("supervisors.declarations_approve"), {detraccionesService.verify}))
DetraccionesDetailSetStatus == Write("captured", "busy", Asking(Code("supervisors.detracciones_mark_status") \cup Code("supervisors.declarations_approve"), {detraccionesService.setSupervisorStatus}))
DetraccionesDetailSuspend == Write("captured", "busy", Asking(Code("supervisors.attachments_upload"), {detraccionesService.setSuspendida}))
DetraccionesList == Read(Calls({detraccionesService.list}))
DetraccionesCarryOver == Read(Calls({detraccionesService.getSuspensionCarryOverStatus}))
DetraccionesCarryOverApply == Write("none", "busy", Calls({detraccionesService.applySuspensionCarryOver}))
DetraccionesExcel == Read(Calls({detraccionesService.fetchExportData}))
DetraccionesListUpload == Write("captured", "cell", Asking(Code("supervisors.attachments_upload"), {detraccionesService.uploadPdf}))
DetraccionesListVerify == Write("captured", "cell", Asking(Code("supervisors.declarations_approve"), {detraccionesService.verify}))
DetraccionesListSetStatus == Write("captured", "cell", Asking(Code("supervisors.detracciones_mark_status"), {detraccionesService.setSupervisorStatus}))
InformeDeudasList == Read(Calls({informeDeudasService.list}))
PdfReportDetail == Read(Calls({supervisorReviews.listAttachments, pdfReportService.getDetail}))
PdfReportSubmit == Write("captured", "busy", Asking(Code("supervisors.attachments_upload"), {pdfReportService.submit}))
PdfReportApprove == Write("captured", "busy", Asking(Code("supervisors.declarations_approve"), {supervisorsService.approveDeclaration}))
PdfReportObserve == Write("captured", "busy", Asking(Code("supervisors.declarations_observe"), {supervisorsService.observeDeclaration}))
PdfReportReopen == Write("captured", "busy", Asking(Code("supervisors.declarations_reopen"), {supervisorsService.reopenDeclaration}))
PdfReportFacets == Read(Calls({companyAccessCredentialsService.filterFacets}))
PdfReportList == Read(Calls({pdfReportService.list}))
PdfReportExcel == Read(Calls({pdfReportService.fetchExportData}))
Pdt601Detail == Read(Calls({supervisorReviews.listAttachments, pdt601Service.getDetail}))
Pdt601Reopen == Write("captured", "busy", Asking(Code("supervisors.declarations_reopen"), {supervisorsService.reopenDeclaration}))
Pdt601Upload == Write("captured", "busy", Asking(Code("supervisors.attachments_upload"), {supervisorReviews.uploadAttachment}))
Pdt601RemoveAttachment == Write("captured", "row", Asking(Code("supervisors.declarations_approve") \cup Code("supervisors.attachments_upload"), {supervisorReviews.deleteAttachment}))
Pdt601SavePlanilla == Write("captured", "busy", Asking(Code("supervisors.declarations_update"), {pdt601Service.savePlanilla}))
Pdt601Approve == Write("captured", "busy", Asking(Code("supervisors.declarations_approve"), {supervisorsService.approveDeclaration}))
Pdt601Observe == Write("captured", "busy", Asking(Code("supervisors.declarations_observe"), {supervisorsService.observeDeclaration}))
Pdt601Facets == Read(Calls({companyAccessCredentialsService.filterFacets}))
Pdt601List == Read(Calls({pdt601Service.list}))
Pdt601Excel == Read(Calls({pdt601Service.fetchExportData}))
Pdt621Detail == Read(Calls({supervisorReviews.listAttachments, pdt621Service.getDetail}))
Pdt621Reopen == Write("captured", "busy", Asking(Code("supervisors.declarations_reopen"), {supervisorsService.reopenDeclaration}))
Pdt621Upload == Write("captured", "busy", Asking(Code("supervisors.attachments_upload"), {supervisorReviews.uploadAttachment}))
Pdt621RemoveAttachment == Write("captured", "row", Asking(Code("supervisors.declarations_approve") \cup Code("supervisors.attachments_upload"), {supervisorReviews.deleteAttachment}))
Pdt621Approve == Write("captured", "busy", Asking(Code("supervisors.declarations_approve"), {supervisorsService.approveDeclaration}))
Pdt621Observe == Write("captured", "busy", Asking(Code("supervisors.declarations_observe"), {supervisorsService.observeDeclaration}))
Pdt621SaveRecord == Write("captured", "busy", Asking(Code("supervisors.declarations_update"), {pdt621Service.saveRecord}))
Pdt621Facets == Read(Calls({companyAccessCredentialsService.filterFacets}))
Pdt621List == Read(Calls({pdt621Service.list}))
Pdt621Excel == Read(Calls({pdt621Service.fetchExportData}))
PreliminarDetail == Read(Calls({preliminarVentasService.getSlotDetail}))
PreliminarSave == Write("captured", "busy", Asking(Code("supervisors.declarations_update"), {preliminarVentasService.saveSlotRecord}))
PreliminarMarkSent == Write("captured", "busy", Asking(Code("supervisors.declarations_update"), {preliminarVentasService.markSlotSent}))
PreliminarPdf == Read(Calls({configService.getFirmBranding}))
PreliminarList == Read(Calls({preliminarVentasService.list}))
PreliminarCarryOver == Read(Calls({detraccionesService.getSuspensionCarryOverStatus}))
PreliminarCarryOverApply == Write("none", "busy", Calls({detraccionesService.applySuspensionCarryOver}))
PreliminarExcel == Read(Calls({preliminarVentasService.fetchExportData}))
SunatInboxDetail == Read(Calls({sunatInboxService.getDetail}))
SunatInboxUpload == Write("captured", "row", Asking(Code("supervisors.attachments_upload"), {sunatInboxService.uploadCapture}))
SunatInboxVerify == Write("captured", "row", Asking(Code("supervisors.declarations_approve"), {sunatInboxService.verifyCapture}))
SunatInboxObserve == Write("captured", "cell", Asking(Code("supervisors.declarations_approve"), {sunatInboxService.observeCapture}))
SunatInboxList == Read(Calls({sunatInboxService.listMonth, sunatInboxService.list}))
SunatInboxListUpload == Write("captured", "row", Asking(Code("supervisors.attachments_upload"), {sunatInboxService.uploadCapture}))
SunatInboxListVerify == Write("captured", "row", Asking(Code("supervisors.declarations_approve"), {sunatInboxService.verifyCapture}))
SunatInboxListObserve == Write("captured", "cell", Asking(Code("supervisors.declarations_approve"), {sunatInboxService.observeCapture}))
SunatInboxMonthUpload == Write("captured", "row", Asking(Code("supervisors.attachments_upload"), {sunatInboxService.uploadCapture}))
SunatInboxMonthVerify == Write("captured", "row", Asking(Code("supervisors.declarations_approve"), {sunatInboxService.verifyCapture}))
SunatInboxMonthObserve == Write("captured", "cell", Asking(Code("supervisors.declarations_approve"), {sunatInboxService.observeCapture}))
SunatInboxExcel == Read(Calls({sunatInboxService.fetchExportData}))
AssistantDashboardLoad == Read(Calls({supervisorReviews.pdtDashboardSummary}))
AssistantWorkspaceLoad == Read(Calls({supervisorBoards.assistantOverview}))

Pdt601Head == View({Pdt601Detail}, {
    Button(Pdt601SavePlanilla)})
Pdt601Review == View({Pdt601Detail}, {
    BusyButton(Pdt601Reopen), BusyButton(Pdt601Observe), BusyButton(Pdt601Approve)})
Pdt601Planilla == View({Pdt601Detail}, {
    Button(Pdt601SavePlanilla)})
Pdt601Tracking == View({Pdt601Detail}, {
    BusyButton(Pdt601SavePlanilla)})
Pdt601Files == View({Pdt601Detail}, {
    BusyButton(Pdt601Upload), BusyButton(Pdt601RemoveAttachment)})
Pdt621Review == View({Pdt621Detail}, {
    BusyButton(Pdt621Reopen), BusyButton(Pdt621Observe), BusyButton(Pdt621Approve)})
Pdt621Deliveries == View({Pdt621Detail}, {
    Button(Pdt621Recepcionar)})
Pdt621Amounts == View({Pdt621Detail}, {
    Button(Pdt621SaveRecord)})
Pdt621Files == View({Pdt621Detail}, {
    BusyButton(Pdt621SaveRecord), BusyButton(Pdt621Upload),
    BusyButton(Pdt621RemoveAttachment)})
SunatInboxToolbar == View({SunatInboxList}, {
    BusyButton(SunatInboxExcel)})
SunatInboxWeek == View({SunatInboxList}, {
    Link("supervisors/activities/sunat-inbox/:companyId"),
    Link("assistant/activities/sunat-inbox/:companyId"), Button(SuspendCompany),
    Button(SunatInboxListUpload), Button(SunatInboxListVerify),
    Button(SunatInboxListObserve)})
SunatInboxMonth == View({SunatInboxList}, {
    Link("supervisors/activities/sunat-inbox/:companyId"),
    Link("assistant/activities/sunat-inbox/:companyId"), Button(SuspendCompany),
    Button(SunatInboxMonthUpload), Button(SunatInboxMonthVerify),
    Button(SunatInboxMonthObserve)})
PreliminarHead == View({PreliminarDetail}, {
    BusyButton(PreliminarPdf)})
PreliminarFoot == View({PreliminarDetail}, {
    BusyButton(PreliminarMarkSent), Button(PreliminarSave)})
Pdt621Table == View({Pdt621List}, {
    Button(Pdt621Recepcionar), Link("supervisors/activities/pdt-621/:companyId"),
    Link("assistant/activities/pdt-621/:companyId"), Button(SuspendCompany)})
Pdt621ListFilters == View({Pdt621Facets, ActivityOwners}, {
    BusyButton(Pdt621Excel)})
Pdt601ListFilters == View({Pdt601Facets, ActivityOwners}, {
    BusyButton(Pdt601Excel)})
Pdt601Table == View({Pdt601List}, {
    Link("supervisors/activities/pdt-601/:companyId"),
    Link("assistant/activities/pdt-601/:companyId"), Button(SuspendCompany)})
PdfReportReview == View({PdfReportDetail}, {
    BusyButton(PdfReportReopen), BusyButton(PdfReportObserve), BusyButton(PdfReportApprove)})
PdfReportFiles == View({PdfReportDetail}, {
    BusyButton(PdfReportSubmit)})
DetraccionesFilters == View({DetraccionesList, ActivityOwners}, {
    BusyButton(DetraccionesExcel)})
DetraccionesTable == View({DetraccionesList, DetraccionesCarryOver}, {
    BusyButton(DetraccionesListUpload), BusyButton(DetraccionesListVerify),
    BusyButton(DetraccionesListSetStatus),
    Link("supervisors/activities/detracciones/:companyId"),
    Link("assistant/activities/detracciones/:companyId"), Button(SuspendCompany),
    BusyButton(DetraccionesCarryOverApply)})
PdfReportFilters == View({PdfReportFacets, ActivityOwners}, {
    BusyButton(PdfReportExcel)})
PdfReportTable == View({PdfReportList}, {
    Link("supervisors/activities/informe-detracciones/:companyId"),
    Link("assistant/activities/informe-detracciones/:companyId"), Button(SuspendCompany)})
DetraccionesDetailHead == View({DetraccionesDetail}, {
    Button(DetraccionesDetailSetStatus), BusyButton(DetraccionesDetailSuspend)})
DetraccionesDetailFiles == View({DetraccionesDetail}, {
    BusyButton(DetraccionesDetailVerify), BusyButton(DetraccionesDetailSetStatus),
    BusyButton(DetraccionesDetailUpload)})
PreliminarFilters == View({PreliminarList, ActivityOwners}, {
    BusyButton(PreliminarExcel)})
PreliminarTable == View({PreliminarList, PreliminarCarryOver}, {
    Button(SuspendCompany), BusyButton(PreliminarCarryOverApply),
    Link("supervisors/activities/preliminar-ventas/:companyId/:slotIndex"),
    Link("assistant/activities/preliminar-ventas/:companyId/:slotIndex")})
AssignedCompaniesTable == View({AssignedCompaniesList}, {})
SunatInboxDetailView == View({SunatInboxDetail}, {
    Button(SunatInboxUpload), Button(SunatInboxVerify), Button(SunatInboxObserve)})
InformeDeudasTable == View({InformeDeudasList}, {})
AssistantSummary == View({AssistantDashboardLoad}, {
    Link("assistant/activities/pdt-601"), Link("assistant/activities/pdt-621"),
    Link("assistant")})
RecepcionarDialog == View({ClockOfServer}, {
    BusyButton(Pdt621Recepcionar)})
SuspendButton == View({}, {
    BusyButton(SuspendCompany)})
CompanySearchBox == View({CompanySearch}, {})
IndicatorsPanel == View({Indicators}, {})

Pdt601DetailScreen == Screen({"supervisors/activities/pdt-601/:companyId", "assistant/activities/pdt-601/:companyId"},
  {Pdt601Head, Pdt601Review, Pdt601Planilla, Pdt601Tracking, Pdt601Files})
Pdt621DetailScreen == Screen({"supervisors/activities/pdt-621/:companyId", "assistant/activities/pdt-621/:companyId"},
  {Pdt621Review, Pdt621Deliveries, Pdt621Amounts, Pdt621Files, RecepcionarDialog})
SunatInboxListScreen == Screen({"supervisors/activities/sunat-inbox", "assistant/activities/sunat-inbox"},
  {SunatInboxToolbar, SunatInboxWeek, SunatInboxMonth, SuspendButton})
PreliminarVentasDetailScreen == Screen({"supervisors/activities/preliminar-ventas/:companyId/:slotIndex", "assistant/activities/preliminar-ventas/:companyId/:slotIndex"},
  {PreliminarHead, PreliminarFoot})
Pdt621ListScreen == Screen({"supervisors/activities/pdt-621", "assistant/activities/pdt-621"},
  {Pdt621Table, Pdt621ListFilters, RecepcionarDialog, SuspendButton})
Pdt601ListScreen == Screen({"supervisors/activities/pdt-601", "assistant/activities/pdt-601"},
  {Pdt601ListFilters, Pdt601Table, SuspendButton})
PdfReportDetailScreen == Screen({"supervisors/activities/informe-detracciones/:companyId", "supervisors/activities/siscont-balances/:companyId", "assistant/activities/informe-detracciones/:companyId", "assistant/activities/siscont-balances/:companyId"},
  {PdfReportReview, PdfReportFiles})
DetraccionesListScreen == Screen({"supervisors/activities/detracciones", "assistant/activities/detracciones"},
  {DetraccionesFilters, DetraccionesTable, SuspendButton})
PdfReportListScreen == Screen({"supervisors/activities/informe-detracciones", "supervisors/activities/siscont-balances", "assistant/activities/informe-detracciones", "assistant/activities/siscont-balances"},
  {PdfReportFilters, PdfReportTable, SuspendButton})
DetraccionesDetailScreen == Screen({"supervisors/activities/detracciones/:companyId", "assistant/activities/detracciones/:companyId"},
  {DetraccionesDetailHead, DetraccionesDetailFiles})
PreliminarVentasListScreen == Screen({"supervisors/activities/preliminar-ventas", "assistant/activities/preliminar-ventas"},
  {PreliminarFilters, PreliminarTable, SuspendButton})
AssignedCompaniesListScreen == Screen({"supervisors/companies", "assistant/companies"},
  {AssignedCompaniesTable})
SunatInboxDetailScreen == Screen({"supervisors/activities/sunat-inbox/:companyId", "assistant/activities/sunat-inbox/:companyId"},
  {SunatInboxDetailView})
InformeDeudasListScreen == Screen({"assistant/activities/informe-deudas"},
  {InformeDeudasTable})
AssistantDashboardScreen == Screen({"assistant/dashboard"},
  {AssistantSummary})
ActivityScreens == {
  Pdt601DetailScreen, Pdt621DetailScreen, SunatInboxListScreen,
  PreliminarVentasDetailScreen, Pdt621ListScreen, Pdt601ListScreen, PdfReportDetailScreen,
  DetraccionesListScreen, PdfReportListScreen, DetraccionesDetailScreen,
  PreliminarVentasListScreen, AssignedCompaniesListScreen, SunatInboxDetailScreen,
  InformeDeudasListScreen, AssistantDashboardScreen }
============================================================================
