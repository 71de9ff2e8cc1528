----------------------------- MODULE ScreensSupervision -----------------------------
(* The pages of the supervisors and of the assistant. *)
EXTENDS ScreensFinance

ControlDetailLoad == Read({Way(NoCode, {supervisorsService.getControl, supervisorsService.listDeclarations}),
     Way(AnyOf({"supervisors.attachments_upload", "supervisors.observations_view"}), {supervisorReviews.listAttachments}),
     Way(Code("supervisors.liquidations_view"), {supervisorsService.getLiquidation})})
ControlDetailUsers == Read(Asking(AnyOf({"supervisors.controls_update", "supervisors.declarations_update", "supervisors.liquidations_update"}) \cup Code("users.view"), {usersService.list}))
ControlDetailAudit == Read({Way(Code("supervisors.observations_view"), {supervisorReviews.listObservations}),
     Way(Code("supervisors.history_view"), {supervisorReviews.listHistory}),
     Way(AnyOf({"supervisors.attachments_upload", "supervisors.observations_view"}), {supervisorReviews.listAttachments})})
ControlSaveField == Write("captured", "none", Asking(Code("supervisors.controls_update"), {supervisorsService.updateControl}))
ControlAddObservation == Write("captured", "none", Asking(Code("supervisors.observations_create") \cup Code("supervisors.observations_view"), {supervisorReviews.createObservation}))
ControlUpload == Write("captured", "none", Asking(Code("supervisors.attachments_upload"), {supervisorReviews.uploadAttachment}))
ControlSaveLiquidation == Write("captured", "none", Asking(Code("supervisors.liquidations_update") \cup Code("supervisors.liquidations_view"), {supervisorReviews.updateLiquidation}))
ControlInfoReceived == Write("captured", "none", Asking(Code("supervisors.controls_update"), {supervisorsService.registerInfoReceived}))
ControlApproveLiquidation == Write("captured", "none", Asking(Code("supervisors.liquidations_approve"), {supervisorReviews.approveLiquidation}))
ControlObserveLiquidation == Write("captured", "none", Asking(Code("supervisors.liquidations_approve"), {supervisorReviews.observeLiquidation}))
BucketCompanies == Read(Calls({supervisorBoards.pdtBucketCompanies}))
SupDashPickers == Read({Way(Code("companies.view"), {companiesService.list}),
     Way(Code("users.view"), {usersService.list})})
SupDashLoad == Read(Calls({supervisorReviews.dashboard}))
SupDashOverview == Read(Calls({supervisorBoards.dashboardOverview}))
SupDashApprove == Write("captured", "busy", Asking(Code("supervisors.declarations_approve"), {supervisorsService.approveDeclaration}))
LiquidacionPlanilla == Read(Calls({pdt601Service.getPlanillaOnly}))
LiquidacionLoad == Read(Calls({supervisorTaxSettlementsService.get, companiesService.get}))
LiquidacionSave == Write("captured", "busy", {Way(Code("supervisors.liquidations_create"), {supervisorTaxSettlementsService.create}),
     Way(Code("supervisors.liquidations_update"), {supervisorTaxSettlementsService.update})})
LiquidacionResync == Write("none", "busy", Calls({pdt601Service.savePlanilla, pdt621Service.saveRecord}))
LiquidacionesFacets == Read(Calls({companyAccessCredentialsService.filterFacets}))
LiquidacionesList == Read(Calls({companyAccessCredentialsService.list, supervisorTaxSettlementsService.draftsByCompanies}))
NotificationsList == Read(Calls({supervisorReviews.listNotifications}))
NotificationRead == Write("none", "none", Calls({supervisorReviews.markNotificationRead}))
PeriodsList == Read(Calls({supervisorsService.listPeriods}))
PeriodCreate == Write("captured", "none", {Way(Code("supervisors.periods_create"), {supervisorsService.createPeriod}),
     Way(Code("supervisors.periods_create") \cup Code("supervisors.periods_bootstrap"), {supervisorsService.bootstrapPeriodControls})})
PeriodBootstrap == Write("captured", "row", Asking(Code("supervisors.periods_bootstrap"), {supervisorsService.bootstrapPeriodControls}))
PeriodClose == Write("captured", "none", Asking(Code("supervisors.periods_close"), {supervisorsService.closePeriod}))
PeriodDelete == Write("captured", "none", Asking(Code("supervisors.periods_delete"), {supervisorsService.deletePeriod}))
PeriodNotes == Write("captured", "row", Asking(Code("supervisors.periods_update"), {supervisorsService.updatePeriod}))
SupReportsLoad == Read(Calls({supervisorReviews.reportMonthly}))
SupReportsExcel == Read(Calls({supervisorReviews.reportMonthly}))
SupReportsPdf == Read(Calls({supervisorReviews.reportMonthly}))

ControlHead == View({ControlDetailLoad, ControlDetailUsers}, {
    Button(ControlInfoReceived), Button(ControlSaveField)})
ControlLiquidation == View({ControlDetailLoad}, {
    Button(ControlSaveLiquidation), Button(ControlApproveLiquidation),
    Button(ControlObserveLiquidation)})
ControlAudit == View({ControlDetailAudit}, {
    Button(ControlAddObservation), Button(ControlUpload)})
SupDashFilters == View({SupDashPickers}, {})
SupDashRail == View({SupDashLoad, SupDashOverview}, {
    BusyButton(SupDashApprove), Link("supervisors/activities/pdt-601/:companyId"),
    Link("supervisors/activities/pdt-621/:companyId"),
    Link("supervisors/activities/informe-detracciones/:companyId"),
    Link("supervisors/activities/siscont-balances/:companyId"),
    Link("supervisors/reports"), Link("supervisors/companies"),
    Link("supervisors/controls/:id")})
WorkspaceHead == View({AssistantWorkspaceLoad}, {
    GatedLink(Code("supervisors.dashboard_view"), "assistant/dashboard"),
    Link("assistant/companies")})
WorkspaceTasks == View({AssistantWorkspaceLoad}, {
    Link("supervisors/activities/pdt-601/:companyId"),
    Link("assistant/activities/pdt-601/:companyId"),
    Link("supervisors/activities/pdt-601"), Link("assistant/activities/pdt-601")})
WorkspaceRail == View({AssistantWorkspaceLoad}, {
    Link("supervisors/activities/pdt-601/:companyId"),
    Link("assistant/activities/pdt-601/:companyId")})
LiquidacionHead == View({LiquidacionLoad}, {
    Link("companies/:id/edit"), BusyButton(LiquidacionResync)})
LiquidacionEditForm == View({LiquidacionLoad, LiquidacionPlanilla}, {
    BusyButton(LiquidacionSave)})
SupReportsToolbar == View({SupReportsLoad}, {
    BusyButton(SupReportsExcel), BusyButton(SupReportsPdf)})
SupReportsTable == View({SupReportsLoad}, {
    Link("supervisors/controls/:id")})
LiquidacionesTable == View({LiquidacionesList, LiquidacionesFacets}, {
    GatedLink(Code("supervisors.liquidations_update"), "supervisors/liquidaciones/editar/:settlementId"),
    GatedLink(Code("supervisors.liquidations_view"), "supervisors/liquidaciones/ver/:settlementId"),
    GatedLink(Code("supervisors.liquidations_create"), "supervisors/liquidaciones/crear/:companyId")})
PeriodsTable == View({PeriodsList}, {
    Button(PeriodCreate), BusyButton(PeriodNotes), BusyButton(PeriodBootstrap),
    Button(PeriodClose), Button(PeriodDelete)})
BucketCompaniesModal == View({BucketCompanies}, {
    Link("supervisors/activities/pdt-601/:companyId"),
    Link("assistant/activities/pdt-601/:companyId")})
NotificationsView == View({NotificationsList}, {
    Button(NotificationRead), Link("supervisors/controls/:id"),
    Link("assistant/controls/:id")})

SupervisorControlDetailScreen == Screen({"supervisors/controls/:id", "assistant/controls/:id"},
  {ControlHead, ControlLiquidation, ControlAudit})
SupervisorDashboardScreen == Screen({"supervisors/dashboard"},
  {SupDashFilters, SupDashRail, BucketCompaniesModal, IndicatorsPanel})
AssistantWorkspaceScreen == Screen({"assistant"},
  {WorkspaceHead, WorkspaceTasks, WorkspaceRail})
SupervisorLiquidacionCreateScreen == Screen({"supervisors/liquidaciones/crear/:companyId", "supervisors/liquidaciones/editar/:settlementId", "supervisors/liquidaciones/ver/:settlementId"},
  {LiquidacionHead, LiquidacionEditForm})
SupervisorReportsScreen == Screen({"supervisors/reports"},
  {SupReportsToolbar, SupReportsTable})
SupervisorLiquidacionesListScreen == Screen({"supervisors/liquidaciones"},
  {LiquidacionesTable})
SupervisorPeriodsScreen == Screen({"supervisors/periods"},
  {PeriodsTable})
SupervisorNotificationsScreen == Screen({"supervisors/notifications", "assistant/notifications"},
  {NotificationsView})
SupervisionScreens == {
  SupervisorControlDetailScreen, SupervisorDashboardScreen, AssistantWorkspaceScreen,
  SupervisorLiquidacionCreateScreen, SupervisorReportsScreen,
  SupervisorLiquidacionesListScreen, SupervisorPeriodsScreen, SupervisorNotificationsScreen }
============================================================================
