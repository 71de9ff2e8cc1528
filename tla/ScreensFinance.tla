------------------------------- MODULE ScreensFinance -------------------------------
(* The pages of the finance calendar, the activity templates, the SOL keys and the due dates. *)
EXTENDS ScreensActivity

SunatAccess == Read(Calls({companyAccessCredentialsService.sunatAccess}))
TemplateFormLoad == Read(Calls({activityTemplatesService.previewNextCode, activityTemplatesService.get}))
TemplateFormSave == Write("captured", "busy", {Way(Code("finance.calendar_manage"), {activityTemplatesService.update}),
     Way(Code("finance.calendar_manage"), {activityTemplatesService.create})})
TemplatesList == Read(Calls({activityTemplatesService.list}))
TemplateToggle == Write("captured", "row", Asking(Code("finance.calendar_manage"), {activityTemplatesService.setActive}))
TemplateDelete == Write("captured", "busy", Asking(Code("finance.calendar_manage"), {activityTemplatesService.remove}))
CredentialsFacets == Read(Calls({companyAccessCredentialsService.filterFacets}))
CredentialsList == Read(Calls({companyAccessCredentialsService.list}))
CredentialsSave == Write("captured", "busy", Asking(Code("finance.company_credentials_manage"), {companyAccessCredentialsService.update}))
CredentialsTemplate == Read(Asking(Code("finance.company_credentials_import"), {companyAccessCredentialsService.downloadImportTemplate}))
CredentialsValidate == Read(Asking(Code("finance.company_credentials_import"), {companyAccessCredentialsService.importValidate}))
CredentialsImport == Write("captured", "busy", Asking(Code("finance.company_credentials_import"), {companyAccessCredentialsService.importCommit}))
CalendarLoad == Read(Calls({financeCalendarService.get}))
CalendarMoveActivity == Write("captured", "none", Asking(Code("finance.calendar_manage"), {financeCalendarService.updateActivity}))
CalendarMetrics == Read(NoCalls)
CalendarCompliance == Read(Calls({financeCalendarService.compliance}))
CalendarSaveActivity == Write("captured", "busy", {Way(Code("finance.calendar_manage"), {financeCalendarService.updateActivity}),
     Way(Code("finance.calendar_manage"), {financeCalendarService.addActivity})})
CalendarPdf == Read(NoCalls)
CalendarClose == Write("captured", "busy", Asking(Code("finance.calendar_manage"), {financeCalendarService.close}))
CalendarReopen == Write("captured", "busy", Asking(Code("finance.calendar_manage"), {financeCalendarService.reopen}))
CalendarNotes == Write("captured", "none", Asking(Code("finance.calendar_manage"), {financeCalendarService.updateNotes}))
CalendarCreate == Write("captured", "busy", Asking(Code("finance.calendar_manage"), {financeCalendarService.create}))
CalendarDuplicate == Write("captured", "busy", Asking(Code("finance.calendar_manage"), {financeCalendarService.duplicate}))
CalendarRemove == Write("captured", "busy", Asking(Code("finance.calendar_manage"), {financeCalendarService.remove}))
CalendarRemoveActivity == Write("captured", "busy", Asking(Code("finance.calendar_manage"), {financeCalendarService.removeActivity}))
DueDatesLoad == Read(Calls({sunatDueDatesService.list}))
DueDatesSave == Write("live", "busy", Asking(Code("finance.sunat_due_dates_manage"), {sunatDueDatesService.update}))
CalendarTemplates == Read(Calls({activityTemplatesService.list}))

CredentialsFilters == View({CredentialsFacets}, {
    Button(CredentialsImport)})
CredentialsTable == View({CredentialsList}, {
    Button(SunatAccess)})
CredentialsRowEdit == View({CredentialsList}, {
    Button(CredentialsSave)})
CredentialsEditFoot == View({CredentialsList}, {
    BusyButton(CredentialsSave)})
CredentialsImportModal == View({CredentialsValidate}, {
    Button(CredentialsTemplate), BusyButton(CredentialsValidate),
    BusyButton(CredentialsImport)})
CalendarBoard == View({CalendarLoad, CalendarMetrics}, {
    Button(CalendarDuplicate), Button(CalendarNotes), Button(CalendarPdf),
    Button(CalendarReopen), Button(CalendarSaveActivity), Button(CalendarMoveActivity)})
CalendarPanels == View({CalendarLoad, CalendarCompliance}, {
    Button(CalendarSaveActivity), Button(CalendarRemoveActivity), Button(CalendarCreate),
    Button(CalendarDuplicate)})
CalendarDialogs == View({CalendarLoad}, {
    BusyButton(CalendarClose), BusyButton(CalendarRemove),
    BusyButton(CalendarRemoveActivity)})
TemplateFormHead == View({TemplateFormLoad}, {
    Link("finance/activity-templates")})
TemplateFormFoot == View({TemplateFormLoad}, {
    BusyButton(TemplateFormSave), Link("finance/activity-templates")})
TemplatesFilters == View({TemplatesList}, {
    GatedLink(Code("finance.calendar_manage"), "finance/activity-templates/new")})
TemplatesTable == View({TemplatesList}, {
    GatedLink(Code("finance.calendar_manage"), "finance/activity-templates/:id/edit"),
    BusyButton(TemplateToggle), BusyButton(TemplateDelete), Link("finance/calendar")})
ActivityModalTemplates == View({CalendarTemplates}, {
    Button(CalendarSaveActivity)})
DayPanel == View({CalendarLoad, CalendarCompliance}, {
    Button(CalendarCompliance), Button(CalendarSaveActivity),
    Button(CalendarRemoveActivity), Link("supervisors/controls/:id")})
CalendarToolbar == View({CalendarLoad}, {
    BusyButton(CalendarPdf), Button(CalendarSaveActivity), Button(CalendarCreate),
    Button(CalendarClose), Button(CalendarReopen), Button(CalendarDuplicate),
    Button(CalendarNotes), Button(CalendarRemove)})
CalendarGridView == View({CalendarLoad}, {
    Button(CalendarMoveActivity), Button(CalendarCompliance), Button(CalendarSaveActivity)})
ActivityInfo == View({CalendarCompliance}, {
    Button(CalendarRemoveActivity), Button(CalendarSaveActivity),
    Link("supervisors/controls/:id")})
SunatAccessView == View({SunatAccess}, {
    Button(SunatAccess)})
DueDatesTable == View({DueDatesLoad}, {
    BusyButton(DueDatesSave)})

CompanyAccessCredentialsScreen == Screen({"finance/claves-sol"},
  {CredentialsFilters, CredentialsTable, CredentialsRowEdit, CredentialsEditFoot,
    CredentialsImportModal, SunatAccessView})
FinanceCalendarScreen == Screen({"finance/calendar"},
  {CalendarBoard, CalendarPanels, CalendarDialogs, ActivityModalTemplates, DayPanel,
    CalendarToolbar, CalendarGridView, ActivityInfo})
ActivityTemplateFormScreen == Screen({"finance/activity-templates/new", "finance/activity-templates/:id/edit"},
  {TemplateFormHead, TemplateFormFoot})
ActivityTemplatesScreen == Screen({"finance/activity-templates"},
  {TemplatesFilters, TemplatesTable})
SunatDueDatesCalendarScreen == Screen({"finance/sunat-due-dates"},
  {DueDatesTable})
FinanceScreens == {
  CompanyAccessCredentialsScreen, FinanceCalendarScreen, ActivityTemplateFormScreen,
  ActivityTemplatesScreen, SunatDueDatesCalendarScreen }
============================================================================
