------------------------------- MODULE ScreensOffice -------------------------------
(* The pages of the office: companies, contacts, users, roles, products, plans, series, settings,
   reports, the home page and the layout around every page. *)
EXTENDS WebScreens

ProductPickerLoad == Read({Way(Code("sales.catalog_pick"), {posSalesService.searchProducts}),
     Way(NoCode, {productsService.listPaged})})
TodayReminder == Read(Asking(Code("finance.calendar_view"), {financeCalendarService.get}))
HomeRailLoad == Read({Way(Code("supervisors.reports_view") \cup Code("supervisors.dashboard_view"), {supervisorBoards.dashboardOverview}),
     Way(Code("supervisors.controls_view"), {supervisorBoards.assistantOverview}),
     Way(Code("supervisors.notifications_view"), {supervisorReviews.listNotifications})})
RolesList == Read(Calls({rolesService.list, rolesService.catalog}))
RolePermissionsLoad == Read(Calls({rolesService.get}))
RolePermissionsSave == Write("live", "busy", Asking(Code("rbac.roles_manage"), {rolesService.replacePermissions}))
RoleCreate == Write("live", "busy", Asking(Code("rbac.roles_manage"), {rolesService.create}))
RoleUpdate == Write("live", "busy", Asking(Code("rbac.roles_manage"), {rolesService.update}))
RoleSetDefault == Write("live", "row", Asking(Code("rbac.roles_manage"), {rolesService.setDefault}))
RoleClone == Write("live", "busy", Asking(Code("rbac.roles_manage"), {rolesService.clone}))
RoleDelete == Write("live", "busy", Asking(Code("rbac.roles_manage"), {rolesService.remove}))
HeaderCompanies == Read(Asking(Code("companies.view"), {companiesService.search}))
HeaderNotificationsLoad == Read({Way(Code("supervisors.notifications_view"), {supervisorReviews.listNotifications}),
     Way(Code("dashboard.view"), {dashboardCall})})
CompaniesSetStatus == Write("captured", "row", Asking(AnyOf({"companies.create", "companies.update"}), {companiesService.patchStatus}))
CompaniesList == Read(Calls({companiesService.listPaged}))
CompaniesTeam == Read({Way(NoCode, {companiesService.get}),
     Way(Code("access.studio"), {usersService.list})})
CompaniesSaveTeam == Write("captured", "busy", Asking(Code("access.studio"), {companiesService.update}))
CompaniesDelete == Write("captured", "none", Asking(Code("companies.delete"), {companiesService.delete}))
CompaniesImportTemplate == Read(Asking(AnyOf({"companies.create", "companies.update"}), {companiesService.downloadImportTemplate}))
CompaniesImportValidate == Read(Asking(AnyOf({"companies.create", "companies.update"}), {companiesService.importCompaniesValidate}))
CompaniesImportCommit == Write("captured", "busy", Asking(AnyOf({"companies.create", "companies.update"}), {companiesService.importCompaniesCommit}))
ContactFormLoad == Read(Calls({companiesService.get, contactsService.get}))
ContactFormSave == Write("none", "none", {Way(NoCode, {contactsService.update}),
     Way(NoCode, {contactsService.create})})
ContactsLoad == Read(Calls({companiesService.get, contactsService.listByCompany}))
ContactsDelete == Write("none", "none", Calls({contactsService.delete}))
CompanyFormLoad == Read({Way(NoCode, {companiesService.get, contactsService.listByCompany}),
     Way(Code("access.studio"), {usersService.list})})
CompanyFormLookup == Read(Calls({companiesService.validateRuc}))
CompanyFormAddContact == Write("none", "busy", Calls({contactsService.create}))
CompanyFormDeleteContact == Write("none", "busy", Calls({contactsService.delete}))
CompanyFormSave == Write("captured", "none", {Way(AnyOf({"companies.create", "companies.update"}), {companiesService.convertToStudio}),
     Way(AnyOf({"companies.create", "companies.update"}), {companiesService.update}),
     Way(AnyOf({"companies.create", "companies.update"}), {companiesService.create}),
     Way(AnyOf({"companies.create", "companies.update"}), {contactsService.create})})
CompanyFormReactivate == Write("captured", "busy", {Way(AnyOf({"companies.create", "companies.update"}), {companiesService.reactivate}),
     Way(AnyOf({"companies.create", "companies.update"}), {contactsService.create})})
DashboardLoad == Read(Calls({dashboardCall}))
ExternalClientsList == Read(Calls({companiesService.listPaged}))
SeriesList == Read(Calls({fiscalDocumentSeriesService.list}))
SeriesSave == Write("live", "busy", {Way(Code("fiscal.series_manage"), {fiscalDocumentSeriesService.update}),
     Way(Code("fiscal.series_manage"), {fiscalDocumentSeriesService.create})})
SeriesToggle == Write("live", "none", Asking(Code("fiscal.series_manage"), {fiscalDocumentSeriesService.update}))
PlanCategoriesList == Read(Calls({planCategoriesService.list}))
PlanCategoryLoad == Read(Calls({planCategoriesService.get}))
PlanCategorySave == Write("captured", "none", {Way(AnyOf({"plan_categories.create", "plan_categories.update"}), {planCategoriesService.update}),
     Way(AnyOf({"plan_categories.create", "plan_categories.update"}), {planCategoriesService.create})})
ProductFormCategories == Read(Calls({productCategoriesService.list}))
ProductFormLoad == Read(Calls({productsService.get}))
ProductFormCategory == Write("captured", "busy", Calls({productCategoriesService.create}))
ProductFormSave == Write("captured", "none", {Way(AnyOf({"products.create", "products.update"}), {productsService.update}),
     Way(AnyOf({"products.create", "products.update"}), {productsService.create})})
ProductsList == Read(Calls({productsService.listPaged}))
ProductsDelete == Write("captured", "none", Asking(Code("products.delete"), {productsService.remove}))
ReportsLoad == Read(Calls({reportsService.getFinancialReport}))
ReportsCompanies == Read(Calls({companiesService.list}))
ReportsExcel == Read(NoCalls)
ReportsPdf == Read(NoCalls)
SettingsLoad == Read(Calls({configService.getFirmConfig}))
SettingsSave == Write("captured", "busy", Asking(Code("settings.firm_update"), {configService.updateFirmConfig}))
SettingsLogo == Write("captured", "busy", Asking(Code("settings.firm_update"), {configService.uploadFirmLogo}))
SettingsStatementImages == Write("captured", "busy", {Way(Code("settings.firm_update"), {configService.uploadStatementBankLogo}),
     Way(Code("settings.firm_update"), {configService.uploadStatementPaymentQr}),
     Way(Code("settings.firm_update"), {configService.uploadStatementBankLogoFactura}),
     Way(Code("settings.firm_update"), {configService.uploadStatementPaymentQrFactura})})
PlanFormLoad == Read(Calls({planCategoriesService.list, subscriptionPlansService.get}))
PlanFormSave == Write("captured", "none", {Way(AnyOf({"subscription_plans.create", "subscription_plans.update"}), {subscriptionPlansService.update}),
     Way(AnyOf({"subscription_plans.create", "subscription_plans.update"}), {subscriptionPlansService.replaceTiers}),
     Way(AnyOf({"subscription_plans.create", "subscription_plans.update"}), {subscriptionPlansService.create})})
PlansList == Read(Calls({subscriptionPlansService.list}))
PlansRunLiquidation == Write("captured", "none", Asking(Code("liquidation.run"), {subscriptionPlansService.runLiquidation}))
UserFormLoad == Read(Calls({rolesService.list, usersService.get, rolesService.getDefault}))
UserFormSave == Write("captured", "busy", {Way(AnyOf({"users.create", "users.update"}), {usersService.update}),
     Way(AnyOf({"users.create", "users.update"}), {usersService.create})})
UsersList == Read(Calls({usersService.list}))
UsersDelete == Write("captured", "none", Asking(Code("users.delete"), {usersService.delete}))
ActivityRulesList == Read(Calls({activityRulesService.list}))
ActivityRulesTemplates == Read(Calls({activityConfigurationService.listTemplates}))
ActivityRuleSave == Write("captured", "busy", {Way(Code("settings.firm_update"), {activityRulesService.update}),
     Way(Code("settings.firm_update"), {activityRulesService.create})})
ActivityRuleDeactivate == Write("captured", "none", Asking(Code("settings.firm_update"), {activityRulesService.update}))
ActivityRuleAudits == Read(Calls({activityRulesService.listAudits}))
ActivityTemplateRule == Write("captured", "row", Asking(Code("settings.firm_update"), {activityConfigurationService.setTemplateRule}))

CompanyFormHead == View({CompanyFormLoad}, {
    Button(CompanyFormReactivate),
    GatedButton(AnyOf({"companies.create", "companies.update"}), CompanyFormLookup)})
CompanyFormContacts == View({CompanyFormLoad}, {
    Link("companies/:companyID/contacts"), BusyButton(CompanyFormAddContact)})
CompanyFormFoot == View({CompanyFormLoad}, {
    Link("companies/:companyID/contacts/:id/edit"), BusyButton(CompanyFormDeleteContact),
    Button(CompanyFormSave)})
CompaniesToolbar == View({CompaniesList}, {
    Button(CompaniesImportCommit),
    GatedLink(AnyOf({"companies.create", "companies.update"}), "companies/new")})
CompaniesTable == View({CompaniesList}, {
    BusyButton(CompaniesSetStatus), Button(CompaniesTeam), Link("companies/:id/statement"),
    Link("documents/new"), Link("companies/:companyID/contacts"),
    GatedLink(AnyOf({"companies.create", "companies.update"}), "companies/:id/edit"),
    Button(CompaniesDelete)})
CompaniesImportModal == View({CompaniesImportValidate}, {
    Button(CompaniesImportTemplate), BusyButton(CompaniesImportValidate),
    BusyButton(CompaniesImportCommit)})
CompaniesTeamModal == View({CompaniesTeam}, {
    BusyButton(CompaniesSaveTeam)})
SettingsFirm == View({SettingsLoad}, {
    BusyButton(SettingsLogo)})
SettingsStatement == View({SettingsLoad}, {
    BusyButton(SettingsStatementImages)})
SettingsFactura == View({SettingsLoad}, {
    BusyButton(SettingsStatementImages)})
SettingsFoot == View({SettingsLoad}, {
    BusyButton(SettingsSave)})
RolesPanel == View({RolesList}, {
    Button(RoleCreate), BusyButton(RoleSetDefault), Button(RoleClone), Button(RoleUpdate),
    Button(RoleDelete)})
RolePermissionsPanel == View({RolePermissionsLoad}, {
    BusyButton(RolePermissionsSave)})
RolesDialogs == View({RolesList, RolePermissionsLoad}, {
    BusyButton(RolePermissionsSave), BusyButton(RoleCreate), BusyButton(RoleUpdate),
    BusyButton(RoleClone), Button(RoleDelete)})
DashboardTotals == View({DashboardLoad}, {
    GatedLink(Code("payments.create"), "payments/new"),
    GatedLink(Code("documents.create"), "documents/new"),
    GatedLink(Code("reports.financial_view"), "reports/financial")})
DashboardDebtors == View({DashboardLoad}, {
    Link("companies/:id/statement"), GatedLink(Code("payments.create"), "payments/new"),
    Link("companies"), GatedLink(Code("reports.financial_view"), "reports/financial")})
ProductFormHead == View({ProductFormLoad}, {
    Link("products")})
ProductFormFoot == View({ProductFormCategories}, {
    BusyButton(ProductFormCategory), Button(ProductFormSave)})
SeriesTable == View({SeriesList}, {
    Button(SeriesSave), Button(SeriesToggle)})
SeriesModal == View({SeriesList}, {
    BusyButton(SeriesSave)})
ActivityRulesTable == View({ActivityRulesList, ActivityRuleAudits}, {
    Button(ActivityRuleSave), Button(ActivityRuleAudits), Button(ActivityRuleDeactivate)})
ActivityRulesOfTemplates == View({ActivityRulesTemplates}, {
    BusyButton(ActivityTemplateRule), BusyButton(ActivityRuleSave)})
ReportsFilters == View({ReportsCompanies}, {
    BusyButton(ReportsExcel), BusyButton(ReportsPdf)})
ReportsTable == View({ReportsLoad}, {
    Link("companies/:id/statement")})
ProductsFilters == View({ProductsList}, {
    GatedLink(AnyOf({"products.create", "products.update"}), "products/new")})
ProductsTable == View({ProductsList}, {
    GatedLink(AnyOf({"products.create", "products.update"}), "products/:id/edit"),
    Button(ProductsDelete)})
HeaderSearch == View({HeaderCompanies}, {
    Link("companies/:id/statement")})
HeaderNotifications == View({HeaderNotificationsLoad}, {
    BusyButton(HeaderNotificationsLoad),
    GatedLink(Code("supervisors.notifications_view"), "supervisors/notifications"),
    GatedLink(Code("supervisors.notifications_view"), "supervisors/controls/:id"),
    Link("reports/financial"), Link("companies/:id/statement"), Link("documents")})
UserFormView == View({UserFormLoad}, {
    BusyButton(UserFormSave), Link("users")})
PlanFormTiers == View({PlanFormLoad}, {
    Button(PlanFormSave), Link("subscription-plans")})
UsersTable == View({UsersList}, {
    GatedLink(Code("users.create"), "users/new"),
    GatedLink(Code("users.update"), "users/:id/edit"), Button(UsersDelete)})
ContactFormView == View({ContactFormLoad}, {
    Button(ContactFormSave), Link("companies/:companyID/contacts"), Link("companies")})
ContactsTable == View({ContactsLoad}, {
    Link("companies"), Link("companies/:companyID/contacts/new"),
    Link("companies/:companyID/contacts/:id/edit"), Button(ContactsDelete)})
PlansTable == View({PlansList}, {
    Button(PlansRunLiquidation),
    GatedLink(AnyOf({"subscription_plans.create", "subscription_plans.update"}), "subscription-plans/new"),
    GatedLink(AnyOf({"subscription_plans.create", "subscription_plans.update"}), "subscription-plans/:id/edit"),
    Link("plan-categories")})
PlanCategoriesTable == View({PlanCategoriesList}, {
    GatedLink(AnyOf({"plan_categories.create", "plan_categories.update"}), "plan-categories/new"),
    GatedLink(AnyOf({"plan_categories.create", "plan_categories.update"}), "plan-categories/:id/edit"),
    Link("subscription-plans")})
PlanCategoryFormView == View({PlanCategoryLoad}, {
    Button(PlanCategorySave), Link("plan-categories")})
ExternalClientsTable == View({ExternalClientsList}, {
    Link("pos"), GatedLink(Code("companies.convert_to_studio"), "companies/:id/edit")})
HomeRailCards == View({HomeRailLoad}, {
    GatedLink(Code("supervisors.reports_view") \cup Code("supervisors.dashboard_view"), "supervisors/dashboard"),
    GatedLink(Code("supervisors.controls_view"), "assistant"),
    GatedLink(Code("supervisors.reports_view") \cup Code("supervisors.dashboard_view"), "supervisors/activities/pdt-601/:companyId"),
    GatedLink(Code("supervisors.controls_view"), "assistant/activities/pdt-601/:companyId")})
HomeRailNews == View({HomeRailLoad}, {
    GatedLink(Code("supervisors.notifications_view") \cup Code("supervisors.reports_view") \cup Code("supervisors.dashboard_view"), "supervisors/notifications"),
    GatedLink(Code("supervisors.notifications_view"), "assistant/notifications")})
TodayCard == View({TodayReminder}, {
    Link("finance/calendar")})

CompanyFormScreen == Screen({"companies/new", "companies/:id/edit"},
  {CompanyFormHead, CompanyFormContacts, CompanyFormFoot})
CompaniesScreen == Screen({"companies"},
  {CompaniesToolbar, CompaniesTable, CompaniesImportModal, CompaniesTeamModal})
SettingsScreen == Screen({"settings/firm"},
  {SettingsFirm, SettingsStatement, SettingsFactura, SettingsFoot})
RolesScreen == Screen({"users/roles"},
  {RolesPanel, RolePermissionsPanel, RolesDialogs})
DashboardScreen == Screen({"dashboard"},
  {DashboardTotals, DashboardDebtors})
ProductFormScreen == Screen({"products/new", "products/:id/edit"},
  {ProductFormHead, ProductFormFoot})
FiscalDocumentSeriesScreen == Screen({"settings/fiscal-series"},
  {SeriesTable, SeriesModal})
ActivityConfigurationSettingsScreen == Screen({"settings/activity-configuration"},
  {ActivityRulesTable, ActivityRulesOfTemplates})
ReportsScreen == Screen({"reports/financial"},
  {ReportsFilters, ReportsTable})
ProductsScreen == Screen({"products"},
  {ProductsFilters, ProductsTable})
LayoutScreen == Screen(AnyPage,
  {HeaderSearch, HeaderNotifications, TodayCard})
UserFormScreen == Screen({"users/new", "users/:id/edit"},
  {UserFormView})
SubscriptionPlanFormScreen == Screen({"subscription-plans/new", "subscription-plans/:id/edit"},
  {PlanFormTiers})
UsersScreen == Screen({"users"},
  {UsersTable})
CompanyContactFormScreen == Screen({"companies/:companyID/contacts/new", "companies/:companyID/contacts/:id/edit"},
  {ContactFormView})
CompanyContactsScreen == Screen({"companies/:companyID/contacts"},
  {ContactsTable})
SubscriptionPlansListScreen == Screen({"subscription-plans"},
  {PlansTable})
PlanCategoriesScreen == Screen({"plan-categories"},
  {PlanCategoriesTable})
PlanCategoryFormScreen == Screen({"plan-categories/new", "plan-categories/:id/edit"},
  {PlanCategoryFormView})
ExternalClientsScreen == Screen({"companies/external"},
  {ExternalClientsTable})
HomeScreen == Screen({"/"},
  {HomeRailCards, HomeRailNews})
OfficeScreens == {
  CompanyFormScreen, CompaniesScreen, SettingsScreen, RolesScreen, DashboardScreen,
  ProductFormScreen, FiscalDocumentSeriesScreen, ActivityConfigurationSettingsScreen,
  ReportsScreen, ProductsScreen, LayoutScreen, UserFormScreen, SubscriptionPlanFormScreen,
  UsersScreen, CompanyContactFormScreen, CompanyContactsScreen,
  SubscriptionPlansListScreen, PlanCategoriesScreen, PlanCategoryFormScreen,
  ExternalClientsScreen, HomeScreen }
============================================================================
