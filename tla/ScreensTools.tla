-------------------------------- MODULE ScreensTools --------------------------------
(* The pages of the tools: SIRE downloads, the SUNAT mailbox and the fee receipts. *)
EXTENDS ScreensLedger

BuzonCompaniesLoad == Read(Calls({companyAccessCredentialsService.list, sunatBuzonService.summary}))
BuzonCompanyOf == Read(Calls({companyAccessCredentialsService.get}))
BuzonLoad == Read(Calls({sunatBuzonService.get}))
BuzonSync == Write("none", "busy", Calls({sunatBuzonService.sync}))
BuzonMarkSeen == Write("none", "none", Calls({sunatBuzonService.markSeen}))
RhCompanyOf == Read(Calls({companyAccessCredentialsService.get}))
RhRun == Read(Calls({rheService.list}))
SireCompaniesList == Read(Calls({companyAccessCredentialsService.list}))
SireCompanyOf == Read(Calls({companyAccessCredentialsService.get}))
SirePeriods == Read(Calls({sireService.periods}))
SireHistory == Read(Calls({sireService.downloads}))
SireStart == Write("none", "busy", Calls({sireService.startDownloads}))
SireDownload == Read(Calls({sireService.downloadBlob}))
SireRemove == Write("none", "none", Calls({sireService.removeDownload}))
SireClear == Write("none", "none", Calls({sireService.clearDownloads}))
SireMerge == Read(Calls({sireService.downloadBlob}))
SireTest == Read(Calls({sireService.test}))
SireCredentialsSave == Write("none", "busy", Asking(Code("finance.company_credentials_sire_edit"), {sireService.saveCredentials}))

RhFilters == View({RhCompanyOf}, {
    Button(RhRun), Link("tools/rh"), Link("finance/claves-sol")})
RhTable == View({RhRun}, {})
BuzonHead == View({BuzonLoad, BuzonCompanyOf}, {
    BusyButton(BuzonSync), Button(BuzonMarkSeen), Link("finance/claves-sol"),
    Link("tools/notificaciones-sunat")})
SireRow == View({SireHistory}, {
    Button(SireDownload), Button(SireStart), Button(SireRemove)})
SireHead == View({SireCompanyOf, SirePeriods}, {
    Button(SireTest),
    GatedButton(Code("finance.company_credentials_sire_edit"), SireCredentialsSave),
    Link("finance/claves-sol"), Link("tools/sire")})
SireFoot == View({SirePeriods, SireHistory}, {
    BusyButton(SireStart), BusyButton(SireMerge), Button(SireClear), Button(SireDownload),
    Button(SireRemove)})
SireCompaniesTable == View({SireCompaniesList}, {
    Link("tools/sire/:companyId"),
    GatedButton(Code("finance.company_credentials_sire_edit"), SireCredentialsSave)})
BuzonCompaniesTable == View({BuzonCompaniesLoad}, {
    Link("tools/notificaciones-sunat/:companyId")})
SireCredentialsForm == View({}, {
    BusyButton(SireCredentialsSave)})

RhCompanyScreen == Screen({"tools/rh/:companyId"},
  {RhFilters, RhTable})
BuzonCompanyScreen == Screen({"tools/notificaciones-sunat/:companyId"},
  {BuzonHead})
SireCompanyScreen == Screen({"tools/sire/:companyId"},
  {SireRow, SireHead, SireFoot, SireCredentialsForm})
SireCompaniesScreen == Screen({"tools/sire", "tools/rh"},
  {SireCompaniesTable, SireCredentialsForm})
BuzonCompaniesScreen == Screen({"tools/notificaciones-sunat"},
  {BuzonCompaniesTable})
ToolsScreens == {
  RhCompanyScreen, BuzonCompanyScreen, SireCompanyScreen, SireCompaniesScreen,
  BuzonCompaniesScreen }
============================================================================
