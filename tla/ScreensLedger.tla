------------------------------- MODULE ScreensLedger -------------------------------
(* The pages of the ledger: debts, payments, settlements, receipts, the point of sale and the
   statement of a company. *)
EXTENDS ScreensSupervision

ReceiptPaymentLoad == Read(Calls({documentsService.list, taxSettlementsService.listPaged}))
ReceiptPaymentSave == Write("none", "busy", {Way(Code("fiscal.receipts_create_payment"), {paymentsService.uploadAttachment}),
     Way(Code("fiscal.receipts_create_payment"), {fiscalReceiptsService.createPayment})})
ReceiptViewerDetail == Read(Calls({fiscalReceiptsService.getDetail, configService.getFirmBranding}))
ReceiptViewerPreview == Read(NoCalls)
QuickClientLookup == Read(Calls({posSalesService.validateRuc, posSalesService.validateDni}))
QuickClientSave == Write("none", "busy", Asking(Code("sales.companies_pick"), {posSalesService.createQuickCompany}))
ReceiptPreview == Read(NoCalls)
StatementBranding == Read(Calls({configService.getFirmBranding}))
StatementLoad == Read(Calls({companiesService.getStatement}))
StatementPdf == Read(Calls({companiesService.getStatement}))
ComprobantesCompanies == Read(Calls({companiesService.list}))
ComprobantesList == Read(Calls({fiscalReceiptsService.listPaged}))
ComprobantesDiscard == Write("live", "none", Asking(Code("fiscal.receipts_discard"), {fiscalReceiptsService.discard}))
ComprobantesSettlements == Read(Calls({taxSettlementsService.listPaged}))
ComprobantesLink == Write("live", "busy", Asking(Code("fiscal.receipts_patch_tax_settlement"), {fiscalReceiptsService.patchTaxSettlement}))
DocumentFormLoad == Read(Calls({companiesService.list, documentsService.get}))
DocumentFormSave == Write("captured", "busy", {Way(AnyOf({"documents.create", "documents.update"}), {documentsService.update}),
     Way(AnyOf({"documents.create", "documents.update"}), {documentsService.create})})
DocumentsItems == Read(Calls({documentsService.get}))
DocumentsDetail == Read(Calls({documentsService.get}))
DocumentsOfCompany == Read(Calls({documentsService.listPaged}))
DocumentsList == Read(Calls({documentsService.listPaged}))
DocumentsDelete == Write("captured", "busy", Asking(Code("documents.delete"), {documentsService.delete}))
DocumentsPayOpen == Read(Calls({documentsService.get}))
DocumentsPay == Write("captured", "busy", {Way(Code("payments.create"), {paymentsService.create}),
     Way(Code("payments.create") \cup AnyOf({"payments.issue_comprobante", "payments.issue_tukifac"}), {paymentsService.issueComprobanteFromPayment})})
PaymentFormUpload == Write("captured", "busy", Asking(AnyOf({"payments.create", "payments.update"}), {paymentsService.uploadAttachment}))
PaymentFormBranding == Read(Calls({configService.getFirmBranding}))
PaymentFormLoad == Read(Calls({companiesService.list, paymentsService.get}))
PaymentFormDocuments == Read(Calls({documentsService.list}))
PaymentFormSettlement == Read(Calls({taxSettlementsService.get, taxSettlementsService.paymentSuggestions}))
PaymentFormSeries == Read(Asking(AnyOf({"payments.issue_comprobante", "payments.issue_tukifac"}), {fiscalDocumentSeriesService.list}))
PaymentFormSave == Write("captured", "busy", {Way(Code("payments.create"), {paymentsService.create}),
     Way(Code("payments.update"), {paymentsService.update}),
     Way(Code("payments.create") \cup AnyOf({"payments.issue_comprobante", "payments.issue_tukifac"}), {paymentsService.issueComprobanteFromPayment})})
PaymentsCompanies == Read(Calls({companiesService.list}))
PaymentsList == Read(Calls({paymentsService.listPaged}))
PaymentsDelete == Write("captured", "busy", Asking(Code("payments.delete"), {paymentsService.delete}))
PaymentsVoidedCompanies == Read(Calls({companiesService.list}))
PaymentsVoidedList == Read(Calls({paymentsService.listVoided}))
SettlementDetailLoad == Read(Calls({taxSettlementsService.get}))
SettlementDetailDebts == Read(Calls({taxSettlementsService.debtsContext}))
SettlementDetailLinkDebt == Write("captured", "row", Asking(Code("tax_settlements.update"), {taxSettlementsService.linkDebt}))
SettlementDetailWriteOff == Write("captured", "busy", Asking(Code("tax_settlements.update"), {taxSettlementsService.writeOffDebt}))
SettlementDetailClose == Write("captured", "busy", Asking(Code("tax_settlements.update"), {taxSettlementsService.close}))
SettlementDetailPaymentDocType == Write("captured", "busy", Asking(Code("tax_settlements.update"), {taxSettlementsService.updatePaymentDocumentType}))
SettlementDetailEmit == Write("captured", "busy", Asking(Code("tax_settlements.emit"), {taxSettlementsService.emit}))
SettlementDetailPdf == Read(Calls({taxSettlementsService.get}))
SettlementDetailDelete == Write("captured", "busy", Asking(Code("tax_settlements.delete"), {taxSettlementsService.delete}))
SettlementDetailRevert == Write("captured", "busy", Asking(Code("tax_settlements.update"), {taxSettlementsService.revertToDraft}))
SettlementNewCompanies == Read(Calls({companiesService.list}))
SettlementNewLoadDraft == Read(Calls({taxSettlementsService.get}))
SettlementNewPreview == Read(Calls({taxSettlementsService.preview, taxSettlementsService.pendingFromClosed}))
SettlementNewSave == Write("captured", "busy", {Way(Code("tax_settlements.create"), {taxSettlementsService.create}),
     Way(Code("tax_settlements.update"), {taxSettlementsService.update, taxSettlementsService.updatePaymentDocumentType})})
SettlementsList == Read(Calls({taxSettlementsService.listPaged}))
SettlementsDelete == Write("live", "busy", Asking(Code("tax_settlements.delete"), {taxSettlementsService.delete}))
SettlementsClose == Write("live", "busy", Asking(Code("tax_settlements.update"), {taxSettlementsService.close}))
SettlementsEdit == Write("live", "busy", Asking(Code("tax_settlements.update"), {taxSettlementsService.revertToDraft}))
PosHistoryList == Read(Calls({posSalesService.listHistory}))
PosHistoryOpen == Read(Calls({posSalesService.getDetail}))
PosSaleLoad == Read(Calls({posSalesService.listCompanies, posSalesService.listSeries, configService.getFirmBranding}))
PosSaleProof == Write("none", "none", Calls({posSalesService.uploadPaymentProof}))
PosSaleEmit == Write("none", "busy", Calls({posSalesService.emit, posSalesService.getDetail}))

DocumentsToolbar == View({DocumentsList}, {
    GatedLink(AnyOf({"documents.create", "documents.update"}), "documents/new")})
DocumentsTable == View({DocumentsList}, {
    Button(DocumentsOfCompany)})
DocumentsRowActions == View({DocumentsList}, {
    Button(DocumentsDetail), GatedButton(Code("payments.create"), DocumentsPayOpen),
    Button(DocumentsItems),
    GatedLink(AnyOf({"documents.create", "documents.update"}), "documents/:id/edit"),
    Button(DocumentsDelete)})
DocumentsPayModal == View({DocumentsPayOpen}, {
    BusyButton(DocumentsPay)})
DocumentsOfCompanyModal == View({DocumentsOfCompany}, {
    Button(DocumentsDetail), GatedButton(Code("payments.create"), DocumentsPayOpen),
    GatedLink(AnyOf({"documents.create", "documents.update"}), "documents/:id/edit"),
    Button(DocumentsDelete)})
DocumentsItemsModal == View({DocumentsItems}, {
    BusyButton(DocumentsDelete)})
DebtDetailModal == View({DocumentsDetail}, {})
PaymentsToolbar == View({PaymentsList, PaymentsCompanies}, {
    GatedLink(Code("payments.view_voided"), "payments/voided"),
    GatedLink(Code("payments.create"), "payments/new")})
PaymentsTable == View({PaymentsList}, {
    GatedLink(Code("payments.update"), "payments/:id/edit"), Button(PaymentsDelete)})
PaymentsDeleteDialog == View({PaymentsList}, {
    BusyButton(PaymentsDelete)})
PaymentsVoidedTable == View({PaymentsVoidedList, PaymentsVoidedCompanies}, {
    Link("payments")})
DocumentFormHead == View({DocumentFormLoad}, {
    Link("documents"), Link("tax-settlements/new")})
DocumentFormLines == View({DocumentFormLoad}, {
    Button(ProductPickerLoad)})
DocumentFormFoot == View({DocumentFormLoad}, {
    BusyButton(DocumentFormSave), Button(ProductPickerLoad)})
StatementLedger == View({StatementLoad, StatementBranding}, {
    BusyButton(StatementPdf)})
StatementFrame == View({StatementLoad}, {
    Link("documents/new"), Link("companies")})
SettlementsTable == View({SettlementsList}, {
    GatedLink(Code("tax_settlements.create"), "tax-settlements/new"),
    GatedLink(Code("payments.create"), "payments/new"), Button(SettlementsClose),
    Link("tax-settlements/:id"), Button(SettlementsEdit), Button(SettlementsDelete)})
SettlementsFilters == View({SettlementsList}, {
    GatedLink(Code("tax_settlements.create"), "tax-settlements/new")})
SettlementsDialogs == View({SettlementsList}, {
    BusyButton(SettlementsClose), BusyButton(SettlementsDelete),
    BusyButton(SettlementsEdit), Link("tax-settlements/:id")})
SettlementDetailHead == View({SettlementDetailLoad}, {
    BusyButton(SettlementDetailEmit), Link("payments/new"),
    BusyButton(SettlementDetailClose), Link("comprobantes"), BusyButton(SettlementDetailPdf)})
SettlementDetailEdit == View({SettlementDetailLoad}, {
    GatedLink(Code("tax_settlements.update"), "tax-settlements/:id/edit"),
    Button(SettlementDetailRevert), Button(SettlementDetailDelete),
    BusyButton(SettlementDetailPaymentDocType)})
SettlementDetailDebtsTable == View({SettlementDetailDebts}, {
    BusyButton(SettlementDetailLinkDebt), Button(SettlementDetailWriteOff)})
SettlementDetailDialogs == View({SettlementDetailLoad}, {
    BusyButton(SettlementDetailEmit), BusyButton(SettlementDetailClose),
    BusyButton(SettlementDetailDelete), BusyButton(SettlementDetailRevert),
    BusyButton(SettlementDetailWriteOff)})
SettlementNewHead == View({SettlementNewCompanies, SettlementNewLoadDraft}, {
    Link("tax-settlements")})
SettlementNewLines == View({SettlementNewPreview, SettlementNewLoadDraft}, {
    BusyButton(SettlementNewPreview), Button(ProductPickerLoad)})
SettlementNewFoot == View({SettlementNewPreview}, {
    BusyButton(SettlementNewSave), Button(ProductPickerLoad), Link("tax-settlements")})
PosSaleItems == View({PosSaleLoad}, {
    Button(ProductPickerLoad), Link("pos/history")})
PosSalePay == View({PosSaleLoad}, {
    Button(PosSaleProof), GatedButton(Code("sales.companies_pick"), QuickClientLookup)})
PosSaleFoot == View({PosSaleLoad}, {
    BusyButton(PosSaleEmit), Button(QuickClientSave)})
PosPaymentRows == View({}, {
    Button(PosSaleProof)})
PosReceiptView == View({ReceiptPreview}, {
    GatedLink(Code("sales.history"), "pos/history")})
PosQuickClientForm == View({QuickClientLookup}, {
    Button(QuickClientLookup), BusyButton(QuickClientSave)})
ComprobantesFilters == View({ComprobantesList, ComprobantesCompanies}, {})
ComprobantesTable == View({ComprobantesList}, {
    GatedButton(Code("fiscal.receipts_create_payment"), ReceiptPaymentLoad),
    GatedButton(Code("fiscal.receipts_patch_tax_settlement"), ComprobantesSettlements),
    Button(ComprobantesDiscard), Button(ReceiptViewerDetail)})
ComprobantesLinkModal == View({ComprobantesSettlements}, {
    BusyButton(ComprobantesLink), Button(ReceiptPaymentLoad)})
PaymentFormHead == View({PaymentFormLoad, PaymentFormSettlement, PaymentFormSeries, PaymentFormBranding}, {
    Link("payments")})
PaymentFormAmounts == View({PaymentFormDocuments}, {})
PaymentFormFoot == View({PaymentFormLoad}, {
    BusyButton(PaymentFormUpload), BusyButton(PaymentFormSave)})
PosReceiptFoot == View({ReceiptPreview}, {
    Link("pos/history")})
ReceiptPaymentImputation == View({ReceiptPaymentLoad}, {
    BusyButton(ReceiptPaymentSave)})
ReceiptViewer == View({ReceiptViewerDetail, ReceiptViewerPreview}, {})
PosHistoryTable == View({PosHistoryList}, {
    BusyButton(PosHistoryOpen), Link("pos")})
ProductPickerList == View({ProductPickerLoad}, {})

DocumentsScreen == Screen({"documents"},
  {DocumentsToolbar, DocumentsTable, DocumentsRowActions, DocumentsPayModal,
    DocumentsOfCompanyModal, DocumentsItemsModal, DebtDetailModal, PosReceiptView,
    PosReceiptFoot, CompanySearchBox})
PaymentsScreen == Screen({"payments"},
  {PaymentsToolbar, PaymentsTable, PaymentsDeleteDialog})
PaymentsVoidedScreen == Screen({"payments/voided"},
  {PaymentsVoidedTable})
DocumentFormScreen == Screen({"documents/new", "documents/:id/edit"},
  {DocumentFormHead, DocumentFormLines, DocumentFormFoot, ProductPickerList})
CompanyStatementScreen == Screen({"companies/:id/statement"},
  {StatementLedger, StatementFrame})
TaxSettlementsScreen == Screen({"tax-settlements"},
  {SettlementsTable, SettlementsFilters, SettlementsDialogs, CompanySearchBox})
TaxSettlementDetailScreen == Screen({"tax-settlements/:id"},
  {SettlementDetailHead, SettlementDetailEdit, SettlementDetailDebtsTable,
    SettlementDetailDialogs})
TaxSettlementNewScreen == Screen({"tax-settlements/new", "tax-settlements/:id/edit"},
  {SettlementNewHead, SettlementNewLines, SettlementNewFoot, ProductPickerList})
PosSaleScreen == Screen({"pos"},
  {PosSaleItems, PosSalePay, PosSaleFoot, PosPaymentRows, PosReceiptView,
    PosQuickClientForm, PosReceiptFoot, ProductPickerList})
PosHistoryScreen == Screen({"pos/history"},
  {PosReceiptView, PosReceiptFoot, PosHistoryTable})
PaymentFormScreen == Screen({"payments/new", "payments/:id/edit"},
  {PosReceiptView, PaymentFormHead, PaymentFormAmounts, PaymentFormFoot, PosReceiptFoot})
ComprobantesScreen == Screen({"comprobantes"},
  {ComprobantesFilters, ComprobantesTable, ComprobantesLinkModal,
    ReceiptPaymentImputation, ReceiptViewer})
LedgerScreens == {
  DocumentsScreen, PaymentsScreen, PaymentsVoidedScreen, DocumentFormScreen,
  CompanyStatementScreen, TaxSettlementsScreen, TaxSettlementDetailScreen,
  TaxSettlementNewScreen, PosSaleScreen, PosHistoryScreen, PaymentFormScreen,
  ComprobantesScreen }
============================================================================
