# erp-zcontable, in TLA+

erp-zcontable is the back office of an accounting firm: a Go server
(`src/backend`: fiber, gorm, MySQL 8 at its default REPEATABLE READ) and a React
client (`src/frontend`). This directory specifies it in three layers:

* the **ledger**: debts, payments, what ties them, the transactions that change them
  side by side, and the tax settlements that bill them;
* the **back office**: server requests that take several steps and overlap, that is
  receipts and their numbers, settlements, the runs over all companies, and the cache of
  permissions;
* the **web client**: every read and write of every page with the late, lost and failed
  answers it may get, the permission codes behind every page, link, button and endpoint,
  the session a tab keeps, and the two desks where one save takes two requests.

TLC checks the modules on small instances; TLAPS proves the serial ledger, and the
back office and the session and desks of the client, for all of them.

Contents: [inventory](#1-inventory), [modules and code](#2-modules-and-the-code-they-model),
[runs](#3-runs), [proofs](#4-proofs), [disagreements found](#5-where-code-and-documents-disagree),
[limits](#6-what-is-not-modelled), [plan](#7-plan).

## 1. Inventory

Paths are relative to `src/backend/services` unless they say otherwise.

| Component | State | Operations | What makes it correct |
| --- | --- | --- | --- |
| Debt rules (`debt/balance.go`, `debt/status.go`) | none, pure functions over rows | balance from what was paid, status from balance, the dual read | a balance is never negative; stored and computed balance agree but for two cents |
| Debts (`document_service.go`, `debt/writeoff.go`, `subscription_liquidation_service.go`) | `documents`: company, total, stored balance, status, soft deletion | create, edit, delete, write off, monthly plan charge | a write-off is final; a paid debt is never deleted |
| Payments (`payment_service.go`, `debt/payment_apply.go`) | `payments`, `payment_allocations` | on account, manual / single / FIFO imputation, allocate an existing payment, edit, void | no cent pays two debts; balances follow the money; discounts close debts |
| Start-up backfill (`../database/backfill_allocations.go`) | the same rows | legacy `document_id` becomes an allocation row | idempotent; changes what nobody owes |
| Transactions (the same files, on InnoDB) | row locks, snapshots, private writes | lock, read, write, commit, roll back | no deadlock but one; no lost or double effect |
| Tax settlements (`tax_settlement_service.go`, `debt/settlement.go`, `debt/settlement_close.go`) | `tax_settlements` and lines; the debt's `tax_settlement_id` and `origin_settlement_id`; the payment's `tax_settlement_id` | draft, edit, link a debt, emit, pay, revert, delete, close | one per company and period; links follow lines; money only on issued or closed ones; a closed one is frozen |
| Fiscal receipts and series (`fiscal_receipt_*.go`, `fiscal_document_series_service.go`) | receipts, correlatives, the link receipt-payment | reserve a number, issue, pay, link, discard, release on voiding, edit the series | one receipt per sale reference; no number twice; receipt and payment name each other; a voided payment stays voided |
| Point of sale (`pos_sale_service.go`, client `pages/pos/PosSale.tsx`) | none of its own | a sale: charge, payment, receipt in one call; the page reads it back | a retried sale happens once; the user is not told a sale failed that did not |
| Subscription runs (`subscription_liquidation_service.go`) | the monthly charges | visit every company with a plan, count, insert | one charge per company and month, however often the run is repeated |
| Supervisor controls (`supervisor_*.go`) | a control per company and month with its deliverables | bootstrap, receive, review, observe, deliver, suspend, carry over | no company left out; one control per month; one decision carried over, in full |
| Users, roles, permissions (`authorization_service.go`, `role_service.go`, `../middleware/permission.go`) | roles, their codes, a cached set per user | load, store, change, invalidate | a user is judged by the permissions he has |
| HTTP routes (`../routes/routes.go`) | none | which codes each endpoint demands | the same codes as the client's |
| Client: session (`auth.ts`, `client.ts`) | token, codes, receipt series in sessionStorage | log in, log out, expire, refresh | what is stored is the present user's |
| Client: navigation (`App.tsx`, `navigation/`, `components/`) | codes, the page that is open | guard, show, follow | a link leads to its page, a button is served |
| Client: screens (`pages/`, 274 reads and writes) | what is shown, what is asked for, which buttons are disabled | read, filter, save, reload | shows what was chosen last; saves that and nothing else, once |
| Client: import dialogs and sale | chosen and validated file; the form of the sale | validate and commit; issue and read back | only validated files are imported |
| Calendars, activities, timeliness (`finance_calendar_service.go`, `activity_*.go`, `*_timeliness.go`) | due dates, templates, rules | CRUD, classification of a date | pure date arithmetic |
| SUNAT mailbox, SOL access, SIRE, RHE, RUC lookups | captures, downloads | HTTP to external sites, parsing | I/O |
| Reports (`finance_*.go`, `debt/financial_totals.go`) | none | sums | agree with the ledger |
| Consolidation, audit, migrations (`debt/consolidation.go`, `document_migrations.go`, ...) | all rows, once | merge duplicates, recompute | keep the ledger's invariant |
| Companies, catalogues, configuration | their tables | CRUD | out of scope on the server; their screens are modelled |

How they interact. Every HTTP handler calls one service operation, which runs in
one database transaction (some read before they open it). Payments change debts:
each handler that moves money ends with `PersistBalanceAndStatus` of the debts it
touched. Settlements call the debt package to create, link, unlink and delete
debts, and `DeletePaymentTx` to void the payments made from them; payments made
from a settlement bring the debts they pay under it. Receipts and the point of
sale create or annotate payments. The monthly run creates debts. All shared state of the
server is in MySQL but one thing: the permission codes of each user, cached in the
process (`AuthorizationService`). The client keeps the token, its own copy of the codes
and the receipt series in sessionStorage, and each page keeps what it has read until it
reads again. Client and server meet in two places: the endpoint a service asks, and the
codes both ask for, each in a list of its own.

What is hard here:

* two sources of truth: the stored balance and the sum of the payments, and two
  ways a payment can pay a debt (allocation rows, or the legacy `document_id`);
* transactions that read a snapshot before they wait for a lock, and rows saved
  whole (`Save`) that were read without a lock;
* long histories: a settlement reverted, edited, paid again, closed, its debts
  passed on to the next one;
* cents at a boundary: a tolerance of two cents between the two balances;
* checks that count and inserts that follow, with no unique index behind them: the
  settlement of a period, the charge of a month, the number of a debt;
* requests made of several transactions, which may die in between: a number reserved
  before the receipt exists, a payment created before its receipt is saved, a carry-over
  claimed before it is applied;
* answers that come out of order to a page whose user has gone on, and buttons pressed
  again meanwhile;
* two lists of permission codes, one in the client and one in the server, that nothing
  keeps alike.

`PROJECT.json` lists 40 hazards at their lines, and which property catches each; two have none, and
say why.

## 2. Modules and the code they model

```
LedgerSums ──── DebtRules
    │    \         │
PaymentBook \──  DebtLedger ──── LedgerTx
    ^ refines ───┘      └─────── SettlementLedger
DebtLedger_proofs ──┬─ LedgerTx_proofs
                    └─ SettlementLedger_proofs

Requests ──┬─ ReceiptDesk ─┐
           ├─ BillDesk     ├─ BackOffice
           ├─ FirmRuns     │
           └─ AuthCache  ──┘

Permissions ─ ServerRoutes ─ ServiceCalls ─ WebScreens ─ Screens* ─ WebRoutes
WebRoutes ─┬─ ScreenShapes ─ ScreenRace ─┐
           └─ WebAccess ─────────────────┤
             WebSession, WebDesks ───────┴─ WebClient
```

Each of `DebtLedger`, `LedgerTx`, `SettlementLedger`, `ReceiptDesk`, `BillDesk`, `FirmRuns` and
`AuthCache` has a `*_proofs` module beside it; `WebClient_proofs` has those of the four parts of the
web client.

**LedgerSums** is SQL's `COALESCE(SUM(..), 0)` over the rows `1..n` of a table, as a
recursive function. **DebtRules** is the pure half of `services/debt`: statuses,
`BalanceFromTotalPaid`, `ComputeStatusFromAmounts`, `EffectiveBalance`. Money is an
integer number of cents: the code rounds every amount to two decimals, and its
epsilon of half a cent then only decides between equal and different.

**PaymentBook** is the abstract promise, with no tables, balances or statuses: a
payment holds funds; they are placed on debts, never more than there are; what is
placed stays until the whole payment is voided, for good; only money that pays
nothing yet can be corrected.

**DebtLedger** is the serial ledger. One action is one request that commits;
requests that an early return rejects change nothing.

| Variable | Rows |
| --- | --- |
| `docs[d]` | `models.Document`: life (absent / live / soft-deleted), company, total, `balance_amount`, status |
| `pays[p]` | `models.Payment`: life, company, type, purpose, amount, discount, legacy `document_id` |
| `alloc[p][d]` | the sum of the live `PaymentAllocation` rows of payment p on debt d |

| Action | Code |
| --- | --- |
| `CreateDocument`, `UpdateDocument`, `DeleteDocument` | `DocumentService.Create`, `Update`, `Delete` |
| `EnsureMonthlyCharge` | `ensureMonthlyCharge`: a charge whose stored balance is the column default |
| `WriteOffUnlinkedDebt` | `debt.WriteOffUnlinkedDebt` |
| `CreateOnAccount`, `ApplyPayment`, `CreateSingle`, `CreateFifo`, `CreateFifoNothingOwed` | the five ways through `CreateFromParams` |
| `AllocateExisting` | `AllocateExistingPaymentTx` |
| `UpdatePayment` | `PaymentService.Update` |
| `VoidPayment` | `DeletePaymentTx` |
| `BackfillPaymentAllocations` | the start-up backfill |

Names, dates, numbers and items are left out. A debt's total and what a user
asks for come from constants; the order of issue dates, which FIFO follows, is
any permutation of the debts.

**LedgerTx** takes six of these requests apart into the steps between which
another transaction can act. `docs`, `pays` and `alloc` are the committed tables;
`tx[t]` is the transaction of request t: its stage, its snapshot (`view`), the
payment and the debts it holds `FOR UPDATE`, the debts still ahead. Which debt's
`document_items` it holds follows from its stage (`ItemsOf`, `Shared`). A plain SELECT
reads the snapshot taken at the transaction's first plain read; `FOR UPDATE` and
`UPDATE` read the latest commit and wait for the row. Which handler reads what
first is the point:

* `ApplyPaymentTx` locks before it reads plainly, unless there is a discount;
* `AllocateExistingPaymentTx` and `DeletePaymentTx` lock the payment, then count
  or list its allocations (the snapshot), then lock the debts;
* `WriteOffUnlinkedDebt` and `DocumentService.Update` read everything plainly and
  lock no debt until they write; the former updates some columns, the latter
  saves the row as it read it;
* an edit that clears or replaces the lines of a debt deletes its `document_items`
  (`DeleteItems`, lines 261 and 277) and inserts the new ones (`InsertItems`) before it
  saves the debt: it holds the lines while it waits for the debt;
* `DocumentService.Delete` locks the debt first (669), then deletes its lines (685).

Of InnoDB's locks on the lines, `found` says whether the DELETE finds rows: if it does it
waits for them; if not it locks only the gap, which others may lock as well but not
insert into. The new lines lock their debt in share mode, by their foreign key, and find
out there if it was deleted meanwhile. `WaitsFor` relates two requests when one waits for,
or is about to wait for, what the other has; a `Deadlock` is a set of requests that wait
for each other all round, and `Victim` is InnoDB's answer to one: any of them is rolled
back, and its handler returns the error. Which one it picks is left open.

Steps that neither wait nor read what others write are merged with the step
before them. In particular the writes and the commit are one step: until the
commit nobody sees them, and the rows are already locked, or, for the write-off
and the edit, locked by the same UPDATE.

**SettlementLedger** puts settlements on the serial ledger. `settle[s]` is a
settlement with its status, company, period and `kinds`, which says for each debt
whether a line of s references it (`"ref"`), created it (`"charge"`) or neither.
`link` and `origin` are the debt's two foreign keys, `paidFor` the payment's.
`CreateDraft`, `UpdateDraft`, `LinkDebtToDraft`, `Emit`, `PaymentSuggestions`,
`PayFromSettlement`, `RevertToDraft`, `DeleteIssued`, `DeleteDraft` and `Close` are
the handlers of `TaxSettlementService`, each with the cleanup, linking and voiding
it does inside; `CreateSupervisorInitialDraft` and `UpdateSupervisorDraft` are the
supervisor's entry to drafts.

Beside the settlements it keeps one way of doing each thing the ledger does:
new debts are pending, payments are applied by hand, a write-off exonerates.
`CreateDocument`, `DeleteUnbilled`, `WriteOffUnlinked`, `ApplyPayment` and `VoidOne`.

### The back office

In these modules a request is a record in a function over `Clerks`, the requests served at
once: which operation it is, the step it has reached, and what it has read. Each step is one
statement or one transaction; between two of them any other request may run, and the request
may die (`Die`, `GiveUp`, `DieMidway`): what it has committed stays. Where the code does
not withstand every overlap, a ghost variable records which one happened, and the property
names it as its only exception. That says two things at once: the check in the code is enough
alone, and what it is not enough against.

**ReceiptDesk** has the receipts, payments and correlative of one series. `BeginIssue`,
`BeginSale`, `BeginPayReceipt`, `BeginLink`, `BeginDiscard`, `BeginEdit` and `BeginSeries` read
and check as their handlers do; `ReserveNextNumber` is the transaction of its own that takes a
number; `CreateIssued` and `CreateSale` create the receipt (the latter under the unique index
on the sale's reference, with `ReturnFirstSale` for who comes second), `CreateFromParams`,
`MarkPayment`, `SaveReceipt`, `SaveDiscarded`, `SaveEdit` and `SaveSeries` the later writes;
`VoidPay` releases what the payment backs. Ghosts: `raced` has the rows two requests were on at
once, `torn` those of a request that died between two writes, `rewound` tells that an edit has
set the correlative back.

**BillDesk** has the settlements of one company. SettlementLedger takes each request in one
step; here `Create`, `UpdateDraft` (and the supervisor's), `Emit`, `UpdatePaymentDocumentType`
and a payment read first and write later, and `duplicateLiquidationPeriod` is a step of its own
(`CountPeriod`). `RevertToDraft`, `DeleteBill` and `Close` read and write in one transaction.
Ghost: `contested` has the settlements and periods that two requests had at stake at once.

**FirmRuns** has requests that go through the companies one by one, or count before they insert:
the monthly charges, the bootstrap of a period's controls, the carry-over of suspensions with its
claim, and the numbers of debts. A behaviour follows one of the four `Topics`. Ghosts: `together`
(two runs at once) and `mishaps` (a run died, was refused, or an edit of the period's notes undid
a claim).

**AuthCache** has the cached permission set of each user. Permissions are a version number: the
only question is whether the cached one is the present one. `permissionSetForUser` loads without
a lock and stores later; a change commits first, then lists the users of the role (dropping the
error of that query), then deletes their sets. Ghost: `overtaken`.

**BackOffice** puts the four side by side. None writes a table of another, so a behaviour follows
one of them (`focus`) and leaves the others as they began: the product would only multiply states.

### The web client

**Permissions** says what a demand is: clauses, each met by any of its codes; two middlewares in
a row are two clauses. **ServerRoutes** is the catalogue of the endpoints of `routes.go` with
their demands, **ServiceCalls** that of the services' operations with the endpoint each asks; an
endpoint that is not registered is met by nobody. **WebScreens** says what a page is made of, and
**ScreensOffice**, **ScreensActivity**, **ScreensFinance**, **ScreensSupervision**,
**ScreensLedger** and **ScreensTools** are the catalogue of pages: each read with the calls it
makes; each write with where the codes that offer it are read (`gate`) and what disables its button
(`lock`); each view with what it shows and the buttons and links it offers, with their codes. A view
that offers nothing and shows what another view shows is not listed apart. **WebRoutes** has the
guards of the router and the links. A catalogue entry is a fact about the code and stands for the
lines `map` gives it.

**ScreenShapes** lists the screens where a read that turns late answers away meets the handler of a
button, and what each does:

| Field | What the code does |
| --- | --- |
| `read.guard` | the cleanup of the effect turns earlier answers away (`cancelled`), or every answer is shown |
| `read.onFail`, `hides`, `repeats` | a failed read clears or keeps what is shown; the page is a spinner meanwhile; the effect has dependencies besides the key |
| `write.on` | the address of the save: the id of the route or of the choice (`settlementId`, `roleId`), or that of what is shown. The body is always what is shown |
| `write.then` | the answer is shown as it comes (`patch`, `setRow(updated)`); the handler reads again and shows that as it comes (`reload`, `reloadDebtsContext`); the effect runs again (`reread`, a `reloadKey`); what is shown, or the page, goes away |
| `write.again` | a refused save is followed by such a read of the handler |
| `write.lock` | taken from the catalogue |

The buttons of all other screens are there too, once for each lock that some button of the catalogue
has, on a list that shows every answer (`ButtonShapes`): 20 shapes in all. Lists without a guard
(`Documents.tsx:544`, the list of roles, which `loadListAndCatalog` sets whatever its flag says) make no
promise about late answers, so no property asks one of them. Left out are two reads that compare a number
or a key of their own instead of having a cleanup, and on which no save depends: the search of the
header (`lastSearchIdRef`) and the access to SUNAT (`requestKey`).

**ScreenRace** gives the shapes their behaviour. The user chooses (`Choose`), the effect runs again
(`AskAgain`), the user presses (`Press`); requests are served, answered, lost or refused in any order
(`Serve`, `Deliver`, `Fail`; `Save`, `Saved`, `Refused`). A read a handler makes itself (`again`, with
`ServeAgain`, `DeliverAgain`, `FailAgain`) is for the key of the page when the button was pressed, is
never turned away and retires nothing. `shown.by` says whether a read or a save put there what is shown;
`crossed` notes that the answer of a save met other requests on their way, `mixed` that the handlers of
two rows ran at once.

**WebAccess** follows one user at one desk (a page and one control or gated link of it) while his
role is changed: the guard of the route, the codes the page reads live or captured when it appeared,
and the middlewares behind the control. `Roles` tries the least sets of codes that let him in, offer
him the control, or get him served. `KnownRefusals` (73 reads and writes) and `KnownDeadLinks` (9
links) are the places where client and server ask for different codes, found by the run and kept as
a list: a new mismatch violates the property.

**WebSession** has what a tab stores, and the requests that fill it: `LoggedIn`, `CodesRead`,
`SeriesRead`, `LoggedOut`, `Expire`. **WebDesks** has the import dialog and the sale.
**WebClient** composes the four parts by `focus`, as they keep their state apart.

`map` in `PROJECT.json` gives the lines of each definition.

## 3. Runs

| Run | Instance | Distinct states | Question |
| --- | --- | --- | --- |
| `debt_ledger` | 1 company, 2 debts, 2 payments, totals 100 / 102, amounts 96 / 98, discounts 0 / 2 | 743,917 | is the money right, with discounts and the drift tolerance in play? |
| `debt_ledger_companies` | 2 companies, 2 purposes, debts and monthly charges of 100, payments of 60 | 448,397 | does money stay with its owner, and FIFO in order? |
| `ledger_tx` | any 2 requests at once, 2 debts of 1 or 2 cents, 2 payments of 1 cent received | 336,455 | do concurrent requests behave? |
| `settlement_ledger` | 1 company, 2 periods, 2 settlements, 2 debts of 100, 2 payments of 50 | 825,009 | do settlements, links and money stay together? |
| `web_client` | the 20 shapes with 2 records, 2 rows and 5 requests; every desk; 2 users and 6 calls; 2 files, 3 sales | 2,354,967 | does a page show, save and offer what it should? |
| `back_office` | 2 requests at once; 2 receipts, 2 payments, 3 numbers, 4 requests; 2 settlements, 2 periods; 3 companies, 3 debts; 2 people with 2 changes each | 866,140 | what do the checks guarantee under overlaps and crashes? |

What the properties of the passing runs say:

* `MoneyCountedOnce` what a payment brings to all debts together never exceeds its
  amount plus its discount, and a voided one brings nothing;
* `MoneyRestsOnOwnDebts` no allocation or legacy link points to a deleted debt or
  to another company's;
* `SyncedWhenMoneyMoves` any step that changes what a debt has received leaves its
  balance and status recomputed. It is an action property on purpose: as a state
  invariant it is false (`BalanceInSync`, below);
* `WriteOffIsFinal`, `WrittenOffGetsNoAllocation` a written-off debt is left alone;
* `DiscountClosesItsDebts` a discount is only granted to close debts, but for the
  two cents of the dual read: 100 and 102 are chosen at that boundary, and 98 + 2
  pays a debt of 100 while 96 + 2 pays none exactly;
* `KeepsPaymentBook` the ledger implements PaymentBook;
* `FifoPaysOldestFirst` a debt gets money only if every older open debt is covered,
  and money is left over only when nothing is owed;
* `EveryRequestEnds` each request commits, is rejected or is rolled back to break a deadlock: none
  waits for ever;
* `OnlyLineEditsDeadlock` requests that wait for each other have an edit of a debt's lines among
  them, which locks the lines before the debt while a deletion locks them after it. Payments,
  imputations, voidings, deletions and write-offs never do so among themselves, by the order of
  `LockDocumentsForUpdateAsc`;
* `TakesEffectAtCommit` a payment without discount and a deletion do exactly what
  the serial action does at the moment of their commit;
* `CommitsKeepPaymentBook` each commit is one step of PaymentBook or changes nothing of it: no cent is
  placed twice, what was placed is never lost to an interleaving, and a voided payment never comes
  back (with it `MoneyCountedOnce` holds in this run too, and is not checked apart);
* `OneSettlementPerPeriod`, `LinksFollowLines`, `ListedDebtsExist`,
  `MoneyOnlyOnIssued`, `ClosedIsFrozen` as the table in section 1 says.

* `OneReceiptPerSale` a client's reference has one receipt, also when the sale is retried while
  the first is under way;
* `NumbersNeverReused` a number that was reserved by a request that died is a gap, never a second
  receipt, unless the series was edited backwards;
* `LinkedBothWays` a linked receipt has a live payment that says it has one, and the reverse, but
  for rows that raced or of a request that died between its two writes;
* `VoidIsFinal` a voided payment comes back only where `Save` of a row read before the voiding
  writes it live again;
* `BilledOnceUnlessContested`, `PaidOnlyWhenIssued` one settlement per period, and money only on
  issued or closed ones, unless requests overlapped on exactly that;
* `NothingTwiceUnlessTogether`, `BootstrapLeavesNoneOut`, `CarryOverDecidedOnce` the runs over the
  companies, with everything that may interrupt them;
* `JudgedByPresentPermissions` the cached set is the granted one, but in the windows that
  `overtaken` records, which then last until the next login or change;
* `ShowsWhatWasChosen` when every answer is in, a screen that turns late answers away shows what was
  chosen last, unless a load failed and kept the old (`Kept`) or the answer of a save, or the read after
  it, was the last to be shown (`PutBySave`): neither looks at what the page is about by then;
* `SavesTheRecordChosen` on such a screen the address and the body of a save are of the record chosen,
  unless the buttons are in reach while another one loads, or in the two cases above;
* `NoDoubleSubmit` no row is saved twice at once, unless nothing disables its button, or the page keeps
  one busy row id (`linkingDebtId`) and another row took its place meanwhile (`mixed`);
* `OwnChangeStays` who was told that his change is saved sees it afterwards, unless the answer crossed
  other requests. A page that runs its effect again, as the review queue, needs no exception;
* `OfferedIsServed`, `LinksLead` what is offered is served and where links lead, but for the two
  lists;
* `StorageBelongsToSession` nobody sees the buttons of the user before him, but for the two ways
  round `auth.ts` the property names;
* `OnlyValidatedFilesAreImported`, `SoldTwiceOnlyWhenMisled` the two desks.

Each is broken by a mutant of the code: `mutants` in `PROJECT.json`.

**Bounds.** `MaxDocuments`, `MaxPayments`, `MaxSettlements` cap rows ever created;
rows are never reused. Two debts and two payments are the smallest instance in which
a payment is split, a debt is paid twice, FIFO passes from one debt to the next, and
a voiding leaves another payment standing; the proofs remove this bound. Two
settlements are the smallest in which a debt goes from one to the next and a draft
competes with an issued one. Two requests are enough for a
lock cycle between two debts; the interference of three is in `no_debt_overpaid`.
`LedgerTx` begins with debts and payments already there (`Received`), so that its
steps are spent on the requests; `TxInit` only contains tables that serial requests
can leave behind. One cent is its unit: a line fills a debt of one, half fills a
debt of two, and two lines of one compete for one. `EditedTo` bounds the statuses an edit
may set to the one that reopens a debt; a write-off is what closes one. `PlanPrices` is empty in all
but `debt_ledger_companies` and `balance_in_sync`: a monthly charge takes no money until an
edit ties a payment to it and recomputes it, and is then a debt like any other; the theorems
cover it for every property of `debt_ledger`.

Two overlapping requests are the smallest number in which one comes between the steps of
another; the proofs remove that bound, and every other, from the properties of
`back_office`, `ledger_tx` (but `EveryRequestEnds`) and `web_client`. Three companies make a run
have some behind it and some ahead. In `web_client`, two records are enough for a late answer to be another's, two rows for one row's answer to re-enable the
other's button, and five requests for a choice, a save of one row, one of another, the first again, and
another choice. The
desks are tried with roles that have at most two alternatives of a clause (`MaxAlternatives`): the
codes of one clause are interchangeable to the guard that asks for it. Two users and six calls let a
login overtake the answer of the one before and the codes be asked for again.

`ClerkSymmetry`: requests served at once are only compared with each other, no property names one
and the run has no liveness property, so permuting them is sound.

`PeriodSymmetry`: periods are only compared for equality, no action or property
mentions a particular one, and the run has no liveness property, so permuting
them is sound.

Deadlock is not checked where the system may stop because a bound is reached, nor in `web_client`
and `back_office`, where it may stop because nobody asks for anything more. In
LedgerTx it is: `Quiet` is the state in which every request is over or has not come.

**Fairness.** Only `LedgerTx` has any: weak fairness of `Advance(t)`, the steps of a
request that has arrived. It says that the server goes on executing a handler and that
InnoDB grants a row that stays free, and no more: requests need not arrive, and a waiting
request may be overtaken by any other. Weak fairness is enough because each request is
served once, so that a row is eventually free for good unless its holder waits too, and
InnoDB looks for that and rolls one back (`Victim`; `innodb_deadlock_detect` is on by
default and nothing in the code turns it off). In the back office a process may die at any step and
in the client an answer may never come, so that nothing must happen and no fairness is stated.

## 4. Proofs

Every safety and action property that a passing run checks is stated by a theorem: the run shows
it on a small instance, the theorem for every value of the constants.

### The ledger

`DebtLedger_proofs` begins with what the ledger needs of sums: that the recursive function
is well defined and unfolds, that it yields a natural, that equal columns have equal
sums, the sum of two columns, and of a column with a single non-zero row. The
induction in it is over a set of naturals rather than a predicate, and follows from
the well-foundedness of strict inclusion on finite sets (`WellFoundedInduction`,
`FiniteSetTheorems`).

It then proves, from `LedgerAssumption` alone (bounds natural, totals,
prices and amounts positive, discounts natural):

| Theorem | States |
| --- | --- |
| `Inductive` | `Spec => []IInv` |
| `TypeCorrect` | `Spec => []TypeOK` |
| `OwnDebts` | `Spec => []MoneyRestsOnOwnDebts` |
| `CountedOnceAlways` | `Spec => []MoneyCountedOnce` |
| `Synced` | `Spec => SyncedWhenMoneyMoves` |
| `WriteOffsFinal` | `Spec => WriteOffIsFinal` |
| `WrittenOffUntouched` | `Spec => WrittenOffGetsNoAllocation` |
| `ImplementsPaymentBook` | `Spec => KeepsPaymentBook` |
| `FifoOldestFirst` | `Spec => []FifoPaysOldestFirst` |
| `DiscountsClose` | `Spec => DiscountClosesItsDebts` |

Neither `MoneyCountedOnce` nor `MoneyRestsOnOwnDebts` is inductive alone. `IInv` is
`TypeOK`, `MoneyRestsOnOwnDebts` and:

* `AllocationsWithinFunds` the allocation rows of a payment, on their own, are within
  its funds. `MoneyCountedOnce` speaks of the rows or the legacy link, whichever
  counts, and would let rows hide behind a link;
* `RowsOfActivePayments` only active payments have rows, so that voiding is final;
* `AbsentIsPending` a debt that is not created yet is pending, so that creating one never
  changes the status of a written-off debt;
* `ExoneratedOwesNothing` an exonerated debt has balance 0. `ValidateAllocationsTx`
  refuses a cancelled debt by its status but an exonerated one only because no line
  fits its balance, so without this conjunct `WrittenOffUntouched` does not follow.

The argument has one lemma per action (what it does to `IInv`). For the refinement each
step is shown to be one of PaymentBook's or a stutter, payment by payment: editing is
`Amend`, because an editable payment has neither rows nor a link; the backfill is a
stutter, because it replaces a link by a row of the same amount. Every action that
moves money recomputes exactly the debts whose sum changed, which gives `Synced`.

`FifoOldestFirst` goes by rank: after each one, what has been taken and what is left add up to the
amount (`LeftAndTaken`), so a debt gets money only if the older ones, owed less than the amount
together, were all covered. That the lines by debt and the takings by rank have one sum is
`SumByRank`: a rank is an injection of the debts into themselves, hence onto them.
`DiscountsClose` adds to `IInv` the arithmetic of the dual read: a payment with a discount takes
exactly the effective balance of each debt it touches (`ValidAmounts`), which is at most two cents
from what the debt lacks, so at most `DriftCents` are left (`OpenBalanceCloses`).

### Concurrent transactions

`LedgerTx_proofs` holds for any number of requests, debts and payments, under `LedgerAssumption` and
`TxAssumption` (the programs are among the six, the payments received within their bound):

| Theorem | States |
| --- | --- |
| `TransactionsInductive` | `TxSpec => []TxInv` |
| `CountedOnceConcurrently` | `TxSpec => []MoneyCountedOnce` |
| `OwnDebtsConcurrently` | `TxSpec => []MoneyRestsOnOwnDebts` |
| `OnlyLineEdits` | `TxSpec => []OnlyLineEditsDeadlock` |
| `SerialAtCommit` | `TxSpec => TakesEffectAtCommit` |
| `BookKeptConcurrently` | `TxSpec => CommitsKeepPaymentBook` |

`TxInv` says that the tables are sound (`TablesInv`: the parts of `IInv` that interleavings leave
true; balances and statuses are not among them, see section 5), that a row is held by one request
(`PaymentsHeldByOne`, `DebtsHeldByOne`), that nobody deletes or voids a row another one holds
(`HoldsLive`), that a snapshot is right about the company of a debt (`CompaniesStay`), and what each
request has made sure of at the step it stands at (`Prepared`): an allocation has counted the funds
under the lock of its payment (`CanAllocate`), and one about to write has found its lines valid; a
deletion about to write has seen that nothing pays the debt. Which stages a request passes and what it
may hold at each is `Orderly`. The argument is the one the code relies
on and writes nowhere: a commit only changes rows that no other request holds, and what the others
have checked is about rows they hold, so it stays true. `BookKeptConcurrently` is the refinement of
the payment book again, commit by commit, from `AllocationsWithinFunds` instead of `IInv`.

`OnlyLineEdits` takes a set of requests none of which edits lines. Each waits for a payment or for a debt
(`WithoutLineEdit`: who asks for the lines of a debt holds the debt). The one that waits for a payment
holds nothing yet, so that no other waits for it; among the debts asked for there is a greatest one
(`GreatestIn`), its holder waits for a debt above those it holds, and that is a greater one
(`NoCircleOfMoney`).

### Settlements

`SettlementLedger_proofs` proves each property of the run: `SettlementTypes`, `BilledOncePerPeriod`,
`KeysHaveLines`, `LinesHaveDebts`, `MoneyHasItsSettlement`, `SettledOwnDebts`, `ClosedForGood`; and
`SettledSynced`, that `SyncedWhenMoneyMoves`, which the runs check on the serial ledger, holds under
settlements too. The invariant `SInv` is `IInv` of the ledger, the properties themselves, which need
each other (a debt may go because no other settlement lists it and no money rests on it; money is on
an issued settlement because reverting one voids every payment made from it), and
`FreshRowsCarryNoKey`: a debt or a payment that is not created yet is under no settlement, or creating
it beside them would break `LinksFollowLines`. `RowStep` is the lemma they share: a step that writes
one settlement keeps `SInv` if five things hold of its row, its lines, the others' lines, the links
and the money; each handler is then shown to do those five. A settlement that voids several payments
does so in one transaction, several steps of the serial ledger at once, so `SInv` is proved of such
a step directly and not taken over from `DebtLedger`.

### The back office and the web client

The other theorems hold for any number of requests, rows, companies, users, files and records:

| Theorem | States | Inductive invariant |
| --- | --- | --- |
| `OneReceiptForASale`, `NumbersUsedOnce`, `VoidedForGood` (`ReceiptDesk_proofs`) | `ReceiptsSpec => []OneReceiptPerSale`, `[]NumbersNeverReused`, `VoidIsFinal` | `DeskInv` |
| `LinksAgree` (`ReceiptDesk_proofs`) | `ReceiptsSpec => []LinkedBothWays` | `DeskInv /\ LinkInv` |
| `BilledOnce`, `PaidMeansIssued` (`BillDesk_proofs`) | `BillsSpec => []BilledOnceUnlessContested`, `[]PaidOnlyWhenIssued` | `BillInv` |
| `NothingTwice`, `BootstrapComplete`, `CarryOverOnce` (`FirmRuns_proofs`) | `FirmsSpec => []NothingTwiceUnlessTogether`, `[]BootstrapLeavesNoneOut`, `[]CarryOverDecidedOnce` | `FirmInv` |
| `CacheIsPresent` (`AuthCache_proofs`) | `CacheSpec => []JudgedByPresentPermissions` | `CacheInv` |
| `StorageIsOwn` (`WebClient_proofs`) | `SessionSpec => []StorageBelongsToSession` | `SessionInv` |
| `ImportsAreValidated`, `SoldOnce` (`WebClient_proofs`) | `DesksSpec => OnlyValidatedFilesAreImported`, `[]SoldTwiceOnlyWhenMisled` | `ImportInv`, `SaleInv` |
| `ChosenIsShown`, `TheChosenIsSaved` (`WebClient_proofs`) | `RaceSpec => []ShowsWhatWasChosen`, `SavesTheRecordChosen` | `RaceInv` |
| `SubmittedOnce` (`WebClient_proofs`) | `RaceSpec => []NoDoubleSubmit` | `SubmitInv` |
| `OwnChangeIsSeen` (`WebClient_proofs`) | `RaceSpec => []OwnChangeStays` | `RaceInv /\ OwnInv` |
| `LinksOpen`, `OfferedServed` (`WebClient_proofs`) | `AccessSpec => []LinksLead`, `OfferedIsServed` | `AccessInv` |

They assume the bounds are naturals and that the placeholders (`NoRef`, `noMonth`) are not values
of what they stand in for. What the invariants add, and why:

* `DeskInv`: while no series was set back, the numbers of receipts and the reserved ones are all
  different and behind the correlative (`NumbersBehind`); a request about to save the whole row of a
  voided payment is on record (`WritersOnRecord`). Two receipts with one number are only excluded by
  what is reserved and not yet used;
* `LinkInv`: what a request has read and written still holds when it writes next (`ReadsHold`), unless
  it met another one, and then all rows of both are on record (`MeetingsOnRecord`); a receipt that was
  linked under a request names a payment on record (`RelinkedOnRecord`). `LinkedBothWays` excuses every
  row of a request under way, so it says nothing of what the request leaves; the inductive form
  (`RestsOnPay`, `HasReceipt`) excuses only requests between their two saves;
* `BillInv`: what a request has counted (`CountHolds`) and read (`ReadingHolds`) still holds when it
  writes, unless it met another; requests with a stake in common are on record with all their stakes
  (`MeetingsOnRecord`). The last one carries the proof: a settlement that appears in a period between
  a count and an insertion was written by a request with the same period at stake;
* `FirmInv`: a lone run still finds what it counted (`ChargeCounted`, `NumberFree`); behind a
  bootstrap every company has a control (`Bootstrapped`); nothing is decided, or the one decision is
  what is suspended plus what the run still has ahead (`Undecided`, `Carrying`);
* `CacheInv` only adds types: the property was stated to be inductive;
* `SessionInv`: codes that are not the session's are about to be replaced by a request on its way;
* `ImportInv`, `SaleInv`: what counts as validated was found right, or the choice has been noted; the
  sales issued are those of forms that are over, the present one's request, or a misled one;
* `RaceInv`: reads are numbered in the order they are made, and the latest one is for what is wanted
  (`LatestIsWanted`), so that what an effect's guard lets through is what is wanted, and what is shown is
  that, or kept from a failure, or put there by a save (`WantedShown`);
* `SubmitInv`: where a page has one busy flag, or one busy row id and one row being pressed, one handler
  runs, from its save to the read after it, and its row is disabled (`OneWrite`); where each row has a
  state of its own, there is one handler a row (`OneWritePerRow`). That `mixed` is only forgotten when
  every handler has ended is what makes it inductive;
* `OwnInv`: what the user was told is stored (`ToldIsStored`); until an answer has crossed others, the
  latest read of the effect, those of the handlers and the answers to be shown are no older than that
  (`LatestIsCurrent`, `AgainIsCurrent`, `PatchIsCurrent`), nor is what is shown once nothing is to come
  (`CurrentShown`);
* `AccessInv` is the property and its type: the work is done by the catalogue. `OfferedServed` never
  uses which codes a role may have, so it holds for every set of codes and every sequence of changes,
  where the run tries the least sets that matter.

The proofs about the client take two facts of the catalogue from assumptions that TLC evaluates in
full, since the catalogue has no parameters: `ShapesAssumption`, that every shape has a lock and an
aftermath ScreenRace knows, and that only handlers whose success closes what is shown read again after
a refusal; and `CodesAssumption`, that at each of the 313 desks, of 454, that are not a known exception
what admits and offers covers what the server, or the page a link leads to, demands (every clause
demanded contains one that was met). A page or a route that changes in the catalogue breaks the run
before it breaks the theorem.

`BackOffice` and `WebClient` run these specifications by turns, so their properties are those the
theorems state.

Only model-checked: `EveryRequestEnds` with the absence of deadlock, since liveness under fairness and
ENABLED are beyond the prover, and the runs of section 5, which are counterexamples. `Min` and the sums
over sets of debts are proved about as far as the ledger needs them; what the catalogues say is a finite
fact, which TLC evaluates.

## 5. Where code and documents disagree

Each has a run that TLC must find violated.

| Run | What happens |
| --- | --- |
| `edit_respects_balance` | `payment_service.go:430` subtracts the payment's own amount from what the debt received, though it is not in it: PUT /payments can overpay a debt against its own message |
| `balance_in_sync` | `subscription_liquidation_service.go:141` inserts a monthly charge with stored balance 0; payments of it are then rejected, since `ValidateAllocationsTx` compares with the stored balance. `document_service.go:293` edits a total and leaves the stored balance, so that a raised total cannot be collected in full (set `PlanPrices = {}` in the cfg to see this trace) |
| `no_debt_overpaid` | `payment_apply.go:302` fixes the snapshot before the debts are locked; the balance persisted at line 342 misses an allocation that committed meanwhile, and a third allocation overpays |
| `write_off_holds` | `document_service.go:293` saves a row read before a concurrent write-off, and undoes it. `writeoff.go:86` writes after unlocked checks: a payment committed in between is written off with its debt (set `Programs = {"apply", "writeoff"}` in the cfg to see this trace) |
| `discarded_ticks_are_not_saved` | `RolesAndPermissionsView.tsx:190` takes the role from the choice and the permissions from the ticks, which are the last role's until the read answers, and for good if it fails: the ticks the user agreed to discard (149) are saved to another role |
| `voiding_keeps_older_links` | `settlement.go:352` unlinks a debt from the settlement that created it, not only links the payment had made |

Read while modelling, and named by the properties of `back_office` and `web_client` as their
exceptions rather than given a run each:

* a control that was deleted keeps its row in the unique index (`models/supervisor.go:152`), so that
  the count does not see it, the insertion is refused, and no later bootstrap of that period gets past
  that company (`BootstrapLeavesNoneOut`);
* `UpdatePeriod` (`supervisor_service.go:984`) saves the whole row it read, and may undo the claim of a
  carry-over, which then can be decided a second time (`CarryOverDecidedOnce`);
* editing a series saves the correlative of the form or of the row it read, so that numbers reserved
  meanwhile come again (`NumbersNeverReused`);
* gorm's `Save` of a payment that was voided meanwhile writes it live again (`VoidIsFinal`);
* `invalidateUsersWithRole` drops the error of its query: the change of a role succeeds and the
  cached sets stay (`JudgedByPresentPermissions`);
* the point of sale sends no `sale_client_ref`, although the server is prepared to recognise a retry by
  it, so that a lost answer lets the user sell twice (`SoldTwiceOnlyWhenMisled`);
* the answers of the handlers of a settlement, and the reads they make, are shown on whatever settlement
  is open by then (`TaxSettlementDetail.tsx:103`, 118, 220, 250, 277; `ShowsWhatWasChosen`,
  `SavesTheRecordChosen`, `OwnChangeStays`), and one busy row id lets a row be linked twice at once (115;
  `NoDoubleSubmit`);
* an edit and a deletion of one debt can deadlock (`document_service.go:261`, 685;
  `OnlyLineEditsDeadlock`), and the user gets the error of InnoDB;
* after a login over a live session whose `refreshPermissions` fails, `Layout` does not ask again,
  because some codes are stored (`auth.ts:119`; `StorageBelongsToSession`).

## 6. What is not modelled

* Of receipts: `LinkReceiptToTaxSettlement`, the client data frozen into a receipt, its detail.
* Of the supervisor: the transitions of a control and its deliverables (reception, review, observation,
  delivery), which are one guarded assignment each; the deliverables' own carry-overs, which repeat
  the one of FirmRuns.
* Of users: the CRUD and cloning of roles, passwords and tokens, which companies a user sees, the check
  that one studio user remains (a listed hazard without a property: the cache keeps no users).
* Concurrency of PUT /payments with the ledger's transactions (ReceiptDesk has its race with a voiding),
  of the amounts and debt links of settlements.
* Of the client: what a form computes and validates before it is sent, the rollback of the calendar's
  drag, late answers on lists without a guard, the tax sections that a settlement and a control copy from each other, PDF and spreadsheets.
* In InnoDB: the gaps of other indexes than that of `document_items`, the share locks that other rows
  take by their foreign keys, and lock-wait timeouts. A timeout rolls back, which is a rejection.
* In `SettlementLedger`: the ledger's other ways of doing the same thing (see
  section 2), tax sections, adjustments, numbering and snapshots for the PDF.
* Reports, calendars' date arithmetic, external sites and plain CRUD on the server: read-only, I/O, or
  no state shared with the rest.

## 7. Plan

Done: the ledger with its proofs, LedgerTx, SettlementLedger; the back office and the web client with
the proofs of section 4, which now state every safety property of the passing runs. Next, the most
important first:

1. Proofs: that each step of SettlementLedger is a step of PaymentBook, or several when it voids
   several payments, so that its promise holds over settlements too.
2. BillDesk with the links and amounts of SettlementLedger, so that a payment and a reversal that
   overlap are followed down to the debts.
3. LedgerTx: PUT /payments and the monthly run as further requests.
4. The life of a control and its deliverables, with the tax sections that a settlement and a control
   copy from each other.
5. Consolidation as an action of DebtLedger, under the same invariant.
