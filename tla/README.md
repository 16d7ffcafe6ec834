# A model of the Hentsch credit backend

TLA+ modules, TLC runs and TLAPS proofs for the NestJS/Prisma backend of this
repository (`backend/`), and for the one page of its frontend that holds a
conversation with it: an account is opened by a code of invitation or a request,
holds deposits, pledges part of them as collateral, gets a credit of 350% of the
collateral, and may invest. Most
errors that matter in such code are not in one function: they need two deposits
at once, a restart between two statements, a nightly job that works from rows
it read a while ago. That is what is modelled. All sources named below are
under `backend/src/` unless another place is given.

## 1. Inventory

| Component | State | Operations | Hard behaviour |
|---|---|---|---|
| Master ledger `ledger/` | one row of balances per client: available, locked collateral, granted credit, used credit, invested | guarded single-statement UPDATEs | clamps (`GREATEST`), refusals inside larger transactions |
| Credit requests `credit-requests/` | request: status, collateral, asset, position | create, approve, reject, deposit address, `tryAutoFulfill` | check-then-act, claim, compensation, restart |
| Credit engine `credit/credit-engine.service.ts` | positions | lock and issue, repay and unlock | aggregated balances against individual positions |
| Collateral yield `credit/collateral-yield.service.ts` | price last applied, amount repaid by yield | nightly pass, pass started by hand | snapshot, two transactions per row, overlap |
| Liquidation `credit/liquidation.service.ts` | position status, warning | nightly pass | snapshot, update by id |
| Deposits `webhooks/`, `payments/`, `deposit-intents/` | journal rows by status and external reference | credit the balance, then `tryAutoFulfill` | duplicated, late, concurrent notifications |
| Withdrawals `withdrawal/` | journal | one guarded debit | races with everything else |
| Investments `investment/investment.service.ts` | one position per product, daily runs | transfer, deposit, withdraw, accrual | value read before the transaction |
| Fixed terms `investment/fixed-term-plan.service.ts` | term positions, daily runs | deposit, accrual, settlement | settled by two passes |
| Treasury bot `treasury-bot/` | chain of daily runs | daily run, backfill | order of runs |
| Account opening `invite-codes/`, `account-requests/`, `users/`, `admin-clients/`, `kyc-documents/` | codes, requests, users, KYC status, documents | generate, redeem, approve, reject, review, decide | single use under concurrency, capacity, two records of one decision |
| Page of registration `frontend/components/marketing/invite-signup-wizard.tsx` | a form of several steps, the answers it holds | validate a code, preview the dossier, submit | answers late, lost or out of order while the form changes |
| Statements `investment/investment-statement.ts`, `investment-performance.ts` | - | pure functions of the journal | a journal that grows while it is read, the first month of a period |
| Authentication `auth/` | failed attempts, lock date | login, refresh | lost updates of a counter |
| Market data `market-data/`, `stock-market-data/` | caches | prices, histories | stale fallback |
| Direct credit `direct-credit/` | requests of businesses, judged once | eligibility by five criteria, no money moves | boundaries of a pure function |
| Addresses, cards, transactions, VAT, chat, PDF, other pages | - | reads, pass-through calls, display | - |

How they interact. Services call each other in one process; there are no queues.
The shared state is Postgres, at READ COMMITTED: two requests, or a request and
a scheduled job, interleave between statements, and only a guarded statement
(`updateMany` with the expected status, a debit with `balance >= amount` in its
WHERE clause) or the lock of a row that a transaction has updated protects one
from the other. Deposits of all kinds end in the same call, `tryAutoFulfill`,
after their own transaction committed. The jobs run by `@Cron` inside the same
server, and some also by an endpoint of the back office.

What makes each component correct:

- ledger: no balance below zero; the row agrees with the journal and with the
  positions;
- requests: a request is honoured once, decisions are final, a claimed request
  does not stay without a position, one active request per client;
- positions: closed and liquidated are final; yield repays no more than 60% of
  the credit and no more than the price rose;
- deposits: a payment is credited once or refused, whatever is repeated or late,
  and the credit is offered to the approved request;
- investments and fixed terms: the wallet, the positions and the two reports
  agree with the journal, and a day has one return per product;
- account opening: what a code, the capacity and a request admit is bounded by
  what overlaps, a client does not change a dossier and keep the decision on it, a
  dossier that is not whole has a reason;
- page of registration: the client is told the truth, and is shown what is opened.

`PROJECT.json` lists the places where each of these can go wrong ("hazards").

## 2. What is modelled now

### Modules

| Module | Models | Lines |
|---|---|---|
| `Ledger` | the statements of `LedgerService`, as operators from a row to a row beside the condition of their WHERE clause | no state |
| `CreditLine` | everything that runs on the credit line of one client: requests, positions, deposits, `tryAutoFulfill`, withdrawals, repayments, both jobs, restarts | the core |
| `CreditLineProperties` | what it promises | |
| `CreditAccount` | the same promise as an abstract specification, each operation one step | |
| `CreditLineProofs` | the theorems on types, requests and claims | |
| `CreditBooksProofs` | those on the sums over positions, on `CreditAccount` and on the yield job | |
| `FiniteSums` | lemmas on the sums of the community modules over any finite set | no state |
| `MCCreditLine` | the instance for TLC; the `.cfg` files give the constants | |
| `FundsIn` | the three ways money arrives for a client: card top-ups, the blockchain webhook, declared deposits; extends `Ledger` | journal rows and external references |
| `FundsInProperties` | what they promise | |
| `MoneyIntake` | the same promise as an abstract specification | |
| `FundsInProofs` | the theorems | |
| `MCFundsIn` | the instance for TLC | |
| `Investment` | the investment wallet of one client, baskets, fixed-term plans, both daily passes; extends `Ledger` | wallet, positions, journal, runs |
| `InvestmentReports` | the performance and the statement, functions of the journal | no state |
| `InvestmentProperties`, `MCInvestment` | what they promise, the instance | |
| `InvestmentProofs`, `ReportProofs` | the theorems on the wallet and the passes, and on the two reports | |
| `AccountOpening` | codes, requests for an account, users with their dossier and decision | four tables and the calls under way |
| `AccountProperties`, `AccountProofs`, `MCAccountOpening` | what they promise, the theorems, the instance | |
| `SignupWizard` | the pages of registration, over the bank of `AccountOpening` | the pages |
| `SignupProperties`, `SignupProofs`, `MCSignup` | what they promise, the theorems, the instance | |

One client is enough in the models of money: every statement of these services is
keyed by the client. `AccountOpening` has several, who compete for codes and places.

`CreditLine` and `FundsIn` meet in `tryAutoFulfill`: `FundsIn` ends with the call (`FollowUp`),
`CreditLine` starts with a credit of the balance (`Deposit`) and the call it
causes. They are checked apart: the call reads the balance and not the journal,
so all that one needs to know of the other is that the balance grew, and that each growth
of the main balance causes one call (`OneCallPerCredit`, proved).

State and code, credit line. `ledger` is the client's row of `ledger_balances`; `requests`
and `positions` are the tables, indexed by id in order of creation, with status
`"none"` before the row exists. `tab`, `fulfiller`, `yielder` and `liquidator`
are the local variables of handlers under way: what each has read and where it
stands. `booked`, `yieldPaid` and `unmarked` are history: the first two are sums over the
journal that the code writes and never reads back, the third is what the yield of a
position has repaid and no update has recorded on it, because the update is still to come,
has failed or was cut by a restart.

State and code, money coming in. `journal` is the table `transactions`, rows of
the types DEPOSIT and CARD_TOPUP only, in order of creation; `provider` is what
Mollie knows; `handler` holds what each webhook call or review has read. `credited`
and `call` are history. A card notification is `Notify`, `Fetch` or `FetchFails`,
`CreditTopup` or `FailTopup`, `FollowUp`; a review is `FindPending`, then `Confirm`,
`ConfirmFails` or `Reject`, `FollowUp`; a delivery of the blockchain webhook reads
nothing that changes, so it is `ProcessDeposit`, `FollowUp`. A delivery of a known
hash rolls back, a notification of a treated payment returns: neither is a step.
Real payments may be paid before or after the notification, and Mollie's answers
"paid" and "failed" are final, as the name of `MOLLIE_TERMINAL_FAILURE_STATUSES`
says of the second; `FailTopup` relies on it for the first.

State and code, investments. `ledger` is again the client's row, `positions` both
tables of positions, `journal` the rows of `transactions` that concern them, in order
of creation, `runs` the tables of daily runs keyed by day and product. `pass` is a
run of `runDailyAccrual` of either service, `withdrawal` one of `withdraw`. A pass is
`StartPass`, `RunTreasury`, for each product `FindRun` and `CreateRun` or
`CreateRunRefused`, `ReadPositions`, for each position `Accrue` and `JournalYield` (or
`RowFails`), and for plans `ReadMatured` and `Settle`. `strays` is history: it names
the ways in which what is paid or accrued parts from what the journal tells.
The reports are functions of the journal and of the number of rows it had when the
report took its time (`now`), because `buildStatementData` takes the time first.

State and code, opening an account. `codes`, `requests` and `users` are the tables (a
user's `saved` says which sections of the dossier are there and who entered
them), `call` is `InviteCodesService.redeem`, `approval` is
`AccountRequestsService.approve`. `redeem` is `StartRedeem` (the email), `FindCode`,
`CountForCode`, `Redeem` (one transaction) or `RedeemRefused` (the unique email),
then `SaveSection` for each section; an answer waits in `call` until `Reply`.
A user's `shown`, `decidedOn` and `late`, `cut` and `changes` are history or bounds:
`decideKyc` writes by id, so the adviser decides on any section "aml" that has been on
file (`shown`), and `late` marks a decision on one that had been replaced. The bank's own
edits leave the decision as it is.

State and code, page of registration. `page` is what the component keeps in its state:
the step, the form, what it waits for (`busy`), the code it asked about and the
kind of account it was told (`asking`, `type`), the preview on the page and those
under way (`pdf`, `loading`), the submission (`call`). `SignupWizard` extends
`AccountOpening`: `Submit` is `StartRedeem` by a page, `Answered` is `Reply` to one, and
`AnswerLost` leaves the call running with nobody to hear it (`ReplyUnheard`).

Atomicity. A transaction whose first write is to the ledger row holds that row
until it commits, and all transactions here write it first, so a transaction is
one action. A single statement is one action. What a handler reads before its
transaction is an action of its own, and what it does afterwards another:
`tryAutoFulfill` is `FindApproved`, `CheckBalance`, `Claim`, `Issue` or
`IssueFails`, `Link` or `LinkFails`, `Revert`; a yield pass is `YieldStart`,
then for each row `YieldCheck`, `YieldRepay`, then `YieldAdvance`, or `YieldSkips` when
the repayment is refused, or `YieldAdvanceFails` when the update throws after the repayment
has committed (the pass logs it and goes on with the next row); a
liquidation pass is `LiquidationStart`, then `Liquidate`, `UpdateWarning` or
`LiquidationSkips`. `repayCreditAndUnlockCollateral` reads the oldest ACTIVE
position before it writes: `InterestDue` therefore allows the interest of a
position that has ended meanwhile, and none for one just opened.

The same rules hold for investments: deposits and transfers write the ledger row first
and are one action; `withdraw` reads the position, inside its transaction but
without a lock, before it writes, and is two; an increment of a position and its
row of the journal are two. In `AccountOpening` the transaction that creates the user
writes nothing that another reads first, save its unique keys, and is one action.

Data. Amounts are integers in a unit small enough for the configuration: credit
(350%) and fee (2%) are exact for collateral in hundreds (`MoneyAssumption`)
and token counts are exact (`TokensAssumption`); in the code they are cut to 8 decimals
(`collateralTokenAmount`, `Decimal(28,8)`) and balances to 6. No rounding is modelled: the
two tests by which a repayment in full releases the collateral (`ledger.service.ts:163-165`)
and closes the positions (line 185) are one, `RepaysAll`, and can differ in the code for an
amount with more than 6 decimals. Prices and exchange rates are external: whoever asks for a price gets
any member of `Prices`, or an error. The interest is any member of `Interests`
instead of a product of rate and days. A currency matters only as eligible for
yield or not. The currency of the account changes only amounts for display and
the interest rate. Bounds: ids (`Requests`, `Positions`), `MaxFunds` (a deposit
stops there), `MaxUnmarked` (with more than this unmarked, no further update of the yield job fails)
and the number of processes of each kind.

Returns of a day are multiples of 100% (`SmallRates`: a day that loses everything, one
that doubles), so that amounts stay integers; the code's returns are small decimals,
and no property depends on their size. A dossier is a section by section choice of three
values, which is what the properties tell apart: nothing, an entry of the client,
an entry of the bank. On the page, whoever has an entry in the last section has
ticked its box, and whoever submits has ticked the agreement: the boxes are folded
into the entry and the submission.

External. Nothing in the code increments `usedCredit` yet: card payments are not
built (`credit/credit-engine.service.ts:163-166`), while the repayment code, the
yield job and their tests take it as drawn within the granted credit.
`CardSpend` is that, and only what follows it depends on it.

Faults. `Crash` restarts the server: local variables are lost, the database
stays. `LinkFaults` lets the statement that records the position on the request
fail; the update of a yield pass may fail in `account` and `storm` (in `yield_rerun`
`MaxUnmarked` is 0, so that the overlap alone breaks the cap).
A compensation (`Revert`) that fails itself leaves what a crash at that
point leaves. `Restart` does the same in `Investment` and `AccountOpening`; a row of a
pass may fail (`RowFails`), a section of a dossier too (`SectionFails`), and on the page
any answer may be lost, late, or overtaken by another.

### Abstract specifications

`CreditAccount` says what the client is told: a loan is asked for, agreed or
refused, granted at most once with pledge and fee in one instant, and ends once;
money moves in no other way. `AccountSpec` maps a request and the positions
opened from it to a loan, and the ledger row to the client's money. Claims,
reads, restarts and compensations are stutters. It holds as long as no repayment comes
while a liquidation pass has rows to treat (see findings). That schedule is `ApartSpec`:
`Spec`, in every step of which the used credit does not fall and no second liquidation
pass starts while one is under way. Repayments and yields before a pass and after it, and
any number of passes, are in it; nothing in the code arranges it.

`MoneyIntake` says what a client is told of a payment: announced, then credited
with the amount announced or refused, or received without announcement; each
finally, and no balance moves otherwise. `IntakeSpec` maps the rows of the journal
to payments. References, notifications, provider and restarts are stutters. It
holds as long as the bank reviews one declaration at a time (see findings).

`AccountOpening` is what the pages of registration implement: hide the pages and every
step of `WizardSpec` is a step of the bank's `Spec` or a stutter. The mapping is the
identity on the bank's variables, and it is proved, not only checked
(`WizardImplementsBank`), so what holds of the bank for calls that come from nowhere
holds for calls that come from pages.

### Runs

Each uses the MC module of its component. Deadlock is not checked: a client may stop.

| Run | Question | Bounds |
|---|---|---|
| `requests` | is a request honoured at most once, and do ledger, journal and positions agree and end once, when two calls, two deposits, the liquidation job and restarts interleave, and repayments come between its passes (`ApartSpec`)? implements `CreditAccount` | 2 requests and positions, 2 tabs, 2 deposits at a time, one repeat deposit below the requirement, repayment in full of one position's credit, 3 prices: above, at the warning, at the trigger |
| `account` | are yield, repayment and new positions consistent with each other, when updates of the pass fail? implements `CreditAccount` | one pass, updates that fail until 400 are unmarked, 3 prices (the gain of the first rise is below the cap, of the second above), partial and full repayment, interest, an asset without yield |
| `claims` | does each claim have an owner and an end? (liveness) | 2 deposits racing for 2 requests and a withdrawal that makes the issue fail; no restarts |
| `storm` | what survives overlapping passes, restarts, failed links and failed updates? | 1 position, 2 yield passes, 1 liquidation pass |
| `liquidate_repaid` | `ClosedIsFinal` violated | the smallest instance that shows it |
| `two_requests` | `OneActiveRequest` violated | |
| `yield_rerun` | `YieldWithinCap` violated | |
| `funds` | is each payment credited once, with the money in hand, and is the credit followed up, when notifications repeat, overlap and are cut by restarts? implements `MoneyIntake` (safety and liveness) | 3 rows, 2 card payments, 1 hash (which the webhook and the bank may both use), 2 notifications at a time, 1 review |
| `confirm_twice` | `CreditedOnce` violated | 1 row, 2 reviews at a time |
| `invest` | do wallet, positions, performance and statement agree with the journal when passes overlap, rows fail and the server restarts? | 1 basket (the one that follows the treasury bot), 1 plan, 2 positions, 2 passes, 1 withdrawal, 2 days, client stops at 3 rows, a window of 2 months |
| `opening` | what do a code, the capacity, a request and a decision still guarantee when redemptions, approvals, rejections and changes overlap? | 2 emails, 1 code, 2 requests, 2 calls, 1 approver, 1 place, 2 sections, 2 changes |
| `signup` | is the client told the truth and shown what is opened, when answers are lost, late or overtaken? | 1 page, 2 codes of 2 kinds, 2 entries, 2 calls, 1 preview under way |

Why the bounds are enough: a race in this code is between two handlers over one
row, so two of each kind that competes shows it; a second request and a second
position are needed because the ledger aggregates (one client's positions share
`locked` and `granted`), a third adds no new relation. In `storm` a single
position keeps the sums of repeated yields finite. In `funds` three rows let a
payment of each kind, or three of one kind, be under way together; every property
relates at most two rows (through a reference they share) or one row and its calls.

In `invest` two passes of either kind cover a pass that overlaps with its like (started
by hand) or with the other kind (both run the treasury bot). A day of the model is a
month of the reports, so two days give a statement an opening, a quiet month and a
month cut in the middle; a pass never runs over midnight, for they start at 03:15 and
03:30 (`NextDay` waits for them). `MaxRows` stops the client, not the passes, which are
bounded by `MaxPasses`. In `opening` there is one place: with two requests and two emails
it can really be overshot, by a redemption and an approval or by two redemptions.
More types, codes or entries add names, not cases: a call holds one of each.
`MaxChanges` leaves a decision and a change after it, in both orders. In `signup` one email is enough
because another client's account matters to the page only through `Exists`, and
one preview at a time loses nothing: once two previews differ, the form has changed
after the first was asked, which is the case that `RecapHonest` excepts. There the
symmetry of codes is not used (they differ in kind); calls, entries and kinds are
interchangeable. A reload of the page is a new page, and is `Pages` in the proofs.

Fairness. `FairSpec` is weak fairness of each `tryAutoFulfill`: once started, its
next statement is always possible (it waits for nothing but the database), and
Node runs it to its end unless the server stops; so `ClaimSettles` is checked
without `Crash`. Clients, the bank, prices and jobs have no fairness.

In `FundsIn` only `FollowUp` is weakly fair, for the same reason; restarts are
allowed, and a call they cut is recorded as `"cut"`: the money stays, the request
waits for the next deposit. Notifications, Mollie and the bank have no fairness,
so nothing is claimed of a payment that is never notified.

`Investment`, `AccountOpening` and `SignupWizard` state no fairness. A pass that stops leaves
rows for the next night, by design, and a call may be cut anywhere, so nothing there
must happen that safety does not already say.

### Findings

1. `liquidate_repaid`: a position repaid in full between the snapshot of the
   liquidation pass and its turn goes from CLOSED to LIQUIDATED, against
   `backend/prisma/schema.prisma:96-100`. The clamp of
   `LedgerService.liquidateCollateral` hides the missing collateral, or takes it
   from another position of the client.
2. `two_requests`: a request whose issue fails after its claim returns to
   APPROVED beside a request made meanwhile, against
   `credit-requests/credit-requests.service.ts:46-47`.
3. `yield_rerun`: overlapping yield passes repay the same gain twice, past the
   cap of `credit/collateral-yield.service.ts:26-27`. It waits for used credit,
   which card payments will bring. One pass at a time does so too: when the update of
   lines 159-165 fails, or a restart comes before it, the repayment stays, neither price
   nor amount is marked, and the next pass repays the same gain. `YieldWithinCap` and
   `YieldCoveredByGain` leave room for that (`unmarked`), so that they say what else may
   not happen; the promise of lines 26-33 is not kept in that case either.

4. `confirm_twice`: `confirm` looks at the status before its transaction and
   updates by id, so two colleagues who confirm the same declaration at once
   credit it twice, against `common/exceptions/deposit-intent.exceptions.ts:26`
   and the test `deposit-intents/deposit-intents.service.spec.ts:244`. `creditTopup`
   (`payments/mollie.service.ts:223`) has the guard that is missing.

Two more, without a promise in the code to check against: a failure of the
update at `credit-requests.service.ts:195` gives back a claim whose credit was
issued, so the next deposit issues it again; and a restart between claim and
issue leaves a FULFILLED request without position.

Statements that are false, met while the models were written. No run is spent
on them; each of the properties named is the strongest form found that holds.

- The asset of a request does not change once chosen
  (`credit-requests/credit-requests.service.ts:107-111`): two calls of
  `generateDepositAddress` at once both find none and the second overwrites the first. With
  one call at a time the statement repeats the check before the update, so no property
  is left.
- A code opens one account (`invite-codes/invite-codes.service.ts:178-180`): two
  redemptions that overlap both succeed, because the code is marked by id. `CodeOverlap`
  bounds it: no more accounts than redemptions at work at once.
- The capacity is kept (`account-requests/account-requests.service.ts:110`): it is
  exceeded by those who had counted. `CapacityOvershoot` bounds it.
- A rejected request stays rejected: an approval that had read it PENDING approves it.
  `ApprovalHasAccount` says that status and account go together even so.
- KYC status and review are never out of step (`admin-clients/admin-clients.service.ts:457-458`):
  `submitAmlProfile` resets the decision and leaves the status VERIFIED. `DecisionStands`
  says what holds while a decision is on file.
- A decision is about the dossier on file (the reason `submitAmlProfile` gives for its
  reset, `users/users.service.ts:281-287`): `decideKyc` writes by id what was decided on a
  dossier that may have been replaced since it was read. `DecisionStands` excepts such
  late decisions, and what the bank itself enters.
- An investment yields once a day (`investment/investment-statement.ts:63-64`): a second pass
  the same day accrues again. The properties of `Investment` hold of repeated passes.
- The portfolio shown is the value of the active positions: `PortfolioExplained` names
  the four ways in which it is not.
- What was shown is what is opened: `RecapHonest` names the two exceptions.

### Proofs

`CreditLineProofs` and `CreditBooksProofs`, for all values of the constants
that satisfy the assumptions of `CreditLine` (`IdsAssumption`, `MoneyAssumption`,
`TokensAssumption`, `SettingAssumption`), with any number of processes of every
kind and with restarts, except where the second column says otherwise:

| Theorem | Provided | Says | Inductive invariant |
|---|---|---|---|
| `TypeCorrect` | | `[]TypeOK`: the balances stay natural numbers, so nothing overdraws the row | `TypeInv`: `TypeOK`, plus that a tracked position has an entry price (the gain is divided by it) and that a process past `FindApproved` has a request |
| `NothingUnexplained` | | `[]JournalCovered` | `TypeInv` and `JournalCovered`: each statement moves the account at least as far up as the journal; only the clamp of a liquidation makes it an inequality |
| `IssuedOnce` | `~LinkFaults` | `[]CreditIssuedOnce` | `IssueInv`: a request between claim and link is FULFILLED, belongs to one process and has no position yet (or, at the link, the one just opened); a position came from a FULFILLED request; one position per request |
| `LifecycleKept` | `~LinkFaults` | `RequestLifecycle` | the same: what `Revert` gives back has no position |
| `ClaimOwned` | `~Crashes` | `[]ClaimHasOwner` | `OwnerInv`: claimed requests and processes that hold one correspond one to one, both ways |
| `PledgesReconciled` | `ApartSpec` | `[]PledgeReconciles` | `OneUnderWay` (one liquidation pass at a time) and `BooksInv`: finitely many open positions, both sums, and `CopiesTrue`: a row the liquidation pass has still to treat is an open position with the same pledge |
| `BooksBalanced` | `ApartSpec` | `[]BooksBalance` | the same |
| `EndIsFinal` | `ApartSpec` | `ClosedIsFinal` | the same: what the pass liquidates is still open |
| `UnsecuredExplained` | | `[]UnsecuredOnlyByLiquidation` | the property, with `TypeInv`: `applyRepayment` refuses what exceeds `used`, a repayment in full empties both |
| `ImplementsAccount` | `~LinkFaults`, `ApartSpec` | `AccountSpec` | `AccountInv`: `TypeInv`, `IssueInv`, `OneUnderWay`, `BooksInv` and `AmountsInv` (amounts are those asked for, also on the way to the row) |
| `RepaymentsRecorded` | `OnePass` | `[]YieldRecorded` | `YieldInv`: the copy of the pass is fresh where it matters, a repayment that is due is owed by the gain and the cap, the amount on a row is within cap and gain, and what was paid beyond it is `unmarked` |
| `CapHolds` | `OnePass` | `[]YieldWithinCap` | the same |
| `GainPaidOnce` | `OnePass` | `[]YieldCoveredByGain` | the same |
| `RatchetKept` | `OnePass` | `RatchetHolds` | the same: what the pass writes is at least what its copy says, and the copy is fresh |

The provisos are where the code needs them. `ApartSpec` in the second column stands for
`Spec` as the specification the theorem is about: repayments, yields and liquidation
passes all run, restarts and failures included, but what is under way in a liquidation pass
ends before anything is repaid; otherwise the position it treats may be closed already
(`liquidate_repaid`). The proof uses this once, in `PayBackApart`: whoever repays finds no
row left to treat. It is the specification of the run `requests`; in `account` there is
no liquidation pass, and `Spec` is `ApartSpec`. `OnePass`: one yield pass at a time, for with
two the cap is passed (`yield_rerun`); restarts and failed updates need no proviso, as
`unmarked` counts what they leave behind.

`CreditIssuedOnce` alone is not inductive: a state with a position opened from
an APPROVED request satisfies it, and the next deposit breaks it. Nor is
`PledgeReconciles`: a copy of a closed position in the liquidation pass satisfies it, and
the next step takes its collateral again. Nor is `YieldWithinCap`: a stale copy of a
position has capacity left that was used.

Sums. `SumFunctionOnSet` of the community modules is a fold over a finite set, and its
equation is not a theorem of the library. `FiniteSums` proves it without induction
over operators: the sets for which a statement fails are a set of sets, the
cardinalities of its members a set of naturals, and this has a least member
(`SmallestSet`, from `WFMin` and `NatLessThanWellFounded`). From `SetInduction` follow
that the function which the fold chooses exists, that a sum does not depend on the order
(`SumSplits`), and what one more term, one less and a changed one do to it
(`SumOfMore`, `SumOfLess`, `SumOfChange`), that disjoint sets and pointwise sums add
(`SumOfUnion`, `SumOfBoth`), and that only the terms that are not zero count (`SumOfPart`).
The properties with sums are therefore written as sums of a function over a set.

`FundsInProofs`, for all values of the constants that satisfy the assumptions of
`FundsIn` (`RowsAssumption`, `AmountsAssumption`, `RefsAssumption`,
`HandlersAssumption`, `CrashesAssumption`), any number of notifications and
deliveries at a time, restarts, and `OneReview`: at most one review of a
declaration at a time. Without it `CreditedOnce` is false (`confirm_twice`).

| Theorem | Says |
|---|---|
| `FundsInvariant` | `OneReview` gives `Spec => []FundsInv` |
| `PaidInOnce` | `OneReview` gives `Spec => []CreditedOnce` |
| `CreditedWhenPaid` | `OneReview` gives `Spec => []PaidBeforeCredited` |
| `ImplementsIntake` | `OneReview` gives `Spec => IntakeSpec` |
| `ReferenceCreditedOnce` | `OneReview` gives `Spec => []OneCreditPerReference` |
| `BalancesExplained` | `OneReview` gives `Spec => []BalanceExplained`, with `BalanceInv`: finitely many completed rows on each balance, and the sums |
| `CalledOncePerCredit` | `OneReview` gives `Spec => []OneCallPerCredit`, with `CallsSound`: a row is owed a call exactly when one is to come or was made or cut, and a call to come is about a row |

`FundsInv` says that a row was credited once if COMPLETED and otherwise not, that
a completed or failed card payment agrees with Mollie, that two rows share no
reference, and of each call under way what it may still rely on: a notification
about to credit knows the payment is paid (so the row cannot become FAILED), a
review under way holds a row still PENDING. The last part is what two reviews
break. `CreditedOnce` alone is not inductive: it is silent on a PENDING row that
was already credited.

`InvestmentProofs`, for all values of the constants that satisfy the assumptions of
`Investment`:

| Theorem | Says | Inductive invariant |
|---|---|---|
| `TypeCorrect` | `Spec => []TypeOK`: no debit overdraws, no pass accrues a return it does not have | `TypeOK` and `PassSound`: what a pass has read is known where it is used |
| `RateWrittenOnce` | `Spec => []DayRateFinal` | `RatesAgree`: the returns of a pass are those recorded for its day; `CreateRun` keeps it only by the unique key of day and product |
| `WalletFollowsJournal` | `Spec => [][Journalled]_vars`: every step moves the wallet by what the statement makes of the row it journals | the same |
| `WalletIsExplained` | `Spec => []WalletExplained`: the balance is the one the statement works out | `BalanceIsSum`: the sum over the whole journal gains what each row adds (`SumOfMore`) |
| `YieldsJournalled` | for finite `Ids` and `Passes`, `Spec => []YieldJournalled` | `YieldBooks`: the sums agree until a pass is cut, a row not yet opened has no yield and is in no list of a pass, and only a pass between its two statements has a yield in flight |
| `PlansPaidWhenDue` | `PassesAlone` gives `Spec => [][PlanPaidWhenDue]_vars`: what `settlePosition` pays is active, at its date, and worth what is paid | `DueInv`: each task in the list of a pass is still true of its position (`TaskDue`), two tasks are not of one position, a withdrawal is from a basket, and no active position is worth less than nothing |

`PassesAlone`: one pass at a time, and no return of a day under -100 %. The passes are
scheduled once a day (`@Cron`, a quarter of an hour apart) and overlap only when the bank
starts one by hand; two that overlap pay a plan twice, which is why `PortfolioExplained`
has its `strays`. The returns are a positive baseline plus the mean of market changes, so
that no day loses more than everything. `PlanPaidWhenDue` is defined beside its theorem.

`ReportProofs`, for all values of the constants besides, the number of months included:

| Theorem | Says | Inductive invariant |
|---|---|---|
| `PerformanceIsFlow` | for any journal, the running value that the performance folds month by month is, at the end of each, the flow of all rows up to then | none: a statement on the functions |
| `StatementAdds` | for any journal whose rows are in order, the statement adds up and its openings are what comes before it | none |
| `StatementsReconcile` | `Spec => []StatementReconciles` | `RowsInOrder`: the days of the journal never go back nor past today |
| `PortfolioIsExplained` | for finite `Ids` and `Passes`, `Spec => []PortfolioExplained` | `RowsInOrder`, `YieldBooks` and `PortfolioBooks`: leaving the yields aside, the principal of active positions less the yield of ended ones is the flow of deposits and payments, until one of the `strays` |

The performance is a recursive function of the months, and induction over an operator is out
of the prover's reach. It is done by the least month at which two functions that satisfy the
same recursion differ (`RunsOnce`, by `LeastNatural`); the sum of the flow up to each month satisfies
it (`FlowRuns`), so that it is the one the code computes, and the sections of a statement
telescope (`TotalsTelescope`). `PortfolioExplained` alone is not inductive: an increment of a
yield and its row are two steps, and a list read by a pass may hold a position that has ended.

`AccountProofs`, for all values of the constants that satisfy the assumptions of
`AccountOpening`, any number of codes, requests, calls, approvals and restarts:

| Theorem | Says | Inductive invariant |
|---|---|---|
| `TypeCorrect` | `Spec => []TypeOK` | `AccountInv`: `TypeOK`, `Sound` (what a handler under way has read is filled in and its user is where it says) and `Linked` (an account opened by a code or a request finds it marked) |
| `RequestsHonoured` | `Spec => []ApprovalHasAccount` | `AccountInv`, whose `Linked` says it one request at a time |
| `CodeUsedWithinOverlap` | `Spec => []CodeOverlap` | `AccountInv` and the property: a redemption moves from `PastCode` to `OpenedBy`; that only those who had passed the check may follow needs `Linked`, which marks the code with the first account |
| `CapacityKept` | `Spec => []CapacityOvershoot` | the same exchange between `PastCount` and `Clients`; when a handler counts there is a place, and whoever else had counted is another handler |
| `DecisionHolds` | `Spec => []DecisionStands` | the property, with `TypeOK`: whatever was on file when the bank decided, only a submission of the client replaces it by the client's hand, and that ends the decision |
| `DossierKept` | `Spec => []DossierComplete` | `SavedSoFar`: a registration at section n has saved all those before |

`SignupProofs`, for any number of pages and previews besides:

| Theorem | Says | Inductive invariant |
|---|---|---|
| `WizardImplementsBank` | `WizardSpec => Spec` | `PagesSound`: what a page sends to `redeem` is filled in, by the step the page is on |
| `ToldTrue` | `WizardSpec => []ToldWhenOpen` | `ShownSound`, over `DossierInv` of the bank (by the refinement): the call a page waits for is about the page's form, is nobody else's, and once past its transaction has opened that account |
| `RecapTrue` | `WizardSpec => []RecapHonest` | the same: past the first step the kind shown is that of the code asked about, and unless the form was edited all previews are of the form as it is |

Neither is inductive alone: a page that waits for a call about another form satisfies
`ToldWhenOpen`, and the answer breaks it.

Only model-checked: liveness (`ClaimSettles`, `CreditFollowedUp`), because fairness is out of
the prover's reach; what they lead from is proved (`ClaimHasOwner`, `OneCallPerCredit`). Every other property of the passing runs is stated by a theorem.

## 3. Plan

Done: the credit line, money coming in, investments with their reports, the opening of
accounts, the page of registration; the proofs of section 2.

Left, in this order.

1. The composition of `FundsIn` and `CreditLine` at `tryAutoFulfill`, in place of the
   argument of section 2 by which they are checked apart.
2. The pure function of `direct-credit.service.ts` against a reference definition.

Out of the reach of the proofs: liveness under fairness.

## 4. Not modelled

- The treasury bot: a chain of daily figures shown in the back office. Its return of a
  day is an input of `Investment` (`BotRates`), which is all that reaches money.
- Market data and their caches: feeds and fallbacks for displays; the jobs that use a
  price take any, or none.
- Authentication and the lockout: a measure of security, without shared state with the
  components modelled.
- KYC documents: one statement each; that `setVerified` certifies a file replaced
  meanwhile is what the statement says, and nothing in the code decides by the flag.
- Direct credit: a pure judgement by five criteria, stored once.
- Of users and the back office: the flags "verified", risk level, notes and phone.
- Addresses, cards, listings, VAT, chat: one statement, one read or one call through.
- Layout of PDF documents, and the frontend save the page of registration: about
  two thirds of the lines of the repository. They display what the backend returns and
  send one request per form; they keep no state that several steps change, so a share of
  lines covered by the modules stays small however much of the logic they hold.
