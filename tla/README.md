# Verification of the Washermann backend

The backend is a NestJS service over PostgreSQL (TypeORM) and Redis for a laundry marketplace:
customers buy WashPoints (WP) and pay orders with them, a wash rep picks the garments up and brings
them back, a vendor washes them, and the price is held in escrow until delivery. Around that are
vendor and rep earnings, gift cards, companies, teams, sales reps, policies and content. This
directory holds TLA+ modules of its services, TLC configurations that check them on small instances,
and proofs that TLAPS checks for every value of the constants. `src/` below is the repository;
services are under `src/src/modules/`, entities under `src/src/database/entities/`.

    tlc -workers 2 -config OrdersConcurrent.cfg MCOrders     # the runs of section 3
    tlapm PaymentsProofs.tla                                 # and the other *Proofs.tla

`PROJECT.json` maps every definition to the lines it models, and lists the components, the runs, a
mutant of the code for each property, the findings, and the hazards of the code with the properties
aimed at them.

## 1. The system

### Components

| Component | State it keeps | Operations that change it | Hard part | Correct when |
|---|---|---|---|---|
| Orders (`orders/orders.service.ts`) | `orders`, `order_escrows`, ledger rows | place, confirm payment, `transition()`, garment log, failed delivery, disposal, complete, cancel, expire drafts, sweep uncollected, settle abandonment | every handler loads the row, awaits, saves its copy; settlement spans several commits | an order is charged once, its escrow settles once, status and money agree, a delivered order is released |
| Assignment (`assignment/`) | `assignment_broadcasts`, party columns of `orders` | start, broadcast, accept, decline, expire, assign | offers and order are saved in separate commits; the cron races the answers | one party per role, batches follow one another, no order is forgotten |
| Cron tasks (`tasks/`) | none | drive the above, payout holds and deductions | save copies found before their loop | everything half-done is taken up again |
| Customer wallets (`wallets/`) | `wallets`, `ledger_entries` | credit, debit | locked in `credit`, not locked in the order service | balance = sum of the ledger |
| Payments (`payments/`, `orders/order-funding.service.ts`) | `paystack_transactions`, funding links | initialise, webhook, verify, fund an order through a link | duplicate and late webhooks; commit before credit | a payment is credited once, and only if money was taken |
| Vaults (`vaults/`) | vaults, default flag | issue, promote, auto-create, set default, deactivate | jobs left running after the response | no vault gives more than it has |
| Gift cards, company wallets | cards, redemptions, `company_wallets` | create, redeem, revoke, expire; credit, debit, freeze | revoking and freezing work on unlocked copies | a card pays out what was paid for it |
| Payouts and deductions (`payouts/`, `vendors/`) | payout requests, deductions, earnings wallets | request, approve, hold, release, transfer, respond, apply | external transfer between two commits, a lost answer | nothing is sent to the bank without a debit; what was not sent is not charged |
| Reps (`reps/`) | profile, pseudo-wallet | update, availability, credit, monthly cycle | the cycle loads everybody first | every point is in exactly one cycle |
| Disputes, logistics legs | disputes and events; legs with escrow | resolve with refund; pay, collect, deliver, settle, cancel, return leg | partial failure after a credit | refunds and payments are the recorded ones |
| Vendors, price sheets, catalogue | vendor row, sheets, cached prices | verify, suspend; propose, review; price epoch, quotes | whole-row saves, prices cached three deep | live prices are locked, quotes are current |
| Sales reps, teams, companies | applications, referrals, cash payouts; members; admins, tiers | review, pay; transfer ownership; activate, remove | denormalised copies kept in step by hand, in commits of their own | nobody is paid twice, one owner |
| Accounts, addresses, suspensions | users, sessions and codes in Redis; notices | sign in, suspend, delete; notice, decide | rows and sessions are written apart; several services write the standing | a closed account is out |
| Policies, notifications, blog | versions, acceptances; templates, inbox; posts | publish, accept; send; review, publish | publication in three saves | consent resolves, everybody is told, readers find what was reviewed |

### How they interact

A customer's money arrives through Payments (Paystack webhook or verification): the vault is debited,
the wallet credited, and if the payment came by a funding link, `confirmPayment` is called.
`confirmPayment` debits the wallet, inserts the escrow row and starts the rep assignment without
awaiting it. A rep's acceptance starts the vendor assignment; a vendor's acceptance calls
`transition(SCHEDULED)`. Reps and vendors drive `transition()` up to `DELIVERED`; the customer or the
`autoReleaseEscrow` cron calls `completeOrder`, which credits vendor and rep and releases the escrow.
Vendors take their earnings out by payouts (Paystack transfers); reps' points are closed every month
with a bonus. Gift cards are bought from a vault or a company's wallet and redeemed into customers'
wallets. Suspensions switch vendors and reps off. The crons re-drive what was left half-done. All
shared state is in PostgreSQL rows and Redis keys; there is no in-process lock.

### What is hard in it

- **Await points.** A handler suspends at every `await`; another may change the row in between, and
  `repository.save(copy)` then writes back every column that differs from the copy.
- **Transactions that are not what they seem.** Inside `dataSource.transaction(...)` some reads use
  the outer repository, and some writes go through services that commit by themselves.
- **Fire-and-forget** calls (rep assignment, vault promotion, notices) that a restart loses.
- **Crons** that load a list and then save each copy.
- **External answers** that are late, lost or repeated (Paystack).
- **Denormalised copies** (owner and count of a team, platform roles, cached prices, standing).

The full list, line by line, is `hazards` in `PROJECT.json`.

## 2. The modules

| Module | Models |
|---|---|
| `OrderStatus` | the status enum, `ALLOWED_TRANSITIONS`, `CANCELLABLE_STATUSES` |
| `OrderSettlement` | orders, customer wallet, escrow and ledger: every writer of `orders.service.ts` for a laundry order |
| `EscrowContract` | abstract: hold, release or refund the whole price of an order once |
| `Assignment` | offers, batches, answers, expiry, admin assignment and cancellation of one order |
| `Vaults` | issuing points under a lock, promotion and auto-creation after it, admin operations |
| `Payments` | top-ups and order funding, on `Vaults`; Paystack is the environment |
| `TopUpContract` | abstract: a top-up is opened, paid, and credited once |
| `GiftCards` | cards and the company's wallet, on `Vaults` and `Requests` |
| `Requests` | the handlers in flight, shared by the modules below |
| `Payouts`, `Reps`, `Disputes`, `Logistics` | payouts, deductions and the earnings wallet; reps and the bonus cycle; disputes; logistics legs |
| `VendorProfiles`, `VendorPricing`, `Catalogue` | vendors; their price sheets; platform prices, bags, bundles and quotes |
| `SalesReps`, `Teams`, `Companies` | sales reps, referrals and cash payouts; teams; companies, tiers and employees |
| `Accounts`, `Addresses`, `Suspensions` | users, sessions, codes and staff; addresses; suspension notices |
| `Policies`, `Notifications`, `NoticeTables`, `Blog` | policies and consent; notices and templates; the tables of notices; blog posts |
| `MC*` | constants and symmetry for TLC, and the behaviours that put several services into one run |
| `*Proofs` | theorems and their proofs, section 4 |

### From code to actions

A handler in flight occupies a slot `p`; `call[p]` (`req[p]` in the order and payment modules,
`job[w]` in `Vaults`) records where it is suspended (`pc`) and the rows it has loaded. One action is
the code between two awaits that matter. So `confirmPayment` is `ConfirmPayment` (load, status
check), `ConfirmWallet` (load the wallet, balance check), and `ConfirmCommit` or `ConfirmRollback`
(the transaction, whose unique `order_id` of `order_escrows` decides which); publishing a policy is
`PublishVersion` (the checks), `ArchivePublished`, `SavePublished` and `ServePublished`. Conventions:

- **`save` of a loaded entity** writes the whole copy: TypeORM selects the row again and updates the
  columns that differ, so any column someone else changed between load and save is written back.
  `Reps` keeps that select (`SaveRep`) apart from the update (`WriteRep`), because its property depends
  on whether two columns of one row are written together; elsewhere the two are one step.
- **A transaction** is one step, at its commit, except for the calls inside it that use other
  connections: they are steps of their own, before it, and survive its rollback. A row lock is what
  makes such a step read the row of the moment.
- **Commits** the code makes one by one (a member, then the team's count, then the platform role; a
  wallet, then its ledger row) are steps of their own.
- **A handler that is one step** (`OneStep`) inserts a row, or loads and saves one whose loss by an
  overlap no property tells apart: creations, answers kept in Redis, tiers and employees of a company,
  applications and rules of sales reps, new versions of a policy.
- **A failure** (`Fail`, `Dies`) ends a handler between two steps: an exception after the last
  commit, a restart, a lost connection. Handlers of `VendorProfiles`, `VendorPricing` and `Blog` make one
  save only; one that dies before it is one that never goes on. In `Notifications` a send may fail.
- **A call that changes nothing** (guard not met) is no action. A guard that looks at a copy is
  checked on the state in which the copy is read.
- **Time** is not counted: whatever waits for a cutoff (drafts, notices, offer windows, holds, auto
  release, a link's 48 hours) may happen once its other conditions hold. In `VendorPricing`, where
  the order of effective dates matters, there is a clock of a few moments.
- **Remembering variables.** Many properties of this code hold unless two handlers overlapped on a
  row. `raced`, `walletRaced`, `overtaken`, `earningsRaced`, `payoutRaced`, `pseudoRaced`, `repRaced`,
  `disputeRaced`, `legRaced`, `vendorOdd`, `blurred`, `upToDate`, `outdated`, `reviewed`, `teamOdd`,
  `roleOdd`, `companyOdd`, `overlapped`, `lingering`, `entangled`, `unsettled`, `policyOdd`, `postRaced`
  record what the property excepts, as narrowly as it allows: mostly the rows an outdated copy was
  saved over, and what no comment or document denies. They are variables of the model only: no guard
  reads them. What they except is where the code does lose updates. A property without such an exception
  holds through every overlap of the steps described here.

Notes on single modules:

- `OrderSettlement` counts earnings of vendor and rep as ledger rows per source, which tells a
  missing from a double credit; the wallet of the customer and the escrow hold real amounts.
- `Assignment` follows one order, because offers of different orders meet only in the scoring of
  candidates, which is an arbitrary choice here. `Lapse` ends the oldest open offer window.
- `Payments` keeps what Paystack knows of a reference in `charge`; `charge.success` and
  `charge.failed` may be delivered at any later time and any number of times.
- In `Payments`, `overtaken` holds the references a verification took for paid on a copy read before the
  webhook settled them. The code credits such a reference again; the mapping to `TopUpContract` counts
  its credits as one (`Credits`), so that the contract is checked, and proved, under every overlap.
- `Logistics` follows a leg from payment to settlement or cancellation; pickup, delivery, cancellation and
  settlement each check a copy and save it later. `Reps` writes a credit's wallet and ledger row, and the
  wallet and row of a bonus, in separate steps.
- `Teams` and `Companies` make every commit of `addMember`, `removeMember`, `changeMemberRole`,
  `deleteTeam`, `addAdmin` and `removeAdmin` a step. A transfer of a team is one transaction, followed by
  the sync of the platform role, user by user.
- `Accounts`: Redis may fail to delete a session, which the code swallows, and the handler may die before
  (`lingering`). `Suspensions`: every operation on a notice loads, awaits and saves; `SetStatusElsewhere`
  stands for the admin's and the profile's own writers of the standing.
- `Catalogue` computes with kobo and percentages as the code does (integer rounding), for one bag and
  one bundle.
- `NoticeTables` lists which notice sends which template to whom by which channel, group by group,
  as `notifications.service.ts` and `default-templates.ts` have it.

## 3. What is checked

| Run | Instance | Shows |
|---|---|---|
| `orders_concurrent` | 1 order, 2 requests, 1 failure, every operation | an order is charged at most once, exactly when it has an escrow row (`ChargedOnce`); nothing is refunded or earned on an uncharged order (`MoneyOutNeedsMoneyIn`); a completed order was paid out and a settled one holds no escrow (`SettledIsPaid`) |
| `orders_serial` | 2 orders of one wallet, 1 request at a time | status, escrow and wallets agree exactly (`Reconciled`); status moves only along the table (`StatusMachine`); the model implements `EscrowContract` |
| `orders_live` | 1 order, 1 slot, 2 failures, fair crons | a paid order is broadcast, a draft decided, a delivered order released, an uncollected one settled |
| `assignment_concurrent` | 1 order, 1 rep, 1 vendor, 2 requests, 1 failure | an answered, lapsed or cancelled offer is never open again |
| `assignment_serial` | 1 order, 2 reps, 2 vendors, batches up to 2, fair | open offers follow the order's status, batches follow one another; every broadcast and every open offer ends |
| `payments` | 1 reference, 1 funding link, 2 vaults, 2 requests, 1 job, 1 admin operation, 1 failure, fair | `WithinCapacity`, `NoCreditUnpaid`, `SpentLinkOrderPaid`, `ImplementsTopUp`, `PaidIsCredited` |
| `gift_cards` | 1 card of two uses, 2 users, 3 vaults, 5 calls, 1 death, fair | `PaysOutWhatWasPaid`, `CompanyBooks`, `ClaimsAreCredited` |
| `operations` | one service at a time, 2 slots, 4 to 6 calls, 1 death | reps: `AvailableIsActive`, `EveryPointInOneCycle`; payouts: `WalletBooks`, `ChargedForWhatHappened`, `TransferIsBacked`; `RefundedAsRecorded`, `LegMoneyAddsUp`, `StandingIsRight`, `LivePriceIsLocked`, `QuotesAreCurrent` |
| `platform` | one service at a time, 2 slots, 2 to 6 calls, 1 death | `OneTeamOwner` (2 teams, 2 people), `CompanyHasOwner` (2 companies), `RewardPaidOnce` (1 referral, 2 payouts); `ClosedAccountIsOut`, `OneDefaultAddress`, `NoticeTellsStanding`, `ConsentResolves`, `NobodyLeftOut`, `ReadersFindReviewed` |

Each property's comment says what it means and where it stops. Runs with an expected violation, each
a finding:

| Run | Property | What the trace shows |
|---|---|---|
| `lost_update` | `BalanceIsLedger` | two orders of one wallet confirmed at once: the second commit writes a balance read before the first |
| `abandon_twice` | `VendorPaidOnce` | an abandonment that stops after the vendor's credit credits the vendor again at the next sweep |
| `payout_queued` | `QueuedCompletes` | a transfer Paystack queued is never heard of again: `handleWebhook` acts on charges only, and its payout stays PROCESSING |

### Several services in one run

The services of `MCOperations` and of `MCPlatform` share no state. A behaviour chooses one of them at
the start (`service`) and the others stay in their initial state, so the run's states are the union
of the services' states and not their product. `Bound` gives each service its number of calls: `calls`
starts at `MaxCalls - Bound[service]`. `operations` has about 1.2 million states, `platform` 0.7 million.

### Bounds, and why they are enough

- Every lost update, stale save and double settlement in this code is a race of two handlers on one
  row; two slots show them all. One failure leaves any handler half-done, two (`orders_live`) fail the
  retry.
- `orders_concurrent`: the wallet covers the price only after a top-up, so the balance check is met
  both ways. `orders_serial`: the wallet pays for one order and, topped up, for both; a garment log
  may leave the vendor with no share, in which case nothing is credited to the vendor. `MaxRows` stops
  further settlements of an order once it has that many ledger rows of one kind; requests already in
  flight may exceed it.
- Two reps and batches of one or two give a full batch, a partial one, a second batch and exhaustion.
- `payments`: one reference delivered to two slots gives the duplicate webhook, the verification
  racing it and the late failure. The first vault is used up by one payment, so every purchase leaves
  a promotion running. An account may be a customer's or a company's; they are credited alike.
- `gift_cards`: a card of two uses distinguishes unused, partly used and exhausted, and is paid for
  by one company top-up. Vault administration is the subject of `payments`.
- `operations` and `platform`: the calls of each service suffice to build a row up to its last status and
  to overlap two handlers on it (3 for accounts; 4 for teams and price sheets, and for companies and the
  catalogue, whose rows start in several states; 2 for notifications; 5 or 6 elsewhere). Three legs give a collection
  with two return legs; two payouts of a sales rep, two owners, two default addresses, two notices, two
  versions and two posts at one address are what the properties tell apart. `Drafts = {"a"}` makes the
  blank text the only one that was never in review; that readers never find it is what a leak would break.
- `SYMMETRY` is over slots (and nothing else) and only in runs without liveness.
- `CHECK_DEADLOCK FALSE` everywhere: a system whose rows are settled and whose bounds are used up is
  meant to stop.

The type invariants of the order, assignment, payment, policy, address, suspension, blog, rep and
payout modules are part of the proofs of section 4. `TypeOK` of `GiftCards`, `MCOperations` and
`MCPlatform` gathers those of the other modules; TLC confirms them on the runs' instances when they
are added to the configuration as invariants.

### Fairness

`FairSpec` assumes that a suspended handler is resumed (`WF` on `Step`: Node.js resumes a settled
promise; a handler that dies instead is a failure) and that crons tick for ever. Cron actions of
orders and assignment are strongly fair: a cron never lacks a slot, as slots bound the model and not
the program, and it meets the row again at every tick. In `Payments`, Paystack redelivers
`charge.success` until it is answered (strong fairness, again because of the slots), and vault jobs are
resumed. In `payout_queued`, Paystack executes what it queued. Nothing is assumed of customers, reps,
vendors or admins: they need never act. In `Assignment`, windows end (`WF` on `Lapse`).

## 4. What is proved

For any number of rows, people and handlers in flight, any prices and amounts, and for overlaps and
failures between any two steps of the models (section 2 says where a handler is one step). Each proof uses the `ASSUME` of its modules and neither the bounds
nor the numbers of calls. The assumptions are types of the constants; that the values for "no row" and
"no call" are not rows or calls; that the people of a team or company and the catalogue's items are
finitely many (members are counted, prices summed); and for `Catalogue` that the lowest rate exists and
that `Price` of the vendors' prices is a natural number. The last one stands for an induction: `Price`
takes the median of a sorted sequence. TLC evaluates every one of them.

All 26 invariants that passing runs check are theorems, and so are five of the action properties and both
refinements. What the code keeps only while requests do not overlap is stated with that condition:
`Spec /\ []Apart => []Reconciled`.

**`OrderSettlementProofs`**: `Typing`, `FundedOrdersHaveEscrow`, `RequestsAreBacked`,
`ConfirmChargesOnce`, `NoMoneyFromNothing`. That a funded order has an escrow row is not inductive: a
handler may save a paid copy of an order long after it loaded it. The invariant is

    IInv == TypeOK /\ FundedHasEscrow /\ BackedRequests /\ ChargedOnce /\ MoneyOutNeedsMoneyIn

where `BackedRequests` says that whatever a request holds a paid copy of, or is about to spend on, has
an escrow row already. Since an escrow row never disappears, a backed request stays backed whatever
the others do.

On top of it: `EscrowMovesOneWay`, `WalletsStayNonNegative` (the copy of the balance a request carries
covers the price it is about to subtract), `SettledOrdersArePaid` (a request past a credit of
`completeOrder` has its ledger row, and rows are never removed).

Then, while no two requests on an order overlap and none dies (`Apart`; requests on different orders,
also of one wallet, overlap freely): `StatusTellsTheMoney` and `StatusFollowsTable`. Neither property is
inductive, since a handler pays in several steps before it marks. `Audited` says of an order nobody is
at work on that its status accounts for its money, and of a request in flight what it knows of the row
(`Knows`: its copy is the row, and the row's status is the one it was called in) and which part of the
settlement is done (`Explains`). `Reconciled` credits a payee only where there is a share, so that
orders without a share are covered. `EscrowContractKept`: while moreover no two requests of one
customer overlap and top-ups wait for them (`OneAtATime`, `TopUpsWait`), the balance a request writes
back is the balance, and every step is one of `EscrowContract` or a stutter.

**`AssignmentProofs`**: `Typing`, `PartiesAreKnown`, `PaidOrdersHaveNoOffers`, `ResolvedOffersStay`.
The invariant adds that the copy a request will save knows its parties and is not PAID, and that
behind a request past its first look the order is not PAID any more; nothing moves it back.
`OffersFollow` holds while no two requests overlap and none dies (`Undisturbed`). Its
invariant `Serial` says three things: at all times nobody was asked twice and open offers are of one
batch (`OffersInOrder`); between requests who is looked for was asked, and who accepted is not looked for
any more (`Rest`); and of the one request in flight what its position tells of the order and its offers,
and whom it has still to ask (`Now`).

**`PaymentsProofs`**: `Typing`, `CreditsArePaid`, `SpentLinks`, `Capacity`, and `TopUp`:
`Spec` implements `TopUpContract`. For the money, the invariant says that a handler
about to credit works on a reference that is paid at Paystack, and that a handler about to mark a link
works for an order that has left the draft. For the vaults, every row and every
copy a job holds is sound by itself (not over-used, and its status fits its count), so that saving an
old copy is harmless but for the count, and the points given are the count of every vault not
`outdated`. For the refinement (`OnceInv`), of a reference that was not overtaken at most one handler is
between its SUCCESS and its credit, and while there is one it is not yet credited; an overtaken one has
been opened and paid, and whatever more it is credited is a stutter.

**`GiftCardProofs`**: `Company`, `CardPaysOut`. While nobody moved the wallet since a freeze took its
copy, the copy holds the balance; a refund is never negative because no copy of a card is used more
often than it may be. For the cards a second invariant (`PaidInv`) counts redemption rows: until a
revocation is saved the card's counter is their number, each credit made or on its way has a row of
its own, and of an unraced card at most one revocation is between its refund and its save, whose copy
still has the counter of now; so what it returned is what was left.

**`OperationsProofs`**: `OnlyActiveAvailable`, `PointsCountedOnce`, `TransfersAreBacked`,
`ChargesMatch`, `BalanceAndLedger`. A copy of a rep that is about to be written makes nobody available who
is not active, as long as no two saves of the row overlapped between select and update. A ledger row is
missing only while its credit is between its two commits. The points a cycle has rated but not yet reset are one set element
each, so that reading and resetting move elements from one side of the sum to the other. For payouts
the invariant counts: the debits standing for an item are at least `Amount` times the handlers that may
still transfer or reverse it (`Backed`); on an item no two requests worked on at once, the one handler
in flight explains how status and debits may differ (`Books`); and the balance is the ledger plus the
rows of the handlers between their save and their row, counted by kind (`Unwritten`).

**`ServicesProofs`**: `Standing`, `PricesLocked`, `QuotesCurrent`, `RefundsRecorded`, `LegMoney`. A
vendor's copy and the notice that will follow it agree with each other. A price stays locked because
while nothing is blurred one approved sheet is the last, and the sheet a vendor has open carries every
live price. A handler that will bring the cache up to date is alone and has priced what its position
says it has. A dispute never raced has one handler, whose copy will record what the customer has been
credited. The one handler that settles or cancels a leg explains the payments it has already made, and a
leg that was credited once is worth its transport fee to the rep.

**`PeopleProofs`**: `TeamOwner`, `CompanyOwner`, `ClosedOut`, `RewardOnce`, `Consent`. In a team that is
not odd only the member its row names has the role of owner, active or not; so the guard against removing
the last owner keeps that member in, a former owner never comes back as a second one, and no handler in flight
has the row of an owner to save. The count and the platform role are right, or a handler is on its way to
them (`Recounting`, `Granting`), which a death would break. A company that is active, or about to be, has
an owner left when the one demotion or removal under way is through. What a closed account still has, a
handler in flight is about to take away, and a session that stays is recorded as `lingering`. A referral
nobody overlapped on is covered by payouts of its referrer only, so by one open payout at most. On a policy
where no handlers crossed, the one that is publishing explains the state between its three saves, what is
accepted or served is out of draft, and only drafts are edited.

**`PlatformProofs`**: `AddressDefault`, `NoticeStanding`, `Readers`, `AllAddressed`. A decision in
flight on a notice explains how notice and standing may differ, and a copy saved over another notice than it
was read from leaves the subject unsettled; every copy of a post a handler holds is
sound by itself (published content has been in review), so saving it is harmless whatever it
overwrites; and each table of notices is compared with the tables of templates, after which a notice
that has not failed has tried all but what is pending.

Only model-checked: liveness and everything about fairness and `ENABLED` (`AssignmentProceeds`,
`OffersAreResolved`, `PaidIsCredited`, `ClaimsAreCredited`, `NoOrderIsStranded`, `UncollectedIsSettled`);
and what a recursive sum or a sort computes (amounts of cash payouts, `Price`).

## 5. What the checks say about the code

The properties that hold without exception are the ones the code gets right by a constraint or a
lock: the unique escrow row makes the charge happen once; no handler makes an unpaid order paid;
points are bought only for money that was taken; nothing goes to a vendor's bank without a debit;
balances are never negative; readers never find text that was not in review. (A debit may be undone
although the transfer was made: see below.) What depends on a row
read earlier and written later does not hold without an exception: balances, cancellations against
crons, acceptances against acceptances, verification against webhook, freezing against movements. The
serial runs show, and the proofs of section 4 for every instance, that the logic itself is right when
requests do not overlap; a row lock or a conditional update at the lines of `hazards` is what is missing.

Met while modelling, and not among the findings, because no run is set up for them:

- `approvePayout` takes every error of `initiateTransfer` for a transfer that was not made ("Transfer call
  failed — revert to FAILED so admin can retry", `payouts.service.ts:156`). When Paystack accepted it and
  the answer was lost, the balance is credited back although the bank is paid; `ChargedForWhatHappened`
  accepts that, and says only that the reversal happens once.
- Two accepts of one batch both find the order BROADCASTING_REP, so both offers may end accepted, although
  `assignment-broadcast.entity.ts:17` names "Prevent double-assigning" as a purpose of the rows.
- `changeMemberRole` never looks at `isActive`: made the owner, a member who has left leaves the team
  without an active one ("a team must always have an owner", `team.entity.ts:55`). `OneTeamOwner` excepts
  such a team.
- The approval of a sales rep's payout sends the amount that was requested, referrals rejected since
  included, once (`RewardPaidOnce` says no more).
- The docblock of `approve` in `blog.service.ts` asks for a reviewer other than the author, a check that is
  commented out with a remark saying so (who reviews is not modelled).
- `default-templates.ts` has no push template for `dispute.rejected.customer`, so that push is dropped
  (`NobodyLeftOut` excepts it).
- Un-archiving a post makes it PUBLISHED with its last snapshot although its draft may have moved on.

## 6. Not modelled

- **Message providers** (e-mail, SMS, WhatsApp): HTTP clients without state, whose errors are
  swallowed where they happen.
- **Rates, conversion and top-up limits; price engine, packages, price intelligence, areas**:
  computation from reference data and settings, and edits of single rows. The results enter the models
  as constants (`TotalWP`, `RepShareWP`, `VendorShares`, `WP`, `Fees`, `Rates`).
- **Receipts and audit**: rendering, and an append-only log no operation reads back.
- **Support, upload, marketing, games; administration, platform configuration, the Redis client**:
  record keeping around single rows, queries, object storage and settings.
- In components that are modelled in part: quoting and the gift-card option of `confirmPayment`, the
  fiat counter of wallets, frozen customer wallets; promotional and clean-up crons; ratings, service
  areas and browsing of vendors; quotes from a chosen vendor's sheet and catalogue categories; status
  history and ownership checks of orders (every call may come from anybody).
- The database connection pool: its size and the driver's wait are configuration outside the services,
  so a deadlock on connections (`hazards`, `resource_bound`) is out of scope.
