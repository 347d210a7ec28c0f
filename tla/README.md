# OgiFlow: a verification development

OgiFlow is a last-mile delivery platform: a Next.js application whose services
(`src/src/modules`, `src/src/infrastructure`) read and write one PostgreSQL database
through Prisma. There are no locks, no `SELECT ... FOR UPDATE`, no isolation level
above the default READ COMMITTED, and one in-memory event bus. Every service
function is an `async` function, so at each of its awaits any other request may run,
and a process may die there. That is what these modules are about: which promises
of the code hold whatever interleaves and dies, which only hold for one call at a
time, and which do not hold.

Paths below are relative to `src/`; `orders.service.ts` and the like are under
`src/modules/<module>/`.

## 1. Inventory

Components, the state each keeps, what changes it, what makes it hard, and what
would make it correct. "Model" names the modules.

| Component | State | Operations | What is hard | Correct if | Model |
|---|---|---|---|---|---|
| Order state machine (`order-state-machine.ts`) | none: a table | `assertValidTransition`, `getDomainEventsForTransition` | none alone | every change of a status is an edge of the table | `OrderStateMachine`, `OrderAutomaton` |
| Order transitions (`orders.service.ts`) | `Order.status`, `OrderStatusHistory` | `transitionOrderStatus` | the status is checked, then written by id; events follow the commit, unprotected | history is a log of allowed transitions, nothing is told before its commit, nothing committed is left untold | `OrderLifecycle`, `OrderLog` |
| Order creation (`orders.service.ts`, import) | orders, customers | `createOrder*`, `generateOrderNumber` | number = count + 1; customer looked for, then created; promo use spent first | dense unique numbers, one customer per phone but for a race | `Creation` |
| Event bus (`event-bus.ts`) | handlers, in memory | `dispatchDomainEvent` | no retry, no persistence; handlers of one event run concurrently | a failing handler never undoes a commit | each module runs its own handlers; not composed |
| Dispatch (`dispatch.service.ts`, `dispatch.events.ts`) | `Delivery.driverId`, `Driver.status` | `assignDriverToOrder`, `releaseDriverIfIdle` | load counted, delivery placed, order moved in three statements of three tables | capacity kept, BUSY iff carrying, every order on its way has a driver | `Dispatch` |
| Offers (`offers.service.ts`) | `DriverOffer` | `createOffer`, `offerToNextBestDriver`, `acceptOffer`, `rejectOffer`, `getMyPendingOffers` | time passes between steps; expiry is only written at the next read; acceptance has three parts | one live offer per driver, answers final, accepted means dispatched | `Offers` |
| Driver availability (`drivers.service.ts`) | `Driver.status` | `setDriverAvailability` | status read, then written | a carrying driver never leaves BUSY | `Dispatch` (approved drivers), `Onboarding` (the others) |
| Deliveries (`deliveries.service.ts`) | attempts, proofs | `advanceDeliveryStatus`, `recordDeliveryAttempt`, `resolveFailedDelivery` | attempt number = count + 1; proof stored before a transition that may be refused | an outcome has its attempt and its proof; numbers shared only in a race; deliveredAt only if DELIVERED | `Missions`, `MissionScreen`; who drives: `Dispatch` |
| Payments (`payments.service.ts`) | `Payment`, `Transaction`, `Driver.walletBalance` | `processCodCollection`, `compensateDriverForFailedAttempt` | the look for an earlier call is outside the transaction | booked once, in whole; balance = sum of the rows | `Payments` |
| Referrals (`referrals.service.ts`) | `referralRewardedAt`, wallet | `processDriverReferralMilestone` | bonus checked outside its transaction | bonus paid once but for a race, to both or neither, after the milestone | `Referrals` |
| Settlements (`settlements.service.ts`) | `Settlement` and its transactions | generate, submit, confirm, dispute | orders read outside the transaction; status checked, then written | an order is settled once but for a race; PAID means the payouts are confirmed | `Settlements` |
| Promotions (`promotions.service.ts`) | `PromoCode.usageCount` | `validateAndApplyDiscount` | conditional increment bounded by a limit read before; use spent though the order fails | discounted orders <= uses <= limit | `Creation` |
| Idempotency (`idempotency.ts`) | `IdempotencyKey` | `withIdempotency` | death between reservation and answer; the answer cannot be stored | a form makes one order, and is answered with that order | `Creation` |
| Rate limiter (`rate-limiter.ts`) | buckets, in memory | `checkRateLimit` | window boundaries, sweep | at most limit per window, whatever is swept | `RateLimiter`, `RateWindows` |
| Exceptions (`exceptions.service.ts`) | `OperationalException` | sweep, SOS, acknowledge, resolve | two sweeps; sweep against operator | one open exception per cause but for a race; an SOS is closed by an operator | `Exceptions` |
| Onboarding (`onboarding.service.ts`) | driver, supplier and user status | approve, reject | both check PENDING_APPROVAL, then write | decided once but for a race, and before any work | `Onboarding` |
| Documents (`documents.service.ts`) | `Document` | upload, verify, reject, eligibility | eligibility computed in two ways | eligible is selectable; a status is that of the last review on record | `Documents`; an outcome in `Dispatch`, `Offers`, `Creation` |
| Notifications (`notifications.events.ts`) | none modelled | handlers | load the order again after the event | tell the transition they were raised by | `OrderLifecycle` |
| Webhooks (`webhooks.service.ts`) | `WebhookDelivery` | `sendWebhook`, retry | three attempts awaited inside the transition | rows on record are true; the secret is generated once | `Webhooks`; event and status in `OrderLifecycle` |
| Authentication (`auth.service.ts`) | sessions, MFA | login, logout, enrolment | enrolment in two steps | sessions follow the password, the second factor is one the user can give | `Access`; register in `Onboarding` |
| Support (`support.service.ts`) | `SupportTicket.status` | messages, assignment | status written back from a stale read | a ticket is closed by somebody whose page showed every message, until a stale read or page | `Tickets` |
| Screens (`src/components`), routes (`src/app/api/v1`), permissions | none: what a page was drawn with | buttons, permission and ownership checks | a page is as old as its last drawing | a button shown is accepted unless somebody was faster; nothing waits for a button nobody has | `Console`, `Permissions`, `MissionScreen` |
| Pages (`layout.tsx`, `page-auth.ts`, `role-routing.ts`) | none: session and profile | redirects | the profile changes between two redirects | no circle; a login ends on a page of one's own | `Pages` |
| Tracking, reviews, chat; catalogue, customers, suppliers | independent rows | single statements | nothing interleaves | | their buttons in `Console` |
| Analytics; storage and database client | none; files and tables | reads; I/O | nothing interleaves | | not modelled |

How they interact. A route calls a service. Every change of an order's status goes
through `transitionOrderStatus`, called by the status route, by dispatch (ASSIGNED)
and by deliveries (all others). After its commit it dispatches the transition's events
one after the other; an event's handlers run concurrently and are awaited together:
webhooks and notifications on most events, dispatch (release of the driver) on the
three terminal ones, payments on ORDER_DELIVERED and
COMPENSATE_DRIVER_FAILED_ATTEMPT, referrals on ORDER_DELIVERED. `acceptOffer` calls
`assignDriverToOrder`. Payments, referrals and settlements share the ledger and
`Driver.walletBalance`.

The hazards of this code, each at its line, are the list `hazards` of `PROJECT.json`.

## 2. Plan

Written in this order, the most important behaviour first:

1. `OrderStateMachine`: the table, shared by every module in which an order moves.
2. `OrderLog`, `OrderAutomaton`: two abstract specifications of the life of an order.
   `OrderAutomaton` is what the state machine promises: each change of the status is an
   edge from the current status. `OrderLog` is what survives races: each new history row is an
   edge from a status the order was once in.
3. `OrderLifecycle`: `transitionOrderStatus` run by several requests. Implements
   `OrderLog` always, `OrderAutomaton` with one request at a time.
4. `Dispatch`: assignment, release, availability.
5. `Offers`: composes with `Dispatch` (EXTENDS it and runs its steps inside its own);
   `Dispatch` is its abstract specification.
6. `Payments`: the books of the orders of one driver.
7. `Creation`: orders, customers, promotions and idempotency keys, which only make sense together.
8. `Missions` (with `MissionScreen`): the driver's side of a delivery.
9. The services that keep one small table each, on the common `Requests`: `Referrals`,
   `Settlements`, `Documents`, `Onboarding`, `Exceptions`, `Tickets`, `Access`, `Webhooks`.
10. `RateWindows`, what the rate limiter promises, and `RateLimiter`, which implements it.
11. `Console` (with `Permissions`, `MissionScreen`) and `Pages`: what is in front of the services.
12. `BackOffice`: items 8 to 11 side by side.
13. `*Watched`: a component with history variables, for promises that bind only until
    something is known to have gone wrong (a death, a race, an answer that could not be stored).
14. `*Proofs`: eight modules of theorems.

What would add most next: `Fulfilment`, the handlers of dispatch, payments, referrals
and webhooks run concurrently for one event (today each module runs its own handlers; what they
share is `Driver.walletBalance`, which all of them only increment), and an at-most-once ledger as the common
abstract specification of Payments, Referrals and Settlements.

## 3. Modules and code

Common conventions. A *task* (`request` in `OrderLifecycle`) is one call in
progress; its record's `pc` names the await it is at, the other fields its local
variables. An action runs from one await to the next and holds every statement in
between. A call that is refused before it writes anything is a disabled first
action: it throws and leaves no trace. `Fail` is the death of the process, a
failing statement or a timed-out transaction; only tasks in `Mortal` may die, so a
run can ask a question with or without death. Statements in one Prisma transaction
are one action as far as they write; a read inside it is a step of its own, for at
READ COMMITTED another transaction may commit after it.

**OrderLifecycle.** `status`, `history` are the tables; `wire` is what a handler
sends out in the step just taken. `Begin` = `findUniqueOrThrow` +
`assertValidTransition`, `Commit` = update, history row, commit; `Dispatch` = one
event of the list, `Return` = the end of the loop. History is a set of rows: how often
a row is repeated and its timestamp matter to no property. The audit row, in the same
transaction with the same two statuses, is not kept apart. Events no module subscribes to
are left out of the table. A webhook carries the status of the transition; a notification
handler loads the order again, so it tells the status of that moment.

**Dispatch.** `deliveryDriver` is `Delivery.driverId`, `driverStatus` is `Driver.status`.
`Assign`, `AssignReadDriver`, `AssignCount`, `AssignIneligible` | `AssignPlace`,
`AssignCheck`, `AssignCommit` follow `assignDriverToOrder`; the last two are
`transitionOrderStatus`. `Move`, `MoveCommit` are the other transitions, `Release*`
the handler they wake. `Switch`, `SwitchWrite` are `setDriverAvailability`. Scores,
distances and documents choose among drivers in ways no property depends on, so any
driver may be chosen or found ineligible; `autoAssignBestDriver` is then an `Assign`
of the driver it chose. `Move` reads the delivery and the order in one step: a delivery never
becomes absent again. Orders start READY_FOR_PICKUP (`OrderLifecycle` has what comes
before) and drivers approved and OFFLINE.

**Offers.** `offers` are the rows in order of creation, `lapsed` how many of them are
past `expiresAt`: all offers live for the same OFFER_TTL_SECONDS, so they lapse in the
order they were made. Time is the action `Lapse`, enabled at any moment. Nothing
writes EXPIRED when an offer lapses; `AnswerTooLate`/`ExpireWrite` and
`List`/`ListWrite` are `materializeExpiry` and its counterpart in the list. `NextBest` merges the
reads of the order and of the candidates' statuses, and names the candidate the call
will come to. While an acceptance assigns, the task of `Dispatch` of the same name
runs (`AcceptAssigning`). The push notification of a new offer is left out, its failure is
swallowed.

**Payments.** For each order the number of payments and of ledger rows of each
sort; `walletBalance` in cents, with the code's rounding (`round2`, half up). `CodCheck` and `CompCheck`
are the looks for an earlier call, `CodWrite` and `CompWrite` the transactions.
`Replay` delivers the event of an order's final status again: today's bus never does,
the handlers promise to stand it. `confirmManualPayment` is not modelled: it refuses
CASH_ON_DELIVERY, the default, and no code gives an order another method.
Transaction references come from a database sequence and cannot collide.

**Creation.** `waits`, `filled`, `opened` are the browser's side of a form: the request
it awaits, what it last submitted, the order it was sent to. `keys` are the
`IdempotencyKey` rows (`answer = 0` is a null `statusCode`), `promo`, `customers`, `orders`
the tables. `Reserve`, `Replay`, `Store`, `Release` are `withIdempotency`; `Admit` to
`InsertOrder` are the awaits of `createOrderForSupplier` in their order, which a form
and the rows of an imported file share. `Throw` is a statement that fails, with what the `catch`
blocks then do; `Die` is a process that dies, with nothing done; `GiveUp` a fetch that
fails while the server goes on. The insert of a number that is taken fails on the unique
index, which is why numbers can be dense though each is a count read long before.

**Missions.** One order and its driver. `screen` is the status his page was drawn with, which
may be out of date: `PressStatus` and `PressResult` are the buttons of `MissionScreen`
for that status, `PressCancel` comes from other people's pages.
`CountAttempts`, `StoreAttempt`, `StoreProof` are `recordDeliveryAttempt` before it asks for the
transition, `CheckTransition` and `CommitTransition` are `transitionOrderStatus`,
`StampPickup` what `advanceDeliveryStatus` adds.

**Requests** has what the small services share: a table of tasks, one record each, and
`Goto`, `Ends`, `At`. In all of them a request that throws or dies is idle again, for they clean
nothing up (`*Fails`).

**Referrals.** `StoreDeliveredAt` comes before the transition (`CheckDelivered`, `CommitDelivered`), whose
handler reads, counts and rewards (`ReadReferee`, `CountDeliveries`, `Reward`), the
last in one transaction. **Settlements.** `ReadSettlable` and `CreateSettlement` are
`generateSettlement`; `AssertSettlementTransition` and `WriteSettlement` each of the three status
changes; the buttons that ask for them show a status the settlement has or had. **Documents.**
`SaveFile` and `CreateDocument`; `ReadDocument` and `Decide`, the latter with its audit row;
`Eligible` is `computeEligibility`, `Ineligible` is `getIneligibleOwnerIds`. **Onboarding.**
`CreateUser` and `CreateProfile` are two statements of `register`, so an account may be left
without a profile; decisions and the driver's switch each read, then write.
**Exceptions.** One order in the control tower: a sweep reads orders (`ReadOrders`) and open exceptions
(`ReadOpenExceptions`), opens what is missing one row at a time, and closes by id what it did not
find again (`AutoResolve`); operators and the SOS come in between. Whether a condition holds of the order
may change at any time. **Tickets.** A message and an assignment compute the
status they write from an earlier read, a change of status writes what was picked on a page (`Turn`), which may show
less of the thread than there is by then. `thread` is what was committed, in order, each entry with how much of it
that page showed (`seen`). **Access.** Passwords and secrets are numbered; a login,
a change, an enrolment each check the row they read and write later. **Webhooks.** `AttemptDelivery`
is one fetch: the endpoint may get it and answer too late; `RecordDelivery` is the row
written after the last. `rows`, `inbox` relate what is on record to what arrived.

**RateLimiter.** `checkRateLimit` has no await, so an attempt is one step: every key is consumed, even
after one that blocks, and a sweep may come before any of them. `buckets` is the
Map, in which an ended window stays until it is swept or used again; `Restart` loses it. `RateWindows`
has no store: a window that ended is none. The refinement mapping is `openWindows`, what of the Map is
still live (`Windows == INSTANCE RateWindows WITH windows <- openWindows`).

**Console.** One thing (an order, an offer, a settlement, ...), its status, and what each
person's page was drawn with. A *button* is a record: the pages it is on, the statuses
at which it is shown, and its *route*: the permissions, the ownership check and, for each status
the service accepts, what becomes of it. `Buttons` lists them page by page. A press is accepted, refused by
the service or forbidden by the route. What moves a thing without a button is in
`Elsewhere`. Here a request is one step; the awaits inside it are the modules' above. `Permissions` is the
table of `permissions.ts`.

**Pages.** `AnsweredWith` is what a page does when it is asked for: render, or
redirect. Between two redirects a session may end and a profile may be decided.

**Watched.** `DispatchWatched`, `OffersWatched`, `PaymentsWatched` and `CreationWatched` add variables that
no action reads: `died` (some call has died), `raced` (two calls have been in progress at
once), `unstored` and `abandoned` (forms whose answer could not be stored, whose key was not given back).
A step of theirs is a step of the component with the history brought up to date.

**BackOffice.** The parts of items 8 to 11, which have no variable in common, side by side: `office` names
the one that moves in a behaviour, `overtaken` remembers that a request has written from what it read of a
row changed since. The `MC*` modules add to all of these only what TLC needs: symmetry, and functions that
a configuration cannot write.

## 4. Runs

`tlc -config <cfg> <module>`. Passing runs:

| Run | Instance | Question and answer |
|---|---|---|
| `lifecycle_concurrent` | 1 order, 2 dying requests | Stale checks may send the status anywhere, even out of a terminal one; still the history implements `OrderLog`, no milestone is skipped (`MilestonesRecorded`), and no message precedes its commit (`MessagesFollowCommit`). |
| `lifecycle_serial` | 2 orders, 1 dying request, all statuses | Without a race the status implements `OrderAutomaton`, and a notification tells its own transition though it loads the order again. |
| `lifecycle_told` | 1 order, 2 requests, fair, no death | Liveness: each committed transition reaches the webhook with its own status, even when the order has moved on. |
| `dispatch_serial` | 3 orders, 2 drivers, capacity 2, 1 dying call, fair | Capacity, only BUSY drivers carry, an order keeps its driver; and until a call dies, no driver is stranded and an idle one is released (liveness). |
| `offers_serial` | 2 orders, 2 drivers, 2 offers, 1 dying call, time passing | One live offer per driver, refusals are respected, the one who accepted carries, and an acceptance closes the other offers unless a call died. |
| `offers_concurrent` | 1 order, 2 drivers, 2 offers, 2 dying calls, direct assignments too | An accepted offer means a dispatched order, an order past READY_FOR_PICKUP has a driver, and offers implement `Dispatch`. |
| `payments_concurrent` | 2 orders (one free of charge), 2 dying calls, replays, fair | The balance is the sum of the ledger, payments are booked in whole, collected and paid out once as long as no two calls have been in progress at once, and only a death keeps an outcome out of the books (liveness). |
| `creation` | 2 forms and files of 2 rows, 3 requests, 2 of them at once, 1 phone, 1 code of limit 1 | Numbers are dense, a code stays within its limit, a phone has a customer per request at most, a form opens the order it made and makes only one (unless its answer could not be stored), and a form is not told to wait for ever (unless the holder of its key died). |
| `back_office` | the twelve parts of items 8 to 11, each alone, 2 requests at once | See below. |

In `back_office` TLC explores each part on its own. The cost is the sum of the parts, not their product;
the price is that a part's steps are never interleaved with another's, which could not matter since they have no
variable in common. What it shows:

| Property | About |
|---|---|
| `OncePerRequest` | Payouts, bonuses, open exceptions and attempt numbers are looked up and then written: at most one of each per request that ran at once, none by any later request. |
| `KeptUnlessOvertaken` | Tickets (closed only by somebody whose page showed every message), sessions, second factor, webhook secret, deliveredAt: kept until a request writes what it worked out from a row changed since (or an outdated page or a death is involved). A status that closes a ticket over a message its page did not show counts as such a write. |
| `PaidIsConfirmed`, `EligibleIsSelectable`, `DecidedBeforeWork`, `SosNeedsOperator`, `RowsTellDelivery`, `OutcomeHasAttempt` | Hold whatever races and dies. |
| `ImplementsWindows` | The rate limiter with its Map and sweep implements `RateWindows`. |
| `SomebodyLeadsOn`, `RefusedOnlyIfOvertaken` | Nothing waits for a button nobody has; a refusal means that somebody was faster. |
| `RedirectsLeadHome` | No circle of redirects, and a login ends at home. |

**Findings.** Where the code departs from what it says (`findings` of `PROJECT.json`). Three have a run
in which TLC finds the violation:

| Run | What TLC shows |
|---|---|
| `lifecycle_delivered_returned` | Two requests read OUT_FOR_DELIVERY; one commits DELIVERED, the other CUSTOMER_ABSENT, and the order goes on to RETURNED. The payments module counts on that never happening. |
| `dispatch_busy` | A release, or a switch by the driver, decided before an assignment and written after it: a carrying driver is AVAILABLE or OFFLINE. |
| `payments_due_to_driver` | The first collection adds what the driver owes to the balance that the driver is shown as earned. A compensation then adds what the driver is owed to the same balance. |

The others show by checking a property as an invariant that is defined but not listed in a configuration, or by removing
an exception from one that is:

- `RejectedStaysOut` (Onboarding): a rejected driver switches himself AVAILABLE and is a candidate of dispatch.
- `BatchAgrees` (Documents): a partner who replaced a valid paper by an expired one is selected although
  his page says he is not eligible.
- `MessagesAreHeard` (Tickets): a message that read OPEN does not open the ticket closed meanwhile, and a ticket is closed
  from a page drawn before the message.
- `StampedIsDelivered` (Missions): deliveredAt stays although the transition was refused or never ran; customers read
  "Livré", referrals count it.
- `RefusedAnyway` in `RefusedOnlyIfOvertaken`: "Reprogrammer" is shown for CUSTOMER_REFUSED, from which the table only leads to RETURNED.
- DISPUTED left out of `Waiting` in `SomebodyLeadsOn`: no page has a button that ends a dispute.
- The exceptions in `RedirectsLeadHome`: a supplier whose registration broke off goes in circles;
  a SUPPORT_AGENT who logs in comes back to the login page.

Also visible in `Console`, though nothing in the code promises otherwise: dashboard pages show all of the staff
buttons whose routes answer some of them with 403, and no page has the button for an
operator to cancel an order that is READY_FOR_PICKUP or ASSIGNED, which the route would accept.

The properties of the serial runs are claims the code makes without the restriction.
With `Tasks = {t1, t2}` they fail, for the same two reasons (a check and a write in
two statements; a write by id that checks nothing): `CapacityRespected` when two
assignments count before either places, `StrandedOnlyByDeath` when an order is cancelled
during its assignment, `OneLiveOffer` when two offers look before either is created.
`BookedOnceUnlessRaced` says of payments when: two handlers look before either books. Replacing
the `Tasks` of the serial configuration shows each. One more shows with a single call:
a driver who let an offer lapse is asked again by the cascade, because EXPIRED is not
yet written when `Declined` reads; hence `RefusalRespected` speaks of refusals and
expiries that are on record.

**Bounds.** Two calls are enough for the races of this code: each is one call's write
between another's read and write. The serial runs use more orders instead, so that a
driver can carry two and be refused a third: capacity 2 in place of 3
(`MAX_CONCURRENT_DELIVERIES`) keeps the three cases, none, some, full; capacity 1 in
the concurrent run, where two orders must exceed it. `Targets` drops statuses whose
row of the table is that of another (the three failure statuses by one another, or by RESCHEDULED where only the
way back or to RETURNED matters). `MaxOffers = 2` allows two offers of one order, two to one
driver, a second offer after a refusal; the bound is in the guard of `OfferCreate`. Payments use
a fee of 45 cents and 10 per cent, so both roundings occur, and one order without fee, the
branch in which nothing is due.

`creation`: three requests are two that race and one that comes after (or again); a file of two rows has a row that
fails and one after it; a limit of 1 is reached by the second use. One phone, since phones do not
meet. `back_office`: two settlements and two orders, so that an order can be in both or in
different ones; three trips and a milestone of 2 in place of 15, so that it can be passed twice; two
documents of one type and two days, so that one replaces the other and either expires; two exceptions (an SOS and
an automatic one, or one twice); a thread of three entries (message, closing, late write); two passwords,
secrets and sessions; one event with `MAX_ATTEMPTS` = 3 as in the code, two rows so that one is a retry; three
of the five results of an attempt, one for each way on (success, failure, RESCHEDULED), two attempts; windows of 4
ticks, a sweep every 3 checks and 7 ticks, so that windows end, are swept, and open again, with a limit for
the address and one for the account; one person of each role and one thing of each sort, two screens open
(one acts, the other is outdated); six redirects where five suffice. Each bound is a constant in the
guard of the action it cuts. Nothing else is cut: all state spaces are finite and explored whole.

**Symmetry** on interchangeable orders, drivers, forms and tasks, in the runs that check no liveness.

**Fairness** is weak fairness of `Step` of each task, and only that: the event loop
resumes an await when it is settled, and the database answers or fails (a failure is
`Fail`). No fairness is given to requests, to `Fail` or to time: nobody need ask for
anything.

**Deadlock** is not checked where the system may come to rest: when all orders are in a
terminal status and nothing is in progress, or the offers, requests or rows of the bound are used up.

## 5. Theorems

Checked by TLAPS for every value of the constants that satisfies the modules'
assumptions (all evaluated by TLC as well): `Mortal` is a subset of the tasks,
`Targets` of the statuses; for `Dispatch`, `NoDriver` is no driver, the capacity a
positive number and `Orders` finite (without which a load has no number); for
`Payments`, natural amounts, a percentage, and `Orders` finite (without which the ledger has no sum);
finitely many tasks where requests are counted; natural
bounds; positive limits and windows. Each proof takes one step for each action. A theorem whose name
begins with `Serial` is about one task; it says so in its `ASSUME`, and section 4 says what two of
them break.

- **OrderLifecycle.** `TypeCorrect`; `Refinement`: it implements `OrderLog`. The invariant
  `LifecycleInv` adds to the types that an order's status is recorded and that what a request
  has read (or committed) is recorded in the order's history: the history only grows, so a
  stale read stays backed. `Milestones` is proved of
  `OrderLog` by induction over its steps (`MilestoneInv`: PENDING is recorded, and the milestone of
  each recorded status) and carried over. `EffectsFollowCommit` follows from
  the same invariant. `SerialRefinement`, with one request: the read is then fresh,
  so the step is an edge from the current status. `SerialNotifications`, again with one
  request: until the last event of a commit has been dispatched the order stays where that commit
  put it (`CommitIsCurrent`), so what a notification handler loads again is the status it is about.
- **Dispatch.** `TypeCorrect`; `OnTheWay`, any number of dying calls. Not inductive by itself: a
  commit needs to know that its call found or placed a delivery, which
  `CallsFoundADriver` says, and that none is taken away (`DeliveryStays`). `SerialCapacity`
  and `SerialOnlyBusyCarry` (one call, which may die) need `SerialInv`:
  facts about each driver and about what the call, between its reads and its write, may rely on: after
  a count there is room for one more, before a release nothing is carried. `SerialKeepsOrder`
  from the same. `SerialStranded` (until a death) needs `NothingLeftOver` besides: a delivery placed for an order that is
  still READY_FOR_PICKUP is that of the call in progress (`PlacedByItsCall`), for otherwise a second
  placing would take the order from a driver who stays BUSY with nothing to release it.
- **Offers.** `OffersTypeCorrect`; `OffersRefineDispatch`: every step with offers is
  one of `Dispatch` or none. It needs `OffersInv`: an answer in progress is about an
  offer that was made, for an existing order and driver. `OfferedOnTheWay` is
  then `OnTheWay` of orders that are offered. `AcceptedIsDispatched`, any number of dying calls,
  from `AcceptInv`: nothing leads back to READY_FOR_PICKUP (`NoWayBack`, from the table, about
  the moves in progress as well), the call that accepts runs the assignment of the very order that was offered, and
  ACCEPTED is only written after that assignment has committed (`AcceptanceBacked`); a call that dies in between
  leaves a dispatched order and an offer that is still PENDING, never the reverse. Four more of one call:
  `SerialOneLiveOffer`, `SerialAcceptedCarries`, `SerialRefusals` (an action property) from `SerialOffersInv`,
  which adds to the above and to `SerialInv` of Dispatch what the call has looked at and nobody can have changed since
  (`OfferFacts`: the driver about to get an offer has none in wait and has not declined; the assignment an
  acceptance runs is for the driver of that offer). `SerialClosing`, until a death, from `BeingClosed`: an offer in
  wait beside an accepted one is about to be closed by the call that accepted.
- **Payments.** `TypeCorrect`; `PaymentsBooked`, any number of dying calls, from
  `BooksInv`. `WalletFollows`, likewise: what a step adds to the balance is what it adds to the rows of one order
  (`WalletStep`), and a sum of which one term changes by some amount changes by that amount
  (`OneTermChanges`). The fold by which the sum is defined is first shown to exist, by
  a function on the finite subsets (`SumsExist`), and then only unfolded.
  `SerialOnce` (collected and paid out once, one call, any number of
  replays and deaths) needs `OnceInv`: which rows an order of a given status may have
  (`OrderOnce`), and what the call in progress has seen of it (`CallSees`); it rests on
  the table: DELIVERED and RETURNED lead nowhere. `OnceUnlessRaced` is the same for any number of tasks, as
  long as the others have been idle whenever one was busy (`Alone`, kept until `raced`).
- **Creation.** `TypeCorrect`; then six theorems, from invariants above the types that need
  little of each other. `Numbers` (`NumberInv`): a number drawn is at most one above the number
  of orders at that moment, and orders only grow, so an insert that the unique index lets through is
  the next one. `Discounts`: `DiscountsWithinLimit` counts the requests that have paid and not inserted
  as well, and with them it is inductive. `Customers`: the same with the requests that found no customer.
  `FormsOpenTheirOrders` (`FormInv`): a key without an answer belongs to one request and names its content
  (`KeysAreOwned`); an answer, stored or about to be, is the number of an order of that form and content
  (`AnswersArePlaced`); what a form waits for asks for what its fields hold (`FormsWaitForThemselves`).
  `OneOrder` and `KeysAreNotLost` (`WatchInv`) rest on both `FormInv` and `NumberInv`: a form with an order keeps its key and
  nobody but who is to store its answer holds it (`OrdersOfForms`); a key without an answer has a holder
  (`KeysHaveHolders`). A step that would break either is one that enters the form in `unstored` or `abandoned`.
- **Missions.** `TypeCorrect`; `OutcomesAreRecorded`, `AttemptNumbers`, `ScreensLeadOn`, from
  `MissionInv`: besides the status, a request on its way to a status is `Backed` by its attempt and
  proof, and a number that is drawn is at most one above the rows. It is this that lets a stale transition commit without
  harm: it was backed when it was asked for, and nothing takes attempts or proofs away.
- **RateLimiter.** `TypeCorrect`; `Refinement`: each step of the Map maps to one of
  `RateWindows`. What the refinement rests on is `ConsumedIsCounted` (an ended bucket and no bucket are
  consumed alike) and that a sweep only takes ended buckets.
- **Back office.** `ServicesAreThere`: a behaviour of `BackOffice` is one of each of its twelve
  parts, so a theorem about a part holds in the composition. One invariant for each of the services, about what a request in progress may rely on.
  `PayoutsConfirmed` (`SettlementInv`): a request is about a settlement that exists. A stale write may
  take a settlement out of PAID, but each way into PAID confirms all of its rows, and new rows only go to new settlements.
  `RecordsAreTrue` (`WebhookInv`): `Sending`, what a delivery under way has counted and reached.
  `SosIsClosedByOperators` (`TowerInv`): an answer is about a row that exists; rows keep their type.
  `DecidedFirst` (`DeskInv`): `Standing` of each applicant, `InHand` of each request (what it still
  finds as it was when it looked), one request at most about to create a profile, and the count of
  the decisions with those about to be written.
  `PapersAreBacked` (`DocumentInv`): a file is saved before its row, and each row has the status of the last review of it.
  `EligiblePartnersAreFound`: the newest of the verified documents is one of them, which needs that a
  nonempty set of document numbers has a greatest element (`MaximumExists`, from the well-foundedness of the natural numbers).
  `OneRowPerRequest` (`OncePerRequest`) counts: the rows found and the requests about to add one are together no more than the
  tasks (`PerRequest`), because a request only comes to write when it found nothing. For payouts and bonuses that is
  inductive (`PayoutInv`, `BonusInv`). Exceptions can also come back: an acknowledgement written late opens a resolved
  one again. So `HeldInv` counts the rows that are open or about to be opened again, and shows that where a sweep finds none
  open each of those is held by a different acknowledgement, so that they are no more than the other tasks.
  `OvertakingAloneBreaks` (`KeptUnlessOvertaken`) has four invariants, each an `overtaken \/` what may be relied on otherwise:
  `TicketInv` (an entry of the thread leaves the ticket open, leaves it closed without adding a message, or closes it with every
  message seen), `AccessInv` (a session of an old password is about to be revoked), `SecretInv`, `StampInv` (one request at a
  time, which asked for what the table allows).
- **Console and Pages.** `ButtonsDoWhatTheyShow` (an action property): for each sort of thing, the statuses at which its buttons show are
  statuses its service accepts, and the roles of the page have the permissions, the staff apart (`ButtonsWork`, component by
  component); and who has a page open may open it (`ConsoleInv`). `SomebodyCanLeadOn` has a hypothesis, `Staffed`: there is an
  administrator, and each order and offer has a driver among its owners (the configuration's people and things satisfy it).
  Without an administrator an application waits for ever, without a driver an order on its way does: only its driver
  has the buttons.
  `RedirectsEnd` (`PagesInv`): how many redirects lie behind somebody at each address (`OnHisWay`), an
  unregistered supplier apart.

Only model-checked: the three liveness properties (`EveryTransitionIsTold`, `IdleDriverIsReleased`, `OutcomeIsBooked`). They hold under
weak fairness and speak of ENABLED, which this prover does not reach. Every other property of the passing runs is
proved. The properties of the three runs that expect a violation are refuted by TLC's counterexample; of them,
`OnlyBusyDriversCarry` is also proved, of one call at a time.

## 6. Not modelled

Analytics (aggregating reads) and the storage and database client (pure I/O) have no module. In the parts that are
modelled: wording, parsing and validation of requests, positions and scores,
the rows of audit (except where a property is about them), notification and delivery-event tables, channels, photographs,
rendering. What is partly modelled, and what is missing of it, is said component by
component in `PROJECT.json`: `confirmManualPayment`, which no order can reach; drawing and linking referral codes, inserts
protected by unique keys; zones, profiles and leaderboards of drivers; the rows of chat,
reviews and catalogue.
The handlers of different modules for one event run concurrently in the code and are modelled
apart, each in its own module. Database failures are the failure of a statement or the death of a call, never a
commit whose answer is lost, except for the answer of a request to the browser (`GiveUp`) and of a webhook's endpoint.
