# Verification of solar-api

`solar-api` is a NestJS service for the rental of solar-powered fleets: customers and
admins book fleets, drivers deliver and pick them up, an external gateway issues the
invoices. This directory holds TLA+ models of its core, the TLC runs that check them
and TLAPS proofs of what matters most. Paths below start at the repository's root,
`src/`; the two services at the centre are

- `src/src/modules/leads/services/leads.service.ts` (**L** below), class `OrdersService`;
- `src/src/modules/surveys/services/surveys.service.ts` (**S** below), class `SurveysService`;

with the accounts around them in `src/src/modules/users/users.service.ts` (**U** below).

## The system

The repository is half way through a renaming (orders are becoming *leads*, requests
*surveys*): both names occur, several imports and two whole modules (payment gateway
adapter, ledgers) are not in the tree, and `AppModule` imports only users, auth and
device tokens. The models resolve the names by what the code does with them: an *order*
is a row of the leads table, a *request* a row of the surveys table with an order. The same
holds of columns and relations a service selects and an entity file no longer declares
(`id_cards` and others of U:58-72): as the tree is, such a query fails; the models take the
tables to have what the services ask them for.

| component | state | operations | interacts with |
|---|---|---|---|
| leads (orders) | leads table, status logs | create by customer or admin, update, accept, reject, remove, `pgCallback`; lists, counts, prices | surveys (the two requests of an order, cascade insert, soft delete), payment gateway, ledger, users, mail, notifications |
| surveys (requests) | surveys table, survey logs | create, update, remove, removeByOrderId, log (start, end); lists and counts | leads (the order of a request), users, notifications |
| payment gateway (external) | sales invoices and their payments | create, get, update, delete an invoice; calls back on payments | leads, by HTTP and by two callback endpoints |
| ledger (external) | one row per order | createByOrder, updateByOrder, delete | leads |
| notifications, mail, firebase (external or I/O) | messages | send, store | leads, surveys, auth |
| query result cache | counts with a time to live | filled by counts, cleared by writes | leads, surveys |
| users, customers | users table, password tokens | create, update, remove, forgotten and changed passwords | auth, leads |
| auth | none of its own (JWT) | register, login, logout | users, device tokens |
| device tokens | push tokens | upsert, remove | auth |
| pagination | none: every page is a query, its count another | page, count, next page | the lists of leads, surveys, customers |
| guards, helpers, configuration | none | pure functions and wiring | all |

### What is hard

Nothing runs in a database transaction and no row is locked. Every handler is a chain of
awaits: it reads rows, calls the gateway, and saves what it read, while other handlers,
the gateway's callbacks and the drivers' logs run. TypeORM's `save` writes every column
in which the entity differs from the row *at that time*, so a late save undoes what was
written in between. The gateway is called several times in one handler, and any call may
fail, or succeed with a lost answer. Callbacks come at least twice for each change, late
(`setTimeout` of ten seconds), in any order, or not at all.

Properties that make the components correct:

- bookings: no fleet is promised to two orders for one day; a booking that ends or is
  rejected gives its days back; nothing else makes an unfinished order lose its days;
- orders and their satellites: requests, invoice, ledger row and status log of an order
  agree with it whenever nothing runs; an order points to its own invoice;
- payments: an order says paid only if it was;
- decisions: an accepted order is not rejected;
- accounts: a password changes only on demand, a removed account stays removed, a session names
  a device of its own user;
- surveys: the status moves forward only, the logs never run ahead of it, no survey takes a
  negative time, no request gets past the check on its siblings, the driver knows of his
  survey, and a survey that is tried ends;
- prices: invoice and row of an order say the same whatever updates leave the invoice alone,
  a total does not fall behind an invoice, a rental can be extended;
- counts: a stored count is wrong only where the code takes that into account, and becomes
  right once nobody writes;
- lists: a client that follows `next_page` reaches the end, and misses or repeats no more
  rows than left or entered the list.

## Modules

| module | what it models |
|---|---|
| `Surveys` | `SurveysService` and the set of live orders it reads |
| `Orders` | `OrdersService`, the gateway, the ledger; EXTENDS `Surveys`, whose requests it inserts and deletes |
| `FleetCalendar` | the abstract specification of bookings: free days are taken in one step, and given back |
| `Accounts` | `UsersService`, `AuthService`, `DeviceTokensService`, `CustomersService` |
| `Prices` | `calculatePrice`, `generatePaymentItems`, and the row and the invoice of one order that is created and updated while fleets change their prices |
| `StatusCounts` | the four cached status counts, and every write and clear they depend on |
| `Pages` | `PaginationHelper`, and a client that walks through a list that changes |
| `MCSurveys`, `MCOrders`, `MCAccounts` | symmetry sets and request bodies for TLC |
| `MCReads` | `StatusCounts`, `Pages` and `Prices` in one instance: a behaviour runs one of them |
| `SurveysProofs`, `OrdersProofs`, `BookingsProofs`, `PaymentsProofs`, `AgreementProofs`, `AccountsProofs`, `PricesProofs`, `ReadsProofs` | the theorems; `ReadsProofs` has those of `StatusCounts` and `Pages` |

### Surveys

`surveys` is the table (row state absent, live or soft-deleted; order, type, status,
driver, start), `surveyLogs` the types of the log rows of each survey in their order, `notified` the
last recipient of each kind of notification, `leads` the orders that are saved and not
soft-deleted. A request of the controller is a `Caller`; `call[c]` is what its handler
holds between two awaits. A handler is cut at each await after which it uses what it
read: `create` (insert, then notify), `update` (read and notify, then write by id), `log`
(checks, then status, then log row). The notification of `update` comes from a query
without a where clause (S:194): the model picks any live row. A field of an update's body is
left out (`Undefined`, the column stays), null (`None`, the column is emptied without a
notification) or a value; `SurveyOps` says which kinds of update a run has: the driver
(`update`), the date as well (`redate`), the type as well (`retype`).

The variable `leads` is written by the environment actions `LeadSaved`, `LeadDeleted` and
`RemoveByOrderId` when the module is checked alone; `Orders` uses `ControllerNext` and
replaces them by its own handlers. That these do to the requests what the environment actions
say is a property of `Orders` (`SurveysAreServed`: the composed system implements
`SurveysSpec`), checked in `orders_serial` and proved for all interleavings and failures.

### Orders

`orders` is the leads table (a row stays when the order is soft-deleted: late saves and
callbacks still write to it), `statusLog` the latest log, `ledger` and `invoices` the state
of the two external systems, `callbacks` the pgCallback calls that wait, `handler[w]` the
phase, the DTO and the entity a `Worker` holds, `job[j]` the same of a run of pgCallback.

| code | actions |
|---|---|
| `createCustomerOrder`, `createAdminOrder`, `createOrder` (L:111-280) | `CreateOrder` (check), `CreateInvoice` / `CreateInvoiceFails` (up to three retries), `InsertOrder` (save with cascade and status log), `CreateLedger` |
| `update`, `accept` (L:367-548) | `UpdateRead`, `UpdateCheck`, `UpdateDeleteInvoice`, `UpdateNewInvoice`, `UpdateInvoice`, `UpdateInvoiceGone`, `UpdateLogStatus`, `UpdateLedger`, `UpdateSave` |
| `reject` (L:562-584) | `RejectRead`, `RejectWrite`, `RejectLog` |
| `remove` (L:586-618) | `RemoveRead`, `RemoveGetInvoice`, `RemoveInvoice`, `RemoveOrder`, `RemoveRequests`, `RemoveLedger` |
| `pgCallback` (L:652-705) | `CallbackFetch`, `CallbackLookup`, `CallbackApply`, `CallbackLedger` |
| errors, restarts | `HandlerFails`, `CallbackFails`, `CallbackLost`, `SurveyCallFails` |
| payments | `PgStatusChange` |

Abstractions:

- a total stands for a list of priced items (update compares items and duration with the
  row's, L:408-414; the gateway's invoice changes with them); `Prices` has the items;
- invoice numbers are fresh. The code draws three random digits per second
  (`invoice.helper.ts:6`) and has no unique index; collisions are left to a later model;
- the number of an order is its identity, as callbacks and the gateway use it;
- a payment only moves an invoice forward (unpaid, partially paid, overdue, paid), but
  an update that raises the total makes a paid invoice partially paid;
- equal callbacks that wait are one element of the set `callbacks`: serving the second of
  two equal calls at once is a later call with the same content;
- `updateByOrder` changes an existing ledger row and creates none;
- soft-deleted rows are updated by id like others; `deleted_at` is not selected, so a save
  does not bring a row back;
- the drivers of an order's two requests come from `RequestDriver`, which may have `None`: a
  body without a driver leaves the column empty (L:238, L:245);
- self pick-up and mails are left out, the cached counts, the pages of lists and the prices have modules of their own. Lines
  L:503-522 are dead code;
- routes with roles are modelled below their guard. `RoleGuard` as written refuses every
  user on such a route.

Bodies of the operations named *Variant* in a comment are wrong on purpose: each is the
code with one plausible mistake, and shows that a property notices it. No action uses them.

### FleetCalendar

One variable, the booking each order holds. `Book` takes days no other order has,
`Release` gives them back. `Orders` maps to it by `booked`: an order holds its days as
long as the availability query counts it (`Blocks`, L:820-832).

### Accounts

`users`, `tokens` (user_tokens) and `devices` (device_tokens) are the tables, `sessions` the
JWTs that were signed, `request[r]` what a handler holds between two awaits. It shares
no state with `Surveys` and `Orders`: orders refer to users by id and write none of their
columns, except that `createCustomerOrder` creates a customer first (L:123).

| code | actions |
|---|---|
| `register`, `login`, `get` (auth.service.ts:22-71), `upsert` | `Register`, `Login`, `Me`, then `DeviceFind`, `DeviceSave` when a push token is given |
| `create`, `update`, `remove` of customers (U:120-173) | `CustomerCreate`, `UpdateRead`, `UserSave` / `UserSaveRefused` (unique email), `CustomerRemove` |
| `forgotPassword`, `createToken` (U:185-211) | `Forgot`, `TokenSave` |
| `validateToken`, `changePassword` (U:213-249) | `Reset` (validates and loads), `UserSave`, `TokenDelete`; `Expire` is the clock |

A body has the columns its DTO declares. The service saves `{...user}` (U:122) and the
validation pipe takes undeclared fields along, so a body with an `id` would update a row where
`InsertUser` inserts one; no client of the documented API sends one, and the model leaves it out.

A password stands for its hash. A handler that fails between two awaits is one that takes no
further step; requests never have to. `save()` writes every defined column of the loaded row
whose value differs from the table's, of a deleted row as well (`Written`); `email`,
`password` and `deleted_at` are not selected by default, which is why a late save harms
neither password nor removal. Names go stale and are written back by a reset; phone numbers
(by an edit), roles, cards and the other profile columns are left out. `logout` has no action:
it changes nothing, see the observations.

### Prices

`fleets` has the price of each fleet, `order` the priced columns of one order's row, `invoice`
its invoice with its items, `asked` (history) the request the row was last written by.
Amounts are integers, and after a discount hundredths, where the code has floating point
numbers; the tax is rounded as `toFixed(2)` rounds. A handler is one step: its interleavings
and failures are those of `Orders`.

| code | definitions |
|---|---|
| `calculatePrice` (L:56-109), `getWeekendDays` (date.helper.ts:25-43) | `SubTotal` and its parts, `WeekendDays`, `Discounted`, `Tax`, `GrandTotal` |
| `generatePaymentItems` (L:710-795) | `PaymentItems`; an item that is not pushed is one of price and quantity 0 |
| `createAdminOrder`, `createCustomerOrder` | `PriceAdminOrder` (with an invoice), `PriceCustomerOrder` (no discount, no invoice) |
| `update`, `accept` (L:405-495) | `PriceUpdate`: `ItemsChanged`, `ChangesInvoice`, the guard `LowerTotal`; a property that is undefined is not saved (`ServiceSaved`, `DurationSaved`) |
| a fleet's price is edited | `FleetCosts` |

Weekend price and out-of-town fee go by the fleet's type, hence by the fleet. An update may leave
out its duration (it is priced as one day, L:61, the column stays, L:483, and the invoice has
neither a duration nor a quantity of days, L:718) and its prices, which then count as 0; customer,
fleet and date are there.

### StatusCounts

`status`, `delivery`, `pickup` and `alone` are what a count tells apart of the tables;
`cached` the stored results of the query that is looked at (more than one when two readers
insert), `missed` (history) that a result was stored, or a table written, that no clear
belongs to; `writer` and `reader` what handlers hold.

| code | actions |
|---|---|
| `createOrder` clears at L:224, saves at L:226 | `CreateOrderClear`, `CreateOrderSave` |
| `update` (no clear), `accept` (L:539), `reject` (L:579) | `UpdateOrder`, `SaveUpdated` / `SaveAccepted`, `RejectOrder`, `SaveRejected`, `ClearOrders` |
| `remove` (L:586-618), `removeByOrderId` (S:219) | `RemoveOrder`, `DeleteOrder`, `ClearRequests`, `DeleteRequests`, `ClearOrders` |
| `pgCallback` (L:695) | `CallbackClears` |
| surveys: create, log, remove | `CreateSurvey`, `LogSurvey`, `LogStatus`, `ClearSurveys`, `RemoveSurveyClear`, `RemoveSurvey` |
| `getStatusCount` of both services; typeorm's cache | `GetStatusCount`, `CacheHit` / `CacheMiss`, `QueryCount`, `StoreCount`; `Expire` is the clock |
| errors, restarts | `WriterFails` |

The queries share no state, so a behaviour follows one (`query`). Requests that are re-typed
are left out.

### Pages

`rows` is the set of rows that pass the filters, numbered in the order of the list; `walk` the
client's page, limit and what it waits for; `seen` what it was given. `stayed`, `entered`, `left`
and `repeated` are history. `GetItems` is the query of the page (`Offset`, `Items`), `GetCount`
the one of the count with the answer to `next_page` (`TotalPage`, `NoNextPage`): rows come and go
between the two and between pages (`EnterList`, `LeaveList`).

### Environments

The code leaves some things to its callers and to timing; the specifications name them.

- `Spec`: everything interleaves and fails.
- `DisciplinedSpec`: no two handlers claim overlapping days of a fleet between the check and
  the save (`NoRivalClaims`); requests are not re-typed and done stays done
  (`SurveysSettled`). The code does not enforce either, see the findings.
- `SerialSpec`: one handler or job at a time (no race, still every sequence).
- `FairSurveysSpec`: handlers go on, and drivers keep trying (see Fairness).

## Runs

| run | specification | shows |
|---|---|---|
| `surveys_one_caller` | `FairSurveysSpec`: 2 surveys (an order's two requests or two standalone ones), 1 caller, failures, updates, removals, logs | types; requests stand still (`RequestsStandStill`); status forward; logs never ahead (`LogsNeverAhead`); no start logged after an end; a standalone survey ends |
| `orders_disciplined` | 2 workers, 2 orders, 3 days, periods of 2 days | no double booking; refinement of `FleetCalendar` (`BookingsAreACalendar`) |
| `orders_serial` | `Spec` under `ACTION_CONSTRAINT OneAtATime` (which is `SerialSpec`): 1 order, 2 customers, 2 totals, all operations, paid and overdue invoices, logs and removals of requests | types; log, requests, invoice and ledger agree with the order at rest; the orders serve the surveys (`SurveysAreServed`) |
| `orders_payments` | 1 worker, 1 job, 2 orders, 2 customers, 2 fleets, full payments, all failures, no removals | paid means paid; own invoice; unfinished orders keep their days (`UnfinishedOrdersCount`, which `orders_hidden_booking` violates by removing a request) |
| `accounts` | 2 requests, 2 users, 1 address, 2 passwords, 1 token, 1 shared phone, 2 device rows | passwords, removals and sessions survive the races |
| `reads` | 1 order, 1 survey, 1 handler, 2 readers (two at once for the count of what is done); 5 rows, limits 1 to 3, 3 changes; 2 fleets, 2 customers, 2 prices, the bodies of `SomeBodies` | counts: types, wrong only for a reason, right in the end; pages: types, misses and repetitions bounded (`MissedAtMostLeft`, `RepeatedAtMostEntered`), the walk ends; prices: types, invoice and row agree, totals do not fall, extensions are taken |
| `surveys_delivery_stuck` | violation of `DeliveryEnds` under `FairSurveysSpec` | neither request of an order can start while both are there |
| `surveys_driver_not_told` | violation of `DriverWasTold`, 2 surveys, 2 drivers | the driver is compared with that of another survey |
| `orders_double_booking` | violation of `NoDoubleBooking` under `Spec` | two creations book one fleet |
| `orders_hidden_booking` | violation of `UnfinishedOrdersCount` | an order without its pick-up request loses its days |
| `orders_paid_invoice` | violation of `PaidInvoiceIsKept` | update deletes a paid invoice |
| `orders_accepted_rejected` | violation of `AcceptedNeverRejected`, 2 workers, 1 order | an accept between the check and the write of a rejection |

**Bounds.** They are in the cfg files, all as sets of model values or numbers; inside the
models are the code's own three retries, and in `Pages` `MaxChanges` (rows that enter or leave
during a walk: with no end to new rows a walk need not end) and the last page a walk asks for, a bound
`PagesTypes` proves is never reached. Two orders are enough for a conflict,
which is a relation of two; two surveys are an order's two requests, or a standalone one next to
another; periods of two days over three start dates touch, overlap, coincide and are disjoint
by turns; two customers and two totals reach each branch of the invoice logic; the identities
of orders and invoices end the behaviours (no order is created twice), which is why
deadlock is not checked. One worker and one job suffice for `orders_payments`, because every
write of a payment goes through one job, and the theorems cover the other numbers; two fleets
let both orders live at once, so that a callback could meet the wrong one. In
`accounts` the bodies are those of `SomeDtos` (all columns, a name only, one column to
change): two passwords make an old and a new one, one address for two users a conflict, one
phone for two users a shared one, two requests every race of a read with a save. In `reads`
one order reaches each status count from 0 to 1 and back, and one handler against one reader
every order of a write, a clear, a query and a store, two readers leave two results that expire each
in its time; that more of them add no other reason is
`StaleCountsHaveAReason`. Five rows make up to five pages of one row and pages that are not
full; three changes shift a walk by more than a page. A Friday and a Sunday with
one or two days reach each case of the weekend days; an insurance costs what a driver costs for
two days, so that one can replace the other unnoticed by `isItemsChanged`; a discount of 100 %
hides every change of price.

**Fairness.** `WF` of survey handlers: Node runs every callback whose promise has settled. `SF` of a
driver's attempt to end a survey, and of the status write of that attempt: he repeats the request
until it is accepted, and the database does not fail each of his attempts. `WF` of `Expire`: time passes (handlers
and readers of the counts have no fairness, `StaleCountsEnd` holds without). `WF` of `GetItems`
and `GetCount`: the client goes on and is answered.

**Deadlock** is not checked anywhere: each system may come to rest when no identity is left.

## What is proved

Every theorem holds for all values of the constants that satisfy the assumptions
(`SurveyConstants`, `OrderConstants`, `NoneIsNoRow`, `AccountConstants`, `PriceConstants`,
`AbsentIsNoRow`, `CountConstants`), in particular for any number of workers,
jobs, callers, orders and invoices.

| theorem | states | argument |
|---|---|---|
| `SurveysTypes` | `SurveysTypeOK` | `SurveysInv` adds that a running call has a survey that is there, and a kind or a DTO |
| `RequestsCannotMove` | `RequestsStandStill`, any number of callers, all failures, no re-typing | `StandInv`: no log that passed the check is about to write to either of two pending requests of a live order (`PairWaits`), an order has one request of a type (`OneOfAType`), and the siblings of the delivery are the pick-up and itself, so no later log passes (`PairIsRefused`) |
| `StatusMovesForward` | `StatusNeverGoesBack` with one caller, updates of every kind | `OneCallerInv`: between the check and the write what the check saw is still so |
| `LogsFollowStatus`, `ProgressIsNotNegative` | `LogsNeverAhead`, `ProgressNotNegative` (one caller, failures included) | `LogsInv`: the logs of a survey are a sequence its status allows, but for the one log the call still has to write; after a failure the log is missing for good, and the order of the others stands |
| `OrdersTypes` | `TypeOK` | `OrdersInv`: what a handler holds fits its phase and points to rows that are there; rows are never taken away (`RowsStay`) |
| `SurveysServed` | `SurveysAreServed`: `Spec` implements `SurveysSpec`, with all interleavings and failures | `ServedInv`: orders and surveys agree on which orders were ever saved, so an insertion finds no request of its order; an order whose requests are about to go has left the live orders, so they go after it; every other step leaves the rows of surveys alone. `"lead" \in SurveyOps` lets `Surveys` take its environment actions; no action of `Orders` looks at it |
| `RequestsCannotMoveForOrders`, `StatusMovesForwardForOrders` | `RequestsStandStill`, `StatusNeverGoesBack` of the whole system, under the same assumptions, with any number of order handlers | the theorems about `Surveys`, through `SurveysServed` |
| `CalendarKeepsApart` | no double booking in `FleetCalendar` | inductive as it stands, with its type |
| `BookingsRefine` | `DisciplinedSpec` implements `FleetCalendar` | `BookingInv`: the days a handler claims are free of the other orders, from the check to the save (`ClaimSafe`), although orders are booked, released and rejected meanwhile; each action is then a booking, a release, or no change |
| `NoFleetBookedTwice` | `NoDoubleBooking` | the two theorems before it |
| `UnfinishedCount` | `UnfinishedOrdersCount` under `DisciplinedSpec`, if the surveys routes remove no request | bookings are apart in the query's sense (`Apart`, stronger than the calendar's), and a live order keeps its pick-up (`PickUpsStay`), because `remove` takes the requests only after the order. So the finding of `orders_hidden_booking` has that one cause |
| `PaidMeansSettled`, `InvoiceIsOwn` | `DonePaid`, `ExternalBelongs`, under `Spec` with all failures | `PayInv`: the copies in handlers and jobs, the waiting callbacks, the orders and the ledger all say of invoices only what is true and stays true (`Grow`: an invoice keeps its number, and once settled stays so), so a late save or callback can be stale but not wrong |
| `StatusIsLogged` | `LogTellsStatus`, with one worker that does not fail | `DecisionsInv`: what the handler read is still the status of its order, and log and row differ only between the two writes of the handler that makes them differ; surveys, jobs and the gateway write neither |
| `RequestsFollow` | `RequestsFollowOrder`, any number of workers, no failing handler | `RequestsInv`: a live request has a live order, or a handler that has removed the order and has the requests still to remove |
| `InvoicesMatch`, `LedgerMatches` | `InvoicesMatchOrders`, `LedgerMatchesOrders`, `SerialSpec`, nothing cut short | `SerialInv`: all invoices and ledger rows agree with all orders but that of the handler that runs (`BillsAgree`, `LedgerAgrees`), and `Holds` says, phase by phase, how far that one has come; needed because in the middle of an update the old invoice is gone and the new one belongs to a row that is not saved |
| `AccountsTypes` | `AccountsTypeOK` | `TypedInv` adds that a handler that will still write knows its user |
| `SessionsNameOwnDevices` | `SessionDeviceIsOwn` | `DeviceInv`: the row `upsert` found is still the one it looked for when it is saved |
| `PasswordsAreAsked`, `RemovedAccountsStay` | `PasswordIsAsked`, `RemovedStaysRemoved` | `OnlyAskedPassword`: a loaded row carries a password only if the caller gave one; `UsersChange` lists all steps that write a users row |
| `PricesTypes`, `InvoiceSaysWhatRowSays`, `TotalsDoNotFall`, `LongerRentalsAreTaken` | `PricesTypeOK`, `InvoiceTellsRow`, `TotalNeverFalls`, `ExtensionsAreTaken`, for all prices, fees, rates and durations | `PricesInv`: row and invoice are those of one request at the prices of its time; `ItemsAddUp` is the algebra of the items, `UnchangedTotals` that equal totals at a discount below 100 % have equal sub totals, `LongerCostsNoLess` that each part grows with the days (`WeekendDaysGrow`, `TaxGrows`) |
| `CountsTypes`, `StaleCountsHaveAReason` | `CountsTypeOK`, `StaleForAReason`, any number of handlers and readers | each write either is accounted for (`WritesAreAccounted`), or leaves its handler in a phase that clears; each clear empties the cache, so `missed` may be forgotten (`ClearsAreSound`) |
| `PagesTypes`, `WalksMissLittle`, `WalksRepeatLittle` | `PagesTypeOK`, `MissedAtMostLeft`, `RepeatedAtMostEntered`, for lists of any length, all limits and all changes | `PagesInv`: the rows a walk will miss (`Behind`: unread, and at a position the pages have passed) are at most those that left, the rows it will be given again (`Ahead`) at most those that entered; a row that leaves moves one position at most behind the walk, one that enters one at most ahead of it. A walk that is over has the whole list behind it |

`CalendarKeepsApart` is in `BookingsProofs`, about the instance `Calendar` of `FleetCalendar`.

Only model-checked: liveness (`StandaloneSurveyEnds`, `StaleCountsEnd`, `WalkEnds`), which is
out of the prover's reach.
Every invariant and every action property of a passing run has a theorem.

## Findings and observations

The six violation runs are disagreements of the code with its own comments or messages; see
`findings` in `PROJECT.json`. Met while modelling and described here only:

- `validateSurveyStatus` tests a promise (S:281), so a survey can be ended without being
  started ("Must start the request first.", S:283);
- with two logs of one survey at the same time, a done survey can go back to in progress
  (check at S:254, write at S:256; "Survey already ended.", S:290), hence one caller in
  `surveys_one_caller`;
- an update of a survey with a driver of null empties the column and tells nobody (S:193);
- a rejected order is accepted through `update` (`leads.controller.ts:73`), although `reject`
  insists on a pending one (L:566);
- `JwtStrategy.validate` returns the users row without the session's `device_id`
  (jwt.strategy.ts:21-26), so `logOut` is called with undefined and removes no device, and
  `get` signs sessions without one;
- `forgotPassword` answers "Forgot password email sent successfully." (U:198) and sends none;
- two resets that hold one token both succeed, the later one wins;
- two logins of one user and phone can insert two device rows;
- the list of orders with a status filter joins deleted pick-ups as well (`withDeleted`), the
  count of the same status does not: a list can be longer than its count;
- `createOrder` never clears the counts of surveys, `log` and `remove` of a pick-up never those
  of orders: these stay wrong until they expire;
- an update that omits fields writes the total without them: without a duration the row keeps its
  days and gets the total of one, and the items of the invoice have no quantity; `insurance_id` is
  not selected and so never stored by an update; a customer's creation without a duration fails on
  a column that must not be null;
- the guard against a lower total (L:434) is in one branch only: when the customer changes, the
  total may fall; a duration below zero passes the DTO, and then a dearer fleet is cheaper;
- an end without a start leaves a survey without a duration (survey.entity.ts:163);
- `update` calls pgCallback without waiting for it (L:449): its error is not handled;
- with two runs of pgCallback, which one update can start, or an update next to one, the payment
  status may settle on an older answer of the gateway; no property says it settles on the younger.

## Not modelled

- Guards: handlers are modelled below them. `JwtStrategy` and `RoleGuard` keep no state.
- Mail, firebase: one call each that sends a message and whose answer nobody reads.
- String, phone and slug helpers, hashing: formatting and random strings; an invoice number is
  fresh, a password stands for its hash.
- Filters and search of the lists: a list is the set of rows that pass them.
- The composition of `Orders` with `Accounts`: the one state they share is the customer
  `createCustomerOrder` inserts (L:123), which stays when the order fails; the code does not
  undo it, so there is nothing to verify beyond `CustomerCreate` of `Accounts`.
- Configuration, migrations, entities' declarations and API documentation: wiring.

## Plan

Done: all modules and theorems above. What is left, in the order of what it would add:

1. invoice numbers that collide (`invoice.helper.ts:6`), with the two orders a callback then finds;
2. payments that settle: what update and pgCallback would need (runs one after the other, a save
   that writes only what it changes) for the status to end on the gateway's last answer;
3. an abstract specification of accounts (who may sign in with which password) that `Accounts`
   implements; today its parts are separate properties;
4. `Orders` with `Accounts`, see above, and the profile columns of a users row;
5. self pick-up and the calls to the paper partner in `Surveys`.
