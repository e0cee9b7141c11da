# dian-backend in TLA+

A formal model of the backend of a cafe: NestJS services over PostgreSQL
(Prisma), Redis and a payment gateway. The modules are translated from the
TypeScript source under `src/`; TLC checks them on small instances and TLAPS
proves every safety property the runs check for instances of any size.

Run everything from this directory:

    tlc -workers 2 -config MCPayment_faults.cfg MCPayment
    tlapm PaymentProofs.tla

`PROJECT.json` lists the runs, the theorems, the hazards of the code with the
properties that cover them, and for every definition the lines of source it
stands for.

## The system

The process is a single Node event loop: between two `await`s nothing else
runs, and at every `await` any other request may. Shared state is in the
database, in Redis, and in a few fields of the services. There are no job
queues and no recovery jobs: whatever a crash leaves behind stays until a
request touches it.

| Component | State | Operations | Hard behaviour | What makes it correct |
|---|---|---|---|---|
| Online payment (`payment/`) | `PendingOrder` and `Order` rows, the gateway's payment | create, callback (verify), cancel | a row read before a 30 s call and used after it; callbacks repeated; gateway timeouts; cancellations; crashes | one order per checkout, orders only for captured payments, no captured payment without order or pending order, no row left by a failed create, every callback answered |
| QR check-in (`qr/`, `redis/`) | Redis keys `table:session:*`, `table:active:*`, `TableSessionLog` | issue, consume | concurrent consumption, EVAL falling back to GET + DEL, lost replies, swallowed errors | a token gives one session, to the address it was issued to, after its log row |
| Table sessions (`qr.service.ts`, guard) | `table:active:*` | validate (read, check, write back), invalidate | write back after an invalidation or after the end of the session | a request that starts when the session is over is refused |
| Table cache (`QrService.tablesCache`) | rows and expiry in a field of the service | lookup, while admins change tables | the clock is read before the query; concurrent loads overwrite each other | answers are never older than the TTL |
| Orders and products (`orders/`, `products/`) | `Order`, `OrderItem`, `Product` with `soldCount`, `isActive` | place, count, remove a product | count-then-delete against inserts; `Promise.all` failing half-way; crashes | the products of an order are never deleted; counters agree with the orders |
| Status board (`orders/`, `orders.gateway.ts`) | `Order.status`, Redis channel, websocket clients | change a status, publish, broadcast, connect | publish order against commit order, lost messages, an early return on a stale status | clients show the status of an order once it is published |
| Sales (`admin/sales/`) | the orders; the clock; snapshots | summary, reset, monthly metrics | several queries without a transaction while orders are paid | the queries of a report agree with each other, and reports with later ones |
| Pricing (`orders/utils`, `common/utils`) and footer settings | the `tax` and `fee` settings | compute totals while an admin changes a setting | two settings read by two queries; rounding; titles that are no number | a price is of settings that were in force together, and its parts add up |
| Categories and products (`categories/`, `products/`) | `Category`, `Product` | create, update with discount, delete with reassignment, edit, remove | prices written from a stale read; a batch that fails half-way | a price follows its original price and discount; ordered products stay |
| Options (`categories/`, `products/`) | `CategoryOption`, `ProductOption` | sync a category's options into its products, sync a product's own | transactions at Read Committed that read, then insert what is missing | a product has one copy of an option, with its value, but for the cases listed under *Known and excluded* |
| Category icons (`categories/`) | `CategoryIcon` rows and files | create, replace, clear, delete | two stores without a transaction; clean-up on every error path; crashes | a shown icon exists, an unused one is removed |
| Category lists (`categories.repository.ts`) | lists in Redis | list, while categories change | a list read before a change stored after a newer one | the lists become what the categories are |
| Banners (`banners/`) | `Banner.order` | create, swap, reorder, update, remove | shifting all orders and inserting at 0, concurrently | orders stay distinct |
| Comments (`comments/`) | `Comment` with `adminReply`, `isReplied` | create, reply, update or remove a reply | read, then write in a second query | public comments have a reply |
| Throttler (`common/throttler`) | counters and block keys in Redis | increment | INCR and EXPIRE are two calls | a blocked client is let in again |
| Refresh tokens (`auth/`) | `RefreshToken` rows | login, refresh with rotation and reuse detection, logout | two refreshes with one token, a logout during a refresh, a failure between create and revoke | a revoked family stays revoked; one usable token per family; whoever was answered can go on, unless storing the token failed |
| Accounts and roles (`auth/`, `users/`, guards) | `User` rows, the claims in signed tokens | login with bootstrap, register, CRUD, change of password | check-then-insert across a slow hash; a row read, merged with a body and written back | names differ, updates stick, only administrators give roles, only an empty table is bootstrapped |
| Cart | one Redis key per session | pass-through | - | not modelled |
| Uploads, Cloudinary, DTOs, mappers, filters, bootstrap | - | I/O and wiring | - | not modelled |

How they interact. A QR check-in hands out the session a guest orders with. A
COD order is inserted directly; an online one passes through the payment flow,
whose callback inserts the same `Order` and `OrderItem` rows. Products and
categories are changed underneath both. Status changes are published in Redis
and broadcast by the gateway, and sales reports read the same orders. The
guards let a request in by the role its access token claims, which is the role
the account had when the token was signed.

## The modules

| Module | Models | State and actions |
|---|---|---|
| `PendingOrderContract` | what the payment flow promises of one checkout | `status`, `charged`; Place, Charge, Fulfil, Drop |
| `Payment` | `payment.service.ts`, `payment.controller.ts` | rows, gateway, callback slots; one action per stretch between awaits |
| `PaymentProofs` | theorems about `Payment`, its refinement included | - |
| `OneShotToken` | what a QR token promises | `live`, `spent`, `holder` |
| `QrToken` | `issueToken`, `consumeToken`, `RedisService.getAndDelete` | keys, requests, sessions, log |
| `QrTokenProofs` | theorems about `QrToken`, its refinement included | - |
| `TableCache`, `TableCacheProofs` | `getTableByStaticId` and the admins behind it | clock, tables, cache, requests |
| `TableSessions` | `validateActiveSession`, `invalidateActiveSession` | clock, session, its key, requests |
| `Throttler` | `RedisThrottlerStorage.increment` | counter, block, their time left, requests |
| `CategoryLists` | `findAll`, `findAllActive` with their cache | categories, lists and their time left |
| `OrderHistory`, `OrderHistoryProofs` | `OrdersRepository.create`, the pending items of the payment flow, `ProductsRepository.remove` | rows, counters in flight, removals |
| `OrderBoard`, `OrderBoardProofs` | `updateStatus`, `orders.gateway.ts`, clients | status rows, requests, connections, views |
| `Sales` (extends `OrderBoard`) | `admin/sales` | clock, orders' dates, the sets of orders a report covered |
| `Pricing` | `pricing.util.ts`, `tax.util.ts`, the settings | tax and fee, what requests read, prices |
| `Catalog`, `CatalogProofs` | `updateCategory`, `deleteCategory`, product create, edit and remove | rows, and what each request has read |
| `CategoryOptions` | `syncCategoryOptions`, `syncOptions` | option rows, copies, what each transaction read |
| `CategoryIcons` | the icon paths of `categories.service.ts` | categories, icon rows, files |
| `Banners` | `banners.repository.ts` | orders, what each transaction read |
| `Comments` | `comments.service.ts` | replies, requests |
| `RefreshTokens`, `RefreshTokensProofs` | `auth.service.ts` with `refresh-token.repository.ts` | clock, token rows, requests |
| `Accounts`, `AccountsProofs` | `auth.service.ts`, `users/`, JwtStrategy, RolesGuard | accounts, signed claims, requests |
| `MC*` | the instances for TLC, the parts of a run side by side | named fault sets, symmetry |

Conventions. A variable named after a column or field is that column or field;
`pc` is how far a request has come, and its values name the `await` it waits
at. What may go wrong around the service is a set `Faults`: an action that
needs a fault is guarded by membership, so one module gives both the calm and
the faulty system, and theorems hold for every subset. (A module in which every
failure is part of ordinary operation has no such set.) Variables marked
"history" are written and never read by an action: they record an event, such
as two requests overtaking each other, so that a property can name the exact
case it does not cover. An operator commented "Mutant" is a plausible slip of
the code; it is used by no specification and shows that a property can fail.

`MCTableCache`, `MCOrderHistory`, `MCCatalog` and `MCAccounts` hold several
modules that share no state in this code. A behaviour of such a module is one
of one part: the variable `part` says which one moves, and the rest keeps one
of its initial values. The state space is then the sum of the parts' and not
their product. Their sets share model values, so that one symmetry serves all. `TableCacheProofs`,
`OrderHistoryProofs`, `CatalogProofs` and `AccountsProofs` extend these modules
and not the first of their parts alone: the theorems about a part are about
`MCSpec`, the specification of the run, and speak of its properties by the names
the run gives them.

### Payment

A checkout is one `createPayment` request and, from then on, the
`PendingOrder` row it stores and the authority the gateway issues for it. A
slot is a callback request being served; slots are reused, so a callback may
come any number of times. `LoadPendingOrder` is `findUnique` with the checks
that follow; `GatewayVerifies` is the gateway answering `verify.json`
(external: it captures a paid payment with code 100, recognises a captured one
with 101, declines the rest); `VerifyRequestFails` is the HTTP client's timeout
or an error, at a moment when the gateway may have captured already;
`CommitOrder` is the transaction that inserts the order and deletes the row;
`DropDeclined` and `CatchVerifyError` are the branches that delete it. The
items, amounts and notes of an order never change on the way and are left out;
that an order's items may name products that are gone is in `OrderHistory`.

`Payment` implements `PendingOrderContract` under the mapping at its end: a
checkout is *pending* while its row exists, *ordered* when there is an order,
*dropped* when neither is left. The contract's `DropCharged` is false exactly
when `Faults` holds nothing but crashes and failing calls of `request.json`.

### QrToken

A token is one issue request, a guest is one consume request and the session
it may get. `EvalGetAndDelete` is the Lua script, one atomic step. `EvalFails`
separates the script that did not run from the one whose reply was lost: both
make RedisService fall back to `FallbackGet` and `FallbackDel`. `CheckAndLog`
and `EstablishSession` are the rest of `consumeToken`. The checks of the
request's format and of the stored payload's shape change no state and are
left out; `uses < maxUses` holds of every payload `issueToken` stores.

A token is *exposed* when it had a key at a moment the script did not run.
`QrToken` implements `OneShotToken` with every fault on: the mapping counts an
exposed token as spent without a holder, which is all the code promises of it.

### TableCache and TableSessions

The clock is discrete. `Lookup` takes `now` and answers from a live cache;
`ReadTables` is the database evaluating the query, later; `FillCache` replaces
the cache with an expiry computed from the early `now`. Two history variables
remember when a table was last active and last inactive, so that
`AnswerIsFresh` can say how old an answer is.

`TableSessions` starts where `QrToken` ends, with a session in Redis. Every
validation is GET, the checks, and SETEX with the rounded time left, each a
step; the clock counts parts of a second because the key's expiry is in whole
seconds and outlives the session. `invalidateActiveSession` and the guard exist
and have no caller in the repository; the model is of what they do.

### Throttler and CategoryLists

`Throttler` has one client. Each Redis command is an action and any may be the
last (`Fail`: the command throws or the process dies). Time left is counted
down by `Tick`; a key without expiry has `Forever`. Hits above the limit are not
told apart. `CategoryLists` has what the cached lists distinguish of a category
(absent, active, hidden). A request may store the rows it read at any later time,
after others stored newer ones; no write of a category touches the cache.

### OrderHistory

A request is a COD order or an online one. The foreign keys are those of
`schema.prisma`: `OrderItem.productId` refers to `Product` (no cascade),
`PendingOrderItem.productId` refers to nothing. `PlaceCod` inserts the order
and starts the `soldCount` updates of `Promise.all`, each of which is a
`CountLine` of its own; a removal is `CountHistory` (the count of order items)
followed by `HideProduct` or `DeleteProduct`. A line has quantity one.

### OrderBoard and Sales

`ReadStatus` is `findUnique` with the early returns for a missing order and an
unchanged status; `WriteStatus` the update; `Publish` the publish and, because
the gateway is in the same process, the broadcast to the connected clients. The
gateway's subscriber comes up at most once per process. A client fetches the
orders when it connects and keeps what it knew when it goes. The channels of
products, settings and banners go the same way and have no model of their own.

`Sales` extends `OrderBoard` with dates and reports; its steps are those of the
orders, time, and the queries of a report, each covering a set of orders. Sums
and ranks are functions of those sets and are left out. Resetting the sales
never stores a snapshot (see *What the runs found*), and so every summary starts
at the beginning or at its `from`.

### Pricing

`computeOrderPricing` in integers: cents for amounts, ten thousandths for the
tax. `ReadTax` and `ReadFee` are the two queries, `Compute` is all the rest, and
`ChangeSetting` is an admin between them. `Money` is the rounding of `toMoney` on
exact values, where the code rounds the nearest double. `Numeric` is what the
code makes of a setting's title, `Words` and `Dashes` stand for the two kinds of
titles without a number: one of words is 0 percent, because `Number('')` is 0, and
makes the items cost nothing; one of dashes alone, or a blank one, is the fallback.

### Catalog

Admins change one database. Forcing a discount on a category is three steps
with awaits between them: `UpdateCategory` stores the category's row,
`ReadProducts` reads the products and computes their prices, `ApplyDiscount`
writes them by id in one transaction, wherever the products are by then; a
missing one rolls it back. An edit is `ReadForEdit`, the upload of images, and
`StoreEdit`, which writes every field back, the untouched ones as they were
read. (The controller routes only `updateWithFiles`; `update` of the service
has no caller.) A removal is `CountOrderItems` and `RemoveProduct`; deleting a
category is one READ COMMITTED transaction, split into `ListCategory` and
`DeleteCategory`, the moment it commits. `Fail` is any error or crash. The
category *uncategorized* is filtered out of every list, so no request names it.
Prices are rounded down here and to two decimals in the code. Names, images,
`isActive` and the category's own discount are left out; what hiding instead of
deleting means for orders is in `OrderHistory`.

### CategoryOptions, CategoryIcons, Banners, Comments

`CategoryOptions` has one category. A sync is one transaction at Read Committed,
in four steps. `ReadCategory` is the beginning, with the reads of the category's
options and products. `LockOptions` is the updates and deletions of the options,
which wait for other writers, and the reads after them: each option's value and
the products that have a copy. `CopyOptions` inserts the missing copies and
updates the others by `updateMany`; it finds the copies committed by then and no
later ones. Until the commit nobody sees any of it, but the foreign keys of new
copies and the updated rows hold off whoever would delete or write them
(`Holds`, `Locked`). `CommitSync` deletes the options the payload left out and
commits. The code goes option by option where the model locks all and then
copies all. An input gives an option a value, deletes it, names it without a
field (`bare`) or does not name it. Name, price and availability are one value.

`ReadProduct` and `CommitProduct` are `syncOptions` of a product. The row it
keeps is updated by its id alone, so `keep` ranges over the rows of every
product. `CreateProduct` inserts the options of the form as they are given
(`Forms`), which may name one option twice or give it another value. `Fail` ends
a request of either kind: a database error, a deadlock, the time limit of a
transaction, the death of the process.

`CategoryIcons` is the order of six effects: file, icon row, category row, the
rest of the update, removal of the old icon, and the last read of the category
(`ReadFinal`), with the undo of each error path. When that last read fails the
old icon is gone already, and the undo removes the new one as well.
`Banners` splits a transaction at Read Committed into what its first statement
saw and its commit. `Comments` is a read and a write per request.

### RefreshTokens and Accounts

A refresh token is a JWT of a payload that is the same every time but for
`iat`: two tokens of a user signed in one second are one string, and
`tokenHash` is unique. A token is therefore named by its second. Every error of
the inserts and revokes is swallowed as in the code: a request that could not
store its token is answered with it all the same, which the model labels
`unstored` to tell it from `answered`. No access token carries a
`jti`, so the blacklist of `logout` is never written and has no model. Expiry
after 7 days is left out: it only makes tokens unusable.

`Accounts` has the role and activation of every account, what was typed as its
password, and whether that was hashed. An update is `ReadUser` and
`WriteUser` with the spread of `applyUpdate` between them: a field the client
left out is an own property with the value `undefined` (`None`) and hides the
row's, one deleted by the safe body is absent and leaves the row's in place.
`tokens` holds the claims of every token signed, the guards read them.
`@User('sub')` reads a field that the object of JwtStrategy does not have:
`FailsWithoutSub` is what becomes of the handlers that use it.

## The runs

| Run | Bounds | Shows |
|---|---|---|
| `payment_faults` | 2 checkouts, 2 slots, all faults, 1 crash | `TypeOK`, `AtMostOneOrder`, `OrderIsBacked`, `ImplementsContract`, `CallbackAnswered` |
| `payment_calm` | 2 checkouts, 2 slots, 2 crashes and failing `request.json` | `CapturedIsKept`, `FailedCreateLeavesNoRow`, `PaidIsOrdered` |
| `payment_lost` | 1 checkout, 2 slots, cancellations and gateway errors | violates `CapturedIsKept`; either fault is enough |
| `qr_faults` | 2 tokens, 3 guests, 2 addresses, all faults | `TypeOK`, `SingleUseByScript`, `SessionOnIssuingAddress`, `SessionWasLogged`, `ImplementsOneShotToken` |
| `qr_fallback` | 1 token, 2 guests, script fails | violates `SingleUse` |
| `table_cache` | cache: 1 table, 2 requests, TTL 2, 5 ticks; sessions: 2 requests, 2 addresses, 2 s of 2 parts each; throttler: 2 requests, limit 2, TTL 2, block 10; lists: 1 category, 2 requests, TTL 2, 3 changes | `AnswerIsFresh`; `DeadIsRefused`; `CounterExpires`, `Readmitted`; `ListsCatchUp` |
| `orders` | products: 2, with 2 requests, 2 removals, database errors, 1 crash; board: 2 orders, 3 requests, 1 client, failing publishes, 1 crash; sales: 2 reports over 2 orders, 3 days in months of 2; prices: 2 requests, 4 carts, 2 changes of settings | `HistoryIntact`, `SoldCountAgrees`; `ViewsAgree`; `ReportsAgree`; `PricedAsSet`, `ItemsAddUp` |
| `order_removed` | 2 products, 2 requests, 1 removal, no faults | violates `CapturedIsKept` |
| `catalog` | prices: 2 products, 2 categories, 2 requests, prices 100 and 300, discounts 50 and 120, 5 kinds of edits; options: 2 of them, 2 values, 2 products, 2 requests, at most 3 copies, 7 payloads, 3 forms of a product (without options, with one copy, with two copies of one option and an option of its own); icons: 2 categories, 2 requests, all faults, 1 crash; banners: 3, orders up to 3, 2 requests; comments: 1, 3 admins | `TypeOK`, `PriceMatches`, `OrderedIsKept`; `CopiesMatch`, `ReplacesAll`; `ShownIconExists`, `UnusedIsRemoved`; `OrdersDiffer`; `PublicHaveReplies` |
| `accounts` | accounts: 3 requests, an ADMIN and a PRIMARY or none, 2 names, 2 passwords, 3 edits; tokens: 4 requests, 3 seconds, all faults | `NamesDiffer`, `UpdatesStick`, `OnlyAdminsElevate`, `BootstrapsOnlyEmpty`; `ClosedFamilyStaysDead`, `OneLiveToken`, `AnsweredIsLive` |
| `refresh_race` | 3 requests, 3 seconds, no faults | violates `RevokedFamilyIsDead` |
| `password_change` | as `accounts` | violates `RightPasswordIsAccepted` |

Why the bounds are enough. In every module the interesting races are between
two requests about one row: two callbacks of a checkout, a callback and a
cancellation, two guests with one token, two loads of the cache, an order and
a removal, two syncs of one category, two refreshes of one token. The second
checkout, token, product or category is there because a request may carry
another one's identity (a callback with a foreign authority) and because one
request may change several rows (an order of two products, a copy in each of
two products). A third actor is there where two race while another already
holds what they race for: a guest with the session, an admin who signed up
while two logins count the users, a comment's retraction between two updates; a
fourth token request lets a login, two refreshes and a logout meet. Slots are
reused, so the length of a behaviour is not bounded by their number. The clock
of `table_cache` runs over two lifetimes of the cache and past the end of a
session; the throttler's two requests come again and again and need one more
hit than the limit. `catalog` has any two of an edit, a removal, a category
discount and a category deletion at once, on products that move between its
categories; a discount above 100 percent passes the DTOs and is one of the two.
The carts of `orders` have amounts that round in both directions, an empty
subtotal, and a tax below 100 percent. Three days in months of two put two
reports on either side of the turn of a month. The proofs lift the safety
properties to any bounds.

The runs switch the deadlock check off where the system may stop: all
checkouts, tokens and requests used up. `table_cache` never stops and keeps it on.

Fairness. Safety runs assume none. `ServerSpec` (`payment_faults`) says that a
handler that can go on does: the event loop runs it, and `timeout: 30000` of
`payment.module.ts` ends a request the gateway does not answer. Nothing is
assumed of the gateway or the customer; that is why `CallbackAnswered` is about
the server alone, and it holds with every fault on. `CalmSpec` (`payment_calm`)
adds that the gateway answers `verify.json`, and that a customer who paid loads
the callback URL as long as there is no order. This last assumption is about
people: the code has no retry of its own, so without it a crash between capture
and commit is final. It is strong fairness because a free slot comes and goes.
The throttler and the lists assume weak fairness of `Tick` (time passes) and of
the steps of each request (the event loop, Redis and the database answer);
requests may still fail at every command. The categories of `CategoryLists`
change `MaxChanges` times at most, so that there is a last change to catch up
with; the property says nothing of lists while changes go on.

## What the runs found

- **A cancellation during verification, or a lost answer of `verify.json`, loses
  the order of a captured payment** (`payment_lost`): both delete the pending
  order that a later callback would need.
- **The fallback of `getAndDelete` is not atomic** (`qr_fallback`), against the
  comment above it.
- **A product deleted during a payment loses the order** (`order_removed`): a
  removal looks at `OrderItem` and not at `PendingOrderItem`.
- **A revoked family goes on** (`refresh_race`): a refresh that passed its check
  before a logout or a detected reuse stores its token after it.
- **A password cannot be changed as documented** (`password_change`):
  `/auth/change-password` always fails, and `PATCH /users/:id` stores the new
  password unhashed, so that it is never accepted.

The findings in `PROJECT.json` quote the lines that disagree.

Known and excluded. Each of these is a behaviour of the code that a property
names and excludes, so that it says nothing else can break it:

| Property | Excludes |
|---|---|
| `SingleUseByScript`, `ImplementsOneShotToken` | tokens that had a key at a moment the script did not run (`exposed`) |
| `PriceMatches` | products whose original price some edit sets: a category discount that read the old one can be written after it (`OriginalEdited`) |
| `ViewsAgree` | orders whose last change was not broadcast, which nothing repeats (`unsent`), and orders changed again between a write and its publish (`raced`) |
| `ReportsAgree` | summaries during which an order was paid or cancelled (`shifted`) |
| `CopiesMatch` | options with a copy that was committed between their writer's update of the copies and its commit, written while the category had no product, copied by an input without fields with a value it had read before another's write, given another value by the form of a new product, or of which a copy was written by its id through another product (`loose`), until they are written again; options two requests copied at once without writing them, or the form of a product named twice (`doubled`) |
| `ShownIconExists`, `UnusedIsRemoved` | icons whose row the database failed to delete (`undeleted`); icons left by crashes, late failures and two updates of one category (`leaked`) |
| `OrdersDiffer` | orders given by hand, partial reorders, creates that did not see each other, swaps overtaken by another (`shuffled`), until all are reordered |
| `PublicHaveReplies` | an update of a reply retracted after its check (`overtaken`) |
| `ClosedFamilyStaysDead` | families with a refresh between check and insert when they were last revoked (`overtaken`) |
| `AnsweredIsLive` | logins whose insert failed: the client is answered with a token the server does not know, and cannot refresh; after a refresh whose insert failed only the token it presented goes on, so a client that kept just the new one is locked out too |
| `OneLiveToken` | families two refreshes rotated at once, or whose rotation failed to revoke (`forked`) |
| `UpdatesStick`, `OnlyAdminsElevate` | accounts to which a request without ADMIN's claim wrote a role and activation it had read before somebody changed them (`overwritten`) |
| `DeadIsRefused` | an invalidation overtaken by a validation that writes the session back |
| `CounterExpires`, `Readmitted` | a counter whose request stopped between INCR and EXPIRE (`stuck`) |

Two more, met while modelling: `POST /admin/sales-reset` reads `@User('sub')`,
which is undefined, and cannot store a snapshot; `invalidateActiveSession` and
`TableSessionGuard` have no caller.

## What is proved

Every invariant and every action property of a passing run is the statement of a
theorem, the two refinements included. The theorems hold for any values of the
constants that satisfy the named assumptions of the modules: `Faults` a subset of
the fault kinds, `None` outside the sets it stands apart from, `MaxCrashes` a
natural number; for `OrderHistory`, a finite set of requests; for `Catalog`, prices
and discounts that are natural numbers and edits made of them; for `Accounts`, edits
and seeds of the right shape, and seeded accounts that are no requests. The `MC`
modules add what the parts beside them need: times and limits that are natural
numbers, a month and a second that are not empty, titles, statuses, replies, icons
and tokens told apart from `None`; and for the options, finitely many products,
options numbered from one, and payloads and forms as the DTOs have them. TLC evaluates all of them. `RefreshTokens` and `OrderBoard` have theorems of
their own, which name what they need of the constants (`ConstantsDiffer`,
`WantedAreStatuses`); `AccountsProofs` and `OrderHistoryProofs` instantiate them
(`RP`, `BP`), show the assumption from those of the `MC` module and the actions to be
the same, and so have the theorem for the run.

`PaymentProofs`. None of the payment properties is inductive: that a row's
transaction happens at most once depends on rows never coming back, and that an
order is backed depends on what every in-flight callback has been told. The
invariant `IInv` adds to `TypeOK`: `RowInv` (a row exists only in the stages of
`createPayment` that have stored it, and never beside its order), `LinkInv`
(what has been handed out), `OrderInv` (at most one order, its authority and its
captured payment), `QueryInv` and `VerifyInv` (a callback past the checks names
its own authority, and an answer of 100 or 101 means captured). From it follow
`AtMostOneOrder`, `OrderIsBacked`, `CapturedIsKept` (when only crashes and
failing requests happen), `FailedCreateLeavesNoRow`, and that every step is a
step of the contract or a stutter (`PaymentImplementsContract`).

`QrTokenProofs`. That two guests do not share an unexposed
token needs to know what each request holds: `TokenInv` (a request that started
has an issued token, whose address and key never come again), `CheckedInv` (past
the checks the address matches and the log row was written or failed),
`SessionInv`, `KeyInv` (of an unexposed token the fallback finds no key, and once
a guest took it there is none) and `UniqueInv` (one guest took it). The
refinement adds that only issued tokens are stored or exposed, and maps storing
to the contract's issue, establishing to its redemption, and every other step to
a waste or a stutter; it holds with every fault.

`TableCacheProofs`.
- `AnswerIsFresh` is an action property. The invariant says that the rows a request
  holds are as of some moment since its `now`, and the cache's rows as of some moment
  since its expiry minus the TTL, stated with the history variables; a table found
  then was active that recently.
- `DeadIsRefused`: `InvalidatedInv` says that after an invalidation the key is gone
  and nobody holds what it read before, unless a validation was overtaken; `ReadInv`
  carries to each request whether it began after the end.
- `CounterExpires`: `CounterInv` says that only the request that counted first sets
  the expiry, that the counter is without one until then, and that it is alone.

`OrderHistoryProofs`.
- `HistoryIntact` needs `StageInv`: a request that is idle or waits for its payment
  has no order, so inserting its lines is the only moment at which the history
  grows, and the foreign key guards it. For `SoldCountAgrees` the same stages say
  that an order enters the account together with its updates and that updates in
  flight belong to lines of a COD order, and the cardinality theorems of the library
  do the counting: one lemma per kind of step says how it moves the account of a
  product (`PlaceCodAccount`, `CountLineAccount`, `CrashAccount`), and every other
  step leaves it alone.
- `ReportsAgree`: `SalesInv` says that an order is dated once, with the time of the
  clock, so that past months never change and the current one only grows
  (`MetricsOK`), and that what a summary has read stays the paid orders of its period
  until a status changes (`SummaryOK`).
- `PricedAsSet`: that a tax and a fee were in force together cannot be seen from the
  two alone. `RequestOK` says that after one change what a request has read lies
  between two pairs that differ in one setting (`Between`), and before any change it
  is of the pair in force.
- `ItemsAddUp` is what one evaluation of `computeOrderPricing` returns, so its proof
  is about that function: `PriceAddsUp` states it for every basket, tax and fee, the
  run's four carts among them. The
  sums are recursive functions over a sequence, and the induction the library offers
  takes an operator no prover here can instantiate; `Inductive` gets it for sets of
  naturals from the well-foundedness of the finite sets under inclusion. The rest is
  arithmetic of rounding: `Money` is within half a unit, the last item takes what the
  others' shares leave, and the shares add up to the tax.

`CatalogProofs`. `PriceMatches` speaks of rows, but what breaks it is written
from what requests remember. The invariant adds `FreshInv` (a row never comes
into existence twice), `EditSound` (the row an edit has read matches its own price, or
somebody edits its original price) and `BatchSound` (the price a category
discount has computed for a product goes with the original price the product
still has, or, again, somebody edits it). `BatchSound` holds because every
action leaves the original price of a product alone unless its edit carries
one, which needs `EditSound` to say that the original price an edit writes back
unchanged is the current one (`RowStays` and the frame lemmas). `OrderedIsKept`
needs `FreshInv` and types only: each delete repeats its check when it commits.
- `CopiesMatch`: `OptionsInv` adds to it that ids are given out in order and never
  again, so that an option deleted is not the one written later (`RowsInv`); that no
  two requests between lock and commit write one option (`LocksDiffer`, what the row
  locks of the updates are for); and `RequestInv`, above all that of an option it
  writes, and that was not doubled, only the products it read at the lock have copies
  among those of the request until it commits. What the update of the copies did not
  see is exactly what `Loosened` names at the commit. `ReplacesAll`, an action property, needs of it only that what a request
  read are options.
- `ShownIconExists` and `UnusedIsRemoved`: `UnbornInv` says that until a category
  points at an icon only the request that saves it knows it and how far it has come;
  `RemovalInv` that who takes a file away has taken the row away or failed to; and
  `KeptInv` names, for an icon no category shows, a request that is certain to remove
  it, where the property only asks for one that may.
- `OrdersDiffer`: `UntiedInv` adds that orders that may not tie are not negative, so
  that shifting all and inserting at 0 makes no two equal; a reorder needs that the
  places of a list differ (`ListedDiffer`).
- `PublicHaveReplies`: that an update whose comment is no longer replied to was overtaken.

`OrderBoardProofs`. `ViewsAgree` is about moments at which nothing of an order is
unpublished; `PublishInv` carries it over the others: of an order that was not
raced one change at most is unpublished, and it is the one the row has.

`RefreshTokensProofs`. Whether a family has a usable token depends on what
requests are about to store. `FamilyInv` ties every stored token and every
request past its check to a family whose login is over; `ClosedInv` adds to
`ClosedFamilyStaysDead` that nobody is about to store a token of a closed family
that was not overtaken; `RotationInv` that of a family that did not fork one
request is rotating at most, and while it has not stored its token only the one
it uses is usable; `TokenInv` that an answered token is stored, that a stored one
that is not usable was rotated or its family closed, and that a request whose
insert failed was a login or presented a token that is stored. `ClosedFamilyStaysDead`,
`OneLiveToken` and `AnsweredIsLive` are consequences.

`AccountsProofs`. `LocalOK` says what a request knows at each point, above all
that the body of an update without ADMIN's claim has neither role nor
activation. What `WriteUser` does to an account and to the history of intended
values is stated once (`Written`, `Intends`) and used for `UpdatesStick` and
`OnlyAdminsElevate`. `NamesDiffer` is inductive with the types: the insert
repeats the check. `BootstrapInv` says that a login about to create an
administrator found no account and that none of those there at the start comes
back; `BootstrapsOnlyEmpty` follows.

Two theorems say how far a finding goes. `HistoryLostWithProduct`: while the database
does not fail, a captured payment loses its order only if a product it names is gone
(`order_removed`). `AccountRefusedIsUnhashed`: a login with the password last given is
refused as invalid only if the stored one was never hashed, or a stale row was
written back (`password_change`).

Only model-checked. Liveness under fairness is out of the prover's reach:
`CallbackAnswered`, `PaidIsOrdered`, `Readmitted`, `ListsCatchUp`. `CategoryLists`
has no other property and no theorem.

## Not modelled

- The cart is one Redis key per session, written and read as a whole: the last
  write stays, and nothing else reads it.
- Uploads, Cloudinary, DTO validation, mappers, filters, interceptors, bootstrap:
  I/O and wiring without shared state. `shared-cart` is not registered in
  `AppModule`. Migrations, seeds and maintenance scripts run outside the service.
- Of products, the images and `isActive` in the catalog; of orders, amounts,
  notes and addresses; of accounts, the profile fields; of footer settings, all
  rows but `tax` and `fee`: data that no modelled decision depends on.
- The broadcast of products, settings and banners: the same gateway, and the
  same lost and reordered messages, as in `OrderBoard`.
- Redis durability: keys survive a crash of the process, and Redis itself does
  not fail half-way through a command.
- The expiry of access and refresh tokens, which only takes tokens away.

## Plan

Done: every component but the cart whose state other requests can disturb has
a module and a run, and every safety property of the passing runs a proof. What is
left, in this order:

1. An abstract specification of the board, a register with eventually
   consistent readers, and `OrderBoard` as its implementation for orders that
   are neither `unsent` nor `raced`.
2. The composition of `Payment` with `OrderHistory`, whose two views of a
   pending order (its stages, its products) are checked apart today.
3. Product images, which go the way of `CategoryIcons` with several per product.
