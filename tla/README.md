# Formal verification of the Grand backend

TLA+ models of the shop backend (NestJS, PostgreSQL through Prisma, BullMQ on Redis),
the TLC runs that check them and the TLAPS proofs about them. Paths below are relative to
the repository; `modules/` stands for `src/modules/`.

## 1. The system

| component | state it keeps | operations that change it | what is hard about it |
|---|---|---|---|
| orders (`modules/orders`) | orders, order items, status history | createFromCart, updateStatus | status read and checked outside the transaction that writes it; queue calls after the commit |
| status rules (`order-status.rules.ts`) | none | pure tables | which transitions move which stock |
| inventory (`modules/inventory`) | balance rows (on hand, reserved), movements | receive, adjust, reserve, release, deduct, returnStock | reservations race; adjust checks without a lock |
| warehouses (`modules/warehouses`) | warehouses, active or not | create, update | the default warehouse may change during an order's life; count-then-write |
| stock-release job (`src/jobs/stock-release`, worker process) | delayed jobs in Redis | queue.add, process, queue.remove | timeout races payment; crash and redelivery |
| payments (`modules/payments`) | payments, refunds | pay, refund | payment row written before the order moves; refunds summed before they are created |
| shipments (`modules/shipments`) | shipments | ship, markDelivered | shipment row written before the order moves |
| cart (`modules/cart`) | cart items | addItem, updateItem, removeItem, clear | read-modify-write; changes during checkout |
| coupons (`modules/promotions`) | coupons with use counts | create, update, redeem | limit shared by concurrent checkouts |
| pricing (`modules/pricing`) | prices, customers' price lists | setPrice, bulkUpdate, assign | changes during checkout |
| auth, tokens, users (`modules/auth`, `modules/users`) | accounts, refresh and reset tokens | register, login, refresh, logout, logoutAll, forgotPassword, resetPassword, updateStatus | rotation and resets check and write apart; revocation races issuing |
| categories (`modules/categories`) | tree rows with parent and path | create, update (move), remove | the cycle check and the prefix to rewrite are read before the transaction |
| attributes, brands, products, variants (`modules/attributes`, `modules/brands`, `modules/products`) | attributes with options and links to categories, brands, products and variants with their values | create, update, remove of each; link, unlink | rules that change between validation and insert; dependants that come between a count and a delete |
| imports (`modules/imports`) | batches and their rows | upload, commit | the commit relies on an older preview and on reads outside its transaction |
| media (`modules/media`, `infrastructure/storage`) | rows in the database, objects in MinIO | presign, confirm, remove; the client's own upload | two stores without a common transaction; a client that writes when it likes |
| reports, notifications, audit, health, guards, config | none, or append-only | | no interleaving of their own |

How they interact: `createFromCart` reads the cart, the default warehouse, the price list
and the coupon, then in one transaction redeems the coupon, creates the order, reserves
its items and empties the cart; after the commit it adds a delayed job. `updateStatus` is
called by PATCH, by `pay`, `ship` and `markDelivered` after they have written their own
row, and by the worker; it reads and checks, finds the default warehouse, moves the stock
and the status in one transaction, and removes the job if the order was pending.

`refund` works on payments alone: the order's own REFUNDED status is a separate PATCH. The
sessions and the category tree share no state with the orders; products refer to categories
by id only. The catalogue reads the links of a category to validate a product or variant;
an import reads them at the upload and again at the commit, and writes products and variants
into the same tables. Media refer to an entity by its id, without a foreign key.

The properties that make each part correct are listed with the runs in section 4, and
`PROJECT.json` lists every hazard with its line.

## 2. Modules

| module | models |
|---|---|
| `Quantities` | quantities per variant |
| `OrderStatusRules` | the transition table, the stock phases and what a transition does to stock |
| `Warehouses` | warehouses.service.ts |
| `Inventory` | inventory.service.ts: balances, ledger, receipts and stocktakes |
| `Orders` | the life of an order: checkout (without money), PATCH, pay, ship, deliver, the timeout job |
| `OrderLog` | abstract: what the status history promises |
| `OrderProperties` | the properties of Orders; the refinement of OrderLog |
| `Cents` | how an amount is rounded to cents |
| `Pricing`, `Carts`, `Coupons` | the three services, one action per operation |
| `Checkout` | createFromCart in full; extends Orders, Carts and Coupons; implements Orders |
| `Refunds` | PaymentsService.refund on the payments there are |
| `Sessions` | accounts, refresh tokens, password resets |
| `Categories` | the category tree |
| `Catalog` | attributes and their links, brands, products, variants |
| `Imports` | uploads and commits; extends Catalog, whose calls run in between |
| `Media` | the rows and objects of images |
| `MC` + the name of a module | the instances TLC checks |
| the name of a module + `_proofs`, `OrderHistory_proofs` | theorems and proofs; `Orders_proofs` also holds the lemmas about stock and about sums over finite sets, `Catalog_proofs` the theorems about Imports |

### How the code becomes actions

* A call is cut at its database and queue accesses. `call[c]` holds the stage of the call
  in slot `c` and what it has read so far, which may be stale by the time it is used.
  Calls in other slots, the worker and the stockroom run between any two of its steps.
* A transaction is one step. The code runs at READ COMMITTED: a transaction keeps the lock
  of each row it has updated until it commits, its conditional UPDATEs (reserve, redeem)
  are evaluated on the locked row, and it computes nothing else from reads of its own. What
  it computed from reads *before* the transaction is in the record of the call. A deadlock or a
  timeout of a transaction is `Fail`.
* `Fail` ends a call at any point, `Throw` where the code throws, `WorkerCrash` kills the
  worker and puts its job back as BullMQ does with a stalled one (without BullMQ's limit on
  how often). A job that throws is not retried: the code configures no attempts.
* Time is not modelled: a delayed job may be due at any moment.
* Orders: the id of an order is chosen when its checkout reads the default warehouse instead
  of at the insert. `pay` is modelled without an idempotency key, which allows more calls,
  not fewer. Permissions decide who may ask for a status; `PatchTargets` is what anybody asks.
* Checkout: the lookup of the key and the read of the cart are one step (the key is looked at
  again by the unique column at the commit); Prisma's read of the cart with its prices is one
  read. The validity
  dates of a coupon are folded into `active`. Requests that validation refuses before any
  write (fractional pieces, unknown variant) change nothing and are not actions.
* Money: prices are whole cents and percentages whole numbers. Quantities count in parts of a
  unit, `PerUnit` to the unit (1000 by Decimal(12,3)); a variant outside `Divisible` is sold in
  whole units. A product of the two is exact, in parts of a cent, and is rounded where the
  code rounds: the total of a cart once, over all its items (`Totals`, cart.service.ts:51), an
  order's lines one by one, by their column (`Lines`, orders.service.ts:175), a percentage
  (`Discounts`, coupons.service.ts:118). `Nearest` gives both neighbours of a half: what
  Math.round sees of it is a binary number that may be just below or above. That these numbers
  are never wrong by more than such a half-way case is assumed: amounts are far from 2^53.
* Refunds: a refund row is created SUCCEEDED and never changes, so the rows of a payment are
  kept as their sum. That the order's total is what a payment is for is taken from `pay`.
* Sessions: a password or a signature fits or the request is refused without a write, so the
  callers are those that fit. A refresh token has no clock: `RotateExpired` refuses it whenever
  it is looked up, `ExpireReset` ends a reset token at any time. `toEnd` and `from` are history:
  the tokens alive when a reset or a reuse was to end them, and what a token was issued for.
* Categories: a path is the sequence of its ids (ids have one length and neither `/`, `%`
  nor `_`, so that LIKE and startsWith are prefixes of sequences). The transaction of a move is
  one step: the row's lock and the foreign key's keep what its two UPDATEs rely on.
  `overlapped` is history: whether two staff calls were ever in progress at once.
* Catalog: a slot of `staff` holds a call that relies on what it has read: a create between
  its validation and its insert, a remove between its count and its delete, an update between
  the deletion of the old values and the insert of the new. A call whose conditions the database
  looks at again (a unique column, a foreign key) is one step. Foreign keys act as the migrations
  say: values hold an attribute back, options and links go with it, a brand is set to NULL, a
  product takes its variants along. `ruled` and `raced` are history: whether the links of a category have
  changed after somebody relied on them, and what has changed between a count and a delete.
  The values of an attribute are few model values; the types of `assertValidAttributeValue`
  are two, with and without options. A combination key is the function from attributes to
  values that it is computed from. The code sorts and joins `<attribute id>:<value>` with `|`:
  two functions have two strings as long as no TEXT value contains `|` with an attribute id
  and a colon behind it, which is not modelled.
* Imports: a file is any sequence of rows. Rows are for one product if their category and their
  name in lower case (`Folded`) agree (imports.service.ts:203, 359); a group is known by its
  first row (`Leader`). Groups are validated and written in the order of their first rows
  (`Before`), which decides which of two rows counts as the duplicate. The products of two groups
  have names that differ, and slugs (`SlugOf`) that may not: upload does not look at slugs,
  and `CommitWrite` is impossible then (`Creatable`), so that the commit can only fail. `sound`
  stands for what a row decides alone: a name, a price that is a number, a category that exists.
  The commit's transaction reads the rules through another connection, and the brand and the
  product of a group by that name, so `CommitLookup`, once per group, is a step before the
  one that writes; in the code the first groups are written, and not seen by others, before
  the last are looked up.
* Media: keys are random and begin with their entity. `Put` is the client, who has only the URL;
  the storage itself is a map from keys to sizes. `contested` and `refused` are history: keys
  written, confirmed or given up behind the back of what relied on their object, and those that
  the storage did not remove.
* PostgreSQL rejects an overflow of a Decimal, and the call fails.

Definitions named `X_Suffix` next to `X` are deliberately wrong versions of `X`. They are
used nowhere: putting one in the place of `X` must make the property it is meant for fail,
which shows that the property is about the code (`PROJECT.json`, "mutants").

## 3. Bounds

`MaxHistory`, `MaxPayments` and `MaxShipments` stop new calls on an order with that much
behind it; calls under way go on. `MaxReceived` and `MaxAdjusted` bound the stockroom,
`MaxWarehouses` the warehouses, `MaxQuantity` a cart item, `MaxEdits` the changes of carts,
prices and coupons. Two call slots are what every race of this code needs (a check and a
write with another call's write in between); the worker is a third process. One variant is
enough for the loops over items, which treat variants alike and commit or roll back
together; the proofs cover any number. Four tokens let one be rotated once more often than
there are calls; three categories hold a subtree that moves, under a parent and back to the
root; `MaxDepth` stops the paths that overlapping moves make longer and longer. One reset
token: `ResetCandidates` binds only in larger instances. Seven history rows (`OrdersLife`) reach from the cart past
SHIPPED and DELIVERED; the theorems of section 5 hold for histories of any length. `OrdersLife`
has no faults, which its liveness excludes; `OrdersStock` has them, on shorter histories and with one
call beside the worker, and the theorems about both runs' invariants hold with faults and any number of
calls. `StocktakesFirst` (`MCOrders`): a stocktake is made while there is one warehouse, since it has
nothing in common with the coming and going of others.

One category, attribute and product with two options and two variants hold every rule of
`Catalog` (an attribute that is linked, used, given up; a variant that is the last one); two
slots overlap two calls. `CatalogBound` (`MCCatalog`) lets brands come and go only while there
are no attributes: no guard relates the two. With a second attribute, where two updates of
the values of one product can leave those of both, the state space outgrows the run:
`CatalogObeysItsRules` is proved for any number of attributes.

`Checkout` orders one variant in whole units, with a percentage that rounds, for two orders'
worth of stock; `CheckoutLines` looks at the money alone: three variants, two of them
sold by halves, one in whole units, one checkout and any five changes of carts, prices and
lists around it. Two roundings that go either way are the smallest case in which lines and
subtotal differ by more than one item's rounding; the proof is for any number and any `PerUnit`.

`Imports` has three files of two and three rows (two variants of a product before a row that is
wrong; two products whose names slugify alike; a row, one of another product, and one that has the
combination of the first and the SKU of the second). Rows of the second file are both valid and no
commit of it ever gets through.
`MCImports` keeps the run to what imports look at. `Apart`: at most one slot in a call of the
catalogue (the other may import), no options, no optional links, nothing published; all of that
is in the run `Catalog`. `OneUpload`: one upload for the one batch. `StaffBound`: staff has
the first name, SKU and value in hand. `ThenDeletes`: once links that were relied on have
changed, staff only deletes. `Media` has two keys and two rows, so that
a key can have two rows or be mixed up with another's.

## 4. Runs

| run | instance | shows |
|---|---|---|
| `OrdersLife` | 2 calls, worker, 1 order, no faults, fairness, every PATCH target that is not an API call of its own | `PhaseMatchesStock`: an order whose history is one unbroken chain holds exactly what its phase says; `BackedByPayment`, `BackedByShipment`: paid, shipped and delivered orders have the payment and the shipment; `PendingHasTimeout`: no pending order loses its job; `TimeoutReached`: a pending order leaves PENDING_PAYMENT; `HistoryIsALog`: refinement of `OrderLog` (`Log == INSTANCE OrderLog WITH ...`) |
| `OrdersStock` | 2 orders, 1 call, worker, 2 warehouses, 1 admin, receipts, 1 stocktake, faults | `LedgerBalanced`: balances are the sum of the movements; `ReservedMatchesOpenOrders`: the reservations are those of the open orders; `SomeActive` |
| `Checkout` | 2 calls, 2 orders' stock, 1 key, 1 coupon, 2 lists, faults | `NoOversell`: two overlapping checkouts never reserve more than there is; `CouponWithinLimit`, `CouponCountsOrders`, `OneOrderPerKey`, `DiscountWithinSubtotal`, and `ImplementsOrders` |
| `CheckoutLines` | 1 call, 3 variants, 2 of them sold by halves, 2 lists | `ChargedAsListed`: the lines of an order come to its subtotal, exactly with whole units, else give or take half a cent for each item in fractions and for the subtotal itself |
| `Refunds` | 2 refund calls, 2 payments (0 and 3 cents), faults | `RefundsBounded`: at most the payment once per call at a time is paid back; `RefundedMeansAll` |
| `Sessions` | 1 account, 4 tokens, 1 reset, 2 calls, faults | `RotationsBounded`, `ResetUsesBounded`: a token is used as often as calls overlap, never again later; `SessionsEnd`: a reset or a reuse ends every session there was |
| `Categories` | 3 categories, 2 staff calls, faults | `PathsFollowTree`, `NoCycle` (calls one at a time), `PathEndsInSelf` (any) |
| `Catalog` | 1 category, 1 attribute with 2 options, 1 brand, 1 product, 2 variants, 2 staff calls, faults | `CatalogTypeOK`: with the foreign keys, whatever is deleted; `RulesFollowed`: products and variants obey the links of their category while these stay; `RemovalsAreGuarded`: nothing with dependants is deleted unless they came between count and delete |
| `Imports` | 3 files, 1 batch, 2 slots for imports and calls of the catalogue, faults | `RulesFollowed` again, now with imported products; `ValidRowsFit`: rows found valid do not collide with each other in the table of variants (in that of products they may, see below); `RecommittedOnlyIfGone`: a second commit gets through only when the variants of the first are gone |
| `Media` | 2 entities, 2 keys, 2 rows, 2 calls, storage and calls fail | `ShownIsStored`, `ShownForItsEntity`, `DeletedTogether` |

Two runs expect a violation; each is a disagreement between the code and its own documents
met while modelling (`PROJECT.json`, "findings"):

* `OrdersJobRace`: the timeout cancels an order that has been paid meanwhile;
* `OrdersPayRetry`: a successful payment of a declined order leaves it declined.

Two more disagreements are in the models without a run of their own, as they take no interleaving:

* API_CONTRACT.md:198 gives every product, simple or variable, at least one variant; `create` makes
  one for a SIMPLE product only (products.service.ts:157; `CreateProductWrite` in `Catalog`), so that a
  VARIABLE product has none until staff create one.
* API_CONTRACT.md:327 says that wrong rows do not stop the import of the right ones. Rows are
  grouped by category and name (imports.service.ts:203), and nobody compares the slugs of two groups
  at the preview or looks them up: two products of a file that slugify alike, or one that slugifies
  like a product in the catalogue, are valid, and fail the whole commit, right rows included
  (403; `Creatable` in `Imports`). Staff can rename the product in the catalogue, not the one in the file.

What the passing properties exempt, because the code does not keep it there, is written in
them as a premise: `Clean` histories (two status changes that checked the same status both
commit, so that the chain breaks; a declined order put back to PENDING_PAYMENT reserves
nothing), negative stocktakes (`NoOversell`), concurrent warehouse updates (`SomeActive`), crashes
between the commit and queue.add (`PendingHasTimeout`), a price list assigned in
mid-checkout (`ChargedAsListed`), overlapping staff calls (`PathsFollowTree`, `NoCycle`), a
crash between a reset and its revocation (`SessionsEnd`), links changed after they were relied on
(`RulesFollowed`, `ValidRowsFit`), slugs of the products to be made (`ValidRowsFit`), dependants that came or went between a count and a delete
(`RemovalsAreGuarded`), objects written or confirmed again behind a row, half-done removals and
a storage that fails (`ShownIsStored`, `DeletedTogether`, where API_CONTRACT.md:321 says
that file and row go together). `RefundsBounded`, `RotationsBounded`
and `ResetUsesBounded` name the number of calls at once instead: with one call slot they are
what the documents promise, with two the code really lets two refunds, rotations or resets through.
A session that a login or rotation creates after it has read the account outlives a
revocation that comes in between; `SessionsEnd` is about the tokens there were.

`CHECK_DEADLOCK FALSE`: the bounds end every behaviour, and a shop without requests rests.

Fairness (`Fairness` in `Orders`) is weak fairness of each process's progress and of the start of
each due job, and only in runs without faults: Node goes on with a call whose promise is
resolved, and BullMQ hands due jobs to the worker, as long as both processes live. Requests
are never fair: nobody has to pay.

## 5. Proofs

TLAPS proves, for every value of the constants that satisfies their assumptions:

| theorem | property | argument |
|---|---|---|
| `TypeCorrect` | `TypeOK` | inductive as it stands, with the lemma that every stock operation keeps `InventoryTypeOK` |
| `LedgerAlwaysBalanced` | `LedgerBalanced` | inductive with `TypeOK`: each operation records what it does to a balance |
| `NeverOversold` | `NoOversell` | inductive with the types: a reservation is guarded, a deduction lowers both sides, a release one |
| `AlwaysSomeActive` | `SomeActive` | strengthened by: an update under way that disables a warehouse has seen another active one, which with a single slot still is |
| `PhaseAlwaysMatchesStock` | `PhaseMatchesStock` | strengthened by what the histories and the records of the calls know of each other: the status is the last row's, calls past their check hold an allowed transition |
| `ImplementsOrderLog` | `HistoryIsALog` | strengthened by: the status a call has read is in the history of its order |
| `ReservationsAreOpenOrders` | `ReservedMatchesOpenOrders` | strengthened by (`ReservationsAreHeld`), clean or not: what is reserved of a variant, summed over the warehouses, is what each placed order holds times its items, summed over the orders; every transaction changes both sums by one summand. Clean histories come from `PhaseAlwaysMatchesStock` |
| `CheckoutImplementsOrders` | `ImplementsOrders` | a checkout's steps are `PlaceRead`, `PlaceCommit`, `Throw` or `Fail` of Orders or leave it alone |
| `CheckoutNeverOversells` | `NoOversell` | from `NeverOversold` through the refinement |
| `KeysAreUnique` | `OneOrderPerKey` | inductive: the commit tests the key |
| `CouponsStayWithinLimit` | `CouponWithinLimit` | action by action: only a redemption raises a count, and it is guarded |
| `CouponsCountTheirOrders` | `CouponCountsOrders` | strengthened by: an order with a bill is placed, so no second commit bills it; its coupon exists; the orders of a coupon are finitely many |
| `OrdersChargeAsListed` | `ChargedAsListed` | strengthened by: a checkout past its reads holds a total of the prices it has read, and its order will have the items it has read. Each rounding is off by at most half a part (`NearestIsNear`) and by nothing for a whole amount, which bounds the difference of sums (`LinesAreNear`, by induction over the items) |
| `DiscountsFit` | `DiscountWithinSubtotal` | strengthened by (`MoneyInv`): prices, subtotals and coupon values are naturals, a percentage is at most 100, and the discount a checkout carries is within the subtotal it carries; a percentage of a subtotal, rounded, is at most the subtotal |
| `RefundedInFull` | `RefundedMeansAll` | strengthened by: the sum a call carries is a lower bound of the refunds, with its own amount once its row is written |
| `EveryEndingEnds` | `SessionsEnd` | strengthened by: calls in progress work for a user, what is to end exists and never changes hands |
| `RefundsStayBounded` | `RefundsBounded` | strengthened by (`RoomInv`): beside what is paid back there is room for the payment once for each call about to write its row, or for what the call measured last asks and the payment for each other |
| `ResetTokensStayBounded` | `ResetUsesBounded` | strengthened by: an unused reset has no use, and the uses made and those about to be marked are together no more than the calls |
| `RotationsStayBounded` | `RotationsBounded` | likewise with the successors of a token that were handed out and the calls about to insert one; a token that is not revoked has none |
| `PaidOrdersWerePaid` | `BackedByPayment` | strengthened by: a call that asks for PAID has recorded a succeeded payment of its order; the table leads to the statuses beyond only from PAID on, and a payment never goes away |
| `ShippedOrdersWereShipped` | `BackedByShipment` | likewise with the shipment that a call has written before it asks for SHIPPED or DELIVERED |
| `TimeoutsAreNotLost` | `PendingHasTimeout` | strengthened by: a call that will remove an order's job has moved it out of PENDING_PAYMENT, which only a reopening undoes, and a job that ends has found or made the order not pending |
| `CatalogTypeCorrect` | `CatalogTypeOK` | inductive: rows have their types, and what is inserted refers to brands and attributes that are there at that moment, what is deleted takes along or frees what refers to it |
| `RemovalsGuarded` | `RemovalsAreGuarded` | strengthened by what each call about to delete may still rely on: what it counted is there unless it is in `raced`; rows belong to listed products, new ones are drafts |
| `CatalogObeysItsRules` | `RulesFollowed` | strengthened by: what a call is about to insert, and which rows it is about to delete, fit the links of the category unless these have changed, and a category with products has been relied on |
| `ImportsTypeCorrect`, `ValidRowsAlwaysFit`, `ImportsObeyTheRules`, `RecommitsOnlyTheGone`, `ImportsGuardRemovals` | `ImportsTypeOK`, `ValidRowsFit`, `RulesFollowed`, `RecommittedOnlyIfGone`, `RemovalsAreGuarded` (all of `ImportsSpec`) | one invariant (`ImportsInv`), see below |
| `PathsEndInTheirCategory` | `PathEndsInSelf` | strengthened by (`EndsInv`): so do the path a move has read and the path it is about to write; a rewrite replaces a proper prefix, or the whole path by one that ends alike |
| `PathsAlwaysFollowTree`, `TreeStaysATree` | `PathsFollowTree`, `NoCycle` | one invariant (`TreeInv`): parents are live, whatever overlaps; without overlaps at most one call is in progress, the tree's paths follow the parents, and what the call has read is current. A cycle would make a path a proper prefix of itself: of a set whose parents are all within it, take a member with the shortest path |
| `MediaTypeCorrect`, `ImagesAreStored`, `ImagesOfTheirEntity`, `RowsGoWithObjects` | `MediaTypeOK`, `ShownIsStored`, `ShownForItsEntity`, `DeletedTogether` | one invariant (`MediaInv`): unless a key is contested it has one row or one call, a confirmation has the object as it was, and a call about to delete the row has removed the object |

`ImportsInv` is the invariant of the catalogue's rules (`RulesInv`) together with what batches
and commits know, row by row. A row that was found valid (`RowRuled`), and stays so once
committed, has a value for all that its category asked for at the upload; no row validated before
it has its SKU, and no row before it for the same product its combination. Of two valid
rows one was validated before the other (`Before` is total), so that valid rows differ. A
commit keeps for each group the product it has found, if any, and the rules it has read, which are
the category's; it is about to write exactly its rows. And a variant that a row was given
has the SKU of that row as long as it is there (`BatchResolved`). All but the last
holds only while the links are those the rows were validated against, as the properties say.
The commit adds rows to any product of the name,
a SIMPLE one too, which by the code may have only one variant. With trusted links it still has: its
category asks for no combination, so that all combinations are empty, and two of a product
violate the unique column. `RulesInv` claims no more than that, since imports do break the
rest once links have changed. That a second commit gets through only when the first one's
variants are gone follows from `BatchResolved`: its SKUs must be free. `ImportsGuardRemovals` needs only the
part of `ImportsInv` that is the invariant of `RemovalsGuarded`, which a commit keeps as well.

Beside the assumptions in the modules, the three bounds assume that the call slots are finitely
many, as any number of requests at once is; the sums over the items of a cart, that the
variants are (`QuantitiesAssumption`). Sums are folds over finite sets: one lemma says that
a sum is one summand more than the sum of the rest, from the definition of the fold; what
changes a sum, or bounds it, then goes by well-founded induction over the subsets of a finite set
(`FiniteInduction`).

Only model-checked: `TimeoutReached`, as liveness under fairness and ENABLED are beyond the prover.
Every invariant and action property of the passing runs has a theorem.
What holds of Orders holds of Checkout by the refinement.

## 6. Plan and what is left out

Done: Orders with stock, warehouses, payments, shipments and the job; Checkout with carts, prices
and coupons; Refunds; Sessions; Categories; Catalog; Imports; Media; the theorems above. Worth
doing next:

* the catalogue under the orders: an order keeps the variants it has ordered from being deleted,
  which now is a `Fail` of the removal.

Not modelled and why: reports and listings are read-only; notifications, mail and audit happen after the
state has changed and change nothing else; guards, configuration and health have no state;
scripts and migrations run alone. In the modelled components these calls write only what no
other modelled step reads, and are left out: the updates of an attribute's or a brand's names,
updateRole, carrier data of shipments. Also left out is disabling a variant (carts and
checkouts take what they order as being on sale). The
indices of the database, its isolation levels beyond READ COMMITTED and the clocks behind
timeouts and expiry are abstracted as section 2 says.
