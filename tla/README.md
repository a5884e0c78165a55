# Verification of the family cash backend

TLA+ models of the backend of "Uang Kas Keluarga" (Go, PocketBase, SQLite): a family keeps a
common ledger and buys airtime, data and electricity from the biller Digiflazz. The models
cover what is hard to test in this program: webhook requests, the cron poll, user requests and
database hooks that run at the same time on the same rows, without a transaction, lock or
version column between a read and the write it leads to; lost answers of the biller; failing
calls and crashes between two steps. All paths below are relative to `src/internal/` unless
they begin with another directory of the repository.

## Inventory

| Component | State | Operations | Talks to |
|---|---|---|---|
| Order statuses, classification (`domain/digiflazz`, `service/digiflazz_order_utils.go`) | none | transition table, answer → status, cutoff window, ref_id | order service, webhook |
| Order service (`service/digiflazz_order_service.go`, `_prepaid_`, `_finalize_`, `_status_`, `_postpaid_`) | rows of `digiflazz_orders` | CreateOrder, UpdateStatus, finalization, CheckAndUpdateStatus, postpaid inquiry and payment | biller client, ledger, events |
| Webhook (`handler/digiflazz_webhook_handler.go`) | none of its own | Receive | events, order service |
| Cron (`service/digiflazz_cron_service.go`, `scheduler/`) | two in-memory locks | RunOrderPoll every 5 minutes, RunPriceSync every 30 | order and product service |
| Order events (`repository/digiflazz_event_repository.go`) | rows of `digiflazz_events`, unique per payload hash | Create, Exists | webhook, orders, cron |
| Digiflazz client (`digiflazz/`) | none | topup (also the status check), price list, pasca | the biller |
| Ledger and balance (`service/transaction_service.go`, `hooks/`) | rows of `transactions`, `family_balances` | create, update, delete, balance, reports | finalization |
| Families (`service/family_service.go`, `middleware/`) | rows of `families`, `family_members`; a five-minute cache | create, join, leave, RequireFamily | every request |
| Credentials (`service/digiflazz_credential_service.go`) | rows of `digiflazz_credentials` | upsert, test, delete, rotate token | product sync, orders |
| Products (`service/digiflazz_product_service.go`) | rows of `digiflazz_products` | sync, search | cron, credentials |
| Reports, exchange rate, category mapping, encryption, redaction, tokens | none | pure or read-only | ledger, orders |
| Handlers, `main.go`, generated proxies, migrations | none | parsing, routing, schema | everything |

What makes each of them correct:

* **Orders.** The status follows what the biller says of the purchase; a final status stays;
  every order is settled; a successful order has one expense and the link to it; a purchase
  has an order; no lost answer is taken for an outcome.
* **Webhook.** A delivery takes effect once, and it does take effect.
* **Poll.** Two polls do not run over each other; every pending order is asked about.
* **Ledger.** The balance is the sum of the transactions, whichever hooks run late.
* **Families.** One family per user; a family has its owner; a user who left is refused.
* **Credentials and products.** One credential per family; one webhook token opens it; the
  catalogue is that of the account that will be charged, and holds in the end whatever the
  schema can store.
* **Reports.** A report counts every transaction of its month and its parts add up; the pages
  of a listing hold every entry.
* **Records.** Whatever is deleted while a request is on its way, nothing refers to a record
  that is gone, and the deletion of a family stays inside it.

`PROJECT.json` lists the hazards line by line, with the properties that would catch each of
them, and says which have no property yet.

## Modules

| Module | Models |
|---|---|
| `DigiflazzStatus` | statuses, transition table, classification of the biller's answers |
| `OrderUpdates` | UpdateStatus and the finalization, the procedure all writers of an order share |
| `PrepaidOrder` | the purchase, the webhook, the poll, the biller, faults: the composition with `OrderUpdates` |
| `PostpaidOrder` | inquiry, payment and poll of a bill, beside the webhook: extends `PrepaidOrder` |
| `OrderLifecycle` | abstract: what the order service promises of an order |
| `FamilyBalance` | the ledger, the balance row and the hooks between them |
| `FamilyMembership` | families, members, roles and the membership cache |
| `FamilyCredential` | the credential of a family, its webhook token and the product sync |
| `FamilyReport` | monthly report, dashboard and paged listing beside writers |
| `FamilyRecords` | the collections, their relations, cascades, and requests about to save |
| `PrepaidOrderProofs`, `PostpaidOrderProofs`, `FamilyMembershipProofs`, `FamilyBalanceProofs`, `FamilyCredentialProofs`, `FamilyReportProofs`, `FamilyRecordsProofs` | the proofs about the module of that name |
| `Sums` | lemmas about sums over finite sets, for the ledger and the reports |
| `MC...` | instances for TLC |

Every database or HTTP call is one action, because the code holds nothing across two of them.
History variables and fields are marked as such where they are declared; no guard reads one.

### `OrderUpdates` and `PrepaidOrder`

A worker is a goroutine: the request that creates an order (named like the order), a webhook
request, a run of the poll. `job[w]` holds its program counter and its locals.

| State | Code |
|---|---|
| `status`, `txn` | columns `status` and `transaction_id` of the order's row |
| `ledger`, `deleted` | expenses created by the finalization, and those users have deleted |
| `audit` | events of the order, webhook payloads reduced to the status they carry |
| `biller` | the purchase with the order's ref_id at Digiflazz (external) |
| `queue`, `seen`, `pollLock` | list of the poll, status it read, `orderPollLock` |
| `expired` | orders older than 24 hours, a bill counted from its inquiry |

| Actions | Code |
|---|---|
| `CallTopup`, `SaveOrder`, `RecordTopup` | `executePrepaidOrder` |
| `ReceiveWebhook`, `RecordWebhook`, `AnswerWebhook` | `Receive`, `applyWebhookStatus` |
| `StartPoll`, `PollOrder`, `AskBiller`, `EndCheck`, `EndPoll` | `RunOrderPoll`, `CheckAndUpdateStatus` |
| `CheckTransition`, `WriteStatus` | `UpdateStatus` of service and repository |
| `ReadLatest` … `SaveLink` | `finalizeSuccessOrder`, `LinkTransactionIfEmpty` |
| `Reread`, `FindAgain` | `recoverFinalizedOrder` |
| `Fail`, `Crash` | a call returns its error; the process stops |

PocketBase is external. Two facts about it are assumed: saving a loaded record writes only the
columns that were changed, so `orderRepo.UpdateStatus` is one write of `status`; and a record
can be stored although the hook that runs after it reports an error
(`CreateFailsAfterCommit`). Of the biller the code relies on a ref_id naming one purchase and
on its outcome being final; a topup that is sent again with a known ref_id is a status check
(`docs/digiflazz-buyer-api.md:284`).

Abstractions. Answers are the five classes the code distinguishes. `Signature[o]` stands for
family, creator, category, amount and note, by which the finalization searches. Validation,
the balance check before a topup, HMAC and ping of the webhook only end a request before it
changes anything and are left out. The poll lists without its limit of 100 orders. All orders
use one credential.

### `PostpaidOrder`

The inquiry stores the order with status `inquiry`; a request to pay reads that status, pays at
the biller and writes what the answer says, without consulting the transition table
(`updatePostpaidOrderStatus`) — the procedure of `OrderUpdates` entered at `WriteStatus`. From
the inquiry on webhooks work on the order as on a prepaid one, and 24 hours later it leaves
the list of the poll like a prepaid one (`Expire`). The client turns every answer
with an rc other than 00 or 03 into an error (`Passes`): for a topup the service classifies the
error, for a bill it only returns it. `changed` are the bills whose amount is no longer the one
of the inquiry.

`is_prepaid` is a required boolean of the collections
(`migrations/1778832234_digiflazz_collections.go:594`); PocketBase refuses false there, and so
the schema of this commit does not store a postpaid order. The module is the service's code
with that column relaxed.

### `OrderLifecycle`

What a user may rely on: an order is placed, settled once, booked at most once and only after
success, linked once to an expense with its signature. `PrepaidOrder!Lifecycle` maps the
detailed state: pending and processing are one phase, the number of bookings is the number of
entries in the ledger, the payer is the order whose expense is linked.

### `FamilyBalance`

`transactions` is the table of one family, `balances` its row of `family_balances`. PocketBase
runs an after-success hook once the change is committed, so a request has a step for its
change and one for each statement of its hook. `CreateTransaction` is also what the
finalization of an order does to the ledger. `hookPending` is the hook of a new family: it
runs after `CreateFamily`'s SQL transaction was committed, so that a request of the new member
can overtake it. Assumed of PocketBase: deleting a record that is already gone is no error and
runs the hook. History: `missed` is what creations and deletions did to the table and the row
will never be told; `raced` says that the last update to set the row ran into another request.

### `FamilyMembership`

| State | Code |
|---|---|
| `accounts` | the users whose account exists |
| `families`, `members` | rows of `families` and `family_members` |
| `cache` | the map of `middleware/auth.go`; `age` counts ticks up to `TTL`, `familyCacheTTL` |
| `request[r]` | where a request stands, its user and the family it has read |

| Actions | Code |
|---|---|
| `CheckNoFamily`, `CommitFamily` | `CreateFamily`: the check, then one SQL transaction for family and owner |
| `CheckNoFamily`, `FindByInviteCode`, `CreateMember` | `JoinFamily` |
| `FindMember`, `DeleteMember` | `LeaveFamily` |
| `InvalidateFamily` | the handler clears the cache after each of them |
| `CacheHit`, `CacheMiss`, `QueryMembership`, `FillCache` | `RequireFamily` |
| `IsFamilyOwner` | `RequireFamilyOwner` |
| `Refuse` | an unknown code, a refused row, a failing statement |
| `DeleteFamily` | the collection API, by its rule the owner (`migrations/1774949033_collections_snapshot.go:787`); the members go by cascade |
| `RemoveMember` | the collection API, by its rule whoever is authenticated (`:863`), on any member's row |
| `DeleteAccount` | the collection API, by its rule the user (`:596`); the user's rows go by cascade |
| `Tick`, `Restart` | time; the process stops and starts with an empty cache |

The collection API tells nobody: it calls no `InvalidateFamily`. Its rules also let whoever is
authenticated create families without owner and create or change any member's row; such writes
bypass every check of the service and are not modelled, and the properties are about the rows the
service has stored.

History: `raced` are users with two requests between check and insertion at once, `abandoned`
families whose owner's row was deleted, `outrun` marks what was read of a row that has been
deleted since.

### `FamilyCredential`

A credential record holds username, key and token; key and token are encrypted into one
column, `api_key`, which is written whole, and the hash of the token has a column of its own
(`TokenOf` prefers it). Each request runs upsert, rotation or deletion; `sync[w]` is a run of
the product sync: the one an upsert spawns in the context of its request (`Background`), or
one of the cron or a user. Saving a loaded record writes the columns that differ from what was
loaded, and an UPDATE or DELETE of a row that is gone is no error. A sync fetches two price
lists, first the prepaid one and, whatever became of it, the postpaid one (`FetchPriceList`,
`NextPriceList`), and saves product by product. `Storable` is what PocketBase validates of a
product: `is_prepaid` is a required boolean and `price` a required number
(`migrations/1778832234_digiflazz_collections.go:309` and `:209`), so that every product of the
postpaid list (`Bills`) and every one without price (`Unpriced`) is refused. `DeleteProducts` is
one step: the loop deletes the rows listed before, one by one. `mixed` is history: a sync
overlapped a change of the credential, and the products have not been cleared since.

### `FamilyReport`

A date is a triple; the code compares dates as text of fixed width. A report is three queries
(`AskReport` with the totals, `QueryExpenses`, `QueryIncomes`), a page of a listing a count
and a query (`CountItems`, `FetchPage`), and a client asks for pages until the last one; other
requests create, update and delete in between. `MonthlyStats`, `Breakdown`, `DashboardStats`,
`DateRange`, `NextDay`, `PreviousMonth`, `TotalPages`, `Offset` and `PerPage` are the
functions of the code; the properties compare them with definitions that look at the fields
of a date instead of comparing dates. `Page` is LIMIT and OFFSET: the rows whose `Rank`, the
number of rows before them in the order of the query, is on the page.

### `FamilyRecords`

`record[x]` is the record with id x, reduced to its relations. The schema (`family_members`,
`categories`, ...) says of each relation whether it cascades; `Delete` is what PocketBase does
with it. Services look records up in one step and save another record that refers to them in
a later one (`job`), with any deletion in between. `InsertBalance` is raw SQL and not
validated; `transaction_id` of an order is a text and no relation. The master categories, which a
migration stores without family (`migrations/1775900820_seed_master_categories.go:43`), are not
among the records; no cascade reaches them.

## What the runs show

Runs that pass:

| Run | Instance | Properties |
|---|---|---|
| `races` | 1 order, 2 webhook requests, 1 poll, deletions, 1 fault | `TypeOK`, `SuccessIsReal`, `ExpenseIsReal`, `LinkIsSound`, `Evidence`, `FailedIsReal`, `SuccessIsBooked`, `PurchaseHasOrder` |
| `poll_only` | 2 identical orders, 2 polls, 1 fault, deletions, refused checks, no webhooks | `ImplementsLifecycle` |
| `liveness` | 1 order, 1 webhook request, 1 poll, all webhook statuses, expiry, 1 fault, fair | `EventuallySettled`, `EventuallyBooked` |
| `postpaid` | 1 order, 2 requests (payments or webhooks), 1 poll, a changing amount, expiry, 1 fault | `BillTypeOK`, `SuccessIsReal`, `FailedIsReal`, `SuccessIsBooked`, `ChangedIsRefused` |
| `paid_settled` | 1 order, 2 requests, 1 poll, webhooks that say pending, expiry, fair | `PaidIsSettled` |
| `ledger` | 3 requests of all kinds, 2 ids, 2 amounts, 1 failing hook, a new family | `RowLagsByHooks`, `BalanceIsTotal`, `UpdateRepairs` |
| `membership` | 1 user, 2 families, 2 requests, TTL 2, fair | `TypeOK`, `OneFamilyUnlessRaced`, `OwnedUntilRemoved`, `CacheFollowsTable`, `EventuallyRefused` |
| `credentials` | 2 requests, 2 syncs, 2 accounts, a product of both, a postpaid one and one without price, 1 fault, fair | `OneCredential`, `OnlyLatestTokenOpens`, `CatalogueOfAccount`, `EventuallyOffered` |
| `reports` | 3 transactions, 2 categories, dates around New Year and 29 February, pages of several sizes | `ReportAddsUp`, `MonthBefore`, `ListIsWhole`, `NothingSkipped` |
| `records` | 2 users, 2 families, 1 or 2 ids of each other collection, 1 family set up | `RelationsHold`, `DeletionStaysInside` |

Runs that find the code at odds with what its comments or tests say (each checks one property):

| Run | Property | What happens |
|---|---|---|
| `double_booking` | `BookedOnce` | two finalizations search before either creates |
| `unheard_payment` | `PaymentIsKnown` | the answer to a payment is an error or lost; the order stays in `inquiry`, which no poll lists |

**Orders.** Whatever happens, success and expenses are backed by a delivery
(`SuccessIsReal`, `ExpenseIsReal`, `LinkIsSound`): every path to "success" begins with an
answer or a webhook that says so. A failure is real as long as no status check is refused.
Without failing calls a purchase has its order (`PurchaseHasOrder`) and every success is booked
in the end, also when a stale write has moved the order back for a while. With one writer at a
time, as with the poll alone, `OrderLifecycle` is implemented completely. An order is settled
even when its webhook was lost or a call failed (`EventuallySettled`).

**Bills.** The same holds of postpaid orders; a changed amount never settles an order by the
request that pays. Once out of `inquiry`, a paid bill makes its order successful for good
(`PaidIsSettled`), unless 24 hours have passed since the inquiry, when the poll stops asking.

**Ledger.** Creations and deletions commute with each other's hooks; only updates, which
overwrite the row, do not, and they also repair what was missed.

**Families.** A user has one family unless two of their own requests crossed between check and
insertion: the index is on (family, user). A family the service has stored keeps its owner until
the owner's row is deleted, by the owner leaving, through the collection API or with the account
(`OwnedUntilRemoved`). The cache follows the table except in the windows `CacheFollowsTable`
names: until the request that changed the table clears the entry, after a request filled the
cache with a row read before its deletion, and after the collection API deleted the row, its
family or the account, which clears nothing. All close when the entry expires: who has no family
for good is refused in the end (`EventuallyRefused`).

**Credentials.** The unique index keeps concurrent upserts from storing two. The catalogue may
belong to the previous account when a sync overlapped the change; otherwise it does not. Once the
credential stays, what the schema can store of the account's products is for sale in the end, and
the products it refuses keep no sync from the others (`EventuallyOffered`).

**Reports.** A report or listing nobody wrote during is exact, at the turn of a year and for a
leap day too. Creations while pages are read repeat entries and skip none, except one between
count and query of a page.

**Records.** Whatever is deleted between check and save, no saved relation dangles. The
deletion of a family can take a transaction of another one with it in exactly two ways: the transaction was created with a default category of the deleted family
(`transaction_service.go:64`), or was moved to one of its categories by an update, which does
not ask whose category it is (`:168`).

### Known deviations

What the models also showed while the properties were found; the properties above state what
holds beside them:

* A stale write overwrites a final status until the next poll or webhook
  (`service/digiflazz_order_service.go:220`).
* Two identical purchases share one expense (`service/digiflazz_finalize_service.go:115`).
* A webhook whose application fails after its event was stored is ignored on redelivery; the
  poll settles the order (`handler/digiflazz_webhook_handler.go:159`).
* A purchase whose order cannot be saved leaves no order (`service/digiflazz_prepaid_service.go:71`).
* A refused status check marks a running purchase failed (`service/digiflazz_order_utils.go:168`):
  `races` and `postpaid` set `PollRejects` to FALSE.
* An update's sum and a creation's hook can count a transaction twice until the next update
  (`hooks/transaction_hooks.go:53`).
* A rotation and an upsert that cross can store a username with the key of another account;
  syncs then fail until the next upsert (`FetchPriceList`).
* A bill the biller has failed is answered with an error; without webhook the order is polled
  for 24 hours and never becomes failed (`service/digiflazz_status_service.go:82`).
* A bill paid late, or still processing 24 hours after its inquiry, is not polled any more: without
  webhook its order stays as it is (`service/digiflazz_cron_service.go:86`).
* Any authenticated user can delete any member's row, the owner's too; the family then has no
  owner, and the cache lets the removed member in until the entry expires
  (`migrations/1774949033_collections_snapshot.go:863`).
* The sync is refused every product of the postpaid list, and counts it as an error
  (`service/digiflazz_product_service.go:76`); `docs/frontend-flow.md:17` says that it stores both
  lists. A product without price is refused too.
* The balance row of a family that was deleted before the hook ran stays behind
  (`hooks/family_hooks.go:14`); `RelationsHold` leaves `family_balances` out.
* A report another request writes during need not add up
  (`repository/transaction_repository.go:326`).

### Bounds

`MaxFaults` bounds failing calls, crashes and failing hooks: each defect that needs a failure
needs one. Two webhook requests, the poll and the creating request give four concurrent writers
of one order; each conflict found needs two. Two orders are needed only where orders meet, in
the matching of expenses and in the queue of the poll, and then they are identical, which is
the case in which the matching confuses them; for different products `LinkIsSound` is proved.
`Ids` and `Requests` bound the ledger: two amounts tell a total from a count, and three requests
are an update that two others run into. Memberships meet at one user and her requests: two
requests are two that enter a family at once, or one that changes the table and one that fills the
cache; two families are what one user can be in at once. Other users appear as the deletion of any row at any time; the proofs hold for
any number of them. `TTL` = 2 distinguishes an entry just set,
an older one and an expired one. Two requests and two syncs cover every pair of operations on
a credential; three ids and tokens are all they can use up, and where fewer are given a creation
or rotation waits for a fresh one that never comes. In `FamilyReport`, `Ids` bounds the creations; three transactions on pages of one or two make more than one page
(`PageSizes` asks for 2, and for 3, which is over `MaxPerPage` and becomes the default). In
`FamilyRecords` an id is used once, and `MaxRecords` = 11 leaves room for three records beside
the eight of the family at the beginning: an order with its expense or its event, a second
family with its member and a transaction.

`paid_settled` leaves out the webhooks that bring an outcome, which settle the order by
themselves.

Symmetry is used for webhook requests, polls, and the requests of `ledger` and `records`, which
are interchangeable, and only with invariants and action properties.

Deadlock is not checked where all requests may have ended: once all orders are settled and
every request answered, nothing need happen.

### Fairness

A goroutine that has begun goes on (weak fairness of its steps); the scheduler starts polls and
price syncs for ever (`main.go`, `scheduler/scheduler.go`); a poll that is started again and
again gets to each order in its list (strong fairness of `PollOrder`, justified because the
loop visits all of them; the limit of 100 is not modelled); the biller settles every open
purchase; an answer is not lost for ever (strong fairness of `Learn` and `LearnBill`); time
passes (`Tick`). No user has to buy, pay, join or leave, and no webhook has to arrive:
`EventuallySettled` rests on the poll alone. The liveness properties of orders, postpaid ones
included, except those that have become older than 24 hours, which the poll no longer lists.
Those of prepaid orders are checked without refused checks, `PaidIsSettled` without faults.

### Mutants

Each property of a passing run comes with a mutation of a mapped definition, in the section
"Mutations" before it, that a plausible bug would make: a timeout taken for a failure, a poll
without its lock, a finalization that is forgotten, a hook with the wrong sign, a cache that is
not cleared, an index that is missing, a month without its year. TLC finds the property
violated under the mutated definition.

## What is proved

Seven modules of proofs, one for each detailed module, hold for every value of the constants
that satisfies the named assumptions: any number of orders, requests, polls, users, families,
transactions, tokens or faults. The assumptions are evaluated by every run. A proof about a
module has the same outline everywhere: the invariant `IInv` strengthens the property by what
a request remembers between two of its steps; it was checked by TLC on the instance of the run
first; one lemma per action (`...Keeps`) shows that the action preserves it, and those rest on a
few lemmas about what a step of one worker does to the others.

### Orders (`PrepaidOrderProofs`)

| Theorem | States | Inductive invariant |
|---|---|---|
| `TypeCorrect`, `SuccessIsRealAlways`, `ExpenseIsRealAlways`, `LinkIsSoundAlways`, `EvidenceAlways` | the invariants of those names | `IInv`, their conjunction |
| `FailedIsRealAlways` | `~PollRejects` implies `Spec => []FailedIsReal` | `Orderly` |
| `PurchaseHasOrderAlways` | `Spec => []PurchaseHasOrder` | `Placed` |
| `SuccessIsBookedAlways` | `Spec => []SuccessIsBooked` | `Booked` |
| `LifecycleImplemented` | `Handlers = {}` implies `Spec => ImplementsLifecycle` | `Sole` |
| `BookedOnceByPolls` | `Handlers = {}` implies `Spec => []BookedOnce` | `Sole` |

The assumptions are `OrderAssumption`, `WorkerAssumption` and `ConstantAssumption`: workers
are the orders' requests, the handlers and the pollers, pairwise different, and the switches
have their types. Two more are hypotheses of theorems, where the code does not keep the property
without them: `~PollRejects` (a refused status check marks a running purchase failed, see the
deviations) and `Handlers = {}` (with webhooks an order can be booked twice, as `double_booking`
shows).

`SuccessIsReal` is not inductive: a worker writes what it decided from an answer several steps
ago. `Evidence` says what such a worker may still rely on: when its goal is success, or when
it is inside the finalization, the biller has delivered the purchase, and the expense it is
about to link exists and has the right signature. That stays true while others run because
the biller's outcome is final and the ledger only grows (`WorldGrows`, `JustifiedStays`).

* `Orderly` is the same for failure. Whoever is about to write "failed" does so for a purchase
  that cannot succeed any more. "No purchase at the biller" is such a case only until the
  purchase is made, so that it also has to say who could still make it: the order's own request
  before the row exists, or a poll that asks about an order that has not failed (`Careful`), and
  only one poll works at a time (`Locked`).
* `Placed` says where the request that buys leaves a row behind. A failing call or a crash may
  end it before, so that the property and the invariant speak of runs without faults so far.
* `Booked`: an order that is successful and not linked has a worker in the finalization
  (`Finisher`). A link is never removed, whoever writes success goes on to the link, and whoever
  is on the way to it stays on it until the order is linked, by this worker or another
  (`BookedStep`).
* `Sole`, for polls alone: one worker at a time writes or ends an order; what it has read of the
  order is still so when it writes; the order is not booked before the expense is created and
  not linked when the link is saved. From it every step is shown to be one of `OrderLifecycle`
  or a stutter under the mapping `Phase`, `Bookings`, `Payer` (`NextImplements`): the write of a
  row is `Place` or `Settle`, or stutters between pending and processing; `CreateExpense` is
  `Book`; `SaveLink` is `Link`; all the rest stutters, failing calls, crashes, deletions and
  refused checks included.

### Bills (`PostpaidOrderProofs`)

| Theorem | States | Inductive invariant |
|---|---|---|
| `BillSuccessIsReal`, `BillExpenseIsReal` | `SuccessIsReal`; `ExpenseIsReal` and `LinkIsSound` | `IInv` of `PrepaidOrderProofs` |
| `BillTypeCorrect`, `BillFailedIsReal` | `BillTypeOK`, `FailedIsReal` | `BInv == IInv /\ Tended` |
| `ChangedIsRefusedAlways` | the action property `ChangedIsRefused` | `BInv` |
| `BillSuccessIsBooked` | `SuccessIsBooked` | `BInv /\ Booked` |

The steps taken from `PrepaidOrder` are covered by the lemmas there; inquiry, payment and the
poll of bills have their own. What the first rest on is `BillIsHonest`: whatever is answered,
with or without data, only the receipt of a paid bill is classified as success. That the request
to pay enters the update at "write", without the transition table, does no harm to these
properties. `Tends` says what a worker knows of its bill: a payment writes an outcome only of a
bill it has paid at the price of the inquiry, a webhook has stored its event before it writes, a
poll works only on orders that have left `inquiry`. `BillFailedIsReal` needs no hypothesis about
refused checks: the client turns every refusal into an error, and the bill stays as it is.

### Ledger (`FamilyBalanceProofs`, `Sums`)

| Theorem | States |
|---|---|
| `RowLagsByHooksAlways` | `Spec => []RowLagsByHooks` |
| `BalanceIsTotalAlways` | `Spec => []BalanceIsTotal` |
| `UpdateRepairsAlways` | `Spec => UpdateRepairs`, an action property |

`RowLagsByHooks` is an equation between three sums: over the table (`Totals`), over the requests
(`TotalOwed`) and the row. It becomes inductive with what a request carries (`OnTrack`), with a
balance of 0 as long as there is no row (`NoneYet`), and with `Summed`: a sum that nobody has
overtaken is still the sum of the table when it is written. Each step moves two of the sums by
the same amount (`TotalsMove`, `OwedMoves`).

Sums over finite sets are recursive over an arbitrary choice of elements, and induction over
data is out of the prover's reach. `Sums` uses minimal counterexamples instead: the strict subsets
of a finite set are well-founded (`FS_StrictSubsetOrderingWellFounded`), so that a property that
fails for a set fails for one of which it holds for all smaller ones (`Smallest`). From it follow
that the sum exists (`SumExists`), does not depend on the choice (`SumsAgree`), and that an element can be
taken out (`SumRemove`) or the set cut into fibres (`SumOfFibres`).

`BalanceAssumption`: amounts are positive, ids and requests finite sets.

### Families (`FamilyMembershipProofs`)

For every set of users, families and requests and every lifetime of an entry
(`MembershipAssumption`: TTL is positive and the placeholders are no users or families):

| Theorem | States | Inductive invariant |
|---|---|---|
| `TypeCorrect` | `Spec => []TypeOK` | `TypeInv`: the types, a user for every running request (`Named`), a family for every valid entry (`Filled`) |
| `OneFamilyAlways` | `Spec => []OneFamilyUnlessRaced` | `OneFamilyInv`: a user who has never raced has at most one request between check and insertion, and then no row (`EntersAlone`) |
| `OwnedAlways` | `Spec => []OwnedUntilRemoved` | the property itself, with `TypeInv` |
| `CacheFollowsAlways` | `Spec => []CacheFollowsTable` | `CacheInv`: every valid entry has its excuse (`Excused`), and a request about to fill the cache still finds its row or carries the mark that it was deleted (`Known`) |

All of them hold with what the collection API deletes at any time: families, any member's row,
accounts. `CacheFollowsTable` is not inductive because `FillCache` writes what `QueryMembership` read:
`Known` is what links the two. `CacheStays` covers the steps that neither delete a row nor set
an entry, `EntryMoves` those that set or clear one.

### Credentials (`FamilyCredentialProofs`)

| Theorem | States | Part of the invariant |
|---|---|---|
| `OneCredentialAlways` | `Spec => []OneCredential` | `Single` |
| `OnlyLatestTokenOpensAlways` | `Spec => []OnlyLatestTokenOpens` | `Opening`, `OnTrack` |
| `CatalogueOfAccountAlways` | `Spec => []CatalogueOfAccount` | `Named`, `Clean` |

The difficult part is an upsert that has loaded a record before a rotation and saves it after
it. It does no harm where the hash column holds a token, because `TokenOf` prefers that
column; where it holds none, nobody has changed the payload since it was loaded (`Opening`).
`Clean` says that while nothing has been mixed, the products belong to the stored record, are
gone while the record is about to change, and every sync works with the stored account; a sync
goes on with what it was given through both price lists (`SyncGoesOn`).
`CredentialAssumption`: there is an id and a token, the placeholders are none, and products
belong to `Skus`.

### Reports (`FamilyReportProofs`, `Sums`)

| Theorem | States | Part of the invariant |
|---|---|---|
| `ReportAddsUpAlways` | `Spec => []ReportAddsUp` | `Filed`, `Fresh` |
| `MonthBeforeAlways` | `Spec => []MonthBefore` | the types: it holds of every table |
| `NothingSkippedAlways` | `Spec => []NothingSkipped` | `Kept` |
| `ListIsWholeAlways` | `Spec => []ListIsWhole` | `Kept`, `InOrder` |

Queries are first restated as functions of a table (`MonthIn`, `Stats`, `Parts`, `RowsIn`), so
that the invariant can compare what was answered with the table of now. `MonthsAre` and
`NextDayIs` show that the comparisons of dates the code makes say the same as the fields of the
dates, with a year's turn and the last day of any month; `PartsAddUp` that the breakdown by
category cuts the month's sum into fibres, which needs that every transaction has its category
(`Filed`, by the cascade of `DeleteCategory`). For the listing, the order of the query gives
every row a rank of its own, and the ranks of n rows are 0 .. n - 1 (`RanksDiffer`,
`RanksAreTaken`). A creation moves ranks up, never down (`RankGrows`): a row that was not on a
page read so far is still at or behind the offset of the next one (`Kept`).

`ReportAssumption`: entries have a date that `time.Parse` accepts, a month is 1 to 12
(`handler/report_handler.go:82`), ids grow with the creation.

### Records (`FamilyRecordsProofs`)

| Theorem | States |
|---|---|
| `RelationsHoldAlways` | `Spec => []RelationsHold` |
| `DeletionStaysInsideAlways` | `Spec => DeletionStaysInside`, an action property |

What a deletion takes with it (`Doomed`) is closed under the cascades of the schema
(`DoomSpreads`), and the other relations to it are cleared (`ClearedIs`), so that a record that
stays refers to none that goes. For
`DeletionStaysInside` the invariant says further that a product belongs to the family of its
credential and a transaction, unless it was moved, to the family of its category or has a default
one, be they stored (`Matched`) or about to be saved by a request whose category may have been
deleted meanwhile (`JobsFit`). `IdsAssumption` and `EstablishedAssumption` say that the
collections have different ids and that the records at the beginning fit the schema.

### Only model-checked

* Liveness (`EventuallySettled`, `EventuallyBooked`, `PaidIsSettled`, `EventuallyRefused`,
  `EventuallyOffered`): it needs fairness and ENABLED, which the prover does not support.
* The properties the code does not keep, which two runs find violated (`BookedOnce` with webhooks,
  `PaymentIsKnown`).

All the other properties of the passing runs are theorems.

## Not modelled, and the plan

Left out, with the reason:

* The limit of 100 orders per poll and its ten-minute context; the credential a status is
  asked with when it has changed since the purchase.
* Deposit, CheckBalance, TestWebhook, InquiryPLN, GetFamilyTransactions and searches: nothing
  of what the models hold changes.
* Webhook secret, HMAC, `testing`, `is_active`: columns and checks that only end a request.
* `CheckPostpaidStatus`, which no route reaches, and an event that cannot be stored after a
  payment.
* The cutoff window of products: the sync never stores one.
* Creations and updates through PocketBase's REST interface, which its rules allow beside the
  deletions that are modelled: a family created there has no owner, a member's row may say
  anything.
* Encryption, redaction, signatures (cryptography and formatting without state), collisions of
  random tokens, invite codes and ref_ids, the exchange rate (a best-effort value no property
  looks at), percentages of the dashboard, wording.
* The registration of hooks in `generated/proxy_hooks.go`, `pbschema/`, column sizes.

Next, in this order: the poll with its limit of 100 orders and its ten minutes, and which orders
it then reaches; the credential a status is asked with; `FailedIsReal` with refused checks, up
to the purchases whose check was refused; what `OrderLifecycle` keeps of its promise when
webhooks take part.
