# NexoVending: TLA+ specifications

NexoVending is the back office of a vending-machine operator. Replenishers visit
machines, put product into slots or take it out, and every movement of product
is written to an immutable ledger from which stock is derived. These modules
specify the parts of the system where a wrong interleaving, a half-done request
or a stale read would corrupt stock or visits, check them with TLC, and prove
the most important facts with TLAPS.

Paths below are relative to the repository; `nv/` is `src/nexo_vending/`.

## The system

| Component | State | Operations | Hard behaviour | What makes it correct |
|---|---|---|---|---|
| Inventory ledger (`nv/domain/inventory`, `nv/application/inventory`) | movements, one per idempotency key; stock is their sum | assign, return, adjust, loss; balance | stock is summed, checked and then changed by an insert; retries | stock never negative, a movement is stored once and never changed |
| Replenishment visits (`nv/domain/replenishment`, `nv/application/replenishment`) | a visit: operator, status, version, lines; a line has a product or is pending | start, add line, complete, cancel, resolve product | completion writes several movements and the visit; a line may be resolved before or after it | each line moves stock exactly once, only if the visit completes; closed visits stay closed |
| Persistence (`nv/infrastructure/persistence`) | PostgreSQL rows, unique keys | repositories, `transactional_uow` | READ COMMITTED, version compared in Python, merge of whole aggregates | a request takes effect entirely or not at all |
| Counts and periods (`nv/domain/inventory/entities.py`, `periods.py`) | a count and its lines; a period of a machine position | count, recount, complete, cancel; open, load, consume, count, close, continue | operations out of order, late movements | a period starts from the count of the one before, no unit is lost over recounts and closings |
| Machine access (`nv/domain/machines/access.py`, `assignment.py`) | assignments with validity periods | assign, revoke, find active, ensure can operate | time passing, overlapping assignments | a visit starts only while the operator may work on the machine |
| Machine configuration (`nv/domain/machines/entities.py`) | status, slots, capacities, products, prices | create, activate, maintenance, slot operations | whole-aggregate save without a version | no update lost, legal status changes |
| Product catalogue (`nv/domain/products`) | products, barcodes | create, update, change barcode, (de)activate | lookup then insert, stale rows written back, locks on the index | one product per barcode, every save ends |
| Operators (`nv/domain/identity`) | role, status | provision, activate, suspend, disable, assign role | status read before the transaction | a suspended operator changes nothing |
| Sales (`nv/domain/sales`) | none (sales are returned) | register sale, consumption of a recipe, totals | repeated ingredients, unknown stock | consumption follows the recipe and fits the stock that is known |
| HTTP API (`nv/api`) | stored answers per (tenant, operation, key), by the platform | run mutating request, replay | retries, lost answers, expired answers, keys used twice | one effect and one answer per request, and answers stay true |
| Authentication, schemas, start-up | none of their own | | | |

How they interact: a router runs one use case inside `run_mutating`
(`nv/api/dependencies/wiring.py`), which opens a unit of work on the request's
database session; the use case loads aggregates through repositories, calls
domain methods that change them in memory or raise, and saves them; the unit of
work commits, or rolls back when anything raised. Components share state only
through the database.

## Modules

| Module | Models |
|---|---|
| `InventoryLedger` | locations, movements, the ledger as a function from idempotency keys to movements, book stock and `ensure_can_apply`, the movements each inventory use case asks for |
| `Replenishment` | the visit aggregate and its guarded transitions, the movements its lines stand for, the keys they are stored under |
| `VisitStore` | the committed rows (`visits`, `ledger`, `stock`) and every invariant and action property about them |
| `RequestSteps` | what each request does to these rows when it is one step |
| `ReplenishmentService` | the abstract specification: such steps, one after the other |
| `ReplenishmentTransactions` | the same requests statement by statement, in sessions of PostgreSQL at READ COMMITTED |
| `ReplenishmentTransactions_proofs` | theorems and proofs about its types, keys and stock |
| `ReplenishmentVisits_proofs` | theorems and proofs about its visits, what is posted for them and the service it implements |
| `Operators` | the operator entity: its lifecycle and the policies on role, status and period |
| `Machines` | the machine aggregate: status transitions, details, slots and their fields |
| `MachineAccess` | the administration of operators, machines and assignments, and the gate a visit starts through, statement by statement |
| `MachineAccess_proofs` | theorems and proofs about it |
| `RequestOutcomes` | the abstract specification of what a client that repeats requests is promised |
| `IdempotentRequests` | the API's handlers behind the store of answers, with retries, expiry and changing access |
| `IdempotentRequests_proofs` | theorems and proofs about it |
| `ProductCatalog` | the catalogue's requests, statement by statement |
| `ProductCatalog_proofs` | theorems and proofs about it |
| `MachineInventory` | the inventory periods of machine positions |
| `InventoryCounts` | physical counts and their lines |
| `Sales` | snack and coffee sales, recipes and consumption |
| `FunctionUpdates` | entering a value in a function, as the code does in a dict |
| `Stocktaking_proofs` | theorems and proofs about periods, counts and sales |
| `FoldTheorems` | lemmas about sums over finite sets and folds over sequences |
| `RequestSteps_proofs` | lemmas about visits, movements, book stock and posting |
| `RequestSets`, `MCReplenishmentTransactions`, `MCIdempotentRequests`, `MCMachineAccess`, `MCStocktaking` | instances for TLC |

`InventoryLedger` and `Replenishment` are pure; `VisitStore` adds the variables,
`RequestSteps` the requests as steps on them. `ReplenishmentTransactions` instantiates
the service on its own `visits`, `ledger` and `stock` (the refinement mapping is the
identity: `pc` and `tx` are hidden) and states `ImplementsService`.
`IdempotentRequests` puts the store of answers in front of the steps of `RequestSteps`,
which is justified by that refinement, so that the two levels are checked one at a
time. It maps itself to `RequestOutcomes` (`ImplementsOutcomes`): the outcome of a
request is the answer in its record. `ProductCatalog`, `MachineAccess` and the three modules of stocktaking
share no state with each other or with the visits.

### State

- `visits[v]`: the visit started under client key `v`, or `None`. The key stands
  for the visit's id: it is unique per tenant and every visit has one. A visit
  has `operator`, `status`, `version` and `lines`; a line has `slot`, a signed
  `quantity` and a `product`, `None` while pending resolution.
- `ledger[k]`: the movement stored under idempotency key `k`. Keys of a visit's
  lines are `LineKey(v, l)` and `ResolveKey(v, l)`; the others are the keys of
  inventory requests. A request without a key stores a row no request can find
  again: it behaves like one with a key that nobody reuses.
- `stock`: the sum of the ledger. The code has no such table; it sums the rows
  at every check. Keeping the sum as a variable lets most proofs talk of stock
  without a fold; the invariant `StockIsLedgerSum`, checked and proved, ties it to
  `ExpectedQuantity`, which is the code's summation.
- `pc[w]`, `tx[w]` (`ReplenishmentTransactions`): the statement a session is at,
  and what its transaction read and wrote: the aggregate in memory (`local`), the
  row as `merge` read it back (`base`), movements still to record, inserted but
  uncommitted ones, and the stock they change for this transaction's own reads.

- `IdempotentRequests`: a command is a request as a client sends it (operation,
  optional key, body); `records[<<op, key>>]` is the stored answer with the body it
  answers, `forgotten` the records that have expired, `admitted` the operators
  that may work on the machine at the moment. `replies[c]` and `effects[c]` record
  every answer a command was given and how often it changed the rows: the code has
  no such state, the properties speak of it.
- `ProductCatalog`: `products[p]` is a row or `None`; `pc` and `tx` as above, with the
  product in memory (`local`) and the row read back (`base`).
- `MachineInventory`: `periods[q]`; `precedes[q]`, for the properties, the period it
  was opened from. `InventoryCounts`: `counts[c]`; `recorded[c]`, for the properties,
  every figure accepted, in order. `Sales`: the sales registered, in order, with what
  the caller passed. None of the three is stored by this version of the program:
  the state is that of the objects its callers hold.
- `MachineAccess`: `operators[o]` and `machines[m]` are rows or `None`; a machine
  holds its `slots[s]`. `assignments[o][m][f]` is the assignment of `o` to `m`
  valid from `f`: the unique key of the table (tenant, replenisher, machine,
  valid_from) makes it a function. `visits` is the set of visits started, `now`
  the clock. `tx[w]` is an edit (the entity as changed, `local`, and the row read
  back, `base`) or the start of a visit with the operator as loaded.

### Actions

| Statement of the code | Action |
|---|---|
| load, decide, change the aggregate in memory (`execute` of each use case) | `BeginStart`, `BeginAddLine`, `BeginComplete`, `BeginCancel`, `BeginResolve`, `BeginRegister` |
| `record_movement`: key lookup, sum and check, insert | `SkipRecorded`, `CheckStock` / `RejectStock`, `InsertMovement` / `DuplicateMovement` |
| `Replenishment.complete` after the loop | `FinishComplete` / `RejectComplete` |
| `save`: version read and compared, lines deleted and row read back, flush | `CheckVersion` / `StaleVersion`, `Merge`, `Flush` / `DuplicateVisit` |
| end of the unit of work | `Commit`, or `Rollback` inside each rejecting action |
| process or connection lost, deadlock found by the server | `Crash`, `DeadlockVictim` |
| a repeated request that finds its work done | `Replay` |

In `MachineAccess`:

| Statement of the code | Action |
|---|---|
| requests of one insert, or one update of a row nobody else writes | `ProvisionOperator`, `CreateMachine`, `AssignMachine`, `RevokeAssignment` |
| load an operator, change it (`nv/application/identity`) | `ActivateOperator`, `SuspendOperator`, `DisableOperator`, `AssignOperatorRole` |
| load a machine, change it (`nv/application/machines`) | `ActivateMachine`, `DeactivateMachine`, `PutMachineInMaintenance`, `UpdateMachine`, `AddMachineSlot`, `SetSlotStatus`, `ChangeSlotCapacity`, `SetPreferredProduct`, `SetSlotSellingPrice` |
| `save`: slots deleted, row read back | `RefreshOperator`, `RefreshMachine` |
| flush of the UPDATE and the slots' INSERTs | `Flush` / `DuplicateNumber` |
| end of the unit of work | `CommitOperator`, `CommitMachine`, `CommitStart` |
| the operator loaded and checked by the route's dependency | `BeginStart` |
| `ensure_can_operate` in the start of a visit | `EnsureCanOperate` / `DenyAccess` |
| time, process lost | `Tick`, `Crash` |

In `IdempotentRequests`:

| Statement of the code | Action |
|---|---|
| `run_mutating` finds a record of the same operation, key and body | `ReplayStored` |
| the handlers of `nv/api/routers/replenishments.py`, run and their answer recorded | `CreateReplenishment`, `AddReplenishmentLine`, `CompleteReplenishment`, `CancelReplenishment`, `ResolveReplenishmentLineProduct` |
| the four handlers of `nv/api/routers/inventory.py` | `RegisterInventoryMovement` |
| a record expires | `Expire` |
| an assignment begins or ends | `ChangeAccess` |

Each handler has a disjunct in which the use case finds the work done (the visit
or movement under the key, the visit completed, the product already there) and
one in which it does it. A command that is refused (another body under a key, no
access, no stock, a closed visit) is rolled back with its record and is no step.

In `ProductCatalog`:

| Statement of the code | Action |
|---|---|
| look the barcode up, load, change (`nv/application/products`) | `CreateProduct`, `UpdateProduct`, `ChangeProductBarcode`, `ActivateProduct`, `DeactivateProduct` |
| `save`: row read back | `Refresh` |
| flush of the INSERT or UPDATE | `Flush` / `DuplicateBarcode` |
| end of the unit of work, process lost | `Commit`, `Crash` |

In the modules of stocktaking each method of the entities is an action of its
name: `OpenInitial`, `OpenNext`, `ApplyReplenishment`, `ApplyConsumption`,
`RecordPhysicalCount`, `Close`; `CreateInventoryCount`, `RecordInventoryCountLine`,
`CompleteInventoryCount`, `CancelInventoryCount`; `RegisterSnackSale`,
`RegisterCoffeeSale`.

### Decisions about the environment

- **Sessions.** The Dockerfile starts one uvicorn process; handlers are `async`
  but never yield inside a transaction (the session is synchronous). So one
  session is the deployed program, and two are a second replica or a rolling
  deployment. The integration test `tests/integration/test_v8_persistence.py`
  (`test_optimistic_locking_on_replenishment`) itself opens two sessions.
- **READ COMMITTED.** No isolation level is set, so each statement sees what is
  committed when it runs plus its own writes. A write to a row or unique key that
  an open transaction wrote waits for it: `KeyFree`, `LinesHeldBy`, `RowFree`.
- **`save`.** `session.get` in `save` selects the row again: the object loaded by
  `get` was converted and dropped, and the identity map holds it weakly. `merge`
  writes the columns in which the aggregate differs from the row it read back
  (`Column`, `WrittenVisit`). The ORM has no `version_id_col`, so the UPDATE is
  not conditional on the version. Deleting the lines waits for another
  transaction that has deleted them, but a visit without lines has none to wait
  for.
- **Order of lines.** Lines are reloaded with no `ORDER BY`, so postings are
  recorded in any order.
- **Merged steps.** The reads with which a request begins (visit, stock of the
  operator, key lookup) are one step. They are only reads; everything that
  decides a write again (key lookup, sum, version) is a step of its own.
- **Saves of operators and machines.** As above, but no version is compared at
  all. The slots of a machine are deleted and inserted again, so the save waits
  for another transaction that has deleted a slot of the same machine, and an
  inserted slot may meet the unique index on machine and number.
- **Administration.** The use cases on operators, machines and assignments are
  called from inside the application; no route offers them yet. `revoke` is
  offered by the assignment and its repository and has no use case yet. Whatever
  calls them, one process is one session.
- **The gate.** The operator is loaded before the unit of work, machine and
  assignment in it. The time of a visit is the client's, so any time may be asked
  for. The queries behind the same gate (resolve a machine, its details, its
  slots) change nothing.
- **Machine data.** Name, location and SII id are one value of `Details`; a
  preferred product is taken as active. A slot id is used again only when no
  copy holds it: in the code it is a fresh uuid.
- **The store of answers.** The platform's idempotency service is external: it
  keeps one record per tenant, operation and key with a hash of the request, in the
  session of the request, for a limited time (`nv/api/dependencies/wiring.py`). What
  is hashed is the payload the routers pass. A start without a key gets one made
  from the id of its request, which no client repeats.
- **Keys of movements.** A visit derives the keys of its lines' movements from its own
  key and the line's uuid. Clients are assumed not to send such keys themselves
  (`InventoryKeysAssumption`).
- **The unique index on barcodes.** Entering a barcode waits for a transaction that
  has entered it or is giving it up (`HeldBy`). Product rows carry no version, and
  merge writes only the columns that differ from the row read back, so an update
  may put a stale barcode back; uniqueness rests on the index alone.
- **Left out.** In the visit modules, one tenant and one machine; checks that only
  reject a request (catalogue, substitution price, access) are taken as passed;
  descriptions, prices, timestamps and locations are data no property
  distinguishes.

## Checks

| Run | Configuration | Shows |
|---|---|---|
| `one_session` | `TransactionsOneSession.cfg` | one process, crashing anywhere, keeps visits, ledger and stock consistent and implements the service |
| `two_sessions` | `TransactionsTwoSessions.cfg` | what interleaved sessions still keep, and that every request ends, also through deadlocks |
| `requests` | `Requests.cfg` | what clients may rely on when they repeat requests |
| `administration` | `Administration.cfg` | who may start a visit, over every history of two operators, their assignments and a machine; rewriting a machine whole changes only what was asked for |
| `machine_two_sessions` | `MachineTwoSessions.cfg` | what the unique index still keeps when saves interleave |
| `catalogue` | `Catalog.cfg` | one product per barcode, with two sessions that overwrite each other's rows |
| `stocktaking` | `Stocktaking.cfg` | periods, counts and sales add up in every order of their operations, and closed periods stay as they are |
| `overdraw`, `lost_movement` | `TwoSessions*.cfg` | where two sessions break what the documents say |
| `masked_assignment`, `reused_key` | `AssignmentsMaskEachOther.cfg`, `ReusedMovementKey.cfg` | where one session does |
| `repeated_ingredient` | `RepeatedIngredient.cfg` | where a single sale does |

Properties of visits and stock, all in `VisitStore` unless noted:

- `StockIsLedgerSum`: nothing is counted twice or lost.
- `NonNegativeStock`: no location has less than nothing.
- `VisitsMatchLedger`: a resolved line of a completed visit has exactly one
  movement, under one of its two keys, equal to the line; every other line has
  none. This is what completion, cancellation, early and late resolution must
  agree on.
- `PostingIsAtomic`: the movement of a line appears in the step that leaves the
  visit completed with that line.
- `ClosedVisitsAreFinal`, `LinesAreKept`, `SavesAdvanceVersion`: what no save may
  undo.
- `LedgerIsAppendOnly`: a stored movement stays as it is.
- `ImplementsService` (`ReplenishmentTransactions`): refinement: whatever the
  transactions of one session commit is one step of the service.
- `EveryRequestEnds` (`MCReplenishmentTransactions`): liveness.

Properties of `IdempotentRequests`:

- `AtMostOneEffect`: a request changes the rows at most once, however often it
  arrives. For most requests this holds even after the record has expired, since
  visits, movements and status changes are recognised by the domain. An added line
  is the exception: only the record stands behind it, and a retry after its expiry
  adds the line again; the property leaves that case out and a hazard names it.
- `OneAnswerPerRequest`: as long as the record is kept, a repeated request gets the
  answer it got first, though access, stock or the visit have changed since.
- `AnswersHold`: what any client was ever told is still so, or has moved on from
  there by legal steps.
- `ImplementsOutcomes`: refinement of `RequestOutcomes`.

Properties of the other modules:

- `BarcodesAreUnique`, `EverySaveEnds` (`ProductCatalog`): the second is about
  requests that wait for a row or for a barcode another product is giving up.
- `PeriodsFollowOn`, `SlotsBalance` (`MachineInventory`): a period goes on from the
  count of the one before, and along a line of periods nothing is lost or made up,
  whatever is counted again or moved after the count. `open_next` may
  be called more than once on one period; the properties hold along each line.
- `ClosedPeriodsAreFinal` (`MachineInventory`): what is reported late does not reach a
  closed period. `PeriodsFollowOn` would see a late count; a late load would change
  the period's total and its variance by the same amount, cancel out in
  `SlotsBalance`, and is seen only here.
- `LastFiguresCount` (`InventoryCounts`): a count holds the last figures of each product.
- `SalesFollowRecipes`, `SnackSalesAddUp` (`Sales`): a coffee sale consumes what its
  recipe names and nothing else, of what is named once exactly that times the units
  sold, of nothing more, and within the stock that is known; every snack sold counts
  for one slot. That a sale consumes all its recipe names is `ConsumptionIsComplete`,
  which the run `repeated_ingredient` refutes.

Properties of `MachineAccess`:

- `VisitsStartWithAccess`: each visit that starts does so under an active machine,
  an active replenisher in its period and an assignment in force.
- `DisabledIsFinal`, `StatusMovesAsAllowed`: the lifecycles hold of the stored
  rows, not only of the entity a request has in memory.
- `SlotsAreKept`, `OneChangePerSave`: a save loses no slot, renumbers none, and
  puts no other part of the machine back.
- `SlotNumbersAreUnique`: with any interleaving of saves.

### Findings

Five runs end in a counterexample, reported as a finding. Two need two sessions.
The balance check and the version check are both "read, compare, write" without a
lock, so stock can be overdrawn (`overdraw`) and a movement lost when a line is added
while the visit is completed (`lost_movement`). Of one session, which is how the
program is deployed, `one_session` checks the same and more. Operators, machines and
products are saved without any version; for this reason `DisabledIsFinal`,
`SlotsAreKept`, `OneChangePerSave` and `StatusMovesAsAllowed` are stated of one
session only, and of the catalogue only what the unique index ensures. The same goes
for `VisitsStartWithAccess`, since the operator is read before the transaction. What
two sessions may do there (undo a disabling, lose a slot, start the visit of an
operator suspended meanwhile) is listed as hazards no property covers.

`masked_assignment` needs one session only. `find_active` returns the active row
with the latest start, and the policy then asks whether that row is in force. A
future assignment, or an expired one that started later, hides an older one that
is in force, and the replenisher is turned away. It errs on the strict side:
`VisitsStartWithAccess` holds.

`reused_key` needs one session, too. The store of answers keeps a record per operation,
the movement is stored under a key that is unique per tenant, and
`register_movement` answers with whatever movement it finds under the key. A return
sent under the key of an earlier assignment is answered as done, with the assignment,
and nothing is returned.

`repeated_ingredient` needs a single call. Nothing keeps a recipe from naming an
ingredient twice, and `consumption_for` enters the ingredients in a dict, where the
later entry replaces the earlier one. A recipe with one unit of a product in each of
two entries consumes one unit where the documents say ingredients × sold units, and
the check of the stock, which comes after, asks for that one unit only.

### Bounds

- One machine with one slot, one replenisher, one administrator, one visit: the
  checks relate a visit to its own lines, keys and stock; visits meet only
  through the stock, which inventory requests with their own keys change too.
- Two lines: enough for partial completion, for a load fed by an unload, for a
  pending line beside a resolved one and for insert orders that deadlock.
- `MaxQty = 2` lets a movement be partly covered; the lines of the runs with two
  sessions load one unit each, and two assignments of different size under one key
  show which of them is stored.
- Two products with one session, so that resolving with the wrong one shows; one
  with two sessions.
- `MaxVersion` bounds how often a visit is saved: six saves are start, two lines,
  two resolutions, completion; four, with two sessions, are the first four of such a history.
- `requests`: one visit with up to two lines, commands that share keys between
  operations and between bodies, and one inventory key no client knows; one record may
  expire, which lets each kind of request meet the loss of its own record. There is one
  operator, so no two callers send the same request; the theorems cover any number.
- `catalogue`: two barcodes and three products: one barcode fewer than products, so that a
  product can always contend for one that is taken or being given up; details have one value, since they
  only pass through.
- `stocktaking`: three periods in two positions, so that a period can be continued twice
  or followed twice, one unit of each kind of movement; one count of three figures
  for two products; one coffee sale with a recipe of up to two entries, three snack
  sales. The parts share nothing, so each is explored while the others are empty.
- `administration`: two operators, so that an administrator can suspend another one; one
  machine; two times and two assignments, enough for one in force, one that is
  over and one to come; one visit, since visits do not influence each other here. Two
  slots, two numbers, two values of each field but one, which may also be unset. Slots
  and details matter to no visit, and assignments and time to no slot, so each side is
  explored while the other is as it began (the constraint `OneConcern`).
- `machine_two_sessions`: three slots and two numbers, so that two
  sessions can contend for a number while a third slot is stored; fields that no
  statement of that run depends on have one value.
- `repeated_ingredient`: one sale of a recipe of up to two entries.
- Symmetry is used in runs without liveness: sessions, line ids, inventory
  keys, operators and slot ids are interchangeable. Deadlock is checked in every run but `stocktaking` and `repeated_ingredient`, where
  behaviours end with the bounds: no operation there waits for another.

### Fairness

`FairSpec` assumes that a running handler goes on (weak fairness of `Step`: it
waits for nothing) and that a statement waiting for a lock that is released again
and again gets it (strong fairness of `LockStep`: PostgreSQL queues waiters in
order; the models have no queues, and strong fairness stands for them). PostgreSQL
ends one transaction of a cycle of waiting ones (`DeadlockVictim`, in `Step`); in
`ProductCatalog` a flush takes the row and the index entry in one step. With the two
sessions that are checked no cycle can form (the lookup of the request that began last
sees the rows both flush against); with more the server would end one transaction,
which for the rows is a `Crash`. No request need ever arrive and nothing need ever crash.

## Proofs

Every invariant and action property of the passing runs and both refinements are
proved, for every value of the constants under the assumptions below. `OneSession`
in a theorem means that no two sessions differ: how the program is deployed, and
needed, as the runs with two sessions show.

`ReplenishmentTransactions_proofs`:

- `TypeCorrectness`: `Spec => []TypeOK`. `TypeOK` alone is not inductive:
  committing a visit needs the row and the copy read back to exist. `WellFormed`
  says what a transaction holds at each place; `TypeInv` is the conjunction.
- `LedgerOnlyGrows`: `Spec => LedgerIsAppendOnly`, for any number of sessions. The
  invariant `KeysAreExclusive` says that a key some open transaction has inserted
  is neither stored nor inserted by another; an insert establishes it because it
  waits for the unique index, a commit keeps it.
- `StockNeverNegative`: `OneSession => (Spec => []NonNegativeStock)`. `StockInv`
  adds to the committed stock the stock each transaction sees, and that a movement
  about to be inserted still passes its check. The run `overdraw` is the
  counterexample for two sessions.
- `StockAddsUp`: `Spec => []StockIsLedgerSum`, for any number of sessions. `SumInv` adds
  that what a transaction sees beyond the committed stock is the sum of what it has
  inserted, and that it holds one movement per key. Committing puts two ledgers
  together that have no key in common (`KeysAreExclusive`), and the sum of two such
  ledgers is the sum of their sums (`ExpectedTogether`).

`ReplenishmentVisits_proofs`, for one session:

- `VisitsAgreeWithLedger`: `OneSession => (Spec => []VisitsMatchLedger)`. The invariant
  is not inductive: it says nothing of open transactions. `OpenInv` adds what each
  of the six kinds of request holds: how the visit in memory was made from the stored
  row, and that the movements recorded and still to record are together exactly those
  the request stands for. While a transaction is open the row does not change, so what
  it read still fits when it commits. That a completion finds no movement to skip
  (`NothingPosted`) follows from the invariant itself.
- `PostingsAreAtomic`, `ClosedForGood`, `LinesStay`, `VersionsAdvance`: the action
  properties about visits, from the same invariant; only commits change rows, and a
  commit saves the copy the invariant describes.
- `RequestsAreAtomic`: `OneSession => (Spec => ImplementsService)`. The service posts
  the movements of a request in some order, each checked against the stock the ones
  before it leave; the transactions insert them one statement at a time. `ServiceInv`
  says that what a transaction has inserted could be posted so, by an order that leads
  from the committed stock to the stock it sees (`PostsTo`), and that what its request
  was accepted for still holds (`Accepted`). A commit is then the step of its request,
  and every other statement is a stutter.

The lemmas about operators are in `RequestSteps_proofs`. The steps of
the specification are sorted by `KindsOfSteps` into the three that touch
movements and the quiet rest, so each invariant looks at four cases.

`MachineAccess_proofs`:

- `AccessTypeCorrectness`: `Spec => []AccessTypeOK`, from `TypeInv`, which adds what
  a transaction holds at each place and that the rows it edits exist.
- `SlotNumbersStayUnique`: `Spec => []SlotNumbersAreUnique`, for any number of
  sessions. Uniqueness alone is not inductive, for a save may drop slots that
  another session added and combine a stored copy with its own. `SlotsInv` adds
  that every copy of a slot has one number (`CopiesAgree`), that one session at a
  time is between flush and commit of a machine (`OneWriter`), and that the flush's
  comparison with the stored slots still holds there (`FlushedStaysFree`). In the
  commit, two slots of one number cannot both come from the session or both from
  the store; and when one comes from each, either the session has a copy of the
  stored one too, under the same number, or the flush has compared them.
- `DisabledForGood`: `OneSession => (Spec => DisabledIsFinal)`: an open edit of a
  disabled operator changes nothing (`DisabledInv`).
- `StatusMoves`, `SlotsStay`, `SavesChangeOneThing`: `StatusMovesAsAllowed`,
  `SlotsAreKept` and `OneChangePerSave` for one session. Each request makes one edit of
  the machine it loads (`OneEdit`); `EditsInv` says that the copy in an open transaction
  is such an edit of the stored row, and that the row read back is the stored one, so
  that the save, which writes what differs from it, stores the copy (`NothingPutBack`).
- `VisitsHaveAccess`: `OneSession => (Spec => VisitsStartWithAccess)`: what the gate
  saw is still so when the visit is stored (`StartInv`).

`IdempotentRequests_proofs`:

- `OneAnswerEach`: `Spec => []OneAnswerPerRequest`. A handler runs only if there is no
  record, and a request without a record has no answer yet unless the record expired.
- `EffectsHappenOnce`: `Spec => []AtMostOneEffect`. `EffectInv` says that a command that
  has had an effect has left a trace: its record, its visit or movement, a closed
  visit or a line that has its product. No request removes a trace, and no handler
  has an effect where it finds its own.
- `RequestsWellTyped`, `AnswersStayTrue`: `RequestsTypeOK` and `AnswersHold`. `TruthInv`
  adds that an answer is of the kind of its operation and that the answers in records
  hold too, which a replay gives again. Every request leaves a movement as it is and
  moves a visit on (`RowsStay`), and moving on is transitive (`MovedOnAgain`).
- `PromiseKept`: `Spec => ImplementsOutcomes`. The effects of a request are summed over
  the commands that send it; a handled command adds to one of them, and only where the
  request had no outcome.

`ProductCatalog_proofs`, for any number of sessions:

- `CatalogTypeCorrectness`: `Spec => []CatalogTypeOK`.
- `BarcodesStayUnique`: `Spec => []BarcodesAreUnique`. `NoneStored` and `NoneOpen` say that a
  transaction past its flush that writes a barcode finds it on no other row, and that
  no other such transaction writes its row or its barcode: what the index and the
  locks told the flush stays true until the commit.

`Stocktaking_proofs`:

- `PeriodTypeCorrectness`, `PeriodsFollowEachOther`, `ClosedPeriodsStay`: `PeriodsFollowOn`
  needs that a closed period was counted, and that nothing changes a closed period again,
  which is `ClosedPeriodsAreFinal`.
- `UnitsAddUp`: `PeriodsSpec => []SlotsBalance`. The totals of a line of periods are a
  recursive function of the period before, so they exist only because going back ends:
  `OriginInv` says that every set of periods has one that was opened from none of them,
  and that an initial period starts with nothing. `Balanced` is the induction along a line.
- `CountsWellTyped`, `LastFiguresAreKept`: `CountsTypeOK` and `LastFiguresCount`. `HoldsLast` says
  that the lines are the last figures and that no product has two; `AsManyLines` that
  there are then as many lines as last figures.
- `SalesWellTyped`, `ConsumptionFollowsRecipes`, `SnackTotalsAddUp`: `SalesTypeOK`,
  `SalesFollowRecipes`, `SnackSalesAddUp`. After any part of a recipe the last entry of
  each product counts (`LastEntriesCount`): the only one where the product is named once,
  and never more than all of them together (`PartOfWhole`). A sale adds the same to the totals per
  slot and to the units sold (`SaleAddsUp`).

Induction over data. The induction theorems of the library take an operator as a
parameter, which the provers cannot instantiate. `FoldTheorems` does without them:
what is summed, and what a fold does at each place, is given as a function, and an
induction is a choice of the least counterexample (`MinimalSet` in a finite set of
subsets, `LeastNatural` and `UpTo` in the numbers). That there is a function with the
equation of a sum or of a fold is proved first (`SumsExist`, `RunsExist`); the
library's definitions, which choose such a function, then compute it.

The assumptions on constants:

- quantities, times and bounds are naturals, positive where nothing could happen
  otherwise (`MaxQtyAssumption`, `VersionAssumption`, `TimeAssumption`,
  `AccessAssumption`, `ExpiredAssumption`, `UnitsAssumption`, `FiguresAssumption`,
  `SalesAssumption`), and a slot holds at least one unit (`CapacityAssumption`);
- requests are lines, movements and commands the code can build
  (`LineRequestsAssumption`, `InventoryRequestsAssumption`, `CommandsAssumption`);
- keys of clients and of lines differ (`InventoryKeysAssumption`);
- there are finitely many movement keys, commands and slots that sell
  (`FiniteKeysAssumption`, `CommandsAssumption`, `FiniteSlotsAssumption`): sums over
  them are sums of rows that exist;
- `None` is none of the values it stands in for.

TLC evaluates them in every run.

Only model-checked: `EveryRequestEnds` and `EverySaveEnds`, which are liveness under
fairness, and the five counterexamples.

## Not modelled

- Authentication: the platform's library checks tokens and issues sessions; the status
  of the operator, which is the part that matters to visits, is in `MachineAccess`.
- Request schemas, serializers, error mapping, settings and start-up: formatting and
  wiring without state of their own.
- Queries: they read rows or sums and change nothing.

## Plan

1. *Done*: ledger, visits, service, transactions, first theorems.
2. *Done*: machine access and machine configuration, with their theorems.
3. *Done*: the API's store of answers, its abstract specification, retries and expiry.
4. *Done*: product catalogue, periods, counts and sales.
5. *Done*: `VisitsMatchLedger` and the action properties of visits for one session.
6. *Done*: both refinements, `StockIsLedgerSum`, `AnswersHold`, the saves of machines for
   one session, and the sums of periods, counts and sales.
7. Every safety property the runs check is proved now. Left are facts no property
   states yet: which parts of `VisitsMatchLedger` two sessions keep, and a promise of the
   catalogue that its two sessions implement.
