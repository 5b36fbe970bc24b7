# A verification development of the exchange core

TLA+ modules, TLC configurations and TLAPS proofs about the core of the exchange in this
repository: a Django 4.1 application (41,800 lines without tests and migrations) over
PostgreSQL, redis and celery. PostgreSQL runs at its default isolation level, READ COMMITTED,
and `ATOMIC_REQUESTS` is not set: a transaction is whatever `transaction.atomic()` or
`WalletPipeline()` encloses, and everything read outside it, or inside it without
`select_for_update`, may be stale when it is used. That is where the difficult behaviours are,
and what the models are about.

- `PROJECT.json` lists components, runs, mutants, the source lines of every definition,
  hazards and theorems.
- Check a module: `tlc -workers 2 -config MCOrderBookMatching.cfg MCOrderBook`.
- Check the proofs: `tlapm M.tla` for `WalletPipelineProofs`, `OrderBookProofs`,
  `CryptoWithdrawProofs`, `CryptoDepositProofs`, `OtcTradeProofs`, `FiatWithdrawProofs` and
  `StopLossProofs`; `SumTheorems` holds the lemmas about sums that they share.

## 1. Inventory

| Component | State it keeps | Operations | Interacts with | Hard behaviours | What makes it correct |
|---|---|---|---|---|---|
| Wallet pipeline (`ledger/utils/wallet_pipeline.py`) | buffers of one transaction; rows `Wallet.balance/locked`, `BalanceLock.amount`, `Trx` | `new_lock`, `release_lock`, `new_trx`, `_execute` on exit | every component that moves money runs inside one | rows written one by one beside other pipelines; unlocked reads of lock rows; row-lock order; failure between writes | wallets stay solvent, `locked` is the sum of lock rows, the journal explains balances, no deadlock |
| Wallets (`ledger/models/wallet.py`) | balance, locked, credit per account, asset, market, variant | `has_balance`, `get_free`, `reserve_funds`, `refund`, `seize_funds` | pipelines; margin; reserve API | free funds checked on stale reads, then by CHECK constraints | no wallet below its holds; one reserve per request, refunded once |
| Order book (`market/models/order.py`, `market/serializers/order_serializer.py`, `market/utils/trade.py`) | `Order` rows, one row lock per `PairSymbol` | create, `submit`, `acquire_lock`, `make_match` | pipeline (locks, trxs), trades, stop-losses, margin | order of ids and of row locks differ; prices read before the lock; rounding; partial fills | open orders are funded, the book is never crossed, price and time priority, fills equal trades |
| Cancellation (`market/serializers/cancel_request_serializer.py`, `Order.cancel`, `bulk_cancel_simple_orders`) | `CancelRequest` rows | single and bulk cancel | order book, pipeline | stale order; unique row inserted concurrently; deadlock with bulk | closed orders are final, an acknowledged cancellation has happened, requests end |
| Missing locks task (`ledger/tasks/locks.py`) | none | `free_missing_locks` every 15 s | order book, OTC, stop-losses | three reads and a release without any lock | never frees an open order's lock; frees what nobody needs |
| Stop-loss and OCO (`market/models/stop_loss.py`, `oco.py`) | `StopLoss`, `OCO` rows | create, trigger within a match, cancel | order book (re-entrantly), pipeline | nested triggering over a cached queryset; one lock shared by two orders | each fires at most once; the shared lock covers what is left of either |
| Crypto withdrawals (`ledger/models/transfer.py`, `ledger/tasks/withdraw.py`, views) | `Transfer` row and its lock | create, verify, send to blocklink, callbacks, user cancel, admin | pipeline, blocklink (HTTP both ways), celery | lost updates, lost answers, repeated callbacks, stale checks | paid at most once; never canceled after it was sent; final states final |
| Crypto deposits (`deposit_transfer_request_view.py`) | `Transfer` row | callbacks, admin, refund | pipeline, debts | repeated and concurrent callbacks | credited at most once per chain transaction |
| OTC trades (`ledger/models/otc_trade.py`) | `OTCTrade` row and its lock | create, execute, expire, cancel, retry task | order book (FOK hedge), provider | no row lock, no check of the current status | settled at most once; expired or settled, never both |
| Fiat withdrawals (`financial/models/withdraw_request.py`) | request row and its lock | create, send, poll, refund | pipeline, bank providers | lost answers, repeated polls | paid at most once |
| Fiat payments (`financial/models/payment.py`, gateways) | request and payment rows | callback, polling, admin | pipeline, gateways | callback races polling | credited at most once |
| Staking (`stake/`) | request row | status machine, revenue task | pipeline | full-row saves of stale copies | returned at most once |
| Margin (`ledger/models/position.py`, `margin.py`) | positions, loans | open, close, liquidate, interest | order book (re-entrantly), prices | nested pipelines, liquidation inside a match | equity and debt agree with wallets |
| Reserve, debts, reverts (`wallet.py`, `revert.py`, `tasks/debt.py`) | reserve rows, debt wallets | reserve, refund, revert, clear | pipeline | retries without a unique key | each at most once |
| Token operations, prizes (`token_delist.py`, ..., `gamify/`) | batch rows | admin jobs, missions | pipeline, nested in others | pipelines nested in pipelines | each at most once |
| Accounts, accounting, analytics, marketing, search, multimedia, health | users, reports | request handling, reporting | - | - | not money-moving; not modelled |

Shared state is the database; the components call each other inside one transaction (an order
submission runs matching, the journal and the stop-losses in one pipeline) and otherwise meet
only through committed rows and row locks.

## 2. Modules

### Ledger and WalletPipeline

`Ledger.tla` is what the wallet tables promise: a journal of transfers that only grows, with at
most one entry per identity, balances that are exactly explained by it, holds that only shrink
once made, and checked wallets that can always honour the holds on them. Its one action, `Post`,
is any unit of work.

`WalletPipeline.tla` is the code. State: the committed columns (`balance`, `locked`, `lockRow`,
`trx`), for each transaction a program counter, its buffers and whether its body raised, and the
row locks (`lockHolder`, `walletHolder`). Actions follow the life of a pipeline:

| Action | Code |
|---|---|
| `Enter` | `__enter__` resets the buffers |
| `NewLock`, `ReleaseAll`, `ReleasePart`, `NewTrx` | the operations of a body; `release_lock` of a committed lock reads its row *without* locking it |
| `Exit` | `__exit__`: `_execute` runs even after an exception |
| `UpdateLockRow`, `UpdateWallet` | one `UPDATE ... SET x = x + d`, in sorted order, which takes the row lock and evaluates the row's CHECK constraints |
| `UpdateRefused` | a constraint refuses: rollback |
| `Commit` | the bulk inserts, then the commit; also when redis failed last (`"committed, raised"`) |
| `InsertsRefused` | a unique key refuses, or the body had raised: rollback |
| `Crash` | the worker dies at any point |

READ COMMITTED is modelled by what it means here: an update waits while another transaction
holds the row, then is applied to the newest committed row; as the holder of a row is the only
one who can change it, the relative updates are written at `Commit` and evaluated at the update.

Left out: several assets (`new_trx` asserts that sender and receiver agree on it, and rows of
different assets meet only in the order of ids, which one set of wallets covers), wallet
`credit`, the margin, loan and debt markets, the `positions` buffer, and pipelines nested in one
another.

### OrderBook

`OrderBook.tla` is one symbol. State: the `Order` rows, the lock amount of each order's group,
balances of the two assets per account, trades, who holds the symbol's row lock, the local state
of the match in progress (`left`, `matched`, `takerLock`), committed cancel requests, the cancel
requests and the bulk cancellation in progress, and the local state of the janitor task.

| Action | Code |
|---|---|
| `Place` | `OrderSerializer.create` (or `new_order`): price of a market order, the row and its id, before any lock |
| `Submit`, `Kill`, `RefuseUnfunded` | `submit` after it got the symbol: `acquire_lock`, the FOK check, or `InsufficientBalance` |
| `Match` | one turn of the loop of `make_match` |
| `Commit`, `RefuseUnpaid` | the end of the pipeline, with its CHECK constraints |
| `Crash` | anything raised before the commit |
| `AskCancel`, `InsertRequest`, `FoundRequest`, `CancelOrder`, `CancelFails` | `CancelRequestSerializer`: the unlocked read, `get_or_create` of the request, `Order.cancel`, or the rollback of both |
| `BulkRead`, `BulkLock`, `BulkInsert`, `BulkCommit`, `BulkFails` | `bulk_cancel_simple_orders` |
| `BreakDeadlock` | PostgreSQL rolls back a party of the deadlock between the two |
| `JanitorReadLocks`, `JanitorReadOrders`, `JanitorRelease` | `free_missing_locks` |

Amounts of the asset are steps of the symbol; amounts of base are rounded down to `Unit`, as
`floor_precision` does to 8 places, because what rounding loses is what the lock properties are
about. The pipeline underneath is atomic here: that is what `WalletPipeline` is for. Two things are
merged that the code does one after the other: the market price and the id of an order are read in
one step, and the three writes of a commit are one. An order's id decides its place in the queue, so
priority "by time" is by the time a row was created, not by the time it was matched; `BestFirst`
says so. Whether a submission has its funds is checked on the wallet a buy reads then, under the
symbol's lock, but on the one a sell read before it: for a sell either outcome is possible
(`MayPass`, `MayFail`), and the constraint decides at the end.

Left out: fees and referral rewards (they go through the same pipeline, from what the trade just
paid), margin, stop-losses and OCO orders (`StopLoss` is about those), and other symbols and
withdrawals that spend the same wallets: what those can do to a submission is make its free-funds
check stale, and the constraint then refuses the whole pipeline, as in `WalletPipeline`.
`bulk_cancel` is called for the orders of one account, and the model has one bulk cancellation at a
time.

### Settlement

`Settlement.tla` is what the exchange promises of the amount of one request of a customer,
whichever rows record it and whoever works on it: it is held at most once, charged (a deposit:
credited) at most once, a hold that was given back is not charged after all, and what was charged
is reverted at most once. `contested` are the requests of which a component does not keep the last
but one part; each component says which those are (only `OtcTrade` has any). The four components
below are shown to implement it, by their `Promise` instances. None of them sees the inside of a
pipeline: a unit of work is one step there, which is what `WalletPipeline` and `Ledger` are for.

### CryptoWithdraw

`CryptoWithdraw.tla` is the life of coin withdrawals. State: the columns of the `Transfer` row
that decide (`status`, `source`, whether it is in its freeze time), the row of the receiver when it
was forwarded inside the ledger (`receiver`), what the ledger says of its amount (`funds`: held by
its lock, charged, returned or reverted), the celery queue, which row each worker
has locked while it waits for blocklink, the requests on their way, what blocklink did, and what
cancel requests and callbacks have read and not yet acted on.

| Action | Code |
|---|---|
| `NewWithdraw`, `FastForward` | `new_withdraw`, in the transaction of its view: the row, its hold, and possibly already PROCESS; or a transfer inside the ledger |
| `CancelRead`, `CancelApply` | `perform_destroy`: the check on an unlocked copy, then `reject()` under the row lock |
| `RejectRead` | the staff's `reject_withdraw`: one query, then `reject()` row by row |
| `AcceptWithdraw` | the staff's bulk `UPDATE` |
| `RefundReceiver` | the staff's `refund_deposit` of the receiver's row, which reverts the entries of the sender's too: they share a group |
| `SaveForm` | `save_model`: `accept()` when the form says DONE, then the form is saved over the row |
| `Dispatch`, `Skip`, `Ask` | `update_withdraws` queues a task; `create_withdraw` locks the row, checks again, returns or sends |
| `AnswerPending`, `AnswerInvalid`, `AnswerNotHandled`, `NoAnswer` | the branches on the response; the last is also a timeout or the death of the worker |
| `NotifyRead`, `NotifyApply` | `WithdrawSerializer.create`: transition checked on an unlocked copy, then `change_status` |
| `Takes`, `Finishes` (external) | blocklink, which honours a `requester_id` once and answers Invalid or NotHandled only of what it has not taken |

`accept`, `reject` and the UPDATE of `change_status` lock the row, look at its status and change
row and ledger in one pipeline, so each is one step. A worker holds the row lock between `Ask` and
its answer; nobody else writes the row then, but everybody may read it, and the cancel request
that does so is the finding below. `overruled` is a history variable: the rows whose outcome the
staff changed by the form, which saves any status over any other without touching the ledger
(except for DONE over an open row). The properties are about all other rows; a form that moves a
row between open statuses, backwards too, does not exempt it. A forwarded withdrawal stays DONE when
its receiver's row is refunded; `LedgerMatchesStatus` says so.

Left out: a forwarded row that the form opens again, whose `accept` posts an entry of other wallets
than the first but is taken to be refused like those of the others; amounts (a hold and the entries
that use it up are made from the same two columns), the rules of `auto_withdraw_verify` (either
outcome is possible), and `ManualWithdraw`, by which the staff pay from their own funds.

**Finding** (`withdraw_late`). `perform_destroy` refuses a cancellation after the freeze time.
The check reads a copy of the row; `reject()` then waits for the row lock, which the worker holds
while it talks to blocklink, and looks only for DONE and CANCELED. A cancellation that was in
time when it was read cancels a withdrawal that is PENDING when it gets the row: the amount goes
back to the customer although blocklink has taken the payment.

### CryptoDeposit

`CryptoDeposit.tla` is deposits of coins, and what follows their refund. State: `status` of the
`Transfer` row and its `funds` in the journal; `DepositRecoveryRequest` rows and how many transfers
each made; the customer's spot wallet, DEBT wallet and spent coins; what blocklink knows; and what
callbacks, staff and runs of `clear_debt` have read and not yet acted on.

| Action | Code |
|---|---|
| `ChainMoves` (external) | a transfer becomes final on its chain, or is dropped from it |
| `CallbackRead`, `CallbackCreate`, `CallbackApply`, `CallbackDies` | the three transactions of `DepositSerializer.create`: lookup, `get_or_create`, `change_status` (to what was reported, or to INIT); reports are repeated, late and out of order |
| `AcceptDeposit` | the staff's `accept_deposit` |
| `StaffReads`, `RejectDeposit`, `Reaccept` | `reject_deposit` and `accept_canceled_deposits`: one query, then row by row |
| `RevertLocks`, `RevertPosts` | `refund_deposit`, `revert()`: it locks the row, chooses the wallet or a debt by an unlocked balance, then posts what there is to revert, if anything, and the status |
| `SaveForm` | `save_model` |
| `RecoveryAsked`, `VerifyReads`, `VerifySaves`, `RejectRecovery`, `CreateTransfer` | `DepositRecoveryRequest`; `verify` saves PENDING over whatever the status is by then |
| `SaveRecoveryForm` | the form of `DepositRecoveryRequestAdmin`, which lets managers save any status |
| `Spend` | whatever else the customer does with coins |
| `ClearReads`, `ClearPosts` | `clear_debt` and `auto_clear_debts`: an amount computed from two unlocked balances, then moved |

Two history variables name what the code does not protect: `overruled`, rows whose status the
form changed, and `overtaken`, recoveries that were verified when their status had changed or that
the form opened again. One thing no property claims: a recovery and a later callback for the same
hash are different rows and groups, and both are credited, for `verify` looks for an existing
transfer only once.

Left out: a deposit is a transfer on a chain and has a row of its own, while the lookup is by
network, hash and address, so a second transfer of one hash to one address is taken for a repeat of
the first and not credited; and a row made DONE again by the form after it was refunded, whose
second revert may be paid from the other of the two wallets.

### OtcTrade

`OtcTrade.tla` is trades with the exchange itself. State: the `OTCTrade` row (`status`, `hedged`,
the market it is hedged in), its `funds`, the asset of its request, whether that request has
expired, and what each handler in progress has listed, seen of the locks, summed and been answered.

| Action | Code |
|---|---|
| `Request` | the row and its hold; a market trade goes on in the same request |
| `Pause` | the staff turn `Asset.hedge` off, perhaps for a while |
| `Expires` | the request's token, or its gtd, runs out |
| `CancelLists`, `TriggerLists`, `ExpireLists`, `RetryLists`, `StaffLists` | what the customer, the price trigger, `handle_expired`, the retry task and the staff set about, read without locks |
| `Release` | `release_lock`, which reads the lock rows; a market trade whose token ran out is rejected instead |
| `Close` | `reject`, `cancel_trade`, `handle_expired` write and commit |
| `Fill` | `try_fok_fill` in the exchange's market, then `accept()`; or rejected |
| `Order`, `Refused`, `Settle` | `hedge_with_provider`: the row is written, the unhedged amounts of its asset are summed and the provider asked, if the asset is hedged; its answer; if an order was taken, or the asset is not hedged, every trade of the asset then DONE and unhedged is marked |
| `Revert` | the staff's `revert` |
| `Undone` | an exception, a lost answer, a constraint, the death of the process |

No handler looks at the status when it writes it. What stops two of them is the lock: the amount a
handler read of it is subtracted at the end of its transaction, where the CHECK constraint of
`BalanceLock` refuses the second. A handler that came so late that it read a released lock is not
stopped; `outdated` are the trades one of those set about, which may then be charged although the
hold was given back (and the customer can pay), or closed although charged. `slipped` are trades
that became DONE while an order was being placed and were marked hedged by it. Trades of an asset
that is not hedged are marked without any order, so `HedgedWasOrdered` is about the assets that were
hedged all along: what happens to others must not mark theirs. One thing no property claims: a crash
leaves a market trade that is hedged in the exchange's own market PENDING for ever, as the retry
task takes only those of the provider. A handler that waits for a row is assumed to die no sooner
than it could have the row.

### FiatWithdraw

`FiatWithdraw.tla` is withdrawals to a bank account. State: the `FiatWithdrawRequest` row
(`status`, `ref_id`, `gateway`, whether it was sent in the last ten minutes), its `funds`, its
freeze time, what the provider has made of it, and for each handler its copy of the row.

| Action | Code |
|---|---|
| `Create`, `Start` | the view: row and hold, then PROCESS if `auto_verify_fiat_withdraw` finds no risk |
| `FreezeEnds`, `RecentEnds` | time |
| `DestroyReads`, `RejectReads`, `Cancel` | the customer's and the staff's cancellation: a check on a copy, then `change_status` |
| `AcceptManualReads`, `AcceptManual`, `RefundReads`, `Refund`, `StaffMoves` | the actions of the admin |
| `FormReads`, `SaveForm` | the admin's form: `clean()` calls `change_status`, the copy is saved over the row |
| `Dispatch`, `Lock`, `Takes`, `Answer`, `ProviderRefuses`, `AnswerLost` | `process_withdraw`, which asks the provider with the row locked |
| `ProviderPays` (external) | the provider pays, or fails to |
| `UpdateReads`, `Poll`, `Update` | `update_withdraw_status` |
| `Dies` | a request or task ends before it writes; also the rest of `update_withdraw_status`'s list after an exception for one of its rows |

`disputed` are the rows on which somebody acted by a copy that was outdated, or that were moved to
another gateway after the first had been asked or paid: two gateways may pay those (a lost answer,
then another gateway), and they may never end. `late` are the rows that somebody canceled after the
provider was asked, having decided so before (the check of the freeze time was made on an older
copy), or took back to INIT by an older copy of the form, where they can be canceled. Only the
amounts of those are freed when the provider has taken them (`PaidCovered`). A row that was refunded
may have its status written back by an older copy, its funds not.

The provider is assumed to know a withdrawal by the number it is asked with: it takes it once, also
when it is asked again, and says that it is canceled only of what it has failed to pay or never
took. It may refuse a request at any time (`ProviderRefuses`), which changes neither status nor
funds.

### StopLoss

`StopLoss.tla` is stop-losses and OCO orders that sell, triggered inside a match. State: the
`StopLoss` row, the OCO's order (`leg`), the orders a stop-loss placed and the lock they share;
the transaction under the symbol's lock, with the stack of nested calls of `StopLoss.trigger`
(`frames`), each with its cached list; what that transaction has written and others do not see yet
(`kept`); and the requests to cancel.

| Action | Code |
|---|---|
| `CreateStop`, `Enter`, `CreatePair` | creation of a stop-loss; an order is submitted and gets the symbol; an OCO's, with its rows |
| `Match` | a resting order is traded with; what that triggers comes next |
| `List`, `CancelLeg`, `Place`, `Save`, `Return` | `trigger`: the list is read, and for each stop-loss the other half is canceled, its order placed and matched (which triggers others), its `filled_amount` saved |
| `Commit`, `Fails` | the end of the pipeline, with its CHECK constraints; or everything is rolled back |
| `Close` | the `finally` block that cancels MARKET stop-losses that were not filled, or the process dies before it |
| `Ask`, `Mark`, `ReadLeg`, `WriteLeg`, `Plan`, `Release`, `CancelPlaced`, `End`, `CancelLegOrder`, `Drops` | cancellation of a stop-loss or of the leg, and `DELETE`, up to the symbol's lock that only some of them take: not one whose order was no longer NEW when it was read (`End`) |

A stop-loss has a `fill_type`, which decides whether what was not filled is canceled at the end, and
perhaps a price (`priced`), which decides the kind of its orders; the API takes a MARKET one with a
price too. Which stop-losses a price triggers is left open. Two things exempt a stop-loss from some
properties: it was canceled while a trade was at work on it (`raced`), or a list's cached copy
triggered it again (`Twice`). In those cases a resting order may lack its funds, and then every
order that matches it is rolled back until somebody cancels it. Other behaviour the model shows and
no property forbids: the `finally` block cancels also when the transaction was rolled back, which
the comment at `stop_loss.py:112` does not expect, and a crash before it leaves a partly filled
MARKET stop-loss open without a lock; the order of a triggered OCO cannot be canceled, because
`(group_id, status)` is unique and its leg is CANCELED already; `cancel_another` may write CANCELED
over a leg that was filled. The deadlock between a cancellation, which holds the row and waits for
the symbol, and a match is PostgreSQL's to break (`Fails`, `Drops`).

Left out: the buying side (`releasable_lock`, overriding amounts), bulk cancellation, `DELETE` of
an OCO (it writes only `canceled_at`), `PUT` and `PATCH` of the view sets, and the missing-locks
task for stop-losses.

**Finding** (`stop_loss_twice`). A trade triggers two stop-losses; the order of the first triggers
the second, a MARKET one, which sells part of its amount; then the first list reaches its own copy
of the second, read before, and sells the whole amount again. `release_lock` of a MARKET order
releases exactly what the lock row holds, so no constraint notices: a customer who has other free
funds sells more than the stop-loss's amount, which the `todo` at `stop_loss.py:125` wants
constrained. A stop-loss with a price releases a computed amount and is stopped by the CHECK
constraint, together with the whole match.

## 3. Runs

| Run | Instance | What it shows |
|---|---|---|
| `wallet_pipeline` | 3 wallets (one unchecked), 2 keys (one with a committed lock), 2 transactions of 2 and 1 operations, amounts 1 and 2; 446 thousand states, with liveness | `Solvent`, `LockedIsBacked`, `NoWaitCycle`; the pipeline implements `Ledger`; whatever is entered ends, without the deadlock detector |
| `book_matching` | 3 accounts, 10 kinds of ticket, 3 orders, one bulk cancel and the janitor; 352 thousand states | funding, priority, price protection, fills, times in force |
| `book_cancel` | 3 orders (the third only while no customer's request is in progress), 2 cancel requests, bulk, the janitor; 34 thousand states, with liveness | cancellations are final, complete, and end although they may deadlock; the dust of filled orders is returned |
| `withdraw_ledger` | 1 withdrawal, 2 workers, 2 cancel requests, 2 callbacks, 2 saves of the form, and the receiver's row; 31 thousand states | row, funds and requests agree; outcomes are final; implements `Settlement` |
| `withdraw_answers` | 1 withdrawal, 2 workers, 2 callbacks, 2 saves, no cancel requests; 14 thousand states, with liveness | what blocklink pays is held or charged; what is due is asked for until it is answered |
| `withdraw_late` | 1 of each, no save | violated: the finding of `CryptoWithdraw` |
| `deposit` | 1 deposit and 1 recovery, 2 callbacks, 1 member of the staff, 2 runs of `clear_debt`, 1 save of either form, 1 coin spent; 197 thousand states, with liveness | row and journal agree, credited once, debts only of spent coins; implements `Settlement`; final deposits are taken, debts collected |
| `otc` | a limit and a market trade, 2 assets, 2 handlers; 3.0 million states | held while PENDING, the status is true, hedged trades of a hedged asset were ordered; implements `Settlement` |
| `otc_ends` | the same with 1 asset, either trade being requested; 11 thousand states, with liveness | expired and retried trades end |
| `fiat` | 1 withdrawal, 2 handlers; 184 thousand states, with liveness | the row is true, what the provider pays is covered; implements `Settlement`; accepted withdrawals end |
| `stop_loss` | an OCO and a stop-loss of 2 units each, at most 2 orders placed by each, 1 request to cancel; 561 thousand states | nothing is sold twice, `filled_amount` is true, open orders are funded |
| `stop_loss_twice` | 2 stop-losses, no cancellation | violated: the finding of `StopLoss` |

Why the bounds are enough. Two pipelines are what a race over a row, a stale lock read and a
wait cycle need; the one with two operations touches two rows, or one lock twice. The opening
state has a committed lock that either may release, and balances that amounts 1 and 2 can
overdraw. Three orders let one order be filled in two parts and one taker sweep two price
levels, or meet two makers at one level; the tickets have every side, type and time in force,
one account that can only afford 95% of a market order (where the amount it may buy rounds to
none), and prices one of which leaves rounding dust with `Unit = 3`. Two cancel requests and a
bulk one are the parties of every insert race and of the deadlock.

Withdrawals and deposits do not read each other's rows: what matters is how many handlers meet on
one of them, and two of a kind, with a request that was given up still on its way, is what a race
needs. `withdraw_answers` leaves out cancel requests because with them `PaymentsCovered` is false,
as the finding shows; that they are the only hole is a theorem. In `deposit` one member of the staff
leaves out the races of two of them; the theorems of section 4 are about any number of each
party. OTC trades meet in the sum that hedges them, so there are two, of one asset or of two, one of
which may stop being hedged; assets and handlers are symmetric. A stop-loss of two units can
be filled in parts, by its leg or by two orders; nesting needs a second one that the first one's
trades trigger, and whose trades trigger the first. One request to cancel keeps `stop_loss` small;
the theorems are about any number of them. Deadlock checking is off
because the bounded systems do stop: transactions, orders, requests and saves are used up.

Every property has a mutant: a plausible bug, written beside the definition it replaces, with
which TLC finds that property violated.

### Fairness

`WalletPipeline!FairSpec`: weak fairness of leaving the body and of executing. A pipeline is
straight-line code; nothing obliges one to start or crash. That weak fairness suffices is the
point: no pipeline depends on PostgreSQL's deadlock detector.

`OrderBook!FairSpec`: strong fairness of each submission, each cancel request and the bulk
cancellation, because they wait for row locks that are taken again and again by others, and
PostgreSQL queues the waiters of a row; weak fairness of the deadlock detector, which runs
after one second of waiting, and of the janitor, which celery beat starts every 15 seconds. A
janitor whose worker dies is restarted by the next beat, and is not modelled as a step of its
own.

`CryptoWithdraw!FairSpec`: weak fairness of the scheduler, of time and of the end of each request
(it has a timeout); strong fairness of a queued task being worked on and of a conclusive answer,
that is, tasks are not lost, withdrawals not banned and blocklink not down for ever.

`CryptoDeposit!FairSpec`: weak fairness of the end of each callback, refund and run of
`clear_debt` (which celery beat repeats every minute); strong fairness of a report of DONE coming
in and being applied: blocklink repeats what was not acknowledged, and not every callback dies.

`OtcTrade!FairSpec`: weak fairness of a handler coming to its end, well or undone; strong fairness
of each step of the two tasks that celery beat repeats, expiry and retry: not every run of them
fails, and not every one at the same step.

`FiatWithdraw!FairSpec`: the same for its handlers and for the two tasks that ask and follow up,
where the worker's question and the answer to it are one fair step, whichever of the two it is; weak
fairness of time and of the provider, which pays or fails in the end. This is more than celery gives
by itself in one respect: `update_withdraw_status` (`financial/tasks/withdraw.py:28`) goes through
its rows without catching the exception of any, so one row whose provider always fails, or is not
known, keeps the rows after it from being followed up, every time. `Dies` has that for one run of
the task; that it is not so for ever is an assumption of `AcceptedEnds`.

`StopLoss` states no fairness: its properties are safety only.

## 4. Proofs

`WalletPipelineProofs.tla` proves, for every finite set of wallets, keys and transactions, every
set of groups and amounts and every opening state that satisfies the constraints (the
assumptions `ConstantsAssumption`, `OpeningAssumption` and `LedgerAssumption` of the module, which
TLC evaluates in the run):

- `TypeCorrect`: `Spec => []TypeOK`;
- `AlwaysSolvent`: `Spec => []Solvent`;
- `NeverDeadlocked`: `Spec => []NoWaitCycle`;
- `LockedAlwaysBacked`: `Spec => []LockedIsBacked`;
- `PipelineImplementsLedger`: `Spec => ImplementsLedger`, the refinement of `Ledger`.

`Solvent` is not inductive: that a commit keeps it depends on the checks made row by row, steps
earlier, on rows that others could have changed. The invariant that is inductive adds
`HeldRowsChecked`: whoever holds a row is executing, *has* something to write to it, and its
update of the row still passes the row's constraint. It is preserved because only the holder of
a row can commit a change to it, and the buffers do not change after the body. The lemma
`CommitEffect` says that a commit changes only rows its transaction holds; with it, each action
is one step of the proof.

`NoWaitCycle` needs a second invariant, that a pipeline holds only rows that come before every
row it still has to write (lock rows before wallets, each in the order of keys). In a set of
transactions that all wait for each other, take the one waiting for the greatest row: its holder
waits too, for a row that would have to be greater still. The existence of a greatest element of
a finite set of integers is proved from the library's facts on finite sets.

`LockedIsBacked` and the refinement rest on what a pipeline has buffered explaining itself
(`AllAccounted`): the change of a wallet's `locked` is the sum of the lock rows the buffers create
and release, the change of its `balance` the sum of the entries they will insert. A release is
computed from a lock row that may change before it is written, but never changes its wallet. At a
commit the buffers become the rows, and the two sums become the ledger's own. `LedgerAssumption`
says that `locked` was such a sum when the first of these transactions began, and that groups are
finite.

`SumTheorems.tla` has the facts about `SumFunctionOnSet` that these proofs, and those of
`OrderBook` and of `StopLoss`, cite: its recursion, adding, removing and changing an element, sums
of sums, bounds, renaming. The sum is defined by recursion, and no prover here can use an
induction theorem; each induction is a choice of a smallest counterexample instead, from the
well-foundedness of inclusion among the subsets of a finite set (`MinimalSubset`).

`OrderBookProofs.tla` proves, for any accounts, tickets, number of orders and requests
(`BookAssumption`, which has the serializer's check that a limit order's price is positive):

- `RequestedNeverOpen`: `Spec => []RequestedIsClosed`;
- `ClosedStaysFinal`: `Spec => ClosedIsFinal`;
- `PriceAlwaysProtected`: `Spec => []PriceProtected`;
- `OrdersAlwaysBacked`: `Spec => []LockBacksOrder`;
- `BookNeverCrossed`: `Spec => []BookNotCrossed`;
- `FilledAlwaysTraded`: `Spec => []FilledIsTraded`;
- `TimeInForceAlwaysKept`: `Spec => []TimeInForceKept`;
- `BestAlwaysFirst`: `Spec => BestFirst`;
- `FreeFundsAlwaysKept`: `Spec => FreeFundsKept`.

The first three need `Inv`, which says what the holder of the symbol may rely on: the makers it has
matched stay open and cross it (`Matching`), because nobody else writes rows while it holds the
symbol; and that whoever is about to write a cancel request has closed, or found closed, its order
(`Cancels`, `Bulks`). `Updated` says what any step may do to rows at all, and `ClosedIsFinal`
follows from it.

The others are about amounts, and need `BookInv` too. `FilledOk` and `LockOk` tie a row to its
trades and to its lock, the latter from both sides: each match may leave less than a `Unit` on a
lock by rounding, so a filled order keeps less than a `Unit` for each of its trades, and an open
one has enough. `MatchingOk` is the same half-way through `make_match`: what was taken and what is
left make up the order, makers that come before a taken one are used up, and for a FOK order the
makers left can still fill it. `BestFirst` and `TimeInForceKept` are read off it at the commit, and
so is that the book is not crossed: a taker that rests has nobody left to cross. The arithmetic of
rounding is three lemmas about remainders. `Sweeping` is the janitor's part: the locks it is
about to release are those of closed orders, which stay closed.

`CryptoWithdrawProofs.tla` proves, for any sets of withdrawals, workers, cancel requests and
callbacks and any number of saves (assumption `WithdrawAssumption`):

- `TypeCorrect`, `LedgerAlwaysMatches` (`LedgerMatchesStatus`), `AskedAlwaysHeld`
  (`AskedWhileHeld`), `OutcomeAlwaysFinal` (`OutcomeIsFinal`), and `WithdrawalsSettled`: it
  implements `Settlement`.

None of them is inductive alone. The worker writes PENDING without looking at the row again, so
that row and ledger still agree depends on `AskedWhileHeld`; that in turn needs the agreement
when the worker locks the row. The inductive invariant is their conjunction with `RowsExist`:
whatever row a request has read exists, and `ReceiversAgree`: what is reverted is what the refund of
a receiver's row reverted. Each handler that decides under the row lock has a lemma
(`AcceptKeeps`, `RejectKeeps`, `MarkPendingKeeps`) that says what it does to one row, and
`RowStep` says that a handler that writes one row which no worker has locked disturbs nothing
else.

`PaymentsCovered` is false of the code, by the finding. Two theorems say how far:

- `PaymentsAlwaysCovered`: if there are no cancel requests (`Cancellers = {}`, as in
  `withdraw_answers`), `Spec => []PaymentsCovered`;
- `OnlyCancellationUncovers`: with any number of them, a cancellation that is applied
  (`CancelApply`) is the only step, saves of the form aside, by which the amount of a withdrawal
  that blocklink pays, or may still pay, stops being held or charged.

The invariant behind both (`CoverInv`) looks ahead: a request of which the answer was lost is still
on its way, so what is in flight must be covered too, and a callback that reports CANCELED must be
about a payment that was dropped for good.

`CryptoDepositProofs.tla` (assumptions `DepositAssumption`, `NoneAssumption`) proves
`TypeCorrect`, `DoneAlwaysCredited`, `RecoveredAtMostOnce`, `DebtsAlwaysSpent` and
`DepositsSettled`. That nobody owes more than was spent is not inductive: a revert decides for a
debt and posts it when coins may have come in again. The argument counts: every credited deposit is
a coin that is in the wallet or was spent and is not owed (`Covered`), so a revert that found the
wallet empty can count on a spent coin of its own, and keeps it until it posts (`Owed`). That
`wallet` and `debt` stay in `Nat`, part of `TypeOK`, says that two runs of `clear_debt` never push
a wallet past its constraint.

`OtcTradeProofs.tla` (assumption `OtcAssumption`) proves `TypeCorrect`, `AlwaysHeldWhilePending`,
`StatusAlwaysTrue`, `HedgedAlwaysOrdered` and `TradesSettled`. The argument is what a handler saw
of the lock (`SawTrue`): a trade whose lock it saw released had left PENDING for good and is
`outdated`; one whose lock it saw held is written only if the hold is still there. For
`HedgedAlwaysOrdered` it is what a handler was answered: an order was taken for what it had summed,
or nothing of an asset that was hedged all along will be marked.

`FiatWithdrawProofs.tla` (assumption `NoneAssumption`) proves `TypeCorrect`, `StatusAlwaysTrue`,
`PaidAlwaysCovered`, `OnlyLateFrees` and `WithdrawalsSettled`. The provider is asked only with the
row locked, in PROCESS and after the freeze time, so the hold is there when it takes the withdrawal;
from then on the customer can no longer decide to cancel and the row is not INIT (`AskedLate`),
unless an older copy of the form took it back, so the staff cannot either, and only the provider's
own failure says CANCELED. `PaidAlwaysCovered` leaves out the rows that are `late`; `OnlyLateFrees`
says of all rows what that exemption amounts to: once the provider has taken a withdrawal and
not failed it, each step keeps its amount held or charged, but for the staff's refund and a
cancellation that was decided too early.

`StopLossProofs.tla` (assumptions `StopLossAssumption`, `NoneAssumption`) proves, for any
stop-losses, OCOs and requests to cancel, any amount and any depth of nested triggers:

- `SoldAlwaysOnce`: `Spec => []SoldOnce`;
- `FilledAlwaysSold`: `Spec => []FilledIsSold`;
- `OpenAlwaysFunded`: `Spec => []OpenIsFunded`.

Each stop-loss has two faces, the rows that the transaction has written so far and those that
others still see. The invariant (`IInv`, `TypesAndRows`) says the three of both: of the first with
what is due taken off the lock (`InnerOk`), of the second with the lock as it is (`KeptOk`), and
how far apart the two may be (`TiedOk`). A rollback returns to the second, a commit makes the
first the second. What keeps the first true while triggers nest is what the lists' copies can
rely on: the leg of a stop-loss in a list has left the book without a trade, or will before any
order is placed, and a stop-loss that placed no order has its whole lock unless it was canceled
meanwhile (`CopyOk`); one whose order was placed and is to be saved was copied when nothing had
been filled, if it was the first (`AtOk`). Beside the transaction, a request that has marked a row
keeps the transaction from writing it, and the transaction the request (`RequestOk`). There is one
lemma per action over three about kinds of steps: `WorkKeeps`, of what a transaction does inside;
`YieldKeeps`, of what somebody else does to one stop-loss; and `UndoKeeps`, the rollback.

Every safety property that a passing run checks is proved, `PaymentsCovered` under the condition of
its run, that there are no cancel requests. Only model-checked are the liveness
properties, which the provers cannot reach (`EnteredEnds`, `CancelsEnd`, `DustFreed`,
`EventuallyAsked`, `DebtsCollected`, `FinalIsTaken`, `PendingEnds`, `AcceptedEnds`), and the two
runs that end in a violation, which refute a property by a counterexample.

## 5. Hazards

`PROJECT.json` lists them at their lines. Those of the modelled components name the properties
that would catch them; the others say why no property covers them.

## 6. What could follow

- The buying side of stop-losses, whose lock has a part that may be released (`releasable_lock`).
- Nested pipelines: `WalletPipeline` with an inner exit that writes its rows early, for
  `NoWaitCycle` as a statement about the whole transaction.
- Fiat payments, reserve wallets and staking as further implementations of `Settlement`. The
  key that credits a payment once is `Trx`'s alone: `get_or_create_payment` has no unique key on
  the group, and a second row makes the query of `handle_missing_payments`
  (`financial/tasks/gateway.py:24`) fail for all.
- Positions, liquidation and interest, over a model of prices.

## 7. Not modelled

The models cover a small share of the repository, because little of it decides
about money under concurrency. Most of the rest is the admin site, views and serializers, KYC,
reporting, and the clients of banks, gateways, exchanges and message providers:

- request handling, KYC, reporting, analytics and content (`accounts`, `accounting`, `analytics`,
  `marketing`, `search`, `multimedia`, `health`): no state that the components above depend on;
- display caches (`update_market_redis.py`, `socket_handler.py`): they only project the book; that
  their write may fail last in a pipeline is part of `WalletPipeline`;
- prices and hedging: HTTP and redis reads; what they decide is left open in `OtcTrade` and
  `StopLoss`;
- margin positions: equity, interest and liquidation follow prices and ratios, which a small
  instance of integers does not represent faithfully;
- staking, reserve wallets, prizes and token operations: one pipeline per operation, covered in
  kind by `WalletPipeline`, or moved by hand by the staff;
- fiat payments: see section 6.
