# Verification of the exchange

TLA+ models of the exchange in `src/`, the TLC runs that check them on small
instances, and theorems about them proved with TLAPS. The modules follow the
source; `PROJECT.json` (`map`) names the lines that each definition stands for.

1. [The system](#1-the-system)
2. [Modules](#2-modules)
3. [Runs](#3-runs)
4. [Proofs](#4-proofs)
5. [Where the code and its comments disagree](#5-where-the-code-and-its-comments-disagree)
6. [What is left out](#6-what-is-left-out)
7. [Plan](#7-plan)

## 1. The system

The binary `cmd/api-gateway` runs the HTTP gateway, the order service, the
matching engine, market data and a wallet service in one process. They share
an in-memory event bus whose `Publish` is a synchronous call. Settlement, users,
wallet and the blockchain monitor are processes of their own, on a Redis or a
Kafka bus. PostgreSQL holds users, accounts, orders, trades, addresses and deposits.

| Component | State | Operations | Hard behaviour | What makes it correct |
|---|---|---|---|---|
| Order book (`matching/orderbook.go`, `matcher.go`) | sorted price levels, a FIFO queue and a cached volume per level, orders shared by pointer | match, insert, cancel, FOK check | levels and volumes are kept up to date by different functions; nothing checks the invariants they rely on | sorted, uncrossed book; exact volumes; price-time priority; no overfill; final orders stay final |
| Engine shards (`matching/engine.go`) | map of shards under a lock, a bounded channel and a goroutine per shard, a reply channel per request | PlaceOrder, CancelOrder, AddSymbol, RemoveSymbol, Stop | calls give up while queued; shards end while calls hold them; two closers of one channel | requests are taken up once, in program order, and answered truly; a shard never blocks on an answer; calls return |
| Order service (`order/`) | accounts (balance, frozen), orders table, a call's local variables | PlaceOrder, CancelOrder, lists | statements are separate and fail one by one when the request's context ends; the service reads an order that the shard is changing | what is in the engine is covered by what is frozen, and what is frozen is given back |
| Settlement (`settlement/`) | accounts, trades, fees | SettleTrade on `trade.executed` | row locks of five accounts in the order of the roles, one transaction | no money created, no lock left, no trace of a failed settlement |
| Wallet service (`wallet/`) | addresses, an index per user in memory, deposits, withdrawals, accounts | GenerateDepositAddress, ProcessDeposit, RequestWithdrawal | restarts forget the index; two events for a deposit; withdrawals race with freezes | an address belongs to whom it was given; each deposit is credited once; no overdraft |
| Blockchain monitor (`blockchain/`) | watched addresses and the last scanned block, in memory | scan, publish | nodes that lag, answer 0 or fail; restarts | in one life, no block between start and head is left out |
| Event buses (`events/`) | subscribers, consumer groups, offsets | Publish, Subscribe, Close | crash between handling and commit, loss, messages that are no events | what each consumer may assume |
| Risk controls (`risk/`) | maps under a mutex, clocks | CheckPrice, Resume, Validate, blacklists | the day of a limit begins when someone asks; two ways to end a halt | limits hold over time |
| Rate limiter (`gateway/middleware/ratelimit.go`) | a token bucket per key | allow, cleanup | a bucket is removed between lookup and use | a key passes no more than its rate, but for what removed buckets let through |
| Margin (`trading/margin`) | positions, mark prices | open, mark, liquidate, funding | rounding of the liquidation price | no liquidation at a gain, nobody below the maintenance margin after a check |
| Cold wallet (`wallet/cold`) | signing requests | initiate, sign, mark, sweep | signatures after expiry or after enough | what is ready has its signatures, in time |
| Users and KYC (`user/`, `kyc/`) | users, accounts, tokens, applications | register, login, status, submit, review | several statements without a transaction; the status is read before the slow check of the password | one user per e-mail, whole or refused; tokens only for who was active |
| Gateway and gRPC servers (`gateway/`, `grpc/`) | none but the request's context | every route and RPC | which layer compares the owner | a request acts and sees in its user's name |
| Market data (`marketdata/`) | a Redis list per symbol | record, list | several recorders, pipelines of two commands | the newest trades without a gap |
| Decimal (`common/decimal`) | none | parse, print, arithmetic with 18 digits | rounding | what is stored is read back; what is written is what is meant |

Interaction: a handler calls `order.Service`, which freezes money by SQL, inserts
the order, sends it to the shard through `Engine.PlaceOrder` and waits; the
shard matches, puts what is left into its book, publishes events and answers;
the service releases money and updates the row. `CancelOrder` reads the row,
asks the shard, releases and updates. Every step is under the context of the
HTTP request, which chi ends after 30 seconds (`gateway/router.go:33`) or when
the client goes away. The monitor publishes deposits for the wallet service, the
engine trades for settlement and market data. Wallet, settlement and order
service meet in the accounts table only.

The hazards of this code, each at its line with the properties that watch it,
are listed in `PROJECT.json`.

## 2. Modules

| Module | Models | Role |
|---|---|---|
| `OrderBook` | orderbook.go, matcher.go, `processOrder` | detailed specification of one shard's book |
| `PriceTimeBook` | nothing in particular | abstract: one list per side in price-time priority |
| `OrderLife` | the engine, one order at a time | abstract: the contract between engine and order service |
| `OrderBookRefinement` | | `OrderBook` implements `PriceTimeBook` and `OrderLife` |
| `OrderBookProofs` | | theorems about `OrderBook` and `OrderBookRefinement` |
| `MatchingEngine` | engine.go: `Engine`, `shard.run`, calls | how requests reach a shard and answers come back |
| `OrderService` | order/service.go, validator.go, balance_provider.go, repository.go | PlaceOrder and CancelOrder over accounts, orders and the engine |
| `Accounts` | the tables that hold money, transactions and row locks | extended by the next two |
| `Wallet`, `Settlement` | wallet/service.go; settlement/ | one step per statement |
| `Ledger` | | composition of wallet, settlement and freezing over one accounts table; the server's deadlock detection |
| `DepositAddresses` | GenerateDepositAddress, hdwallet.go | addresses over restarts and two processes |
| `Scanner` | ethereum/scanner.go, cmd/blockchain-monitor | the monitor |
| `EventBus` | kafka_bus.go, redis_bus.go, the in-memory bus | delivery of one topic to one group |
| `Clock` | | time, for the next four |
| `RateLimiter`, `CircuitBreaker`, `WithdrawalLimits`, `MultiSig` | the files of these names | one machine each |
| `Decimal`, `Amounts` | decimal.go | the arithmetic; an amount from request to database and back |
| `Margin` | trading/margin/engine.go | positions and their liquidation, with `Decimal` |
| `MarketData` | marketdata/service.go | the recent trades of a symbol |
| `Kyc` | kyc/service.go | applications and reviews |
| `Users`, `Gateway` | user/, gateway/, grpc/ | registration, login and tokens; requests in a user's name |
| `UserAccess` | | composition of users, gateway and KYC |
| `SumTheorems` | | sums over finite sets: what every module that adds up needs |
| `LedgerProofs`, `WalletProofs`, `AccessProofs`, `TradingProofs`, `MatchingEngineProofs`, `OrderServiceProofs` | | theorems, see section 4 |
| `MCOrderBook`, `MCMatchingEngine`, `MCOrderService`, `MCLedger`, `MCComponents` | | constants for TLC |

### OrderBook

`order[id]` is the `Order` struct, `book[side]` the slice of levels (best first)
with `price`, `queue` (the linked list) and `volume` (the cached sum). `phase`
and `taker` say where the shard goroutine is. `Submit` is `processOrder` up to
`MatchOrder`, with its two rejections; `Match` is one iteration of the loop of
`matchBuy` or `matchSell`; `FinishMatch` the rest of `MatchOrder` and the
publication of its trades; `AddToBook` is `addBid`/`addAsk`, a step of its own
because `ob.mu` is released in between, so readers see the book without the order;
`CancelOrder` is the method of that name. The two sides are one text with
`Opposite` and `Better`. Quantities and prices are naturals: the validator
accepts multiples of a step and a tick, and the book only compares, adds and
subtracts them. `sort.Search` is modelled by its contract, the first index at
which the predicate holds.

### MatchingEngine

A call is a `PlaceOrder` or a `CancelOrder` of the engine and goes through
`Lookup` (under the read lock), `Enqueue` (first `select`), `TakeReply` (second
`select`); `GiveUp` is the `ctx.Done` case of either, possible from the moment
the context ends, also when the other case is ready. `Expire` ends a context.
`Receive`, `Process`, `Answer` and `Exit` are the goroutine. `RemoveSymbol`
deletes under the lock and closes `stopCh` after it, hence `CloseRemoved`. The
book is reduced to the set of resting orders: an order may take out any of them
and may come to rest. `log` and `before` are history variables for the
properties.

### OrderService

Every SQL statement is a step, and so is every read of the order that
PlaceOrder shares with the shard (`Count` is `remaining.Remaining()`, `Judge`
the reads of `remaining.Status`; the code reads the status twice in a row, and
because an open order can only become final, every pair of values that the two
reads can see gives a verdict that one read gives too). `Move` is the
conditional update of `FreezeBalance` and `UnfreezeBalance`. A statement under an ended
context has no effect (pgx does not start it); one that is in progress when the
context ends may have been carried out although it reports an error (second
alternative of `Freeze`, `Create` and `SaveCancelled`; where the error is ignored the same
outcome is an `Expire` right after the step). The engine's steps are the
actions of `OrderLife`, so the service is checked against every engine that
keeps the contract, and `OrderBookRefinement` shows that the book keeps it.
`Known` says which orders a user can name in a cancellation: ids are random,
and a user sees one in the response or in the list of open orders only.
`held[p]` is a history variable: what was frozen for order p and not released.

### Ledger

`row` is the committed value of each row of accounts, deposits and withdrawals,
and `writes[c]` what the open transaction of call c has locked or written: a
statement that needs a row in another's `writes` waits. `pc[c]` names the statement a call
is at; `Fail` is a return with an error, whose deferred `Rollback` undoes the
transaction. `Commit` may report an error for a commit that was
carried out, when the context ends meanwhile. `Read` is the `SELECT ... FOR
UPDATE` of a withdrawal with its check, `Mark` the conditional update of a deposit,
`UpdateBalance` the statements of settlement's function of that name, one step because the row is
locked from its `SELECT` on (or from the insertion of the row). `Shift` is the order service's
`FreezeBalance` or `UnfreezeBalance`, so the guarantees of `OrderService`'s SQL are
checked against the transactions of the others. `Abort` is PostgreSQL's deadlock
detection: it ends a transaction that is part of a cycle. `registered` starts with
or without the id of the fee account, which no migration inserts. `InsertTrade`
always fails, because PostgreSQL refuses the text of the statement
(`ON CONFLICT` before `VALUES`); the commit and the events behind it are unreachable.
The amount of a withdrawal is any integer: neither handler/wallet.go:73 nor
`RequestWithdrawal` compares it with zero.

### DepositAddresses

A call looks for a row, takes an index (`Index`, under `idxMu`) or a random key,
inserts and answers. `next` is lost with its process (`RestartWallet`); a
lookup that fails is taken for one that found nothing (`LookInVain`); the
answer to an insertion may be lost. Derivation is injective in account and
index and ignores the currency, as hdwallet.go does, and the table refuses an
address twice on a chain. `AskAgain` is the user, who tries again.

### Scanner

`ScanNewBlocks` is one step: a single goroutine scans, and only restarts come
between. The height of an answer is any up to the tip: nodes behind one url
differ, and one that synchronises answers 0, which is also the code's "no block
yet". `lost` are payments in blocks that could not be fetched and events that
could not be published. `since` and `tried` are history variables.

### EventBus

`transport` is chosen in the first state. For Kafka `message` is the consumer's
position and `committed` the group's offset; `Handle` and `Commit` are separate, so a
crash between them delivers again, and an error of the handler changes nothing.
For Redis `inbox` is the subscription's channel, which may lose any message.
In memory `Publish` calls the handler. One partition: with several, `LeastBytes`
(kafka_bus.go:42) spreads messages over them whatever their key, and no order between
messages is left to speak of.

### The modules with a clock

`Tick` is the passing of time; each method is one step, for it runs under the lock
of its component, except `allow` in the rate limiter, which is `Find` (under the
limiter's lock) and `Allow` (under the bucket's). `buckets` keeps the removed ones: a
server may still hold one. `granted` and `strays` (requests passed on a removed bucket)
are history variables. `CircuitBreaker`
always halts at a tenth, whatever it is constructed with (circuit_breaker.go:95).

### Decimal, Amounts, Margin

A decimal is the integer of its last place, a text a sign, a whole number and a
sequence of digits. `Places` is 18 in the code and 2 here; the arithmetic does not depend
on it. `Quotient` is `big.Int.Div`. `RoundedUp` is the loop over the digits in
`NewFromString`: digits that are all nines stay as they are. `Margin` computes
the liquidation price with these operators in the code's order; `checked`, the symbols whose
positions and mark price have not changed since their last check, is a history variable.

### Users, Gateway, Kyc, MarketData

`Users` has one step per statement of registration, login (status before
password) and status change. `Gateway` has one connection's life: limited,
authenticated, admitted, served, answered. The token is checked at admission only. The gRPC
servers (`rpc`) take the user from the message; an order of a user who does not exist is refused
by the foreign key. What a handler does
to orders and money is modelled in `OrderService` and `Wallet`; here it matters
whose it is. `Kyc` has approval as two statements, the error of the second
dropped. `MarketData` has the two commands of the pipeline as `Push` and `Trim`,
between which others push and the connection may break.

### MCComponents

These parts share no state with one another, so a behaviour of `MCComponents`
is one of a single part, which `part` names; the others rest. One run so covers the
sum of their state spaces and not the product. Every part has its own specification
(`AddressesSpec`, `ScannerSpec`, ...), and its names differ from those of the others.

## 3. Runs

| Run | Question | Result |
|---|---|---|
| `OrderBookSafety` | four orders of every type and time in force, limit orders at three prices, cancellations, leftovers at price 0 | shape of the book (`BookWellFormed`, `Uncrossed`); volumes, statuses and fills agree (`BookConsistent`); FOK and IOC (`ImmediateOrders`); each pair of orders trades once; priority; final orders |
| `OrderBookRefinement` | three such orders against `PriceTimeBook` and `OrderLife`, fair shard | both implemented; every request is answered |
| `EngineCalls` | two orders and a cancellation on one of two pairs, which are added, removed, added again and stopped | a registered shard runs and no channel is closed twice (`ShardsSound`); calls are taken up once and in order (`TrailSound`), answered truly and without blocking (`AnswersHold`) |
| `EngineLive` | an order and two cancellations, a channel of one, fair goroutines | calls whose context ended return, calls of an open shard are answered though its channel is full, removed shards end |
| `OrderFunds` | two orders of one user of every kind, cancellations by him and a stranger, no context ends | what an order holds covers what it owes (`HoldsWhatItOwes`); what the orders of a user owe together is frozen, and no more than he brought (`OrdersCovered`); a failed call and an order that ended without a trade hold nothing, a cancelled one no more than the price of what it traded (`EndedRefunded`); what can trade is listed |
| `OrderDeadlines` | two orders, two cancellations, contexts end anywhere | final rows are true (`FinalIsTrue`), no status is overwritten against the lifecycle although two calls write it |
| `Ledger` | two trades between the same users in opposite roles, a withdrawal, a freeze, a withdrawal of a negative amount, two events of one deposit | no overdraft, no money created or lost, what returned "ok" is done, every call returns |
| `Components` | the other components, one at a time | see below |
| `OrderBookLiquidity`, `OrderOversell`, `OrderMakerRefund`, `SettlementLost` | what a comment or the documentation says | violated, see section 5 |

`Components` shows:

| Property | Of | Says |
|---|---|---|
| `AnsweredIsStored` | `DepositAddresses` | an address given out is a row of its user and asset, and of no other on its chain |
| `RetrySucceeds` | `DepositAddresses` | who keeps asking is given an address, although the index starts anew and collides |
| `ScanFaithful` | `Scanner` | in one life of the monitor, until a node answers 0: every block between the beginning of the scanning and the last block was asked for, although nodes lag; a block that was not returned counts as asked for |
| `DeliveryKept` | `EventBus` | Kafka: what is committed was handled or is no event; the others deliver at most once |
| `HandledEventually` | `EventBus` | a message published to a Kafka group that has begun is handled, unless the group begins anew or is closed |
| `BurstBound` | `RateLimiter` | from the bucket in the map a key passes a full bucket and the rate over time; on removed buckets, one request for each removal and goroutine |
| `AcceptedMoves` | `CircuitBreaker` | successive accepted prices differ by less than a tenth or have the time of a halt between them |
| `DayBound` | `WithdrawalLimits` | twice the daily limit in any stretch of a day, and not more |
| `ReadyIsSigned` | `MultiSig` | a request that is ready has its shares, all given in time and none too many |
| `AmountsKept` | `Amounts` | what is stored is read back; a request's text is rounded to the last place, except where rounding would carry into the whole number |
| `PositionsKept` | `Margin` | positions leave by liquidation only, never at a gain; after a check none of those that stay is below its maintenance margin, for leverages up to 1 / (2 mmr) |
| `TradesRecent` | `MarketData` | the list is the newest trades without a gap; answers are the newest of their moment |
| `AccessSound` | `Users`, `Gateway`, `Kyc` | registrations are whole or refused, requests act and see for a user who was active at login, an approved user is raised unless that statement was lost |

**Bounds.** Three or four orders are enough for a level of two orders with a
third that trades with both or is cancelled between them; three prices for a
level that is inserted between two; sizes 1, 2 and 3 for partial fills
on either side. In the engine two shards let a pair be removed and added
again while calls still hold the old shard, and capacity 1 or 2 makes
senders block; the second pair competes for the shards. In the order service the
quantity 3 has room for a fill at
once, one during the answer and a rest, and the deposit pays for one large order
and not for two. Where orders and shards are interchangeable the cfg declares
symmetry; the runs with liveness properties do not. Every instance is finite
without a state constraint: each id is used once.

In `Ledger` the two trades lock the accounts of the same two users in opposite
orders; alice's balance pays for the withdrawal or the freeze, not both; bob withdraws a
negative amount; two events of one deposit race. The context of one of these events may
end (`Late`); those of settlement are the process's.
In `Components`: three askers, of whom two share a user and two a process, and
whose users share an account number, with one restart or failed lookup, so that each
kind of collision occurs; a chain of four blocks with payments of both kinds and a restart;
three messages, one of them no event, and two restarts of the consumer; two
servers and a time to live of the two units that fill a bucket, the least that
`RateAssumption` allows; prices just a tenth apart and just less; a day of two units in five; a request for
signatures by two signers with thresholds 0 and 2; all texts of up to
three digits out of 0, 4, 5 and 9 behind the point, where two are kept; two
positions at three prices, one of which divides with a remainder, and a quantity whose margin
rounds to zero, at leverages that are refused (0), just moderate (10) and the largest (125); four trades of which two are kept; a registration of one
e-mail by two calls, with one login, one connection and one order, which may be that of a user
from before (`Members`): enough for a suspension
or an expiry at any point of a login or a request, and for orders of two users.

**Deadlock** is not checked: once every id has been used and every call has
returned the models have nothing left to do. `EveryOrderAnswered`, `CallsReturn`,
`AnsweredWhileOpen`, `ShardsEnd`, `CallsEnd`, `RetrySucceeds` and
`HandledEventually` say that nothing gets stuck before.

**Fairness.** `OrderBook!FairSpec` has weak fairness of the shard goroutine's
own steps: nothing else holds `ob.mu` for long, readers release it.
`MatchingEngine!FairSpec` has weak fairness of each goroutine of a shard and of
each call that has looked up its shard, which is what the Go scheduler gives;
the choice inside a `select` is free, and so are new calls, AddSymbol,
RemoveSymbol, Stop and the end of a context. `CallsReturn` speaks of calls whose
context has ended, as every context behind the router's
`Timeout(30 * time.Second)` does; `AnsweredWhileOpen` needs no deadline.
`Ledger!FairSpec` asks only that some statement runs or some deadlock is broken as long as
one can: every call has finitely many statements. `DepositAddresses` has weak
fairness of each asker, that is of the server's goroutine and of a user who does
not give up; restarts and failed lookups are bounded and not fair. `EventBus` has
weak fairness of the consumer as a whole, whose handlers return because each of them
runs database statements or Redis commands only; publishing, closing and restarts are not fair.

## 4. Proofs

Every theorem below holds for all values of the constants that satisfy the
named assumptions: any number of orders, calls, users, accounts, shards, any
prices, any capacity. The order of each argument is the same. An inductive
invariant holds in the first state, each action keeps it (one lemma for each
action), and it implies the property that the run checks. Each
invariant was checked by TLC on the run's instance too (a module that extends the MC
module and the module with the proofs, and the cfg of the run).

| Module | Theorem | Property of the runs | Inductive invariant |
|---|---|---|---|
| `OrderBookProofs` | `InvariantHolds`, `TypeCorrect`, `BookShape`, `NeverCrossed`, `NeverOverfilled`, `TradeNamesUnique` | `TypeOK`, `BookWellFormed`, `Uncrossed`, `PairTradesOnce` | `IInv` |
| | `FinalForEver`, `PriorityKept` | `FinalIsFinal`, `PriceTimePriority` | `IInv`, before and after the step |
| | `FillInvariantHolds`, `BookAgrees`, `ImmediateOrdersHold` | `BookConsistent`, `ImmediateOrders` | `FillInv` on top of `IInv` |
| | `ServesOrders` | `ImplementsOrderLife` | `IInv`, `FillInv`, `AskedFor` |
| | `ServesInPriority` | `ImplementsPriceTime` | `IInv` and `FillInv`, before and after the step |
| `MatchingEngineProofs` | `EngineInvariant`, `ShardsAreSound`, `TrailsAreSound`, `AnswersAreTrue` | `ShardsSound`, `TrailSound`, `AnswersHold` | `EngineInv` |
| `OrderServiceProofs` | `CallInvariant`, `OrderServiceTypes`, `FinalStatusIsTrue`, `LifecycleIsRespected` | `FinalIsTrue`, `LifecycleRespected` | `CallInv` |
| | `HoldingInvariant`, `OrdersHoldWhatTheyOwe`, `OrdersAreCovered`, `EndedOrdersAreRefunded`, `OpenOrdersAreListed` | `HoldsWhatItOwes`, `OrdersCovered`, `EndedRefunded`, `OpenIsListed` | `HoldingInv` |
| `LedgerProofs` | `LedgerInvariant`, `NeverOverdrawn`, `OkMeansDone`, `LocksHold` | `NoOverdraft`, `OkIsDone` | `LedgerInv` |
| | `MoneyIsAccounted` | `MoneyAccounted` | `MoneyInv` on top of `LedgerInv` |
| `WalletProofs` | `AddressesSound`, `ScannerSound`, `BusSound`, `SigningSound` | `AnsweredIsStored`, `ScanFaithful`, `DeliveryKept`, `ReadyIsSigned` | one each |
| `TradingProofs` | `BurstIsBounded`, `MovesAreHalted`, `DaysAreBounded`, `PositionsAreKept`, `TradesAreRecent` | `BurstBound`, `AcceptedMoves`, `DayBound`, `PositionsKept`, `TradesRecent` | one each |
| | `AmountsAreKept` | `AmountsKept` | `AmountsInv`, after `FormatRead` and `ReadWell` |
| `AccessProofs` | `AccessIsSound` | `AccessSound` | `UsersInv`, `RequestsInv`, `KycInv` |
| `SumTheorems` | `SumTakes`, `SumChange`, `SumNatural`, `SumParts`, `SumUnion` | | the smallest set for which the claim would fail |

**Order book.** `IInv` adds to the properties it implies what makes them
inductive. A book is uncrossed after `AddToBook` only if the order that comes to
rest does not cross the other side: so `IInv` says of an order in phase
"resting" that the match loop stopped for it (its rest is positive and either the
facing side is empty or the price does not suit it), and that the taker is in no
queue. That an order that ignores prices rests against an empty side only
follows from the same clause. A pair of orders trades once because an iteration
of the loop finishes the maker or the taker: so `IInv` says that a maker of an
earlier trade of the current taker is filled. Sorting is preserved because
`IsInsertionPoint` splits the levels into better and not better ones.

`FillInv` is about numbers. The volume cached in a level is the sum over the orders
of its queue, and each book update changes one summand or moves one order in or
out (`ExactShrunk`, `ExactGrown`). That a fill-or-kill order is filled in full is the
longest of these arguments: `CanFillFOK` adds up cached volumes before the loop,
so the volumes must be exact, the levels that `CanFillFOK` counts must be the ones
the loop reaches, and each iteration must take as much from what is available
(`Marketable`) as from what is missing; `FOKCovered` is that bound, and when the
loop ends with nothing left to trade with, it leaves nothing missing.

`PriorityKept` relates two states. `ShapeRanks` turns `Ahead`, which speaks of
levels and places, into prices and who is before whom in a queue; every action keeps the
latter (`KeepsOrder`: a queue loses orders or gets one behind), and two resting orders at one
price on one side are in one queue, so what is known of the new queue decides their
ranks. No order is ahead of the maker of a trade (`MakerFirst`).

`ServesOrders` maps each order to its life in `OrderLife`: an order the shard is working on
counts as not answered. `Match` is the first trade of the taker, which is invisible, and
a fill of the maker, which is a step of the maker's life; `FinishMatch` and
`AddToBook` are the answer. `AskedFor`, that every known order has the type, time in force and quantity
of some request, is needed because `OrderLife` answers requests only.

`ServesInPriority` maps the levels and queues of a side to one list, `Ladder`. What the steps do to
the book (`Drop`, `AddAt`, `Consume`, positions in levels that come and go) is never followed into
the list. Instead the list is given by what is in it and in which order: `Arranges` says that a list
has each member of a set once and in the order of a relation, and two such lists are equal
(`ArrangedAlike`). The ladder of a side arranges its open orders by `Ahead` (`LaddersArranged`), before a
step and after it; a step changes the set by one order at most (`FillInv`), and `PriorityKept`'s lemmas say that the relation
stays; `Tail`, `RemoveAt` and `InsertAt` arrange the changed set too, so they are the ladder after the
step. The place of a new order is the first behind which all are worse (`PlaceExists`). `RefusalIs` shows that
`CanFillFOK`'s sum over levels and the abstract sum over orders refuse the same.

Assumptions: `NoOrder` is no id, and requests have positive quantities and
natural prices.

**Engine.** `EngineInv` says what the place of a call tells of what it knows (`CallSteps`), that a
shard's `log` and queue have each call at most once and behind every call that had returned
before it began, and that whatever a caller is told is an entry of the log of the
shard he looked up (`AnswersTold`). That the goroutine never blocks on an
answer (`NeverBlocks`) holds because the reply channel has room for one and each
call is answered once. An order whose cancellation was found is in the log already and in no book
(`FoundGone`); since the log takes a call once, it does not come back.

**Order service.** `CallInv` ties what a call has in its local variables to the
row and to the engine (`FlowInv`: what was counted is no more than what was filled, a final
row belongs to an order that has ended, of two cancellations of an order one at most takes it out).
These hold wherever contexts end, and so does the lemma `Balanced`, a sum over the orders of an
account: what it has frozen is what its orders hold, and balance and frozen together are
what was deposited.

`OrdersCovered` follows from `Balanced` and `HoldsWhatItOwes`, summand by summand
(`SumMonotone`).

`HoldsWhatItOwes`, `OrdersCovered`, `EndedRefunded` and `OpenIsListed` are proved under two
hypotheses, because the code breaks them otherwise. `Deadlines = {}` says that no context
ends: `OrderOversell` and section 5 show what a deadline between two statements does. `BuysPriced` says that market and stop-loss
buys carry no price: `Unfilled` releases price times quantity of such an order,
which was not what `Size` froze. The request set of `OrderFunds` satisfies
`BuysPriced`. Assumptions: orders and accounts have the types given in
`OrderServiceAssumption`, and the set of orders is finite.

**Ledger.** `LedgerInv` says that no row is in the writes of two transactions,
that what is written but not committed is a sound row, and what a call at each
statement has locked. `LocksHold` states that a row in someone's
writes changes in the table by the step that ends his transaction only.
`MoneyIsAccounted` follows each currency through every commit: the rows of a
settlement's commit add up to what they added up to before, a withdrawal's and a
deposit's change the sum by the amount that the other side of the equation
changes by. It needs finite sets of users, calls and deposits, and that the
fee account is no user and the currencies of a pair differ
(`LedgerAssumption`); the amounts of withdrawals have any sign.

**The other components.** `BurstBound` is a potential argument (`Budget`: what has passed and what the
bucket in the map still holds is at most a full bucket and what the rate has added), for which
an idle bucket must be full when it is removed: `RateAssumption`. Of the requests on removed buckets it counts the goroutines
that a removal finds between lookup and use (`StrayBudget`, `Caught`). `DayBound` splits a stretch
of a day at the reset that falls into it and bounds the sum over each part by the
tracker. `PositionsKept` bounds two quotients and a product that round, by
inequalities between integers: a position that is not due has lost less than the ratio of its
entry price, which leaves it at least that much of its margin when the margin is twice as large. `DeliveryKept` needs, for Kafka, that nothing between the beginning of the group and
its offset is undone; `ReadyIsSigned` that shares are appended to requests that wait and have not expired only.
The invariants and their clauses are named in the modules.

**Amounts.** `AmountsAreKept` is about the operators; its invariant only says what the column holds. `TenTo` is
proved to be what its definition says (`TenToIs`; the powers up to any n exist and agree, by a least counterexample), and
`Number` unfolds at the last digit (`NumberStep`). What holds of the first k digits is then carried
from digit to digit (`Climb`): the digits of a number below one are read as that number
(`DigitsRead`), trailing zeros go without a loss (`TrimmedRead`), so `Parse` undoes `Format`
(`FormatRead`). A longer text is the number of its first `Places` digits and a rest that its next digit
bounds from both sides (`RestRead`); `RoundedUp` adds one unless all digits are nines (`RoundedRead`);
`ReadWell` compares the two. It holds for every number of places and texts of any length, where the run has two
places and three digits. `AmountsAssumption` says that texts are texts and factors decimals.

**Sums.** The folds of the community modules are recursive functions on subsets.
`SumTheorems` shows that they exist and may be unfolded at any element, by taking a
smallest set for which this would fail. So sums over sets, for every
function, need no induction theorem.

**Only model-checked.**

- Liveness: `EveryOrderAnswered`, `CallsReturn`, `AnsweredWhileOpen`, `ShardsEnd`,
  `CallsEnd`, `RetrySucceeds`, `HandledEventually`. They need fairness and `ENABLED`.
- The properties of the violation runs, which do not hold.

## 5. Where the code and its comments disagree

Each of these is a run that TLC ends with a counterexample.

| Run | Code | What is said |
|---|---|---|
| `OrderBookLiquidity` | a leftover at price 0 makes its side look empty, and a market order is refused although orders rest there | engine.go:246 "Market order with no liquidity" |
| `OrderOversell` | the service releases the filled part, the context ends, the status update is lost; a later cancellation releases the whole quantity, out of what is frozen for another order | order/service.go:56 "prevent overselling" |
| `SettlementLost` | the insertion of the trade is refused by PostgreSQL (settlement/service.go:157), so every settlement is rolled back, also of a trade that both sides can pay | src/README.md:106 "Settlement Service ──▶ PostgreSQL (balance update)" |
| `OrderMakerRefund` | fills as a maker are never written to the row, so a cancellation releases the traded part too | order/service.go:272 "only the unfilled portion" |

As long as no context ends `NoOverselling` holds, as a part of `OrdersCovered`
(`OrderFunds`); the deadlines make the difference.

Others are visible in the definitions, without a run of their own:

- `AddToBook` has no condition on the type: leftovers of market and stop-loss
  orders rest at price 0 (engine.go:287 says "GTC limit orders").
- `Crosses` asks limit orders only for their price: stop-limit orders trade at
  once and at any price (src/README.md:49 lists them as supported).
- `Exit` may be taken while `queue[sh]` holds requests; nobody answers them, and
  a call without a deadline waits for ever (engine.go:189 "gracefully").
- `Reject` and `Save` have no effect once the context has ended: an order whose
  call timed out rests in the book with status created and is in no list of open
  orders. `OpenIsListed` holds without deadlines only.
- `Releasable` takes the branch of filled orders for a partly filled IOC order,
  whose rest then stays frozen for ever (order/service.go:157 "until cancelled").
- `CancelledRefunded` leaves out market buys: `Unfilled` is nothing for them, and what they froze
  stays frozen (order/service.go:220 "Unfreeze the balance that was locked at order placement").
- `Size` freezes nothing for a stop-loss buy, `Unfilled` releases its price times
  quantity (order/service.go:220 "that was locked at order placement").
- `UpdateBalance` takes what is paid out of the balance, although it was moved from the balance
  to the frozen balance when the order was placed, and takes it out of the frozen
  balance too (settlement/service.go:133): if settlements were committed they would take it twice.
- The trades of the gateway's engine stay on the bus in its memory (cmd/api-gateway/main.go:37):
  no other process is told of them.
- The monitor's payload has `amount` as a string and `wallet.DepositEvent` a
  `Decimal` without `UnmarshalJSON`: decoding fails, and no event of the monitor reaches
  `ProcessDeposit`. `Wallet` models ProcessDeposit for events that do.
- The monitor always publishes on Redis; a wallet service configured for Kafka does not hear it.
- A block is reported in the scan that reaches it, with as many confirmations as it has then;
  nothing reports it again when it is 12 blocks deep (config.go:99).
- `PublicAddress` writes addresses in lower case, `tx.To().Hex()` in mixed case; the
  monitor compares them as strings. `Payments` are payments to addresses that are stored as `Hex` writes them.
- Blocks that are mined while the monitor is down, that a node does not return, or that lie
  between the last block and the next height when a node has answered 0 are never scanned
  (`RestartMonitor`, `lost`, `Begin`). `ScanFaithful` does not speak of them.
- `RequestWithdrawal` takes negative amounts (wallet/service.go:245 compares the balance with amount and fee only):
  the balance grows by what is withdrawn. `MoneyAccounted` counts such a withdrawal with its sign.
- `LiquidationPrice`: the required margin is a factor of the threshold and its divisor, so the leverage cancels out,
  and every position is liquidated when the price has moved by the ratio `mmr`, half a percent.
  margin/engine.go:89 says that positions "below maintenance margin" are liquidated: a long position of
  leverage 1 goes with 99.5 % of its margin left, and one of a leverage above 100 when it has
  already fallen below its maintenance margin. `PositionsKept` therefore bounds liquidations from the late side only,
  and not for leverages above 1 / (2 mmr).
- A required margin that rounds to zero makes the entry price the liquidation price.
- `NewFromString` gives integer and fraction to `big.Int.SetString` apart, which takes a sign: "--5", "+5",
  "1.-5" and "1.+5" are numbers to it (decimal.go:53 and :79). `Texts` has plain numbers only.
- `Parse` cuts a fraction whose first 18 digits are nines, where it rounds all others
  (decimal.go:62 "instead of truncating").
- `Sign` takes several shares of one signer (multisig.go:113).
- `Approve` raises a user without an application; `GetStatus` of a pending one fails, since
  `review_notes` is NULL.
- `UpdateKYC` sets the status to active and leaves the level (grpc/user_server.go:67).
- `GetOrderRPC` shows anyone's order; the HTTP handler compares the owner.
- The limiter comes before the token, so no user is limited (src/README.md:380 "50 req/s per user").
- `CalculateFunding` has the sign of its payments reversed, and no method sets a rate.

## 6. What is left out

- Prices are natural numbers. The validator does not refuse a negative price for
  stop-limit and stop-loss orders (only limit orders have a minimum notional);
  the models say nothing about such orders.
- Torn reads: PlaceOrder reads fields of an order that the shard writes without
  a common lock. The models let it read any value that is current at that moment.
- Event publication: the gateway's only subscriber of trades appends to a Redis list.
- Engine and order service as one specification: `OrderService` lets calls be
  queued, answered late and given up as `MatchingEngine` does, but with one
  shard that never ends and no order between requests of different ids, which
  touch different orders.
- Reads that change nothing (`Snapshot`, `Spread`, `GetOrder`, lists).
- The row locks of `OrderService`: a freeze is one statement there; `Ledger` lets it wait.
- FIX sessions: used by no process, and incomplete; what is left is message parsing.
- The blacklist (three sets, each changed by one assignment), the AML checker (a constant
  set), the ClickHouse writer, the withdrawal processor, HMAC authentication and the
  gRPC servers for orders and market data: no process uses them. (`Gateway` has the handlers of these
  servers, whose services are the same.)
- Two requests for signatures in one nanosecond, which share an id.
- Logging, metrics, configuration, HTTP encoding, generated code, cryptography.

## 7. Plan

Done: the modules of section 2; every safety invariant that a passing run checks is a
theorem, and so are the action properties and the refinements of
`OrderLife` and of `PriceTimeBook`. Liveness stays with TLC.
