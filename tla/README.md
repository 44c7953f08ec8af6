# toss-sleeve in TLA+

toss-sleeve is an asyncio client of a securities broker's REST API.  Its core is a
*sleeve*: a virtual account inside a real one.  A sleeve has an allocated capital, may
spend no more cash than it has, may sell no shares but its own, and shares one ledger
between several worker processes.  These modules model that core, TLC checks it on
small instances, and TLAPS proves the parts that hold for every instance.

    tlc -config SellSide.cfg MCTossBroker      # any run: its .cfg and its MC module
    tlapm SleeveCapProofs.tla                  # also SumTheorems, SleeveLedgerProofs,
                                               # LedgerTxnProofs, TossBrokerProofs,
                                               # RateLimiterProofs, TossAuthProofs, PositionProofs

`PROJECT.json` lists components, runs, hazards, findings and theorems, and for every
definition the source lines it stands for.

## 1. Inventory

| Component | State | Operations | Modelled in |
|---|---|---|---|
| Sleeve ledger, `ledger.py` | cash per currency, reservations, order rows, last execution snapshot per order, cashflow log (SQLite tables, or dictionaries) | `reserve`, `release`, `record_order`, `reserve_sell`, `mark_order_terminal`, `apply_fill`, `record_cashflow`; reads `available`, `positions`, `client_order_id_for`, ... | `SleeveLedger`, `LedgerTxn`, `Positions` |
| Order broker, `broker.py` | `_acks` and `_oco_log`, in memory | `place`, `cancel`, `place_oco`, `positions`, `available_cash` | `TossBroker` |
| Token cache, `api/auth.py` | token in memory and in a file, the flag of `invalidate`, a lock | `token`, `_issue_token`, `invalidate`, `request_with_reauth` | `TossAuth` |
| Rate limiter, `ratelimit.py` | deque of call times, a lock | `acquire` | `RateLimiter` |
| Tick sizes, `ticks.py` | none | `tick_size`, `snap_down`, `snap_up` | `Ticks` |
| Domain types, `types.py` | none | validation of `OrderRequest`, `Fill` | constants and record sets |
| REST reads, `api/rest.py` | `_account_seq` | `_get`, `account_seq`, `order_fill`, market data | partly: `TossAuth`, `ReadFill` of `TossBroker`, `Snapshot` of `Positions` |
| Error classes, `api/constants.py` | none | parse an answer, tell a rejection from an error | partly: the replies of `TossBroker`, 401 in `TossAuth` |
| Configuration, `config.py` | none | validated once | constants |
| `tools/` | none | scripts run by hand | not modelled |

**How they interact.**  `place()` checks and writes the ledger (reservation of a BUY,
order row of a SELL), waits for the rate limiter and the token, sends the POST, and
handles the answer: it registers the order id, unwinds the ledger, or leaves everything
as it is and raises `TossAmbiguousOrderError`.  Executions never come by themselves: the
consumer polls `order_fill` and gives each cumulative snapshot to `apply_fill`, which
settles the difference to the previous one.  Workers share the ledger's database, not
their memory.  `README.md` of the repository puts duties on the consumer (reconcile an
ambiguous order, mark an order that ended); the model has them as actions.

**What is hard.**
- *Interleaving.*  Several workers check the same cash and shares, and their transactions
  run on one database; within a process every `await` lets another call run.
- *Unreliable delivery.*  After the POST, a lost request and a lost answer look the same.
- *Crash.*  A worker dies between the POST and `record_order`; its acks are gone.
- *Order of events.*  Polls are read and applied at different times, before or after
  `cancel()`, and a snapshot may be repeated, older, or corrected.
- *Retries.*  The same client order id is placed again over a row that is live.
- *Partial failure.*  A statement or a COMMIT raises in the middle of an operation, the file
  of a dead token can be neither removed nor overwritten.
- *Stale state.*  A token is dead at the server and alive in memory, in the file, and in
  headers that are already made; a snapshot has one time for executions of many.
- *Edges.*  Orders by amount have recorded quantity 0; a partial fill may use up a
  reservation; a sale settles on the day of a purchase; a call is exactly a period old.
- *Liveness.*  Cash and shares must not stay locked for an order that is over.

**What makes each part correct.**  The ledger: cash is explained by capital, cashflows
and snapshots, and no grant exceeds what is available.  The broker: no share is sold twice,
no cash spent twice, an order that may still execute stays guarded, `accepted=False`
is final, a cached ack leads to its row, an order that ended is settled in the end.  A
transaction is all of an operation or nothing of it.  The position is what was bought less
what was sold, and its average lies between the prices paid.  The token cache: a dead token
does not come back, a retry goes out with a token newer than the 401 it follows, every call
ends.  A snapped price is the best one the exchange takes.  The
limiter: no window holds more calls than allowed, and nobody waits longer than the
callers before it need.

## 2. Modules

    SumTheorems         facts about sums of a function over a finite set
    SleeveLedger        the ledger as tables and atomic operations; a caller that may do anything
      MCSleeveLedger    its instance
      SleeveLedgerProofs   EXTENDS SleeveLedger, SumTheorems
      TossBroker        EXTENDS SleeveLedger: workers, wire, exchange, consumer
        MCTossBroker    its instances, one per question
        TossBrokerProofs    EXTENDS TossBroker, SleeveLedgerProofs: one order at a time
          SleeveCapProofs     EXTENDS TossBrokerProofs: shares and cash over all orders
      LedgerTxn         INSTANCE SleeveLedger: transactions of several processes, its refinement
        MCLedgerTxn
        LedgerTxnProofs     EXTENDS LedgerTxn, SumTheorems
    Ticks               tick sizes and snapping
      Positions         EXTENDS Ticks: quantity and average cost from the snapshots, and what
                        the average snaps to
        MCPositions     its instance
        PositionProofs  EXTENDS Positions, SumTheorems
    TossAuth            the token of one process: tasks, file, server, other processes
      MCTossAuth, TossAuthProofs
    RateLimiter         the sliding window
      MCRateLimiter, RateLimiterProofs

`TossBroker` composes the broker with the ledger: its actions *are* ledger operations
conjoined with the broker's own changes, so the ledger is the same text in both.  That the
operations may be taken as atomic is what `LedgerTxn` is for.

### SleeveLedger

Each variable is a table.  `cash[cur]` is `sleeve_cash`, `reserved[c]` the row of
`sleeve_reservations`, `orders[c]` that of `sleeve_orders` with `status`, `orderId`,
`symbol`, `side`, `currency` and `qty`, `fills[o]` that of `sleeve_fills`, `flows[cur]`
the sum of `sleeve_cashflows`, and `today` what `today_func` returns.  A missing row is
`NoReservation`, `NoOrder`, `NoExecution`.

An operation is one action, since `SqliteSleeveLedger` runs it in one transaction
(`LedgerTxn` is that in detail) and `InMemorySleeveLedger` in one method without `await`.
Both classes compute the same function of the same state, so one module models both.
A call that changes nothing (`reserve` that returns False, a repeated or a regressing
snapshot in `apply_fill`, the early returns) is a stutter here and an action of
`TossBroker` where the broker reacts to it.

Money and quantities are natural numbers instead of `Decimal`, which is exact for the
sums the ledger forms.  A snapshot has the *principal* `cost` for average price times
quantity and one `fee` for commission plus tax: the code only ever uses them so.  What
the exchange reports of an order on every poll besides that (`Attr`: client order id,
symbol, side, currency) does not change from poll to poll.  Its `named` says whether the
report has the client order id at all: `order_fill` leaves it blank when it is missing
(`rest.py:209`), and then `apply_fill` settles the cash and leaves reservation and row
alone.  The exchange of `TossBroker` reports the id that it was given.

### LedgerTxn

The ledger of several processes, each with its connection, on one database.  `db` has the
committed tables, `lock` the connection with SQLite's write lock, `txn[p]` what a connection
is doing: the call with its arguments, its next statement, and its own view of the
tables.  `Program` lists what each operation reads and writes, in the order of the code;
`Executes` runs one statement, with the helpers of `SleeveLedger` on the connection's view
(`Tables(d)`).  `Begins` is `BEGIN IMMEDIATE` of the four operations that run in
`_immediate()`, and for the others the lock that their first write takes.  `Declines` is an
early return or a raised regression, `Commits` the end, `Raises` and `CommitRaises` an
exception with what the code does about it, `Dies` the end of a process, and `Midnight` may
come anywhere.

`ImplementsLedger` is `LedgerSpec` of `SleeveLedger` under the mapping of its tables to
`db`: each commit is one of its operations, everything else is a stutter.  A transaction
may decide on one day and commit on the next, and is still an operation of the day of the
commit: proceeds only become available with time, if a sale brings in no less than its
commission and tax.

### Positions and Ticks

`trades` has the executions at the exchange, one unit each, with price and time, and
`seen[o]` how many of an order's executions its last snapshot counts.  `Position` is the
loop of `_position_rows`, the basis a fraction.  `sorted` by `filled_at` and order id and a
loop over the result are a fold over the set of orders that applies the `Latest` snapshot
of a set to the position of the others: the keys are unique, so that is the same order, and
a fold over a set is what an induction over subsets can speak of.  A snapshot has the time of the last execution it counts, so the order of the
snapshots need not be that of the executions; executions of `Untimed` orders may have no
time at all.  The reference, `OneByOne`, is the moving average over the executions as they
happened.

In `Ticks` a price is a whole number of the smallest steps of a Decimal, `Cent` of them a
hundredth.  `SnapsWell` compares with the prices the exchange takes, which are stated
without the table: the multiples of a step that grows with the price.

### TossAuth

A call is one request of a client.  A client that does not know its account number makes
another one inside it, with a token and a retry of its own, after the headers of the outer
request are made: a call is a stack of frames.  An action is what a task does from one
await to the next: `TokenInMemory` and `TokenLocked` are `token()` before and under the
lock, `Issues` and `TokenIssued` the token request at the server and its answer,
`AsksAccount` and `Granted` the request inside, `Denied` a 401 invalid-token, `Invalidates`
`invalidate()`, and `Fails` whatever else ends a call: a lost request, another error, a
cancellation.  Tokens are numbered in the order of issue.  A new one may put an end to
the older ones (the choice of `old` in `NewToken`), the server may drop them all by itself
(`Kills`), and each has an `expires_at` of its own, so they expire in any order.  Other
processes get tokens, write each of theirs to the file at some time or never
(`elsewhere`), and remove the file; writing and removing may fail silently.  `buried` and
the `since` of a frame are history: the last token issued when the process, or this
request, last invalidated.

### TossBroker

A *task* is one call of `place()` or `cancel()` in the worker `Home[t]`.  It runs from one
await to the next:

| In the code | Action |
|---|---|
| guard and first ledger transaction of `place()` | `PlaceBuy`, `PlaceSell`, `PlaceRefused`, `PlaceCached` |
| slot, token, account or connection fails for certain | `SendFails` |
| the POST leaves | `Send` |
| 2xx with an order id; 409; 400/422, 401/403 or a 2xx without an id | `PlaceAccepted`; `PlaceConflict`; `PlaceUnwound` |
| `place_oco()`: the plan is logged once `place()` has an ack | `Logs`, in the actions that return one |
| read timeout, broken connection, 5xx, 429, a ledger that raises after the answer | `TimesOut` |
| `cancel()`: the request; True; False | `CancelBegins`; `CancelConfirmed`; `CancelRefused` |
| the process dies | `Crash` |

The *exchange* handles the requests on the `wire` in any order, also those nobody waits
for any more, and has at most one order per client order id, which is what
`clientOrderId` is for.  Orders trade in units, at prices within their limit, get late
fees, expire, and are cancelled.  The *consumer* polls (`ReadFill`, and any time later
`ApplyPoll`), marks orders that ended (`MarkEnded`), asks the exchange about ambiguous
ones (`Reconcile`) and moves cash (`Cashflow`).

What is assumed of the parts that are not in the repository:
- `Reconcile` asks when no request of the order is on its way, so that *absent* is final.
- The consumer does not place an order again that may be live, unless `Env` has `"retry"`.
- It withdraws no cash that is not available, and marks an order that ended once it has
  settled the last execution.
- An order trades on one day: the repository places DAY, CLS and OPG orders
  (`types.py`, `TimeInForce`).  So all its executions settle on the same day.  Otherwise
  `HardCap` would not hold: the ledger has one settlement date per order.
- The answer to an accepted order has a readable id, unless `Env` has `"blank"`, and the
  settlement date comes with the execution, unless `Env` has `"late date"` (`LateDate`: only
  an order that executed without a date gets one later).

The quirks are off where the system is shown to keep its promises and on, one at a time,
where the code is shown not to keep them (section 5); `"retry"` and `"blank"` are on
together in `retries`, whose property holds with them.
An asyncio cancellation of `place()` leaves the ledger as `TimesOut` or `Crash` does.
`CancelBegins` takes `cancel()` up to its POST in one step: nothing is read or
written before it.  `plans` has the client order ids whose plan a worker has logged; one
logged twice is there once.  `missed` is a history variable: the quantity and principal an
order had executed, not polled yet, when `cancel()` marked it.

### RateLimiter

`grants` has the time of every grant; the deque is what is left of it after the first
`popped`.  `queue` is the lock with its waiters in order (`asyncio.Lock` is fair); its first
call holds it.  `Check` is everything the holder does between two awaits: read the
clock, evict, then sleep or record the call and leave.  It may wake early or late, which
the loop in the code is there for.  `Cancelled` is a task cancelled while it waits or
sleeps.  Time is in whole ticks.  `since` and `ahead` of a waiter are history.
`prompt` is history too: no tick has gone by over a task that could go on.  `WaitBounded`
speaks of such an event loop only; `Spaced` of any.

## 3. Runs

Properties are stated with their reasons in the modules.  The broker runs and `positions` have
`CHECK_DEADLOCK FALSE`: when all orders are over the system may stop.  In the others
deadlock is checked.

| Run | Instance | Shows | States |
|---|---|---|---|
| `ledger_calls` | a BUY and a SELL (whose reports lack the client order id), two currencies, amounts 1-2, capital 2, three snapshots (partial, corrected, complete), cashflows of 1, two days; any operation at any time | `CashConserved`, `GrantsWithinCap`: whatever order the operations come in, also the wrong one | 252,960 |
| `transactions` | two processes, a BUY and a SELL of 2, a partial and a complete snapshot, a withdrawal, two days; statements raise, the COMMITs under `with self._conn` raise, processes die | `ImplementsLedger`, `RaisedLeavesNothing` | 267,400 |
| `positions` | purchases of 2 and 1 at 1994 or 2005, a sale of 2 that may lack its time, times up to 3, `Cent` 6 | `QuantityIsNet`, `AverageWithinPrices`, `AverageIsMoving`, `AverageSnaps` around the edge of a band at 2000 | 57,129 |
| `sell_side` | 2 shares held, two sales of 2, two workers, one task each, two polls under way | `NoOversell`, `LiveOrdersGuarded`, `RefusedIsFinal` under crashes, lost answers, cancellations, late polls | 116,463 |
| `cash_side` | capital 4, a share bought for 1 and its sale, a purchase of 2 at 2, trades at 1 or 2 with a fee of 1, settlement a day later, a withdrawal of 1 or 4 | `HardCap`, `ShortOnlyByFees` and `LiveOrdersGuarded` while fills in parts and below the limit use up the reservation and a sale pays for the purchase | 281,328 |
| `retries` | one sale with an exit plan, placed again and again from two workers, answers without an id | `AcksResolve`: no registration blanks the id another worker has recorded | 59,064 |
| `polling` | a purchase in two parts and one by amount with a late fee, which compete for capital 2 | `EndedOrdersSettle` under fairness | 71,336 |
| `rate_window` | 4 tasks, 2 calls in 2 ticks, 6 ticks, sleeps early and late, cancellations | `Spaced` and the size of the deque; `WaitBounded` while the loop is prompt | 1,086,239 |
| `token_cache` | 2 tasks, no account number yet, a server that issues 3 tokens, may end the older ones with a new one and drops them at any time; any one of them expires | `DeadStaysBuried`, `RetriesFresh`; `CallsEnd` under fairness | 457,182 |

**Why the bounds are enough.**  Two actors that compete for something that only one can
have is the smallest conflict, and each run has exactly that: two sales of all the shares,
two purchases of more than the cash, two connections, two tasks that meet the same 401.
Quantity 2 is the smallest with a partial execution; two reads under way are the smallest
set that can be applied in the wrong order; two workers the smallest with acks that differ;
one worker is enough where the question is about fills, because its crash loses the acks as
well.  More tasks would meet the same ledger as two: it sees one transaction at a time.
Three tokens are one that dies, the one a task replaces it by, and the one that is issued
when a second `invalidate()` discards that, or another process's; after them the server
answers 429 and calls fail.  One expiry is the newest token's before an older one's, or the
other way round.  Two purchases and a sale are the smallest position that is
opened, reduced or closed, and opened again.  In the limiter four tasks with `MaxCalls = 2`
make a queue of two full windows, and six ticks are three periods.  The bounds are
`MaxPolls`, `MaxFee`, `FlowTotal`, `Day`, `MaxTime`, `MaxTokens`, `MaxExpired`, `MaxClock`
and the finite sets.

`sell_side` exchanges workers (with their tasks) and sales (with their order ids) by
symmetry, `transactions` its connections and the limiter run its tasks; no property or
constant tells them apart.  The runs with a liveness property, `polling` and `token_cache`,
use none; in `token_cache` the tasks are interchangeable, so `CallsEnd` speaks of one.

**Fairness** (`FairBrokerSpec`).  `Resume(t)` is weakly fair, because httpx bounds every
wait and a call that gets no answer raises; the exchange handles requests (WF on the
wire).  The consumer's polling loop gives SF on `ReadFill(o)`, since reads of other
orders may disable it again and again through `MaxPolls`, and WF on applying a read of
each order, and on `MarkEnded` or `Reconcile` of each client order id.  There is no
fairness on starting a call, on trades, expiry, cancellations, crashes, cashflows or the clock: an order need not
end, but one that does is settled.  Hence `Ended(o) ~> Settled(o)`.

In `FairAuthSpec` what a running task does by itself is weakly fair, and a token request
that gets no answer fails, because httpx bounds it.  What needs the lock, `TokenLocked` and
`Invalidates`, is strongly fair: `asyncio.Lock` serves its waiters in order, though other
tasks take it in between.  Calls need not start, and nothing makes a task be cancelled, a
token expire or be dropped.

Two limits of the properties are in their text.  `HardCap` is about principal: the
code reserves price times quantity and no fee.  `ShortOnlyByFees` says what that costs: the
cash that `place()` reserves from, `available()`, does fall below 0, and by the fees of what has
settled.  `NoOversell`, `HardCap` and `ShortOnlyByFees` allow for what `missed` counts; section 5
has the run without that allowance.  In `cash_side` neither `HardCap` nor `ShortOnlyByFees`
holds without it, nor the latter without the fees: the withdrawal of 4 takes what a cancellation
gave back too early.

## 4. Proofs

The constants are arbitrary within the named assumptions of the modules,
`LedgerAssumption`, `BrokerAssumption`, `SeedAssumption`, `RateAssumption`,
`AuthAssumption`, `TickAssumption`, `PositionAssumption` and `TxnAssumption`: finite sets of
client and exchange order ids that stand for one another, arbitrary currencies, symbols,
workers and tasks, requests that `OrderRequest` lets through, orders executed before the start that the capital paid for
and whose shares the sleeve had, snapshots with natural numbers, a positive limit, period
and cent.  TLC evaluates them in every run of their modules.

Two theorems on guards, one on shares and two on cash name a hypothesis about `Env`.
`Faithful` is the repository's contract with its consumer and the exchange: nothing is
placed again that may be live, and a 2xx has a readable order id.  `Prompt` is that a
settlement date comes with its execution.  Both are true in `sell_side` and `cash_side`,
which check the same properties.  The other three theorems about the broker hold with every
quirk.  Two about transactions name `CommitsRollBack`, no COMMIT raises where the code does
not roll back, and the refinement also `SalesPay`, no execution has fees above its principal;
both are true in `transactions`.  Those about the token have no hypothesis.  Section 5 has what
happens without each of the four.

**SumTheorems.**  `SumFunctionOnSet` is a fold of the community modules.  The module
derives from its definition that a sum over a finite set is an integer, does not change
when the function agrees, changes by the difference when one value does (`SumUpdate`),
is monotone, that sums can be subtracted (`SumDifference`), and that a sum over one set is
the sum over another of what each element of it stands for (`SumReindex`): the rows and
reservations go by client order id, executions by order id.  The fold is a function on the subsets of the set, defined by recursion through
CHOOSE; that one exists is shown by induction over the subsets, ordered by strict inclusion.

**SleeveLedgerProofs.**
- `LedgerTyping`: `LedgerSpec => []LedgerTypeOK`.  Inductive as it stands.  The one
  conjunct with content is that a reservation stays in `Nat`: `apply_fill` subtracts and
  drops the row when nothing is left.
- `CashConservation`: `LedgerSpec => []CashConserved`.  Inductive together with the typing.
  Only two operations touch its terms.  `record_cashflow` moves `cash` and `flows`
  alike.  `apply_fill` moves `cash` by the difference of two snapshots and replaces one
  summand of `SettledCash` by `SumUpdate` (`FillConserves`).
- `GrantsStayWithinCap`: `LedgerSpec => GrantsWithinCap`.  Every other operation that
  leaves `fills` alone lowers or keeps what is reserved (`OnlyGrantsReserve`); for
  `reserve`, replacing the caller's row changes the total by the amount less what the caller held
  in that currency, which is what `CanReserve` allows for (`GrantKeepsCap`).

**LedgerTxnProofs.**
- `TransactionsAreOperations`: `TxnSpec => ImplementsLedger` (`CommitsRollBack`, `SalesPay`).
  The mapping of the tables is the identity on `db`; what has to be shown is that a commit is
  an operation *of the tables it finds*.  The invariant `TxnInv` says that only the connection
  with the lock runs a call (`Connected`), and that what it sees when it comes to its n-th
  statement is the committed tables with its first writes (`SeesAt`, which has them for each
  operation and n); so a commit of another would be lost, and there is none.  After its
  first statement a call also carries that its decision holds of the committed tables as they are now
  (`Decided`).  The lock keeps the tables still (`TablesStill`) but not the clock: at midnight
  `available()` changes under a `reserve()` that was decided.  `GrantOverMidnight` shows that it
  does not fall, since what a settlement day takes out of the sum is a sale's proceeds less its
  fees; this is where `SalesPay` is needed.  Then each program, run to its end, is its operation
  (`ReserveCommits`, ..., `ApplyFillCommits`), with the four writes of `apply_fill` in their
  order, each computed from the tables that the one before has left.
- `TransactionTyping`: `TxnSpec => []TxnTypeOK`, without a hypothesis.  Every single
  statement keeps the types of whatever tables it is run on (`WritesTyped`), so also those of a
  transaction that goes on with the writes of a call that raised.
- `RaisedCallsLeaveNothing`: `TxnSpec => RaisedLeavesNothing` (`CommitsRollBack`).  With the types, no open
  transaction has writes of a call that raised (`NoneRaised`): the rollback of `_immediate()` and
  of `with self._conn` ends it, and `release()`, which has none, has written nothing when its
  statement raises.

**TossBrokerProofs** argues about one order at a time.
- `BrokerTyping` and `AcksAlwaysResolve`, with every quirk allowed.  The types are not inductive by themselves: that a
  reservation stays natural needs executions that only grow, and an ack needs a row.  The
  invariant `BaseInv` adds what relates the four places that know of an order.  The exchange
  never has more of it than was ordered (`ExchangeShape`).  The ledger is behind the exchange,
  and so is every poll, in whatever order polls are applied; of two views the one with
  more shares has the higher cost (`Behind`).  A row says what was asked for (`RowMatches`).  Who
  waits for an answer has a request on the wire (`Awaited`), and the answer is true
  (`Truthful`).  What is acked or planned has a row with its order id (`Resolves`).

- `LiveOrdersStayGuarded` and `RefusalsAreFinal` (`Faithful`).  A guard is let go on six paths: an error
  before the POST, a rejection, a refusal, a confirmed cancellation, a complete fill, and the
  consumer's mark.  The invariant `GuardInv` has the reason why the order is not live on each.
  `KnownRight`: at most one `place()` of an order runs, and what the consumer believes never
  placed or refused is not at the exchange.  `SentOnce`: a request on the wire is of an order that the
  exchange does not have yet, and one that nobody waits for is known to be in doubt.
  `Unsent`: a call that is not sent yet, or was told no, has nothing on its way.

**SleeveCapProofs** has the promises of the sleeve, over all orders at once.
- `BrokerCashConservation`: `CashConserved` under the broker, with every quirk.
- `SharesNeverOversold` (`Faithful`): the availability check is over rows, the promise
  over executions that come later.  In between, `Accounted` says that what a SELL executed is
  polled, was missed by `cancel()`, or still has its open row.  `SharesCover` counts each SELL by what
  it may still sell (`Sold`), and each BUY by what the ledger has of it; it is inductive.  A new
  SELL keeps it since the check of `reserve_sell`, rewritten as a sum over orders
  (`AvailabilityByOrder`, `SellCovered`), is at most that sum; an order that ends only gives
  back; and a BUY only adds.
- `SpendingStaysCapped` (`Faithful`, `Prompt`): the same for cash.  `MoneyCovers` counts each BUY by
  what it may still cost (`Spent`) and each SELL by what has settled.  `available()` is at most
  that sum (`AvailableByOrder`, `FreeCovered`), because what a BUY may still cost is
  reserved or polled, and because the ledger has the settlement day of the exchange
  (`DatedRight`), so that it never counts proceeds as settled before they are.
- `CashShortOnlyByFees` (`Faithful`, `Prompt`): the other direction, from the exchange back to the
  ledger.  `ShortOnlyByFees` is not inductive, since an order that trades beyond what is kept for it is
  found out only by a later poll.  `CashCovers` counts each BUY by the principal it takes
  (`Takes`): what is settled and reserved, or all it has executed if that is more, less what
  `cancel()` missed.  A trade stays within what is kept for it (`LiveOrdersGuarded`), a poll moves
  principal from the reservation to the snapshot (`KeptMoves`), and what `cancel()` lets go of is
  counted as missed once, so an order that is not placed never takes more (`TakesFalls`).  A grant
  and a withdrawal look at `available()`, which is at most that sum (`AvailableCovers`); and
  that sum is at most `available()` with the fees and what was missed (`LeavesBetween`).

**RateLimiterProofs.**
- `WindowHolds`: `RateSpec => []Spaced`, and `RateTyping`.  `Spaced` alone is not
  inductive: it says nothing of the clock at which the next grant is made.  The invariant
  `RateInv` adds that no grant is in the future (`Past`), and that what was popped is a
  period old (`Expired`).  A grant is made when fewer than `MaxCalls` are left in the deque, so the
  grant `MaxCalls` before it has been popped, is a period old, and stays `Spaced`.
- `WaitsAreBounded`: `RateSpec => []WaitBounded`.  `WaitBounded` looks back, to the callers one found;
  the invariant `WaitInv` looks forward, from the place in the queue.  The i-th has `Turn(i)`
  full windows before it, and is `InTime` when as many periods from now are within its deadline, and when
  the grant as many windows and one before its own was early enough for it.  The second is what
  a tick over a sleeping holder needs: who sleeps has seen a full window (`SleepsFull`), wakes
  when the oldest call of it is a period old, and that call is not later than the one which counts
  for any place of the queue (`BeforeIs`, `Sorted`).  Who moves up a place, by a grant or
  because somebody before it was cancelled, stays in time (`MovesUp`).

**TossAuthProofs.**  Both theorems hold whether a new token ends the older ones or not, and for
any order in which tokens expire, up to the condition in the properties: a token issued since
then may expire before an older one, and if the file still has that, the process reads it.
- `DeadTokensStayBuried`: `AuthSpec => []DeadStaysBuried`, and `AuthTypeCorrect`.
  `DeadStaysBuried` says nothing of the file, which may have a dead token at any time.  The
  invariant `AuthInv` argues by the numbers of the tokens.  A token is invalidated under the
  lock and issued under it (`Issuing`), so one whose answer is on the way is newer than
  all that were there at the last `invalidate()` (`IssuedNewer`).  `Older` says why the file does
  no harm: either the flag of `invalidate()` is up and the file is not read, or the token in
  memory is newer than what was invalidated; and the file is read only when that one has
  expired, which is the condition.  `CallsOK` says that a call which waits for the request inside
  it is in `send()`, so only the first frame can be at a token request.
- `RetriesAreFresh`: `AuthSpec => []RetriesFresh`.  What has to be excluded is that a retry gets a
  token from before its 401: with its old headers, out of memory, out of the file or from a
  request of another task.  `FrameOK` ties the frames of the calls to the process: a retry
  follows an `invalidate()` of its own, which is not later than the last one of the process
  (`since <= buried`).  So what is newer than `buried` is newer than `since`, and `Older` and
  `IssuedNewer` say just that of each place a token may come from.

**PositionProofs.**  `Position` and the reference `OneByOne` are folds over sets.  That such
a fold is what its steps say is derived once: a function with these steps exists
(`FoldExists`, by induction over the size of the subsets), and its values stay where its steps
do (`FoldValues`).  After that a fact about the position is an induction over the subsets of
the snapshots, with the latest one as the step.
- `PositionInvariance` supports the others: `PositionInvariant` is about the executions and what
  the snapshots have seen of them, not about the position.  A snapshot counts executions
  that happened (`SeenHappened`), and up to any sale no more was sold than had been bought
  before it *and* been counted (`SalesCovered`).  Only the moving average needs it.
- `PositionQuantityIsNet`: `[]QuantityIsNet`.  A purchase adds its quantity and a sale takes
  all of its own, closing or not (`NetOfFold`), so the order does not matter.
- `PositionAverageWithinPrices`: `[]AverageWithinPrices`.  Every part of the fold has bought no
  less than it holds, has bought something only from purchases in it, and costs its bought
  quantity at prices within the bounds (`AverageOfFold`).  The first is why a held position is
  never averaged over 0, whatever sales the times put before their purchases.
- `PositionAverageIsMoving`: `[]AverageIsMoving`.  When no order's executions lie between another's and the
  times tell them apart, an earlier snapshot counts only earlier executions
  (`EarlierIsBefore`), so the executions one by one are those of the snapshots in blocks.  A block of a
  purchase adds its cost; one of a sale, unit by unit, multiplies the basis by a chain of
  fractions that telescopes to the one which the snapshot takes out at once (`SellBlock`).  Both then
  hold the same quantity at the same cost after every initial part (`SameBasisOfFolds`).  A sale that
  the position did not hold would break this, for the snapshot closes the position and the
  executions do not.  `SaleIsHeld` excludes it: by `SalesCovered`, what the sale takes was bought before it,
  and the snapshots of these purchases come earlier.
- `SnapsWellKrw`, `SnapsWellUsd`, `PositionAverageSnaps`: for every price, `snap_down` is the
  highest price the exchange takes up to it and `snap_up` the lowest from it on, and so
  `[]AverageSnaps`.  The hard part is the edge of a band: `snap_up` may leave its band, and what
  lies beyond has another step.  `BandGrid` shows that the prices taken within a band, its
  upper edge included, are the multiples of its tick, for each edge is a multiple of the ticks
  on both sides.

**Only model-checked.**  Every safety property of a passing run is a theorem.  Liveness
(`EndedOrdersSettle`, `CallsEnd`) needs fairness and ENABLED, which the prover does not
handle, and stays with TLC, as do the violations.  No module has RECURSIVE operators.

## 5. Where code and documentation part

Each run checks one sentence of the repository on the smallest instance and TLC finds it broken.

| Run | What happens |
|---|---|
| `retry_releases` | A worker restarts and places again an order that is live.  The second call fails before its POST (or gets 401/403) and `_unwind` releases the guard of the live order. |
| `cancel_oversells` | A SELL executes in part, is cancelled before the poll, and the shares it sold are free to be sold again until the poll. |
| `late_date` | A sale is polled before the exchange reports its settlement date, and again after.  The second snapshot differs in the date alone, `_fill_progress` does not look at it, and the proceeds stay available before they settle. |

More show in the models and have no run of their own; most are a small change of a run.
- *A readable id is missing.*  With `"blank"` in `Env`, `LiveOrdersGuarded` is violated: a
  2xx without an `orderId` is unwound as if nothing had been placed, although the exchange
  may have the order (`broker.py:196`; `_unwind` is documented for orders certainly not
  placed).
- *A retry is refused.*  With `"retry"` and a BUY that fills in parts, `RefusedIsFinal` is
  violated: `reserve` adds back what is left of the reservation, not what was spent, and the
  consumer is told `accepted=False` of a live order (`ledger.py:46`).
- *COMMIT raises.*  With `CommitFails <- AnyCall`, `RaisedLeavesNothing` is violated:
  `_immediate()` commits in the `else` branch, outside its own `except`, so nothing rolls
  back; the call raises, its writes stay in the open transaction, and a later `release()` or
  `record_order()` commits them (`ledger.py:512`).  The connection holds the lock until then.
- *A sale costs more than it brings in.*  With an execution of a SELL whose commission and
  tax exceed its principal, `ImplementsLedger` is violated: what is not settled yet counts
  as pending with its sign (`_signed_cash`, `ledger.py:36`), so until its settlement day it
  *raises* `available()`.  `reserve` grants against that, and at midnight the money is gone.
- *`release()` raises.*  Its transaction stays open, and no operation that begins
  `IMMEDIATE` can run on the connection until something commits (`ledger.py:593-598`).
- *Two tasks meet the same 401.*  The first invalidates and gets a fresh token; the second
  then invalidates that one, for `invalidate()` does not look at which token was denied
  (`auth.py:161-165`).  Where a new token ends the older ones, as the module's comments say of
  this server (`auth.py:156`, `auth.py:220`), the token of the second ends the one that the first
  retries with, and that retry is denied and raised.  `RetriesFresh` holds all the while: the
  denied token is newer than the first 401.  So a request can fail although its retry did
  all it could.
- *A report has no client order id.*  `order_fill` leaves it blank when it is missing
  (`rest.py:209`).  `apply_fill` settles the cash then, and neither takes the principal out of
  the reservation nor updates the row, so what a BUY has spent is counted twice until the
  consumer marks it; `CashConserved` and `ImplementsLedger` hold.
- *The average is polluted.*  The docstring of `_position_rows` (`ledger.py:112-113`) says
  that a closed position does not weigh on the next one.  An order whose executions lie
  before and after a sale is sorted by its last one, so the sale comes first and the cost of
  what it closed is averaged in; `AverageIsMoving` without `Apart` is violated.  The quantity
  is right.
- *A cancelled row opens again.*  `ApplyFill` sets it to `partially_filled` when an execution
  is polled after `cancel()`, so `MarkEnded` is needed for cancelled orders too, which the
  repository's README leaves to `cancel()`.
- *An order by amount is never complete.*  `Complete` never holds of it, its recorded
  quantity is 0, so the rest of its reservation stays until `MarkEnded`, although that README
  says that `apply_fill` handles a complete fill by itself.

## 6. Not modelled

Market data, quotes, order books and holdings: translations of an answer without state.
`positions()`, `available_cash()` of the broker: reads.  What a consumer sees of
`available()` between the transactions of others: the code decides on no such read.  The
parsing of an HTTP answer: only the classes that the callers tell apart.  An answer that
reports an unreadable currency as KRW.  The denylist is a guard of `PlaceBuy` and empty in
the runs: it is compared once, with a constant.  A BEGIN that waits too long for the lock is
a call that raised before it did anything.  Logging, formatting, the configuration's
validation and `tools/`.  The constructor of the ledger is `Init`.

## 7. Plan

1. An abstract sleeve (cash, shares and outstanding orders as one state machine) and
   `TossBroker` as its implementation under a refinement mapping.
2. What phantom reservations (a retry after the order was filled) may hold, and how the
   consumer gets them back.
