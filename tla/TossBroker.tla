------------------------------ MODULE TossBroker ------------------------------
(***************************************************************************)
(* Workers that place and cancel orders through TossBroker on one shared   *)
(* SleeveLedger, the exchange behind the REST API, and the consumer that   *)
(* polls executions and reconciles as the README's contract asks it to.    *)
(*                                                                         *)
(* A call of place() or cancel() is a task.  It runs from one await to the *)
(* next: the guard and the first ledger transaction, the wait for a rate   *)
(* limit slot and the token ("ready"), the POST ("waiting"), the handling  *)
(* of the answer.  Workers share the ledger's database, not their memory:  *)
(* the acks each one caches are its own and die with it.                   *)
(***************************************************************************)
EXTENDS SleeveLedger

CONSTANTS
  Worker,
  Task,        \* calls that can be under way at the same time
  Home,        \* the worker a task runs in
  NoTask,      \* the sender of a request whose caller stopped waiting
  Request,     \* the order each client order id stands for; 0 is an absent field
  Denylist,    \* symbols the sleeve must not buy
  Planned,     \* client order ids that are placed with an exit plan, through place_oco()
  Seed,        \* executions of the orders filled before the run, by order id
  TradePrice,  \* unit prices the market trades at
  TradeFee,    \* fees a trade adds, and a late correction may add
  MaxFee,      \* bound: the fees of each order
  SettleDelay, \* days from a trade to its settlement
  MaxPolls,    \* bound: reads under way at the same time
  Env          \* what the environment may do beyond the README's contract

Quirk == {"retry",     \* place an order again that may be live
          "blank",     \* answer an accepted order with a 2xx that has no readable orderId
          "late date"} \* report the settlement date after the execution

OrderOf(c) == CHOOSE o \in OrderId : Attr[o].coid = c

ASSUME BrokerAssumption ==
  /\ Home \in [Task -> Worker] /\ NoTask \notin Task
  /\ Request \in [Coid -> [symbol : Symbol, side : Side, currency : Currency,
                           qty : Nat, price : Nat, amount : Nat]]
  /\ \A c \in Coid : \E o \in OrderId : {p \in OrderId : Attr[p].coid = c} = {o}
  /\ \A o \in OrderId : LET r == Request[Attr[o].coid]
                        IN  Attr[o] = [coid |-> Attr[o].coid, named |-> TRUE, symbol |-> r.symbol,
                                       side |-> r.side, currency |-> r.currency]
  \* OrderRequest: a quantity or an amount, and an amount only to buy at the market.
  /\ \A c \in Coid : LET r == Request[c]
                     IN  /\ (r.qty = 0) # (r.amount = 0)
                         /\ r.amount > 0 => r.side = "buy" /\ r.price = 0
  /\ Denylist \subseteq Symbol
  /\ DOMAIN Seed \subseteq OrderId /\ \A o \in DOMAIN Seed : Seed[o] \in Snapshot
  /\ Planned \subseteq Coid
  /\ TradePrice \subseteq Nat \ {0} /\ TradeFee \subseteq Nat /\ MaxFee \in [OrderId -> Nat]
  /\ SettleDelay \in Nat /\ MaxPolls \in Nat
  /\ Env \subseteq Quirk

\* The seeded orders are complete, sold no more than was bought, and cost no more than
\* the capital and the sales that had settled on the first day.
ASSUME SeedAssumption ==
  /\ \A o \in DOMAIN Seed : /\ Request[Attr[o].coid].qty \in {0, Seed[o].qty}
                            /\ Attr[o].side = "sell" => Seed[o].settles > 0
  /\ \A s \in Symbol :
       SumFunctionOnSet([o \in OrderId |-> IF o \notin DOMAIN Seed \/ Attr[o].symbol # s THEN 0
                                          ELSE IF Attr[o].side = "buy" THEN Seed[o].qty
                                          ELSE -Seed[o].qty], OrderId) >= 0
  /\ \A cur \in Currency :
       SumFunctionOnSet([o \in OrderId |-> IF o \notin DOMAIN Seed \/ Attr[o].currency # cur THEN 0
                                          ELSE IF Attr[o].side = "buy" THEN -Seed[o].cost
                                          ELSE IF Seed[o].settles <= 1 THEN Seed[o].cost
                                          ELSE 0], OrderId) + Allocated(cur) >= 0

VARIABLES
  acks,   \* the client order ids whose ack each worker caches
  plans,  \* the client order ids of which each worker has logged the exit plan
  tasks,  \* the call each task runs
  wire,   \* requests sent and not yet handled by the exchange
  exch,   \* the exchange's record of each order
  polls,  \* execution snapshots read and not yet applied
  known,  \* what the consumer was told of each client order id
  missed  \* history: what an order had executed, not yet polled, when cancel() closed it

brokerVars == <<acks, plans, tasks, wire, exch, polls, known, missed>>
vars == <<ledgerVars, brokerVars>>

Idle == [op |-> "none"]

Call == [op : {"place", "cancel"}, coid : Coid, step : {"ready", "waiting"},
         reply : {"none", "accepted", "blank", "conflict", "rejected", "denied", "cancelled"}]

Message == [op : {"place", "cancel"}, coid : Coid, task : Task \cup {NoTask}]

Known == {"new",      \* not placed, or place() raised what tells that it was not
          "calling",  \* a place() call is under way
          "live",     \* accepted, the order id is known
          "refused",  \* accepted=False
          "unsure",   \* TossAmbiguousOrderError, or the worker died
          "closed"}   \* cancelled or marked terminal

BrokerTypeOK ==
  /\ LedgerTypeOK
  /\ acks \in [Worker -> SUBSET Coid] /\ plans \in [Worker -> SUBSET Planned]
  /\ tasks \in [Task -> Call \cup {Idle}]
  /\ wire \subseteq Message
  /\ exch \in [OrderId -> [status : {"absent", "working", "done", "cancelled"},
                           qty : Nat, cost : Nat, fee : Nat, settles : Nat]]
  /\ polls \subseteq [order : OrderId, snapshot : Snapshot]
  /\ known \in [Coid -> Known]
  /\ missed \in [OrderId -> [qty : Nat, cost : Nat]]

-------------------------------------------------------------------------------
\* place()

\* _reserve_amount: price x quantity of a LIMIT order, the amount of a MARKET BUY by
\* amount, 0 when the cost of the order has no bound.
ReserveAmount(r) ==
  IF r.price > 0 /\ r.qty > 0 THEN r.price * r.qty ELSE r.amount

Capped(c) == Request[c].symbol \notin Denylist /\ ReserveAmount(Request[c]) > 0

\* The consumer's discipline: an order that may be live is reconciled, not placed
\* again, unless the environment retries after an ambiguous answer or a restart.
MayPlace(c) ==
  known[c] = "new" \/ ("retry" \in Env /\ known[c] \in {"calling", "unsure", "live"})

\* A task starts a call of place() that its worker's cache does not answer.
Starts(t, c) == tasks[t] = Idle /\ MayPlace(c) /\ c \notin acks[Home[t]]

Begin(t, c) ==
  /\ tasks' = [tasks EXCEPT ![t] = [op |-> "place", coid |-> c, step |-> "ready", reply |-> "none"]]
  /\ known' = [known EXCEPT ![c] = "calling"]
  /\ UNCHANGED <<acks, plans, wire, exch, polls, missed>>

Told(c, what) == known' = [known EXCEPT ![c] = what]

\* place_oco() logs the exit plan of an order for which place() returned an ack.
Logs(t, c) == plans' = IF c \in Planned THEN [plans EXCEPT ![Home[t]] = @ \cup {c}] ELSE plans

PlaceBuy(t, c) ==
  /\ Starts(t, c) /\ Request[c].side = "buy" /\ Capped(c)
  /\ Reserve(c, Request[c].currency, ReserveAmount(Request[c]))
  /\ Begin(t, c)

PlaceSell(t, c) ==
  /\ Starts(t, c) /\ Request[c].side = "sell"
  /\ ReserveSell(c, Request[c].symbol, Request[c].currency, Request[c].qty)
  /\ Begin(t, c)

\* accepted=False before anything is written or sent: the denylist, an order whose
\* cost has no bound, the hard cap or the sell guard.
PlaceRefused(t, c) ==
  /\ Starts(t, c)
  /\ LET r == Request[c]
     IN  IF r.side = "buy" THEN ~Capped(c) \/ ~CanReserve(c, r.currency, ReserveAmount(r))
                           ELSE ~CanSell(c, r.symbol, r.qty)
  /\ Told(c, "refused")
  /\ UNCHANGED <<ledgerVars, acks, plans, tasks, wire, exch, polls, missed>>

\* The cached ack: no ledger operation, no request.
PlaceCached(t, c) ==
  /\ tasks[t] = Idle /\ MayPlace(c) /\ c \in acks[Home[t]]
  /\ Told(c, "live")
  /\ Logs(t, c)
  /\ UNCHANGED <<ledgerVars, acks, tasks, wire, exch, polls, missed>>

\* _unwind: give the reservation back, or take the row written before the POST out of
\* the sell guard.
Unwind(c) ==
  IF Request[c].side = "buy" THEN Release(c) ELSE MarkOrderTerminal(c, "rejected")

Calls(t, op, step) == tasks[t] # Idle /\ tasks[t].op = op /\ tasks[t].step = step

Stop(t) == tasks' = [tasks EXCEPT ![t] = Idle]

\* The token, the account number or every connection attempt failed: nothing was sent.
\* A 400/422 of the token or the account endpoint reads like one of the order.
SendFails(t) ==
  /\ Calls(t, "place", "ready")
  /\ Unwind(tasks[t].coid)
  /\ \E what \in {"new", "refused"} : Told(tasks[t].coid, what)
  /\ Stop(t)
  /\ UNCHANGED <<acks, plans, wire, exch, polls, missed>>

Send(t) ==
  /\ Calls(t, "place", "ready")
  /\ tasks' = [tasks EXCEPT ![t].step = "waiting"]
  /\ wire' = wire \cup {[op |-> "place", coid |-> tasks[t].coid, task |-> t]}
  /\ UNCHANGED <<ledgerVars, acks, plans, exch, polls, known, missed>>

Answered(t, op, reply) == Calls(t, op, "waiting") /\ tasks[t].reply = reply

\* 2xx with an orderId: the row gets its id before the ack is cached.
PlaceAccepted(t) ==
  LET c == tasks[t].coid
      r == Request[c]
  IN  /\ Answered(t, "place", "accepted")
      /\ RecordOrder(c, OrderOf(c), r.symbol, r.side, r.currency, r.qty)
      /\ acks' = [acks EXCEPT ![Home[t]] = @ \cup {c}]
      /\ Told(c, "live")
      /\ Logs(t, c)
      /\ Stop(t)
      /\ UNCHANGED <<wire, exch, polls, missed>>

\* 409: the cached ack if another call of this worker has got it, else ambiguous.
PlaceConflict(t) ==
  LET c == tasks[t].coid
  IN  /\ Answered(t, "place", "conflict")
      /\ IF c \in acks[Home[t]] THEN Told(c, "live") /\ Logs(t, c)
                               ELSE Told(c, "unsure") /\ UNCHANGED plans
      /\ Stop(t)
      /\ UNCHANGED <<ledgerVars, acks, wire, exch, polls, missed>>

\* 400/422, 401/403 and a 2xx without an orderId unwind.  The first is accepted=False; the
\* others are raised as errors, and the order may be placed later.
PlaceUnwound(t) ==
  LET c == tasks[t].coid
  IN  /\ \E reply \in {"rejected", "denied", "blank"} :
           /\ Answered(t, "place", reply)
           /\ Told(c, IF reply = "rejected" THEN "refused" ELSE "new")
      /\ Unwind(c)
      /\ Stop(t)
      /\ UNCHANGED <<acks, plans, wire, exch, polls, missed>>

\* The requests of task t outlive it: nobody waits for their answer any more.
Orphaned(ts) ==
  {m \in wire : m.task \notin ts} \cup {[m EXCEPT !.task = NoTask] : m \in {n \in wire : n.task \in ts}}

\* (mutant) an ambiguous answer handled as a refusal
TimesOutRefused(t) ==
  /\ Calls(t, "place", "waiting")
  /\ wire' = Orphaned({t})
  /\ Unwind(tasks[t].coid)
  /\ Told(tasks[t].coid, "refused")
  /\ Stop(t)
  /\ UNCHANGED <<acks, plans, exch, polls, missed>>

\* ReadTimeout, a broken connection, 5xx, 429 or an unreadable error after the POST.
\* The request was lost, is still on its way, or was handled and the answer lost.
\* place() leaves the ledger as it is and raises TossAmbiguousOrderError; cancel()
\* raises TossTransportError.  A ledger operation that raises after an answer leaves the
\* same behind: the answer is gone, and its transaction was rolled back.
TimesOut(t) ==
  /\ Calls(t, "place", "waiting") \/ Calls(t, "cancel", "waiting")
  /\ wire' = Orphaned({t}) \/ wire' = {m \in wire : m.task # t}
  /\ IF tasks[t].op = "place" THEN Told(tasks[t].coid, "unsure") ELSE UNCHANGED known
  /\ Stop(t)
  /\ UNCHANGED <<ledgerVars, acks, plans, exch, polls, missed>>

-------------------------------------------------------------------------------
\* cancel()

CancelBegins(t, c) ==
  /\ tasks[t] = Idle /\ known[c] = "live"
  /\ tasks' = [tasks EXCEPT ![t] = [op |-> "cancel", coid |-> c, step |-> "waiting", reply |-> "none"]]
  /\ wire' = wire \cup {[op |-> "cancel", coid |-> c, task |-> t]}
  /\ UNCHANGED <<ledgerVars, acks, plans, exch, polls, known, missed>>

\* True: the client order id is looked up by order id and marked CANCELLED.
CancelConfirmed(t) ==
  LET o     == OrderOf(tasks[t].coid)
      found == ClientOrderIdsFor(o)
  IN  /\ Answered(t, "cancel", "cancelled")
      /\ IF found = {} THEN UNCHANGED ledgerVars
                       ELSE \E c \in found : MarkOrderTerminal(c, "cancelled")
      /\ missed' = [missed EXCEPT ![o] = [qty  |-> exch[o].qty - fills[o].qty,
                                          cost |-> exch[o].cost - fills[o].cost]]
      /\ Told(tasks[t].coid, "closed")
      /\ Stop(t)
      /\ UNCHANGED <<acks, plans, wire, exch, polls>>

\* 400/422 is False: the ledger is left to the polls.
CancelRefused(t) ==
  /\ Answered(t, "cancel", "rejected")
  /\ Stop(t)
  /\ UNCHANGED <<ledgerVars, acks, plans, wire, exch, polls, known, missed>>

\* A worker process dies with its calls and its acks.  The consumer finds the orders
\* it was placing in its own records, without an answer.
Crash(w) ==
  LET dead    == {t \in Task : Home[t] = w}
      placing == {tasks[t].coid : t \in {u \in dead : Calls(u, "place", "ready")
                                                   \/ Calls(u, "place", "waiting")}}
  IN  /\ acks[w] # {} \/ \E t \in dead : tasks[t] # Idle
      /\ acks' = [acks EXCEPT ![w] = {}] /\ plans' = [plans EXCEPT ![w] = {}]
      /\ tasks' = [t \in Task |-> IF t \in dead THEN Idle ELSE tasks[t]]
      /\ wire' = Orphaned(dead)
      /\ known' = [c \in Coid |-> IF c \in placing THEN "unsure" ELSE known[c]]
      /\ UNCHANGED <<ledgerVars, exch, polls, missed>>

-------------------------------------------------------------------------------
\* The exchange (external): it has at most one order per clientOrderId.

Handle(m, reply) ==
  /\ wire' = wire \ {m}
  /\ tasks' = IF m.task = NoTask THEN tasks ELSE [tasks EXCEPT ![m.task].reply = reply]
  /\ UNCHANGED <<ledgerVars, acks, plans, polls, known, missed>>

ExchangeAccepts(m) ==
  LET o == OrderOf(m.coid)
  IN  /\ m.op = "place" /\ exch[o].status = "absent"
      /\ exch' = [exch EXCEPT ![o].status = "working"]
      /\ Handle(m, "accepted") \/ ("blank" \in Env /\ Handle(m, "blank"))

\* A second order under the same client order id, an order it will not take, a caller
\* it does not authenticate.
ExchangeRefuses(m) ==
  /\ m.op = "place"
  /\ \/ Handle(m, "denied")
     \/ Handle(m, IF exch[OrderOf(m.coid)].status = "absent" THEN "rejected" ELSE "conflict")
  /\ UNCHANGED exch

ExchangeCancels(m) ==
  LET o == OrderOf(m.coid)
  IN  /\ m.op = "cancel"
      /\ IF exch[o].status = "working"
         THEN exch' = [exch EXCEPT ![o].status = "cancelled"] /\ Handle(m, "cancelled")
         ELSE UNCHANGED exch /\ Handle(m, "rejected")

OrderedQty(o)  == Request[Attr[o].coid].qty
OrderedCost(o) == ReserveAmount(Request[Attr[o].coid])

\* One unit of order o trades at price p.  A BUY stays within its limit or its amount;
\* an order by amount is done when the exchange says so.  The time in force is DAY, CLS or
\* OPG: an order trades on one day, so all that it executes settles on one day.
Trade(o, p, fee, last) ==
  /\ exch[o].status = "working" /\ exch[o].fee + fee <= MaxFee[o]
  /\ exch[o].settles \in {0, today + SettleDelay}
  /\ Attr[o].side = "buy" => /\ exch[o].cost + p <= OrderedCost(o)
                             /\ Request[Attr[o].coid].price > 0 => p <= Request[Attr[o].coid].price
  /\ OrderedQty(o) > 0 => last = (exch[o].qty + 1 = OrderedQty(o))
  /\ exch' = [exch EXCEPT ![o] =
       [status |-> IF last THEN "done" ELSE "working",
        qty |-> @.qty + 1, cost |-> @.cost + p, fee |-> @.fee + fee,
        settles |-> IF "late date" \in Env THEN 0 ELSE today + SettleDelay]]
  /\ UNCHANGED <<ledgerVars, acks, plans, tasks, wire, polls, known, missed>>

\* The settlement date of an execution of the run that was reported without one.
LateDate(o) ==
  IF "late date" \in Env /\ o \notin DOMAIN Seed /\ exch[o].settles = 0
  THEN today + SettleDelay ELSE exch[o].settles

\* Commission and tax may follow the execution, and so may a date that is late.
Corrected(o, fee) ==
  /\ exch[o].qty > 0 /\ exch[o].fee + fee <= MaxFee[o]
  /\ exch' = [exch EXCEPT ![o].fee = @ + fee, ![o].settles = LateDate(o)]
  /\ UNCHANGED <<ledgerVars, acks, plans, tasks, wire, polls, known, missed>>

\* The order expires at the close.
Expires(o) ==
  /\ exch[o].status = "working"
  /\ exch' = [exch EXCEPT ![o].status = "cancelled"]
  /\ UNCHANGED <<ledgerVars, acks, plans, tasks, wire, polls, known, missed>>

-------------------------------------------------------------------------------
\* The consumer (external): the README's contract.

Executed(o) == [qty |-> exch[o].qty, cost |-> exch[o].cost, fee |-> exch[o].fee,
                settles |-> exch[o].settles]

\* order_fill() of an order whose id the consumer has; several reads may be under way.
ReadFill(o) ==
  /\ known[Attr[o].coid] \in {"live", "closed"} /\ exch[o].qty > 0
  /\ Cardinality(polls) < MaxPolls
  /\ polls' = polls \cup {[order |-> o, snapshot |-> Executed(o)]}
  /\ UNCHANGED <<ledgerVars, acks, plans, tasks, wire, exch, known, missed>>

\* The snapshot reaches apply_fill(): settled, repeated, or refused as a regression.
ApplyPoll(poll) ==
  /\ \/ ApplyFill(poll.order, poll.snapshot)
     \/ /\ \/ SameExecution(fills[poll.order], poll.snapshot)
           \/ poll.snapshot.qty < fills[poll.order].qty
        /\ UNCHANGED ledgerVars
  /\ polls' = polls \ {poll}
  /\ UNCHANGED <<acks, plans, tasks, wire, exch, known, missed>>

StillHeld(c) ==
  reserved[c] # NoReservation \/ (orders[c] # NoOrder /\ orders[c].status \in OpenStatus)

\* An order that ended without filling its quantity: the consumer settles its last
\* execution and then marks it.
MarkEnded(c) ==
  LET o == OrderOf(c)
  IN  /\ known[c] \in {"live", "closed"} /\ StillHeld(c)
      /\ exch[o].status = "cancelled" \/ (exch[o].status = "done" /\ OrderedQty(o) = 0)
      /\ SameExecution(fills[o], exch[o])
      /\ MarkOrderTerminal(c, IF exch[o].status = "done" THEN "filled" ELSE "cancelled")
      /\ Told(c, "closed")
      /\ UNCHANGED <<acks, plans, tasks, wire, exch, polls, missed>>

Sending(c) ==
  \/ \E m \in wire : m.op = "place" /\ m.coid = c
  \/ \E t \in Task : Calls(t, "place", "ready") /\ tasks[t].coid = c
  \/ \E t \in Task : Calls(t, "place", "waiting") /\ tasks[t].coid = c

\* After an ambiguous answer the consumer asks the exchange by client order id, when no
\* request of it is on its way, and records the order or gives it up.
Reconcile(c) ==
  LET o == OrderOf(c)
      r == Request[c]
  IN  /\ known[c] = "unsure" /\ ~Sending(c)
      /\ IF exch[o].status = "absent"
         THEN MarkOrderTerminal(c, "rejected") /\ Told(c, "refused")
         ELSE RecordOrder(c, o, r.symbol, r.side, r.currency, r.qty) /\ Told(c, "live")
      /\ UNCHANGED <<acks, plans, tasks, wire, exch, polls, missed>>

\* Deposits, and withdrawals of cash that is available.
Cashflow(cur, amount) ==
  /\ flows[cur] + amount \in FlowTotal /\ Available(cur) + amount >= 0
  /\ RecordCashflow(cur, amount)
  /\ UNCHANGED brokerVars

-------------------------------------------------------------------------------
Seeded(c) == OrderOf(c) \in DOMAIN Seed

\* A ledger that has settled the seeded orders completely, and nothing else.
BrokerInit ==
  /\ fills = [o \in OrderId |-> IF o \in DOMAIN Seed THEN Seed[o] ELSE NoExecution]
  /\ cash = [cur \in Currency |-> Allocated(cur) + SettledCash(cur)]
  /\ reserved = [c \in Coid |-> NoReservation]
  /\ orders = [c \in Coid |->
       IF Seeded(c) THEN [status |-> "filled", orderId |-> OrderOf(c), symbol |-> Request[c].symbol,
                          side |-> Request[c].side, currency |-> Request[c].currency,
                          qty |-> Request[c].qty]
                    ELSE NoOrder]
  /\ flows = [cur \in Currency |-> 0]
  /\ today = 1
  /\ acks = [w \in Worker |-> {}] /\ plans = [w \in Worker |-> {}]
  /\ tasks = [t \in Task |-> Idle]
  /\ wire = {}
  /\ exch = [o \in OrderId |->
       [status |-> IF o \in DOMAIN Seed THEN "done" ELSE "absent", qty |-> fills[o].qty,
        cost |-> fills[o].cost, fee |-> fills[o].fee, settles |-> fills[o].settles]]
  /\ polls = {}
  /\ known = [c \in Coid |-> IF Seeded(c) THEN "closed" ELSE "new"]
  /\ missed = [o \in OrderId |-> [qty |-> 0, cost |-> 0]]

Place(t) == \E c \in Coid : \/ PlaceBuy(t, c) \/ PlaceSell(t, c)
                            \/ PlaceRefused(t, c) \/ PlaceCached(t, c)

Resume(t) == \/ SendFails(t) \/ Send(t)
             \/ PlaceAccepted(t) \/ PlaceConflict(t) \/ PlaceUnwound(t)
             \/ CancelConfirmed(t) \/ CancelRefused(t) \/ TimesOut(t)

Exchange(m) == ExchangeAccepts(m) \/ ExchangeRefuses(m) \/ ExchangeCancels(m)

Market(o) == \/ \E p \in TradePrice, fee \in TradeFee, last \in BOOLEAN : Trade(o, p, fee, last)
             \/ \E fee \in TradeFee : Corrected(o, fee)
             \/ Expires(o)

BrokerNext ==
  \/ \E t \in Task : Place(t) \/ Resume(t) \/ \E c \in Coid : CancelBegins(t, c)
  \/ \E w \in Worker : Crash(w)
  \/ \E m \in wire : Exchange(m)
  \/ \E o \in OrderId : Market(o) \/ ReadFill(o)
  \/ \E poll \in polls : ApplyPoll(poll)
  \/ \E c \in Coid : MarkEnded(c) \/ Reconcile(c)
  \/ \E cur \in Currency, amount \in FlowAmount : Cashflow(cur, amount)
  \/ today + 1 \in Day /\ NextDay /\ UNCHANGED brokerVars

BrokerSpec == BrokerInit /\ [][BrokerNext]_vars

\* A call goes on or times out (httpx bounds every wait), a request is handled, and the
\* consumer keeps polling, marking and reconciling.  Nothing makes a call start, an
\* order trade or end, a worker crash, or a cancellation be asked for.
Fairness ==
  /\ \A t \in Task : WF_vars(Resume(t))
  /\ WF_vars(\E m \in wire : Exchange(m))
  /\ \A o \in OrderId : /\ SF_vars(ReadFill(o))
                        /\ WF_vars(\E poll \in polls : poll.order = o /\ ApplyPoll(poll))
  /\ \A c \in Coid : WF_vars(MarkEnded(c) \/ Reconcile(c))

FairBrokerSpec == BrokerSpec /\ Fairness

-------------------------------------------------------------------------------
\* Properties.

Selling(o, s) == Attr[o].side = "sell" /\ Attr[o].symbol = s
Buying(o, cur) == Attr[o].side = "buy" /\ Attr[o].currency = cur

\* What the sleeve holds of s at the exchange, once every SELL order that is working
\* there has sold all it may.
HoldingAfterSales(s) ==
  SumFunctionOnSet([o \in OrderId |-> IF Attr[o].symbol # s THEN 0
                                      ELSE IF Attr[o].side = "buy" THEN exch[o].qty
                                      ELSE IF exch[o].status = "working" THEN -OrderedQty(o)
                                      ELSE -exch[o].qty], OrderId)

MissedSales(s) ==
  SumFunctionOnSet([o \in OrderId |-> IF Selling(o, s) THEN missed[o].qty ELSE 0], OrderId)

\* The sleeve never sells shares it does not hold, however the workers' placements,
\* cancellations, crashes, timeouts and late polls interleave; only what had executed
\* unpolled when cancel() closed an order can be sold twice.  (reserve_sell,
\* mark_order_terminal, cancel)
NoOversell == \A s \in Symbol : HoldingAfterSales(s) + MissedSales(s) >= 0

\* The most that the BUY orders of a currency can have cost in the end.
Committed(cur) ==
  SumFunctionOnSet([o \in OrderId |-> IF ~Buying(o, cur) THEN 0
                                      ELSE IF exch[o].status = "working" THEN OrderedCost(o)
                                      ELSE exch[o].cost], OrderId)

SettledSales(cur) ==
  SumFunctionOnSet([o \in OrderId |-> IF Attr[o].side = "sell" /\ Attr[o].currency = cur
                                         /\ exch[o].settles <= today
                                      THEN exch[o].cost ELSE 0], OrderId)

MissedCost(cur) ==
  SumFunctionOnSet([o \in OrderId |-> IF Buying(o, cur) THEN missed[o].cost ELSE 0], OrderId)

\* The sleeve never spends more principal than the cash it was given and the sales that
\* have settled, whatever is under way; only what had executed unpolled when cancel()
\* closed an order can be spent twice.  Fees are left out: nothing reserves them.
\* (reserve, apply_fill)
HardCap ==
  \A cur \in Currency :
    Committed(cur) <= Allocated(cur) + flows[cur] + SettledSales(cur) + MissedCost(cur)

\* The fees of the executions whose cash counts as available.
SettledFees(cur) ==
  SumFunctionOnSet([o \in OrderId |-> IF Attr[o].currency = cur /\ ~Unsettled(o, cur)
                                      THEN fills[o].fee ELSE 0], OrderId)

\* The cash that place() reserves from never goes below 0 by more than the fees, which
\* nothing reserves, and what had executed unpolled when cancel() closed an order: no
\* poll takes more principal than was kept for it, whatever other orders have reserved
\* in the meantime, and no sale is counted before it settles.  (apply_fill, available)
ShortOnlyByFees ==
  \A cur \in Currency : Available(cur) + SettledFees(cur) + MissedCost(cur) >= 0

\* The exchange may still execute the order: it works there, or a request of it is
\* being sent.
MayExecute(c) ==
  \/ exch[OrderOf(c)].status = "working"
  \/ exch[OrderOf(c)].status = "absent" /\ Sending(c)

Guarded(c) ==
  LET r == Request[c]
  IN  IF r.side = "buy"
      THEN reserved[c].amount + fills[OrderOf(c)].cost >= ReserveAmount(r)
      ELSE /\ orders[c] # NoOrder /\ orders[c].status \in OpenStatus
           /\ orders[c].side = "sell" /\ orders[c].symbol = r.symbol /\ orders[c].qty = r.qty

\* An order the exchange may still execute stays guarded: a BUY by what it may still
\* cost, a SELL by an open row of its quantity.  Where an order that may be live is not
\* placed again and a 2xx has an orderId, no error, restart or poll lets go of it.
\* (_unwind, _handle_order_error, mark_order_terminal)
LiveOrdersGuarded == \A c \in Coid : MayExecute(c) => Guarded(c)

\* An order whose ack a worker caches, or whose exit plan it has logged, exists, and
\* cancel() finds its row by the order id: no later registration of another worker blanks
\* the id.  (record_order, reserve_sell, client_order_id_for, place_oco)
AcksResolve ==
  \A w \in Worker : \A c \in acks[w] \cup plans[w] :
    exch[OrderOf(c)].status # "absent" /\ ClientOrderIdsFor(OrderOf(c)) = {c}

\* accepted=False means that the order is not at the exchange and will not be.
RefusedIsFinal ==
  \A c \in Coid : known[c] = "refused" => exch[OrderOf(c)].status = "absent" /\ ~Sending(c)

\* Every order that ended at the exchange is settled in the end: the ledger has its last
\* execution with its fees, no reservation and no open row of it, whatever was lost,
\* timed out, crashed or arrived late on the way.
Ended(o)   == exch[o].status \in {"done", "cancelled"}
Settled(o) == SameExecution(fills[o], exch[o]) /\ ~StillHeld(Attr[o].coid)

EndedOrdersSettle == \A o \in OrderId : Ended(o) ~> Settled(o)

-------------------------------------------------------------------------------
\* What the documentation says and the code does not do.

\* README, "초과매도 방지": no share of others is ever sold.
NeverOversells == \A s \in Symbol : HoldingAfterSales(s) >= 0

\* README, "T+2 정산": once a poll has told that a sale settles later, its proceeds are not
\* available.
PolledDateCounts ==
  [][\A poll \in polls :
       LET o == poll.order
       IN  /\ ApplyPoll(poll) /\ poll.snapshot.qty >= fills[o].qty
           /\ Attr[o].side = "sell" /\ poll.snapshot.settles > today
           => Unsettled(o, Attr[o].currency)']_vars
===============================================================================
