----------------------------- MODULE OrderRouter -----------------------------
(***************************************************************************)
(* The order flow: the trading engine's intents, services/order_router.py, *)
(* services/reconciler.py and the portfolio ledger, against an exchange    *)
(* that acts on its own.                                                   *)
(*                                                                         *)
(* The bus delivers synchronously and the engine has one trading thread,   *)
(* so one intent at a time is inside handle_intent; what interleaves with  *)
(* it is the exchange.  The actions are cut where the code waits for the   *)
(* exchange: placing an order, polling it, fetching its trades.            *)
(*                                                                         *)
(* "outcome" is a history variable: what the bus was told of each intent.  *)
(***************************************************************************)
EXTENDS Portfolio, Sequences, Functions

CONSTANTS MaxIntents,  \* bound: intents issued in a behaviour
          MaxTrades,   \* config.MAX_TRADES
          MaxPositions,\* EngineConfig.max_positions
          Drift,       \* how far a quantity at the price of its reservation may be
                       \* from the budget it was computed from
          Slip,        \* what an execution may cost beyond its notional
          MaxRetries,  \* RouterConfig.max_retries
          MaxPending,  \* config.MAX_PENDING_BUY_INTENTS
          TIF,         \* RouterConfig.tif
          TakeProfit,  \* does the exchange take the take-profit orders in this instance
          Faults       \* the failures of the exchange link in this instance

FaultKind == {"lost_response", "poll_outage", "no_trades", "expired"}

ASSUME RouterAssumption ==
  /\ MaxIntents \in Nat
  /\ {MaxTrades, MaxPositions} \subseteq Nat
  /\ TakeProfit \in BOOLEAN
  /\ Drift \in Nat
  /\ Slip \subseteq Nat
  /\ MaxRetries \in Nat
  /\ MaxPending \in Nat \ {0}
  /\ TIF \in {"IOC", "GTC"}
  /\ Faults \subseteq FaultKind

Intent   == 1..MaxIntents
NoIntent == 0
NoOrder  == 0

\* quote_budget is what pending_buy_intents keeps of a buy (0 for an exit).
Request     == [sym : Sym, side : Side, qty : Nat \ {0}, quote_budget : Nat]
OrderStatus == {"open", "closed", "canceled", "expired"}

\* An order at the exchange; cash is what its executions cost (a buy) or
\* brought in (a sell), fees included.
Order == [intent : Intent, qty : Nat, filled : Nat, cash : Nat,
          status : OrderStatus]

\* The account at the exchange: base currency per pair, how much of it is offered
\* by take-profit orders, and quote currency.
Account == {a \in [base : [Sym -> Nat], resting : [Sym -> Nat], quote : Nat] :
              \A s \in Sym : a.resting[s] <= a.base[s]}

VARIABLES
  (* engine *)
  req,              \* the intents made so far and what they ask for
  pending,          \* TradingEngine.pending_buy_intents
  engine_positions, \* the symbols in TradingEngine.positions
  (* router *)
  seen,             \* OrderRouter._seen
  meta,             \* the orders with an entry in OrderRouter._order_meta
  pc,               \* where handle_intent is, with its locals:
  cur,              \*   intent
  attempt,          \*   attempt
  filled_qty,       \*   filled_qty
  order_id,         \*   order_id
  (* portfolio *)
  ledger,
  (* exchange *)
  orders,
  account,          \* what the account really owns
  (* history *)
  outcome

locals == <<cur, attempt, filled_qty, order_id>>
exchange == <<orders, account>>
vars == <<req, pending, engine_positions, seen, meta, pc, locals, ledger,
          exchange, outcome>>

PC      == {"idle", "handle", "loop", "wait", "filled", "finish"}
Outcome == {"none", "filled", "failed", "repeated"}

\* Every variable holds a value of its type; orders named by the router exist.
TypeOK ==
  /\ req \in Seq(Request) /\ Len(req) <= MaxIntents
  /\ pending \subseteq Intent
  /\ engine_positions \subseteq Sym
  /\ seen \subseteq Intent
  /\ meta \subseteq 1..Len(orders)
  /\ pc \in PC
  /\ cur \in 0..Len(req)
  /\ attempt \in 0..(MaxRetries + 1)
  /\ filled_qty \in Nat
  /\ order_id \in 0..Len(orders)
  /\ ledger \in Ledger
  /\ orders \in Seq(Order)
  /\ account \in Account
  /\ outcome \in [Intent -> Outcome]

Init ==
  /\ req = <<>>
  /\ pending = {}
  /\ engine_positions = {}
  /\ seen = {}
  /\ meta = {}
  /\ pc = "idle"
  /\ cur = NoIntent
  /\ attempt = 0
  /\ filled_qty = 0
  /\ order_id = NoOrder
  /\ ledger = EmptyLedger
  /\ orders = <<>>
  /\ account = [base    |-> [s \in Sym |-> 0],
                resting |-> [s \in Sym |-> 0],
                quote   |-> InitialBudget]
  /\ outcome = [i \in Intent |-> "none"]

-----------------------------------------------------------------------------
(***************************************************************************)
(* Engine: making intents and forgetting them.                             *)
(***************************************************************************)

\* clear_intent as a ledger step: a pending intent gives back its budget.
Cleared(l, i) ==
  IF i \in pending THEN release_budget(l, req[i].sym, req[i].quote_budget) ELSE l

Oldest(i) == i \in pending /\ \A j \in pending : i <= j

\* publish("order.intent"): handle_intent starts on intent i.
Publish(i) ==
  /\ cur' = i
  /\ pc' = "handle"
  /\ UNCHANGED <<attempt, filled_qty, order_id>>

\* Mutant: the number of held assets is not looked at.
BuyAllowedUnlimited(s) ==
  s \notin engine_positions /\ Cardinality(engine_positions) < MaxPositions

\* _evaluate_buy_opportunities stops at max_positions and skips the symbols in
\* engine.positions; the risk checker counts the held assets.
BuyAllowed(s) ==
  /\ s \notin engine_positions
  /\ Cardinality(engine_positions) < MaxPositions
  /\ Cardinality({t \in Sym : ledger.held_assets[t] > 0}) < MaxTrades

\* execute_buy_order: a full pending_buy_intents first evicts its oldest entry
\* (entries are kept in the order of their start_ts, so the first stale one is
\* the oldest one too).
SubmitBuy(s, d) ==
  LET i       == Len(req) + 1
      budget  == calculate_position_size(ledger, s)
      evicted == IF Cardinality(pending) >= MaxPending
                 THEN {j \in pending : Oldest(j)} ELSE {}
  IN  /\ pc = "idle"
      /\ i <= MaxIntents
      /\ BuyAllowed(s)
      /\ budget >= MinSlot
      /\ budget + d > 0
      /\ req' = Append(req, [sym |-> s, side |-> "buy", qty |-> budget + d,
                             quote_budget |-> budget])
      /\ pending' = (pending \ evicted) \cup {i}
      /\ \/ evicted = {} /\ UNCHANGED ledger
         \/ \E j \in evicted : ledger' = Cleared(ledger, j)
      /\ Publish(i)
      /\ UNCHANGED <<engine_positions, seen, meta, exchange, outcome>>

\* _maybe_scan_exits: an open position is closed as a whole, a short one by a
\* buy.  Exit intents are not entered in pending_buy_intents.
SubmitExit(s) ==
  LET q == ledger.qty[s]
      i == Len(req) + 1
  IN  /\ pc = "idle"
      /\ i <= MaxIntents
      /\ q # 0
      /\ req' = Append(req, [sym  |-> s,
                             side |-> IF q > 0 THEN "sell" ELSE "buy",
                             qty  |-> IF q > 0 THEN q ELSE -q,
                             quote_budget |-> 0])
      /\ Publish(i)
      /\ UNCHANGED <<pending, engine_positions, seen, meta, ledger,
                     exchange, outcome>>

\* The same order.intent event is delivered once more.
Redeliver(i) ==
  /\ pc = "idle"
  /\ Publish(i)
  /\ UNCHANGED <<req, pending, engine_positions, seen, meta, ledger, exchange,
                 outcome>>

\* Mutant: the budget is released, the entry stays.
StaleSweepKeepsEntry ==
  /\ pc = "idle"
  /\ \E i \in pending : Oldest(i) /\ ledger' = Cleared(ledger, i)
  /\ UNCHANGED <<req, pending, engine_positions, seen, meta, pc, locals,
                 exchange, outcome>>

\* _check_stale_intents, one intent at a time: the oldest is the stalest.
StaleSweep ==
  /\ pc = "idle"
  /\ \E i \in pending :
       /\ Oldest(i)
       /\ ledger' = Cleared(ledger, i)
       /\ pending' = pending \ {i}
  /\ UNCHANGED <<req, engine_positions, seen, meta, pc, locals, exchange,
                 outcome>>

-----------------------------------------------------------------------------
(***************************************************************************)
(* Router: handle_intent.                                                  *)
(***************************************************************************)
sym  == req[cur].sym
side == req[cur].side
qty  == req[cur].qty

\* What the next order of the intent asks for.
Remaining == qty - filled_qty

\* The bus is told of an intent's outcome; a second telling is remembered.
Tell(i, what) ==
  outcome' = [outcome EXCEPT ![i] = IF @ = "none" THEN what ELSE "repeated"]

\* handle_intent returns.
Return ==
  /\ pc' = "idle"
  /\ cur' = NoIntent
  /\ attempt' = 0
  /\ filled_qty' = 0
  /\ order_id' = NoOrder

\* order.failed: _on_order_failed clears the intent, releasing its budget.
ReportFailed(l) ==
  /\ ledger' = Cleared(l, cur)
  /\ pending' = pending \ {cur}
  /\ Tell(cur, "failed")
  /\ Return

\* Mutant: the intent is not entered in _seen.
KnownForgotten == seen

\* _seen once the intent being handled is entered.
Known == seen \cup {cur}

\* The idempotency check: an intent seen before is ignored.
IgnoreDuplicate ==
  /\ pc = "handle"
  /\ cur \in seen
  /\ Return
  /\ UNCHANGED <<req, pending, engine_positions, seen, meta, ledger, exchange,
                 outcome>>

\* _reserve_budget succeeds.
ReserveBudget ==
  /\ pc = "handle"
  /\ cur \notin seen
  /\ CanReserve(ledger, sym, side, qty)
  /\ seen' = Known
  /\ ledger' = reserve(ledger, sym, side, qty)
  /\ pc' = "loop"
  /\ UNCHANGED <<req, pending, engine_positions, meta, locals, exchange, outcome>>

\* Mutant: the refusal is only logged.
RefuseIntentSilently ==
  /\ pc = "handle"
  /\ cur \notin seen
  /\ ~CanReserve(ledger, sym, side, qty)
  /\ seen' = Known
  /\ Return
  /\ UNCHANGED <<req, pending, engine_positions, meta, ledger, exchange, outcome>>

\* _reserve_budget fails (or no price is known, which only an exit of an asset
\* not held can meet, and which ends the same way).
RefuseIntent ==
  /\ pc = "handle"
  /\ cur \notin seen
  /\ ~CanReserve(ledger, sym, side, qty)
  /\ seen' = Known
  /\ ReportFailed(ledger)
  /\ UNCHANGED <<req, engine_positions, meta, exchange>>

\* Mutant: one attempt too many.
InLoopOnceMore == pc = "loop" /\ attempt <= MaxRetries + 1 /\ Remaining > 0

\* The while loop goes round once more.
InLoop == pc = "loop" /\ attempt <= MaxRetries /\ Remaining > 0

\* What executing q units costs or brings in.
Cash(sd, q, x) == IF q = 0 THEN 0 ELSE IF sd = "buy" THEN q + x ELSE Monus(q, x)

\* Executing q units of pair s for c in cash changes the account.
Execute(s, sd, q, c) ==
  account' = IF sd = "buy"
             THEN [account EXCEPT !.base[s] = @ + q, !.quote = @ - c]
             ELSE [account EXCEPT !.base[s] = @ - q, !.quote = @ + c]

\* The account can pay for the execution: this is a spot account, and what one
\* order offers another cannot.
Covered(s, sd, q, c) ==
  IF sd = "buy" THEN c <= account.quote
                ELSE q <= account.base[s] - account.resting[s]

\* How an accepted order that executed f units stands: a GTC order stays open
\* until it is done, an IOC order is finished.
StatusAfter(f, q) ==
  IF f = q THEN {"closed"}
  ELSE IF TIF = "GTC" THEN {"open"}
  ELSE {"canceled"} \cup (Faults \cap {"expired"})

\* The exchange accepts an order for what remains and executes part of it.
AcceptOrder ==
  /\ Covered(sym, side, Remaining, Remaining)
  /\ \E f \in 0..Remaining, x \in Slip :
       LET c == Cash(side, f, x)
       IN  /\ Covered(sym, side, f, c)
           /\ \E st \in StatusAfter(f, Remaining) :
                orders' = Append(orders, [intent |-> cur, qty |-> Remaining,
                                          filled |-> f, cash |-> c, status |-> st])
           /\ Execute(sym, side, f, c)

\* The exchange accepts the order and the router gets its id.
SendOrder ==
  /\ InLoop
  /\ AcceptOrder
  /\ order_id' = Len(orders) + 1
  /\ meta' = meta \cup {order_id'}
  /\ attempt' = attempt + 1
  /\ pc' = "wait"
  /\ UNCHANGED <<req, pending, engine_positions, seen, cur, filled_qty, ledger,
                 outcome>>

\* create_order raises: the exception handler drops the metadata of the order
\* placed before, and the loop tries again.  The order was refused, or it was
\* accepted and only the answer was lost.
PlaceFails ==
  /\ InLoop
  /\ \/ UNCHANGED exchange
     \/ "lost_response" \in Faults /\ AcceptOrder
  /\ meta' = meta \ {order_id}
  /\ attempt' = attempt + 1
  /\ UNCHANGED <<req, pending, engine_positions, seen, pc, cur, filled_qty,
                 order_id, ledger, outcome>>

\* Mutant: the order's amount is taken for what is filled of it.
ObservationsOfAmount ==
  {[status |-> orders[order_id].status, filled |-> orders[order_id].qty]}

\* What wait_for_fill may return: the order as it is, or, when every poll
\* failed, its default of an open order without fills.
Observations ==
  {[status |-> orders[order_id].status, filled |-> orders[order_id].filled]}
    \cup (IF "poll_outage" \in Faults THEN {[status |-> "open", filled |-> 0]}
                                      ELSE {})

\* The fills seen are added up; a closed order ends the intent, a canceled one
\* ends the loop (and loses its metadata), any other answer means a retry.
WaitForFill ==
  /\ pc = "wait"
  /\ \E ob \in Observations :
       /\ filled_qty' = filled_qty + ob.filled
       /\ pc' = CASE ob.status = "closed"   -> "filled"
                  [] ob.status = "canceled" -> "finish"
                  [] OTHER                  -> "loop"
       /\ meta' = IF ob.status = "canceled" THEN meta \ {order_id} ELSE meta
  /\ UNCHANGED <<req, pending, engine_positions, seen, cur, attempt, order_id,
                 ledger, exchange, outcome>>

\* fetch_order_trades: the order's trades, or none when the call fails.
FetchedTrades ==
  {[side |-> side, qty |-> orders[order_id].filled, cash |-> orders[order_id].cash]}
    \cup (IF "no_trades" \in Faults THEN {[side |-> side, qty |-> 0, cash |-> 0]}
                                    ELSE {})

\* reconcile_order: nothing is applied when there are no trades.
Reconciled(l, t) == IF t.qty = 0 THEN l ELSE apply_fills(l, sym, t)

\* The entry hook of handle_router_fill offers the booked position (what was
\* filled, if none is booked) as a post-only limit sell of the engine's own: the
\* router and the reconciler never learn of it.  It may be refused.
PlaceTakeProfit ==
  LET amount == IF ledger'.state[sym] = "NONE" THEN filled_qty ELSE ledger'.qty[sym]
  IN  \/ UNCHANGED account
      \/ /\ TakeProfit
         /\ amount > 0
         /\ amount <= account.base[sym] - account.resting[sym]
         /\ account' = [account EXCEPT !.resting[sym] = @ + amount]

\* The engine's end of a buy: the intent is settled, its budget is left to
\* apply_fills, the position is known and protected.
handle_router_fill ==
  /\ pending' = pending \ {cur}
  /\ engine_positions' = engine_positions \cup {sym}
  /\ PlaceTakeProfit

\* order.filled for the last order.  Its metadata carries side and intent id;
\* without them _on_order_filled does not call handle_router_fill.
ReportFilled ==
  /\ IF order_id \in meta /\ side = "buy"
     THEN handle_router_fill
     ELSE UNCHANGED <<pending, engine_positions, account>>
  /\ meta' = meta \ {order_id}
  /\ Tell(cur, "filled")
  /\ Return

\* The last order closed: publish and return.
PublishFilled ==
  /\ pc = "filled"
  /\ \E t \in FetchedTrades : ledger' = Reconciled(ledger, t)
  /\ ReportFilled
  /\ UNCHANGED <<req, seen, orders>>

LoopOver == pc = "finish" \/ (pc = "loop" /\ ~InLoop)

\* Mutant: the fills of a partial success are not published.
PartialSuccessUnpublished ==
  /\ LoopOver
  /\ filled_qty > 0
  /\ ledger' = release(ledger, sym, side, Monus(qty, filled_qty))
  /\ meta' = meta \ {order_id}
  /\ Tell(cur, "filled")
  /\ Return
  /\ UNCHANGED <<req, pending, engine_positions, seen, exchange>>

\* PARTIAL_SUCCESS: publish the last order, then release what is unfilled.
PartialSuccess ==
  /\ LoopOver
  /\ filled_qty > 0
  /\ \E t \in FetchedTrades :
       ledger' = release(Reconciled(ledger, t), sym, side, Monus(qty, filled_qty))
  /\ ReportFilled
  /\ UNCHANGED <<req, seen, orders>>

\* FAILED_FINAL: release the reservation, then report the failure.
FailedFinal ==
  /\ LoopOver
  /\ filled_qty = 0
  /\ meta' = meta \ {order_id}
  /\ ReportFailed(release(ledger, sym, side, qty))
  /\ UNCHANGED <<req, engine_positions, seen, exchange>>

-----------------------------------------------------------------------------
(***************************************************************************)
(* Exchange: an open order may be filled, in parts, or canceled; a         *)
(* take-profit order may be filled.                                        *)
(***************************************************************************)
ExchangeFill(o) ==
  LET order == orders[o]
      s     == req[order.intent].sym
      sd    == req[order.intent].side
  IN  /\ order.status = "open"
      /\ \E f \in 1..(order.qty - order.filled), x \in Slip :
           LET c == Cash(sd, f, x)
           IN  /\ Covered(s, sd, f, c)
               /\ Execute(s, sd, f, c)
               /\ \E st \in StatusAfter(order.filled + f, order.qty) :
                    orders' = [orders EXCEPT ![o].filled = @ + f,
                                             ![o].cash   = @ + c,
                                             ![o].status = st]
      /\ UNCHANGED <<req, pending, engine_positions, seen, meta, pc, locals,
                     ledger, outcome>>

ExchangeCancel(o) ==
  /\ orders[o].status = "open"
  /\ orders' = [orders EXCEPT ![o].status = "canceled"]
  /\ UNCHANGED <<req, pending, engine_positions, seen, meta, pc, locals, ledger,
                 account, outcome>>

\* A take-profit order executes, as a whole or in part.
TakeProfitFills(s) ==
  /\ \E f \in 1..account.resting[s], x \in Slip :
       account' = [account EXCEPT !.base[s]    = @ - f,
                                  !.resting[s] = @ - f,
                                  !.quote      = @ + Cash("sell", f, x)]
  /\ UNCHANGED <<req, pending, engine_positions, seen, meta, pc, locals, ledger,
                 orders, outcome>>

-----------------------------------------------------------------------------
Submit == \E s \in Sym : SubmitExit(s) \/ \E d \in -Drift..Drift : SubmitBuy(s, d)

HandleIntent ==
  \/ IgnoreDuplicate \/ ReserveBudget \/ RefuseIntent
  \/ SendOrder \/ PlaceFails \/ WaitForFill
  \/ PublishFilled \/ PartialSuccess \/ FailedFinal

Exchange ==
  \/ \E o \in DOMAIN orders : ExchangeFill(o) \/ ExchangeCancel(o)
  \/ \E s \in Sym : TakeProfitFills(s)

Next ==
  \/ Submit
  \/ \E i \in DOMAIN req : Redeliver(i)
  \/ StaleSweep
  \/ HandleIntent
  \/ Exchange

\* handle_intent runs to its end on the engine's thread, and every main-loop
\* pass that finds the heartbeat window sweeps stale intents, between intents.
Fairness == WF_vars(HandleIntent) /\ SF_vars(StaleSweep)

Spec     == Init /\ [][Next]_vars
FairSpec == Spec /\ Fairness

-----------------------------------------------------------------------------
(***************************************************************************)
(* Properties.                                                             *)
(***************************************************************************)

\* The bus is told at most one outcome of an intent, whatever is redelivered,
\* retried or refused (handle_intent's publications and its _seen check).
ToldOnce == \A i \in Intent : outcome[i] # "repeated"

OrdersOf(i) == {o \in DOMAIN orders : orders[o].intent = i}

\* What the exchange executed for an intent, over all its orders.
Executed(i) ==
  SumFunctionOnSet([o \in DOMAIN orders |-> orders[o].filled], OrdersOf(i))

\* The router never believes more filled than the exchange executed for the
\* intent, whatever polls it missed and however often it retried.
FilledIsBacked == cur # NoIntent => filled_qty <= Executed(cur)

\* reserved_budget never exceeds the reservations of the single symbols, even
\* when a reservation is released twice, so the free budget never looks smaller
\* than it is; and no symbol's reservations exceed the limit per symbol, but
\* for the rounding of one quantity, even when missed trades leave them standing
\* (reserve_budget, release_budget and commit_budget move both records).
ReservationsAddUp ==
  /\ ledger.reserved_budget <= SumFunctionOnSet(ledger.reserved_quote, Sym)
  /\ \A s \in Sym : ledger.reserved_quote[s] <= MaxPerSymbol + Drift

(***************************************************************************)
(* The inductive invariant behind ToldOnce, AttemptsBounded and the        *)
(* contract, in three parts.                                               *)
(***************************************************************************)

\* handle_intent is past its idempotency check.
InFlight == pc \notin {"idle", "handle"}

\* What names an intent or an order names one that exists.
Referential ==
  /\ pending \subseteq DOMAIN req
  /\ seen \subseteq DOMAIN req
  /\ pc # "idle" => cur \in DOMAIN req
  /\ \A o \in DOMAIN orders : orders[o].intent \in seen
  /\ order_id # NoOrder => order_id \in DOMAIN orders /\ orders[order_id].intent = cur
  /\ pc \in {"wait", "filled", "finish"} \/ filled_qty > 0 => order_id # NoOrder
  /\ ~InFlight => attempt = 0 /\ filled_qty = 0 /\ order_id = NoOrder

\* The intent in flight is the only one seen whose outcome is not yet told.
Serial ==
  /\ InFlight => cur \in seen
  /\ \A i \in Intent :
       /\ outcome[i] # "repeated"
       /\ outcome[i] # "none" => i \in seen
       /\ i \in seen => (outcome[i] = "none" <=> InFlight /\ i = cur)

\* The attempts made count the orders of the intent in flight.
Counted ==
  /\ InFlight => Cardinality(OrdersOf(cur)) <= attempt
  /\ \A i \in Intent : Cardinality(OrdersOf(i)) <= MaxRetries + 1

\* Along every interleaving of retries, redeliveries and exchange steps, what
\* the router remembers stays consistent with what it was given, what it sent
\* and what it told.
Consistent == Referential /\ Serial /\ Counted

\* An intent is sent to the exchange at most max_retries + 1 times, lost
\* answers included.
AttemptsBounded == \A i \in Intent : Cardinality(OrdersOf(i)) <= MaxRetries + 1

\* The order flow keeps the promise of IntentContract: one intent at a time,
\* orders only for the intent being handled and at most max_retries + 1 of them,
\* and one end, which for a fill needs an order.
StatusOf(i) == IF outcome[i] # "none" THEN outcome[i]
               ELSE IF i \in seen THEN "working" ELSE "new"

StatusMap == [i \in Intent |-> StatusOf(i)]
SentMap   == [i \in Intent |-> Cardinality(OrdersOf(i))]

Contract == INSTANCE IntentContract
              WITH Limit <- MaxRetries + 1, status <- StatusMap, sent <- SentMap

ImplementsContract == Contract!Spec

\* Between intents the portfolio's positions are what the account owns: every
\* execution has been reconciled once, and nothing else has (reconciler.py:
\* "Ensures positions always reflect exchange reality").
PositionMatchesAccount ==
  pc = "idle" => \A s \in Sym : ledger.qty[s] = account.base[s]

\* Between intents my_budget is the account's quote currency: commits, excess
\* and proceeds together book exactly what the executions cost and brought.
CashMatchesAccount == pc = "idle" => ledger.my_budget = account.quote

\* Between intents nothing is reserved: each reservation was committed or
\* given back along every path through the retry loop.
IdleUnreserved ==
  pc = "idle" => /\ ledger.reserved_budget = 0
                 /\ \A s \in Sym : /\ ledger.reserved_quote[s] = 0
                                   /\ ledger.reserved_base[s] = 0

\* Between intents the ledger is settled: nothing is reserved, and the budget is
\* the account's cash (apply_fills and every exit of the retry loop).
LedgerSettled == CashMatchesAccount /\ IdleUnreserved

\* The account never holds more assets than the risk checker allows, though the
\* checker counts what the portfolio believes (RiskLimitChecker.check_limits).
PositionLimit == Cardinality({s \in Sym : account.base[s] > 0}) <= MaxTrades

\* The code does not have this property (README, 4.3).
\* A buy that was reported filled is settled in the engine: its intent is no
\* longer pending and the engine knows the position (INTENT_SYSTEM.md, section
\* 4: handle_router_fill pops the pending intent).
FillSettled ==
  pc = "idle" =>
    \A i \in DOMAIN req :
      outcome[i] = "filled" /\ req[i].side = "buy" /\ req[i].quote_budget > 0
        => i \notin pending /\ req[i].sym \in engine_positions

\* The code does not have this property (README, 4.3).
\* held_assets, which apply_fills keeps for backwards compatibility, holds what
\* the position holds.
HeldMatchesPosition ==
  \A s \in Sym : ledger.qty[s] > 0 => ledger.held_assets[s] = ledger.qty[s]

\* Every intent made gets an outcome.
EveryIntentTold ==
  \A i \in Intent : (Len(req) >= i) ~> (outcome[i] # "none")

\* No intent stays in pending_buy_intents for ever.
PendingCleared == \A i \in Intent : (i \in pending) ~> (i \notin pending)
=============================================================================
