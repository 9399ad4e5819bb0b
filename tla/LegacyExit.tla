----------------------------- MODULE LegacyExit -----------------------------
(***************************************************************************)
(* The older of the two exit paths, for one pair: engine/position_manager  *)
(* keeps a take-profit or a stop-loss order at the exchange and raises     *)
(* exit signals, services/signals.py queues them, services/exits.py sells  *)
(* and engine/exit_handler.py books the sale.                              *)
(*                                                                         *)
(* Two threads sell: the engine's loop, which drains the queue, and a      *)
(* caller of TradingEngine.exit_position.  ExitOrderManager._lock lets one *)
(* of them sell at a time; the loop drains the queue without the engine's  *)
(* lock, the caller and position management hold it.                       *)
(*                                                                         *)
(* Prices are levels: 1 is at or below the stop, 2 below the switch to the *)
(* stop, 3 in between, 4 above the switch back, 5 at the take-profit.      *)
(* "gen" numbers the positions opened; it appears in signals, jobs and     *)
(* orders as a history field that no guard of the code reads.              *)
(***************************************************************************)
EXTENDS Integers, Sequences

CONSTANTS Price,        \* the price levels of this instance
          Lot,          \* amounts bought
          Spare,        \* what the account owns of the asset beside the bot's purchases
          MaxGen,       \* bound: positions opened
          MaxClock,     \* bound: seconds that pass
          MaxQueue,     \* bound: signals waiting
          MaxOrders,    \* bound: orders the exchange takes
          MaxPerCycle,  \* max_per_cycle of process_exit_signals
          Faults        \* what may go wrong at the exchange in this instance

FaultKind == {"lost_answer", "cancel_fails", "partial", "refused"}

ASSUME LegacyAssumption ==
  /\ Price \subseteq 1..5 /\ 4 \in Price
  /\ Lot \subseteq Nat \ {0}
  /\ {Spare, MaxGen, MaxClock, MaxQueue, MaxOrders} \subseteq Nat
  /\ MaxPerCycle \in Nat \ {0}
  /\ Faults \subseteq FaultKind

Thread    == {"engine", "caller"}
NoOrder   == 0
NoAmount  == 0

\* An exit order's client order id is its reason and the second it is sent in; the
\* queue's exits all carry the reason UNKNOWN, the caller's MANUAL_EXIT, so that the
\* kind of an order stands for its reason.  Protective orders carry no client id.
ExitKind  == Thread
OrderKind == ExitKind \cup {"market", "TP", "SL"}

VARIABLES
  clock,        \* seconds, as int(time.time()) shows them for client order ids
  price,
  gen,
  positions,    \* amount in TradingEngine.positions, NoAmount without an entry
  held,         \* amount in PortfolioManager.held_assets
  qty,          \* PortfolioManager.positions[sym].qty
  meta,         \* PortfolioManager.positions[sym].meta
  data,         \* the copy of meta that manage_positions works on
  queue,        \* ExitSignalQueue._queue
  pc, job,      \* where each thread is and what it sells
  results,      \* the results process_exit_signals has gathered
  registry,     \* is the pair in pending_exit_intents
  free, orders  \* the exchange: what the account owns and no open order offers, and
                \* the orders

engine_state == <<gen, positions, held, qty>>
protection   == <<meta, data>>
exchange     == <<free, orders>>
world        == <<clock, price>>
vars == <<world, engine_state, protection, queue, pc, job, results, registry, exchange>>

Protection == [tp : 0..MaxOrders, sl : 0..MaxOrders, tp_px : BOOLEAN,
               sl_px : BOOLEAN, active : {"TP", "SL"}, cooling : BOOLEAN]
NoProtection == [tp |-> NoOrder, sl |-> NoOrder, tp_px |-> FALSE, sl_px |-> FALSE,
                 active |-> "TP", cooling |-> FALSE]

\* "doubt": its sender did not learn how it stands.
Order  == [kind : OrderKind, gen : 1..MaxGen, qty : Nat \ {0}, filled : Nat,
           open : BOOLEAN, second : 0..MaxClock, doubt : BOOLEAN]
Signal == [amount : Nat, gen : 1..MaxGen]
Job    == [amount : Nat, gen : 0..MaxGen]
NoJob  == [amount |-> NoAmount, gen |-> 0]
Result == [ok : BOOLEAN, gen : 1..MaxGen, filled : Nat, order : 0..MaxOrders]

PC == [engine : {"idle", "restore", "evaluate", "pop", "begin", "ioc", "fallback", "book"},
       caller : {"idle", "begin", "ioc", "fallback"}]

\* Every variable holds a value of its type.
TypeOK ==
  /\ clock \in 0..MaxClock /\ price \in Price
  /\ gen \in 0..MaxGen
  /\ {positions, held, qty, free} \subseteq Nat
  /\ {meta, data} \subseteq Protection
  /\ queue \in Seq(Signal) /\ Len(queue) <= MaxQueue
  /\ pc \in PC
  /\ job \in [Thread -> Job]
  /\ results \in Seq(Result) /\ Len(results) <= MaxPerCycle
  /\ registry \in BOOLEAN
  /\ orders \in Seq(Order) /\ Len(orders) <= MaxOrders

Init ==
  /\ clock = 0 /\ price = 4
  /\ gen = 0
  /\ positions = NoAmount /\ held = 0 /\ qty = 0
  /\ meta = NoProtection /\ data = NoProtection
  /\ queue = <<>>
  /\ pc = [engine |-> "idle", caller |-> "idle"]
  /\ job = [t \in Thread |-> NoJob]
  /\ results = <<>>
  /\ registry = FALSE
  /\ free = Spare /\ orders = <<>>

-----------------------------------------------------------------------------
(***************************************************************************)
(* The exchange: orders, and what OrderService learns of them.             *)
(***************************************************************************)
\* What an accepted order may have sold when it is answered: an IOC order anything
\* or nothing, a stop-loss placed above its price all of it at once, a resting order nothing.
FilledAtOnce(kind, q) ==
  CASE kind = "TP" -> {0}
    [] kind = "SL" -> IF price = 1 THEN {0} ELSE {q}
    [] OTHER       -> IF "partial" \in Faults THEN 0..q ELSE {0, q}

\* The exchange takes a sell order: x is the exchange as [orders, free, id], g the position
\* it is for.  Only what no open order offers can be sold, and a post-only order must not
\* cross.  What an order that rests has not sold is offered by it.
Accept(x, kind, q, g) ==
  IF \/ q = 0
     \/ q > x.free
     \/ Len(x.orders) = MaxOrders
     \/ kind = "TP" /\ price = 5
  THEN {}
  ELSE {LET rests == kind \in {"TP", "SL"} /\ f < q
        IN  [orders |-> Append(x.orders,
                          [kind |-> kind, gen |-> g, qty |-> q, filled |-> f, open |-> rests,
                           second |-> clock, doubt |-> FALSE]),
             free |-> IF rests THEN x.free - q ELSE x.free - f,
             id   |-> Len(x.orders) + 1] : f \in FilledAtOnce(kind, q)}

\* The exchange as it is.
Now == [orders |-> orders, free |-> free, id |-> NoOrder]

\* The answer to the order accepted last does not arrive.
Unanswered(x) ==
  [x EXCEPT !.orders[Len(x.orders)].doubt = TRUE, !.id = NoOrder]

\* place_limit_ioc and place_limit_gtc through the adapter's retries: the order is taken,
\* or refused for good (None), or taken with its answer lost and then sent again.
Place(x0, kind, q, g) ==
  LET first   == Accept(x0, kind, q, g)
      lost    == IF "lost_answer" \in Faults THEN {Unanswered(x) : x \in first} ELSE {}
      refused == IF first = {} \/ "refused" \in Faults THEN {x0} ELSE {}
  IN  first \cup refused \cup lost
      \cup UNION {Accept(x, kind, q, g) : x \in lost}

\* Mutant: the cancel is lost on its way.
CancelLost(x, id) == {x}

\* cancel_order: an order that is not open, or whose cancel fails, gives False, which
\* no caller looks at.  What a cancelled order still offered is free again.
Cancel(x, id) ==
  IF id \notin {i \in DOMAIN x.orders : x.orders[i].open} THEN {x}
  ELSE {[x EXCEPT !.orders[id].open = FALSE,
                  !.free = @ + x.orders[id].qty - x.orders[id].filled]} \cup
       IF "cancel_fails" \in Faults THEN {[x EXCEPT !.orders[id].doubt = TRUE]} ELSE {}

\* A resting protective order executes, in part or whole, out of what it offers.
ProtectiveFill ==
  /\ \E i \in DOMAIN orders :
       /\ orders[i].open
       /\ IF orders[i].kind = "TP" THEN price = 5 ELSE price > 1
       /\ \E f \in 1..(orders[i].qty - orders[i].filled) :
            /\ "partial" \in Faults \/ f = orders[i].qty - orders[i].filled
            /\ orders' = [orders EXCEPT ![i].filled = @ + f,
                                        ![i].open   = orders[i].filled + f < orders[i].qty]
  /\ UNCHANGED <<world, engine_state, protection, queue, pc, job, results, registry, free>>

\* The market moves.  manage_positions reads the price once for all it does, and a sale
\* does not depend on it, so moving while the loop is between two rounds is enough.
MarketMoves ==
  /\ pc.engine = "idle"
  /\ price' \in Price \ {price}
  /\ UNCHANGED <<clock, engine_state, protection, queue, pc, job, results, registry,
                 exchange>>

\* Time passes: a second of the clock, or SWITCH_COOLDOWN_S since the last switch.
Tick ==
  /\ clock' \in clock..MaxClock
  /\ \E still \in {FALSE, meta.cooling} : meta' = [meta EXCEPT !.cooling = still]
  /\ UNCHANGED <<price, engine_state, data, queue, pc, job, results, registry,
                 exchange>>

-----------------------------------------------------------------------------
(***************************************************************************)
(* Position management: the protective order and the exit signals.         *)
(***************************************************************************)
EngineAt(here, there) == pc.engine = here /\ pc' = [pc EXCEPT !.engine = there]

\* The caller of exit_position holds the engine's lock for all of its sale.
EngineLockFree == pc.caller = "idle"

\* place_or_replace_exit_protection: cancel the order it replaces, place the new one.
PlaceProtection(x, kind, q, active_order_id) ==
  UNION {Place(c, kind, q, gen) : c \in Cancel(x, active_order_id)}

TakeExchange(x) == orders' = x.orders /\ free' = x.free

\* A buy is filled (the router and the ledger are OrderRouter's subject): the position is
\* entered everywhere with the quantity of the portfolio, which add_held_asset adds to what
\* is held already, and a take-profit is placed.  Its id goes to meta;
\* "current_protection", which is set with it, nobody reads.
Buy ==
  /\ pc.engine = "idle" /\ EngineLockFree
  /\ positions = NoAmount
  /\ gen < MaxGen
  /\ \E a \in Lot :
       /\ gen' = gen + 1
       /\ qty' = qty + a /\ positions' = qty + a /\ held' = held + (qty + a)
       /\ \E x \in Place([Now EXCEPT !.free = @ + a], "TP", qty + a, gen + 1) :
            /\ TakeExchange(x)
            /\ meta' = IF x.id = NoOrder THEN meta ELSE [meta EXCEPT !.tp = x.id]
  /\ UNCHANGED <<world, data, queue, pc, job, results, registry>>

\* The copy forgets the protective order that has just been cancelled.
Forget(d, kind) ==
  IF kind = "TP" THEN [d EXCEPT !.tp = NoOrder, !.tp_px = FALSE]
                 ELSE [d EXCEPT !.sl = NoOrder, !.sl_px = FALSE]

\* manage_dynamic_tp_sl_switch, TP to SL: the copy forgets the take-profit; what goes back
\* to meta after a success is the stop-loss only.
SwitchToSL(d) ==
  \E c \in Cancel(Now, d.tp) :
    LET gone == IF d.tp = NoOrder THEN d ELSE Forget(d, "TP")
    IN  \E x \in PlaceProtection(c, "SL", qty, d.sl) :
          /\ TakeExchange(x)
          /\ IF x.id = NoOrder
             THEN data' = gone /\ UNCHANGED meta
             ELSE LET done(p) == [p EXCEPT !.sl = x.id, !.sl_px = TRUE,
                                           !.active = "SL", !.cooling = TRUE]
                  IN  data' = done(gone) /\ meta' = done(meta)

\* The same from SL back to TP.
SwitchToTP(d) ==
  \E c \in Cancel(Now, d.sl) :
    LET gone == IF d.sl = NoOrder THEN d ELSE Forget(d, "SL")
    IN  \E x \in PlaceProtection(c, "TP", qty, d.tp) :
          /\ TakeExchange(x)
          /\ IF x.id = NoOrder
             THEN data' = gone /\ UNCHANGED meta
             ELSE LET done(p) == [p EXCEPT !.tp = x.id, !.tp_px = TRUE,
                                           !.active = "TP", !.cooling = TRUE]
                  IN  data' = done(gone) /\ meta' = done(meta)

\* manage_positions starts on the pair: _get_position_data copies meta, the switch comes first.
ManageSwitch ==
  /\ EngineAt("idle", "restore") /\ EngineLockFree
  /\ gen > 0
  /\ IF meta.cooling THEN data' = meta /\ UNCHANGED <<meta, exchange>>
     ELSE IF price <= 2 /\ meta.active = "TP" THEN SwitchToSL(meta)
     ELSE IF price >= 4 /\ meta.active = "SL" THEN SwitchToTP(meta)
     ELSE data' = meta /\ UNCHANGED <<meta, exchange>>
  /\ UNCHANGED <<world, engine_state, queue, job, results, registry>>

\* What restore_exit_protections looks for: a price remembered without its order.
Missing(d) == \/ d.tp_px /\ d.tp = NoOrder
              \/ d.sl_px /\ d.sl = NoOrder

\* restore_exit_protections: the missing orders are placed and noted in the copy.
ManageRestore ==
  /\ EngineAt("restore", "evaluate")
  /\ IF data.tp_px /\ data.tp = NoOrder /\ price < 5
     THEN \E x \in PlaceProtection(Now, "TP", qty, NoOrder) :
            TakeExchange(x) /\ data' = [data EXCEPT !.tp = x.id]
     ELSE IF data.sl_px /\ data.sl = NoOrder /\ price > 1
     THEN \E x \in PlaceProtection(Now, "SL", qty, NoOrder) :
            TakeExchange(x) /\ data' = [data EXCEPT !.sl = x.id]
     ELSE UNCHANGED <<data, exchange>>
  /\ UNCHANGED <<world, engine_state, meta, queue, job, results, registry>>

\* add_signal: none of the signals raised here has a rank of its own, so the queue is
\* first in, first out.  The signal keeps the amount of the day; what is queued already is
\* not looked at.
AddSignal(a, g) == Append(queue, [amount |-> a, gen |-> g])

\* The thresholds that are checked first: take-profit and stop-loss.
HardExit == price = 5 \/ price = 1

\* evaluate_position_exits: a signal at the thresholds; in between if the position is too
\* old (a choice here).
ManageEvaluate ==
  /\ EngineAt("evaluate", "idle")
  /\ \/ Len(queue) < MaxQueue /\ queue' = AddSignal(qty, gen)
     \/ (~HardExit \/ Len(queue) = MaxQueue) /\ UNCHANGED queue
  /\ data' = NoProtection
  /\ UNCHANGED <<world, engine_state, meta, job, results, registry, exchange>>

-----------------------------------------------------------------------------
(***************************************************************************)
(* Selling: execute_exit_order, by either thread.                          *)
(***************************************************************************)
\* ExitOrderManager._lock.
Selling(t) == pc[t] \in {"ioc", "fallback"}
LockFree   == \A t \in Thread : ~Selling(t)

Goto(t, there) == pc' = [pc EXCEPT ![t] = there]

\* handle_exit_fill: a sale is booked against the position the pair has now.
BookedPositions(r) == IF r.ok THEN NoAmount ELSE positions

\* What is left of the held asset, if the pair still has a position.
BookedHeld(r) ==
  IF r.ok /\ positions # NoAmount
  THEN IF held > r.filled THEN held - r.filled ELSE 0
  ELSE held

\* Mutant: one signal more than max_per_cycle.
PopOneMore ==
  /\ pc.engine \in {"idle", "pop"} /\ Goto("engine", "begin")
  /\ queue # <<>> /\ Len(results) <= MaxPerCycle
  /\ job' = [job EXCEPT !.engine = Head(queue)]
  /\ queue' = Tail(queue)
  /\ UNCHANGED <<world, engine_state, protection, results, registry, exchange>>

\* process_exit_signals takes its next signal.
PopSignal ==
  /\ pc.engine \in {"idle", "pop"} /\ Goto("engine", "begin")
  /\ queue # <<>> /\ Len(results) < MaxPerCycle
  /\ job' = [job EXCEPT !.engine = Head(queue)]
  /\ queue' = Tail(queue)
  /\ UNCHANGED <<world, engine_state, protection, results, registry, exchange>>

\* exit_position: the caller takes the engine's lock and the amount.
ExitPosition ==
  /\ pc.caller = "idle"
  /\ pc.engine \notin {"restore", "evaluate"}
  /\ positions # NoAmount
  /\ job' = [job EXCEPT !.caller = [amount |-> positions, gen |-> gen]]
  /\ Goto("caller", "begin")
  /\ UNCHANGED <<world, engine_state, protection, queue, results, registry, exchange>>

\* Mutant: only a sale that succeeds takes its intent out of the registry.
RegistryKeptOnFailure(r) == registry /\ ~r.ok

\* The finally clause of execute_exit_order.
RegistryAfter(r) == FALSE

\* A sale ends with result r: the intent leaves the registry and the lock is given back.
\* The loop keeps the result for later, the caller books it at once.
Finish(t, r) ==
  /\ registry' = RegistryAfter(r)
  /\ job' = [job EXCEPT ![t] = NoJob]
  /\ IF t = "engine"
     THEN Goto(t, "pop") /\ results' = Append(results, r) /\ UNCHANGED engine_state
     ELSE /\ Goto(t, "idle") /\ UNCHANGED <<results, gen, qty>>
          /\ positions' = BookedPositions(r) /\ held' = BookedHeld(r)

\* Mutant: an order that sold something counts as closed.
WonPartly(os, i) == i # NoOrder /\ os[i].filled > 0

\* An exit is over when its order is closed, that is filled whole.
Won(os, i) == i # NoOrder /\ os[i].filled = os[i].qty

\* The result made from an order, and from none.
ResultOf(t, os, i) ==
  [ok |-> Won(os, i), gen |-> job[t].gen, filled |-> os[i].filled, order |-> i]
Failed(t) == [ok |-> FALSE, gen |-> job[t].gen, filled |-> 0, order |-> NoOrder]

\* execute_exit_order up to the first order: the intent is registered.  Neither look for an
\* earlier order stops it: the request id is new, so the idempotency store never knows it,
\* and the exchange is not reached, for the adapter has no attribute _exchange.
BeginSale(t) ==
  /\ pc[t] = "begin" /\ LockFree /\ ~registry
  /\ registry' = TRUE
  /\ Goto(t, "ioc")
  /\ UNCHANGED <<world, engine_state, protection, queue, job, results, exchange>>

\* _try_limit_ioc_exit when the spread is too wide (a choice here): no order, which to its caller looks
\* like an order not filled.
SkipThin(t) ==
  /\ pc[t] = "ioc"
  /\ Goto(t, "fallback")
  /\ UNCHANGED <<world, engine_state, protection, queue, job, results, registry, exchange>>

\* _try_limit_ioc_exit.
LimitIOC(t) ==
  /\ pc[t] = "ioc"
  /\ \E x \in Place(Now, t, job[t].amount, job[t].gen) :
       /\ TakeExchange(x)
       /\ IF Won(x.orders, x.id)
          THEN Finish(t, ResultOf(t, x.orders, x.id))
          ELSE Goto(t, "fallback") /\ UNCHANGED <<engine_state, job, results, registry>>
  /\ UNCHANGED <<world, protection, queue>>

\* _try_market_exit: the whole amount once more, at the bid.
MarketExit(t) ==
  /\ pc[t] = "fallback"
  /\ \E x \in Place(Now, "market", job[t].amount, job[t].gen) :
       /\ TakeExchange(x)
       /\ Finish(t, IF Won(x.orders, x.id) THEN ResultOf(t, x.orders, x.id) ELSE Failed(t))
  /\ UNCHANGED <<world, protection, queue>>

\* ExitHandler.process_exit_signals books the results one by one when the batch is over.
BookResult ==
  /\ \/ pc.engine = "book"
     \/ pc.engine = "pop" /\ (queue = <<>> \/ Len(results) = MaxPerCycle)
  /\ results' = Tail(results)
  /\ positions' = BookedPositions(Head(results)) /\ held' = BookedHeld(Head(results))
  /\ Goto("engine", IF Len(results) = 1 THEN "idle" ELSE "book")
  /\ UNCHANGED <<world, gen, qty, protection, queue, job, registry, exchange>>

Sell(t) == BeginSale(t) \/ SkipThin(t) \/ LimitIOC(t) \/ MarketExit(t)

Next ==
  \/ Buy \/ ManageSwitch \/ ManageRestore \/ ManageEvaluate
  \/ PopSignal \/ BookResult \/ ExitPosition
  \/ \E t \in Thread : Sell(t)
  \/ ProtectiveFill \/ MarketMoves \/ Tick

Spec == Init /\ [][Next]_vars

-----------------------------------------------------------------------------
(***************************************************************************)
(* Properties.                                                             *)
(***************************************************************************)
\* The order that answered the sale being booked: that of the next result of the batch,
\* or the last of the sale the caller ends.
Answered(i) == \/ pc.engine \in {"pop", "book"} /\ results # <<>> /\ i = Head(results).order
               \/ pc.caller # pc'.caller /\ i = Len(orders')

\* exits.py:1014.  The engine forgets a position only for an order that sold all of it, or
\* for a sale that was not of this position: asked for by a signal raised before it was
\* opened.
ForgottenIsSold ==
  [][(positions # NoAmount /\ positions' = NoAmount) =>
       \E i \in DOMAIN orders' :
         LET o == orders'[i]
         IN  /\ Answered(i) /\ o.filled = o.qty
             /\ o.filled = positions \/ o.gen # gen]_vars

\* The code does not have this property (README, 4.3).
\* exits.py:304.  Two limit exits of the pair never carry the same client order id, its
\* reason and the second: the exchange is asked for an order with that id first.
OneExitPerId ==
  \A i, j \in DOMAIN orders :
    /\ i < j
    /\ orders[i].kind = orders[j].kind /\ orders[i].kind \in ExitKind
    => orders[i].second # orders[j].second

\* position_manager.py:247.  Of one position at most one protective order rests at the
\* exchange, over all switches between take-profit and stop-loss: a second one only if
\* a cancel failed or an answer was lost.
OneProtection ==
  \A i, j \in DOMAIN orders :
    i # j /\ orders[i].open /\ orders[j].open /\ orders[i].gen = orders[j].gen
    => orders[i].doubt \/ orders[j].doubt

\* exits.py:201.  A registered exit intent never outlives its sale, whatever its way out;
\* one that did would have every later exit of the pair refused.
IntentEndsWithSale == registry <=> ~LockFree
=============================================================================
