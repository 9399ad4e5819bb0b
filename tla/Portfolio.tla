------------------------------ MODULE Portfolio ------------------------------
(***************************************************************************)
(* The budget, reservation and position ledger of                          *)
(* core/portfolio/portfolio.py, as functions from a ledger to a ledger.    *)
(*                                                                         *)
(* A ledger is the record of the PortfolioManager attributes that money    *)
(* and positions live in.  The handlers that call several of these methods *)
(* in a row (apply_fills, OrderRouter.handle_intent, TradingEngine.        *)
(* clear_intent) compose the functions in the order of the code.           *)
(*                                                                         *)
(* Quantities are counted in units whose reservation price (last_price) is *)
(* one quote unit, so the notional qty * price of a reservation is qty.    *)
(* An absent dictionary entry is 0 (or NoReservation, or "NONE").          *)
(***************************************************************************)
EXTENDS Integers, FiniteSets

CONSTANTS Sym,           \* trading pairs
          InitialBudget, \* free quote currency at start-up
          MinNotional,   \* RouterConfig.min_notional
          PositionSize,  \* config.POSITION_SIZE_USDT
          MaxPerSymbol,  \* config.MAX_PER_SYMBOL_USD
          MinSlot        \* config.MIN_SLOT_USDT

ASSUME PortfolioAssumption ==
  /\ IsFiniteSet(Sym)
  /\ {InitialBudget, MinNotional, PositionSize, MaxPerSymbol} \subseteq Nat
  /\ MinSlot \in Nat \ {0}

Side == {"buy", "sell"}
PositionState == {"NONE", "OPEN", "PARTIAL_EXIT", "CLOSED"}

\* An entry of active_reservations: the side it was made for and its amount
\* ("quote" for a buy, "base" for a sell).
Reservation == [side : Side \cup {"none"}, amount : Nat]
NoReservation == [side |-> "none", amount |-> 0]

Ledger == [my_budget           : Nat,
           reserved_budget     : Nat,
           reserved_quote      : [Sym -> Nat],
           reserved_base       : [Sym -> Nat],
           active_reservations : [Sym -> Reservation],
           qty                 : [Sym -> Int],
           state               : [Sym -> PositionState],
           held_assets         : [Sym -> Nat]]

EmptyLedger == [my_budget           |-> InitialBudget,
                reserved_budget     |-> 0,
                reserved_quote      |-> [s \in Sym |-> 0],
                reserved_base       |-> [s \in Sym |-> 0],
                active_reservations |-> [s \in Sym |-> NoReservation],
                qty                 |-> [s \in Sym |-> 0],
                state               |-> [s \in Sym |-> "NONE"],
                held_assets         |-> [s \in Sym |-> 0]]

\* Mutant: a subtraction without its clamp.
MonusUnclamped(a, b) == a - b

\* max(0.0, a - b), the clamp every subtraction of the ledger goes through.
Monus(a, b) == IF a >= b THEN a - b ELSE 0

\* The smaller of two amounts.
Lesser(a, b) == IF a <= b THEN a ELSE b

\* The entry left when amt of a reservation r made for side is given back.
Shrink(r, side, amt) ==
  IF r.side # side THEN r
  ELSE IF r.amount > amt THEN [r EXCEPT !.amount = r.amount - amt]
  ELSE NoReservation

\* The entry after reserving amt more: an entry of the other side is replaced.
Grow(r, side, amt) ==
  [side |-> side, amount |-> IF r.side = side THEN r.amount + amt ELSE amt]

get_free_usdt(l) == Monus(l.my_budget, l.reserved_budget)

\* Free base currency: what is held minus what open sells reserve.
get_balance(l, s) == Monus(l.held_assets[s], l.reserved_base[s])

\* What a symbol ties up: what is held of it and what is reserved for it.
get_symbol_exposure_usdt(l, s) == l.held_assets[s] + l.reserved_quote[s]

\* The quote budget of a new buy; below MinSlot there is none.
calculate_position_size(l, s) ==
  Lesser(PositionSize,
         Lesser(get_free_usdt(l), Monus(MaxPerSymbol, get_symbol_exposure_usdt(l, s))))

\* Does reserve() find enough?  reserve_budget compares with the unclamped
\* difference my_budget - reserved_budget.
CanReserve(l, s, side, q) ==
  /\ q >= MinNotional
  /\ IF side = "buy" THEN q <= l.my_budget - l.reserved_budget
                     ELSE q <= get_balance(l, s)

reserve_budget(l, s, amt) ==
  [l EXCEPT !.reserved_budget = @ + amt,
            !.reserved_quote[s] = @ + amt,
            !.active_reservations[s] = Grow(@, "buy", amt)]

\* The reservation of a side: quote budget for a buy, base for a sell.
reserve(l, s, side, q) ==
  IF side = "buy"
  THEN reserve_budget(l, s, q)
  ELSE [l EXCEPT !.reserved_base[s] = @ + q,
                 !.active_reservations[s] = Grow(@, "sell", q)]

\* The symbol's own entries after amt of its quote reservation is given up.
\* They change only while the symbol has a quote reservation at all.
DropQuote(l, s, amt) ==
  IF l.reserved_quote[s] = 0 THEN l
  ELSE [l EXCEPT !.reserved_quote[s] = Monus(@, amt),
                 !.active_reservations[s] = Shrink(@, "buy", amt)]

\* The global counter is lowered by amt whatever the symbol still holds.
release_budget(l, s, amt) ==
  [DropQuote(l, s, amt) EXCEPT !.reserved_budget = Monus(@, amt)]

\* Mutant: what is paid stays reserved.
CommitKeepsReserved(l, s, amt) ==
  [DropQuote(l, s, amt) EXCEPT !.my_budget = Monus(@, amt)]

commit_budget(l, s, amt) ==
  [DropQuote(l, s, amt) EXCEPT !.reserved_budget = Monus(@, amt),
                               !.my_budget = Monus(@, amt)]

DropBase(l, s, q) ==
  [l EXCEPT !.reserved_base[s] = Monus(@, q),
            !.active_reservations[s] = Shrink(@, "sell", q)]

release(l, s, side, q) ==
  IF side = "buy" THEN release_budget(l, s, q) ELSE DropBase(l, s, q)

-----------------------------------------------------------------------------
(***************************************************************************)
(* apply_fills, for the trades of one order: they all have the order's     *)
(* side, so they are summarised by [side, qty, cash].  For a buy, cash is  *)
(* the notional plus the fees; for a sell, the notional less the fees.     *)
(***************************************************************************)
Trades == [side : Side, qty : Nat, cash : Nat]

\* _is_reducing: the list of trades holds both sides.
IsReducing(sides) == Side \subseteq sides

NextPositionState(st, q, sides) ==
  CASE q = 0                              -> "CLOSED"
    [] q # 0 /\ st = "NONE"               -> "OPEN"
    [] q # 0 /\ st = "OPEN" /\ IsReducing(sides) -> "PARTIAL_EXIT"
    [] OTHER                              -> st

\* The position part: quantity and life-cycle state.
MovePosition(l, s, t) ==
  LET q == IF t.side = "buy" THEN l.qty[s] + t.qty ELSE l.qty[s] - t.qty
  IN  [l EXCEPT !.qty[s] = q,
                !.state[s] = NextPositionState(@, q, {t.side})]

\* Mutant: what a buy cost beyond its reservation is not paid.
PayBuyNoExcess(l, s, cost) ==
  LET reserved == l.reserved_quote[s]
  IN  release_budget(commit_budget(l, s, Lesser(reserved, cost)), s,
                     Monus(reserved, cost))

\* A buy commits what it cost up to the symbol's reservation, gives back the
\* whole surplus of that reservation, and pays any excess from the budget.
PayBuy(l, s, cost) ==
  LET reserved  == l.reserved_quote[s]
      committed == commit_budget(l, s, Lesser(reserved, cost))
      released  == release_budget(committed, s, Monus(reserved, cost))
  IN  [released EXCEPT !.my_budget = Monus(@, Monus(cost, reserved))]

\* A sell uses up its base reservation: the entry is set to what remains.
UseBase(l, s, q) ==
  LET remaining == Monus(l.reserved_base[s], q)
  IN  [l EXCEPT !.reserved_base[s] = remaining,
                !.active_reservations[s] =
                   IF @.side # "sell" THEN @
                   ELSE IF remaining = 0 THEN NoReservation
                   ELSE [@ EXCEPT !.amount = remaining]]

\* The proceeds of a sell are added to the budget.
BookSell(l, s, q, proceeds) ==
  [UseBase(l, s, q) EXCEPT !.my_budget = @ + proceeds]

\* add_held_asset adds to what is held already; remove_held_asset forgets it.
SyncHeldAsset(l, s) ==
  [l EXCEPT !.held_assets[s] = IF l.qty[s] > 0 THEN @ + l.qty[s]
                               ELSE IF l.state[s] = "CLOSED" THEN 0 ELSE @]

apply_fills(l, s, t) ==
  LET moved == MovePosition(l, s, t)
      paid  == IF t.side = "buy" THEN PayBuy(moved, s, t.cash)
                                 ELSE BookSell(moved, s, t.qty, t.cash)
  IN  SyncHeldAsset(paid, s)
=============================================================================
