--------------------------- MODULE OrderRouterProofs ---------------------------
(***************************************************************************)
(* Proofs about OrderRouter and the ledger of Portfolio, for every set of  *)
(* symbols, every number of intents, every retry limit, either time in     *)
(* force and every subset of the faults:                                   *)
(*   - TypeOK and the inductive invariant Consistent;                      *)
(*   - an intent is told of once, and its attempts are bounded;            *)
(*   - the order flow implements IntentContract;                           *)
(*   - every fill that the router knows of is on the exchange, and what is *)
(*     reserved is what the open intents still hold;                       *)
(*   - handling an intent takes a bounded number of steps.                 *)
(* When orders are immediate or cancel, every answer arrives and there is  *)
(* no take profit order, the portfolio is what the account holds, and the  *)
(* position limit is kept.                                                 *)
(***************************************************************************)
EXTENDS OrderRouter, SumTheorems, SequenceTheorems

(***************************************************************************)
(* The ledger functions of Portfolio: every one of them turns a ledger     *)
(* into a ledger, so no balance ever becomes negative.                     *)
(***************************************************************************)

\* The clamp keeps amounts natural and never adds (max(0.0, a - b)).
LEMMA MonusType ==
  ASSUME NEW a \in Nat, NEW b \in Nat
  PROVE  Monus(a, b) \in Nat /\ Monus(a, b) <= a
BY DEF Monus

\* The lesser of two amounts is one of them.
LEMMA LesserType ==
  ASSUME NEW a \in Nat, NEW b \in Nat
  PROVE  Lesser(a, b) \in Nat /\ Lesser(a, b) <= a /\ Lesser(a, b) <= b
BY DEF Lesser

\* Giving back part of a reservation leaves a reservation.
LEMMA ShrinkType ==
  ASSUME NEW r \in Reservation, NEW sd, NEW amt \in Nat
  PROVE  Shrink(r, sd, amt) \in Reservation
BY DEF Shrink, Reservation, NoReservation, Side

\* Adding to a reservation leaves a reservation.
LEMMA GrowType ==
  ASSUME NEW r \in Reservation, NEW sd \in Side, NEW amt \in Nat
  PROVE  Grow(r, sd, amt) \in Reservation
BY DEF Grow, Reservation, Side

\* The ledger at start-up.
LEMMA EmptyLedgerType == EmptyLedger \in Ledger
BY PortfolioAssumption
   DEF EmptyLedger, Ledger, NoReservation, Reservation, PositionState

\* reserve_budget turns a ledger into a ledger.
LEMMA ReserveBudgetType ==
  ASSUME NEW l \in Ledger, NEW s \in Sym, NEW amt \in Nat
  PROVE  reserve_budget(l, s, amt) \in Ledger
<1>1. Grow(l.active_reservations[s], "buy", amt) \in Reservation
  BY GrowType DEF Ledger, Side
<1>2. l.reserved_budget + amt \in Nat /\ l.reserved_quote[s] + amt \in Nat
  BY DEF Ledger
<1>3. QED
  BY <1>1, <1>2 DEF reserve_budget, Ledger

\* So does reserve, on either side.
LEMMA ReserveType ==
  ASSUME NEW l \in Ledger, NEW s \in Sym, NEW sd \in Side, NEW q \in Nat
  PROVE  reserve(l, s, sd, q) \in Ledger
<1>1. Grow(l.active_reservations[s], "sell", q) \in Reservation
  BY GrowType DEF Ledger, Side
<1>2. l.reserved_base[s] + q \in Nat
  BY DEF Ledger
<1>3. CASE sd = "buy"
  BY <1>3, ReserveBudgetType DEF reserve
<1>4. CASE sd # "buy"
  BY <1>1, <1>2, <1>4 DEF reserve, Ledger
<1>5. QED
  BY <1>3, <1>4

\* Taking quote out of a symbol's reservations leaves a ledger.
LEMMA DropQuoteType ==
  ASSUME NEW l \in Ledger, NEW s \in Sym, NEW amt \in Nat
  PROVE  DropQuote(l, s, amt) \in Ledger
<1>1. Shrink(l.active_reservations[s], "buy", amt) \in Reservation
  BY ShrinkType DEF Ledger
<1>2. Monus(l.reserved_quote[s], amt) \in Nat
  BY MonusType DEF Ledger
<1>3. QED
  BY <1>1, <1>2 DEF DropQuote, Ledger

\* release_budget turns a ledger into a ledger, however often it is called.
LEMMA ReleaseBudgetType ==
  ASSUME NEW l \in Ledger, NEW s \in Sym, NEW amt \in Nat
  PROVE  release_budget(l, s, amt) \in Ledger
<1> DEFINE d == DropQuote(l, s, amt)
<1>1. d \in Ledger
  BY DropQuoteType
<1>2. Monus(d.reserved_budget, amt) \in Nat
  BY <1>1, MonusType DEF Ledger
<1>3. QED
  BY <1>1, <1>2 DEF release_budget, Ledger

\* So does commit_budget.
LEMMA CommitBudgetType ==
  ASSUME NEW l \in Ledger, NEW s \in Sym, NEW amt \in Nat
  PROVE  commit_budget(l, s, amt) \in Ledger
<1> DEFINE d == DropQuote(l, s, amt)
<1>1. d \in Ledger
  BY DropQuoteType
<1>2. /\ Monus(d.reserved_budget, amt) \in Nat
      /\ Monus(d.my_budget, amt) \in Nat
  BY <1>1, MonusType DEF Ledger
<1>3. QED
  BY <1>1, <1>2 DEF commit_budget, Ledger

\* Taking base out of a symbol's reservations leaves a ledger.
LEMMA DropBaseType ==
  ASSUME NEW l \in Ledger, NEW s \in Sym, NEW q \in Nat
  PROVE  DropBase(l, s, q) \in Ledger
<1>1. Shrink(l.active_reservations[s], "sell", q) \in Reservation
  BY ShrinkType DEF Ledger
<1>2. Monus(l.reserved_base[s], q) \in Nat
  BY MonusType DEF Ledger
<1>3. QED
  BY <1>1, <1>2 DEF DropBase, Ledger

\* release of either side: OrderRouter._release_budget.
LEMMA ReleaseType ==
  ASSUME NEW l \in Ledger, NEW s \in Sym, NEW sd, NEW q \in Nat
  PROVE  release(l, s, sd, q) \in Ledger
BY ReleaseBudgetType, DropBaseType DEF release

-----------------------------------------------------------------------------
\* A trade moves a position to a position.
LEMMA MovePositionType ==
  ASSUME NEW l \in Ledger, NEW s \in Sym, NEW t \in Trades
  PROVE  MovePosition(l, s, t) \in Ledger
<1> DEFINE q == IF t.side = "buy" THEN l.qty[s] + t.qty ELSE l.qty[s] - t.qty
<1>1. q \in Int
  BY DEF Ledger, Trades
<1>2. NextPositionState(l.state[s], q, {t.side}) \in PositionState
  BY DEF NextPositionState, Ledger, PositionState
<1>3. QED
  BY <1>1, <1>2 DEF MovePosition, Ledger

\* Paying for a buy, out of its reservation or beyond it, leaves a ledger.
LEMMA PayBuyType ==
  ASSUME NEW l \in Ledger, NEW s \in Sym, NEW cost \in Nat
  PROVE  PayBuy(l, s, cost) \in Ledger
<1> DEFINE reserved  == l.reserved_quote[s]
           committed == commit_budget(l, s, Lesser(reserved, cost))
           released  == release_budget(committed, s, Monus(reserved, cost))
<1>1. reserved \in Nat
  BY DEF Ledger
<1>2. committed \in Ledger
  BY <1>1, LesserType, CommitBudgetType
<1>3. released \in Ledger
  BY <1>1, <1>2, MonusType, ReleaseBudgetType
<1>4. Monus(released.my_budget, Monus(cost, reserved)) \in Nat
  BY <1>1, <1>3, MonusType DEF Ledger
<1>5. QED
  BY <1>3, <1>4 DEF PayBuy, Ledger

\* A base reservation may be set to any amount.
LEMMA SetBaseType ==
  ASSUME NEW l \in Ledger, NEW s \in Sym, NEW q \in Nat, NEW r \in Reservation
  PROVE  [l EXCEPT !.reserved_base[s] = q, !.active_reservations[s] = r] \in Ledger
BY DEF Ledger

\* Using up reserved base leaves a ledger.
LEMMA UseBaseType ==
  ASSUME NEW l \in Ledger, NEW s \in Sym, NEW q \in Nat
  PROVE  UseBase(l, s, q) \in Ledger
<1> DEFINE remaining == Monus(l.reserved_base[s], q)
           r == l.active_reservations[s]
           left == IF r.side # "sell" THEN r
                   ELSE IF remaining = 0 THEN NoReservation
                   ELSE [r EXCEPT !.amount = remaining]
<1>1. remaining \in Nat
  BY MonusType DEF Ledger
<1>2. left \in Reservation
  BY <1>1 DEF Ledger, Reservation, NoReservation
<1>3. UseBase(l, s, q) = [l EXCEPT !.reserved_base[s] = remaining,
                                   !.active_reservations[s] = left]
  BY DEF UseBase
<1>4. [l EXCEPT !.reserved_base[s] = remaining,
                !.active_reservations[s] = left] \in Ledger
  <2> HIDE DEF remaining, left
  <2> QED
    BY <1>1, <1>2, SetBaseType
<1>5. QED
  BY <1>3, <1>4

\* Booking a sale leaves a ledger.
LEMMA BookSellType ==
  ASSUME NEW l \in Ledger, NEW s \in Sym, NEW q \in Nat, NEW proceeds \in Nat
  PROVE  BookSell(l, s, q, proceeds) \in Ledger
<1> DEFINE d == UseBase(l, s, q)
<1>1. d \in Ledger
  BY UseBaseType
<1>2. d.my_budget + proceeds \in Nat
  BY <1>1 DEF Ledger
<1>3. QED
  BY <1>1, <1>2 DEF BookSell, Ledger

\* Copying a position to held_assets leaves a ledger.
LEMMA SyncHeldAssetType ==
  ASSUME NEW l \in Ledger, NEW s \in Sym
  PROVE  SyncHeldAsset(l, s) \in Ledger
<1> DEFINE h == IF l.qty[s] > 0 THEN l.held_assets[s] + l.qty[s]
                ELSE IF l.state[s] = "CLOSED" THEN 0 ELSE l.held_assets[s]
<1>1. h \in Nat
  BY DEF Ledger
<1>2. QED
  BY <1>1 DEF SyncHeldAsset, Ledger

\* Booking the trades of an order keeps every balance a natural number.
LEMMA ApplyFillsType ==
  ASSUME NEW l \in Ledger, NEW s \in Sym, NEW t \in Trades
  PROVE  apply_fills(l, s, t) \in Ledger
<1> DEFINE moved == MovePosition(l, s, t)
           paid  == IF t.side = "buy" THEN PayBuy(moved, s, t.cash)
                                      ELSE BookSell(moved, s, t.qty, t.cash)
<1>1. moved \in Ledger
  BY MovePositionType
<1>2. t.qty \in Nat /\ t.cash \in Nat
  BY DEF Trades
<1>3. paid \in Ledger
  BY <1>1, <1>2, PayBuyType, BookSellType
<1>4. QED
  BY <1>3, SyncHeldAssetType DEF apply_fills

-----------------------------------------------------------------------------
(***************************************************************************)
(* What the ledger functions do to budget, reservations and positions.     *)
(***************************************************************************)
\* One entry lowered, down to 0, and one entry raised.
Less(f, s, amt) == [f EXCEPT ![s] = Monus(@, amt)]
More(f, s, amt) == [f EXCEPT ![s] = @ + amt]

\* What the trades of an order add to the position.
Signed(t) == IF t.side = "buy" THEN t.qty ELSE 0 - t.qty

\* What a ledger consists of.
LEMMA LedgerFields ==
  ASSUME NEW l \in Ledger
  PROVE  /\ l.my_budget \in Nat /\ l.reserved_budget \in Nat
         /\ l.reserved_quote \in [Sym -> Nat] /\ l.reserved_base \in [Sym -> Nat]
         /\ l.active_reservations \in [Sym -> Reservation]
         /\ l.qty \in [Sym -> Int] /\ l.state \in [Sym -> PositionState]
         /\ l.held_assets \in [Sym -> Nat]
BY DEF Ledger

\* Giving up amt of a symbol's quote reservation touches that symbol only.
LEMMA DropQuoteEffect ==
  ASSUME NEW l \in Ledger, NEW s \in Sym, NEW amt \in Nat
  PROVE  LET m == DropQuote(l, s, amt)
         IN  /\ m.reserved_quote = Less(l.reserved_quote, s, amt)
             /\ m.reserved_budget = l.reserved_budget
             /\ m.reserved_base = l.reserved_base /\ m.my_budget = l.my_budget
             /\ m.qty = l.qty /\ m.state = l.state /\ m.held_assets = l.held_assets
<1>1. CASE l.reserved_quote[s] = 0
  <2>1. l.reserved_quote = Less(l.reserved_quote, s, amt)
    BY <1>1, LedgerFields DEF Monus, Less
  <2>2. QED
    BY <1>1, <2>1 DEF DropQuote
<1>2. CASE l.reserved_quote[s] # 0
  BY <1>2 DEF DropQuote, Ledger, Less
<1>3. QED
  BY <1>1, <1>2

\* release_budget takes the amount from both records, clamped, and from nothing else.
LEMMA ReleaseBudgetEffect ==
  ASSUME NEW l \in Ledger, NEW s \in Sym, NEW amt \in Nat
  PROVE  LET m == release_budget(l, s, amt)
         IN  /\ m.reserved_quote = Less(l.reserved_quote, s, amt)
             /\ m.reserved_budget = Monus(l.reserved_budget, amt)
             /\ m.reserved_base = l.reserved_base /\ m.my_budget = l.my_budget
             /\ m.qty = l.qty /\ m.state = l.state /\ m.held_assets = l.held_assets
<1> DEFINE d == DropQuote(l, s, amt)
<1>1. d \in Ledger
  BY DropQuoteType
<1>2. /\ d.reserved_quote = Less(l.reserved_quote, s, amt)
      /\ d.reserved_budget = l.reserved_budget
      /\ d.reserved_base = l.reserved_base /\ d.my_budget = l.my_budget
      /\ d.qty = l.qty /\ d.state = l.state /\ d.held_assets = l.held_assets
  BY DropQuoteEffect
<1>3. release_budget(l, s, amt) = [d EXCEPT !.reserved_budget = Monus(@, amt)]
  BY DEF release_budget
<1> HIDE DEF d
<1>4. QED
  BY <1>1, <1>2, <1>3 DEF Ledger

\* commit_budget takes it from the budget as well.
LEMMA CommitBudgetEffect ==
  ASSUME NEW l \in Ledger, NEW s \in Sym, NEW amt \in Nat
  PROVE  LET m == commit_budget(l, s, amt)
         IN  /\ m.reserved_quote = Less(l.reserved_quote, s, amt)
             /\ m.reserved_budget = Monus(l.reserved_budget, amt)
             /\ m.reserved_base = l.reserved_base
             /\ m.my_budget = Monus(l.my_budget, amt)
             /\ m.qty = l.qty /\ m.state = l.state /\ m.held_assets = l.held_assets
<1> DEFINE d == DropQuote(l, s, amt)
<1>1. d \in Ledger
  BY DropQuoteType
<1>2. /\ d.reserved_quote = Less(l.reserved_quote, s, amt)
      /\ d.reserved_budget = l.reserved_budget
      /\ d.reserved_base = l.reserved_base /\ d.my_budget = l.my_budget
      /\ d.qty = l.qty /\ d.state = l.state /\ d.held_assets = l.held_assets
  BY DropQuoteEffect
<1>3. commit_budget(l, s, amt) = [d EXCEPT !.reserved_budget = Monus(@, amt),
                                           !.my_budget = Monus(@, amt)]
  BY DEF commit_budget
<1> HIDE DEF d
<1>4. QED
  BY <1>1, <1>2, <1>3 DEF Ledger

\* A buy gives back the symbol's whole reservation and pays exactly what it
\* cost, as far as the budget reaches (_process_buy_trades).
LEMMA PayBuyEffect ==
  ASSUME NEW l \in Ledger, NEW s \in Sym, NEW cost \in Nat
  PROVE  LET m == PayBuy(l, s, cost)
             r == l.reserved_quote[s]
         IN  /\ m.reserved_quote = Less(l.reserved_quote, s, r)
             /\ m.reserved_budget = Monus(l.reserved_budget, r)
             /\ m.reserved_base = l.reserved_base
             /\ m.my_budget = Monus(l.my_budget, cost)
             /\ m.qty = l.qty /\ m.state = l.state /\ m.held_assets = l.held_assets
<1> DEFINE r == l.reserved_quote[s]
           a == Lesser(r, cost)
           b == Monus(r, cost)
           c == commit_budget(l, s, a)
           d == release_budget(c, s, b)
<1>1. r \in Nat
  BY LedgerFields
<1>2. a \in Nat /\ b \in Nat /\ a + b = r /\ a + Monus(cost, r) = cost
  BY <1>1 DEF Lesser, Monus
<1>3. c \in Ledger
  BY <1>2, CommitBudgetType
<1>4. d \in Ledger
  BY <1>2, <1>3, ReleaseBudgetType
<1>5. /\ c.reserved_quote = Less(l.reserved_quote, s, a)
      /\ c.reserved_budget = Monus(l.reserved_budget, a)
      /\ c.reserved_base = l.reserved_base
      /\ c.my_budget = Monus(l.my_budget, a)
      /\ c.qty = l.qty /\ c.state = l.state /\ c.held_assets = l.held_assets
  BY <1>2, CommitBudgetEffect
<1>6. /\ d.reserved_quote = Less(c.reserved_quote, s, b)
      /\ d.reserved_budget = Monus(c.reserved_budget, b)
      /\ d.reserved_base = c.reserved_base /\ d.my_budget = c.my_budget
      /\ d.qty = c.qty /\ d.state = c.state /\ d.held_assets = c.held_assets
  BY <1>2, <1>3, ReleaseBudgetEffect
<1>7. PayBuy(l, s, cost) = [d EXCEPT !.my_budget = Monus(@, Monus(cost, r))]
  BY DEF PayBuy
<1>8. ASSUME NEW x \in Nat
      PROVE  /\ Monus(Monus(x, a), b) = Monus(x, r)
             /\ Monus(Monus(x, a), Monus(cost, r)) = Monus(x, cost)
  BY <1>1 DEF Monus, Lesser
<1> HIDE DEF a, b, c, d
<1>9. d.reserved_quote = Less(l.reserved_quote, s, r)
  BY <1>1, <1>5, <1>6, <1>8, LedgerFields DEF Less
<1>10. QED
  BY <1>4, <1>5, <1>6, <1>7, <1>8, <1>9, LedgerFields DEF Ledger

\* A trade changes its symbol's position only.
LEMMA MovePositionEffect ==
  ASSUME NEW l \in Ledger, NEW s \in Sym, NEW t \in Trades
  PROVE  LET m == MovePosition(l, s, t)
         IN  /\ m.qty = More(l.qty, s, Signed(t))
             /\ m.reserved_quote = l.reserved_quote /\ m.reserved_base = l.reserved_base
             /\ m.reserved_budget = l.reserved_budget /\ m.my_budget = l.my_budget
             /\ m.held_assets = l.held_assets
<1> DEFINE q == IF t.side = "buy" THEN l.qty[s] + t.qty ELSE l.qty[s] - t.qty
<1>1. l.qty \in [Sym -> Int] /\ t.qty \in Nat
  BY LedgerFields DEF Trades
<1>2. q = l.qty[s] + Signed(t)
  BY <1>1 DEF Signed
<1>3. MovePosition(l, s, t) =
        [l EXCEPT !.qty[s] = q, !.state[s] = NextPositionState(@, q, {t.side})]
  BY DEF MovePosition
<1> HIDE DEF q
<1>4. QED
  BY <1>1, <1>2, <1>3 DEF Ledger, More

\* A position that is still open after a booking is known to be held.
LEMMA SyncHeldAssetEffect ==
  ASSUME NEW l \in Ledger, NEW s \in Sym
  PROVE  LET m == SyncHeldAsset(l, s)
         IN  /\ m.qty = l.qty
             /\ m.reserved_quote = l.reserved_quote /\ m.reserved_base = l.reserved_base
             /\ m.reserved_budget = l.reserved_budget /\ m.my_budget = l.my_budget
             /\ \A u \in Sym : u # s => m.held_assets[u] = l.held_assets[u]
             /\ l.qty[s] > 0 => m.held_assets[s] > 0
<1> DEFINE h == IF l.qty[s] > 0 THEN l.held_assets[s] + l.qty[s]
                ELSE IF l.state[s] = "CLOSED" THEN 0 ELSE l.held_assets[s]
<1>1. l.held_assets \in [Sym -> Nat] /\ l.qty[s] \in Int
  BY LedgerFields
<1>2. SyncHeldAsset(l, s) = [l EXCEPT !.held_assets[s] = h]
  BY DEF SyncHeldAsset
<1>3. l.qty[s] > 0 => h > 0
  BY <1>1
<1> HIDE DEF h
<1>4. QED
  BY <1>1, <1>2, <1>3 DEF Ledger

\* A sale takes its base from the reservation and adds its proceeds to the budget.
LEMMA BookSellEffect ==
  ASSUME NEW l \in Ledger, NEW s \in Sym, NEW q \in Nat, NEW proceeds \in Nat
  PROVE  LET m == BookSell(l, s, q, proceeds)
         IN  /\ m.reserved_base = Less(l.reserved_base, s, q)
             /\ m.my_budget = l.my_budget + proceeds
             /\ m.reserved_quote = l.reserved_quote
             /\ m.reserved_budget = l.reserved_budget
             /\ m.qty = l.qty /\ m.held_assets = l.held_assets
BY DEF BookSell, UseBase, Ledger, Less

\* What booking the trades of one order does to money, reservations and positions.
LEMMA ApplyFillsEffect ==
  ASSUME NEW l \in Ledger, NEW s \in Sym, NEW t \in Trades
  PROVE  LET m == apply_fills(l, s, t)
             r == l.reserved_quote[s]
         IN  /\ m.qty = More(l.qty, s, Signed(t))
             /\ t.side = "buy" =>
                  /\ m.reserved_quote = Less(l.reserved_quote, s, r)
                  /\ m.reserved_budget = Monus(l.reserved_budget, r)
                  /\ m.reserved_base = l.reserved_base
                  /\ m.my_budget = Monus(l.my_budget, t.cash)
             /\ t.side # "buy" =>
                  /\ m.reserved_quote = l.reserved_quote
                  /\ m.reserved_budget = l.reserved_budget
                  /\ m.reserved_base = Less(l.reserved_base, s, t.qty)
                  /\ m.my_budget = l.my_budget + t.cash
             /\ \A u \in Sym : u # s => m.held_assets[u] = l.held_assets[u]
             /\ m.qty[s] > 0 => m.held_assets[s] > 0
<1> DEFINE r == l.reserved_quote[s]
           v == MovePosition(l, s, t)
           p == IF t.side = "buy" THEN PayBuy(v, s, t.cash) ELSE BookSell(v, s, t.qty, t.cash)
           m == SyncHeldAsset(p, s)
<1>1. t.qty \in Nat /\ t.cash \in Nat
  BY DEF Trades
<1>2. v \in Ledger
  BY MovePositionType
<1>3. p \in Ledger
  BY <1>1, <1>2, PayBuyType, BookSellType
<1>4. /\ v.qty = More(l.qty, s, Signed(t))
      /\ v.reserved_quote = l.reserved_quote /\ v.reserved_base = l.reserved_base
      /\ v.reserved_budget = l.reserved_budget /\ v.my_budget = l.my_budget
      /\ v.held_assets = l.held_assets
  BY MovePositionEffect
<1> HIDE DEF v
<1>5. CASE t.side = "buy"
  <2>1. p = PayBuy(v, s, t.cash)
    BY <1>5
  <2>2. /\ p.reserved_quote = Less(l.reserved_quote, s, r)
        /\ p.reserved_budget = Monus(l.reserved_budget, r)
        /\ p.reserved_base = l.reserved_base
        /\ p.my_budget = Monus(l.my_budget, t.cash)
        /\ p.qty = v.qty /\ p.held_assets = l.held_assets
    BY <1>1, <1>2, <1>4, <2>1, PayBuyEffect
  <2> HIDE DEF p
  <2>3. apply_fills(l, s, t) = m
    BY DEF apply_fills, p, v
  <2>4. /\ m.qty = p.qty
        /\ m.reserved_quote = p.reserved_quote /\ m.reserved_base = p.reserved_base
        /\ m.reserved_budget = p.reserved_budget /\ m.my_budget = p.my_budget
        /\ \A u \in Sym : u # s => m.held_assets[u] = p.held_assets[u]
        /\ p.qty[s] > 0 => m.held_assets[s] > 0
    BY <1>3, SyncHeldAssetEffect
  <2> HIDE DEF m
  <2>5. QED
    BY <1>4, <1>5, <2>2, <2>3, <2>4
<1>6. CASE t.side # "buy"
  <2>1. p = BookSell(v, s, t.qty, t.cash)
    BY <1>6
  <2>2. /\ p.reserved_base = Less(l.reserved_base, s, t.qty)
        /\ p.my_budget = l.my_budget + t.cash
        /\ p.reserved_quote = l.reserved_quote
        /\ p.reserved_budget = l.reserved_budget
        /\ p.qty = v.qty /\ p.held_assets = l.held_assets
    BY <1>1, <1>2, <1>4, <2>1, BookSellEffect
  <2> HIDE DEF p
  <2>3. apply_fills(l, s, t) = m
    BY DEF apply_fills, p, v
  <2>4. /\ m.qty = p.qty
        /\ m.reserved_quote = p.reserved_quote /\ m.reserved_base = p.reserved_base
        /\ m.reserved_budget = p.reserved_budget /\ m.my_budget = p.my_budget
        /\ \A u \in Sym : u # s => m.held_assets[u] = p.held_assets[u]
        /\ p.qty[s] > 0 => m.held_assets[s] > 0
    BY <1>3, SyncHeldAssetEffect
  <2> HIDE DEF m
  <2>5. QED
    BY <1>4, <1>6, <2>2, <2>3, <2>4
<1>7. QED
  BY <1>5, <1>6

\* Giving a reservation up, of either side.
LEMMA ReleaseEffect ==
  ASSUME NEW l \in Ledger, NEW s \in Sym, NEW sd, NEW amt \in Nat
  PROVE  LET m == release(l, s, sd, amt)
         IN  /\ sd = "buy" =>
                  /\ m.reserved_quote = Less(l.reserved_quote, s, amt)
                  /\ m.reserved_budget = Monus(l.reserved_budget, amt)
                  /\ m.reserved_base = l.reserved_base
             /\ sd # "buy" =>
                  /\ m.reserved_base = Less(l.reserved_base, s, amt)
                  /\ m.reserved_quote = l.reserved_quote
                  /\ m.reserved_budget = l.reserved_budget
             /\ m.my_budget = l.my_budget /\ m.qty = l.qty /\ m.held_assets = l.held_assets
<1>1. CASE sd = "buy"
  BY <1>1, ReleaseBudgetEffect DEF release
<1>2. CASE sd # "buy"
  BY <1>2 DEF release, DropBase, Ledger, Less
<1>3. QED
  BY <1>1, <1>2

\* reserve adds the amount to both records of its side.
LEMMA ReserveEffect ==
  ASSUME NEW l \in Ledger, NEW s \in Sym, NEW sd, NEW amt \in Nat
  PROVE  LET m == reserve(l, s, sd, amt)
         IN  /\ sd = "buy" =>
                  /\ m.reserved_quote = More(l.reserved_quote, s, amt)
                  /\ m.reserved_budget = l.reserved_budget + amt
                  /\ m.reserved_base = l.reserved_base
             /\ sd # "buy" =>
                  /\ m.reserved_base = More(l.reserved_base, s, amt)
                  /\ m.reserved_quote = l.reserved_quote
                  /\ m.reserved_budget = l.reserved_budget
             /\ m.my_budget = l.my_budget /\ m.qty = l.qty /\ m.held_assets = l.held_assets
BY DEF reserve, reserve_budget, Ledger, More

\* A reservation counter that counts no more than the reservations behind it.
AddsUp(l) == l.reserved_budget <= SumFunctionOnSet(l.reserved_quote, Sym)

\* Each of the two records clamps on its own; the counter still never exceeds
\* the sum, because it loses at least what the symbol loses.
LEMMA LowerAddsUp ==
  ASSUME NEW l \in Ledger, NEW m \in Ledger, AddsUp(l), NEW s \in Sym, NEW amt \in Nat,
         m.reserved_budget = Monus(l.reserved_budget, amt),
         m.reserved_quote = Less(l.reserved_quote, s, amt)
  PROVE  AddsUp(m) /\ \A u \in Sym : m.reserved_quote[u] <= l.reserved_quote[u]
<1> DEFINE f == l.reserved_quote
           g == m.reserved_quote
<1>1. f \in [Sym -> Nat] /\ g \in [Sym -> Nat] /\ l.reserved_budget \in Nat
  BY LedgerFields
<1>2. g[s] = Monus(f[s], amt) /\ \A u \in Sym : u # s => f[u] = g[u]
  BY <1>1 DEF Less
<1>3. IsFiniteSet(Sym) /\ \A u \in Sym : f[u] \in Nat /\ g[u] \in Nat
  BY <1>1, PortfolioAssumption
<1> HIDE DEF f, g
<1>4. SumFunctionOnSet(g, Sym) = SumFunctionOnSet(f, Sym) - f[s] + g[s]
  BY <1>2, <1>3, SumChange
<1>5. SumFunctionOnSet(g, Sym) \in Nat /\ SumFunctionOnSet(f, Sym) \in Nat
  BY <1>3, SumType
<1>6. l.reserved_budget <= SumFunctionOnSet(f, Sym)
  BY DEF AddsUp, f
<1>7. m.reserved_budget <= SumFunctionOnSet(g, Sym)
  BY <1>1, <1>2, <1>3, <1>4, <1>5, <1>6 DEF Monus
<1>8. \A u \in Sym : g[u] <= f[u]
  BY <1>2, <1>3 DEF Monus
<1>9. QED
  BY <1>7, <1>8 DEF AddsUp, f, g

\* A new reservation enters both records.
LEMMA RaiseAddsUp ==
  ASSUME NEW l \in Ledger, NEW m \in Ledger, AddsUp(l), NEW s \in Sym, NEW amt \in Nat,
         m.reserved_budget = l.reserved_budget + amt,
         m.reserved_quote = More(l.reserved_quote, s, amt)
  PROVE  AddsUp(m)
<1> DEFINE f == l.reserved_quote
           g == m.reserved_quote
<1>1. f \in [Sym -> Nat] /\ g \in [Sym -> Nat] /\ l.reserved_budget \in Nat
  BY LedgerFields
<1>2. g[s] = f[s] + amt /\ \A u \in Sym : u # s => f[u] = g[u]
  BY <1>1 DEF More
<1>3. IsFiniteSet(Sym) /\ \A u \in Sym : f[u] \in Nat /\ g[u] \in Nat
  BY <1>1, PortfolioAssumption
<1> HIDE DEF f, g
<1>4. SumFunctionOnSet(g, Sym) = SumFunctionOnSet(f, Sym) - f[s] + g[s]
  BY <1>2, <1>3, SumChange
<1>5. SumFunctionOnSet(g, Sym) \in Nat /\ SumFunctionOnSet(f, Sym) \in Nat
  BY <1>3, SumType
<1>6. l.reserved_budget <= SumFunctionOnSet(f, Sym)
  BY DEF AddsUp, f
<1>7. QED
  BY <1>1, <1>2, <1>3, <1>4, <1>5, <1>6 DEF AddsUp, g

-----------------------------------------------------------------------------
(***************************************************************************)
(* Types.                                                                  *)
(***************************************************************************)
\* What an intent asks for.
LEMMA RequestType ==
  ASSUME TypeOK, NEW i \in DOMAIN req
  PROVE  /\ i \in Intent
         /\ req[i].sym \in Sym
         /\ req[i].side \in Side
         /\ req[i].qty \in Nat \ {0}
         /\ req[i].quote_budget \in Nat
<1>1. DOMAIN req = 1..Len(req) /\ Len(req) \in Nat /\ req[i] \in Request
  BY DEF TypeOK
<1>2. i \in Intent
  BY <1>1, RouterAssumption DEF TypeOK, Intent
<1>3. QED
  BY <1>1, <1>2 DEF Request

\* clear_intent leaves a ledger, for an intent that exists.
LEMMA ClearedType ==
  ASSUME TypeOK, NEW l \in Ledger, NEW i \in DOMAIN req
  PROVE  Cleared(l, i) \in Ledger
BY RequestType, ReleaseBudgetType DEF Cleared

\* The size of a new buy is a natural number.
LEMMA PositionSizeType ==
  ASSUME NEW l \in Ledger, NEW s \in Sym
  PROVE  calculate_position_size(l, s) \in Nat
<1>1. get_free_usdt(l) \in Nat
  BY MonusType DEF get_free_usdt, Ledger
<1>2. get_symbol_exposure_usdt(l, s) \in Nat
  BY DEF get_symbol_exposure_usdt, Ledger
<1>3. Monus(MaxPerSymbol, get_symbol_exposure_usdt(l, s)) \in Nat
  BY <1>2, MonusType, PortfolioAssumption
<1>4. QED
  BY <1>1, <1>3, LesserType, PortfolioAssumption DEF calculate_position_size

\* What an execution leaves of the cash is an amount.
LEMMA CashType ==
  ASSUME NEW sd, NEW q \in Nat, NEW x \in Nat
  PROVE  Cash(sd, q, x) \in Nat
BY MonusType DEF Cash

\* What an account consists of.
LEMMA AccountType ==
  ASSUME account \in Account, NEW s \in Sym
  PROVE  /\ account = [base |-> account.base, resting |-> account.resting,
                       quote |-> account.quote]
         /\ account.base \in [Sym -> Nat]
         /\ account.resting \in [Sym -> Nat]
         /\ account.quote \in Nat
         /\ account.resting[s] <= account.base[s]
BY DEF Account

\* A covered execution leaves the account without debts.
LEMMA ExecuteType ==
  ASSUME account \in Account, NEW s \in Sym, NEW sd \in Side,
         NEW q \in Nat, NEW c \in Nat,
         Covered(s, sd, q, c), Execute(s, sd, q, c)
  PROVE  account' \in Account
<1> DEFINE b == IF sd = "buy" THEN account.base[s] + q ELSE account.base[s] - q
           m == IF sd = "buy" THEN account.quote - c ELSE account.quote + c
<1>1. b \in Nat /\ m \in Nat /\ account.resting[s] <= b
  BY AccountType DEF Covered
<1>2. account' = [base    |-> [account.base EXCEPT ![s] = b],
                 resting |-> account.resting,
                 quote   |-> m]
  BY AccountType DEF Execute
<1>3. [account.base EXCEPT ![s] = b] \in [Sym -> Nat]
  BY <1>1, AccountType
<1>4. \A t \in Sym : account.resting[t] <= [account.base EXCEPT ![s] = b][t]
  BY <1>1, AccountType
<1>5. QED
  BY <1>1, <1>2, <1>3, <1>4, AccountType DEF Account

\* A take-profit order offers no more than is owned and not offered yet.
LEMMA PlaceTakeProfitType ==
  ASSUME account \in Account, sym \in Sym, ledger' \in Ledger, filled_qty \in Nat,
         PlaceTakeProfit
  PROVE  account' \in Account
<1> DEFINE amount == IF ledger'.state[sym] = "NONE" THEN filled_qty
                     ELSE ledger'.qty[sym]
<1>1. CASE UNCHANGED account
  BY <1>1
<1>2. CASE /\ amount > 0
           /\ amount <= account.base[sym] - account.resting[sym]
           /\ account' = [account EXCEPT !.resting[sym] = @ + amount]
  <2>1. amount \in Int
    BY DEF Ledger
  <2> DEFINE r == account.resting[sym] + amount
  <2>2. r \in Nat /\ r <= account.base[sym]
    BY <1>2, <2>1, AccountType
  <2>3. account' = [base    |-> account.base,
                   resting |-> [account.resting EXCEPT ![sym] = r],
                   quote   |-> account.quote]
    BY <1>2, AccountType
  <2>4. [account.resting EXCEPT ![sym] = r] \in [Sym -> Nat]
    BY <2>2, AccountType
  <2>5. \A t \in Sym : [account.resting EXCEPT ![sym] = r][t] <= account.base[t]
    BY <2>2, AccountType
  <2>6. QED
    BY <2>3, <2>4, <2>5, AccountType DEF Account
<1>3. QED
  BY <1>1, <1>2 DEF PlaceTakeProfit

\* An execution leaves an order in a status that orders have.
LEMMA StatusAfterType ==
  ASSUME NEW f, NEW q
  PROVE  StatusAfter(f, q) \subseteq OrderStatus
BY DEF StatusAfter, OrderStatus

\* The types of what handle_intent works with while it runs.
LEMMA LocalTypes ==
  ASSUME TypeOK, Referential, pc # "idle"
  PROVE  /\ cur \in Intent
         /\ sym \in Sym
         /\ side \in Side
         /\ qty \in Nat \ {0}
         /\ Remaining \in Int
BY RequestType DEF Referential, sym, side, qty, Remaining, TypeOK

\* An accepted order is one more order, for the intent being handled.
LEMMA AcceptOrderEffect ==
  ASSUME TypeOK, Referential, InLoop, AcceptOrder
  PROVE  /\ account' \in Account
         /\ \E new \in Order : /\ new.intent = cur
                             /\ new.qty = Remaining /\ new.filled <= Remaining
                             /\ orders' = Append(orders, new)
<1>1. /\ cur \in Intent /\ sym \in Sym /\ side \in Side
      /\ Remaining \in Nat
  BY LocalTypes DEF InLoop
<1>2. PICK f \in 0..Remaining, x \in Slip :
        LET c == Cash(side, f, x)
        IN  /\ Covered(sym, side, f, c)
            /\ \E st \in StatusAfter(f, Remaining) :
                 orders' = Append(orders, [intent |-> cur, qty |-> Remaining,
                                           filled |-> f, cash |-> c, status |-> st])
            /\ Execute(sym, side, f, c)
  BY DEF AcceptOrder
<1>3. f \in Nat /\ x \in Nat /\ Cash(side, f, x) \in Nat
  BY <1>1, RouterAssumption, CashType
<1>4. account' \in Account
  BY <1>1, <1>2, <1>3, ExecuteType DEF TypeOK
<1>5. PICK st \in StatusAfter(f, Remaining) :
        orders' = Append(orders, [intent |-> cur, qty |-> Remaining, filled |-> f,
                                  cash |-> Cash(side, f, x), status |-> st])
  BY <1>2
<1>6. [intent |-> cur, qty |-> Remaining, filled |-> f,
       cash |-> Cash(side, f, x), status |-> st] \in Order
  BY <1>1, <1>3, <1>5, StatusAfterType DEF Order
<1>7. QED
  BY <1>4, <1>5, <1>6

\* What reconciliation is given are trades.
LEMMA FetchedTradesType ==
  ASSUME TypeOK, Referential, pc # "idle", order_id # NoOrder
  PROVE  FetchedTrades \subseteq Trades
<1>1. orders[order_id] \in Order
  BY DEF TypeOK, Referential
<1>2. side \in Side
  BY LocalTypes
<1>3. QED
  BY <1>1, <1>2 DEF FetchedTrades, Trades, Order

\* order.filled: the handler only forgets the intent and learns the symbol.
LEMMA ReportFilledType ==
  ASSUME TypeOK, Referential, pc # "idle", ledger' \in Ledger, ReportFilled
  PROVE  /\ pending' \subseteq Intent
         /\ account' \in Account
         /\ engine_positions' \subseteq Sym
         /\ meta' \subseteq meta
         /\ outcome' \in [Intent -> Outcome]
         /\ Return
<1>1. sym \in Sym /\ cur \in Intent
  BY LocalTypes
<1>2. outcome' \in [Intent -> Outcome]
  BY <1>1 DEF ReportFilled, Tell, TypeOK, Outcome
<1>3. account' \in Account
  BY <1>1, PlaceTakeProfitType DEF ReportFilled, handle_router_fill, TypeOK
<1>4. QED
  BY <1>1, <1>2, <1>3 DEF ReportFilled, handle_router_fill, TypeOK

\* Reconciling an order turns the ledger into a ledger.
LEMMA ReconciledType ==
  ASSUME TypeOK, Referential, pc # "idle", NEW t \in Trades
  PROVE  Reconciled(ledger, t) \in Ledger
BY LocalTypes, ApplyFillsType DEF Reconciled, TypeOK

-----------------------------------------------------------------------------
\* The types hold when the engine starts.
LEMMA InitType == Init => TypeOK
BY EmptyLedgerType, RouterAssumption, PortfolioAssumption
   DEF Init, TypeOK, Intent, PC, NoIntent, NoOrder, Account, Outcome

\* Every step of the engine, the router and the exchange keeps the types.
LEMMA TypeStep ==
  ASSUME TypeOK, Referential, [Next]_vars
  PROVE  TypeOK'
<1> USE DEF NoOrder, NoIntent
<1>1. ASSUME NEW s \in Sym, NEW d \in -Drift..Drift, SubmitBuy(s, d)
      PROVE  TypeOK'
  <2> DEFINE budget == calculate_position_size(ledger, s)
             new == [sym |-> s, side |-> "buy", qty |-> budget + d,
                     quote_budget |-> budget]
             evicted == IF Cardinality(pending) >= MaxPending
                        THEN {j \in pending : Oldest(j)} ELSE {}
  <2>1. budget \in Nat
    BY PositionSizeType DEF TypeOK
  <2>2. new \in Request
    BY <1>1, <2>1, RouterAssumption DEF SubmitBuy, Request, Side
  <2>3. Len(req) + 1 \in Intent /\ req' = Append(req, new)
    BY <1>1, RouterAssumption DEF SubmitBuy, Intent, TypeOK
  <2>4. req' \in Seq(Request) /\ Len(req') = Len(req) + 1
    BY <2>2, <2>3 DEF TypeOK
  <2>5. pending' \subseteq Intent
    BY <1>1, <2>3 DEF SubmitBuy, TypeOK
  <2>6. ledger' \in Ledger
    BY <1>1, ClearedType DEF SubmitBuy, TypeOK, Referential
  <2>7. QED
    BY <1>1, <2>3, <2>4, <2>5, <2>6 DEF SubmitBuy, TypeOK, Publish, exchange, PC, Intent
<1>2. ASSUME NEW s \in Sym, SubmitExit(s)
      PROVE  TypeOK'
  <2> DEFINE q == ledger.qty[s]
             new == [sym |-> s, side |-> IF q > 0 THEN "sell" ELSE "buy",
                     qty |-> IF q > 0 THEN q ELSE -q, quote_budget |-> 0]
  <2>1. q \in Int /\ q # 0
    BY <1>2 DEF SubmitExit, TypeOK, Ledger
  <2>2. new \in Request
    BY <2>1 DEF Request, Side
  <2>3. Len(req) + 1 \in Intent /\ req' = Append(req, new)
    BY <1>2, RouterAssumption DEF SubmitExit, Intent, TypeOK
  <2>4. req' \in Seq(Request) /\ Len(req') = Len(req) + 1
    BY <2>2, <2>3 DEF TypeOK
  <2>5. QED
    BY <1>2, <2>3, <2>4 DEF SubmitExit, TypeOK, Publish, exchange, PC, Intent
<1>3. ASSUME NEW i \in DOMAIN req, Redeliver(i)
      PROVE  TypeOK'
  BY <1>3 DEF Redeliver, TypeOK, Publish, exchange, PC
<1>4. CASE StaleSweep
  <2>1. ledger' \in Ledger
    BY <1>4, ClearedType DEF StaleSweep, TypeOK, Referential
  <2>2. QED
    BY <1>4, <2>1 DEF StaleSweep, TypeOK, locals, exchange
<1>5. CASE IgnoreDuplicate
  BY <1>5, RouterAssumption DEF IgnoreDuplicate, TypeOK, Return, exchange, PC
<1>6. CASE ReserveBudget
  <2>1. cur \in Intent /\ ledger' \in Ledger
    BY <1>6, LocalTypes, ReserveType DEF ReserveBudget, TypeOK
  <2>2. QED
    BY <1>6, <2>1 DEF ReserveBudget, Known, TypeOK, locals, exchange, PC
<1>7. CASE RefuseIntent
  <2>1. cur \in Intent /\ ledger' \in Ledger
    BY <1>7, LocalTypes, ClearedType DEF RefuseIntent, ReportFailed, TypeOK, Referential
  <2>2. outcome' \in [Intent -> Outcome]
    BY <1>7, <2>1 DEF RefuseIntent, ReportFailed, Tell, TypeOK, Outcome
  <2>3. QED
    BY <1>7, <2>1, <2>2, RouterAssumption
       DEF RefuseIntent, ReportFailed, Return, Known, TypeOK, exchange, PC
<1>8. CASE SendOrder
  <2>1. PICK new \in Order : orders' = Append(orders, new)
    BY <1>8, AcceptOrderEffect DEF SendOrder
  <2>2. account' \in Account
    BY <1>8, AcceptOrderEffect DEF SendOrder
  <2>3. orders' \in Seq(Order) /\ Len(orders') = Len(orders) + 1
    BY <2>1 DEF TypeOK
  <2>4. attempt' \in 0..(MaxRetries + 1)
    BY <1>8, RouterAssumption DEF SendOrder, InLoop, TypeOK
  <2>5. order_id' \in 0..Len(orders') /\ meta' \subseteq 1..Len(orders')
    <3>1. /\ order_id' = Len(orders) + 1 /\ meta' = meta \cup {order_id'}
          /\ meta \subseteq 1..Len(orders) /\ Len(orders) \in Nat
      BY <1>8 DEF SendOrder, TypeOK
    <3>2. order_id' \in 0..Len(orders')
      BY <2>3, <3>1
    <3>3. order_id' \in 1..Len(orders') /\ 1..Len(orders) \subseteq 1..Len(orders')
      BY <2>3, <3>1
    <3>4. QED
      BY <3>1, <3>2, <3>3
  <2>6. QED
    BY <1>8, <2>2, <2>3, <2>4, <2>5 DEF SendOrder, TypeOK, PC
<1>9. CASE PlaceFails
  <2>1. /\ account' \in Account
        /\ orders' \in Seq(Order)
        /\ Len(orders) <= Len(orders')
    <3>1. CASE UNCHANGED exchange
      BY <3>1 DEF exchange, TypeOK
    <3>2. CASE AcceptOrder
      <4>1. PICK new \in Order : orders' = Append(orders, new)
        BY <1>9, <3>2, AcceptOrderEffect DEF PlaceFails
      <4>2. QED
        BY <1>9, <3>2, <4>1, AcceptOrderEffect DEF PlaceFails, TypeOK
    <3>3. QED
      BY <1>9, <3>1, <3>2 DEF PlaceFails
  <2>2. attempt' \in 0..(MaxRetries + 1)
    BY <1>9, RouterAssumption DEF PlaceFails, InLoop, TypeOK
  <2>3. QED
    BY <1>9, <2>1, <2>2 DEF PlaceFails, TypeOK
<1>10. CASE WaitForFill
  <2>1. orders[order_id] \in Order
    BY <1>10 DEF WaitForFill, TypeOK, Referential
  <2>2. PICK ob \in Observations :
          /\ filled_qty' = filled_qty + ob.filled
          /\ pc' = CASE ob.status = "closed"   -> "filled"
                     [] ob.status = "canceled" -> "finish"
                     [] OTHER                  -> "loop"
          /\ meta' = IF ob.status = "canceled" THEN meta \ {order_id} ELSE meta
    BY <1>10 DEF WaitForFill
  <2>3. ob.filled \in Nat
    BY <2>1, <2>2 DEF Observations, Order
  <2>4. filled_qty' \in Nat /\ pc' \in PC /\ meta' \subseteq meta
    BY <2>2, <2>3 DEF TypeOK, PC
  <2>5. QED
    BY <1>10, <2>4 DEF WaitForFill, TypeOK, exchange
<1>11. CASE PublishFilled
  <2>1. order_id # NoOrder /\ cur \in Intent /\ sym \in Sym
    BY <1>11, LocalTypes DEF PublishFilled, Referential
  <2>2. ledger' \in Ledger
    BY <1>11, <2>1, FetchedTradesType, ReconciledType DEF PublishFilled
  <2>3. /\ pending' \subseteq Intent /\ engine_positions' \subseteq Sym
        /\ meta' \subseteq meta /\ outcome' \in [Intent -> Outcome] /\ Return
        /\ account' \in Account
    BY <1>11, <2>2, ReportFilledType DEF PublishFilled
  <2>4. UNCHANGED <<req, seen, orders>>
    BY <1>11 DEF PublishFilled
  <2>5. QED
    BY <2>2, <2>3, <2>4, RouterAssumption DEF Return, TypeOK, PC
<1>12. CASE PartialSuccess
  <2>1. order_id # NoOrder /\ cur \in Intent /\ sym \in Sym /\ pc # "idle"
        /\ qty \in Nat
    BY <1>12, LocalTypes DEF PartialSuccess, LoopOver, Referential
  <2>2. PICK t \in FetchedTrades :
          ledger' = release(Reconciled(ledger, t), sym, side, Monus(qty, filled_qty))
    BY <1>12 DEF PartialSuccess
  <2>3. Reconciled(ledger, t) \in Ledger
    BY <2>1, <2>2, FetchedTradesType, ReconciledType
  <2>4. ledger' \in Ledger
    BY <2>1, <2>2, <2>3, MonusType, ReleaseType DEF TypeOK
  <2>5. /\ pending' \subseteq Intent /\ engine_positions' \subseteq Sym
        /\ meta' \subseteq meta /\ outcome' \in [Intent -> Outcome] /\ Return
        /\ account' \in Account
    BY <1>12, <2>1, <2>4, ReportFilledType DEF PartialSuccess
  <2>6. UNCHANGED <<req, seen, orders>>
    BY <1>12 DEF PartialSuccess
  <2>7. QED
    BY <2>4, <2>5, <2>6, RouterAssumption DEF Return, TypeOK, PC
<1>13. CASE FailedFinal
  <2>1. cur \in Intent /\ sym \in Sym /\ qty \in Nat /\ cur \in DOMAIN req
    BY <1>13, LocalTypes DEF FailedFinal, LoopOver, Referential
  <2>2. release(ledger, sym, side, qty) \in Ledger
    BY <2>1, ReleaseType DEF TypeOK
  <2>3. ledger' \in Ledger
    BY <1>13, <2>1, <2>2, ClearedType DEF FailedFinal, ReportFailed
  <2>4. outcome' \in [Intent -> Outcome]
    BY <1>13, <2>1 DEF FailedFinal, ReportFailed, Tell, TypeOK, Outcome
  <2>5. QED
    BY <1>13, <2>3, <2>4, RouterAssumption
       DEF FailedFinal, ReportFailed, Return, TypeOK, exchange, PC
<1>14. ASSUME NEW o \in DOMAIN orders, ExchangeFill(o)
       PROVE  TypeOK'
  <2> DEFINE order == orders[o]
             s == req[order.intent].sym
             sd == req[order.intent].side
  <2>1. order \in Order /\ s \in Sym /\ sd \in Side
    BY RequestType DEF TypeOK, Referential
  <2>2. PICK f \in 1..(order.qty - order.filled), x \in Slip :
          LET c == Cash(sd, f, x)
          IN  /\ Covered(s, sd, f, c)
              /\ Execute(s, sd, f, c)
              /\ \E st \in StatusAfter(order.filled + f, order.qty) :
                   orders' = [orders EXCEPT ![o].filled = @ + f,
                                            ![o].cash   = @ + c,
                                            ![o].status = st]
    BY <1>14 DEF ExchangeFill
  <2>3. f \in Nat /\ x \in Nat /\ Cash(sd, f, x) \in Nat
    BY <2>1, <2>2, RouterAssumption, CashType DEF Order
  <2>4. account' \in Account
    BY <2>1, <2>2, <2>3, ExecuteType DEF TypeOK
  <2>5. PICK st \in StatusAfter(order.filled + f, order.qty) :
          orders' = [orders EXCEPT ![o].filled = @ + f,
                                   ![o].cash   = @ + Cash(sd, f, x),
                                   ![o].status = st]
    BY <2>2
  <2>6. st \in OrderStatus /\ order.filled + f \in Nat /\ order.cash + Cash(sd, f, x) \in Nat
    BY <2>1, <2>3, <2>5, StatusAfterType DEF Order
  <2> DEFINE new == [order EXCEPT !.filled = @ + f,
                                  !.cash   = @ + Cash(sd, f, x),
                                  !.status = st]
  <2>a. new \in Order
    BY <2>1, <2>6 DEF Order
  <2>b. orders' = [orders EXCEPT ![o] = new]
    BY <2>5
  <2>7. orders' \in Seq(Order) /\ Len(orders') = Len(orders)
    BY <2>a, <2>b, ExceptSeq DEF TypeOK
  <2>8. QED
    BY <1>14, <2>4, <2>7 DEF ExchangeFill, TypeOK, locals
<1>15. ASSUME NEW o \in DOMAIN orders, ExchangeCancel(o)
       PROVE  TypeOK'
  <2> DEFINE new == [orders[o] EXCEPT !.status = "canceled"]
  <2>0. orders[o] \in Order
    BY DEF TypeOK
  <2>1. new \in Order
    BY <2>0 DEF Order, OrderStatus
  <2>2. orders' = [orders EXCEPT ![o] = new]
    BY <1>15 DEF ExchangeCancel
  <2>3. orders' \in Seq(Order) /\ Len(orders') = Len(orders)
    BY <2>1, <2>2, ExceptSeq DEF TypeOK
  <2>4. QED
    BY <1>15, <2>3 DEF ExchangeCancel, TypeOK, locals
<1>16. ASSUME NEW s \in Sym, TakeProfitFills(s)
       PROVE  TypeOK'
  <2>1. PICK f \in 1..account.resting[s], x \in Slip :
          account' = [account EXCEPT !.base[s]    = @ - f,
                                     !.resting[s] = @ - f,
                                     !.quote      = @ + Cash("sell", f, x)]
    BY <1>16 DEF TakeProfitFills
  <2> DEFINE b == account.base[s] - f
             r == account.resting[s] - f
             m == account.quote + Cash("sell", f, x)
  <2>2. account \in Account
    BY DEF TypeOK
  <2>3. f \in Nat /\ x \in Nat /\ Cash("sell", f, x) \in Nat
    BY <2>1, <2>2, AccountType, RouterAssumption, CashType
  <2>4. b \in Nat /\ r \in Nat /\ m \in Nat /\ r <= b
    BY <2>1, <2>2, <2>3, AccountType
  <2>5. account' = [base    |-> [account.base EXCEPT ![s] = b],
                   resting |-> [account.resting EXCEPT ![s] = r],
                   quote   |-> m]
    BY <2>1, <2>2, AccountType
  <2>6. /\ [account.base EXCEPT ![s] = b] \in [Sym -> Nat]
        /\ [account.resting EXCEPT ![s] = r] \in [Sym -> Nat]
        /\ \A t \in Sym : [account.resting EXCEPT ![s] = r][t]
                            <= [account.base EXCEPT ![s] = b][t]
    BY <2>2, <2>4, AccountType
  <2>7. account' \in Account
    BY <2>4, <2>5, <2>6 DEF Account
  <2>8. QED
    BY <1>16, <2>7 DEF TakeProfitFills, TypeOK, locals
<1>17. CASE UNCHANGED vars
  BY <1>17 DEF vars, locals, exchange, TypeOK
<1>18. QED
  BY <1>1, <1>2, <1>3, <1>4, <1>5, <1>6, <1>7, <1>8, <1>9, <1>10, <1>11, <1>12,
     <1>13, <1>14, <1>15, <1>16, <1>17
     DEF Next, Submit, HandleIntent, Exchange

-----------------------------------------------------------------------------
(***************************************************************************)
(* The orders of an intent.                                                *)
(***************************************************************************)
LEMMA OrdersOfFinite ==
  ASSUME TypeOK, NEW i
  PROVE  IsFiniteSet(OrdersOf(i)) /\ Cardinality(OrdersOf(i)) \in Nat
<1>1. DOMAIN orders = 1..Len(orders) /\ Len(orders) \in Nat
  BY DEF TypeOK
<1>2. IsFiniteSet(DOMAIN orders)
  BY <1>1, FS_Interval
<1>3. IsFiniteSet(OrdersOf(i))
  BY <1>2, FS_Subset DEF OrdersOf
<1>4. QED
  BY <1>3, FS_CardinalityType

\* The exchange executes and cancels orders, it makes none.
LEMMA ExchangeKeepsOrders ==
  ASSUME TypeOK, NEW o \in DOMAIN orders, ExchangeFill(o) \/ ExchangeCancel(o)
  PROVE  /\ DOMAIN orders' = DOMAIN orders
         /\ \A p \in DOMAIN orders : orders'[p].intent = orders[p].intent
<1>1. \A p \in DOMAIN orders : orders[p] \in Order
  BY DEF TypeOK
<1>2. CASE ExchangeFill(o)
  <2> DEFINE order == orders[o]
             sd == req[order.intent].side
  <2>1. PICK f \in 1..(order.qty - order.filled), x \in Slip :
          \E st \in StatusAfter(order.filled + f, order.qty) :
            orders' = [orders EXCEPT ![o].filled = @ + f,
                                     ![o].cash   = @ + Cash(sd, f, x),
                                     ![o].status = st]
    BY <1>2 DEF ExchangeFill
  <2>2. PICK st : orders' = [orders EXCEPT ![o].filled = @ + f,
                                           ![o].cash   = @ + Cash(sd, f, x),
                                           ![o].status = st]
    BY <2>1
  <2>3. QED
    BY <1>1, <2>2 DEF Order
<1>3. CASE ExchangeCancel(o)
  BY <1>1, <1>3 DEF ExchangeCancel, Order
<1>4. QED
  BY <1>2, <1>3

\* A step that makes no order leaves every intent its orders.
LEMMA OrdersOfKept ==
  ASSUME DOMAIN orders' = DOMAIN orders, NEW i,
         \A p \in DOMAIN orders : orders'[p].intent = orders[p].intent
  PROVE  OrdersOf(i)' = OrdersOf(i)
BY DEF OrdersOf

\* One more order is one more for its own intent only.
LEMMA OrdersOfAppend ==
  ASSUME TypeOK, NEW new \in Order, orders' = Append(orders, new), NEW i
  PROVE  /\ new.intent = i => Cardinality(OrdersOf(i)') = Cardinality(OrdersOf(i)) + 1
         /\ new.intent # i => OrdersOf(i)' = OrdersOf(i)
<1> DEFINE n == Len(orders) + 1
<1>1. /\ DOMAIN orders = 1..Len(orders) /\ Len(orders) \in Nat
      /\ DOMAIN orders' = 1..n
      /\ orders'[n] = new
      /\ \A o \in DOMAIN orders : orders'[o] = orders[o]
  BY DEF TypeOK
<1>2. n \notin DOMAIN orders /\ DOMAIN orders' = DOMAIN orders \cup {n}
  BY <1>1
<1>3. new.intent = i => OrdersOf(i)' = OrdersOf(i) \cup {n}
  BY <1>1, <1>2 DEF OrdersOf
<1>4. new.intent # i => OrdersOf(i)' = OrdersOf(i)
  BY <1>1, <1>2 DEF OrdersOf
<1>5. n \notin OrdersOf(i)
  BY <1>2 DEF OrdersOf
<1>6. Cardinality(OrdersOf(i) \cup {n}) = Cardinality(OrdersOf(i)) + 1
  BY <1>5, OrdersOfFinite, FS_AddElement
<1>7. QED
  BY <1>3, <1>4, <1>6

-----------------------------------------------------------------------------
(***************************************************************************)
(* The inductive invariant.                                                *)
(***************************************************************************)
LEMMA InitConsistent == Init => Consistent
<1> SUFFICES ASSUME Init PROVE Consistent
  OBVIOUS
<1>1. DOMAIN orders = {} /\ DOMAIN req = {}
  BY DEF Init
<1>2. Referential
  BY <1>1 DEF Init, Referential, InFlight
<1>3. Serial
  BY DEF Init, Serial, InFlight
<1>4. \A i : Cardinality(OrdersOf(i)) = 0
  BY <1>1, FS_EmptySet DEF OrdersOf
<1>5. Counted
  BY <1>4, RouterAssumption DEF Init, Counted, InFlight
<1>6. QED
  BY <1>2, <1>3, <1>5 DEF Consistent

\* Every step keeps Referential.
LEMMA ReferentialStep ==
  ASSUME TypeOK, Consistent, [Next]_vars
  PROVE  Referential'
<1> USE DEF NoOrder, NoIntent, InFlight
<1>0. Referential /\ Serial
  BY DEF Consistent
<1>1. ASSUME NEW s \in Sym, NEW d \in -Drift..Drift, SubmitBuy(s, d)
      PROVE  Referential'
  <2>1. DOMAIN req' = DOMAIN req \cup {Len(req) + 1}
    BY <1>1 DEF SubmitBuy, TypeOK
  <2>2. QED
    BY <1>0, <1>1, <2>1 DEF SubmitBuy, Publish, Referential, exchange
<1>2. ASSUME NEW s \in Sym, SubmitExit(s)
      PROVE  Referential'
  <2>1. DOMAIN req' = DOMAIN req \cup {Len(req) + 1}
    BY <1>2 DEF SubmitExit, TypeOK
  <2>2. QED
    BY <1>0, <1>2, <2>1 DEF SubmitExit, Publish, Referential, exchange
<1>3. ASSUME NEW i \in DOMAIN req, Redeliver(i)
      PROVE  Referential'
  BY <1>0, <1>3 DEF Redeliver, Publish, Referential, exchange
<1>4. CASE StaleSweep
  BY <1>0, <1>4 DEF StaleSweep, Referential, locals, exchange
<1>5. CASE IgnoreDuplicate
  BY <1>0, <1>5 DEF IgnoreDuplicate, Return, Referential, exchange
<1>6. CASE ReserveBudget
  BY <1>0, <1>6 DEF ReserveBudget, Known, Referential, locals, exchange
<1>7. CASE RefuseIntent
  BY <1>0, <1>7 DEF RefuseIntent, ReportFailed, Return, Known, Referential, exchange
<1>8. CASE SendOrder
  <2>1. PICK new \in Order : new.intent = cur /\ orders' = Append(orders, new)
    BY <1>0, <1>8, AcceptOrderEffect DEF SendOrder
  <2>2. /\ DOMAIN orders' = DOMAIN orders \cup {Len(orders) + 1}
        /\ orders'[Len(orders) + 1] = new
        /\ \A o \in DOMAIN orders : orders'[o] = orders[o]
    BY <2>1 DEF TypeOK
  <2>3. cur \in seen
    BY <1>0, <1>8 DEF SendOrder, InLoop, Serial
  <2>4. QED
    BY <1>0, <1>8, <2>1, <2>2, <2>3 DEF SendOrder, InLoop, Referential
<1>9. CASE PlaceFails
  <2>1. \/ UNCHANGED orders
        \/ \E new \in Order : new.intent = cur /\ orders' = Append(orders, new)
    BY <1>0, <1>9, AcceptOrderEffect DEF PlaceFails, exchange
  <2>2. cur \in seen
    BY <1>0, <1>9 DEF PlaceFails, InLoop, Serial
  <2>3. /\ DOMAIN orders \subseteq DOMAIN orders'
        /\ \A o \in DOMAIN orders : orders'[o] = orders[o]
        /\ \A o \in DOMAIN orders' : orders'[o].intent \in seen
    <3>1. CASE UNCHANGED orders
      BY <1>0, <3>1 DEF Referential
    <3>2. ASSUME NEW new \in Order, new.intent = cur, orders' = Append(orders, new)
          PROVE  /\ DOMAIN orders \subseteq DOMAIN orders'
                 /\ \A o \in DOMAIN orders : orders'[o] = orders[o]
                 /\ \A o \in DOMAIN orders' : orders'[o].intent \in seen
      <4>1. /\ DOMAIN orders' = DOMAIN orders \cup {Len(orders) + 1}
            /\ orders'[Len(orders) + 1] = new
            /\ \A o \in DOMAIN orders : orders'[o] = orders[o]
        BY <3>2 DEF TypeOK
      <4>2. QED
        BY <1>0, <2>2, <3>2, <4>1 DEF Referential
    <3>3. QED
      BY <2>1, <3>1, <3>2
  <2>4. QED
    BY <1>0, <1>9, <2>3 DEF PlaceFails, InLoop, Referential
<1>10. CASE WaitForFill
  BY <1>0, <1>10 DEF WaitForFill, Referential, exchange
<1>11. CASE PublishFilled
  BY <1>0, <1>11 DEF PublishFilled, ReportFilled, handle_router_fill, Return, Referential
<1>12. CASE PartialSuccess
  BY <1>0, <1>12 DEF PartialSuccess, ReportFilled, handle_router_fill, Return, Referential
<1>13. CASE FailedFinal
  BY <1>0, <1>13 DEF FailedFinal, ReportFailed, Return, Referential, exchange
<1>14. ASSUME NEW o \in DOMAIN orders, ExchangeFill(o) \/ ExchangeCancel(o)
       PROVE  Referential'
  <2>1. /\ DOMAIN orders' = DOMAIN orders
        /\ \A p \in DOMAIN orders : orders'[p].intent = orders[p].intent
    BY <1>14, ExchangeKeepsOrders
  <2>2. UNCHANGED <<req, pending, seen, pc, cur, attempt, filled_qty, order_id>>
    BY <1>14 DEF ExchangeFill, ExchangeCancel, locals
  <2>3. QED
    BY <1>0, <2>1, <2>2 DEF Referential
<1>15. ASSUME NEW s \in Sym, TakeProfitFills(s)
       PROVE  Referential'
  BY <1>0, <1>15 DEF TakeProfitFills, locals, Referential
<1>16. CASE UNCHANGED vars
  BY <1>0, <1>16 DEF vars, locals, exchange, Referential
<1>17. QED
  BY <1>1, <1>2, <1>3, <1>4, <1>5, <1>6, <1>7, <1>8, <1>9, <1>10, <1>11, <1>12,
     <1>13, <1>14, <1>15, <1>16
     DEF Next, Submit, HandleIntent, Exchange

\* The end of an intent: its outcome is told, and no other intent's.
LEMMA TellOnce ==
  ASSUME TypeOK, Consistent, InFlight, NEW what \in {"filled", "failed"}, Tell(cur, what)
  PROVE  /\ cur \in Intent
         /\ outcome[cur] = "none"
         /\ outcome' = [outcome EXCEPT ![cur] = what]
<1>1. cur \in seen /\ seen \subseteq Intent
  BY DEF Consistent, Serial, TypeOK
<1>2. outcome[cur] = "none"
  BY <1>1 DEF Consistent, Serial
<1>3. QED
  BY <1>1, <1>2 DEF Tell, TypeOK

\* Every step keeps Serial.
LEMMA SerialStep ==
  ASSUME TypeOK, Consistent, [Next]_vars
  PROVE  Serial'
<1> USE DEF InFlight
<1>0. Referential /\ Serial
  BY DEF Consistent
<1>1. ASSUME NEW s \in Sym, NEW d \in -Drift..Drift, SubmitBuy(s, d)
      PROVE  Serial'
  BY <1>0, <1>1 DEF SubmitBuy, Publish, Serial
<1>2. ASSUME NEW s \in Sym, SubmitExit(s)
      PROVE  Serial'
  BY <1>0, <1>2 DEF SubmitExit, Publish, Serial
<1>3. ASSUME NEW i \in DOMAIN req, Redeliver(i)
      PROVE  Serial'
  BY <1>0, <1>3 DEF Redeliver, Publish, Serial
<1>4. CASE StaleSweep
  BY <1>0, <1>4 DEF StaleSweep, Serial, locals
<1>5. CASE IgnoreDuplicate
  BY <1>0, <1>5 DEF IgnoreDuplicate, Return, Serial
<1>6. CASE ReserveBudget
  BY <1>0, <1>6 DEF ReserveBudget, Known, Serial, locals
<1>7. CASE RefuseIntent
  <2>1. cur \in Intent /\ outcome[cur] = "none"
    BY <1>0, <1>7, LocalTypes DEF RefuseIntent, Serial, TypeOK, Outcome
  <2>2. outcome' = [outcome EXCEPT ![cur] = "failed"]
    BY <1>7, <2>1 DEF RefuseIntent, ReportFailed, Tell, TypeOK
  <2>3. seen' = seen \cup {cur} /\ pc' = "idle"
    BY <1>7 DEF RefuseIntent, ReportFailed, Return, Known
  <2>4. QED
    BY <1>0, <1>7, <2>1, <2>2, <2>3 DEF RefuseIntent, Serial, TypeOK
<1>8. CASE SendOrder \/ PlaceFails \/ WaitForFill
  <2>1. InFlight /\ InFlight'
    BY <1>8 DEF SendOrder, PlaceFails, WaitForFill, InLoop
  <2>2. UNCHANGED <<seen, outcome, cur>>
    BY <1>8 DEF SendOrder, PlaceFails, WaitForFill
  <2>3. QED
    BY <1>0, <2>1, <2>2 DEF Serial
<1>9. CASE PublishFilled \/ PartialSuccess \/ FailedFinal
  <2>1. InFlight /\ pc' = "idle" /\ UNCHANGED seen
    BY <1>9 DEF PublishFilled, PartialSuccess, FailedFinal, LoopOver, ReportFilled,
                ReportFailed, Return
  <2>2. PICK what \in {"filled", "failed"} : Tell(cur, what)
    BY <1>9 DEF PublishFilled, PartialSuccess, FailedFinal, ReportFilled, ReportFailed
  <2>3. cur \in Intent /\ outcome' = [outcome EXCEPT ![cur] = what]
    BY <2>1, <2>2, TellOnce
  <2>4. QED
    BY <1>0, <2>1, <2>2, <2>3 DEF Serial, TypeOK
<1>10. ASSUME NEW o \in DOMAIN orders, ExchangeFill(o) \/ ExchangeCancel(o)
       PROVE  Serial'
  BY <1>0, <1>10 DEF ExchangeFill, ExchangeCancel, Serial, locals
<1>11. ASSUME NEW s \in Sym, TakeProfitFills(s)
       PROVE  Serial'
  BY <1>0, <1>11 DEF TakeProfitFills, Serial, locals
<1>12. CASE UNCHANGED vars
  BY <1>0, <1>12 DEF vars, locals, Serial
<1>13. QED
  BY <1>1, <1>2, <1>3, <1>4, <1>5, <1>6, <1>7, <1>8, <1>9, <1>10, <1>11, <1>12
     DEF Next, Submit, HandleIntent, Exchange

\* Every step keeps Counted.
LEMMA CountedStep ==
  ASSUME TypeOK, Consistent, [Next]_vars
  PROVE  Counted'
<1> USE DEF InFlight
<1>0. Referential /\ Serial /\ Counted
  BY DEF Consistent
<1>1. ASSUME \A i : OrdersOf(i)' = OrdersOf(i),
             \/ UNCHANGED <<cur, attempt>> /\ (InFlight' => InFlight)
             \/ ~InFlight'
      PROVE  Counted'
  BY <1>0, <1>1 DEF Counted
<1>2. ASSUME UNCHANGED orders PROVE \A i : OrdersOf(i)' = OrdersOf(i)
  BY <1>2 DEF OrdersOf
<1>3. CASE Submit \/ \E i \in DOMAIN req : Redeliver(i)
  BY <1>1, <1>2, <1>3 DEF Submit, SubmitBuy, SubmitExit, Redeliver, Publish, exchange
<1>4. CASE StaleSweep \/ IgnoreDuplicate \/ RefuseIntent
  BY <1>1, <1>2, <1>4
     DEF StaleSweep, IgnoreDuplicate, RefuseIntent, ReportFailed, Return, exchange, locals
<1>5. CASE ReserveBudget
  <2>1. \A i : OrdersOf(i)' = OrdersOf(i)
    BY <1>2, <1>5 DEF ReserveBudget, exchange
  <2>2. OrdersOf(cur) = {}
    BY <1>0, <1>5 DEF ReserveBudget, OrdersOf, Referential
  <2>3. Cardinality(OrdersOf(cur)) = 0 /\ attempt = 0
    BY <1>0, <1>5, <2>2, FS_EmptySet DEF ReserveBudget, Referential
  <2>4. QED
    BY <1>0, <1>5, <2>1, <2>3 DEF ReserveBudget, Counted, locals
<1>6. CASE SendOrder \/ PlaceFails
  <2>1. /\ InLoop
        /\ attempt' = attempt + 1 /\ UNCHANGED cur
        /\ AcceptOrder \/ UNCHANGED orders
    BY <1>6 DEF SendOrder, PlaceFails, exchange
  <2>2. attempt \in Nat /\ attempt + 1 <= MaxRetries + 1
    BY <2>1, RouterAssumption DEF InLoop, TypeOK
  <2>3. Cardinality(OrdersOf(cur)) \in Nat /\ Cardinality(OrdersOf(cur)) <= attempt
    BY <1>0, <2>1, OrdersOfFinite DEF InLoop, Counted
  <2>4. CASE UNCHANGED orders
    BY <1>0, <1>2, <2>1, <2>2, <2>3, <2>4 DEF Counted
  <2>5. CASE AcceptOrder
    <3>1. PICK new \in Order : new.intent = cur /\ orders' = Append(orders, new)
      BY <1>0, <2>1, <2>5, AcceptOrderEffect
    <3>2. PICK k \in Intent : k = cur
      BY <1>0, <2>1, RouterAssumption DEF InLoop, Referential, TypeOK, Intent
    <3>3. Cardinality(OrdersOf(k)') = Cardinality(OrdersOf(k)) + 1
      BY <3>1, <3>2, OrdersOfAppend
    <3>4. \A i : i # k => OrdersOf(i)' = OrdersOf(i)
      BY <3>1, <3>2, OrdersOfAppend
    <3>5. Cardinality(OrdersOf(k)') <= attempt + 1
      BY <2>2, <2>3, <3>2, <3>3
    <3>6. ASSUME NEW i \in Intent
          PROVE  Cardinality(OrdersOf(i)') <= MaxRetries + 1
      <4>1. CASE i = k
        BY <2>2, <2>3, <3>2, <3>3, <4>1, RouterAssumption
      <4>2. CASE i # k
        BY <1>0, <3>4, <4>2 DEF Counted
      <4>3. QED
        BY <4>1, <4>2
    <3>7. QED
      <4>1. cur' = k
        BY <2>1, <3>2
      <4>2. Cardinality(OrdersOf(cur)') <= attempt'
        BY <2>1, <3>5, <4>1
      <4>3. QED
        BY <3>6, <4>2 DEF Counted
  <2>6. QED
    BY <2>1, <2>4, <2>5
<1>7. CASE WaitForFill
  BY <1>1, <1>2, <1>7 DEF WaitForFill, exchange
<1>8. CASE PublishFilled \/ PartialSuccess \/ FailedFinal
  BY <1>1, <1>2, <1>8
     DEF PublishFilled, PartialSuccess, FailedFinal, ReportFilled, ReportFailed,
         Return, exchange
<1>9. ASSUME NEW o \in DOMAIN orders, ExchangeFill(o) \/ ExchangeCancel(o)
      PROVE  Counted'
  <2>1. \A i : OrdersOf(i)' = OrdersOf(i)
    BY <1>9, ExchangeKeepsOrders, OrdersOfKept
  <2>2. UNCHANGED <<pc, cur, attempt>>
    BY <1>9 DEF ExchangeFill, ExchangeCancel, locals
  <2>3. QED
    BY <1>1, <2>1, <2>2
<1>10. CASE (\E s \in Sym : TakeProfitFills(s)) \/ UNCHANGED vars
  BY <1>1, <1>2, <1>10 DEF TakeProfitFills, vars, locals, exchange
<1>11. QED
  BY <1>3, <1>4, <1>5, <1>6, <1>7, <1>8, <1>9, <1>10 DEF Next, HandleIntent, Exchange

-----------------------------------------------------------------------------
(***************************************************************************)
(* Fills: what the router believes of them, whatever the exchange does.    *)
(***************************************************************************)

\* Every intent has been handled but the one just published.
AllSeen == \A i \in DOMAIN req : i \in seen \/ (pc = "handle" /\ i = cur)

\* No order asks for more than its intent, or fills more than it asks for.
FillsBounded ==
  \A o \in DOMAIN orders : /\ orders[o].filled <= orders[o].qty
                           /\ orders[o].qty <= req[orders[o].intent].qty

\* FilledIsBacked made inductive: what the router believes filled, and what it
\* is about to add to that when it is waiting for its last order, is what the
\* orders of the intent have executed.
Backed ==
  filled_qty + (IF pc = "wait" THEN orders[order_id].filled ELSE 0) <= Executed(cur)

\* The fields of an order.
LEMMA OrderFields ==
  ASSUME NEW os \in Seq(Order), NEW o \in DOMAIN os
  PROVE  /\ os[o] \in Order
         /\ os[o].qty \in Nat /\ os[o].filled \in Nat /\ os[o].cash \in Nat
<1>1. os[o] \in Order
  OBVIOUS
<1>2. QED
  BY <1>1 DEF Order

\* A new intent is the last of the requests, and the one being handled.
LEMMA SubmitEffect ==
  ASSUME TypeOK, Submit
  PROVE  /\ \E r : req' = Append(req, r)
         /\ DOMAIN req' = DOMAIN req \cup {Len(req) + 1}
         /\ \A i \in DOMAIN req : req'[i] = req[i]
         /\ cur' = Len(req) + 1 /\ pc = "idle" /\ pc' = "handle"
         /\ UNCHANGED <<seen, orders, account>>
<1>1. \E r : /\ req' = Append(req, r)
             /\ cur' = Len(req) + 1 /\ pc = "idle" /\ pc' = "handle"
             /\ UNCHANGED <<seen, orders, account>>
  <2>1. ASSUME NEW s \in Sym, NEW d, SubmitBuy(s, d) PROVE <1>1!:
    BY <2>1, Zenon DEF SubmitBuy, Publish, exchange
  <2>2. ASSUME NEW s \in Sym, SubmitExit(s) PROVE <1>1!:
    BY <2>2, Zenon DEF SubmitExit, Publish, exchange
  <2>3. QED
    BY <2>1, <2>2 DEF Submit
<1>2. PICK r : req' = Append(req, r)
  BY <1>1
<1>3. req \in Seq(Request)
  BY DEF TypeOK
<1>4. DOMAIN req' = DOMAIN req \cup {Len(req) + 1} /\ \A i \in DOMAIN req : req'[i] = req[i]
  BY <1>2, <1>3
<1>5. QED
  BY <1>1, <1>4

\* Every step keeps AllSeen: only the last intent can be unseen.
LEMMA AllSeenStep ==
  ASSUME TypeOK, Consistent, AllSeen, [Next]_vars
  PROVE  AllSeen'
<1> USE DEF AllSeen
<1>1. CASE Submit
  <2>1. /\ DOMAIN req' = DOMAIN req \cup {Len(req) + 1}
        /\ cur' = Len(req) + 1 /\ pc = "idle" /\ pc' = "handle" /\ seen' = seen
    BY <1>1, SubmitEffect
  <2>2. QED
    BY <2>1
<1>2. CASE \E i \in DOMAIN req : Redeliver(i)
  BY <1>2 DEF Redeliver, Publish
<1>3. CASE StaleSweep \/ UNCHANGED vars
  BY <1>3 DEF StaleSweep, vars, locals
<1>4. CASE IgnoreDuplicate \/ ReserveBudget \/ RefuseIntent
  BY <1>4 DEF IgnoreDuplicate, ReserveBudget, RefuseIntent, Known
<1>5. CASE SendOrder \/ PlaceFails \/ WaitForFill
  BY <1>5 DEF SendOrder, PlaceFails, WaitForFill, InLoop
<1>6. CASE PublishFilled \/ PartialSuccess \/ FailedFinal
  BY <1>6 DEF PublishFilled, PartialSuccess, FailedFinal, LoopOver
<1>7. CASE Exchange
  BY <1>7 DEF Exchange, ExchangeFill, ExchangeCancel, TakeProfitFills, locals
<1>8. QED
  BY <1>1, <1>2, <1>3, <1>4, <1>5, <1>6, <1>7 DEF Next, HandleIntent

\* Only placing an order and the exchange's own steps touch the orders.
LEMMA OrdersStep ==
  ASSUME [Next]_vars
  PROVE  \/ UNCHANGED orders
         \/ InLoop /\ AcceptOrder /\ UNCHANGED <<req, filled_qty, cur>>
         \/ \E o \in DOMAIN orders : ExchangeFill(o) \/ ExchangeCancel(o)
<1>1. CASE Submit
  BY <1>1 DEF Submit, SubmitBuy, SubmitExit, exchange
<1>2. CASE (\E i \in DOMAIN req : Redeliver(i)) \/ StaleSweep \/ UNCHANGED vars
  BY <1>2 DEF Redeliver, StaleSweep, vars, exchange
<1>3. CASE IgnoreDuplicate \/ ReserveBudget \/ RefuseIntent \/ WaitForFill
  BY <1>3 DEF IgnoreDuplicate, ReserveBudget, RefuseIntent, WaitForFill, exchange
<1>4. CASE SendOrder \/ PlaceFails
  BY <1>4 DEF SendOrder, PlaceFails, exchange
<1>5. CASE PublishFilled \/ PartialSuccess \/ FailedFinal
  BY <1>5 DEF PublishFilled, PartialSuccess, FailedFinal, exchange
<1>6. CASE Exchange
  BY <1>6 DEF Exchange, TakeProfitFills
<1>7. QED
  BY <1>1, <1>2, <1>3, <1>4, <1>5, <1>6 DEF Next, HandleIntent

\* The requests already made are never changed.
LEMMA RequestsKept ==
  ASSUME TypeOK, [Next]_vars
  PROVE  \A i \in DOMAIN req : i \in DOMAIN req' /\ req'[i] = req[i]
<1>1. CASE UNCHANGED req
  BY <1>1
<1>2. CASE Submit
  BY <1>2, SubmitEffect
<1>3. QED
  BY <1>1, <1>2
     DEF Next, HandleIntent, Exchange, vars, Redeliver, StaleSweep, IgnoreDuplicate,
         ReserveBudget, RefuseIntent, SendOrder, PlaceFails, WaitForFill, PublishFilled,
         PartialSuccess, FailedFinal, ExchangeFill, ExchangeCancel, TakeProfitFills

\* One more order at the end of the list.
LEMMA AppendedOrder ==
  ASSUME TypeOK, NEW new \in Order, orders' = Append(orders, new)
  PROVE  /\ Len(orders) + 1 \notin DOMAIN orders
         /\ DOMAIN orders' = DOMAIN orders \cup {Len(orders) + 1}
         /\ orders'[Len(orders) + 1] = new
         /\ \A o \in DOMAIN orders : orders'[o] = orders[o]
BY DEF TypeOK

\* The exchange changes one order: it fills more of it, never more than was
\* asked for, or cancels it.
LEMMA ExchangeEffect ==
  ASSUME TypeOK, Referential, NEW o \in DOMAIN orders, ExchangeFill(o) \/ ExchangeCancel(o)
  PROVE  \E new \in Order :
           /\ orders' = [orders EXCEPT ![o] = new]
           /\ new.intent = orders[o].intent /\ new.qty = orders[o].qty
           /\ orders[o].filled <= new.filled
           /\ new.filled <= new.qty \/ new.filled = orders[o].filled
<1> DEFINE order == orders[o]
           sd == req[order.intent].side
<1>1. order \in Order
  BY DEF TypeOK
<1>2. CASE ExchangeFill(o)
  <2>1. PICK f \in 1..(order.qty - order.filled), x \in Slip :
          \E st \in StatusAfter(order.filled + f, order.qty) :
            orders' = [orders EXCEPT ![o].filled = @ + f,
                                     ![o].cash   = @ + Cash(sd, f, x),
                                     ![o].status = st]
    BY <1>2 DEF ExchangeFill
  <2>2. PICK st \in OrderStatus :
          orders' = [orders EXCEPT ![o].filled = @ + f,
                                   ![o].cash   = @ + Cash(sd, f, x),
                                   ![o].status = st]
    BY <2>1, StatusAfterType
  <2>3. f \in Nat /\ x \in Nat /\ Cash(sd, f, x) \in Nat /\ order.filled + f <= order.qty
    BY <1>1, <2>1, RouterAssumption, CashType DEF Order
  <2> DEFINE new == [order EXCEPT !.filled = @ + f,
                                  !.cash   = @ + Cash(sd, f, x),
                                  !.status = st]
  <2>4. /\ new \in Order /\ new.intent = order.intent /\ new.qty = order.qty
        /\ order.filled <= new.filled /\ new.filled <= new.qty
    BY <1>1, <2>2, <2>3 DEF Order
  <2>5. orders' = [orders EXCEPT ![o] = new]
    BY <2>2
  <2>6. QED
    BY <2>4, <2>5
<1>3. CASE ExchangeCancel(o)
  <2> DEFINE new == [order EXCEPT !.status = "canceled"]
  <2>1. /\ new \in Order /\ new.intent = order.intent /\ new.qty = order.qty
        /\ new.filled = order.filled /\ order.filled \in Nat
    BY <1>1 DEF Order, OrderStatus
  <2>2. orders' = [orders EXCEPT ![o] = new]
    BY <1>3 DEF ExchangeCancel
  <2>3. order.filled <= new.filled
    BY <2>1
  <2> HIDE DEF new
  <2>4. QED
    BY <2>1, <2>2, <2>3
<1>4. QED
  BY <1>2, <1>3

\* Every step keeps FillsBounded.
LEMMA FillsBoundedStep ==
  ASSUME TypeOK, Consistent, FillsBounded, [Next]_vars
  PROVE  FillsBounded'
<1>0. /\ Referential
      /\ \A o \in DOMAIN orders : orders[o] \in Order /\ orders[o].intent \in DOMAIN req
  BY DEF Consistent, Referential, TypeOK
<1>1. CASE UNCHANGED orders
  BY <1>0, <1>1, RequestsKept DEF FillsBounded
<1>2. CASE InLoop /\ AcceptOrder /\ UNCHANGED <<req, filled_qty, cur>>
  <2>1. PICK new \in Order : /\ new.intent = cur
                             /\ new.qty = Remaining /\ new.filled <= Remaining
                             /\ orders' = Append(orders, new)
    BY <1>0, <1>2, AcceptOrderEffect
  <2>2. new.qty <= req[new.intent].qty
    BY <1>0, <1>2, <2>1, LocalTypes DEF InLoop, Remaining, qty, TypeOK
  <2>3. /\ DOMAIN orders' = DOMAIN orders \cup {Len(orders) + 1}
        /\ orders'[Len(orders) + 1] = new
        /\ \A o \in DOMAIN orders : orders'[o] = orders[o]
    BY <2>1, AppendedOrder
  <2>4. QED
    BY <1>2, <2>1, <2>2, <2>3 DEF FillsBounded
<1>3. ASSUME NEW o \in DOMAIN orders, ExchangeFill(o) \/ ExchangeCancel(o)
      PROVE  FillsBounded'
  <2>1. PICK new \in Order :
           /\ orders' = [orders EXCEPT ![o] = new]
           /\ new.intent = orders[o].intent /\ new.qty = orders[o].qty
           /\ orders[o].filled <= new.filled
           /\ new.filled <= new.qty \/ new.filled = orders[o].filled
    BY <1>0, <1>3, ExchangeEffect
  <2>2. UNCHANGED req
    BY <1>3 DEF ExchangeFill, ExchangeCancel
  <2>3. QED
    BY <2>1, <2>2 DEF FillsBounded
<1>4. QED
  BY <1>1, <1>2, <1>3, OrdersStep

\* What the exchange executed for an intent is a natural number.
LEMMA ExecutedType ==
  ASSUME TypeOK, NEW i
  PROVE  Executed(i) \in Nat
<1>0. orders \in Seq(Order)
  BY DEF TypeOK
<1> DEFINE f == [o \in DOMAIN orders |-> orders[o].filled]
<1>1. IsFiniteSet(OrdersOf(i))
  BY OrdersOfFinite
<1>2. \A o \in OrdersOf(i) : f[o] \in Nat
  BY <1>0, OrderFields DEF OrdersOf
<1> HIDE DEF f
<1>3. SumFunctionOnSet(f, OrdersOf(i)) \in Nat
  BY <1>1, <1>2, SumType
<1>4. QED
  BY <1>3 DEF Executed, f

\* What was executed for the intent at hand is an amount, after a step too.
LEMMA ExecutedTypeNext ==
  ASSUME TypeOK'
  PROVE  Executed(cur)' \in Nat
<1> DEFINE f == [o \in DOMAIN orders' |-> orders'[o].filled]
           S == OrdersOf(cur)'
<1>0. orders' \in Seq(Order)
  BY DEF TypeOK
<1>1. IsFiniteSet(S)
  <2>1. S \subseteq 1..Len(orders') /\ Len(orders') \in Nat
    BY <1>0 DEF OrdersOf
  <2> HIDE DEF S
  <2>2. IsFiniteSet(1..Len(orders'))
    BY <2>1, FS_Interval
  <2>3. QED
    BY <2>1, <2>2, FS_Subset
<1>2. \A o \in S : f[o] \in Nat
  BY <1>0, OrderFields DEF OrdersOf
<1>3. Executed(cur)' = SumFunctionOnSet(f, S)
  BY DEF Executed
<1> HIDE DEF f, S
<1>4. SumFunctionOnSet(f, S) \in Nat
  BY <1>1, <1>2, SumType
<1>5. QED
  BY <1>3, <1>4

\* A new order adds what was filled of it at once.
LEMMA ExecutedAppend ==
  ASSUME TypeOK, TypeOK', NEW new \in Order, orders' = Append(orders, new)
  PROVE  Executed(new.intent)' = Executed(new.intent) + new.filled
<1> DEFINE i == new.intent
           n == Len(orders) + 1
           f == [o \in DOMAIN orders |-> orders[o].filled]
           g == [o \in DOMAIN orders' |-> orders'[o].filled]
           S == OrdersOf(i)
           T == S \cup {n}
<1>1. /\ n \notin DOMAIN orders
      /\ DOMAIN orders' = DOMAIN orders \cup {n}
      /\ orders'[n] = new
      /\ \A o \in DOMAIN orders : orders'[o] = orders[o]
  BY AppendedOrder
<1>2. OrdersOf(i)' = T /\ n \notin S
  BY <1>1 DEF OrdersOf
<1>3. IsFiniteSet(S) /\ IsFiniteSet(T)
  BY OrdersOfFinite, FS_AddElement
<1>4. \A o \in T : g[o] \in Int
  <2>1. orders' \in Seq(Order)
    BY DEF TypeOK
  <2>2. QED
    BY <1>1, <2>1, OrderFields DEF OrdersOf
<1>5. (\A o \in S : f[o] = g[o]) /\ g[n] = new.filled /\ new.filled \in Nat
  BY <1>1 DEF OrdersOf, Order
<1>6. Executed(i)' = SumFunctionOnSet(g, T) /\ Executed(i) = SumFunctionOnSet(f, S)
  BY <1>2 DEF Executed
<1>7. T \ {n} = S
  BY <1>2
<1> HIDE DEF f, g, n
<1>8. SumFunctionOnSet(g, T) = g[n] + SumFunctionOnSet(g, S)
  <2>1. n \in T
    OBVIOUS
  <2> HIDE DEF T, S
  <2>2. SumFunctionOnSet(g, T) = g[n] + SumFunctionOnSet(g, T \ {n})
    BY <1>3, <1>4, <2>1, SumRemove
  <2>3. QED
    BY <1>7, <2>2
<1>9. SumFunctionOnSet(f, S) = SumFunctionOnSet(g, S)
  BY <1>3, <1>5, SumSame
<1>10. Executed(i) \in Nat
  BY ExecutedType
<1>11. QED
  BY <1>5, <1>6, <1>8, <1>9, <1>10

\* More filled of one order of the intent is as much more executed.
LEMMA ExecutedFill ==
  ASSUME TypeOK, TypeOK', NEW o \in DOMAIN orders, NEW new \in Order,
         orders' = [orders EXCEPT ![o] = new], new.intent = orders[o].intent, NEW i
  PROVE  Executed(i)' = IF o \in OrdersOf(i)
                        THEN Executed(i) - orders[o].filled + new.filled
                        ELSE Executed(i)
<1> DEFINE f == [p \in DOMAIN orders |-> orders[p].filled]
           g == [p \in DOMAIN orders' |-> orders'[p].filled]
           S == OrdersOf(i)
<1>1. DOMAIN orders' = DOMAIN orders /\ OrdersOf(i)' = S
  BY DEF OrdersOf
<1>2. IsFiniteSet(S) /\ S \subseteq DOMAIN orders
  BY OrdersOfFinite DEF OrdersOf
<1>3. \A p \in S : f[p] \in Int /\ g[p] \in Int
  <2>1. orders \in Seq(Order) /\ orders' \in Seq(Order)
    BY DEF TypeOK
  <2>2. ASSUME NEW p \in S PROVE f[p] \in Int
    BY <1>2, <2>1, <2>2, OrderFields
  <2>3. ASSUME NEW p \in S PROVE g[p] \in Int
    <3>1. p \in DOMAIN orders'
      BY <1>1, <1>2, <2>3
    <3>2. orders'[p].filled \in Nat
      BY <2>1, <3>1, OrderFields
    <3>3. QED
      BY <3>1, <3>2
  <2>4. QED
    BY <2>2, <2>3
<1>4. (\A p \in S : p # o => f[p] = g[p]) /\ f[o] = orders[o].filled /\ g[o] = new.filled
  BY <1>1, <1>2
<1>5. Executed(i)' = SumFunctionOnSet(g, S) /\ Executed(i) = SumFunctionOnSet(f, S)
  BY <1>1 DEF Executed
<1> HIDE DEF f, g, S
<1>6. CASE o \in S
  <2>1. SumFunctionOnSet(g, S) = SumFunctionOnSet(f, S) - f[o] + g[o]
    BY <1>2, <1>3, <1>4, <1>6, SumChange
  <2>2. QED
    BY <1>4, <1>5, <1>6, <2>1 DEF S
<1>7. CASE o \notin S
  <2>1. SumFunctionOnSet(f, S) = SumFunctionOnSet(g, S)
    BY <1>2, <1>4, <1>7, SumSame
  <2>2. QED
    BY <1>5, <1>7, <2>1 DEF S
<1>8. QED
  BY <1>6, <1>7

\* Every step keeps Backed.
LEMMA BackedStep ==
  ASSUME TypeOK, TypeOK', Consistent, Consistent', Backed, [Next]_vars
  PROVE  Backed'
<1>00. orders \in Seq(Order) /\ orders' \in Seq(Order) /\ filled_qty \in Nat
  BY DEF TypeOK
<1>0. Referential /\ Referential' /\ Executed(cur) \in Nat /\ Executed(cur)' \in Nat
  BY <1>00, ExecutedType, ExecutedTypeNext DEF Consistent
<1>1. CASE ~InFlight' \/ ReserveBudget
  <2>1. filled_qty' = 0 /\ pc' # "wait"
    BY <1>0, <1>1 DEF Referential, InFlight, ReserveBudget, locals
  <2>2. QED
    BY <1>0, <2>1 DEF Backed
<1>2. CASE UNCHANGED <<orders, filled_qty, pc, cur, order_id>>
  BY <1>2 DEF Backed, Executed, OrdersOf
<1>3. CASE SendOrder \/ PlaceFails
  <2>1. InLoop /\ UNCHANGED <<filled_qty, cur>>
    BY <1>3 DEF SendOrder, PlaceFails
  <2>2. filled_qty <= Executed(cur) /\ filled_qty \in Nat
    BY <2>1 DEF InLoop, Backed, TypeOK
  <2>3. CASE UNCHANGED orders
    <3>1. PlaceFails
      BY <1>3, <2>3 DEF SendOrder, AcceptOrder, TypeOK
    <3>2. QED
      BY <2>1, <2>2, <2>3, <3>1 DEF PlaceFails, InLoop, Backed, Executed, OrdersOf
  <2>4. CASE AcceptOrder
    <3>1. PICK new \in Order : new.intent = cur /\ orders' = Append(orders, new)
      BY <1>0, <2>1, <2>4, AcceptOrderEffect
    <3>2. Executed(cur)' = Executed(cur) + new.filled
      BY <2>1, <3>1, ExecutedAppend
    <3>3. new.filled \in Nat
      BY DEF Order
    <3>4. pc' = "wait" => orders'[order_id'] = new
      BY <1>3, <2>1, <3>1, AppendedOrder DEF SendOrder, PlaceFails, InLoop
    <3>5. QED
      BY <1>0, <2>1, <2>2, <3>2, <3>3, <3>4 DEF Backed
  <2>5. QED
    BY <1>3, <2>3, <2>4 DEF SendOrder, PlaceFails, exchange
<1>4. CASE WaitForFill
  <2>1. order_id \in DOMAIN orders /\ orders[order_id].filled \in Nat /\ filled_qty \in Nat
    <3>1. order_id \in DOMAIN orders
      BY <1>0, <1>4 DEF WaitForFill, Referential
    <3>2. QED
      BY <1>00, <3>1, OrderFields
  <2>2. pc' # "wait" /\ UNCHANGED <<orders, cur>>
    BY <1>4 DEF WaitForFill, exchange
  <2>3. filled_qty' \in {filled_qty + orders[order_id].filled, filled_qty + 0}
    BY <1>4 DEF WaitForFill, Observations
  <2>4. filled_qty' <= Executed(cur)
    BY <1>0, <1>4, <2>1, <2>3 DEF Backed, WaitForFill
  <2>5. QED
    BY <1>0, <2>1, <2>2, <2>3, <2>4 DEF Backed, Executed, OrdersOf
<1>5. ASSUME NEW o \in DOMAIN orders, ExchangeFill(o) \/ ExchangeCancel(o)
      PROVE  Backed'
  <2>1. PICK new \in Order : /\ orders' = [orders EXCEPT ![o] = new]
                             /\ new.intent = orders[o].intent
                             /\ orders[o].filled <= new.filled
    BY <1>0, <1>5, ExchangeEffect
  <2>2. UNCHANGED <<filled_qty, pc, cur, order_id>>
    BY <1>5 DEF ExchangeFill, ExchangeCancel, locals
  <2>3. orders[o].filled \in Nat /\ new.filled \in Nat /\ filled_qty \in Nat
    <3>1. new.filled \in Nat
      BY DEF Order
    <3>2. QED
      BY <1>00, <3>1, OrderFields
  <2>4. Executed(cur)' = IF o \in OrdersOf(cur)
                         THEN Executed(cur) - orders[o].filled + new.filled
                         ELSE Executed(cur)
    BY <2>1, <2>2, ExecutedFill
  <2>5. CASE pc = "wait" /\ order_id = o
    <3>1. o \in OrdersOf(cur) /\ orders'[order_id'] = new
      BY <1>0, <2>1, <2>2, <2>5 DEF Referential, OrdersOf
    <3>2. QED
      BY <1>0, <2>2, <2>3, <2>4, <2>5, <3>1 DEF Backed
  <2>6. CASE pc = "wait" /\ order_id # o
    <3>1. order_id \in DOMAIN orders
      BY <1>0, <2>6 DEF Referential
    <3>2. orders[order_id].filled \in Nat
      BY <1>00, <3>1, OrderFields
    <3>3. orders'[order_id'] = orders[order_id]
      BY <2>1, <2>2, <2>6, <3>1
    <3>4. QED
      BY <1>0, <2>1, <2>2, <2>3, <2>4, <2>6, <3>2, <3>3 DEF Backed
  <2>7. CASE pc # "wait"
    BY <1>0, <2>1, <2>2, <2>3, <2>4, <2>7 DEF Backed
  <2>8. QED
    BY <2>5, <2>6, <2>7
<1>6. CASE Submit \/ (\E i \in DOMAIN req : Redeliver(i)) \/ IgnoreDuplicate \/ RefuseIntent
           \/ PublishFilled \/ PartialSuccess \/ FailedFinal
  <2>1. ~InFlight'
    BY <1>6 DEF Submit, SubmitBuy, SubmitExit, Redeliver, Publish, IgnoreDuplicate,
                RefuseIntent, PublishFilled, PartialSuccess, FailedFinal, ReportFilled,
                ReportFailed, Return, InFlight
  <2>2. QED
    BY <1>1, <2>1
<1>7. CASE StaleSweep \/ (\E s \in Sym : TakeProfitFills(s)) \/ UNCHANGED vars
  BY <1>2, <1>7 DEF StaleSweep, TakeProfitFills, vars, locals, exchange
<1>8. QED
  BY <1>1, <1>3, <1>4, <1>5, <1>6, <1>7 DEF Next, HandleIntent, Exchange

-----------------------------------------------------------------------------
(***************************************************************************)
(* Reservations, whatever the exchange does.                               *)
(***************************************************************************)

\* Of no symbol is more sold than there is.
NeverShort == \A s \in Sym : ledger.qty[s] >= 0

Limited(l) == \A s \in Sym : l.reserved_quote[s] <= MaxPerSymbol + Drift

\* The intent asks for no more than its symbol may tie up (a buy not yet
\* reserved) or than the position holds (an exit).
Affordable ==
  IF side = "buy"
  THEN pc = "handle" => ledger.reserved_quote[sym] + qty <= MaxPerSymbol + Drift
  ELSE qty <= ledger.qty[sym]

\* ReservationsAddUp made inductive: the limit of a symbol needs that a new buy
\* respects what is reserved, and that nothing was sold short, since a short
\* position would be closed by a buy that asks for no budget.
Sound ==
  /\ NeverShort
  /\ AddsUp(ledger)
  /\ Limited(ledger)
  /\ InFlight \/ (pc = "handle" /\ cur \notin seen) => Affordable

\* Ledger m reserves no more than l of any symbol, and still adds up.
Lowers(l, m) == AddsUp(m) /\ \A u \in Sym : m.reserved_quote[u] <= l.reserved_quote[u]

\* Lowering a ledger twice lowers it.
LEMMA LowersTwice ==
  ASSUME NEW l \in Ledger, NEW m \in Ledger, NEW n \in Ledger, Lowers(l, m), Lowers(m, n)
  PROVE  Lowers(l, n)
<1>1. ASSUME NEW u \in Sym PROVE n.reserved_quote[u] <= l.reserved_quote[u]
  <2>1. /\ l.reserved_quote[u] \in Nat /\ m.reserved_quote[u] \in Nat
        /\ n.reserved_quote[u] \in Nat
    BY LedgerFields
  <2>2. QED
    BY <2>1 DEF Lowers
<1>2. QED
  BY <1>1 DEF Lowers

\* A change that leaves the reservations lowers them trivially.
LEMMA SameLowers ==
  ASSUME NEW l \in Ledger, NEW m \in Ledger, AddsUp(l),
         m.reserved_quote = l.reserved_quote, m.reserved_budget = l.reserved_budget
  PROVE  Lowers(l, m)
<1>1. \A u \in Sym : l.reserved_quote[u] \in Nat
  BY LedgerFields
<1>2. QED
  BY <1>1 DEF Lowers, AddsUp

\* Lowering keeps the limit of every symbol.
LEMMA LowersLimited ==
  ASSUME NEW l \in Ledger, NEW m \in Ledger, Limited(l), Lowers(l, m)
  PROVE  Limited(m)
<1>1. ASSUME NEW u \in Sym PROVE m.reserved_quote[u] <= MaxPerSymbol + Drift
  <2>1. l.reserved_quote[u] \in Nat /\ m.reserved_quote[u] \in Nat
    BY LedgerFields
  <2>2. QED
    BY <2>1, PortfolioAssumption, RouterAssumption DEF Lowers, Limited
<1>2. QED
  BY <1>1 DEF Limited

\* A step that only lowers the ledger's reservations keeps it sound.
LEMMA LoweredSound ==
  ASSUME ledger \in Ledger, ledger' \in Ledger, NeverShort, Limited(ledger),
         Lowers(ledger, ledger'), ledger'.qty = ledger.qty,
         InFlight' \/ (pc' = "handle" /\ cur' \notin seen') => Affordable'
  PROVE  Sound'
<1>1. Limited(ledger')
  BY LowersLimited
<1>2. NeverShort'
  BY DEF NeverShort
<1>3. QED
  BY <1>1, <1>2 DEF Sound, Lowers

\* Giving back a reservation, settling an intent and booking trades only lower
\* what is reserved.
LEMMA ReleaseLowers ==
  ASSUME NEW l \in Ledger, AddsUp(l), NEW s \in Sym, NEW sd, NEW amt \in Nat
  PROVE  Lowers(l, release(l, s, sd, amt)) /\ release(l, s, sd, amt).qty = l.qty
<1> DEFINE m == release(l, s, sd, amt)
<1>1. m \in Ledger
  BY ReleaseType
<1>2. /\ m.qty = l.qty
      /\ sd = "buy" =>
           /\ m.reserved_quote = Less(l.reserved_quote, s, amt)
           /\ m.reserved_budget = Monus(l.reserved_budget, amt)
      /\ sd # "buy" => /\ m.reserved_quote = l.reserved_quote
                       /\ m.reserved_budget = l.reserved_budget
  BY ReleaseEffect
<1> HIDE DEF m
<1>3. Lowers(l, m)
  BY <1>1, <1>2, LowerAddsUp, SameLowers DEF Lowers
<1>4. QED
  BY <1>2, <1>3 DEF m

\* Clearing an intent lowers the reservations and leaves the positions.
LEMMA ClearedLowers ==
  ASSUME TypeOK, NEW l \in Ledger, AddsUp(l), NEW i \in DOMAIN req
  PROVE  Lowers(l, Cleared(l, i)) /\ Cleared(l, i).qty = l.qty
<1>1. req[i].sym \in Sym /\ req[i].quote_budget \in Nat
  BY RequestType
<1>2. CASE i \in pending
  <2>1. Cleared(l, i) = release(l, req[i].sym, "buy", req[i].quote_budget)
    BY <1>2 DEF Cleared, release
  <2>2. QED
    BY <1>1, <2>1, ReleaseLowers
<1>3. CASE i \notin pending
  BY <1>3, SameLowers DEF Cleared
<1>4. QED
  BY <1>2, <1>3

\* Booking fills lowers the reservations and moves one position.
LEMMA ApplyFillsLowers ==
  ASSUME NEW l \in Ledger, AddsUp(l), NEW s \in Sym, NEW t \in Trades
  PROVE  /\ Lowers(l, apply_fills(l, s, t))
         /\ apply_fills(l, s, t).qty =
              More(l.qty, s, Signed(t))
<1> DEFINE m == apply_fills(l, s, t)
           r == l.reserved_quote[s]
<1>1. m \in Ledger /\ r \in Nat
  BY ApplyFillsType, LedgerFields
<1>2. /\ m.qty = More(l.qty, s, Signed(t))
      /\ t.side = "buy" =>
           /\ m.reserved_quote = Less(l.reserved_quote, s, r)
           /\ m.reserved_budget = Monus(l.reserved_budget, r)
      /\ t.side # "buy" => /\ m.reserved_quote = l.reserved_quote
                           /\ m.reserved_budget = l.reserved_budget
  BY ApplyFillsEffect
<1> HIDE DEF m, r
<1>3. Lowers(l, m)
  BY <1>1, <1>2, LowerAddsUp, SameLowers DEF Lowers
<1>4. QED
  BY <1>2, <1>3 DEF m

\* Reconciling lowers too, and sells no more than the position holds.
LEMMA ReconciledLowers ==
  ASSUME TypeOK, Referential, FillsBounded, Sound, InFlight, order_id # NoOrder,
         NEW t \in FetchedTrades
  PROVE  /\ Reconciled(ledger, t) \in Ledger
         /\ Lowers(ledger, Reconciled(ledger, t))
         /\ \A s \in Sym : Reconciled(ledger, t).qty[s] >= 0
<1> DEFINE m == Reconciled(ledger, t)
<1>0. ledger \in Ledger /\ AddsUp(ledger) /\ NeverShort /\ Affordable /\ pc # "idle"
  BY DEF TypeOK, Sound, InFlight
<1>1. t \in Trades
  BY <1>0, FetchedTradesType
<1>2. /\ sym \in Sym /\ qty \in Nat /\ order_id \in DOMAIN orders
      /\ orders[order_id].intent = cur
  BY <1>0, LocalTypes DEF Referential
<1>3. /\ orders[order_id].qty \in Nat /\ orders[order_id].filled \in Nat
      /\ orders[order_id].filled <= orders[order_id].qty /\ orders[order_id].qty <= qty
  BY <1>2, OrderFields DEF TypeOK, FillsBounded, qty
<1>4. t.qty \in Nat /\ t.qty <= qty /\ t.side = side
  BY <1>2, <1>3 DEF FetchedTrades
<1>5. CASE t.qty = 0
  BY <1>0, <1>5, SameLowers DEF Reconciled, NeverShort
<1>6. CASE t.qty # 0
  <2>1. m = apply_fills(ledger, sym, t)
    BY <1>6 DEF Reconciled
  <2>2. /\ m \in Ledger /\ Lowers(ledger, m)
        /\ m.qty = More(ledger.qty, sym, Signed(t))
    BY <1>0, <1>1, <1>2, <2>1, ApplyFillsLowers, ApplyFillsType
  <2>3. ledger.qty \in [Sym -> Int]
    BY <1>0, LedgerFields
  <2>4. t.side # "buy" => t.qty <= ledger.qty[sym]
    BY <1>0, <1>2, <1>4, <2>3 DEF Affordable
  <2> HIDE DEF m
  <2>5. \A s \in Sym : m.qty[s] >= 0
    BY <1>0, <1>2, <1>4, <2>2, <2>3, <2>4 DEF NeverShort, More, Signed
  <2>6. QED
    BY <2>2, <2>5 DEF m
<1>7. QED
  BY <1>5, <1>6

\* All four hold when the engine starts.
LEMMA InitSound == Init => AllSeen /\ FillsBounded /\ Backed /\ Sound
<1> SUFFICES ASSUME Init PROVE AllSeen /\ FillsBounded /\ Backed /\ Sound
  OBVIOUS
<1>1. TypeOK
  BY InitType
<1>2. AllSeen /\ FillsBounded /\ NeverShort /\ ~InFlight /\ pc # "handle"
  BY DEF Init, AllSeen, FillsBounded, NeverShort, InFlight, EmptyLedger
<1>3. Backed
  BY <1>1, ExecutedType DEF Init, Backed
<1>4. ledger \in Ledger /\ \A s \in Sym : ledger.reserved_quote[s] \in Nat
  BY <1>1, LedgerFields DEF TypeOK
<1>5. ledger.reserved_budget = 0 /\ \A s \in Sym : ledger.reserved_quote[s] = 0
  BY DEF Init, EmptyLedger
<1>6. AddsUp(ledger)
  <2>1. SumFunctionOnSet(ledger.reserved_quote, Sym) \in Nat
    BY <1>4, SumType, PortfolioAssumption
  <2>2. QED
    BY <1>5, <2>1 DEF AddsUp
<1>7. Limited(ledger)
  BY <1>5, PortfolioAssumption, RouterAssumption DEF Limited
<1>8. QED
  BY <1>2, <1>3, <1>6, <1>7 DEF Sound

\* A new intent is affordable.
LEMMA SubmitSound ==
  ASSUME TypeOK, TypeOK', Consistent, Sound, Submit
  PROVE  Sound'
<1>0. /\ ledger \in Ledger /\ AddsUp(ledger) /\ NeverShort /\ Limited(ledger)
      /\ ledger' \in Ledger /\ req \in Seq(Request) /\ pending \subseteq DOMAIN req
      /\ Len(req) \in Nat
  BY DEF TypeOK, Sound, Consistent, Referential
<1>1. ASSUME NEW s \in Sym, NEW d \in -Drift..Drift, SubmitBuy(s, d) PROVE Sound'
  <2> DEFINE budget == calculate_position_size(ledger, s)
             new == [sym |-> s, side |-> "buy", qty |-> budget + d, quote_budget |-> budget]
  <2>1. /\ budget >= MinSlot /\ req' = Append(req, new)
        /\ cur' = Len(req) + 1 /\ pc' = "handle"
        /\ \/ UNCHANGED ledger
           \/ \E j \in pending : ledger' = Cleared(ledger, j)
    BY <1>1 DEF SubmitBuy, Publish
  <2>2. Lowers(ledger, ledger') /\ ledger'.qty = ledger.qty
    BY <1>0, <2>1, ClearedLowers, SameLowers
  <2>3. budget \in Nat /\ budget + ledger.reserved_quote[s] <= MaxPerSymbol
    <3> DEFINE e == get_symbol_exposure_usdt(ledger, s)
               f == get_free_usdt(ledger)
    <3>1. budget \in Nat
      BY <1>0, PositionSizeType
    <3>2. /\ ledger.reserved_quote[s] \in Nat /\ ledger.held_assets[s] \in Nat
          /\ e = ledger.held_assets[s] + ledger.reserved_quote[s]
      BY <1>0, LedgerFields DEF get_symbol_exposure_usdt
    <3>3. f \in Nat
      BY <1>0, MonusType, LedgerFields DEF get_free_usdt
    <3>4. budget = Lesser(PositionSize, Lesser(f, Monus(MaxPerSymbol, e)))
      BY DEF calculate_position_size
    <3> HIDE DEF e, f, budget
    <3>5. budget <= Monus(MaxPerSymbol, e)
      BY <3>2, <3>3, <3>4, PortfolioAssumption DEF Lesser, Monus
    <3>6. budget >= 1
      BY <2>1, <3>1, PortfolioAssumption DEF budget
    <3>7. QED
      BY <3>1, <3>2, <3>5, <3>6, PortfolioAssumption DEF Monus
  <2>4. req'[cur'] = new
    BY <1>0, <2>1
  <2> HIDE DEF budget
  <2>5. sym' = s /\ side' = "buy" /\ qty' = budget + d
    BY <2>4 DEF sym, side, qty
  <2>6. /\ ledger.reserved_quote[s] \in Nat /\ ledger'.reserved_quote[s] \in Nat
        /\ ledger'.reserved_quote[s] <= ledger.reserved_quote[s]
    BY <1>0, <2>2, LedgerFields DEF Lowers
  <2>7. ledger'.reserved_quote[s] + (budget + d) <= MaxPerSymbol + Drift
    BY <2>3, <2>6, PortfolioAssumption, RouterAssumption
  <2>8. Affordable'
    BY <2>5, <2>7 DEF Affordable
  <2>9. QED
    BY <1>0, <2>2, <2>8, LoweredSound
<1>2. ASSUME NEW s \in Sym, SubmitExit(s) PROVE Sound'
  <2> DEFINE q == ledger.qty[s]
             new == [sym |-> s, side |-> "sell", qty |-> q, quote_budget |-> 0]
  <2>1. q \in Int /\ q > 0
    BY <1>0, <1>2, LedgerFields DEF SubmitExit, NeverShort
  <2>2. /\ req' = Append(req, new)
        /\ cur' = Len(req) + 1 /\ pc' = "handle" /\ ledger' = ledger
    BY <1>2, <2>1 DEF SubmitExit, Publish
  <2>3. req'[cur'] = new
    BY <1>0, <2>2
  <2>4. sym' = s /\ side' = "sell" /\ qty' = q
    BY <2>3 DEF sym, side, qty
  <2>5. Affordable'
    BY <2>1, <2>2, <2>4 DEF Affordable
  <2>6. Lowers(ledger, ledger') /\ ledger'.qty = ledger.qty
    BY <1>0, <2>2, SameLowers
  <2>7. QED
    BY <1>0, <2>5, <2>6, LoweredSound
<1>3. QED
  BY <1>1, <1>2 DEF Submit

\* Every step keeps Sound.
LEMMA SoundStep ==
  ASSUME TypeOK, TypeOK', Consistent, Consistent', AllSeen, FillsBounded, Sound, [Next]_vars
  PROVE  Sound'
<1>0. /\ ledger \in Ledger /\ AddsUp(ledger) /\ NeverShort /\ Limited(ledger)
      /\ ledger' \in Ledger /\ Referential
      /\ pc # "idle" => cur \in DOMAIN req /\ cur \in Intent
  BY RequestType DEF TypeOK, Sound, Consistent, Referential
<1>1. CASE Submit
  BY <1>1, SubmitSound
<1>2. CASE \E i \in DOMAIN req : Redeliver(i)
  <2>1. pc' = "handle" /\ cur' \in seen' /\ UNCHANGED ledger
    BY <1>2 DEF Redeliver, Publish, AllSeen
  <2>2. QED
    BY <2>1 DEF Sound, NeverShort, Limited, InFlight
<1>3. CASE StaleSweep
  <2>1. pc' = "idle" /\ \E i \in DOMAIN req : ledger' = Cleared(ledger, i)
    BY <1>0, <1>3 DEF StaleSweep, Referential
  <2>2. Lowers(ledger, ledger') /\ ledger'.qty = ledger.qty
    BY <1>0, <2>1, ClearedLowers
  <2>3. QED
    BY <1>0, <2>1, <2>2, LoweredSound DEF InFlight
<1>4. CASE IgnoreDuplicate
  BY <1>4 DEF IgnoreDuplicate, Return, Sound, NeverShort, Limited, InFlight
<1>5. CASE ReserveBudget
  <2>1. /\ pc = "handle" /\ cur \notin seen /\ pc' = "loop"
        /\ ledger' = reserve(ledger, sym, side, qty)
        /\ UNCHANGED <<req, cur>>
    BY <1>5 DEF ReserveBudget, locals
  <2>2. sym \in Sym /\ qty \in Nat
    BY <1>0, <2>1, LocalTypes
  <2>3. UNCHANGED <<sym, side, qty>>
    BY <2>1 DEF sym, side, qty
  <2>4. Affordable
    BY <2>1 DEF Sound
  <2>5. /\ side = "buy" =>
             /\ ledger'.reserved_quote = More(ledger.reserved_quote, sym, qty)
             /\ ledger'.reserved_budget = ledger.reserved_budget + qty
        /\ side # "buy" => /\ ledger'.reserved_quote = ledger.reserved_quote
                           /\ ledger'.reserved_budget = ledger.reserved_budget
        /\ ledger'.qty = ledger.qty
    BY <1>0, <2>1, <2>2, ReserveEffect
  <2>6. AddsUp(ledger')
    BY <1>0, <2>2, <2>5, RaiseAddsUp DEF AddsUp
  <2>7. Limited(ledger')
    <3>1. ledger.reserved_quote \in [Sym -> Nat]
      BY <1>0, LedgerFields
    <3>2. QED
      BY <1>0, <2>1, <2>2, <2>4, <2>5, <3>1 DEF More, Limited, Affordable
  <2>8. Affordable'
    BY <2>1, <2>3, <2>4, <2>5 DEF Affordable
  <2>9. QED
    BY <1>0, <2>5, <2>6, <2>7, <2>8 DEF Sound, NeverShort, Limited
<1>6. CASE RefuseIntent
  <2>1. pc' = "idle" /\ ledger' = Cleared(ledger, cur) /\ cur \in DOMAIN req
    BY <1>0, <1>6 DEF RefuseIntent, ReportFailed, Return
  <2>2. Lowers(ledger, ledger') /\ ledger'.qty = ledger.qty
    BY <1>0, <2>1, ClearedLowers
  <2>3. QED
    BY <1>0, <2>1, <2>2, LoweredSound DEF InFlight
<1>7. CASE SendOrder \/ PlaceFails \/ WaitForFill
  <2>1. /\ InFlight /\ pc' # "handle" /\ UNCHANGED <<req, cur, ledger>>
    BY <1>7 DEF SendOrder, PlaceFails, WaitForFill, InLoop, InFlight
  <2>2. Affordable /\ UNCHANGED <<sym, side, qty>>
    BY <2>1 DEF Sound, sym, side, qty
  <2>3. Affordable'
    BY <2>1, <2>2 DEF Affordable
  <2>4. QED
    BY <2>1, <2>3 DEF Sound, NeverShort, Limited
<1>8. CASE PublishFilled \/ PartialSuccess
  <2>1. InFlight /\ pc' = "idle" /\ order_id # NoOrder
    BY <1>0, <1>8 DEF PublishFilled, PartialSuccess, LoopOver, InFlight, ReportFilled,
                      Return, Referential
  <2>2. PICK t \in FetchedTrades :
          \/ ledger' = Reconciled(ledger, t)
          \/ /\ ledger' = release(Reconciled(ledger, t), sym, side, Monus(qty, filled_qty))
             /\ PartialSuccess
    BY <1>8 DEF PublishFilled, PartialSuccess
  <2> DEFINE m == Reconciled(ledger, t)
  <2>3. m \in Ledger /\ Lowers(ledger, m) /\ \A s \in Sym : m.qty[s] >= 0
    BY <1>0, <2>1, ReconciledLowers
  <2> HIDE DEF m
  <2>4. sym \in Sym /\ Monus(qty, filled_qty) \in Nat
    BY <1>0, <2>1, LocalTypes, MonusType DEF InFlight, TypeOK
  <2>5. Lowers(m, ledger') /\ ledger'.qty = m.qty
    <3>1. AddsUp(m)
      BY <2>3 DEF Lowers
    <3>2. CASE ledger' = m
      BY <2>3, <3>1, <3>2, SameLowers
    <3>3. CASE ledger' = release(m, sym, side, Monus(qty, filled_qty))
      BY <2>3, <2>4, <3>1, <3>3, ReleaseLowers
    <3>4. QED
      BY <2>2, <3>2, <3>3 DEF m
  <2>6. Lowers(ledger, ledger')
    BY <1>0, <2>3, <2>5, LowersTwice
  <2>7. AddsUp(ledger') /\ Limited(ledger') /\ NeverShort'
    BY <1>0, <2>3, <2>5, <2>6, LowersLimited DEF NeverShort, Lowers
  <2>8. QED
    BY <2>1, <2>7 DEF Sound, InFlight
<1>9. CASE FailedFinal
  <2> DEFINE m == release(ledger, sym, side, qty)
  <2>1. InFlight /\ pc' = "idle" /\ ledger' = Cleared(m, cur)
    BY <1>9 DEF FailedFinal, LoopOver, InFlight, ReportFailed, Return
  <2>2. sym \in Sym /\ qty \in Nat /\ cur \in DOMAIN req
    BY <1>0, <2>1, LocalTypes DEF InFlight
  <2>3. m \in Ledger /\ Lowers(ledger, m) /\ m.qty = ledger.qty
    BY <1>0, <2>2, ReleaseLowers, ReleaseType
  <2> HIDE DEF m
  <2>4. Lowers(m, ledger') /\ ledger'.qty = m.qty
    BY <2>1, <2>2, <2>3, ClearedLowers DEF Lowers
  <2>5. Lowers(ledger, ledger')
    BY <1>0, <2>3, <2>4, LowersTwice
  <2>6. QED
    BY <1>0, <2>1, <2>3, <2>4, <2>5, LoweredSound DEF InFlight
<1>10. CASE Exchange \/ UNCHANGED vars
  <2>1. UNCHANGED <<req, seen, pc, cur, ledger>>
    BY <1>10 DEF Exchange, ExchangeFill, ExchangeCancel, TakeProfitFills, vars, locals
  <2>2. UNCHANGED <<InFlight, Affordable>>
    BY <2>1 DEF InFlight, Affordable, sym, side, qty
  <2>3. QED
    BY <2>1, <2>2 DEF Sound, NeverShort, Limited
<1>11. QED
  BY <1>1, <1>2, <1>3, <1>4, <1>5, <1>6, <1>7, <1>8, <1>9, <1>10 DEF Next, HandleIntent

-----------------------------------------------------------------------------
(***************************************************************************)
(* An exchange that answers: no failure of the link, IOC orders, and no    *)
(* take-profit order taken.  What the portfolio says is then what the      *)
(* account owns.                                                           *)
(***************************************************************************)
Answers == Faults = {} /\ TIF = "IOC" /\ TakeProfit = FALSE

\* Orders are done when they are answered, closed only if filled, and an order
\* without executions cost nothing.
OrdersDone ==
  \A o \in DOMAIN orders :
    /\ orders[o].status \in {"closed", "canceled"}
    /\ orders[o].status = "closed" => orders[o].filled = orders[o].qty
    /\ orders[o].filled = 0 => orders[o].cash = 0

\* What has a position is known to be held.
HeldKnown == \A s \in Sym : ledger.qty[s] > 0 => ledger.held_assets[s] > 0

Unoffered == \A s \in Sym : account.resting[s] = 0

HeldAssets == {s \in Sym : ledger.held_assets[s] > 0}

\* Nothing is reserved, or only amt for side sd of symbol s.
Free(l) ==
  l.reserved_budget = 0 /\ \A u \in Sym : l.reserved_quote[u] = 0 /\ l.reserved_base[u] = 0

OnlyReserved(l, s, sd, amt) ==
  /\ l.reserved_budget = IF sd = "buy" THEN amt ELSE 0
  /\ \A u \in Sym : l.reserved_quote[u] = IF sd = "buy" /\ u = s THEN amt ELSE 0
  /\ \A u \in Sym : l.reserved_base[u] = IF sd # "buy" /\ u = s THEN amt ELSE 0

\* The order that is waited for, or was last, and the trade it made.
Last  == orders[order_id]
Trade == [side |-> side, qty |-> Last.filled, cash |-> Last.cash]

\* What a trade adds to the budget.
Proceeds(t) == IF t.side = "buy" THEN 0 - t.cash ELSE t.cash

\* The account is what the ledger says, or what it will say once the last
\* order is booked.
Matches   == account.base = ledger.qty /\ account.quote = ledger.my_budget
WillMatch == /\ account.base = More(ledger.qty, sym, Signed(Trade))
             /\ account.quote = ledger.my_budget + Proceeds(Trade)

\* PositionMatchesAccount, LedgerSettled and PositionLimit made inductive: along
\* the way from the check to the booking, exactly the intent's own quantity is
\* reserved, at most its last order is not booked, and a buy has room.
Clean ==
  /\ OrdersDone
  /\ HeldKnown
  /\ Unoffered
  /\ PositionLimit
  /\ ~InFlight => Matches /\ Free(ledger)
  /\ InFlight => OnlyReserved(ledger, sym, side, qty)
  /\ pc = "loop" => Matches /\ filled_qty = 0
  /\ pc = "wait" => WillMatch /\ Last.qty = qty /\ filled_qty = 0
  /\ pc \in {"filled", "finish"} => WillMatch /\ Last.qty = qty /\ filled_qty = Last.filled
  /\ pc = "filled" => Last.filled = Last.qty
  /\ pc # "idle" /\ (pc = "handle" => cur \notin seen) /\ side = "buy"
       => Cardinality(HeldAssets) < MaxTrades

\* What a ledger function that only gives back reservations leaves alone.
Keeps(l, m) == m.my_budget = l.my_budget /\ m.qty = l.qty /\ m.held_assets = l.held_assets

\* Giving back what is not reserved changes nothing, giving back what is reserved
\* leaves nothing reserved.
LEMMA ReleaseFree ==
  ASSUME NEW l \in Ledger, NEW s \in Sym, NEW sd, NEW amt \in Nat,
         Free(l) \/ OnlyReserved(l, s, sd, amt)
  PROVE  Free(release(l, s, sd, amt)) /\ Keeps(l, release(l, s, sd, amt))
<1> DEFINE m == release(l, s, sd, amt)
<1>1. /\ sd = "buy" => /\ m.reserved_quote = Less(l.reserved_quote, s, amt)
                       /\ m.reserved_budget = Monus(l.reserved_budget, amt)
                       /\ m.reserved_base = l.reserved_base
      /\ sd # "buy" => /\ m.reserved_base = Less(l.reserved_base, s, amt)
                       /\ m.reserved_quote = l.reserved_quote
                       /\ m.reserved_budget = l.reserved_budget
      /\ m.my_budget = l.my_budget /\ m.qty = l.qty /\ m.held_assets = l.held_assets
  BY ReleaseEffect
<1> HIDE DEF m
<1>2. l.reserved_quote \in [Sym -> Nat] /\ l.reserved_base \in [Sym -> Nat]
  BY LedgerFields
<1>3. Monus(0, amt) = 0 /\ Monus(amt, amt) = 0
  BY DEF Monus
<1>4. CASE sd = "buy"
  <2>1. m.reserved_budget = 0
    BY <1>1, <1>3, <1>4 DEF Free, OnlyReserved
  <2>2. \A u \in Sym : m.reserved_quote[u] = 0
    BY <1>1, <1>2, <1>3, <1>4 DEF Free, OnlyReserved, Less
  <2>3. \A u \in Sym : m.reserved_base[u] = 0
    BY <1>1, <1>4 DEF Free, OnlyReserved
  <2>4. QED
    BY <1>1, <2>1, <2>2, <2>3 DEF Free, Keeps, m
<1>5. CASE sd # "buy"
  <2>1. m.reserved_budget = 0
    BY <1>1, <1>5 DEF Free, OnlyReserved
  <2>2. \A u \in Sym : m.reserved_quote[u] = 0
    BY <1>1, <1>5 DEF Free, OnlyReserved
  <2>3. \A u \in Sym : m.reserved_base[u] = 0
    BY <1>1, <1>2, <1>3, <1>5 DEF Free, OnlyReserved, Less
  <2>4. QED
    BY <1>1, <2>1, <2>2, <2>3 DEF Free, Keeps, m
<1>6. QED
  BY <1>4, <1>5

\* Clearing an intent leaves a ledger without reservations without them, and the rest
\* as it was.
LEMMA ClearedFree ==
  ASSUME TypeOK, NEW l \in Ledger, NEW i \in DOMAIN req, Free(l)
  PROVE  Free(Cleared(l, i)) /\ Keeps(l, Cleared(l, i))
<1>1. req[i].sym \in Sym /\ req[i].quote_budget \in Nat
  BY RequestType
<1>2. CASE i \in pending
  <2>1. Cleared(l, i) = release(l, req[i].sym, "buy", req[i].quote_budget)
    BY <1>2 DEF Cleared, release
  <2>2. QED
    BY <1>1, <2>1, ReleaseFree
<1>3. CASE i \notin pending
  BY <1>3 DEF Cleared, Keeps
<1>4. QED
  BY <1>2, <1>3

\* A reservation is the only one of a ledger that had none.
LEMMA ReserveOnly ==
  ASSUME NEW l \in Ledger, NEW s \in Sym, NEW sd, NEW amt \in Nat, Free(l)
  PROVE  /\ OnlyReserved(reserve(l, s, sd, amt), s, sd, amt)
         /\ Keeps(l, reserve(l, s, sd, amt))
<1> DEFINE m == reserve(l, s, sd, amt)
<1>1. /\ sd = "buy" => /\ m.reserved_quote = More(l.reserved_quote, s, amt)
                       /\ m.reserved_budget = l.reserved_budget + amt
                       /\ m.reserved_base = l.reserved_base
      /\ sd # "buy" => /\ m.reserved_base = More(l.reserved_base, s, amt)
                       /\ m.reserved_quote = l.reserved_quote
                       /\ m.reserved_budget = l.reserved_budget
      /\ m.my_budget = l.my_budget /\ m.qty = l.qty /\ m.held_assets = l.held_assets
  BY ReserveEffect
<1> HIDE DEF m
<1>2. l.reserved_quote \in [Sym -> Nat] /\ l.reserved_base \in [Sym -> Nat]
  BY LedgerFields
<1>3. CASE sd = "buy"
  <2>1. m.reserved_budget = amt
    BY <1>1, <1>3 DEF Free
  <2>2. \A u \in Sym : m.reserved_quote[u] = IF u = s THEN amt ELSE 0
    BY <1>1, <1>2, <1>3 DEF Free, More
  <2>3. \A u \in Sym : m.reserved_base[u] = 0
    BY <1>1, <1>3 DEF Free
  <2>4. QED
    BY <1>1, <1>3, <2>1, <2>2, <2>3 DEF OnlyReserved, Keeps, m
<1>4. CASE sd # "buy"
  <2>1. m.reserved_budget = 0 /\ \A u \in Sym : m.reserved_quote[u] = 0
    BY <1>1, <1>4 DEF Free
  <2>2. \A u \in Sym : m.reserved_base[u] = IF u = s THEN amt ELSE 0
    BY <1>1, <1>2, <1>4 DEF Free, More
  <2>3. QED
    BY <1>1, <1>4, <2>1, <2>2 DEF OnlyReserved, Keeps, m
<1>5. QED
  BY <1>3, <1>4

\* Booking the trade of an order: the position and the budget take over what was
\* traded; a buy leaves nothing reserved, a sell what it did not sell.
LEMMA ApplyFillsClean ==
  ASSUME NEW l \in Ledger, NEW s \in Sym, NEW t \in Trades, NEW amt \in Nat,
         OnlyReserved(l, s, t.side, amt), l.my_budget + Proceeds(t) \in Nat
  PROVE  LET m == apply_fills(l, s, t)
         IN  /\ m.qty = More(l.qty, s, Signed(t))
             /\ m.my_budget = l.my_budget + Proceeds(t)
             /\ Free(m) \/ OnlyReserved(m, s, t.side, Monus(amt, t.qty))
             /\ \A u \in Sym : u # s => m.held_assets[u] = l.held_assets[u]
             /\ m.qty[s] > 0 => m.held_assets[s] > 0
<1> DEFINE m == apply_fills(l, s, t)
           r == l.reserved_quote[s]
<1>1. /\ m.qty = More(l.qty, s, Signed(t))
      /\ t.side = "buy" => /\ m.reserved_quote = Less(l.reserved_quote, s, r)
                           /\ m.reserved_budget = Monus(l.reserved_budget, r)
                           /\ m.reserved_base = l.reserved_base
                           /\ m.my_budget = Monus(l.my_budget, t.cash)
      /\ t.side # "buy" => /\ m.reserved_quote = l.reserved_quote
                           /\ m.reserved_budget = l.reserved_budget
                           /\ m.reserved_base = Less(l.reserved_base, s, t.qty)
                           /\ m.my_budget = l.my_budget + t.cash
      /\ \A u \in Sym : u # s => m.held_assets[u] = l.held_assets[u]
      /\ m.qty[s] > 0 => m.held_assets[s] > 0
  BY ApplyFillsEffect
<1> HIDE DEF m
<1>2. /\ l.reserved_quote \in [Sym -> Nat] /\ l.reserved_base \in [Sym -> Nat]
      /\ l.my_budget \in Nat /\ t.cash \in Nat /\ t.qty \in Nat
  BY LedgerFields DEF Trades
<1>3. CASE t.side = "buy"
  <2>1. r = amt /\ l.reserved_budget = amt
    BY <1>3 DEF OnlyReserved
  <2>2. m.reserved_budget = 0
    BY <1>1, <1>3, <2>1 DEF Monus
  <2>3. \A u \in Sym : m.reserved_quote[u] = 0
    BY <1>1, <1>2, <1>3, <2>1 DEF OnlyReserved, Less, Monus
  <2>4. \A u \in Sym : m.reserved_base[u] = 0
    BY <1>1, <1>3 DEF OnlyReserved
  <2>5. m.my_budget = l.my_budget + Proceeds(t)
    BY <1>1, <1>2, <1>3 DEF Proceeds, Monus
  <2>6. QED
    BY <1>1, <2>2, <2>3, <2>4, <2>5 DEF Free, m
<1>4. CASE t.side # "buy"
  <2>1. m.reserved_budget = 0 /\ \A u \in Sym : m.reserved_quote[u] = 0
    BY <1>1, <1>4 DEF OnlyReserved
  <2>2. \A u \in Sym : m.reserved_base[u] = IF u = s THEN Monus(amt, t.qty) ELSE 0
    BY <1>1, <1>2, <1>4 DEF OnlyReserved, Less
  <2>3. m.my_budget = l.my_budget + Proceeds(t)
    BY <1>1, <1>4 DEF Proceeds
  <2>4. OnlyReserved(m, s, t.side, Monus(amt, t.qty))
    BY <1>4, <2>1, <2>2 DEF OnlyReserved
  <2>5. QED
    BY <1>1, <2>3, <2>4 DEF m
<1>5. QED
  BY <1>3, <1>4

\* An order that the exchange accepts is done at once, and the account has
\* traded what the order says.
LEMMA AcceptClean ==
  ASSUME Answers, TypeOK, Referential, InLoop, filled_qty = 0, AcceptOrder
  PROVE  \E new \in Order :
           /\ orders' = Append(orders, new)
           /\ new.intent = cur /\ new.qty = qty
           /\ new.status \in {"closed", "canceled"}
           /\ new.status = "closed" => new.filled = new.qty
           /\ new.filled = 0 => new.cash = 0
           /\ LET t == [side |-> side, qty |-> new.filled, cash |-> new.cash]
              IN  /\ account'.base = More(account.base, sym, Signed(t))
                  /\ account'.quote = account.quote + Proceeds(t)
           /\ account'.resting = account.resting
<1>1. /\ cur \in Intent /\ sym \in Sym /\ side \in Side /\ qty \in Nat
      /\ Remaining = qty
  BY LocalTypes DEF InLoop, Remaining
<1>2. PICK f \in 0..qty, x \in Slip :
        LET c == Cash(side, f, x)
        IN  /\ \E st \in StatusAfter(f, qty) :
                 orders' = Append(orders, [intent |-> cur, qty |-> qty,
                                           filled |-> f, cash |-> c, status |-> st])
            /\ Execute(sym, side, f, c)
  BY <1>1 DEF AcceptOrder
<1> DEFINE c == Cash(side, f, x)
<1>3. f \in Nat /\ x \in Nat /\ c \in Nat /\ (f = 0 => c = 0)
  <2>1. f \in Nat /\ x \in Nat
    BY <1>1, <1>2, RouterAssumption
  <2>2. QED
    BY <2>1, CashType DEF Cash
<1>4. PICK st \in StatusAfter(f, qty) :
        orders' = Append(orders, [intent |-> cur, qty |-> qty, filled |-> f,
                                  cash |-> c, status |-> st])
  BY <1>2
<1>5. st \in {"closed", "canceled"} /\ (st = "closed" => f = qty)
  BY <1>4 DEF StatusAfter, Answers
<1> DEFINE new == [intent |-> cur, qty |-> qty, filled |-> f, cash |-> c, status |-> st]
           t == [side |-> side, qty |-> new.filled, cash |-> new.cash]
<1>6. new \in Order
  BY <1>1, <1>3, <1>5 DEF Order, OrderStatus
<1>7. /\ account'.base = More(account.base, sym, Signed(t))
      /\ account'.quote = account.quote + Proceeds(t)
      /\ account'.resting = account.resting
  <2>1. Execute(sym, side, f, c)
    BY <1>2
  <2>2. account \in Account /\ account.base \in [Sym -> Nat] /\ account.quote \in Nat
    BY <1>1, AccountType DEF TypeOK
  <2> HIDE DEF c
  <2>3. CASE side = "buy"
    <3>1. account' = [account EXCEPT !.base[sym] = @ + f, !.quote = @ - c]
      BY <2>1, <2>3 DEF Execute
    <3>2. Signed(t) = f /\ Proceeds(t) = 0 - c
      BY <2>3 DEF Signed, Proceeds
    <3>3. QED
      BY <1>3, <2>2, <3>1, <3>2 DEF More, Account
  <2>4. CASE side # "buy"
    <3>1. account' = [account EXCEPT !.base[sym] = @ - f, !.quote = @ + c]
      BY <2>1, <2>4 DEF Execute
    <3>2. Signed(t) = 0 - f /\ Proceeds(t) = c
      BY <2>4 DEF Signed, Proceeds
    <3>3. QED
      BY <1>3, <2>2, <3>1, <3>2 DEF More, Account
  <2>5. QED
    BY <2>3, <2>4
<1>8. orders' = Append(orders, new)
  BY <1>4
<1>9. /\ new.intent = cur /\ new.qty = qty
      /\ new.status \in {"closed", "canceled"}
      /\ new.status = "closed" => new.filled = new.qty
      /\ new.filled = 0 => new.cash = 0
  BY <1>3, <1>5
<1> HIDE DEF new
<1>10. QED
  BY <1>6, <1>7, <1>8, <1>9

\* With room for one more asset, a buy keeps the position limit; a sell always does.
LEMMA PositionLimitTrade ==
  ASSUME TypeOK, TypeOK', NEW s \in Sym, NEW t \in Trades,
         account.base = ledger.qty, account'.base = More(account.base, s, Signed(t)),
         HeldKnown, PositionLimit, t.side = "buy" => Cardinality(HeldAssets) < MaxTrades
  PROVE  PositionLimit'
<1> DEFINE B == {u \in Sym : account.base[u] > 0}
           C == {u \in Sym : account'.base[u] > 0}
<1>1. IsFiniteSet(Sym) /\ IsFiniteSet(HeldAssets) /\ IsFiniteSet(B)
  BY PortfolioAssumption, FS_Subset DEF HeldAssets
<1>2. account.base \in [Sym -> Nat] /\ t.qty \in Nat /\ MaxTrades \in Nat
  BY AccountType, RouterAssumption DEF TypeOK, Trades
<1>3. CASE t.side = "buy"
  <2>1. C \subseteq HeldAssets \cup {s}
    BY <1>2, <1>3 DEF HeldKnown, HeldAssets, More
  <2>2. /\ IsFiniteSet(HeldAssets \cup {s})
        /\ Cardinality(HeldAssets \cup {s}) <= Cardinality(HeldAssets) + 1
        /\ Cardinality(HeldAssets) \in Nat
    <3>1. Cardinality(HeldAssets) \in Nat
      BY <1>1, FS_CardinalityType
    <3>2. /\ IsFiniteSet(HeldAssets \cup {s})
          /\ Cardinality(HeldAssets \cup {s}) = IF s \in HeldAssets THEN Cardinality(HeldAssets)
                                                ELSE Cardinality(HeldAssets) + 1
      BY <1>1, FS_AddElement
    <3>3. QED
      BY <3>1, <3>2
  <2> HIDE DEF C
  <2>3. Cardinality(C) <= Cardinality(HeldAssets \cup {s}) /\ Cardinality(C) \in Nat
    BY <2>1, <2>2, FS_Subset, FS_CardinalityType
  <2>4. Cardinality(HeldAssets \cup {s}) \in Nat
    BY <2>2, FS_CardinalityType
  <2>5. Cardinality(C) <= MaxTrades
    BY <1>2, <1>3, <2>2, <2>3, <2>4
  <2>6. QED
    BY <2>5 DEF PositionLimit, C
<1>4. CASE t.side # "buy"
  <2>1. C \subseteq B
    BY <1>2, <1>4 DEF More, Signed
  <2> HIDE DEF B, C
  <2>2. Cardinality(C) <= Cardinality(B) /\ Cardinality(C) \in Nat /\ Cardinality(B) \in Nat
    BY <1>1, <2>1, FS_Subset, FS_CardinalityType
  <2>3. Cardinality(B) <= MaxTrades
    BY DEF PositionLimit, B
  <2>4. Cardinality(C) <= MaxTrades
    BY <1>2, <2>2, <2>3
  <2>5. QED
    BY <2>4 DEF PositionLimit, C
<1>5. QED
  BY <1>3, <1>4

\* It holds when the engine starts.
LEMMA InitClean == Init => Clean
<1> SUFFICES ASSUME Init PROVE Clean
  OBVIOUS
<1>1. OrdersDone /\ HeldKnown /\ Unoffered
  BY DEF Init, OrdersDone, HeldKnown, Unoffered, EmptyLedger
<1>2. PositionLimit
  <2>1. {s \in Sym : account.base[s] > 0} = {}
    BY DEF Init
  <2>2. QED
    BY <2>1, FS_EmptySet, RouterAssumption DEF PositionLimit
<1>3. Matches /\ Free(ledger)
  BY DEF Init, Matches, Free, EmptyLedger
<1>4. pc = "idle" /\ ~InFlight
  BY DEF Init, InFlight
<1>5. QED
  BY <1>1, <1>2, <1>3, <1>4 DEF Clean

\* What stays true while neither the exchange acts nor a trade is booked.
LEMMA CleanKept ==
  ASSUME Clean, UNCHANGED <<orders, account>>, Keeps(ledger, ledger')
  PROVE  /\ OrdersDone' /\ HeldKnown' /\ Unoffered' /\ PositionLimit'
         /\ HeldAssets' = HeldAssets
         /\ Matches => Matches'
BY DEF Clean, Keeps, OrdersDone, HeldKnown, Unoffered, PositionLimit, HeldAssets, Matches

\* Between intents: with nothing reserved and the account matching, all is clean.
LEMMA CleanIdle ==
  ASSUME OrdersDone', HeldKnown', Unoffered', PositionLimit', Matches', Free(ledger'),
         pc' = "idle"
  PROVE  Clean'
BY DEF Clean, InFlight

\* Making an intent, and settling one that is stale.
LEMMA SubmitClean ==
  ASSUME TypeOK, Consistent, Sound, Clean, Submit
  PROVE  Clean'
<1>0. /\ ledger \in Ledger /\ pending \subseteq DOMAIN req /\ req \in Seq(Request)
      /\ Len(req) \in Nat
  BY DEF TypeOK, Consistent, Referential
<1>1. ASSUME NEW s \in Sym, NEW d \in -Drift..Drift, SubmitBuy(s, d) PROVE Clean'
  <2>1. /\ pc = "idle" /\ pc' = "handle" /\ UNCHANGED <<orders, account>>
        /\ UNCHANGED ledger \/ \E j \in pending : ledger' = Cleared(ledger, j)
        /\ BuyAllowed(s)
    BY <1>1 DEF SubmitBuy, Publish, exchange
  <2>2. Matches /\ Free(ledger)
    BY <2>1 DEF Clean, InFlight
  <2>3. Free(ledger') /\ Keeps(ledger, ledger')
    BY <1>0, <2>1, <2>2, ClearedFree DEF Keeps
  <2>4. /\ OrdersDone' /\ HeldKnown' /\ Unoffered' /\ PositionLimit'
        /\ HeldAssets' = HeldAssets /\ Matches'
    BY <2>1, <2>2, <2>3, CleanKept
  <2>5. Cardinality(HeldAssets') < MaxTrades
    BY <2>1, <2>4 DEF BuyAllowed, HeldAssets
  <2>6. ~InFlight'
    BY <2>1 DEF InFlight
  <2>7. QED
    BY <2>1, <2>3, <2>4, <2>5, <2>6 DEF Clean
<1>2. ASSUME NEW s \in Sym, SubmitExit(s) PROVE Clean'
  <2>1. /\ pc = "idle" /\ pc' = "handle" /\ UNCHANGED <<orders, account, ledger>>
        /\ cur' = Len(req) + 1
    BY <1>2 DEF SubmitExit, Publish, exchange
  <2>2. ledger.qty[s] > 0
    BY <1>0, <1>2, LedgerFields DEF SubmitExit, Sound, NeverShort
  <2>3. req' = Append(req, [sym |-> s, side |-> "sell", qty |-> ledger.qty[s],
                            quote_budget |-> 0])
    BY <1>2, <2>2 DEF SubmitExit
  <2>4. side' # "buy"
    BY <1>0, <2>1, <2>3 DEF side
  <2>5. Matches /\ Free(ledger) /\ Keeps(ledger, ledger')
    BY <2>1 DEF Clean, InFlight, Keeps
  <2>6. /\ OrdersDone' /\ HeldKnown' /\ Unoffered' /\ PositionLimit'
        /\ HeldAssets' = HeldAssets /\ Matches'
    BY <2>1, <2>5, CleanKept
  <2>7. ~InFlight' /\ Free(ledger')
    BY <2>1, <2>5 DEF InFlight
  <2>8. QED
    BY <2>1, <2>4, <2>6, <2>7 DEF Clean
<1>3. QED
  BY <1>1, <1>2 DEF Submit

\* The check, the reservation and the refusals: nothing was sent yet.
LEMMA HandleClean ==
  ASSUME TypeOK, Consistent, Clean, IgnoreDuplicate \/ ReserveBudget \/ RefuseIntent
  PROVE  Clean'
<1>0. /\ ledger \in Ledger /\ Referential /\ pc = "handle" /\ cur \in DOMAIN req
      /\ filled_qty = 0 /\ Matches /\ Free(ledger)
  BY DEF TypeOK, Consistent, Referential, IgnoreDuplicate, ReserveBudget, RefuseIntent,
         InFlight, Clean
<1>1. CASE IgnoreDuplicate
  <2>1. pc' = "idle" /\ UNCHANGED <<orders, account, ledger>>
    BY <1>1 DEF IgnoreDuplicate, Return, exchange
  <2>2. Keeps(ledger, ledger') /\ Free(ledger')
    BY <1>0, <2>1 DEF Keeps
  <2>3. QED
    BY <1>0, <2>1, <2>2, CleanKept, CleanIdle
<1>2. CASE RefuseIntent
  <2>1. pc' = "idle" /\ UNCHANGED <<orders, account>> /\ ledger' = Cleared(ledger, cur)
    BY <1>2 DEF RefuseIntent, ReportFailed, Return, exchange
  <2>2. Keeps(ledger, ledger') /\ Free(ledger')
    BY <1>0, <2>1, ClearedFree
  <2>3. QED
    BY <1>0, <2>1, <2>2, CleanKept, CleanIdle
<1>3. CASE ReserveBudget
  <2>1. /\ pc' = "loop" /\ cur \notin seen
        /\ UNCHANGED <<req, cur, filled_qty, orders, account>>
        /\ ledger' = reserve(ledger, sym, side, qty)
    BY <1>3 DEF ReserveBudget, locals, exchange
  <2>2. UNCHANGED <<sym, side, qty>>
    BY <2>1 DEF sym, side, qty
  <2>3. sym \in Sym /\ qty \in Nat
    BY <1>0, LocalTypes
  <2>4. OnlyReserved(ledger', sym, side, qty) /\ Keeps(ledger, ledger')
    BY <1>0, <2>1, <2>3, ReserveOnly
  <2>5. /\ OrdersDone' /\ HeldKnown' /\ Unoffered' /\ PositionLimit'
        /\ HeldAssets' = HeldAssets /\ Matches'
    BY <1>0, <2>1, <2>4, CleanKept
  <2>6. side = "buy" => Cardinality(HeldAssets) < MaxTrades
    BY <1>0, <2>1 DEF Clean
  <2>7. InFlight'
    BY <2>1 DEF InFlight
  <2>8. QED
    BY <1>0, <2>1, <2>2, <2>4, <2>5, <2>6, <2>7 DEF Clean
<1>4. QED
  BY <1>1, <1>2, <1>3

\* Sending: refused, or accepted, done and not yet booked.
LEMMA SendClean ==
  ASSUME Answers, TypeOK, TypeOK', Consistent, Clean, SendOrder \/ PlaceFails
  PROVE  Clean'
<1>0. /\ InLoop /\ InFlight /\ pc = "loop" /\ UNCHANGED <<req, cur, ledger, filled_qty>>
      /\ filled_qty = 0 /\ Matches /\ OnlyReserved(ledger, sym, side, qty)
      /\ Referential /\ OrdersDone /\ HeldKnown /\ Unoffered /\ PositionLimit
      /\ side = "buy" => Cardinality(HeldAssets) < MaxTrades
  BY DEF SendOrder, PlaceFails, InLoop, InFlight, Clean, Consistent
<1>1. /\ UNCHANGED <<sym, side, qty, HeldAssets>> /\ OnlyReserved(ledger', sym', side', qty')
      /\ HeldKnown'
  BY <1>0 DEF sym, side, qty, HeldAssets, HeldKnown
<1>2. CASE PlaceFails
  <2>1. pc' = "loop" /\ UNCHANGED <<orders, account>>
    BY <1>0, <1>2 DEF PlaceFails, Answers, exchange
  <2>2. OrdersDone' /\ Unoffered' /\ PositionLimit' /\ Matches' /\ InFlight'
    BY <1>0, <2>1 DEF OrdersDone, Unoffered, PositionLimit, Matches, InFlight
  <2>3. QED
    BY <1>0, <1>1, <2>1, <2>2 DEF Clean
<1>3. CASE SendOrder
  <2>1. pc' = "wait" /\ order_id' = Len(orders) + 1 /\ AcceptOrder
    BY <1>3 DEF SendOrder
  <2>2. PICK new \in Order :
           /\ orders' = Append(orders, new)
           /\ new.intent = cur /\ new.qty = qty
           /\ new.status \in {"closed", "canceled"}
           /\ new.status = "closed" => new.filled = new.qty
           /\ new.filled = 0 => new.cash = 0
           /\ LET t == [side |-> side, qty |-> new.filled, cash |-> new.cash]
              IN  /\ account'.base = More(account.base, sym, Signed(t))
                  /\ account'.quote = account.quote + Proceeds(t)
           /\ account'.resting = account.resting
    BY <1>0, <2>1, AcceptClean
  <2> DEFINE t == [side |-> side, qty |-> new.filled, cash |-> new.cash]
  <2>3. /\ DOMAIN orders' = DOMAIN orders \cup {Len(orders) + 1}
        /\ orders'[Len(orders) + 1] = new
        /\ \A o \in DOMAIN orders : orders'[o] = orders[o]
    BY <2>2, AppendedOrder
  <2>4. Last' = new /\ Trade' = t
    BY <1>1, <2>1, <2>3 DEF Last, Trade
  <2>5. t \in Trades /\ sym \in Sym
    BY <1>0, LocalTypes DEF Order, Trades
  <2>6. account'.base = More(account.base, sym, Signed(t))
        /\ account'.quote = account.quote + Proceeds(t)
    BY <2>2
  <2>7. t.side = side
    OBVIOUS
  <2> HIDE DEF t
  <2>8. PositionLimit'
    BY <1>0, <2>5, <2>6, <2>7, PositionLimitTrade DEF Matches
  <2>9. WillMatch'
    BY <1>0, <1>1, <2>4, <2>6 DEF WillMatch, Matches
  <2>10. OrdersDone' /\ Unoffered'
    BY <1>0, <2>2, <2>3 DEF OrdersDone, Unoffered
  <2>11. InFlight' /\ Last'.qty = qty'
    BY <1>1, <2>1, <2>2, <2>4 DEF InFlight
  <2>12. QED
    BY <1>0, <1>1, <2>1, <2>8, <2>9, <2>10, <2>11 DEF Clean
<1>4. QED
  BY <1>2, <1>3

\* The poll tells the order as it is: its executions are counted once.
LEMMA WaitClean ==
  ASSUME Answers, TypeOK, Consistent, Clean, WaitForFill
  PROVE  Clean'
<1>1. /\ pc = "wait" /\ UNCHANGED <<req, cur, order_id, ledger, orders, account>>
      /\ filled_qty' = filled_qty + Last.filled
      /\ pc' = CASE Last.status = "closed"   -> "filled"
                 [] Last.status = "canceled" -> "finish"
                 [] OTHER                    -> "loop"
  BY DEF WaitForFill, Observations, Answers, Last, exchange
<1>2. /\ InFlight /\ WillMatch /\ Last.qty = qty /\ filled_qty = 0
      /\ OrdersDone /\ HeldKnown /\ Unoffered /\ PositionLimit
      /\ OnlyReserved(ledger, sym, side, qty)
      /\ side = "buy" => Cardinality(HeldAssets) < MaxTrades
  BY <1>1 DEF Clean, InFlight
<1>3. order_id \in DOMAIN orders /\ Last.filled \in Nat
  <2>1. order_id \in DOMAIN orders
    BY <1>1 DEF Consistent, Referential
  <2>2. QED
    BY <2>1, OrderFields DEF TypeOK, Last
<1>4. /\ Last.status \in {"closed", "canceled"}
      /\ Last.status = "closed" => Last.filled = Last.qty
  BY <1>2, <1>3 DEF OrdersDone, Last
<1>5. /\ pc' \in {"filled", "finish"} /\ filled_qty' = Last.filled
      /\ pc' = "filled" => Last.filled = Last.qty
  BY <1>1, <1>2, <1>3, <1>4
<1>6. UNCHANGED <<sym, side, qty, Last, Trade, HeldAssets>>
  BY <1>1 DEF sym, side, qty, Last, Trade, HeldAssets
<1>7. OrdersDone' /\ HeldKnown' /\ Unoffered' /\ PositionLimit' /\ WillMatch'
  BY <1>1, <1>2, <1>6 DEF OrdersDone, HeldKnown, Unoffered, PositionLimit, WillMatch
<1>8. InFlight'
  BY <1>5 DEF InFlight
<1>9. QED
  BY <1>1, <1>2, <1>5, <1>6, <1>7, <1>8 DEF Clean

\* Booking the last order: its trade is what the account made, once.
LEMMA BookClean ==
  ASSUME Answers, TypeOK, TypeOK', Consistent, Clean, PublishFilled \/ PartialSuccess
  PROVE  Clean'
<1>1. /\ pc \in {"filled", "finish"} /\ filled_qty > 0 /\ filled_qty = Last.filled
      /\ InFlight /\ WillMatch /\ Last.qty = qty /\ (PublishFilled => Last.filled = qty)
      /\ OrdersDone /\ HeldKnown /\ Unoffered /\ PositionLimit
      /\ OnlyReserved(ledger, sym, side, qty)
  <2>1. pc # "idle" /\ Referential
    BY DEF PublishFilled, PartialSuccess, LoopOver, Consistent
  <2>2. qty \in Nat \ {0}
    BY <2>1, LocalTypes
  <2>3. pc \in {"filled", "finish"} /\ (PublishFilled => pc = "filled")
    BY DEF PublishFilled, PartialSuccess, LoopOver, Clean
  <2>4. PartialSuccess => filled_qty > 0
    BY DEF PartialSuccess
  <2>5. QED
    BY <2>2, <2>3, <2>4 DEF Clean, InFlight
<1>2. Referential /\ pc # "idle" /\ order_id # NoOrder /\ order_id \in DOMAIN orders
  BY <1>1 DEF Consistent, Referential
<1>3. /\ ledger \in Ledger /\ ledger' \in Ledger /\ filled_qty \in Nat
      /\ sym \in Sym /\ side \in Side /\ qty \in Nat
      /\ account.quote \in Nat /\ UNCHANGED <<orders, account>>
      /\ pc' = "idle"
  <2>1. sym \in Sym /\ side \in Side /\ qty \in Nat
    BY <1>2, LocalTypes
  <2>2. account.quote \in Nat
    BY <2>1, AccountType DEF TypeOK
  <2>3. UNCHANGED <<orders, account>> /\ pc' = "idle"
    BY DEF Answers, PublishFilled, PartialSuccess, ReportFilled, handle_router_fill,
           PlaceTakeProfit, Return
  <2>4. QED
    BY <2>1, <2>2, <2>3 DEF TypeOK
<1>4. FetchedTrades = {Trade} /\ Trade \in Trades /\ Trade.side = side
      /\ Trade.qty = filled_qty
  <2>1. FetchedTrades = {Trade}
    BY DEF FetchedTrades, Answers, Trade, Last
  <2>2. QED
    BY <1>1, <1>2, <2>1, FetchedTradesType DEF Trade
<1> DEFINE m == apply_fills(ledger, sym, Trade)
<1>5. Reconciled(ledger, Trade) = m
  BY <1>1, <1>3, <1>4 DEF Reconciled
<1>6. \/ ledger' = m /\ filled_qty = qty
      \/ ledger' = release(m, sym, side, Monus(qty, filled_qty))
  BY <1>1, <1>4, <1>5 DEF PublishFilled, PartialSuccess
<1>7. /\ m.qty = More(ledger.qty, sym, Signed(Trade))
      /\ m.my_budget = ledger.my_budget + Proceeds(Trade)
      /\ Free(m) \/ OnlyReserved(m, sym, side, Monus(qty, filled_qty))
      /\ \A u \in Sym : u # sym => m.held_assets[u] = ledger.held_assets[u]
      /\ m.qty[sym] > 0 => m.held_assets[sym] > 0
  <2>1. ledger.my_budget + Proceeds(Trade) \in Nat
    BY <1>1, <1>3 DEF WillMatch
  <2>2. OnlyReserved(ledger, sym, Trade.side, qty)
    BY <1>1, <1>4
  <2>3. QED
    BY <1>3, <1>4, <2>1, <2>2, ApplyFillsClean
<1>8. m \in Ledger
  BY <1>3, <1>4, ApplyFillsType
<1>9. m.qty = account.base /\ m.my_budget = account.quote
  BY <1>1, <1>7 DEF WillMatch
<1>10. \A u \in Sym : m.qty[u] > 0 => m.held_assets[u] > 0
  <2>1. ledger.qty \in [Sym -> Int]
    BY <1>3, LedgerFields
  <2>2. \A u \in Sym : u # sym => m.qty[u] = ledger.qty[u]
    BY <1>3, <1>7, <2>1 DEF More
  <2>3. QED
    BY <1>1, <1>7, <2>2 DEF HeldKnown
<1> HIDE DEF m
<1>11. Free(ledger') /\ Keeps(m, ledger')
  <2>1. CASE ledger' = m /\ filled_qty = qty
    <3>1. Monus(qty, filled_qty) = 0
      BY <1>3, <2>1 DEF Monus
    <3>2. Free(m)
      BY <1>7, <3>1 DEF Free, OnlyReserved
    <3>3. QED
      BY <2>1, <3>2 DEF Keeps
  <2>2. CASE ledger' = release(m, sym, side, Monus(qty, filled_qty))
    BY <1>3, <1>7, <1>8, <2>2, MonusType, ReleaseFree
  <2>3. QED
    BY <1>6, <2>1, <2>2
<1>12. HeldKnown' /\ Matches'
  BY <1>3, <1>9, <1>10, <1>11 DEF HeldKnown, Matches, Keeps
<1>13. OrdersDone' /\ Unoffered' /\ PositionLimit'
  BY <1>1, <1>3 DEF OrdersDone, Unoffered, PositionLimit
<1>14. QED
  BY <1>3, <1>11, <1>12, <1>13, CleanIdle

\* Giving up: nothing was executed, so nothing has to be booked.
LEMMA FailClean ==
  ASSUME TypeOK, Consistent, Clean, FailedFinal
  PROVE  Clean'
<1> DEFINE m == release(ledger, sym, side, qty)
<1>1. /\ pc \in {"loop", "finish"} /\ filled_qty = 0 /\ InFlight /\ Referential
      /\ ledger' = Cleared(m, cur) /\ UNCHANGED <<orders, account>> /\ pc' = "idle"
  BY DEF FailedFinal, LoopOver, ReportFailed, Return, exchange, InFlight, Consistent
<1>2. /\ sym \in Sym /\ side \in Side /\ qty \in Nat /\ cur \in DOMAIN req
      /\ ledger \in Ledger
  BY <1>1, LocalTypes DEF Referential, TypeOK
<1>3. OnlyReserved(ledger, sym, side, qty) /\ OrdersDone
  BY <1>1 DEF Clean
<1>4. Matches
  <2>1. CASE pc = "loop"
    BY <2>1 DEF Clean
  <2>2. CASE pc = "finish"
    <3>1. WillMatch /\ Last.filled = 0 /\ order_id \in DOMAIN orders
      BY <1>1, <2>2 DEF Clean, Referential
    <3>2. Last.cash = 0
      BY <1>3, <3>1 DEF OrdersDone, Last
    <3>3. Signed(Trade) = 0 /\ Proceeds(Trade) = 0
      <4>1. Trade.qty = 0 /\ Trade.cash = 0
        BY <3>1, <3>2 DEF Trade
      <4>2. QED
        BY <4>1 DEF Signed, Proceeds
    <3>4. More(ledger.qty, sym, 0) = ledger.qty /\ ledger.my_budget + 0 = ledger.my_budget
      BY <1>2, LedgerFields DEF More
    <3>5. QED
      BY <3>1, <3>3, <3>4 DEF WillMatch, Matches
  <2>3. QED
    BY <1>1, <2>1, <2>2
<1>5. m \in Ledger /\ Free(m) /\ Keeps(ledger, m)
  BY <1>2, <1>3, ReleaseFree, ReleaseType
<1> HIDE DEF m
<1>6. Free(ledger') /\ Keeps(m, ledger')
  BY <1>1, <1>2, <1>5, ClearedFree
<1>7. Keeps(ledger, ledger')
  BY <1>5, <1>6 DEF Keeps
<1>8. QED
  BY <1>1, <1>4, <1>6, <1>7, CleanKept, CleanIdle

\* Every step keeps Clean, if the exchange answers.
LEMMA CleanStep ==
  ASSUME Answers, TypeOK, TypeOK', Consistent, AllSeen, Sound, Clean, [Next]_vars
  PROVE  Clean'
<1>1. CASE Submit
  BY <1>1, SubmitClean
<1>2. CASE \E i \in DOMAIN req : Redeliver(i)
  <2>1. PICK i \in DOMAIN req : Redeliver(i)
    BY <1>2
  <2>2. /\ pc = "idle" /\ pc' = "handle" /\ cur' = i
        /\ UNCHANGED <<req, seen, ledger, orders, account>>
    BY <2>1 DEF Redeliver, Publish, exchange
  <2>3. Matches /\ Free(ledger) /\ Keeps(ledger, ledger')
    BY <2>2 DEF Clean, InFlight, Keeps
  <2>4. /\ OrdersDone' /\ HeldKnown' /\ Unoffered' /\ PositionLimit' /\ Matches'
    BY <2>2, <2>3, CleanKept
  <2>5. ~InFlight' /\ Free(ledger')
    BY <2>2, <2>3 DEF InFlight
  <2>6. i \in seen
    BY <2>1, <2>2 DEF AllSeen
  <2>7. QED
    BY <2>2, <2>4, <2>5, <2>6 DEF Clean
<1>3. CASE StaleSweep
  <2>1. /\ pc = "idle" /\ pc' = "idle" /\ UNCHANGED <<orders, account>>
        /\ \E i \in DOMAIN req : ledger' = Cleared(ledger, i)
    BY <1>3 DEF StaleSweep, exchange, Consistent, Referential
  <2>2. Matches /\ Free(ledger) /\ ledger \in Ledger
    BY <2>1 DEF Clean, InFlight, TypeOK
  <2>3. Free(ledger') /\ Keeps(ledger, ledger')
    BY <2>1, <2>2, ClearedFree
  <2>4. QED
    BY <2>1, <2>2, <2>3, CleanKept, CleanIdle
<1>4. CASE IgnoreDuplicate \/ ReserveBudget \/ RefuseIntent
  BY <1>4, HandleClean
<1>5. CASE SendOrder \/ PlaceFails
  BY <1>5, SendClean
<1>6. CASE WaitForFill
  BY <1>6, WaitClean
<1>7. CASE PublishFilled \/ PartialSuccess
  BY <1>7, BookClean
<1>8. CASE FailedFinal
  BY <1>8, FailClean
<1>9. CASE Exchange
  <2>1. OrdersDone /\ Unoffered
    BY DEF Clean
  <2>2. \A o \in DOMAIN orders : orders[o].status # "open"
    BY <2>1 DEF OrdersDone
  <2>3. \A s \in Sym : 1..account.resting[s] = {}
    BY <2>1 DEF Unoffered
  <2>4. QED
    BY <1>9, <2>2, <2>3 DEF Exchange, ExchangeFill, ExchangeCancel, TakeProfitFills
<1>10. CASE UNCHANGED vars
  <2>1. UNCHANGED <<req, seen, pc, cur, filled_qty, order_id, ledger, orders, account>>
    BY <1>10 DEF vars, locals, exchange
  <2>2. UNCHANGED <<InFlight, sym, side, qty, Last, Trade, HeldAssets, PositionLimit>>
    BY <2>1 DEF InFlight, sym, side, qty, Last, Trade, HeldAssets, PositionLimit
  <2>3. UNCHANGED <<OrdersDone, HeldKnown, Unoffered, Matches, WillMatch>>
    BY <2>1, <2>2 DEF OrdersDone, HeldKnown, Unoffered, Matches, WillMatch
  <2>4. QED
    BY <2>1, <2>2, <2>3 DEF Clean
<1>11. QED
  BY <1>1, <1>2, <1>3, <1>4, <1>5, <1>6, <1>7, <1>8, <1>9, <1>10 DEF Next, HandleIntent

-----------------------------------------------------------------------------
(***************************************************************************)
(* Refinement: every step is a step of IntentContract, or changes nothing  *)
(* that it sees.                                                           *)
(***************************************************************************)
LEMMA InitContract == Init => Contract!Init
<1> SUFFICES ASSUME Init PROVE Contract!Init
  OBVIOUS
<1>1. \A i : OrdersOf(i) = {}
  BY DEF Init, OrdersOf
<1>2. \A i : Cardinality(OrdersOf(i)) = 0
  BY <1>1, FS_EmptySet
<1>3. StatusMap = [i \in Intent |-> "new"]
  BY DEF StatusMap, StatusOf, Init
<1>4. SentMap = [i \in Intent |-> 0]
  BY <1>2 DEF SentMap
<1>5. QED
  BY <1>3, <1>4 DEF Contract!Init

\* In the contract's eyes the intent in flight is the one being worked on.
LEMMA WorkingIsCurrent ==
  ASSUME TypeOK, Consistent
  PROVE  /\ \A i \in Intent : StatusMap[i] = "working" <=> InFlight /\ i = cur
         /\ InFlight => cur \in Intent
<1>1. Serial /\ seen \subseteq Intent /\ outcome \in [Intent -> Outcome]
  BY DEF Consistent, TypeOK
<1>2. QED
  BY <1>1 DEF Serial, StatusMap, StatusOf, Outcome

\* What the contract sees is unchanged when nothing is told, entered in _seen
\* or sent.
LEMMA ContractStutters ==
  ASSUME UNCHANGED <<seen, outcome>>, \A i : OrdersOf(i)' = OrdersOf(i)
  PROVE  UNCHANGED <<StatusMap, SentMap>>
BY DEF StatusMap, StatusOf, SentMap

\* One more order sent.
LEMMA ContractSends ==
  ASSUME TypeOK, Consistent, InLoop, AcceptOrder, UNCHANGED <<seen, outcome>>
  PROVE  \E i \in Intent : Contract!SendOrder(i)
<1>0. Referential /\ Counted /\ InFlight
  BY DEF Consistent, InLoop, InFlight
<1>1. PICK k \in Intent : k = cur
  BY <1>0, WorkingIsCurrent
<1>2. PICK new \in Order : new.intent = k /\ orders' = Append(orders, new)
  BY <1>0, <1>1, AcceptOrderEffect
<1>3. Cardinality(OrdersOf(k)') = Cardinality(OrdersOf(k)) + 1
  BY <1>2, OrdersOfAppend
<1>4. \A i : i # k => OrdersOf(i)' = OrdersOf(i)
  BY <1>2, OrdersOfAppend
<1>5. SentMap' = [SentMap EXCEPT ![k] = @ + 1]
  BY <1>3, <1>4 DEF SentMap
<1>6. UNCHANGED StatusMap
  BY DEF StatusMap, StatusOf
<1>7. StatusMap[k] = "working"
  BY <1>0, <1>1, WorkingIsCurrent
<1>8. SentMap[k] < MaxRetries + 1
  <2>1. Cardinality(OrdersOf(k)) <= attempt /\ attempt <= MaxRetries
    BY <1>0, <1>1 DEF Counted, InLoop
  <2>2. attempt \in Nat /\ Cardinality(OrdersOf(k)) \in Nat
    BY OrdersOfFinite, RouterAssumption DEF TypeOK
  <2>3. QED
    BY <2>1, <2>2, RouterAssumption DEF SentMap
<1>9. QED
  BY <1>5, <1>6, <1>7, <1>8 DEF Contract!SendOrder

\* An intent ends filled only if an order was sent for it.
LEMMA ContractEnds ==
  ASSUME TypeOK, Consistent, InFlight, UNCHANGED <<seen, orders>>,
         NEW what \in {"filled", "failed"}, Tell(cur, what),
         what = "filled" => order_id # NoOrder
  PROVE  \E i \in Intent : Contract!Fill(i) \/ Contract!Fail(i)
<1>1. PICK k \in Intent : k = cur
  BY WorkingIsCurrent
<1>2. StatusMap[k] = "working"
  BY <1>1, WorkingIsCurrent
<1>3. outcome' = [outcome EXCEPT ![k] = what] /\ outcome \in [Intent -> Outcome]
  BY <1>1, TellOnce DEF TypeOK
<1>4. StatusMap' = [StatusMap EXCEPT ![k] = what]
  BY <1>3 DEF StatusMap, StatusOf
<1>5. UNCHANGED SentMap
  BY DEF SentMap, OrdersOf
<1>6. CASE what = "failed"
  BY <1>2, <1>4, <1>5, <1>6 DEF Contract!Fail
<1>7. CASE what = "filled"
  <2>1. order_id \in OrdersOf(k)
    BY <1>1, <1>7 DEF Consistent, Referential, OrdersOf
  <2>2. /\ IsFiniteSet(OrdersOf(k)) /\ Cardinality(OrdersOf(k)) \in Nat
        /\ Cardinality(OrdersOf(k)) # 0
    BY <2>1, OrdersOfFinite, FS_EmptySet
  <2>3. SentMap[k] > 0
    BY <2>2 DEF SentMap
  <2>4. QED
    BY <1>2, <1>4, <1>5, <1>7, <2>3 DEF Contract!Fill
<1>8. QED
  BY <1>6, <1>7

\* Every step is one of the contract or leaves what the contract sees.
LEMMA ContractStep ==
  ASSUME TypeOK, Consistent, [Next]_vars
  PROVE  [Contract!Next]_<<StatusMap, SentMap>>
<1> USE DEF InFlight
<1>0. Referential /\ Serial /\ outcome \in [Intent -> Outcome] /\ seen \subseteq Intent
  BY DEF Consistent, TypeOK
<1>1. CASE /\ UNCHANGED <<seen, outcome>>
           /\ \A i : OrdersOf(i)' = OrdersOf(i)
  BY <1>1, ContractStutters
<1>2. ASSUME UNCHANGED orders PROVE \A i : OrdersOf(i)' = OrdersOf(i)
  BY <1>2 DEF OrdersOf
<1>3. CASE Submit \/ \E i \in DOMAIN req : Redeliver(i)
  BY <1>1, <1>2, <1>3 DEF Submit, SubmitBuy, SubmitExit, Redeliver, exchange
<1>4. CASE StaleSweep \/ IgnoreDuplicate \/ WaitForFill \/ UNCHANGED vars
  BY <1>1, <1>2, <1>4 DEF StaleSweep, IgnoreDuplicate, WaitForFill, vars, exchange
<1>5. CASE ReserveBudget \/ RefuseIntent
  <2>1. PICK k \in Intent : k = cur
    BY <1>0, <1>5, LocalTypes DEF ReserveBudget, RefuseIntent
  <2>2. StatusMap[k] = "new" /\ outcome[k] = "none"
    BY <1>0, <1>5, <2>1 DEF ReserveBudget, RefuseIntent, StatusMap, StatusOf, Serial
  <2>3. Contract!Working = {}
    BY <1>5, WorkingIsCurrent DEF ReserveBudget, RefuseIntent, Contract!Working
  <2>4. UNCHANGED SentMap /\ seen' = seen \cup {k}
    BY <1>2, <1>5, <2>1
       DEF ReserveBudget, RefuseIntent, Known, SentMap, exchange
  <2>5. CASE ReserveBudget
    <3>1. StatusMap' = [StatusMap EXCEPT ![k] = "working"]
      BY <2>2, <2>4, <2>5 DEF ReserveBudget, StatusMap, StatusOf
    <3>2. QED
      BY <2>2, <2>3, <2>4, <3>1 DEF Contract!Begin, Contract!Next
  <2>6. CASE RefuseIntent
    <3>1. outcome' = [outcome EXCEPT ![k] = "failed"]
      BY <1>0, <2>1, <2>2, <2>6 DEF RefuseIntent, ReportFailed, Tell
    <3>2. StatusMap' = [StatusMap EXCEPT ![k] = "failed"]
      BY <1>0, <2>4, <3>1 DEF StatusMap, StatusOf
    <3>3. QED
      BY <2>2, <2>3, <2>4, <3>2 DEF Contract!Refuse, Contract!Next
  <2>7. QED
    BY <1>5, <2>5, <2>6
<1>6. CASE SendOrder \/ PlaceFails
  <2>1. InLoop /\ UNCHANGED <<seen, outcome>> /\ (AcceptOrder \/ UNCHANGED orders)
    BY <1>6 DEF SendOrder, PlaceFails, exchange
  <2>2. CASE AcceptOrder
    BY <2>1, <2>2, ContractSends DEF Contract!Next
  <2>3. QED
    BY <1>1, <1>2, <2>1, <2>2
<1>7. CASE PublishFilled \/ PartialSuccess \/ FailedFinal
  <2>1. InFlight /\ UNCHANGED <<seen, orders>>
    BY <1>7 DEF PublishFilled, PartialSuccess, FailedFinal, LoopOver, exchange
  <2>2. /\ filled_qty \in Nat
        /\ PublishFilled \/ PartialSuccess => order_id # NoOrder
    BY <1>0 DEF PublishFilled, PartialSuccess, Referential, TypeOK
  <2>3. \/ Tell(cur, "filled") /\ order_id # NoOrder
        \/ Tell(cur, "failed")
    BY <1>7, <2>2 DEF PublishFilled, PartialSuccess, FailedFinal, ReportFilled,
                      ReportFailed
  <2>4. QED
    BY <2>1, <2>3, ContractEnds DEF Contract!Next
<1>8. ASSUME NEW o \in DOMAIN orders, ExchangeFill(o) \/ ExchangeCancel(o)
      PROVE  [Contract!Next]_<<StatusMap, SentMap>>
  <2>1. \A i : OrdersOf(i)' = OrdersOf(i)
    BY <1>8, ExchangeKeepsOrders, OrdersOfKept
  <2>2. UNCHANGED <<seen, outcome>>
    BY <1>8 DEF ExchangeFill, ExchangeCancel
  <2>3. QED
    BY <1>1, <2>1, <2>2
<1>9. CASE \E s \in Sym : TakeProfitFills(s)
  BY <1>1, <1>2, <1>9 DEF TakeProfitFills
<1>10. QED
  BY <1>3, <1>4, <1>5, <1>6, <1>7, <1>8, <1>9 DEF Next, HandleIntent, Exchange

-----------------------------------------------------------------------------
(***************************************************************************)
(* The theorems.                                                           *)
(***************************************************************************)

\* Every variable keeps its type and the router's memory stays consistent,
\* along every interleaving with the exchange (handle_intent as a whole).
THEOREM RouterInvariant == Spec => [](TypeOK /\ Consistent)
<1>1. Init => TypeOK /\ Consistent
  BY InitType, InitConsistent
<1>2. TypeOK /\ Consistent /\ [Next]_vars => (TypeOK /\ Consistent)'
  <2>1. SUFFICES ASSUME TypeOK, Consistent, [Next]_vars
                 PROVE  TypeOK' /\ Consistent'
    OBVIOUS
  <2>2. TypeOK'
    BY <2>1, TypeStep DEF Consistent
  <2>3. Consistent'
    BY <2>1, ReferentialStep, SerialStep, CountedStep DEF Consistent
  <2>4. QED
    BY <2>2, <2>3
<1>3. QED
  BY <1>1, <1>2, PTL DEF Spec

\* No balance or reservation of the portfolio ever becomes negative, and no
\* variable leaves its type (ORDER_ROUTER_README.md asks it of reservations).
THEOREM RouterTypes == Spec => []TypeOK
BY RouterInvariant, PTL

\* The inductive invariant behind contract, single outcome and bounded attempts
\* holds in every state (handle_intent).
THEOREM RouterConsistent == Spec => []Consistent
BY RouterInvariant, PTL

\* No intent's outcome is told twice, however often it is redelivered.
THEOREM RouterTellsOnce == Spec => []ToldOnce
<1>1. Consistent => ToldOnce
  BY DEF Consistent, Serial, ToldOnce
<1>2. QED
  BY <1>1, RouterConsistent, PTL

\* At most max_retries + 1 orders are placed for an intent, those counted whose
\* answer was lost.
THEOREM RouterAttemptsBounded == Spec => []AttemptsBounded
<1>1. Consistent => AttemptsBounded
  BY DEF Consistent, Counted, AttemptsBounded
<1>2. QED
  BY <1>1, RouterConsistent, PTL

\* The inductive invariant behind the next three theorems.
THEOREM RouterBounded == Spec => [](AllSeen /\ FillsBounded /\ Backed /\ Sound)
<1> DEFINE B == AllSeen /\ FillsBounded /\ Backed /\ Sound
           I == TypeOK /\ Consistent
<1>1. Init => B
  BY InitSound
<1>2. I /\ I' /\ B /\ [Next]_vars => B'
  BY AllSeenStep, FillsBoundedStep, BackedStep, SoundStep
<1> HIDE DEF B, I
<1>3. Spec => []I
  BY RouterInvariant DEF I
<1>4. Spec => []B
  BY <1>1, <1>2, <1>3, PTL DEF Spec
<1>5. QED
  BY <1>4 DEF B

\* The router never believes more filled than the exchange executed: missed
\* polls, lost answers and retries only ever make it believe less.
THEOREM RouterFilledIsBacked == Spec => []FilledIsBacked
<1>1. TypeOK /\ Consistent /\ Backed => FilledIsBacked
  <2> SUFFICES ASSUME TypeOK, Consistent, Backed PROVE filled_qty <= Executed(cur)
    BY DEF FilledIsBacked
  <2>1. orders \in Seq(Order) /\ filled_qty \in Nat /\ Executed(cur) \in Nat
    BY ExecutedType DEF TypeOK
  <2>2. pc = "wait" => orders[order_id].filled \in Nat
    BY <2>1, OrderFields DEF Consistent, Referential
  <2>3. QED
    BY <2>1, <2>2 DEF Backed
<1>2. QED
  BY <1>1, RouterInvariant, RouterBounded, PTL

\* The counter of reserved quote never exceeds what the symbols reserve, and no
\* symbol reserves more than its limit, whatever was released twice or not at all.
THEOREM RouterReservationsAddUp == Spec => []ReservationsAddUp
<1>1. Sound => ReservationsAddUp
  BY DEF Sound, AddsUp, Limited, ReservationsAddUp
<1>2. QED
  BY <1>1, RouterBounded, PTL

\* No exit sells more of a position than it holds, so no position is ever short
\* and no short one has to be closed by a buy.
THEOREM RouterNeverShort == Spec => []NeverShort
<1>1. Sound => NeverShort
  BY DEF Sound
<1>2. QED
  BY <1>1, RouterBounded, PTL

\* Behind the next three theorems, for an exchange that answers.
THEOREM RouterClean == ASSUME Answers PROVE Spec => []Clean
<1> DEFINE I == TypeOK /\ Consistent
           B == AllSeen /\ FillsBounded /\ Backed /\ Sound
<1>1. Init => Clean
  BY InitClean
<1>2. I /\ I' /\ B /\ Clean /\ [Next]_vars => Clean'
  BY CleanStep
<1> HIDE DEF B, I
<1>3. Spec => []I
  BY RouterInvariant DEF I
<1>4. Spec => []B
  BY RouterBounded DEF B
<1>5. QED
  BY <1>1, <1>2, <1>3, <1>4, PTL DEF Spec

\* While the exchange answers, sends IOC orders and no take-profit order, the
\* portfolio's positions are the account's after every intent: partial fills,
\* refusals, retries and evictions included.
THEOREM RouterPositionMatchesAccount ==
  ASSUME Answers PROVE Spec => []PositionMatchesAccount
<1>1. Clean => PositionMatchesAccount
  BY DEF Clean, InFlight, Matches, PositionMatchesAccount
<1>2. QED
  BY <1>1, RouterClean, PTL

\* Then the budget is the account's cash as well, and nothing stays reserved.
THEOREM RouterLedgerSettled == ASSUME Answers PROVE Spec => []LedgerSettled
<1>1. Clean => LedgerSettled
  BY DEF Clean, InFlight, Matches, Free, LedgerSettled, CashMatchesAccount, IdleUnreserved
<1>2. QED
  BY <1>1, RouterClean, PTL

\* Then the account never holds more assets than config.MAX_TRADES, at no point
\* of any intent.
THEOREM RouterPositionLimit == ASSUME Answers PROVE Spec => []PositionLimit
<1>1. Clean => PositionLimit
  BY DEF Clean
<1>2. QED
  BY <1>1, RouterClean, PTL

-----------------------------------------------------------------------------
(***************************************************************************)
(* handle_intent comes to an end: the part of EveryIntentTold that needs   *)
(* no fairness.                                                            *)
(***************************************************************************)

\* How many more steps of the thread the intent being handled takes at most.
StepsLeft ==
  CASE pc = "idle"                 -> 0
    [] pc \in {"filled", "finish"} -> 1
    [] pc = "loop"                 -> 2 * (MaxRetries + 1 - attempt) + 1
    [] pc = "wait"                 -> 2 * (MaxRetries + 1 - attempt) + 2
    [] pc = "handle"               -> 2 * (MaxRetries + 1) + 2

\* Every step of the handler brings it nearer to its end, and nothing else that
\* happens in between takes it further away.
HandlingEnds ==
  /\ HandleIntent => StepsLeft' < StepsLeft
  /\ pc # "idle" /\ ~HandleIntent => StepsLeft' = StepsLeft

\* How many steps are left is a number.
LEMMA StepsLeftType ==
  ASSUME TypeOK
  PROVE  StepsLeft \in 0..(2 * MaxRetries + 4) /\ (pc # "idle" => StepsLeft > 0)
<1>1. /\ pc \in {"idle", "handle", "loop", "wait", "filled", "finish"}
      /\ MaxRetries \in Nat /\ attempt \in 0..(MaxRetries + 1)
  BY RouterAssumption DEF TypeOK, PC
<1>2. PICK r \in 0..(MaxRetries + 1) : r = MaxRetries + 1 - attempt
  BY <1>1
<1>3. 2 * r \in Nat /\ 2 * r <= 2 * MaxRetries + 2
  BY <1>1, <1>2
<1>4. QED
  BY <1>1, <1>2, <1>3 DEF StepsLeft

\* A step of the handler leaves fewer.
LEMMA HandlingStep ==
  ASSUME TypeOK, TypeOK', Consistent, HandleIntent
  PROVE  StepsLeft' < StepsLeft
<1>0. /\ MaxRetries \in Nat /\ attempt \in 0..(MaxRetries + 1)
      /\ attempt' \in 0..(MaxRetries + 1)
      /\ pc \in {"idle", "handle"} => attempt = 0
  BY RouterAssumption DEF TypeOK, Consistent, Referential, InFlight
<1>1. CASE Return /\ pc # "idle"
  <2>1. StepsLeft' = 0
    BY <1>1 DEF Return, StepsLeft
  <2>2. QED
    BY <1>1, <2>1, StepsLeftType
<1>2. CASE ReserveBudget
  <2>1. pc = "handle" /\ pc' = "loop" /\ attempt' = attempt
    BY <1>2 DEF ReserveBudget, locals
  <2>2. QED
    BY <1>0, <2>1 DEF StepsLeft
<1>3. CASE SendOrder \/ PlaceFails
  <2>1. pc = "loop" /\ pc' \in {"wait", "loop"} /\ attempt' = attempt + 1
    BY <1>3 DEF SendOrder, PlaceFails, InLoop
  <2>2. QED
    BY <1>0, <2>1 DEF StepsLeft
<1>4. CASE WaitForFill
  <2>1. pc = "wait" /\ pc' \in {"filled", "finish", "loop"} /\ attempt' = attempt
    BY <1>4 DEF WaitForFill
  <2>2. QED
    BY <1>0, <2>1 DEF StepsLeft
<1>5. CASE IgnoreDuplicate \/ RefuseIntent \/ PublishFilled \/ PartialSuccess \/ FailedFinal
  <2>1. Return /\ pc # "idle"
    BY <1>5 DEF IgnoreDuplicate, RefuseIntent, PublishFilled, PartialSuccess, FailedFinal,
                ReportFailed, ReportFilled, LoopOver
  <2>2. QED
    BY <1>1, <2>1
<1>6. QED
  BY <1>2, <1>3, <1>4, <1>5 DEF HandleIntent

\* Any other step leaves as many.
LEMMA OtherStep ==
  ASSUME pc # "idle", [Next]_vars, ~HandleIntent
  PROVE  StepsLeft' = StepsLeft
<1>1. pc' = pc /\ attempt' = attempt
  <2>1. CASE Exchange
    BY <2>1 DEF Exchange, ExchangeFill, ExchangeCancel, TakeProfitFills, locals
  <2>2. CASE UNCHANGED vars
    BY <2>2 DEF vars, locals
  <2>3. CASE Submit \/ StaleSweep \/ \E i \in DOMAIN req : Redeliver(i)
    BY <2>3 DEF Submit, SubmitExit, SubmitBuy, StaleSweep, Redeliver, Publish
  <2>4. QED
    BY <2>1, <2>2, <2>3 DEF Next
<1>2. QED
  BY <1>1 DEF StepsLeft

\* Handling an intent ends after at most 2 * MaxRetries + 4 steps, whatever the exchange
\* answers or does not answer, for every limit of retries (handle_intent).
THEOREM RouterHandlingEnds == Spec => [][HandlingEnds]_vars
<1>1. TypeOK /\ Consistent /\ TypeOK' /\ [Next]_vars => [HandlingEnds]_vars
  BY HandlingStep, OtherStep DEF HandlingEnds
<1>2. QED
  BY <1>1, RouterInvariant, PTL DEF Spec

\* The order flow implements IntentContract: whatever the exchange does, a
\* caller of handle_intent sees one intent at a time, a bounded number of orders
\* and one end.
THEOREM RouterImplementsContract == Spec => ImplementsContract
<1>1. Init => Contract!Init
  BY InitContract
<1>2. TypeOK /\ Consistent /\ [Next]_vars => [Contract!Next]_<<StatusMap, SentMap>>
  BY ContractStep
<1>3. QED
  BY <1>1, <1>2, RouterInvariant, PTL DEF Spec, ImplementsContract, Contract!Spec
=============================================================================
