------------------------------ MODULE Startup ------------------------------
(***************************************************************************)
(* A start of the program up to the moment it trades: the portfolio is     *)
(* read from its file and from the account, compared with the account,     *)
(* sold (RESET_PORTFOLIO_ON_START is on), the proceeds are awaited, and    *)
(* the budget is looked at (main.py, PortfolioManager,                     *)
(* full_portfolio_reset, SettlementManager, refresh_budget_from_exchange). *)
(*                                                                         *)
(* Amounts and money are whole units and every price is one.  The process  *)
(* may die at any moment and is started again; of earlier trading there is *)
(* only what it left in the account and in the file.  open_buy_orders has  *)
(* no writer any more and is left out.                                     *)
(***************************************************************************)
EXTENDS Naturals, FiniteSets, Functions

CONSTANTS
  Asset,       \* currencies the reset sells: with a spot market against USDT, and not one
               \* of the stablecoins it leaves alone
  Lots,        \* the amounts of an asset that earlier trading may have left
  Ties,        \* how much of it open orders may have tied up
  Part,        \* the part of an amount that an order may execute
  Cash,        \* what the account may have at first, in USDT
  SanityMin,   \* below this value the sanity check takes a holding for dust
  MinCost,     \* below this value nothing can be sold
  MinBudget,   \* SAFE_MIN_BUDGET
  WaitTicks,   \* checks in wait_for_all_settlements (8 attempts of 30 s)
  ExpireTicks, \* checks after which a settlement is old (180 s)
  MaxStarts,   \* bound: starts of the program
  None

ASSUME StartupAssumption ==
  /\ IsFiniteSet(Asset)
  /\ Lots \subseteq Nat \ {0} /\ Ties \subseteq Nat /\ Cash \subseteq Nat
  /\ {Part, SanityMin, MinCost, MinBudget, WaitTicks, ExpireTicks, MaxStarts} \subseteq Nat
  /\ MinCost > 0 /\ MaxStarts > 0
  /\ WaitTicks > ExpireTicks
  /\ None \notin Nat

VARIABLES
  pc,        \* where the main thread is
  starts,    \* starts so far
  held,      \* PortfolioManager.held_assets (0: no entry)
  saved,     \* the same, in the state file
  budget,    \* my_budget
  verified,  \* SettlementManager.last_verified_budget
  pending,   \* pending_settlements (0: none)
  waited,    \* checks made by wait_for_all_settlements
  cache,     \* _budget_cache
  late,      \* the balance when a refresh worker outlived its join (None: no such worker)
  todo,      \* assets the reset has still to look at
  seen,      \* totals and free of the reset's fetch_balance
  sale,      \* the sale at hand: asset, amount and kind of order
  free, locked, \* the account: free, and tied up in open sell orders
  cash,      \* the account: free USDT
  transit,   \* proceeds of executed sales not yet credited
  excused,   \* history: assets a call failed for, or too small to sell
  disturbed, \* history: the budget was misread, settlements were given up, or
             \* money came, or will, that no settlement announced
  announced  \* history: the settlements of this reset, together

account == <<free, locked, cash, transit>>
observed == <<excused, disturbed, announced>>
resetting == <<todo, seen, sale>>
settling == <<pending, waited>>
portfolio == <<held, saved, budget, verified>>
reading == <<cache, late>>
startupVars == <<pc, starts, portfolio, settling, reading, resetting, account, observed>>

Amounts == [Asset -> Nat]
Nothing == [a \in Asset |-> 0]
Total(a) == free[a] + locked[a]
SumOf(f) == SumFunctionOnSet(f, Asset)
Monus(x, y) == IF x > y THEN x - y ELSE 0

Route == {"market", "market_again", "market_price", "price_ioc", "ioc", "gtc"}
NoSale == [asset |-> None, qty |-> 0, route |-> "market"]

\* Every variable holds values of its type; no amount falls below zero.
StartupTypeOK ==
  /\ pc \in {"boot", "sanity", "reset", "assets", "value", "sell", "settle", "after",
             "clear", "budget", "wait", "trading", "left"}
  /\ starts \in 1..MaxStarts
  /\ held \in Amounts /\ saved \in Amounts
  /\ budget \in Nat /\ verified \in Nat
  /\ pending \in Amounts /\ waited \in 0..WaitTicks
  /\ cache \in Nat \cup {None} /\ late \in Nat \cup {None}
  /\ todo \subseteq Asset
  /\ seen \in [total : Amounts, free : Amounts]
  /\ sale \in [asset : Asset \cup {None}, qty : Nat, route : Route]
  /\ free \in Amounts /\ locked \in Amounts /\ cash \in Nat /\ transit \in Amounts
  /\ excused \subseteq Asset
  /\ disturbed \in BOOLEAN /\ announced \in Nat

\* Nothing is left of the memory of a process that has ended; a new one starts so.
Memory ==
  /\ held' = Nothing /\ budget' = 0 /\ verified' = 0
  /\ pending' = Nothing /\ waited' = 0
  /\ cache' = None /\ late' = None
  /\ todo' = {} /\ seen' = [total |-> Nothing, free |-> Nothing] /\ sale' = NoSale
  /\ excused' = {} /\ announced' = 0

\* An account with and without open orders, and a file that may lag behind it.
StartupInit ==
  /\ pc = "boot" /\ starts = 1
  /\ held = Nothing /\ budget = 0 /\ verified = 0
  /\ pending = Nothing /\ waited = 0
  /\ cache = None /\ late = None
  /\ todo = {} /\ seen = [total |-> Nothing, free |-> Nothing] /\ sale = NoSale
  /\ locked \in [Asset -> Ties]
  /\ \E total \in [Asset -> Lots \cup {0}] :
       /\ \A a \in Asset : locked[a] <= total[a]
       /\ free = [a \in Asset |-> total[a] - locked[a]]
  /\ saved \in {[a \in Asset |-> l] : l \in Lots}
  /\ cash \in Cash /\ transit = Nothing
  /\ excused = {} /\ disturbed = FALSE /\ announced = 0

-----------------------------------------------------------------------------
(***************************************************************************)
(* Reading the budget.  get_free answers 0 whatever goes wrong, so that an *)
(* error looks like an empty account to everyone who calls it; the safe    *)
(* refresh falls back to its cache only when its worker is too slow.       *)
(***************************************************************************)
FreeReads == {cash, 0}

Misread(got) == disturbed' = (disturbed \/ got # cash)

\* The worker reads and caches in time, or its caller takes the cache and lets it go on.
\* Of several such workers the last is followed.
refresh_budget_from_exchange_safe(got, my_budget) ==
  \/ got \in FreeReads /\ cache' = got /\ UNCHANGED late
  \/ /\ got = (IF cache = None THEN my_budget ELSE cache)
     /\ UNCHANGED cache /\ late' = cash

\* A worker nobody waits for any more caches what it read then, or reads now, or 0.
LateCacheWrite ==
  /\ pc \in {"settle", "after", "wait"}
  /\ late # None
  /\ cache' \in {late} \cup FreeReads
  /\ late' = None
  /\ UNCHANGED <<pc, starts, portfolio, settling, resetting, account, observed>>

\* What a refresh may give.
Refreshed(my_budget) == FreeReads \cup {IF cache = None THEN my_budget ELSE cache}

-----------------------------------------------------------------------------
(***************************************************************************)
(* PortfolioManager.__init__ and sanity_check_and_reconcile.               *)
(***************************************************************************)

\* load_state (an unreadable file counts as empty), then initialize_budget.
Boot ==
  /\ pc = "boot"
  /\ held' \in {saved, Nothing}
  /\ budget' \in FreeReads
  /\ verified' = budget'
  /\ Misread(budget')
  /\ pc' = "sanity"
  /\ UNCHANGED <<starts, saved, settling, reading, resetting, account, excused, announced>>

\* A holding the account does not have, or too little of to count.
Pruned(a, priced) ==
  /\ held[a] > 0
  /\ Total(a) = 0 \/ (a \in priced /\ Total(a) < SanityMin)

\* Nothing is held, the balance cannot be fetched, or every holding is set to
\* what the account has; the file is written only if a holding was removed.
SanityCheck ==
  /\ pc = "sanity"
  /\ \/ UNCHANGED <<held, saved>>
     \/ /\ held # Nothing
        /\ \E priced \in SUBSET Asset :
             /\ held' = [a \in Asset |-> IF held[a] = 0 \/ Pruned(a, priced) THEN 0
                                         ELSE Total(a)]
             /\ saved' = IF \E a \in Asset : Pruned(a, priced) THEN held' ELSE saved
  /\ pc' = "reset"
  /\ UNCHANGED <<starts, budget, verified, settling, reading, resetting, account, observed>>

-----------------------------------------------------------------------------
(***************************************************************************)
(* full_portfolio_reset.                                                   *)
(***************************************************************************)
Balance == [total |-> [a \in Asset |-> Total(a)], free |-> free]

\* Mutant: only what is free is looked at.
ResetStartsFree ==
  /\ pc = "reset"
  /\ seen' = Balance
  /\ todo' = {a \in Asset : free[a] > 0}
  /\ pc' = "assets"
  /\ UNCHANGED <<starts, portfolio, settling, reading, sale, account, observed>>

\* Markets and balance: without them the reset gives up, and its caller goes on.
ResetStarts ==
  /\ pc = "reset"
  /\ \/ /\ seen' = Balance
        /\ todo' = {a \in Asset : Total(a) > 0}
        /\ pc' = "assets"
        /\ UNCHANGED excused
     \/ /\ excused' = Asset
        /\ pc' = "after"
        /\ UNCHANGED <<seen, todo>>
  /\ UNCHANGED <<starts, portfolio, settling, reading, sale, account, disturbed, announced>>

\* The open orders of the next asset are canceled, one and all, and the balance
\* is read again; or one of these calls fails, which is only logged.
CancelOpenOrders ==
  /\ pc = "assets"
  /\ todo # {}
  /\ LET a == CHOOSE x \in todo : TRUE IN
       /\ sale' = [asset |-> a, qty |-> 0, route |-> "market"]
       /\ \/ /\ free' = [free EXCEPT ![a] = Total(a)]
             /\ locked' = [locked EXCEPT ![a] = 0]
             /\ \/ seen' = [seen EXCEPT !.free = free'] /\ UNCHANGED excused
                \/ UNCHANGED seen /\ excused' = excused \cup {a}
          \/ /\ excused' = excused \cup {a}
             /\ seen' \in {seen, [seen EXCEPT !.free = free]}
             /\ UNCHANGED <<free, locked>>
  /\ pc' = "value"
  /\ UNCHANGED <<starts, portfolio, settling, reading, todo, cash, transit>>
  /\ UNCHANGED <<disturbed, announced>>

\* What is free is sold; if nothing is, the whole amount, locked or not.
QtyToSell(a) == IF seen.free[a] > 0 THEN seen.free[a] ELSE seen.total[a]

\* The asset is done with, for whatever reason.
NextAsset == todo' = todo \ {sale.asset} /\ pc' = "assets"
Excuse == excused' = excused \cup {sale.asset}

\* The value decides whether to sell, when a price is known; limits that are
\* missing raise an exception that ends the whole reset.
ValueAsset ==
  /\ pc = "value"
  /\ LET q == QtyToSell(sale.asset)
     IN  \/ /\ q < MinCost
            /\ NextAsset /\ Excuse /\ sale' = NoSale
         \/ /\ sale' = [sale EXCEPT !.qty = q]
            /\ pc' = "sell"
            /\ UNCHANGED <<todo, excused>>
         \/ /\ pc' = "budget" /\ excused' = Asset /\ sale' = NoSale
            /\ UNCHANGED todo
  /\ UNCHANGED <<starts, portfolio, settling, reading, seen, account, disturbed, announced>>

\* The kinds of order that come after one that raised an exception, as the error
\* and the order book decide; none: the asset is given up.
Fallbacks ==
  [market |-> {"market_price", "ioc", "market_again"},
   market_price |-> {"price_ioc"}, ioc |-> {"gtc"},
   market_again |-> {}, price_ioc |-> {}, gtc |-> {}]

\* Only a market order's other errors and a missing price end at the first order.
MayGiveUp(route) == route = "market" \/ Fallbacks[route] = {}

\* None of it, a part, or all.
Parts(qty) == {0, qty} \cup {x \in {Part} : x < qty}

\* How much of qty an order executes, and how much of it stays in the book.
Executions(route, qty) ==
  CASE route \in {"market", "market_again", "market_price"} -> {<<qty, 0>>}
    [] route \in {"ioc", "price_ioc"} -> {<<d, 0>> : d \in Parts(qty)}
    [] route = "gtc"                  -> {<<d, qty - d>> : d \in Parts(qty)}

\* The exchange takes an order it has the balance for.
Execute(a, e) ==
  /\ free' = [free EXCEPT ![a] = @ - (e[1] + e[2])]
  /\ locked' = [locked EXCEPT ![a] = @ + e[2]]
  /\ transit' = [transit EXCEPT ![a] = @ + e[1]]
  /\ UNCHANGED cash

AfterError ==
  \/ /\ \E r \in Fallbacks[sale.route] : sale' = [sale EXCEPT !.route = r]
     /\ UNCHANGED <<pc, todo, excused>>
  \/ /\ MayGiveUp(sale.route)
     /\ NextAsset /\ Excuse
     /\ sale' = NoSale

\* Mutant: more is sold than is there.
SellBlindly ==
  /\ pc = "sell"
  /\ \E e \in Executions(sale.route, sale.qty) :
       /\ free' = [free EXCEPT ![sale.asset] = @ - (e[1] + e[2])]
       /\ NextAsset /\ sale' = NoSale
  /\ UNCHANGED <<starts, portfolio, settling, reading, seen, locked, cash, transit, observed>>

\* What a sale may be taken to have fetched: what it did; the order's amount, if the
\* answer does not tell; the trades of the last ninety seconds, with those of an order
\* whose answer was lost; or nothing.
Revenue(e) == {e[1], sale.qty, transit[sale.asset] + e[1], 0}

\* The order is accepted and answered.  Its revenue becomes a pending settlement.
Sell ==
  /\ pc = "sell"
  /\ sale.qty <= free[sale.asset] /\ sale.qty >= MinCost
  /\ \E e \in Executions(sale.route, sale.qty) :
       /\ Execute(sale.asset, e)
       /\ \E revenue \in Revenue(e) :
            /\ pending' = [pending EXCEPT ![sale.asset] = revenue]
            /\ announced' = announced + revenue
            /\ disturbed' = (disturbed \/ revenue # e[1])
       /\ excused' = IF e[1] = sale.qty THEN excused ELSE excused \cup {sale.asset}
  /\ NextAsset /\ sale' = NoSale
  /\ UNCHANGED <<starts, portfolio, waited, reading, seen>>

\* The order is refused.
SellRefused ==
  /\ pc = "sell"
  /\ AfterError
  /\ UNCHANGED <<starts, portfolio, settling, reading, seen, account, disturbed, announced>>

\* The order is accepted and the answer lost: an error for the program.
SellUnanswered ==
  /\ pc = "sell"
  /\ sale.qty <= free[sale.asset] /\ sale.qty >= MinCost
  /\ \E e \in Executions(sale.route, sale.qty) : Execute(sale.asset, e)
  /\ disturbed' = TRUE
  /\ AfterError
  /\ UNCHANGED <<starts, portfolio, settling, reading, seen, announced>>

\* All assets are done: the settlements are awaited, if there are any.
AssetsDone ==
  /\ pc = "assets" /\ todo = {}
  /\ pc' = IF pending = Nothing THEN "after" ELSE "settle"
  /\ seen' = [total |-> Nothing, free |-> Nothing]
  /\ UNCHANGED <<starts, portfolio, settling, reading, todo, sale, account, observed>>

-----------------------------------------------------------------------------
(***************************************************************************)
(* SettlementManager.wait_for_all_settlements.                             *)
(***************************************************************************)
Confirmed(actual) == actual * 100 >= (verified + SumOf(pending)) * 99

\* Mutant: any arrival clears the settlements it could have come from.
PartlyClearedByAny(a, actual) ==
  pending[a] * 10 <= Monus(actual, verified) * 11 \/ actual > verified

\* Half of what is awaited has come at once, and this settlement is not larger
\* than what came.
PartlyCleared(a, actual) ==
  LET partial == Monus(actual, verified)
  IN  /\ partial * 2 >= SumOf(pending)
      /\ pending[a] * 10 <= partial * 11

\* One check of the inner loop.
CheckSettlements ==
  /\ pc = "settle" /\ pending # Nothing /\ waited < WaitTicks
  /\ \E actual \in Refreshed(0) :
       /\ refresh_budget_from_exchange_safe(actual, 0)
       /\ Misread(actual)
       /\ IF Confirmed(actual)
          THEN /\ pending' = Nothing /\ verified' = actual /\ pc' = "after"
               /\ waited' = 0
          ELSE /\ verified' = IF actual > verified THEN actual ELSE verified
               /\ pending' = [a \in Asset |->
                    IF actual > verified /\ PartlyCleared(a, actual) THEN 0 ELSE pending[a]]
               /\ waited' = waited + 1
               /\ UNCHANGED pc
  /\ UNCHANGED <<starts, held, saved, budget, resetting, account, excused, announced>>

\* Mutant: only settlements older than the whole wait are given up.
StopWaitingKeepsAll ==
  /\ pc = "settle" /\ (pending = Nothing \/ waited = WaitTicks)
  /\ pending' = IF waited > WaitTicks THEN Nothing ELSE pending
  /\ disturbed' = (disturbed \/ pending' # pending)
  /\ pc' = "after" /\ waited' = 0
  /\ UNCHANGED <<starts, portfolio, reading, resetting, account, excused, announced>>

\* All are cleared, or the attempts used up: what is old by now is given up.
StopWaiting ==
  /\ pc = "settle" /\ (pending = Nothing \/ waited = WaitTicks)
  /\ pending' = IF waited > ExpireTicks THEN Nothing ELSE pending
  /\ disturbed' = (disturbed \/ pending' # pending)
  /\ pc' = "after" /\ waited' = 0
  /\ UNCHANGED <<starts, portfolio, reading, resetting, account, excused, announced>>

-----------------------------------------------------------------------------
(***************************************************************************)
(* The rest of perform_startup_reset, and the budget check of main.        *)
(***************************************************************************)
RefreshAfterReset ==
  /\ pc = "after" /\ pending = Nothing
  /\ \E got \in Refreshed(budget) :
       /\ refresh_budget_from_exchange_safe(got, budget)
       /\ budget' = got /\ verified' = got
  /\ pc' = "clear" /\ announced' = 0 /\ disturbed' = FALSE
  /\ UNCHANGED <<starts, held, saved, settling, resetting, account, excused>>

\* held_assets is emptied whatever was sold, and saved if the disk lets it; the
\* sanity check that follows finds nothing to look at.
ClearState ==
  /\ pc = "clear"
  /\ held' = Nothing
  /\ saved' \in {Nothing, saved}
  /\ pc' = "budget"
  /\ UNCHANGED <<starts, budget, verified, settling, reading, resetting, account, observed>>

CheckStartupBudget ==
  /\ pc = "budget"
  /\ pc' = IF budget >= MinBudget THEN "trading" ELSE "wait"
  /\ excused' = {} /\ disturbed' = FALSE /\ announced' = 0
  /\ UNCHANGED <<starts, portfolio, settling, reading, resetting, account>>

\* Mutant: the refreshed budget is looked at and not kept.
WaitForgetsBudget ==
  /\ pc = "wait"
  /\ \E got \in Refreshed(budget) : refresh_budget_from_exchange_safe(got, budget)
  /\ pc' = IF budget >= MinBudget THEN "trading" ELSE "wait"
  /\ UNCHANGED <<starts, portfolio, settling, resetting, account, observed>>

\* A minute later, refresh_budget.
WaitForBudget ==
  /\ pc = "wait"
  /\ \E got \in Refreshed(budget) :
       /\ refresh_budget_from_exchange_safe(got, budget)
       /\ budget' = got /\ verified' = got
       /\ pc' = IF got >= MinBudget THEN "trading" ELSE "wait"
  /\ UNCHANGED <<starts, held, saved, settling, resetting, account, observed>>

ShutdownWhileWaiting ==
  /\ pc = "wait"
  /\ pc' = "left"
  /\ Memory
  /\ UNCHANGED <<starts, saved, account, disturbed>>

-----------------------------------------------------------------------------
(***************************************************************************)
(* The exchange, and the end of the process.                               *)
(***************************************************************************)

\* What the exchange does between two looks of the program at it is taken to
\* happen just before the second.
LooksAtOrders == pc \in {"boot", "reset", "assets", "settle", "wait"}
LooksAtCash == pc \in {"boot", "settle", "after", "wait"}

\* An order in the book executes.
RestingFills ==
  /\ LooksAtOrders
  /\ \E a \in Asset :
       /\ locked[a] > 0
       /\ locked' = [locked EXCEPT ![a] = 0]
       /\ transit' = [transit EXCEPT ![a] = @ + locked[a]]
  /\ disturbed' = TRUE
  /\ UNCHANGED <<pc, starts, portfolio, settling, reading, resetting, free, cash, excused,
                 announced>>

\* The proceeds of an asset's sales are credited.
Arrive ==
  /\ LooksAtCash
  /\ \E a \in Asset :
       /\ transit[a] > 0
       /\ cash' = cash + transit[a]
       /\ transit' = [transit EXCEPT ![a] = 0]
  /\ UNCHANGED <<pc, starts, portfolio, settling, reading, resetting, free, locked, observed>>

\* The process has died or left, and is started again.
StartAgain ==
  /\ pc # "boot" /\ starts < MaxStarts
  /\ starts' = starts + 1
  /\ pc' = "boot"
  /\ Memory
  /\ disturbed' = (transit # Nothing)
  /\ UNCHANGED <<saved, account>>

Exchange == RestingFills \/ Arrive
Selling == CancelOpenOrders \/ ValueAsset \/ Sell \/ SellRefused \/ SellUnanswered \/ AssetsDone

MainThread ==
  \/ Boot \/ SanityCheck \/ ResetStarts \/ Selling
  \/ CheckSettlements \/ StopWaiting
  \/ RefreshAfterReset \/ ClearState \/ CheckStartupBudget \/ WaitForBudget

StartupNext == MainThread \/ LateCacheWrite \/ ShutdownWhileWaiting \/ Exchange \/ StartAgain

\* The main thread goes on, and the exchange does not refuse its balance for ever.
StartupFairness ==
  /\ WF_startupVars(MainThread)
  /\ WF_startupVars(WaitForBudget /\ cache' = cash /\ budget' = cash)

StartupSpec == StartupInit /\ [][StartupNext]_startupVars
StartupFairSpec == StartupSpec /\ StartupFairness

-----------------------------------------------------------------------------
(***************************************************************************)
(* Properties.                                                             *)
(***************************************************************************)

\* What the program no longer knows of, although the account has it, is too small
\* to sell or belongs to an asset for which a call failed: no order, balance or
\* amount gets lost between cancelling, cache and selling
\* (full_portfolio_reset, perform_startup_reset).
ForgottenExplained ==
  pc = "budget" => \A a \in Asset : Total(a) > held[a] => a \in excused

\* What the wait was for and has not come when it ends is at most half of it, or
\* at most a hundredth of the whole balance, unless settlements expired, the balance
\* was misread or money came that nobody announced (wait_for_all_settlements).
ShortfallExplained ==
  pc = "after" /\ ~disturbed =>
    \/ 2 * SumOf(transit) <= announced
    \/ 100 * SumOf(transit) <= cash + SumOf(transit)

\* Whatever the sales and the balance did, no settlement is pending after the
\* reset: perform_startup_reset never waits a second time, and its timeout branch,
\* which would leave the budget as it was, is never taken.
NoSecondWait == pc = "after" => pending = Nothing

\* A program that waits for money starts to trade once the account has it.
StartsWhenFunded == (pc = "wait" /\ cash >= MinBudget) ~> pc # "wait"
=============================================================================
