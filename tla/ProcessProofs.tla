---------------------------- MODULE ProcessProofs ----------------------------
(***************************************************************************)
(* What is proved about the start and the end of the process.  For any     *)
(* assets, balances and lots, and however often the process dies, no       *)
(* balance falls below zero, the reset forgets nothing that it can sell,   *)
(* never waits for its sales twice, leaves unpaid no more than its         *)
(* tolerances allow, and comes to an end (Startup).  For any number of     *)
(* failed heartbeats and of signals, a process that has cleaned up does    *)
(* not end before its state is saved (Lifecycle).  For any number of       *)
(* intents and every subset of the faults, the file of pending intents     *)
(* that it leaves is never a mixture of two moments, and a writer that     *)
(* has nothing to do has saved everything (StateWriter).                   *)
(***************************************************************************)
EXTENDS Startup, Lifecycle, StateWriter, SumTheorems, FiniteSetTheorems, TLAPS

-----------------------------------------------------------------------------
(***************************************************************************)
(* The start: sanity check, portfolio reset and settlements                *)
(***************************************************************************)

(***************************************************************************)
(* The inductive invariant                                                 *)
(***************************************************************************)

\* No settlement is pending before the reset has begun to sell.
Asleep == pc \in {"boot", "sanity", "reset"} => pending = Nothing

\* The account has nothing of the asset, or a call for it failed.
Accounted(a) == Total(a) = 0 \/ a \in excused

\* The reset has accounted for every asset that it does not still have to do.
Progress ==
  /\ pc \in {"assets", "value", "sell"} => \A a \in Asset : a \in todo \/ Accounted(a)
  /\ pc \in {"settle", "after", "clear", "budget"} => \A a \in Asset : Accounted(a)

\* The asset at hand is still to do.  Unless a call for it failed, no order ties any
\* of it up, what the reset has seen is what is free, and that is what it sells.
AtHand ==
  pc \in {"value", "sell"} =>
    LET a == sale.asset
    IN  /\ a \in Asset
        /\ \/ a \in excused
           \/ /\ locked[a] = 0
              /\ pc = "value" => seen.free[a] = free[a]
              /\ pc = "sell" => free[a] <= sale.qty

StartupInv == StartupTypeOK /\ Asleep /\ NoSecondWait /\ Progress /\ AtHand

(***************************************************************************)
(* Lemmas                                                                  *)
(***************************************************************************)
USE DEF reading

\* The bounds are natural numbers.
LEMMA BoundsAreNat ==
  /\ Part \in Nat /\ Cash \subseteq Nat /\ SanityMin \in Nat /\ MinCost \in Nat \ {0}
  /\ WaitTicks \in Nat /\ ExpireTicks \in Nat /\ WaitTicks > ExpireTicks
  /\ MaxStarts \in Nat \ {0}
  /\ Lots \subseteq Nat
BY StartupAssumption

\* What an order does: it sells and ties up no more than its amount, ties something
\* up only if it may rest in the book, and nothing when all is sold.
LEMMA ExecutionFacts ==
  ASSUME NEW route \in Route, NEW qty \in Nat, NEW e \in Executions(route, qty)
  PROVE  /\ e[1] \in Nat /\ e[2] \in Nat /\ e[1] + e[2] <= qty
         /\ route # "gtc" => e[2] = 0
         /\ e[1] = qty => e[2] = 0
<1>1. \A d \in Parts(qty) : d \in Nat /\ d <= qty
  BY BoundsAreNat DEF Parts
<1>2. CASE route \in {"market", "market_again", "market_price"}
  <2>1. e = <<qty, 0>>
    BY <1>2 DEF Executions
  <2> QED
    BY <2>1
<1>3. CASE route \in {"ioc", "price_ioc"}
  <2>1. PICK d \in Parts(qty) : e = <<d, 0>>
    BY <1>3 DEF Executions
  <2> QED
    BY <1>1, <2>1, <1>3
<1>4. CASE route = "gtc"
  <2>1. PICK d \in Parts(qty) : e = <<d, qty - d>>
    BY <1>4 DEF Executions
  <2>2. e[1] = d /\ e[2] = qty - d
    BY <2>1
  <2> QED
    BY <1>1, <2>2, <1>4
<1> QED
  BY <1>2, <1>3, <1>4 DEF Route

\* What an executed order leaves in the account.
LEMMA ExecuteFacts ==
  ASSUME StartupTypeOK, NEW a \in Asset, NEW e, Execute(a, e),
         e[1] \in Nat, e[2] \in Nat, e[1] + e[2] <= free[a]
  PROVE  /\ free' \in Amounts /\ locked' \in Amounts /\ transit' \in Amounts /\ cash' \in Nat
         /\ free'[a] = free[a] - (e[1] + e[2]) /\ locked'[a] = locked[a] + e[2]
         /\ \A b \in Asset : b # a => Total(b)' = Total(b)
<1> DEFINE f == free[a] - (e[1] + e[2])
           l == locked[a] + e[2]
           t == transit[a] + e[1]
<1>1. free \in Amounts /\ locked \in Amounts /\ transit \in Amounts /\ cash' = cash /\ cash \in Nat
  BY DEF StartupTypeOK, Execute
<1>2. f \in Nat /\ l \in Nat /\ t \in Nat
  BY <1>1 DEF Amounts
<1>3. /\ free' = [free EXCEPT ![a] = f]
      /\ locked' = [locked EXCEPT ![a] = l]
      /\ transit' = [transit EXCEPT ![a] = t]
  BY DEF Execute
<1> HIDE DEF f, l, t
<1>4. free' \in Amounts /\ locked' \in Amounts /\ transit' \in Amounts
  BY <1>1, <1>2, <1>3 DEF Amounts
<1>5. free'[a] = f /\ locked'[a] = l
  BY <1>1, <1>3 DEF Amounts
<1>6. \A b \in Asset : b # a => free'[b] = free[b] /\ locked'[b] = locked[b]
  BY <1>1, <1>3 DEF Amounts
<1> QED
  BY <1>1, <1>4, <1>5, <1>6 DEF f, l, Total

\* What a reading of the budget gives.
LEMMA ReadingType ==
  ASSUME StartupTypeOK, NEW b \in Nat
  PROVE  /\ \A got \in FreeReads : got \in Nat
         /\ \A got \in Refreshed(b) :
              /\ got \in Nat
              /\ refresh_budget_from_exchange_safe(got, b) =>
                   cache' \in Nat \cup {None} /\ late' \in Nat \cup {None}
BY DEF StartupTypeOK, FreeReads, Refreshed, refresh_budget_from_exchange_safe

(***************************************************************************)
(* The invariant is inductive                                              *)
(***************************************************************************)

\* It holds when the process is started.
LEMMA InitStartup == StartupInit => StartupInv
<1> SUFFICES ASSUME StartupInit PROVE StartupInv
  OBVIOUS
<1>1. PICK total \in [Asset -> Lots \cup {0}] :
        /\ \A a \in Asset : locked[a] <= total[a]
        /\ free = [a \in Asset |-> total[a] - locked[a]]
  BY DEF StartupInit
<1>2. locked \in [Asset -> Ties] /\ Ties \subseteq Nat
  BY StartupAssumption DEF StartupInit
<1>3. \A a \in Asset : total[a] - locked[a] \in Nat
  <2>1. Lots \cup {0} \subseteq Nat
    BY BoundsAreNat
  <2>2. total \in [Asset -> Nat] /\ locked \in [Asset -> Nat]
    BY <1>2, <2>1
  <2> QED
    BY <1>1, <2>2
<1>4. locked \in Amounts
  BY <1>2 DEF Amounts
<1>5. free \in Amounts
  BY <1>1, <1>3 DEF Amounts
<1>6. saved \in Amounts
  BY StartupAssumption DEF StartupInit, Amounts
<1>7. Nothing \in Amounts
  BY DEF Nothing, Amounts
<1>8. NoSale \in [asset : Asset \cup {None}, qty : Nat, route : Route]
  BY DEF NoSale, Route
<1>9. starts \in 1..MaxStarts /\ waited \in 0..WaitTicks
  BY BoundsAreNat DEF StartupInit
<1>10. StartupTypeOK
  BY <1>4, <1>5, <1>6, <1>7, <1>8, <1>9, BoundsAreNat DEF StartupInit, StartupTypeOK
<1> QED
  BY <1>10 DEF StartupInit, StartupInv, Asleep, NoSecondWait, Progress, AtHand

\* Reading the file and the account.
LEMMA BootStep ==
  ASSUME StartupInv, Boot \/ SanityCheck
  PROVE  StartupInv'
<1> USE DEF resetting, settling, account, portfolio, observed
<1>0. StartupTypeOK /\ Nothing \in Amounts
  BY DEF StartupInv, Nothing, Amounts
<1>1. pc' \in {"sanity", "reset"} /\ pc \in {"boot", "sanity"}
  BY DEF Boot, SanityCheck
<1>2. /\ UNCHANGED <<starts, pending, waited, cache, late, todo, seen, sale, free, locked,
             cash, transit,
                     excused, announced>>
      /\ disturbed' \in BOOLEAN
  BY <1>0 DEF Boot, SanityCheck, Misread, StartupTypeOK
<1>3. held' \in Amounts /\ saved' \in Amounts /\ budget' \in Nat /\ verified' \in Nat
  <2>1. CASE Boot
    BY <2>1, <1>0 DEF Boot, StartupTypeOK, FreeReads
  <2>2. CASE SanityCheck
    <3>1. UNCHANGED <<budget, verified>>
      BY <2>2 DEF SanityCheck
    <3>2. \A a \in Asset : Total(a) \in Nat
      BY <1>0 DEF StartupTypeOK, Total, Amounts
    <3>3. CASE UNCHANGED <<held, saved>>
      BY <3>1, <3>3, <1>0 DEF StartupTypeOK
    <3>4. ASSUME NEW priced \in SUBSET Asset,
                 held' = [a \in Asset |-> IF held[a] = 0 \/ Pruned(a, priced) THEN 0
                                          ELSE Total(a)],
                 saved' = IF \E a \in Asset : Pruned(a, priced) THEN held' ELSE saved
          PROVE  held' \in Amounts /\ saved' \in Amounts
      <4>1. held' \in Amounts
        BY <3>2, <3>4 DEF Amounts
      <4> QED
        BY <3>4, <4>1, <1>0 DEF StartupTypeOK
    <3> QED
      BY <2>2, <3>1, <3>3, <3>4, <1>0 DEF SanityCheck, StartupTypeOK
  <2> QED
    BY <2>1, <2>2
<1>4. StartupTypeOK'
  BY <1>0, <1>1, <1>2, <1>3 DEF StartupTypeOK
<1>5. Asleep'
  BY <1>1, <1>2 DEF StartupInv, Asleep, Nothing
<1> QED
  BY <1>1, <1>4, <1>5 DEF StartupInv, NoSecondWait, Progress, AtHand

\* The reset begins: what it will not look at is not there.
LEMMA ResetStartsStep ==
  ASSUME StartupInv, ResetStarts
  PROVE  StartupInv'
<1> USE DEF settling, account, portfolio
<1>0. StartupTypeOK
  BY DEF StartupInv
<1>1. /\ pc = "reset" /\ pc' \in {"assets", "after"}
      /\ UNCHANGED <<starts, held, saved, budget, verified, pending, waited, cache, late, sale,
             free,
                     locked, cash, transit, disturbed, announced>>
  BY DEF ResetStarts
<1>2. /\ todo' \subseteq Asset
      /\ seen' \in [total : Amounts, free : Amounts]
      /\ excused' \subseteq Asset
  <2>1. [a \in Asset |-> Total(a)] \in Amounts
    BY <1>0 DEF StartupTypeOK, Total, Amounts
  <2>2. Balance \in [total : Amounts, free : Amounts]
    BY <1>0, <2>1 DEF Balance, StartupTypeOK
  <2> QED
    BY <1>0, <2>2 DEF ResetStarts, StartupTypeOK
<1>3. StartupTypeOK'
  BY <1>0, <1>1, <1>2 DEF StartupTypeOK
<1>4. Asleep' /\ NoSecondWait' /\ AtHand'
  BY <1>1 DEF StartupInv, Asleep, NoSecondWait, AtHand, Nothing
<1>5. Progress'
  <2>1. CASE pc' = "assets"
    <3>1. todo' = {a \in Asset : Total(a) > 0}
      BY <1>1, <2>1 DEF ResetStarts
    <3>2. \A a \in Asset : Total(a) \in Nat /\ Total(a)' = Total(a)
      BY <1>0, <1>1 DEF StartupTypeOK, Total, Amounts
    <3>3. \A a \in Asset : a \in todo' \/ Total(a)' = 0
      BY <3>1, <3>2
    <3> QED
      BY <2>1, <3>3 DEF Progress, Accounted
  <2>2. CASE pc' = "after"
    <3>1. excused' = Asset
      BY <1>1, <2>2 DEF ResetStarts
    <3> QED
      BY <2>2, <3>1 DEF Progress, Accounted
  <2> QED
    BY <1>1, <2>1, <2>2
<1> QED
  BY <1>3, <1>4, <1>5 DEF StartupInv

\* Orders of the asset are cancelled, and the balance is read again.
LEMMA CancelStep ==
  ASSUME StartupInv, CancelOpenOrders
  PROVE  StartupInv'
<1> USE DEF settling, portfolio
<1> DEFINE a == CHOOSE x \in todo : TRUE
<1>0. StartupTypeOK
  BY DEF StartupInv
<1>1. /\ pc = "assets" /\ pc' = "value" /\ a \in todo /\ a \in Asset
      /\ sale' = [asset |-> a, qty |-> 0, route |-> "market"]
      /\ UNCHANGED <<starts, held, saved, budget, verified, pending, waited, cache, late, todo,
             cash,
                     transit, disturbed, announced>>
  BY <1>0 DEF CancelOpenOrders, StartupTypeOK
<1>2. \/ /\ free' = [free EXCEPT ![a] = Total(a)]
         /\ locked' = [locked EXCEPT ![a] = 0]
         /\ \/ seen' = [seen EXCEPT !.free = free'] /\ UNCHANGED excused
            \/ UNCHANGED seen /\ excused' = excused \cup {a}
      \/ /\ excused' = excused \cup {a}
         /\ seen' \in {seen, [seen EXCEPT !.free = free]}
         /\ UNCHANGED <<free, locked>>
  BY DEF CancelOpenOrders
<1> HIDE DEF a
<1>3. /\ free' \in Amounts /\ locked' \in Amounts
      /\ \A b \in Asset : Total(b)' = Total(b)
      /\ a \in excused' \/ locked'[a] = 0
  <2>1. CASE free' = [free EXCEPT ![a] = Total(a)] /\ locked' = [locked EXCEPT ![a] = 0]
    <3>1. Total(a) \in Nat /\ free \in Amounts /\ locked \in Amounts
      BY <1>0, <1>1 DEF StartupTypeOK, Total, Amounts
    <3>2. free' \in Amounts /\ locked' \in Amounts
      BY <2>1, <3>1 DEF Amounts
    <3>3. free'[a] = Total(a) /\ locked'[a] = 0
      BY <1>1, <2>1, <3>1 DEF Amounts
    <3>4. \A b \in Asset : b # a => free'[b] = free[b] /\ locked'[b] = locked[b]
      BY <2>1, <3>1 DEF Amounts
    <3> QED
      BY <3>1, <3>2, <3>3, <3>4 DEF Total
  <2>2. CASE UNCHANGED <<free, locked>> /\ excused' = excused \cup {a}
    BY <1>0, <2>2 DEF StartupTypeOK, Total
  <2> QED
    BY <1>2, <2>1, <2>2
<1>4. /\ excused \subseteq excused' /\ excused' \subseteq Asset
      /\ seen' \in [total : Amounts, free : Amounts]
      /\ a \in excused' \/ seen'.free[a] = free'[a]
  BY <1>0, <1>1, <1>2, <1>3 DEF StartupTypeOK
<1>5. StartupTypeOK'
  BY <1>0, <1>1, <1>3, <1>4 DEF StartupTypeOK, Route
<1>6. Asleep' /\ NoSecondWait'
  BY <1>1 DEF Asleep, NoSecondWait
<1>7. Progress'
  BY <1>1, <1>3, <1>4 DEF StartupInv, Progress, Accounted
<1>8. AtHand'
  BY <1>1, <1>3, <1>4 DEF AtHand
<1> QED
  BY <1>5, <1>6, <1>7, <1>8 DEF StartupInv

\* The amount to sell.
LEMMA ValueStep ==
  ASSUME StartupInv, ValueAsset
  PROVE  StartupInv'
<1> USE DEF settling, portfolio, account
<1> DEFINE q == QtyToSell(sale.asset)
<1>0. StartupTypeOK /\ pc = "value"
  BY DEF StartupInv, ValueAsset
<1>1. sale.asset \in Asset /\ q \in Nat
  BY <1>0 DEF StartupInv, AtHand, StartupTypeOK, QtyToSell, Amounts
<1>2. UNCHANGED <<starts, held, saved, budget, verified, pending, waited, cache, late, seen,
    free, locked,
                  cash, transit, disturbed, announced>>
  BY DEF ValueAsset
<1>3. \A b \in Asset : Total(b)' = Total(b)
  BY <1>2 DEF Total
<1>4. CASE NextAsset /\ Excuse /\ sale' = NoSale
  <2> USE DEF NextAsset, Excuse
  <2>1. StartupTypeOK'
    BY <1>0, <1>1, <1>2, <1>4 DEF StartupTypeOK, NoSale, Route
  <2>2. Progress'
    BY <1>0, <1>3, <1>4 DEF StartupInv, Progress, Accounted
  <2> QED
    BY <2>1, <2>2, <1>4 DEF StartupInv, Asleep, NoSecondWait, AtHand
<1>5. CASE sale' = [sale EXCEPT !.qty = q] /\ pc' = "sell" /\ UNCHANGED <<todo, excused>>
  <2>1. /\ sale' \in [asset : Asset \cup {None}, qty : Nat, route : Route]
        /\ sale'.asset = sale.asset /\ sale'.qty = q
    BY <1>0, <1>1, <1>5 DEF StartupTypeOK
  <2>2. StartupTypeOK'
    BY <1>0, <1>2, <1>5, <2>1 DEF StartupTypeOK
  <2>3. Progress'
    BY <1>0, <1>3, <1>5 DEF StartupInv, Progress, Accounted
  <2>4. free[sale.asset] = seen.free[sale.asset] => free[sale.asset] <= q
    <3>1. free[sale.asset] \in Nat /\ seen.total[sale.asset] \in Nat
      BY <1>0, <1>1 DEF StartupTypeOK, Amounts
    <3> QED
      BY <3>1 DEF QtyToSell
  <2>5. AtHand'
    BY <1>0, <1>1, <1>2, <1>5, <2>1, <2>4 DEF StartupInv, AtHand
  <2> QED
    BY <2>2, <2>3, <2>5, <1>5 DEF StartupInv, Asleep, NoSecondWait
<1>6. CASE pc' = "budget" /\ excused' = Asset /\ sale' = NoSale /\ UNCHANGED todo
  <2>1. StartupTypeOK'
    BY <1>0, <1>2, <1>6 DEF StartupTypeOK, NoSale, Route
  <2> QED
    BY <2>1, <1>6 DEF StartupInv, Asleep, NoSecondWait, Progress, Accounted, AtHand
<1> QED
  BY <1>4, <1>5, <1>6 DEF ValueAsset

\* After an order that raised an exception: another kind of order, or the next asset.
LEMMA AfterErrorStep ==
  ASSUME StartupInv, pc = "sell", AfterError,
         UNCHANGED <<starts, held, saved, budget, verified, pending, waited, cache, late, seen,
             announced>>,
         disturbed' \in BOOLEAN,
         free' \in Amounts, locked' \in Amounts, transit' \in Amounts, cash' \in Nat,
         \A b \in Asset : b # sale.asset => Total(b)' = Total(b),
         free'[sale.asset] <= free[sale.asset],
         (MayGiveUp(sale.route) /\ Fallbacks[sale.route] = {}) \/ locked'[sale.asset] = locked[sale.asset]
  PROVE  StartupInv'
<1>0. StartupTypeOK /\ sale.asset \in Asset
  BY DEF StartupInv, AtHand
<1>1. CASE NextAsset /\ Excuse /\ sale' = NoSale
  <2> USE DEF NextAsset, Excuse
  <2>1. StartupTypeOK'
    BY <1>0, <1>1 DEF StartupTypeOK, NoSale, Route
  <2>2. Progress'
    BY <1>0, <1>1 DEF StartupInv, Progress, Accounted
  <2> QED
    BY <2>1, <2>2, <1>1 DEF StartupInv, Asleep, NoSecondWait, AtHand
<1>2. CASE /\ \E r \in Fallbacks[sale.route] : sale' = [sale EXCEPT !.route = r]
           /\ UNCHANGED <<pc, todo, excused>>
  <2>1. PICK r \in Fallbacks[sale.route] : sale' = [sale EXCEPT !.route = r]
    BY <1>2
  <2>2. sale.route \in Route
    BY <1>0 DEF StartupTypeOK
  <2>3. r \in Route /\ locked'[sale.asset] = locked[sale.asset]
    BY <2>1, <2>2 DEF Fallbacks, Route
  <2>4. /\ sale' \in [asset : Asset \cup {None}, qty : Nat, route : Route]
        /\ sale'.asset = sale.asset /\ sale'.qty = sale.qty
    BY <1>0, <2>1, <2>3 DEF StartupTypeOK
  <2>5. StartupTypeOK'
    BY <1>0, <1>2, <2>4 DEF StartupTypeOK
  <2>6. sale.asset \in todo \/ Accounted(sale.asset)
    BY <1>0 DEF StartupInv, Progress
  <2>7. AtHand'
    <3>1. /\ free[sale.asset] \in Nat /\ free'[sale.asset] \in Nat /\ sale.qty \in Nat
      BY <1>0 DEF StartupTypeOK, Amounts
    <3>2. sale.asset \in excused \/ (locked[sale.asset] = 0 /\ free[sale.asset] <= sale.qty)
      BY DEF StartupInv, AtHand
    <3> QED
      BY <1>0, <1>2, <2>3, <2>4, <3>1, <3>2 DEF AtHand
  <2>8. Progress'
    <3> SUFFICES ASSUME NEW b \in Asset PROVE b \in todo' \/ Accounted(b)'
      BY <1>2 DEF Progress
    <3>1. b \in todo \/ Accounted(b)
      BY DEF StartupInv, Progress
    <3>2. CASE b # sale.asset
      BY <1>2, <3>1, <3>2 DEF Accounted
    <3>3. CASE b = sale.asset
      <4>1. b \in excused \/ b \in todo \/ Total(b) = 0
        BY <3>1 DEF Accounted
      <4>2. CASE Total(b) = 0
        <5>1. /\ free[b] \in Nat /\ locked[b] \in Nat /\ free'[b] \in Nat /\ free'[b] <= free[b]
              /\ locked'[b] = locked[b]
          BY <1>0, <2>3, <3>3 DEF StartupTypeOK, Amounts
        <5>2. free'[b] + locked'[b] = 0
          BY <4>2, <5>1 DEF Total
        <5> QED
          BY <5>2 DEF Accounted, Total
      <4>3. CASE b \in excused \/ b \in todo
        BY <4>3, <1>2 DEF Accounted
      <4> QED
        BY <4>1, <4>2, <4>3
    <3> QED
      BY <3>2, <3>3
  <2> QED
    BY <2>5, <2>7, <2>8, <1>2 DEF StartupInv, Asleep, NoSecondWait
<1> QED
  BY <1>1, <1>2 DEF AfterError

\* An order of the asset at hand is accepted, whether the answer arrives or not.
LEMMA SaleFacts ==
  ASSUME StartupInv, pc = "sell", sale.qty <= free[sale.asset],
         NEW e \in Executions(sale.route, sale.qty), Execute(sale.asset, e)
  PROVE  /\ sale.asset \in Asset /\ sale.qty \in Nat /\ sale.route \in Route
         /\ e[1] \in Nat
         /\ free' \in Amounts /\ locked' \in Amounts /\ transit' \in Amounts /\ cash' \in Nat
         /\ \A b \in Asset : b # sale.asset => Total(b)' = Total(b)
         /\ free'[sale.asset] <= free[sale.asset]
         /\ sale.route # "gtc" => locked'[sale.asset] = locked[sale.asset]
         /\ e[1] = sale.qty =>
              sale.asset \in excused \/ (free'[sale.asset] = 0 /\ locked'[sale.asset] = 0)
<1> DEFINE a == sale.asset
           q == sale.qty
<1>0. StartupTypeOK /\ a \in Asset /\ q \in Nat /\ sale.route \in Route
  BY DEF StartupInv, AtHand, StartupTypeOK
<1>1. /\ e[1] \in Nat /\ e[2] \in Nat /\ e[1] + e[2] <= q
      /\ sale.route # "gtc" => e[2] = 0
      /\ e[1] = q => e[2] = 0
  BY <1>0, ExecutionFacts
<1>2. free[a] \in Nat /\ locked[a] \in Nat
  BY <1>0 DEF StartupTypeOK, Amounts
<1>3. a \in excused \/ (locked[a] = 0 /\ free[a] <= q)
  BY DEF StartupInv, AtHand
<1> HIDE DEF a, q
<1>4. e[1] + e[2] <= free[a]
  BY <1>0, <1>1, <1>2 DEF a, q
<1>5. Execute(a, e)
  BY DEF a
<1>6. /\ free' \in Amounts /\ locked' \in Amounts /\ transit' \in Amounts /\ cash' \in Nat
      /\ free'[a] = free[a] - (e[1] + e[2]) /\ locked'[a] = locked[a] + e[2]
      /\ \A b \in Asset : b # a => Total(b)' = Total(b)
  BY <1>0, <1>1, <1>4, <1>5, ExecuteFacts
<1>7. free'[a] <= free[a]
  BY <1>1, <1>2, <1>6
<1>8. sale.route # "gtc" => locked'[a] = locked[a]
  BY <1>1, <1>2, <1>6
<1>9. e[1] = q => a \in excused \/ (free'[a] = 0 /\ locked'[a] = 0)
  BY <1>0, <1>1, <1>2, <1>3, <1>4, <1>6
<1> QED
  BY <1>0, <1>1, <1>6, <1>7, <1>8, <1>9 DEF a, q

\* What an order of each kind may be followed by.
LEMMA GtcIsLast == Fallbacks["gtc"] = {} /\ MayGiveUp("gtc")
BY DEF Fallbacks, MayGiveUp

\* An order is accepted, refused, or accepted without an answer.
LEMMA SellStep ==
  ASSUME StartupInv, Sell \/ SellRefused \/ SellUnanswered
  PROVE  StartupInv'
<1> USE DEF portfolio
<1>0. StartupTypeOK /\ pc = "sell"
  BY DEF StartupInv, Sell, SellRefused, SellUnanswered
<1>1. CASE Sell
  <2>1. PICK e \in Executions(sale.route, sale.qty) :
          /\ Execute(sale.asset, e)
          /\ \E revenue \in Revenue(e) :
               /\ pending' = [pending EXCEPT ![sale.asset] = revenue]
               /\ announced' = announced + revenue
               /\ disturbed' = (disturbed \/ revenue # e[1])
          /\ excused' = IF e[1] = sale.qty THEN excused ELSE excused \cup {sale.asset}
    BY <1>1 DEF Sell
  <2>2. /\ sale.qty <= free[sale.asset]
        /\ todo' = todo \ {sale.asset} /\ pc' = "assets" /\ sale' = NoSale
        /\ UNCHANGED <<starts, held, saved, budget, verified, waited, cache, late, seen>>
    BY <1>1 DEF Sell, NextAsset
  <2>3. /\ sale.asset \in Asset /\ e[1] \in Nat
        /\ free' \in Amounts /\ locked' \in Amounts /\ transit' \in Amounts /\ cash' \in Nat
        /\ \A b \in Asset : b # sale.asset => Total(b)' = Total(b)
        /\ e[1] = sale.qty =>
             sale.asset \in excused \/ (free'[sale.asset] = 0 /\ locked'[sale.asset] = 0)
    BY <1>0, <2>1, <2>2, SaleFacts
  <2>4. pending' \in Amounts /\ announced' \in Nat /\ disturbed' \in BOOLEAN
    <3>1. PICK revenue \in Revenue(e) :
            /\ pending' = [pending EXCEPT ![sale.asset] = revenue]
            /\ announced' = announced + revenue
            /\ disturbed' = (disturbed \/ revenue # e[1])
      BY <2>1
    <3>2. revenue \in Nat /\ pending \in Amounts /\ announced \in Nat
      BY <1>0, <2>3 DEF StartupTypeOK, Revenue, Amounts
    <3>3. pending' \in Amounts
      BY <3>1, <3>2 DEF Amounts
    <3> QED
      BY <3>1, <3>2, <3>3
  <2>5. /\ excused \subseteq excused' /\ excused' \subseteq Asset
        /\ e[1] # sale.qty => sale.asset \in excused'
    BY <1>0, <2>1, <2>3 DEF StartupTypeOK
  <2>6. StartupTypeOK'
    BY <1>0, <2>2, <2>3, <2>4, <2>5 DEF StartupTypeOK, NoSale, Route
  <2>7. Progress'
    <3> SUFFICES ASSUME NEW b \in Asset PROVE b \in todo' \/ Total(b)' = 0 \/ b \in excused'
      BY <2>2 DEF Progress, Accounted
    <3>1. b \in todo \/ Total(b) = 0 \/ b \in excused
      BY <1>0 DEF StartupInv, Progress, Accounted
    <3>2. CASE b # sale.asset
      BY <2>2, <2>3, <2>5, <3>1, <3>2
    <3>3. CASE b = sale.asset
      BY <2>3, <2>5, <3>3 DEF Total
    <3> QED
      BY <3>2, <3>3
  <2> QED
    BY <2>2, <2>6, <2>7 DEF StartupInv, Asleep, NoSecondWait, AtHand
<1>2. CASE SellRefused
  <2>1. /\ AfterError
        /\ UNCHANGED <<starts, held, saved, budget, verified, pending, waited, cache, late,
               seen, announced,
                       free, locked, transit, cash, disturbed>>
    BY <1>2 DEF SellRefused, settling, account
  <2>2. \A b \in Asset : Total(b)' = Total(b)
    BY <2>1 DEF Total
  <2>3. /\ free' \in Amounts /\ locked' \in Amounts /\ transit' \in Amounts /\ cash' \in Nat
        /\ disturbed' \in BOOLEAN
    BY <1>0, <2>1 DEF StartupTypeOK
  <2>4. free'[sale.asset] <= free[sale.asset] /\ locked'[sale.asset] = locked[sale.asset]
    <3>1. free[sale.asset] \in Nat
      BY <1>0 DEF StartupInv, AtHand, StartupTypeOK, Amounts
    <3> QED
      BY <2>1, <3>1
  <2> QED
    BY <1>0, <2>1, <2>2, <2>3, <2>4, AfterErrorStep
<1>3. CASE SellUnanswered
  <2>1. PICK e \in Executions(sale.route, sale.qty) : Execute(sale.asset, e)
    BY <1>3 DEF SellUnanswered
  <2>2. /\ sale.qty <= free[sale.asset] /\ AfterError /\ disturbed' = TRUE
        /\ UNCHANGED <<starts, held, saved, budget, verified, pending, waited, cache, late,
               seen, announced>>
    BY <1>3 DEF SellUnanswered, settling
  <2>3. /\ free' \in Amounts /\ locked' \in Amounts /\ transit' \in Amounts /\ cash' \in Nat
        /\ \A b \in Asset : b # sale.asset => Total(b)' = Total(b)
        /\ free'[sale.asset] <= free[sale.asset]
        /\ sale.route # "gtc" => locked'[sale.asset] = locked[sale.asset]
    BY <1>0, <2>1, <2>2, SaleFacts
  <2>4. (MayGiveUp(sale.route) /\ Fallbacks[sale.route] = {})
          \/ locked'[sale.asset] = locked[sale.asset]
    BY <2>3, GtcIsLast
  <2> QED
    BY <1>0, <2>2, <2>3, <2>4, AfterErrorStep
<1> QED
  BY <1>1, <1>2, <1>3

\* The reset is through with the assets.
LEMMA AssetsDoneStep ==
  ASSUME StartupInv, AssetsDone
  PROVE  StartupInv'
<1>1. /\ pc = "assets" /\ todo = {}
      /\ pc' = IF pending = Nothing THEN "after" ELSE "settle"
      /\ seen' = [total |-> Nothing, free |-> Nothing]
      /\ UNCHANGED <<starts, held, saved, budget, verified, pending, waited, cache, late, todo,
             sale, free,
                     locked, cash, transit, excused, disturbed, announced>>
  BY DEF AssetsDone, portfolio, settling, account, observed
<1>2. Nothing \in Amounts
  BY DEF Nothing, Amounts
<1>3. StartupTypeOK'
  BY <1>1, <1>2 DEF StartupInv, StartupTypeOK
<1>4. Progress'
  BY <1>1 DEF StartupInv, Progress, Accounted, Total
<1> QED
  BY <1>1, <1>3, <1>4 DEF StartupInv, Asleep, NoSecondWait, AtHand, Nothing

\* The settlements are awaited.  What is left when the attempts are used up is old.
LEMMA SettleStep ==
  ASSUME StartupInv, CheckSettlements \/ StopWaiting
  PROVE  StartupInv'
<1>0. StartupTypeOK /\ pc = "settle" /\ Nothing \in Amounts
  BY DEF StartupInv, CheckSettlements, StopWaiting, Nothing, Amounts
<1>1. /\ pc' \in {"settle", "after"}
      /\ UNCHANGED <<starts, held, saved, budget, todo, seen, sale, free, locked, cash,
             transit, excused,
                     announced>>
      /\ disturbed' \in BOOLEAN
      /\ verified' \in Nat /\ pending' \in Amounts /\ waited' \in 0..WaitTicks
      /\ cache' \in Nat \cup {None} /\ late' \in Nat \cup {None}
      /\ pc' = "after" => pending' = Nothing
  <2>1. CASE CheckSettlements
    <3>1. PICK actual \in Refreshed(0) :
            /\ refresh_budget_from_exchange_safe(actual, 0)
            /\ Misread(actual)
            /\ IF Confirmed(actual)
               THEN /\ pending' = Nothing /\ verified' = actual /\ pc' = "after"
                    /\ waited' = 0
               ELSE /\ verified' = IF actual > verified THEN actual ELSE verified
                    /\ pending' = [a \in Asset |->
                         IF actual > verified /\ PartlyCleared(a, actual) THEN 0 ELSE pending[a]]
                    /\ waited' = waited + 1
                    /\ UNCHANGED pc
      BY <2>1 DEF CheckSettlements
    <3>2. /\ waited < WaitTicks
          /\ UNCHANGED <<starts, held, saved, budget, todo, seen, sale, free, locked,
                 cash, transit,
                         excused, announced>>
      BY <2>1 DEF CheckSettlements, resetting, account
    <3>3. actual \in Nat /\ cache' \in Nat \cup {None} /\ late' \in Nat \cup {None}
      BY <1>0, <3>1, ReadingType
    <3>4. disturbed' \in BOOLEAN
      BY <1>0, <3>1 DEF Misread, StartupTypeOK
    <3>5. CASE Confirmed(actual)
      BY <1>0, <3>1, <3>2, <3>3, <3>4, <3>5, BoundsAreNat
    <3>6. CASE ~Confirmed(actual)
      <4>1. pending \in Amounts /\ verified \in Nat /\ waited \in 0..WaitTicks
        BY <1>0 DEF StartupTypeOK
      <4>2. pending' \in Amounts
        BY <3>1, <3>6, <4>1 DEF Amounts
      <4>3. verified' \in Nat /\ waited' \in 0..WaitTicks
        BY <3>1, <3>2, <3>3, <3>6, <4>1, BoundsAreNat
      <4> QED
        BY <1>0, <3>1, <3>2, <3>3, <3>4, <3>6, <4>2, <4>3
    <3> QED
      BY <3>5, <3>6
  <2>2. CASE StopWaiting
    <3>1. /\ pending = Nothing \/ waited = WaitTicks
          /\ pending' = IF waited > ExpireTicks THEN Nothing ELSE pending
          /\ disturbed' = (disturbed \/ pending' # pending)
          /\ pc' = "after" /\ waited' = 0
          /\ UNCHANGED <<starts, held, saved, budget, verified, cache, late, todo, seen, sale,
                 free, locked,
                         cash, transit, excused, announced>>
      BY <2>2 DEF StopWaiting, resetting, account, portfolio
    <3>2. pending' = Nothing
      BY <3>1, BoundsAreNat
    <3> QED
      BY <1>0, <3>1, <3>2, BoundsAreNat DEF StartupTypeOK
  <2> QED
    BY <2>1, <2>2
<1>2. StartupTypeOK'
  BY <1>0, <1>1 DEF StartupTypeOK
<1>3. Progress'
  BY <1>0, <1>1 DEF StartupInv, Progress, Accounted, Total
<1> QED
  BY <1>1, <1>2, <1>3 DEF StartupInv, Asleep, NoSecondWait, AtHand

\* The rest of the start, from the refreshed budget to trading.
LEMMA FundsStep ==
  ASSUME StartupInv,
         RefreshAfterReset \/ ClearState \/ CheckStartupBudget \/ WaitForBudget
  PROVE  StartupInv'
<1> USE DEF portfolio, settling, resetting, account, observed
<1>0. StartupTypeOK /\ Nothing \in Amounts
  BY DEF StartupInv, Nothing, Amounts
<1>1. /\ pc' \in {"clear", "budget", "trading", "wait"}
      /\ pc' \in {"clear", "budget"} =>
           pc \in {"after", "clear"} /\ UNCHANGED excused
      /\ UNCHANGED <<starts, pending, waited, todo, seen, sale, free, locked, cash,
             transit>>
      /\ excused' \subseteq Asset
  <2>1. CASE RefreshAfterReset
    BY <2>1, <1>0 DEF StartupTypeOK, RefreshAfterReset
  <2>2. CASE ClearState
    BY <2>2, <1>0 DEF StartupTypeOK, ClearState
  <2>3. CASE CheckStartupBudget
    BY <2>3, <1>0 DEF StartupTypeOK, CheckStartupBudget
  <2>4. CASE WaitForBudget
    BY <2>4, <1>0 DEF StartupTypeOK, WaitForBudget
  <2> QED
    BY <2>1, <2>2, <2>3, <2>4
<1>2. /\ held' \in Amounts /\ saved' \in Amounts /\ announced' \in Nat /\ disturbed' \in BOOLEAN
  <2>1. CASE RefreshAfterReset
    BY <2>1, <1>0 DEF StartupTypeOK, RefreshAfterReset
  <2>2. CASE ClearState
    BY <2>2, <1>0 DEF StartupTypeOK, ClearState
  <2>3. CASE CheckStartupBudget
    BY <2>3, <1>0 DEF StartupTypeOK, CheckStartupBudget
  <2>4. CASE WaitForBudget
    BY <2>4, <1>0 DEF StartupTypeOK, WaitForBudget
  <2> QED
    BY <2>1, <2>2, <2>3, <2>4
<1>3. budget' \in Nat /\ verified' \in Nat /\ cache' \in Nat \cup {None} /\ late' \in Nat \cup {None}
  <2>1. CASE RefreshAfterReset \/ WaitForBudget
    <3>1. PICK got \in Refreshed(budget) :
            /\ refresh_budget_from_exchange_safe(got, budget)
            /\ budget' = got /\ verified' = got
      BY <2>1 DEF RefreshAfterReset, WaitForBudget
    <3>2. budget \in Nat
      BY <1>0 DEF StartupTypeOK
    <3> QED
      BY <1>0, <3>1, <3>2, ReadingType
  <2>2. CASE ClearState \/ CheckStartupBudget
    BY <1>0, <2>2 DEF StartupTypeOK, ClearState, CheckStartupBudget
  <2> QED
    BY <2>1, <2>2
<1>4. StartupTypeOK'
  BY <1>0, <1>1, <1>2, <1>3 DEF StartupTypeOK
<1>5. Progress'
  BY <1>1 DEF StartupInv, Progress, Accounted, Total
<1> QED
  BY <1>1, <1>4, <1>5 DEF StartupInv, Asleep, NoSecondWait, AtHand

\* The exchange fills an order that rests, or credits what was sold.
LEMMA ExchangeStep ==
  ASSUME StartupInv, Exchange
  PROVE  StartupInv'
<1>0. StartupTypeOK
  BY DEF StartupInv
<1>1. /\ pc \in {"boot", "reset", "assets", "settle", "after", "wait"}
      /\ UNCHANGED <<pc, starts, held, saved, budget, verified, pending, waited, cache, late,
             todo, seen,
                     sale, free, excused, announced>>
      /\ disturbed' \in BOOLEAN
  BY <1>0 DEF Exchange, RestingFills, Arrive, LooksAtOrders, LooksAtCash, portfolio,
      settling,
     resetting, observed, StartupTypeOK
<1>2. /\ locked' \in Amounts /\ transit' \in Amounts /\ cash' \in Nat
      /\ \A b \in Asset : Total(b) = 0 => Total(b)' = 0
  <2>1. CASE RestingFills
    <3>1. PICK a \in Asset :
            /\ locked[a] > 0
            /\ locked' = [locked EXCEPT ![a] = 0]
            /\ transit' = [transit EXCEPT ![a] = @ + locked[a]]
      BY <2>1 DEF RestingFills
    <3>2. cash' = cash /\ free' = free
      BY <2>1 DEF RestingFills
    <3>3. free \in Amounts /\ locked \in Amounts /\ transit \in Amounts /\ cash \in Nat
      BY <1>0 DEF StartupTypeOK
    <3>4. locked' \in Amounts /\ transit' \in Amounts
      BY <3>1, <3>3 DEF Amounts
    <3>5. \A b \in Asset : Total(b) = 0 => b # a /\ locked'[b] = locked[b]
      BY <3>1, <3>3 DEF Amounts, Total
    <3> QED
      BY <3>2, <3>3, <3>4, <3>5 DEF Total
  <2>2. CASE Arrive
    <3>1. PICK a \in Asset : cash' = cash + transit[a] /\ transit' = [transit EXCEPT ![a] = 0]
      BY <2>2 DEF Arrive
    <3>2. UNCHANGED <<free, locked>>
      BY <2>2 DEF Arrive
    <3>3. transit \in Amounts /\ cash \in Nat /\ transit[a] \in Nat
      BY <1>0 DEF StartupTypeOK, Amounts
    <3>4. transit' \in Amounts
      BY <3>1, <3>3 DEF Amounts
    <3> QED
      BY <1>0, <3>1, <3>2, <3>3, <3>4 DEF StartupTypeOK, Total
  <2> QED
    BY <2>1, <2>2 DEF Exchange
<1>3. StartupTypeOK'
  BY <1>0, <1>1, <1>2 DEF StartupTypeOK
<1>4. Progress'
  BY <1>1, <1>2 DEF StartupInv, Progress, Accounted
<1> QED
  BY <1>1, <1>3, <1>4 DEF StartupInv, Asleep, NoSecondWait, AtHand, Nothing

\* The end of a process, and a new one.
LEMMA StartAgainStep ==
  ASSUME StartupInv, StartAgain \/ ShutdownWhileWaiting
  PROVE  StartupInv'
<1>0. StartupTypeOK /\ Nothing \in Amounts
  BY DEF StartupInv, Nothing, Amounts
<1>1. starts' \in 1..MaxStarts /\ 0 \in 0..WaitTicks
  BY <1>0, BoundsAreNat DEF StartAgain, ShutdownWhileWaiting, StartupTypeOK
<1>2. NoSale \in [asset : Asset \cup {None}, qty : Nat, route : Route]
  BY DEF NoSale, Route
<1>3. /\ Memory /\ pc' \in {"boot", "left"} /\ disturbed' \in BOOLEAN
      /\ UNCHANGED <<saved, account>>
  BY <1>0 DEF StartAgain, ShutdownWhileWaiting, StartupTypeOK
<1>4. StartupTypeOK'
  BY <1>0, <1>1, <1>2, <1>3 DEF Memory, StartupTypeOK, account
<1> QED
  BY <1>3, <1>4 DEF Memory, StartupInv, Asleep, NoSecondWait, Progress, AtHand, Nothing

\* A worker nobody waits for writes the cache.
LEMMA LateStep ==
  ASSUME StartupInv, LateCacheWrite
  PROVE  StartupInv'
<1>0. StartupTypeOK
  BY DEF StartupInv
<1>1. UNCHANGED <<pc, starts, held, saved, budget, verified, pending, waited, todo, seen, sale,
                  free, locked, cash, transit, excused, disturbed, announced>>
  BY DEF LateCacheWrite, portfolio, settling, resetting, account, observed
<1>2. cache' \in Nat \cup {None} /\ late' \in Nat \cup {None}
  BY <1>0 DEF LateCacheWrite, FreeReads, StartupTypeOK
<1>3. StartupTypeOK'
  BY <1>0, <1>1, <1>2 DEF StartupTypeOK
<1> QED
  BY <1>1, <1>3
  DEF StartupInv, Asleep, NoSecondWait, Progress, AtHand, Accounted, Total, Nothing

\* Every step keeps it.
LEMMA StartupStep == StartupInv /\ [StartupNext]_startupVars => StartupInv'
<1> SUFFICES ASSUME StartupInv, [StartupNext]_startupVars PROVE StartupInv'
  OBVIOUS
<1>1. CASE UNCHANGED startupVars
  BY <1>1
  DEF startupVars, portfolio, settling, resetting, account, observed, StartupInv,
      StartupTypeOK, Asleep, NoSecondWait,
      Progress, AtHand, Accounted, Total, Nothing
<1> QED
  BY <1>1, BootStep, ResetStartsStep, CancelStep, ValueStep, SellStep, AssetsDoneStep,
      SettleStep,
     FundsStep, ExchangeStep, StartAgainStep, LateStep
  DEF StartupNext, MainThread, Selling

(***************************************************************************)
(* What the wait has seen arrive                                           *)
(***************************************************************************)

\* The money that is there or on its way.  While settlements are awaited it is what the
\* account will have when all of them have come.
Due == cash + SumOf(transit)

\* Every sale so far is pending with just what it fetched, those to come are not.
AllNoted ==
  /\ transit = pending /\ announced = SumOf(pending) /\ verified = cash
  /\ \A a \in todo : pending[a] = 0

\* While one is pending, the balance that confirms them is not less than Due; and they
\* are cleared only once half of what was announced has come.
Counted ==
  /\ verified <= cash /\ Due <= verified + announced
  /\ pending # Nothing => Due <= verified + SumOf(pending)
  /\ announced = SumOf(pending) \/ 2 * Due <= 2 * verified + announced

Outstanding ==
  /\ pc \in {"value", "sell"} => sale.asset \in todo
  /\ ~disturbed => /\ pc \in {"boot", "sanity", "reset"} => transit = Nothing /\ announced = 0
                   /\ pc \in {"sanity", "reset"} => verified = cash
                   /\ pc \in {"assets", "value", "sell"} => AllNoted
                   /\ pc = "settle" => Counted
  /\ ShortfallExplained

\* Sums of amounts.
LEMMA SumsOfAmounts ==
  ASSUME NEW f \in Amounts
  PROVE  /\ SumOf(f) \in Nat
         /\ \A a \in Asset : f[a] <= SumOf(f)
         /\ \A g \in Amounts : \A a \in Asset :
              (\A b \in Asset : b # a => g[b] = f[b]) => SumOf(g) = SumOf(f) - f[a] + g[a]
         /\ f = Nothing <=> SumOf(f) = 0
<1>1. IsFiniteSet(Asset) /\ \A x \in Asset : f[x] \in Nat
  BY StartupAssumption DEF Amounts
<1>2. SumOf(f) \in Nat
  BY <1>1, SumType DEF SumOf
<1>3. \A a \in Asset : f[a] <= SumOf(f)
  BY <1>1, SumBounds DEF SumOf
<1>4. ASSUME NEW g \in Amounts, NEW a \in Asset, \A b \in Asset : b # a => g[b] = f[b]
      PROVE  SumOf(g) = SumOf(f) - f[a] + g[a]
  <2>1. \A x \in Asset : f[x] \in Int /\ g[x] \in Int
    BY <1>1 DEF Amounts
  <2> QED
    BY <1>1, <1>4, <2>1, SumChange DEF SumOf
<1>5. f = Nothing => SumOf(f) = 0
  BY <1>1, SumZero DEF SumOf, Nothing
<1>6. SumOf(f) = 0 => f = Nothing
  <2> SUFFICES ASSUME SumOf(f) = 0 PROVE f = Nothing
    OBVIOUS
  <2>1. \A a \in Asset : f[a] = 0
    BY <1>1, <1>3
  <2> QED
    BY <2>1 DEF Nothing, Amounts
<1> QED
  BY <1>2, <1>3, <1>4, <1>5, <1>6

\* Before the sales nothing is on its way, or the start counts as disturbed.
LEMMA BeforeOutstanding ==
  ASSUME StartupInv, Outstanding, Boot \/ SanityCheck \/ ResetStarts \/ StartAgain
  PROVE  Outstanding'
<1>0. StartupTypeOK /\ Nothing \in Amounts /\ SumOf(Nothing) = 0
  BY SumsOfAmounts DEF StartupInv, Nothing, Amounts
<1>1. CASE Boot
  BY <1>1 DEF Boot, Outstanding, Misread, ShortfallExplained, account, resetting, Nothing
<1>2. CASE SanityCheck
  BY <1>2 DEF SanityCheck, Outstanding, ShortfallExplained, account, observed, settling,
      resetting, Nothing
<1>3. CASE ResetStarts
  <2>1. /\ pc = "reset"
        /\ UNCHANGED <<verified, pending, cash, transit, disturbed, announced>>
        /\ pc' \in {"assets", "after"}
    BY <1>3 DEF ResetStarts, portfolio, settling, account
  <2>2. pending = Nothing
    BY <2>1 DEF StartupInv, Asleep
  <2>3. pc' = "assets" /\ ~disturbed => AllNoted'
    <3>1. pc' = "assets" => \A a \in todo' : pending[a] = 0
      BY <1>3, <2>2 DEF ResetStarts, Nothing
    <3> QED
      BY <1>0, <2>1, <2>2, <3>1 DEF Outstanding, AllNoted, SumOf
  <2> QED
    BY <1>0, <2>1, <2>2, <2>3 DEF Outstanding, ShortfallExplained
<1>4. CASE StartAgain
  BY <1>4 DEF StartAgain, Memory, Outstanding, ShortfallExplained, account, Nothing
<1> QED
  BY <1>1, <1>2, <1>3, <1>4

\* An asset is looked at, or its sale refused or unanswered: nothing is noted.
LEMMA LooksOutstanding ==
  ASSUME StartupInv, Outstanding,
         CancelOpenOrders \/ ValueAsset \/ SellRefused \/ SellUnanswered
  PROVE  Outstanding'
<1>0. /\ pc \in {"assets", "value", "sell"} /\ pc' \in {"assets", "value", "sell", "budget"}
      /\ pc' \in {"value", "sell"} => sale'.asset \in todo'
      /\ todo' \subseteq todo
      /\ UNCHANGED <<verified, pending, announced>>
  <2>1. CASE CancelOpenOrders
    BY <2>1 DEF CancelOpenOrders, portfolio, settling
  <2>2. CASE ValueAsset
    BY <2>2 DEF ValueAsset, portfolio, settling, NextAsset, NoSale, Outstanding,
        StartupInv, StartupTypeOK
  <2>3. CASE SellRefused \/ SellUnanswered
    <3>1. pc = "sell" /\ AfterError /\ UNCHANGED <<verified, pending, announced>>
      BY <2>3 DEF SellRefused, SellUnanswered, portfolio, settling
    <3> QED
      BY <3>1 DEF AfterError, NextAsset, Outstanding, StartupInv, StartupTypeOK
  <2> QED
    BY <2>1, <2>2, <2>3
<1>1. CASE SellUnanswered
  BY <1>0, <1>1 DEF SellUnanswered, Outstanding, ShortfallExplained
<1>2. CASE CancelOpenOrders \/ ValueAsset \/ SellRefused
  <2>1. UNCHANGED <<cash, transit, disturbed>>
    BY <1>2 DEF CancelOpenOrders, ValueAsset, SellRefused, account
  <2> QED
    BY <1>0, <2>1 DEF Outstanding, AllNoted, ShortfallExplained
<1> QED
  BY <1>1, <1>2

\* What an answered sale fetched is on its way, and noted unless the answer did not tell.
LEMMA SellOutstanding ==
  ASSUME StartupInv, Outstanding, Sell
  PROVE  Outstanding'
<1> DEFINE a == sale.asset
<1>0. /\ pc = "sell" /\ pc' = "assets" /\ todo' = todo \ {a} /\ verified' = verified
      /\ StartupTypeOK /\ a \in todo /\ a \in Asset
  BY DEF Sell, NextAsset, portfolio, StartupInv, Outstanding, StartupTypeOK
<1>e. PICK e \in Executions(sale.route, sale.qty) :
        /\ Execute(a, e)
        /\ \E revenue \in Revenue(e) :
             /\ pending' = [pending EXCEPT ![a] = revenue]
             /\ announced' = announced + revenue
             /\ disturbed' = (disturbed \/ revenue # e[1])
  BY DEF Sell
<1>1. PICK revenue \in Revenue(e) :
        /\ Execute(a, e)
        /\ pending' = [pending EXCEPT ![a] = revenue]
        /\ announced' = announced + revenue
        /\ disturbed' = (disturbed \/ revenue # e[1])
  BY <1>e
<1>2. SUFFICES ASSUME ~disturbed' PROVE AllNoted'
  BY <1>0 DEF Outstanding, ShortfallExplained
<1>3. e[1] \in Nat /\ revenue = e[1] /\ ~disturbed
  BY <1>0, <1>1, <1>2, ExecutionFacts DEF StartupTypeOK
<1>4. AllNoted /\ pending[a] = 0 /\ pending \in Amounts
  BY <1>0, <1>3 DEF Outstanding, StartupTypeOK, AllNoted
<1>5. transit' = [pending EXCEPT ![a] = e[1]] /\ cash' = cash
  <2>1. transit' = [transit EXCEPT ![a] = transit[a] + e[1]] /\ cash' = cash
    BY <1>1 DEF Execute
  <2>2. transit = pending /\ transit[a] + e[1] = e[1]
    BY <1>3, <1>4 DEF AllNoted
  <2> QED
    BY <2>1, <2>2
<1>6. pending' = [pending EXCEPT ![a] = e[1]]
  BY <1>1, <1>3
<1>7. pending' \in Amounts /\ pending'[a] = e[1] /\ \A b \in Asset : b # a => pending'[b] = pending[b]
  BY <1>0, <1>3, <1>4, <1>6 DEF Amounts
<1>8. SumOf(pending') = announced'
  <2>1. SumOf(pending') = SumOf(pending) - pending[a] + pending'[a]
    BY <1>0, <1>4, <1>7, SumsOfAmounts
  <2>2. SumOf(pending) \in Nat
    BY <1>4, SumsOfAmounts
  <2> QED
    BY <1>1, <1>3, <1>4, <1>7, <2>1, <2>2 DEF AllNoted
<1>9. \A b \in todo' : pending'[b] = 0
  BY <1>0, <1>4, <1>7 DEF AllNoted, StartupTypeOK
<1> QED
  BY <1>0, <1>4, <1>5, <1>6, <1>8, <1>9 DEF AllNoted, SumOf

\* The wait begins with all that was noted, or there is nothing to wait for.
LEMMA DoneOutstanding ==
  ASSUME StartupInv, Outstanding, AssetsDone
  PROVE  Outstanding'
<1>1. /\ pc = "assets" /\ pc' = IF pending = Nothing THEN "after" ELSE "settle"
      /\ UNCHANGED <<verified, pending, cash, transit, disturbed, announced>>
  BY DEF AssetsDone, portfolio, settling, account, observed
<1>2. pending \in Amounts /\ cash \in Nat
  BY DEF StartupInv, StartupTypeOK
<1>3. SumOf(pending) \in Nat /\ (pending = Nothing => SumOf(pending) = 0)
  BY <1>2, SumsOfAmounts
<1>4. ASSUME ~disturbed
      PROVE  Counted /\ (pending = Nothing => SumOf(transit) = 0 /\ announced = 0)
  BY <1>1, <1>2, <1>3, <1>4 DEF Outstanding, AllNoted, Counted, Due
<1> QED
  BY <1>1, <1>4 DEF Outstanding, Counted, Due, ShortfallExplained, SumOf

\* Proceeds that come leave Due as it is.
LEMMA ArriveOutstanding ==
  ASSUME StartupInv, Outstanding, Arrive \/ RestingFills
  PROVE  Outstanding'
<1>0. StartupTypeOK /\ UNCHANGED <<pc, verified, pending, todo, sale, announced>>
  BY DEF StartupInv, Arrive, RestingFills, portfolio, settling, resetting, observed
<1>1. CASE RestingFills
  BY <1>0, <1>1 DEF RestingFills, Outstanding, ShortfallExplained, LooksAtOrders
<1>2. CASE Arrive
  <2>1. PICK a \in Asset : /\ transit[a] > 0
                           /\ cash' = cash + transit[a]
                           /\ transit' = [transit EXCEPT ![a] = 0]
    BY <1>2 DEF Arrive
  <2>2. pc \in {"boot", "settle", "after", "wait"} /\ disturbed' = disturbed
    BY <1>2 DEF Arrive, LooksAtCash, observed
  <2>3. /\ transit \in Amounts /\ transit' \in Amounts /\ transit[a] \in Nat /\ cash \in Nat
        /\ transit'[a] = 0 /\ \A b \in Asset : b # a => transit'[b] = transit[b]
    BY <1>0, <2>1 DEF StartupTypeOK, Amounts
  <2>4. /\ SumOf(transit') = SumOf(transit) - transit[a] + transit'[a]
        /\ SumOf(transit') \in Nat /\ SumOf(transit) \in Nat
    BY <2>3, SumsOfAmounts
  <2>5. Due' = Due /\ cash' >= cash /\ SumOf(transit') <= SumOf(transit)
    BY <2>1, <2>3, <2>4 DEF Due, SumOf
  <2>6. transit # Nothing
    BY <2>1 DEF Nothing
  <2>7. pc = "settle" /\ ~disturbed => Counted'
    <3>1. verified \in Nat /\ cash' \in Nat
      BY <1>0, <2>1, <2>3 DEF StartupTypeOK
    <3> QED
      BY <1>0, <2>3, <2>5, <3>1 DEF Outstanding, Counted, SumOf
  <2>8. ShortfallExplained'
    <3>1. announced \in Nat /\ cash + SumOf(transit) = cash' + SumOf(transit')
      BY <1>0, <2>5 DEF StartupTypeOK, Due, SumOf
    <3>2. SUFFICES ASSUME pc = "after", ~disturbed
                   PROVE  \/ 2 * SumOf(transit') <= announced
                          \/ 100 * SumOf(transit') <= cash' + SumOf(transit')
      BY <1>0, <2>2 DEF ShortfallExplained, SumOf
    <3>3. \/ 2 * SumOf(transit) <= announced
          \/ 100 * SumOf(transit) <= cash + SumOf(transit)
      BY <3>2 DEF Outstanding, ShortfallExplained
    <3> QED
      BY <2>3, <2>4, <2>5, <3>1, <3>3
  <2> QED
    BY <1>0, <2>2, <2>6, <2>7, <2>8 DEF Outstanding
<1> QED
  BY <1>1, <1>2

\* One check.  What it confirms, the balance covers to a hundredth.  What it clears
\* otherwise is half of what was awaited, and what then is left is more than came.
LEMMA CheckOutstanding ==
  ASSUME StartupInv, Outstanding, CheckSettlements
  PROVE  Outstanding'
<1>1. PICK actual \in Refreshed(0) :
        /\ Misread(actual)
        /\ IF Confirmed(actual)
           THEN /\ pending' = Nothing /\ verified' = actual /\ pc' = "after"
           ELSE /\ verified' = IF actual > verified THEN actual ELSE verified
                /\ pending' = [a \in Asset |->
                     IF actual > verified /\ PartlyCleared(a, actual) THEN 0 ELSE pending[a]]
                /\ UNCHANGED pc
  BY DEF CheckSettlements
<1>2. /\ StartupTypeOK /\ pc = "settle" /\ pending # Nothing
      /\ UNCHANGED <<cash, transit, announced, todo, sale>>
  BY DEF StartupInv, CheckSettlements, resetting, account
<1>3. SUFFICES ASSUME ~disturbed'
               PROVE  /\ pc' = "settle" => Counted'
                      /\ ShortfallExplained'
  BY <1>1, <1>2 DEF Outstanding, ShortfallExplained
<1>4. actual = cash /\ ~disturbed
  BY <1>1, <1>3 DEF Misread
<1>5. /\ cash \in Nat /\ verified \in Nat /\ announced \in Nat /\ pending \in Amounts
      /\ transit \in Amounts
  BY <1>2 DEF StartupTypeOK
<1>6. PICK P,
    T : P \in Nat /\ T \in Nat /\ P = SumOf(pending) /\ T = SumOf(transit) /\ Due = cash + T
  BY <1>5, SumsOfAmounts DEF Due
<1>7. /\ verified <= cash /\ Due <= verified + announced
      /\ Due <= verified + P
      /\ announced = P \/ 2 * Due <= 2 * verified + announced
  BY <1>2, <1>4, <1>6 DEF Outstanding, Counted
<1>8. CASE Confirmed(actual)
  <2>1. cash * 100 >= (verified + P) * 99
    BY <1>4, <1>6, <1>8 DEF Confirmed
  <2>2. 100 * T <= cash + T
    BY <1>5, <1>6, <1>7, <2>1
  <2>3. pc' = "after"
    BY <1>1, <1>8
  <2> QED
    BY <1>2, <1>6, <2>2, <2>3 DEF ShortfallExplained, SumOf
<1>9. CASE ~Confirmed(actual)
  <2>1. /\ pc' = "settle" /\ verified' = cash
        /\ pending' = [a \in Asset |->
             IF cash > verified /\ PartlyCleared(a, cash) THEN 0 ELSE pending[a]]
    BY <1>1, <1>2, <1>4, <1>5, <1>7, <1>9
  <2>2. Due' = Due /\ ShortfallExplained'
    BY <1>2, <2>1 DEF Due, ShortfallExplained, SumOf
  <2>3. pending' \in Amounts
    BY <1>5, <2>1 DEF Amounts
  <2>4. PICK Q : Q \in Nat /\ Q = SumOf(pending') /\ \A a \in Asset : pending'[a] <= Q
    BY <2>3, SumsOfAmounts
  <2>5. /\ Due \in Nat /\ Due <= cash + announced
        /\ 2 * Due <= 2 * cash + announced \/ announced = P
    BY <1>5, <1>6, <1>7
  <2>6. CASE pending' = pending
    <3>1. Q = P
      BY <1>6, <2>4, <2>6
    <3>2. Due <= cash + P
      BY <1>5, <1>6, <1>7
    <3> QED
      BY <1>2, <1>6, <2>1, <2>2, <2>4, <2>5, <2>6, <3>1, <3>2, <1>5 DEF Counted, SumOf
  <2>7. CASE pending' # pending
    <3>1. PICK b \in Asset : cash > verified /\ PartlyCleared(b, cash)
      <4>1. \E b \in Asset : pending'[b] # pending[b]
        BY <1>5, <2>3, <2>7 DEF Amounts
      <4> QED
        BY <2>1, <4>1
    <3>2. PICK p \in Nat : p = cash - verified /\ p = Monus(cash, verified)
      BY <1>5, <3>1 DEF Monus
    <3>3. 2 * p >= P
      BY <1>6, <3>1, <3>2 DEF PartlyCleared
    <3>4. 2 * Due <= 2 * cash + announced
      BY <1>5, <1>6, <1>7, <2>5, <3>2, <3>3
    <3>5. pending' # Nothing => Due <= cash + Q
      <4> SUFFICES ASSUME pending' # Nothing PROVE Due <= cash + Q
        OBVIOUS
      <4>1. PICK a \in Asset : pending'[a] # 0
        BY <2>3 DEF Nothing, Amounts
      <4>2. pending'[a] = pending[a] /\ pending[a] \in Nat /\ ~PartlyCleared(a, cash)
        BY <1>5, <2>1, <3>1, <4>1 DEF Amounts
      <4>3. 10 * pending[a] > 11 * p
        BY <1>6, <3>2, <3>3, <4>2 DEF PartlyCleared
      <4>4. pending[a] <= Q
        BY <2>4, <4>2
      <4> QED
        BY <1>5, <1>6, <1>7, <2>4, <2>5, <3>2, <3>3, <4>2, <4>3, <4>4
    <3> QED
      BY <1>2, <2>1, <2>2, <2>4, <2>5, <3>4, <3>5, <1>5 DEF Counted, SumOf
  <2> QED
    BY <2>1, <2>2, <2>6, <2>7
<1> QED
  BY <1>8, <1>9

\* The wait ends with nothing pending, or gives up what is.
LEMMA StopOutstanding ==
  ASSUME StartupInv, Outstanding, StopWaiting
  PROVE  Outstanding'
<1>1. /\ pc = "settle" /\ pc' = "after" /\ StartupTypeOK
      /\ pending = Nothing \/ waited = WaitTicks
      /\ pending' = IF waited > ExpireTicks THEN Nothing ELSE pending
      /\ disturbed' = (disturbed \/ pending' # pending)
      /\ UNCHANGED <<verified, cash, transit, announced>>
  BY DEF StopWaiting, StartupInv, resetting, account, portfolio
<1>2. SUFFICES ASSUME ~disturbed' PROVE 2 * SumOf(transit') <= announced'
  BY <1>1 DEF Outstanding, ShortfallExplained, SumOf
<1>3. pending = Nothing /\ ~disturbed
  BY <1>1, <1>2, BoundsAreNat
<1>4. SumOf(pending) = 0 /\ SumOf(transit) \in Nat
  BY <1>1, <1>3, SumsOfAmounts DEF StartupTypeOK
<1>5. /\ verified <= cash /\ Due <= verified + announced
      /\ announced = 0 \/ 2 * Due <= 2 * verified + announced
  BY <1>1, <1>3, <1>4 DEF Outstanding, Counted
<1>6. cash \in Nat /\ verified \in Nat /\ announced \in Nat
  BY <1>1 DEF StartupTypeOK
<1>7. 2 * SumOf(transit) <= announced
  BY <1>4, <1>5, <1>6 DEF Due
<1> QED
  BY <1>1, <1>7 DEF SumOf

\* Every step keeps it.
LEMMA OutstandingStep == StartupInv /\ Outstanding /\ [StartupNext]_startupVars => Outstanding'
<1> SUFFICES ASSUME StartupInv, Outstanding, [StartupNext]_startupVars PROVE Outstanding'
  OBVIOUS
<1>1. CASE UNCHANGED startupVars
  BY <1>1 DEF startupVars, portfolio, settling, resetting, account, observed,
      Outstanding, AllNoted, Counted, Due,
     ShortfallExplained, SumOf
<1>2. CASE RefreshAfterReset \/ ClearState \/ CheckStartupBudget \/ WaitForBudget
             \/ ShutdownWhileWaiting
  <2>1. pc' \in {"clear", "budget", "trading", "wait", "left"}
    BY <1>2 DEF RefreshAfterReset, ClearState, CheckStartupBudget, WaitForBudget,
        ShutdownWhileWaiting
  <2> QED
    BY <2>1 DEF Outstanding, ShortfallExplained
<1>3. CASE LateCacheWrite
  BY <1>3 DEF LateCacheWrite, portfolio, settling, resetting, account, observed,
      Outstanding, AllNoted, Counted, Due, ShortfallExplained, SumOf
<1> QED
  BY <1>1, <1>2, <1>3, BeforeOutstanding, LooksOutstanding, SellOutstanding, DoneOutstanding,
      ArriveOutstanding, CheckOutstanding,
     StopOutstanding
  DEF StartupNext, MainThread, Selling, Exchange

\* It holds when the process is started: nothing is awaited.
LEMMA OutstandingInit == StartupInit => Outstanding
BY DEF StartupInit, Outstanding, ShortfallExplained

(***************************************************************************)
(* The start comes to an end: the part of StartsWhenFunded that needs no   *)
(* fairness.                                                               *)
(***************************************************************************)

\* How many more kinds of order the ladder still has, the one at hand included.
OrdersLeft == [market |-> 3, market_price |-> 2, ioc |-> 2,
               market_again |-> 1, price_ioc |-> 1, gtc |-> 1]

\* How many steps are left at most when the assets still to do are looked at.
Ahead == 5 + WaitTicks + 6 * Cardinality(todo)

\* How many more steps the main thread takes at most until it waits for money, trades
\* or leaves.
StartLeft ==
  CASE pc = "boot"   -> 8 + WaitTicks + 6 * Cardinality(Asset)
    [] pc = "sanity" -> 7 + WaitTicks + 6 * Cardinality(Asset)
    [] pc = "reset"  -> 6 + WaitTicks + 6 * Cardinality(Asset)
    [] pc = "assets" -> Ahead
    [] pc = "value"  -> Ahead - 1
    [] pc = "sell"   -> Ahead - 5 + OrdersLeft[sale.route]
    [] pc = "settle" -> 4 + WaitTicks - waited
    [] pc = "after"  -> 3
    [] pc = "clear"  -> 2
    [] pc = "budget" -> 1
    [] pc \in {"wait", "trading", "left"} -> 0

\* Every step of the main thread brings the start nearer to its end, and nothing the
\* exchange does takes it further away.
StartEnds ==
  /\ MainThread /\ pc # "wait" => StartLeft' < StartLeft
  /\ Exchange => StartLeft' = StartLeft

\* The steps left are counted by natural numbers.
LEMMA StartLeftTypes ==
  /\ WaitTicks \in Nat /\ Cardinality(Asset) \in Nat
  /\ \A T \in SUBSET Asset : /\ IsFiniteSet(T) /\ Cardinality(T) \in Nat
                             /\ Cardinality(T) <= Cardinality(Asset)
  /\ \A r \in Route : OrdersLeft[r] \in 1..3
<1>1. IsFiniteSet(Asset) /\ WaitTicks \in Nat
  BY StartupAssumption
<1>2. ASSUME NEW T \in SUBSET Asset
      PROVE  /\ IsFiniteSet(T) /\ Cardinality(T) \in Nat
             /\ Cardinality(T) <= Cardinality(Asset)
  BY <1>1, FS_Subset, FS_CardinalityType
<1>3. Cardinality(Asset) \in Nat
  BY <1>1, FS_CardinalityType
<1>4. \A r \in Route : OrdersLeft[r] \in 1..3
  BY DEF OrdersLeft, Route
<1> QED
  BY <1>1, <1>2, <1>3, <1>4

\* Doing an asset leaves fewer.
LEMMA NextAssetLeft ==
  ASSUME StartupTypeOK, StartupTypeOK', Outstanding, pc \in {"value", "sell"}, NextAsset
  PROVE  StartLeft' < StartLeft
<1>1. /\ sale.asset \in todo /\ todo' = todo \ {sale.asset} /\ pc' = "assets"
  BY DEF Outstanding, NextAsset
<1>2. todo \in SUBSET Asset /\ sale.route \in Route
  BY DEF StartupTypeOK
<1>3. /\ IsFiniteSet(todo) /\ Cardinality(todo) \in Nat /\ WaitTicks \in Nat
      /\ OrdersLeft[sale.route] \in 1..3
  BY <1>2, StartLeftTypes
<1>4. Cardinality(todo') = Cardinality(todo) - 1
  BY <1>1, <1>3, FS_RemoveElement
<1>5. StartLeft' = 5 + WaitTicks + 6 * (Cardinality(todo) - 1)
  BY <1>1, <1>4 DEF StartLeft, Ahead
<1>6. StartLeft \in Nat /\ StartLeft >= 5 + WaitTicks + 6 * Cardinality(todo) - 4
  BY <1>3 DEF StartLeft, Ahead
<1> QED
  BY <1>3, <1>5, <1>6

\* A step of the reset leaves fewer.
LEMMA ResetLeft ==
  ASSUME StartupTypeOK, StartupTypeOK', Outstanding, ResetStarts \/ Selling
  PROVE  StartLeft' < StartLeft
<1>0. /\ WaitTicks \in Nat /\ waited \in 0..WaitTicks /\ waited' \in 0..WaitTicks
      /\ Cardinality(todo) \in Nat /\ Cardinality(Asset) \in Nat
      /\ Cardinality(todo') \in Nat /\ Cardinality(todo') <= Cardinality(Asset)
      /\ OrdersLeft[sale.route] \in 1..3
  <2>1. /\ todo \in SUBSET Asset /\ todo' \in SUBSET Asset /\ sale.route \in Route
        /\ waited \in 0..WaitTicks /\ waited' \in 0..WaitTicks
    BY DEF StartupTypeOK
  <2> QED
    BY <2>1, StartLeftTypes
<1>1. CASE pc \in {"value", "sell"} /\ NextAsset
  BY <1>1, NextAssetLeft
<1>2. CASE ResetStarts
  BY <1>0, <1>2 DEF ResetStarts, StartLeft, Ahead
<1>3. CASE CancelOpenOrders
  <2>1. pc = "assets" /\ pc' = "value" /\ todo' = todo
    BY <1>3 DEF CancelOpenOrders
  <2> QED
    BY <1>0, <2>1 DEF StartLeft, Ahead
<1>4. CASE ValueAsset /\ ~NextAsset
  <2>1. pc = "value" /\ (pc' = "budget" \/ (pc' = "sell" /\ todo' = todo /\ sale'.route \in Route))
    BY <1>4 DEF ValueAsset, StartupTypeOK
  <2>2. pc' = "sell" => OrdersLeft[sale'.route] \in 1..3
    BY <2>1, StartLeftTypes
  <2> QED
    BY <1>0, <2>1, <2>2 DEF StartLeft, Ahead
<1>5. CASE (SellRefused \/ SellUnanswered) /\ ~NextAsset
  <2>1. PICK r \in Fallbacks[sale.route] : sale' = [sale EXCEPT !.route = r]
    BY <1>5 DEF SellRefused, SellUnanswered, AfterError
  <2>2. pc = "sell" /\ pc' = pc /\ todo' = todo
    BY <1>5 DEF SellRefused, SellUnanswered, AfterError
  <2>3. sale'.route = r
    BY <2>1 DEF StartupTypeOK
  <2>4. OrdersLeft[r] < OrdersLeft[sale.route] /\ OrdersLeft[r] \in 1..3
    BY DEF StartupTypeOK, Route, Fallbacks, OrdersLeft
  <2> QED
    BY <1>0, <2>2, <2>3, <2>4 DEF StartLeft, Ahead, OrdersLeft
<1>6. CASE AssetsDone
  <2>1. pc = "assets" /\ pc' \in {"after", "settle"}
    BY <1>6 DEF AssetsDone
  <2> QED
    BY <1>0, <2>1 DEF StartLeft, Ahead
<1>7. Sell => pc \in {"value", "sell"} /\ NextAsset
  BY DEF Sell
<1>8. ValueAsset \/ SellRefused \/ SellUnanswered => pc \in {"value", "sell"}
  BY DEF ValueAsset, SellRefused, SellUnanswered
<1> QED
  BY <1>1, <1>2, <1>3, <1>4, <1>5, <1>6, <1>7, <1>8 DEF Selling

\* So does every other step of the main thread that does not wait for money.
LEMMA MainLeft ==
  ASSUME StartupTypeOK, StartupTypeOK', Outstanding, MainThread, pc # "wait"
  PROVE  StartLeft' < StartLeft
<1>0. /\ WaitTicks \in Nat /\ waited \in 0..WaitTicks /\ waited' \in 0..WaitTicks
      /\ Cardinality(Asset) \in Nat
  BY StartLeftTypes DEF StartupTypeOK
<1>1. CASE Boot \/ SanityCheck
  <2>1. \/ pc = "boot" /\ pc' = "sanity"
        \/ pc = "sanity" /\ pc' = "reset"
    BY <1>1 DEF Boot, SanityCheck
  <2> QED
    BY <1>0, <2>1 DEF StartLeft
<1>2. CASE CheckSettlements
  <2>1. pc = "settle" /\ (pc' = "after" \/ (pc' = pc /\ waited' = waited + 1))
    BY <1>2 DEF CheckSettlements
  <2> QED
    BY <1>0, <2>1 DEF StartLeft
<1>3. CASE StopWaiting \/ RefreshAfterReset \/ ClearState \/ CheckStartupBudget
  <2>1. \/ pc = "settle" /\ pc' = "after"
        \/ pc = "after" /\ pc' = "clear"
        \/ pc = "clear" /\ pc' = "budget"
        \/ pc = "budget" /\ pc' \in {"trading", "wait"}
    BY <1>3 DEF StopWaiting, RefreshAfterReset, ClearState, CheckStartupBudget
  <2> QED
    BY <1>0, <2>1 DEF StartLeft
<1>4. ~WaitForBudget
  BY DEF WaitForBudget
<1> QED
  BY <1>1, <1>2, <1>3, <1>4, ResetLeft DEF MainThread

\* The exchange leaves as many.
LEMMA ExchangeLeft == Exchange => StartLeft' = StartLeft
<1> SUFFICES ASSUME Exchange PROVE StartLeft' = StartLeft
  OBVIOUS
<1>1. UNCHANGED <<pc, todo, sale, waited>>
  BY DEF Exchange, RestingFills, Arrive, settling, resetting
<1> QED
  BY <1>1 DEF StartLeft, Ahead

(***************************************************************************)
(* Theorems                                                                *)
(***************************************************************************)

\* The inductive invariant holds in every state (main.py, full_portfolio_reset,
\* wait_for_all_settlements).
THEOREM StartupInvariant == StartupSpec => []StartupInv
BY InitStartup, StartupStep, PTL DEF StartupSpec

\* The account, the portfolio and the settlements stay within their types: nothing
\* falls below zero, whatever is sold.
THEOREM StartupTypes == StartupSpec => []StartupTypeOK
<1>1. StartupInv => StartupTypeOK
  BY DEF StartupInv
<1> QED
  BY <1>1, StartupInvariant, PTL

\* What the program no longer knows of when it looks at its budget, although the
\* account has it, is too small to sell or belongs to an asset for which a call failed
\* (full_portfolio_reset, perform_startup_reset).
THEOREM StartupForgets == StartupSpec => []ForgottenExplained
<1>1. StartupInv => ForgottenExplained
  <2> SUFFICES ASSUME StartupInv, pc = "budget", NEW a \in Asset, Total(a) > held[a]
               PROVE  a \in excused
    BY DEF ForgottenExplained
  <2>1. held[a] \in Nat
    BY DEF StartupInv, StartupTypeOK, Amounts
  <2>2. Total(a) # 0
    BY <2>1
  <2> QED
    BY <2>2 DEF StartupInv, Progress, Accounted
<1> QED
  BY <1>1, StartupInvariant, PTL

\* The reset is followed by no second wait, however the settlements went
\* (wait_for_all_settlements, perform_startup_reset).
THEOREM StartupWaitsOnce == StartupSpec => []NoSecondWait
<1>1. StartupInv => NoSecondWait
  BY DEF StartupInv
<1> QED
  BY <1>1, StartupInvariant, PTL

\* What is awaited is accounted for in every state (SettlementManager).
THEOREM StartupOutstanding == StartupSpec => []Outstanding
BY OutstandingInit, OutstandingStep, StartupInvariant, PTL DEF StartupSpec

\* What the wait was for and has not come when it ends is at most half of it or at most
\* a hundredth of the whole balance, unless the start was disturbed (utils.py:421, 445).
THEOREM StartupShortfall == StartupSpec => []ShortfallExplained
<1>1. Outstanding => ShortfallExplained
  BY DEF Outstanding
<1> QED
  BY <1>1, StartupOutstanding, PTL

\* Whatever is refused, lost or never arrives, the start gets as far as its look at the
\* budget in a number of steps that the number of assets bounds (main.py,
\* full_portfolio_reset, wait_for_all_settlements).
THEOREM StartupEnds == StartupSpec => [][StartEnds]_startupVars
<1>1. StartupInv /\ Outstanding /\ StartupInv' /\ [StartupNext]_startupVars
        => [StartEnds]_startupVars
  BY MainLeft, ExchangeLeft DEF StartEnds, StartupInv
<1> QED
  BY <1>1, StartupOutstanding, StartupInvariant, PTL DEF StartupSpec

-----------------------------------------------------------------------------
(***************************************************************************)
(* The process and its threads                                             *)
(***************************************************************************)

(***************************************************************************)
(* The inductive invariant.  EndedMeansSaved speaks of the last state      *)
(* only; it rests on the writers' thread, which holds the process up from  *)
(* the moment the engine is built until the writers are shut down.         *)
(***************************************************************************)

\* The main loop goes on only while a further failure is forgiven.
Forgiven ==
  main \in Setup \cup {"loop", "waiting", "blocked", "woken", "beat"} => failures < MaxFailures

\* Whoever sets the event has noted that a shutdown is in progress.
Noted == main \in {"setting", "signalling"} => inProgress

\* Cleaning up ends with the main thread's leaving, and the writers are shut down
\* only by a main thread that has stopped the engine.
Ordered ==
  /\ complete => main = "left"
  /\ main = "joining" => ~running
  /\ writerStop => main = "left" /\ ~running

\* Until they are shut down the writers run, unless the engine was never built.
WritersRun ==
  writerStop \/ "writer" \in alive \/ main = "setup" \/ (main = "left" /\ ~complete)

\* The process waits for every thread.
AllAwaited == gone => alive = {} /\ main = "left"

LifecycleInv == TypeOK /\ Forgiven /\ Noted /\ Ordered /\ WritersRun /\ AllAwaited

\* The program starts with the invariant.
LEMMA InitLifecycle == Init => LifecycleInv
<1> SUFFICES ASSUME Init PROVE LifecycleInv
  OBVIOUS
<1> USE LifecycleAssumption DEF Init
<1>1. failures \in 0..MaxFailures /\ signals \in 0..MaxSignals
  OBVIOUS
<1>2. TypeOK
  <2>1. main \in Place
    BY DEF Place, Setup
  <2>2. ~(main \in {"waiting", "woken", "signalling"})
    OBVIOUS
  <2> QED
    BY <1>1, <2>1, <2>2, Zenon DEF TypeOK, Kind, Thread
<1>3. Forgiven
  BY DEF Forgiven
<1>4. Noted /\ Ordered /\ WritersRun /\ AllAwaited
  BY DEF Noted, Ordered, WritersRun, AllAwaited
<1> QED
  BY <1>2, <1>3, <1>4 DEF LifecycleInv

\* No step of any thread, and no signal, breaks it.
LEMMA StepLifecycle == LifecycleInv /\ [Next]_vars => LifecycleInv'
<1> SUFFICES ASSUME LifecycleInv, [Next]_vars PROVE LifecycleInv'
  OBVIOUS
<1> USE LifecycleAssumption
    DEF LifecycleInv, TypeOK, Forgiven, Noted, Ordered, WritersRun, AllAwaited, Kind,
        Thread,
        Place, Setup, Asking, Main, coordinator, engine
<1>1. CASE SetupFails
  BY <1>1 DEF SetupFails
<1>2. CASE BuildEngine
  BY <1>2 DEF BuildEngine
<1>3. CASE StartServers
  BY <1>3 DEF StartServers
<1>4. CASE StartEngine
  BY <1>4 DEF StartEngine
<1>5. CASE StartFails
  BY <1>5 DEF StartFails
<1>6. CASE Loop
  BY <1>6 DEF Loop
<1>7. CASE Wait
  BY <1>7 DEF Wait
<1>8. CASE Wake
  BY <1>8 DEF Wake
<1>9. CASE Return
  BY <1>9 DEF Return
<1>10. CASE Beat
  BY <1>10 DEF Beat
<1>11. CASE BeatFails
  BY <1>11 DEF BeatFails, TooMany
<1>12. CASE LookWhetherInProgress
  BY <1>12 DEF LookWhetherInProgress
<1>13. CASE NoteRequest
  BY <1>13 DEF NoteRequest
<1>14. CASE NoteInProgress
  BY <1>14 DEF NoteInProgress
<1>15. CASE LockEvent
  BY <1>15 DEF LockEvent
<1>16. CASE SetEvent
  BY <1>16 DEF SetEvent
<1>17. CASE ExecuteShutdown
  BY <1>17 DEF ExecuteShutdown
<1>18. CASE CleanupCallbacks
  BY <1>18 DEF CleanupCallbacks
<1>19. CASE StopEngine
  BY <1>19 DEF StopEngine
<1>20. CASE PersistState
  BY <1>20 DEF PersistState, WritersShutDown
<1>21. CASE ProcessEnds
  BY <1>21 DEF ProcessEnds, Awaited
<1>22. CASE Signal
  <2> USE <1>22 DEF Signal
  <2>1. TypeOK' /\ Noted'
    <3>1. CASE inProgress
      BY <3>1
    <3>2. CASE ~inProgress
      BY <3>2
    <3> QED
      BY <3>1, <3>2
  <2>2. Forgiven' /\ Ordered'
    OBVIOUS
  <2>3. WritersRun' /\ AllAwaited'
    OBVIOUS
  <2> QED
    BY <2>1, <2>2, <2>3 DEF LifecycleInv
<1>23. ASSUME NEW t \in Thread, End(t) PROVE LifecycleInv'
  <2> USE <1>23 DEF End
  <2>1. t # "writer" \/ writerStop
    BY DEF MayEnd
  <2>2. TypeOK'
    OBVIOUS
  <2>3. WritersRun'
    BY <2>1
  <2>4. Forgiven' /\ Noted' /\ Ordered' /\ AllAwaited'
    OBVIOUS
  <2> QED
    BY <2>2, <2>3, <2>4 DEF LifecycleInv
<1>24. CASE UNCHANGED vars
  <2> USE <1>24 DEF vars
  <2>1. TypeOK'
    OBVIOUS
  <2>2. Forgiven' /\ Noted' /\ Ordered'
    OBVIOUS
  <2>3. WritersRun' /\ AllAwaited'
    OBVIOUS
  <2> QED
    BY <2>1, <2>2, <2>3 DEF LifecycleInv
<1> QED
  BY <1>1, <1>2, <1>3, <1>4, <1>5, <1>6, <1>7, <1>8, <1>9, <1>10, <1>11, <1>12, <1>13,
      <1>14,
     <1>15, <1>16, <1>17, <1>18, <1>19, <1>20, <1>21, <1>22, <1>23, <1>24
  DEF Next, MainStep

\* The invariant says what is wanted of the end: the thread of the writers is
\* gone, the engine was built, so the writers were shut down.
LEMMA LifecycleSaves == LifecycleInv => EndedMeansSaved
BY DEF LifecycleInv, Ordered, WritersRun, AllAwaited, EndedMeansSaved

(***************************************************************************)
(* Theorems                                                                *)
(***************************************************************************)

\* The inductive invariant holds in every state of the program
\* (main.py, shutdown_coordinator.py).
THEOREM LifecycleInvariant == Spec => []LifecycleInv
<1>1. Init => LifecycleInv
  BY InitLifecycle
<1>2. LifecycleInv /\ [Next]_vars => LifecycleInv'
  BY StepLifecycle
<1> QED
  BY <1>1, <1>2, PTL DEF Spec

\* The main thread, the coordinator and the threads stay within their states; a
\* set event means a shutdown in progress, and the event's lock is held at three
\* points of the main thread only.
THEOREM LifecycleTypes == Spec => []TypeOK
<1>1. LifecycleInv => TypeOK
  BY DEF LifecycleInv
<1> QED
  BY <1>1, LifecycleInvariant, PTL

\* The process does not end, after a clean-up, before the state writers have saved
\* and the engine has stopped (shutdown_coordinator.py, execute_graceful_shutdown).
THEOREM EndsSaved == Spec => []EndedMeansSaved
<1>1. LifecycleInv => EndedMeansSaved
  BY LifecycleSaves
<1> QED
  BY <1>1, LifecycleInvariant, PTL

-----------------------------------------------------------------------------
(***************************************************************************)
(* The file of pending intents                                             *)
(***************************************************************************)

(***************************************************************************)
(* The inductive invariant.  A dump is right because at most one change    *)
(* falls into it (the trading thread has to wait for the lock to report    *)
(* it), and one change always changes the size.                            *)
(***************************************************************************)

\* A dump is of a dirty state, has seen only what is there while the size is as it
\* was, and the size changes only by the change that is still to be reported.
DumpSound ==
  ~Unlocked => /\ dirty
               /\ SameSize => dump.seen \subseteq live
               /\ trading # "changed" => SameSize

\* Neither the dictionary nor the file holds what is still to come, and the present
\* is part of the past.
Remembered == live \in past /\ file \in past /\ file \cap fresh = {}

WriterInv == WriterTypeOK /\ DumpSound /\ Remembered /\ CleanIsSaved

(***************************************************************************)
(* Lemmas                                                                  *)
(***************************************************************************)

\* The dictionary is finite, and no larger than the set of all intents.
LEMMA LiveFinite ==
  ASSUME NEW S, S \subseteq Intent
  PROVE  IsFiniteSet(S) /\ Cardinality(S) \in 0..Cardinality(Intent)
<1>1. IsFiniteSet(Intent)
  BY WriterAssumption
<1>2. IsFiniteSet(S) /\ Cardinality(S) <= Cardinality(Intent)
  BY <1>1, FS_Subset
<1>3. Cardinality(S) \in Nat /\ Cardinality(Intent) \in Nat
  BY <1>1, <1>2, FS_CardinalityType
<1> QED
  BY <1>2, <1>3

\* A change leaves the dictionary as it is or changes its size.
LEMMA ChangeResizes ==
  ASSUME WriterTypeOK, Change, live' # live
  PROVE  Cardinality(live') # Cardinality(live)
<1>1. IsFiniteSet(live) /\ Cardinality(live) \in Nat
  BY LiveFinite DEF WriterTypeOK
<1>2. CASE \E i \in fresh : live' = live \cup {i}
  <2>1. PICK i \in fresh : live' = live \cup {i}
    BY <1>2
  <2>2. i \notin live
    BY DEF WriterTypeOK
  <2>3. Cardinality(live') = Cardinality(live) + 1
    BY <1>1, <2>1, <2>2, FS_AddElement
  <2> QED
    BY <1>1, <2>3
<1>3. CASE \E i \in Intent : live' = live \ {i}
  <2>1. PICK i \in Intent : live' = live \ {i}
    BY <1>3
  <2>2. i \in live
    BY <2>1
  <2>3. Cardinality(live') = Cardinality(live) - 1
    BY <1>1, <2>1, <2>2, FS_RemoveElement
  <2> QED
    BY <1>1, <2>3
<1> QED
  BY <1>2, <1>3 DEF Change

\* A new dump has seen nothing and expects the present size.
LEMMA NewDump ==
  ASSUME WriterTypeOK, NEW purpose \in {"tick", "final", "shutdown"}, StartDump(purpose),
      live' = live
  PROVE  /\ dump' \in [for : {"nothing", "tick", "final", "shutdown"}, seen : SUBSET Intent,
                       size : 0..Cardinality(Intent)]
         /\ dump'.seen = {}
         /\ SameSize'
<1>1. Cardinality(live) \in 0..Cardinality(Intent)
  BY LiveFinite DEF WriterTypeOK
<1> QED
  BY <1>1 DEF StartDump, SameSize

\* A dump that has gone through has seen exactly the dictionary.
LEMMA DoneSawLive == WriterInv /\ DumpDone => dump.seen = live /\ file' = live
BY DEF WriterInv, DumpSound, DumpDone

\* A write that fails because of the size does so before a change is reported.
LEMMA FailsForAReason ==
  WriterInv /\ DumpFails => failed' \/ (trading = "changed" /\ failed' = failed)
BY DEF WriterInv, DumpSound, DumpFails

(***************************************************************************)
(* The invariant is inductive                                              *)
(***************************************************************************)

\* It holds when the process is started.
LEMMA InitWriter == WriterInit => WriterInv
<1> SUFFICES ASSUME WriterInit PROVE WriterInv
  OBVIOUS
<1>1. 0 \in 0..Cardinality(Intent)
  BY LiveFinite
<1>2. WriterTypeOK
  BY <1>1 DEF WriterInit, WriterTypeOK, NoDump
<1> QED
  BY <1>2 DEF WriterInit, WriterInv, DumpSound, Remembered, CleanIsSaved, Unlocked

\* The trading thread.
LEMMA TradingStep ==
  ASSUME WriterInv, Change \/ Update \/ TradingEnds
  PROVE  WriterInv'
<1>1. CASE Change
  <2> USE <1>1 DEF Change
  <2>1. WriterTypeOK'
    BY DEF WriterInv, WriterTypeOK
  <2>2. DumpSound'
    <3>1. CASE live' = live
      BY <3>1 DEF WriterInv, DumpSound, SameSize, Unlocked
    <3>2. CASE live' # live
      <4>1. Cardinality(live') # Cardinality(live)
        BY <3>2, ChangeResizes DEF WriterInv
      <4>2. ~Unlocked => ~SameSize'
        BY <4>1 DEF WriterInv, DumpSound, SameSize
      <4> QED
        BY <4>2 DEF WriterInv, DumpSound, Unlocked
    <3> QED
      BY <3>1, <3>2
  <2>3. Remembered'
    BY DEF WriterInv, Remembered
  <2>4. CleanIsSaved'
    BY DEF CleanIsSaved
  <2> QED
    BY <2>1, <2>2, <2>3, <2>4 DEF WriterInv
<1>2. CASE Update
  BY <1>2 DEF Update, WriterInv, WriterTypeOK, DumpSound, Remembered, CleanIsSaved,
      history, Unlocked
<1>3. CASE TradingEnds
  BY <1>3 DEF TradingEnds, WriterInv, WriterTypeOK, DumpSound, Remembered, CleanIsSaved,
      history,
     SameSize, Unlocked
<1> QED
  BY <1>1, <1>2, <1>3

\* The beginnings of a write.
LEMMA StartStep ==
  ASSUME WriterInv, Tick \/ LeaveLoop \/ JoinWriter
  PROVE  WriterInv'
<1> USE DEF dictionary
<1>1. UNCHANGED <<live, fresh, trading, past, dirty, updated, file, failed>>
  BY DEF Tick, LeaveLoop, JoinWriter
<1>2. CASE \E purpose \in {"tick", "final", "shutdown"} : StartDump(purpose) /\ dirty
  <2>1. PICK purpose \in {"tick", "final", "shutdown"} : StartDump(purpose) /\ dirty
    BY <1>2
  <2>2. /\ dump' \in [for : {"nothing", "tick", "final", "shutdown"},
                      seen : SUBSET Intent, size : 0..Cardinality(Intent)]
        /\ dump'.seen = {}
        /\ SameSize'
    BY <1>1, <2>1, NewDump DEF WriterInv
  <2>3. WriterTypeOK'
    BY <1>1, <2>2 DEF WriterInv, WriterTypeOK, Tick, LeaveLoop, JoinWriter
  <2>4. DumpSound'
    BY <1>1, <2>1, <2>2 DEF DumpSound
  <2>5. Remembered' /\ CleanIsSaved'
    BY <1>1, <2>1 DEF WriterInv, Remembered, CleanIsSaved
  <2> QED
    BY <2>3, <2>4, <2>5 DEF WriterInv
<1>3. CASE UNCHANGED dump
  <2>1. WriterTypeOK'
    BY <1>1, <1>3 DEF WriterInv, WriterTypeOK, Tick, LeaveLoop, JoinWriter
  <2>2. DumpSound' /\ Remembered' /\ CleanIsSaved'
    BY <1>1, <1>3 DEF WriterInv, DumpSound, Remembered, CleanIsSaved, SameSize, Unlocked
  <2> QED
    BY <2>1, <2>2 DEF WriterInv
<1> QED
  BY <1>2, <1>3 DEF Tick, LeaveLoop, JoinWriter

\* A write goes on, and ends.
LEMMA DumpStep ==
  ASSUME WriterInv, Dump
  PROVE  WriterInv'
<1> USE DEF dictionary
<1>1. CASE DumpKey
  <2>1. PICK i \in live \ dump.seen : dump' = [dump EXCEPT !.seen = @ \cup {i}]
    BY <1>1 DEF DumpKey
  <2>2. UNCHANGED <<live, fresh, trading, past, dirty, updated, writer, stop, file,
      failed, overran>>
    BY <1>1 DEF DumpKey
  <2>3. dump' \in [for : {"nothing", "tick", "final", "shutdown"},
                   seen : SUBSET Intent, size : 0..Cardinality(Intent)]
    BY <2>1 DEF WriterInv, WriterTypeOK
  <2>4. dump'.seen = dump.seen \cup {i} /\ dump'.size = dump.size
    BY <2>1 DEF WriterInv, WriterTypeOK
  <2>5. WriterTypeOK'
    BY <2>2, <2>3 DEF WriterInv, WriterTypeOK
  <2>6. ~Unlocked /\ dirty
    BY <1>1 DEF DumpKey, WriterInv, DumpSound
  <2>7. DumpSound'
    BY <2>1, <2>2, <2>4, <2>6 DEF WriterInv, DumpSound, SameSize
  <2>8. Remembered' /\ CleanIsSaved'
    BY <2>2, <2>6 DEF WriterInv, Remembered, CleanIsSaved
  <2> QED
    BY <2>5, <2>7, <2>8 DEF WriterInv
<1>2. CASE DumpDone \/ DumpFails
  <2>1. /\ dump' = NoDump
        /\ dirty' \in BOOLEAN
        /\ writer' \in {"waiting", "writing", "ended"}
        /\ stop' \in {stop, "done"}
        /\ UNCHANGED <<live, fresh, trading, past, updated, overran>>
    BY <1>2 DEF DumpDone, DumpFails, Written, WriterInv, WriterTypeOK
  <2>2. file' = live \/ (file' = file /\ (failed' \/ (trading = "changed" /\ failed' = failed)))
    BY <1>2, DoneSawLive, FailsForAReason DEF DumpFails
  <2>3. failed' \in BOOLEAN
    BY <1>2 DEF DumpDone, DumpFails, WriterInv, WriterTypeOK
  <2>4. 0 \in 0..Cardinality(Intent)
    BY LiveFinite
  <2>5. WriterTypeOK'
    BY <2>1, <2>2, <2>3, <2>4 DEF WriterInv, WriterTypeOK, NoDump
  <2>6. DumpSound'
    BY <2>1 DEF DumpSound, Unlocked, NoDump
  <2>7. Remembered'
    BY <2>1, <2>2 DEF WriterInv, WriterTypeOK, Remembered
  <2>8. CleanIsSaved'
    BY <2>1, <2>2 DEF CleanIsSaved
  <2> QED
    BY <2>5, <2>6, <2>7, <2>8 DEF WriterInv
<1> QED
  BY <1>1, <1>2 DEF Dump

\* The engine's stop, as far as it writes nothing.
LEMMA StopStep ==
  ASSUME WriterInv, BeginStop \/ JoinTrading \/ StopPersists
  PROVE  WriterInv'
<1> USE DEF dictionary
<1>1. /\ UNCHANGED <<live, fresh, trading, past, writer, dump, file, failed>>
      /\ \/ UNCHANGED <<dirty, updated>>
         \/ dirty' = TRUE /\ updated' = TRUE
      /\ stop' \in {"joining", "persist", "shutdown"}
      /\ overran' \in BOOLEAN
  BY DEF BeginStop, JoinTrading, StopPersists, WriterInv, WriterTypeOK
<1>2. WriterTypeOK'
  BY <1>1 DEF WriterInv, WriterTypeOK
<1>3. DumpSound' /\ Remembered' /\ CleanIsSaved'
  BY <1>1 DEF WriterInv, DumpSound, Remembered, CleanIsSaved, SameSize, Unlocked
<1> QED
  BY <1>2, <1>3 DEF WriterInv

\* A new process.
LEMMA RestartStep ==
  ASSUME WriterInv, Restart
  PROVE  WriterInv'
<1>1. 0 \in 0..Cardinality(Intent)
  BY LiveFinite
<1>2. WriterTypeOK'
  BY <1>1 DEF Restart, WriterTypeOK, NoDump
<1>3. DumpSound' /\ Remembered' /\ CleanIsSaved'
  BY DEF Restart, DumpSound, Remembered, CleanIsSaved, Unlocked
<1> QED
  BY <1>2, <1>3 DEF WriterInv

\* Every step keeps it.
LEMMA StepWriter == WriterInv /\ [WriterNext]_writerVars => WriterInv'
<1> SUFFICES ASSUME WriterInv, [WriterNext]_writerVars PROVE WriterInv'
  OBVIOUS
<1>1. CASE UNCHANGED writerVars
  BY <1>1 DEF writerVars, history, WriterInv, WriterTypeOK, DumpSound, Remembered,
      CleanIsSaved, SameSize,
     Unlocked
<1> QED
  BY <1>1, TradingStep, StartStep, DumpStep, StopStep, RestartStep DEF WriterNext

(***************************************************************************)
(* Theorems                                                                *)
(***************************************************************************)

\* The inductive invariant holds in every state (core/state_writer.py).
THEOREM WriterInvariant == WriterSpec => []WriterInv
BY InitWriter, StepWriter, PTL DEF WriterSpec

\* The dictionary, the writer and the file stay within their types; no intent
\* comes twice in a process.
THEOREM WriterTypes == WriterSpec => []WriterTypeOK
<1>1. WriterInv => WriterTypeOK
  BY DEF WriterInv
<1> QED
  BY <1>1, WriterInvariant, PTL

\* The file always holds intents that were pending at one moment, and it is up to
\* date whenever nothing is dirty, though the dictionary changes while it is dumped
\* (_write_state, update, _writer_loop).
THEOREM WriterFollows == WriterSpec => []FileFollows
<1>1. WriterInv => FileFollows
  BY DEF WriterInv, Remembered, FileFollows, FileWasLive
<1> QED
  BY <1>1, WriterInvariant, PTL

=============================================================================
