--------------------------- MODULE LegacyExitProofs ---------------------------
(***************************************************************************)
(* What is proved about the older exit path: for any prices, amounts and   *)
(* bounds, and every subset of the faults, at most one undoubted           *)
(* protective order of a position rests, a registered intent ends with its *)
(* sale, a position is forgotten only for an order that sold it, and the   *)
(* held asset covers what is booked.                                       *)
(***************************************************************************)
EXTENDS LegacyExit, TLAPS

(***************************************************************************)
(* The inductive invariant                                                 *)
(***************************************************************************)

\* The thread has taken a job and not yet ended it.
Busy(t) == pc[t] \in {"begin", "ioc", "fallback"}

\* Where the threads are and what they hold: a job that is worked on is of a
\* position that was opened, and the batch of results has room for its result.
Control ==
  /\ pc.engine \in {"restore", "evaluate"} \/ positions # NoAmount => gen > 0
  /\ pc.engine \in {"pop", "book"} => results # <<>>
  /\ Busy("engine") => Len(results) < MaxPerCycle
  /\ \A t \in Thread : Busy(t) => job[t].gen > 0

\* An open order has not sold more than it offers.
Fits(os) == \A i \in DOMAIN os : os[i].open => os[i].filled <= os[i].qty

\* At most one thread sells, and the registry says whether one does.
Exclusive ==
  /\ IntentEndsWithSale
  /\ ~(Selling("engine") /\ Selling("caller"))

\* Nothing is of a position not opened yet, and all that is of the position of the
\* day has its quantity.
OfSize(g, a) == g <= gen /\ (g = gen => a = qty)
OrdersOfSize == \A i \in DOMAIN orders : OfSize(orders[i].gen, orders[i].qty)
QueueOfSize  == \A k \in DOMAIN queue : OfSize(queue[k].gen, queue[k].amount)
JobOfSize(t) == Busy(t) => OfSize(job[t].gen, job[t].amount)
Sized ==
  /\ positions \in {NoAmount, qty}
  /\ OrdersOfSize /\ QueueOfSize
  /\ \A t \in Thread : JobOfSize(t)

\* A result that is waiting to be booked as a success names an order that sold all.
Waiting ==
  \A k \in DOMAIN results :
    results[k].ok => /\ results[k].order \in DOMAIN orders
                     /\ orders[results[k].order].filled = orders[results[k].order].qty

\* OneProtection made inductive: the bot still remembers every order that rests for the
\* position of the day, but for those in doubt; and it never remembers a price
\* without an order, so that nothing is ever missing and restored beside it.
Remembered ==
  /\ OneProtection
  /\ ~Missing(meta) /\ ~Missing(data)
  /\ \A i \in DOMAIN orders :
       orders[i].open /\ orders[i].gen = gen => orders[i].doubt \/ i \in {meta.tp, meta.sl}

LegacyInv ==
  TypeOK /\ Control /\ Fits(orders) /\ Exclusive /\ Sized /\ Waiting /\ Remembered

(***************************************************************************)
(* Lemmas on the exchange                                                  *)
(***************************************************************************)

\* The exchange as the placing operators pass it on.
Exchange ==
  {x \in [orders : Seq(Order), free : Nat, id : 0..MaxOrders] :
     Len(x.orders) <= MaxOrders /\ Fits(x.orders)}

\* y is x after orders of kind, q and g: all that rests undoubted of them is the one
\* whose id came back.
Grown(x, y, kind, q, g) ==
  /\ Len(x.orders) <= Len(y.orders)
  /\ \A i \in DOMAIN x.orders : y.orders[i] = x.orders[i]
  /\ \A i \in DOMAIN y.orders : i \notin DOMAIN x.orders =>
       /\ y.orders[i].gen = g /\ y.orders[i].qty = q
       /\ y.orders[i].open => kind \in {"TP", "SL"} /\ (y.orders[i].doubt \/ i = y.id)
  /\ y.id # NoOrder => y.id = Len(y.orders) /\ y.id \in DOMAIN y.orders \ DOMAIN x.orders

\* cs is os after a cancel: orders only close or fall into doubt.
Eased(os, cs) ==
  /\ DOMAIN cs = DOMAIN os
  /\ \A i \in DOMAIN os :
       /\ cs[i].gen = os[i].gen /\ cs[i].qty = os[i].qty /\ cs[i].filled = os[i].filled
       /\ cs[i].open => os[i].open
       /\ os[i].doubt => cs[i].doubt

\* An exchange record is its three fields.
LEMMA ExchangeFields ==
  ASSUME NEW x \in Exchange
  PROVE  /\ x.orders \in Seq(Order) /\ Len(x.orders) <= MaxOrders /\ Fits(x.orders)
         /\ x.free \in Nat /\ x.id \in 0..MaxOrders
         /\ x = [orders |-> x.orders, free |-> x.free, id |-> x.id]
BY DEF Exchange

\* Orders that fit, free base and an id make an exchange.
LEMMA ExchangeMade ==
  ASSUME NEW os \in Seq(Order), Len(os) <= MaxOrders, Fits(os), NEW n \in Nat,
         NEW k \in 0..MaxOrders
  PROVE  [orders |-> os, free |-> n, id |-> k] \in Exchange
<1> DEFINE x == [orders |-> os, free |-> n, id |-> k]
<1>1. x \in [orders : Seq(Order), free : Nat, id : 0..MaxOrders] /\ x.orders = os
  OBVIOUS
<1> HIDE DEF x
<1>2. x \in Exchange
  BY <1>1 DEF Exchange
<1>3. QED
  BY <1>2 DEF x

\* What closing an order, and losing sight of it, changes of it.
LEMMA OrderUpdates ==
  ASSUME NEW o \in Order,
         NEW new \in {[o EXCEPT !.open = FALSE], [o EXCEPT !.doubt = TRUE]}
  PROVE  /\ new \in Order /\ new.gen = o.gen /\ new.qty = o.qty /\ new.filled = o.filled
         /\ new.open => o.open /\ new.doubt
         /\ o.doubt => new.doubt
BY DEF Order

\* What an order consists of.
LEMMA OrderFields ==
  ASSUME NEW o \in Order
  PROVE  /\ o.kind \in OrderKind /\ o.gen \in 1..MaxGen /\ o.qty \in Nat /\ o.qty > 0
         /\ o.filled \in Nat /\ o.open \in BOOLEAN /\ o.doubt \in BOOLEAN
BY DEF Order

\* An order sells at once no more than it is for.
LEMMA FilledAtOnceType ==
  ASSUME NEW kind \in OrderKind, NEW q \in Nat
  PROVE  FilledAtOnce(kind, q) \subseteq 0..q
BY DEF FilledAtOnce, OrderKind, ExitKind, Thread

\* The exchange takes at most one order more.
LEMMA AcceptEffect ==
  ASSUME TypeOK, NEW x \in Exchange, NEW kind \in OrderKind, NEW q \in Nat,
         NEW g \in 1..MaxGen, NEW y \in Accept(x, kind, q, g)
  PROVE  /\ y \in Exchange /\ y.id = Len(y.orders) /\ Len(y.orders) = Len(x.orders) + 1
         /\ \E new \in Order :
              /\ y.orders = Append(x.orders, new)
              /\ new.gen = g /\ new.qty = q /\ ~new.doubt
              /\ new.open => kind \in {"TP", "SL"}
<1>1. q # 0 /\ q <= x.free /\ Len(x.orders) # MaxOrders
  <2>1. x.free \in Nat
    BY DEF Exchange
  <2>2. ~(q = 0 \/ q > x.free \/ Len(x.orders) = MaxOrders)
    BY DEF Accept
  <2>3. QED
    BY <2>1, <2>2
<1>2. PICK f \in FilledAtOnce(kind, q) :
        LET rests == kind \in {"TP", "SL"} /\ f < q
        IN  y = [orders |-> Append(x.orders,
                              [kind |-> kind, gen |-> g, qty |-> q, filled |-> f,
                               open |-> rests, second |-> clock, doubt |-> FALSE]),
                 free |-> IF rests THEN x.free - q ELSE x.free - f,
                 id   |-> Len(x.orders) + 1]
  BY DEF Accept
<1> DEFINE rests == kind \in {"TP", "SL"} /\ f < q
           new == [kind |-> kind, gen |-> g, qty |-> q, filled |-> f, open |-> rests,
                   second |-> clock, doubt |-> FALSE]
<1>3. f \in Nat /\ f <= q
  BY FilledAtOnceType
<1>4. /\ x.orders \in Seq(Order) /\ x.free \in Nat /\ MaxOrders \in Nat
      /\ Len(x.orders) \in Nat /\ Len(x.orders) <= MaxOrders /\ Fits(x.orders)
  BY LegacyAssumption DEF Exchange
<1>5. new \in Order /\ (new.open => new.filled <= new.qty)
  BY <1>1, <1>3 DEF Order, TypeOK
<1>6. /\ y.orders = Append(x.orders, new) /\ y.id = Len(x.orders) + 1
      /\ y.free = IF rests THEN x.free - q ELSE x.free - f
      /\ y = [orders |-> y.orders, free |-> y.free, id |-> y.id]
  BY <1>2
<1>7. /\ new.gen = g /\ new.qty = q /\ ~new.doubt
      /\ new.open => kind \in {"TP", "SL"}
  OBVIOUS
<1> HIDE DEF new
<1>8. y.orders \in Seq(Order) /\ Len(y.orders) = Len(x.orders) + 1
  BY <1>4, <1>5, <1>6
<1>9. Fits(y.orders)
  BY <1>4, <1>5, <1>6 DEF Fits
<1>10. y.free \in Nat /\ y.id \in 0..MaxOrders
  BY <1>1, <1>3, <1>4, <1>6
<1>11. y \in Exchange
  <2>1. Len(y.orders) <= MaxOrders
    BY <1>1, <1>4, <1>8
  <2>2. [orders |-> y.orders, free |-> y.free, id |-> y.id] \in Exchange
    BY <2>1, <1>8, <1>9, <1>10, ExchangeMade
  <2>3. QED
    BY <2>2, <1>6
<1>12. QED
  BY <1>5, <1>6, <1>7, <1>8, <1>11

\* An order sent grows the exchange by it or by nothing.
LEMMA AcceptGrown ==
  ASSUME TypeOK, NEW x \in Exchange, NEW kind \in OrderKind, NEW q \in Nat,
         NEW g \in 1..MaxGen, NEW y \in Accept(x, kind, q, g)
  PROVE  y \in Exchange /\ Grown(x, y, kind, q, g)
<1>1. PICK new \in Order :
        /\ y.orders = Append(x.orders, new)
        /\ new.gen = g /\ new.qty = q /\ ~new.doubt
        /\ new.open => kind \in {"TP", "SL"}
  BY AcceptEffect
<1>2. /\ y \in Exchange /\ y.id = Len(y.orders) /\ Len(y.orders) = Len(x.orders) + 1
      /\ x.orders \in Seq(Order) /\ y.orders \in Seq(Order)
  BY AcceptEffect DEF Exchange
<1>3. /\ DOMAIN y.orders = DOMAIN x.orders \cup {Len(x.orders) + 1}
      /\ Len(x.orders) + 1 \notin DOMAIN x.orders
      /\ y.orders[Len(x.orders) + 1] = new
      /\ \A i \in DOMAIN x.orders : y.orders[i] = x.orders[i]
      /\ Len(x.orders) \in Nat
  BY <1>1, <1>2
<1>4. QED
  BY <1>1, <1>2, <1>3 DEF Grown

\* An order whose answer is lost is in doubt, and nothing else changes.
LEMMA UnansweredGrown ==
  ASSUME TypeOK, NEW x \in Exchange, NEW kind \in OrderKind, NEW q \in Nat,
         NEW g \in 1..MaxGen, NEW y \in Accept(x, kind, q, g)
  PROVE  LET z == Unanswered(y)
         IN  /\ z \in Exchange /\ z.id = NoOrder /\ Grown(x, z, kind, q, g)
             /\ \A i \in DOMAIN z.orders : i \notin DOMAIN x.orders => z.orders[i].doubt
<1> DEFINE z == Unanswered(y)
           n == Len(y.orders)
<1>1. PICK new \in Order :
        /\ y.orders = Append(x.orders, new)
        /\ new.gen = g /\ new.qty = q /\ ~new.doubt
        /\ new.open => kind \in {"TP", "SL"}
  BY AcceptEffect
<1>2. /\ y \in Exchange /\ y.id = Len(y.orders) /\ Len(y.orders) = Len(x.orders) + 1
      /\ x.orders \in Seq(Order) /\ y.orders \in Seq(Order) /\ y.free \in Nat
      /\ y.orders # <<>> /\ MaxOrders \in Nat /\ Len(y.orders) <= MaxOrders
      /\ Fits(y.orders)
  BY AcceptEffect, LegacyAssumption DEF Exchange
<1>3. /\ DOMAIN y.orders = DOMAIN x.orders \cup {n}
      /\ n \notin DOMAIN x.orders
      /\ y.orders[n] = new
      /\ \A i \in DOMAIN x.orders : y.orders[i] = x.orders[i]
      /\ Len(x.orders) \in Nat /\ n \in Nat /\ n # 0
  BY <1>1, <1>2
<1> DEFINE old == [new EXCEPT !.doubt = TRUE]
<1>4. /\ old \in Order /\ old.doubt /\ old.gen = g /\ old.qty = q
      /\ old.open = new.open /\ old.filled = new.filled
  BY <1>1 DEF Order
<1>5. /\ z.orders = [y.orders EXCEPT ![n] = old] /\ z.free = y.free /\ z.id = NoOrder
      /\ z = [orders |-> z.orders, free |-> z.free, id |-> z.id]
  <2>1. y = [orders |-> y.orders, free |-> y.free, id |-> y.id]
    BY <1>2, ExchangeFields
  <2>2. z = [y EXCEPT !.orders = [y.orders EXCEPT ![n] = old], !.id = NoOrder]
    BY <1>3 DEF Unanswered
  <2>3. z = [orders |-> [y.orders EXCEPT ![n] = old], free |-> y.free, id |-> NoOrder]
    BY <2>1, <2>2
  <2> HIDE DEF z, old, n
  <2>4. QED
    BY <2>3
<1> HIDE DEF old, z, n
<1>6. z.orders \in Seq(Order) /\ Len(z.orders) = n /\ DOMAIN z.orders = DOMAIN y.orders
  BY <1>2, <1>3, <1>4, <1>5 DEF n
<1>7. /\ z.orders[n] = old /\ \A i \in DOMAIN x.orders : z.orders[i] = x.orders[i]
  BY <1>3, <1>5, <1>6
<1>8. Fits(z.orders)
  <2> SUFFICES ASSUME NEW i \in DOMAIN z.orders, z.orders[i].open
               PROVE  z.orders[i].filled <= z.orders[i].qty
    BY DEF Fits
  <2>1. CASE i \in DOMAIN x.orders
    BY <2>1, <1>2, <1>3, <1>6, <1>7 DEF Fits
  <2>2. CASE i = n
    <3>1. y.orders[n].open => y.orders[n].filled <= y.orders[n].qty
      BY <1>2, <1>3 DEF Fits
    <3>2. QED
      BY <2>2, <3>1, <1>1, <1>3, <1>4, <1>7
  <2>3. QED
    BY <2>1, <2>2, <1>3, <1>6
<1>9. z \in Exchange
  <2>1. Len(z.orders) <= MaxOrders /\ NoOrder \in 0..MaxOrders
    BY <1>2, <1>6 DEF n, NoOrder
  <2>2. [orders |-> z.orders, free |-> z.free, id |-> z.id] \in Exchange
    BY <2>1, <1>2, <1>5, <1>6, <1>8, ExchangeMade
  <2>3. QED
    BY <2>2, <1>5
<1>10. Grown(x, z, kind, q, g)
  BY <1>1, <1>2, <1>3, <1>4, <1>5, <1>6, <1>7 DEF Grown, n
<1>11. \A i \in DOMAIN z.orders : i \notin DOMAIN x.orders => z.orders[i].doubt
  BY <1>3, <1>4, <1>6, <1>7
<1>12. QED
  BY <1>5, <1>9, <1>10, <1>11 DEF z

\* Whatever becomes of a placement, the exchange has grown.
LEMMA PlaceGrown ==
  ASSUME TypeOK, NEW x \in Exchange, x.id = NoOrder, NEW kind \in OrderKind,
      NEW q \in Nat,
         NEW g \in 1..MaxGen, NEW y \in Place(x, kind, q, g)
  PROVE  y \in Exchange /\ Grown(x, y, kind, q, g)
<1>1. \/ y \in Accept(x, kind, q, g)
      \/ y = x
      \/ \E a \in Accept(x, kind, q, g) : y = Unanswered(a)
      \/ \E a \in Accept(x, kind, q, g) : y \in Accept(Unanswered(a), kind, q, g)
  BY DEF Place
<1>2. CASE y \in Accept(x, kind, q, g)
  BY <1>2, AcceptGrown
<1>3. CASE y = x
  BY <1>3 DEF Grown, Exchange
<1>4. CASE \E a \in Accept(x, kind, q, g) : y = Unanswered(a)
  BY <1>4, UnansweredGrown
<1>5. ASSUME NEW a \in Accept(x, kind, q, g), y \in Accept(Unanswered(a), kind, q, g)
      PROVE  y \in Exchange /\ Grown(x, y, kind, q, g)
  <2> DEFINE z == Unanswered(a)
  <2>1. /\ z \in Exchange /\ z.id = NoOrder /\ Grown(x, z, kind, q, g)
        /\ \A i \in DOMAIN z.orders : i \notin DOMAIN x.orders => z.orders[i].doubt
    BY UnansweredGrown
  <2> HIDE DEF z
  <2>2. y \in Exchange /\ Grown(z, y, kind, q, g)
    BY <1>5, <2>1, AcceptGrown DEF z
  <2>3. /\ x.orders \in Seq(Order) /\ z.orders \in Seq(Order) /\ y.orders \in Seq(Order)
    BY <2>1, <2>2 DEF Exchange
  <2>4. DOMAIN x.orders \subseteq DOMAIN z.orders /\ DOMAIN z.orders \subseteq DOMAIN y.orders
    BY <2>1, <2>2, <2>3 DEF Grown
  <2>5. QED
    BY <2>1, <2>2, <2>3, <2>4 DEF Grown
<1>6. QED
  BY <1>1, <1>2, <1>3, <1>4, <1>5

\* A cancel closes the order, puts it in doubt, or finds it closed.
LEMMA CancelEased ==
  ASSUME NEW x \in Exchange, NEW id, NEW c \in Cancel(x, id)
  PROVE  /\ c \in Exchange /\ c.id = x.id /\ Eased(x.orders, c.orders)
         /\ id \in DOMAIN c.orders /\ c.orders[id].open => c.orders[id].doubt
<1>1. x.orders \in Seq(Order) /\ x.free \in Nat /\ Fits(x.orders)
  BY DEF Exchange
<1>2. CASE c = x /\ id \notin {i \in DOMAIN x.orders : x.orders[i].open}
  BY <1>2 DEF Eased
<1>3. CASE id \in DOMAIN x.orders /\ x.orders[id].open /\ c # x
  <2> DEFINE o == x.orders[id]
  <2>1. o \in Order
    BY <1>1, <1>3
  <2>2. o.filled <= o.qty /\ o.filled \in Nat /\ o.qty \in Nat
    BY <1>1, <1>3, <2>1, OrderFields DEF Fits
  <2>3. PICK new \in {[o EXCEPT !.open = FALSE], [o EXCEPT !.doubt = TRUE]} :
          \E n \in Nat : c = [orders |-> [x.orders EXCEPT ![id] = new], free |-> n, id |-> x.id]
    <3>1. CASE c = [x EXCEPT !.orders[id].open = FALSE,
                    !.free = @ + x.orders[id].qty - x.orders[id].filled]
      <4>1. c = [orders |-> [x.orders EXCEPT ![id] = [o EXCEPT !.open = FALSE]],
                 free |-> x.free + o.qty - o.filled, id |-> x.id]
        <5>1. c = [x EXCEPT !.orders = [x.orders EXCEPT ![id] = [o EXCEPT !.open = FALSE]],
                            !.free = x.free + o.qty - o.filled]
          BY <3>1
        <5>2. x = [orders |-> x.orders, free |-> x.free, id |-> x.id]
          BY ExchangeFields
        <5>3. QED
          BY <5>1, <5>2
      <4>2. x.free + o.qty - o.filled \in Nat
        BY <1>1, <2>2
      <4>3. QED
        BY <4>1, <4>2
    <3>2. CASE c = [x EXCEPT !.orders[id].doubt = TRUE]
      <4>1. c = [orders |-> [x.orders EXCEPT ![id] = [o EXCEPT !.doubt = TRUE]],
                 free |-> x.free, id |-> x.id]
        <5>1. c = [x EXCEPT !.orders = [x.orders EXCEPT ![id] = [o EXCEPT !.doubt = TRUE]]]
          BY <3>2
        <5>2. x = [orders |-> x.orders, free |-> x.free, id |-> x.id]
          BY ExchangeFields
        <5>3. QED
          BY <5>1, <5>2
      <4>2. QED
        BY <1>1, <4>1
    <3>3. QED
      BY <1>3, <3>1, <3>2 DEF Cancel
  <2>4. PICK n \in Nat : c = [orders |-> [x.orders EXCEPT ![id] = new], free |-> n, id |-> x.id]
    BY <2>3
  <2>5. /\ new \in Order /\ new.gen = o.gen /\ new.qty = o.qty /\ new.filled = o.filled
        /\ new.open => o.open /\ new.doubt
        /\ o.doubt => new.doubt
    BY <2>1, <2>3, OrderUpdates
  <2> HIDE DEF o
  <2>6. /\ c.orders = [x.orders EXCEPT ![id] = new] /\ c.free = n /\ c.id = x.id
        /\ c = [orders |-> c.orders, free |-> c.free, id |-> c.id]
    BY <2>4
  <2>7. /\ c.orders \in Seq(Order) /\ Len(c.orders) = Len(x.orders)
        /\ DOMAIN c.orders = DOMAIN x.orders
        /\ c.orders[id] = new /\ \A i \in DOMAIN x.orders : i # id => c.orders[i] = x.orders[i]
    BY <1>1, <1>3, <2>5, <2>6
  <2>8. Eased(x.orders, c.orders)
    BY <2>5, <2>7 DEF Eased, o
  <2>9. Fits(c.orders)
    BY <1>1, <2>8 DEF Eased, Fits
  <2>10. c \in Exchange
    <3>1. [orders |-> c.orders, free |-> c.free, id |-> c.id] \in Exchange
      BY <1>1, <2>6, <2>7, <2>9, ExchangeMade, ExchangeFields
    <3>2. QED
      BY <3>1, <2>6
  <2>11. QED
    BY <2>5, <2>6, <2>7, <2>8, <2>10
<1>4. CASE c = x /\ id \in DOMAIN x.orders /\ x.orders[id].open
  <2>1. x.orders[id] \in Order
    BY <1>1, <1>4
  <2>2. x.orders[id].doubt
    <3>1. CASE c = [x EXCEPT !.orders[id].open = FALSE,
                    !.free = @ + x.orders[id].qty - x.orders[id].filled]
      <4>1. c.orders[id].open = FALSE
        BY <1>1, <1>4, <2>1, <3>1 DEF Exchange, Order
      <4>2. QED
        BY <1>4, <4>1
    <3>2. CASE c = [x EXCEPT !.orders[id].doubt = TRUE]
      <4>1. c.orders[id].doubt = TRUE
        BY <1>1, <1>4, <2>1, <3>2 DEF Exchange, Order
      <4>2. QED
        BY <1>4, <4>1
    <3>3. QED
      BY <1>4, <3>1, <3>2 DEF Cancel
  <2>3. QED
    BY <1>4, <2>2 DEF Eased
<1>5. QED
  BY <1>2, <1>3, <1>4 DEF Cancel

(***************************************************************************)
(* Lemmas on the steps                                                     *)
(***************************************************************************)

\* ns is os, with more orders: of those there already, none is sold further, none opens
\* again and no doubt about one is settled.
Kept(os, ns) ==
  /\ DOMAIN os \subseteq DOMAIN ns
  /\ \A i \in DOMAIN os :
       /\ ns[i].gen = os[i].gen /\ ns[i].qty = os[i].qty /\ ns[i].filled = os[i].filled
       /\ ns[i].open => os[i].open
       /\ os[i].doubt => ns[i].doubt

\* What y has and os has not is of position g and size q, and only the order whose id
\* came back rests undoubted.
Fresh(os, y, g, q) ==
  /\ \A i \in DOMAIN y.orders \ DOMAIN os :
       /\ y.orders[i].gen = g /\ y.orders[i].qty = q
       /\ y.orders[i].open => y.orders[i].doubt \/ i = y.id
  /\ y.id # NoOrder => y.id \in DOMAIN y.orders \ DOMAIN os

\* The order with this id does not rest undoubted.
Settled(os, id) == id \in DOMAIN os /\ os[id].open => os[id].doubt

\* The exchange as it is, whatever is free, may be passed on.
LEMMA NowExchange ==
  ASSUME TypeOK, Fits(orders), NEW n \in Nat
  PROVE  /\ [Now EXCEPT !.free = n] \in Exchange /\ [Now EXCEPT !.free = n].id = NoOrder
         /\ [Now EXCEPT !.free = n].orders = orders
         /\ Now \in Exchange /\ Now.id = NoOrder /\ Now.orders = orders /\ Now.free \in Nat
<1>1. /\ orders \in Seq(Order) /\ Len(orders) <= MaxOrders /\ free \in Nat
      /\ NoOrder \in 0..MaxOrders
  BY LegacyAssumption DEF TypeOK, NoOrder
<1>2. /\ [orders |-> orders, free |-> n, id |-> NoOrder] \in Exchange
      /\ [orders |-> orders, free |-> free, id |-> NoOrder] \in Exchange
  BY <1>1, ExchangeMade
<1>3. [Now EXCEPT !.free = n] = [orders |-> orders, free |-> n, id |-> NoOrder]
  BY DEF Now
<1>4. QED
  BY <1>1, <1>2, <1>3 DEF Now

\* An order that is placed keeps the others, and is the only one that is new.
LEMMA Placed ==
  ASSUME TypeOK, NEW x \in Exchange, x.id = NoOrder, NEW kind \in OrderKind,
      NEW q \in Nat,
         NEW g \in 1..MaxGen, NEW y \in Place(x, kind, q, g)
  PROVE  y \in Exchange /\ Kept(x.orders, y.orders) /\ Fresh(x.orders, y, g, q)
<1>1. y \in Exchange /\ Grown(x, y, kind, q, g)
  BY PlaceGrown
<1>2. x.orders \in Seq(Order) /\ y.orders \in Seq(Order)
  BY <1>1 DEF Exchange
<1>3. DOMAIN x.orders \subseteq DOMAIN y.orders
  BY <1>1, <1>2 DEF Grown
<1>4. QED
  BY <1>1, <1>3 DEF Grown, Kept, Fresh

\* Replacing a protective order settles the old one first.
LEMMA ProtectionPlaced ==
  ASSUME TypeOK, NEW x \in Exchange, x.id = NoOrder, NEW kind \in OrderKind,
         gen \in 1..MaxGen, NEW id, NEW y \in PlaceProtection(x, kind, qty, id)
  PROVE  /\ y \in Exchange /\ Kept(x.orders, y.orders) /\ Fresh(x.orders, y, gen, qty)
         /\ id \in DOMAIN x.orders => Settled(y.orders, id)
<1>1. PICK c \in Cancel(x, id) : y \in Place(c, kind, qty, gen)
  BY DEF PlaceProtection
<1>2. /\ c \in Exchange /\ c.id = NoOrder /\ Eased(x.orders, c.orders)
      /\ id \in DOMAIN c.orders /\ c.orders[id].open => c.orders[id].doubt
  BY CancelEased
<1>3. y \in Exchange /\ Kept(c.orders, y.orders) /\ Fresh(c.orders, y, gen, qty)
  BY <1>1, <1>2, Placed DEF TypeOK
<1>4. QED
  BY <1>2, <1>3 DEF Eased, Kept, Fresh, Settled

\* Both orders a switch cancels, the one it leaves and the one it replaces, are settled.
LEMMA Switched ==
  ASSUME TypeOK, Fits(orders), gen \in 1..MaxGen, NEW kind \in OrderKind, NEW one,
      NEW two,
         NEW c \in Cancel(Now, one), NEW y \in PlaceProtection(c, kind, qty, two)
  PROVE  /\ y \in Exchange /\ Kept(orders, y.orders) /\ Fresh(orders, y, gen, qty)
         /\ one \in DOMAIN orders => Settled(y.orders, one)
         /\ two \in DOMAIN orders => Settled(y.orders, two)
<1>1. /\ Now \in Exchange /\ Now.id = NoOrder /\ Now.orders = orders
  BY NowExchange DEF TypeOK
<1>2. /\ c \in Exchange /\ c.id = NoOrder /\ Eased(orders, c.orders)
      /\ one \in DOMAIN c.orders /\ c.orders[one].open => c.orders[one].doubt
  BY <1>1, CancelEased
<1>3. /\ y \in Exchange /\ Kept(c.orders, y.orders) /\ Fresh(c.orders, y, gen, qty)
      /\ two \in DOMAIN c.orders => Settled(y.orders, two)
  BY <1>2, ProtectionPlaced
<1>4. QED
  BY <1>2, <1>3 DEF Eased, Kept, Fresh, Settled

\* A step that takes an exchange over takes its orders and what is free.
LEMMA ExchangeTaken ==
  ASSUME NEW y \in Exchange, TakeExchange(y)
  PROVE  /\ orders' = y.orders /\ free' = y.free
         /\ orders' \in Seq(Order) /\ Len(orders') <= MaxOrders /\ free' \in Nat
         /\ Fits(orders')
BY ExchangeFields DEF TakeExchange

\* Protection that changes hands is still remembered.
LEMMA RememberedAfter ==
  ASSUME Remembered, TypeOK, gen' = gen,
         NEW y \in Exchange, orders' = y.orders,
         Kept(orders, y.orders), Fresh(orders, y, gen, qty),
         \A i \in {meta.tp, meta.sl} : i \in DOMAIN orders => Settled(y.orders, i),
         y.id # NoOrder => y.id \in {meta'.tp, meta'.sl},
         ~Missing(meta'), ~Missing(data')
  PROVE  Remembered'
<1>1. /\ orders \in Seq(Order) /\ y.orders \in Seq(Order) /\ gen \in Nat
  BY LegacyAssumption DEF TypeOK, Exchange
<1>2. \A i \in DOMAIN y.orders : y.orders[i].open /\ y.orders[i].gen = gen =>
        y.orders[i].doubt \/ (i = y.id /\ i \notin DOMAIN orders)
  <2> SUFFICES ASSUME NEW i \in DOMAIN y.orders, y.orders[i].open, y.orders[i].gen = gen
               PROVE  y.orders[i].doubt \/ (i = y.id /\ i \notin DOMAIN orders)
    OBVIOUS
  <2>1. CASE i \in DOMAIN orders
    <3>1. orders[i].open /\ orders[i].gen = gen
      BY <2>1 DEF Kept
    <3>2. orders[i].doubt \/ i \in {meta.tp, meta.sl}
      BY <2>1, <3>1 DEF Remembered
    <3>3. QED
      BY <2>1, <3>2 DEF Kept, Settled
  <2>2. CASE i \notin DOMAIN orders
    BY <2>2 DEF Fresh
  <2>3. QED
    BY <2>1, <2>2
<1>3. \A i \in DOMAIN y.orders : i = y.id => i # NoOrder
  BY <1>1 DEF NoOrder
<1>4. OneProtection'
  <2> SUFFICES ASSUME NEW i \in DOMAIN y.orders, NEW j \in DOMAIN y.orders, i # j,
                      y.orders[i].open, y.orders[j].open,
                          y.orders[i].gen = y.orders[j].gen
               PROVE  y.orders[i].doubt \/ y.orders[j].doubt
    BY DEF OneProtection
  <2>1. CASE y.orders[i].gen = gen
    BY <1>2, <2>1
  <2>2. CASE y.orders[i].gen # gen
    <3>1. i \in DOMAIN orders /\ j \in DOMAIN orders
      BY <2>2 DEF Fresh
    <3>2. /\ orders[i].open /\ orders[j].open /\ orders[i].gen = orders[j].gen
      BY <3>1 DEF Kept
    <3>3. orders[i].doubt \/ orders[j].doubt
      BY <3>1, <3>2 DEF Remembered, OneProtection
    <3>4. QED
      BY <3>1, <3>3 DEF Kept
  <2>3. QED
    BY <2>1, <2>2
<1>5. \A i \in DOMAIN y.orders : y.orders[i].open /\ y.orders[i].gen = gen =>
        y.orders[i].doubt \/ i \in {meta'.tp, meta'.sl}
  BY <1>2, <1>3
<1>6. QED
  BY <1>4, <1>5 DEF Remembered, Missing

\* Nothing that waits to be booked is disturbed by orders that are kept.
LEMMA WaitingAfter ==
  ASSUME Waiting, Kept(orders, orders'), results' = results
  PROVE  Waiting'
BY DEF Waiting, Kept

\* New orders of a size that fits keep OrdersOfSize.
LEMMA OrdersSized ==
  ASSUME OrdersOfSize, NEW y \in Exchange, orders' = y.orders, gen' = gen, qty' = qty,
         NEW g, NEW q, OfSize(g, q), Kept(orders, y.orders), Fresh(orders, y, g, q)
  PROVE  OrdersOfSize'
BY DEF OrdersOfSize, OfSize, Kept, Fresh

(***************************************************************************)
(* The invariant, action by action                                         *)
(***************************************************************************)
\* What the types say, one fact at a time.
LEMMA Types ==
  ASSUME TypeOK
  PROVE  /\ gen \in 0..MaxGen /\ gen \in Nat /\ MaxGen \in Nat /\ MaxOrders \in Nat
         /\ MaxQueue \in Nat /\ MaxPerCycle \in Nat
         /\ positions \in Nat /\ held \in Nat /\ qty \in Nat /\ free \in Nat
         /\ meta \in Protection /\ data \in Protection
         /\ pc \in PC /\ job \in [Thread -> Job]
         /\ queue \in Seq(Signal) /\ results \in Seq(Result) /\ orders \in Seq(Order)
BY LegacyAssumption DEF TypeOK

\* Positions are numbered by natural numbers.
LEMMA GenTypes ==
  ASSUME TypeOK
  PROVE  /\ \A i \in DOMAIN orders : orders[i].gen \in Nat
         /\ \A k \in DOMAIN queue : queue[k].gen \in Nat
         /\ \A t \in Thread : job[t].gen \in Nat
<1>1. \A i \in DOMAIN orders : orders[i] \in Order
  BY Types
<1>2. \A k \in DOMAIN queue : queue[k] \in Signal
  BY Types
<1>3. \A t \in Thread : job[t] \in Job
  BY Types
<1>4. MaxGen \in Nat
  BY Types
<1>5. /\ \A o \in Order : o.gen \in Nat
      /\ \A o \in Signal : o.gen \in Nat
      /\ \A o \in Job : o.gen \in Nat
  BY <1>4 DEF Order, Signal, Job
<1>6. QED
  BY <1>1, <1>2, <1>3, <1>5

\* The types once more, from facts about the next state.
LEMMA TypesNext ==
  ASSUME clock' \in 0..MaxClock, price' \in Price, gen' \in 0..MaxGen,
         positions' \in Nat, held' \in Nat, qty' \in Nat, free' \in Nat,
         meta' \in Protection, data' \in Protection,
         queue' \in Seq(Signal), Len(queue') <= MaxQueue,
         pc' \in PC, job' \in [Thread -> Job],
         results' \in Seq(Result), Len(results') <= MaxPerCycle,
         registry' \in BOOLEAN, orders' \in Seq(Order), Len(orders') <= MaxOrders
  PROVE  TypeOK'
BY DEF TypeOK

\* It holds when the process starts.
LEMMA InitLegacy == Init => LegacyInv
<1> SUFFICES ASSUME Init PROVE LegacyInv
  OBVIOUS
<1>1. TypeOK
  <2>1. /\ MaxOrders \in Nat /\ MaxGen \in Nat /\ MaxClock \in Nat /\ MaxQueue \in Nat
        /\ MaxPerCycle \in Nat /\ Spare \in Nat /\ 4 \in Price
    BY LegacyAssumption
  <2>2. NoProtection \in Protection
    BY <2>1 DEF Protection, NoProtection, NoOrder
  <2>3. pc \in PC
    BY DEF Init, PC
  <2>4. job \in [Thread -> Job]
    BY <2>1 DEF Init, Job, NoJob, NoAmount
  <2>5. /\ queue \in Seq(Signal) /\ results \in Seq(Result) /\ orders \in Seq(Order)
        /\ Len(queue) = 0 /\ Len(results) = 0 /\ Len(orders) = 0
    BY DEF Init
  <2>6. /\ clock \in 0..MaxClock /\ price \in Price /\ gen \in 0..MaxGen
        /\ {positions, held, qty, free} \subseteq Nat
    BY <2>1 DEF Init, NoAmount
  <2>9. {meta, data} \subseteq Protection /\ registry \in BOOLEAN
    BY <2>2 DEF Init
  <2>7. Len(queue) <= MaxQueue /\ Len(results) <= MaxPerCycle /\ Len(orders) <= MaxOrders
    BY <2>1, <2>5
  <2>8. QED
    BY <2>3, <2>4, <2>5, <2>6, <2>7, <2>9 DEF TypeOK
<1>2. Control /\ Fits(orders) /\ Exclusive
  BY DEF Init, Control, Fits, Exclusive, Busy, Selling, LockFree, IntentEndsWithSale,
     Thread, NoAmount
<1>3. Sized /\ Waiting
  BY DEF Init, Sized, OrdersOfSize, QueueOfSize, JobOfSize, Waiting, Busy, NoAmount,
      Thread
<1>4. Remembered
  BY DEF Init, Remembered, OneProtection, Missing, NoProtection
<1>5. QED
  BY <1>1, <1>2, <1>3, <1>4 DEF LegacyInv

\* A filled buy, and the protective order after it, keep it.
LEMMA BuyInv == LegacyInv /\ Buy => LegacyInv'
<1> SUFFICES ASSUME LegacyInv, Buy PROVE LegacyInv'
  OBVIOUS
<1>1. PICK a \in Lot :
        /\ qty' = qty + a /\ positions' = qty + a /\ held' = held + (qty + a)
        /\ \E x \in Place([Now EXCEPT !.free = @ + a], "TP", qty + a, gen + 1) :
             /\ TakeExchange(x)
             /\ meta' = IF x.id = NoOrder THEN meta ELSE [meta EXCEPT !.tp = x.id]
  BY DEF Buy
<1>2. PICK x \in Place([Now EXCEPT !.free = @ + a], "TP", qty + a, gen + 1) :
        /\ TakeExchange(x)
        /\ meta' = IF x.id = NoOrder THEN meta ELSE [meta EXCEPT !.tp = x.id]
  BY <1>1
<1>3. /\ gen' = gen + 1 /\ gen \in Nat /\ gen + 1 \in 1..MaxGen
      /\ a \in Nat \ {0} /\ qty \in Nat /\ held \in Nat /\ free \in Nat /\ MaxGen \in Nat
      /\ TypeOK
  <2>1. TypeOK
    BY DEF LegacyInv
  <2>2. a \in Nat \ {0}
    BY LegacyAssumption
  <2>3. gen' = gen + 1 /\ gen < MaxGen
    BY DEF Buy
  <2>4. QED
    BY <2>1, <2>2, <2>3, Types
<1>4. /\ clock' = clock /\ price' = price /\ data' = data /\ queue' = queue /\ pc' = pc
      /\ job' = job /\ results' = results /\ registry' = registry
  BY DEF Buy, world
<1>5. x \in Exchange /\ Kept(orders, x.orders) /\ Fresh(orders, x, gen + 1, qty + a)
  <2>1. [Now EXCEPT !.free = @ + a] = [Now EXCEPT !.free = free + a]
    BY DEF Now
  <2>2. /\ [Now EXCEPT !.free = free + a] \in Exchange
        /\ [Now EXCEPT !.free = free + a].id = NoOrder
        /\ [Now EXCEPT !.free = free + a].orders = orders
    BY <1>3, NowExchange DEF LegacyInv
  <2>3. "TP" \in OrderKind
    BY DEF OrderKind
  <2> DEFINE z == [Now EXCEPT !.free = free + a]
  <2> HIDE DEF z
  <2>4. z \in Exchange /\ z.id = NoOrder /\ z.orders = orders
        /\ x \in Place(z, "TP", qty + a, gen + 1)
    BY <2>1, <2>2 DEF z
  <2>5. QED
    BY <1>3, <2>3, <2>4, Placed
<1>6. /\ orders' = x.orders /\ orders' \in Seq(Order) /\ Len(orders') <= MaxOrders
      /\ free' \in Nat /\ Fits(orders')
  BY <1>2, <1>5, ExchangeTaken
<1>7. x.id \in 0..MaxOrders
  BY <1>5 DEF Exchange
<1>8. TypeOK'
  <2>1. meta' \in Protection
    BY <1>2, <1>3, <1>7 DEF TypeOK, Protection
  <2>2. positions' \in Nat /\ qty' \in Nat /\ held' \in Nat /\ gen' \in 0..MaxGen
    BY <1>1, <1>3
  <2>3. data \in Protection /\ Len(queue) <= MaxQueue /\ Len(results) <= MaxPerCycle
    BY <1>3 DEF TypeOK
  <2>4. clock \in 0..MaxClock /\ price \in Price /\ registry \in BOOLEAN
    BY <1>3 DEF TypeOK
  <2>5. QED
    BY <1>3, <1>4, <1>6, <2>1, <2>2, <2>3, <2>4, Types, TypesNext
<1>9. Control'
  BY <1>3, <1>4 DEF LegacyInv, Control, Busy
<1>10. Exclusive'
  BY <1>4 DEF LegacyInv, Exclusive, IntentEndsWithSale, LockFree, Selling
<1>11. /\ \A i \in DOMAIN orders : orders[i].gen \in Nat /\ orders[i].gen <= gen
       /\ \A k \in DOMAIN queue : queue[k].gen \in Nat /\ queue[k].gen <= gen
       /\ \A t \in Thread : Busy(t) => job[t].gen \in Nat /\ job[t].gen <= gen
  BY <1>3, GenTypes DEF LegacyInv, Sized, OrdersOfSize, QueueOfSize, JobOfSize, OfSize
<1>12. OrdersOfSize'
  <2> SUFFICES ASSUME NEW i \in DOMAIN x.orders
               PROVE  OfSize(x.orders[i].gen, x.orders[i].qty)'
    BY <1>6 DEF OrdersOfSize
  <2>1. CASE i \in DOMAIN orders
    <3>1. x.orders[i].gen \in Nat /\ x.orders[i].gen <= gen
      BY <1>5, <1>11, <2>1 DEF Kept
    <3>2. QED
      BY <3>1, <1>3 DEF OfSize
  <2>2. CASE i \notin DOMAIN orders
    BY <2>2, <1>1, <1>3, <1>5 DEF Fresh, OfSize
  <2>3. QED
    BY <2>1, <2>2
<1>13. Sized'
  <2>1. QueueOfSize'
    BY <1>3, <1>4, <1>11 DEF OfSize, QueueOfSize
  <2>2. \A t \in Thread : JobOfSize(t)'
    BY <1>3, <1>4, <1>11 DEF OfSize, Busy, JobOfSize
  <2>3. QED
    BY <2>1, <2>2, <1>1, <1>12 DEF Sized
<1>14. Waiting'
  BY <1>4, <1>5, <1>6, WaitingAfter DEF LegacyInv
<1>15. Remembered'
  <2>2. /\ ~Missing(meta)' /\ ~Missing(data)'
    BY <1>2, <1>3, <1>4 DEF LegacyInv, Remembered, Missing, TypeOK, Protection
  <2>3. \A i \in DOMAIN x.orders : i # NoOrder
    BY <1>5 DEF Exchange, NoOrder
  <2>4. \A i \in DOMAIN x.orders : x.orders[i].open /\ x.orders[i].gen = gen + 1 =>
          (x.orders[i].doubt \/ i = x.id) /\ i \notin DOMAIN orders
    BY <1>3, <1>5, <1>11 DEF Kept, Fresh
  <2>5. x.id # NoOrder => meta'.tp = x.id
    BY <1>2, <1>3 DEF TypeOK, Protection
  <2>6. OneProtection'
    <3> SUFFICES ASSUME NEW i \in DOMAIN x.orders, NEW j \in DOMAIN x.orders, i # j,
                        x.orders[i].open, x.orders[j].open,
                        x.orders[i].gen = x.orders[j].gen
                 PROVE  x.orders[i].doubt \/ x.orders[j].doubt
      BY <1>6 DEF OneProtection
    <3>1. CASE x.orders[i].gen = gen + 1
      BY <2>4, <3>1
    <3>2. CASE x.orders[i].gen # gen + 1
      <4>1. i \in DOMAIN orders /\ j \in DOMAIN orders
        BY <1>5, <3>2 DEF Fresh
      <4>2. QED
        BY <4>1, <1>5 DEF Kept, LegacyInv, Remembered, OneProtection
    <3>3. QED
      BY <3>1, <3>2
  <2>7. QED
    BY <1>3, <1>6, <2>2, <2>3, <2>4, <2>5, <2>6 DEF Remembered, Missing
<1>16. QED
  BY <1>6, <1>8, <1>9, <1>10, <1>13, <1>14, <1>15 DEF LegacyInv

\* A thread moves on.
LEMMA GotoEffect ==
  ASSUME TypeOK, NEW t \in Thread, NEW there, Goto(t, there)
  PROVE  /\ pc'[t] = there
         /\ \A u \in Thread : u # t => pc'[u] = pc[u]
         /\ (t = "engine" /\ there \in {"idle", "restore", "evaluate", "pop", "begin", "ioc",
                                       "fallback", "book"}) => pc' \in PC
         /\ (t = "caller" /\ there \in {"idle", "begin", "ioc", "fallback"}) => pc' \in PC
<1>1. pc \in PC
  BY Types
<1>2. QED
  BY <1>1 DEF Goto, PC, Thread

\* A protection record whose cancelled order is forgotten, or whose new order is noted,
\* still has no price without an order.
LEMMA Forgotten ==
  ASSUME NEW d \in Protection, ~Missing(d), NEW kind \in {"TP", "SL"}, MaxOrders \in Nat
  PROVE  Forget(d, kind) \in Protection /\ ~Missing(Forget(d, kind))
<1> DEFINE t == [d EXCEPT !.tp = NoOrder, !.tp_px = FALSE]
           s == [d EXCEPT !.sl = NoOrder, !.sl_px = FALSE]
<1>1. NoOrder \in 0..MaxOrders
  BY DEF NoOrder
<1>2. t \in Protection /\ s \in Protection
  BY <1>1 DEF Protection
<1>3. /\ t.tp_px = FALSE /\ t.sl = d.sl /\ t.sl_px = d.sl_px
      /\ s.sl_px = FALSE /\ s.tp = d.tp /\ s.tp_px = d.tp_px
  BY DEF Protection
<1>4. ~Missing(t) /\ ~Missing(s)
  BY <1>3, Zenon DEF Missing
<1>5. QED
  BY <1>2, <1>4 DEF Forget

NotedSL(d, id) == [d EXCEPT !.sl = id, !.sl_px = TRUE, !.active = "SL", !.cooling = TRUE]
NotedTP(d, id) == [d EXCEPT !.tp = id, !.tp_px = TRUE, !.active = "TP", !.cooling = TRUE]

\* A protective order that is noted is remembered, price and order.
LEMMA Noted ==
  ASSUME NEW d \in Protection, ~Missing(d), NEW id \in 0..MaxOrders, id # NoOrder
  PROVE  /\ NotedSL(d, id) \in Protection /\ ~Missing(NotedSL(d, id)) /\ NotedSL(d, id).sl = id
         /\ NotedTP(d, id) \in Protection /\ ~Missing(NotedTP(d, id)) /\ NotedTP(d, id).tp = id
<1> DEFINE t == NotedTP(d, id)
           s == NotedSL(d, id)
<1>1. t \in Protection /\ s \in Protection
  BY DEF Protection, NotedSL, NotedTP
<1>2. /\ t.tp = id /\ t.sl = d.sl /\ t.sl_px = d.sl_px
      /\ s.sl = id /\ s.tp = d.tp /\ s.tp_px = d.tp_px
  BY DEF Protection, NotedSL, NotedTP
<1> HIDE DEF t, s
<1>3. ~Missing(t) /\ ~Missing(s)
  BY <1>2, Zenon DEF Missing
<1>4. QED
  BY <1>1, <1>2, <1>3 DEF t, s

\* What a switch between take-profit and stop-loss leaves behind.
LEMMA SwitchEffect ==
  ASSUME LegacyInv, gen > 0, gen' = gen, qty' = qty,
         SwitchToSL(meta) \/ SwitchToTP(meta)
  PROVE  /\ orders' \in Seq(Order) /\ Len(orders') <= MaxOrders /\ free' \in Nat
         /\ Fits(orders') /\ Kept(orders, orders') /\ OrdersOfSize' /\ Remembered'
         /\ meta' \in Protection /\ data' \in Protection
<1>1. /\ TypeOK /\ Fits(orders) /\ Remembered /\ OrdersOfSize /\ OfSize(gen, qty)
      /\ gen \in 1..MaxGen /\ meta \in Protection
      /\ "TP" \in OrderKind /\ "SL" \in OrderKind
  <2>1. TypeOK /\ Fits(orders) /\ Remembered /\ OrdersOfSize
    BY DEF LegacyInv, Sized
  <2>2. gen \in 1..MaxGen /\ meta \in Protection
    BY <2>1, Types
  <2>3. QED
    BY <2>1, <2>2 DEF OrderKind, OfSize
<1>2. ASSUME NEW c, NEW x \in Exchange, TakeExchange(x),
             Kept(orders, x.orders), Fresh(orders, x, gen, qty),
             \A i \in {meta.tp, meta.sl} : i \in DOMAIN orders => Settled(x.orders, i),
             x.id # NoOrder => x.id \in {meta'.tp, meta'.sl},
             ~Missing(meta'), ~Missing(data'), meta' \in Protection, data' \in Protection
      PROVE  /\ orders' \in Seq(Order) /\ Len(orders') <= MaxOrders /\ free' \in Nat
             /\ Fits(orders') /\ Kept(orders, orders') /\ OrdersOfSize' /\ Remembered'
             /\ meta' \in Protection /\ data' \in Protection
  <2>1. /\ orders' = x.orders
        /\ orders' \in Seq(Order) /\ Len(orders') <= MaxOrders /\ free' \in Nat
        /\ Fits(orders')
    BY <1>2, ExchangeTaken
  <2>2. OrdersOfSize'
    BY <1>1, <1>2, <2>1, OrdersSized
  <2>3. Remembered'
    BY <1>1, <1>2, <2>1, RememberedAfter
  <2>4. QED
    BY <1>2, <2>1, <2>2, <2>3
<1>3. CASE SwitchToSL(meta)
  <2> DEFINE gone == IF meta.tp = NoOrder THEN meta ELSE Forget(meta, "TP")
  <2>0. PICK c \in Cancel(Now, meta.tp) :
          \E x \in PlaceProtection(c, "SL", qty, meta.sl) :
            /\ TakeExchange(x)
            /\ IF x.id = NoOrder
               THEN data' = gone /\ meta' = meta
               ELSE /\ data' = NotedSL(gone, x.id) /\ meta' = NotedSL(meta, x.id)
    BY <1>3 DEF SwitchToSL, NotedSL
  <2>1. PICK x \in PlaceProtection(c, "SL", qty, meta.sl) :
          /\ TakeExchange(x)
          /\ IF x.id = NoOrder
             THEN data' = gone /\ meta' = meta
             ELSE /\ data' = NotedSL(gone, x.id) /\ meta' = NotedSL(meta, x.id)
    BY <2>0
  <2>2. /\ x \in Exchange /\ Kept(orders, x.orders) /\ Fresh(orders, x, gen, qty)
        /\ \A i \in {meta.tp, meta.sl} : i \in DOMAIN orders => Settled(x.orders, i)
    BY <1>1, Switched
  <2>3. gone \in Protection /\ ~Missing(gone) /\ ~Missing(meta)
    BY <1>1, Forgotten, Types DEF Remembered
  <2> HIDE DEF gone
  <2>4. x.id \in 0..MaxOrders
    BY <2>2 DEF Exchange
  <2>5. /\ x.id # NoOrder => x.id \in {meta'.tp, meta'.sl}
        /\ ~Missing(meta') /\ ~Missing(data') /\ meta' \in Protection /\ data' \in Protection
    <3>1. CASE x.id = NoOrder
      BY <1>1, <2>1, <2>3, <3>1
    <3>2. CASE x.id # NoOrder
      BY <1>1, <2>1, <2>3, <2>4, <3>2, Noted
    <3>3. QED
      BY <3>1, <3>2
  <2>6. QED
    BY <1>2, <2>1, <2>2, <2>5
<1>4. CASE SwitchToTP(meta)
  <2> DEFINE gone == IF meta.sl = NoOrder THEN meta ELSE Forget(meta, "SL")
  <2>0. PICK c \in Cancel(Now, meta.sl) :
          \E x \in PlaceProtection(c, "TP", qty, meta.tp) :
            /\ TakeExchange(x)
            /\ IF x.id = NoOrder
               THEN data' = gone /\ meta' = meta
               ELSE /\ data' = NotedTP(gone, x.id) /\ meta' = NotedTP(meta, x.id)
    BY <1>4 DEF SwitchToTP, NotedTP
  <2>1. PICK x \in PlaceProtection(c, "TP", qty, meta.tp) :
          /\ TakeExchange(x)
          /\ IF x.id = NoOrder
             THEN data' = gone /\ meta' = meta
             ELSE /\ data' = NotedTP(gone, x.id) /\ meta' = NotedTP(meta, x.id)
    BY <2>0
  <2>2. /\ x \in Exchange /\ Kept(orders, x.orders) /\ Fresh(orders, x, gen, qty)
        /\ \A i \in {meta.tp, meta.sl} : i \in DOMAIN orders => Settled(x.orders, i)
    BY <1>1, Switched
  <2>3. gone \in Protection /\ ~Missing(gone) /\ ~Missing(meta)
    BY <1>1, Forgotten, Types DEF Remembered
  <2> HIDE DEF gone
  <2>4. x.id \in 0..MaxOrders
    BY <2>2 DEF Exchange
  <2>5. /\ x.id # NoOrder => x.id \in {meta'.tp, meta'.sl}
        /\ ~Missing(meta') /\ ~Missing(data') /\ meta' \in Protection /\ data' \in Protection
    <3>1. CASE x.id = NoOrder
      BY <1>1, <2>1, <2>3, <3>1
    <3>2. CASE x.id # NoOrder
      BY <1>1, <2>1, <2>3, <2>4, <3>2, Noted
    <3>3. QED
      BY <3>1, <3>2
  <2>6. QED
    BY <1>2, <2>1, <2>2, <2>5
<1>5. QED
  BY <1>3, <1>4

\* Switching between take-profit and stop-loss keeps it.
LEMMA SwitchInv == LegacyInv /\ ManageSwitch => LegacyInv'
<1> SUFFICES ASSUME LegacyInv, ManageSwitch PROVE LegacyInv'
  OBVIOUS
<1>1. /\ TypeOK /\ gen > 0 /\ pc.engine = "idle" /\ Goto("engine", "restore")
      /\ clock' = clock /\ price' = price /\ gen' = gen /\ positions' = positions
      /\ held' = held /\ qty' = qty
      /\ queue' = queue /\ job' = job /\ results' = results /\ registry' = registry
  BY DEF LegacyInv, ManageSwitch, EngineAt, Goto, world, engine_state
<1>2. /\ pc'.engine = "restore" /\ pc'.caller = pc.caller /\ pc' \in PC
      /\ pc'["engine"] = "restore" /\ pc'["caller"] = pc["caller"] /\ pc["engine"] = "idle"
  BY <1>1, GotoEffect DEF Thread
<1>3. \/ SwitchToSL(meta) \/ SwitchToTP(meta)
      \/ data' = meta /\ meta' = meta /\ free' = free /\ orders' = orders
  BY DEF ManageSwitch, exchange
<1>4. /\ orders' \in Seq(Order) /\ Len(orders') <= MaxOrders /\ free' \in Nat
      /\ Fits(orders') /\ Kept(orders, orders') /\ OrdersOfSize' /\ Remembered'
      /\ meta' \in Protection /\ data' \in Protection
  <2>1. CASE SwitchToSL(meta) \/ SwitchToTP(meta)
    BY <1>1, <2>1, SwitchEffect
  <2>2. CASE data' = meta /\ meta' = meta /\ free' = free /\ orders' = orders
    <3>1. /\ orders' \in Seq(Order) /\ free' \in Nat /\ meta' \in Protection
          /\ data' \in Protection
      BY <1>1, <2>2, Types
    <3>2. Len(orders') <= MaxOrders
      BY <1>1, <2>2 DEF TypeOK
    <3>3. Fits(orders') /\ Kept(orders, orders') /\ OrdersOfSize'
      BY <1>1, <2>2 DEF LegacyInv, Sized, Kept, OrdersOfSize, OfSize
    <3>4. Remembered'
      BY <1>1, <2>2 DEF LegacyInv, Remembered, OneProtection, Missing
    <3>5. QED
      BY <3>1, <3>2, <3>3, <3>4
  <2>3. QED
    BY <1>3, <2>1, <2>2
<1>5. TypeOK'
  <2>1. /\ clock \in 0..MaxClock /\ price \in Price /\ registry \in BOOLEAN
        /\ Len(queue) <= MaxQueue /\ Len(results) <= MaxPerCycle
    BY <1>1 DEF TypeOK
  <2>2. QED
    BY <1>1, <1>2, <1>4, <2>1, Types, TypesNext
<1>6. Control'
  BY <1>1, <1>2 DEF LegacyInv, Control, Busy, Thread
<1>7. Exclusive'
  BY <1>1, <1>2 DEF LegacyInv, Exclusive, IntentEndsWithSale, LockFree, Selling, Thread
<1>8. Sized'
  BY <1>1, <1>2, <1>4 DEF LegacyInv, Sized, QueueOfSize, JobOfSize, Busy, Thread, OfSize
<1>9. Waiting'
  BY <1>1, <1>4, WaitingAfter DEF LegacyInv
<1>10. QED
  BY <1>4, <1>5, <1>6, <1>7, <1>8, <1>9 DEF LegacyInv

\* Steps that leave the exchange alone.
LEMMA ExchangeFrame ==
  ASSUME LegacyInv, UNCHANGED exchange
  PROVE  /\ orders' = orders /\ orders' \in Seq(Order) /\ Len(orders') <= MaxOrders
         /\ free' \in Nat /\ Fits(orders') /\ Kept(orders, orders')
<1>1. orders' = orders /\ free' = free
  BY DEF exchange
<1>2. TypeOK /\ Fits(orders)
  BY DEF LegacyInv
<1>3. orders \in Seq(Order) /\ free \in Nat /\ Len(orders) <= MaxOrders
  BY <1>2, Types DEF TypeOK
<1>4. Kept(orders, orders)
  BY DEF Kept
<1>5. QED
  BY <1>1, <1>2, <1>3, <1>4

\* Steps that neither place an order to rest nor forget one.
LEMMA RememberedFrame ==
  ASSUME Remembered, gen' = gen, Kept(orders, orders'),
         \A i \in DOMAIN orders' \ DOMAIN orders : ~orders'[i].open,
         meta'.tp = meta.tp, meta'.sl = meta.sl, ~Missing(meta'), ~Missing(data')
  PROVE  Remembered'
<1>1. \A i \in DOMAIN orders' : orders'[i].open => i \in DOMAIN orders /\ orders[i].open
  BY DEF Kept
<1>2. OneProtection'
  BY <1>1 DEF Remembered, OneProtection, Kept
<1>3. \A i \in DOMAIN orders' : orders'[i].open /\ orders'[i].gen = gen' =>
        orders'[i].doubt \/ i \in {meta'.tp, meta'.sl}
  BY <1>1 DEF Remembered, Kept
<1>4. Missing(meta)' = Missing(meta') /\ Missing(data)' = Missing(data')
  BY DEF Missing
<1>5. QED
  BY <1>2, <1>3, <1>4 DEF Remembered

\* A step that leaves orders and position alone keeps OrdersOfSize.
LEMMA SameSize ==
  ASSUME OrdersOfSize, orders' = orders, gen' = gen, qty' = qty
  PROVE  OrdersOfSize'
BY DEF OrdersOfSize, OfSize

\* A step after which a thread is no busier, with the job it had.
LEMMA SizedFrame ==
  ASSUME Sized, gen' = gen, qty' = qty, OrdersOfSize', QueueOfSize',
         positions' \in {NoAmount, positions},
         \A t \in Thread : Busy(t)' => Busy(t) /\ job'[t] = job[t]
  PROVE  Sized'
<1>1. \A t \in Thread : JobOfSize(t)'
  BY DEF Sized, JobOfSize, OfSize
<1>2. QED
  BY <1>1 DEF Sized

\* A step that leaves queue and position alone keeps QueueOfSize.
LEMMA SameQueue ==
  ASSUME QueueOfSize, queue' = queue, gen' = gen, qty' = qty
  PROVE  QueueOfSize'
BY DEF QueueOfSize, OfSize

\* What TypeOK says of the variables a step seldom changes.
LEMMA Bounds ==
  ASSUME TypeOK
  PROVE  /\ clock \in 0..MaxClock /\ price \in Price /\ registry \in BOOLEAN
         /\ Len(queue) <= MaxQueue /\ Len(results) <= MaxPerCycle
BY DEF TypeOK

\* Restoring protective orders keeps it, as nothing is missing.
LEMMA RestoreInv == LegacyInv /\ ManageRestore => LegacyInv'
<1> SUFFICES ASSUME LegacyInv, ManageRestore PROVE LegacyInv'
  OBVIOUS
<1>1. /\ TypeOK /\ pc.engine = "restore" /\ Goto("engine", "evaluate")
      /\ clock' = clock /\ price' = price /\ gen' = gen /\ positions' = positions
      /\ held' = held /\ qty' = qty /\ meta' = meta
      /\ queue' = queue /\ job' = job /\ results' = results /\ registry' = registry
  BY DEF LegacyInv, ManageRestore, EngineAt, Goto, world, engine_state
<1>2. ~Missing(data) /\ ~Missing(meta)
  BY DEF LegacyInv, Remembered
<1>3. data' = data /\ UNCHANGED exchange
  BY <1>2 DEF ManageRestore, Missing
<1>4. /\ pc' \in PC /\ pc'["engine"] = "evaluate" /\ pc'["caller"] = pc["caller"]
      /\ pc["engine"] = "restore"
  BY <1>1, GotoEffect DEF Thread
<1>5. /\ orders' = orders /\ orders' \in Seq(Order) /\ Len(orders') <= MaxOrders
      /\ free' \in Nat /\ Fits(orders') /\ Kept(orders, orders')
  BY <1>3, ExchangeFrame
<1>6. TypeOK'
  BY <1>1, <1>3, <1>4, <1>5, Bounds, Types, TypesNext
<1>7. Control'
  BY <1>1, <1>4 DEF LegacyInv, Control, Busy, Thread
<1>8. Exclusive'
  BY <1>1, <1>4 DEF LegacyInv, Exclusive, IntentEndsWithSale, LockFree, Selling, Thread
<1>9. Sized'
  <2>1. /\ Sized /\ OrdersOfSize' /\ QueueOfSize'
        /\ \A t \in Thread : Busy(t)' => Busy(t) /\ job'[t] = job[t]
    BY <1>1, <1>4, <1>5, SameSize, SameQueue DEF LegacyInv, Sized, Busy, Thread
  <2>2. QED
    BY <1>1, <2>1, SizedFrame
<1>10. Waiting'
  BY <1>1, <1>5, WaitingAfter DEF LegacyInv
<1>11. Remembered'
  BY <1>1, <1>2, <1>3, <1>5, RememberedFrame DEF LegacyInv
<1>12. QED
  BY <1>5, <1>6, <1>7, <1>8, <1>9, <1>10, <1>11 DEF LegacyInv

\* Evaluating a position, which may raise signals, keeps it.
LEMMA EvaluateInv == LegacyInv /\ ManageEvaluate => LegacyInv'
<1> SUFFICES ASSUME LegacyInv, ManageEvaluate PROVE LegacyInv'
  OBVIOUS
<1>1. /\ TypeOK /\ pc.engine = "evaluate" /\ Goto("engine", "idle")
      /\ clock' = clock /\ price' = price /\ gen' = gen /\ positions' = positions
      /\ held' = held /\ qty' = qty /\ meta' = meta /\ data' = NoProtection
      /\ job' = job /\ results' = results /\ registry' = registry
      /\ UNCHANGED exchange
  BY DEF LegacyInv, ManageEvaluate, EngineAt, Goto, world, engine_state
<1>2. \/ Len(queue) < MaxQueue /\ queue' = Append(queue, [amount |-> qty, gen |-> gen])
      \/ queue' = queue
  BY DEF ManageEvaluate, AddSignal
<1>3. NoProtection \in Protection /\ ~Missing(NoProtection)
  <2>1. NoOrder \in 0..MaxOrders
    BY <1>1, Types DEF NoOrder
  <2>2. NoProtection \in Protection
    BY <2>1 DEF Protection, NoProtection
  <2>3. NoProtection.tp_px = FALSE /\ NoProtection.sl_px = FALSE
    BY DEF NoProtection
  <2>4. QED
    BY <2>2, <2>3, Zenon DEF Missing
<1>4. /\ pc' \in PC /\ pc'["engine"] = "idle" /\ pc'["caller"] = pc["caller"]
      /\ pc["engine"] = "evaluate"
  BY <1>1, GotoEffect DEF Thread
<1>5. /\ orders' = orders /\ orders' \in Seq(Order) /\ Len(orders') <= MaxOrders
      /\ free' \in Nat /\ Fits(orders') /\ Kept(orders, orders')
  BY <1>1, ExchangeFrame
<1>6. gen \in 1..MaxGen /\ qty \in Nat /\ queue \in Seq(Signal) /\ Len(queue) \in Nat
  <2>1. gen > 0 /\ gen \in 0..MaxGen /\ gen \in Nat
    BY <1>1, Types DEF LegacyInv, Control
  <2>2. QED
    BY <1>1, <2>1, Types
<1>7. /\ queue' \in Seq(Signal) /\ Len(queue') <= MaxQueue
      /\ \A k \in DOMAIN queue' : \/ k \in DOMAIN queue /\ queue'[k] = queue[k]
                                  \/ queue'[k] = [amount |-> qty, gen |-> gen]
  <2>1. CASE queue' = queue
    BY <1>1, <1>6, <2>1 DEF TypeOK
  <2>2. CASE Len(queue) < MaxQueue /\ queue' = Append(queue, [amount |-> qty, gen |-> gen])
    <3>1. [amount |-> qty, gen |-> gen] \in Signal
      BY <1>6 DEF Signal
    <3>2. MaxQueue \in Nat
      BY <1>1, Types
    <3>3. QED
      BY <1>6, <2>2, <3>1, <3>2
  <2>3. QED
    BY <1>2, <2>1, <2>2
<1>8. TypeOK'
  BY <1>1, <1>3, <1>4, <1>5, <1>7, Bounds, Types, TypesNext
<1>9. Control'
  BY <1>1, <1>4 DEF LegacyInv, Control, Busy, Thread
<1>10. Exclusive'
  BY <1>1, <1>4 DEF LegacyInv, Exclusive, IntentEndsWithSale, LockFree, Selling, Thread
<1>11. Sized'
  <2>1. QueueOfSize'
    BY <1>1, <1>6, <1>7 DEF LegacyInv, Sized, QueueOfSize, OfSize
  <2>2. /\ Sized /\ OrdersOfSize'
        /\ \A t \in Thread : Busy(t)' => Busy(t) /\ job'[t] = job[t]
    BY <1>1, <1>4, <1>5, SameSize DEF LegacyInv, Sized, Busy, Thread
  <2>3. QED
    BY <1>1, <2>1, <2>2, SizedFrame
<1>12. Waiting'
  BY <1>1, <1>5, WaitingAfter DEF LegacyInv
<1>13. Remembered'
  <2>1. Remembered /\ ~Missing(meta)
    BY DEF LegacyInv, Remembered
  <2>2. QED
    BY <1>1, <1>3, <1>5, <2>1, RememberedFrame
<1>14. QED
  BY <1>5, <1>8, <1>9, <1>10, <1>11, <1>12, <1>13 DEF LegacyInv

\* Taking a signal from the queue keeps it.
LEMMA PopInv == LegacyInv /\ PopSignal => LegacyInv'
<1> SUFFICES ASSUME LegacyInv, PopSignal PROVE LegacyInv'
  OBVIOUS
<1>1. /\ TypeOK /\ pc.engine \in {"idle", "pop"} /\ Goto("engine", "begin")
      /\ queue # <<>> /\ Len(results) < MaxPerCycle
      /\ job' = [job EXCEPT !["engine"] = Head(queue)] /\ queue' = Tail(queue)
      /\ clock' = clock /\ price' = price /\ gen' = gen /\ positions' = positions
      /\ held' = held /\ qty' = qty /\ meta' = meta /\ data' = data
      /\ results' = results /\ registry' = registry
      /\ UNCHANGED exchange
  BY DEF LegacyInv, PopSignal, world, engine_state, protection
<1>2. /\ pc' \in PC /\ pc'["engine"] = "begin" /\ pc'["caller"] = pc["caller"]
      /\ pc["engine"] \in {"idle", "pop"}
  BY <1>1, GotoEffect DEF Thread
<1>3. /\ orders' = orders /\ orders' \in Seq(Order) /\ Len(orders') <= MaxOrders
      /\ free' \in Nat /\ Fits(orders') /\ Kept(orders, orders')
  BY <1>1, ExchangeFrame
<1>4. /\ queue \in Seq(Signal) /\ job \in [Thread -> Job] /\ MaxGen \in Nat /\ MaxQueue \in Nat
      /\ Len(queue) <= MaxQueue
  BY <1>1, Types, Bounds
<1>5. /\ queue' \in Seq(Signal) /\ Len(queue') <= MaxQueue
      /\ \A k \in DOMAIN queue' : k + 1 \in DOMAIN queue /\ queue'[k] = queue[k + 1]
      /\ Head(queue) \in Signal /\ 1 \in DOMAIN queue /\ Head(queue) = queue[1]
  BY <1>1, <1>4
<1>6. /\ Head(queue) \in Job /\ Head(queue).gen > 0
  BY <1>4, <1>5 DEF Signal, Job
<1>7. /\ job' \in [Thread -> Job] /\ job'["engine"] = Head(queue)
      /\ job'["caller"] = job["caller"]
  BY <1>1, <1>4, <1>6 DEF Thread
<1>8. TypeOK'
  BY <1>1, <1>2, <1>3, <1>5, <1>7, Bounds, Types, TypesNext
<1>9. Control'
  BY <1>1, <1>2, <1>6, <1>7 DEF LegacyInv, Control, Busy, Thread
<1>10. Exclusive'
  BY <1>1, <1>2 DEF LegacyInv, Exclusive, IntentEndsWithSale, LockFree, Selling, Thread
<1>11. Sized'
  <2>1. QueueOfSize
    BY DEF LegacyInv, Sized
  <2>2. QueueOfSize'
    BY <1>1, <1>5, <2>1 DEF QueueOfSize, OfSize
  <2>3. JobOfSize("engine")'
    BY <1>1, <1>5, <1>7, <2>1 DEF OfSize, QueueOfSize, JobOfSize
  <2>4. JobOfSize("caller")'
    BY <1>1, <1>2, <1>7 DEF LegacyInv, Sized, JobOfSize, Busy, Thread, OfSize
  <2>5. QED
    BY <1>1, <1>3, <2>2, <2>3, <2>4, SameSize DEF LegacyInv, Sized, Thread
<1>12. Waiting'
  BY <1>1, <1>3, WaitingAfter DEF LegacyInv
<1>13. Remembered'
  BY <1>1, <1>3, RememberedFrame DEF LegacyInv, Remembered
<1>14. QED
  BY <1>3, <1>8, <1>9, <1>10, <1>11, <1>12, <1>13 DEF LegacyInv

\* A caller's asking for an exit keeps it.
LEMMA ExitInv == LegacyInv /\ ExitPosition => LegacyInv'
<1> SUFFICES ASSUME LegacyInv, ExitPosition PROVE LegacyInv'
  OBVIOUS
<1>1. /\ TypeOK /\ pc.caller = "idle" /\ Goto("caller", "begin") /\ positions # NoAmount
      /\ job' = [job EXCEPT !["caller"] = [amount |-> positions, gen |-> gen]]
      /\ clock' = clock /\ price' = price /\ gen' = gen /\ positions' = positions
      /\ held' = held /\ qty' = qty /\ meta' = meta /\ data' = data
      /\ queue' = queue /\ results' = results /\ registry' = registry
      /\ UNCHANGED exchange
  BY DEF LegacyInv, ExitPosition, world, engine_state, protection
<1>2. /\ pc' \in PC /\ pc'["caller"] = "begin" /\ pc'["engine"] = pc["engine"]
      /\ pc["caller"] = "idle"
  BY <1>1, GotoEffect DEF Thread
<1>3. /\ orders' = orders /\ orders' \in Seq(Order) /\ Len(orders') <= MaxOrders
      /\ free' \in Nat /\ Fits(orders') /\ Kept(orders, orders')
  BY <1>1, ExchangeFrame
<1>4. gen > 0 /\ positions = qty
  BY <1>1 DEF LegacyInv, Control, Sized
<1>5. [amount |-> positions, gen |-> gen] \in Job
  BY <1>1, Types DEF Job
<1>6. /\ job' \in [Thread -> Job] /\ job'["caller"] = [amount |-> positions, gen |-> gen]
      /\ job'["engine"] = job["engine"]
  BY <1>1, <1>5, Types DEF Thread
<1>7. TypeOK'
  BY <1>1, <1>2, <1>3, <1>6, Bounds, Types, TypesNext
<1>8. Control'
  BY <1>1, <1>2, <1>4, <1>6 DEF LegacyInv, Control, Busy, Thread
<1>9. Exclusive'
  BY <1>1, <1>2 DEF LegacyInv, Exclusive, IntentEndsWithSale, LockFree, Selling, Thread
<1>10. Sized'
  <2>1. JobOfSize("caller")'
    BY <1>1, <1>4, <1>6, Types DEF OfSize, JobOfSize
  <2>2. JobOfSize("engine")'
    BY <1>1, <1>2, <1>6 DEF LegacyInv, Sized, JobOfSize, Busy, Thread, OfSize
  <2>3. OrdersOfSize' /\ QueueOfSize'
    BY <1>1, <1>3, SameSize, SameQueue DEF LegacyInv, Sized
  <2>4. QED
    BY <1>1, <2>1, <2>2, <2>3 DEF LegacyInv, Sized, Thread
<1>11. Waiting'
  BY <1>1, <1>3, WaitingAfter DEF LegacyInv
<1>12. Remembered'
  BY <1>1, <1>3, RememberedFrame DEF LegacyInv, Remembered
<1>13. QED
  BY <1>3, <1>7, <1>8, <1>9, <1>10, <1>11, <1>12 DEF LegacyInv

\* Orders of a sale never rest.
LEMMA SalePlaced ==
  ASSUME LegacyInv, NEW t \in Thread, Busy(t), NEW kind \in {t, "market"},
         NEW x \in Place(Now, kind, job[t].amount, job[t].gen), TakeExchange(x),
         gen' = gen, qty' = qty
  PROVE  /\ x.id \in 0..MaxOrders /\ x.orders \in Seq(Order) /\ orders' = x.orders
         /\ x.id # NoOrder => x.id = Len(orders') /\ x.id \in DOMAIN orders'
         /\ orders' \in Seq(Order) /\ Len(orders') <= MaxOrders /\ free' \in Nat
         /\ Fits(orders') /\ Kept(orders, orders') /\ OrdersOfSize'
         /\ \A i \in DOMAIN orders' \ DOMAIN orders : ~orders'[i].open
         /\ x.id # NoOrder => x.orders[x.id].qty = job[t].amount
<1>1. /\ TypeOK /\ Fits(orders) /\ OrdersOfSize /\ OfSize(job[t].gen, job[t].amount)
      /\ job[t].gen > 0
  BY DEF LegacyInv, Sized, JobOfSize, Control
<1>2. Now \in Exchange /\ Now.id = NoOrder /\ Now.orders = orders
  BY <1>1, NowExchange, Types
<1>3. job[t].amount \in Nat /\ job[t].gen \in 1..MaxGen
  <2>1. job[t] \in Job /\ MaxGen \in Nat
    BY <1>1, Types
  <2>2. QED
    BY <1>1, <2>1 DEF Job
<1>4. kind \in OrderKind /\ kind \notin {"TP", "SL"}
  BY DEF OrderKind, ExitKind, Thread
<1>5. x \in Exchange /\ Grown(Now, x, kind, job[t].amount, job[t].gen)
  BY <1>1, <1>2, <1>3, <1>4, PlaceGrown
<1>6. x \in Exchange /\ Kept(orders, x.orders) /\ Fresh(orders, x, job[t].gen, job[t].amount)
  BY <1>1, <1>2, <1>3, <1>4, Placed
<1>7. /\ orders' = x.orders /\ orders' \in Seq(Order) /\ Len(orders') <= MaxOrders
      /\ free' \in Nat /\ Fits(orders')
  BY <1>6, ExchangeTaken
<1>8. \A i \in DOMAIN x.orders \ DOMAIN orders : ~x.orders[i].open
  BY <1>2, <1>4, <1>5 DEF Grown
<1>9. OrdersOfSize'
  BY <1>1, <1>6, <1>7, OrdersSized
<1>10. x.id # NoOrder => /\ x.id = Len(x.orders) /\ x.id \in DOMAIN x.orders
                         /\ x.orders[x.id].qty = job[t].amount
  BY <1>5 DEF Grown
<1>11. x.id \in 0..MaxOrders /\ x.orders \in Seq(Order)
  BY <1>6, ExchangeFields
<1>12. QED
  BY <1>6, <1>7, <1>8, <1>9, <1>10, <1>11

\* What a booked result leaves of the position.
LEMMA Booked ==
  ASSUME TypeOK, NEW r \in Result
  PROVE  /\ BookedPositions(r) \in {NoAmount, positions} /\ BookedPositions(r) \in Nat
         /\ BookedHeld(r) \in Nat
<1>1. held \in Nat /\ positions \in Nat /\ r.filled \in Nat
  BY Types DEF Result
<1>2. held > r.filled => held - r.filled \in Nat
  BY <1>1
<1>3. QED
  BY <1>1, <1>2 DEF BookedPositions, BookedHeld, NoAmount

\* The end of a sale, whatever its result.
LEMMA FinishEffect ==
  ASSUME LegacyInv, NEW t \in Thread, Selling(t), NEW r \in Result, Finish(t, r),
         r.ok => r.order \in DOMAIN orders' /\ orders'[r.order].filled = orders'[r.order].qty,
         Kept(orders, orders'), orders' \in Seq(Order), Len(orders') <= MaxOrders,
         free' \in Nat, Fits(orders'), OrdersOfSize',
         \A i \in DOMAIN orders' \ DOMAIN orders : ~orders'[i].open,
         clock' = clock, price' = price, meta' = meta, data' = data, queue' = queue
  PROVE  LegacyInv'
<1>1. /\ TypeOK /\ registry' = FALSE /\ job' = [job EXCEPT ![t] = NoJob]
  BY DEF LegacyInv, Finish, RegistryAfter
<1>2. \/ /\ t = "engine" /\ Goto(t, "pop") /\ results' = Append(results, r)
         /\ gen' = gen /\ positions' = positions /\ held' = held /\ qty' = qty
      \/ /\ t = "caller" /\ Goto(t, "idle") /\ results' = results
         /\ gen' = gen /\ qty' = qty
         /\ positions' = BookedPositions(r) /\ held' = BookedHeld(r)
  BY DEF Finish, engine_state, Thread
<1>3. NoJob \in Job
  BY <1>1, Types DEF NoJob, Job, NoAmount
<1>4. /\ job' \in [Thread -> Job]
      /\ \A u \in Thread : u # t => job'[u] = job[u]
  BY <1>1, <1>3, Types
<1>5. /\ pc' \in PC /\ \A u \in Thread : u # t => pc'[u] = pc[u]
      /\ pc'[t] = IF t = "engine" THEN "pop" ELSE "idle"
  BY <1>1, <1>2, GotoEffect
<1>6. /\ gen' = gen /\ qty' = qty /\ positions' \in {NoAmount, positions}
      /\ positions' \in Nat /\ held' \in Nat
  BY <1>1, <1>2, Booked, Types
<1>7. /\ results' \in Seq(Result) /\ Len(results') <= MaxPerCycle
      /\ t = "engine" => results' # <<>>
      /\ t # "engine" => results' = results
      /\ \A k \in DOMAIN results' : \/ k \in DOMAIN results /\ results'[k] = results[k]
                                    \/ results'[k] = r
  <2>1. results \in Seq(Result) /\ Len(results) <= MaxPerCycle /\ MaxPerCycle \in Nat
    BY <1>1, Types, Bounds
  <2>2. CASE t = "caller"
    BY <1>2, <2>1, <2>2
  <2>3. CASE t = "engine"
    <3>1. Len(results) < MaxPerCycle
      BY <2>3 DEF LegacyInv, Control, Busy, Selling
    <3>2. results' = Append(results, r)
      BY <1>2, <2>3
    <3>3. QED
      BY <2>1, <2>3, <3>1, <3>2
  <2>4. QED
    BY <2>2, <2>3 DEF Thread
<1>8. ~Busy(t)' /\ ~Selling(t)' /\ \A u \in Thread : u # t => Busy(u)' = Busy(u)
                                                         /\ Selling(u)' = Selling(u)
  BY <1>5 DEF Busy, Selling, Thread
<1>9. TypeOK'
  <2>1. gen' \in 0..MaxGen /\ qty' \in Nat /\ meta' \in Protection /\ data' \in Protection
        /\ queue' \in Seq(Signal)
    BY <1>1, <1>6, Types
  <2>2. /\ clock' \in 0..MaxClock /\ price' \in Price /\ registry' \in BOOLEAN
        /\ Len(queue') <= MaxQueue
    BY <1>1, Bounds
  <2>3. QED
    BY <1>4, <1>5, <1>6, <1>7, <2>1, <2>2, TypesNext
<1>10. Control'
  <2>1. Control
    BY DEF LegacyInv
  <2>2. t = "engine" \/ (t = "caller" /\ pc'["engine"] = pc["engine"])
    BY <1>5 DEF Thread
  <2>3. (pc'.engine \in {"restore", "evaluate"} \/ positions' # NoAmount) => gen' > 0
    BY <1>5, <1>6, <2>1, <2>2 DEF Control
  <2>4. pc'.engine \in {"pop", "book"} => results' # <<>>
    BY <1>5, <1>7, <2>1, <2>2 DEF Control
  <2>5. Busy("engine")' => Len(results') < MaxPerCycle
    BY <1>5, <1>7, <1>8, <2>1, <2>2 DEF Control, Thread
  <2>6. \A u \in Thread : Busy(u)' => job'[u].gen > 0
    BY <1>4, <1>8, <2>1 DEF Control
  <2>7. QED
    BY <2>3, <2>4, <2>5, <2>6 DEF Control
<1>11. Exclusive'
  <2>1. \A u \in Thread : ~Selling(u)'
    BY <1>8 DEF LegacyInv, Exclusive, Thread
  <2>2. QED
    BY <1>1, <2>1 DEF Exclusive, IntentEndsWithSale, LockFree, Thread
<1>12. Sized'
  <2>1. Sized
    BY DEF LegacyInv
  <2>2. QueueOfSize'
    BY <1>6, <2>1, SameQueue DEF Sized
  <2>3. \A u \in Thread : Busy(u)' => Busy(u) /\ job'[u] = job[u]
    BY <1>4, <1>8
  <2>4. QED
    BY <1>6, <2>1, <2>2, <2>3, SizedFrame
<1>13. Waiting'
  <2>1. Waiting
    BY DEF LegacyInv
  <2>2. QED
    BY <1>7, <2>1 DEF Waiting, Kept
<1>14. Remembered'
  BY <1>6, RememberedFrame DEF LegacyInv, Remembered
<1>15. QED
  BY <1>9, <1>10, <1>11, <1>12, <1>13, <1>14 DEF LegacyInv

\* Registering the intent under the lock keeps it.
LEMMA BeginInv == \A t \in Thread : LegacyInv /\ BeginSale(t) => LegacyInv'
<1> SUFFICES ASSUME NEW t \in Thread, LegacyInv, BeginSale(t) PROVE LegacyInv'
  OBVIOUS
<1>1. /\ TypeOK /\ pc[t] = "begin" /\ LockFree /\ Goto(t, "ioc")
      /\ clock' = clock /\ price' = price /\ gen' = gen /\ positions' = positions
      /\ held' = held /\ qty' = qty /\ meta' = meta /\ data' = data
      /\ queue' = queue /\ results' = results /\ registry' = TRUE /\ job' = job
      /\ UNCHANGED exchange
  BY DEF LegacyInv, BeginSale, world, engine_state, protection
<1>2. /\ pc' \in PC /\ pc'[t] = "ioc" /\ \A u \in Thread : u # t => pc'[u] = pc[u]
  BY <1>1, GotoEffect DEF Thread
<1>3. /\ orders' = orders /\ orders' \in Seq(Order) /\ Len(orders') <= MaxOrders
      /\ free' \in Nat /\ Fits(orders') /\ Kept(orders, orders')
  BY <1>1, ExchangeFrame
<1>4. TypeOK'
  BY <1>1, <1>2, <1>3, Bounds, Types, TypesNext
<1>5. \A u \in Thread : Busy(u)' => Busy(u)
  BY <1>1, <1>2 DEF Busy
<1>6. Control'
  <2>1. pc'.engine = pc.engine \/ (pc'.engine = "ioc" /\ pc.engine = "begin")
    BY <1>1, <1>2 DEF Thread
  <2>2. Busy("engine")' => Busy("engine")
    BY <1>5 DEF Thread
  <2>3. QED
    BY <1>1, <1>5, <2>1, <2>2 DEF LegacyInv, Control
<1>7. Exclusive'
  BY <1>1, <1>2 DEF Exclusive, IntentEndsWithSale, LockFree, Selling, Thread
<1>8. Sized'
  BY <1>1, <1>3, <1>5, SameSize, SameQueue, SizedFrame DEF LegacyInv, Sized
<1>9. Waiting'
  BY <1>1, <1>3, WaitingAfter DEF LegacyInv
<1>10. Remembered'
  BY <1>1, <1>3, RememberedFrame DEF LegacyInv, Remembered
<1>11. QED
  BY <1>3, <1>4, <1>6, <1>7, <1>8, <1>9, <1>10 DEF LegacyInv

\* The limit order did not close the position: on to the market order.
LEMMA FallbackEffect ==
  ASSUME LegacyInv, NEW t \in Thread, pc[t] = "ioc", Goto(t, "fallback"),
         Kept(orders, orders'), orders' \in Seq(Order), Len(orders') <= MaxOrders,
         free' \in Nat, Fits(orders'), OrdersOfSize',
         \A i \in DOMAIN orders' \ DOMAIN orders : ~orders'[i].open,
         clock' = clock, price' = price, meta' = meta, data' = data, queue' = queue,
         gen' = gen, positions' = positions, held' = held, qty' = qty,
         results' = results, registry' = registry, job' = job
  PROVE  LegacyInv'
<1>1. TypeOK
  BY DEF LegacyInv
<1>2. /\ pc' \in PC /\ pc'[t] = "fallback" /\ \A u \in Thread : u # t => pc'[u] = pc[u]
  BY <1>1, GotoEffect DEF Thread
<1>4. TypeOK'
  BY <1>1, <1>2, Bounds, Types, TypesNext
<1>5. \A u \in Thread : (Busy(u)' <=> Busy(u)) /\ (Selling(u)' <=> Selling(u))
  BY <1>1, <1>2 DEF Busy, Selling
<1>6. Control'
  <2>1. pc'.engine = pc.engine \/ (pc'.engine = "fallback" /\ pc.engine = "ioc")
    BY <1>1, <1>2 DEF Thread
  <2>2. Busy("engine")' => Busy("engine")
    BY <1>5 DEF Thread
  <2>3. QED
    BY <1>1, <1>5, <2>1, <2>2 DEF LegacyInv, Control
<1>7. Exclusive'
  BY <1>5 DEF LegacyInv, Exclusive, IntentEndsWithSale, LockFree, Thread
<1>8. Sized'
  BY <1>5, SameQueue, SizedFrame DEF LegacyInv, Sized
<1>9. Waiting'
  BY WaitingAfter DEF LegacyInv
<1>10. Remembered'
  BY RememberedFrame DEF LegacyInv, Remembered
<1>11. QED
  BY <1>4, <1>6, <1>7, <1>8, <1>9, <1>10 DEF LegacyInv

\* Passing over the limit order keeps it.
LEMMA SkipInv == \A t \in Thread : LegacyInv /\ SkipThin(t) => LegacyInv'
<1> SUFFICES ASSUME NEW t \in Thread, LegacyInv, SkipThin(t) PROVE LegacyInv'
  OBVIOUS
<1>1. /\ pc[t] = "ioc" /\ Goto(t, "fallback")
      /\ clock' = clock /\ price' = price /\ gen' = gen /\ positions' = positions
      /\ held' = held /\ qty' = qty /\ meta' = meta /\ data' = data
      /\ queue' = queue /\ results' = results /\ registry' = registry /\ job' = job
      /\ UNCHANGED exchange
  BY DEF SkipThin, world, engine_state, protection
<1>2. /\ orders' = orders /\ orders' \in Seq(Order) /\ Len(orders') <= MaxOrders
      /\ free' \in Nat /\ Fits(orders') /\ Kept(orders, orders')
  BY <1>1, ExchangeFrame
<1>3. OrdersOfSize'
  BY <1>1, <1>2, SameSize DEF LegacyInv, Sized
<1>4. QED
  BY <1>1, <1>2, <1>3, FallbackEffect

\* The results a sale can end with.
LEMMA ResultTypes ==
  ASSUME LegacyInv, NEW t \in Thread, Busy(t), NEW os \in Seq(Order),
      NEW i \in 0..MaxOrders,
         i # NoOrder => i \in DOMAIN os
  PROVE  /\ Failed(t) \in Result /\ ~Failed(t).ok
         /\ Won(os, i) => /\ ResultOf(t, os, i) \in Result
                          /\ ResultOf(t, os, i).order = i
                          /\ i \in DOMAIN os /\ os[i].filled = os[i].qty
<1>1. job[t].gen \in 1..MaxGen
  <2>1. TypeOK /\ job[t].gen > 0
    BY DEF LegacyInv, Control
  <2>2. job[t] \in Job /\ MaxGen \in Nat
    BY <2>1, Types
  <2>3. QED
    BY <2>1, <2>2 DEF Job
<1>2. NoOrder \in 0..MaxOrders
  BY Types DEF LegacyInv, NoOrder
<1>3. Failed(t) \in Result /\ ~Failed(t).ok
  BY <1>1, <1>2 DEF Failed, Result
<1>4. ASSUME Won(os, i)
      PROVE  /\ ResultOf(t, os, i) \in Result /\ ResultOf(t, os, i).order = i
             /\ i \in DOMAIN os /\ os[i].filled = os[i].qty
  <2>1. i \in DOMAIN os /\ os[i].filled = os[i].qty
    BY <1>4 DEF Won
  <2>2. os[i] \in Order
    BY <2>1
  <2>3. os[i].filled \in Nat
    BY <2>2, OrderFields
  <2>4. Won(os, i) \in BOOLEAN
    BY DEF Won
  <2>5. QED
    BY <1>1, <2>1, <2>3, <2>4 DEF ResultOf, Result
<1>5. QED
  BY <1>3, <1>4

\* The limit order keeps it, whatever of it executes.
LEMMA LimitInv == \A t \in Thread : LegacyInv /\ LimitIOC(t) => LegacyInv'
<1> SUFFICES ASSUME NEW t \in Thread, LegacyInv, LimitIOC(t) PROVE LegacyInv'
  OBVIOUS
<1>1. /\ pc[t] = "ioc"
      /\ clock' = clock /\ price' = price /\ meta' = meta /\ data' = data /\ queue' = queue
  BY DEF LimitIOC, world, protection
<1>2. Busy(t) /\ Selling(t)
  BY <1>1 DEF Busy, Selling
<1>3. PICK x \in Place(Now, t, job[t].amount, job[t].gen) :
        /\ TakeExchange(x)
        /\ IF Won(x.orders, x.id)
           THEN Finish(t, ResultOf(t, x.orders, x.id))
           ELSE Goto(t, "fallback") /\ UNCHANGED <<engine_state, job, results, registry>>
  BY DEF LimitIOC
<1>4. gen' = gen /\ qty' = qty
  BY <1>3 DEF Finish, engine_state
<1>5. /\ x.id \in 0..MaxOrders /\ x.orders \in Seq(Order) /\ orders' = x.orders
      /\ x.id # NoOrder => x.id = Len(orders') /\ x.id \in DOMAIN orders'
      /\ orders' \in Seq(Order) /\ Len(orders') <= MaxOrders /\ free' \in Nat
      /\ Fits(orders') /\ Kept(orders, orders') /\ OrdersOfSize'
      /\ \A i \in DOMAIN orders' \ DOMAIN orders : ~orders'[i].open
  BY <1>2, <1>3, <1>4, SalePlaced
<1>6. CASE Won(x.orders, x.id)
  <2>1. /\ ResultOf(t, x.orders, x.id) \in Result
        /\ ResultOf(t, x.orders, x.id).order = x.id
        /\ x.id \in DOMAIN x.orders /\ x.orders[x.id].filled = x.orders[x.id].qty
    BY <1>2, <1>5, <1>6, ResultTypes
  <2>2. QED
    BY <1>1, <1>2, <1>3, <1>5, <1>6, <2>1, FinishEffect
<1>7. CASE ~Won(x.orders, x.id)
  <2>1. /\ Goto(t, "fallback") /\ gen' = gen /\ positions' = positions /\ held' = held
        /\ qty' = qty /\ job' = job /\ results' = results /\ registry' = registry
    BY <1>3, <1>7 DEF engine_state
  <2>2. QED
    BY <1>1, <1>5, <2>1, FallbackEffect
<1>8. QED
  BY <1>6, <1>7

\* The market order keeps it, whatever of it executes.
LEMMA MarketInv == \A t \in Thread : LegacyInv /\ MarketExit(t) => LegacyInv'
<1> SUFFICES ASSUME NEW t \in Thread, LegacyInv, MarketExit(t) PROVE LegacyInv'
  OBVIOUS
<1>1. /\ pc[t] = "fallback"
      /\ clock' = clock /\ price' = price /\ meta' = meta /\ data' = data /\ queue' = queue
  BY DEF MarketExit, world, protection
<1>2. Busy(t) /\ Selling(t)
  BY <1>1 DEF Busy, Selling
<1>3. PICK x \in Place(Now, "market", job[t].amount, job[t].gen) :
        /\ TakeExchange(x)
        /\ Finish(t, IF Won(x.orders, x.id) THEN ResultOf(t, x.orders, x.id) ELSE Failed(t))
  BY DEF MarketExit
<1>4. gen' = gen /\ qty' = qty
  BY <1>3 DEF Finish, engine_state
<1>5. /\ x.id \in 0..MaxOrders /\ x.orders \in Seq(Order) /\ orders' = x.orders
      /\ x.id # NoOrder => x.id = Len(orders') /\ x.id \in DOMAIN orders'
      /\ orders' \in Seq(Order) /\ Len(orders') <= MaxOrders /\ free' \in Nat
      /\ Fits(orders') /\ Kept(orders, orders') /\ OrdersOfSize'
      /\ \A i \in DOMAIN orders' \ DOMAIN orders : ~orders'[i].open
  BY <1>2, <1>3, <1>4, SalePlaced
<1>6. CASE Won(x.orders, x.id)
  <2>1. /\ ResultOf(t, x.orders, x.id) \in Result
        /\ ResultOf(t, x.orders, x.id).order = x.id
        /\ x.id \in DOMAIN x.orders /\ x.orders[x.id].filled = x.orders[x.id].qty
    BY <1>2, <1>5, <1>6, ResultTypes
  <2>2. QED
    BY <1>1, <1>2, <1>3, <1>5, <1>6, <2>1, FinishEffect
<1>7. CASE ~Won(x.orders, x.id)
  <2>1. Failed(t) \in Result /\ ~Failed(t).ok
    BY <1>2, <1>5, ResultTypes
  <2>2. QED
    BY <1>1, <1>2, <1>3, <1>5, <1>7, <2>1, FinishEffect
<1>8. QED
  BY <1>6, <1>7

\* Booking a result keeps it.
LEMMA BookInv == LegacyInv /\ BookResult => LegacyInv'
<1> SUFFICES ASSUME LegacyInv, BookResult PROVE LegacyInv'
  OBVIOUS
<1> DEFINE next == IF Len(results) = 1 THEN "idle" ELSE "book"
<1>1. /\ TypeOK /\ pc.engine \in {"pop", "book"} /\ results' = Tail(results)
      /\ positions' = BookedPositions(Head(results)) /\ held' = BookedHeld(Head(results))
      /\ Goto("engine", next)
      /\ clock' = clock /\ price' = price /\ gen' = gen /\ qty' = qty
      /\ meta' = meta /\ data' = data /\ queue' = queue /\ registry' = registry /\ job' = job
      /\ UNCHANGED exchange
  BY DEF LegacyInv, BookResult, world, protection
<1>2. next \in {"idle", "book"} /\ (next = "book" => Len(results) # 1)
  OBVIOUS
<1> HIDE DEF next
<1>3. /\ pc' \in PC /\ pc'["engine"] = next /\ pc'["caller"] = pc["caller"]
      /\ pc["engine"] \in {"pop", "book"}
  BY <1>1, <1>2, GotoEffect DEF Thread
<1>4. results \in Seq(Result) /\ results # <<>> /\ Len(results) <= MaxPerCycle
  BY <1>1, Types, Bounds DEF LegacyInv, Control
<1>5. /\ Head(results) \in Result /\ results' \in Seq(Result)
      /\ Len(results') <= MaxPerCycle
      /\ \A k \in DOMAIN results' : k + 1 \in DOMAIN results /\ results'[k] = results[k + 1]
      /\ Len(results) # 1 => results' # <<>>
  <2>1. Len(results) \in Nat /\ Len(results) > 0 /\ MaxPerCycle \in Nat
    BY <1>1, <1>4, Types
  <2>2. /\ Head(results) \in Result /\ results' \in Seq(Result)
        /\ Len(results') = Len(results) - 1
    BY <1>1, <1>4
  <2>3. \A k \in DOMAIN results' : k + 1 \in DOMAIN results /\ results'[k] = results[k + 1]
    BY <1>1, <1>4
  <2>4. Len(results) # 1 => results' # <<>>
    BY <2>1, <2>2
  <2>5. QED
    BY <1>4, <2>1, <2>2, <2>3, <2>4
<1>6. positions' \in {NoAmount, positions} /\ positions' \in Nat /\ held' \in Nat
  BY <1>1, <1>5, Booked
<1>7. /\ orders' = orders /\ orders' \in Seq(Order) /\ Len(orders') <= MaxOrders
      /\ free' \in Nat /\ Fits(orders') /\ Kept(orders, orders')
  BY <1>1, ExchangeFrame
<1>8. TypeOK'
  BY <1>1, <1>3, <1>5, <1>6, <1>7, Bounds, Types, TypesNext
<1>9. Control'
  BY <1>1, <1>2, <1>3, <1>5, <1>6 DEF LegacyInv, Control, Busy, Thread
<1>10. Exclusive'
  BY <1>1, <1>2, <1>3 DEF LegacyInv, Exclusive, IntentEndsWithSale, LockFree, Selling,
      Thread
<1>11. Sized'
  <2>1. /\ Sized /\ OrdersOfSize' /\ QueueOfSize'
        /\ \A t \in Thread : Busy(t)' => Busy(t) /\ job'[t] = job[t]
    BY <1>1, <1>2, <1>3, <1>7, SameSize, SameQueue DEF LegacyInv, Sized, Busy, Thread
  <2>2. QED
    BY <1>1, <1>6, <2>1, SizedFrame
<1>12. Waiting'
  BY <1>5, <1>7 DEF LegacyInv, Waiting
<1>13. Remembered'
  BY <1>1, <1>7, RememberedFrame DEF LegacyInv, Remembered
<1>14. QED
  BY <1>7, <1>8, <1>9, <1>10, <1>11, <1>12, <1>13 DEF LegacyInv

Sold(o, n, b) == [o EXCEPT !.filled = n, !.open = b]
\* An order of which some is sold is the same order otherwise.
LEMMA OrderSold ==
  ASSUME NEW o \in Order, NEW n \in Nat, NEW b \in BOOLEAN
  PROVE  /\ Sold(o, n, b) \in Order /\ Sold(o, n, b).gen = o.gen /\ Sold(o, n, b).qty = o.qty
         /\ Sold(o, n, b).filled = n /\ Sold(o, n, b).doubt = o.doubt
BY DEF Order, Sold

\* A resting order sells: what is waiting to be booked is of orders that sold all already.
LEMMA FillInv == LegacyInv /\ ProtectiveFill => LegacyInv'
<1> SUFFICES ASSUME LegacyInv, ProtectiveFill PROVE LegacyInv'
  OBVIOUS
<1>1. /\ TypeOK /\ Fits(orders)
      /\ clock' = clock /\ price' = price /\ gen' = gen /\ positions' = positions
      /\ held' = held /\ qty' = qty /\ meta' = meta /\ data' = data /\ pc' = pc
      /\ queue' = queue /\ results' = results /\ registry' = registry /\ job' = job
      /\ free' = free
  BY DEF LegacyInv, ProtectiveFill, world, engine_state, protection
<1>2. PICK i \in DOMAIN orders :
        /\ orders[i].open
        /\ \E f \in 1..(orders[i].qty - orders[i].filled) :
             orders' = [orders EXCEPT ![i].filled = @ + f,
                        ![i].open   = orders[i].filled + f < orders[i].qty]
  BY DEF ProtectiveFill
<1>3. PICK f \in 1..(orders[i].qty - orders[i].filled) :
        orders' = [orders EXCEPT ![i].filled = @ + f,
                   ![i].open   = orders[i].filled + f < orders[i].qty]
  BY <1>2
<1> DEFINE o == orders[i]
           b == o.filled + f < o.qty
           new == Sold(o, o.filled + f, b)
<1>4. orders \in Seq(Order) /\ Len(orders) <= MaxOrders
  BY <1>1, Types DEF TypeOK
<1>5. o \in Order
  BY <1>4
<1>6. o.filled \in Nat /\ o.qty \in Nat /\ f \in Nat /\ o.filled + f <= o.qty
      /\ o.filled < o.qty /\ b \in BOOLEAN
  BY <1>3, <1>5, OrderFields
<1>7. orders' = [orders EXCEPT ![i] = new]
  BY <1>3 DEF Sold
<1> HIDE DEF b
<1>8. /\ new \in Order /\ new.gen = o.gen /\ new.qty = o.qty /\ new.filled = o.filled + f
      /\ new.doubt = o.doubt
  <2>1. o.filled + f \in Nat
    BY <1>6
  <2>2. QED
    BY <1>5, <1>6, <2>1, OrderSold
<1> HIDE DEF new
<1>9. /\ orders' \in Seq(Order) /\ Len(orders') <= MaxOrders /\ DOMAIN orders' = DOMAIN orders
      /\ orders'[i] = new /\ \A j \in DOMAIN orders : j # i => orders'[j] = orders[j]
  BY <1>4, <1>7, <1>8
<1>10. \A j \in DOMAIN orders :
         /\ orders'[j].gen = orders[j].gen /\ orders'[j].qty = orders[j].qty
         /\ orders'[j].doubt = orders[j].doubt
         /\ orders'[j].open => orders[j].open
  BY <1>2, <1>8, <1>9
<1>11. Fits(orders')
  <2> SUFFICES ASSUME NEW j \in DOMAIN orders, orders'[j].open
               PROVE  orders'[j].filled <= orders'[j].qty
    BY <1>9 DEF Fits
  <2>1. CASE j = i
    BY <1>6, <1>8, <1>9, <2>1
  <2>2. CASE j # i
    BY <1>1, <1>9, <2>2 DEF Fits
  <2>3. QED
    BY <2>1, <2>2
<1>12. TypeOK'
  BY <1>1, <1>9, Bounds, Types, TypesNext
<1>13. Control'
  BY <1>1 DEF LegacyInv, Control, Busy
<1>14. Exclusive'
  BY <1>1 DEF LegacyInv, Exclusive, IntentEndsWithSale, LockFree, Selling
<1>15. Sized'
  <2>1. OrdersOfSize'
    BY <1>1, <1>9, <1>10 DEF LegacyInv, Sized, OrdersOfSize, OfSize
  <2>2. QED
    BY <1>1, <2>1, SameQueue, SizedFrame DEF LegacyInv, Sized, Busy
<1>16. Waiting'
  <2>1. \A k \in DOMAIN results : results[k].ok => results[k].order # i
    BY <1>6 DEF LegacyInv, Waiting
  <2>2. QED
    BY <1>1, <1>9, <2>1 DEF LegacyInv, Waiting
<1>17. Remembered'
  <2>1. Remembered
    BY DEF LegacyInv
  <2>2. OneProtection'
    BY <1>9, <1>10, <2>1 DEF Remembered, OneProtection
  <2>3. QED
    BY <1>1, <1>9, <1>10, <2>1, <2>2 DEF Remembered, Missing
<1>18. QED
  BY <1>11, <1>12, <1>13, <1>14, <1>15, <1>16, <1>17 DEF LegacyInv

\* The market and the clock.
LEMMA WorldInv == LegacyInv /\ (MarketMoves \/ Tick \/ UNCHANGED vars) => LegacyInv'
<1> SUFFICES ASSUME LegacyInv, MarketMoves \/ Tick \/ UNCHANGED vars PROVE LegacyInv'
  OBVIOUS
<1>1. /\ TypeOK
      /\ gen' = gen /\ positions' = positions
      /\ held' = held /\ qty' = qty /\ data' = data /\ pc' = pc
      /\ queue' = queue /\ results' = results /\ registry' = registry /\ job' = job
      /\ UNCHANGED exchange
  BY DEF LegacyInv, MarketMoves, Tick, vars, world, engine_state, protection
<1>2. clock' \in 0..MaxClock /\ price' \in Price
  <2>1. clock \in 0..MaxClock /\ price \in Price /\ MaxClock \in Nat
    BY <1>1, Bounds, LegacyAssumption
  <2>2. QED
    BY <2>1 DEF MarketMoves, Tick, vars, world
<1>3. /\ meta' \in Protection /\ meta'.tp = meta.tp /\ meta'.sl = meta.sl
      /\ meta'.tp_px = meta.tp_px /\ meta'.sl_px = meta.sl_px
  <2>1. meta \in Protection
    BY <1>1, Types
  <2>2. CASE meta' = meta
    BY <2>1, <2>2
  <2>3. CASE \E still \in {FALSE, meta.cooling} : meta' = [meta EXCEPT !.cooling = still]
    <3>1. PICK still \in {FALSE, meta.cooling} : meta' = [meta EXCEPT !.cooling = still]
      BY <2>3
    <3>2. still \in BOOLEAN
      BY <2>1 DEF Protection
    <3>3. QED
      BY <2>1, <3>1, <3>2 DEF Protection
  <2>4. QED
    BY <2>2, <2>3 DEF MarketMoves, Tick, vars, protection
<1>4. ~Missing(meta') /\ ~Missing(data') /\ Remembered
  BY <1>1, <1>3 DEF LegacyInv, Remembered, Missing
<1>5. /\ orders' = orders /\ orders' \in Seq(Order) /\ Len(orders') <= MaxOrders
      /\ free' \in Nat /\ Fits(orders') /\ Kept(orders, orders')
  BY <1>1, ExchangeFrame
<1>6. TypeOK'
  BY <1>1, <1>2, <1>3, <1>5, Bounds, Types, TypesNext
<1>7. Control'
  BY <1>1 DEF LegacyInv, Control, Busy
<1>8. Exclusive'
  BY <1>1 DEF LegacyInv, Exclusive, IntentEndsWithSale, LockFree, Selling
<1>9. Sized'
  BY <1>1, <1>5, SameSize, SameQueue, SizedFrame DEF LegacyInv, Sized, Busy
<1>10. Waiting'
  BY <1>1, <1>5, WaitingAfter DEF LegacyInv
<1>11. Remembered'
  BY <1>1, <1>3, <1>4, <1>5, RememberedFrame
<1>12. QED
  BY <1>5, <1>6, <1>7, <1>8, <1>9, <1>10, <1>11 DEF LegacyInv

(***************************************************************************)
(* The theorems                                                            *)
(***************************************************************************)

\* The inductive invariant, for every instance and every subset of the faults.
THEOREM LegacyInvariant == Spec => []LegacyInv
<1>1. Init => LegacyInv
  BY InitLegacy
<1>2. LegacyInv /\ [Next]_vars => LegacyInv'
  <2> SUFFICES ASSUME LegacyInv, [Next]_vars PROVE LegacyInv'
    OBVIOUS
  <2>1. CASE Buy
    BY <2>1, BuyInv
  <2>2. CASE ManageSwitch
    BY <2>2, SwitchInv
  <2>3. CASE ManageRestore
    BY <2>3, RestoreInv
  <2>4. CASE ManageEvaluate
    BY <2>4, EvaluateInv
  <2>5. CASE PopSignal
    BY <2>5, PopInv
  <2>6. CASE BookResult
    BY <2>6, BookInv
  <2>7. CASE ExitPosition
    BY <2>7, ExitInv
  <2>8. ASSUME NEW t \in Thread, Sell(t) PROVE LegacyInv'
    BY <2>8, BeginInv, SkipInv, LimitInv, MarketInv DEF Sell
  <2>9. CASE ProtectiveFill
    BY <2>9, FillInv
  <2>10. CASE MarketMoves \/ Tick \/ UNCHANGED vars
    BY <2>10, WorldInv
  <2>11. QED
    BY <2>1, <2>2, <2>3, <2>4, <2>5, <2>6, <2>7, <2>8, <2>9, <2>10 DEF Next
<1>3. QED
  BY <1>1, <1>2, PTL DEF Spec

\* Every variable holds a value of its type: no batch exceeds max_per_cycle, and the
\* account never offers more than it has.
THEOREM LegacyTypes == Spec => []TypeOK
<1>1. LegacyInv => TypeOK
  BY DEF LegacyInv
<1>2. QED
  BY <1>1, LegacyInvariant, PTL

\* position_manager.py:247.  Of one position at most one protective order rests
\* undoubted, over any number of switches, purchases and fills.
THEOREM LegacyOneProtection == Spec => []OneProtection
<1>1. LegacyInv => OneProtection
  BY DEF LegacyInv, Remembered
<1>2. QED
  BY <1>1, LegacyInvariant, PTL

\* exits.py:201.  The registry holds an intent exactly while one of the threads sells.
THEOREM LegacyIntentEnds == Spec => []IntentEndsWithSale
<1>1. LegacyInv => IntentEndsWithSale
  BY DEF LegacyInv, Exclusive
<1>2. QED
  BY <1>1, LegacyInvariant, PTL

\* exits.py:191.  Never do both threads sell at once.
OneSeller == ~(Selling("engine") /\ Selling("caller"))

\* Engine and caller never sell at once, whoever comes first (execute_exit_order).
THEOREM LegacyOneSeller == Spec => []OneSeller
<1>1. LegacyInv => OneSeller
  BY DEF LegacyInv, Exclusive, OneSeller
<1>2. QED
  BY <1>1, LegacyInvariant, PTL

\* position_manager.py:334.  restore_exit_protections never finds anything to restore: no
\* price is ever remembered without its order.
NothingMissing == ~Missing(meta) /\ ~Missing(data)

\* Nothing is missing in any state (restore_exit_protections).
THEOREM LegacyNothingMissing == Spec => []NothingMissing
<1>1. LegacyInv => NothingMissing
  BY DEF LegacyInv, Remembered, NothingMissing
<1>2. QED
  BY <1>1, LegacyInvariant, PTL

\* The step of ForgottenIsSold.
Forgets == positions # NoAmount /\ positions' = NoAmount
SoldBy(i) ==
  /\ Answered(i) /\ orders'[i].filled = orders'[i].qty
  /\ orders'[i].filled = positions \/ orders'[i].gen # gen

\* A sale that the caller ends and that empties the position.
LEMMA CallerSold ==
  ASSUME LegacyInv, Forgets, NEW t \in Thread, LimitIOC(t) \/ MarketExit(t)
  PROVE  \E i \in DOMAIN orders' : SoldBy(i)
<1>1. /\ pc[t] \in {"ioc", "fallback"} /\ Busy(t)
  BY DEF LimitIOC, MarketExit, Busy
<1> DEFINE Ends(x) ==
             /\ TakeExchange(x)
             /\ \/ Won(x.orders, x.id) /\ Finish(t, ResultOf(t, x.orders, x.id))
                \/ ~Won(x.orders, x.id) /\ Finish(t, Failed(t))
                \/ positions' = positions /\ gen' = gen /\ qty' = qty
<1>0. PICK kind \in {t, "market"} :
        \E x \in Place(Now, kind, job[t].amount, job[t].gen) : Ends(x)
  BY DEF LimitIOC, MarketExit, engine_state
<1>2. PICK x \in Place(Now, kind, job[t].amount, job[t].gen) : Ends(x)
  BY <1>0
<1>3. gen' = gen /\ qty' = qty
  BY <1>2 DEF Finish, engine_state
<1>4. /\ x.id \in 0..MaxOrders /\ x.orders \in Seq(Order) /\ orders' = x.orders
      /\ x.id # NoOrder => x.id = Len(orders') /\ x.id \in DOMAIN orders'
      /\ OrdersOfSize'
  BY <1>1, <1>2, <1>3, SalePlaced
<1>5. /\ Failed(t) \in Result /\ ~Failed(t).ok
      /\ Won(x.orders, x.id) => /\ x.id \in DOMAIN x.orders
                                /\ x.orders[x.id].filled = x.orders[x.id].qty
  BY <1>1, <1>4, ResultTypes
<1>6. Won(x.orders, x.id) /\ Finish(t, ResultOf(t, x.orders, x.id))
  <2>1. positions' # positions
    BY DEF Forgets
  <2>2. Finish(t, Failed(t)) => positions' = positions
    BY <1>5 DEF Finish, BookedPositions, engine_state
  <2>3. QED
    BY <1>2, <2>1, <2>2
<1>7. t = "caller" /\ Goto(t, "idle")
  BY <1>6 DEF Finish, engine_state, Forgets, Thread
<1>8. pc.caller # pc'.caller
  BY <1>1, <1>7, GotoEffect DEF LegacyInv, Thread
<1>9. Answered(x.id)
  BY <1>4, <1>6, <1>8 DEF Answered, Won
<1>10. positions = qty
  BY DEF LegacyInv, Sized, Forgets
<1>11. orders'[x.id].filled = positions \/ orders'[x.id].gen # gen
  BY <1>3, <1>4, <1>5, <1>6, <1>10 DEF OrdersOfSize, OfSize
<1>12. QED
  BY <1>4, <1>5, <1>6, <1>9, <1>11 DEF SoldBy

\* A booked result that empties the position.
LEMMA BookedSold ==
  ASSUME LegacyInv, Forgets, BookResult
  PROVE  \E i \in DOMAIN orders' : SoldBy(i)
<1>1. /\ results # <<>> /\ results \in Seq(Result) /\ pc.engine \in {"pop", "book"}
      /\ positions' = BookedPositions(Head(results)) /\ orders' = orders
  BY Types DEF LegacyInv, Control, BookResult, exchange
<1>2. Head(results).ok
  BY <1>1 DEF Forgets, BookedPositions
<1>3. Head(results) = results[1] /\ 1 \in DOMAIN results
  BY <1>1
<1> DEFINE i == Head(results).order
<1>4. i \in DOMAIN orders /\ orders[i].filled = orders[i].qty
  BY <1>2, <1>3 DEF LegacyInv, Waiting
<1>5. Answered(i)
  BY <1>1 DEF Answered
<1>6. positions = qty
  BY DEF LegacyInv, Sized, Forgets
<1>7. orders[i].filled = positions \/ orders[i].gen # gen
  BY <1>4, <1>6 DEF LegacyInv, Sized, OrdersOfSize, OfSize
<1>8. QED
  BY <1>1, <1>4, <1>5, <1>7 DEF SoldBy

\* exits.py:1014.  A position is forgotten only for an order that sold all of it, or for a
\* sale that was not of this position.
THEOREM LegacyForgottenIsSold == Spec => ForgottenIsSold
<1>1. LegacyInv /\ [Next]_vars =>
        [(positions # NoAmount /\ positions' = NoAmount) =>
           \E i \in DOMAIN orders' :
             LET o == orders'[i]
             IN  /\ Answered(i) /\ o.filled = o.qty
                 /\ o.filled = positions \/ o.gen # gen]_vars
  <2> SUFFICES ASSUME LegacyInv, [Next]_vars, Forgets
               PROVE  \E i \in DOMAIN orders' : SoldBy(i)
    BY DEF Forgets, SoldBy
  <2>1. positions' # positions
    BY DEF Forgets
  <2>2. CASE BookResult
    BY <2>2, BookedSold
  <2>3. ASSUME NEW t \in Thread, Sell(t)
        PROVE  \E i \in DOMAIN orders' : SoldBy(i)
    <3>1. ~BeginSale(t) /\ ~SkipThin(t)
      BY <2>1 DEF BeginSale, SkipThin, engine_state
    <3>2. QED
      BY <2>3, <3>1, CallerSold DEF Sell
  <2>4. CASE Buy
    BY <2>4 DEF Buy, Forgets
  <2>5. CASE \/ ManageSwitch \/ ManageRestore \/ ManageEvaluate \/ PopSignal \/ ExitPosition
             \/ ProtectiveFill \/ MarketMoves \/ Tick \/ UNCHANGED vars
    BY <2>1, <2>5 DEF ManageSwitch, ManageRestore, ManageEvaluate, PopSignal,
        ExitPosition,
       ProtectiveFill, MarketMoves, Tick, vars, engine_state
  <2>6. QED
    BY <2>2, <2>3, <2>4, <2>5 DEF Next
<1>2. QED
  BY <1>1, LegacyInvariant, PTL DEF Spec, ForgottenIsSold

(***************************************************************************)
(* The held asset                                                          *)
(***************************************************************************)
\* While the pair has a position, what is held covers it, and no signal, sale or result
\* is of more than the portfolio has ever bought.
Covered ==
  /\ positions # NoAmount => held >= qty
  /\ \A k \in DOMAIN queue : queue[k].amount <= qty
  /\ \A t \in Thread : Busy(t) => job[t].amount <= qty
  /\ \A k \in DOMAIN results : results[k].filled <= qty

\* What a sale reports is no more than it was for.
LEMMA SaleCovered ==
  ASSUME LegacyInv, Covered, NEW t \in Thread, LimitIOC(t) \/ MarketExit(t)
  PROVE  /\ qty' = qty /\ queue' = queue
         /\ \/ UNCHANGED <<positions, held, results, job>> /\ Goto(t, "fallback")
            \/ \E r \in Result : Finish(t, r) /\ r.filled <= qty
<1>1. Busy(t)
  BY DEF LimitIOC, MarketExit, Busy
<1> DEFINE Ends(x) ==
             /\ TakeExchange(x)
             /\ \/ Won(x.orders, x.id) /\ Finish(t, ResultOf(t, x.orders, x.id))
                \/ ~Won(x.orders, x.id) /\ Finish(t, Failed(t))
                \/ /\ positions' = positions /\ gen' = gen /\ qty' = qty /\ held' = held
                   /\ results' = results /\ job' = job /\ Goto(t, "fallback")
<1>0. PICK kind \in {t, "market"} :
        \E x \in Place(Now, kind, job[t].amount, job[t].gen) : Ends(x)
  BY DEF LimitIOC, MarketExit, engine_state
<1>2. PICK x \in Place(Now, kind, job[t].amount, job[t].gen) : Ends(x)
  BY <1>0
<1>3. gen' = gen /\ qty' = qty
  BY <1>2 DEF Finish, engine_state
<1>4. /\ x.id \in 0..MaxOrders /\ x.orders \in Seq(Order)
      /\ x.id # NoOrder => x.id \in DOMAIN x.orders /\ x.orders[x.id].qty = job[t].amount
  BY <1>1, <1>2, <1>3, SalePlaced
<1>5. /\ Failed(t) \in Result /\ Failed(t).filled = 0
      /\ Won(x.orders, x.id) => /\ ResultOf(t, x.orders, x.id) \in Result
                                /\ x.orders[x.id].filled = x.orders[x.id].qty
  BY <1>1, <1>4, ResultTypes DEF Failed
<1>6. job[t].amount <= qty /\ 0 <= qty
  BY <1>1, Types DEF Covered, LegacyInv
<1>7. Won(x.orders, x.id) => ResultOf(t, x.orders, x.id).filled <= qty
  BY <1>4, <1>5, <1>6 DEF Won, ResultOf
<1>8. queue' = queue
  BY DEF LimitIOC, MarketExit
<1>9. QED
  BY <1>2, <1>3, <1>5, <1>6, <1>7, <1>8

\* A position that stays was not sold, and its held asset is not touched.
LEMMA BookedCovered ==
  ASSUME NEW r \in Result, BookedPositions(r) # NoAmount
  PROVE  positions # NoAmount /\ BookedHeld(r) = held
BY DEF BookedPositions, BookedHeld

\* Every step keeps what is held enough.
LEMMA CoveredStep == LegacyInv /\ Covered /\ [Next]_vars => Covered'
<1> SUFFICES ASSUME LegacyInv, Covered, [Next]_vars PROVE Covered'
  OBVIOUS
<1>0. /\ TypeOK /\ qty \in Nat /\ held \in Nat /\ pc \in PC /\ job \in [Thread -> Job]
      /\ queue \in Seq(Signal) /\ results \in Seq(Result)
  BY Types DEF LegacyInv
<1>1. CASE Buy
  <2>1. PICK a \in Lot : qty' = qty + a /\ held' = held + (qty + a)
    BY <1>1 DEF Buy
  <2>2. a \in Nat
    BY LegacyAssumption
  <2>3. qty <= qty' /\ held' >= qty' /\ qty' \in Nat
    BY <1>0, <2>1, <2>2
  <2>4. UNCHANGED <<queue, pc, job, results>>
    BY <1>1 DEF Buy
  <2>5. /\ \A k \in DOMAIN queue : queue[k].amount \in Nat
        /\ \A t \in Thread : job[t].amount \in Nat
        /\ \A k \in DOMAIN results : results[k].filled \in Nat
    <3>1. /\ \A k \in DOMAIN queue : queue[k] \in Signal
          /\ \A t \in Thread : job[t] \in Job
          /\ \A k \in DOMAIN results : results[k] \in Result
      BY <1>0
    <3>2. QED
      BY <3>1 DEF Signal, Job, Result
  <2>6. \A n \in Nat : n <= qty => n <= qty'
    BY <1>0, <2>3
  <2>7. QED
    BY <2>3, <2>4, <2>5, <2>6 DEF Covered, Busy
<1>2. CASE ManageSwitch \/ ManageRestore \/ ManageEvaluate
  <2>1. UNCHANGED <<positions, held, qty, job, results>>
    BY <1>2 DEF ManageSwitch, ManageRestore, ManageEvaluate, engine_state
  <2>2. \E there \in {"restore", "evaluate", "idle"} : Goto("engine", there)
    BY <1>2 DEF ManageSwitch, ManageRestore, ManageEvaluate, EngineAt, Goto
  <2>3. \A t \in Thread : Busy(t)' => Busy(t)
    BY <1>0, <2>2, GotoEffect DEF Busy, Thread
  <2>4. queue' = queue \/ queue' = Append(queue, [amount |-> qty, gen |-> gen])
    BY <1>2 DEF ManageSwitch, ManageRestore, ManageEvaluate, AddSignal
  <2>5. \A k \in DOMAIN queue' : queue'[k].amount <= qty
    <3>1. CASE queue' = queue
      BY <3>1 DEF Covered
    <3>2. CASE queue' = Append(queue, [amount |-> qty, gen |-> gen])
      <4> DEFINE n == [amount |-> qty, gen |-> gen]
      <4>1. n.amount <= qty
        BY <1>0
      <4> HIDE DEF n
      <4>2. queue' = Append(queue, n)
        BY <3>2 DEF n
      <4>3. \A k \in DOMAIN queue' : (k \in DOMAIN queue /\ queue'[k] = queue[k]) \/ queue'[k] = n
        BY <1>0, <4>2
      <4>4. QED
        BY <4>1, <4>3 DEF Covered
    <3>3. QED
      BY <2>4, <3>1, <3>2
  <2>6. QED
    BY <2>1, <2>3, <2>5 DEF Covered
<1>3. CASE PopSignal
  <2>1. /\ UNCHANGED <<positions, held, qty, results>> /\ Goto("engine", "begin")
        /\ queue # <<>> /\ queue' = Tail(queue)
        /\ job' = [job EXCEPT !["engine"] = Head(queue)]
    BY <1>3 DEF PopSignal, engine_state
  <2>2. /\ \A k \in DOMAIN queue' : k + 1 \in DOMAIN queue /\ queue'[k] = queue[k + 1]
        /\ Head(queue) = queue[1] /\ 1 \in DOMAIN queue
    BY <1>0, <2>1
  <2>3. job'["engine"] = queue[1] /\ job'["caller"] = job["caller"]
    BY <1>0, <2>1, <2>2 DEF Thread
  <2>4. pc'["caller"] = pc["caller"]
    BY <1>0, <2>1, GotoEffect DEF Thread
  <2>5. QED
    BY <2>1, <2>2, <2>3, <2>4 DEF Covered, Busy, Thread
<1>4. CASE ExitPosition
  <2>1. /\ UNCHANGED <<positions, held, qty, results, queue>> /\ Goto("caller", "begin")
        /\ positions # NoAmount
        /\ job' = [job EXCEPT !["caller"] = [amount |-> positions, gen |-> gen]]
    BY <1>4 DEF ExitPosition, engine_state
  <2>2. positions = qty /\ qty <= qty
    BY <1>0, <2>1 DEF LegacyInv, Sized
  <2>3. job'["caller"].amount <= qty /\ job'["engine"] = job["engine"]
    BY <1>0, <2>1, <2>2 DEF Thread
  <2>4. pc'["engine"] = pc["engine"]
    BY <1>0, <2>1, GotoEffect DEF Thread
  <2>5. QED
    BY <2>1, <2>3, <2>4 DEF Covered, Busy, Thread
<1>5. ASSUME NEW t \in Thread, BeginSale(t) \/ SkipThin(t) PROVE Covered'
  <2>1. /\ UNCHANGED <<positions, held, qty, results, queue, job>>
        /\ pc[t] \in {"begin", "ioc"} /\ \E there : Goto(t, there)
    BY <1>5 DEF BeginSale, SkipThin, engine_state
  <2>2. \A u \in Thread : Busy(u)' => Busy(u)
    BY <1>0, <2>1, GotoEffect DEF Busy
  <2>3. QED
    BY <2>1, <2>2 DEF Covered
<1>6. ASSUME NEW t \in Thread, LimitIOC(t) \/ MarketExit(t) PROVE Covered'
  <2>1. /\ qty' = qty /\ queue' = queue
        /\ \/ UNCHANGED <<positions, held, results, job>> /\ Goto(t, "fallback")
           \/ \E r \in Result : Finish(t, r) /\ r.filled <= qty
    BY <1>6, SaleCovered
  <2>2. Busy(t)
    BY <1>6 DEF LimitIOC, MarketExit, Busy
  <2>3. CASE UNCHANGED <<positions, held, results, job>> /\ Goto(t, "fallback")
    <3>1. \A u \in Thread : Busy(u)' => Busy(u)
      BY <1>0, <2>2, <2>3, GotoEffect DEF Busy
    <3>2. QED
      BY <2>1, <2>3, <3>1 DEF Covered
  <2>4. ASSUME NEW r \in Result, Finish(t, r), r.filled <= qty PROVE Covered'
    <3>1. /\ job' = [job EXCEPT ![t] = NoJob]
          /\ \E there \in {"pop", "idle"} : Goto(t, there)
      BY <2>4 DEF Finish
    <3>2. \A u \in Thread : Busy(u)' => Busy(u) /\ job'[u] = job[u]
      BY <1>0, <3>1, GotoEffect DEF Busy
    <3>3. CASE t = "engine"
      <4>1. UNCHANGED <<positions, held>> /\ results' = Append(results, r)
        BY <2>4, <3>3 DEF Finish, engine_state
      <4>2. \A k \in DOMAIN results' :
              (k \in DOMAIN results /\ results'[k] = results[k]) \/ results'[k] = r
        BY <1>0, <4>1
      <4>3. QED
        BY <2>1, <2>4, <3>2, <4>1, <4>2 DEF Covered
    <3>4. CASE t # "engine"
      <4>1. /\ results' = results
            /\ positions' = BookedPositions(r) /\ held' = BookedHeld(r)
        BY <2>4, <3>4 DEF Finish
      <4>2. QED
        BY <2>1, <3>2, <4>1, BookedCovered DEF Covered
    <3>5. QED
      BY <3>3, <3>4
  <2>5. QED
    BY <2>1, <2>3, <2>4
<1>7. CASE BookResult
  <2>1. /\ results # <<>> /\ results' = Tail(results) /\ UNCHANGED <<qty, queue, job>>
        /\ positions' = BookedPositions(Head(results)) /\ held' = BookedHeld(Head(results))
        /\ pc.engine \in {"pop", "book"}
        /\ \E there \in {"idle", "book"} : Goto("engine", there)
    BY <1>7 DEF BookResult, LegacyInv, Control
  <2>2. /\ Head(results) \in Result
        /\ \A k \in DOMAIN results' : k + 1 \in DOMAIN results /\ results'[k] = results[k + 1]
    BY <1>0, <2>1
  <2>3. \A u \in Thread : Busy(u)' => Busy(u)
    BY <1>0, <2>1, GotoEffect DEF Busy, Thread
  <2>4. QED
    BY <2>1, <2>2, <2>3, BookedCovered DEF Covered
<1>8. CASE ProtectiveFill \/ MarketMoves \/ Tick \/ UNCHANGED vars
  <2>1. UNCHANGED <<positions, held, qty, queue, pc, job, results>>
    BY <1>8 DEF ProtectiveFill, MarketMoves, Tick, vars, engine_state
  <2>2. QED
    BY <2>1 DEF Covered, Busy
<1>9. QED
  BY <1>1, <1>2, <1>3, <1>4, <1>5, <1>6, <1>7, <1>8 DEF Next, Sell

\* exit_handler.py:209.  While the pair has a position, what is held covers it and every
\* sale that waits to be booked against it.
HeldCovers ==
  positions # NoAmount =>
    held >= positions /\ \A k \in DOMAIN results : results[k].filled <= held

\* While the pair has a position the floor at zero of handle_exit_fill is never reached
\* with an amount to spare: what is booked was held, for every amount bought and over any
\* number of positions.
THEOREM LegacyHeldCovers == Spec => []HeldCovers
<1>1. Init => Covered
  BY DEF Init, Covered, Busy, Thread, NoAmount
<1>2. LegacyInv /\ Covered /\ [Next]_vars => Covered'
  BY CoveredStep
<1>3. LegacyInv /\ Covered => HeldCovers
  <2> SUFFICES ASSUME LegacyInv, Covered, positions # NoAmount
               PROVE  held >= positions /\ \A k \in DOMAIN results : results[k].filled <= held
    BY DEF HeldCovers
  <2>1. positions = qty /\ held >= qty
    BY DEF LegacyInv, Sized, Covered
  <2>2. qty \in Nat /\ held \in Nat /\ results \in Seq(Result)
    BY Types DEF LegacyInv
  <2>3. \A k \in DOMAIN results : results[k].filled \in Nat
    <3>1. \A k \in DOMAIN results : results[k] \in Result
      BY <2>2
    <3>2. QED
      BY <3>1 DEF Result
  <2>4. QED
    BY <2>1, <2>2, <2>3 DEF Covered
<1>4. QED
  BY <1>1, <1>2, <1>3, LegacyInvariant, PTL DEF Spec
=============================================================================
