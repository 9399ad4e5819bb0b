-------------------------- MODULE BuySignalProofs --------------------------
(***************************************************************************)
(* Theorems about BuySignal: its types, and that the pair is only bought   *)
(* after a drop that was seen.                                             *)
(***************************************************************************)
EXTENDS BuySignal, TLAPS

USE DEF Thread

\* What a thread carries through the pipeline.
Carry == [pc : {"idle", "fetched", "noting", "noted", "built", "evaluate"},
          price : Price, now : Time, peak : Price, anchor : 0..MaxPrice + Clamp]

\* A price at least as high as p was seen; at least as high as a, but for the clamp.
Seen(p) == \E k \in Observed : k.price >= p
Allowed(a) == \E k \in Observed : k.price + Clamp >= a

IInv == TypeOK /\ Grounded

-----------------------------------------------------------------------------
(***************************************************************************)
(* Constants, records and the arithmetic of an anchor.                     *)
(***************************************************************************)

\* The constants are numbers, and so are prices, times and anchors.
LEMMA Numbers ==
  /\ {MaxPrice, Drop, Clamp, MaxStartDrop, MaxTime, MaxStarts, StaleAge} \subseteq Nat
  /\ Clamp < Drop
  /\ Price \subseteq Nat /\ Time \subseteq Nat
  /\ 0 \in Price /\ 0 \in Time
  /\ Price \subseteq 0..MaxPrice + Clamp
BY BuySignalAssumption DEF Price, Time

\* What nobody carries, and the absent anchor, are of their types.
LEMMA Empty == Idle \in Carry /\ NoAnchor \in Anchor
BY Numbers DEF Idle, Carry, NoAnchor, Anchor, None

\* The anchor before clamping is at least the session high, hence no negative
\* number, and not above what an anchor may be (compute_anchor).
LEMMA RaisedType ==
  ASSUME NEW peak \in Price, NEW session \in Price, NEW now \in Time, anchors \in Anchor
  PROVE  Raised(peak, session, now) \in 0..MaxPrice + Clamp
BY BuySignalAssumption DEF Raised, Maximum, Price, Anchor, None

\* A clamped anchor is within Clamp of the session high or not above the session's
\* first price (_apply_clamps).
LEMMA ClampedBound ==
  ASSUME NEW a \in 0..MaxPrice + Clamp, NEW session \in Price, first \in Price
  PROVE  /\ Clamped(a, session) \in 0..MaxPrice + Clamp
         /\ Clamped(a, session) <= session + Clamp \/ Clamped(a, session) <= first
BY BuySignalAssumption DEF Clamped, Maximum, Price

\* As long as a run goes on, what was seen stays seen.
LEMMA SeenStays ==
  ASSUME ticks \subseteq ticks', UNCHANGED started
  PROVE  /\ \A p : Seen(p) => Seen(p)'
         /\ \A a : Allowed(a) => Allowed(a)'
<1>1. Observed \subseteq Observed'
  BY DEF Observed
<1> QED
  BY <1>1 DEF Seen, Allowed

-----------------------------------------------------------------------------
(***************************************************************************)
(* Types.                                                                  *)
(***************************************************************************)

\* The initial state is well-formed.
LEMMA InitTypes == Init => TypeOK
<1> SUFFICES ASSUME Init PROVE TypeOK
  OBVIOUS
<1>1. clock \in Time /\ started \in Time /\ starts \in 0..MaxStarts
  BY Numbers DEF Init
<1>2. saved \in Anchor /\ anchors \in Anchor /\ store \in Anchor
  BY Empty DEF Init
<1>3. cycle \in [Thread -> Carry]
  BY Empty DEF Init
<1> QED
  BY <1>1, <1>2, <1>3 DEF Init, TypeOK, Carry

\* The types of the pipeline's steps: what a thread carries is rebuilt at each.
LEMMA PipelineTypes ==
  ASSUME IInv, NEW t \in Thread, Fetch(t) \/ Pipeline(t)
  PROVE  TypeOK'
<1> USE DEF disk, manager, run, world
<1>0. TypeOK /\ Grounded /\ cycle[t] \in Carry /\ cycle \in [Thread -> Carry]
  BY DEF IInv, TypeOK, Carry
<1>1. CASE Fetch(t)
  <2>1. [Idle EXCEPT !.pc = "fetched", !.price = market, !.now = clock] \in Carry
    BY <1>0, Empty DEF TypeOK, Carry, Idle
  <2>2. cycle' \in [Thread -> Carry]
    BY <1>0, <1>1, <2>1 DEF Fetch
  <2> QED
    BY <1>0, <1>1, <2>2 DEF Fetch, TypeOK, Carry
<1>2. CASE Note(t)
  <2>1. PICK peak \in {k.price : k \in Observed} :
          cycle' = [cycle EXCEPT ![t].pc = "noting", ![t].peak = peak,
                                 ![t].price = Maximum(high, cycle[t].price)]
    BY <1>2 DEF Note
  <2>2. peak \in Price /\ Maximum(high, cycle[t].price) \in Price
    BY <1>0, Numbers DEF TypeOK, Observed, Maximum, Carry, None, Price
  <2>3. cycle' \in [Thread -> Carry]
    BY <1>0, <2>1, <2>2 DEF Carry
  <2>4. first' \in Price /\ high' = high
    BY <1>0, <1>2 DEF Note, TypeOK, Carry
  <2>5. first' # None
    BY <2>4, Numbers DEF None
  <2> QED
    BY <1>0, <1>2, <2>3, <2>4, <2>5 DEF Note, TypeOK, Carry
<1>3. CASE WriteHigh(t)
  <2>1. cycle' \in [Thread -> Carry]
    BY <1>0, <1>3, Numbers DEF WriteHigh, Carry
  <2>2. first # None
    BY <1>0, <1>3 DEF WriteHigh, Grounded
  <2> QED
    BY <1>0, <1>3, <2>1, <2>2 DEF WriteHigh, TypeOK, Carry
<1>4. CASE Compute(t)
  <2> DEFINE a == Clamped(Raised(cycle[t].peak, high, cycle[t].now), high)
  <2>1. first # None /\ high # None
    BY <1>0, <1>4 DEF Compute, Grounded
  <2>2. first \in Price /\ high \in Price
    BY <1>0, <2>1 DEF TypeOK
  <2>3. Raised(cycle[t].peak, high, cycle[t].now) \in 0..MaxPrice + Clamp
    BY <1>0, <2>2, RaisedType DEF TypeOK, Carry
  <2>4. a \in 0..MaxPrice + Clamp
    BY <2>2, <2>3, ClampedBound
  <2>5. /\ anchors' = [anchor |-> a, ts |-> cycle[t].now]
        /\ cycle' = [cycle EXCEPT ![t] = [Idle EXCEPT !.pc = "built", !.anchor = a]]
    BY <1>4 DEF Compute
  <2> HIDE DEF a
  <2>6. anchors' \in Anchor
    BY <1>0, <2>4, <2>5 DEF Anchor, Carry
  <2>7. cycle' \in [Thread -> Carry]
    BY <1>0, <2>4, <2>5, Empty DEF Carry, Idle
  <2> QED
    BY <1>0, <1>4, <2>6, <2>7 DEF Compute, TypeOK, Carry
<1>5. CASE Publish(t)
  <2>1. store' \in Anchor /\ saved' \in Anchor
    BY <1>0, <1>5 DEF Publish, TypeOK, Anchor, Carry
  <2>2. cycle' \in [Thread -> Carry]
    BY <1>0, <1>5, Empty DEF Publish, Carry, Idle
  <2> QED
    BY <1>0, <1>5, <2>1, <2>2 DEF Publish, TypeOK, Carry
<1> QED
  BY <1>1, <1>2, <1>3, <1>4, <1>5 DEF Pipeline

\* Every step keeps the types.
LEMMA TypeStep ==
  ASSUME IInv, [Next]_vars
  PROVE  TypeOK'
<1> USE DEF disk, manager, run, world
<1>0. TypeOK /\ Grounded
  BY DEF IInv
<1>1. CASE Passes
  BY <1>0, <1>1, Numbers DEF Passes, TypeOK, Time
<1>2. CASE Ends
  <2>1. cycle' \in [Thread -> Carry] /\ store' \in Anchor /\ anchors' \in Anchor
    BY <1>2, Empty DEF Ends, Forgotten
  <2> QED
    BY <1>0, <1>2, <2>1 DEF Ends, Forgotten, TypeOK, Carry
<1>3. CASE Starts
  <2>1. anchors' \in Anchor
    BY <1>0, <1>3, Empty DEF Starts, Loaded, TypeOK
  <2>2. started' \in Time /\ starts' \in 0..MaxStarts
    BY <1>0, <1>3, Numbers DEF Starts, TypeOK
  <2> QED
    BY <1>0, <1>3, <2>1, <2>2 DEF Starts, TypeOK, Carry
<1>4. CASE WarmStart
  <2>1. PICK since \in Time :
          LET replayed == {k \in Recent : k.ts >= since}
              oldest   == {k \in replayed : \A j \in replayed : k.ts <= j.ts}
              prices   == {k.price : k \in replayed} \cup {high}
          IN IF replayed = {}
             THEN UNCHANGED <<high, first>>
             ELSE /\ high' \in {p \in prices : \A q \in prices : q <= p}
                  /\ first' \in IF first # None THEN {first} ELSE {k.price : k \in oldest}
    BY <1>4 DEF WarmStart
  <2> DEFINE replayed == {k \in Recent : k.ts >= since}
  <2>2. \A k \in replayed : k.price \in Price
    BY <1>0 DEF TypeOK, Recent
  <2>3. CASE replayed = {}
    BY <1>0, <1>4, <2>1, <2>3 DEF WarmStart, TypeOK
  <2>4. CASE replayed # {}
    <3>1. high' \in Price \cup {None}
      BY <1>0, <2>1, <2>2, <2>4 DEF TypeOK
    <3>2. first' \in Price
      BY <1>0, <2>1, <2>2, <2>4 DEF TypeOK
    <3>3. first' # None
      BY <3>2, Numbers DEF None
    <3> QED
      BY <1>0, <1>4, <3>1, <3>2, <3>3 DEF WarmStart, TypeOK
  <2> QED
    BY <2>3, <2>4
<1>5. ASSUME NEW t \in Thread, Fetch(t) \/ Pipeline(t) PROVE TypeOK'
  BY <1>5, PipelineTypes
<1>6. CASE SkipUpdate
  <2>1. cycle' \in [Thread -> Carry]
    BY <1>0, <1>6 DEF SkipUpdate, TypeOK, Carry
  <2> QED
    BY <1>0, <1>6, <2>1 DEF SkipUpdate, TypeOK, Carry
<1>7. CASE Buy
  <2>1. PICK p \in Price : Trigger(p)
    BY <1>7 DEF Buy
  <2>2. cycle' \in [Thread -> Carry]
    BY <1>0, <2>1 DEF Trigger, TypeOK, Carry
  <2>3. anchors' \in Anchor
    BY <1>0, <2>1 DEF Trigger, TypeOK, Anchor
  <2> QED
    BY <1>0, <2>1, <2>2, <2>3 DEF Trigger, TypeOK, Carry
<1>8. CASE PassOver
  <2>1. cycle' \in [Thread -> Carry]
    BY <1>0, <1>8 DEF PassOver, TypeOK, Carry
  <2> QED
    BY <1>0, <1>8, <2>1 DEF PassOver, TypeOK, Carry
<1>9. CASE Sold
  BY <1>0, <1>9 DEF Sold, TypeOK
<1>10. CASE UNCHANGED vars
  BY <1>0, <1>10 DEF vars, TypeOK
<1> QED
  BY <1>1, <1>2, <1>3, <1>4, <1>5, <1>6, <1>7, <1>8, <1>9, <1>10 DEF Next, Main, Loop

-----------------------------------------------------------------------------
(***************************************************************************)
(* What was seen.                                                          *)
(***************************************************************************)

\* A tick that the warm start does not skip, and one just written, are of this
\* run or of the time just before it.
LEMMA RecentIsObserved ==
  ASSUME TypeOK, started <= clock
  PROVE  Recent \subseteq Observed
<1> SUFFICES ASSUME NEW k \in Recent PROVE k \in Observed
  OBVIOUS
<1>1. k.ts \in Nat /\ clock \in Nat /\ started \in Nat /\ StaleAge \in Nat
  BY Numbers DEF TypeOK, Recent
<1> QED
  BY <1>1 DEF Recent, Observed

\* What a thread fetches was seen.
LEMMA FetchedIsSeen ==
  ASSUME IInv, NEW t \in Thread, Fetch(t)
  PROVE  Seen(market)'
<1> DEFINE k == [ts |-> clock, price |-> market]
<1>1. k \in ticks' /\ started' = started /\ market' = market
  BY DEF Fetch, world, run
<1>2. started <= clock /\ {started, clock, market, StaleAge} \subseteq Nat
  BY Numbers DEF IInv, TypeOK, Grounded
<1>3. k \in Observed'
  BY <1>1, <1>2 DEF Observed
<1> QED
  BY <1>1, <1>2, <1>3 DEF Seen

\* Initially nothing is remembered and nothing runs.
LEMMA InitGrounded == Init => Grounded
BY Numbers DEF Init, Grounded, Idle, NoAnchor

\* A thread that notes a price, writes the session high, computes an anchor or
\* publishes it hands on what was seen.
LEMMA PipelineGrounded ==
  ASSUME IInv, NEW t \in Thread, Fetch(t) \/ Pipeline(t)
  PROVE  Grounded'
<1> USE DEF disk, manager, run, world
<1>0. /\ TypeOK /\ Grounded /\ cycle \in [Thread -> Carry] /\ cycle[t] \in Carry
      /\ started <= clock
  BY DEF IInv, TypeOK, Carry, Grounded
<1>1. /\ \A p : Seen(p) => Seen(p)'
      /\ \A a : Allowed(a) => Allowed(a)'
  <2>1. ticks \subseteq ticks' /\ UNCHANGED started
    BY DEF Fetch, Pipeline, Note, WriteHigh, Compute, Publish
  <2> QED
    BY <2>1, SeenStays
<1>2. up
  <2>1. up \/ cycle[t].pc # "idle"
    BY DEF Fetch, Pipeline, Note, WriteHigh, Compute, Publish
  <2>2. ~up => cycle[t] = Idle
    BY <1>0 DEF Grounded
  <2>3. Idle.pc = "idle"
    BY DEF Idle
  <2> QED
    BY <2>1, <2>2, <2>3
<1>3. UNCHANGED <<clock, started, up>>
  BY DEF Fetch, Pipeline, Note, WriteHigh, Compute, Publish
<1>4. CASE Fetch(t)
  <2>1. Seen(market)'
    BY <1>4, FetchedIsSeen
  <2>2. /\ cycle'[t].pc = "fetched" /\ cycle'[t].price = market' /\ UNCHANGED <<high, first, store>>
        /\ \A u \in Thread \ {t} : cycle'[u] = cycle[u]
    BY <1>0, <1>4 DEF Fetch, Idle
  <2> QED
    BY <1>0, <1>1, <1>2, <1>3, <2>1, <2>2 DEF Grounded, Seen, Allowed
<1>5. CASE Note(t)
  <2>1. /\ first' = IF first = None THEN cycle[t].price ELSE first
        /\ cycle'[t].pc = "noting" /\ cycle'[t].price = Maximum(high, cycle[t].price)
        /\ UNCHANGED <<high, store, ticks>>
        /\ \A u \in Thread \ {t} : cycle'[u] = cycle[u]
    BY <1>0, <1>5 DEF Note
  <2>2. Seen(cycle[t].price) /\ (high # None => Seen(high)) /\ (first # None => Seen(first))
    BY <1>0, <1>5 DEF Grounded, Note, Seen
  <2>3. Seen(cycle'[t].price)
    <3>0. cycle[t].price \in Nat
      BY <1>0, Numbers DEF Carry
    <3>1. high = None => Maximum(high, cycle[t].price) = cycle[t].price
      BY <3>0 DEF None, Maximum
    <3> QED
      BY <2>1, <2>2, <3>1 DEF Maximum
  <2>4. Seen(first') /\ first' # None
    BY <1>0, <2>1, <2>2, Numbers DEF Carry, None
  <2>5. Observed' = Observed
    BY <1>3, <2>1 DEF Observed
  <2> QED
    BY <1>0, <1>2, <1>3, <2>1, <2>3, <2>4, <2>5 DEF Grounded, Seen, Allowed
<1>6. CASE WriteHigh(t)
  <2>1. /\ high' = cycle[t].price /\ cycle'[t].pc = "noted" /\ UNCHANGED <<first, store, ticks>>
        /\ \A u \in Thread \ {t} : cycle'[u] = cycle[u]
    BY <1>0, <1>6 DEF WriteHigh
  <2>2. Seen(cycle[t].price) /\ first # None
    BY <1>0, <1>6 DEF Grounded, WriteHigh, Seen
  <2>3. high' # None
    BY <1>0, <2>1, Numbers DEF Carry, None
  <2>4. Observed' = Observed
    BY <1>3, <2>1 DEF Observed
  <2> QED
    BY <1>0, <1>2, <1>3, <2>1, <2>2, <2>3, <2>4 DEF Grounded, Seen, Allowed
<1>7. CASE Compute(t)
  <2> DEFINE a == Clamped(Raised(cycle[t].peak, high, cycle[t].now), high)
  <2>1. /\ high # None /\ first # None
        /\ Seen(high) /\ Seen(first)
    BY <1>0, <1>7 DEF Compute, Grounded, Seen
  <2>2. first \in Price /\ high \in Price
    BY <1>0, <2>1 DEF TypeOK
  <2>3. Raised(cycle[t].peak, high, cycle[t].now) \in 0..MaxPrice + Clamp
    BY <1>0, <2>2, RaisedType DEF TypeOK, Carry
  <2>4. a \in 0..MaxPrice + Clamp /\ (a <= high + Clamp \/ a <= first)
    BY <2>2, <2>3, ClampedBound
  <2>5. /\ cycle'[t].pc = "built" /\ cycle'[t].anchor = a /\ UNCHANGED <<high, first, store, ticks>>
        /\ \A u \in Thread \ {t} : cycle'[u] = cycle[u]
    BY <1>0, <1>7 DEF Compute, Idle
  <2> HIDE DEF a
  <2>6. Allowed(a)
    <3>1. \A k \in Observed : k.price \in Nat
      BY <1>0, Numbers DEF TypeOK, Observed
    <3>2. a \in Nat /\ high \in Nat /\ first \in Nat /\ Clamp \in Nat
      BY <2>2, <2>4, Numbers
    <3> QED
      BY <2>1, <2>4, <3>1, <3>2 DEF Seen, Allowed
  <2>7. Observed' = Observed
    BY <1>3, <2>5 DEF Observed
  <2> QED
    BY <1>0, <1>2, <1>3, <2>5, <2>6, <2>7 DEF Grounded, Seen, Allowed
<1>8. CASE Publish(t)
  <2>1. /\ store' = [anchor |-> cycle[t].anchor, ts |-> clock] /\ Allowed(cycle[t].anchor)
        /\ UNCHANGED <<high, first, ticks>>
    BY <1>0, <1>8 DEF Publish, Grounded, Allowed
  <2>2. /\ cycle'[t].pc \in {"evaluate", "idle"}
        /\ \A u \in Thread \ {t} : cycle'[u] = cycle[u]
    BY <1>0, <1>8 DEF Publish, Idle
  <2>3. Observed' = Observed
    BY <1>3, <2>1 DEF Observed
  <2> QED
    BY <1>0, <1>2, <1>3, <2>1, <2>2, <2>3 DEF Grounded, Allowed
<1> QED
  BY <1>4, <1>5, <1>6, <1>7, <1>8 DEF Pipeline

\* The warm start notes prices that were seen just before this run.
LEMMA WarmStartGrounded == ASSUME IInv, WarmStart PROVE Grounded'
<1> USE DEF disk, manager, run, world
<1>0. TypeOK /\ Grounded /\ started <= clock /\ up
  BY DEF IInv, Grounded, WarmStart
<1>1. Observed' = Observed /\ UNCHANGED <<clock, started, up, store, cycle>>
  BY DEF WarmStart, Observed
<1>2. PICK since \in Time :
        LET replayed == {k \in Recent : k.ts >= since}
            oldest   == {k \in replayed : \A j \in replayed : k.ts <= j.ts}
            prices   == {k.price : k \in replayed} \cup {high}
        IN IF replayed = {}
           THEN UNCHANGED <<high, first>>
           ELSE /\ high' \in {p \in prices : \A q \in prices : q <= p}
                /\ first' \in IF first # None THEN {first} ELSE {k.price : k \in oldest}
  BY DEF WarmStart
<1> DEFINE replayed == {k \in Recent : k.ts >= since}
<1>3. \A k \in replayed : Seen(k.price)
  <2> SUFFICES ASSUME NEW k \in replayed PROVE Seen(k.price)
    OBVIOUS
  <2>1. k \in Observed /\ k.price \in Nat
    BY <1>0, RecentIsObserved, Numbers DEF TypeOK, Recent
  <2> QED
    BY <2>1 DEF Seen
<1>4. CASE replayed = {}
  BY <1>0, <1>1, <1>2, <1>4 DEF Grounded
<1>5. CASE replayed # {}
  <2>1. (high # None => Seen(high)) /\ (first # None => Seen(first))
    BY <1>0 DEF Grounded, Seen
  <2>2. high' # None => Seen(high')
    BY <1>2, <1>3, <1>5, <2>1
  <2>3. Seen(first')
    BY <1>2, <1>3, <1>5, <2>1
  <2>4. high' # None
    <3>1. PICK k \in replayed : k.price <= high'
      BY <1>2, <1>5
    <3>2. k.price \in Nat
      BY <1>0, Numbers DEF TypeOK, Recent
    <3> QED
      BY <3>1, <3>2 DEF None
  <2>5. first' # None
    <3>1. CASE first # None
      BY <1>2, <1>5, <3>1
    <3>2. CASE first = None
      <4>1. PICK k \in replayed : first' = k.price
        BY <1>2, <1>5, <3>2
      <4>2. k.price \in Nat
        BY <1>0, Numbers DEF TypeOK, Recent
      <4> QED
        BY <4>1, <4>2 DEF None
    <3> QED
      BY <3>1, <3>2
  <2> QED
    BY <1>0, <1>1, <2>2, <2>3, <2>4, <2>5 DEF Grounded, Seen, Allowed
<1> QED
  BY <1>4, <1>5

\* Every step keeps what is remembered within what was seen.
LEMMA GroundedStep ==
  ASSUME IInv, [Next]_vars
  PROVE  Grounded'
<1> USE DEF disk, manager, run, world
<1>0. /\ TypeOK /\ Grounded /\ started <= clock
      /\ cycle \in [Thread -> Carry]
  BY DEF IInv, TypeOK, Carry, Grounded
<1>1. CASE Passes
  <2>1. clock \in Nat /\ started \in Nat
    BY <1>0, Numbers DEF TypeOK
  <2>2. started' <= clock' /\ Observed' = Observed
    BY <1>0, <1>1, <2>1 DEF Passes, Observed
  <2> QED
    BY <1>0, <1>1, <2>2 DEF Passes, Grounded
<1>2. CASE Ends
  BY <1>0, <1>2 DEF Ends, Forgotten, Grounded, Idle
<1>3. CASE Starts
  <2>1. clock \in Nat
    BY <1>0, Numbers DEF TypeOK
  <2> QED
    BY <1>0, <1>3, <2>1 DEF Starts, Grounded, Idle
<1>4. CASE WarmStart
  BY <1>4, WarmStartGrounded
<1>5. ASSUME NEW t \in Thread, Fetch(t) \/ Pipeline(t) PROVE Grounded'
  BY <1>5, PipelineGrounded
<1>6. CASE SkipUpdate \/ Buy \/ PassOver
  <2>1. /\ UNCHANGED <<clock, started, up, high, first, store, ticks>> /\ up
        /\ cycle'["main"].pc \in {"evaluate", "idle"}
        /\ \A u \in Thread \ {"main"} : cycle'[u] = cycle[u]
    <3> DEFINE Moved(pc) == cycle' = [cycle EXCEPT !["main"].pc = pc]
    <3>1. /\ UNCHANGED <<clock, started, up, high, first, store, ticks>> /\ up
          /\ Moved("evaluate") \/ Moved("idle")
      <4>1. CASE SkipUpdate
        BY <4>1 DEF SkipUpdate
      <4>2. CASE Buy
        BY <4>2 DEF Buy, Trigger
      <4>3. CASE PassOver
        BY <4>3 DEF PassOver
      <4> QED
        BY <1>6, <4>1, <4>2, <4>3
    <3>2. cycle["main"] \in Carry
      BY <1>0
    <3> QED
      BY <1>0, <3>1, <3>2 DEF Carry
  <2>2. Observed' = Observed
    BY <2>1 DEF Observed
  <2> QED
    BY <1>0, <2>1, <2>2 DEF Grounded
<1>7. CASE Sold \/ UNCHANGED vars
  <2>1. Observed' = Observed /\ UNCHANGED <<clock, started, up, high, first, store, cycle>>
    BY <1>7 DEF Sold, vars, Observed
  <2> QED
    BY <1>0, <2>1 DEF Grounded
<1> QED
  BY <1>1, <1>2, <1>3, <1>4, <1>5, <1>6, <1>7 DEF Next, Main, Loop

-----------------------------------------------------------------------------
(***************************************************************************)
(* Theorems.                                                               *)
(***************************************************************************)

\* The inductive invariant.
THEOREM SignalInvariant == Spec => []IInv
<1>1. Init => IInv
  BY InitTypes, InitGrounded DEF IInv
<1>2. IInv /\ [Next]_vars => IInv'
  BY TypeStep, GroundedStep DEF IInv
<1> QED
  BY <1>1, <1>2, PTL DEF Spec

\* Prices, anchors and what the two threads carry stay what they are, in every run
\* (market data pipeline, AnchorManager).
THEOREM SignalTypes == Spec => []TypeOK
<1>1. IInv => TypeOK
  BY DEF IInv
<1> QED
  BY <1>1, SignalInvariant, PTL

\* The session's prices and the published anchor are bounded by a price that was
\* seen (note_price, _apply_clamps, _on_drop_snapshots).
THEOREM SignalGrounded == Spec => []Grounded
<1>1. IInv => Grounded
  BY DEF IInv
<1> QED
  BY <1>1, SignalInvariant, PTL

\* The pair is only bought after a drop that was seen in this run or just before it,
\* whatever anchor was loaded or reset, however the two threads overwrite each
\* other, and whatever the percentages (evaluate_buy_signal, compute_anchor).
THEOREM BuyFollowsDrop == Spec => BuyIsADrop
<1>1. IInv /\ [Next]_vars =>
        [\A p \in Price : Trigger(p) => \E k \in Observed : k.price + Clamp >= p + Drop]_vars
  <2> SUFFICES ASSUME IInv, NEW p \in Price, Trigger(p)
               PROVE  \E k \in Observed : k.price + Clamp >= p + Drop
    OBVIOUS
  <2>1. store # NoAnchor /\ p <= store.anchor - Drop
    BY DEF Trigger, Triggered
  <2>2. PICK k \in Observed : k.price + Clamp >= store.anchor
    BY <2>1 DEF IInv, Grounded
  <2>3. k.price \in Nat
    BY Numbers DEF IInv, TypeOK, Observed
  <2>4. store.anchor \in Int
    <3>1. store.anchor \in Price \cup {None} \cup 0..MaxPrice + Clamp
      BY DEF IInv, TypeOK, Anchor
    <3>2. Price \cup {None} \cup 0..MaxPrice + Clamp \subseteq Int
      <4>1. None \in Int
        BY DEF None
      <4>2. 0..MaxPrice + Clamp \subseteq Int
        OBVIOUS
      <4> QED
        BY <4>1, <4>2, Numbers
    <3> QED
      BY <3>1, <3>2
  <2>5. p \in Nat /\ Clamp \in Nat /\ Drop \in Nat
    BY Numbers
  <2> QED
    BY <2>1, <2>2, <2>3, <2>4, <2>5
<1> QED
  BY <1>1, SignalInvariant, PTL DEF Spec, BuyIsADrop
=============================================================================
