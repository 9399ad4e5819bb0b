----------------------------- MODULE BuySignal -----------------------------
(***************************************************************************)
(* When the bot buys a pair: the price anchor and the drop trigger.        *)
(*                                                                         *)
(* Two threads run the market data pipeline of the pair without a common   *)
(* lock, the polling loop of the market data and the engine's own main     *)
(* loop (services/market_data.py, update_market_data).  Each fetches the   *)
(* price, writes it to the tick file, and tells the rolling window and the *)
(* anchor manager (market/anchor_manager.py); what comes of it is an       *)
(* anchor, published in a snapshot.  The main loop compares the price with *)
(* the anchor of the last snapshot (services/buy_signals.py) and buys when *)
(* it is low enough, upon which the anchor is set to the price paid.       *)
(* The anchors are saved now and then, and after a restart read again, and *)
(* the ticks of the runs before are noted once more (warm start).          *)
(*                                                                         *)
(* Prices are levels of a logarithmic scale, on which a percentage is a    *)
(* number of levels.  Every pair has state of its own; the model has one.  *)
(* The configured mode of the anchor is 4, no confirmation is asked for    *)
(* (CONFIRM_TICKS is 0), every market guard is off, and the pair is not    *)
(* one of the three the fallback feed of the interface writes snapshots    *)
(* for.                                                                    *)
(***************************************************************************)
EXTENDS Integers

CONSTANTS
  MaxPrice,      \* the highest level
  Drop,          \* DROP_TRIGGER_VALUE and PREDICTIVE_BUY_ZONE_PCT, in levels
  Clamp,         \* ANCHOR_CLAMP_MAX_ABOVE_PEAK_PCT, in levels
  MaxStartDrop,  \* ANCHOR_MAX_START_DROP_PCT, in levels
  StaleAge,      \* ANCHOR_STALE_MINUTES
  MaxAge,        \* ANCHOR_MAX_AGE_HOURS
  SnapshotTtl,   \* SNAPSHOT_STALE_TTL_S
  CacheTtl,      \* how long get_price takes a cached price
  MaxTime,       \* bound on the clock
  MaxStarts      \* bound on the number of runs

Price == 0..MaxPrice
Time == 0..MaxTime
Thread == {"main", "loop"}

ASSUME BuySignalAssumption ==
  /\ {MaxPrice, Drop, Clamp, MaxStartDrop, MaxTime, MaxStarts} \subseteq Nat
  /\ {StaleAge, MaxAge, SnapshotTtl, CacheTtl} \subseteq Nat
  /\ Clamp < Drop

VARIABLES
  clock, market,  \* the time, and the price at the exchange
  ticks,          \* the tick file of the pair
  saved,          \* anchors.json
  started,        \* when this run began
  starts,         \* number of runs
  up,             \* whether the program runs
  warm,           \* whether the polling loop has done its warm start
  high,           \* _session_high
  first,          \* _session_start
  anchors,        \* _anchors
  store,          \* drop_snapshot_store
  position,       \* whether the pair is held
  cycle           \* where each thread is in its pipeline

disk == <<ticks, saved>>
manager == <<high, first, anchors>>
run == <<started, starts, up, warm>>
world == <<clock, market>>
vars == <<world, disk, run, manager, store, position, cycle>>

Maximum(a, b) == IF a >= b THEN a ELSE b

None == -1
NoAnchor == [anchor |-> None, ts |-> 0]

\* No anchor is above the highest price by more than Clamp.
Anchor == [anchor : Price \cup {None} \cup 0..MaxPrice + Clamp, ts : Time]

Idle == [pc |-> "idle", price |-> 0, now |-> 0, peak |-> 0, anchor |-> 0]

TypeOK ==
  /\ clock \in Time /\ market \in Price
  /\ ticks \subseteq [ts : Time, price : Price]
  /\ saved \in Anchor
  /\ started \in Time /\ starts \in 0..MaxStarts
  /\ up \in BOOLEAN /\ warm \in BOOLEAN
  /\ high \in Price \cup {None} /\ first \in Price \cup {None}
  /\ first = None => high = None
  /\ anchors \in Anchor /\ store \in Anchor
  /\ position \in BOOLEAN
  /\ cycle \in [Thread -> [pc : {"idle", "fetched", "noting", "noted", "built", "evaluate"},
                           price : Price, now : Time, peak : Price, anchor : 0..MaxPrice + Clamp]]

\* What a process has in memory when it starts.
Forgotten ==
  /\ high' = None /\ first' = None
  /\ store' = NoAnchor
  /\ cycle' = [t \in Thread |-> Idle]
  /\ warm' = FALSE

Init ==
  /\ clock = 0 /\ market \in Price
  /\ ticks = {} /\ saved = NoAnchor
  /\ started = 0 /\ starts = 0 /\ up = FALSE /\ warm = FALSE
  /\ high = None /\ first = None /\ anchors = NoAnchor
  /\ store = NoAnchor
  /\ position = FALSE
  /\ cycle = [t \in Thread |-> Idle]

-----------------------------------------------------------------------------
(***************************************************************************)
(* The world: the price moves as time passes, and the process may be       *)
(* killed.                                                                 *)
(***************************************************************************)
Passes ==
  /\ clock < MaxTime
  /\ clock' = clock + 1
  /\ market' \in Price
  /\ UNCHANGED <<disk, run, manager, store, position, cycle>>

Ends ==
  /\ up /\ up' = FALSE
  /\ Forgotten
  /\ anchors' = NoAnchor
  /\ UNCHANGED <<world, disk, started, starts, position>>

\* _load: an anchor that is too old is left out.
Loaded == IF saved # NoAnchor /\ clock - saved.ts > MaxAge THEN NoAnchor ELSE saved

\* The anchors are read; a position of the last run was sold at startup.
Starts ==
  /\ ~up /\ starts < MaxStarts
  /\ up' = TRUE /\ starts' = starts + 1 /\ started' = clock
  /\ anchors' = Loaded
  /\ position' = FALSE
  /\ UNCHANGED <<world, disk, warm, high, first, store, cycle>>

-----------------------------------------------------------------------------
(***************************************************************************)
(* The pipeline.                                                           *)
(***************************************************************************)

\* Ticks the warm start does not skip for their age.
Recent == {k \in ticks : clock - k.ts <= StaleAge}

\* The polling loop, before its first cycle, notes the last ticks of the file, as
\* many as its limit and the rotation of the file leave.
WarmStart ==
  /\ up /\ ~warm /\ warm' = TRUE
  /\ \E since \in Time :
       LET replayed == {k \in Recent : k.ts >= since}
           oldest   == {k \in replayed : \A j \in replayed : k.ts <= j.ts}
           prices   == {k.price : k \in replayed} \cup {high}
       IN IF replayed = {}
          THEN UNCHANGED <<high, first>>
          ELSE /\ high' \in {p \in prices : \A q \in prices : q <= p}
               /\ first' \in IF first # None THEN {first} ELSE {k.price : k \in oldest}
  /\ UNCHANGED <<world, disk, started, starts, up, anchors, store, position, cycle>>

\* A cycle notes the time, gets the price and appends it to the tick file.
Fetch(t) ==
  /\ up /\ cycle[t].pc = "idle" /\ (t = "loop" => warm)
  /\ ticks' = ticks \cup {[ts |-> clock, price |-> market]}
  /\ cycle' = [cycle EXCEPT ![t] = [Idle EXCEPT !.pc = "fetched", !.price = market, !.now = clock]]
  /\ UNCHANGED <<world, saved, run, manager, store, position>>

\* A tick of this run, or one of the time just before it.
Observed == {k \in ticks : k.ts + StaleAge >= started}

\* Mutant: the session start is not noted.
NoteNoStart(t) ==
  /\ cycle[t].pc = "fetched"
  /\ \E peak \in {k.price : k \in Observed} :
       cycle' = [cycle EXCEPT ![t].pc = "noting", ![t].peak = peak,
                              ![t].price = Maximum(high, cycle[t].price)]
  /\ UNCHANGED <<world, disk, run, manager, store, position>>

\* The rolling window is told, and its peak read; note_price reads the session
\* high.  The window is saved and loaded with what is left of its lookback, which
\* is shorter than StaleAge, the warm start replaces it, two threads add to it, and
\* as it is then not ordered by time it may keep what is older than the lookback:
\* its peak is taken to be any price it may have been told.
Note(t) ==
  /\ cycle[t].pc = "fetched"
  /\ first' = IF first = None THEN cycle[t].price ELSE first
  /\ \E peak \in {k.price : k \in Observed} :
       cycle' = [cycle EXCEPT ![t].pc = "noting", ![t].peak = peak,
                              ![t].price = Maximum(high, cycle[t].price)]
  /\ UNCHANGED <<world, disk, run, high, anchors, store, position>>

\* Mutant: the clamp at the peak is left out.
ClampedBelowOnly(a, session) == Maximum(a, first - MaxStartDrop)

\* _apply_clamps, first from above, then from below.
Clamped(a, session) ==
  LET below == IF a > session + Clamp THEN session + Clamp ELSE a
  IN  Maximum(below, first - MaxStartDrop)

\* Mutant: the anchor starts from the old one alone.
RaisedFromOld(peak, session, now) ==
  IF anchors = NoAnchor \/ now - anchors.ts > StaleAge THEN peak ELSE anchors.anchor

\* The anchor before clamping: it does not fall, unless it is stale.
Raised(peak, session, now) ==
  LET base == Maximum(session, peak)
  IN  IF anchors = NoAnchor \/ now - anchors.ts > StaleAge
      THEN base ELSE Maximum(base, anchors.anchor)

\* note_price writes the session high it has computed from what it read, over
\* what the other thread may have written since.
WriteHigh(t) ==
  /\ cycle[t].pc = "noting"
  /\ high' = cycle[t].price
  /\ cycle' = [cycle EXCEPT ![t].pc = "noted", ![t].price = 0]
  /\ UNCHANGED <<world, disk, run, first, anchors, store, position>>

\* compute_anchor, whose session high may be the other thread's by now.
Compute(t) ==
  /\ cycle[t].pc = "noted"
  /\ LET a == Clamped(Raised(cycle[t].peak, high, cycle[t].now), high)
     IN /\ anchors' = [anchor |-> a, ts |-> cycle[t].now]
        /\ cycle' = [cycle EXCEPT ![t] = [Idle EXCEPT !.pc = "built", !.anchor = a]]
  /\ UNCHANGED <<world, disk, run, high, first, store, position>>

\* The snapshot is published and stored with the time of its arrival; every
\* twentieth time the anchors are saved.
Publish(t) ==
  /\ cycle[t].pc = "built"
  /\ store' = [anchor |-> cycle[t].anchor, ts |-> clock]
  /\ saved' \in {saved, anchors}
  /\ cycle' = [cycle EXCEPT ![t] = [Idle EXCEPT !.pc = IF t = "main" THEN "evaluate" ELSE "idle"]]
  /\ UNCHANGED <<world, ticks, run, manager, position>>

-----------------------------------------------------------------------------
(***************************************************************************)
(* The main loop.                                                          *)
(***************************************************************************)

\* A cycle of the main loop in which no new market data is due, or none came.
SkipUpdate ==
  /\ up /\ cycle["main"].pc = "idle"
  /\ cycle' = [cycle EXCEPT !["main"].pc = "evaluate"]
  /\ UNCHANGED <<world, disk, run, manager, store, position>>

\* get_price: a price fetched so recently that the cache still holds it, or a new
\* one.
CurrentPrice ==
  {market} \cup {k.price : k \in {j \in ticks : j.ts >= started /\ clock - j.ts <= CacheTtl}}

\* evaluate_buy_signal.
Triggered(p) ==
  store # NoAnchor /\ clock - store.ts <= SnapshotTtl /\ p <= store.anchor - Drop

\* The trigger is hit, and an order sent unless slots or budget are used up.  When
\* it is filled the pair is held and its anchor reset to the price paid.
Trigger(p) ==
  /\ up /\ cycle["main"].pc = "evaluate" /\ ~position
  /\ p \in CurrentPrice /\ Triggered(p)
  /\ cycle' = [cycle EXCEPT !["main"].pc = "idle"]
  /\ \/ position' = TRUE /\ anchors' = [anchor |-> p, ts |-> clock]
     \/ UNCHANGED <<position, anchors>>
  /\ UNCHANGED <<world, disk, run, high, first, store>>

\* The pair is held already, or the trigger is not hit.
PassOver ==
  /\ up /\ cycle["main"].pc = "evaluate"
  /\ position \/ \E p \in CurrentPrice : ~Triggered(p)
  /\ cycle' = [cycle EXCEPT !["main"].pc = "idle"]
  /\ UNCHANGED <<world, disk, run, manager, store, position>>

\* An exit has sold the position.
Sold ==
  /\ up /\ position /\ cycle["main"].pc = "idle"
  /\ position' = FALSE
  /\ UNCHANGED <<world, disk, run, manager, store, cycle>>

-----------------------------------------------------------------------------
Pipeline(t) == Note(t) \/ WriteHigh(t) \/ Compute(t) \/ Publish(t)
Buy == \E p \in Price : Trigger(p)

Main == Fetch("main") \/ Pipeline("main") \/ SkipUpdate \/ Buy \/ PassOver
Loop == WarmStart \/ Fetch("loop") \/ Pipeline("loop")

Next == Passes \/ Ends \/ Starts \/ Main \/ Loop \/ Sold

\* Both threads go on for as long as the process runs.
Fairness == WF_vars(Main) /\ WF_vars(Loop)

Spec == Init /\ [][Next]_vars
FairSpec == Spec /\ Fairness

-----------------------------------------------------------------------------
(***************************************************************************)
(* Properties.                                                             *)
(***************************************************************************)

\* The inductive invariant behind BuyIsADrop: the session's prices, whatever a
\* thread carries through the pipeline and the anchor that is published are bounded
\* by a price that was seen, and nothing of them outlives the process.
Grounded ==
  /\ started <= clock
  /\ ~up => high = None /\ first = None /\ store = NoAnchor /\ \A t \in Thread : cycle[t] = Idle
  /\ high # None => \E k \in Observed : k.price >= high
  /\ first # None => \E k \in Observed : k.price >= first
  /\ store # NoAnchor => \E k \in Observed : k.price + Clamp >= store.anchor
  /\ \A t \in Thread :
       /\ cycle[t].pc \in {"fetched", "noting"} => \E k \in Observed : k.price >= cycle[t].price
       /\ cycle[t].pc \in {"noting", "noted"} => first # None
       /\ cycle[t].pc = "noted" => high # None
       /\ cycle[t].pc = "built" => \E k \in Observed : k.price + Clamp >= cycle[t].anchor

\* The pair is only bought after a drop that was seen: some price fetched in this
\* run, or at most ANCHOR_STALE_MINUTES before it, was above the price of the
\* trigger by the drop, less what the clamp allows.  An anchor of an earlier run,
\* a reset anchor and two threads that overwrite each other's session high do not
\* change that (compute_anchor, _load, _warm_start, evaluate_buy_signal).
BuyIsADrop ==
  [][\A p \in Price : Trigger(p) => \E k \in Observed : k.price + Clamp >= p + Drop]_vars

\* A lasting drop is not missed: when the market stays below the session high by
\* the drop, the trigger is hit again and again for as long as the pair is not held,
\* although two threads publish snapshots of different times over each other and an
\* anchor was reset or loaded (update_market_data, compute_anchor).
DropTriggers ==
  \A p \in Price :
    <>[](up /\ ~position /\ market = p /\ high >= p + Drop) => []<><<Buy>>_vars
=============================================================================
