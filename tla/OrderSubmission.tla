--------------------------- MODULE OrderSubmission ---------------------------
(***************************************************************************)
(* Client order ids: services/order_service.py submits orders under ids of *)
(* core/coid.py, whose store survives restarts, to an exchange that        *)
(* refuses an id it has seen before.                                       *)
(*                                                                         *)
(* An id is made for a decision and reused until the order it names is     *)
(* known to have ended.  Every operation of COIDManager runs under its     *)
(* lock and is one action, with the attempt to save the store that ends    *)
(* it; the retry loop of OrderService is cut at its calls of the exchange. *)
(* A save that fails is only logged, so the file may lag the store, and a  *)
(* file or an entry that cannot be read back is left out.                  *)
(***************************************************************************)
EXTENDS Naturals, FiniteSets, Functions

CONSTANTS Thread,      \* threads that submit orders
          Decision,    \* decision id, leg and side of an order, in one
          MaxClock,    \* bound: ids ever made
          MaxAttempts, \* OrderService.max_retries
          Faults       \* what goes wrong in this instance

ASSUME SubmissionAssumption ==
  /\ MaxClock \in Nat
  /\ MaxAttempts \in Nat \ {0}
  /\ Faults \subseteq {"lost_response", "delayed", "crash", "save_fails", "load_fails"}

\* {decision_id}_{leg_idx}_{side}_{timestamp_ms}, at most one per millisecond.
Coid == [decision : Decision, ts : 1..MaxClock]

\* COIDStatus, and those of its values that are terminal.
COIDStatus == {"pending", "filled", "partially_filled", "canceled", "rejected",
               "expired", "unknown"}
Terminal   == {"filled", "canceled", "rejected", "expired"}

\* What a COIDEntry remembers besides its id; order_id says whether it is known.
COIDEntry == [status : COIDStatus, order_id : BOOLEAN]

\* How an order stands at the exchange; an answer may leave the status out.
OrderStatus == {"open", "closed", "canceled", "rejected", "expired"}
Reported    == OrderStatus \cup {"missing"}

\* The locals of a call of submit_limit or submit_market.
Call == [coid : Coid, attempt : 1..MaxAttempts, answer : Reported \cup {"awaited"}]

VARIABLES
  store,    \* COIDManager._store
  disk,     \* the store as last saved, in the file
  clock,    \* the time stamp of the newest id
  starting, \* nothing was submitted since the process started
  calls,    \* the call each busy thread is in
  orders,   \* exchange: the orders it took, by id
  executed, \* exchange: the ids of those that executed something
  inflight, \* ids whose requests have timed out and may still arrive
  told,     \* history: ids whose order the caller was told of, or startup found
  presumed, \* history: ids that reconcile_with_exchange took for expired
  lapsed    \* history: ids that a restart forgot unfinished, or took up again

exchange == <<orders, executed, inflight>>
vars == <<store, disk, clock, starting, calls, exchange, told, presumed, lapsed>>

\* f with x mapped to v.
With(f, x, v) == [y \in DOMAIN f \cup {x} |-> IF y = x THEN v ELSE f[y]]
Empty == [x \in {} |-> x]

\* Every variable holds values of its type; the exchange knows the orders the
\* callers were told of.
TypeOK ==
  /\ DOMAIN store \subseteq Coid /\ DOMAIN disk \subseteq Coid
  /\ \A c \in DOMAIN store : store[c] \in COIDEntry
  /\ \A c \in DOMAIN disk : disk[c] \in COIDEntry
  /\ clock \in 0..MaxClock
  /\ starting \in BOOLEAN
  /\ DOMAIN calls \subseteq Thread
  /\ \A t \in DOMAIN calls : calls[t] \in Call
  /\ DOMAIN orders \subseteq Coid
  /\ \A c \in DOMAIN orders : orders[c] \in OrderStatus
  /\ executed \subseteq DOMAIN orders
  /\ inflight \subseteq Coid
  /\ told \subseteq DOMAIN orders
  /\ presumed \subseteq Coid /\ lapsed \subseteq Coid

Init ==
  /\ store = Empty /\ disk = Empty
  /\ clock = 0
  /\ starting = TRUE
  /\ calls = Empty
  /\ orders = Empty /\ executed = {} /\ inflight = {}
  /\ told = {} /\ presumed = {} /\ lapsed = {}

-----------------------------------------------------------------------------
(***************************************************************************)
(* COIDManager.                                                            *)
(***************************************************************************)
is_terminal(c) == store[c].status \in Terminal

\* The ids that are reused when their decision is submitted again.
Unfinished == {c \in DOMAIN store : ~is_terminal(c)}

\* Mutant: an id whose order startup could not name is not taken up again.
PendingCoidByStatus(d) == {c \in DOMAIN store : c.decision = d /\ store[c].status = "pending"}

\* _find_pending_coid, as the set of what it may find.
PendingCoid(d) == {c \in Unfinished : c.decision = d}

\* _save_store, at the end of every operation: an error is swallowed, and the file
\* stays as it was.
Save ==
  \/ disk' = store'
  \/ "save_fails" \in Faults /\ UNCHANGED disk

\* next_client_order_id: the decision's unfinished id, or a new one.
NextCoid(d, c) ==
  \/ /\ c \in PendingCoid(d)
     /\ UNCHANGED <<store, clock>>
  \/ /\ PendingCoid(d) = {}
     /\ clock < MaxClock
     /\ clock' = clock + 1
     /\ c = [decision |-> d, ts |-> clock + 1]
     /\ store' = With(store, c, [status |-> "pending", order_id |-> FALSE])

\* Mutant: the exchange's word is stored as it comes.
AnsweredRaw(r) == r

\* _map_order_status_to_coid.
AnsweredStatus(r) ==
  CASE r = "closed" -> "filled"
    [] r \in {"canceled", "rejected", "expired"} -> r
    [] OTHER -> "pending"

\* _map_exchange_status, which differs where the status is left out.
ReconciledStatus(r) == IF r = "missing" THEN "unknown" ELSE AnsweredStatus(r)

\* An order may be reported without its status.
Reports(c) == {orders[c], "missing"}

\* What reconcile_with_exchange makes of a pending entry: an order whose exchange
\* id is known is fetched, any other is looked for among the open ones, and when
\* it is not there it is taken for expired.
ReconciledEntries(c) ==
  IF store[c].order_id \/ (c \in DOMAIN orders /\ orders[c] = "open")
  THEN {[status |-> ReconciledStatus(r), order_id |-> TRUE] : r \in Reports(c)}
  ELSE {[status |-> "expired", order_id |-> FALSE]}

\* cleanup_old_entries: entries that may have ended more than a week ago.
OldEntries == {c \in DOMAIN store : is_terminal(c)}

\* Mutant: every entry is reconciled, not the pending ones.
ReconcileAll ==
  /\ starting
  /\ \E c \in DOMAIN store : \E e \in ReconciledEntries(c) :
       /\ store' = [store EXCEPT ![c] = e]
       /\ told' = IF e.order_id THEN told \cup {c} ELSE told
       /\ presumed' = IF e.order_id THEN presumed ELSE presumed \cup {c}
  /\ Save
  /\ UNCHANGED <<clock, starting, calls, exchange, lapsed>>

\* The store with the entries of done reconciled to e and those of gone dropped.
After(done, e, gone) ==
  [c \in DOMAIN store \ gone |-> IF c \in done THEN e[c] ELSE store[c]]

\* The store is saved after each entry of ok and once old ones are gone; a save that
\* fails leaves the file at an earlier one.
SaveEach(ok, e, old) ==
  \/ disk' = IF ok \cup old = {} THEN disk ELSE After(ok, e, old)
  \/ /\ "save_fails" \in Faults
     /\ disk' \in {disk} \cup {After(done, e, {}) : done \in (SUBSET ok) \ {{}}}

\* reconcile_pending_coids, on startup, unless all entries have ended: pending
\* ones are reconciled, except where the query fails, and old ones dropped.
Reconcile ==
  /\ starting
  /\ Unfinished # {}
  /\ \E ok \in SUBSET {c \in DOMAIN store : store[c].status = "pending"},
        old \in SUBSET OldEntries :
       \E e \in [ok -> UNION {ReconciledEntries(c) : c \in ok}] :
         /\ \A c \in ok : e[c] \in ReconciledEntries(c)
         /\ store' = After(ok, e, old)
         /\ SaveEach(ok, e, old)
         /\ told' = told \cup {c \in ok : e[c].order_id}
         /\ presumed' = presumed \cup {c \in ok : ~e[c].order_id}
  /\ UNCHANGED <<clock, starting, calls, exchange, lapsed>>

-----------------------------------------------------------------------------
(***************************************************************************)
(* OrderService: submit_limit and submit_market.                           *)
(***************************************************************************)

\* The call gets its id; if price or quantity cannot be quantized it ends here.
Submit(t, d) ==
  /\ t \notin DOMAIN calls
  /\ \E c \in Coid :
       /\ NextCoid(d, c)
       /\ \/ calls' = With(calls, t, [coid |-> c, attempt |-> 1, answer |-> "awaited"])
          \/ UNCHANGED calls
  /\ Save
  /\ starting' = FALSE
  /\ UNCHANGED <<exchange, told, presumed, lapsed>>

Return(t) == calls' = Restrict(calls, DOMAIN calls \ {t})

Awaiting(t) == t \in DOMAIN calls /\ calls[t].answer = "awaited"

\* The exchange takes an order under id c, which it has not seen before.
TakeOrder(c) ==
  /\ c \notin DOMAIN orders
  /\ \E st \in OrderStatus, ex \in BOOLEAN :
       /\ st = "closed" => ex
       /\ st = "rejected" => ~ex
       /\ orders' = With(orders, c, st)
       /\ executed' = IF ex THEN executed \cup {c} ELSE executed

\* create_limit_order or create_market_order returns the order.
SendAnswered(t) ==
  /\ Awaiting(t)
  /\ TakeOrder(calls[t].coid)
  /\ \E r \in {orders'[calls[t].coid], "missing"} : calls' = [calls EXCEPT ![t].answer = r]
  /\ UNCHANGED <<store, disk, clock, starting, inflight, told, presumed, lapsed>>

\* An error that is not retried: the order is refused, or its id is a duplicate.
SendRefused(t) ==
  /\ Awaiting(t)
  /\ Return(t)
  /\ UNCHANGED <<store, disk, clock, starting, exchange, told, presumed, lapsed>>

\* Mutant: a call that gives up ends its id.
SendFailsForGood(t) ==
  LET c == calls[t].coid
  IN  /\ Awaiting(t)
      /\ \/ UNCHANGED exchange
         \/ "lost_response" \in Faults /\ TakeOrder(c) /\ UNCHANGED inflight
         \/ /\ "delayed" \in Faults
            /\ inflight' = inflight \cup {c}
            /\ UNCHANGED <<orders, executed>>
      /\ IF calls[t].attempt < MaxAttempts
         THEN calls' = [calls EXCEPT ![t].attempt = @ + 1] /\ UNCHANGED <<store, disk>>
         ELSE Return(t) /\ store' = [store EXCEPT ![c].status = "rejected"] /\ Save
      /\ UNCHANGED <<clock, starting, told, presumed, lapsed>>

\* A network error, a rate limit or an unknown error: the exchange never got the
\* order, or took it, or will.  The next attempt reuses the id; after the last
\* one the call returns without success.
SendFails(t) ==
  LET c == calls[t].coid
  IN  /\ Awaiting(t)
      /\ \/ UNCHANGED exchange
         \/ "lost_response" \in Faults /\ TakeOrder(c) /\ UNCHANGED inflight
         \/ /\ "delayed" \in Faults
            /\ inflight' = inflight \cup {c}
            /\ UNCHANGED <<orders, executed>>
      /\ IF calls[t].attempt < MaxAttempts
         THEN calls' = [calls EXCEPT ![t].attempt = @ + 1]
         ELSE Return(t)
      /\ UNCHANGED <<store, disk, clock, starting, told, presumed, lapsed>>

\* _parse_order_response: update_status, if the id is still known, and return.
Record(t) ==
  LET c == calls[t].coid
      e == [status |-> AnsweredStatus(calls[t].answer), order_id |-> TRUE]
  IN  /\ t \in DOMAIN calls /\ ~Awaiting(t)
      /\ IF c \in DOMAIN store
         THEN store' = [store EXCEPT ![c] = e] /\ Save
         ELSE UNCHANGED <<store, disk>>
      /\ told' = told \cup {c}
      /\ Return(t)
      /\ UNCHANGED <<clock, starting, exchange, presumed, lapsed>>

\* The process dies and starts again: _load_store reads the file back, without
\* the entries it cannot parse, and without any when it cannot read the file.
Crash ==
  /\ "crash" \in Faults
  /\ \E kept \in SUBSET DOMAIN disk :
       /\ kept # DOMAIN disk => "load_fails" \in Faults
       /\ store' = Restrict(disk, kept)
  /\ calls' = Empty
  /\ starting' = TRUE
  /\ lapsed' = lapsed \cup (Unfinished \ Unfinished') \cup (Unfinished' \ Unfinished)
  /\ UNCHANGED <<disk, clock, exchange, told, presumed>>

-----------------------------------------------------------------------------
(***************************************************************************)
(* The exchange.                                                           *)
(***************************************************************************)
Arrive(c) ==
  /\ c \in inflight
  /\ inflight' = inflight \ {c}
  /\ \/ TakeOrder(c)
     \/ c \in DOMAIN orders /\ UNCHANGED <<orders, executed>>
  /\ UNCHANGED <<store, disk, clock, starting, calls, told, presumed, lapsed>>

\* An open order executes, in part or to its end, or ends otherwise.
Proceed(c) ==
  /\ orders[c] = "open"
  /\ \E st \in OrderStatus \ {"rejected"}, ex \in BOOLEAN :
       /\ st = "closed" => ex
       /\ orders' = [orders EXCEPT ![c] = st]
       /\ executed' = IF ex THEN executed \cup {c} ELSE executed
  /\ UNCHANGED <<store, disk, clock, starting, calls, inflight, told, presumed, lapsed>>

-----------------------------------------------------------------------------
Next ==
  \/ \E t \in Thread :
       \/ \E d \in Decision : Submit(t, d)
       \/ SendAnswered(t) \/ SendRefused(t) \/ SendFails(t) \/ Record(t)
  \/ Reconcile \/ Crash
  \/ \E c \in inflight : Arrive(c)
  \/ \E c \in DOMAIN orders : Proceed(c)

Spec == Init /\ [][Next]_vars

-----------------------------------------------------------------------------
(***************************************************************************)
(* Properties.                                                             *)
(***************************************************************************)

\* A decision has at most one unfinished id.
OneUnfinished == \A c1, c2 \in Unfinished : c1.decision = c2.decision => c1 = c2

\* Two orders of one decision are not open at once, unless startup took the older
\* one for expired, or a restart had lost its entry or the end of it.
OneOpen == \A c1, c2 \in DOMAIN orders :
  /\ c1.decision = c2.decision /\ c1.ts < c2.ts
  /\ orders[c1] = "open" /\ orders[c2] = "open"
  => c1 \in presumed \cup lapsed

\* Whichever threads submit a decision, and across restarts from a file that may
\* lag or be unreadable, it has at most one unfinished id; it has one open order,
\* too, but for ids that startup or a restart gave up (next_client_order_id, under
\* the manager's lock; submit).
OneAtATime == OneUnfinished /\ OneOpen

\* A decision executes under a second id only if the first order had been reported,
\* or startup had taken it for expired, or a restart had lost what became of its id.
Reexecuted(c1, c2) ==
  c1 \in executed /\ c2 \in executed /\ c1.decision = c2.decision /\ c1.ts < c2.ts

SecondExecutionExplained ==
  \A c1, c2 \in executed : Reexecuted(c1, c2) => c1 \in told \cup presumed \cup lapsed

\* The code does not have this property (README, 4.3).
\* No decision is executed a second time before the first order is known of
\* (startup_reconcile.py: "Ensures no duplicate orders after crash/restart").
NoDuplicateExecution ==
  \A c1, c2 \in executed : Reexecuted(c1, c2) => c1 \in told

\* The file has the end of c.
EndedOnDisk(c) == c \in DOMAIN disk /\ disk[c].status \in Terminal

\* An id that has ended stays ended: no late answer and no reconciliation takes it
\* back; only a restart does, from a file that a failed save left without the end
\* (is_terminal, update_status, _load_store).
TerminalIsFinal ==
  [][\A c \in DOMAIN store \cap DOMAIN store' :
       is_terminal(c) =>
         \/ store'[c] = store[c]
         \/ starting' /\ calls' = Empty /\ ~EndedOnDisk(c) /\ store'[c] = disk[c]]_vars
=============================================================================
