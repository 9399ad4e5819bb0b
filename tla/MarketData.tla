---------------------------- MODULE MarketData ----------------------------
(***************************************************************************)
(* The market data feed: services/market_data.py with the ticker cache     *)
(* (services/cache_ttl.py) and the request coalescing                      *)
(* (services/market_data/coalescing.py).                                   *)
(*                                                                         *)
(* Two kinds of threads ask for tickers.  A cycler runs                    *)
(* update_market_data: it asks for the symbols in batches and hands those  *)
(* the batches do not bring to a pool of workers, one for each symbol,     *)
(* which call get_ticker with retries.  A reader calls get_price.  Every   *)
(* get_ticker runs under the lock of its provider, but the coalescing      *)
(* cache is one for the process: with FSM_MODE "both" the trading engine   *)
(* and the FSM engine have a provider each, and threads of both may ask    *)
(* for the same symbol at once.                                            *)
(*                                                                         *)
(* A ticker is the time the exchange answered it, so that its age is       *)
(* visible.  The time at which anything happens is a small number that     *)
(* stops at MaxTime.  The exchange client's calls, with the retries of     *)
(* its own, return an answer or raise an error; an error is "bad" when     *)
(* its text says that the exchange does not know the symbol.  The rate     *)
(* limiter, whose acquire raises after five seconds without a token, is    *)
(* one of the ways a fetch raises.                                         *)
(***************************************************************************)
EXTENDS Naturals, FiniteSets

CONSTANTS
  Sym,              \* symbols
  BatchSize,        \* MARKET_DATA_BATCH_SIZE
  Cycler,           \* threads that run update_market_data
  Reader,           \* threads that call get_price
  Foreign,          \* the readers that belong to the other provider
  Ttl,              \* MD_CACHE_TTL_MS
  MaxRetries,       \* MARKET_DATA_MAX_RETRIES
  Threshold,        \* MARKET_DATA_FAILURE_DEGRADE_THRESHOLD
  DegradeInterval,  \* MARKET_DATA_DEGRADE_INTERVAL_S
  MaxTime           \* bound on the clock

ASSUME FeedAssumption ==
  /\ IsFiniteSet(Sym) /\ Sym # {}
  /\ Foreign \subseteq Reader
  /\ Reader \cap (Cycler \X Sym) = {} /\ <<>> \notin Reader    \* the threads are told apart
  /\ {BatchSize, Ttl, MaxRetries, Threshold, DegradeInterval, MaxTime} \subseteq Nat
  /\ BatchSize > 0 /\ Threshold > 0

VARIABLES
  now,        \* the clock
  owner,      \* MarketDataProvider._lock of each provider
  cache,      \* ticker_cache of each provider
  inflight,   \* CoalescingCache._in_flight
  call,       \* the get_ticker call of each thread
  cycle,      \* the update_market_data call of each cycler
  lastError,  \* _last_fetch_errors
  failures,   \* _failure_counts
  degraded,   \* _degraded_until
  bad,        \* _bad_symbols_skip_list
  streak      \* observer: failures recorded since a symbol's last success

vars == <<now, owner, cache, inflight, call, cycle, lastError,
          failures, degraded, bad, streak>>
recordVars == <<failures, degraded, bad, streak>>

Time == 0..MaxTime
Never == MaxTime + DegradeInterval + 1     \* no time: nothing there
Error == {"none", "error", "bad"}
Provider == {"engine", "fsm"}
Worker == Cycler \X Sym
Thread == Worker \cup Reader

ProviderOf(t) == IF t \in Foreign THEN "fsm" ELSE "engine"

(***************************************************************************)
(* State                                                                   *)
(***************************************************************************)

Nobody == <<>>
NoEntry == [taken |-> Never, stored |-> Never]
NoRequest == [state |-> "none", taken |-> Never, error |-> "none", waiters |-> 0]
NewRequest == [state |-> "pending", taken |-> Never, error |-> "none", waiters |-> 1]

\* A call that is not under way.  answer is the ticker of the last call, error
\* what a worker has recorded as its last error, left its retries.
Resting(s) == [pc |-> "rest", sym |-> s, began |-> 0, shared |-> FALSE,
               answer |-> Never, error |-> "none", left |-> 0]

IdleCycle == [phase |-> "idle", at |-> 0, rest |-> {},
              missing |-> {}, got |-> [s \in Sym |-> Never]]

Entry == [taken : Time \cup {Never}, stored : Time \cup {Never}]

\* The waiters of a request are the thread that fetched it and at most one of
\* each provider.
Request == [state : {"none", "pending", "completed", "failed"},
            taken : Time \cup {Never}, error : Error, waiters : 0..3]

Call == [pc : {"rest", "want", "fetch", "wait", "returned"}, sym : Sym, began : Time,
         shared : BOOLEAN, answer : Time \cup {Never}, error : Error, left : 0..MaxRetries]

Cycle == [phase : {"idle", "batch", "fallback"}, at : Time, rest : SUBSET Sym,
          missing : SUBSET Sym, got : [Sym -> Time \cup {Never}]]

TypeOK ==
  /\ now \in Time
  /\ owner \in [Provider -> Thread \cup {Nobody}]
  /\ cache \in [Provider -> [Sym -> Entry]]
  /\ inflight \in [Sym -> Request]
  /\ call \in [Thread -> Call]
  /\ cycle \in [Cycler -> Cycle]
  /\ lastError \in [Sym -> Error]
  /\ failures \in [Sym -> 0..Threshold]
  /\ degraded \in [Sym -> 0..Never]
  /\ bad \subseteq Sym
  /\ streak \in [Sym -> 0..Threshold]

Init ==
  /\ now = 0
  /\ owner = [p \in Provider |-> Nobody]
  /\ cache = [p \in Provider |-> [s \in Sym |-> NoEntry]]
  /\ inflight = [s \in Sym |-> NoRequest]
  /\ call = [t \in Thread |-> Resting(IF t \in Worker THEN t[2] ELSE CHOOSE s \in Sym : TRUE)]
  /\ cycle = [c \in Cycler |-> IdleCycle]
  /\ lastError = [s \in Sym |-> "none"]
  /\ failures = [s \in Sym |-> 0]
  /\ degraded = [s \in Sym |-> Never]
  /\ bad = {}
  /\ streak = [s \in Sym |-> 0]

Tick ==
  /\ now < MaxTime
  /\ now' = now + 1
  /\ UNCHANGED <<owner, cache, inflight, call, cycle, lastError, recordVars>>

(***************************************************************************)
(* The ticker cache.  A hit and a stale hit are served alike, and neither  *)
(* is refreshed, so the soft limit plays no part.                          *)
(***************************************************************************)

\* Mutant: an entry is served however old it is.
AliveMutated(e) == e # NoEntry

Alive(e) == e # NoEntry /\ now - e.stored <= Ttl

Stored(ticker) == [taken |-> ticker, stored |-> now]

(***************************************************************************)
(* CoalescingCache.get_or_fetch.  The caller that finds no request for its *)
(* key creates one and fetches; any other joins the request it finds,      *)
(* whatever its state.  A fetcher counts itself among the waiters and      *)
(* never takes itself off, and a request is only forgotten when nobody     *)
(* waits for it.                                                           *)
(***************************************************************************)

Joined(r) ==
  IF r.state = "none" THEN NewRequest
                      ELSE [r EXCEPT !.waiters = @ + 1]

\* What the caller does: fetch, or wait for the one who does.
Role(s) == IF inflight[s].state = "none" THEN "fetch" ELSE "wait"

\* Mutant: a waiter leaves without taking itself off.
LeftRequestMutated(r) == r

\* The request once a waiter has left it, in the finally of its branch.  The
\* cleanup thread of the fetcher makes the same test 0.1 s after the fetch, and
\* as the fetcher is counted it does nothing: it is no step of its own.
LeftRequest(r) ==
  IF r.waiters = 1 /\ r.state # "pending" THEN NoRequest ELSE [r EXCEPT !.waiters = @ - 1]

\* InFlightRequest.fail: the waiters wake up to the error.
Failed(r, e) == [r EXCEPT !.state = "failed", !.error = e]

\* InFlightRequest.complete.
Completed(r) == [r EXCEPT !.state = "completed", !.taken = now]

(***************************************************************************)
(* get_ticker and get_price                                                *)
(***************************************************************************)

\* The call returns what it got and gives the provider's lock back.  A worker
\* has its result still to look at.
Returned(t, ticker) ==
  [call EXCEPT ![t] = [@ EXCEPT !.pc = IF t \in Worker THEN "returned" ELSE "rest",
                                !.answer = ticker]]

Release(t) == owner' = [owner EXCEPT ![ProviderOf(t)] = Nobody]

\* get_price serves what the cache has, without the provider's lock, and calls
\* get_ticker otherwise.
GetPrice(t, s) ==
  LET e == cache[ProviderOf(t)][s] IN
  /\ t \in Reader
  /\ call[t].pc = "rest"
  /\ call' = [call EXCEPT ![t] =
                IF Alive(e)
                THEN [Resting(s) EXCEPT !.began = now, !.answer = e.taken]
                ELSE [Resting(s) EXCEPT !.pc = "want"]]
  /\ UNCHANGED <<now, owner, cache, inflight, cycle, lastError, recordVars>>

\* get_ticker takes the provider's lock.  A reader looks into the cache (a
\* worker is called with use_cache=False); then the call joins or starts the
\* request for its symbol.
Enter(t) ==
  LET s == call[t].sym
      p == ProviderOf(t)
      hit == t \in Reader /\ Alive(cache[p][s]) IN
  /\ call[t].pc = "want"
  /\ owner[p] = Nobody
  /\ IF hit
     THEN /\ call' = [call EXCEPT ![t] = [@ EXCEPT !.pc = "rest", !.began = now,
                                                   !.answer = cache[p][s].taken]]
          /\ UNCHANGED <<owner, inflight>>
     ELSE /\ owner' = [owner EXCEPT ![p] = t]
          /\ call' = [call EXCEPT ![t] = [@ EXCEPT !.pc = Role(s), !.began = now,
                                                   !.shared = TRUE]]
          /\ inflight' = [inflight EXCEPT ![s] = Joined(@)]
  /\ UNCHANGED <<now, cache, cycle, lastError, recordVars>>

\* A ticker came back, from the caller's own fetch or from the request it
\* joined: it is cached and returned, and the symbol's error forgotten.
Succeed(t, ticker) ==
  LET s == call[t].sym IN
  /\ cache' = [cache EXCEPT ![ProviderOf(t)][s] = Stored(ticker)]
  /\ call' = Returned(t, ticker)
  /\ lastError' = IF t \in Foreign THEN lastError ELSE [lastError EXCEPT ![s] = "none"]
  /\ Release(t)

\* get_ticker catches every error, notes it and returns None.
Fail(t, e) ==
  /\ call' = Returned(t, Never)
  /\ lastError' = IF t \in Foreign THEN lastError ELSE [lastError EXCEPT ![call[t].sym] = e]
  /\ Release(t)
  /\ UNCHANGED cache

\* The exchange answers the fetcher.
FetchAnswers(t) ==
  LET s == call[t].sym IN
  /\ call[t].pc = "fetch"
  /\ inflight' = [inflight EXCEPT ![s] = Completed(@)]
  /\ Succeed(t, now)
  /\ UNCHANGED <<now, cycle, recordVars>>

\* The fetch raises: the exchange refuses, the client gives up, or the rate
\* limiter has no token for five seconds.
FetchRaises(t, e) ==
  LET s == call[t].sym IN
  /\ call[t].pc = "fetch"
  /\ inflight' = [inflight EXCEPT ![s] = Failed(@, e)]
  /\ Fail(t, e)
  /\ UNCHANGED <<now, cycle, recordVars>>

\* A waiter finds the request over and shares its outcome.
Wake(t) ==
  LET s == call[t].sym
      r == inflight[s] IN
  /\ call[t].pc = "wait"
  /\ r.state \in {"completed", "failed"}
  /\ inflight' = [inflight EXCEPT ![s] = LeftRequest(@)]
  /\ IF r.state = "completed" THEN Succeed(t, r.taken) ELSE Fail(t, r.error)
  /\ UNCHANGED <<now, cycle, recordVars>>

\* Mutant: wait() is called without its timeout.
GivesUpMutated(t) == FALSE

\* request.wait(timeout_s=5) may return before the fetch is over.
GivesUp(t) == inflight[call[t].sym].state = "pending"

WaitTimesOut(t) ==
  /\ call[t].pc = "wait"
  /\ GivesUp(t)
  /\ inflight' = [inflight EXCEPT ![call[t].sym] = LeftRequest(@)]
  /\ Fail(t, "error")
  /\ UNCHANGED <<now, cycle, recordVars>>

(***************************************************************************)
(* update_market_data                                                      *)
(***************************************************************************)

\* _is_degraded: the skip list, or a delay that is not over.
IsDegraded(s) == s \in bad \/ (degraded[s] # Never /\ now < degraded[s])

\* The call starts: symbols in the skip list or delayed are left out (and
\* reported as updated); a delay that is over is dropped.
StartCycle(c) ==
  /\ cycle[c].phase = "idle"
  /\ cycle' = [cycle EXCEPT ![c] =
                 [IdleCycle EXCEPT !.phase = "batch", !.at = now,
                                   !.rest = {s \in Sym : ~IsDegraded(s)}]]
  /\ degraded' = [s \in Sym |-> IF s \notin bad /\ degraded[s] <= now
                                THEN Never ELSE degraded[s]]
  /\ UNCHANGED <<now, owner, cache, inflight, call, lastError,
                 failures, bad, streak>>

\* Mutant: the failures of a symbol are not forgotten when it answers.
ClearedFailuresMutated(S) == failures

\* _record_success for the symbols of S.
ClearedFailures(S) == [s \in Sym |-> IF s \in S THEN 0 ELSE failures[s]]

RecordSuccess(S) ==
  /\ failures' = ClearedFailures(S)
  /\ degraded' = [s \in Sym |-> IF s \in S THEN Never ELSE degraded[s]]
  /\ streak' = [s \in Sym |-> IF s \in S THEN 0 ELSE streak[s]]
  /\ UNCHANGED bad

\* Beyond Threshold the failures need not be told apart.
OneMore(n) == IF n < Threshold THEN n + 1 ELSE n

\* _record_failure, with the time at which the cycle began: an unknown symbol
\* is skipped for good, any other is delayed once it has failed often enough.
RecordFailure(s, e, at) ==
  IF e = "bad"
  THEN /\ bad' = bad \cup {s}
       /\ UNCHANGED <<failures, degraded, streak>>
  ELSE LET count == OneMore(failures[s]) IN
       /\ failures' = [failures EXCEPT ![s] = count]
       /\ degraded' = [degraded EXCEPT ![s] =
                         IF count >= Threshold /\ @ = Never
                         THEN at + DegradeInterval ELSE @]
       /\ streak' = [streak EXCEPT ![s] = OneMore(@)]
       /\ UNCHANGED bad

\* The batches that may be next: BatchSize of the symbols not yet asked for, or
\* all of them.  Their order is left open.
Batches(c) ==
  LET rest == cycle[c].rest IN
  IF Cardinality(rest) <= BatchSize THEN {rest} \ {{}}
  ELSE {B \in SUBSET rest : Cardinality(B) = BatchSize}

\* A cycle after a batch: what was not answered is missing.
Asked(k, batch, answered) ==
  [k EXCEPT !.rest = @ \ batch,
            !.missing = @ \cup (batch \ answered),
            !.got = [s \in Sym |-> IF s \in answered THEN now ELSE @[s]]]

\* fetch_tickers brings the tickers of some symbols of the batch; the others
\* are asked one by one later.
BatchAnswers(c, batch, answered) ==
  /\ cycle[c].phase = "batch"
  /\ cycle' = [cycle EXCEPT ![c] = Asked(@, batch, answered)]
  /\ cache' = [cache EXCEPT !["engine"] =
                 [s \in Sym |-> IF s \in answered THEN Stored(now) ELSE @[s]]]
  /\ lastError' = [s \in Sym |-> IF s \in answered THEN "none" ELSE lastError[s]]
  /\ RecordSuccess(answered)
  /\ UNCHANGED <<now, owner, inflight, call>>

\* The worker's task for a symbol: up to MaxRetries + 1 calls.
Tasked(c, missing) ==
  [t \in Thread |->
     IF t \in Worker /\ t[1] = c /\ t[2] \in missing
     THEN [Resting(t[2]) EXCEPT !.pc = "want", !.left = MaxRetries]
     ELSE call[t]]

\* fetch_tickers raises: the symbols of this batch are asked one by one, those
\* of the batches after it not at all.
BatchRaises(c, batch) ==
  LET missing == cycle[c].missing \cup batch IN
  /\ cycle[c].phase = "batch"
  /\ cycle' = [cycle EXCEPT ![c] = [@ EXCEPT !.phase = "fallback", !.rest = {},
                                            !.missing = missing]]
  /\ call' = Tasked(c, missing)
  /\ UNCHANGED <<now, owner, cache, inflight, lastError, recordVars>>

\* All batches are through: the workers start on what is missing.
StartFallback(c) ==
  /\ cycle[c].phase = "batch"
  /\ cycle[c].rest = {}
  /\ cycle' = [cycle EXCEPT ![c] = [@ EXCEPT !.phase = "fallback"]]
  /\ call' = Tasked(c, cycle[c].missing)
  /\ UNCHANGED <<now, owner, cache, inflight, lastError, recordVars>>

\* A cycle with the result of the worker for s.
Collected(k, s, ticker) ==
  [k EXCEPT !.got[s] = IF ticker = Never THEN @ ELSE ticker, !.missing = @ \ {s}]

\* The cycle collects the result of a worker as it comes.
Collect(c, s, error) ==
  LET ticker == call[<<c, s>>].answer IN
  /\ call' = [call EXCEPT ![<<c, s>>] = Resting(s)]
  /\ cycle' = [cycle EXCEPT ![c] = Collected(@, s, ticker)]
  /\ IF ticker # Never THEN RecordSuccess({s}) ELSE RecordFailure(s, error, cycle[c].at)

\* A worker that calls get_ticker once more.
Retried(k, error) == [k EXCEPT !.pc = "want", !.left = @ - 1, !.error = error]

\* fetch_single_ticker looks at what get_ticker returned, and calls it again or
\* is done.  The error is taken from the dictionary all threads of the provider
\* share, so it may be gone or be another call's.
Look(c, s) ==
  LET t == <<c, s>>
      error == IF lastError[s] # "none" THEN lastError[s] ELSE call[t].error IN
  /\ call[t].pc = "returned"
  /\ lastError' = [lastError EXCEPT ![s] = "none"]
  /\ IF call[t].answer = Never /\ call[t].left > 0
     THEN /\ call' = [call EXCEPT ![t] = Retried(@, error)]
          /\ UNCHANGED <<cycle, recordVars>>
     ELSE Collect(c, s, error)
  /\ UNCHANGED <<now, owner, cache, inflight>>

\* All workers are done: the tickers go to the price cache and the rolling
\* windows, and as snapshots to whoever subscribed.
Publish(c) ==
  /\ cycle[c].phase = "fallback"
  /\ cycle[c].missing = {}
  /\ cycle' = [cycle EXCEPT ![c] = IdleCycle]
  /\ UNCHANGED <<now, owner, cache, inflight, call, lastError, recordVars>>

(***************************************************************************)
(* Specification                                                           *)
(***************************************************************************)

Next ==
  \/ Tick
  \/ \E t \in Reader, s \in Sym : GetPrice(t, s)
  \/ \E t \in Thread :
       \/ Enter(t)
       \/ FetchAnswers(t)
       \/ \E e \in {"error", "bad"} : FetchRaises(t, e)
       \/ Wake(t)
       \/ WaitTimesOut(t)
  \/ \E c \in Cycler :
       \/ StartCycle(c)
       \/ \E batch \in Batches(c) : \E answered \in SUBSET batch :
            BatchAnswers(c, batch, answered)
       \/ \E batch \in Batches(c) : BatchRaises(c, batch)
       \/ StartFallback(c)
       \/ \E s \in Sym : Look(c, s)
       \/ Publish(c)

Spec == Init /\ [][Next]_vars

\* What the code's own threads do they do in the end, and the exchange client
\* ends every call of the provider of the cyclers: its calls run with a
\* timeout.  The other provider's calls may hang, the exchange need never
\* answer with a ticker, and readers need not read.
Fairness ==
  /\ \A t \in Worker \cup (Reader \ Foreign) :
       /\ SF_vars(Enter(t))
       /\ WF_vars(FetchAnswers(t) \/ \E e \in {"error", "bad"} : FetchRaises(t, e))
       /\ WF_vars(Wake(t) \/ WaitTimesOut(t))
  /\ \A c \in Cycler :
       /\ WF_vars(\E batch \in Batches(c) :
                 \/ \E answered \in SUBSET batch : BatchAnswers(c, batch, answered)
                 \/ BatchRaises(c, batch))
       /\ WF_vars(StartFallback(c) \/ Publish(c))
       /\ \A s \in Sym : WF_vars(Look(c, s))

FairSpec == Spec /\ Fairness

(***************************************************************************)
(* Properties                                                              *)
(***************************************************************************)

\* A price is old only by the fault of the coalescing cache.  Whatever a cycle
\* has collected is from this cycle, and whatever a reader was handed was
\* taken no longer than Ttl before, unless it is the first answer a single
\* fetch of the symbol ever had, which the coalescing cache keeps for good.
StaleIsFirstAnswer ==
  /\ \A c \in Cycler, s \in Sym :
       cycle[c].got[s] < cycle[c].at => cycle[c].got[s] = inflight[s].taken
  /\ \A t \in Reader :
       call[t].answer # Never /\ call[t].answer + Ttl < call[t].began
         => call[t].answer = inflight[call[t].sym].taken

\* A symbol is delayed only after Threshold cycles in a row that asked for it
\* in vain: one that answered in between starts anew, and neither a retry within
\* a cycle nor a reader's failed call counts.
DelayIsDeserved ==
  \A s \in Sym : degraded[s] # Never => streak[s] >= Threshold

\* Every cycle ends, even when a thread of the other provider hangs in the
\* fetch its workers wait for, and whatever the exchange answers.
CycleEnds ==
  \A c \in Cycler : cycle[c].phase # "idle" ~> cycle[c].phase = "idle"

\* The code does not have this property (README, 4.3).
\* What get_or_fetch says it does: a call that finds no fetch of its symbol in
\* progress fetches, so an answer it shares was not there when it began.
AnswerIsCurrent ==
  \A t \in Thread :
    call[t].shared /\ call[t].answer # Never => call[t].answer >= call[t].began

=============================================================================
