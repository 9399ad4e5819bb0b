-------------------------- MODULE MarketDataProofs --------------------------
(***************************************************************************)
(* What is proved about the market data feed: for any symbols, cyclers,    *)
(* readers and limits, a price is older than its cycle or the cache's      *)
(* limit only when it is the first answer of the coalescing cache, which   *)
(* never forgets a request; a symbol is delayed only for failures in a     *)
(* row; and a cycle and the tasks of its workers come to an end.           *)
(***************************************************************************)
EXTENDS MarketData, FiniteSetTheorems, TLAPS

(***************************************************************************)
(* The inductive invariant                                                 *)
(***************************************************************************)

\* A worker works only for a cycle that waits for its symbol.
BetweenCalls ==
  \A c \in Cycler, s \in Sym :
    call[<<c, s>>].pc # "rest" => cycle[c].phase = "fallback" /\ s \in cycle[c].missing

\* A thread that fetches or waits holds the lock of its provider, and a lock is
\* held by a thread of that provider.  One thread of each provider at most is in
\* get_or_fetch.
LockHeld ==
  /\ \A t \in Thread : call[t].pc \in {"fetch", "wait"} => owner[ProviderOf(t)] = t
  /\ \A p \in Provider : owner[p] # Nobody => ProviderOf(owner[p]) = p

\* The holder of a provider's lock waits for the request of s.
WaitsFor(t, s) == t # Nobody /\ call[t].pc = "wait" /\ call[t].sym = s
Waiting(p, s) == IF WaitsFor(owner[p], s) THEN 1 ELSE 0

\* The count of a request's waiters is one too many, that of its fetcher, who never
\* takes itself off: so it never comes down to 0, and the request is never forgotten.
WaitersCounted ==
  \A s \in Sym : inflight[s].state # "none" =>
    inflight[s].waiters = 1 + Waiting("engine", s) + Waiting("fsm", s)

\* Who fetches has his request pending, and who waits has one to wait for.
Requested ==
  \A t \in Thread :
    /\ call[t].pc = "fetch" => inflight[call[t].sym].state = "pending"
    /\ call[t].pc = "wait" => inflight[call[t].sym].state # "none"

\* Of one symbol one fetch at most is under way.
OneFetch ==
  \A t, u \in Thread :
    call[t].pc = "fetch" /\ call[u].pc = "fetch" /\ call[t].sym = call[u].sym => t = u

Requests == BetweenCalls /\ LockHeld /\ WaitersCounted /\ Requested /\ OneFetch

\* ticker is the first answer that a single fetch of s ever had.
IsFirst(ticker, s) == inflight[s].state = "completed" /\ ticker = inflight[s].taken

\* What a worker was answered is the first answer for its symbol.
WorkersShare ==
  \A w \in Worker : /\ call[w].sym = w[2]
                    /\ call[w].answer # Never => IsFirst(call[w].answer, w[2])

\* A cached ticker is as old as its entry, unless it is the first answer.
CachedFrom ==
  \A p \in Provider, s \in Sym :
    cache[p][s] # NoEntry => /\ cache[p][s].stored <= now
                             /\ \/ cache[p][s].taken = cache[p][s].stored
                                \/ IsFirst(cache[p][s].taken, s)

\* What a reader was handed is recent, unless it is the first answer.
ReadersHanded ==
  \A t \in Reader :
    /\ call[t].pc \in {"want", "fetch", "wait"} => call[t].answer = Never
    /\ \/ call[t].answer = Never
       \/ IsFirst(call[t].answer, call[t].sym)
       \/ call[t].answer + Ttl >= call[t].began

\* What a cycle has collected is of this cycle, unless it is the first answer.
CyclesGot ==
  \A c \in Cycler : /\ cycle[c].at <= now
                    /\ \A s \in Sym : \/ cycle[c].got[s] >= cycle[c].at
                                      \/ IsFirst(cycle[c].got[s], s)

Answers == WorkersShare /\ CachedFrom /\ ReadersHanded /\ CyclesGot

\* The program's count is the observer's.
FailuresCounted == failures = streak

FeedInv == TypeOK /\ Requests /\ Answers /\ FailuresCounted /\ DelayIsDeserved

(***************************************************************************)
(* Constants, threads and records                                          *)
(***************************************************************************)

\* The constants and times are naturals.
LEMMA Nats ==
  /\ Time \subseteq Nat /\ Never \in Nat /\ Never \notin Time
  /\ \A n \in Time : n < Never /\ n + DegradeInterval \in 0..Never
  /\ 0 \in Time
  /\ Threshold \in Nat /\ Threshold > 0 /\ Ttl \in Nat /\ MaxRetries \in Nat /\ DegradeInterval \in Nat
BY FeedAssumption DEF Time, Never

\* Workers, readers and nobody are told apart, and every thread has its provider.
LEMMA ThreadsApart ==
  /\ Nobody \notin Thread
  /\ \A t \in Worker : t \notin Reader /\ t \notin Foreign
  /\ \A c \in Cycler, s \in Sym : <<c, s>> \in Worker /\ <<c, s>> \in Thread
  /\ \A t \in Thread : ProviderOf(t) \in Provider
  /\ \A w \in Worker : w[1] \in Cycler /\ w[2] \in Sym /\ w = <<w[1], w[2]>>
<1>1. Nobody \notin Worker
  BY DEF Nobody, Worker
<1> QED
  BY <1>1, FeedAssumption DEF Nobody, Thread, Worker, ProviderOf, Provider

\* The call that is not under way.
LEMMA RestingType ==
  ASSUME NEW s \in Sym
  PROVE  /\ Resting(s) \in Call
         /\ Resting(s).pc = "rest" /\ Resting(s).sym = s /\ Resting(s).answer = Never
BY Nats DEF Resting, Call, Error

\* The types of a call's fields.
LEMMA CallFields ==
  ASSUME TypeOK, NEW t \in Thread
  PROVE  /\ call[t] \in Call
         /\ call[t].pc \in {"rest", "want", "fetch", "wait", "returned"}
         /\ call[t].sym \in Sym /\ call[t].began \in Time /\ call[t].shared \in BOOLEAN
         /\ call[t].answer \in Time \cup {Never} /\ call[t].error \in Error
         /\ call[t].left \in 0..MaxRetries
BY DEF TypeOK, Call

\* The types of the fields of requests, cache entries and cycles.
LEMMA OtherFields ==
  ASSUME TypeOK, NEW s \in Sym
  PROVE  /\ inflight[s] \in Request
         /\ inflight[s].state \in {"none", "pending", "completed", "failed"}
         /\ inflight[s].taken \in Time \cup {Never} /\ inflight[s].error \in Error
         /\ inflight[s].waiters \in 0..3
         /\ \A p \in Provider : /\ cache[p] \in [Sym -> Entry] /\ cache[p][s] \in Entry
                                /\ cache[p][s].taken \in Time \cup {Never}
                                /\ cache[p][s].stored \in Time \cup {Never}
         /\ \A c \in Cycler : /\ cycle[c] \in Cycle /\ cycle[c].at \in Time
                              /\ cycle[c].got[s] \in Time \cup {Never}
         /\ lastError[s] \in Error
BY DEF TypeOK, Request, Entry, Cycle

(***************************************************************************)
(* Types                                                                   *)
(***************************************************************************)

\* The initial values have their types.
LEMMA InitTypes == Init => TypeOK
<1> SUFFICES ASSUME Init PROVE TypeOK
  OBVIOUS
<1>1. \A s \in Sym : Resting(s) \in Call
  BY RestingType
<1>2. call \in [Thread -> Call]
  BY <1>1, FeedAssumption DEF Init, Worker
<1>3. inflight \in [Sym -> Request]
  BY Nats DEF Init, NoRequest, Request, Error
<1>4. cycle \in [Cycler -> Cycle]
  BY Nats DEF Init, IdleCycle, Cycle
<1>5. cache \in [Provider -> [Sym -> Entry]]
  BY Nats DEF Init, NoEntry, Entry
<1>6. failures \in [Sym -> 0..Threshold] /\ degraded \in [Sym -> 0..Never] /\ streak \in [Sym -> 0..Threshold]
  BY Nats DEF Init
<1> QED
  BY <1>2, <1>3, <1>4, <1>5, <1>6, Nats DEF Init, TypeOK, Error

\* How the calls end.
LEMMA ReturnedType ==
  ASSUME TypeOK, NEW t \in Thread, NEW ticker \in Time \cup {Never}
  PROVE  Returned(t, ticker) \in [Thread -> Call]
<1>1. [call[t] EXCEPT !.pc = IF t \in Worker THEN "returned" ELSE "rest",
       !.answer = ticker] \in Call
  BY CallFields DEF Call
<1> QED
  BY <1>1 DEF TypeOK, Returned

\* The locks once one was given back.
LEMMA ReleaseType ==
  ASSUME TypeOK, NEW t \in Thread, Release(t)
  PROVE  owner' \in [Provider -> Thread \cup {Nobody}]
BY DEF TypeOK, Release

\* What the operations on a request make of it; leaving one needs a waiter that was
\* counted, joining one that there is room for another.
LEMMA RequestType ==
  ASSUME TypeOK, NEW s \in Sym
  PROVE  /\ \A e \in Error : [inflight EXCEPT ![s] = Failed(@, e)] \in [Sym -> Request]
         /\ [inflight EXCEPT ![s] = Completed(@)] \in [Sym -> Request]
         /\ inflight[s].waiters > 0 => [inflight EXCEPT ![s] = LeftRequest(@)] \in [Sym -> Request]
         /\ inflight[s].state = "none" \/ inflight[s].waiters < 3 => [inflight EXCEPT ![s] = Joined(@)] \in [Sym -> Request]
<1>1. \A e \in Error : Failed(inflight[s], e) \in Request
  BY OtherFields DEF Failed, Request
<1>2. Completed(inflight[s]) \in Request
  BY OtherFields DEF Completed, Request, TypeOK
<1>3. NoRequest \in Request
  BY Nats DEF NoRequest, Request, Error
<1>4. inflight[s].waiters > 0 => LeftRequest(inflight[s]) \in Request
  BY <1>3, OtherFields DEF LeftRequest, Request
<1>5. NewRequest \in Request
  BY Nats DEF NewRequest, Request, Error
<1>6. inflight[s].waiters < 3 => [inflight[s] EXCEPT !.waiters = @ + 1] \in Request
  BY OtherFields DEF Request
<1>7. inflight[s].state = "none" \/ inflight[s].waiters < 3 => Joined(inflight[s]) \in Request
  BY <1>5, <1>6 DEF Joined
<1> QED
  BY <1>1, <1>2, <1>4, <1>7 DEF TypeOK

\* A call that got a ticker keeps the types.
LEMMA SucceedType ==
  ASSUME TypeOK, NEW t \in Thread, NEW ticker \in Time \cup {Never}, Succeed(t, ticker)
  PROVE  /\ cache' \in [Provider -> [Sym -> Entry]]
         /\ call' \in [Thread -> Call]
         /\ lastError' \in [Sym -> Error]
         /\ owner' \in [Provider -> Thread \cup {Nobody}]
<1>1. Stored(ticker) \in Entry
  BY DEF Stored, Entry, TypeOK
<1>2. call[t].sym \in Sym /\ ProviderOf(t) \in Provider
  BY CallFields, ThreadsApart
<1>3. cache' \in [Provider -> [Sym -> Entry]]
  BY <1>1, <1>2 DEF Succeed, TypeOK
<1>4. lastError' \in [Sym -> Error]
  BY <1>2 DEF Succeed, TypeOK, Error
<1> QED
  BY <1>3, <1>4, ReturnedType, ReleaseType DEF Succeed

\* A call that got none keeps the types.
LEMMA FailType ==
  ASSUME TypeOK, NEW t \in Thread, NEW e \in Error, Fail(t, e)
  PROVE  /\ cache' \in [Provider -> [Sym -> Entry]]
         /\ call' \in [Thread -> Call]
         /\ lastError' \in [Sym -> Error]
         /\ owner' \in [Provider -> Thread \cup {Nobody}]
<1>1. lastError' \in [Sym -> Error] /\ cache' = cache
  BY CallFields DEF Fail, TypeOK
<1> QED
  BY <1>1, ReturnedType, ReleaseType DEF Fail, TypeOK

\* _record_success keeps the types.
LEMMA RecordSuccessType ==
  ASSUME TypeOK, NEW S, RecordSuccess(S)
  PROVE  /\ failures' \in [Sym -> 0..Threshold] /\ degraded' \in [Sym -> 0..Never]
         /\ bad' \subseteq Sym /\ streak' \in [Sym -> 0..Threshold]
BY Nats DEF RecordSuccess, ClearedFailures, TypeOK

\* _record_failure keeps the types.
LEMMA RecordFailureType ==
  ASSUME TypeOK, NEW s \in Sym, NEW e, NEW at \in Time, RecordFailure(s, e, at)
  PROVE  /\ failures' \in [Sym -> 0..Threshold] /\ degraded' \in [Sym -> 0..Never]
         /\ bad' \subseteq Sym /\ streak' \in [Sym -> 0..Threshold]
<1>1. \A n \in 0..Threshold : OneMore(n) \in 0..Threshold
  BY Nats DEF OneMore
<1>2. at + DegradeInterval \in 0..Never
  BY Nats
<1>3. CASE e = "bad"
  BY <1>3 DEF RecordFailure, TypeOK
<1>4. CASE e # "bad"
  <2>1. failures[s] \in 0..Threshold /\ streak[s] \in 0..Threshold
    BY DEF TypeOK
  <2>2. OneMore(failures[s]) \in 0..Threshold /\ OneMore(streak[s]) \in 0..Threshold
    BY <1>1, <2>1
  <2> QED
    BY <1>2, <1>4, <2>2 DEF RecordFailure, TypeOK
<1> QED
  BY <1>3, <1>4

\* The workers' tasks are calls.
LEMMA TaskedType ==
  ASSUME TypeOK, NEW c \in Cycler, NEW missing
  PROVE  Tasked(c, missing) \in [Thread -> Call]
<1>1. \A t \in Worker : [Resting(t[2]) EXCEPT !.pc = "want", !.left = MaxRetries] \in Call
  <2>1. \A s \in Sym : [Resting(s) EXCEPT !.pc = "want", !.left = MaxRetries] \in Call
    <3> SUFFICES ASSUME NEW s \in Sym
                 PROVE  [Resting(s) EXCEPT !.pc = "want", !.left = MaxRetries] \in Call
      OBVIOUS
    <3>1. MaxRetries \in 0..MaxRetries /\ 0 \in Time
      BY Nats
    <3>2. \A k \in Call : [k EXCEPT !.pc = "want", !.left = MaxRetries] \in Call
      BY <3>1 DEF Call
    <3> QED
      BY <3>2, RestingType
  <2> QED
    BY <2>1, ThreadsApart
<1> QED
  BY <1>1, CallFields DEF Tasked

\* A provider has at most one thread that waits.
LEMMA WaitingType ==
  ASSUME NEW p, NEW s
  PROVE  Waiting(p, s) \in 0..1
BY DEF Waiting

\* A request has one to three waiters; it has two at least while a thread waits, and two
\* at most while the lock of a provider is free.
LEMMA Counts ==
  ASSUME TypeOK, Requests, NEW s \in Sym, inflight[s].state # "none"
  PROVE  /\ inflight[s].waiters \in 1..3
         /\ \A t \in Thread : call[t].pc = "wait" /\ call[t].sym = s => inflight[s].waiters \in 2..3
         /\ \A p \in Provider : owner[p] = Nobody => inflight[s].waiters \in 1..2
<1>1. inflight[s].waiters = 1 + Waiting("engine", s) + Waiting("fsm", s)
  BY DEF Requests, WaitersCounted
<1>2. Waiting("engine", s) \in 0..1 /\ Waiting("fsm", s) \in 0..1
  BY WaitingType
<1>3. ASSUME NEW t \in Thread, call[t].pc = "wait", call[t].sym = s
      PROVE  Waiting(ProviderOf(t), s) = 1
  BY <1>3, ThreadsApart DEF Requests, LockHeld, Waiting, WaitsFor
<1>4. \A p \in Provider : owner[p] = Nobody => Waiting(p, s) = 0
  BY DEF Waiting, WaitsFor
<1>5. \A p \in Provider : p = "engine" \/ p = "fsm"
  BY DEF Provider
<1>6. \A t \in Thread : ProviderOf(t) = "engine" \/ ProviderOf(t) = "fsm"
  BY <1>5, ThreadsApart
<1>7. inflight[s].waiters \in 1..3
  BY <1>1, <1>2
<1>8. ASSUME NEW t \in Thread, call[t].pc = "wait", call[t].sym = s
      PROVE  inflight[s].waiters \in 2..3
  BY <1>1, <1>2, <1>3, <1>6, <1>8
<1>9. ASSUME NEW p \in Provider, owner[p] = Nobody
      PROVE  inflight[s].waiters \in 1..2
  BY <1>1, <1>2, <1>4, <1>5, <1>9
<1> QED
  BY <1>7, <1>8, <1>9

\* Asking for a price keeps the types.
LEMMA ReadTypes ==
  ASSUME TypeOK, Requests, NEW t \in Thread, Enter(t) \/ \E s \in Sym : GetPrice(t, s)
  PROVE  TypeOK'
<1> DEFINE s == call[t].sym
           p == ProviderOf(t)
<1>0. s \in Sym /\ p \in Provider
  BY CallFields, ThreadsApart
<1>1. CASE Enter(t)
  <2>1. UNCHANGED <<now, cache, cycle, lastError, failures, degraded, bad, streak>>
    BY <1>1 DEF Enter, recordVars
  <2>2. CASE UNCHANGED <<owner, inflight>> /\
             call' = [call EXCEPT ![t] = [@ EXCEPT !.pc = "rest", !.began = now,
                                          !.answer = cache[p][s].taken]]
    <3>1. cache[p][s].taken \in Time \cup {Never} /\ now \in Time
      BY <1>0, OtherFields DEF TypeOK
    <3>2. [call[t] EXCEPT !.pc = "rest", !.began = now, !.answer = cache[p][s].taken] \in Call
      BY <3>1, CallFields DEF Call
    <3>3. call' \in [Thread -> Call]
      BY <2>2, <3>2 DEF TypeOK
    <3> QED
      BY <2>1, <2>2, <3>3 DEF TypeOK
  <2>3. CASE /\ owner' = [owner EXCEPT ![p] = t] /\ owner[p] = Nobody
             /\ call' = [call EXCEPT ![t] = [@ EXCEPT !.pc = Role(s), !.began = now,
                                             !.shared = TRUE]]
             /\ inflight' = [inflight EXCEPT ![s] = Joined(@)]
    <3>1. Role(s) \in {"fetch", "wait"} /\ now \in Time
      BY DEF Role, TypeOK
    <3>2. [call[t] EXCEPT !.pc = Role(s), !.began = now, !.shared = TRUE] \in Call
      BY <3>1, CallFields DEF Call
    <3>3. call' \in [Thread -> Call]
      BY <2>3, <3>2 DEF TypeOK
    <3>4. inflight' \in [Sym -> Request]
      <4>1. inflight[s].state = "none" \/ inflight[s].waiters \in 1..2
        BY <1>0, <2>3, Counts
      <4> QED
        BY <1>0, <2>3, <4>1, RequestType
    <3>5. owner' \in [Provider -> Thread \cup {Nobody}]
      BY <2>3 DEF TypeOK
    <3> QED
      BY <2>1, <3>3, <3>4, <3>5 DEF TypeOK
  <2> QED
    BY <1>1, <2>2, <2>3 DEF Enter
<1>2. ASSUME NEW r \in Sym, GetPrice(t, r) PROVE TypeOK'
  <2>1. UNCHANGED <<now, owner, cache, inflight, cycle, lastError, failures, degraded,
      bad, streak>>
    BY <1>2 DEF GetPrice, recordVars
  <2>2. cache[p][r].taken \in Time \cup {Never} /\ now \in Time
    BY <1>0, OtherFields DEF TypeOK
  <2>3. \A k \in Call : /\ [k EXCEPT !.began = now, !.answer = cache[p][r].taken] \in Call
                        /\ [k EXCEPT !.pc = "want"] \in Call
    BY <2>2 DEF Call
  <2>4. /\ [Resting(r) EXCEPT !.began = now, !.answer = cache[p][r].taken] \in Call
        /\ [Resting(r) EXCEPT !.pc = "want"] \in Call
    BY <2>3, RestingType
  <2>5. call' \in [Thread -> Call]
    BY <1>2, <2>4 DEF GetPrice, TypeOK
  <2> QED
    BY <2>1, <2>5 DEF TypeOK
<1> QED
  BY <1>1, <1>2

\* The end of a call keeps the types.
LEMMA FetchTypes ==
  ASSUME TypeOK, Requests, NEW t \in Thread,
         \/ FetchAnswers(t)
         \/ \E e \in {"error", "bad"} : FetchRaises(t, e)
         \/ Wake(t)
         \/ WaitTimesOut(t)
  PROVE  TypeOK'
<1>0. call[t].sym \in Sym /\ now \in Time
  BY CallFields DEF TypeOK
<1>1. UNCHANGED <<now, cycle, failures, degraded, bad, streak>>
  BY DEF FetchAnswers, FetchRaises, Wake, WaitTimesOut, recordVars
<1>2. \/ \E ticker \in Time \cup {Never} : Succeed(t, ticker)
      \/ \E e \in Error : Fail(t, e)
  BY <1>0, OtherFields DEF FetchAnswers, FetchRaises, Wake, WaitTimesOut, Error
<1>3. /\ cache' \in [Provider -> [Sym -> Entry]]
      /\ call' \in [Thread -> Call]
      /\ lastError' \in [Sym -> Error]
      /\ owner' \in [Provider -> Thread \cup {Nobody}]
  BY <1>2, SucceedType, FailType
<1>4. inflight' \in [Sym -> Request]
  <2>1. CASE FetchAnswers(t) \/ \E e \in {"error", "bad"} : FetchRaises(t, e)
    BY <1>0, <2>1, RequestType DEF FetchAnswers, FetchRaises, Error
  <2>2. CASE Wake(t) \/ WaitTimesOut(t)
    <3>1. call[t].pc = "wait" /\ inflight' = [inflight EXCEPT ![call[t].sym] = LeftRequest(@)]
      BY <2>2 DEF Wake, WaitTimesOut
    <3>2. inflight[call[t].sym].state # "none"
      BY <3>1 DEF Requests, Requested
    <3>3. inflight[call[t].sym].waiters \in 2..3
      BY <1>0, <3>1, <3>2, Counts
    <3> QED
      BY <1>0, <3>1, <3>3, RequestType
  <2> QED
    BY <2>1, <2>2
<1> QED
  BY <1>1, <1>3, <1>4 DEF TypeOK

\* The types of a cycle's fields.
LEMMA CycleFields ==
  ASSUME TypeOK, NEW c \in Cycler
  PROVE  /\ cycle[c] \in Cycle
         /\ cycle[c].phase \in {"idle", "batch", "fallback"} /\ cycle[c].at \in Time
         /\ cycle[c].rest \subseteq Sym /\ cycle[c].missing \subseteq Sym
         /\ cycle[c].got \in [Sym -> Time \cup {Never}]
BY DEF TypeOK, Cycle

\* The cycle that is not under way.
LEMMA IdleType == IdleCycle \in Cycle
BY Nats DEF IdleCycle, Cycle

\* A cycle after a batch.
LEMMA AskedType ==
  ASSUME NEW k \in Cycle, NEW batch \in SUBSET Sym, NEW answered, now \in Time
  PROVE  Asked(k, batch, answered) \in Cycle
<1>1. k.got \in [Sym -> Time \cup {Never}] /\ k.missing \subseteq Sym /\ k.rest \subseteq Sym
  BY DEF Cycle
<1>2. [s \in Sym |-> IF s \in answered THEN now ELSE k.got[s]] \in [Sym -> Time \cup {Never}]
  BY <1>1
<1>3. k.rest \ batch \in SUBSET Sym /\ k.missing \cup (batch \ answered) \in SUBSET Sym
  BY <1>1
<1> QED
  BY <1>2, <1>3 DEF Asked, Cycle

\* A cycle after a worker's result, field by field.
LEMMA CollectedType ==
  ASSUME NEW k \in Cycle, NEW s \in Sym, NEW ticker \in Time \cup {Never}
  PROVE  /\ Collected(k, s, ticker) \in Cycle
         /\ Collected(k, s, ticker).phase = k.phase /\ Collected(k, s, ticker).at = k.at
         /\ Collected(k, s, ticker).missing = k.missing \ {s}
         /\ Collected(k, s, ticker).got
              = [k.got EXCEPT ![s] = IF ticker = Never THEN @ ELSE ticker]
<1>1. k.got \in [Sym -> Time \cup {Never}] /\ k.missing \subseteq Sym
  BY DEF Cycle
<1>2. [k.got EXCEPT ![s] = IF ticker = Never THEN @ ELSE ticker] \in [Sym -> Time \cup {Never}]
  BY <1>1
<1> QED
  BY <1>1, <1>2 DEF Collected, Cycle

\* The steps of a cycle keep the types.
LEMMA CycleTypes ==
  ASSUME TypeOK, NEW c \in Cycler,
         \/ StartCycle(c)
         \/ \E batch \in Batches(c) : \E answered \in SUBSET batch :
              BatchAnswers(c, batch, answered)
         \/ \E batch \in Batches(c) : BatchRaises(c, batch)
         \/ StartFallback(c)
         \/ \E s \in Sym : Look(c, s)
         \/ Publish(c)
  PROVE  TypeOK'
<1>0. now \in Time
  BY DEF TypeOK
<1>b. \A batch \in Batches(c) : batch \in SUBSET Sym
  BY CycleFields DEF Batches
<1>1. CASE StartCycle(c)
  <2>1. \A k \in Cycle, S \in SUBSET Sym :
          [k EXCEPT !.phase = "batch", !.at = now, !.rest = S] \in Cycle
    BY <1>0 DEF Cycle
  <2>2. cycle' \in [Cycler -> Cycle]
    BY <1>1, <2>1, IdleType DEF StartCycle, TypeOK
  <2>3. degraded' \in [Sym -> 0..Never]
    BY <1>1, Nats DEF StartCycle, TypeOK
  <2> QED
    BY <1>1, <2>2, <2>3 DEF StartCycle, TypeOK
<1>2. ASSUME NEW batch \in Batches(c), NEW answered \in SUBSET batch,
             BatchAnswers(c, batch, answered)
      PROVE  TypeOK'
  <2>1. Asked(cycle[c], batch, answered) \in Cycle
    BY <1>0, <1>b, AskedType, CycleFields
  <2>2. cycle' \in [Cycler -> Cycle]
    BY <1>2, <2>1 DEF BatchAnswers, TypeOK
  <2>3. Stored(now) \in Entry
    BY <1>0 DEF Stored, Entry
  <2>4. cache' \in [Provider -> [Sym -> Entry]]
    <3>1. [s \in Sym |-> IF s \in answered THEN Stored(now) ELSE cache["engine"][s]] \in [Sym -> Entry]
      BY <2>3 DEF TypeOK, Provider
    <3> QED
      BY <1>2, <3>1 DEF BatchAnswers, TypeOK
  <2>5. lastError' \in [Sym -> Error]
    BY <1>2 DEF BatchAnswers, TypeOK, Error
  <2>6. /\ failures' \in [Sym -> 0..Threshold] /\ degraded' \in [Sym -> 0..Never]
        /\ bad' \subseteq Sym /\ streak' \in [Sym -> 0..Threshold]
    BY <1>2, RecordSuccessType DEF BatchAnswers
  <2> QED
    BY <1>2, <2>2, <2>4, <2>5, <2>6 DEF BatchAnswers, TypeOK
<1>3. ASSUME NEW batch \in Batches(c), BatchRaises(c, batch)
      PROVE  TypeOK'
  <2>1. \A k \in Cycle, S \in SUBSET Sym :
          [k EXCEPT !.phase = "fallback", !.rest = {}, !.missing = S] \in Cycle
    BY DEF Cycle
  <2>2. cycle[c].missing \cup batch \in SUBSET Sym
    BY <1>b, CycleFields
  <2>3. [cycle[c] EXCEPT !.phase = "fallback", !.rest = {},
         !.missing = cycle[c].missing \cup batch]
          \in Cycle
    BY <2>1, <2>2, CycleFields
  <2>4. cycle' \in [Cycler -> Cycle]
    BY <1>3, <2>3 DEF BatchRaises, TypeOK
  <2>5. call' \in [Thread -> Call]
    BY <1>3, TaskedType DEF BatchRaises
  <2> QED
    BY <1>3, <2>4, <2>5 DEF BatchRaises, TypeOK, recordVars
<1>4. CASE StartFallback(c)
  <2>1. [cycle[c] EXCEPT !.phase = "fallback"] \in Cycle
    BY CycleFields DEF Cycle
  <2>2. cycle' \in [Cycler -> Cycle]
    BY <1>4, <2>1 DEF StartFallback, TypeOK
  <2>3. call' \in [Thread -> Call]
    BY <1>4, TaskedType DEF StartFallback
  <2> QED
    BY <1>4, <2>2, <2>3 DEF StartFallback, TypeOK, recordVars
<1>5. ASSUME NEW s \in Sym, Look(c, s)
      PROVE  TypeOK'
  <2> DEFINE t == <<c, s>>
             error == IF lastError[s] # "none" THEN lastError[s] ELSE call[t].error
  <2>1. t \in Thread
    BY ThreadsApart
  <2>2. error \in Error
    BY <2>1, CallFields DEF TypeOK
  <2>3. lastError' \in [Sym -> Error] /\ UNCHANGED <<now, owner, cache, inflight>>
    BY <1>5 DEF Look, TypeOK, Error
  <2>4. CASE /\ call[t].left > 0
             /\ call' = [call EXCEPT ![t] = Retried(@, error)]
             /\ UNCHANGED <<cycle, recordVars>>
    <3>1. call[t].left - 1 \in 0..MaxRetries
      BY <2>1, <2>4, CallFields, Nats
    <3>2. Retried(call[t], error) \in Call
      BY <2>1, <2>2, <3>1, CallFields DEF Retried, Call
    <3>3. call' \in [Thread -> Call]
      BY <2>1, <2>4, <3>2 DEF TypeOK
    <3> QED
      BY <2>3, <2>4, <3>3 DEF TypeOK, recordVars
  <2>5. CASE Collect(c, s, error)
    <3>1. call[t].answer \in Time \cup {Never} /\ cycle[c].at \in Time
      BY <2>1, CallFields, CycleFields
    <3>2. call' \in [Thread -> Call]
      BY <2>1, <2>5, RestingType DEF Collect, TypeOK
    <3>3. Collected(cycle[c], s, call[t].answer) \in Cycle
      BY <3>1, CollectedType, CycleFields
    <3>4. cycle' \in [Cycler -> Cycle]
      BY <2>5, <3>3 DEF Collect, TypeOK
    <3>5. /\ failures' \in [Sym -> 0..Threshold] /\ degraded' \in [Sym -> 0..Never]
          /\ bad' \subseteq Sym /\ streak' \in [Sym -> 0..Threshold]
      BY <2>5, <3>1, RecordSuccessType, RecordFailureType DEF Collect
    <3> QED
      BY <2>3, <3>2, <3>4, <3>5 DEF TypeOK
  <2> QED
    BY <1>5, <2>4, <2>5 DEF Look
<1>6. CASE Publish(c)
  BY <1>6, IdleType DEF Publish, TypeOK, recordVars
<1> QED
  BY <1>1, <1>2, <1>3, <1>4, <1>5, <1>6

\* Every step keeps the types, while the requests are in order.
LEMMA TypeStep == TypeOK /\ Requests /\ [Next]_vars => TypeOK'
<1> SUFFICES ASSUME TypeOK, Requests, [Next]_vars PROVE TypeOK'
  OBVIOUS
<1>1. CASE Tick
  BY <1>1, FeedAssumption DEF Tick, TypeOK, Time, recordVars
<1>2. CASE UNCHANGED vars
  BY <1>2 DEF vars, TypeOK
<1>3. \A t \in Reader : t \in Thread
  BY DEF Thread
<1> QED
  BY <1>1, <1>2, <1>3, ReadTypes, FetchTypes, CycleTypes DEF Next

(***************************************************************************)
(* Requests: the lock, the waiters and the one fetch                       *)
(***************************************************************************)

\* A step that starts and ends no call of get_or_fetch leaves the requests in order.
LEMMA QuietCalls ==
  ASSUME TypeOK, Requests, UNCHANGED <<owner, inflight>>,
         \A t \in Thread :
           \/ call'[t].pc = call[t].pc /\ call'[t].sym = call[t].sym
           \/ call[t].pc \notin {"fetch", "wait"} /\ call'[t].pc \notin {"fetch", "wait"}
  PROVE  LockHeld' /\ WaitersCounted' /\ Requested' /\ OneFetch'
<1>1. LockHeld'
  BY DEF Requests, LockHeld
<1>2. WaitersCounted'
  <2>1. \A p \in Provider, s \in Sym : Waiting(p, s)' = Waiting(p, s)
    BY DEF TypeOK, Waiting, WaitsFor
  <2>2. "engine" \in Provider /\ "fsm" \in Provider
    BY DEF Provider
  <2> QED
    BY <2>1, <2>2 DEF Requests, WaitersCounted
<1>3. Requested' /\ OneFetch'
  BY DEF Requests, Requested, OneFetch
<1> QED
  BY <1>1, <1>2, <1>3

\* A step of one provider's thread does not change who waits in the other.
LEMMA OthersWait ==
  ASSUME TypeOK, Requests, NEW t \in Thread,
         \A q \in Provider \ {ProviderOf(t)} : owner'[q] = owner[q],
         \A u \in Thread \ {t} : call'[u] = call[u],
         NEW q \in Provider, q # ProviderOf(t), NEW s \in Sym
  PROVE  Waiting(q, s)' = Waiting(q, s)
<1>1. owner[q] # t
  BY ThreadsApart DEF Requests, LockHeld
<1>2. owner[q] \in Thread \cup {Nobody} /\ owner'[q] = owner[q]
  BY DEF TypeOK
<1> QED
  BY <1>1, <1>2 DEF Waiting, WaitsFor

\* A thread belongs to one of the two providers; the other is another.
LEMMA TwoProviders ==
  ASSUME NEW t \in Thread
  PROVE  \/ ProviderOf(t) = "engine" /\ "fsm" \in Provider /\ "fsm" # ProviderOf(t)
         \/ ProviderOf(t) = "fsm" /\ "engine" \in Provider /\ "engine" # ProviderOf(t)
BY DEF ProviderOf, Provider

\* What the operations on a request do to its state, its answer and its waiters.
LEMMA RequestFields ==
  ASSUME NEW r \in Request
  PROVE  /\ r.state = "none" => /\ Joined(r).state = "pending" /\ Joined(r).waiters = 1
         /\ r.state # "none" => /\ Joined(r).state = r.state /\ Joined(r).taken = r.taken
                                /\ Joined(r).waiters = r.waiters + 1
         /\ r.waiters # 1 => /\ LeftRequest(r).state = r.state /\ LeftRequest(r).taken = r.taken
                             /\ LeftRequest(r).waiters = r.waiters - 1
         /\ Completed(r).state = "completed" /\ Completed(r).taken = now
         /\ Completed(r).waiters = r.waiters
         /\ \A e \in Error : Failed(r, e).state = "failed" /\ Failed(r, e).waiters = r.waiters
BY DEF Request, Joined, NewRequest, LeftRequest, Completed, Failed

\* A thread that takes the lock finds no other of its provider waiting; it joins the
\* request and is counted.
LEMMA EnterRequests ==
  ASSUME TypeOK, Requests, NEW t \in Thread, Enter(t)
  PROVE  LockHeld' /\ WaitersCounted' /\ Requested' /\ OneFetch'
<1>s. PICK s \in Sym : s = call[t].sym
  BY CallFields
<1> DEFINE p == ProviderOf(t)
<1>0. s \in Sym /\ p \in Provider /\ call[t].pc = "want" /\ owner[p] = Nobody /\ t # Nobody
  BY ThreadsApart DEF Enter
<1>1. CASE /\ UNCHANGED <<owner, inflight>>
           /\ call' = [call EXCEPT ![t] = [@ EXCEPT !.pc = "rest", !.began = now,
                                           !.answer = cache[p][s].taken]]
  <2>1. call'[t].pc = "rest" /\ \A u \in Thread \ {t} : call'[u] = call[u]
    BY <1>1, CallFields DEF TypeOK, Call
  <2> QED
    BY <1>0, <1>1, <2>1, QuietCalls, Zenon
<1>2. CASE /\ owner' = [owner EXCEPT ![p] = t]
           /\ call' = [call EXCEPT ![t] = [@ EXCEPT !.pc = Role(s), !.began = now,
                                           !.shared = TRUE]]
           /\ inflight' = [inflight EXCEPT ![s] = Joined(@)]
  <2>1. /\ call'[t].pc = Role(s) /\ call'[t].sym = s /\ call[t].sym = s
        /\ \A u \in Thread \ {t} : call'[u] = call[u]
    BY <1>s, <1>2, CallFields DEF TypeOK, Call
  <2>2. owner'[p] = t /\ \A q \in Provider \ {p} : owner'[q] = owner[q]
    BY <1>0, <1>2 DEF TypeOK
  <2>3. inflight'[s] = Joined(inflight[s]) /\ \A r \in Sym \ {s} : inflight'[r] = inflight[r]
    BY <1>0, <1>2 DEF TypeOK
  <2>4. inflight[s] \in Request
    BY <1>0, OtherFields
  <2>5. LockHeld'
    <3>1. ASSUME NEW u \in Thread, call'[u].pc \in {"fetch", "wait"}
          PROVE  owner'[ProviderOf(u)] = u
      <4>1. CASE u = t
        BY <2>2, <4>1
      <4>2. CASE u # t
        <5>1. owner[ProviderOf(u)] = u /\ u # Nobody
          BY <2>1, <3>1, <4>2, ThreadsApart DEF Requests, LockHeld
        <5> QED
          BY <1>0, <2>2, <5>1, ThreadsApart
      <4> QED
        BY <4>1, <4>2
    <3>2. \A q \in Provider : owner'[q] # Nobody => ProviderOf(owner'[q]) = q
      BY <2>2 DEF Requests, LockHeld
    <3> QED
      BY <3>1, <3>2 DEF LockHeld
  <2>6. \A q \in Provider, r \in Sym : q # p => Waiting(q, r)' = Waiting(q, r)
    BY <2>1, <2>2, OthersWait
  <2>7. \A r \in Sym : Waiting(p, r) = 0
    BY <1>0 DEF Waiting, WaitsFor
  <2>8. \A r \in Sym : r # s => Waiting(p, r)' = 0
    BY <2>1, <2>2 DEF Waiting, WaitsFor
  <2>9. CASE inflight[s].state = "none"
    <3>1. inflight'[s].state = "pending" /\ inflight'[s].waiters = 1 /\ call'[t].pc = "fetch"
      BY <2>1, <2>3, <2>4, <2>9, RequestFields DEF Role
    <3>2. \A u \in Thread : call[u].sym = s => call[u].pc \notin {"fetch", "wait"}
      BY <2>9 DEF Requests, Requested
    <3>3. \A q \in Provider : Waiting(q, s)' = 0
      <4>1. Waiting(p, s)' = 0
        BY <2>2, <3>1 DEF Waiting, WaitsFor
      <4>2. \A q \in Provider : Waiting(q, s) = 0
        BY <3>2 DEF TypeOK, Waiting, WaitsFor
      <4> QED
        BY <1>0, <2>6, <4>1, <4>2
    <3>4. WaitersCounted'
      <4>1. ASSUME NEW r \in Sym, inflight'[r].state # "none"
            PROVE  inflight'[r].waiters = 1 + Waiting("engine", r)' + Waiting("fsm", r)'
        <5>1. CASE r = s
          BY <3>1, <3>3, <5>1 DEF Provider
        <5>2. CASE r # s
          <6>1. Waiting("engine", r)' = Waiting("engine", r) /\ Waiting("fsm", r)' = Waiting("fsm", r)
            BY <2>6, <2>7, <2>8, <5>2 DEF Provider
          <6> QED
            BY <2>3, <4>1, <5>2, <6>1 DEF Requests, WaitersCounted
        <5> QED
          BY <5>1, <5>2
      <4> QED
        BY <4>1 DEF WaitersCounted
    <3>5. Requested'
      <4>1. inflight'[call'[t].sym].state = "pending" /\ call'[t].pc = "fetch"
        BY <2>1, <3>1
      <4>2. ASSUME NEW u \in Thread, u # t, call[u].pc \in {"fetch", "wait"}
            PROVE  call'[u] = call[u] /\ inflight'[call[u].sym] = inflight[call[u].sym]
        BY <2>1, <2>3, <3>2, <4>2, CallFields
      <4> QED
        BY <2>1, <4>1, <4>2 DEF Requests, Requested
    <3>6. OneFetch'
      BY <2>1, <3>2 DEF Requests, OneFetch
    <3> QED
      BY <2>5, <3>4, <3>5, <3>6
  <2>10. CASE inflight[s].state # "none"
    <3>1. /\ inflight'[s].state = inflight[s].state /\ call'[t].pc = "wait"
          /\ inflight'[s].waiters = inflight[s].waiters + 1
      BY <2>1, <2>3, <2>4, <2>10, RequestFields DEF Role
    <3>2. Waiting(p, s)' = 1
      BY <1>0, <2>1, <2>2, <3>1 DEF Waiting, WaitsFor
    <3>3. WaitersCounted'
      <4>1. ASSUME NEW r \in Sym, inflight'[r].state # "none"
            PROVE  inflight'[r].waiters = 1 + Waiting("engine", r)' + Waiting("fsm", r)'
        <5>1. CASE r = s
          <6>1. inflight[s].waiters = 1 + Waiting("engine", s) + Waiting("fsm", s)
            BY <1>0, <2>10 DEF Requests, WaitersCounted
          <6>2. Waiting("engine", s) \in 0..1 /\ Waiting("fsm", s) \in 0..1
            BY WaitingType
          <6>3. \/ p = "engine" /\ Waiting("fsm", s)' = Waiting("fsm", s)
                \/ p = "fsm" /\ Waiting("engine", s)' = Waiting("engine", s)
            BY <1>0, <2>6, TwoProviders
          <6> QED
            BY <1>0, <2>7, <3>1, <3>2, <5>1, <6>1, <6>2, <6>3
        <5>2. CASE r # s
          <6>1. Waiting("engine", r)' = Waiting("engine", r) /\ Waiting("fsm", r)' = Waiting("fsm", r)
            BY <2>6, <2>7, <2>8, <5>2 DEF Provider
          <6> QED
            BY <2>3, <4>1, <5>2, <6>1 DEF Requests, WaitersCounted
        <5> QED
          BY <5>1, <5>2
      <4> QED
        BY <4>1 DEF WaitersCounted
    <3>4. Requested'
      <4>1. \A r \in Sym : inflight'[r].state = inflight[r].state
        BY <2>3, <3>1
      <4>2. \A u \in Thread \ {t} : call'[u] = call[u] /\ call[u].sym \in Sym
        BY <2>1, CallFields
      <4>3. call'[t].sym = s /\ call'[t].pc = "wait"
        BY <2>1, <3>1
      <4> QED
        BY <2>10, <4>1, <4>2, <4>3 DEF Requests, Requested
    <3>5. OneFetch'
      BY <2>1, <3>1 DEF Requests, OneFetch
    <3> QED
      BY <2>5, <3>3, <3>4, <3>5
  <2> QED
    BY <2>9, <2>10
<1> QED
  BY <1>s, <1>1, <1>2 DEF Enter

\* A call that ends gives the lock back and changes no other thread's call.
LEMMA LeavesCall ==
  ASSUME TypeOK, Requests, NEW t \in Thread,
         \/ \E ticker : Succeed(t, ticker)
         \/ \E e : Fail(t, e)
  PROVE  /\ owner'[ProviderOf(t)] = Nobody
         /\ \A q \in Provider \ {ProviderOf(t)} : owner'[q] = owner[q]
         /\ call'[t].pc \in {"rest", "returned"} /\ call'[t].sym = call[t].sym
         /\ \A u \in Thread \ {t} : call'[u] = call[u]
<1>1. PICK ticker : call' = Returned(t, ticker) /\ Release(t)
  BY Zenon DEF Succeed, Fail
<1>2. /\ owner'[ProviderOf(t)] = Nobody
      /\ \A q \in Provider \ {ProviderOf(t)} : owner'[q] = owner[q]
  BY <1>1, ThreadsApart DEF Release, TypeOK
<1>3. /\ call'[t].pc \in {"rest", "returned"} /\ call'[t].sym = call[t].sym
      /\ \A u \in Thread \ {t} : call'[u] = call[u]
  BY <1>1, CallFields DEF Returned, TypeOK, Call
<1> QED
  BY <1>2, <1>3

\* A waiter that leaves is taken off the count, a fetcher is not.
LEMMA LeaveRequests ==
  ASSUME TypeOK, Requests, NEW t \in Thread,
         \/ FetchAnswers(t)
         \/ \E e \in {"error", "bad"} : FetchRaises(t, e)
         \/ Wake(t)
         \/ WaitTimesOut(t)
  PROVE  LockHeld' /\ WaitersCounted' /\ Requested' /\ OneFetch'
<1>s. PICK s \in Sym : s = call[t].sym
  BY CallFields
<1> DEFINE p == ProviderOf(t)
<1>0. p \in Provider /\ t # Nobody /\ call[t].pc \in {"fetch", "wait"} /\ owner[p] = t
  BY ThreadsApart DEF FetchAnswers, FetchRaises, Wake, WaitTimesOut, Requests, LockHeld
<1>1. /\ owner'[p] = Nobody
      /\ \A q \in Provider \ {p} : owner'[q] = owner[q]
      /\ call'[t].pc \in {"rest", "returned"} /\ call'[t].sym = s
      /\ \A u \in Thread \ {t} : call'[u] = call[u]
  <2>1. \/ \E ticker : Succeed(t, ticker)
        \/ \E e : Fail(t, e)
    BY DEF FetchAnswers, FetchRaises, Wake, WaitTimesOut
  <2> QED
    BY <1>s, <2>1, LeavesCall
<1>2. LockHeld'
  <2>1. ASSUME NEW u \in Thread, call'[u].pc \in {"fetch", "wait"}
        PROVE  owner'[ProviderOf(u)] = u
    <3>1. u # t /\ owner[ProviderOf(u)] = u
      BY <1>1, <2>1 DEF Requests, LockHeld
    <3> QED
      BY <1>0, <1>1, <3>1, ThreadsApart
  <2>2. \A q \in Provider : owner'[q] # Nobody => ProviderOf(owner'[q]) = q
    BY <1>1 DEF Requests, LockHeld
  <2> QED
    BY <2>1, <2>2 DEF LockHeld
<1>3. OneFetch'
  BY <1>1 DEF Requests, OneFetch
<1>4. inflight[s] \in Request /\ inflight[s].state # "none"
  BY <1>s, <1>0, OtherFields DEF Requests, Requested
<1>5. \A r \in Sym \ {s} : inflight'[r] = inflight[r]
  BY <1>s DEF FetchAnswers, FetchRaises, Wake, WaitTimesOut, TypeOK
<1>6. \/ /\ call[t].pc = "fetch"
         /\ inflight'[s].state \in {"completed", "failed"}
         /\ inflight'[s].waiters = inflight[s].waiters
      \/ /\ call[t].pc = "wait"
         /\ inflight'[s].state = inflight[s].state
         /\ inflight'[s].waiters = inflight[s].waiters - 1
  <2>1. CASE FetchAnswers(t) \/ \E e \in {"error", "bad"} : FetchRaises(t, e)
    BY <1>s, <1>4, <2>1, RequestFields DEF FetchAnswers, FetchRaises, TypeOK, Error
  <2>2. CASE Wake(t) \/ WaitTimesOut(t)
    <3>1. call[t].pc = "wait" /\ inflight'[s] = LeftRequest(inflight[s])
      BY <1>s, <2>2 DEF Wake, WaitTimesOut, TypeOK
    <3>2. inflight[s].waiters \in 2..3
      BY <1>s, <1>4, <3>1, Counts
    <3> QED
      BY <1>4, <3>1, <3>2, RequestFields
  <2> QED
    BY <2>1, <2>2
<1>7. Requested'
  <2>1. ASSUME NEW u \in Thread, u # t, call[u].pc = "fetch"
        PROVE  inflight'[call[u].sym] = inflight[call[u].sym] \/ inflight'[s].state = inflight[s].state
    BY <1>s, <1>5, <1>6, <2>1, CallFields DEF Requests, OneFetch
  <2>2. \A u \in Thread : call[u].sym \in Sym
    BY CallFields
  <2>3. \A r \in Sym : inflight[r].state # "none" => inflight'[r].state # "none"
    BY <1>4, <1>5, <1>6
  <2>4. ASSUME NEW u \in Thread
        PROVE  /\ call'[u].pc = "fetch" => inflight'[call'[u].sym].state = "pending"
               /\ call'[u].pc = "wait" => inflight'[call'[u].sym].state # "none"
    <3>1. CASE u = t
      BY <1>1, <3>1
    <3>2. CASE u # t
      <4>1. call'[u] = call[u]
        BY <1>1, <3>2
      <4>2. call[u].pc = "fetch" => inflight'[call[u].sym].state = "pending"
        BY <1>5, <2>1, <2>2, <3>2 DEF Requests, Requested
      <4>3. call[u].pc = "wait" => inflight'[call[u].sym].state # "none"
        BY <2>2, <2>3 DEF Requests, Requested
      <4> QED
        BY <4>1, <4>2, <4>3
    <3> QED
      BY <3>1, <3>2
  <2> QED
    BY <2>4 DEF Requested
<1>8. WaitersCounted'
  <2>1. \A q \in Provider, r \in Sym : q # p => Waiting(q, r)' = Waiting(q, r)
    BY <1>1, OthersWait
  <2>2. \A r \in Sym : Waiting(p, r)' = 0
    BY <1>1 DEF Waiting, WaitsFor
  <2>3. /\ \A r \in Sym \ {s} : Waiting(p, r) = 0
        /\ Waiting(p, s) = IF call[t].pc = "wait" THEN 1 ELSE 0
    BY <1>s, <1>0 DEF Waiting, WaitsFor
  <2>4. ASSUME NEW r \in Sym, inflight'[r].state # "none"
        PROVE  inflight'[r].waiters = 1 + Waiting("engine", r)' + Waiting("fsm", r)'
    <3>1. inflight[r].state # "none"
      BY <1>4, <1>5, <2>4
    <3>2. inflight[r].waiters = 1 + Waiting("engine", r) + Waiting("fsm", r)
      BY <3>1 DEF Requests, WaitersCounted
    <3>3. Waiting("engine", r) \in 0..1 /\ Waiting("fsm", r) \in 0..1
      BY WaitingType
    <3>4. \/ p = "engine" /\ Waiting("fsm", r)' = Waiting("fsm", r)
          \/ p = "fsm" /\ Waiting("engine", r)' = Waiting("engine", r)
      BY <2>1, TwoProviders
    <3>5. CASE r = s
      BY <1>6, <2>2, <2>3, <3>2, <3>3, <3>4, <3>5
    <3>6. CASE r # s
      BY <1>5, <2>2, <2>3, <3>2, <3>3, <3>4, <3>6
    <3> QED
      BY <3>5, <3>6
  <2> QED
    BY <2>4 DEF WaitersCounted
<1> QED
  BY <1>2, <1>3, <1>7, <1>8

\* Whom the workers' tasks concern.
LEMMA TaskedFields ==
  ASSUME TypeOK, NEW c \in Cycler, NEW missing, call' = Tasked(c, missing)
  PROVE  /\ \A s \in Sym : s \in missing => /\ call'[<<c, s>>].pc = "want"
                                            /\ call'[<<c, s>>].sym = s
                                            /\ call'[<<c, s>>].answer = Never
         /\ \A s \in Sym : s \notin missing => call'[<<c, s>>] = call[<<c, s>>]
         /\ \A d \in Cycler \ {c}, s \in Sym : call'[<<d, s>>] = call[<<d, s>>]
         /\ \A t \in Reader : call'[t] = call[t]
<1>1. \A s \in Sym : <<c, s>>[1] = c /\ <<c, s>>[2] = s
  OBVIOUS
<1>2. \A d \in Cycler \ {c}, s \in Sym : <<d, s>>[1] # c
  OBVIOUS
<1>3. \A k \in Call : /\ [k EXCEPT !.pc = "want", !.left = MaxRetries].pc = "want"
                      /\ [k EXCEPT !.pc = "want", !.left = MaxRetries].sym = k.sym
                      /\ [k EXCEPT !.pc = "want", !.left = MaxRetries].answer = k.answer
  BY DEF Call

<1>5. ASSUME NEW s \in Sym, s \in missing
      PROVE  call'[<<c, s>>] = [Resting(s) EXCEPT !.pc = "want", !.left = MaxRetries]
  BY <1>1, <1>5, ThreadsApart DEF Tasked
<1>6. \A s \in Sym : s \in missing => /\ call'[<<c, s>>].pc = "want"
                                      /\ call'[<<c, s>>].sym = s
                                      /\ call'[<<c, s>>].answer = Never
  <2> SUFFICES ASSUME NEW s \in Sym, s \in missing
               PROVE  /\ call'[<<c, s>>].pc = "want" /\ call'[<<c, s>>].sym = s
                      /\ call'[<<c, s>>].answer = Never
    OBVIOUS
  <2>1. PICK k \in Call : k = Resting(s)
    BY RestingType
  <2>2. k.sym = s /\ k.answer = Never
    BY <2>1, RestingType
  <2>3. call'[<<c, s>>] = [k EXCEPT !.pc = "want", !.left = MaxRetries]
    BY <1>5, <2>1
  <2> QED
    BY <1>3, <2>2, <2>3
<1>7. \A s \in Sym : s \notin missing => call'[<<c, s>>] = call[<<c, s>>]
  BY <1>1, ThreadsApart DEF Tasked
<1>8. \A d \in Cycler \ {c}, s \in Sym : call'[<<d, s>>] = call[<<d, s>>]
  BY <1>2, ThreadsApart DEF Tasked
<1>9. \A t \in Reader : t \in Thread /\ t \notin Worker
  BY ThreadsApart DEF Thread
<1>10. \A t \in Reader : call'[t] = call[t]
  BY <1>9 DEF Tasked
<1> QED
  BY <1>6, <1>7, <1>8, <1>10

\* A thread is a reader or a worker of some cycler.
LEMMA EveryThread ==
  ASSUME NEW t \in Thread
  PROVE  t \in Reader \/ \E c \in Cycler, s \in Sym : t = <<c, s>>
BY ThreadsApart DEF Thread

\* What looking at a worker's result does to its call and its cycle.
LEMMA LookFields ==
  ASSUME TypeOK, NEW c \in Cycler, NEW s \in Sym, Look(c, s)
  PROVE  /\ call[<<c, s>>].pc = "returned"
         /\ call'[<<c, s>>].pc \in {"want", "rest"} /\ call'[<<c, s>>].answer = Never
         /\ \A u \in Thread \ {<<c, s>>} : call'[u] = call[u]
         /\ \A d \in Cycler \ {c} : cycle'[d] = cycle[d]
         /\ \/ /\ call[<<c, s>>].answer = Never
               /\ call'[<<c, s>>].pc = "want" /\ call'[<<c, s>>].sym = call[<<c, s>>].sym
               /\ cycle' = cycle /\ UNCHANGED recordVars
            \/ /\ call'[<<c, s>>].pc = "rest" /\ call'[<<c, s>>].sym = s
               /\ cycle'[c].phase = cycle[c].phase /\ cycle'[c].at = cycle[c].at
               /\ cycle'[c].missing = cycle[c].missing \ {s}
               /\ \A r \in Sym : \/ cycle'[c].got[r] = cycle[c].got[r]
                                 \/ r = s /\ cycle'[c].got[r] = call[<<c, s>>].answer
<1> DEFINE t == <<c, s>>
           error == IF lastError[s] # "none" THEN lastError[s] ELSE call[t].error
<1>1. t \in Thread /\ error \in Error
  BY ThreadsApart, CallFields DEF TypeOK
<1>2. CASE /\ call[t].answer = Never /\ call[t].left > 0
           /\ call' = [call EXCEPT ![t] = Retried(@, error)]
           /\ UNCHANGED <<cycle, recordVars>>
  <2>1. /\ Retried(call[t], error).pc = "want" /\ Retried(call[t], error).sym = call[t].sym
        /\ Retried(call[t], error).answer = call[t].answer
    BY <1>1, CallFields DEF Retried, Call
  <2>2. call'[t] = Retried(call[t], error) /\ \A u \in Thread \ {t} : call'[u] = call[u]
    BY <1>1, <1>2 DEF TypeOK
  <2> QED
    BY <1>2, <2>1, <2>2 DEF Look, recordVars
<1>3. CASE Collect(c, s, error)
  <2>1. call'[t] = Resting(s) /\ \A u \in Thread \ {t} : call'[u] = call[u]
    BY <1>1, <1>3 DEF Collect, TypeOK
  <2>2. PICK k \in Cycle : k = cycle[c]
    BY CycleFields
  <2>3. PICK ticker \in Time \cup {Never} : ticker = call[t].answer
    BY <1>1, CallFields
  <2>4. cycle'[c] = Collected(k, s, ticker) /\ \A d \in Cycler \ {c} : cycle'[d] = cycle[d]
    BY <1>3, <2>2, <2>3 DEF Collect, TypeOK
  <2>5. /\ cycle'[c].phase = k.phase /\ cycle'[c].at = k.at
        /\ cycle'[c].missing = k.missing \ {s}
        /\ cycle'[c].got = [k.got EXCEPT ![s] = IF ticker = Never THEN @ ELSE ticker]
    BY <2>4, CollectedType
  <2>6. \A r \in Sym : cycle'[c].got[r] = k.got[r] \/ (r = s /\ cycle'[c].got[r] = ticker)
    BY <2>5, CycleFields, <2>2
  <2>7. call'[t].pc = "rest" /\ call'[t].sym = s /\ call'[t].answer = Never
    BY <2>1, RestingType
  <2>9. call[t].pc = "returned"
    BY DEF Look
  <2> HIDE DEF t, error
  <2> QED
    BY <1>1, <2>1, <2>2, <2>3, <2>4, <2>5, <2>6, <2>7, <2>9 DEF t
<1> QED
  BY <1>2, <1>3 DEF Look

\* The steps of a cycle leave the requests in order.
LEMMA CycleRequests ==
  ASSUME TypeOK, Requests, NEW c \in Cycler,
         \/ StartCycle(c)
         \/ \E batch \in Batches(c) : \E answered \in SUBSET batch :
              BatchAnswers(c, batch, answered)
         \/ \E batch \in Batches(c) : BatchRaises(c, batch)
         \/ StartFallback(c)
         \/ \E s \in Sym : Look(c, s)
         \/ Publish(c)
  PROVE  Requests'
<1>0. UNCHANGED <<owner, inflight>>
  BY Zenon DEF StartCycle, BatchAnswers, BatchRaises, StartFallback, Look, Publish
<1>1. CASE UNCHANGED call
  <2>1. LockHeld' /\ WaitersCounted' /\ Requested' /\ OneFetch'
    BY <1>0, <1>1, QuietCalls
  <2>2. cycle[c].phase \in {"idle", "batch"} \/ cycle[c].missing = {}
    <3>1. StartCycle(c) \/ Publish(c) \/ cycle[c].phase = "batch" \/ \E s \in Sym : Look(c, s)
      BY DEF BatchAnswers, BatchRaises, StartFallback
    <3>2. ASSUME NEW s \in Sym, Look(c, s) PROVE FALSE
      <4>1. call[<<c, s>>].pc = "returned" /\ call'[<<c, s>>].pc \in {"want", "rest"}
        BY <3>2, LookFields
      <4> QED
        BY <1>1, <4>1
    <3> QED
      BY <3>1, <3>2 DEF StartCycle, Publish
  <2>3. \A s \in Sym : call[<<c, s>>].pc = "rest"
    BY <2>2 DEF Requests, BetweenCalls
  <2>4. \A d \in Cycler \ {c} : cycle'[d] = cycle[d]
    <3>1. \A s \in Sym : ~Look(c, s)
      BY <2>3, LookFields
    <3> QED
      BY <3>1 DEF StartCycle, BatchAnswers, BatchRaises, StartFallback, Publish, TypeOK
  <2>5. BetweenCalls'
    BY <1>1, <2>3, <2>4 DEF Requests, BetweenCalls
  <2> QED
    BY <2>1, <2>5 DEF Requests
<1>2. ASSUME NEW missing, call' = Tasked(c, missing), cycle[c].phase = "batch",
             cycle'[c].phase = "fallback", cycle'[c].missing = missing,
             \A d \in Cycler \ {c} : cycle'[d] = cycle[d]
      PROVE  Requests'
  <2>1. \A s \in Sym : call[<<c, s>>].pc = "rest"
    BY <1>2 DEF Requests, BetweenCalls
  <2>2. ASSUME NEW t \in Thread
        PROVE  \/ call'[t].pc = call[t].pc /\ call'[t].sym = call[t].sym
               \/ call[t].pc \notin {"fetch", "wait"} /\ call'[t].pc \notin {"fetch", "wait"}
    <3>1. CASE t \in Reader
      BY <1>2, <3>1, TaskedFields
    <3>2. ASSUME NEW d \in Cycler, NEW s \in Sym, t = <<d, s>>
          PROVE  \/ call'[t].pc = call[t].pc /\ call'[t].sym = call[t].sym
                 \/ call[t].pc \notin {"fetch", "wait"} /\ call'[t].pc \notin {"fetch", "wait"}
      BY <1>2, <2>1, <3>2, TaskedFields
    <3> QED
      BY <3>1, <3>2, EveryThread
  <2>3. LockHeld' /\ WaitersCounted' /\ Requested' /\ OneFetch'
    BY <1>0, <2>2, QuietCalls
  <2>4. BetweenCalls'
    BY <1>2, <2>1, TaskedFields DEF Requests, BetweenCalls
  <2> QED
    BY <2>3, <2>4 DEF Requests
<1>3. ASSUME NEW batch \in Batches(c), BatchRaises(c, batch)
      PROVE  Requests'
  BY <1>2, <1>3 DEF BatchRaises, TypeOK, Cycle
<1>4. CASE StartFallback(c)
  BY <1>2, <1>4 DEF StartFallback, TypeOK, Cycle
<1>5. ASSUME NEW s \in Sym, Look(c, s)
      PROVE  Requests'
  <2>1. <<c, s>> \in Thread
    BY ThreadsApart
  <2>2. call'[<<c, s>>].pc \in {"want", "rest"} /\ call[<<c, s>>].pc = "returned"
    BY <1>5, LookFields
  <2>3. LockHeld' /\ WaitersCounted' /\ Requested' /\ OneFetch'
    <3>1. ASSUME NEW t \in Thread
          PROVE  \/ call'[t].pc = call[t].pc /\ call'[t].sym = call[t].sym
                 \/ call[t].pc \notin {"fetch", "wait"} /\ call'[t].pc \notin {"fetch", "wait"}
      BY <1>5, <2>2, LookFields
    <3> QED
      BY <1>0, <3>1, QuietCalls
  <2>4. BetweenCalls'
    <3>1. ASSUME NEW d \in Cycler, NEW r \in Sym, call'[<<d, r>>].pc # "rest"
          PROVE  cycle'[d].phase = "fallback" /\ r \in cycle'[d].missing
      <4>1. call[<<d, r>>].pc # "rest"
        BY <1>5, <2>2, <3>1, LookFields, ThreadsApart
      <4>2. cycle[d].phase = "fallback" /\ r \in cycle[d].missing
        BY <4>1 DEF Requests, BetweenCalls
      <4>3. CASE UNCHANGED cycle
        BY <4>2, <4>3
      <4>4. CASE /\ call'[<<c, s>>].pc = "rest"
                 /\ cycle'[c].phase = cycle[c].phase
                 /\ cycle'[c].missing = cycle[c].missing \ {s}
                 /\ \A b \in Cycler \ {c} : cycle'[b] = cycle[b]
        <5>1. <<d, r>> # <<c, s>>
          BY <3>1, <4>4
        <5>2. d = c => r # s
          BY <5>1
        <5> QED
          BY <4>2, <4>4, <5>2
      <4>5. \/ cycle' = cycle
            \/ /\ call'[<<c, s>>].pc = "rest"
               /\ cycle'[c].phase = cycle[c].phase
               /\ cycle'[c].missing = cycle[c].missing \ {s}
        BY <1>5, LookFields
      <4>6. \A b \in Cycler \ {c} : cycle'[b] = cycle[b]
        BY <1>5, LookFields
      <4> QED
        BY <4>3, <4>4, <4>5, <4>6
    <3> QED
      BY <3>1 DEF BetweenCalls
  <2> QED
    BY <2>3, <2>4 DEF Requests
<1> QED
  BY <1>1, <1>3, <1>4, <1>5 DEF StartCycle, BatchAnswers, Publish

\* So do the steps of a call.
LEMMA CallRequests ==
  ASSUME TypeOK, Requests, NEW t \in Thread,
         \/ Enter(t)
         \/ FetchAnswers(t)
         \/ \E e \in {"error", "bad"} : FetchRaises(t, e)
         \/ Wake(t)
         \/ WaitTimesOut(t)
  PROVE  Requests'
<1>1. UNCHANGED cycle
  BY DEF Enter, FetchAnswers, FetchRaises, Wake, WaitTimesOut
<1>2. call[t].pc # "rest" /\ \A u \in Thread \ {t} : call'[u] = call[u]
  <2>1. CASE Enter(t)
    BY <2>1 DEF Enter, TypeOK
  <2>2. CASE ~Enter(t)
    <3>1. \/ \E ticker : Succeed(t, ticker)
          \/ \E e : Fail(t, e)
      BY <2>2 DEF FetchAnswers, FetchRaises, Wake, WaitTimesOut
    <3>2. call[t].pc \in {"fetch", "wait"}
      BY <2>2 DEF FetchAnswers, FetchRaises, Wake, WaitTimesOut
    <3> QED
      BY <3>1, <3>2, LeavesCall
  <2> QED
    BY <2>1, <2>2
<1>3. BetweenCalls'
  BY <1>1, <1>2, ThreadsApart DEF Requests, BetweenCalls
<1>4. LockHeld' /\ WaitersCounted' /\ Requested' /\ OneFetch'
  BY EnterRequests, LeaveRequests
<1> QED
  BY <1>3, <1>4 DEF Requests

\* So does asking for a price.
LEMMA ReadRequests ==
  ASSUME TypeOK, Requests, NEW t \in Reader, NEW s \in Sym, GetPrice(t, s)
  PROVE  Requests'
<1>1. t \in Thread /\ t \notin Worker
  BY ThreadsApart DEF Thread
<1>2. UNCHANGED <<owner, inflight, cycle>>
  BY DEF GetPrice
<1>3. \A u \in Thread \ {t} : call'[u] = call[u]
  BY DEF GetPrice, TypeOK
<1>4. call[t].pc = "rest" /\ call'[t].pc \in {"rest", "want"}
  <2>1. \A n, m : \A k \in Call : /\ [k EXCEPT !.began = n, !.answer = m].pc = k.pc
                                  /\ [k EXCEPT !.pc = "want"].pc = "want"
    BY DEF Call
  <2> QED
    BY <1>1, <2>1, RestingType DEF GetPrice, TypeOK
<1>5. LockHeld' /\ WaitersCounted' /\ Requested' /\ OneFetch'
  BY <1>2, <1>3, <1>4, QuietCalls
<1>6. BetweenCalls'
  BY <1>1, <1>2, <1>3, ThreadsApart DEF Requests, BetweenCalls
<1> QED
  BY <1>5, <1>6 DEF Requests

\* Every step leaves the requests in order.
LEMMA RequestsStep == TypeOK /\ Requests /\ [Next]_vars => Requests'
<1> SUFFICES ASSUME TypeOK, Requests, [Next]_vars PROVE Requests'
  OBVIOUS
<1>1. CASE Tick \/ UNCHANGED vars
  <2>1. UNCHANGED <<owner, inflight, call, cycle>>
    BY <1>1 DEF Tick, vars
  <2>2. LockHeld' /\ WaitersCounted' /\ Requested' /\ OneFetch'
    BY <2>1, QuietCalls
  <2>3. BetweenCalls'
    BY <2>1 DEF Requests, BetweenCalls
  <2> QED
    BY <2>2, <2>3 DEF Requests
<1> QED
  BY <1>1, CallRequests, ReadRequests, CycleRequests DEF Next

(***************************************************************************)
(* Answers: what is handed out and how old it is                           *)
(***************************************************************************)

\* coalescing.py:181.  No step forgets a request, and none changes the outcome of one
\* that is over.
LEMMA InflightStep ==
  ASSUME TypeOK, Requests, [Next]_vars, NEW s \in Sym
  PROVE  /\ inflight[s].state = "completed" =>
              inflight'[s].state = "completed" /\ inflight'[s].taken = inflight[s].taken
         /\ inflight[s].state # "none" => inflight'[s].state # "none"
         /\ inflight[s].state = "failed" => inflight'[s].state = "failed"
<1>0. inflight[s] \in Request
  BY OtherFields
<1>1. ASSUME NEW t \in Thread, Enter(t)
      PROVE  \/ inflight'[s] = inflight[s]
             \/ inflight[s].state = "none"
             \/ inflight'[s].state = inflight[s].state /\ inflight'[s].taken = inflight[s].taken
  <2>1. call[t].sym \in Sym
    BY CallFields
  <2>2. inflight' = inflight \/ inflight' = [inflight EXCEPT ![call[t].sym] = Joined(@)]
    BY <1>1 DEF Enter
  <2>3. inflight'[s] = inflight[s] \/ inflight'[s] = Joined(inflight[s])
    BY <2>1, <2>2 DEF TypeOK
  <2> QED
    BY <1>0, <2>3, RequestFields
<1>2. ASSUME NEW t \in Thread, FetchAnswers(t) \/ \E e \in {"error", "bad"} : FetchRaises(t, e)
      PROVE  \/ inflight'[s] = inflight[s]
             \/ inflight[s].state = "pending" /\ inflight'[s].state \in {"completed", "failed"}
  <2>1. call[t].sym \in Sym /\ inflight[call[t].sym].state = "pending"
    BY <1>2, CallFields DEF FetchAnswers, FetchRaises, Requests, Requested
  <2>2. \/ inflight'[s] = inflight[s]
        \/ s = call[t].sym /\ \/ inflight'[s] = Completed(inflight[s])
                              \/ \E e \in Error : inflight'[s] = Failed(inflight[s], e)
    BY <1>2, <2>1 DEF FetchAnswers, FetchRaises, TypeOK, Error
  <2> QED
    BY <1>0, <2>1, <2>2, RequestFields
<1>3. ASSUME NEW t \in Thread, Wake(t) \/ WaitTimesOut(t)
      PROVE  inflight'[s].state = inflight[s].state /\ inflight'[s].taken = inflight[s].taken
  <2>1. /\ call[t].pc = "wait" /\ call[t].sym \in Sym
        /\ inflight' = [inflight EXCEPT ![call[t].sym] = LeftRequest(@)]
    BY <1>3, CallFields DEF Wake, WaitTimesOut
  <2>2. inflight[call[t].sym].state # "none"
    BY <2>1 DEF Requests, Requested
  <2>3. inflight[call[t].sym].waiters \in 2..3
    BY <2>1, <2>2, Counts
  <2>4. \/ inflight'[s] = inflight[s]
        \/ inflight'[s] = LeftRequest(inflight[s]) /\ inflight[s].waiters # 1
    BY <2>1, <2>3 DEF TypeOK
  <2> QED
    BY <1>0, <2>4, RequestFields
<1>4. \/ inflight' = inflight
      \/ \E t \in Thread : \/ Enter(t)
                           \/ FetchAnswers(t) \/ \E e \in {"error",
                                  "bad"} : FetchRaises(t, e)
                           \/ Wake(t) \/ WaitTimesOut(t)
  BY DEF Next, vars, Tick, GetPrice, StartCycle, BatchAnswers, BatchRaises,
      StartFallback, Look,
     Publish
<1> QED
  BY <1>1, <1>2, <1>3, <1>4

\* The clock goes forward.
LEMMA NowGrows ==
  ASSUME TypeOK, [Next]_vars
  PROVE  now \in Time /\ now' \in {now, now + 1} /\ now' >= now
<1>1. now' \in {now, now + 1}
  BY DEF Next, vars, Tick, GetPrice, Enter, FetchAnswers, FetchRaises, Wake, WaitTimesOut,
     StartCycle, BatchAnswers, BatchRaises, StartFallback, Look, Publish
<1> QED
  BY <1>1, Nats DEF TypeOK

\* A call that ends has no answer, or the answer of its symbol's request, which it caches.
LEMMA CallEnds ==
  ASSUME TypeOK, Requests, NEW t \in Thread, NEW s \in Sym, s = call[t].sym,
         \/ FetchAnswers(t)
         \/ \E e \in {"error", "bad"} : FetchRaises(t, e)
         \/ Wake(t)
         \/ WaitTimesOut(t)
  PROVE  /\ call'[t].pc \in {"rest", "returned"} /\ call'[t].sym = s
         /\ \A u \in Thread \ {t} : call'[u] = call[u]
         /\ UNCHANGED <<now, cycle>>
         /\ \/ call'[t].answer = Never /\ cache' = cache
            \/ /\ inflight'[s].state = "completed" /\ call'[t].answer = inflight'[s].taken
               /\ cache' = [cache EXCEPT ![ProviderOf(t)][s] = Stored(call'[t].answer)]
<1>1. UNCHANGED <<now, cycle>>
  BY DEF FetchAnswers, FetchRaises, Wake, WaitTimesOut
<1>2. \/ \E ticker : Succeed(t, ticker)
      \/ \E e : Fail(t, e)
  BY DEF FetchAnswers, FetchRaises, Wake, WaitTimesOut
<1>3. /\ call'[t].pc \in {"rest", "returned"} /\ call'[t].sym = s
      /\ \A u \in Thread \ {t} : call'[u] = call[u]
  BY <1>2, LeavesCall
<1>4. \A ticker : Returned(t, ticker)[t].answer = ticker
  BY CallFields DEF Returned, TypeOK, Call
<1>5. inflight[s] \in Request
  BY OtherFields
<1>6. CASE FetchAnswers(t)
  <2>1. Succeed(t, now) /\ inflight'[s] = Completed(inflight[s])
    BY <1>6 DEF FetchAnswers, TypeOK
  <2>2. call'[t].answer = now /\ cache' = [cache EXCEPT ![ProviderOf(t)][s] = Stored(now)]
    BY <1>4, <2>1 DEF Succeed
  <2>3. inflight'[s].state = "completed" /\ inflight'[s].taken = now
    BY <1>5, <2>1, RequestFields
  <2> QED
    BY <1>1, <1>3, <2>2, <2>3
<1>7. CASE Wake(t) /\ inflight[s].state = "completed"
  <2>1. Succeed(t, inflight[s].taken) /\ inflight'[s] = LeftRequest(inflight[s]) /\ call[t].pc = "wait"
    BY <1>7 DEF Wake, TypeOK
  <2>2. /\ call'[t].answer = inflight[s].taken
        /\ cache' = [cache EXCEPT ![ProviderOf(t)][s] = Stored(inflight[s].taken)]
    BY <1>4, <2>1 DEF Succeed
  <2>3. inflight[s].waiters \in 2..3
    BY <1>7, <2>1, Counts
  <2>4. inflight'[s].state = "completed" /\ inflight'[s].taken = inflight[s].taken
    BY <1>5, <1>7, <2>1, <2>3, RequestFields
  <2> QED
    BY <1>1, <1>3, <2>2, <2>4
<1>8. CASE \E e : Fail(t, e)
  <2>1. call'[t].answer = Never /\ cache' = cache
    BY <1>4, <1>8 DEF Fail
  <2> QED
    BY <1>1, <1>3, <2>1
<1> QED
  BY <1>6, <1>7, <1>8 DEF FetchRaises, Wake, WaitTimesOut

\* A call that takes the lock is answered from the cache or keeps the answer it had.
LEMMA EnterFields ==
  ASSUME TypeOK, NEW t \in Thread, Enter(t)
  PROVE  /\ call[t].pc = "want"
         /\ call'[t].sym = call[t].sym
         /\ \A u \in Thread \ {t} : call'[u] = call[u]
         /\ UNCHANGED <<now, cache, cycle>>
         /\ \/ /\ t \in Reader /\ Alive(cache[ProviderOf(t)][call[t].sym])
               /\ call'[t].pc = "rest" /\ call'[t].began = now
               /\ call'[t].answer = cache[ProviderOf(t)][call[t].sym].taken
            \/ call'[t].answer = call[t].answer
<1> DEFINE hit == call' = [call EXCEPT ![t] = [@ EXCEPT !.pc = "rest", !.began = now,
                                               !.answer = cache[ProviderOf(t)][call[t].sym].taken]]
           miss == call' = [call EXCEPT ![t] = [@ EXCEPT !.pc = Role(call[t].sym),
                                                !.began = now, !.shared = TRUE]]
<1>1. /\ call[t].pc = "want" /\ UNCHANGED <<now, cache, cycle>>
      /\ miss \/ (hit /\ t \in Reader /\ Alive(cache[ProviderOf(t)][call[t].sym]))
  BY Zenon DEF Enter
<1>2. CASE miss
  <2>1. call'[t].answer = call[t].answer /\ call'[t].sym = call[t].sym
    BY <1>2, CallFields DEF TypeOK, Call
  <2>2. \A u \in Thread \ {t} : call'[u] = call[u]
    BY <1>2 DEF TypeOK
  <2> QED
    BY <1>1, <2>1, <2>2
<1>3. CASE hit /\ t \in Reader /\ Alive(cache[ProviderOf(t)][call[t].sym])
  <2>1. /\ call'[t].answer = cache[ProviderOf(t)][call[t].sym].taken /\ call'[t].sym = call[t].sym
        /\ call'[t].pc = "rest" /\ call'[t].began = now
    BY <1>3, CallFields DEF TypeOK, Call
  <2>2. \A u \in Thread \ {t} : call'[u] = call[u]
    BY <1>3 DEF TypeOK
  <2> QED
    BY <1>1, <1>3, <2>1, <2>2
<1> QED
  BY <1>1, <1>2, <1>3

\* get_price is answered from the cache or has no answer yet.
LEMMA PriceFields ==
  ASSUME TypeOK, NEW t \in Reader, NEW s \in Sym, GetPrice(t, s)
  PROVE  /\ call'[t].sym = s
         /\ \A u \in Thread \ {t} : call'[u] = call[u]
         /\ UNCHANGED <<now, cache, cycle, inflight>>
         /\ \/ /\ Alive(cache[ProviderOf(t)][s])
               /\ call'[t].pc = "rest" /\ call'[t].began = now
               /\ call'[t].answer = cache[ProviderOf(t)][s].taken
            \/ call'[t].pc = "want" /\ call'[t].answer = Never
<1>1. t \in Thread
  BY DEF Thread
<1>2. PICK k \in Call : k = Resting(s) /\ k.pc = "rest" /\ k.sym = s /\ k.answer = Never
  BY RestingType
<1>3. CASE call' = [call EXCEPT ![t] = [k EXCEPT !.began = now,
                                        !.answer = cache[ProviderOf(t)][s].taken]]
           /\ Alive(cache[ProviderOf(t)][s])
  <2>1. call'[t] = [k EXCEPT !.began = now, !.answer = cache[ProviderOf(t)][s].taken]
    BY <1>1, <1>3 DEF TypeOK
  <2>2. /\ call'[t].pc = "rest" /\ call'[t].sym = s /\ call'[t].began = now
        /\ call'[t].answer = cache[ProviderOf(t)][s].taken
    BY <1>2, <2>1 DEF Call
  <2> QED
    BY <1>1, <1>3, <2>2 DEF GetPrice, TypeOK
<1>4. CASE call' = [call EXCEPT ![t] = [k EXCEPT !.pc = "want"]]
  BY <1>1, <1>2, <1>4 DEF GetPrice, TypeOK, Call
<1> QED
  BY <1>2, <1>3, <1>4 DEF GetPrice

\* What looking at a worker's result can change of answers.
LookEffects(c, s) ==
  /\ \A u \in Thread : \/ call'[u] = call[u]
                       \/ /\ u \in Worker /\ call'[u].answer = Never
                          /\ call'[u].sym = u[2] \/ call'[u].sym = call[u].sym
  /\ \A d \in Cycler \ {c} : cycle'[d] = cycle[d]
  /\ cycle'[c].at = cycle[c].at
  /\ \A r \in Sym : cycle'[c].got[r] \in {cycle[c].got[r], call[<<c, r>>].answer}

\* That is all it changes.
LEMMA LookHas ==
  ASSUME TypeOK, NEW c \in Cycler, NEW s \in Sym, Look(c, s)
  PROVE  LookEffects(c, s)
<1>1. <<c, s>> \in Worker /\ <<c, s>>[2] = s
  BY ThreadsApart
<1>2. PICK t : t = <<c, s>>
  OBVIOUS
<1>3. call'[t].answer = Never /\ (call'[t].sym = s \/ call'[t].sym = call[t].sym)
  BY <1>2, LookFields
<1>4. \A u \in Thread \ {t} : call'[u] = call[u]
  BY <1>2, LookFields
<1>5. \A d \in Cycler \ {c} : cycle'[d] = cycle[d]
  BY LookFields
<1>6. cycle' = cycle \/ (/\ cycle'[c].at = cycle[c].at
                         /\ \A r \in Sym : \/ cycle'[c].got[r] = cycle[c].got[r]
                                           \/ r = s /\ cycle'[c].got[r] = call[t].answer)
  BY <1>2, LookFields
<1>7. /\ cycle'[c].at = cycle[c].at
      /\ \A r \in Sym : cycle'[c].got[r] \in {cycle[c].got[r], call[<<c, r>>].answer}
  BY <1>2, <1>6
<1> QED
  BY <1>1, <1>2, <1>3, <1>4, <1>5, <1>7 DEF LookEffects

\* What a step of a cycle can change of answers: a worker's is dropped, what a cycle
\* collects is new or a worker's, and what is cached is new.
LEMMA CycleEffects ==
  ASSUME TypeOK, Requests, NEW c \in Cycler,
         \/ StartCycle(c)
         \/ \E batch \in Batches(c) : \E answered \in SUBSET batch :
              BatchAnswers(c, batch, answered)
         \/ \E batch \in Batches(c) : BatchRaises(c, batch)
         \/ StartFallback(c)
         \/ \E s \in Sym : Look(c, s)
         \/ Publish(c)
  PROVE  /\ now' = now
         /\ \A u \in Thread : \/ call'[u] = call[u]
                              \/ /\ u \in Worker /\ call'[u].answer = Never
                                 /\ call'[u].sym = u[2] \/ call'[u].sym = call[u].sym
         /\ \A d \in Cycler \ {c} : cycle'[d] = cycle[d]
         /\ \/ /\ cycle'[c].at = cycle[c].at
               /\ \A s \in Sym : cycle'[c].got[s] \in {cycle[c].got[s], now, call[<<c, s>>].answer}
            \/ /\ cycle'[c].at \in {0, now}
               /\ \A s \in Sym : cycle'[c].got[s] = Never
         /\ \A p \in Provider, s \in Sym : cache'[p][s] \in {cache[p][s], Stored(now)}
<1>k. PICK k \in Cycle : k = cycle[c] /\ k.got \in [Sym -> Time \cup {Never}]
  BY CycleFields
<1>i. IdleCycle \in Cycle /\ IdleCycle.at = 0 /\ IdleCycle.got = [s \in Sym |-> Never]
  BY IdleType DEF IdleCycle
<1>1. CASE StartCycle(c)
  <2>1. PICK j \in Cycle : j = IdleCycle
    BY <1>i
  <2>2. cycle'[c] = [j EXCEPT !.phase = "batch", !.at = now,
                     !.rest = {s \in Sym : ~IsDegraded(s)}]
    BY <1>1, <2>1 DEF StartCycle, TypeOK
  <2>3. cycle'[c].at = now /\ cycle'[c].got = j.got
    BY <2>2 DEF Cycle
  <2>4. \A s \in Sym : cycle'[c].got[s] = Never
    BY <1>i, <2>1, <2>3
  <2> QED
    BY <1>1, <2>3, <2>4 DEF StartCycle, TypeOK
<1>2. ASSUME NEW batch \in Batches(c), NEW answered \in SUBSET batch,
             BatchAnswers(c, batch, answered)
      PROVE  /\ UNCHANGED <<now, call>>
             /\ \A d \in Cycler \ {c} : cycle'[d] = cycle[d]
             /\ cycle'[c].at = cycle[c].at
             /\ \A s \in Sym : cycle'[c].got[s] \in {cycle[c].got[s], now}
             /\ \A p \in Provider, s \in Sym : cache'[p][s] \in {cache[p][s], Stored(now)}
  <2>1. cycle'[c] = Asked(k, batch, answered) /\ \A d \in Cycler \ {c} : cycle'[d] = cycle[d]
    BY <1>2, <1>k DEF BatchAnswers, TypeOK
  <2>2. /\ cycle'[c].at = k.at
        /\ cycle'[c].got = [s \in Sym |-> IF s \in answered THEN now ELSE k.got[s]]
    BY <2>1 DEF Asked, Cycle
  <2>3. \A p \in Provider, s \in Sym : cache'[p][s] \in {cache[p][s], Stored(now)}
    BY <1>2 DEF BatchAnswers, TypeOK
  <2> QED
    BY <1>2, <1>k, <2>1, <2>2, <2>3 DEF BatchAnswers
<1>3. ASSUME NEW missing, call' = Tasked(c, missing), UNCHANGED <<now, cache>>,
             \E rest : cycle' = [cycle EXCEPT ![c] = [@ EXCEPT !.phase = "fallback",
                                                      !.rest = rest,
                                                               !.missing = missing]]
      PROVE  /\ \A u \in Thread : \/ call'[u] = call[u]
                                  \/ /\ u \in Worker /\ call'[u].answer = Never
                                     /\ call'[u].sym = u[2]
             /\ \A d \in Cycler \ {c} : cycle'[d] = cycle[d]
             /\ cycle'[c].at = cycle[c].at /\ cycle'[c].got = cycle[c].got
  <2>1. \A d \in Cycler \ {c} : cycle'[d] = cycle[d]
    BY <1>3 DEF TypeOK
  <2>2. cycle'[c].at = k.at /\ cycle'[c].got = k.got
    BY <1>3, <1>k DEF TypeOK, Cycle
  <2>3. ASSUME NEW d \in Cycler, NEW s \in Sym
        PROVE  \/ call'[<<d, s>>] = call[<<d, s>>]
               \/ call'[<<d, s>>].answer = Never /\ call'[<<d, s>>].sym = s
    BY <1>3, TaskedFields
  <2>4. \A d \in Cycler, s \in Sym : <<d, s>> \in Worker /\ <<d, s>>[2] = s
    BY ThreadsApart
  <2>5. \A u \in Thread : \/ call'[u] = call[u]
                          \/ u \in Worker /\ call'[u].answer = Never /\ call'[u].sym = u[2]
    <3> SUFFICES ASSUME NEW u \in Thread
                 PROVE  \/ call'[u] = call[u]
                        \/ u \in Worker /\ call'[u].answer = Never /\ call'[u].sym = u[2]
      OBVIOUS
    <3>1. CASE u \in Reader
      BY <1>3, <3>1, TaskedFields
    <3>2. ASSUME NEW d \in Cycler, NEW s \in Sym, u = <<d, s>>
          PROVE  \/ call'[u] = call[u]
                 \/ u \in Worker /\ call'[u].answer = Never /\ call'[u].sym = u[2]
      BY <2>3, <2>4, <3>2
    <3> QED
      BY <3>1, <3>2, EveryThread
  <2> QED
    BY <1>k, <2>1, <2>2, <2>5
<1>4. \A s \in Sym : Look(c, s) => LookEffects(c, s)
  BY LookHas
<1>5. CASE Publish(c)
  <2>1. cycle'[c] = IdleCycle /\ \A d \in Cycler \ {c} : cycle'[d] = cycle[d]
    BY <1>5 DEF Publish, TypeOK
  <2>2. cycle'[c].at = 0 /\ \A s \in Sym : cycle'[c].got[s] = Never
    BY <1>i, <2>1
  <2> QED
    BY <1>5, <2>1, <2>2 DEF Publish
<1>6. ASSUME NEW batch \in Batches(c), BatchRaises(c, batch)
      PROVE  \E missing, rest :
               /\ call' = Tasked(c, missing) /\ UNCHANGED <<now, cache>>
               /\ cycle' = [cycle EXCEPT ![c] = [@ EXCEPT !.phase = "fallback", !.rest = rest,
                                                          !.missing = missing]]
  BY <1>6 DEF BatchRaises
<1>7. CASE StartFallback(c)
  <2>1. cycle'[c] = [k EXCEPT !.phase = "fallback"] /\ \A d \in Cycler \ {c} : cycle'[d] = cycle[d]
    BY <1>7, <1>k DEF StartFallback, TypeOK
  <2>2. cycle'[c] = [k EXCEPT !.phase = "fallback", !.rest = k.rest, !.missing = k.missing]
    BY <2>1 DEF Cycle
  <2>3. cycle' = [cycle EXCEPT ![c] = [@ EXCEPT !.phase = "fallback", !.rest = k.rest,
                                       !.missing = k.missing]]
    BY <1>7, <1>k, <2>2 DEF StartFallback, TypeOK
  <2> QED
    BY <1>3, <1>7, <1>k, <2>3 DEF StartFallback
<1> QED
  BY <1>1, <1>2, <1>3, <1>4, <1>5, <1>6, <1>7 DEF Look, LookEffects

\* The steps of a call keep the answers as old as they may be: what the cache serves is
\* alive, and what a call shares is the first answer.
LEMMA CallersAnswers ==
  ASSUME TypeOK, Requests, Answers, [Next]_vars, NEW t \in Thread,
         \/ Enter(t)
         \/ FetchAnswers(t)
         \/ \E e \in {"error", "bad"} : FetchRaises(t, e)
         \/ Wake(t)
         \/ WaitTimesOut(t)
         \/ t \in Reader /\ \E s \in Sym : GetPrice(t, s)
  PROVE  Answers'
<1>0. /\ now \in Time /\ now \in Nat /\ Ttl \in Nat /\ Never \in Nat
      /\ \A s \in Sym : inflight[s].state = "completed" =>
           inflight'[s].state = "completed" /\ inflight'[s].taken = inflight[s].taken
  BY InflightStep, Nats DEF TypeOK
<1>h. ASSUME NEW s \in Sym, NEW p \in Provider, Alive(cache[p][s])
      PROVE  \/ cache[p][s].taken = Never
             \/ IsFirst(cache[p][s].taken, s)
             \/ cache[p][s].taken + Ttl >= now
  <2>1. cache[p][s].taken \in Nat /\ cache[p][s].stored \in Nat
    BY OtherFields, Nats
  <2>2. cache[p][s].stored <= now /\ now - cache[p][s].stored <= Ttl
    BY <1>h DEF Alive, Answers, CachedFrom
  <2>3. cache[p][s].taken = cache[p][s].stored \/ IsFirst(cache[p][s].taken, s)
    BY <1>h DEF Alive, Answers, CachedFrom
  <2> QED
    BY <1>0, <2>1, <2>2, <2>3
<1>1. CASE Enter(t) \/ (t \in Reader /\ \E s \in Sym : GetPrice(t, s))
  <2>0. PICK s \in Sym : s = call'[t].sym
    BY <1>1, EnterFields, PriceFields, CallFields
  <2>1. /\ UNCHANGED <<now, cache, cycle>> /\ \A u \in Thread \ {t} : call'[u] = call[u]
        /\ ProviderOf(t) \in Provider
    BY <1>1, EnterFields, PriceFields, ThreadsApart
  <2>2. CASE /\ t \in Reader /\ Alive(cache[ProviderOf(t)][s])
             /\ call'[t].pc = "rest" /\ call'[t].began = now
             /\ call'[t].answer = cache[ProviderOf(t)][s].taken
    <3>1. WorkersShare'
      <4>1. \A w \in Worker : w \in Thread \ {t} /\ w[2] \in Sym
        BY <2>2, ThreadsApart DEF Thread
      <4> QED
        BY <1>0, <2>1, <4>1 DEF Answers, WorkersShare, IsFirst
    <3>2. ReadersHanded'
      <4>1. \A u \in Reader \ {t} : call'[u] = call[u] /\ call[u].sym \in Sym
        BY <2>1, CallFields DEF Thread
      <4>2. \/ call'[t].answer = Never
            \/ IsFirst(call[t].answer, call[t].sym)'
            \/ call'[t].answer + Ttl >= call'[t].began
        BY <1>0, <1>h, <2>0, <2>1, <2>2 DEF IsFirst
      <4>3. ASSUME NEW u \in Reader \ {t}
            PROVE  /\ call'[u].pc \in {"want", "fetch", "wait"} => call'[u].answer = Never
                   /\ \/ call'[u].answer = Never
                      \/ IsFirst(call[u].answer, call[u].sym)'
                      \/ call'[u].answer + Ttl >= call'[u].began
        BY <1>0, <4>1 DEF Answers, ReadersHanded, IsFirst
      <4> QED
        BY <2>2, <4>2, <4>3 DEF ReadersHanded
    <3>3. CachedFrom' /\ CyclesGot'
      BY <1>0, <2>1 DEF Answers, CachedFrom, CyclesGot, IsFirst
    <3> QED
      BY <3>1, <3>2, <3>3 DEF Answers
  <2>3. CASE \/ call'[t].answer = call[t].answer /\ call'[t].sym = call[t].sym
                /\ call[t].pc = "want"
             \/ call'[t].answer = Never /\ t \in Reader
    <3>1. WorkersShare'
      BY <1>0, <2>1, <2>3, ThreadsApart DEF Answers, WorkersShare, Thread, IsFirst
    <3>2. ReadersHanded'
      <4>1. \A u \in Reader \ {t} : call'[u] = call[u] /\ call[u].sym \in Sym
        BY <2>1, CallFields DEF Thread
      <4>2. t \in Reader => call'[t].answer = Never
        BY <2>3 DEF Answers, ReadersHanded
      <4> QED
        BY <1>0, <4>1, <4>2 DEF Answers, ReadersHanded, IsFirst
    <3>3. CachedFrom' /\ CyclesGot'
      BY <1>0, <2>1 DEF Answers, CachedFrom, CyclesGot, IsFirst
    <3> QED
      BY <3>1, <3>2, <3>3 DEF Answers
  <2> QED
    BY <1>1, <2>0, <2>2, <2>3, EnterFields, PriceFields
<1>2. CASE \/ FetchAnswers(t)
           \/ \E e \in {"error", "bad"} : FetchRaises(t, e)
           \/ Wake(t)
           \/ WaitTimesOut(t)
  <2>0. PICK s \in Sym : s = call[t].sym
    BY CallFields
  <2>1. /\ call'[t].pc \in {"rest", "returned"} /\ call'[t].sym = s
        /\ \A u \in Thread \ {t} : call'[u] = call[u]
        /\ UNCHANGED <<now, cycle>>
        /\ \/ call'[t].answer = Never /\ cache' = cache
           \/ /\ inflight'[s].state = "completed" /\ call'[t].answer = inflight'[s].taken
              /\ cache' = [cache EXCEPT ![ProviderOf(t)][s] = Stored(call'[t].answer)]
    BY <1>2, <2>0, CallEnds
  <2>2. call'[t].answer = Never \/ (/\ inflight'[s].state = "completed"
                                    /\ call'[t].answer = inflight'[s].taken)
    BY <2>1
  <2>3. \A u \in Thread \ {t} : call'[u] = call[u] /\ call[u].sym \in Sym
    BY <2>1, CallFields
  <2>4. WorkersShare'
    <3>1. ASSUME NEW w \in Worker
          PROVE  /\ call'[w].sym = w[2]
                 /\ call'[w].answer # Never => IsFirst(call[w].answer, w[2])'
      <4>1. w \in Thread /\ w[2] \in Sym
        BY ThreadsApart DEF Thread
      <4>2. call[w].sym = w[2] /\ (call[w].answer # Never => IsFirst(call[w].answer, w[2]))
        BY DEF Answers, WorkersShare
      <4>3. CASE w = t
        BY <2>0, <2>1, <2>2, <4>2, <4>3 DEF IsFirst
      <4>4. CASE w # t
        BY <1>0, <2>3, <4>1, <4>2, <4>4 DEF IsFirst
      <4> QED
        BY <4>3, <4>4
    <3> QED
      BY <3>1 DEF WorkersShare
  <2>5. ReadersHanded'
    <3>1. ASSUME NEW u \in Reader
          PROVE  /\ call'[u].pc \in {"want", "fetch", "wait"} => call'[u].answer = Never
                 /\ \/ call'[u].answer = Never
                    \/ IsFirst(call[u].answer, call[u].sym)'
                    \/ call'[u].answer + Ttl >= call'[u].began
      <4>1. CASE u = t
        BY <2>1, <2>2, <4>1 DEF IsFirst
      <4>2. CASE u # t
        BY <1>0, <2>3, <4>2 DEF Answers, ReadersHanded, IsFirst, Thread
      <4> QED
        BY <4>1, <4>2
    <3> QED
      BY <3>1 DEF ReadersHanded
  <2>6. CachedFrom'
    <3>1. CASE cache' = cache
      BY <1>0, <2>1, <3>1 DEF Answers, CachedFrom, IsFirst
    <3>2. CASE /\ inflight'[s].state = "completed" /\ call'[t].answer = inflight'[s].taken
               /\ cache' = [cache EXCEPT ![ProviderOf(t)][s] = Stored(call'[t].answer)]
      <4>1. PICK ticker : ticker = call'[t].answer
        OBVIOUS
      <4>2. Stored(ticker).taken = inflight'[s].taken /\ Stored(ticker).stored = now
        BY <3>2, <4>1 DEF Stored
      <4>3. ASSUME NEW p \in Provider, NEW r \in Sym, cache'[p][r] # NoEntry
            PROVE  /\ cache'[p][r].stored <= now
                   /\ \/ cache'[p][r].taken = cache'[p][r].stored
                      \/ inflight'[r].state = "completed" /\ cache'[p][r].taken = inflight'[r].taken
        <5>1. cache'[p][r] = cache[p][r] \/ (r = s /\ cache'[p][r] = Stored(ticker))
          BY <3>2, <4>1 DEF TypeOK
        <5>2. CASE cache'[p][r] = cache[p][r]
          BY <1>0, <4>3, <5>2 DEF Answers, CachedFrom, IsFirst
        <5>3. CASE r = s /\ cache'[p][r] = Stored(ticker)
          BY <1>0, <3>2, <4>2, <5>3
        <5> QED
          BY <5>1, <5>2, <5>3
      <4> QED
        BY <2>1, <4>3 DEF CachedFrom, IsFirst
    <3> QED
      BY <2>1, <3>1, <3>2
  <2>7. CyclesGot'
    BY <1>0, <2>1 DEF Answers, CyclesGot, IsFirst
  <2> QED
    BY <2>4, <2>5, <2>6, <2>7 DEF Answers
<1> QED
  BY <1>1, <1>2

\* So do the steps of a cycle.
LEMMA CyclesAnswers ==
  ASSUME TypeOK, Requests, Answers, [Next]_vars, NEW c \in Cycler,
         \/ StartCycle(c)
         \/ \E batch \in Batches(c) : \E answered \in SUBSET batch :
              BatchAnswers(c, batch, answered)
         \/ \E batch \in Batches(c) : BatchRaises(c, batch)
         \/ StartFallback(c)
         \/ \E s \in Sym : Look(c, s)
         \/ Publish(c)
  PROVE  Answers'
<1>0. /\ now \in Time /\ now \in Nat /\ Never \in Nat
      /\ \A s \in Sym : inflight[s].state = "completed" =>
           inflight'[s].state = "completed" /\ inflight'[s].taken = inflight[s].taken
  BY InflightStep, Nats DEF TypeOK
<1>1. now' = now
  BY CycleEffects
<1>2. \A u \in Thread : \/ call'[u] = call[u]
                        \/ /\ u \in Worker /\ call'[u].answer = Never
                           /\ call'[u].sym = u[2] \/ call'[u].sym = call[u].sym
  BY CycleEffects
<1>3. \A d \in Cycler \ {c} : cycle'[d] = cycle[d]
  BY CycleEffects
<1>4. \/ /\ cycle'[c].at = cycle[c].at
         /\ \A s \in Sym : cycle'[c].got[s] \in {cycle[c].got[s], now, call[<<c, s>>].answer}
      \/ /\ cycle'[c].at \in {0, now}
         /\ \A s \in Sym : cycle'[c].got[s] = Never
  BY CycleEffects
<1>5. \A p \in Provider, s \in Sym : cache'[p][s] \in {cache[p][s], Stored(now)}
  BY CycleEffects
<1>6. WorkersShare'
  <2>1. ASSUME NEW w \in Worker
        PROVE  /\ call'[w].sym = w[2]
               /\ call'[w].answer # Never => IsFirst(call[w].answer, w[2])'
    <3>1. w \in Thread /\ w[2] \in Sym
      BY ThreadsApart DEF Thread
    <3> QED
      BY <1>0, <1>2, <3>1 DEF Answers, WorkersShare, IsFirst
  <2> QED
    BY <2>1 DEF WorkersShare
<1>7. ReadersHanded'
  <2>1. \A u \in Reader : call'[u] = call[u] /\ call[u].sym \in Sym
    BY <1>2, CallFields, ThreadsApart DEF Thread
  <2> QED
    BY <1>0, <2>1 DEF Answers, ReadersHanded, IsFirst
<1>8. CachedFrom'
  <2>1. Stored(now).taken = now /\ Stored(now).stored = now
    BY DEF Stored
  <2>2. ASSUME NEW p \in Provider, NEW r \in Sym, cache'[p][r] # NoEntry
        PROVE  /\ cache'[p][r].stored <= now
               /\ \/ cache'[p][r].taken = cache'[p][r].stored
                  \/ inflight'[r].state = "completed" /\ cache'[p][r].taken = inflight'[r].taken
    <3>1. CASE cache'[p][r] = cache[p][r]
      BY <1>0, <2>2, <3>1 DEF Answers, CachedFrom, IsFirst
    <3>2. CASE cache'[p][r] = Stored(now)
      BY <1>0, <2>1, <3>2
    <3> QED
      BY <1>5, <3>1, <3>2
  <2> QED
    BY <1>1, <2>2 DEF CachedFrom, IsFirst
<1>9. CyclesGot'
  <2>1. ASSUME NEW d \in Cycler
        PROVE  /\ cycle'[d].at <= now
               /\ \A s \in Sym : \/ cycle'[d].got[s] >= cycle'[d].at
                                 \/ /\ inflight'[s].state = "completed"
                                    /\ cycle'[d].got[s] = inflight'[s].taken
    <3>0. /\ cycle[d].at <= now /\ cycle[d].at \in Nat
          /\ \A s \in Sym : \/ cycle[d].got[s] >= cycle[d].at
                            \/ /\ inflight[s].state = "completed"
                               /\ cycle[d].got[s] = inflight[s].taken
      BY CycleFields, Nats DEF Answers, CyclesGot, IsFirst
    <3>1. CASE cycle'[d] = cycle[d]
      BY <1>0, <3>0, <3>1
    <3>2. CASE d = c /\ cycle'[c].at = cycle[c].at
               /\ \A s \in Sym : cycle'[c].got[s] \in {cycle[c].got[s], now, call[<<c, s>>].answer}
      <4>1. \A s \in Sym : \/ call[<<c, s>>].answer = Never
                           \/ /\ inflight[s].state = "completed"
                              /\ call[<<c, s>>].answer = inflight[s].taken
        <5>1. \A s \in Sym : <<c, s>> \in Worker /\ <<c, s>>[2] = s
          BY ThreadsApart
        <5> QED
          BY <5>1 DEF Answers, WorkersShare, IsFirst
      <4>2. Never >= cycle[c].at
        BY <1>0, <3>0, <3>2, Nats
      <4>3. ASSUME NEW s \in Sym
            PROVE  \/ cycle'[d].got[s] >= cycle'[d].at
                   \/ inflight'[s].state = "completed" /\ cycle'[d].got[s] = inflight'[s].taken
        BY <1>0, <3>0, <3>2, <4>1, <4>2
      <4> QED
        BY <3>0, <3>2, <4>3
    <3>3. CASE d = c /\ cycle'[c].at \in {0, now} /\ \A s \in Sym : cycle'[c].got[s] = Never
      <4>1. Never >= now /\ Never >= 0
        BY <1>0, Nats
      <4> QED
        BY <1>0, <3>3, <4>1
    <3> QED
      BY <1>3, <1>4, <3>1, <3>2, <3>3
  <2> QED
    BY <1>1, <2>1 DEF CyclesGot, IsFirst
<1> QED
  BY <1>6, <1>7, <1>8, <1>9 DEF Answers

\* Every step keeps the answers as old as they may be.
LEMMA AnswersStep == TypeOK /\ Requests /\ Answers /\ [Next]_vars => Answers'
<1> SUFFICES ASSUME TypeOK, Requests, Answers, [Next]_vars PROVE Answers'
  OBVIOUS
<1>1. CASE Tick \/ UNCHANGED vars
  <2>1. UNCHANGED <<inflight, call, cycle, cache>>
    BY <1>1 DEF Tick, vars
  <2>2. now' >= now /\ now \in Nat /\ now' \in Nat
    <3>1. now \in Nat
      BY NowGrows, Nats
    <3> QED
      BY <3>1, NowGrows
  <2>3. WorkersShare' /\ ReadersHanded'
    BY <2>1 DEF Answers, WorkersShare, ReadersHanded, IsFirst
  <2>4. CachedFrom'
    <3>1. \A p \in Provider, s \in Sym : cache[p][s].stored \in Nat
      BY OtherFields, Nats
    <3> QED
      BY <2>1, <2>2, <3>1 DEF Answers, CachedFrom, IsFirst
  <2>5. CyclesGot'
    <3>1. \A c \in Cycler : cycle[c].at \in Nat
      BY CycleFields, Nats
    <3> QED
      BY <2>1, <2>2, <3>1 DEF Answers, CyclesGot, IsFirst
  <2> QED
    BY <2>3, <2>4, <2>5 DEF Answers
<1>2. \A t \in Reader : t \in Thread
  BY DEF Thread
<1> QED
  BY <1>1, <1>2, CallersAnswers, CyclesAnswers DEF Next

(***************************************************************************)
(* Failures and delays                                                     *)
(***************************************************************************)

\* _record_success forgets the failures and the delay together.
LEMMA RecordSuccessCounts ==
  ASSUME TypeOK, FailuresCounted, DelayIsDeserved, NEW S, RecordSuccess(S)
  PROVE  FailuresCounted' /\ DelayIsDeserved'
<1>1. FailuresCounted'
  BY DEF FailuresCounted, RecordSuccess, ClearedFailures
<1>2. DelayIsDeserved'
  BY DEF DelayIsDeserved, RecordSuccess, TypeOK
<1> QED
  BY <1>1, <1>2

\* _record_failure delays a symbol when the count has come up to Threshold.
LEMMA RecordFailureCounts ==
  ASSUME TypeOK, FailuresCounted, DelayIsDeserved,
         NEW s \in Sym, NEW e, NEW at \in Time, RecordFailure(s, e, at)
  PROVE  FailuresCounted' /\ DelayIsDeserved'
<1>1. CASE e = "bad"
  BY <1>1 DEF RecordFailure, FailuresCounted, DelayIsDeserved
<1>2. CASE e # "bad"
  <2>1. /\ failures' = [failures EXCEPT ![s] = OneMore(failures[s])]
        /\ streak' = [streak EXCEPT ![s] = OneMore(streak[s])]
        /\ degraded' = [degraded EXCEPT ![s] =
                          IF OneMore(failures[s]) >= Threshold /\ degraded[s] = Never
                          THEN at + DegradeInterval ELSE degraded[s]]
    BY <1>2 DEF RecordFailure
  <2>2. FailuresCounted'
    BY <2>1 DEF FailuresCounted
  <2>3. \A n \in 0..Threshold : n >= Threshold => OneMore(n) >= Threshold
    BY Nats DEF OneMore
  <2>4. ASSUME NEW r \in Sym, degraded'[r] # Never
        PROVE  streak'[r] >= Threshold
    <3>1. streak[r] \in 0..Threshold /\ streak = failures
      BY DEF TypeOK, FailuresCounted
    <3>2. CASE r # s
      BY <2>1, <2>4, <3>2 DEF TypeOK, DelayIsDeserved
    <3>3. CASE r = s
      <4>1. streak'[s] = OneMore(streak[s])
        BY <2>1 DEF TypeOK
      <4>2. OneMore(failures[s]) >= Threshold \/ degraded[s] # Never
        BY <2>1, <2>4, <3>3 DEF TypeOK
      <4>3. degraded[s] # Never => streak[s] >= Threshold
        BY DEF DelayIsDeserved
      <4> QED
        BY <2>3, <3>1, <3>3, <4>1, <4>2, <4>3
    <3> QED
      BY <3>2, <3>3
  <2> QED
    BY <2>2, <2>4 DEF DelayIsDeserved
<1> QED
  BY <1>1, <1>2

\* A worker's result counts once, as a success or as a failure.
LEMMA LookRecords ==
  ASSUME TypeOK, NEW c \in Cycler, NEW s \in Sym, Look(c, s)
  PROVE  \/ UNCHANGED recordVars
         \/ RecordSuccess({s})
         \/ \E e : RecordFailure(s, e, cycle[c].at)
BY DEF Look, Collect

\* Every step keeps the counts and the delays they deserve.
LEMMA CountsStep ==
  TypeOK /\ FailuresCounted /\ DelayIsDeserved /\ [Next]_vars => FailuresCounted' /\ DelayIsDeserved'
<1> SUFFICES ASSUME TypeOK, FailuresCounted, DelayIsDeserved, [Next]_vars
             PROVE  FailuresCounted' /\ DelayIsDeserved'
  OBVIOUS
<1>1. CASE UNCHANGED recordVars
  BY <1>1 DEF recordVars, FailuresCounted, DelayIsDeserved
<1>2. ASSUME NEW c \in Cycler, StartCycle(c)
      PROVE  FailuresCounted' /\ DelayIsDeserved'
  <2>1. /\ UNCHANGED <<failures, streak>>
        /\ \A s \in Sym : degraded'[s] \in {degraded[s], Never}
    BY <1>2 DEF StartCycle
  <2> QED
    BY <2>1 DEF FailuresCounted, DelayIsDeserved
<1>3. ASSUME NEW S, RecordSuccess(S)
      PROVE  FailuresCounted' /\ DelayIsDeserved'
  BY <1>3, RecordSuccessCounts
<1>4. ASSUME NEW c \in Cycler, NEW s \in Sym, Look(c, s)
      PROVE  FailuresCounted' /\ DelayIsDeserved'
  <2>1. cycle[c].at \in Time
    BY CycleFields
  <2> QED
    BY <1>1, <1>3, <1>4, <2>1, LookRecords, RecordFailureCounts
<1>5. \/ UNCHANGED recordVars
      \/ \E c \in Cycler : \/ StartCycle(c)
                           \/ \E S : RecordSuccess(S)
                           \/ \E s \in Sym : Look(c, s)
  BY DEF Next, vars, recordVars, Tick, GetPrice, Enter, FetchAnswers, FetchRaises, Wake,
      WaitTimesOut,
     BatchAnswers, BatchRaises, StartFallback, Publish
<1> QED
  BY <1>1, <1>2, <1>3, <1>4, <1>5

\* The invariant holds initially.
LEMMA InitFeed == Init => FeedInv
<1> SUFFICES ASSUME Init PROVE FeedInv
  OBVIOUS
<1>1. TypeOK
  BY InitTypes
<1>2. \A t \in Thread : /\ call[t].pc = "rest" /\ call[t].answer = Never
                        /\ t \in Worker => call[t].sym = t[2]
  <2>1. \A s : Resting(s).pc = "rest" /\ Resting(s).answer = Never /\ Resting(s).sym = s
    BY DEF Resting
  <2> QED
    BY <2>1 DEF Init
<1>3. Requests
  <2>1. BetweenCalls
    BY <1>2, ThreadsApart DEF BetweenCalls
  <2>2. LockHeld
    BY <1>2 DEF Init, LockHeld
  <2>3. WaitersCounted
    BY DEF Init, WaitersCounted, NoRequest
  <2>4. Requested /\ OneFetch
    BY <1>2 DEF Requested, OneFetch
  <2> QED
    BY <2>1, <2>2, <2>3, <2>4 DEF Requests
<1>4. Answers
  <2>1. WorkersShare
    BY <1>2 DEF WorkersShare, Thread
  <2>2. CachedFrom
    BY DEF Init, CachedFrom
  <2>3. ReadersHanded
    BY <1>2 DEF ReadersHanded, Thread
  <2>4. CyclesGot
    <3>1. IdleCycle.at = 0 /\ \A s \in Sym : IdleCycle.got[s] = Never
      BY DEF IdleCycle
    <3>2. Never >= 0
      BY Nats
    <3> QED
      BY <3>1, <3>2 DEF Init, CyclesGot
  <2> QED
    BY <2>1, <2>2, <2>3, <2>4 DEF Answers
<1>5. FailuresCounted /\ DelayIsDeserved
  BY DEF Init, FailuresCounted, DelayIsDeserved
<1> QED
  BY <1>1, <1>3, <1>4, <1>5 DEF FeedInv

(***************************************************************************)
(* The theorems                                                            *)
(***************************************************************************)

\* The inductive invariant, for every instance.
THEOREM FeedInvariant == Spec => []FeedInv
<1>1. Init => FeedInv
  BY InitFeed
<1>2. FeedInv /\ [Next]_vars => FeedInv'
  BY TypeStep, RequestsStep, AnswersStep, CountsStep DEF FeedInv
<1>3. QED
  BY <1>1, <1>2, PTL DEF Spec

\* Every variable holds a value of its type; in particular no request ever counts more
\* than three waiters.
THEOREM FeedTypes == Spec => []TypeOK
<1>1. FeedInv => TypeOK
  BY DEF FeedInv
<1>2. QED
  BY <1>1, FeedInvariant, PTL

\* coalescing.py:152, market_data.py:893.  A cycle's price is older than the cycle, and
\* a reader's older than Ttl, only when it is the first answer of a single fetch.
THEOREM FeedStale == Spec => []StaleIsFirstAnswer
<1>1. FeedInv => StaleIsFirstAnswer
  <2> SUFFICES ASSUME FeedInv PROVE StaleIsFirstAnswer
    OBVIOUS
  <2>1. TypeOK /\ CyclesGot /\ ReadersHanded
    BY DEF FeedInv, Answers
  <2>2. ASSUME NEW c \in Cycler, NEW s \in Sym, cycle[c].got[s] < cycle[c].at
        PROVE  cycle[c].got[s] = inflight[s].taken
    <3>1. cycle[c].got[s] \in Nat /\ cycle[c].at \in Nat
      BY <2>1, OtherFields, Nats
    <3> QED
      BY <2>1, <2>2, <3>1 DEF CyclesGot, IsFirst
  <2>3. ASSUME NEW t \in Reader, call[t].answer # Never,
      call[t].answer + Ttl < call[t].began
        PROVE  call[t].answer = inflight[call[t].sym].taken
    <3>1. call[t].answer \in Nat /\ call[t].began \in Nat /\ Ttl \in Nat
      BY <2>1, CallFields, Nats DEF Thread
    <3> QED
      BY <2>1, <2>3, <3>1 DEF ReadersHanded, IsFirst
  <2> QED
    BY <2>2, <2>3 DEF StaleIsFirstAnswer
<1>2. QED
  BY <1>1, FeedInvariant, PTL

\* market_data.py:641.  A symbol is delayed only after Threshold failures in a row.
THEOREM FeedDelay == Spec => []DelayIsDeserved
<1>1. FeedInv => DelayIsDeserved
  BY DEF FeedInv
<1>2. QED
  BY <1>1, FeedInvariant, PTL

\* The step that FeedKeepsRequests allows: no request is forgotten, and none that is
\* over changes.
RequestKept ==
  \A s \in Sym :
    /\ inflight[s].state # "none" => inflight'[s].state # "none"
    /\ inflight[s].state = "failed" => inflight'[s].state = "failed"
    /\ inflight[s].state = "completed" =>
         inflight'[s].state = "completed" /\ inflight'[s].taken = inflight[s].taken

\* coalescing.py:181.  The request of a symbol is kept for ever, with its outcome: after
\* the first single fetch of a symbol no other is ever made, although get_or_fetch means
\* to share one only with the calls that come while it is under way.
THEOREM FeedKeepsRequests == Spec => [][RequestKept]_vars
<1>1. FeedInv /\ [Next]_vars => [RequestKept]_vars
  BY InflightStep DEF FeedInv, RequestKept
<1>2. QED
  BY <1>1, FeedInvariant, PTL DEF Spec

(***************************************************************************)
(* update_market_data comes to an end: the part of CycleEnds that needs no *)
(* fairness.                                                               *)
(***************************************************************************)

\* How many more steps of its own a cycle takes at most: a batch at a time, one for each
\* symbol that the workers ask for, and the publication.
CycleLeft(k) ==
  CASE k.phase = "idle"     -> 0
    [] k.phase = "batch"    -> 2 + Cardinality(k.rest \cup k.missing) + Cardinality(k.rest)
    [] k.phase = "fallback" -> 1 + Cardinality(k.missing)

\* How many more steps the task of a worker takes at most.
TaskLeft(k) ==
  CASE k.pc = "rest"              -> 0
    [] k.pc = "returned"          -> 3 * k.left + 1
    [] k.pc \in {"fetch", "wait"} -> 3 * k.left + 2
    [] k.pc = "want"              -> 3 * k.left + 3

\* Whatever changes a cycle that has begun, or a task that is not done, brings it nearer
\* to its end.
FeedEnds ==
  /\ \A c \in Cycler :
       cycle[c].phase # "idle" /\ cycle'[c] # cycle[c] => CycleLeft(cycle'[c]) < CycleLeft(cycle[c])
  /\ \A w \in Worker :
       call[w].pc # "rest" /\ call'[w] # call[w] => TaskLeft(call'[w]) < TaskLeft(call[w])

\* Sets of symbols have sizes, and a smaller set a smaller one.
LEMMA Sizes ==
  /\ \A S \in SUBSET Sym : IsFiniteSet(S) /\ Cardinality(S) \in Nat
  /\ \A S \in SUBSET Sym, T \in SUBSET Sym : S \subseteq T => Cardinality(S) <= Cardinality(T)
  /\ \A S \in SUBSET Sym, T \in SUBSET Sym :
       S \subseteq T /\ S # T => Cardinality(S) < Cardinality(T)
<1>1. \A S \in SUBSET Sym : IsFiniteSet(S) /\ Cardinality(S) \in Nat
  BY FeedAssumption, FS_Subset, FS_CardinalityType
<1>2. ASSUME NEW S \in SUBSET Sym, NEW T \in SUBSET Sym, S \subseteq T
      PROVE  Cardinality(S) <= Cardinality(T) /\ (S # T => Cardinality(S) < Cardinality(T))
  <2>1. IsFiniteSet(T)
    BY <1>1
  <2>2. Cardinality(S) <= Cardinality(T) /\ (Cardinality(S) = Cardinality(T) => S = T)
    BY <1>2, <2>1, FS_Subset
  <2> QED
    BY <1>1, <2>2
<1> QED
  BY <1>1, <1>2

\* Of a cycle and of a task at most so many steps are left.
LEMMA LeftBounds ==
  /\ \A k \in Cycle : CycleLeft(k) \in 0..(2 + 2 * Cardinality(Sym))
  /\ \A k \in Call : TaskLeft(k) \in 0..(3 * MaxRetries + 3)
<1>1. ASSUME NEW k \in Cycle PROVE CycleLeft(k) \in 0..(2 + 2 * Cardinality(Sym))
  <2>1. k.phase \in {"idle", "batch", "fallback"} /\ k.rest \in SUBSET Sym /\ k.missing \in SUBSET Sym
    BY DEF Cycle
  <2>2. k.rest \cup k.missing \in SUBSET Sym
    BY <2>1
  <2>3. /\ Cardinality(k.rest \cup k.missing) \in 0..Cardinality(Sym)
        /\ Cardinality(k.rest) \in 0..Cardinality(Sym)
        /\ Cardinality(k.missing) \in 0..Cardinality(Sym)
        /\ Cardinality(Sym) \in Nat
    BY <2>1, <2>2, Sizes
  <2> QED
    BY <2>1, <2>3 DEF CycleLeft
<1>2. ASSUME NEW k \in Call PROVE TaskLeft(k) \in 0..(3 * MaxRetries + 3)
  <2>1. k.pc \in {"rest", "want", "fetch", "wait", "returned"} /\ k.left \in 0..MaxRetries
    BY DEF Call
  <2> QED
    BY <2>1, Nats DEF TaskLeft
<1> QED
  BY <1>1, <1>2

\* The batches are not empty, and of symbols not asked for yet.
LEMMA BatchesOfRest ==
  ASSUME TypeOK, NEW c \in Cycler, NEW batch \in Batches(c)
  PROVE  batch \subseteq cycle[c].rest /\ batch # {}
<1>1. CASE Cardinality(cycle[c].rest) <= BatchSize
  BY <1>1 DEF Batches
<1>2. CASE ~(Cardinality(cycle[c].rest) <= BatchSize)
  <2>1. batch \in SUBSET cycle[c].rest /\ Cardinality(batch) = BatchSize
    BY <1>2 DEF Batches
  <2>2. Cardinality({}) = 0 /\ BatchSize > 0 /\ BatchSize \in Nat
    BY FS_EmptySet, FeedAssumption
  <2>3. Cardinality(batch) > 0
    BY <2>1, <2>2
  <2>4. batch # {}
    BY <2>2, <2>3
  <2> QED
    BY <2>1, <2>4
<1> QED
  BY <1>1, <1>2

\* A batch that is answered leaves less to ask for.
LEMMA BatchLeft ==
  ASSUME TypeOK, NEW c \in Cycler, NEW batch \in Batches(c), NEW answered \in SUBSET batch,
         BatchAnswers(c, batch, answered)
  PROVE  CycleLeft(cycle'[c]) < CycleLeft(cycle[c])
<1>k. PICK k \in Cycle : k = cycle[c]
  BY CycleFields
<1>1. k.phase = "batch" /\ k.rest \in SUBSET Sym /\ k.missing \in SUBSET Sym
  BY <1>k DEF BatchAnswers, Cycle
<1>2. batch \subseteq k.rest /\ batch # {}
  BY <1>k, BatchesOfRest
<1>3. cycle'[c] = Asked(k, batch, answered)
  BY <1>k DEF BatchAnswers, TypeOK
<1>4. /\ cycle'[c].phase = "batch" /\ cycle'[c].rest = k.rest \ batch
      /\ cycle'[c].missing = k.missing \cup (batch \ answered)
  BY <1>1, <1>3 DEF Asked, Cycle
<1>5. /\ k.rest \ batch \in SUBSET Sym /\ k.rest \ batch \subseteq k.rest /\ k.rest \ batch # k.rest
      /\ k.rest \cup k.missing \in SUBSET Sym
      /\ cycle'[c].rest \cup cycle'[c].missing \in SUBSET (k.rest \cup k.missing)
  BY <1>1, <1>2, <1>4
<1>6. Cardinality(cycle'[c].rest) < Cardinality(k.rest)
  BY <1>1, <1>4, <1>5, Sizes
<1>7. /\ Cardinality(cycle'[c].rest \cup cycle'[c].missing) <= Cardinality(k.rest \cup k.missing)
      /\ cycle'[c].rest \cup cycle'[c].missing \in SUBSET Sym
  BY <1>5, Sizes
<1>8. /\ Cardinality(k.rest) \in Nat /\ Cardinality(cycle'[c].rest) \in Nat
      /\ Cardinality(k.rest \cup k.missing) \in Nat
      /\ Cardinality(cycle'[c].rest \cup cycle'[c].missing) \in Nat
  BY <1>1, <1>4, <1>5, <1>7, Sizes
<1> QED
  BY <1>1, <1>4, <1>6, <1>7, <1>8, <1>k DEF CycleLeft

\* The step from the batches to the workers.
LEMMA FallbackLeft ==
  ASSUME TypeOK, NEW c \in Cycler,
         StartFallback(c) \/ \E batch \in Batches(c) : BatchRaises(c, batch)
  PROVE  CycleLeft(cycle'[c]) < CycleLeft(cycle[c])
<1>k. PICK k \in Cycle : k = cycle[c]
  BY CycleFields
<1>1. k.phase = "batch" /\ k.rest \in SUBSET Sym /\ k.missing \in SUBSET Sym
  BY <1>k DEF BatchRaises, StartFallback, Cycle
<1>2. cycle'[c].phase = "fallback" /\ cycle'[c].missing \subseteq k.rest \cup k.missing
  <2>1. CASE StartFallback(c)
    BY <1>k, <2>1 DEF StartFallback, TypeOK, Cycle
  <2>2. ASSUME NEW batch \in Batches(c), BatchRaises(c, batch)
        PROVE  cycle'[c].phase = "fallback" /\ cycle'[c].missing \subseteq k.rest \cup k.missing
    <3>1. batch \subseteq k.rest
      BY <1>k, BatchesOfRest
    <3>2. cycle'[c] = [k EXCEPT !.phase = "fallback", !.rest = {}, !.missing = k.missing \cup batch]
      BY <1>k, <2>2 DEF BatchRaises, TypeOK
    <3> QED
      BY <3>1, <3>2 DEF Cycle
  <2> QED
    BY <2>1, <2>2
<1>3. cycle'[c].missing \in SUBSET Sym /\ k.rest \cup k.missing \in SUBSET Sym
  BY <1>1, <1>2
<1>4. /\ Cardinality(cycle'[c].missing) <= Cardinality(k.rest \cup k.missing)
      /\ Cardinality(cycle'[c].missing) \in Nat /\ Cardinality(k.rest \cup k.missing) \in Nat
      /\ Cardinality(k.rest) \in Nat
  BY <1>1, <1>2, <1>3, Sizes
<1> QED
  BY <1>1, <1>2, <1>4, <1>k DEF CycleLeft

\* Looking at what a worker returned.
LEMMA LookLeft ==
  ASSUME TypeOK, Requests, NEW c \in Cycler, NEW s \in Sym, Look(c, s)
  PROVE  /\ cycle'[c] # cycle[c] => CycleLeft(cycle'[c]) < CycleLeft(cycle[c])
         /\ TaskLeft(call'[<<c, s>>]) < TaskLeft(call[<<c, s>>])
         /\ \A u \in Thread \ {<<c, s>>} : call'[u] = call[u]
<1>0. <<c, s>> \in Thread /\ call[<<c, s>>].pc = "returned"
  BY ThreadsApart, LookFields
<1>1. cycle[c].phase = "fallback" /\ s \in cycle[c].missing
  BY <1>0 DEF Requests, BetweenCalls
<1>2. ASSUME cycle'[c] # cycle[c] PROVE CycleLeft(cycle'[c]) < CycleLeft(cycle[c])
  <2>1. cycle'[c].phase = "fallback" /\ cycle'[c].missing = cycle[c].missing \ {s}
    BY <1>1, <1>2, LookFields
  <2>2. cycle[c].missing \in SUBSET Sym /\ cycle'[c].missing \in SUBSET Sym
    BY <2>1, CycleFields
  <2>3. /\ Cardinality(cycle'[c].missing) < Cardinality(cycle[c].missing)
        /\ Cardinality(cycle'[c].missing) \in Nat /\ Cardinality(cycle[c].missing) \in Nat
    BY <1>1, <2>1, <2>2, Sizes
  <2> QED
    BY <1>1, <2>1, <2>3 DEF CycleLeft
<1>3. PICK k \in Call : k = call[<<c, s>>]
  BY <1>0, CallFields
<1>4. k.pc = "returned" /\ k.left \in 0..MaxRetries /\ TaskLeft(k) = 3 * k.left + 1
  BY <1>0, <1>3 DEF TaskLeft, Call
<1>5. \/ k.left > 0 /\ \E error \in Error : call'[<<c, s>>] = Retried(k, error)
      \/ call'[<<c, s>>] = Resting(s)
  <2>1. lastError[s] \in Error /\ call[<<c, s>>].error \in Error
    BY <1>0, CallFields DEF TypeOK
  <2> QED
    BY <1>0, <1>3, <2>1 DEF Look, Collect, TypeOK
<1>6. TaskLeft(call'[<<c, s>>]) < TaskLeft(k)
  <2>1. CASE k.left > 0 /\ \E error \in Error : call'[<<c, s>>] = Retried(k, error)
    <3>1. call'[<<c, s>>].pc = "want" /\ call'[<<c, s>>].left = k.left - 1
      BY <2>1 DEF Retried, Call
    <3>2. TaskLeft(call'[<<c, s>>]) = 3 * (k.left - 1) + 3
      BY <3>1 DEF TaskLeft
    <3> QED
      BY <1>4, <3>2, Nats
  <2>2. CASE call'[<<c, s>>] = Resting(s)
    <3>1. TaskLeft(call'[<<c, s>>]) = 0
      BY <2>2, RestingType DEF TaskLeft
    <3> QED
      BY <1>4, <3>1, Nats
  <2> QED
    BY <1>5, <2>1, <2>2
<1>7. PICK t : t = <<c, s>>
  OBVIOUS
<1>8. \A u \in Thread \ {t} : call'[u] = call[u]
  BY <1>7, LookFields
<1> QED
  BY <1>2, <1>3, <1>6, <1>7, <1>8

\* Taking the lock, and returning from the fetch or the wait.
LEMMA CallLeft ==
  ASSUME TypeOK, NEW w \in Worker,
         \/ Enter(w)
         \/ FetchAnswers(w)
         \/ \E e \in {"error", "bad"} : FetchRaises(w, e)
         \/ Wake(w)
         \/ WaitTimesOut(w)
  PROVE  TaskLeft(call'[w]) < TaskLeft(call[w])
<1>0. w \in Thread /\ w \notin Reader
  BY ThreadsApart DEF Thread
<1>k. PICK k \in Call : k = call[w] /\ k.left \in 0..MaxRetries
  BY <1>0, CallFields
<1>1. CASE Enter(w)
  <2>1. k.pc = "want" /\ call'[w] = [k EXCEPT !.pc = Role(call[w].sym), !.began = now, !.shared = TRUE]
    BY <1>0, <1>1, <1>k DEF Enter, TypeOK
  <2>2. call'[w].pc \in {"fetch", "wait"} /\ call'[w].left = k.left
    BY <2>1 DEF Role, Call
  <2> QED
    BY <1>k, <2>1, <2>2, Nats DEF TaskLeft
<1>2. CASE ~Enter(w)
  <2>1. k.pc \in {"fetch", "wait"} /\ \E ticker : call' = Returned(w, ticker)
    BY <1>2, <1>k DEF FetchAnswers, FetchRaises, Wake, WaitTimesOut, Succeed, Fail
  <2>2. call'[w].pc = "returned" /\ call'[w].left = k.left
    BY <1>0, <1>k, <2>1 DEF Returned, TypeOK, Call
  <2> QED
    BY <1>k, <2>1, <2>2, Nats DEF TaskLeft
<1> QED
  BY <1>1, <1>2

\* A step of one cycle, for that cycle and for its workers.
LEMMA CycleStepEnds ==
  ASSUME TypeOK, Requests, NEW c \in Cycler,
         \/ StartCycle(c)
         \/ \E batch \in Batches(c) : \E answered \in SUBSET batch :
              BatchAnswers(c, batch, answered)
         \/ \E batch \in Batches(c) : BatchRaises(c, batch)
         \/ StartFallback(c)
         \/ \E s \in Sym : Look(c, s)
         \/ Publish(c)
  PROVE  FeedEnds
<1>1. \A d \in Cycler \ {c} : cycle'[d] = cycle[d]
  BY CycleEffects
<1>2. cycle[c].phase # "idle" /\ cycle'[c] # cycle[c] => CycleLeft(cycle'[c]) < CycleLeft(cycle[c])
  <2>1. CASE Publish(c)
    <3>1. cycle[c].phase = "fallback" /\ cycle[c].missing = {} /\ cycle'[c] = IdleCycle
      BY <2>1 DEF Publish, TypeOK
    <3>2. CycleLeft(cycle'[c]) = 0
      BY <3>1 DEF CycleLeft, IdleCycle
    <3>3. CycleLeft(cycle[c]) = 1
      BY <3>1, FS_EmptySet DEF CycleLeft
    <3> QED
      BY <3>2, <3>3
  <2>2. CASE StartCycle(c)
    BY <2>2 DEF StartCycle
  <2> QED
    BY <2>1, <2>2, BatchLeft, FallbackLeft, LookLeft
<1>3. ASSUME NEW d \in Cycler, NEW r \in Sym, call[<<d, r>>].pc # "rest",
             call'[<<d, r>>] # call[<<d, r>>]
      PROVE  TaskLeft(call'[<<d, r>>]) < TaskLeft(call[<<d, r>>])
  <2>0. <<d, r>> \in Thread
    BY ThreadsApart
  <2>1. cycle[d].phase = "fallback"
    BY <1>3 DEF Requests, BetweenCalls
  <2>2. ASSUME NEW missing, call' = Tasked(c, missing), cycle[c].phase = "batch"
        PROVE  FALSE
    <3>1. d # c
      BY <2>1, <2>2
    <3> QED
      BY <1>3, <2>2, <3>1, TaskedFields
  <2>3. call' # call
    BY <1>3
  <2>4. PICK s \in Sym : Look(c, s)
    BY <2>2, <2>3 DEF StartCycle, BatchAnswers, BatchRaises, StartFallback, Publish
  <2>5. <<d, r>> = <<c, s>>
    <3>1. \A u \in Thread \ {<<c, s>>} : call'[u] = call[u]
      BY <2>4, LookLeft
    <3>2. <<d, r>> \notin Thread \ {<<c, s>>}
      BY <1>3, <3>1
    <3> QED
      BY <2>0, <3>2
  <2> QED
    BY <2>4, <2>5, LookLeft
<1> QED
  BY <1>1, <1>2, <1>3, ThreadsApart DEF FeedEnds

\* A step of one thread's call.
LEMMA CallStepEnds ==
  ASSUME TypeOK, Requests, NEW t \in Thread,
         \/ Enter(t)
         \/ FetchAnswers(t)
         \/ \E e \in {"error", "bad"} : FetchRaises(t, e)
         \/ Wake(t)
         \/ WaitTimesOut(t)
  PROVE  FeedEnds
<1>1. cycle' = cycle
  BY DEF Enter, FetchAnswers, FetchRaises, Wake, WaitTimesOut
<1>2. \A u \in Thread \ {t} : call'[u] = call[u]
  <2>1. CASE Enter(t)
    BY <2>1, EnterFields
  <2>2. CASE ~Enter(t)
    <3>1. (\E ticker : Succeed(t, ticker)) \/ (\E e : Fail(t, e))
      BY <2>2 DEF FetchAnswers, FetchRaises, Wake, WaitTimesOut
    <3> QED
      BY <3>1, LeavesCall
  <2> QED
    BY <2>1, <2>2
<1>3. \A w \in Worker : w \in Thread
  BY DEF Thread
<1>4. t \in Worker => TaskLeft(call'[t]) < TaskLeft(call[t])
  BY CallLeft
<1> QED
  BY <1>1, <1>2, <1>3, <1>4 DEF FeedEnds

\* market_data.py:1460, 1554.  A cycle ends after at most 2 + 2 * |Sym| changes of its own,
\* and a task of one of its workers after at most 3 * MaxRetries + 3, whatever the
\* exchange answers and whatever other threads do: nothing ever sets either back.
THEOREM FeedCycleEnds == Spec => [][FeedEnds]_vars
<1>1. ASSUME TypeOK, Requests, Next PROVE FeedEnds
  <2>1. CASE Tick
    BY <2>1 DEF Tick, FeedEnds
  <2>2. ASSUME NEW t \in Reader, NEW s \in Sym, GetPrice(t, s) PROVE FeedEnds
    <3>1. cycle' = cycle /\ \A w \in Worker : call'[w] = call[w]
      BY <2>2, ThreadsApart DEF GetPrice, TypeOK, Thread
    <3> QED
      BY <3>1 DEF FeedEnds
  <2> QED
    BY <1>1, <2>1, <2>2, CallStepEnds, CycleStepEnds DEF Next
<1>2. FeedInv /\ [Next]_vars => [FeedEnds]_vars
  BY <1>1 DEF FeedInv
<1>3. QED
  BY <1>2, FeedInvariant, PTL DEF Spec

=============================================================================
