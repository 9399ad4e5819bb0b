----------------------- MODULE OrderSubmissionProofs -----------------------
(***************************************************************************)
(* What is proved about client order ids: for any number of threads,       *)
(* decisions, ids and attempts, and every subset of the faults, a decision *)
(* has one unfinished id at a time, an id that has ended stays so, and a   *)
(* decision executes again only where the first order was told of or       *)
(* presumed expired - but for ids of which a restart lost the entry or the *)
(* end, and there are none where every save and load works.                *)
(***************************************************************************)
EXTENDS OrderSubmission, TLAPS

(***************************************************************************)
(* The inductive invariant                                                 *)
(***************************************************************************)

\* The ids that somebody may still act on.
Used == DOMAIN store \cup DOMAIN disk \cup DOMAIN orders \cup inflight

\* Nothing is submitted while the process is starting.
Quiet == starting => DOMAIN calls = {}

\* No id is from the future, so a new one is new.
Stamped == \A c \in Used : c.ts <= clock

\* An unfinished id is the youngest of its decision, unless a restart took it up
\* again.
Youngest ==
  \A c1, c2 \in Used : c1 \in Unfinished /\ c1.decision = c2.decision
    => c2.ts <= c1.ts \/ c1 \in lapsed

\* What has ended in the store, or left it, has ended at the exchange and was told
\* of, or was presumed to have ended, or was lost by a restart.
Settled ==
  \A c \in Used : c \notin Unfinished =>
    c \in presumed \cup lapsed \/ (c \in told /\ orders[c] # "open")

\* An order whose exchange id is known is there.
Known ==
  /\ \A c \in DOMAIN store : store[c].order_id => c \in DOMAIN orders
  /\ \A c \in DOMAIN disk : disk[c].order_id => c \in DOMAIN orders

\* The file, too, has one unfinished id of a decision, and an end it has is the one
\* the store has.
FileSound ==
  /\ OneUnfinished
  /\ \A c1, c2 \in DOMAIN disk :
       c1.decision = c2.decision /\ ~EndedOnDisk(c1) /\ ~EndedOnDisk(c2) => c1 = c2
  /\ \A c \in DOMAIN store : EndedOnDisk(c) => store[c] = disk[c]

\* A call that waits for its answer r holds an id that the exchange has seen or that
\* is unfinished; one that has it, both, and an answer that is still true.
AnswerSound(c, r) ==
  /\ c \in DOMAIN orders \/ c \in Unfinished
  /\ r # "awaited" => /\ c \in DOMAIN orders /\ c \in Unfinished
                      /\ orders[c] = "open" => r \in {"open", "missing"}

CallsSound == \A t \in DOMAIN calls : AnswerSound(calls[t].coid, calls[t].answer)

\* An order is answered to one call.
AnsweredOnce ==
  \A t, u \in DOMAIN calls :
    /\ calls[t].coid = calls[u].coid
    /\ calls[t].answer # "awaited" /\ calls[u].answer # "awaited"
    => t = u

SubmissionInv ==
  /\ TypeOK /\ Quiet /\ Stamped /\ Youngest /\ Settled /\ Known /\ FileSound
  /\ CallsSound /\ AnsweredOnce

(***************************************************************************)
(* Lemmas                                                                  *)
(***************************************************************************)

\* An id is its decision and its time stamp.
LEMMA CoidEqual ==
  ASSUME NEW c1 \in Coid, NEW c2 \in Coid, c1.decision = c2.decision, c1.ts = c2.ts
  PROVE  c1 = c2
BY DEF Coid

\* Used ids are ids, and their time stamps are numbers.
LEMMA UsedCoid == TypeOK => Used \subseteq Coid /\ \A c \in Coid : c.ts \in Nat
BY SubmissionAssumption DEF TypeOK, Used, Coid

\* What the exchange does when it takes an order.
LEMMA TakeOrderFacts ==
  ASSUME TypeOK, NEW c \in Coid, TakeOrder(c)
  PROVE  /\ c \notin DOMAIN orders
         /\ DOMAIN orders' = DOMAIN orders \cup {c}
         /\ \A y \in DOMAIN orders' : orders'[y] \in OrderStatus
         /\ \A y \in DOMAIN orders : orders'[y] = orders[y]
         /\ executed' \subseteq DOMAIN orders'
<1>1. PICK st \in OrderStatus, ex \in BOOLEAN :
        /\ orders' = With(orders, c, st)
        /\ executed' = IF ex THEN executed \cup {c} ELSE executed
  BY DEF TakeOrder
<1>2. c \notin DOMAIN orders
  BY DEF TakeOrder
<1>3. /\ DOMAIN orders' = DOMAIN orders \cup {c}
      /\ orders'[c] = st
      /\ \A y \in DOMAIN orders : y # c => orders'[y] = orders[y]
  BY <1>1 DEF With
<1>4. \A y \in DOMAIN orders : orders'[y] = orders[y]
  BY <1>2, <1>3
<1>5. \A y \in DOMAIN orders' : orders'[y] \in OrderStatus
  BY <1>1, <1>3, <1>4 DEF TypeOK
<1>6. executed' \subseteq DOMAIN orders'
  BY <1>1, <1>3 DEF TypeOK
<1> QED
  BY <1>2, <1>3, <1>4, <1>5, <1>6

\* The locals of calls that go on, when one call is changed or ends.
LEMMA CallFacts ==
  ASSUME TypeOK, NEW t \in DOMAIN calls
  PROVE  /\ t \in Thread /\ calls[t].coid \in Coid
         /\ calls[t].attempt \in 1..MaxAttempts
         /\ calls[t].answer \in Reported \cup {"awaited"}
BY DEF TypeOK, Call

\* A call that returns leaves the others as they are.
LEMMA ReturnFacts ==
  ASSUME NEW t, Return(t)
  PROVE  /\ DOMAIN calls' = DOMAIN calls \ {t}
         /\ \A u \in DOMAIN calls' : calls'[u] = calls[u]
BY DEF Return, Restrict

\* A statement about all calls holds of a subset of them.
LEMMA FewerCalls ==
  ASSUME SubmissionInv, DOMAIN calls' \subseteq DOMAIN calls,
         \A u \in DOMAIN calls' : calls'[u] = calls[u],
         UNCHANGED <<store, orders>>
  PROVE  /\ DOMAIN calls' \subseteq Thread
         /\ \A u \in DOMAIN calls' : calls'[u] \in Call
         /\ CallsSound' /\ AnsweredOnce'
<1>1. DOMAIN calls' \subseteq Thread /\ \A u \in DOMAIN calls' : calls'[u] \in Call
  BY DEF SubmissionInv, TypeOK
<1>2. CallsSound'
  BY DEF SubmissionInv, CallsSound, AnswerSound, Unfinished, is_terminal
<1>3. AnsweredOnce'
  BY DEF SubmissionInv, AnsweredOnce
<1> QED
  BY <1>1, <1>2, <1>3

\* The parts of the invariant that speak of the store and the exchange, when the
\* store stays and the exchange may take an order under an id in use.
LEMMA ExchangeStep ==
  ASSUME SubmissionInv, NEW c \in Used,
         UNCHANGED <<store, disk, clock, told, presumed, lapsed>>,
         UNCHANGED <<orders, executed>> \/ TakeOrder(c),
         inflight' \subseteq inflight \cup {c}
  PROVE  /\ Used' \subseteq Used
         /\ DOMAIN orders \subseteq DOMAIN orders'
         /\ \A y \in DOMAIN orders : orders'[y] = orders[y]
         /\ DOMAIN orders' \subseteq Coid
         /\ \A y \in DOMAIN orders' : orders'[y] \in OrderStatus
         /\ executed' \subseteq DOMAIN orders'
         /\ inflight' \subseteq Coid
         /\ Stamped' /\ Youngest' /\ Settled' /\ Known' /\ FileSound'
<1>0. TypeOK /\ c \in Coid /\ Used \subseteq Coid
  BY UsedCoid DEF SubmissionInv
<1>1. /\ DOMAIN orders \subseteq DOMAIN orders' /\ DOMAIN orders' \subseteq DOMAIN orders \cup {c}
      /\ \A y \in DOMAIN orders : orders'[y] = orders[y]
      /\ \A y \in DOMAIN orders' : orders'[y] \in OrderStatus
      /\ executed' \subseteq DOMAIN orders'
  <2>1. CASE UNCHANGED <<orders, executed>>
    BY <2>1, <1>0 DEF TypeOK
  <2>2. CASE TakeOrder(c)
    BY <2>2, <1>0, TakeOrderFacts
  <2> QED
    BY <2>1, <2>2
<1>2. Used' \subseteq Used
  BY <1>1 DEF Used
<1>3. \A y : y \in Unfinished' <=> y \in Unfinished
  BY DEF Unfinished, is_terminal
<1>4. Stamped'
  BY <1>2 DEF SubmissionInv, Stamped
<1>5. Youngest'
  BY <1>2, <1>3 DEF SubmissionInv, Youngest
<1>6. Settled'
  <2> SUFFICES ASSUME NEW y \in Used', y \notin Unfinished'
               PROVE  y \in presumed' \cup lapsed' \/ (y \in told' /\ orders'[y] # "open")
    BY DEF Settled
  <2>1. y \in presumed \cup lapsed \/ (y \in told /\ orders[y] # "open")
    BY <1>2, <1>3 DEF SubmissionInv, Settled
  <2> QED
    BY <2>1, <1>0, <1>1 DEF TypeOK
<1>7. Known'
  BY <1>1 DEF SubmissionInv, Known
<1>8. FileSound'
  BY <1>3 DEF SubmissionInv, FileSound, OneUnfinished, EndedOnDisk
<1> QED
  BY <1>0, <1>1, <1>2, <1>4, <1>5, <1>6, <1>7, <1>8 DEF TypeOK, Used

\* What a save leaves in the file, done or failed, after an operation that adds no id
\* of the file to the store and changes no entry that has ended.
LEMMA SaveStep ==
  ASSUME SubmissionInv, disk' = disk \/ disk' = store',
         DOMAIN store' \subseteq Coid,
         \A y \in DOMAIN store' : store'[y] \in COIDEntry,
         \A y \in DOMAIN store' :
           \/ y \in DOMAIN store /\ (is_terminal(y) => store'[y] = store[y])
           \/ y \notin DOMAIN disk,
         \A y \in DOMAIN store' : store'[y].order_id => y \in DOMAIN orders',
         DOMAIN orders \subseteq DOMAIN orders',
         OneUnfinished'
  PROVE  /\ DOMAIN disk' \subseteq Coid
         /\ \A y \in DOMAIN disk' : disk'[y] \in COIDEntry
         /\ Known' /\ FileSound'
<1>1. CASE disk' = disk
  <2>1. Known'
    BY <1>1 DEF SubmissionInv, Known
  <2>2. ASSUME NEW c \in DOMAIN store', EndedOnDisk(c)'
        PROVE  store'[c] = disk'[c]
    <3>1. EndedOnDisk(c) /\ c \in DOMAIN disk
      BY <1>1, <2>2 DEF EndedOnDisk
    <3>2. c \in DOMAIN store /\ store[c] = disk[c]
      BY <3>1 DEF SubmissionInv, FileSound
    <3>3. is_terminal(c)
      BY <3>1, <3>2 DEF EndedOnDisk, is_terminal
    <3> QED
      BY <1>1, <3>1, <3>2, <3>3
  <2>3. FileSound'
    BY <1>1, <2>2 DEF SubmissionInv, FileSound, EndedOnDisk
  <2> QED
    BY <1>1, <2>1, <2>3 DEF SubmissionInv, TypeOK
<1>2. CASE disk' = store'
  <2>1. Known'
    BY <1>2 DEF Known
  <2>2. FileSound'
    BY <1>2 DEF FileSound, OneUnfinished, EndedOnDisk, Unfinished, is_terminal
  <2> QED
    BY <1>2, <2>1, <2>2
<1> QED
  BY <1>1, <1>2

\* What was right of an answer stays right while its id stays unfinished.
LEMMA AnswerStays ==
  ASSUME NEW c, NEW r, AnswerSound(c, r),
         c \in Unfinished => c \in Unfinished',
         DOMAIN orders \subseteq DOMAIN orders',
         \A y \in DOMAIN orders : orders[y] # "open" => orders'[y] # "open"
  PROVE  AnswerSound(c, r)'
BY DEF AnswerSound

\* A call holds an id in use.
LEMMA CallUsed ==
  ASSUME SubmissionInv, NEW t \in DOMAIN calls
  PROVE  calls[t].coid \in Used
BY DEF SubmissionInv, CallsSound, AnswerSound, Unfinished, Used

(***************************************************************************)
(* The invariant is inductive                                              *)
(***************************************************************************)

\* It holds when the process starts.
LEMMA SubmissionInit == Init => SubmissionInv
<1> SUFFICES ASSUME Init PROVE SubmissionInv
  OBVIOUS
<1>1. /\ DOMAIN store = {} /\ DOMAIN disk = {}
      /\ DOMAIN orders = {} /\ DOMAIN calls = {} /\ inflight = {}
  BY DEF Init, Empty
<1>2. 0 \in 0..MaxClock
  BY SubmissionAssumption
<1>3. TypeOK
  BY <1>1, <1>2 DEF Init, TypeOK
<1>4. Used = {}
  BY <1>1 DEF Used
<1> QED
  BY <1>1, <1>3, <1>4
  DEF SubmissionInv, Quiet, Stamped, Youngest, Settled, Known, CallsSound, AnsweredOnce,
      FileSound, OneUnfinished, Unfinished, EndedOnDisk

\* A call gets its id, the unfinished one of its decision or a new one.
LEMMA SubmitStep ==
  ASSUME SubmissionInv, NEW t \in Thread, NEW d \in Decision, Submit(t, d)
  PROVE  SubmissionInv'
<1>0. TypeOK /\ Used \subseteq Coid /\ \A y \in Coid : y.ts \in Nat
  BY UsedCoid DEF SubmissionInv
<1>1. PICK c \in Coid :
        /\ NextCoid(d, c)
        /\ \/ calls' = With(calls, t, [coid |-> c, attempt |-> 1, answer |-> "awaited"])
           \/ UNCHANGED calls
  BY DEF Submit
<1>2. /\ t \notin DOMAIN calls /\ starting' = FALSE
      /\ disk' = disk \/ disk' = store'
      /\ UNCHANGED <<orders, executed, inflight, told, presumed, lapsed>>
  BY DEF Submit, Save, exchange
<1>3. /\ clock' \in 0..MaxClock /\ clock <= clock'
      /\ DOMAIN store' = DOMAIN store \cup {c}
      /\ \A y \in DOMAIN store' : store'[y] \in COIDEntry
      /\ \A y \in DOMAIN store : store'[y] = store[y]
      /\ c \in Unfinished'
      /\ Used' \subseteq Used \cup {c}
      /\ c \in Used \/ (c.ts = clock' /\ clock' = clock + 1 /\ c.decision = d
                        /\ \A y \in DOMAIN store : y.decision = d => is_terminal(y))
      /\ c \notin DOMAIN store => store'[c].order_id = FALSE
  <2>1. CASE c \in PendingCoid(d) /\ UNCHANGED <<store, clock>>
    <3>1. c \in DOMAIN store /\ c \in Unfinished /\ store' = store /\ clock' = clock
      BY <2>1 DEF PendingCoid, Unfinished
    <3>2. c \in Unfinished'
      BY <3>1 DEF Unfinished, is_terminal
    <3>3. Used' \subseteq Used /\ c \in Used
      BY <3>1, <1>2 DEF Used
    <3>4. clock \in 0..MaxClock /\ clock <= clock /\ \A y \in DOMAIN store : store[y] \in COIDEntry
      BY <1>0, SubmissionAssumption DEF TypeOK
    <3> QED
      BY <3>1, <3>2, <3>3, <3>4
  <2>2. CASE /\ PendingCoid(d) = {}
             /\ clock < MaxClock
             /\ clock' = clock + 1
             /\ c = [decision |-> d, ts |-> clock + 1]
             /\ store' = With(store, c, [status |-> "pending", order_id |-> FALSE])
    <3>1. /\ DOMAIN store' = DOMAIN store \cup {c}
          /\ store'[c] = [status |-> "pending", order_id |-> FALSE]
          /\ \A y \in DOMAIN store : y # c => store'[y] = store[y]
      <4> DEFINE e == [status |-> "pending", order_id |-> FALSE]
      <4>1. store' = With(store, c, e)
        BY <2>2
      <4> HIDE DEF e
      <4>2. /\ DOMAIN store' = DOMAIN store \cup {c}
            /\ store'[c] = e
            /\ \A y \in DOMAIN store : y # c => store'[y] = store[y]
        BY <4>1 DEF With
      <4> QED
        BY <4>2 DEF e
    <3>2. c.ts = clock + 1 /\ c.decision = d
      BY <2>2
    <3>3. clock \in Nat /\ MaxClock \in Nat
      BY <1>0, SubmissionAssumption DEF TypeOK
    <3>4. c \notin Used
      BY <3>2, <3>3 DEF SubmissionInv, Stamped
    <3>5. \A y \in DOMAIN store : store'[y] = store[y]
      BY <3>1, <3>4 DEF Used
    <3>6. store'[c] \in COIDEntry /\ store'[c].status = "pending" /\ ~store'[c].order_id
      BY <3>1 DEF COIDEntry, COIDStatus
    <3>7. c \in Unfinished'
      BY <3>1, <3>6 DEF Unfinished, is_terminal, Terminal
    <3>8. Used' \subseteq Used \cup {c}
      BY <3>1, <1>2 DEF Used
    <3>9. \A y \in DOMAIN store : y.decision = d => is_terminal(y)
      BY <2>2 DEF PendingCoid, Unfinished
    <3>10. \A y \in DOMAIN store' : store'[y] \in COIDEntry
      BY <1>0, <3>1, <3>5, <3>6 DEF TypeOK
    <3>11. clock' \in 0..MaxClock /\ clock <= clock'
      BY <2>2, <3>3
    <3> QED
      BY <2>2, <3>1, <3>2, <3>5, <3>6, <3>7, <3>8, <3>9, <3>10, <3>11
  <2> QED
    BY <1>1, <2>1, <2>2 DEF NextCoid
<1>4. \A y \in DOMAIN store : y \in Unfinished' <=> y \in Unfinished
  BY <1>3 DEF Unfinished, is_terminal
<1>5. /\ DOMAIN calls' \subseteq DOMAIN calls \cup {t}
      /\ \A u \in DOMAIN calls' : u # t => u \in DOMAIN calls /\ calls'[u] = calls[u]
      /\ t \in DOMAIN calls' =>
           calls'[t] = [coid |-> c, attempt |-> 1, answer |-> "awaited"]
  <2> DEFINE k == [coid |-> c, attempt |-> 1, answer |-> "awaited"]
  <2>1. calls' = With(calls, t, k) \/ calls' = calls
    BY <1>1
  <2> HIDE DEF k
  <2>2. CASE calls' = With(calls, t, k)
    <3>1. /\ DOMAIN calls' = DOMAIN calls \cup {t}
          /\ calls'[t] = k
          /\ \A u \in DOMAIN calls : u # t => calls'[u] = calls[u]
      BY <2>2 DEF With
    <3> QED
      BY <3>1 DEF k
  <2>3. CASE calls' = calls
    BY <2>3, <1>2
  <2> QED
    BY <2>1, <2>2, <2>3
<1>7. Quiet'
  BY <1>2 DEF Quiet
<1>8. Stamped'
  <2> SUFFICES ASSUME NEW y \in Used' PROVE y.ts <= clock'
    BY DEF Stamped
  <2>1. CASE y \in Used
    <3>1. y.ts <= clock /\ y.ts \in Nat
      BY <1>0, <2>1 DEF SubmissionInv, Stamped
    <3>2. clock \in Nat /\ clock' \in Nat /\ clock <= clock'
      BY <1>0, <1>3, SubmissionAssumption DEF TypeOK
    <3> QED
      BY <3>1, <3>2
  <2>2. CASE y \notin Used
    BY <2>2, <1>0, <1>1, <1>3
  <2> QED
    BY <2>1, <2>2
<1>9. Youngest'
  <2> SUFFICES ASSUME NEW c1 \in Used', NEW c2 \in Used', c1 \in Unfinished',
                      c1.decision = c2.decision
               PROVE  c2.ts <= c1.ts \/ c1 \in lapsed
    BY <1>2 DEF Youngest
  <2>0. c1.ts \in Nat /\ c2.ts \in Nat
    BY <1>0, <1>1, <1>3
  <2>1. CASE c \in Used
    <3>1. c1 \in Used /\ c2 \in Used
      BY <1>3, <2>1
    <3>2. CASE c1 \in DOMAIN store
      BY <1>4, <3>1, <3>2 DEF SubmissionInv, Youngest, Unfinished
    <3>3. CASE c1 \notin DOMAIN store
      <4>1. c1 = c /\ c \notin DOMAIN store
        BY <1>3, <3>3 DEF Unfinished
      <4>2. c \in PendingCoid(d) \/ c \notin Used
        <5>1. CASE c \in PendingCoid(d)
          BY <5>1
        <5>2. CASE c = [decision |-> d, ts |-> clock + 1] /\ clock < MaxClock
          <6>1. c.ts = clock + 1 /\ clock \in Nat
            BY <5>2, <1>0, SubmissionAssumption DEF TypeOK
          <6> QED
            BY <6>1 DEF SubmissionInv, Stamped
        <5> QED
          BY <1>1, <5>1, <5>2 DEF NextCoid
      <4> QED
        BY <2>1, <4>1, <4>2 DEF PendingCoid, Unfinished
    <3> QED
      BY <3>2, <3>3
  <2>2. CASE c \notin Used
    <3>1. /\ c.ts = clock' /\ c.decision = d
          /\ \A y \in DOMAIN store : y.decision = d => is_terminal(y)
      BY <1>3, <2>2
    <3>2. CASE c1 = c
      BY <1>8, <3>1, <3>2 DEF Stamped
    <3>3. CASE c1 # c
      <4>1. c1 \in DOMAIN store /\ c1 \in Unfinished
        BY <1>3, <1>4, <3>3 DEF Unfinished
      <4>2. c2 # c
        BY <3>1, <4>1 DEF Unfinished
      <4> QED
        BY <1>3, <3>3, <4>1, <4>2 DEF SubmissionInv, Youngest
    <3> QED
      BY <3>2, <3>3
  <2> QED
    BY <2>1, <2>2
<1>10. Settled'
  <2> SUFFICES ASSUME NEW y \in Used', y \notin Unfinished'
               PROVE  y \in presumed' \cup lapsed' \/ (y \in told' /\ orders'[y] # "open")
    BY DEF Settled
  <2>1. y # c /\ y \in Used
    BY <1>3
  <2>2. y \notin Unfinished
    BY <1>4 DEF Unfinished
  <2> QED
    BY <1>2, <2>1, <2>2 DEF SubmissionInv, Settled
<1>11. /\ DOMAIN disk' \subseteq Coid
       /\ \A y \in DOMAIN disk' : disk'[y] \in COIDEntry
       /\ Known' /\ FileSound'
  <2>1. DOMAIN store' \subseteq Coid
    BY <1>0, <1>3 DEF TypeOK
  <2>2. \A y \in DOMAIN store' :
          \/ y \in DOMAIN store /\ (is_terminal(y) => store'[y] = store[y])
          \/ y \notin DOMAIN disk
    <3>1. c \in DOMAIN store \/ c \notin DOMAIN disk
      <4>1. CASE c \in PendingCoid(d)
        BY <4>1 DEF PendingCoid, Unfinished
      <4>2. CASE c = [decision |-> d, ts |-> clock + 1] /\ clock < MaxClock
        <5>1. c.ts = clock + 1 /\ clock \in Nat
          BY <4>2, <1>0, SubmissionAssumption DEF TypeOK
        <5> QED
          BY <5>1 DEF SubmissionInv, Stamped, Used
      <4> QED
        BY <1>1, <4>1, <4>2 DEF NextCoid
    <3> QED
      BY <3>1, <1>3
  <2>3. \A y \in DOMAIN store' : store'[y].order_id => y \in DOMAIN orders'
    <3>1. \A y \in DOMAIN store : store'[y].order_id => y \in DOMAIN orders'
      BY <1>2, <1>3 DEF SubmissionInv, Known
    <3> QED
      BY <3>1, <1>3
  <2>4. OneUnfinished'
    <3> SUFFICES ASSUME NEW c1 \in Unfinished', NEW c2 \in Unfinished',
                        c1.decision = c2.decision
                 PROVE  c1 = c2
      BY DEF OneUnfinished
    <3>0. c1 \in DOMAIN store' /\ c2 \in DOMAIN store'
      BY DEF Unfinished
    <3>1. CASE c1 \in DOMAIN store /\ c2 \in DOMAIN store
      BY <3>1, <1>4 DEF SubmissionInv, FileSound, OneUnfinished
    <3>2. CASE c1 \notin DOMAIN store \/ c2 \notin DOMAIN store
      <4>1. /\ c \notin DOMAIN store
            /\ c1 = c \/ c2 = c
            /\ c1 \in DOMAIN store \/ c1 = c
            /\ c2 \in DOMAIN store \/ c2 = c
        BY <3>0, <3>2, <1>3
      <4>2. c.decision = d /\ \A y \in DOMAIN store : y.decision = d => is_terminal(y)
        <5>1. c \notin PendingCoid(d)
          BY <4>1 DEF PendingCoid, Unfinished
        <5>2. c = [decision |-> d, ts |-> clock + 1] /\ PendingCoid(d) = {}
          BY <5>1, <1>1 DEF NextCoid
        <5> QED
          BY <5>2 DEF PendingCoid, Unfinished
      <4>3. c1 \in DOMAIN store => c1 \in Unfinished /\ ~is_terminal(c1)
        BY <1>4 DEF Unfinished
      <4>4. c2 \in DOMAIN store => c2 \in Unfinished /\ ~is_terminal(c2)
        BY <1>4 DEF Unfinished
      <4> QED
        BY <4>1, <4>2, <4>3, <4>4
    <3> QED
      BY <3>1, <3>2
  <2>5. DOMAIN orders \subseteq DOMAIN orders'
    BY <1>2
  <2> QED
    BY <2>1, <2>2, <2>3, <2>4, <2>5, <1>2, <1>3, SaveStep
<1>12. CallsSound'
  <2> SUFFICES ASSUME NEW u \in DOMAIN calls', NEW k, NEW r,
                      k = calls'[u].coid, r = calls'[u].answer
               PROVE  AnswerSound(k, r)'
    BY DEF CallsSound, AnswerSound, Unfinished, is_terminal
  <2>1. CASE u = t
    <3>1. k = c /\ r = "awaited"
      BY <2>1, <1>5
    <3> QED
      BY <3>1, <1>3 DEF AnswerSound, Unfinished, is_terminal
  <2>2. CASE u # t
    <3>1. k \in Unfinished => k \in Unfinished'
      BY <1>3 DEF Unfinished, is_terminal
    <3>2. AnswerSound(k, r)
      BY <2>2, <1>5 DEF SubmissionInv, CallsSound
    <3> QED
      BY <3>1, <3>2, <1>2, AnswerStays
  <2> QED
    BY <2>1, <2>2
<1>13. AnsweredOnce'
  <2> SUFFICES ASSUME NEW u \in DOMAIN calls', NEW v \in DOMAIN calls',
                      calls'[u].coid = calls'[v].coid,
                      calls'[u].answer # "awaited", calls'[v].answer # "awaited"
               PROVE  u = v
    BY DEF AnsweredOnce
  <2>1. u # t /\ v # t
    BY <1>5
  <2> QED
    BY <1>5, <2>1 DEF SubmissionInv, AnsweredOnce
<1>14. TypeOK'
  <2>1. [coid |-> c, attempt |-> 1, answer |-> "awaited"] \in Call
    BY SubmissionAssumption DEF Call
  <2>2. DOMAIN calls' \subseteq Thread /\ \A u \in DOMAIN calls' : calls'[u] \in Call
    BY <1>0, <1>5, <2>1 DEF TypeOK
  <2>3. DOMAIN store' \subseteq Coid
    BY <1>0, <1>3 DEF TypeOK
  <2> QED
    BY <1>0, <1>2, <1>3, <1>11, <2>2, <2>3 DEF TypeOK
<1> QED
  BY <1>7, <1>8, <1>9, <1>10, <1>11, <1>12, <1>13, <1>14 DEF SubmissionInv

\* The order is answered: its call has the answer, and no other has one for this id.
LEMMA SendAnsweredStep ==
  ASSUME SubmissionInv, NEW t \in Thread, SendAnswered(t)
  PROVE  SubmissionInv'
<1> DEFINE c == calls[t].coid
<1>0. TypeOK /\ t \in DOMAIN calls /\ calls[t].answer = "awaited"
  BY DEF SubmissionInv, SendAnswered, Awaiting
<1>1. c \in Used /\ c \in Coid /\ calls[t] \in Call
  BY <1>0, CallUsed DEF TypeOK, Call
<1>2. TakeOrder(c) /\ UNCHANGED <<store, disk, clock, starting, inflight, told, presumed, lapsed>>
  BY DEF SendAnswered
<1>3. PICK r \in {orders'[c], "missing"} : calls' = [calls EXCEPT ![t].answer = r]
  BY DEF SendAnswered
<1> HIDE DEF c
<1>4. /\ Used' \subseteq Used
      /\ DOMAIN orders \subseteq DOMAIN orders'
      /\ \A y \in DOMAIN orders : orders'[y] = orders[y]
      /\ DOMAIN orders' \subseteq Coid
      /\ \A y \in DOMAIN orders' : orders'[y] \in OrderStatus
      /\ executed' \subseteq DOMAIN orders'
      /\ Stamped' /\ Youngest' /\ Settled' /\ Known' /\ FileSound'
  BY <1>1, <1>2, ExchangeStep
<1>5. c \notin DOMAIN orders /\ c \in DOMAIN orders'
  BY <1>0, <1>1, <1>2, TakeOrderFacts
<1>6. r \in Reported /\ r # "awaited" /\ (orders'[c] = "open" => r \in {"open", "missing"})
  BY <1>4, <1>5 DEF OrderStatus, Reported
<1>7. /\ DOMAIN calls' = DOMAIN calls
      /\ \A u \in DOMAIN calls : u # t => calls'[u] = calls[u]
      /\ calls'[t] = [coid |-> c, attempt |-> calls[t].attempt, answer |-> r]
  BY <1>0, <1>1, <1>3 DEF c, Call
<1>8. TypeOK'
  <2>1. calls'[t] \in Call
    BY <1>1, <1>6, <1>7 DEF Call
  <2>2. DOMAIN calls' \subseteq Thread /\ \A u \in DOMAIN calls' : calls'[u] \in Call
    BY <1>0, <1>7, <2>1 DEF TypeOK
  <2> QED
    BY <1>0, <1>2, <1>4, <2>2 DEF TypeOK
<1>9. Quiet'
  BY <1>2, <1>7 DEF SubmissionInv, Quiet
<1>10. CallsSound'
  <2> SUFFICES ASSUME NEW u \in DOMAIN calls', NEW k, NEW a,
                      k = calls'[u].coid, a = calls'[u].answer
               PROVE  AnswerSound(k, a)'
    BY DEF CallsSound, AnswerSound, Unfinished, is_terminal
  <2>1. CASE u = t
    <3>1. k = c /\ a = r
      BY <2>1, <1>7
    <3>2. k \in Unfinished
      BY <3>1, <1>0, <1>5 DEF c, SubmissionInv, CallsSound, AnswerSound
    <3>3. k \in Unfinished'
      BY <1>2, <3>2 DEF Unfinished, is_terminal
    <3>4. k \in DOMAIN orders' /\ (orders'[k] = "open" => a \in {"open", "missing"})
      BY <1>5, <1>6, <3>1
    <3> QED
      BY <3>1, <3>3, <3>4 DEF AnswerSound, Unfinished, is_terminal
  <2>2. CASE u # t
    <3>1. k \in Unfinished => k \in Unfinished'
      BY <1>2 DEF Unfinished, is_terminal
    <3>2. AnswerSound(k, a)
      BY <2>2, <1>7 DEF SubmissionInv, CallsSound
    <3> QED
      BY <3>1, <3>2, <1>4, AnswerStays
  <2> QED
    BY <2>1, <2>2
<1>11. AnsweredOnce'
  <2>1. \A u \in DOMAIN calls : u # t /\ calls[u].answer # "awaited" => calls[u].coid # c
    BY <1>5 DEF SubmissionInv, CallsSound, AnswerSound
  <2> SUFFICES ASSUME NEW u \in DOMAIN calls', NEW v \in DOMAIN calls',
                      calls'[u].coid = calls'[v].coid,
                      calls'[u].answer # "awaited", calls'[v].answer # "awaited"
               PROVE  u = v
    BY DEF AnsweredOnce
  <2>2. CASE u # t /\ v # t
    BY <2>2, <1>7 DEF SubmissionInv, AnsweredOnce
  <2>3. CASE u = t \/ v = t
    BY <2>1, <2>3, <1>7
  <2> QED
    BY <2>2, <2>3
<1> QED
  BY <1>4, <1>8, <1>9, <1>10, <1>11 DEF SubmissionInv

\* The order is refused.
LEMMA SendRefusedStep ==
  ASSUME SubmissionInv, NEW t \in Thread, SendRefused(t)
  PROVE  SubmissionInv'
<1>1. Return(t) /\ UNCHANGED <<store, disk, clock, starting, orders, executed, inflight,
    told, presumed, lapsed>>
  BY DEF SendRefused, exchange
<1>2. DOMAIN calls' = DOMAIN calls \ {t} /\ \A u \in DOMAIN calls' : calls'[u] = calls[u]
  BY <1>1, ReturnFacts
<1>3. /\ DOMAIN calls' \subseteq Thread
      /\ \A u \in DOMAIN calls' : calls'[u] \in Call
      /\ CallsSound' /\ AnsweredOnce'
  BY <1>1, <1>2, FewerCalls
<1>4. TypeOK'
  BY <1>1, <1>3 DEF SubmissionInv, TypeOK
<1>5. Quiet' /\ Stamped' /\ Youngest' /\ Settled' /\ Known' /\ FileSound'
  BY <1>1, <1>2
  DEF SubmissionInv, Quiet, Stamped, Youngest, Settled, Known, Used, Unfinished,
      is_terminal, FileSound, OneUnfinished, EndedOnDisk
<1> QED
  BY <1>3, <1>4, <1>5 DEF SubmissionInv

\* The answer is lost: the exchange has the order, will have it, or neither.
LEMMA SendFailsStep ==
  ASSUME SubmissionInv, NEW t \in Thread, SendFails(t)
  PROVE  SubmissionInv'
<1> DEFINE c == calls[t].coid
<1>0. TypeOK /\ t \in DOMAIN calls /\ calls[t].answer = "awaited"
  BY DEF SubmissionInv, SendFails, Awaiting
<1>1. c \in Used /\ c \in Coid /\ calls[t] \in Call
  BY <1>0, CallUsed DEF TypeOK, Call
<1>2. UNCHANGED <<store, disk, clock, starting, told, presumed, lapsed>>
  BY DEF SendFails
<1>3. /\ UNCHANGED <<orders, executed>> \/ TakeOrder(c)
      /\ inflight' \subseteq inflight \cup {c}
  BY DEF SendFails, exchange
<1>4. \/ Return(t)
      \/ calls[t].attempt < MaxAttempts /\ calls' = [calls EXCEPT ![t].attempt = @ + 1]
  BY DEF SendFails
<1> HIDE DEF c
<1>5. /\ Used' \subseteq Used
      /\ DOMAIN orders \subseteq DOMAIN orders'
      /\ \A y \in DOMAIN orders : orders'[y] = orders[y]
      /\ DOMAIN orders' \subseteq Coid
      /\ \A y \in DOMAIN orders' : orders'[y] \in OrderStatus
      /\ executed' \subseteq DOMAIN orders'
      /\ inflight' \subseteq Coid
      /\ Stamped' /\ Youngest' /\ Settled' /\ Known' /\ FileSound'
  BY <1>1, <1>2, <1>3, ExchangeStep
<1>6. /\ DOMAIN calls' \subseteq DOMAIN calls
      /\ \A u \in DOMAIN calls' : /\ calls'[u] \in Call
                                  /\ calls'[u].coid = calls[u].coid
                                  /\ calls'[u].answer = calls[u].answer
  <2>1. CASE Return(t)
    <3>1. DOMAIN calls' \subseteq DOMAIN calls /\ \A u \in DOMAIN calls' : calls'[u] = calls[u]
      BY <2>1, ReturnFacts
    <3> QED
      BY <3>1, <1>0 DEF TypeOK
  <2>2. CASE calls[t].attempt < MaxAttempts /\ calls' = [calls EXCEPT ![t].attempt = @ + 1]
    <3>1. /\ DOMAIN calls' = DOMAIN calls
          /\ \A u \in DOMAIN calls : u # t => calls'[u] = calls[u]
          /\ calls'[t] = [coid |-> calls[t].coid, attempt |-> calls[t].attempt + 1,
                          answer |-> calls[t].answer]
      BY <2>2, <1>0, <1>1 DEF Call
    <3>2. calls[t].attempt + 1 \in 1..MaxAttempts
      BY <2>2, <1>1, SubmissionAssumption DEF Call
    <3>3. calls'[t] \in Call
      BY <3>1, <3>2, <1>1 DEF Call
    <3> QED
      BY <3>1, <3>3, <1>0 DEF TypeOK
  <2> QED
    BY <1>4, <2>1, <2>2
<1>7. TypeOK'
  BY <1>0, <1>2, <1>5, <1>6 DEF TypeOK
<1>8. Quiet'
  BY <1>2, <1>6 DEF SubmissionInv, Quiet
<1>9. CallsSound'
  <2> SUFFICES ASSUME NEW u \in DOMAIN calls', NEW k, NEW a,
                      k = calls'[u].coid, a = calls'[u].answer
               PROVE  AnswerSound(k, a)'
    BY DEF CallsSound, AnswerSound, Unfinished, is_terminal
  <2>1. k \in Unfinished => k \in Unfinished'
    BY <1>2 DEF Unfinished, is_terminal
  <2>2. AnswerSound(k, a)
    BY <1>6 DEF SubmissionInv, CallsSound
  <2> QED
    BY <2>1, <2>2, <1>5, AnswerStays
<1>10. AnsweredOnce'
  BY <1>6 DEF SubmissionInv, AnsweredOnce
<1> QED
  BY <1>5, <1>7, <1>8, <1>9, <1>10 DEF SubmissionInv

\* The answer is recorded: its id is unfinished until then, and ends only if the
\* order has.
LEMMA RecordStep ==
  ASSUME SubmissionInv, NEW t \in Thread, Record(t)
  PROVE  SubmissionInv' /\ \A y \in DOMAIN store : is_terminal(y) => store'[y] = store[y]
<1> DEFINE c == calls[t].coid
           r == calls[t].answer
           e == [status |-> AnsweredStatus(r), order_id |-> TRUE]
<1>0. TypeOK /\ t \in DOMAIN calls /\ r # "awaited"
  BY DEF SubmissionInv, Record, Awaiting
<1>1. AnswerSound(c, r)
  BY <1>0 DEF SubmissionInv, CallsSound
<1>2. /\ c \in DOMAIN orders /\ c \in Unfinished /\ c \in DOMAIN store /\ c \in Used
      /\ orders[c] = "open" => r \in {"open", "missing"}
  BY <1>0, <1>1 DEF AnswerSound, Unfinished, Used
<1>3. /\ store' = [store EXCEPT ![c] = e]
      /\ disk' = disk \/ disk' = store'
      /\ told' = told \cup {c} /\ Return(t)
      /\ UNCHANGED <<clock, starting, orders, executed, inflight, presumed, lapsed>>
  BY <1>2 DEF Record, Save, exchange
<1>4. e \in COIDEntry /\ e.order_id /\ (e.status \in Terminal => orders[c] # "open")
  BY <1>0, <1>2 DEF COIDEntry, COIDStatus, AnsweredStatus, Terminal, TypeOK, Call,
      Reported,
     OrderStatus
<1> HIDE DEF e
<1>5. /\ DOMAIN store' = DOMAIN store
      /\ store'[c] = e
      /\ \A y \in DOMAIN store : y # c => store'[y] = store[y]
  BY <1>2, <1>3
<1>6. DOMAIN calls' = DOMAIN calls \ {t} /\ \A u \in DOMAIN calls' : calls'[u] = calls[u]
  BY <1>3, ReturnFacts
<1> HIDE DEF c, r
<1>14. /\ DOMAIN disk' \subseteq Coid
       /\ \A y \in DOMAIN disk' : disk'[y] \in COIDEntry
       /\ Known' /\ FileSound'
  <2>1. DOMAIN store' \subseteq Coid /\ \A y \in DOMAIN store' : store'[y] \in COIDEntry
    BY <1>0, <1>4, <1>5 DEF TypeOK
  <2>2. \A y \in DOMAIN store' :
          y \in DOMAIN store /\ (is_terminal(y) => store'[y] = store[y])
    BY <1>2, <1>5 DEF Unfinished
  <2>3. \A y \in DOMAIN store' : store'[y].order_id => y \in DOMAIN orders'
    BY <1>2, <1>3, <1>5 DEF SubmissionInv, Known
  <2>4. OneUnfinished'
    <3>1. Unfinished' \subseteq Unfinished
      BY <1>2, <1>5 DEF Unfinished, is_terminal
    <3> QED
      BY <3>1 DEF SubmissionInv, FileSound, OneUnfinished
  <2>5. DOMAIN orders \subseteq DOMAIN orders'
    BY <1>3
  <2> QED
    BY <2>1, <2>2, <2>3, <2>4, <2>5, <1>3, SaveStep
<1>7. TypeOK'
  <2>1. \A y \in DOMAIN store' : store'[y] \in COIDEntry
    BY <1>0, <1>4, <1>5 DEF TypeOK
  <2>2. DOMAIN calls' \subseteq Thread /\ \A u \in DOMAIN calls' : calls'[u] \in Call
    BY <1>0, <1>6 DEF TypeOK
  <2> QED
    BY <1>0, <1>2, <1>3, <1>5, <1>14, <2>1, <2>2 DEF TypeOK
<1>8. Used' \subseteq Used
  BY <1>3, <1>5 DEF Used
<1>9. \A y : y \in Unfinished' => y \in Unfinished
  BY <1>2, <1>5 DEF Unfinished, is_terminal
<1>10. \A y : y # c => (y \in Unfinished' <=> y \in Unfinished)
  BY <1>5 DEF Unfinished, is_terminal
<1>11. Quiet' /\ Stamped'
  BY <1>3, <1>6, <1>8 DEF SubmissionInv, Quiet, Stamped
<1>12. Youngest'
  BY <1>3, <1>8, <1>9 DEF SubmissionInv, Youngest
<1>13. Settled'
  <2> SUFFICES ASSUME NEW y \in Used', y \notin Unfinished'
               PROVE  y \in presumed' \cup lapsed' \/ (y \in told' /\ orders'[y] # "open")
    BY DEF Settled
  <2>1. CASE y = c
    <3>1. e.status \in Terminal
      BY <2>1, <1>2, <1>5 DEF Unfinished, is_terminal
    <3> QED
      BY <2>1, <3>1, <1>3, <1>4
  <2>2. CASE y # c
    BY <2>2, <1>3, <1>8, <1>10 DEF SubmissionInv, Settled
  <2> QED
    BY <2>1, <2>2
<1>15. \A u \in DOMAIN calls' : calls'[u].answer # "awaited" => calls'[u].coid # c
  BY <1>0, <1>6 DEF SubmissionInv, AnsweredOnce, c, r
<1>16. CallsSound'
  <2> SUFFICES ASSUME NEW u \in DOMAIN calls', NEW k, NEW a,
                      k = calls'[u].coid, a = calls'[u].answer
               PROVE  AnswerSound(k, a)'
    BY DEF CallsSound, AnswerSound, Unfinished, is_terminal
  <2>1. AnswerSound(k, a)
    BY <1>6 DEF SubmissionInv, CallsSound
  <2>2. CASE k = c
    <3>1. a = "awaited" /\ k \in DOMAIN orders'
      BY <2>2, <1>2, <1>3, <1>15
    <3> QED
      BY <3>1 DEF AnswerSound, Unfinished, is_terminal
  <2>3. CASE k # c
    BY <2>1, <2>3, <1>3, <1>10, AnswerStays
  <2> QED
    BY <2>2, <2>3
<1>17. AnsweredOnce'
  BY <1>6 DEF SubmissionInv, AnsweredOnce
<1>18. \A y \in DOMAIN store : is_terminal(y) => store'[y] = store[y]
  BY <1>2, <1>5 DEF Unfinished
<1> QED
  BY <1>7, <1>11, <1>12, <1>13, <1>14, <1>16, <1>17, <1>18 DEF SubmissionInv

\* Startup reconciles: what is pending may end or be presumed to have ended, and
\* what has ended may be forgotten.
LEMMA ReconcileStep ==
  ASSUME SubmissionInv, Reconcile
  PROVE  SubmissionInv' /\ \A y \in DOMAIN store \cap DOMAIN store' :
                              is_terminal(y) => store'[y] = store[y]
<1>0. TypeOK /\ starting /\ DOMAIN calls = {}
  BY DEF SubmissionInv, Quiet, Reconcile
<1>1. PICK ok \in SUBSET {c \in DOMAIN store : store[c].status = "pending"},
           old \in SUBSET OldEntries :
        \E e \in [ok -> UNION {ReconciledEntries(c) : c \in ok}] :
          /\ \A c \in ok : e[c] \in ReconciledEntries(c)
          /\ store' = After(ok, e, old) /\ SaveEach(ok, e, old)
          /\ told' = told \cup {c \in ok : e[c].order_id}
          /\ presumed' = presumed \cup {c \in ok : ~e[c].order_id}
  BY DEF Reconcile
<1>2. PICK e \in [ok -> UNION {ReconciledEntries(c) : c \in ok}] :
        /\ \A c \in ok : e[c] \in ReconciledEntries(c)
        /\ store' = After(ok, e, old) /\ SaveEach(ok, e, old)
        /\ told' = told \cup {c \in ok : e[c].order_id}
        /\ presumed' = presumed \cup {c \in ok : ~e[c].order_id}
  BY <1>1
<1>3. UNCHANGED <<clock, starting, calls, orders, executed, inflight, lapsed>>
  BY DEF Reconcile, exchange
<1>4. /\ ok \subseteq DOMAIN store /\ \A c \in ok : ~is_terminal(c)
      /\ \A c \in old : c \in DOMAIN store /\ is_terminal(c)
      /\ ok \cap old = {}
  BY DEF OldEntries, is_terminal, Terminal
<1>5. ASSUME NEW c \in ok
      PROVE  /\ e[c] \in COIDEntry
             /\ e[c].order_id => c \in DOMAIN orders
             /\ e[c].order_id /\ e[c].status \in Terminal => orders[c] # "open"
  <2>1. e[c] \in ReconciledEntries(c)
    BY <1>2
  <2>2. CASE store[c].order_id \/ (c \in DOMAIN orders /\ orders[c] = "open")
    <3>1. c \in DOMAIN orders
      BY <2>2, <1>4 DEF SubmissionInv, Known
    <3>2. PICK r \in Reports(c) : e[c] = [status |-> ReconciledStatus(r), order_id |-> TRUE]
      BY <2>1, <2>2 DEF ReconciledEntries
    <3>3. r \in Reported /\ (orders[c] = "open" => r \in {"open", "missing"})
      BY <1>0, <3>1, <3>2 DEF Reports, Reported, TypeOK
    <3>4. /\ ReconciledStatus(r) \in COIDStatus
          /\ ReconciledStatus(r) \in Terminal => r \notin {"open", "missing"}
      BY <3>3 DEF ReconciledStatus, AnsweredStatus, COIDStatus, Terminal, Reported,
          OrderStatus
    <3> QED
      BY <3>1, <3>2, <3>3, <3>4 DEF COIDEntry
  <2>3. CASE ~(store[c].order_id \/ (c \in DOMAIN orders /\ orders[c] = "open"))
    <3>1. e[c] = [status |-> "expired", order_id |-> FALSE]
      BY <2>1, <2>3 DEF ReconciledEntries
    <3> QED
      BY <3>1 DEF COIDEntry, COIDStatus
  <2> QED
    BY <2>2, <2>3
<1>6. /\ DOMAIN store' = DOMAIN store \ old
      /\ \A c \in ok : store'[c] = e[c]
      /\ \A c \in DOMAIN store' : c \notin ok => store'[c] = store[c]
  BY <1>2, <1>4 DEF After
<1>7. Unfinished' \subseteq Unfinished
  BY <1>4, <1>6 DEF Unfinished, is_terminal
<1>8. /\ DOMAIN disk' \subseteq Coid
      /\ \A y \in DOMAIN disk' : disk'[y] \in COIDEntry
      /\ Known' /\ FileSound' /\ Used' \subseteq Used
  <2>1. DOMAIN store' \subseteq Coid /\ \A c \in DOMAIN store' : store'[c] \in COIDEntry
    BY <1>0, <1>5, <1>6 DEF TypeOK
  <2>2. \A c \in DOMAIN store' : store'[c].order_id => c \in DOMAIN orders'
    BY <1>3, <1>5, <1>6 DEF SubmissionInv, Known
  <2>3. OneUnfinished'
    BY <1>7 DEF SubmissionInv, FileSound, OneUnfinished
  <2>4. CASE disk' = disk \/ disk' = store'
    <3>1. \A c \in DOMAIN store' :
            c \in DOMAIN store /\ (is_terminal(c) => store'[c] = store[c])
      BY <1>4, <1>6
    <3>2. DOMAIN orders \subseteq DOMAIN orders'
      BY <1>3
    <3>3. Used' \subseteq Used
      BY <2>4, <1>3, <1>6 DEF Used
    <3> QED
      BY <2>1, <2>2, <2>3, <2>4, <3>1, <3>2, <3>3, SaveStep
  <2>5. ASSUME NEW done \in SUBSET ok, disk' = After(done, e, {})
        PROVE  /\ DOMAIN disk' \subseteq Coid
               /\ \A y \in DOMAIN disk' : disk'[y] \in COIDEntry
               /\ Known' /\ FileSound' /\ Used' \subseteq Used
    <3>1. /\ DOMAIN disk' = DOMAIN store
          /\ \A c \in done : disk'[c] = e[c]
          /\ \A c \in DOMAIN store \ done : disk'[c] = store[c]
      BY <2>5, <1>4 DEF After
    <3>2. \A c \in DOMAIN disk' : disk'[c] \in COIDEntry
      BY <3>1, <1>0, <1>5 DEF TypeOK
    <3>3. Known'
      <4>1. \A c \in DOMAIN disk' : disk'[c].order_id => c \in DOMAIN orders'
        BY <3>1, <1>3, <1>5 DEF SubmissionInv, Known
      <4> QED
        BY <4>1, <2>2 DEF Known
    <3>4. \A c \in DOMAIN disk' : EndedOnDisk(c)' \/ c \in Unfinished
      BY <3>1, <1>4 DEF EndedOnDisk, Unfinished, is_terminal
    <3>5. ASSUME NEW c \in DOMAIN store', EndedOnDisk(c)'
          PROVE  store'[c] = disk'[c]
      <4>1. CASE c \in done
        BY <4>1, <3>1, <1>6
      <4>2. CASE c \notin done
        <5>1. disk'[c] = store[c] /\ is_terminal(c)
          BY <4>2, <3>1, <3>5, <1>6 DEF EndedOnDisk, is_terminal
        <5> QED
          BY <5>1, <1>4, <1>6
      <4> QED
        BY <4>1, <4>2
    <3>6. \A c1, c2 \in DOMAIN disk' :
            c1.decision = c2.decision /\ ~EndedOnDisk(c1)' /\ ~EndedOnDisk(c2)' => c1 = c2
      BY <3>4 DEF SubmissionInv, FileSound, OneUnfinished
    <3>7. FileSound'
      BY <2>3, <3>5, <3>6 DEF FileSound
    <3>8. Used' \subseteq Used
      BY <3>1, <1>3, <1>6 DEF Used
    <3> QED
      BY <1>0, <3>1, <3>2, <3>3, <3>7, <3>8 DEF TypeOK
  <2>6. \/ disk' = disk \/ disk' = store'
        \/ \E done \in SUBSET ok : disk' = After(done, e, {})
    BY <1>2 DEF SaveEach
  <2> QED
    BY <2>4, <2>5, <2>6
<1>9. TypeOK'
  <2>1. \A c \in DOMAIN store' : store'[c] \in COIDEntry
    BY <1>0, <1>5, <1>6 DEF TypeOK
  <2>2. told' \subseteq DOMAIN orders
    BY <1>0, <1>2, <1>5 DEF TypeOK
  <2>3. presumed' \subseteq Coid
    BY <1>0, <1>2, <1>4 DEF TypeOK
  <2> QED
    BY <1>0, <1>3, <1>6, <1>8, <2>1, <2>2, <2>3 DEF TypeOK
<1>10. Quiet' /\ CallsSound' /\ AnsweredOnce'
  BY <1>0, <1>3 DEF Quiet, CallsSound, AnsweredOnce
<1>11. Stamped' /\ Youngest'
  BY <1>3, <1>7, <1>8 DEF SubmissionInv, Stamped, Youngest
<1>12. Settled'
  <2> SUFFICES ASSUME NEW y \in Used', y \notin Unfinished'
               PROVE  y \in presumed' \cup lapsed' \/ (y \in told' /\ orders'[y] # "open")
    BY DEF Settled
  <2>1. CASE y \in ok
    <3>1. e[y].status \in Terminal
      BY <2>1, <1>4, <1>6 DEF Unfinished, is_terminal
    <3> QED
      BY <2>1, <3>1, <1>2, <1>3, <1>5
  <2>2. CASE y \notin ok
    <3>1. y \notin Unfinished
      BY <2>2, <1>4, <1>6 DEF Unfinished, is_terminal
    <3>2. y \in presumed \cup lapsed \/ (y \in told /\ orders[y] # "open")
      BY <3>1, <1>8 DEF SubmissionInv, Settled
    <3> QED
      BY <3>2, <1>2, <1>3
  <2> QED
    BY <2>1, <2>2
<1>14. \A y \in DOMAIN store \cap DOMAIN store' : is_terminal(y) => store'[y] = store[y]
  BY <1>4, <1>6
<1> QED
  BY <1>8, <1>9, <1>10, <1>11, <1>12, <1>14 DEF SubmissionInv

\* The process dies and starts again with what of the file it can read: an id that
\* is forgotten unfinished, or unfinished again, has lapsed.
LEMMA CrashStep ==
  ASSUME SubmissionInv, Crash
  PROVE  SubmissionInv' /\ \A y \in DOMAIN store \cap DOMAIN store' :
            is_terminal(y) =>
              \/ store'[y] = store[y]
              \/ ~EndedOnDisk(y) /\ store'[y] = disk[y]
<1>1. PICK kept \in SUBSET DOMAIN disk : store' = Restrict(disk, kept)
  BY DEF Crash
<1>2. /\ UNCHANGED <<disk, clock, orders, executed, inflight, told, presumed>>
      /\ DOMAIN calls' = {} /\ starting' = TRUE
      /\ lapsed' = lapsed \cup (Unfinished \ Unfinished') \cup (Unfinished' \ Unfinished)
  BY DEF Crash, exchange, Empty
<1>3. DOMAIN store' = kept /\ \A y \in kept : store'[y] = disk[y]
  BY <1>1 DEF Restrict
<1>4. Used' \subseteq Used
  BY <1>2, <1>3 DEF Used
<1>5. TypeOK' /\ Quiet'
  <2>1. Unfinished \subseteq Coid
    BY DEF SubmissionInv, TypeOK, Unfinished
  <2>2. Unfinished' \subseteq Coid
    BY <1>3 DEF SubmissionInv, TypeOK, Unfinished
  <2>3. lapsed' \subseteq Coid
    BY <1>2, <2>1, <2>2 DEF SubmissionInv, TypeOK
  <2>4. DOMAIN store' \subseteq Coid /\ \A y \in DOMAIN store' : store'[y] \in COIDEntry
    BY <1>3 DEF SubmissionInv, TypeOK
  <2> QED
    BY <1>2, <2>3, <2>4 DEF SubmissionInv, TypeOK, Quiet
<1>6. Stamped'
  BY <1>2, <1>4 DEF SubmissionInv, Stamped
<1>7. Youngest'
  BY <1>2, <1>4 DEF SubmissionInv, Youngest
<1>8. Settled'
  <2> SUFFICES ASSUME NEW y \in Used', y \notin Unfinished'
               PROVE  y \in presumed' \cup lapsed' \/ (y \in told' /\ orders'[y] # "open")
    BY DEF Settled
  <2>1. CASE y \in Unfinished
    BY <2>1, <1>2
  <2>2. CASE y \notin Unfinished
    BY <2>2, <1>2, <1>4 DEF SubmissionInv, Settled
  <2> QED
    BY <2>1, <2>2
<1>9. Known'
  BY <1>2, <1>3 DEF SubmissionInv, Known
<1>10. FileSound'
  <2>1. \A y \in Unfinished' : y \in DOMAIN disk /\ ~EndedOnDisk(y)
    BY <1>3 DEF Unfinished, is_terminal, EndedOnDisk
  <2>2. OneUnfinished'
    BY <2>1 DEF SubmissionInv, FileSound, OneUnfinished
  <2>3. \A c1, c2 \in DOMAIN disk' :
          c1.decision = c2.decision /\ ~EndedOnDisk(c1)' /\ ~EndedOnDisk(c2)' => c1 = c2
    BY <1>2 DEF SubmissionInv, FileSound, EndedOnDisk
  <2> QED
    BY <1>2, <1>3, <2>2, <2>3 DEF FileSound
<1>11. CallsSound' /\ AnsweredOnce'
  BY <1>2 DEF CallsSound, AnsweredOnce
<1>12. ASSUME NEW y \in DOMAIN store \cap DOMAIN store', is_terminal(y)
       PROVE  \/ store'[y] = store[y]
              \/ ~EndedOnDisk(y) /\ store'[y] = disk[y]
  BY <1>3 DEF SubmissionInv, FileSound
<1> QED
  BY <1>5, <1>6, <1>7, <1>8, <1>9, <1>10, <1>11, <1>12 DEF SubmissionInv

\* Calls that go on unchanged while the exchange takes or ends orders.
LEMMA CallsGoOn ==
  ASSUME SubmissionInv, UNCHANGED <<store, calls>>,
         DOMAIN orders \subseteq DOMAIN orders',
         \A y \in DOMAIN orders : orders[y] # "open" => orders'[y] # "open"
  PROVE  CallsSound' /\ AnsweredOnce'
<1>1. CallsSound'
  <2> SUFFICES ASSUME NEW u \in DOMAIN calls', NEW k, NEW a,
                      k = calls'[u].coid, a = calls'[u].answer
               PROVE  AnswerSound(k, a)'
    BY DEF CallsSound, AnswerSound, Unfinished, is_terminal
  <2>1. k \in Unfinished => k \in Unfinished'
    BY DEF Unfinished, is_terminal
  <2>2. AnswerSound(k, a)
    BY DEF SubmissionInv, CallsSound
  <2> QED
    BY <2>1, <2>2, AnswerStays
<1>2. AnsweredOnce'
  BY DEF SubmissionInv, AnsweredOnce
<1> QED
  BY <1>1, <1>2

\* A late request arrives.
LEMMA ArriveStep ==
  ASSUME SubmissionInv, NEW c \in inflight, Arrive(c)
  PROVE  SubmissionInv'
<1>1. c \in Used
  BY DEF Used
<1>2. /\ UNCHANGED <<store, disk, clock, starting, calls, told, presumed, lapsed>>
      /\ UNCHANGED <<orders, executed>> \/ TakeOrder(c)
      /\ inflight' \subseteq inflight \cup {c}
  BY DEF Arrive
<1>3. /\ DOMAIN orders \subseteq DOMAIN orders'
      /\ \A y \in DOMAIN orders : orders'[y] = orders[y]
      /\ DOMAIN orders' \subseteq Coid
      /\ \A y \in DOMAIN orders' : orders'[y] \in OrderStatus
      /\ executed' \subseteq DOMAIN orders'
      /\ inflight' \subseteq Coid
      /\ Stamped' /\ Youngest' /\ Settled' /\ Known' /\ FileSound'
  BY <1>1, <1>2, ExchangeStep
<1>4. TypeOK' /\ Quiet'
  BY <1>2, <1>3 DEF SubmissionInv, TypeOK, Quiet
<1>5. CallsSound' /\ AnsweredOnce'
  BY <1>2, <1>3, CallsGoOn
<1> QED
  BY <1>3, <1>4, <1>5 DEF SubmissionInv

\* An open order goes on or ends; it was not settled before.
LEMMA ProceedStep ==
  ASSUME SubmissionInv, NEW c \in DOMAIN orders, Proceed(c)
  PROVE  SubmissionInv'
<1>0. TypeOK
  BY DEF SubmissionInv
<1>1. PICK st \in OrderStatus, ex \in BOOLEAN :
        /\ orders' = [orders EXCEPT ![c] = st]
        /\ executed' = IF ex THEN executed \cup {c} ELSE executed
  BY DEF Proceed
<1>2. orders[c] = "open" /\ UNCHANGED <<store, disk, clock, starting, calls, inflight,
    told, presumed, lapsed>>
  BY DEF Proceed
<1>3. /\ DOMAIN orders' = DOMAIN orders
      /\ \A y \in DOMAIN orders : orders'[y] \in OrderStatus
      /\ \A y \in DOMAIN orders : y # c => orders'[y] = orders[y]
  BY <1>0, <1>1 DEF TypeOK
<1>4. executed' \subseteq DOMAIN orders
  BY <1>0, <1>1 DEF TypeOK
<1>5. \A y \in DOMAIN orders : orders[y] # "open" => orders'[y] # "open"
  BY <1>2, <1>3
<1>6. TypeOK' /\ Quiet'
  BY <1>0, <1>2, <1>3, <1>4 DEF SubmissionInv, TypeOK, Quiet
<1>7. Stamped' /\ Youngest' /\ Known' /\ FileSound'
  BY <1>2, <1>3
  DEF SubmissionInv, Stamped, Youngest, Known, Used, Unfinished, is_terminal, FileSound,
      OneUnfinished, EndedOnDisk
<1>8. Settled'
  <2> SUFFICES ASSUME NEW y \in Used', y \notin Unfinished'
               PROVE  y \in presumed' \cup lapsed' \/ (y \in told' /\ orders'[y] # "open")
    BY DEF Settled
  <2>1. y \in Used /\ y \notin Unfinished
    BY <1>2, <1>3 DEF Used, Unfinished, is_terminal
  <2>2. y \in presumed \cup lapsed \/ (y \in told /\ orders[y] # "open")
    BY <2>1 DEF SubmissionInv, Settled
  <2> QED
    BY <2>2, <1>0, <1>2, <1>5 DEF TypeOK
<1>9. CallsSound' /\ AnsweredOnce'
  BY <1>2, <1>3, <1>5, CallsGoOn
<1> QED
  BY <1>6, <1>7, <1>8, <1>9 DEF SubmissionInv

\* Every step keeps it.
LEMMA SubmissionStep == SubmissionInv /\ [Next]_vars => SubmissionInv'
<1> SUFFICES ASSUME SubmissionInv, [Next]_vars PROVE SubmissionInv'
  OBVIOUS
<1>1. CASE UNCHANGED vars
  <2>1. UNCHANGED <<store, disk, clock, starting, calls, orders, executed, inflight,
      told, presumed, lapsed>>
    BY <1>1 DEF vars, exchange
  <2> QED
    BY <2>1
    DEF SubmissionInv, TypeOK, Quiet, Stamped, Youngest, Settled, Known, CallsSound,
        AnsweredOnce,
        AnswerSound, Used, Unfinished, is_terminal, FileSound, OneUnfinished,
        EndedOnDisk
<1>2. ASSUME NEW t \in Thread,
             \/ \E d \in Decision : Submit(t, d)
             \/ SendAnswered(t) \/ SendRefused(t) \/ SendFails(t) \/ Record(t)
      PROVE  SubmissionInv'
  BY <1>2, SubmitStep, SendAnsweredStep, SendRefusedStep, SendFailsStep, RecordStep
<1>3. CASE Reconcile \/ Crash
  BY <1>3, ReconcileStep, CrashStep
<1>4. ASSUME NEW c \in inflight, Arrive(c) PROVE SubmissionInv'
  BY <1>4, ArriveStep
<1>5. ASSUME NEW c \in DOMAIN orders, Proceed(c) PROVE SubmissionInv'
  BY <1>5, ProceedStep
<1> QED
  BY <1>1, <1>2, <1>3, <1>4, <1>5 DEF Next

(***************************************************************************)
(* What the invariant says                                                 *)
(***************************************************************************)

\* An id that has a younger one is not unfinished, so it is settled, or it has lapsed.
LEMMA OlderSettled ==
  ASSUME SubmissionInv, NEW c1 \in DOMAIN orders, NEW c2 \in DOMAIN orders,
         c1.decision = c2.decision, c1.ts < c2.ts
  PROVE  c1 \in presumed \cup lapsed \/ (c1 \in told /\ orders[c1] # "open")
<1>1. c1 \in Used /\ c2 \in Used
  BY DEF Used
<1>2. c1.ts \in Nat /\ c2.ts \in Nat
  BY <1>1, UsedCoid DEF SubmissionInv
<1>3. ~(c2.ts <= c1.ts)
  BY <1>2
<1>4. c1 \notin Unfinished \/ c1 \in lapsed
  BY <1>1, <1>3 DEF SubmissionInv, Youngest
<1> QED
  BY <1>1, <1>4 DEF SubmissionInv, Settled

\* At most one order of a decision is open, as the older ones are settled.
LEMMA OneOpenHolds == SubmissionInv => OneOpen
BY OlderSettled DEF OneOpen

\* An id that executed before another one of its decision had ended first.
LEMMA ExplainedHolds == SubmissionInv => SecondExecutionExplained
<1> SUFFICES ASSUME SubmissionInv, NEW c1 \in executed, NEW c2 \in executed,
    Reexecuted(c1, c2)
             PROVE  c1 \in told \cup presumed \cup lapsed
  BY DEF SecondExecutionExplained
<1>1. c1 \in DOMAIN orders /\ c2 \in DOMAIN orders
  BY DEF SubmissionInv, TypeOK
<1> QED
  BY <1>1, OlderSettled DEF Reexecuted

\* What a step leaves of the entries that have ended (the body of TerminalIsFinal).
EndKept ==
  \A c \in DOMAIN store \cap DOMAIN store' :
    is_terminal(c) =>
      \/ store'[c] = store[c]
      \/ starting' /\ calls' = Empty /\ ~EndedOnDisk(c) /\ store'[c] = disk[c]

\* No step touches an entry that has ended, but a restart from a file without the end.
LEMMA TerminalStep ==
  ASSUME SubmissionInv, [Next]_vars
  PROVE  EndKept
<1>1. CASE UNCHANGED vars
  BY <1>1 DEF vars, EndKept
<1>2. ASSUME NEW t \in Thread, NEW d \in Decision, Submit(t, d)
      PROVE  EndKept
  <2>1. PICK c \in Coid : NextCoid(d, c)
    BY <1>2 DEF Submit
  <2>2. CASE UNCHANGED store
    BY <2>2 DEF EndKept
  <2>3. CASE /\ c = [decision |-> d, ts |-> clock + 1] /\ clock < MaxClock
             /\ store' = With(store, c, [status |-> "pending", order_id |-> FALSE])
    <3>1. c.ts = clock + 1 /\ clock \in Nat
      BY <2>3, SubmissionAssumption DEF SubmissionInv, TypeOK
    <3>2. c \notin DOMAIN store
      BY <3>1 DEF SubmissionInv, Stamped, Used
    <3> QED
      BY <2>3, <3>2 DEF With, EndKept
  <2> QED
    BY <2>1, <2>2, <2>3 DEF NextCoid
<1>3. ASSUME NEW t \in Thread, SendAnswered(t) \/ SendRefused(t) \/ SendFails(t)
      PROVE  EndKept
  BY <1>3 DEF SendAnswered, SendRefused, SendFails, EndKept
<1>4. ASSUME NEW t \in Thread, Record(t)
      PROVE  EndKept
  BY <1>4, RecordStep DEF EndKept
<1>5. CASE Reconcile
  BY <1>5, ReconcileStep DEF EndKept
<1>6. CASE Crash
  <2>1. starting' /\ calls' = Empty
    BY <1>6 DEF Crash
  <2> QED
    BY <1>6, <2>1, CrashStep DEF EndKept
<1>7. ASSUME NEW c, Arrive(c) \/ Proceed(c) PROVE EndKept
  BY <1>7 DEF Arrive, Proceed, EndKept
<1> QED
  BY <1>1, <1>2, <1>3, <1>4, <1>5, <1>6, <1>7 DEF Next

(***************************************************************************)
(* Where no save and no load fails                                         *)
(***************************************************************************)

\* Saves succeed and the file can be read.
FilesWork == Faults \cap {"save_fails", "load_fails"} = {}

\* The file has what the store has, and no restart got an id wrong.
Current ==
  /\ DOMAIN disk = DOMAIN store
  /\ \A c \in DOMAIN store : disk[c] = store[c]
  /\ lapsed = {}

\* Every step keeps the file current, when saves and loads work.
LEMMA CurrentStep ==
  ASSUME FilesWork, SubmissionInv, Current, [Next]_vars
  PROVE  Current'
<1>1. CASE UNCHANGED vars
  BY <1>1 DEF vars, Current
<1>2. Save => disk' = store'
  BY DEF Save, FilesWork
<1>3. ASSUME NEW t \in Thread,
             \/ \E d \in Decision : Submit(t, d)
             \/ SendAnswered(t) \/ SendRefused(t) \/ SendFails(t) \/ Record(t)
      PROVE  Current'
  <2>1. UNCHANGED lapsed /\ (disk' = store' \/ UNCHANGED <<store, disk>>)
    BY <1>2, <1>3 DEF Submit, SendAnswered, SendRefused, SendFails, Record
  <2> QED
    BY <2>1 DEF Current
<1>4. CASE Reconcile
  <2>1. PICK ok \in SUBSET {c \in DOMAIN store : store[c].status = "pending"},
             old \in SUBSET OldEntries :
          \E e \in [ok -> UNION {ReconciledEntries(c) : c \in ok}] :
            store' = After(ok, e, old) /\ SaveEach(ok, e, old)
    BY <1>4 DEF Reconcile
  <2>2. PICK e : store' = After(ok, e, old) /\ SaveEach(ok, e, old)
    BY <2>1
  <2>3. disk' = IF ok \cup old = {} THEN disk ELSE store'
    BY <2>2 DEF SaveEach, FilesWork
  <2>4. UNCHANGED lapsed
    BY <1>4 DEF Reconcile
  <2>5. CASE ok \cup old = {}
    <3>1. DOMAIN store' = DOMAIN store /\ \A c \in DOMAIN store : store'[c] = store[c]
      BY <2>2, <2>5 DEF After
    <3> QED
      BY <2>3, <2>4, <2>5, <3>1 DEF Current
  <2> QED
    BY <2>3, <2>4, <2>5 DEF Current
<1>5. CASE Crash
  <2>1. PICK kept \in SUBSET DOMAIN disk : kept = DOMAIN disk /\ store' = Restrict(disk, kept)
    BY <1>5 DEF Crash, FilesWork
  <2>2. disk' = disk /\ DOMAIN store' = DOMAIN disk /\ \A c \in DOMAIN disk : store'[c] = disk[c]
    BY <1>5, <2>1 DEF Crash, Restrict
  <2>3. Unfinished' = Unfinished
    BY <2>2 DEF Current, Unfinished, is_terminal
  <2>4. lapsed' = {}
    BY <1>5, <2>3 DEF Crash, Current
  <2> QED
    BY <2>2, <2>4 DEF Current
<1>6. ASSUME NEW c, Arrive(c) \/ Proceed(c) PROVE Current'
  BY <1>6 DEF Arrive, Proceed, Current
<1> QED
  BY <1>1, <1>3, <1>4, <1>5, <1>6 DEF Next

(***************************************************************************)
(* Theorems                                                                *)
(***************************************************************************)

\* The inductive invariant holds in every state (coid.py, order_service.py).
THEOREM SubmissionInvariant == Spec => []SubmissionInv
BY SubmissionInit, SubmissionStep, PTL DEF Spec

\* The store, the file, the calls and the exchange stay within their types, whatever
\* saves and loads fail, and callers are told only of orders the exchange took.
THEOREM SubmissionTypes == Spec => []TypeOK
<1>1. SubmissionInv => TypeOK
  BY DEF SubmissionInv
<1> QED
  BY <1>1, SubmissionInvariant, PTL

\* Whichever threads submit a decision, and across restarts from a file that may lag
\* or be unreadable, it has at most one unfinished id and, but for ids that startup
\* presumed expired or a restart lost, one open order (next_client_order_id, submit,
\* _save_store, _load_store).
THEOREM SubmissionOneAtATime == Spec => []OneAtATime
<1>1. SubmissionInv => OneAtATime
  BY OneOpenHolds DEF OneAtATime, SubmissionInv, FileSound
<1> QED
  BY <1>1, SubmissionInvariant, PTL

\* A decision executes again only where the first order was told of, or presumed
\* expired by startup, or a restart had lost what became of its id
\* (next_client_order_id, reconcile_with_exchange, _save_store, _load_store).
THEOREM SubmissionExplained == Spec => []SecondExecutionExplained
<1>1. SubmissionInv => SecondExecutionExplained
  BY ExplainedHolds
<1> QED
  BY <1>1, SubmissionInvariant, PTL

\* No answer and no reconciliation touches an id that has ended, and a restart does
\* only where the file lacks the end (is_terminal, update_status, _load_store).
THEOREM SubmissionFinal == Spec => TerminalIsFinal
<1>1. SubmissionInv /\ [Next]_vars => [EndKept]_vars
  BY TerminalStep
<1>2. Spec => [][EndKept]_vars
  BY <1>1, SubmissionInvariant, PTL DEF Spec
<1> QED
  BY <1>2 DEF TerminalIsFinal, EndKept

\* Where saves and loads work, a restart loses nothing: what the three theorems
\* above say then holds without the excuse of a lost id (_save_store, _load_store).
THEOREM SubmissionNothingLapses ==
  ASSUME FilesWork
  PROVE  Spec => [](lapsed = {})
<1>1. Init => Current
  BY DEF Init, Current
<1>2. SubmissionInv /\ Current /\ [Next]_vars => Current'
  BY CurrentStep
<1>3. Current => lapsed = {}
  BY DEF Current
<1> QED
  BY <1>1, <1>2, <1>3, SubmissionInvariant, PTL DEF Spec

=============================================================================
