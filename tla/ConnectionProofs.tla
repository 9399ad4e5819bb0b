------------------------- MODULE ConnectionProofs -------------------------
(***************************************************************************)
(* Theorems about Connection, for every set of trading threads and every   *)
(* number of attempts.                                                     *)
(*                                                                         *)
(* BackoffNeverStarts is not inductive: a failure may only be counted once *)
(* per tester because a tester that is past its Check has no failure in    *)
(* the counter.  PastCheckUncounted says so, and CountersFresh that a      *)
(* connection known to be good has no failures at all.                     *)
(***************************************************************************)
EXTENDS Connection, FiniteSetTheorems, TLAPS

PastCheck == {"markets", "balance", "send", "again"}

\* Only testers test.
TestsAreTesters == \A t \in Thread : call[t].task = "test" => t \in Tester

\* A good connection has no failures.
CountersFresh == state = "connected" => failures = 0 /\ counted = {}

\* A tester that looked at the connection has no failure in the counter.
PastCheckUncounted ==
  \A t \in Tester : call[t].step \in PastCheck => t \notin counted

IInv ==
  /\ TypeOK
  /\ TestsAreTesters
  /\ CountersFresh
  /\ PastCheckUncounted
  /\ BackoffNeverStarts

(***************************************************************************)
(* Counting testers                                                        *)
(***************************************************************************)

\* A set of testers has at most two members.
LEMMA TesterCount ==
  ASSUME NEW S \in SUBSET Tester
  PROVE  /\ IsFiniteSet(S)
         /\ Cardinality(S) \in 0..2
<1>1. IsFiniteSet({Boot}) /\ Cardinality({Boot}) = 1
  BY FS_Singleton
<1>2. IsFiniteSet(Tester) /\ Cardinality(Tester) \in Nat /\ Cardinality(Tester) <= 2
  <2>1. Tester = {Boot} \cup {Monitor}
    BY DEF Tester
  <2>2. /\ IsFiniteSet({Boot} \cup {Monitor})
        /\ \/ Cardinality({Boot} \cup {Monitor}) = Cardinality({Boot})
           \/ Cardinality({Boot} \cup {Monitor}) = Cardinality({Boot}) + 1
    BY <1>1, FS_AddElement
  <2> QED BY <1>1, <2>1, <2>2
<1>3. IsFiniteSet(S) /\ Cardinality(S) <= Cardinality(Tester)
  BY <1>2, FS_Subset
<1>4. Cardinality(S) \in Nat
  BY <1>3, FS_CardinalityType
<1> QED BY <1>2, <1>3, <1>4

\* Adding a tester that is not there yet.
LEMMA TesterAdded ==
  ASSUME NEW S \in SUBSET Tester, NEW t \in Tester, t \notin S
  PROVE  Cardinality(S \cup {t}) = Cardinality(S) + 1
BY TesterCount, FS_AddElement

(***************************************************************************)
(* The bookkeeping of the recovery service                                 *)
(***************************************************************************)

\* What the two handlers need and leave behind.
Books ==
  /\ failures \in Nat
  /\ state \in {"connected", "disconnected", "failed"}
  /\ counted \subseteq Tester
  /\ CountersFresh
  /\ BackoffNeverStarts

\* A success empties the counter.
LEMMA SuccessKeepsBooks ==
  ASSUME IInv, OnSuccess
  PROVE  Books' /\ counted' = {} /\ tripped' \in BOOLEAN /\ recovering' \in BOOLEAN
BY FS_EmptySet DEF IInv, TypeOK, OnSuccess, Books, CountersFresh, BackoffNeverStarts

\* A failure of a tester the counter does not hold keeps it below Threshold.
LEMMA FailureKeepsBooks ==
  ASSUME IInv, NEW t \in Tester, t \notin counted, OnFailure(t)
  PROVE  Books' /\ counted' = counted \cup {t} /\ tripped' \in BOOLEAN /\ recovering' \in BOOLEAN
<1>1. /\ failures \in Nat /\ failures <= Cardinality(counted)
      /\ tripped = FALSE /\ recovering = FALSE /\ counted \in SUBSET Tester
  BY DEF IInv, TypeOK, BackoffNeverStarts
<1>2. /\ counted' = counted \cup {t}
      /\ counted \cup {t} \in SUBSET Tester
  BY <1>1 DEF OnFailure
<1>3. Cardinality(counted') = Cardinality(counted) + 1
  BY <1>1, <1>2, TesterAdded
<1>4. Cardinality(counted') \in 0..2 /\ Cardinality(counted) \in 0..2
  BY <1>1, <1>2, TesterCount
<1>5. failures' = failures + 1 /\ failures' <= Cardinality(counted') /\ failures' <= 2
  BY <1>1, <1>3, <1>4 DEF OnFailure
<1>6. ~(failures + 1 >= Threshold) /\ ~(failures + 1 >= BreakerThreshold)
  BY <1>1, <1>5, ConnectionAssumption
<1>7. tripped' = FALSE /\ recovering' = FALSE /\ state' = "disconnected"
  BY <1>1, <1>6 DEF OnFailure, StateAfter
<1>8. CountersFresh' /\ BackoffNeverStarts'
  BY <1>5, <1>7 DEF CountersFresh, BackoffNeverStarts
<1>9. failures' \in Nat /\ counted' \subseteq Tester
  BY <1>1, <1>2, <1>5
<1> QED BY <1>2, <1>7, <1>8, <1>9 DEF Books

\* Forgetting the failures.
LEMMA ForgettingKeepsBooks ==
  ASSUME IInv, failures' = 0, counted' = {}, tripped' = FALSE,
         UNCHANGED <<state, recovering>>
  PROVE  Books'
BY FS_EmptySet DEF IInv, TypeOK, Books, CountersFresh, BackoffNeverStarts

\* A step that leaves the recovery service alone leaves its books.
LEMMA IdleKeepsBooks ==
  ASSUME IInv, UNCHANGED serviceVars
  PROVE  Books' /\ counted' = counted /\ tripped' \in BOOLEAN /\ recovering' \in BOOLEAN
BY DEF IInv, TypeOK, serviceVars, Books, CountersFresh, BackoffNeverStarts

(***************************************************************************)
(* Calls                                                                   *)
(***************************************************************************)

Call == [task : Task, step : Step, attempt : 1..Attempts, more : 0..1, taken : Nat, lost : Nat]

\* A call that begins has sent nothing and lost nothing.
LEMMA NewCallIsCall ==
  /\ NoCall \in Call /\ NoCall.task = "none" /\ NoCall.step = "none"
  /\ NoCall.taken = 0 /\ NoCall.lost = 0
  /\ \A task \in Task :
       /\ NewCall(task) \in Call /\ NewCall(task).task = task
       /\ NewCall(task).step = "check"
       /\ NewCall(task).taken = 0 /\ NewCall(task).lost = 0
       /\ [NewCall(task) EXCEPT !.more = 0] \in Call
       /\ [NewCall(task) EXCEPT !.more = 0].task = task
       /\ [NewCall(task) EXCEPT !.more = 0].step = "check"
       /\ [NewCall(task) EXCEPT !.more = 0].taken = 0
       /\ [NewCall(task) EXCEPT !.more = 0].lost = 0
<1>1. 1 \in 1..Attempts
  BY ConnectionAssumption
<1>2. NoCall \in Call
  BY <1>1 DEF Call, NoCall, Task, Step
<1>3. ASSUME NEW task \in Task
      PROVE  /\ NewCall(task) \in Call /\ NewCall(task).task = task
             /\ NewCall(task).step = "check"
             /\ NewCall(task).taken = 0 /\ NewCall(task).lost = 0
  <2> DEFINE m == IF task = "test" THEN 1 ELSE 0
             c == [NoCall EXCEPT !.task = task, !.step = "check", !.more = m]
  <2>1. m \in 0..1
    OBVIOUS
  <2>2. NewCall(task) = c
    BY DEF NewCall
  <2> HIDE DEF m
  <2>3. /\ c \in Call /\ c.task = task /\ c.step = "check"
        /\ c.taken = NoCall.taken /\ c.lost = NoCall.lost
    BY <1>2, <2>1 DEF Call, Step
  <2> QED BY <2>2, <2>3 DEF NoCall
<1>4. ASSUME NEW c \in Call
      PROVE  /\ [c EXCEPT !.more = 0] \in Call
             /\ [c EXCEPT !.more = 0].task = c.task /\ [c EXCEPT !.more = 0].step = c.step
             /\ [c EXCEPT !.more = 0].taken = c.taken /\ [c EXCEPT !.more = 0].lost = c.lost
  BY <1>4 DEF Call
<1>5. /\ NoCall.task = "none" /\ NoCall.step = "none"
      /\ NoCall.taken = 0 /\ NoCall.lost = 0
  BY DEF NoCall
<1>6. \A task \in Task : /\ [NewCall(task) EXCEPT !.more = 0] \in Call
                          /\ [NewCall(task) EXCEPT !.more = 0].task = task
                          /\ [NewCall(task) EXCEPT !.more = 0].step = "check"
                          /\ [NewCall(task) EXCEPT !.more = 0].taken = 0
                          /\ [NewCall(task) EXCEPT !.more = 0].lost = 0
  BY <1>3, <1>4
<1> QED BY <1>2, <1>3, <1>5, <1>6

\* A step that changes one thread's call, and the books as they should be.
\* The thread may come to be past its Check only if it was before, or if the
\* counter holds nothing.
LEMMA OneCall ==
  ASSUME IInv, NEW t \in Thread, NEW c \in Call,
         call' = [call EXCEPT ![t] = c],
         Books', up' \in BOOLEAN, booted' \in BOOLEAN,
         tripped' \in BOOLEAN, recovering' \in BOOLEAN,
         c.task = "test" => t \in Tester,
         counted' = {} \/ counted' = counted \/ (counted' = counted \cup {t} /\ c.step = "none"),
         c.step \in PastCheck => call[t].step \in PastCheck \/ counted' = {}
  PROVE  IInv'
<1>1. /\ call \in [Thread -> Call]
      /\ counted \subseteq Tester
  BY DEF IInv, TypeOK, Call
<1>2. call' \in [Thread -> Call]
  BY <1>1
<1>3. TypeOK'
  BY <1>2 DEF TypeOK, Call, Books
<1>4. /\ call'[t] = c
      /\ \A u \in Thread : u # t => call'[u] = call[u]
  BY <1>1
<1>5. TestsAreTesters'
  BY <1>4 DEF IInv, TestsAreTesters
<1>6. PastCheckUncounted'
  <2> SUFFICES ASSUME NEW u \in Tester, call'[u].step \in PastCheck
               PROVE  u \notin counted'
    BY DEF PastCheckUncounted
  <2>0. u \in Thread
    BY DEF Thread
  <2>1. CASE u = t
    BY <2>1, <1>4 DEF IInv, PastCheckUncounted, PastCheck
  <2>2. CASE u # t
    BY <2>0, <2>2, <1>4 DEF IInv, PastCheckUncounted
  <2> QED BY <2>1, <2>2
<1> QED BY <1>3, <1>5, <1>6 DEF IInv, Books

(***************************************************************************)
(* The invariant                                                           *)
(***************************************************************************)

\* It holds when the process starts.
LEMMA InitIInv == Init => IInv
<1> SUFFICES ASSUME Init PROVE IInv
  OBVIOUS
<1>1. call \in [Thread -> Call]
  BY NewCallIsCall DEF Init
<1>2. TypeOK
  BY <1>1 DEF Init, TypeOK, Call
<1>3. TestsAreTesters /\ PastCheckUncounted
  BY NewCallIsCall DEF Init, TestsAreTesters, PastCheckUncounted
<1>4. CountersFresh /\ BackoffNeverStarts
  BY FS_EmptySet DEF Init, CountersFresh, BackoffNeverStarts
<1> QED BY <1>2, <1>3, <1>4 DEF IInv

\* The look at the connection before a request keeps it.
LEMMA CheckIInv ==
  ASSUME IInv, NEW t \in Thread, Check(t)
  PROVE  IInv'
<1>1. call[t] \in Call /\ (call[t].task = "test" => t \in Tester)
  BY DEF IInv, TypeOK, Call, TestsAreTesters
<1>2. up' \in BOOLEAN /\ booted' \in BOOLEAN
  BY DEF IInv, TypeOK, Check
<1>3. CASE state = "connected"
  <2> DEFINE c == [call[t] EXCEPT !.step = "send"]
  <2>1. c \in Call /\ c.task = call[t].task /\ c.step = "send"
    BY <1>1 DEF Call, Step
  <2>2. call' = [call EXCEPT ![t] = c] /\ UNCHANGED serviceVars
    BY <1>3 DEF Check
  <2>3. counted' = {}
    BY <1>3, <2>2 DEF IInv, CountersFresh, serviceVars
  <2> HIDE DEF c
  <2> QED BY <1>1, <1>2, <2>1, <2>2, <2>3, IdleKeepsBooks, OneCall
<1>4. CASE state # "connected"
  <2> DEFINE c == [call[t] EXCEPT !.step = "markets"]
  <2>1. c \in Call /\ c.task = call[t].task /\ c.step = "markets"
    BY <1>1 DEF Call, Step
  <2>2. /\ call' = [call EXCEPT ![t] = c] /\ failures' = 0 /\ counted' = {}
        /\ tripped' = FALSE /\ UNCHANGED <<state, recovering>>
    BY <1>4 DEF Check, Forgotten
  <2>3. recovering' \in BOOLEAN
    BY <2>2 DEF IInv, TypeOK
  <2> HIDE DEF c
  <2> QED BY <1>1, <1>2, <2>1, <2>2, <2>3, ForgettingKeepsBooks, OneCall
<1> QED BY <1>3, <1>4

\* Within an attempt that is under way, the step changes and nothing else.
LEMMA WithinAttempt ==
  ASSUME IInv, NEW t \in Thread, NEW s \in PastCheck, call[t].step \in PastCheck,
         call' = [call EXCEPT ![t].step = s],
         UNCHANGED serviceVars \/ OnSuccess,
         UNCHANGED <<up, booted>>
  PROVE  IInv'
<1> DEFINE c == [call[t] EXCEPT !.step = s]
<1>1. call[t] \in Call /\ (call[t].task = "test" => t \in Tester)
  BY DEF IInv, TypeOK, Call, TestsAreTesters
<1>2. c \in Call /\ c.task = call[t].task /\ c.step = s
  BY <1>1 DEF Call, Step, PastCheck
<1>3. call' = [call EXCEPT ![t] = c]
  OBVIOUS
<1>4. up' \in BOOLEAN /\ booted' \in BOOLEAN
  BY DEF IInv, TypeOK
<1> HIDE DEF c
<1>5. /\ Books' /\ tripped' \in BOOLEAN /\ recovering' \in BOOLEAN
      /\ counted' = {} \/ counted' = counted
  BY IdleKeepsBooks, SuccessKeepsBooks
<1> QED BY <1>1, <1>2, <1>3, <1>4, <1>5, OneCall

\* The requests of a reconnection keep it.
LEMMA ReconnectIInv ==
  ASSUME IInv, NEW t \in Thread, Markets(t) \/ Balance(t) \/ ClockDiffers(t)
  PROVE  IInv'
<1>1. CASE Markets(t)
  <2>1. PICK s \in PastCheck : call' = [call EXCEPT ![t].step = s]
    BY <1>1 DEF Markets, PastCheck
  <2> QED BY <1>1, <2>1, WithinAttempt DEF Markets, PastCheck
<1>2. CASE Balance(t)
  <2>1. "send" \in PastCheck /\ call[t].step \in PastCheck
    BY <1>2 DEF Balance, PastCheck
  <2> QED BY <1>2, <2>1, WithinAttempt DEF Balance
<1>3. CASE ClockDiffers(t)
  <2>1. "again" \in PastCheck /\ call[t].step \in PastCheck
    BY <1>3 DEF ClockDiffers, PastCheck
  <2> QED BY <1>3, <2>1, WithinAttempt DEF ClockDiffers
<1> QED BY <1>1, <1>2, <1>3

\* An answer keeps it: it ends the call, or a test goes on to its next request.
LEMMA AnsweredIInv ==
  ASSUME IInv, NEW t \in Thread, Answered(t)
  PROVE  IInv'
<1>1. call[t] \in Call /\ (call[t].task = "test" => t \in Tester)
  BY DEF IInv, TypeOK, Call, TestsAreTesters
<1>2. up' \in BOOLEAN /\ booted' \in BOOLEAN
  BY DEF IInv, TypeOK, Answered
<1>3. CASE call[t].task = "test" /\ call[t].more > 0
  <2> DEFINE c == [NewCall("test") EXCEPT !.more = 0]
  <2>1. c \in Call /\ c.task = "test" /\ c.step = "check"
    BY NewCallIsCall DEF Task
  <2>2. call' = [call EXCEPT ![t] = c] /\ UNCHANGED serviceVars
    BY <1>3 DEF Answered
  <2>3. c.step \notin PastCheck
    BY <2>1 DEF PastCheck
  <2> HIDE DEF c
  <2> QED BY <1>1, <1>2, <1>3, <2>1, <2>2, <2>3, IdleKeepsBooks, OneCall
<1>4. CASE call[t].task = "test" /\ ~(call[t].more > 0)
  <2>1. call' = [call EXCEPT ![t] = NoCall] /\ OnSuccess
    BY <1>4 DEF Answered
  <2>2. NoCall \in Call /\ NoCall.task # "test" /\ NoCall.step \notin PastCheck
    BY NewCallIsCall DEF PastCheck
  <2> QED BY <1>2, <2>1, <2>2, SuccessKeepsBooks, OneCall
<1>5. CASE call[t].task # "test"
  <2> DEFINE k == IF call[t].task = "order" THEN call[t].taken + 1 ELSE call[t].taken
             c == [call[t] EXCEPT !.step = "none", !.taken = k]
  <2>0. k \in Nat
    BY <1>1 DEF Call
  <2>2. call' = [call EXCEPT ![t] = c] /\ UNCHANGED serviceVars
    BY <1>5 DEF Answered, StepAfterAnswer
  <2> HIDE DEF k
  <2>1. c \in Call /\ c.task = call[t].task /\ c.step = "none"
    BY <1>1, <2>0 DEF Call, Step
  <2>3. c.step \notin PastCheck
    BY <2>1 DEF PastCheck
  <2> HIDE DEF c
  <2> QED BY <1>1, <1>2, <2>1, <2>2, <2>3, IdleKeepsBooks, OneCall
<1> QED BY <1>3, <1>4, <1>5

\* An error keeps it: the call tries again or ends.
LEMMA RaisedIInv ==
  ASSUME IInv, NEW t \in Thread, NEW n \in {0, 1}, call[t].step \in PastCheck, Raised(t, n)
  PROVE  IInv'
<1>1. call[t] \in Call /\ (call[t].task = "test" => t \in Tester)
  BY DEF IInv, TypeOK, Call, TestsAreTesters
<1>2. up' \in BOOLEAN /\ booted' \in BOOLEAN
  BY DEF IInv, TypeOK, Raised
<1> DEFINE next == NextStep(call[t])
<1>3. CASE next = "none" /\ call[t].task = "test"
  <2>1. call' = [call EXCEPT ![t] = NoCall] /\ OnFailure(t)
    BY <1>3 DEF Raised
  <2>2. NoCall \in Call /\ NoCall.task # "test" /\ NoCall.step = "none" /\ NoCall.step \notin PastCheck
    BY NewCallIsCall DEF PastCheck
  <2>3. t \in Tester /\ t \notin counted
    BY <1>1, <1>3 DEF IInv, PastCheckUncounted
  <2> QED BY <1>2, <2>1, <2>2, <2>3, FailureKeepsBooks, OneCall
<1>4. CASE ~(next = "none" /\ call[t].task = "test")
  <2> DEFINE a == IF next = "check" THEN call[t].attempt + 1 ELSE call[t].attempt
             c == [call[t] EXCEPT !.step = next, !.attempt = a,
                                  !.taken = @ + n, !.lost = @ + n]
  <2>0. a \in 1..Attempts /\ next \in {"check", "none"}
    BY <1>1, ConnectionAssumption DEF Call, NextStep
  <2>1. call' = [call EXCEPT ![t] = c] /\ UNCHANGED serviceVars
    BY <1>4 DEF Raised
  <2>2. c \in Call /\ c.task = call[t].task /\ c.step \in {"check", "none"}
    <3>1. call[t].taken + n \in Nat /\ call[t].lost + n \in Nat /\ next \in Step
      BY <1>1, <2>0 DEF Call, Step
    <3> HIDE DEF a, next
    <3> QED BY <1>1, <2>0, <3>1 DEF Call
  <2>3. c.step \notin PastCheck
    BY <2>2 DEF PastCheck
  <2> HIDE DEF c
  <2> QED BY <1>1, <1>2, <2>1, <2>2, <2>3, IdleKeepsBooks, OneCall
<1> QED BY <1>3, <1>4

\* A new call keeps it.
LEMMA BeginIInv ==
  ASSUME IInv, NEW t \in Thread,
         BeginTest(t) \/ \E task \in {"order", "read"} : BeginCall(t, task)
  PROVE  IInv'
<1>1. PICK task \in {"test", "order", "read"} :
        /\ call' = [call EXCEPT ![t] = NewCall(task)]
        /\ task = "test" => t \in Tester
        /\ UNCHANGED <<up, serviceVars>> /\ booted' \in BOOLEAN
  BY DEF BeginTest, BeginCall, IInv, TypeOK
<1>2. /\ NewCall(task) \in Call /\ NewCall(task).task = task
      /\ NewCall(task).step = "check"
  BY NewCallIsCall DEF Task
<1>3. up' \in BOOLEAN /\ NewCall(task).step \notin PastCheck
  BY <1>1, <1>2 DEF IInv, TypeOK, PastCheck
<1> QED BY <1>1, <1>2, <1>3, IdleKeepsBooks, OneCall

\* Every step keeps it.
LEMMA NextIInv == IInv /\ [Next]_vars => IInv'
<1> SUFFICES ASSUME IInv, [Next]_vars PROVE IInv'
  OBVIOUS
<1>1. CASE Exchange
  BY <1>1 DEF Exchange, IInv, TypeOK, TestsAreTesters, CountersFresh, PastCheckUncounted,
              BackoffNeverStarts, serviceVars
<1>2. ASSUME NEW t \in Tester, BeginTest(t) PROVE IInv'
  BY <1>2, BeginIInv DEF Thread
<1>3. ASSUME NEW t \in Trader, NEW task \in {"order", "read"}, BeginCall(t, task) PROVE IInv'
  BY <1>3, BeginIInv DEF Thread
<1>4. ASSUME NEW t \in Thread, Requests(t) \/ AnswerLost(t) \/ ClockDiffers(t) PROVE IInv'
  <2>1. CASE Check(t)
    BY <2>1, CheckIInv
  <2>2. CASE Markets(t) \/ Balance(t) \/ ClockDiffers(t)
    BY <2>2, ReconnectIInv
  <2>3. CASE Answered(t)
    BY <2>3, AnsweredIInv
  <2>4. CASE Unreachable(t)
    BY <2>4, RaisedIInv DEF Unreachable, PastCheck
  <2>5. CASE AnswerLost(t)
    BY <2>5, RaisedIInv DEF AnswerLost, PastCheck
  <2> QED BY <1>4, <2>1, <2>2, <2>3, <2>4, <2>5 DEF Requests
<1>5. CASE UNCHANGED vars
  BY <1>5 DEF vars, IInv, TypeOK, TestsAreTesters, CountersFresh, PastCheckUncounted,
              BackoffNeverStarts
<1> QED BY <1>1, <1>2, <1>3, <1>4, <1>5 DEF Next

(***************************************************************************)
(* Orders of a call that sends again                                       *)
(***************************************************************************)

\* The calls keep their type.
LEMMA CallTyped == IInv => call \in [Thread -> Call]
BY DEF IInv, TypeOK, Call

\* A step of one thread that leaves the other calls as they are.
LEMMA OneOrder ==
  ASSUME IInv, OrderTakenTwiceIsLost, NEW t \in Thread, NEW c,
         call' = [call EXCEPT ![t] = c],
         t \in Trader => /\ c.taken <= c.lost + 1
                         /\ c.taken > c.lost => c.step = "none"
  PROVE  OrderTakenTwiceIsLost'
<1> SUFFICES ASSUME NEW u \in Trader
             PROVE  /\ call'[u].taken <= call'[u].lost + 1
                    /\ call'[u].taken > call'[u].lost => call'[u].step = "none"
  BY DEF OrderTakenTwiceIsLost
<1>1. u \in Thread /\ call \in [Thread -> Call]
  BY CallTyped DEF Thread
<1>2. CASE u = t
  <2>1. call'[u] = c
    BY <1>1, <1>2
  <2>2. t \in Trader
    BY <1>2
  <2> QED BY <2>1, <2>2
<1>3. CASE u # t
  <2>1. call'[u] = call[u]
    BY <1>1, <1>3
  <2> QED BY <2>1 DEF OrderTakenTwiceIsLost
<1> QED BY <1>2, <1>3

\* Every step keeps what OrderTakenTwiceIsLost says of the traders' calls.
LEMMA NextOrder == IInv /\ OrderTakenTwiceIsLost /\ [Next]_vars => OrderTakenTwiceIsLost'
<1> SUFFICES ASSUME IInv, OrderTakenTwiceIsLost, [Next]_vars PROVE OrderTakenTwiceIsLost'
  OBVIOUS
<1>1. CASE UNCHANGED call
  BY <1>1 DEF OrderTakenTwiceIsLost
<1>2. ASSUME NEW t \in Thread, NEW task \in Task, call' = [call EXCEPT ![t] = NewCall(task)]
      PROVE  OrderTakenTwiceIsLost'
  <2>1. NewCall(task).taken = 0 /\ NewCall(task).lost = 0
    BY NewCallIsCall
  <2>2. 0 <= 0 + 1 /\ ~(0 > 0)
    OBVIOUS
  <2> QED BY <1>2, <2>1, <2>2, OneOrder
<1>3. ASSUME NEW t \in Tester, NEW c, call' = [call EXCEPT ![t] = c]
      PROVE  OrderTakenTwiceIsLost'
  BY <1>3, ConnectionAssumption, OneOrder DEF Thread
<1>4. ASSUME NEW t \in Trader, NEW s, call[t].step # "none", call' = [call EXCEPT ![t].step = s]
      PROVE  OrderTakenTwiceIsLost'
  <2> DEFINE c == [call[t] EXCEPT !.step = s]
  <2>1. call[t] \in Call
    BY CallTyped DEF Thread
  <2>2. c.taken = call[t].taken /\ c.lost = call[t].lost
    BY <2>1 DEF Call
  <2>3. ~(call[t].taken > call[t].lost) /\ call[t].taken <= call[t].lost + 1
    BY <1>4 DEF OrderTakenTwiceIsLost
  <2>4. call' = [call EXCEPT ![t] = c]
    BY <1>4
  <2> HIDE DEF c
  <2> QED BY <2>2, <2>3, <2>4, OneOrder DEF Thread
<1>5. ASSUME NEW t \in Trader, Answered(t) PROVE OrderTakenTwiceIsLost'
  <2> DEFINE k == IF call[t].task = "order" THEN call[t].taken + 1 ELSE call[t].taken
             c == [call[t] EXCEPT !.step = "none", !.taken = k]
  <2>1. call[t] \in Call /\ call[t].task # "test"
    BY CallTyped, ConnectionAssumption DEF Thread, IInv, TestsAreTesters
  <2>2. call' = [call EXCEPT ![t] = c] /\ call[t].step # "none"
    BY <1>5, <2>1 DEF Answered, StepAfterAnswer
  <2>3. k \in Nat /\ k <= call[t].taken + 1 /\ call[t].taken \in Nat /\ call[t].lost \in Nat
    BY <2>1 DEF Call
  <2>4. ~(call[t].taken > call[t].lost)
    BY <2>2 DEF OrderTakenTwiceIsLost
  <2> HIDE DEF k
  <2>5. c.taken = k /\ c.lost = call[t].lost /\ c.step = "none"
    BY <2>1 DEF Call
  <2> HIDE DEF c
  <2>6. c.taken <= c.lost + 1 /\ c.step = "none"
    BY <2>3, <2>4, <2>5
  <2>7. t \in Thread /\ call' = [call EXCEPT ![t] = c]
    BY <2>2 DEF Thread
  <2> QED BY <2>6, <2>7, OneOrder
<1>6. ASSUME NEW t \in Trader, NEW n \in {0, 1}, call[t].step # "none", Raised(t, n)
      PROVE  OrderTakenTwiceIsLost'
  <2> DEFINE next == NextStep(call[t])
             a == IF next = "check" THEN call[t].attempt + 1 ELSE call[t].attempt
             c == [call[t] EXCEPT !.step = next, !.attempt = a,
                                  !.taken = @ + n, !.lost = @ + n]
  <2>1. call[t] \in Call /\ call[t].task # "test"
    BY CallTyped, ConnectionAssumption DEF Thread, IInv, TestsAreTesters
  <2>2. call' = [call EXCEPT ![t] = c]
    BY <1>6, <2>1 DEF Raised
  <2>3. ~(call[t].taken > call[t].lost) /\ call[t].taken \in Nat /\ call[t].lost \in Nat
    BY <1>6, <2>1 DEF OrderTakenTwiceIsLost, Call
  <2> HIDE DEF next, a
  <2>4. c.taken = call[t].taken + n /\ c.lost = call[t].lost + n
    BY <2>1 DEF Call
  <2> HIDE DEF c
  <2>5. ~(c.taken > c.lost) /\ c.taken <= c.lost + 1
    BY <2>3, <2>4
  <2> QED BY <2>2, <2>5, OneOrder DEF Thread
<1>7. ASSUME NEW t \in Thread, Requests(t) \/ AnswerLost(t) \/ ClockDiffers(t)
      PROVE  OrderTakenTwiceIsLost'
  <2>1. CASE t \in Tester
    <3>1. CASE Check(t) \/ Markets(t) \/ Balance(t) \/ ClockDiffers(t)
      BY <2>1, <1>3, <3>1 DEF Check, Markets, Balance, ClockDiffers
    <3>2. CASE Answered(t)
      BY <2>1, <1>3, <3>2 DEF Answered
    <3>3. CASE Unreachable(t) \/ AnswerLost(t)
      BY <2>1, <1>3, <3>3 DEF Unreachable, AnswerLost, Raised
    <3> QED BY <1>7, <3>1, <3>2, <3>3 DEF Requests
  <2>2. CASE t \in Trader
    <3>1. CASE Check(t) \/ Markets(t) \/ Balance(t) \/ ClockDiffers(t)
      BY <2>2, <3>1, <1>4 DEF Check, Markets, Balance, ClockDiffers
    <3>2. CASE Answered(t)
      BY <2>2, <3>2, <1>5
    <3>3. CASE Unreachable(t) \/ AnswerLost(t)
      BY <2>2, <3>3, <1>6 DEF Unreachable, AnswerLost
    <3> QED BY <1>7, <3>1, <3>2, <3>3 DEF Requests
  <2> QED BY <2>1, <2>2 DEF Thread
<1>8. CASE Exchange \/ UNCHANGED vars
  BY <1>1, <1>8 DEF Exchange, vars
<1>9. ASSUME NEW t \in Tester, BeginTest(t) PROVE OrderTakenTwiceIsLost'
  BY <1>2, <1>9 DEF BeginTest, Thread, Task
<1>10. ASSUME NEW t \in Trader, NEW task \in {"order", "read"}, BeginCall(t, task)
       PROVE  OrderTakenTwiceIsLost'
  BY <1>2, <1>10 DEF BeginCall, Thread, Task
<1> QED BY <1>7, <1>8, <1>9, <1>10 DEF Next

(***************************************************************************)
(* Theorems                                                                *)
(***************************************************************************)

\* The variables keep their types: no call makes more than Attempts attempts.
THEOREM TypeCorrect == Spec => []TypeOK
<1>1. IInv => TypeOK
  BY DEF IInv
<1> QED BY InitIInv, NextIInv, <1>1, PTL DEF Spec

\* However many threads trade, however often a request is attempted and however
\* long the exchange is away, the failures counted in a row stay below the
\* threshold: neither the recovery thread nor the breaker ever comes into play.
THEOREM RecoveryUnreachable == Spec => []BackoffNeverStarts
<1>1. IInv => BackoffNeverStarts
  BY DEF IInv
<1> QED BY InitIInv, NextIInv, <1>1, PTL DEF Spec

\* Whatever is retried and reconnected, a call that places an order has it taken
\* at most once more than answers were lost, and sends nothing after an answer.
THEOREM OneOrderPerAnswer == Spec => []OrderTakenTwiceIsLost
<1>1. Init => OrderTakenTwiceIsLost
  BY NewCallIsCall DEF Init, OrderTakenTwiceIsLost, Thread
<1> QED BY InitIInv, NextIInv, <1>1, NextOrder, PTL DEF Spec

=============================================================================
