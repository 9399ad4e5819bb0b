---------------------------- MODULE Connection ----------------------------
(***************************************************************************)
(* The exchange adapter (adapters/exchange.py) and the recovery service it *)
(* owns (services/connection_recovery.py).                                 *)
(*                                                                         *)
(* Every call of the adapter goes through _retry_request, which makes      *)
(* several attempts and, before each one, asks the recovery service for a  *)
(* reconnection when the connection is not known to be good.  The recovery *)
(* service tests the connection, once when it is set up and then from a    *)
(* monitor thread, by calling the adapter.  It counts failed tests: enough *)
(* of them in a row are to start a recovery thread that tries again with   *)
(* growing delays, and more of them to open a circuit breaker.             *)
(*                                                                         *)
(* Tester are the threads that test: the one that sets the adapter up, and *)
(* the monitor.  Trader are the threads that place orders or read.  The    *)
(* exchange is up or down; an order may also be taken and its answer lost, *)
(* and a call may be turned away because the clocks differ, upon which the *)
(* adapter sets its clock and tries once more at once.                     *)
(*                                                                         *)
(* What the recovery thread and the monitor do while recovering or while   *)
(* the breaker is open is not modelled: BackoffNeverStarts says why.       *)
(***************************************************************************)
EXTENDS Naturals, FiniteSets

CONSTANTS
  Boot,             \* the thread that constructs the adapter
  Monitor,          \* ConnectionHealthMonitor
  Trader,           \* threads that call the adapter to trade or to read
  Attempts,         \* length of _retry_backoff
  Threshold,        \* consecutive_failures_threshold
  BreakerThreshold  \* circuit_breaker_failure_threshold

Tester == {Boot, Monitor}
Thread == Tester \cup Trader

ASSUME ConnectionAssumption ==
  /\ Boot # Monitor
  /\ Tester \cap Trader = {}
  /\ Attempts \in Nat \ {0}
  /\ Threshold \in Nat /\ Threshold > 2
  /\ BreakerThreshold \in Nat /\ BreakerThreshold >= Threshold

VARIABLES
  up,          \* whether the exchange can be reached
  state,       \* ConnectionRecoveryService._state
  failures,    \* _consecutive_failures, and _circuit_breaker_failures with it
  tripped,     \* _circuit_breaker_open_until was set
  recovering,  \* _recovery_thread was started
  call,        \* the adapter call each thread is in
  booted,      \* the test of start_monitoring was made
  counted      \* observer: testers whose last failure the counter still holds

vars == <<up, state, failures, tripped, recovering, call, booted, counted>>
serviceVars == <<state, failures, tripped, recovering, counted>>

(***************************************************************************)
(* State.  A call is what it is for, the attempt it is at, the step within *)
(* the attempt, and for a test how many health checks come after this one. *)
(* taken and lost count the orders the exchange took from this call and    *)
(* those of them whose answer never came.                                  *)
(***************************************************************************)

NoCall == [task |-> "none", step |-> "none", attempt |-> 1, more |-> 0, taken |-> 0, lost |-> 0]

NewCall(task) ==
  [NoCall EXCEPT !.task = task, !.step = "check", !.more = IF task = "test" THEN 1 ELSE 0]

Task == {"none", "test", "order", "read"}
Step == {"none", "check", "markets", "balance", "send", "again"}

TypeOK ==
  /\ up \in BOOLEAN
  /\ state \in {"connected", "disconnected", "failed"}
  /\ failures \in Nat
  /\ tripped \in BOOLEAN
  /\ recovering \in BOOLEAN
  /\ call \in [Thread -> [task : Task, step : Step, attempt : 1..Attempts, more : 0..1,
                          taken : Nat, lost : Nat]]
  /\ booted \in BOOLEAN
  /\ counted \subseteq Tester

Init ==
  /\ up \in BOOLEAN
  /\ state = "disconnected"
  /\ failures = 0
  /\ tripped = FALSE
  /\ recovering = FALSE
  /\ call = [t \in Thread |-> NoCall]
  /\ booted = FALSE
  /\ counted = {}

\* The exchange comes and goes.
Exchange ==
  /\ up' = ~up
  /\ UNCHANGED <<serviceVars, call, booted>>

(***************************************************************************)
(* The recovery service's bookkeeping, each under _state_lock              *)
(***************************************************************************)

\* _on_connection_success
OnSuccess ==
  /\ state' = "connected"
  /\ failures' = 0
  /\ counted' = {}
  /\ UNCHANGED <<tripped, recovering>>

\* The state after the n-th failed test in a row.
StateAfter(n) == IF n >= Threshold THEN "failed" ELSE "disconnected"

\* _on_connection_failure: the breaker, the state, and the recovery thread.
OnFailure(t) ==
  LET n == failures + 1 IN
  /\ failures' = n
  /\ tripped' = (tripped \/ n >= BreakerThreshold)
  /\ state' = StateAfter(n)
  /\ recovering' = (recovering \/ n >= Threshold)
  /\ counted' = counted \cup {t}

\* Mutant: a forced reconnection leaves the counters alone.
ForgottenMutated == failures

\* force_reconnect sets the counters to zero before it tries anything.
Forgotten == 0

(***************************************************************************)
(* Calls                                                                   *)
(***************************************************************************)

\* Mutant: the monitor waits for somebody else to reconnect.
BreakerClosedMutated == ~tripped /\ (booted => state = "connected")

\* The monitor tests unless the breaker is open (or a recovery under way).
BreakerClosed == ~tripped

\* _test_connection, unless the breaker is open: start_monitoring's, once, and
\* then the monitor's, time and again.
BeginTest(t) ==
  /\ t \in Tester
  /\ call[t] = NoCall
  /\ (t = Boot) = ~booted
  /\ BreakerClosed
  /\ booted' = TRUE
  /\ call' = [call EXCEPT ![t] = NewCall("test")]
  /\ UNCHANGED <<up, serviceVars>>

\* A trading thread calls the adapter, which exists once it is set up.
BeginCall(t, task) ==
  /\ t \in Trader
  /\ call[t].step = "none"
  /\ booted
  /\ call[Boot] = NoCall
  /\ call' = [call EXCEPT ![t] = NewCall(task)]
  /\ UNCHANGED <<up, serviceVars, booted>>

\* _retry_request looks at the state of the connection before the attempt.
\* One that is not good is reconnected first, which forgets the failures.
Check(t) ==
  /\ call[t].step = "check"
  /\ IF state = "connected"
     THEN /\ call' = [call EXCEPT ![t].step = "send"]
          /\ UNCHANGED serviceVars
     ELSE /\ call' = [call EXCEPT ![t].step = "markets"]
          /\ failures' = Forgotten
          /\ counted' = {}
          /\ tripped' = FALSE
          /\ UNCHANGED <<state, recovering>>
  /\ UNCHANGED <<up, booted>>

\* _attempt_recovery loads the markets and reads the balance, with attempts of
\* their own that do not reconnect in turn.  Whatever comes of it, the request
\* is made.
Markets(t) ==
  /\ call[t].step = "markets"
  /\ call' = [call EXCEPT ![t].step = IF up THEN "balance" ELSE "send"]
  /\ UNCHANGED <<up, serviceVars, booted>>

Balance(t) ==
  /\ call[t].step = "balance"
  /\ call' = [call EXCEPT ![t].step = "send"]
  /\ IF up THEN OnSuccess ELSE UNCHANGED serviceVars
  /\ UNCHANGED <<up, booted>>

\* Mutant: the loop over the attempts goes on after a success.
StepAfterAnswerMutated(c) == "send"

\* An answer ends the call.
StepAfterAnswer(c) == "none"

\* The request went through: a test goes on to its next check or has passed,
\* any other call returns.  The first check of a test asks for the markets,
\* which the exchange client may have from before.
Answered(t) ==
  /\ up \/ (call[t].task = "test" /\ call[t].more > 0)
  /\ call[t].step \in {"send", "again"}
  /\ IF call[t].task = "test"
     THEN IF call[t].more > 0
          THEN /\ call' = [call EXCEPT ![t] = [NewCall("test") EXCEPT !.more = 0]]
               /\ UNCHANGED serviceVars
          ELSE /\ call' = [call EXCEPT ![t] = NoCall]
               /\ OnSuccess
     ELSE /\ call' = [call EXCEPT ![t].step = StepAfterAnswer(call[t]),
                                  ![t].taken = IF call[t].task = "order" THEN @ + 1 ELSE @]
          /\ UNCHANGED serviceVars
  /\ UNCHANGED <<up, booted>>

\* Mutant: one attempt too many.
NextStepMutated(c) == IF c.attempt <= Attempts THEN "check" ELSE "none"

\* After an attempt that raised: the next one, or nothing more.
NextStep(c) == IF c.attempt < Attempts THEN "check" ELSE "none"

\* The attempt raises, having reached the exchange or not.  The last one ends
\* the call, and fails the test it belonged to.
Raised(t, taken) ==
  LET c == call[t]
      next == NextStep(c) IN
  /\ IF next = "none" /\ c.task = "test"
     THEN /\ call' = [call EXCEPT ![t] = NoCall]
          /\ OnFailure(t)
     ELSE /\ call' = [call EXCEPT ![t] =
                        [c EXCEPT !.step = next,
                                  !.attempt = IF next = "check" THEN @ + 1 ELSE @,
                                  !.taken = @ + taken, !.lost = @ + taken]]
          /\ UNCHANGED serviceVars
  /\ UNCHANGED <<up, booted>>

Unreachable(t) ==
  /\ ~up
  /\ call[t].step \in {"send", "again"}
  /\ Raised(t, 0)

\* The exchange takes the order and the answer is lost.
AnswerLost(t) ==
  /\ up
  /\ call[t].step \in {"send", "again"}
  /\ call[t].task = "order"
  /\ Raised(t, 1)

\* The exchange turns the call away because of its time stamp: the adapter sets
\* its clock and makes the request again, as part of the same attempt.
ClockDiffers(t) ==
  /\ up
  /\ t \in Trader
  /\ call[t].step = "send"
  /\ call' = [call EXCEPT ![t].step = "again"]
  /\ UNCHANGED <<up, serviceVars, booted>>

(***************************************************************************)
(* Specification                                                           *)
(***************************************************************************)

Requests(t) ==
  Check(t) \/ Markets(t) \/ Balance(t) \/ Answered(t) \/ Unreachable(t)

Next ==
  \/ Exchange
  \/ \E t \in Tester : BeginTest(t)
  \/ \E t \in Trader, task \in {"order", "read"} : BeginCall(t, task)
  \/ \E t \in Thread : Requests(t) \/ AnswerLost(t) \/ ClockDiffers(t)

Spec == Init /\ [][Next]_vars

\* The thread that sets the adapter up and the monitor go on; calls end, as the
\* exchange client runs them with a timeout.
Fairness ==
  \A t \in Tester : WF_vars(BeginTest(t) \/ Requests(t))

FairSpec == Spec /\ Fairness

(***************************************************************************)
(* Properties                                                              *)
(***************************************************************************)

\* The failures in a row are those of different testers: whoever tests a second
\* time has a good connection or has had the counters set to zero by its own
\* calls.  So they never reach the thresholds, however long an outage lasts and
\* however the threads interleave: no recovery with growing delays ever starts,
\* and the breaker never opens.
BackoffNeverStarts ==
  /\ failures <= Cardinality(counted)
  /\ ~recovering
  /\ ~tripped
  /\ state # "failed"

\* The state follows the exchange: once the exchange is back for good the
\* connection is and stays good, and once it is gone for good, not.
StateFollowsExchange ==
  /\ <>[]up => <>[](state = "connected")
  /\ <>[]~up => <>[](state # "connected")

\* All attempts of a call that places an order send the same order, and at most
\* one of them is taken unless an answer was lost: nothing is sent again after
\* an answer, and no reconnection in between makes it be.
OrderTakenTwiceIsLost ==
  \A t \in Trader :
    /\ call[t].taken <= call[t].lost + 1
    /\ call[t].taken > call[t].lost => call[t].step = "none"

=============================================================================
