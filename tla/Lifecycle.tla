---------------------------- MODULE Lifecycle -----------------------------
(***************************************************************************)
(* How the program starts and how it ends: main.py, the shutdown           *)
(* coordinator (services/shutdown_coordinator.py), and what the engine's   *)
(* start and stop do to the threads.                                       *)
(*                                                                         *)
(* The main thread sets everything up, starts the engine and then waits    *)
(* for the coordinator's event, looking after the engine now and then.     *)
(* Whoever wants the program to end makes a request; the first one counts. *)
(* The main thread then leaves its loop, cleans up, and returns to the     *)
(* interpreter, which waits until every thread that is no daemon has       *)
(* ended.  An emergency request skips the cleaning up.                     *)
(*                                                                         *)
(* A signal is handled by the main thread itself, between two of its own   *)
(* steps, so inside request_shutdown and inside Event.wait as well.  The   *)
(* coordinator's lock is reentrant and does not keep the handler out; the  *)
(* lock inside threading.Event is not, and a handler that needs it while   *)
(* the main thread holds it waits for ever.  Other threads hold either     *)
(* lock only in passing and are never interrupted, so that only what the   *)
(* main thread holds is modelled.                                          *)
(*                                                                         *)
(* The coordinator is configured as main.py configures it: the heartbeat   *)
(* monitor warns and requests nothing.                                     *)
(***************************************************************************)
EXTENDS Naturals

CONSTANTS
  MaxFailures,  \* max_heartbeat_failures
  MaxSignals    \* bound: signals that arrive

ASSUME LifecycleAssumption == MaxFailures \in Nat \ {0} /\ MaxSignals \in Nat

VARIABLES
  main,        \* where the main thread is
  asks,        \* the kind of request the main thread itself is making
  failures,    \* heartbeat_failures
  stuck,       \* the main thread waits, in its signal handler, for itself
  holds,       \* the main thread holds the lock of the shutdown event
  flag,        \* the shutdown event is set
  inProgress,  \* ShutdownCoordinator._shutdown_in_progress
  request,     \* the kind of ShutdownCoordinator._shutdown_request
  alive,       \* the threads, daemons apart, that run
  running,     \* TradingEngine.running
  stopFlag,    \* _stop_flag of the Telegram command server
  writerStop,  \* the state writers were shut down, with a last save
  complete,    \* ShutdownCoordinator._shutdown_complete
  gone,        \* the process has ended
  signals

vars == <<main, asks, failures, stuck, holds, flag, inProgress, request, alive, running,
          stopFlag, writerStop, complete, gone, signals>>
coordinator == <<flag, inProgress, request>>
engine == <<running, stopFlag, writerStop>>

Thread == {"logger", "monitor", "engine", "feed", "writer", "dashboard", "telegram"}
Kind == {"none", "orderly", "emergency"}
Setup == {"setup", "built", "ready"}
Asking == {"asking", "granting", "granted", "setting", "signalling"}
Place == Setup \cup Asking
         \cup {"loop", "waiting", "blocked", "woken", "beat",
               "closing", "cleaning", "stopping", "joining", "left"}

TypeOK ==
  /\ main \in Place
  /\ asks \in Kind
  /\ failures \in 0..MaxFailures
  /\ stuck \in BOOLEAN /\ holds \in BOOLEAN
  /\ flag \in BOOLEAN /\ inProgress \in BOOLEAN
  /\ request \in Kind
  /\ alive \subseteq Thread
  /\ running \in BOOLEAN /\ stopFlag \in BOOLEAN /\ writerStop \in BOOLEAN
  /\ complete \in BOOLEAN /\ gone \in BOOLEAN
  /\ signals \in 0..MaxSignals
  /\ holds <=> main \in {"waiting", "woken", "signalling"}
  /\ flag => inProgress

\* The coordinator exists, and its heartbeat logger runs.
Init ==
  /\ main = "setup"
  /\ asks = "none"
  /\ failures = 0
  /\ stuck = FALSE /\ holds = FALSE
  /\ flag = FALSE /\ inProgress = FALSE
  /\ request = "none"
  /\ alive = {"logger"}
  /\ running = FALSE /\ stopFlag = FALSE /\ writerStop = FALSE
  /\ complete = FALSE /\ gone = FALSE
  /\ signals = 0

Main(from) == main = from /\ ~stuck

(***************************************************************************)
(* Setting up                                                              *)
(***************************************************************************)

\* main() returns, for want of coins or of budget, or an exception leaves it:
\* no request is made.
SetupFails ==
  /\ Main("setup") \/ Main("built")
  /\ main' = "left"
  /\ UNCHANGED <<asks, failures, stuck, holds, coordinator, alive, engine, complete, gone, signals>>

\* The engine is constructed, and starts its state writers.
BuildEngine ==
  /\ Main("setup")
  /\ main' = "built"
  /\ alive' = alive \cup {"writer"}
  /\ UNCHANGED <<asks, failures, stuck, holds, coordinator, engine, complete, gone, signals>>

\* The Telegram command server, if configured, and the dashboard, if it can.
StartServers ==
  /\ Main("built")
  /\ main' = "ready"
  /\ \E started \in SUBSET {"telegram", "dashboard"} : alive' = alive \cup started
  /\ UNCHANGED <<asks, failures, stuck, holds, coordinator, engine, complete, gone, signals>>

\* TradingEngine.start, and the heartbeat monitor.
StartEngine ==
  /\ Main("ready")
  /\ main' = "loop"
  /\ running' = TRUE
  /\ alive' = alive \cup {"engine", "feed", "monitor"}
  /\ UNCHANGED <<asks, failures, stuck, holds, coordinator, stopFlag, writerStop, complete, gone, signals>>

\* The engine is marked as running and then a thread cannot be started; the
\* exception handler of main() asks for an emergency shutdown.
StartFails ==
  /\ Main("ready")
  /\ main' = "asking"
  /\ asks' = "emergency"
  /\ running' = TRUE
  /\ UNCHANGED <<failures, stuck, holds, coordinator, alive, stopFlag, writerStop, complete, gone, signals>>

(***************************************************************************)
(* The main loop.  Event.wait takes the event's lock, gives it up while it *)
(* is blocked, and takes it again before it returns.                       *)
(***************************************************************************)

Loop ==
  /\ Main("loop")
  /\ main' = IF flag THEN "closing" ELSE "waiting"
  /\ holds' = ~flag
  /\ UNCHANGED <<asks, failures, stuck, coordinator, alive, engine, complete, gone, signals>>

Wait ==
  /\ Main("waiting")
  /\ main' = IF flag THEN "closing" ELSE "blocked"
  /\ holds' = FALSE
  /\ UNCHANGED <<asks, failures, stuck, coordinator, alive, engine, complete, gone, signals>>

Wake ==
  /\ Main("blocked")
  /\ main' = "woken"
  /\ holds' = TRUE
  /\ UNCHANGED <<asks, failures, stuck, coordinator, alive, engine, complete, gone, signals>>

\* What wait returns is whether it was notified: an event that is set just after
\* the time is up is seen in the next turn only.
Return ==
  /\ Main("woken")
  /\ \/ flag /\ main' = "closing"
     \/ main' \in {"beat", "loop"}
  /\ holds' = FALSE
  /\ UNCHANGED <<asks, failures, stuck, coordinator, alive, engine, complete, gone, signals>>

\* The minute's heartbeat looks whether the engine is running.
Beat ==
  /\ Main("beat")
  /\ IF running
     THEN main' = "loop" /\ failures' = 0 /\ UNCHANGED asks
     ELSE main' = "asking" /\ asks' = "orderly" /\ UNCHANGED failures
  /\ UNCHANGED <<stuck, holds, coordinator, alive, engine, complete, gone, signals>>

\* Mutant: one failure more is forgiven.
TooManyMutated(n) == n > MaxFailures

TooMany(n) == n >= MaxFailures

\* It raises; too many of these in a row are an emergency.
BeatFails ==
  /\ Main("beat")
  /\ failures' = failures + 1
  /\ IF TooMany(failures')
     THEN main' = "asking" /\ asks' = "emergency"
     ELSE main' = "loop" /\ UNCHANGED asks
  /\ UNCHANGED <<stuck, holds, coordinator, alive, engine, complete, gone, signals>>

(***************************************************************************)
(* Requests                                                                *)
(***************************************************************************)

\* request_shutdown, called by the main thread: it looks whether a shutdown is
\* in progress, notes the request, notes that one is in progress, and sets the
\* event.
LookWhetherInProgress ==
  /\ Main("asking")
  /\ main' = IF inProgress THEN "closing" ELSE "granting"
  /\ UNCHANGED <<asks, failures, stuck, holds, coordinator, alive, engine, complete, gone, signals>>

NoteRequest ==
  /\ Main("granting")
  /\ main' = "granted"
  /\ request' = asks
  /\ UNCHANGED <<asks, failures, stuck, holds, flag, inProgress, alive, engine, complete, gone, signals>>

NoteInProgress ==
  /\ Main("granted")
  /\ main' = "setting"
  /\ inProgress' = TRUE
  /\ UNCHANGED <<asks, failures, stuck, holds, flag, request, alive, engine, complete, gone, signals>>

LockEvent ==
  /\ Main("setting")
  /\ main' = "signalling"
  /\ holds' = TRUE
  /\ UNCHANGED <<asks, failures, stuck, coordinator, alive, engine, complete, gone, signals>>

SetEvent ==
  /\ Main("signalling")
  /\ main' = "closing"
  /\ holds' = FALSE
  /\ flag' = TRUE
  /\ UNCHANGED <<asks, failures, stuck, inProgress, request, alive, engine, complete, gone, signals>>

\* SIGINT or SIGTERM: the handler runs the whole of request_shutdown wherever
\* the main thread is, and never returns if that holds the event's lock.
Signal ==
  /\ ~stuck /\ ~gone
  /\ signals < MaxSignals
  /\ signals' = signals + 1
  /\ IF inProgress
     THEN UNCHANGED <<coordinator, stuck>>
     ELSE /\ request' = "orderly"
          /\ inProgress' = TRUE
          /\ flag' = ~holds
          /\ stuck' = holds
  /\ UNCHANGED <<main, asks, failures, holds, alive, engine, complete, gone>>

(***************************************************************************)
(* Closing down                                                            *)
(***************************************************************************)

\* execute_graceful_shutdown: an emergency is over at once.
ExecuteShutdown ==
  /\ Main("closing")
  /\ main' = IF request = "emergency" THEN "left" ELSE "cleaning"
  /\ complete' = (request = "emergency")
  /\ UNCHANGED <<asks, failures, stuck, holds, coordinator, alive, engine, gone, signals>>

\* The callbacks, among them the one that stops the Telegram server.  It waits
\* for that thread a while, as all the joins below do, and goes on regardless.
CleanupCallbacks ==
  /\ Main("cleaning")
  /\ main' = "stopping"
  /\ stopFlag' = TRUE
  /\ UNCHANGED <<asks, failures, stuck, holds, coordinator, alive, running, writerStop, complete, gone, signals>>

\* TradingEngine.stop, called as a component: the loops are told to end ...
StopEngine ==
  /\ Main("stopping")
  /\ main' = "joining"
  /\ running' = FALSE
  /\ UNCHANGED <<asks, failures, stuck, holds, coordinator, alive, stopFlag, writerStop, complete, gone, signals>>

\* Mutant: the state is saved and the writers' threads are left alone.
WritersShutDownMutated == FALSE

\* ... and the state writers save what there is and end.
WritersShutDown == TRUE

PersistState ==
  /\ Main("joining")
  /\ main' = "left"
  /\ writerStop' = WritersShutDown
  /\ complete' = TRUE
  /\ UNCHANGED <<asks, failures, stuck, holds, coordinator, alive, running, stopFlag, gone, signals>>

\* The loop of a thread ends once it sees that it is to end.
MayEnd(t) ==
  CASE t = "logger" -> flag
    [] t = "monitor" -> inProgress
    [] t = "dashboard" -> flag
    [] t = "engine" -> ~running
    [] t = "feed" -> ~running
    [] t = "writer" -> writerStop
    [] t = "telegram" -> stopFlag

End(t) ==
  /\ t \in alive
  /\ MayEnd(t)
  /\ alive' = alive \ {t}
  /\ UNCHANGED <<main, asks, failures, stuck, holds, coordinator, engine, complete, gone, signals>>

\* Mutant: the engine's threads are daemons, and so are the writers'.
AwaitedMutated == alive \ {"engine", "feed", "writer"}

\* The threads the interpreter waits for: none of these is a daemon.
Awaited == alive

\* The main thread has left main(): the interpreter waits and the process ends.
ProcessEnds ==
  /\ Main("left")
  /\ Awaited = {}
  /\ ~gone
  /\ gone' = TRUE
  /\ UNCHANGED <<main, asks, failures, stuck, holds, coordinator, alive, engine, complete, signals>>

(***************************************************************************)
(* Specification                                                           *)
(***************************************************************************)

MainStep ==
  \/ SetupFails \/ BuildEngine \/ StartServers \/ StartEngine \/ StartFails
  \/ Loop \/ Wait \/ Wake \/ Return \/ Beat \/ BeatFails
  \/ LookWhetherInProgress \/ NoteRequest \/ NoteInProgress \/ LockEvent \/ SetEvent
  \/ ExecuteShutdown \/ CleanupCallbacks \/ StopEngine \/ PersistState
  \/ ProcessEnds

Next == MainStep \/ Signal \/ \E t \in Thread : End(t)

Spec == Init /\ [][Next]_vars

\* The main thread runs on while it is not stuck (its waits and joins have
\* timeouts), and the other threads come round to look at their conditions.
Fairness == WF_vars(MainStep) /\ \A t \in Thread : WF_vars(End(t))

FairSpec == Spec /\ Fairness

(***************************************************************************)
(* Properties                                                              *)
(***************************************************************************)

\* The main thread has left main() without any cleaning up.
Aborted == main = "left" /\ ~complete

\* A shutdown that was requested comes to its end, whatever the threads are
\* doing, with three exceptions: the signal hit the main thread while it held the
\* event's lock, an emergency request was the one that counted, or the program
\* never came as far as its main loop.
OrderlyEnds == inProgress ~> (gone \/ stuck \/ request = "emergency" \/ Aborted)

\* The process does not end before the engine's state is saved: the engine and
\* the writers hold it up, in an emergency for good.
EndedMeansSaved ==
  gone /\ complete => writerStop /\ ~running

\* The code does not have this property (README, 4.3).
\* What "force immediate shutdown" promises: an emergency ends the program
\* (_force_shutdown).
EmergencyEnds == inProgress /\ request = "emergency" ~> gone

=============================================================================
