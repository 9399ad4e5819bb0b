----------------------------- MODULE StateWriter -----------------------------
(***************************************************************************)
(* Persistence of the pending buy intents: the engine's calls of           *)
(* DebouncedStateWriter (core/state_writer.py), its writer thread, and     *)
(* TradingEngine.stop.                                                     *)
(*                                                                         *)
(* The engine hands the writer its own pending_buy_intents dictionary, not *)
(* a copy, and goes on changing it while json.dump iterates over it under  *)
(* a lock the trading thread takes only to report a change.                *)
(***************************************************************************)
EXTENDS Naturals, FiniteSets

CONSTANTS Intent, \* intent ids; every intent is new once
          Faults  \* what goes wrong in this instance

ASSUME WriterAssumption == /\ IsFiniteSet(Intent)
                           /\ Faults \subseteq {"crash", "disk", "slow_stop"}

VARIABLES
  live,    \* the keys of TradingEngine.pending_buy_intents
  fresh,   \* intents that are still to come
  trading, \* the trading thread: "idle", "changed" (update still to call), "ended"
  dirty,   \* DebouncedStateWriter._dirty
  updated, \* update was called: the writer's state is live itself
  writer,  \* the writer thread: "waiting", "writing", "ended"
  dump,    \* the write in progress: its purpose, the keys dumped, the size expected
  stop,    \* how far TradingEngine.stop has come
  file,    \* the keys in the state file of this process
  past,    \* history: every value live has had in this process
  failed,  \* history: the last write failed at the disk
  overran  \* history: stop went on although a thread had not ended in time

dictionary  == <<live, fresh, trading, past>>
history == <<past, failed, overran>>
writerVars == <<live, fresh, trading, dirty, updated, writer, dump, stop, file, history>>

NoDump == [for |-> "nothing", seen |-> {}, size |-> 0]

\* Every variable holds values of its type, and no intent is new twice.
WriterTypeOK ==
  /\ live \subseteq Intent /\ fresh \subseteq Intent \ live
  /\ trading \in {"idle", "changed", "ended"}
  /\ dirty \in BOOLEAN /\ updated \in BOOLEAN
  /\ writer \in {"waiting", "writing", "ended"}
  /\ dump \in [for : {"nothing", "tick", "final", "shutdown"},
               seen : SUBSET Intent, size : 0..Cardinality(Intent)]
  /\ stop \in {"running", "joining", "persist", "shutdown", "flush", "done"}
  /\ file \subseteq Intent
  /\ past \subseteq SUBSET Intent
  /\ failed \in BOOLEAN /\ overran \in BOOLEAN

WriterInit ==
  /\ live = {} /\ fresh = Intent /\ trading = "idle"
  /\ dirty = FALSE /\ updated = FALSE
  /\ writer = "waiting" /\ dump = NoDump
  /\ stop = "running"
  /\ file = {}
  /\ past = {{}} /\ failed = FALSE /\ overran = FALSE

\* The lock is held for as long as a write lasts, otherwise only within a step.
Unlocked == dump = NoDump

-----------------------------------------------------------------------------
(***************************************************************************)
(* The trading thread.                                                     *)
(***************************************************************************)

\* Mutant: an id comes back after it was cleared.
ChangeReusesId ==
  /\ trading = "idle"
  /\ \E i \in Intent : live' \in {live \cup {i}, live \ {i}}
  /\ trading' = "changed"
  /\ past' = past \cup {live'}
  /\ UNCHANGED <<fresh, dirty, updated, writer, dump, stop, file, failed, overran>>

\* A buy registers its intent; clear_intent or handle_router_fill pops one, the
\* latter going on even if it is not there.
Change ==
  /\ trading = "idle"
  /\ \/ \E i \in fresh : live' = live \cup {i} /\ fresh' = fresh \ {i}
     \/ \E i \in Intent : live' = live \ {i} /\ UNCHANGED fresh
  /\ trading' = "changed"
  /\ past' = past \cup {live'}
  /\ UNCHANGED <<dirty, updated, writer, dump, stop, file, failed, overran>>

\* Mutant: update does not take the lock.
UpdateUnlocked ==
  /\ trading = "changed"
  /\ trading' = "idle"
  /\ dirty' = TRUE /\ updated' = TRUE
  /\ UNCHANGED <<live, fresh, writer, dump, stop, file, history>>

\* _persist_intent_state, after every change: update.
Update ==
  /\ trading = "changed"
  /\ Unlocked
  /\ trading' = "idle"
  /\ dirty' = TRUE /\ updated' = TRUE
  /\ UNCHANGED <<live, fresh, writer, dump, stop, file, history>>

\* The main loop sees that running was cleared.
TradingEnds ==
  /\ trading = "idle" /\ stop # "running"
  /\ trading' = "ended"
  /\ UNCHANGED <<live, fresh, dirty, updated, writer, dump, stop, file, history>>

-----------------------------------------------------------------------------
(***************************************************************************)
(* The writer thread and _write_state.                                     *)
(***************************************************************************)
StartDump(purpose) == dump' = [for |-> purpose, seen |-> {}, size |-> Cardinality(live)]

\* Mutant: the flag is cleared and nothing written.
TickForgets ==
  /\ writer = "waiting" /\ stop \in {"running", "joining", "persist"}
  /\ dirty /\ Unlocked
  /\ dirty' = FALSE
  /\ UNCHANGED <<dictionary, updated, writer, dump, stop, file, failed, overran>>

\* The interval is over and something changed.
Tick ==
  /\ writer = "waiting" /\ stop \in {"running", "joining", "persist"}
  /\ dirty /\ Unlocked
  /\ StartDump("tick")
  /\ writer' = "writing"
  /\ UNCHANGED <<dictionary, dirty, updated, stop, file, failed, overran>>

\* The shutdown flag is set: final flush, if needed.
LeaveLoop ==
  /\ writer = "waiting" /\ stop \in {"shutdown", "flush", "done"}
  /\ Unlocked
  /\ IF dirty
     THEN StartDump("final") /\ writer' = "writing"
     ELSE writer' = "ended" /\ UNCHANGED dump
  /\ UNCHANGED <<dictionary, dirty, updated, stop, file, failed, overran>>

\* What follows _write_state, whether it succeeded or not: only the loop itself
\* clears the dirty flag.
Written ==
  /\ dump' = NoDump
  /\ dirty' = IF dump.for = "tick" THEN FALSE ELSE dirty
  /\ writer' = CASE dump.for = "tick"  -> "waiting"
                 [] dump.for = "final" -> "ended"
                 [] OTHER              -> writer
  /\ stop' = IF dump.for = "shutdown" THEN "done" ELSE stop

\* A dictionary iterator refuses to go on when the size has changed.
SameSize == Cardinality(live) = dump.size

DumpKey ==
  /\ ~Unlocked /\ SameSize
  /\ \E i \in live \ dump.seen : dump' = [dump EXCEPT !.seen = @ \cup {i}]
  /\ UNCHANGED <<dictionary, dirty, updated, writer, stop, file, failed, overran>>

\* All is dumped, and the temporary file replaces the old one.
DumpDone ==
  /\ ~Unlocked /\ SameSize /\ live \subseteq dump.seen
  /\ file' = dump.seen
  /\ failed' = FALSE
  /\ Written
  /\ UNCHANGED <<dictionary, updated, overran>>

\* The error is counted and logged, and the old file stays.
DumpFails ==
  /\ ~Unlocked
  /\ \/ ~SameSize /\ UNCHANGED failed
     \/ "disk" \in Faults /\ failed' = TRUE
  /\ Written
  /\ UNCHANGED <<dictionary, updated, file, overran>>

-----------------------------------------------------------------------------
(***************************************************************************)
(* TradingEngine.stop, and the next start.                                 *)
(***************************************************************************)
BeginStop ==
  /\ stop = "running"
  /\ stop' = "joining"
  /\ UNCHANGED <<dictionary, dirty, updated, writer, dump, file, failed, overran>>

\* main_thread.join, for five seconds.
JoinTrading ==
  /\ stop = "joining"
  /\ trading = "ended" \/ "slow_stop" \in Faults
  /\ overran' = (trading # "ended")
  /\ stop' = "persist"
  /\ UNCHANGED <<dictionary, dirty, updated, writer, dump, file, failed>>

\* _persist_intent_state once more; shutdown sets the flag.
StopPersists ==
  /\ stop = "persist" /\ Unlocked
  /\ dirty' = TRUE /\ updated' = TRUE
  /\ stop' = "shutdown"
  /\ UNCHANGED <<dictionary, writer, dump, file, failed, overran>>

\* shutdown joins the writer thread, for five seconds too, and flushes.
JoinWriter ==
  /\ stop = "shutdown"
  /\ writer = "ended" \/ "slow_stop" \in Faults
  /\ Unlocked
  /\ IF dirty
     THEN StartDump("shutdown") /\ stop' = "flush"
     ELSE stop' = "done" /\ UNCHANGED dump
  /\ UNCHANGED <<dictionary, dirty, updated, writer, file, failed, overran>>

\* A new process, after a crash or a stop.  The file's path holds the second of the start
\* (session_<timestamp>/state), so _recover_transient_state finds nothing to read back,
\* and the old file is not touched again.
Restart ==
  /\ "crash" \in Faults \/ stop = "done"
  /\ live' = {} /\ fresh' = Intent /\ trading' = "idle"
  /\ dirty' = FALSE /\ updated' = FALSE
  /\ writer' = "waiting" /\ dump' = NoDump
  /\ stop' = "running"
  /\ file' = {}
  /\ past' = {{}} /\ failed' = FALSE /\ overran' = FALSE

-----------------------------------------------------------------------------
Dump == DumpKey \/ DumpDone \/ DumpFails

WriterNext ==
  \/ Change \/ Update \/ TradingEnds
  \/ Tick \/ LeaveLoop \/ Dump
  \/ BeginStop \/ JoinTrading \/ StopPersists \/ JoinWriter
  \/ Restart

\* Threads that can go on do; nobody has to change an intent or stop the engine.
WriterFairness ==
  /\ WF_writerVars(Update) /\ WF_writerVars(TradingEnds)
  /\ WF_writerVars(Tick) /\ WF_writerVars(LeaveLoop) /\ WF_writerVars(Dump)
  /\ WF_writerVars(JoinTrading) /\ WF_writerVars(StopPersists) /\ WF_writerVars(JoinWriter)

WriterSpec == WriterInit /\ [][WriterNext]_writerVars
WriterFairSpec == WriterSpec /\ WriterFairness

-----------------------------------------------------------------------------
(***************************************************************************)
(* Properties.                                                             *)
(***************************************************************************)

\* The file holds intents that were all pending at one moment.
FileWasLive == file \in past

\* When nothing is dirty and no change is waiting to be reported, the file is up
\* to date, unless the disk refused it.
CleanIsSaved ==
  updated /\ ~dirty /\ Unlocked /\ trading # "changed" /\ ~failed => file = live

\* Although the dictionary changes under json.dump, the file is never a mixture of
\* two moments, and dropping the dirty flag of a write that failed because the
\* dictionary changed loses nothing (_write_state, update, _writer_loop).
FileFollows == FileWasLive /\ CleanIsSaved

\* The code does not have this property (README, 4.3).
\* Whatever it waited for, a finished stop leaves the last state on disk once the
\* trading thread has ended (state_writer.py: "Ensures clean persistence on
\* shutdown").
StopSaves == stop = "done" /\ trading = "ended" => file = live

\* What was reported reaches the disk, unless the process restarts, the disk
\* refuses the write or the report comes from a thread that outlived the stop.
UpdatesReachDisk == dirty ~> (file = live \/ ~updated \/ failed \/ overran)
=============================================================================
