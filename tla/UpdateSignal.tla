---------------------------- MODULE UpdateSignal ----------------------------
(***************************************************************************)
(* The one update signal of evisum.  The client's snapshot callbacks count *)
(* in the engine and wake the poller thread; the poller counts in the      *)
(* background state and wakes the threads of the windows.  Each of the two *)
(* counters has a lock and a condition, and the same wait function reads   *)
(* it (evisum_engine_update_wait, evisum_background_update_wait).          *)
(*                                                                         *)
(* The main thread runs the callbacks, opens windows, closes them (cancel, *)
(* wait half a second for the thread, free), and at last shuts both        *)
(* sources down and frees their locks and conditions.                      *)
(*                                                                         *)
(* What is done while a lock is held is one step.                          *)
(***************************************************************************)
EXTENDS Naturals

CONSTANTS
  Window,     \* threads of windows
  Poller,     \* the thread of evisum_background_poller
  None,       \* no thread
  Slow,       \* a thread may be busy for longer than a join waits
  Leaves,     \* the main loop may end with a window open
  MaxCount    \* bound: snapshot callbacks

Thread == Window \cup {Poller}
Source == {"engine", "background"}

VARIABLES
  count,      \* _state.snapshot_seq and _bg.seq
  up,         \* _state.started && _state.client, and _bg.running
  live,       \* _state.lock_init and _bg.init: lock and condition exist
  pc,         \* pc[t]: where thread t is
  seen,       \* seen[t]: the seq of t, 0 until its first update
  target,     \* target[t]: what t is waiting to see change
  signalled,  \* threads woken by eina_condition_broadcast
  cancelled,  \* threads for which ecore_thread_cancel was called
  main,       \* where the main thread is
  joining,    \* the thread whose end it waits for
  freed,      \* threads whose view (for the poller: ui) has been freed
  orphaned,   \* history: the main thread went on without a thread it needed
  broken      \* history: something freed was used

sourceVars == <<count, up, live>>
threadVars == <<pc, seen, target, signalled, cancelled>>
mainVars == <<main, joining, freed, orphaned>>
vars == <<sourceVars, threadVars, mainVars, broken>>

(* The source that the wait function of thread t reads.                    *)
SourceOf(t) == IF t = Poller THEN "engine" ELSE "background"

PCs == {"none", "check", "test", "lock", "asleep", "got", "status", "read", "ended"}
Mains == {"loop", "quit", "bgFree", "engineStop", "engineFree", "uiFree", "done"}

TypeOK ==
  /\ count \in [Source -> Nat]
  /\ up \in [Source -> BOOLEAN]
  /\ live \in [Source -> BOOLEAN]
  /\ pc \in [Thread -> PCs]
  /\ seen \in [Thread -> Nat]
  /\ target \in [Thread -> Nat]
  /\ signalled \subseteq {t \in Thread : pc[t] = "asleep"}
  /\ cancelled \subseteq Thread
  /\ main \in Mains
  /\ joining \in Thread \cup {None}
  /\ freed \subseteq Thread
  /\ orphaned \in BOOLEAN
  /\ broken \in BOOLEAN

(* evisum_background_init has returned and the poller has been run.        *)
Init ==
  /\ count = [s \in Source |-> 0]
  /\ up \in {[s \in Source |-> TRUE],
             [s \in Source |-> s = "background"]}
  /\ live = [s \in Source |-> TRUE]
  /\ pc = [t \in Thread |-> IF t = Poller THEN "check" ELSE "none"]
  /\ seen = [t \in Thread |-> 0]
  /\ target = [t \in Thread |-> 0]
  /\ signalled = {}
  /\ cancelled = {}
  /\ main = "loop"
  /\ joining = None
  /\ freed = {}
  /\ orphaned = FALSE
  /\ broken = FALSE

Goto(t, to) == pc' = [pc EXCEPT ![t] = to]

Sleepers(s) == {t \in Thread : SourceOf(t) = s /\ pc[t] = "asleep"}

(* seq++ and eina_condition_broadcast.                                     *)
Publish(s) ==
  /\ count' = [count EXCEPT ![s] = @ + 1]
  /\ signalled' = signalled \cup Sleepers(s)

-----------------------------------------------------------------------------
(* The threads *)

(* The loop condition, ecore_thread_check.                                 *)
Check(t) ==
  /\ pc[t] = "check"
  /\ Goto(t, IF t \in cancelled THEN "ended" ELSE "test")
  /\ UNCHANGED <<sourceVars, seen, target, signalled, cancelled, mainVars, broken>>

(* The wait function looks, without the lock, whether there is a lock.     *)
Test(t) ==
  /\ pc[t] = "test"
  /\ Goto(t, IF live[SourceOf(t)] THEN "lock" ELSE "check")
  /\ UNCHANGED <<sourceVars, seen, target, signalled, cancelled, mainVars, broken>>

(* The loop of the wait function, from where the lock has been taken.      *)
Look(t, from) ==
  LET s == SourceOf(t) IN
  CASE ~up[s] -> Goto(t, "check") /\ UNCHANGED seen
    [] up[s] /\ count[s] # from ->
         Goto(t, "got") /\ seen' = [seen EXCEPT ![t] = count[s]]
    [] OTHER -> Goto(t, "asleep") /\ UNCHANGED seen

(* Mutant of Lock: it waits for a change from now on, whatever was seen.   *)
LockAfresh(t) ==
  /\ pc[t] = "lock"
  /\ live[SourceOf(t)]
  /\ target' = [target EXCEPT ![t] = count[SourceOf(t)]]
  /\ Look(t, target'[t])
  /\ UNCHANGED <<sourceVars, signalled, cancelled, mainVars, broken>>

(* target = *seq ? *seq : the current one.                                 *)
Lock(t) ==
  /\ pc[t] = "lock"
  /\ live[SourceOf(t)]
  /\ target' = [target EXCEPT ![t] = IF seen[t] # 0 THEN seen[t] ELSE count[SourceOf(t)]]
  /\ Look(t, target'[t])
  /\ UNCHANGED <<sourceVars, signalled, cancelled, mainVars, broken>>

(* eina_condition_timedwait returns after a broadcast ...                  *)
Wake(t) ==
  /\ pc[t] = "asleep"
  /\ t \in signalled
  /\ live[SourceOf(t)]
  /\ signalled' = signalled \ {t}
  /\ Look(t, target[t])
  /\ UNCHANGED <<sourceVars, target, cancelled, mainVars, broken>>

(* Mutants of Timeout: the thread stays on the list of those to be woken,  *)
(* or the wait returns true.                                               *)
TimeoutKeepsSignal(t) ==
  /\ pc[t] = "asleep"
  /\ live[SourceOf(t)]
  /\ Goto(t, "check")
  /\ UNCHANGED <<sourceVars, seen, target, signalled, cancelled, mainVars, broken>>

TimeoutReports(t) ==
  /\ pc[t] = "asleep"
  /\ live[SourceOf(t)]
  /\ signalled' = signalled \ {t}
  /\ Goto(t, "got")
  /\ UNCHANGED <<sourceVars, seen, target, cancelled, mainVars, broken>>

(* ... or after 0.2 s, and then the counter is not looked at again.        *)
Timeout(t) ==
  /\ pc[t] = "asleep"
  /\ live[SourceOf(t)]
  /\ signalled' = signalled \ {t}
  /\ Goto(t, "check")
  /\ UNCHANGED <<sourceVars, seen, target, cancelled, mainVars, broken>>

(* A window works with its view, and may skip all but every tenth update.  *)
Show(t) ==
  /\ t # Poller
  /\ pc[t] = "got"
  /\ t \notin freed
  /\ Goto(t, "check")
  /\ UNCHANGED <<sourceVars, seen, target, signalled, cancelled, mainVars, broken>>

(* The poller counts, and every tenth time goes on to the status.          *)
Forward ==
  /\ pc[Poller] = "got"
  /\ live["background"]
  /\ Publish("background")
  /\ \E to \in {"check", "status"} : Goto(Poller, to)
  /\ UNCHANGED <<up, live, seen, target, cancelled, mainVars, broken>>

(* evisum_engine_status_get: a look at the engine without its lock ...     *)
Status ==
  /\ pc[Poller] = "status"
  /\ Goto(Poller, IF live["engine"] /\ up["engine"] THEN "read" ELSE "check")
  /\ UNCHANGED <<sourceVars, seen, target, signalled, cancelled, mainVars, broken>>

(* ... then with it; the result goes into ui.                              *)
ReadStatus ==
  /\ pc[Poller] = "read"
  /\ live["engine"]
  /\ up["engine"] => Poller \notin freed
  /\ Goto(Poller, "check")
  /\ UNCHANGED <<sourceVars, seen, target, signalled, cancelled, mainVars, broken>>

(* What t is about to use: a lock, or a view.                              *)
UsesFreed(t) ==
  \/ pc[t] \in {"lock", "asleep"} /\ ~live[SourceOf(t)]
  \/ t # Poller /\ pc[t] = "got" /\ t \in freed
  \/ t = Poller /\ pc[t] = "got" /\ ~live["background"]
  \/ t = Poller /\ pc[t] = "read" /\ (~live["engine"] \/ (up["engine"] /\ t \in freed))

(* It has been freed: the thread runs into it.                             *)
Break(t) ==
  /\ UsesFreed(t)
  /\ broken' = TRUE
  /\ Goto(t, "ended")
  /\ signalled' = signalled \ {t}
  /\ UNCHANGED <<sourceVars, seen, target, cancelled, mainVars>>

-----------------------------------------------------------------------------
(* The main thread *)

Idle == main = "loop" /\ joining = None

(* evisum_engine_ensure_started, called again by a history query, finds    *)
(* the daemon it could not launch at first.                                *)
EngineStart ==
  /\ Idle
  /\ ~up["engine"]
  /\ up' = [up EXCEPT !["engine"] = TRUE]
  /\ UNCHANGED <<count, live, threadVars, mainVars, broken>>

(* _cb_snapshot_init and _cb_snapshot.  (history_time_set and              *)
(* history_live_set publish as well, from the worker of a window that      *)
(* browses the past: for who waits a snapshot more.)                       *)
Snapshot ==
  /\ Idle
  /\ up["engine"]
  /\ count["engine"] < MaxCount
  /\ Publish("engine")
  /\ UNCHANGED <<up, live, pc, seen, target, cancelled, mainVars, broken>>

(* A window is opened: ecore_thread_run, with a seq of 0.                  *)
Open(w) ==
  /\ Idle
  /\ pc[w] \in {"none", "ended"}
  /\ Goto(w, "check")
  /\ seen' = [seen EXCEPT ![w] = 0]
  /\ cancelled' = cancelled \ {w}
  /\ freed' = freed \ {w}
  /\ UNCHANGED <<sourceVars, target, signalled, main, joining, orphaned, broken>>

Running(t) == pc[t] \notin {"none", "ended"}

(* The delete callback of a window: ecore_thread_cancel ...                *)
Close(w) ==
  /\ Idle
  /\ Running(w) /\ w \notin freed
  /\ cancelled' = cancelled \cup {w}
  /\ joining' = w
  /\ UNCHANGED <<sourceVars, pc, seen, target, signalled, main, freed, orphaned, broken>>

(* ... ecore_thread_wait, 0.5 s, which a thread can only miss when it is   *)
(* busy outside its wait of 0.2 s, or another has the lock for long ...    *)
Late(t) == Slow /\ pc[t] \in {"lock", "got", "read"}

(* ... and free of the view.                                               *)
Joined(w) ==
  /\ joining = w
  /\ w # Poller
  /\ ~Running(w) \/ Late(w)
  /\ orphaned' = (orphaned \/ Running(w))
  /\ freed' = freed \cup {w}
  /\ joining' = None
  /\ UNCHANGED <<sourceVars, threadVars, main, broken>>

(* Mutant of BackgroundStop: the poller is not waited for.                 *)
BackgroundStopAtOnce ==
  /\ main = "quit"
  /\ joining' = None
  /\ up' = [up EXCEPT !["background"] = FALSE]
  /\ signalled' = signalled \cup Sleepers("background")
  /\ main' = "bgFree"
  /\ UNCHANGED <<count, live, pc, seen, target, cancelled, freed, orphaned, broken>>

(* The main loop ends when the last window is closed, or when the toolkit  *)
(* ends it at an exit signal: _shutdown_cb then closes neither the network *)
(* window nor those of single processes.  evisum_ui_shutdown cancels the   *)
(* poller ...                                                              *)
Quit ==
  /\ Idle
  /\ \/ \A w \in Window : Running(w) => w \in freed
     \/ Leaves
  /\ orphaned' = (orphaned \/ \E w \in Window : Running(w))
  /\ cancelled' = cancelled \cup {Poller}
  /\ joining' = Poller
  /\ main' = "quit"
  /\ UNCHANGED <<sourceVars, pc, seen, target, signalled, freed, broken>>

(* ... and waits 0.5 s for it.  evisum_background_shutdown: running = 0,   *)
(* broadcast ...                                                           *)
BackgroundStop ==
  /\ main = "quit"
  /\ ~Running(Poller) \/ Late(Poller)
  /\ orphaned' = (orphaned \/ Running(Poller))
  /\ joining' = None
  /\ up' = [up EXCEPT !["background"] = FALSE]
  /\ signalled' = signalled \cup Sleepers("background")
  /\ main' = "bgFree"
  /\ UNCHANGED <<count, live, pc, seen, target, cancelled, freed, broken>>

(* ... and the condition and the lock are freed, without waiting for those *)
(* it woke.                                                                *)
BackgroundFree ==
  /\ main = "bgFree"
  /\ live' = [live EXCEPT !["background"] = FALSE]
  /\ main' = "engineStop"
  /\ UNCHANGED <<count, up, threadVars, joining, freed, orphaned, broken>>

(* evisum_engine_shutdown, in the same two steps, and free(ui).            *)
EngineStop ==
  /\ main = "engineStop"
  /\ up' = [up EXCEPT !["engine"] = FALSE]
  /\ signalled' = signalled \cup Sleepers("engine")
  /\ main' = "engineFree"
  /\ UNCHANGED <<count, live, pc, seen, target, cancelled, joining, freed, orphaned, broken>>

EngineFree ==
  /\ main = "engineFree"
  /\ live' = [live EXCEPT !["engine"] = FALSE]
  /\ main' = "uiFree"
  /\ UNCHANGED <<count, up, threadVars, joining, freed, orphaned, broken>>

UiFree ==
  /\ main = "uiFree"
  /\ freed' = freed \cup {Poller}
  /\ main' = "done"
  /\ UNCHANGED <<sourceVars, threadVars, joining, orphaned, broken>>

-----------------------------------------------------------------------------
ThreadStep(t) ==
  \/ Check(t) \/ Test(t) \/ Lock(t) \/ Wake(t) \/ Timeout(t) \/ Show(t) \/ Break(t)
  \/ t = Poller /\ (Forward \/ Status \/ ReadStatus)

Shutdown ==
  BackgroundStop \/ BackgroundFree \/ EngineStop \/ EngineFree \/ UiFree

MainStep ==
  \/ EngineStart \/ Snapshot \/ Quit \/ Shutdown
  \/ \E w \in Window : Open(w) \/ Close(w) \/ Joined(w)

Next == MainStep \/ \E t \in Thread : ThreadStep(t)

Spec == Init /\ [][Next]_vars

(* Every thread runs, and what the main thread has begun it ends; it need  *)
(* not get a snapshot, open or close a window, or quit.                    *)
FairSpec ==
  /\ Spec
  /\ \A t \in Thread : WF_vars(ThreadStep(t))
  /\ WF_vars(Shutdown \/ \E w \in Window : Joined(w))

-----------------------------------------------------------------------------
(* Properties *)

(* A window is told of an update only for a snapshot it has not been told  *)
(* of: it has seen no more updates than the poller passed on, the poller   *)
(* passed on at most one for each time it saw the engine's counter change. *)
NoSpuriousUpdate ==
  /\ \A w \in Window : seen[w] <= count["background"]
  /\ count["background"] <= seen[Poller]
  /\ seen[Poller] <= count["engine"]

(* No thread uses a lock, a condition or a view that has been freed.       *)
NeverUsesFreed == ~broken

(* It does so only after the main thread has gone on without it: when all  *)
(* joins end in time and the last window is closed before the main loop    *)
(* ends, shutting down is safe at any moment.                              *)
FreedOnlyByOrphaning == orphaned \/ NeverUsesFreed

(* A window that has seen one update misses none that is passed on later,  *)
(* however it interleaves with time-outs, unless it is being closed.       *)
UpdatesReachWindows ==
  \A w \in Window :
    (seen[w] # 0 /\ seen[w] < count["background"])
      ~> (seen[w] = count["background"] \/ w \in cancelled \/ main # "loop")

(* Neither does the poller, and it passes on what it saw.                  *)
SnapshotsReachPoller ==
  (seen[Poller] # 0 /\ seen[Poller] < count["engine"])
    ~> (seen[Poller] = count["engine"] \/ main # "loop")

(* A thread that is cancelled ends, whether or not updates still come: the *)
(* main thread, which joins it, cannot publish any.                        *)
CancelledEnd ==
  \A t \in Thread : (t \in cancelled) ~> (pc[t] = "ended")

(* No update is forgotten on its way, and no thread that has to end waits  *)
(* for one that nobody will publish.                                       *)
ThreadsProgress == UpdatesReachWindows /\ SnapshotsReachPoller /\ CancelledEnd
=============================================================================
