----------------------------- MODULE Background -----------------------------
(***************************************************************************)
(* The update signal of evisum under names of its own, for its run and for *)
(* modules that speak of it next to a window's.                            *)
(***************************************************************************)
EXTENDS Naturals

CONSTANTS
  Window,     \* threads of windows
  Poller,     \* the thread of evisum_background_poller
  None,       \* no thread
  Slow,       \* a thread may be busy for longer than a join waits
  Leaves,     \* the main loop may end with a window open
  MaxCount    \* bound: snapshot callbacks

ASSUME ThreadsAssumption ==
  /\ Poller \notin Window
  /\ None \notin Window \cup {Poller}
ASSUME SwitchesAssumption == Slow \in BOOLEAN /\ Leaves \in BOOLEAN
ASSUME MaxCountAssumption == MaxCount \in Nat

VARIABLES
  count, up, live,                            \* the sources
  pc, seen, target, signalled, cancelled,     \* the threads
  main, joining, freed, orphaned,             \* the main thread
  broken

Signal == INSTANCE UpdateSignal

SignalSpec == Signal!Spec
FairSignalSpec == Signal!FairSpec

(* Every variable has its type, and only threads that sleep are woken      *)
(* (evisum_background.c:85-110).                                           *)
SignalTyped == Signal!TypeOK

(* A window is told of no more updates than the poller passed on, which    *)
(* are no more than the engine counted (evisum_background.c:85-110).       *)
NoSpuriousUpdate == Signal!NoSpuriousUpdate

(* Locks, conditions and views that are freed are used by no thread, but   *)
(* by one that the main thread went on without (evisum_background.c:71-83, *)
(* evisum_ui.c:817-823).                                                   *)
FreedOnlyByOrphaning == Signal!FreedOnlyByOrphaning

(* An update is passed on to the poller and the windows, unless evisum or  *)
(* the window is on its way out, and a thread that is cancelled ends       *)
(* (evisum_background.c:43-69,85-110).                                     *)
ThreadsProgress == Signal!ThreadsProgress

=============================================================================
