--------------------------- MODULE ProcessWindow ---------------------------
(***************************************************************************)
(* The window of the process list.  A worker thread makes the lists; the   *)
(* main thread shows them, and tells the worker through flags that only    *)
(* the history's are kept under a lock: wait no more, send nothing, show   *)
(* the past.  The user slides through the history, steps through it with   *)
(* the arrow keys, goes back to live, sorts, searches, scrolls, resizes    *)
(* and closes the window while the worker is anywhere.  Module History     *)
(* says how the engine is set to a time; here it is one step.              *)
(***************************************************************************)
EXTENDS Integers, Sequences, FiniteSets

CONSTANTS
  MaxTime,    \* bound: the times of the history are 1 .. MaxTime
  Recent,     \* the first time that is in the hour shown unless `whole' is set
  MaxInputs   \* bound: what the user does, and times that are lost

ASSUME ConstantsAssumption ==
  /\ MaxTime \in Nat \ {0} /\ Recent \in 1 .. MaxTime
  /\ MaxInputs \in Nat

VARIABLES
  exists,     \* the times the engine finds a log for
  engine,     \* the time the engine shows, 0 if it is live
  hist,       \* view->history: live, pending, sliding, requested
  range,      \* history.start_time (0: unknown), .whole, and the bounds thread
  flags,      \* which of skip_wait and skip_update are set
  timers,     \* timers that are running
  look,       \* what the worker reads of the user's choices: search text, order
  bar,        \* whether there is a status bar: slider and Live button
  worker,     \* the process_list thread
  queue,      \* lists on their way to the main thread
  rows,       \* what the window shows
  loader,     \* whether "Loading snapshot" is shown
  main,       \* what the main thread still has to do of a handler
  crossed,    \* whether the worker took a return to live for none
  closed,     \* "open", "closed", or where the worker was when it was given up
  misused,    \* which thread used memory that was freed
  inputs

history == <<exists, engine, hist, range, crossed>>
window == <<bar, queue, rows, loader, closed, misused>>
vars == <<history, flags, timers, look, window, worker, main, inputs>>

-----------------------------------------------------------------------------
Times == 1 .. MaxTime
LiveHistory ==
  [live |-> TRUE, pending |-> FALSE, sliding |-> FALSE, requested |-> 0]
Look == [search : {"", "some", "nothing"}, reverse : BOOLEAN]
Rows == [time : 0 .. MaxTime, look : Look]
NoRows == [time |-> -1, look |-> [search |-> "", reverse |-> FALSE]]

(* What the worker sends; NoRows only hides the loader.                    *)
Messages == Rows \cup {NoRows}

Histories ==
  [live : BOOLEAN, pending : BOOLEAN, sliding : BOOLEAN, requested : 0 .. MaxTime]
Ranges ==
  [start : 0 .. MaxTime, whole : BOOLEAN, thread : {"none", "whole", "recent"}]
Workers ==
  [at : {"start", "top", "load", "give up", "loaded", "undo", "clear", "take",
         "list", "ended"},
   time : 0 .. MaxTime, live : BOOLEAN, first : BOOLEAN, loaded : BOOLEAN]

(* Where the worker may be for longer than a close waits for it.           *)
Long == {"start", "load"}

TypeOK ==
  /\ exists \subseteq Times /\ engine \in 0 .. MaxTime
  /\ hist \in Histories /\ (hist.live <=> hist.requested = 0)
  /\ range \in Ranges
  /\ flags \subseteq {"skip_wait", "skip_update"}
  /\ timers \subseteq {"apply", "search", "resize", "fields"}
  /\ look \in Look /\ bar \in BOOLEAN /\ loader \in BOOLEAN
  /\ worker \in Workers /\ queue \in Seq(Messages) /\ rows \in Messages
  /\ main \in {"idle", "live", "bar", "whole"} /\ crossed \in BOOLEAN
  /\ closed \in {"open", "closed"} \cup Long
  /\ misused \in {"", "search", "worker", "bounds"}
  /\ inputs \in 0 .. MaxInputs

NewWorker ==
  [at |-> "start", time |-> 0, live |-> TRUE, first |-> TRUE, loaded |-> FALSE]

(* evisum_ui_process_list_win_add: a new view is live, and so the engine.  *)
Init ==
  /\ exists = Times /\ engine = 0
  /\ hist = LiveHistory
  /\ range = [start |-> 0, whole |-> FALSE, thread |-> "recent"]
  /\ flags = {} /\ timers = {}
  /\ look = [search |-> "", reverse |-> FALSE]
  /\ bar = TRUE /\ queue = <<>> /\ rows = NoRows /\ loader = FALSE
  /\ worker = NewWorker
  /\ main = "idle" /\ crossed = FALSE
  /\ closed = "open" /\ misused = "" /\ inputs = 0

Runs == misused = ""
Open == Runs /\ closed = "open" /\ main = "idle"
Input == Open /\ inputs < MaxInputs /\ inputs' = inputs + 1

-----------------------------------------------------------------------------
(* The worker: _evisum_ui_process_list_process_list *)

workerRest == <<exists, range, timers, look, bar, rows, loader, main, closed, inputs>>

(* What the worker does with the view is a misuse once the view is freed.  *)
View == closed = "open"
Sends(m) == Len(queue) < 2 /\ queue' = Append(queue, m)

(* The first second goes by; a thread that was cancelled meanwhile ends.   *)
Start ==
  /\ Runs /\ worker.at = "start"
  /\ worker' = [worker EXCEPT !.at = IF View THEN "top" ELSE "ended"]
  /\ UNCHANGED <<workerRest, engine, hist, crossed, flags, queue, misused>>

(* In live mode the worker goes on after a delay, or at once if it is told *)
(* not to wait; in history mode when a time is pending, or told so.        *)
Go == hist.live \/ hist.pending \/ worker.first \/ "skip_wait" \in flags

Top ==
  /\ Runs /\ worker.at = "top" /\ View
  /\ Go
  /\ worker' = [worker EXCEPT !.at = IF hist.live THEN "take" ELSE "load",
                              !.time = hist.requested,
                              !.live = hist.live, !.loaded = FALSE]
  /\ UNCHANGED <<workerRest, engine, hist, crossed, flags, queue, misused>>

(* evisum_engine_history_time_set, which is as long as the log; the view   *)
(* is used after it.  If there is no such time, evisum_engine_history_-    *)
(* live_set as well.                                                       *)
Load ==
  /\ Runs /\ worker.at = "load"
  /\ engine' = IF worker.time \in exists THEN worker.time ELSE 0
  /\ worker' = [worker EXCEPT
       !.at = IF worker.time \in exists THEN "loaded" ELSE "give up"]
  /\ misused' = IF View THEN "" ELSE "worker"
  /\ UNCHANGED <<workerRest, hist, crossed, flags, queue>>

GiveUp ==
  /\ Runs /\ worker.at = "give up"
  /\ hist' = LiveHistory
  /\ flags' = flags \cup {"skip_wait"}
  /\ Sends(NoRows)
  /\ worker' = [worker EXCEPT !.at = "top", !.time = 0]
  /\ UNCHANGED <<workerRest, engine, crossed, misused>>

(* Mutant of Recheck: the worker does not look whether the user went back. *)
RecheckNot ==
  /\ Runs /\ worker.at = "loaded"
  /\ worker' = [worker EXCEPT !.at = "clear"]
  /\ UNCHANGED <<workerRest, engine, hist, crossed, flags, queue, misused>>

(* Has the user gone back to live since the worker looked?  Then so does   *)
(* the engine.  (crossed: the main thread has turned the engine, and the   *)
(* worker has turned it back, but the view does not say so yet.)           *)
Recheck ==
  /\ Runs /\ worker.at = "loaded"
  /\ worker' = [worker EXCEPT !.at = IF hist.live THEN "undo" ELSE "clear"]
  /\ crossed' = (crossed \/ (~hist.live /\ main # "idle" /\ engine # 0))
  /\ UNCHANGED <<workerRest, engine, hist, flags, queue, misused>>

Undo ==
  /\ Runs /\ worker.at = "undo"
  /\ engine' = 0
  /\ worker' = [worker EXCEPT !.at = "take", !.time = 0]
  /\ UNCHANGED <<workerRest, hist, crossed, flags, queue, misused>>

(* Mutant of Clear: pending is cleared whichever time it is of.            *)
ClearAny ==
  /\ Runs /\ worker.at = "clear"
  /\ hist' = [hist EXCEPT !.pending = FALSE]
  /\ worker' = [worker EXCEPT !.at = "take", !.time = 0, !.loaded = TRUE]
  /\ UNCHANGED <<workerRest, engine, crossed, flags, queue, misused>>

(* A newer time stays pending.  (crossed: it is the same time, asked for   *)
(* again after a return to live, which nothing is pending for any more.)   *)
Clear ==
  /\ Runs /\ worker.at = "clear"
  /\ hist' = [hist EXCEPT !.pending = @ /\ hist.requested # worker.time]
  /\ crossed' = (crossed \/ (~hist.live /\ main = "idle" /\ engine = 0))
  /\ worker' = [worker EXCEPT !.at = "take", !.time = 0, !.loaded = TRUE]
  /\ UNCHANGED <<workerRest, engine, flags, queue, misused>>

Take ==
  /\ Runs /\ worker.at = "take"
  /\ flags' = flags \ {"skip_wait"}
  /\ worker' = [worker EXCEPT !.at = "list"]
  /\ UNCHANGED <<workerRest, engine, hist, crossed, queue, misused>>

(* Mutant of List: skip_update stays set.                                  *)
ListHolding ==
  /\ Runs /\ worker.at = "list"
  /\ worker' = [NewWorker EXCEPT !.at = "top",
                  !.first = worker.first /\ look.search = "nothing"]
  /\ IF look.search = "nothing"
     THEN IF worker.live THEN UNCHANGED queue ELSE Sends(NoRows)
     ELSE IF worker.loaded \/ "skip_update" \notin flags
          THEN Sends([time |-> engine, look |-> look])
          ELSE UNCHANGED queue
  /\ UNCHANGED <<workerRest, flags, engine, hist, crossed, misused>>

(* The list is made from what the engine shows, filtered by the search and *)
(* sorted.  An empty list is not shown: if it is one of the past the main  *)
(* thread is told to hide its loader.                                      *)
List ==
  /\ Runs /\ worker.at = "list"
  /\ worker' = [NewWorker EXCEPT !.at = "top",
                  !.first = worker.first /\ look.search = "nothing"]
  /\ IF look.search = "nothing"
     THEN /\ UNCHANGED flags
          /\ IF worker.live THEN UNCHANGED queue ELSE Sends(NoRows)
     ELSE /\ IF worker.loaded \/ "skip_update" \notin flags
             THEN Sends([time |-> engine, look |-> look])
             ELSE UNCHANGED queue
          /\ flags' = flags \ {"skip_update"}
  /\ UNCHANGED <<workerRest, engine, hist, crossed, misused>>

Worker == Start \/ Top \/ Load \/ GiveUp \/ Recheck \/ Undo \/ Clear \/ Take \/ List

-----------------------------------------------------------------------------
(* The main thread: what the worker and the timers make it do *)

(* _evisum_ui_process_list_feedback_cb                                     *)
Feedback ==
  /\ Open /\ queue # <<>>
  /\ queue' = Tail(queue)
  /\ rows' = IF Head(queue) = NoRows THEN rows ELSE Head(queue)
  /\ loader' = FALSE
  /\ UNCHANGED <<history, flags, timers, look, worker, main, bar, closed, misused, inputs>>

Fires(t) == Open /\ t \in timers /\ timers' = timers \ {t}

(* Half a second without another request.                                  *)
ApplyTimer ==
  /\ Fires("apply")
  /\ hist' = [hist EXCEPT !.pending = TRUE]
  /\ flags' = (flags \cup {"skip_wait"}) \ {"skip_update"}
  /\ loader' = TRUE
  /\ UNCHANGED <<exists, engine, range, crossed, look, worker, main, bar, queue, rows,
                 closed, misused, inputs>>

(* A pause in typing, or a second after the columns changed: go on.        *)
ShowTimer ==
  /\ Fires("search") \/ Fires("fields")
  /\ flags' = (flags \cup {"skip_wait"}) \ {"skip_update"}
  /\ UNCHANGED <<history, look, worker, main, window, inputs>>

ResizeTimer ==
  /\ Fires("resize")
  /\ flags' = flags \ {"skip_wait"}
  /\ UNCHANGED <<history, look, worker, main, window, inputs>>

(* The bounds thread is done: where the slider starts.                     *)
BoundsStart(which) == IF which = "whole" THEN 1 ELSE Recent

Bounds ==
  /\ Runs /\ main = "idle" /\ range.thread # "none"
  /\ IF closed = "open"
     THEN /\ range' = [range EXCEPT !.start = BoundsStart(range.thread),
                                    !.thread = "none"]
          /\ UNCHANGED misused
     ELSE misused' = "bounds" /\ UNCHANGED range
  /\ UNCHANGED <<exists, engine, hist, crossed, flags, timers, look, worker, main, bar,
                 queue, rows, loader, closed, inputs>>

(* _evisum_ui_process_list_history_bounds_update, from the history timer,  *)
(* starts the thread unless the start is known or one runs.                *)
BoundsUpdate(r, whole) ==
  IF r.start # 0 \/ r.thread # "none" THEN r
  ELSE [r EXCEPT !.thread = IF whole THEN "whole" ELSE "recent"]

-----------------------------------------------------------------------------
(* The main thread: the history *)

historyRest == <<exists, engine, crossed, range, look, worker, main, window>>

(* _evisum_ui_process_list_history_request_deferred                        *)
Request(t, sliding) ==
  /\ t \in exists
  /\ hist' = [live |-> FALSE, pending |-> FALSE, sliding |-> sliding, requested |-> t]
  /\ timers' = timers \cup {"apply"}

Slider == {t \in Times : bar /\ range.start # 0 /\ t >= range.start}

MouseDown ==
  /\ Input /\ ~hist.sliding
  /\ Slider \cap exists # {}
  /\ hist' = [hist EXCEPT !.sliding = TRUE]
  /\ timers' = timers \ {"apply"}
  /\ UNCHANGED <<historyRest, flags>>

(* Over a gap of the history nothing is asked for.                         *)
MouseUp ==
  /\ Open /\ hist.sliding
  /\ \E t \in Slider :
       IF t \in exists THEN Request(t, FALSE)
       ELSE hist' = [hist EXCEPT !.sliding = FALSE] /\ UNCHANGED timers
  /\ UNCHANGED <<historyRest, flags, inputs>>

(* The arrow keys go from the time asked for last, or the one shown, or    *)
(* where the slider is.                                                    *)
Anchor ==
  IF hist.requested # 0 THEN {hist.requested}
  ELSE IF engine # 0 THEN {engine} ELSE Slider

Clip(t) ==
  CASE t < range.start -> range.start
    [] t > MaxTime -> MaxTime
    [] OTHER -> t

ArrowKey ==
  /\ Input /\ bar /\ ~(hist.live /\ engine = 0)
  /\ \E a \in Anchor, d \in {-1, 1} : Clip(a + d) > 0 /\ Request(Clip(a + d), hist.sliding)
  /\ flags' = flags \cup {"skip_wait"}
  /\ UNCHANGED historyRest

liveRest == <<exists, look, worker, queue, rows, closed, misused>>

(* The Live button: the engine first, then the view.                       *)
LiveClicked ==
  /\ Input /\ bar /\ ~hist.live
  /\ engine' = 0
  /\ main' = "live"
  /\ UNCHANGED <<liveRest, crossed, hist, range, flags, timers, bar, loader>>

LiveDone ==
  /\ Runs /\ main = "live"
  /\ hist' = LiveHistory
  /\ timers' = timers \ {"apply"}
  /\ loader' = FALSE
  /\ flags' = (flags \cup {"skip_wait"}) \ {"skip_update"}
  /\ range' = BoundsUpdate(range, range.whole)
  /\ main' = "idle"
  /\ UNCHANGED <<liveRest, engine, crossed, bar, inputs>>

(* Without a status bar there is no way back, so the past goes with it.    *)
BarOff ==
  /\ Input /\ bar
  /\ engine' = 0
  /\ flags' = flags \cup {"skip_wait"}
  /\ main' = "bar"
  /\ UNCHANGED <<liveRest, crossed, hist, range, timers, bar, loader>>

BarOffDone ==
  /\ Runs /\ main = "bar"
  /\ hist' = LiveHistory
  /\ timers' = timers \ {"apply"}
  /\ loader' = FALSE /\ bar' = FALSE
  /\ range' = [range EXCEPT !.thread = "none"]
  /\ main' = "idle"
  /\ UNCHANGED <<liveRest, engine, crossed, flags, inputs>>

BarOn ==
  /\ Input /\ ~bar
  /\ bar' = TRUE
  /\ flags' = flags \cup {"skip_wait"}
  /\ range' = BoundsUpdate(range, range.whole)
  /\ UNCHANGED <<liveRest, engine, crossed, hist, timers, loader, main>>

(* The whole history or the last hour of it: bounds and, if what is shown  *)
(* is now out of them, the mode start again.                               *)
WholeChanged ==
  /\ Input /\ bar
  /\ flags' = flags \cup {"skip_wait"}
  /\ LET whole == ~range.whole
         out == ~whole /\ engine # 0 /\ engine < Recent
     IN /\ range' = BoundsUpdate([start |-> 0, whole |-> whole, thread |-> "none"],
                                 whole)
        /\ main' = IF out THEN "whole" ELSE "idle"
        /\ engine' = IF out THEN 0 ELSE engine
  /\ UNCHANGED <<liveRest, crossed, hist, timers, bar, loader>>

WholeDone ==
  /\ Runs /\ main = "whole"
  /\ hist' = LiveHistory
  /\ loader' = FALSE
  /\ main' = "idle"
  /\ UNCHANGED <<liveRest, engine, crossed, range, flags, timers, bar, inputs>>

-----------------------------------------------------------------------------
(* The main thread: the rest of the window *)

uiRest == <<history, worker, main, bar, queue, rows, loader, closed>>

SortClicked ==
  /\ Input
  /\ look' = [look EXCEPT !.reverse = ~@]
  /\ flags' = (flags \cup {"skip_wait"}) \ {"skip_update"}
  /\ UNCHANGED <<uiRest, timers, misused>>

(* Each key frees the text and copies the new one, whatever the worker     *)
(* does with it; the list waits for a pause.                               *)
SearchKey ==
  /\ Input
  /\ \E s \in {"", "some", "nothing"} :
       s # look.search /\ look' = [look EXCEPT !.search = s]
  /\ flags' = flags \ {"skip_update"}
  /\ timers' = timers \cup {"search"}
  /\ misused' = IF worker.at = "list" /\ look.search # "" THEN "search" ELSE ""
  /\ UNCHANGED uiRest

Scrolled ==
  /\ Input
  /\ flags' = {"skip_update"}
  /\ UNCHANGED <<uiRest, look, timers, misused>>

ScrollStopped ==
  /\ Input
  /\ flags' = (flags \cup {"skip_wait"}) \ {"skip_update"}
  /\ UNCHANGED <<uiRest, look, timers, misused>>

FieldsChanged ==
  /\ Input
  /\ flags' = flags \cup {"skip_update"}
  /\ timers' = timers \cup {"fields"}
  /\ UNCHANGED <<uiRest, look, misused>>

Resized ==
  /\ Input
  /\ flags' = flags \cup {"skip_wait"}
  /\ timers' = timers \cup {"resize"}
  /\ UNCHANGED <<uiRest, look, misused>>

(* _evisum_ui_process_list_win_del_cb waits half a second for each thread, *)
(* then frees the view.  A worker that is not in a long call has ended by  *)
(* then; what it had sent is freed with the rest.                          *)
Close ==
  /\ Input
  /\ closed' = IF worker.at \in Long THEN worker.at ELSE "closed"
  /\ worker' = IF worker.at \in Long THEN worker
               ELSE [NewWorker EXCEPT !.at = "ended"]
  /\ \E late \in BOOLEAN :
       range' = IF late THEN range ELSE [range EXCEPT !.thread = "none"]
  /\ engine' = 0
  /\ timers' = {} /\ queue' = <<>> /\ flags' = {}
  /\ hist' = LiveHistory /\ loader' = FALSE /\ rows' = NoRows
  /\ UNCHANGED <<exists, crossed, look, bar, main, misused>>

(* The log of a time is gone.                                              *)
Lose(t) ==
  /\ Runs /\ inputs < MaxInputs /\ inputs' = inputs + 1
  /\ t \in exists /\ exists' = exists \ {t}
  /\ UNCHANGED <<engine, hist, range, crossed, flags, timers, look, worker, main, window>>

-----------------------------------------------------------------------------
Timers == ApplyTimer \/ ShowTimer \/ ResizeTimer
Rest == LiveDone \/ BarOffDone \/ WholeDone
User ==
  \/ MouseDown \/ ArrowKey \/ LiveClicked \/ BarOff \/ BarOn \/ WholeChanged
  \/ SortClicked \/ SearchKey \/ Scrolled \/ ScrollStopped \/ FieldsChanged
  \/ Resized \/ Close

Next ==
  \/ Worker \/ Feedback \/ Timers \/ Bounds \/ Rest \/ MouseUp
  \/ User \/ \E t \in Times : Lose(t)

Spec == Init /\ [][Next]_vars

(* The worker runs, the main loop handles what it is sent and its timers,  *)
(* and who holds a mouse button lets it go.                                *)
FairSpec ==
  /\ Spec
  /\ WF_vars(Worker) /\ WF_vars(Feedback) /\ WF_vars(Rest) /\ WF_vars(Bounds)
  /\ WF_vars(ApplyTimer) /\ WF_vars(ShowTimer) /\ WF_vars(ResizeTimer)
  /\ WF_vars(MouseUp)

-----------------------------------------------------------------------------
(* Properties *)

(* Memory is used after it was freed only if a key of the search meets the *)
(* worker in its list, or if the window is closed while the history is     *)
(* read for longer than the close waits: not by a timer, a message or the  *)
(* worker's first second.                                                  *)
MisuseExplained ==
  /\ misused = "worker" => closed = "load"
  /\ misused = "bounds" => closed # "open"

(* When the view says live and the worker is about to decide, the engine   *)
(* is live, however the user's clicks and the worker's loads interleave,   *)
(* unless the worker looked again in the middle of a return to live.       *)
EngineFollows ==
  hist.live /\ worker.at = "top" /\ main = "idle" /\ ~crossed => engine = 0

(* What holds of engine, worker and window at every step.                  *)
WindowInv == TypeOK /\ MisuseExplained /\ EngineFollows

(* The time is not what is asked for any more: the user asked for another, *)
(* or slides, goes live or closes; or a load of another time that failed   *)
(* has wiped the request (GiveUp, evisum_ui_process_list.c:1512-1516).     *)
Superseded(t) ==
  \/ hist.requested # t \/ hist.sliding \/ main # "idle" \/ closed # "open"
  \/ misused # "" \/ crossed

(* The last time that was asked for is shown in the end, unless the search *)
(* lets nothing through or the user does something else, or the worker has *)
(* taken a return to live for none, or has given up a load and with it the *)
(* request, which may be newer than that load (GiveUp).                    *)
AskedIsShown ==
  \A t \in Times :
    hist.requested = t /\ ("apply" \in timers \/ hist.pending)
      ~> rows.time = t \/ Superseded(t) \/ look.search = "nothing"

(* Once the user leaves the window alone in live mode, it comes to show    *)
(* the processes of now that match the search, in the order chosen.        *)
Settles ==
  <>[](hist.live /\ ~crossed /\ look.search # "nothing" /\ closed = "open"
         /\ misused = "")
    => <>[](rows = [time |-> 0, look |-> look])
=============================================================================
