------------------------- MODULE ProcessWindowProofs -------------------------
(***************************************************************************)
(* The engine is live when the view says so and the worker decides, and    *)
(* freed memory is used only where MisuseExplained says.                   *)
(***************************************************************************)
EXTENDS ProcessWindow, TLAPS

(* A worker that the close did not wait for is where the close left it, or *)
(* has ended, or has used the view that was freed.                         *)
CloseWaited ==
  /\ closed = "closed" => worker.at = "ended"
  /\ closed = "start" => worker.at \in {"start", "ended"}
  /\ closed = "load" => worker.at = "load" \/ misused = "worker"

(* On the way to live, or there, the engine shows the past only while the  *)
(* worker is between its load and its second look at the view, unless it   *)
(* has been crossed.                                                       *)
PastIsOnItsWay ==
  (hist.live \/ main # "idle") /\ ~crossed /\ engine # 0
    => worker.at \in {"loaded", "undo"}

(* A worker that gives up a time has left the engine live.                 *)
GivesUpLive == worker.at = "give up" => engine = 0

IInv ==
  /\ TypeOK
  /\ MisuseExplained
  /\ CloseWaited
  /\ PastIsOnItsWay
  /\ GivesUpLive

-----------------------------------------------------------------------------
(* The worker *)

(* Times there always are.                                                 *)
LEMMA Zero == 0 \in 0 .. MaxTime /\ Recent \in 0 .. MaxTime /\ 1 \in 0 .. MaxTime
  BY ConstantsAssumption

(* A view that is live.                                                    *)
LEMMA LiveIsHistory ==
  LiveHistory \in Histories /\ LiveHistory.live /\ LiveHistory.requested = 0
  BY Zero DEF LiveHistory, Histories

(* A step of the worker that uses the view as it should, to a place where  *)
(* the engine shows what PastIsOnItsWay and GivesUpLive allow.             *)
LEMMA WorkerKeeps ==
  ASSUME IInv, Runs, TypeOK', UNCHANGED <<main, closed>>,
         closed # "open" => \/ worker.at = "start" /\ worker'.at = "ended"
                            \/ worker.at = "load" /\ misused' = "worker",
         misused' \in {"", "worker"}, misused' = "worker" => closed = "load",
         (hist'.live \/ main # "idle") /\ ~crossed' /\ engine' # 0
           => worker'.at \in {"loaded", "undo"},
         worker'.at = "give up" => engine' = 0
  PROVE  IInv'
<1>1. MisuseExplained'
  BY DEF MisuseExplained
<1>2. CloseWaited'
  BY DEF IInv, CloseWaited, Runs
<1>3. PastIsOnItsWay' /\ GivesUpLive'
  BY DEF PastIsOnItsWay, GivesUpLive
<1> QED BY <1>1, <1>2, <1>3 DEF IInv

LEMMA StartInv == ASSUME IInv, Start PROVE IInv'
<1>1. /\ UNCHANGED <<exists, range, timers, look, bar, rows, loader, main, closed, inputs,
                     engine, hist, crossed, flags, queue, misused>>
      /\ Runs /\ worker.at = "start"
  BY DEF Start, workerRest
<1>2. worker' \in Workers /\ worker'.at = IF closed = "open" THEN "top" ELSE "ended"
  BY DEF IInv, TypeOK, Start, View, Workers
<1>3. TypeOK'
  BY <1>1, <1>2 DEF IInv, TypeOK
<1>4. ~ ((hist'.live \/ main # "idle") /\ ~crossed' /\ engine' # 0)
  BY <1>1 DEF IInv, PastIsOnItsWay
<1>5. closed # "open" => \/ worker.at = "start" /\ worker'.at = "ended"
                         \/ worker.at = "load" /\ misused' = "worker"
  BY <1>1, <1>2
<1> QED
  BY <1>1, <1>2, <1>3, <1>4, <1>5, WorkerKeeps DEF Runs

LEMMA TopInv == ASSUME IInv, Top PROVE IInv'
<1>1. /\ UNCHANGED <<exists, range, timers, look, bar, rows, loader, main, closed, inputs,
                     engine, hist, crossed, flags, queue, misused>>
      /\ Runs /\ worker.at = "top" /\ closed = "open"
  BY DEF Top, workerRest, View
<1>2. worker' \in Workers /\ worker'.at \in {"take", "load"}
  BY DEF IInv, TypeOK, Top, Histories, Workers
<1>3. TypeOK'
  BY <1>1, <1>2 DEF IInv, TypeOK
<1>4. ~ ((hist'.live \/ main # "idle") /\ ~crossed' /\ engine' # 0)
  BY <1>1 DEF IInv, PastIsOnItsWay
<1> QED
  BY <1>1, <1>2, <1>3, <1>4, WorkerKeeps DEF Runs

LEMMA LoadInv == ASSUME IInv, Load PROVE IInv'
<1>1. /\ UNCHANGED <<exists, range, timers, look, bar, rows, loader, main, closed, inputs,
                     hist, crossed, flags, queue>>
      /\ Runs /\ worker.at = "load"
      /\ misused' = IF closed = "open" THEN "" ELSE "worker"
  BY DEF Load, workerRest, View
<1>2. engine' \in 0 .. MaxTime
  BY Zero DEF IInv, TypeOK, Load, Workers
<1>3. worker' \in Workers
      /\ \/ worker'.at = "loaded"
         \/ worker'.at = "give up" /\ engine' = 0
  BY DEF IInv, TypeOK, Load, Workers
<1>4. TypeOK'
  BY <1>1, <1>2, <1>3 DEF IInv, TypeOK
<1>5. closed = "open" \/ closed = "load"
  BY <1>1 DEF IInv, TypeOK, CloseWaited, Long
<1> QED
  BY <1>1, <1>3, <1>4, <1>5, WorkerKeeps

(* No other step of the worker follows a close.                            *)
LEMMA OtherwiseOpen ==
  ASSUME IInv, Runs, worker.at \notin {"start", "load", "ended"}
  PROVE  closed = "open"
  BY DEF IInv, TypeOK, CloseWaited, Long, Runs

(* The queue holds messages.                                               *)
LEMMA SendsMessage ==
  ASSUME queue \in Seq(Messages), NEW m \in Messages, Sends(m) \/ UNCHANGED queue
  PROVE  queue' \in Seq(Messages)
  BY DEF Sends

LEMMA GiveUpInv == ASSUME IInv, GiveUp PROVE IInv'
<1>1. /\ UNCHANGED <<exists, range, timers, look, bar, rows, loader, main, closed, inputs,
                     engine, crossed, misused>>
      /\ Runs /\ worker.at = "give up" /\ hist' = LiveHistory
      /\ flags' = flags \cup {"skip_wait"} /\ Sends(NoRows)
  BY DEF GiveUp, workerRest
<1>2. worker' \in Workers /\ worker'.at = "top"
  BY Zero DEF IInv, TypeOK, GiveUp, Workers
<1>3. hist' \in Histories /\ hist'.live /\ hist'.requested = 0
  BY <1>1, LiveIsHistory
<1>4. queue' \in Seq(Messages)
  BY <1>1, SendsMessage DEF IInv, TypeOK, Messages
<1>5. TypeOK'
  BY <1>1, <1>2, <1>3, <1>4 DEF IInv, TypeOK
<1>6. engine' = 0 /\ closed = "open"
  BY <1>1, OtherwiseOpen DEF IInv, GivesUpLive
<1> QED
  BY <1>1, <1>2, <1>5, <1>6, WorkerKeeps DEF Runs

LEMMA RecheckInv == ASSUME IInv, Recheck PROVE IInv'
<1>1. /\ UNCHANGED <<exists, range, timers, look, bar, rows, loader, main, closed, inputs,
                     engine, hist, flags, queue, misused>>
      /\ Runs /\ worker.at = "loaded"
      /\ crossed' = (crossed \/ (~hist.live /\ main # "idle" /\ engine # 0))
  BY DEF Recheck, workerRest
<1>2. worker' \in Workers /\ worker'.at = IF hist.live THEN "undo" ELSE "clear"
  BY DEF IInv, TypeOK, Recheck, Workers
<1>3. TypeOK'
  <2>1. crossed' \in BOOLEAN
    BY <1>1
  <2> QED
    BY <1>1, <1>2, <2>1 DEF IInv, TypeOK
<1>4. (hist'.live \/ main # "idle") /\ ~crossed' /\ engine' # 0 => worker'.at = "undo"
  BY <1>1, <1>2
<1>5. closed = "open"
  BY <1>1, OtherwiseOpen
<1> QED
  BY <1>1, <1>2, <1>3, <1>4, <1>5, WorkerKeeps DEF Runs

LEMMA UndoInv == ASSUME IInv, Undo PROVE IInv'
<1>1. /\ UNCHANGED <<exists, range, timers, look, bar, rows, loader, main, closed, inputs,
                     hist, crossed, flags, queue, misused>>
      /\ Runs /\ worker.at = "undo" /\ engine' = 0
  BY DEF Undo, workerRest
<1>2. worker' \in Workers /\ worker'.at = "take"
  BY Zero DEF IInv, TypeOK, Undo, Workers
<1>3. TypeOK'
  BY <1>1, <1>2, Zero DEF IInv, TypeOK
<1>4. closed = "open"
  BY <1>1, OtherwiseOpen
<1> QED
  BY <1>1, <1>2, <1>3, <1>4, WorkerKeeps DEF Runs

LEMMA ClearInv == ASSUME IInv, Clear PROVE IInv'
<1>1. /\ UNCHANGED <<exists, range, timers, look, bar, rows, loader, main, closed, inputs,
                     engine, flags, queue, misused>>
      /\ Runs /\ worker.at = "clear"
  BY DEF Clear, workerRest
<1>2. worker' \in Workers /\ worker'.at = "take"
  BY Zero DEF IInv, TypeOK, Clear, Workers
<1>3. hist' \in Histories /\ hist'.live = hist.live /\ hist'.requested = hist.requested
  BY DEF IInv, TypeOK, Clear, Histories
<1>4. crossed' \in BOOLEAN /\ (crossed => crossed')
  BY DEF IInv, TypeOK, Clear
<1>5. TypeOK'
  BY <1>1, <1>2, <1>3, <1>4 DEF IInv, TypeOK
<1>6. ~ ((hist'.live \/ main # "idle") /\ ~crossed' /\ engine' # 0)
  BY <1>1, <1>3, <1>4 DEF IInv, PastIsOnItsWay
<1>7. closed = "open"
  BY <1>1, OtherwiseOpen
<1> QED
  BY <1>1, <1>2, <1>5, <1>6, <1>7, WorkerKeeps DEF Runs

LEMMA TakeInv == ASSUME IInv, Take PROVE IInv'
<1>1. /\ UNCHANGED <<exists, range, timers, look, bar, rows, loader, main, closed, inputs,
                     engine, hist, crossed, queue, misused>>
      /\ Runs /\ worker.at = "take" /\ flags' = flags \ {"skip_wait"}
  BY DEF Take, workerRest
<1>2. worker' \in Workers /\ worker'.at = "list"
  BY DEF IInv, TypeOK, Take, Workers
<1>3. TypeOK'
  BY <1>1, <1>2 DEF IInv, TypeOK
<1>4. ~ ((hist'.live \/ main # "idle") /\ ~crossed' /\ engine' # 0)
  BY <1>1 DEF IInv, PastIsOnItsWay
<1>5. closed = "open"
  BY <1>1, OtherwiseOpen
<1> QED
  BY <1>1, <1>2, <1>3, <1>4, <1>5, WorkerKeeps DEF Runs

LEMMA ListInv == ASSUME IInv, List PROVE IInv'
<1>1. /\ UNCHANGED <<exists, range, timers, look, bar, rows, loader, main, closed, inputs,
                     engine, hist, crossed, misused>>
      /\ Runs /\ worker.at = "list"
  BY DEF List, workerRest
<1>2. worker' \in Workers /\ worker'.at = "top"
  BY Zero DEF IInv, TypeOK, List, Workers, NewWorker
<1>3. queue' \in Seq(Messages) /\ flags' \subseteq flags
  <2> DEFINE list == [time |-> engine, look |-> look]
  <2>1. list \in Messages /\ NoRows \in Messages
    BY DEF IInv, TypeOK, Messages, Rows
  <2>2. (Sends(NoRows) \/ Sends(list) \/ UNCHANGED queue) /\ flags' \subseteq flags
    BY DEF List
  <2> HIDE DEF list
  <2> QED
    BY <2>1, <2>2, SendsMessage DEF IInv, TypeOK
<1>4. TypeOK'
  BY <1>1, <1>2, <1>3 DEF IInv, TypeOK
<1>5. ~ ((hist'.live \/ main # "idle") /\ ~crossed' /\ engine' # 0)
  BY <1>1 DEF IInv, PastIsOnItsWay
<1>6. closed = "open"
  BY <1>1, OtherwiseOpen
<1> QED
  BY <1>1, <1>2, <1>4, <1>5, <1>6, WorkerKeeps DEF Runs

-----------------------------------------------------------------------------
(* The main thread *)

(* A step that leaves the engine and the worker alone, and does not bring  *)
(* the view to live.                                                       *)
LEMMA MainKeeps ==
  ASSUME IInv, Runs, TypeOK', UNCHANGED <<engine, crossed, worker, closed>>,
         hist'.live \/ main' # "idle" => hist.live \/ main # "idle",
         misused' # "worker", misused' = "bounds" => closed # "open"
  PROVE  IInv'
<1>1. MisuseExplained' /\ CloseWaited'
  BY DEF IInv, MisuseExplained, CloseWaited, Runs
<1>2. PastIsOnItsWay' /\ GivesUpLive'
  BY DEF IInv, PastIsOnItsWay, GivesUpLive
<1> QED BY <1>1, <1>2 DEF IInv

(* A step that turns the engine back to live.                              *)
LEMMA LiveKeeps ==
  ASSUME IInv, Runs, TypeOK', UNCHANGED <<crossed, worker, closed, misused>>, engine' = 0
  PROVE  IInv'
<1>1. MisuseExplained' /\ CloseWaited'
  BY DEF IInv, MisuseExplained, CloseWaited, Runs
<1>2. PastIsOnItsWay' /\ GivesUpLive'
  BY DEF IInv, PastIsOnItsWay, GivesUpLive
<1> QED BY <1>1, <1>2 DEF IInv

(* Bounds are kept.                                                        *)
LEMMA Counted ==
  ASSUME inputs \in 0 .. MaxInputs, inputs < MaxInputs, inputs' = inputs + 1
  PROVE  inputs' \in 0 .. MaxInputs
  BY ConstantsAssumption

LEMMA FeedbackInv == ASSUME IInv, Feedback PROVE IInv'
<1>1. /\ UNCHANGED <<exists, engine, hist, range, crossed, flags, timers, look, worker, main,
                     bar, closed, misused, inputs>>
      /\ Runs /\ loader' = FALSE
  BY DEF Feedback, Open, history
<1>2. queue' \in Seq(Messages) /\ rows' \in Messages
  <2>1. /\ queue # <<>> /\ queue' = Tail(queue)
        /\ rows' = rows \/ rows' = Head(queue)
    BY DEF Feedback
  <2>2. queue \in Seq(Messages) /\ rows \in Messages
    BY DEF IInv, TypeOK
  <2> QED
    BY <2>1, <2>2
<1>3. TypeOK'
  BY <1>1, <1>2 DEF IInv, TypeOK
<1> QED
  BY <1>1, <1>3, MainKeeps DEF Runs

LEMMA ApplyTimerInv == ASSUME IInv, ApplyTimer PROVE IInv'
<1>1. /\ UNCHANGED <<exists, engine, range, crossed, look, worker, main, bar, queue, rows,
                     closed, misused, inputs>>
      /\ Runs /\ timers' \subseteq timers /\ loader' = TRUE
      /\ flags' = (flags \cup {"skip_wait"}) \ {"skip_update"}
  BY DEF ApplyTimer, Fires, Open
<1>2. hist' \in Histories /\ hist'.live = hist.live /\ hist'.requested = hist.requested
  BY DEF IInv, TypeOK, ApplyTimer, Histories
<1>3. TypeOK'
  BY <1>1, <1>2 DEF IInv, TypeOK
<1> QED
  BY <1>1, <1>2, <1>3, MainKeeps DEF Runs

LEMMA ShowTimerInv == ASSUME IInv, ShowTimer \/ ResizeTimer PROVE IInv'
<1>1. /\ UNCHANGED <<exists, engine, hist, range, crossed, look, worker, main, bar, queue, rows,
                     loader, closed, misused, inputs>>
      /\ Runs /\ timers' \subseteq timers /\ flags' \subseteq flags \cup {"skip_wait"}
  BY DEF ShowTimer, ResizeTimer, Fires, Open, history, window
<1>2. TypeOK'
  BY <1>1 DEF IInv, TypeOK
<1> QED
  BY <1>1, <1>2, MainKeeps DEF Runs

LEMMA BoundsInv == ASSUME IInv, Bounds PROVE IInv'
<1>1. /\ UNCHANGED <<exists, engine, hist, crossed, flags, timers, look, worker, main, bar,
                     queue, rows, loader, closed, inputs>>
      /\ Runs
      /\ misused' # misused => misused' = "bounds" /\ closed # "open"
  BY DEF Bounds
<1>2. range' \in Ranges
  BY Zero DEF IInv, TypeOK, Bounds, BoundsStart, Ranges
<1>3. TypeOK'
  BY <1>1, <1>2 DEF IInv, TypeOK
<1> QED
  BY <1>1, <1>3, MainKeeps DEF Runs

(* evisum_ui_process_list_history_bounds_update gives a range.             *)
LEMMA BoundsUpdateType ==
  ASSUME NEW r \in Ranges, NEW whole
  PROVE  BoundsUpdate(r, whole) \in Ranges
  BY DEF BoundsUpdate, Ranges

(* A request of a time the engine has a log for takes the view to the past. *)
LEMMA RequestPast ==
  ASSUME TypeOK, NEW t, NEW sliding \in BOOLEAN, Request(t, sliding)
  PROVE  /\ hist' \in Histories /\ ~hist'.live /\ hist'.requested # 0
         /\ timers' = timers \cup {"apply"}
<1>1. t \in 1 .. MaxTime
  BY DEF TypeOK, Request, Times
<1>2. t \in 0 .. MaxTime /\ t # 0
  BY <1>1, ConstantsAssumption
<1> QED
  BY <1>2 DEF Request, Histories

LEMMA MouseDownInv == ASSUME IInv, MouseDown PROVE IInv'
<1>1. /\ UNCHANGED <<exists, engine, crossed, range, look, worker, main, bar, queue, rows,
                     loader, closed, misused, flags>>
      /\ Runs /\ Input /\ timers' \subseteq timers
  BY DEF MouseDown, Input, Open, historyRest, window
<1>2. hist' \in Histories /\ hist'.live = hist.live /\ hist'.requested = hist.requested
  BY DEF IInv, TypeOK, MouseDown, Histories
<1>3. TypeOK'
  BY <1>1, <1>2, Counted DEF Input, IInv, TypeOK
<1> QED
  BY <1>1, <1>2, <1>3, MainKeeps DEF Runs

LEMMA MouseUpInv == ASSUME IInv, MouseUp PROVE IInv'
<1>1. /\ UNCHANGED <<exists, engine, crossed, range, look, worker, main, bar, queue, rows,
                     loader, closed, misused, flags, inputs>>
      /\ Runs /\ timers' \subseteq timers \cup {"apply"}
  BY DEF MouseUp, Open, Request, historyRest, window
<1>2. /\ hist' \in Histories /\ (hist'.live <=> hist'.requested = 0)
      /\ hist'.live => hist.live
  <2>1. CASE \E t \in Slider : Request(t, FALSE)
    BY <2>1, RequestPast DEF IInv
  <2>2. CASE hist' = [hist EXCEPT !.sliding = FALSE]
    BY <2>2 DEF IInv, TypeOK, Histories
  <2> QED
    BY <2>1, <2>2 DEF MouseUp
<1>3. TypeOK'
  BY <1>1, <1>2 DEF IInv, TypeOK
<1> QED
  BY <1>1, <1>2, <1>3, MainKeeps DEF Runs

LEMMA ArrowKeyInv == ASSUME IInv, ArrowKey PROVE IInv'
<1>1. /\ UNCHANGED <<exists, engine, crossed, range, look, worker, main, bar, queue, rows,
                     loader, closed, misused>>
      /\ Runs /\ Input /\ flags' = flags \cup {"skip_wait"}
  BY DEF ArrowKey, Input, Open, historyRest, window
<1>2. /\ hist' \in Histories /\ ~hist'.live /\ hist'.requested # 0
      /\ timers' = timers \cup {"apply"}
  <2>1. PICK t : Request(t, hist.sliding)
    BY DEF ArrowKey
  <2>2. hist.sliding \in BOOLEAN
    BY DEF IInv, TypeOK, Histories
  <2> QED
    BY <2>1, <2>2, RequestPast DEF IInv
<1>3. TypeOK'
  BY <1>1, <1>2, Counted DEF Input, IInv, TypeOK
<1> QED
  BY <1>1, <1>2, <1>3, MainKeeps DEF Runs

LEMMA LiveClickedInv == ASSUME IInv, LiveClicked PROVE IInv'
<1>1. /\ UNCHANGED <<exists, hist, crossed, range, flags, timers, look, worker, bar, queue, rows,
                     loader, closed, misused>>
      /\ Runs /\ Input /\ engine' = 0 /\ main' = "live"
  BY DEF LiveClicked, Input, Open, liveRest
<1>2. TypeOK'
  BY <1>1, Counted, Zero DEF Input, IInv, TypeOK
<1> QED
  BY <1>1, <1>2, LiveKeeps

LEMMA LiveDoneInv == ASSUME IInv, LiveDone PROVE IInv'
<1>1. /\ UNCHANGED <<exists, engine, crossed, look, worker, bar, queue, rows, closed, misused,
                     inputs>>
      /\ Runs /\ main = "live" /\ main' = "idle" /\ hist' = LiveHistory
      /\ timers' \subseteq timers /\ loader' = FALSE
      /\ flags' = (flags \cup {"skip_wait"}) \ {"skip_update"}
  BY DEF LiveDone, liveRest
<1>2. range' \in Ranges
  BY BoundsUpdateType DEF LiveDone, IInv, TypeOK
<1>3. TypeOK'
  BY <1>1, <1>2, LiveIsHistory DEF IInv, TypeOK
<1> QED
  BY <1>1, <1>3, MainKeeps DEF Runs

LEMMA BarOffInv == ASSUME IInv, BarOff PROVE IInv'
<1>1. /\ UNCHANGED <<exists, hist, crossed, range, timers, look, worker, bar, queue, rows,
                     loader, closed, misused>>
      /\ Runs /\ Input /\ engine' = 0 /\ main' = "bar" /\ flags' = flags \cup {"skip_wait"}
  BY DEF BarOff, Input, Open, liveRest
<1>2. TypeOK'
  BY <1>1, Counted, Zero DEF Input, IInv, TypeOK
<1> QED
  BY <1>1, <1>2, LiveKeeps

LEMMA BarOffDoneInv == ASSUME IInv, BarOffDone PROVE IInv'
<1>1. /\ UNCHANGED <<exists, engine, crossed, flags, look, worker, queue, rows, closed, misused,
                     inputs>>
      /\ Runs /\ main = "bar" /\ main' = "idle" /\ hist' = LiveHistory
      /\ timers' \subseteq timers /\ loader' = FALSE /\ bar' = FALSE
  BY DEF BarOffDone, liveRest
<1>2. range' \in Ranges
  BY DEF BarOffDone, IInv, TypeOK, Ranges
<1>3. TypeOK'
  BY <1>1, <1>2, LiveIsHistory DEF IInv, TypeOK
<1> QED
  BY <1>1, <1>3, MainKeeps DEF Runs

LEMMA BarOnInv == ASSUME IInv, BarOn PROVE IInv'
<1>1. /\ UNCHANGED <<exists, engine, crossed, hist, timers, look, worker, main, queue, rows,
                     loader, closed, misused>>
      /\ Runs /\ Input /\ bar' = TRUE /\ flags' = flags \cup {"skip_wait"}
  BY DEF BarOn, Input, Open, liveRest
<1>2. range' \in Ranges
  BY BoundsUpdateType DEF BarOn, IInv, TypeOK
<1>3. TypeOK'
  BY <1>1, <1>2, Counted DEF Input, IInv, TypeOK
<1> QED
  BY <1>1, <1>3, MainKeeps DEF Runs

LEMMA WholeChangedInv == ASSUME IInv, WholeChanged PROVE IInv'
<1>1. /\ UNCHANGED <<exists, crossed, hist, timers, look, worker, bar, queue, rows, loader,
                     closed, misused>>
      /\ Runs /\ Input /\ main = "idle" /\ flags' = flags \cup {"skip_wait"}
  BY DEF WholeChanged, Input, Open, liveRest
<1>2. range' \in Ranges
  <2> DEFINE r == [start |-> 0, whole |-> ~range.whole, thread |-> "none"]
  <2>1. r \in Ranges
    BY Zero DEF Ranges
  <2>2. range' = BoundsUpdate(r, ~range.whole)
    BY DEF WholeChanged
  <2> HIDE DEF r
  <2> QED
    BY <2>1, <2>2, BoundsUpdateType
<1>3. \/ main' = "whole" /\ engine' = 0
      \/ main' = "idle" /\ engine' = engine
  BY DEF WholeChanged
<1>4. TypeOK'
  BY <1>1, <1>2, <1>3, Counted, Zero DEF Input, IInv, TypeOK
<1> QED
  BY <1>1, <1>3, <1>4, LiveKeeps, MainKeeps DEF Runs

LEMMA WholeDoneInv == ASSUME IInv, WholeDone PROVE IInv'
<1>1. /\ UNCHANGED <<exists, engine, crossed, range, flags, timers, look, worker, bar, queue,
                     rows, closed, misused, inputs>>
      /\ Runs /\ main = "whole" /\ main' = "idle" /\ hist' = LiveHistory /\ loader' = FALSE
  BY DEF WholeDone, liveRest
<1>2. TypeOK'
  BY <1>1, LiveIsHistory DEF IInv, TypeOK
<1> QED
  BY <1>1, <1>2, MainKeeps DEF Runs

(* What the user does to the list, but for closing its window.             *)
LEMMA ListInputInv ==
  ASSUME IInv,
         SortClicked \/ SearchKey \/ Scrolled \/ ScrollStopped \/ FieldsChanged \/ Resized
  PROVE  IInv'
<1>1. /\ UNCHANGED <<exists, engine, hist, range, crossed, worker, main, bar, queue, rows,
                     loader, closed>>
      /\ Runs /\ Input
      /\ UNCHANGED misused \/ misused' \in {"", "search"}
  BY DEF SortClicked, SearchKey, Scrolled, ScrollStopped, FieldsChanged, Resized, Input, Open,
         uiRest, history
<1>2. flags' \subseteq {"skip_wait", "skip_update"}
  BY DEF IInv, TypeOK, SortClicked, SearchKey, Scrolled, ScrollStopped, FieldsChanged, Resized
<1>3. timers' \subseteq timers \cup {"search", "resize", "fields"}
  BY DEF SortClicked, SearchKey, Scrolled, ScrollStopped, FieldsChanged, Resized
<1>4. look' \in Look
  BY DEF IInv, TypeOK, Look, SortClicked, SearchKey, Scrolled, ScrollStopped, FieldsChanged,
         Resized
<1>5. TypeOK'
  <2>1. inputs' \in 0 .. MaxInputs
    BY <1>1, Counted DEF Input, IInv, TypeOK
  <2>2. TypeOK
    BY DEF IInv
  <2> QED
    BY <1>1, <1>2, <1>3, <1>4, <2>1, <2>2 DEF TypeOK
<1> QED
  BY <1>1, <1>5, MainKeeps DEF Runs

LEMMA CloseInv == ASSUME IInv, Close PROVE IInv'
<1>1. /\ UNCHANGED <<exists, crossed, look, bar, main, misused>>
      /\ Runs /\ Input /\ engine' = 0 /\ hist' = LiveHistory
      /\ timers' = {} /\ queue' = <<>> /\ flags' = {} /\ loader' = FALSE /\ rows' = NoRows
  BY DEF Close, Input, Open
<1>2. /\ worker' \in Workers
      /\ \/ closed' \in Long /\ closed' = worker'.at
         \/ closed' = "closed" /\ worker'.at = "ended"
  BY Zero DEF IInv, TypeOK, Close, Workers, NewWorker
<1>3. range' \in Ranges
  BY DEF IInv, TypeOK, Close, Ranges
<1>4. TypeOK'
  <2>1. inputs' \in 0 .. MaxInputs
    BY <1>1, Counted DEF Input, IInv, TypeOK
  <2>2. queue' \in Seq(Messages) /\ rows' \in Messages
    BY <1>1 DEF Messages
  <2>3. closed' \in {"open", "closed"} \cup Long
    BY <1>2
  <2> QED
    BY <1>1, <1>2, <1>3, <2>1, <2>2, <2>3, Zero, LiveIsHistory DEF IInv, TypeOK
<1>5. MisuseExplained' /\ CloseWaited'
  BY <1>1, <1>2 DEF MisuseExplained, CloseWaited, Runs, Long
<1>6. PastIsOnItsWay' /\ GivesUpLive'
  BY <1>1 DEF PastIsOnItsWay, GivesUpLive
<1> QED BY <1>4, <1>5, <1>6 DEF IInv

LEMMA LoseInv == ASSUME IInv, NEW t \in Times, Lose(t) PROVE IInv'
<1>1. /\ UNCHANGED <<engine, hist, range, crossed, flags, timers, look, worker, main, bar, queue,
                     rows, loader, closed, misused>>
      /\ Runs /\ exists' \subseteq exists
  BY DEF Lose, window
<1>2. inputs' \in 0 .. MaxInputs
  BY Counted DEF IInv, TypeOK, Lose
<1>3. TypeOK'
  BY <1>1, <1>2 DEF IInv, TypeOK
<1> QED
  BY <1>1, <1>3, MainKeeps DEF Runs

-----------------------------------------------------------------------------
LEMMA InitInv == Init => IInv
<1> SUFFICES ASSUME Init PROVE IInv
  OBVIOUS
<1>1. worker \in Workers /\ worker.at = "start"
  BY Zero DEF Init, NewWorker, Workers
<1>2. range \in Ranges /\ look \in Look
  BY Zero DEF Init, Ranges, Look
<1>3. queue \in Seq(Messages) /\ rows \in Messages
  <2>1. queue = <<>> /\ rows = NoRows
    BY DEF Init
  <2> QED
    BY <2>1 DEF Messages
<1>4. inputs \in 0 .. MaxInputs
  <2>1. inputs = 0
    BY DEF Init
  <2> QED
    BY <2>1, ConstantsAssumption
<1>5. TypeOK
  BY <1>1, <1>2, <1>3, <1>4, Zero, LiveIsHistory DEF Init, TypeOK
<1> QED
  BY <1>1, <1>5 DEF Init, IInv, MisuseExplained, CloseWaited, PastIsOnItsWay, GivesUpLive

LEMMA NextInv == IInv /\ [Next]_vars => IInv'
<1> SUFFICES ASSUME IInv, [Next]_vars PROVE IInv'
  OBVIOUS
<1>1. CASE Worker
  BY <1>1, StartInv, TopInv, LoadInv, GiveUpInv, RecheckInv, UndoInv, ClearInv, TakeInv,
     ListInv DEF Worker
<1>2. CASE Feedback \/ Timers \/ Bounds \/ MouseUp
  BY <1>2, FeedbackInv, ApplyTimerInv, ShowTimerInv, BoundsInv, MouseUpInv DEF Timers
<1>3. CASE Rest
  BY <1>3, LiveDoneInv, BarOffDoneInv, WholeDoneInv DEF Rest
<1>4. CASE User
  BY <1>4, MouseDownInv, ArrowKeyInv, LiveClickedInv, BarOffInv, BarOnInv, WholeChangedInv,
     ListInputInv, CloseInv DEF User
<1>5. CASE \E t \in Times : Lose(t)
  BY <1>5, LoseInv
<1>6. CASE UNCHANGED vars
  <2>1. UNCHANGED <<exists, engine, hist, range, crossed, flags, timers, look, bar, queue,
                    rows, loader, closed, misused, worker, main, inputs>>
    BY <1>6 DEF vars, history, window
  <2>2. TypeOK'
    BY <2>1 DEF IInv, TypeOK
  <2> QED
    BY <2>1, <2>2 DEF IInv, MisuseExplained, CloseWaited, PastIsOnItsWay, GivesUpLive
<1> QED BY <1>1, <1>2, <1>3, <1>4, <1>5, <1>6 DEF Next

(* The types of the window, the history and the worker hold; memory is     *)
(* used after it was freed only by a key of the search or after a close    *)
(* that did not wait long enough; and the engine is live whenever the view *)
(* says so and the worker is about to decide: whatever the times of the    *)
(* history are and however much the user does.                             *)
THEOREM WindowCorrect == Spec => []WindowInv
<1>1. IInv => WindowInv
  BY DEF IInv, WindowInv, PastIsOnItsWay, EngineFollows
<1> QED BY <1>1, InitInv, NextInv, PTL DEF Spec
=============================================================================
