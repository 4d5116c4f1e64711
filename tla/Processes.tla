----------------------------- MODULE Processes -----------------------------
(***************************************************************************)
(* Processes, from the probe that lists them to the windows that show what *)
(* they move.  The daemon's monitor keeps a cache by pid, adds up what the *)
(* open sockets of a process report, and writes what changed to the log;   *)
(* the client turns the records into a list again; the process list and    *)
(* the window of one process turn totals into rates, each with a cache of  *)
(* its own.  Pids are used again, sockets are closed, a dump of the        *)
(* sockets may fail, the client may be late, and the engine may show the   *)
(* past.  `kind' says which of the two windows is open.                    *)
(***************************************************************************)
EXTENDS Integers, Sequences, FiniteSets, SequencesExt

CONSTANTS
  Pids,       \* process ids
  Own,        \* the pid the window of one process is opened on
  MaxStarts,  \* bound: processes that ever start
  MaxTime,    \* bound: seconds
  MaxBehind,  \* bound: blocks the client has not read
  MaxQueue,   \* bound: messages the main thread has not handled
  MaxInputs   \* bound: what the user does, sockets closed, dumps that fail,
              \* blocks out of turn, broadcasts but for the first

ASSUME ProcessesAssumption ==
  /\ Own \in Pids /\ IsFiniteSet(Pids)
  /\ MaxStarts \in Nat \ {0} /\ MaxTime \in Nat \ {0}
  /\ MaxBehind \in Nat \ {0} /\ MaxQueue \in Nat \ {0} /\ MaxInputs \in Nat

VARIABLES
  os,       \* the processes there are
  starts,   \* how many ever started: they tell processes of one pid apart
  busy,     \* the pids that had their traffic of this second
  now,      \* the second of the last block
  daemon,   \* the monitor's cache, NoCache before the first poll
  log,      \* the blocks the client has not read
  live,     \* the client's list and the time of its last block
  past,     \* a list of the past, and whether the engine shows it
  kind,     \* "view" or "list"
  signal,   \* whether there is an update the window's worker has not seen
  win,      \* the window
  worker,   \* its thread
  queue,    \* processes on their way to the main thread
  man,      \* threads that read a manual page
  misused,  \* who used the view after it was freed
  irregular,  \* what ever was out of the ordinary: a dump of the sockets that
              \* failed, a block out of turn, totals taken for another second's
  inputs

system == <<os, starts, busy>>
engine == <<live, past>>
window == <<win, worker, queue, man, misused>>
processesVars == <<system, now, daemon, log, engine, kind, signal, window, irregular, inputs>>

-----------------------------------------------------------------------------
Gone == [start |-> 0]
NoCache == [p \in {} |-> Gone]
NoList == [time |-> 0, list |-> <<>>]
NoEntry == [start |-> 0, time |-> 0, abs |-> 0, rate |-> 0]

Running == [start : 1 .. MaxStarts, raw : Nat, moved : Nat]
Cached == [start : 1 .. MaxStarts, raw : Nat, net : Nat]
Process == [pid : Pids, start : 1 .. MaxStarts, net : Nat]
Lists == [time : 0 .. MaxTime, list : Seq(Process)]
Message == [type : {"refresh", "add", "mod", "del"},
            pid : Pids, start : 0 .. MaxStarts, net : Int]
Sampled == [start : 0 .. MaxStarts, time : 0 .. MaxTime, abs : Nat, rate : Nat]
Buttons == {"start", "stop", "kill"}

ProcessesTyped ==
  /\ os \in [Pids -> {Gone} \cup Running]
  /\ starts \in 0 .. MaxStarts /\ busy \subseteq Pids /\ now \in 0 .. MaxTime
  /\ daemon = NoCache \/ daemon \in [Pids -> {Gone} \cup Cached]
  /\ log \in Seq([time : 1 .. MaxTime, recs : Seq(Message)]) /\ Len(log) <= MaxBehind
  /\ live \in Lists /\ past \in [seen : Lists, shown : BOOLEAN]
  /\ kind \in {"view", "list"} /\ signal \in BOOLEAN
  /\ win \in [state : {"new", "open", "freed"}, start : 0 .. MaxStarts,
              gone : BOOLEAN, buttons : SUBSET Buttons, thread : BOOLEAN,
              manual : BOOLEAN, how : SUBSET {"gone", "late", "manual"},
              cache : [Pids -> Sampled], rows : [Pids -> Sampled]]
  /\ worker \in [at : {"wait", "look", "rates", "ended", "start"}, got : Lists]
  /\ queue \in Seq([proc : Process, time : 0 .. MaxTime]) /\ Len(queue) <= MaxQueue
  /\ man \in 0 .. 2 /\ misused \subseteq {"worker", "feedback", "manual"}
  /\ irregular \subseteq {"dump", "clock"} /\ inputs \in 0 .. MaxInputs

(* evisum_ui_process_view_win_add before it looks the process up.          *)
NewWindow ==
  [state |-> IF kind = "list" THEN "open" ELSE "new", start |-> 0,
   gone |-> FALSE, buttons |-> Buttons, thread |-> kind = "list",
   manual |-> FALSE,
   how |-> {},
   cache |-> [p \in Pids |-> NoEntry], rows |-> [p \in Pids |-> NoEntry]]

ProcessesInit ==
  /\ os = [p \in Pids |->
             IF p = Own THEN [start |-> 1, raw |-> 0, moved |-> 0] ELSE Gone]
  /\ starts = 1 /\ busy = {} /\ now = 0
  /\ daemon = NoCache /\ log = <<>>
  /\ live = NoList /\ past = [seen |-> NoList, shown |-> FALSE]
  /\ kind \in {"view", "list"}
  /\ signal = FALSE /\ win = NewWindow
  /\ worker = [at |-> IF kind = "list" THEN "look" ELSE "ended", got |-> NoList]
  /\ queue = <<>> /\ man = 0 /\ misused = {}
  /\ irregular = {} /\ inputs = 0

-----------------------------------------------------------------------------
(* The system.  `moved' is what a process moved in all, `raw' what its     *)
(* open sockets say, and a process moves at most one unit a second.  After *)
(* the last second nothing happens.                                        *)

systemRest == <<now, daemon, log, engine, kind, signal, window, irregular>>
Input == inputs < MaxInputs /\ inputs' = inputs + 1

Fork(p) ==
  /\ now < MaxTime /\ os[p] = Gone /\ starts < MaxStarts
  /\ starts' = starts + 1
  /\ os' = [os EXCEPT ![p] = [start |-> starts + 1, raw |-> 0, moved |-> 0]]
  /\ UNCHANGED <<busy, systemRest, inputs>>

Exit(p) ==
  /\ now < MaxTime /\ os[p] # Gone
  /\ os' = [os EXCEPT ![p] = Gone]
  /\ UNCHANGED <<starts, busy, systemRest, inputs>>

Traffic(p) ==
  /\ now < MaxTime /\ os[p] # Gone /\ p \notin busy
  /\ os' = [os EXCEPT ![p].raw = @ + 1, ![p].moved = @ + 1]
  /\ busy' = busy \cup {p}
  /\ UNCHANGED <<starts, systemRest, inputs>>

CloseSocket(p) ==
  /\ now < MaxTime /\ os[p] # Gone /\ Input
  /\ \E left \in 0 .. os[p].raw - 1 : os' = [os EXCEPT ![p].raw = left]
  /\ UNCHANGED <<starts, busy, systemRest>>

-----------------------------------------------------------------------------
(* The daemon: enigmatic_monitor_processes *)

(* The dump of all sockets, before the processes are listed, may fail.     *)
Dumps == BOOLEAN

(* _process_list_linux_get *)
Listed == {p \in Pids : os[p] # Gone}

(* What the sockets of a process report in sum; if the dump failed nobody  *)
(* has any.                                                                *)
Reported(p, dumped) == IF dumped THEN os[p].raw ELSE 0

(* What a process moved since it was first seen: a total that is smaller   *)
(* than the last one is where the counting goes on.                        *)
Counted(raw, prev) ==
  prev.net + (IF raw >= prev.raw THEN raw - prev.raw ELSE 0)

Same(p, cache) == p \in Listed /\ cache[p] # Gone /\ os[p].start = cache[p].start

(* What becomes of the cache of one process.                               *)
Entry(p, cache, dumped) ==
  LET raw == Reported(p, dumped) IN
  IF p \notin Listed THEN Gone
  ELSE [start |-> os[p].start, raw |-> raw,
        net |-> IF Same(p, cache) THEN Counted(raw, cache[p]) ELSE 0]

InCache(cache) == {p \in DOMAIN cache : cache[p] # Gone}
Log(p, entry) == [pid |-> p, start |-> entry.start, net |-> entry.net]

(* The records of a poll that finds `cache' and leaves `new': with a       *)
(* broadcast all there was, then who is gone, who came, who moved.  The    *)
(* one message of a broadcast is told here as one for each process.        *)
Tells(type, procs) ==
  SetToSeq({[type |-> type, pid |-> e.pid, start |-> e.start, net |-> e.net] : e \in procs})
Refresh(cache) == Tells("refresh", {Log(p, cache[p]) : p \in InCache(cache)})
Dels(cache) ==
  Tells("del", {Log(p, [start |-> 0, net |-> 0]) :
                  p \in {q \in InCache(cache) : ~Same(q, cache)}})
Adds(cache, new) ==
  Tells("add", {Log(p, new[p]) : p \in {q \in InCache(new) : ~Same(q, cache)}})
Mods(cache, new) ==
  Tells("mod", {Log(p, [start |-> 0, net |-> new[p].net - cache[p].net]) :
                  p \in {q \in InCache(new) : Same(q, cache) /\ new[q].net # cache[q].net}})

(* enigmatic_main, a block: with the log's first block, a new log, or from *)
(* time to time, a broadcast, which need not be a second after the last.   *)
(* One counter stands for sockets and disk.                                *)
Poll(broadcast, second, dumped) ==
  LET first == [p \in Pids |-> Entry(p, [q \in Pids |-> Gone], dumped)]
      cache == IF daemon = NoCache THEN first ELSE daemon
      new == [p \in Pids |-> Entry(p, cache, dumped)]
  IN
  /\ Len(log) < MaxBehind
  /\ broadcast \/ second = 1
  /\ IF second = 0 \/ ~dumped \/ (broadcast /\ daemon # NoCache)
     THEN Input ELSE UNCHANGED inputs
  /\ daemon = NoCache => broadcast /\ second = 1
  /\ now + second <= MaxTime /\ now' = now + second
  /\ busy' = IF second = 1 THEN {} ELSE busy
  /\ daemon' = new
  /\ log' = Append(log,
       [time |-> now + second,
        recs |-> (IF broadcast THEN Refresh(cache) ELSE <<>>)
                   \o Dels(cache) \o Adds(cache, new) \o Mods(cache, new)])
  /\ irregular' = irregular \cup (IF dumped THEN {} ELSE {"dump"})
                            \cup (IF second = 0 THEN {"clock"} ELSE {})
  /\ UNCHANGED <<os, starts, engine, kind, signal, window>>

-----------------------------------------------------------------------------
(* The client and the engine *)

(* The first entry of a pid.                                               *)
Of(list, pid) == {i \in DOMAIN list : list[i].pid = pid}
First(list, pid) == CHOOSE i \in Of(list, pid) : \A j \in Of(list, pid) : i <= j

Put(list, proc) ==
  IF Of(list, proc.pid) = {} THEN Append(list, proc)
  ELSE [list EXCEPT ![First(list, proc.pid)] = proc]

Without(list, pid) ==
  LET rest[n \in 0 .. Len(list)] ==
        IF n = 0 THEN <<>>
        ELSE IF list[n].pid = pid THEN rest[n - 1] ELSE Append(rest[n - 1], list[n])
  IN rest[Len(list)]

(* message_processes: what a message makes of the list.                    *)
Apply(list, msg) ==
  LET proc == [pid |-> msg.pid, start |-> msg.start, net |-> msg.net] IN
  CASE msg.type = "refresh" -> Put(list, proc)
    [] msg.type = "add" -> Append(list, proc)
    [] msg.type = "mod" ->
         IF Of(list, msg.pid) = {} THEN list
         ELSE [list EXCEPT ![First(list, msg.pid)].net = @ + msg.net]
    [] msg.type = "del" -> Without(list, msg.pid)

(* The list before and after each message of a block, and what the client  *)
(* has before and after each block.                                        *)
Applied(list, msgs) ==
  LET upTo[n \in 0 .. Len(msgs)] ==
        IF n = 0 THEN list ELSE Apply(upTo[n - 1], msgs[n])
  IN upTo
After(l, block) ==
  [time |-> block.time, list |-> Applied(l.list, block.recs)[Len(block.recs)]]
Reads(l, blocks) ==
  LET upTo[n \in 0 .. Len(blocks)] ==
        IF n = 0 THEN l ELSE After(upTo[n - 1], blocks[n])
  IN upTo

(* snapshot_seq is counted up, which a thread that waits will see.         *)
Tell == signal' = (worker.at # "ended")

(* enigmatic_client_read takes the blocks there are, and _cb_snapshot      *)
(* tells the windows.                                                      *)
ReadBlocks ==
  \E n \in 1 .. Len(log) :
    /\ live' = Reads(live, log)[n]
    /\ log' = SubSeq(log, n + 1, Len(log))
    /\ past' = IF past.seen = NoList THEN [past EXCEPT !.seen = live'] ELSE past
    /\ Tell
    /\ UNCHANGED <<system, now, daemon, kind, window, irregular, inputs>>

(* Then the blocks go on, and nothing changes in them.                     *)
Later ==
  /\ now = MaxTime /\ log = <<>> /\ Tell
  /\ UNCHANGED <<system, now, daemon, log, engine, kind, window, irregular, inputs>>

(* The engine is set to a time of the past, or back to live.               *)
Travel ==
  /\ past.seen # NoList /\ past.seen.time < live.time /\ Input
  /\ past' = [past EXCEPT !.shown = ~@]
  /\ Tell
  /\ UNCHANGED <<system, now, daemon, log, live, kind, window, irregular>>

(* _engine_snapshot_acquire *)
Shown == IF past.shown THEN past.seen ELSE live

-----------------------------------------------------------------------------
(* Rates: a cache entry and what is shown of a process *)

New(proc, time) ==
  [start |-> proc.start, time |-> time, abs |-> proc.net, rate |-> 0]

(* _evisum_ui_process_list_search_trim_cache: a rate over the seconds that *)
(* went by, one if none did; what was zero has no rate yet.                *)
ListEntry(c, proc, time) ==
  IF c.start # proc.start THEN New(proc, time)
  ELSE [New(proc, time) EXCEPT !.rate =
          IF c.abs # 0 /\ proc.net >= c.abs
          THEN (proc.net - c.abs) \div (IF c.time # 0 /\ time > c.time
                                        THEN time - c.time ELSE 1)
          ELSE 0]

(* Mutant of ViewEntry: a rate is what was moved since the last update.    *)
ViewEntryPerUpdate(c, proc, time) ==
  IF c.start # proc.start THEN [New(proc, time) EXCEPT !.rate = c.rate]
  ELSE IF time <= c.time THEN c
  ELSE [New(proc, time) EXCEPT !.rate =
          IF proc.net >= c.abs THEN proc.net - c.abs ELSE 0]

(* _evisum_ui_process_view_proc_info_feedback_cb: nothing new in a second  *)
(* that has its rate; another process leaves the last one's rate behind.   *)
ViewEntry(c, proc, time) ==
  IF c.start # proc.start THEN [New(proc, time) EXCEPT !.rate = c.rate]
  ELSE IF time <= c.time THEN c
  ELSE [New(proc, time) EXCEPT !.rate =
          IF proc.net >= c.abs THEN (proc.net - c.abs) \div (time - c.time) ELSE 0]

(* What the window shows of a process whose entry was `c' and is `new'.    *)
Row(c, proc, new) == [New(proc, new.time) EXCEPT !.rate =
                        IF c.start # proc.start THEN 0 ELSE new.rate]

-----------------------------------------------------------------------------
(* The window's thread *)

workerRest == <<system, now, daemon, log, engine, kind, man, inputs>>

Late(was, is) == irregular \cup (IF was # is THEN {"clock"} ELSE {})

Cancelled == win.gone \/ win.state = "freed"

(* Where the thread is after a round, or once it has begun.                *)
Round == IF Cancelled THEN "ended" ELSE "wait"

(* The first wait is for what comes after it.                              *)
Start ==
  /\ worker.at = "start"
  /\ worker' = [worker EXCEPT !.at = Round]
  /\ signal' = FALSE
  /\ UNCHANGED <<workerRest, win, queue, misused, irregular>>

(* evisum_background_update_wait: there is an update, and the thread looks *)
(* at the view, or none came in time.                                      *)
Wake ==
  /\ worker.at = "wait" /\ signal
  /\ signal' = FALSE
  /\ IF win.state = "freed"
     THEN /\ misused' = misused \cup {"worker"}
          /\ worker' = [worker EXCEPT !.at = "ended"]
     ELSE worker' = [worker EXCEPT !.at = "look"] /\ UNCHANGED misused
  /\ UNCHANGED <<workerRest, win, queue, irregular>>

Timeout ==
  /\ worker.at = "wait" /\ Cancelled
  /\ worker' = [worker EXCEPT !.at = "ended"]
  /\ UNCHANGED <<workerRest, signal, win, queue, misused, irregular>>

(* proc_info_by_pid: the first process of the pid, which goes to the main  *)
(* thread, or nothing.                                                     *)
Look ==
  /\ kind = "view" /\ worker.at = "look"
  /\ IF Of(Shown.list, Own) = {} THEN UNCHANGED queue
     ELSE /\ Len(queue) < MaxQueue
          /\ queue' = Append(queue, [proc |-> Shown.list[First(Shown.list, Own)],
                                     time |-> Shown.time])
  /\ worker' = [worker EXCEPT !.at = Round]
  /\ UNCHANGED <<workerRest, signal, win, misused, irregular>>

(* proc_info_all_get *)
GetList ==
  /\ kind = "list" /\ worker.at = "look"
  /\ worker' = [at |-> "rates", got |-> Shown]
  /\ UNCHANGED <<workerRest, signal, win, queue, misused, irregular>>

(* The time is asked for after the list, the history's if it is shown.     *)
(* Who is not in the list has no entry any more.                           *)
Rates ==
  /\ worker.at = "rates"
  /\ LET got == worker.got
         entry == [p \in Pids |->
           IF Of(got.list, p) = {} THEN NoEntry
           ELSE ListEntry(win.cache[p], got.list[First(got.list, p)], Shown.time)]
     IN win' = [win EXCEPT !.cache = entry, !.rows = entry]
  /\ irregular' = Late(worker.got.time, Shown.time)
  /\ worker' = [at |-> Round, got |-> NoList]
  /\ UNCHANGED <<workerRest, signal, queue, misused>>

-----------------------------------------------------------------------------
(* The window of one process: the main thread *)

mainRest == <<now, daemon, log, engine, kind, signal>>

(* evisum_ui_process_view_win_add, from a row, a menu or another window.   *)
Open ==
  /\ win.state = "new"
  /\ win' = [win EXCEPT !.state = "open", !.thread = TRUE,
       !.start = IF Of(Shown.list, Own) = {} THEN 0
                 ELSE Shown.list[First(Shown.list, Own)].start]
  /\ worker' = [worker EXCEPT !.at = "start"]
  /\ UNCHANGED <<mainRest, system, queue, man, misused, irregular, inputs>>

(* _evisum_ui_process_view_proc_gone: the thread is cancelled, not waited  *)
(* for, and its handle given up.                                           *)
ProcGone == [win EXCEPT !.gone = TRUE, !.buttons = {}, !.thread = FALSE]

(* general_view_update asks for the state "stopped", which the states of   *)
(* system/process.c do not have ("stop"): the stop button it is.           *)
ViewUpdate(proc) ==
  LET c == win.cache[Own]
      new == ViewEntry(c, proc, live.time)
  IN [win EXCEPT !.cache[Own] = new, !.rows[Own] = Row(c, proc, new),
                 !.buttons = (@ \ {"start"}) \cup {"stop"}]

(* Mutant of Feedback: what a cancelled thread sent is shown.              *)
FeedbackOfAny ==
  /\ queue # <<>> /\ queue' = Tail(queue)
  /\ LET m == Head(queue) IN
     IF win.state = "freed"
     THEN misused' = misused \cup {"feedback"} /\ UNCHANGED <<win, irregular>>
     ELSE IF win.start # 0 /\ m.proc.start # win.start
     THEN win' = ProcGone /\ UNCHANGED <<misused, irregular>>
     ELSE /\ win' = ViewUpdate(m.proc)
          /\ irregular' = Late(m.time, live.time)
          /\ UNCHANGED misused
  /\ UNCHANGED <<mainRest, system, worker, man, inputs>>

(* Mutant of Feedback: a process is told by its pid.                       *)
FeedbackOfPid ==
  /\ queue # <<>> /\ queue' = Tail(queue)
  /\ LET m == Head(queue) IN
     IF win.state = "freed"
     THEN misused' = misused \cup {"feedback"} /\ UNCHANGED <<win, irregular>>
     ELSE IF m.proc.pid # Own
     THEN win' = ProcGone /\ UNCHANGED <<misused, irregular>>
     ELSE IF win.gone THEN UNCHANGED <<win, misused, irregular>>
     ELSE /\ win' = ViewUpdate(m.proc)
          /\ irregular' = Late(m.time, live.time)
          /\ UNCHANGED misused
  /\ UNCHANGED <<mainRest, system, worker, man, inputs>>

(* A message: another process has the pid, or the thread was cancelled, or *)
(* the process is shown, its rates over the time there is now.             *)
Feedback ==
  /\ queue # <<>> /\ queue' = Tail(queue)
  /\ LET m == Head(queue) IN
     IF win.state = "freed"
     THEN misused' = misused \cup {"feedback"} /\ UNCHANGED <<win, irregular>>
     ELSE IF win.start # 0 /\ m.proc.start # win.start
     THEN win' = ProcGone /\ UNCHANGED <<misused, irregular>>
     ELSE IF win.gone THEN UNCHANGED <<win, misused, irregular>>
     ELSE /\ win' = ViewUpdate(m.proc)
          /\ irregular' = Late(m.time, live.time)
          /\ UNCHANGED misused
  /\ UNCHANGED <<mainRest, system, worker, man, inputs>>

(* The kill button: whoever has the pid now is killed.                     *)
Kill ==
  /\ kind = "view" /\ win.state = "open" /\ "kill" \in win.buttons /\ Input
  /\ os' = [os EXCEPT ![Own] = Gone]
  /\ UNCHANGED <<mainRest, starts, busy, window, irregular>>

(* The Manual tab: a thread of its own, which nobody keeps, unless one has *)
(* ended.                                                                  *)
Manual ==
  /\ kind = "view" /\ win.state = "open" /\ ~win.manual /\ man < 2 /\ Input
  /\ man' = man + 1
  /\ UNCHANGED <<mainRest, system, win, worker, queue, misused, irregular>>

ManualRead ==
  /\ man > 0 /\ man' = man - 1
  /\ IF win.state = "freed"
     THEN misused' = misused \cup {"manual"} /\ UNCHANGED win
     ELSE win' = [win EXCEPT !.manual = TRUE] /\ UNCHANGED misused
  /\ UNCHANGED <<mainRest, system, worker, queue, irregular, inputs>>

Freed(how) == [NewWindow EXCEPT !.state = "freed", !.thread = FALSE, !.how = how]

(* The window is deleted.  Its thread is waited for if there is a handle,  *)
(* and what it sent is handled meanwhile; a thread that waits for the      *)
(* engine's lock may take longer.                                          *)
Close ==
  /\ kind = "view" /\ win.state = "open"
  /\ \E how \in {"", "gone", "late"} :
       /\ how = "gone" <=> ~win.thread
       /\ how = "late" => worker.at = "look"
       /\ win' = Freed((IF man > 0 THEN {"manual"} ELSE {}) \cup ({how} \ {""}))
       /\ IF how = "" THEN /\ worker' = [worker EXCEPT !.at = "ended"]
                           /\ queue' = <<>>
          ELSE UNCHANGED <<worker, queue>>
  /\ UNCHANGED <<mainRest, system, man, misused, irregular, inputs>>

-----------------------------------------------------------------------------
System == \E p \in Pids : Fork(p) \/ Exit(p) \/ Traffic(p) \/ CloseSocket(p)
Daemon == \E broadcast \in BOOLEAN, dumped \in Dumps, second \in 0 .. 1 :
            Poll(broadcast, second, dumped)
EverySecond == \E broadcast \in BOOLEAN : Poll(broadcast, 1, TRUE)
Client == ReadBlocks \/ Later
Worker == Start \/ Wake \/ Timeout \/ Look \/ GetList \/ Rates
User == Travel \/ Open \/ Kill \/ Manual \/ Close

ProcessesNext == System \/ Daemon \/ Client \/ Worker \/ Feedback \/ ManualRead \/ User

(* The daemon polls every second, the client reads what is written, both   *)
(* threads run.                                                            *)
ProcessesSpec ==
  /\ ProcessesInit /\ [][ProcessesNext]_processesVars
  /\ WF_processesVars(EverySecond) /\ WF_processesVars(Client)
  /\ WF_processesVars(Worker) /\ WF_processesVars(Feedback)

-----------------------------------------------------------------------------
(* Properties *)

(* A client that has read the log has what the monitor has, each pid once: *)
(* whatever the order of processes that go, come, come back with a pid of  *)
(* another, and of broadcasts (processes.c:244-389, message_processes).    *)
ListIsCache ==
  log = <<>> =>
    /\ Len(live.list) = Cardinality(InCache(daemon))
    /\ {live.list[i] : i \in DOMAIN live.list} =
         {Log(p, daemon[p]) : p \in InCache(daemon)}

(* The monitor counts nothing that a process did not move, though sockets  *)
(* are closed and pids used again; unless a dump failed, after which all   *)
(* that the open sockets ever moved is counted again (processes.c:185-211).*)
CountsMoved ==
  \A p \in InCache(daemon) :
    Same(p, daemon) /\ "dump" \notin irregular => daemon[p].net <= os[p].moved

(* No window shows a rate above what can be moved, though updates are      *)
(* skipped and the history visited: only a dump that failed, a second      *)
(* block in a second, and a list that was older than the time it was       *)
(* divided by, can make one                                                *)
(* (process_list.c:1343-1451, process_view.c:498-610).                     *)
RatesExplained ==
  \A p \in Pids : win.rows[p].rate > 1 => irregular # {}

(* What is counted, told and shown of the processes is true at every step. *)
CountsInv == ProcessesTyped /\ ListIsCache /\ CountsMoved /\ RatesExplained

(* The window of one process shows that process only, and once another is  *)
(* seen under its pid nothing can be sent to it any more, whatever is      *)
(* still under way from the thread (process_view.c:484-524).               *)
KeepsToItsProcess ==
  kind = "view" /\ win.start # 0 =>
    /\ win.rows[Own].start \in {0, win.start}
    /\ win.gone => win.buttons = {}

(* The view is used after it is freed only by a thread that was not waited *)
(* for, since its handle was given up, by one that took longer than half a *)
(* second, and by the threads of manual pages (process_view.c:1118-1143).  *)
MisuseExplained ==
  /\ "worker" \in misused => "gone" \in win.how
  /\ "feedback" \in misused => {"gone", "late"} \cap win.how # {}
  /\ "manual" \in misused => "manual" \in win.how

(* What holds of the windows at every step.                                *)
ViewInv == KeepsToItsProcess /\ MisuseExplained

(* A window does not for ever keep to a process whose pid the engine shows *)
(* for another, nor a list to processes that the engine does not show.     *)
Follows ==
  /\ ~<>[](/\ kind = "view" /\ win.state = "open" /\ win.start # 0 /\ ~win.gone
           /\ \E i \in Of(Shown.list, Own) : Shown.list[i].start # win.start)
  /\ ~<>[](/\ kind = "list"
           /\ {p \in Pids : win.rows[p].start # 0} #
                {Shown.list[i].pid : i \in DOMAIN Shown.list})
=============================================================================
