---------------------------- MODULE GraphWindow ----------------------------
(***************************************************************************)
(* The windows of memory, storage, network, sensors and cores.  They are   *)
(* the same program five times: a worker thread asks the engine for a list *)
(* after every update (every tenth, but for the cores), sends it to the    *)
(* main thread, and that keeps a row and a history of samples per device   *)
(* and draws them.  They differ in what they send -- a copy, pointers into *)
(* the engine's lists, or a pointer to a static struct -- in what they do  *)
(* with an empty list, and in what a new or a missing device does to the   *)
(* histories of the others.  `kind' says which window it is.               *)
(*                                                                         *)
(* A memory series (swap, a video card) is a device that is present or     *)
(* not.  Only the network's values matter: they are counters.              *)
(***************************************************************************)
EXTENDS Integers, Sequences, FiniteSets, SequencesExt

CONSTANTS
  Kinds,       \* the windows looked at
  Devices,     \* names of devices
  MaxTotal,    \* bound: a network counter stays at or below this
  Samples,     \* samples a history holds (120 in the code)
  MaxQueue,    \* bound: lists on their way to the main thread
  MaxChanges   \* bound: devices that come, go or carry traffic, and toggles

ASSUME ConstantsAssumption ==
  /\ Kinds \subseteq {"memory", "disk", "network", "sensors", "cpu"}
  /\ IsFiniteSet(Devices)
  /\ Samples \in Nat \ {0} /\ MaxQueue \in Nat \ {0}
  /\ MaxTotal \in Nat \ {0} /\ MaxChanges \in Nat

VARIABLES
  kind,        \* which of the windows it is
  list,        \* the engine's devices, in its order
  total,       \* the counter of each device
  worker,      \* the poll thread: where it is, and the list it holds
  static,      \* the struct the memory window's worker fills
  queue,       \* lists on their way to the main thread
  view,        \* the window
  behind,      \* whether a poll began before the last one was shown
  gaveUp,      \* whether a close did not wait for the worker to end
  misused,     \* what was used that must not be
  carried,     \* what a device has carried since the start
  changes

engine == <<list, total, carried>>
vars == <<kind, engine, worker, static, queue, view, behind, gaveUp, misused,
          changes>>

-----------------------------------------------------------------------------
Totals == 0 .. MaxTotal

(* What the window has of a device, and what it is sent: a pointer into    *)
(* the engine's lists, or a copy of what it points to.  History: what the  *)
(* device had carried when its counter was read.                           *)
Row == [hist : Seq(Totals), total : Totals \cup {-1}, on : BOOLEAN, gap : BOOLEAN,
        mark : Nat]
Item == [dev : Devices, total : Totals, freed : BOOLEAN, mark : Nat]

NoRow == [hist |-> <<>>, total |-> -1, on |-> FALSE, gap |-> FALSE, mark |-> 0]
NoRows == [d \in Devices |-> NoRow]

Items == [i \in 1 .. Len(list) |->
            [dev |-> list[i], total |-> total[list[i]], freed |-> FALSE,
             mark |-> carried[list[i]]]]

View == [state : {"open", "closing", "freed"}, rows : [Devices -> Row],
         peak : Totals, n : Nat]
Working == [at : {"top", "getting", "reading", "ended"}, held : Seq(Item)]

(* What the engine answers under its lock: pointers, copies, and of memory *)
(* the numbers.                                                            *)
SensorsGot == Items
InterfacesGot == Items
CoresGot == Items
FileSystemsGot == Items
MemoryGot == ToSet(list)

Named(m) == {m[i].dev : i \in 1 .. Len(m)}
Pointers == {"network", "sensors", "cpu"}

TypeOK ==
  /\ kind \in Kinds
  /\ list \in Seq(Devices) /\ IsInjective(list)
  /\ total \in [Devices -> Totals] /\ carried \in [Devices -> Nat]
  /\ worker \in Working /\ static \subseteq Devices
  /\ queue \in Seq(Seq(Item)) /\ Len(queue) <= MaxQueue
  /\ view \in View /\ \A d \in Devices : Len(view.rows[d].hist) <= Samples
  /\ behind \in BOOLEAN /\ gaveUp \in BOOLEAN
  /\ misused \subseteq {"view", "device", "past the end", "half filled"}
  /\ changes \in 0 .. MaxChanges

-----------------------------------------------------------------------------
(* Opening a window                                                        *)

Blank(rows) == [state |-> "open", rows |-> rows, peak |-> 0, n |-> 0]

(* The series exist from the start, each of them visible.                  *)
MemorySeries == [d \in Devices |-> [NoRow EXCEPT !.on = TRUE, !.total = 0]]

(* The cores there are when the window opens; there are no more rows later.*)
CoreRows ==
  [d \in Devices |-> IF d \in ToSet(list)
                       THEN [NoRow EXCEPT !.on = TRUE, !.total = 0] ELSE NoRow]

OpenMemory == Blank(MemorySeries)
OpenDisks == Blank(NoRows)
OpenNetwork == Blank(NoRows)
OpenSensors == Blank(NoRows)
OpenCores == Blank(CoreRows)

Opened ==
  CASE kind = "memory"  -> OpenMemory
    [] kind = "disk"    -> OpenDisks
    [] kind = "network" -> OpenNetwork
    [] kind = "sensors" -> OpenSensors
    [] kind = "cpu"     -> OpenCores

Init ==
  /\ kind \in Kinds
  /\ list \in {SetToSeq(S) : S \in SUBSET Devices}
  /\ total = [d \in Devices |-> 1] /\ carried = [d \in Devices |-> 0]
  /\ worker = [at |-> "top", held |-> <<>>] /\ static = {} /\ queue = <<>>
  /\ view = Opened
  /\ behind = FALSE /\ gaveUp = FALSE
  /\ misused = {} /\ changes = 0

-----------------------------------------------------------------------------
(* The worker                                                              *)

(* The window's close tells the thread before it waits.                    *)
Cancelled == view.state # "open"
Misuse(what, happened) == misused' = misused \cup (IF happened THEN {what} ELSE {})

(* The update it waits for has come and it asks the engine.  The sensors'  *)
(* count is the view's own and starts at zero again; the memory window's   *)
(* struct is cleared.                                                      *)
Poll ==
  /\ worker.at = "top" /\ ~Cancelled /\ Len(queue) < MaxQueue
  /\ worker' = [worker EXCEPT !.at = "getting"]
  /\ view' = IF kind = "sensors" THEN [view EXCEPT !.n = 0] ELSE view
  /\ static' = {}
  /\ behind' = (queue # <<>>)
  /\ UNCHANGED <<kind, engine, queue, gaveUp, misused, changes>>

Send(m) ==
  /\ queue' = Append(queue, m)
  /\ worker' = [at |-> "top", held |-> <<>>]
SendNothing ==
  /\ worker' = [at |-> "top", held |-> <<>>]
  /\ UNCHANGED queue

(* The window of memory sends no list, the main thread looks at the        *)
(* struct; it reads the view for whether ZFS is mounted.                   *)
GotMemory ==
  /\ kind = "memory"
  /\ static' = MemoryGot /\ Send(<<>>)
  /\ Misuse("view", view.state = "freed")
  /\ UNCHANGED view

(* Storage is copied; an empty list is not sent.                           *)
GotDisk ==
  /\ kind = "disk"
  /\ IF FileSystemsGot = <<>> THEN SendNothing ELSE Send(FileSystemsGot)
  /\ UNCHANGED <<static, view, misused>>

(* Mutant of GotSensors: an empty list is not sent.                        *)
GotSomeSensors ==
  /\ kind = "sensors"
  /\ view' = IF view.state = "freed" THEN view
             ELSE [view EXCEPT !.n = Len(SensorsGot)]
  /\ IF SensorsGot = <<>> THEN SendNothing ELSE Send(SensorsGot)
  /\ Misuse("view", view.state = "freed")
  /\ UNCHANGED static

(* The count is written to the view, the pointers are sent, even if there  *)
(* are none.                                                               *)
GotSensors ==
  /\ kind = "sensors"
  /\ view' = IF view.state = "freed" THEN view
             ELSE [view EXCEPT !.n = Len(SensorsGot)]
  /\ Send(SensorsGot)
  /\ Misuse("view", view.state = "freed")
  /\ UNCHANGED static

(* Interfaces and cores are read through the pointers, after the lock of   *)
(* the engine is released.                                                 *)
GotPointers ==
  /\ \/ kind = "network" /\ worker' = [at |-> "reading", held |-> InterfacesGot]
     \/ kind = "cpu" /\ worker' = [at |-> "reading", held |-> CoresGot]
  /\ UNCHANGED <<queue, static, view, misused>>

Got ==
  /\ worker.at = "getting"
  /\ \/ GotMemory \/ GotDisk \/ GotSensors \/ GotPointers
  /\ UNCHANGED <<kind, engine, behind, gaveUp, changes>>

ReadInterfaces ==
  /\ kind = "network"
  /\ IF worker.held = <<>> THEN SendNothing ELSE Send(worker.held)
  /\ Misuse("device", \E i \in 1 .. Len(worker.held) : worker.held[i].freed)

(* The visuals' threads read the cores' order and number in what belongs   *)
(* to the window.                                                          *)
ReadCores ==
  /\ kind = "cpu"
  /\ IF worker.held = <<>> THEN SendNothing ELSE Send(worker.held)
  /\ misused' = misused
       \cup (IF \E i \in 1 .. Len(worker.held) : worker.held[i].freed
               THEN {"device"} ELSE {})
       \cup (IF view.state = "freed" THEN {"view"} ELSE {})

Read ==
  /\ worker.at = "reading"
  /\ ReadInterfaces \/ ReadCores
  /\ UNCHANGED <<kind, engine, static, view, behind, gaveUp, changes>>

End ==
  /\ worker.at = "top" /\ Cancelled
  /\ worker' = [worker EXCEPT !.at = "ended"]
  /\ UNCHANGED <<kind, engine, static, queue, view, behind, gaveUp, misused,
                 changes>>

-----------------------------------------------------------------------------
(* The main thread: a list is shown                                        *)

(* The oldest sample goes when the history is full.                        *)
Sampled(row, v) ==
  LET h == Append(row.hist, v)
  IN  [row EXCEPT !.hist = IF Len(h) > Samples THEN Tail(h) ELSE h]

(* A row that stays and gets no sample draws its old ones too late.        *)
Missed(row) == IF row.hist = <<>> THEN row ELSE [row EXCEPT !.gap = TRUE]

(* One sample more of each device that has a value.                        *)
Drawn(rows, value) ==
  [d \in Devices |-> IF d \in DOMAIN value THEN Sampled(rows[d], value[d])
                                            ELSE Missed(rows[d])]

(* A new row with its legend: on, but for a sensor's.                      *)
NewSensor == [NoRow EXCEPT !.total = 0]
NewDisk == [NewSensor EXCEPT !.on = TRUE]
NewInterface == [NewSensor EXCEPT !.on = TRUE]

New(seen) == {d \in seen : view.rows[d] = NoRow}
Emptied(row) == [row EXCEPT !.hist = <<>>]

(* Rows that were not seen are removed, new ones made.                     *)
Found(seen, new) ==
  [d \in Devices |-> IF d \notin seen THEN NoRow
                     ELSE IF view.rows[d] = NoRow THEN new ELSE view.rows[d]]

(* One new device and all histories start again.                           *)
Reset(seen, new) ==
  IF New(seen) = {} THEN Found(seen, new)
  ELSE [d \in Devices |-> Emptied(Found(seen, new)[d])]

Zeros(seen) == [d \in seen |-> 0]

(* A series that is off gets no sample and keeps those it has.             *)
ShowMemory(present) == [view EXCEPT !.rows = Drawn(@, Zeros(present))]

ShowDisks(seen) == [view EXCEPT !.rows = Drawn(Reset(seen, NewDisk), Zeros(seen))]

(* Mutant of Rate: a new interface carried all it ever counted.            *)
RateSinceBoot(row, t) == IF t < row.total THEN 0 ELSE t - Max({row.total, 0})

(* What an interface carried since the last list: nothing if it is new, if *)
(* its counter was zero or has gone back.                                  *)
Rate(row, t) == IF row.total <= 0 \/ t < row.total THEN 0 ELSE t - row.total

(* A new interface starts all histories and the peak again.                *)
ShowInterfaces(m) ==
  LET seen == Named(m)
      now(d) == m[CHOOSE i \in 1 .. Len(m) : m[i].dev = d]
      rate == [d \in seen |-> Rate(view.rows[d], now(d).total)]
      old == Reset(seen, NewInterface)
      read == [d \in Devices |->
                 IF d \in seen
                   THEN [old[d] EXCEPT !.total = now(d).total, !.mark = now(d).mark]
                   ELSE NoRow]
  IN  [view EXCEPT !.rows = Drawn(read, rate),
                   !.peak = Max({rate[d] : d \in seen}
                                  \cup {IF New(seen) # {} THEN 0 ELSE @})]

(* As many pointers are followed as the view's count says.  No history     *)
(* starts again.                                                           *)
ShowSensors(m) ==
  LET seen == Named(SubSeq(m, 1, Min({view.n, Len(m)})))
  IN  [view EXCEPT !.rows = Drawn(Found(seen, NewSensor), Zeros(seen))]

(* All cores of the window are given a value; those the list lacks, zero.  *)
ShowCores ==
  [view EXCEPT !.rows = Drawn(@, Zeros({d \in Devices : view.rows[d] # NoRow}))]

Shown(m) ==
  CASE kind = "disk"    -> ShowDisks(Named(m))
    [] kind = "network" -> ShowInterfaces(m)
    [] kind = "sensors" -> ShowSensors(m)
    [] kind = "cpu"     -> ShowCores

(* A window that is being closed still shows what comes while it waits for *)
(* its worker, except for the network's, which has given up its `win'.  A  *)
(* struct that is being filled may show as cleared, in part or in full.    *)
Feedback ==
  /\ queue # <<>> /\ queue' = Tail(queue)
  /\ IF view.state = "freed"
       THEN Misuse("view", TRUE) /\ UNCHANGED view
     ELSE IF kind = "memory"
       THEN /\ \E present \in IF worker.at = "getting" THEN SUBSET ToSet(list)
                               ELSE {static} : view' = ShowMemory(present)
            /\ Misuse("half filled", worker.at = "getting")
     ELSE IF kind = "network" /\ view.state = "closing"
       THEN UNCHANGED <<view, misused>>
     ELSE LET m == Head(queue)
              used == SubSeq(m, 1, Min({view.n, Len(m)}))
          IN  /\ view' = Shown(m)
              /\ misused' = misused \cup
                   (IF kind # "sensors" THEN {}
                    ELSE (IF view.n > Len(m) THEN {"past the end"} ELSE {})
                      \cup (IF \E i \in 1 .. Len(used) : used[i].freed
                              THEN {"device"} ELSE {}))
  /\ UNCHANGED <<kind, engine, worker, static, behind, gaveUp, changes>>

-----------------------------------------------------------------------------
(* The main thread: the user                                               *)

(* The button of a row in the legend.                                      *)
Toggle(d) ==
  /\ view.state = "open" /\ kind # "cpu" /\ view.rows[d] # NoRow
  /\ changes < MaxChanges /\ changes' = changes + 1
  /\ view' = [view EXCEPT !.rows[d].on = ~@]
  /\ UNCHANGED <<kind, engine, worker, static, queue, behind, gaveUp, misused>>

(* The window is deleted: its worker is told to stop.                      *)
Close ==
  /\ view.state = "open"
  /\ view' = [view EXCEPT !.state = "closing"]
  /\ UNCHANGED <<kind, engine, worker, static, queue, behind, gaveUp, misused,
                 changes>>

Freed == [Blank(NoRows) EXCEPT !.state = "freed"]

(* Mutant of Closed: the window is freed while the worker is anywhere.      *)
ClosedAtOnce ==
  /\ view.state = "closing"
  /\ view' = Freed
  /\ UNCHANGED <<kind, engine, worker, static, queue, behind, gaveUp, misused,
                 changes>>

(* The worker has ended, and what it sent was shown while main waited.     *)
Closed ==
  /\ view.state = "closing" /\ worker.at = "ended" /\ queue = <<>>
  /\ view' = Freed
  /\ UNCHANGED <<kind, engine, worker, static, queue, behind, gaveUp, misused,
                 changes>>

(* The wait is for half a second (a second in the network window); a       *)
(* worker that waits for the engine's lock may take longer.                *)
GiveUp ==
  /\ view.state = "closing" /\ worker.at \in {"getting", "reading"}
  /\ view' = Freed /\ gaveUp' = TRUE
  /\ UNCHANGED <<kind, engine, worker, static, queue, behind, misused, changes>>

(* The window is opened again.                                             *)
Open ==
  /\ view.state = "freed" /\ worker.at = "ended" /\ queue = <<>>
  /\ view' = Opened
  /\ worker' = [worker EXCEPT !.at = "top"]
  /\ UNCHANGED <<kind, engine, static, queue, behind, gaveUp, misused, changes>>

-----------------------------------------------------------------------------
(* The engine's client changes the lists, on a thread of its own, or the   *)
(* engine turns to another snapshot; then what was pointed to is gone.     *)

Without(m, gone) ==
  [i \in 1 .. Len(m) |->
     [m[i] EXCEPT !.freed = @ \/ (kind \in Pointers /\ m[i].dev \in gone)]]

Release(gone) ==
  /\ worker' = [worker EXCEPT !.held = Without(@, gone)]
  /\ queue' = [i \in 1 .. Len(queue) |->
                 IF kind = "sensors" THEN Without(queue[i], gone) ELSE queue[i]]

Changes ==
  /\ changes < MaxChanges /\ changes' = changes + 1
  /\ UNCHANGED <<kind, static, view, behind, gaveUp, misused>>

Plug(d) ==
  /\ Changes /\ kind # "cpu" /\ d \notin ToSet(list)
  /\ list' = Append(list, d)
  /\ UNCHANGED <<total, carried, worker, queue>>

Unplug(i) ==
  /\ Changes /\ kind # "cpu"
  /\ list' = RemoveAt(list, i) /\ Release({list[i]})
  /\ UNCHANGED <<total, carried>>

(* A time in the history, or live again.                                   *)
Replace ==
  /\ Changes /\ kind \in Pointers
  /\ Release(Devices)
  /\ UNCHANGED <<list, total, carried>>

Traffic(d) ==
  /\ Changes /\ kind = "network" /\ d \in ToSet(list) /\ total[d] < MaxTotal
  /\ total' = [total EXCEPT ![d] = @ + 1]
  /\ carried' = [carried EXCEPT ![d] = @ + 1]
  /\ UNCHANGED <<list, worker, queue>>

(* A counter starts again: an interface was taken down between two lists.  *)
Restart(d) ==
  /\ Changes /\ kind = "network" /\ d \in ToSet(list) /\ total[d] > 0
  /\ total' = [total EXCEPT ![d] = 0]
  /\ UNCHANGED <<list, carried, worker, queue>>

-----------------------------------------------------------------------------
Worker == Poll \/ Got \/ Read \/ End
Main == Feedback \/ Closed
User == Close \/ GiveUp \/ Open \/ \E d \in Devices : Toggle(d)
Environment ==
  \/ Replace
  \/ \E i \in DOMAIN list : Unplug(i)
  \/ \E d \in Devices : Plug(d) \/ Traffic(d) \/ Restart(d)

Next == Worker \/ Main \/ User \/ Environment

(* Updates keep coming and both threads run.                               *)
Spec == Init /\ [][Next]_vars /\ WF_vars(Worker) /\ WF_vars(Main)

-----------------------------------------------------------------------------
(* Every use of what is gone has its cause: the window only after a close  *)
(* that did not wait, the end of an array and a half filled struct only    *)
(* with a main thread that had not shown one list when the next was asked  *)
(* for, and a device only where pointers outlive the engine's lock         *)
(* (evisum_ui_sensors.c:363,385-392, evisum_ui_memory.c:334-349,           *)
(* evisum_ui_network.c:327-339, the win_del functions).                    *)
MisuseExplained ==
  [][\A m \in misused' \ misused :
       CASE m = "view"         -> gaveUp
         [] m = "device"       -> kind \in Pointers
         [] m = "past the end" -> kind = "sensors" /\ behind
         [] m = "half filled"  -> kind = "memory" /\ behind]_vars

(* What is drawn of an interface is no more than it carried: no counter    *)
(* read for the first time, and none that went back, shows as a rate       *)
(* (evisum_ui_network.c:371-388).                                          *)
Sum(h) ==
  LET upTo[i \in 0 .. Len(h)] == IF i = 0 THEN 0 ELSE upTo[i - 1] + h[i]
  IN  upTo[Len(h)]
RatesCarried ==
  kind = "network" => \A d \in Devices : Sum(view.rows[d].hist) <= carried[d]

(* Nothing in the network's graph is above its top, through all comings    *)
(* and goings of interfaces (evisum_ui_network.c:401-415).                 *)
PeakCovers ==
  kind = "network" =>
    \A d \in Devices : \A v \in ToSet(view.rows[d].hist) : v <= view.peak

(* Samples that are drawn above each other are of the same time: where a   *)
(* device's history could have a hole, the row was removed with it or all  *)
(* histories started again.  Only a memory series that was off meanwhile   *)
(* keeps samples older than they are drawn                                 *)
(* (evisum_ui_disk.c:350-371, evisum_ui_sensors.c:410,                     *)
(* evisum_ui_memory.c:288-292).                                            *)
InTime ==
  /\ kind # "memory" => \A d \in Devices : ~view.rows[d].gap
  /\ kind \in {"disk", "network"} =>
       \A d, e \in {x \in Devices : view.rows[x] # NoRow} :
          Len(view.rows[d].hist) = Len(view.rows[e].hist)

(* What is drawn is true at every step.                                    *)
GraphInv == TypeOK /\ RatesCarried /\ PeakCovers /\ InTime

(* A window that stays open comes to show the devices there are, except    *)
(* that the last interface or file system stays when it is gone: an empty  *)
(* list is not sent -- and that a main thread that is always a second      *)
(* behind may find the sensors' count at zero every time                   *)
(* (evisum_ui_disk.c:322, evisum_ui_network.c:345, evisum_ui_sensors.c:363)*)
Follows ==
  <>[](view.state = "open") =>
    []<>(\/ kind \in {"memory", "cpu"}
         \/ {d \in Devices : view.rows[d] # NoRow} = ToSet(list)
         \/ kind # "sensors" /\ list = <<>>
         \/ kind = "sensors" /\ behind)

=============================================================================
