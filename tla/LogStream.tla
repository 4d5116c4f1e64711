----------------------------- MODULE LogStream -----------------------------
(***************************************************************************)
(* The monitoring stream of enigmatic: the daemon's poll loop calls one    *)
(* monitor per kind of object; a monitor compares what the system reports  *)
(* with its cache and logs the difference; a client that follows the log   *)
(* rebuilds the cache as its snapshot.                                     *)
(*                                                                         *)
(* One poll is: rotate?, EVENT_BROADCAST?, the monitors in order,          *)
(* EVENT_BLOCK_END, crush (one compressed frame, one write).  A monitor    *)
(* call is: take the lock (or return), find, fill an absent cache, refresh *)
(* if broadcasting, purge, add and modify.  The client may decode between  *)
(* any two of these steps whatever has reached the file.                   *)
(*                                                                         *)
(* All five monitors follow the same text, so one set of actions, indexed  *)
(* by the kind, stands for them; where they differ the difference is a set *)
(* of kinds.  Lists and hashes are sets of entries.                        *)
(***************************************************************************)
EXTENDS UniqueIds, Snapshots

CONSTANTS
  Order,      \* the monitored kinds, in the order in which a poll calls them
  Key,        \* names of objects
  Fields,     \* Fields[k]: the logged fields of an object of kind k
  Value,      \* Value[k]: what a field of kind k may be found to be
  MaxLog      \* bound: records in one log file

Kinds == {Order[i] : i \in DOMAIN Order}

(* The monitors that share their list with a helper thread and only try    *)
(* the lock of that list.                                                  *)
Contended == {"SENSOR", "BATTERY"}

ASSUME OrderAssumption ==
  /\ Order \in Seq(ObjectKinds)
  /\ \A i, j \in DOMAIN Order : Order[i] = Order[j] => i = j
ASSUME FieldsAssumption == DOMAIN Fields = Kinds
ASSUME ValueAssumption == \A k \in Kinds : Value[k] \subseteq Int
ASSUME MaxLogAssumption == MaxLog \in Nat

VARIABLES
  pool,       \* Enigmatic.unique_ids
  made,       \* the kinds whose cache hash has been created
  cache,      \* System_Info: cache[k], the entries of the hash of kind k
  broadcast,  \* Enigmatic.broadcast
  phase,      \* where the monitor thread is
  full,       \* this poll calls every monitor and ends with EVENT_BLOCK_END
  next,       \* index in Order of the monitor being called
  found,      \* the list that the monitor being called works on
  log,        \* the records of the open log file, buffered ones included
  flushed,    \* how many of them enigmatic_log_crush has written to the file
  hist,       \* hist[i + 1]: see IsHistory, after i records of log
  told,       \* kinds a reader of this log file knows completely
  stale,      \* the file was truncated since the client last looked
  pos,        \* how many records of log the client has decoded
  snap        \* Enigmatic_Client.snapshot

daemonVars == <<pool, made, cache, broadcast, phase, full, next, found>>
fileVars == <<log, flushed, hist, told>>
clientVars == <<stale, pos, snap>>
vars == <<daemonVars, fileVars, clientVars>>

-----------------------------------------------------------------------------
Val(k) == [Fields[k] -> Int]
Entry(k) == [key : Key, id : Nat, val : Val(k)]
IsLists(l) ==
  /\ l = [k \in Kinds |-> l[k]]
  /\ \A k \in Kinds : l[k] \subseteq Entry(k)
Empty == [k \in Kinds |-> {}]

(* What a find function of system/machine may return for kind k.           *)
Finds(k) == UNION {[S -> [Fields[k] -> Value[k]]] : S \in SUBSET Key}

Phases == {"poll", "closed", "header", "call", "fill", "refresh", "purge",
           "update", "crush", "down", "exited"}

(* The phases in which a monitor is working on the list it found.          *)
Calling == {"fill", "refresh", "purge", "update"}

(* The kind whose monitor is being called.                                 *)
Kind == Order[next]

(* The records of the log: events without data, and messages about a kind. *)
Marks == [type : {"BROADCAST", "BLOCK_END", "LAST_RECORD"}]
Dels == [type : {"DEL"}, kind : Kinds, id : Nat]
Refreshes(k) == [type : {"REFRESH"}, kind : {k}, objs : SUBSET Entry(k)]
Adds(k) == [type : {"ADD"}, kind : {k}, obj : Entry(k)]
Mods(k) == [type : {"MOD"}, kind : {k}, id : Nat, field : Fields[k], delta : Int]

IsMessage(m) ==
  m \in Marks \cup Dels \/ \E k \in Kinds : m \in Refreshes(k) \cup Adds(k) \cup Mods(k)

(* A history entry pairs the snapshot of a reader that has decoded this    *)
(* file from its first record (rep) with the cache at the same record      *)
(* (view).                                                                 *)
IsHistory(h) ==
  /\ h = [rep |-> h.rep, view |-> h.view]
  /\ IsLists(h.rep)
  /\ IsLists(h.view)

TypeOK ==
  /\ pool \in Seq(Slot)
  /\ made \subseteq Kinds
  /\ IsLists(cache)
  /\ broadcast \in BOOLEAN
  /\ phase \in Phases
  /\ full \in BOOLEAN
  /\ next \in 1 .. Len(Order) + 1
  /\ DOMAIN found \subseteq Key
  /\ phase \in Calling => next <= Len(Order) /\ found \in Finds(Kind)
  /\ \A i \in DOMAIN log : IsMessage(log[i])
  /\ Len(hist) = Len(log) + 1
  /\ \A i \in DOMAIN hist : IsHistory(hist[i])
  /\ flushed \in 0 .. Len(log)
  /\ told \subseteq Kinds
  /\ stale \in BOOLEAN
  /\ ~stale => pos \in 0 .. flushed
  /\ IsLists(snap)

-----------------------------------------------------------------------------
(* Writing to the log *)

Rep == hist[Len(hist)].rep

(* enigmatic_log_write appends record m to the buffer of the file; view is *)
(* the cache once the action that logs m is done.                          *)
Write(m, view) ==
  /\ Len(log) < MaxLog
  /\ log' = Append(log, m)
  /\ hist' = Append(hist, [rep |-> Decode(Rep, m), view |-> view])

(* The file as enigmatic_log_open leaves it.                               *)
OpenLog(view) ==
  /\ log' = <<>>
  /\ flushed' = 0
  /\ hist' = <<[rep |-> Empty, view |-> view]>>
  /\ told' = {}
  /\ stale' = TRUE

-----------------------------------------------------------------------------
(* The daemon *)

Init ==
  /\ pool = <<>>
  /\ made = {}
  /\ cache = Empty
  /\ broadcast = TRUE
  /\ phase = "poll"
  /\ full = FALSE
  /\ next = 1
  /\ found = <<>>
  /\ log = <<>>
  /\ flushed = 0
  /\ hist = <<[rep |-> Empty, view |-> Empty]>>
  /\ told = {}
  /\ stale = FALSE
  /\ pos = 0
  /\ snap = Empty

Cached(key) == \E e \in cache[Kind] : e.key = key

(* Mutant of RotateOpen: the result of enigmatic_log_rotate is ignored.     *)
RotateOpenQuiet ==
  /\ phase = "closed"
  /\ OpenLog(cache)
  /\ phase' = "header"
  /\ UNCHANGED <<pool, made, cache, broadcast, full, next, found, pos, snap>>

(* enigmatic_log_rotate finds that the hour (or minute) has changed: it    *)
(* closes the log with EVENT_EOF, EVENT_LAST_RECORD ...                    *)
RotateClose ==
  /\ phase = "poll"
  /\ Write([type |-> "LAST_RECORD"], cache)
  /\ flushed' = Len(log')
  /\ told' = {}
  /\ phase' = "closed"
  /\ UNCHANGED <<pool, made, cache, broadcast, full, next, found, clientVars>>

(* ... keeps a copy or not, and truncates it.  The poll goes on, with      *)
(* broadcast set because the function returned 1.                          *)
RotateOpen ==
  /\ phase = "closed"
  /\ OpenLog(cache)
  /\ broadcast' = TRUE
  /\ phase' = "header"
  /\ UNCHANGED <<pool, made, cache, full, next, found, pos, snap>>

(* A poll that calls every monitor: broadcasting, or every tenth.          *)
PollFull ==
  /\ phase \in {"poll", "header"}
  /\ IF broadcast THEN Write([type |-> "BROADCAST"], cache)
                  ELSE UNCHANGED <<log, hist>>
  /\ full' = TRUE
  /\ next' = 1
  /\ phase' = "call"
  /\ UNCHANGED <<pool, made, cache, broadcast, found, flushed, told, clientVars>>

(* The nine polls in between call the cores monitor at INTERVAL_NORMAL and *)
(* nothing otherwise.                                                      *)
PollShort ==
  /\ phase = "poll"
  /\ ~broadcast
  /\ full' = FALSE
  /\ \/ \E i \in DOMAIN Order :
          /\ Order[i] = "CPU_CORE"
          /\ next' = i
          /\ phase' = "call"
     \/ /\ next' = Len(Order) + 1
        /\ phase' = "crush"
  /\ UNCHANGED <<pool, made, cache, broadcast, found, fileVars, clientVars>>

(* The monitor is done, or was never entered.                              *)
Return ==
  /\ found' = <<>>
  /\ IF full THEN next' = next + 1 /\ phase' = "call"
             ELSE next' = Len(Order) + 1 /\ phase' = "crush"

(* eina_lock_take_try fails: the helper thread, which runs from the first  *)
(* call on, is in sensors_update or batteries_update.                      *)
CallSkipped ==
  /\ phase = "call"
  /\ next <= Len(Order)
  /\ Kind \in Contended \cap made
  /\ Return
  /\ UNCHANGED <<pool, made, cache, broadcast, full, fileVars, clientVars>>

Call ==
  /\ phase = "call"
  /\ next <= Len(Order)
  /\ found' \in Finds(Kind)
  /\ phase' = IF Kind \in made THEN "refresh" ELSE "fill"
  /\ UNCHANGED <<pool, made, cache, broadcast, full, next, fileVars, clientVars>>

(* A new cache takes every object found and logs nothing.                  *)
Fill ==
  /\ phase = "fill"
  /\ \E key \in DOMAIN found :
       /\ ~Cached(key)
       /\ cache' = [cache EXCEPT ![Kind] = @ \cup
            {[key |-> key, id |-> FindId(pool), val |-> found[key]]}]
       /\ pool' = Find(pool)
  /\ UNCHANGED <<made, broadcast, phase, full, next, found, fileVars, clientVars>>

FillDone ==
  /\ phase = "fill"
  /\ \A key \in DOMAIN found : Cached(key)
  /\ made' = made \cup {Kind}
  /\ phase' = "refresh"
  /\ UNCHANGED <<pool, cache, broadcast, full, next, found, fileVars, clientVars>>

(* The refresh functions log the cache, unless it is empty.                *)
Refresh ==
  /\ phase = "refresh"
  /\ IF broadcast /\ cache[Kind] # {}
     THEN Write([type |-> "REFRESH", kind |-> Kind, objs |-> cache[Kind]], cache)
     ELSE UNCHANGED <<log, hist>>
  /\ told' = IF broadcast /\ Rep[Kind] = {} THEN told \cup {Kind} ELSE told
  /\ phase' = "purge"
  /\ UNCHANGED <<pool, made, cache, broadcast, full, next, found, flushed, clientVars>>

(* An entry that was not found again is logged as deleted, its id is       *)
(* released and it leaves the cache.  unique_id_release ends the process   *)
(* for an id it does not know.                                             *)
Purge ==
  /\ phase = "purge"
  /\ \E e \in cache[Kind] :
       /\ e.key \notin DOMAIN found
       /\ cache' = [cache EXCEPT ![Kind] = @ \ {e}]
       /\ Write([type |-> "DEL", kind |-> Kind, id |-> e.id], cache')
       /\ IF Known(pool, e.id)
          THEN pool' = Release(pool, e.id) /\ phase' = phase
          ELSE pool' = pool /\ phase' = "exited"
  /\ UNCHANGED <<made, broadcast, full, next, found, flushed, told, clientVars>>

PurgeDone ==
  /\ phase = "purge"
  /\ \A e \in cache[Kind] : e.key \in DOMAIN found
  /\ phase' = "update"
  /\ UNCHANGED <<pool, made, cache, broadcast, full, next, found, fileVars, clientVars>>

(* An object found that is not in the cache.                               *)
Add ==
  /\ phase = "update"
  /\ \E key \in DOMAIN found :
       LET e == [key |-> key, id |-> FindId(pool), val |-> found[key]] IN
       /\ ~Cached(key)
       /\ cache' = [cache EXCEPT ![Kind] = @ \cup {e}]
       /\ pool' = Find(pool)
       /\ Write([type |-> "ADD", kind |-> Kind, obj |-> e], cache')
  /\ UNCHANGED <<made, broadcast, phase, full, next, found, flushed, told, clientVars>>

(* One field of a cached object differs from what was found: the           *)
(* difference is logged and the cache takes the new value.                 *)
Mod ==
  /\ phase = "update"
  /\ \E e \in cache[Kind], f \in Fields[Kind] :
       /\ e.key \in DOMAIN found
       /\ e.val[f] # found[e.key][f]
       /\ cache' = [cache EXCEPT ![Kind] =
            (@ \ {e}) \cup {[e EXCEPT !.val = [@ EXCEPT ![f] = found[e.key][f]]]}]
       /\ Write([type |-> "MOD", kind |-> Kind, id |-> e.id, field |-> f,
                 delta |-> found[e.key][f] - e.val[f]], cache')
  /\ UNCHANGED <<pool, made, broadcast, phase, full, next, found, flushed, told, clientVars>>

UpdateDone ==
  /\ phase = "update"
  /\ \A key \in DOMAIN found : \E e \in cache[Kind] : e.key = key /\ e.val = found[key]
  /\ Return
  /\ UNCHANGED <<pool, made, cache, broadcast, full, fileVars, clientVars>>

BlockEnd ==
  /\ phase = "call"
  /\ next = Len(Order) + 1
  /\ Write([type |-> "BLOCK_END"], cache)
  /\ phase' = "crush"
  /\ UNCHANGED <<pool, made, cache, broadcast, full, next, found, flushed, told, clientVars>>

(* The buffered records become one frame of the file.  Every               *)
(* device_refresh_interval the next poll broadcasts.                       *)
Crush ==
  /\ phase = "crush"
  /\ flushed' = Len(log)
  /\ broadcast' \in BOOLEAN
  /\ phase' = "poll"
  /\ UNCHANGED <<pool, made, cache, full, next, found, log, hist, told, clientVars>>

(* The memory of a daemon process that has just been started.              *)
Fresh ==
  /\ pool' = <<>>
  /\ made' = {}
  /\ cache' = Empty
  /\ broadcast' = TRUE
  /\ full' = FALSE
  /\ next' = 1
  /\ found' = <<>>

(* enigmatic_shutdown between two polls: the log is closed.                *)
Stop ==
  /\ phase = "poll"
  /\ Write([type |-> "LAST_RECORD"], cache)
  /\ flushed' = Len(log')
  /\ told' = {}
  /\ phase' = "down"
  /\ Fresh
  /\ UNCHANGED clientVars

(* The daemon is killed: what was buffered is lost.                        *)
Crash ==
  /\ phase # "down"
  /\ log' = SubSeq(log, 1, flushed)
  /\ hist' = SubSeq(hist, 1, flushed + 1)
  /\ told' = {}
  /\ phase' = "down"
  /\ Fresh
  /\ UNCHANGED <<flushed, clientVars>>

(* main and enigmatic_init: a new process, and the log file is truncated.  *)
Start ==
  /\ phase = "down"
  /\ OpenLog(Empty)
  /\ phase' = "poll"
  /\ UNCHANGED <<pool, made, cache, broadcast, full, next, found, pos, snap>>

-----------------------------------------------------------------------------
(* The client *)

(* enigmatic_client_read decodes the next record on disk.                  *)
ClientRead ==
  /\ ~stale
  /\ pos < flushed
  /\ snap' = Decode(snap, log[pos + 1])
  /\ pos' = pos + 1
  /\ UNCHANGED <<daemonVars, fileVars, stale>>

(* Mutants of ClientReset: the offset, or the snapshot, is kept.           *)
ClientResetKeepsOffset ==
  /\ stale
  /\ stale' = FALSE
  /\ snap' = Empty
  /\ UNCHANGED <<daemonVars, fileVars, pos>>

ClientResetKeepsSnapshot ==
  /\ stale
  /\ stale' = FALSE
  /\ pos' = 0
  /\ UNCHANGED <<daemonVars, fileVars, snap>>

(* The client finds the file truncated: enigmatic_client_reset, then it    *)
(* reads from offset 0.                                                    *)
ClientReset ==
  /\ stale
  /\ stale' = FALSE
  /\ pos' = 0
  /\ snap' = Empty
  /\ UNCHANGED <<daemonVars, fileVars>>

-----------------------------------------------------------------------------
Next ==
  \/ RotateClose \/ RotateOpen \/ PollFull \/ PollShort
  \/ CallSkipped \/ Call \/ Fill \/ FillDone \/ Refresh
  \/ Purge \/ PurgeDone \/ Add \/ Mod \/ UpdateDone
  \/ BlockEnd \/ Crush \/ Stop \/ Crash \/ Start
  \/ ClientRead \/ ClientReset

Spec == Init /\ [][Next]_vars

-----------------------------------------------------------------------------
(* Properties *)

(* Ids in use and ids in the caches are the same, over all kinds: no id    *)
(* leaks when an object goes away, none is in the cache without being      *)
(* reserved, and no two live objects share one.                            *)
PoolMatchesCaches ==
  /\ Taken(pool) = UNION {Ids(cache[k]) : k \in Kinds}
  /\ \A k1, k2 \in Kinds : \A e1 \in cache[k1], e2 \in cache[k2] :
       e1.id = e2.id => k1 = k2 /\ e1 = e2

(* unique_id_release is never called with an unknown id: the exit(2) of    *)
(* uid.c is unreachable.                                                   *)
NeverExits == phase # "exited"

Sound(h) == \A k \in Kinds : SoundList(h.rep[k], h.view[k])

(* The client never shows an object that the daemon did not have at that   *)
(* point of the log, never shows one twice, and shows the daemon's values, *)
(* across id reuse, rotation, restarts and repeated broadcasts.            *)
ClientSound ==
  ~stale => \A k \in Kinds : SoundList(snap[k], hist[pos + 1].view[k])

(* An MESG_ADD names an object that a reader of the file does not hold, so *)
(* the append in the client never makes a second entry for it (and a set   *)
(* of entries loses nothing of the client's list).                         *)
AddsAreNew ==
  \A i \in DOMAIN log :
    log[i].type = "ADD" =>
      log[i].obj.id \notin Ids(hist[i].rep[log[i].kind])

(* Whenever the client has just decoded EVENT_BLOCK_END, it shows every    *)
(* core, network interface and file system the daemon had in that poll.    *)
ClientComplete ==
  (~stale /\ pos > 0 /\ log[pos].type = "BLOCK_END") =>
    \A k \in Kinds \ Contended : Ids(snap[k]) = Ids(hist[pos + 1].view[k])

(* A sensor or battery list is incomplete only where a poll lost the race  *)
(* for the list's lock: a kind whose refresh was logged into an empty list *)
(* stays complete to the end of the file.                                  *)
ToldComplete ==
  \A k \in told : Ids(Rep[k]) = Ids(cache[k])
=============================================================================
