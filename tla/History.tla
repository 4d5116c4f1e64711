------------------------------ MODULE History ------------------------------
(***************************************************************************)
(* evisum's engine when the user looks at the past.  The worker of the     *)
(* process list sets the time to show: it finds the log that holds it in a *)
(* list that may be ten seconds old, reads that log with a client of its   *)
(* own and puts the client in the place of the last one.  Meanwhile the    *)
(* main thread may go back to live, the threads of the windows read, under *)
(* the engine's lock, whichever snapshot is shown, another thread lists    *)
(* the logs as well, and the daemon goes on rotating them.  Every tick of  *)
(* the clock is a record.                                                  *)
(***************************************************************************)
EXTENDS Integers, FiniteSets

CONSTANTS
  Worker,     \* threads of windows
  Client,     \* clients made for a log of the past
  Live,       \* the client that follows the log
  None,       \* nobody, or no client
  MaxTime,    \* bound: ticks
  MaxChanges  \* bound: rotations, and archives completed

ASSUME ConstantsAssumption ==
  /\ Live \notin Client /\ None \notin Client \cup Worker \cup {Live}
  /\ MaxTime \in Nat \ {0} /\ MaxChanges \in Nat

VARIABLES
  now,
  disk,       \* disk[f]: the times of the first and the last record of f
  version,    \* how often a file was replaced or removed
  lock,       \* who holds the engine's lock
  freed,      \* clients that have been deleted, or not been made yet
  shown,      \* shown[c]: time of the snapshot of client c, 0 if it has none
  history,    \* _state.history_client
  time,       \* _state.history_time, 0 in live mode
  cache,      \* _state.history_logs, and whether it is younger than its TTL
  lister,     \* lister[p]: the list p is making or using
  call,       \* call[p]: p is in history_time_set or history_live_set
  reader      \* reader[w]: the client whose snapshot w reads under the lock

fileVars == <<now, disk, version>>
engineVars == <<freed, shown, history, time>>
vars == <<fileVars, engineVars, lock, cache, lister, call, reader>>

-----------------------------------------------------------------------------
File == {"log", "copy", "lz4"}
NoFile == [from |-> 1, to |-> 0]
Holds(f, t) == f.from <= t /\ t <= f.to
HasRecords(f) == f.from <= f.to
Times == 0 .. MaxTime

Lister == {"worker", "bounds"}
Caller == {"worker", "main"}
NoList == [found |-> {}, todo |-> {}, version |-> 0, at |-> "idle", forced |-> FALSE]
NoCache == [found |-> {}, version |-> 0, fresh |-> FALSE]
NoCall == [at |-> "idle", time |-> 0, file |-> "log", client |-> None]

Entries == [file : File, from : 0 .. MaxTime + 1, to : Times]

Span == [from : 0 .. MaxTime + 1, to : Times]
Listing == [found : SUBSET Entries, todo : SUBSET File, version : 0 .. MaxChanges,
            at : {"idle", "scan", "have"}, forced : BOOLEAN]
Cache == [found : SUBSET Entries, version : 0 .. MaxChanges, fresh : BOOLEAN]
Call == [at : {"idle", "list", "read", "swap", "delete"}, time : Times,
         file : File, client : Client \cup {None}]

TypeOK ==
  /\ now \in Times /\ version \in 0 .. MaxChanges
  /\ disk \in [File -> Span]
  /\ lock \in Worker \cup {None}
  /\ freed \subseteq Client /\ shown \in [Client -> Times]
  /\ history \in Client \cup {None} /\ time \in Times
  /\ cache \in Cache
  /\ lister \in [Lister -> Listing]
  /\ call \in [Caller -> Call]
  /\ reader \in [Worker -> Client \cup {Live, None}]

Init ==
  /\ now = 1 /\ version = 0
  /\ disk = [f \in File |-> IF f = "log" THEN [from |-> 1, to |-> 1] ELSE NoFile]
  /\ lock = None
  /\ freed = Client /\ shown = [c \in Client |-> 0]
  /\ history = None /\ time = 0
  /\ cache = NoCache
  /\ lister = [p \in Lister |-> NoList]
  /\ call = [p \in Caller |-> NoCall]
  /\ reader = [w \in Worker |-> None]

-----------------------------------------------------------------------------
(* The daemon (module Archive says how it does it)                         *)

Tick ==
  /\ now < MaxTime
  /\ now' = now + 1
  /\ disk' = [disk EXCEPT !["log"] =
                IF HasRecords(@) THEN [@ EXCEPT !.to = now + 1]
                ELSE [from |-> now + 1, to |-> now + 1]]
  /\ UNCHANGED <<version, engineVars, lock, cache, lister, call, reader>>

Change == version < MaxChanges /\ version' = version + 1

(* Bound: there is one archive at a time.                                  *)
Rotate ==
  /\ Change /\ HasRecords(disk["log"]) /\ ~HasRecords(disk["copy"])
  /\ disk' = [disk EXCEPT !["copy"] = disk["log"], !["log"] = NoFile]
  /\ UNCHANGED <<now, engineVars, lock, cache, lister, call, reader>>

Compress ==
  /\ HasRecords(disk["copy"]) /\ disk["lz4"] # disk["copy"]
  /\ IF HasRecords(disk["lz4"]) THEN Change ELSE UNCHANGED version
  /\ disk' = [disk EXCEPT !["lz4"] = disk["copy"]]
  /\ UNCHANGED <<now, engineVars, lock, cache, lister, call, reader>>

RemoveCopy ==
  /\ Change /\ HasRecords(disk["copy"]) /\ disk["lz4"] = disk["copy"]
  /\ disk' = [disk EXCEPT !["copy"] = NoFile]
  /\ UNCHANGED <<now, engineVars, lock, cache, lister, call, reader>>

-----------------------------------------------------------------------------
(* Listing the logs: _engine_history_logs_get and _scan *)

listRest == <<fileVars, engineVars, lock, call, reader>>

(* HISTORY_LOG_CACHE_TTL has gone by since the list was made.              *)
Expire ==
  /\ cache.fresh
  /\ cache' = NoCache
  /\ UNCHANGED <<listRest, lister>>

(* The worker goes on with the list; the thread that finds the bounds *)
(* of the history for the slider has no other use of it.                   *)
Listed(p, found, v) ==
  lister' = [lister EXCEPT ![p] =
    IF p = "worker" THEN [@ EXCEPT !.at = "have", !.found = found, !.todo = {}, !.version = v]
    ELSE NoList]

(* A copy of the list of the last ten seconds, if there is one ...         *)
UseCache(p) ==
  /\ lister[p].at = "scan" /\ lister[p].todo = File /\ ~lister[p].forced
  /\ cache.fresh /\ lock = None
  /\ Listed(p, cache.found, cache.version)
  /\ UNCHANGED <<listRest, cache>>

(* ... or else the log and then the directory are read, without the lock.  *)
(* What has no records is not listed.                                      *)
EntriesOf(files) ==
  {[file |-> f, from |-> disk[f].from, to |-> disk[f].to] :
     f \in {g \in files : HasRecords(disk[g])}}

ScanLog(p) ==
  /\ lister[p].at = "scan" /\ lister[p].todo = File
  /\ lister[p].forced \/ ~cache.fresh
  /\ lister' = [lister EXCEPT ![p].found = EntriesOf({"log"}),
                              ![p].todo = @ \ {"log"}, ![p].version = version]
  /\ UNCHANGED <<listRest, cache>>

ScanDirectory(p) ==
  /\ lister[p].at = "scan" /\ lister[p].todo = File \ {"log"}
  /\ lister' = [lister EXCEPT ![p].found = @ \cup EntriesOf(lister[p].todo),
                              ![p].todo = {}]
  /\ UNCHANGED <<listRest, cache>>

(* The list that was made becomes the one that is kept, last one wins.     *)
Publish(p) ==
  /\ lister[p].at = "scan" /\ lister[p].todo = {} /\ lock = None
  /\ Listed(p, lister[p].found, lister[p].version)
  /\ cache' = IF lister[p].found = {} THEN cache
              ELSE [found |-> lister[p].found, version |-> lister[p].version,
                    fresh |-> TRUE]
  /\ UNCHANGED listRest

(* The other thread that lists does it in one step, when there is no list  *)
(* to copy; it may publish much later.                                     *)
BoundsScan ==
  /\ lister["bounds"].at = "idle" /\ ~cache.fresh
  /\ lister' = [lister EXCEPT !["bounds"] =
                  [NoList EXCEPT !.at = "scan", !.found = EntriesOf(File),
                                 !.version = version]]
  /\ UNCHANGED <<listRest, cache>>

-----------------------------------------------------------------------------
(* evisum_engine_history_time_set, by the worker of the process list, and  *)
(* evisum_engine_history_live_set, by the main thread (the worker's own    *)
(* are between its calls of history_time_set, as the main thread's can be) *)

callRest == <<fileVars, cache, reader>>
Done(p) == call' = [call EXCEPT ![p] = NoCall]

(* A client that is calloc'ed: one that is not in use.                     *)
Free == freed

TimeSet(t) ==
  /\ call["worker"].at = "idle"
  /\ t \in 1 .. now
  /\ call' = [call EXCEPT !["worker"] = [NoCall EXCEPT !.at = "list", !.time = t]]
  /\ lister' = [lister EXCEPT !["worker"] = [NoList EXCEPT !.at = "scan", !.todo = File]]
  /\ UNCHANGED <<callRest, engineVars, lock>>

(* Mutant of Having: only the start of a log is looked at.                 *)
HavingStart(list, t) == {e \in list : e.from <= t}

(* The logs of the list that hold the time.                                *)
Having(list, t) == {e \in list : Holds(e, t)}

(* The first log that holds the time; if the list has none, the directory  *)
(* is read afresh, once; if that has none, nothing is done.                *)
Select ==
  /\ call["worker"].at = "list" /\ lister["worker"].at = "have"
  /\ LET list == lister["worker"].found
         logs == Having(list, call["worker"].time)
     IN CASE logs # {} ->
               /\ \E e \in logs :
                    /\ \A o \in logs : e.from <= o.from
                    /\ call' = [call EXCEPT !["worker"].at = "read",
                                            !["worker"].file = e.file]
               /\ lister' = [lister EXCEPT !["worker"].found = {}]
          [] logs = {} /\ ~lister["worker"].forced ->
               /\ lister' = [lister EXCEPT !["worker"] =
                    [NoList EXCEPT !.at = "scan", !.todo = File, !.forced = TRUE]]
               /\ UNCHANGED call
          [] OTHER -> Done("worker") /\ lister' = [lister EXCEPT !["worker"] = NoList]
  /\ UNCHANGED <<callRest, engineVars, lock>>

(* What a client that reads f from its start up to t has last.             *)
LastUpTo(f, t) ==
  CASE ~HasRecords(f) \/ f.from > t -> 0
    [] HasRecords(f) /\ f.to < t -> f.to
    [] OTHER -> t

(* A client reads the file of that name, whatever it is by now, up to the  *)
(* time; the file may have been removed.                                   *)
ReadLog ==
  /\ call["worker"].at = "read" /\ Free # {}
  /\ LET c == CHOOSE c \in Free : TRUE
     IN /\ call' = [call EXCEPT !["worker"] =
                      [@ EXCEPT !.at = "swap", !.client = c, !.file = NoCall.file]]
        /\ freed' = freed \ {c}
        /\ shown' = [shown EXCEPT ![c] = LastUpTo(disk[call["worker"].file],
                                                  call["worker"].time)]
  /\ UNCHANGED <<callRest, history, time, lock, lister>>

(* Mutant of Swap: the old client is deleted before the lock is taken, and *)
(* the new one put in its place after.                                     *)
SwapDeleting ==
  /\ call["worker"].at = "swap"
  /\ IF history = None \/ history \in freed
     THEN /\ lock = None
          /\ history' = call["worker"].client /\ time' = call["worker"].time
          /\ Done("worker")
          /\ lister' = [lister EXCEPT !["worker"] = NoList]
          /\ UNCHANGED freed
     ELSE freed' = freed \cup {history} /\ UNCHANGED <<history, time, call, lister>>
  /\ UNCHANGED <<callRest, shown, lock>>

(* Under the lock the client takes the place of the old one, ...           *)
Swap ==
  /\ call["worker"].at = "swap" /\ lock = None
  /\ history' = call["worker"].client /\ time' = call["worker"].time
  /\ call' = [call EXCEPT !["worker"].at = "delete", !["worker"].client = history]
  /\ lister' = [lister EXCEPT !["worker"] = NoList]
  /\ UNCHANGED <<callRest, freed, shown, lock>>

(* In live mode it changes nothing.                                         *)
LiveSet(p) ==
  /\ call[p].at = "idle" /\ lock = None /\ time # 0
  /\ history' = None /\ time' = 0
  /\ call' = [call EXCEPT ![p] = [NoCall EXCEPT !.at = "delete", !.client = history]]
  /\ UNCHANGED <<callRest, freed, shown, lock, lister>>

(* ... which is deleted when the lock has been given back.                 *)
Delete(p) ==
  /\ call[p].at = "delete"
  /\ IF call[p].client = None THEN UNCHANGED <<freed, shown>>
     ELSE /\ freed' = freed \cup {call[p].client}
          /\ shown' = [shown EXCEPT ![call[p].client] = 0]
  /\ Done(p)
  /\ UNCHANGED <<callRest, history, time, lock, lister>>

-----------------------------------------------------------------------------
(* The threads of the windows: every getter of the engine *)

readRest == <<fileVars, engineVars, cache, lister, call>>

(* _engine_snapshot_acquire takes the lock and keeps it.                   *)
Acquire(w) ==
  /\ lock = None
  /\ lock' = w
  /\ reader' = [reader EXCEPT ![w] = IF history # None THEN history ELSE Live]
  /\ UNCHANGED readRest

(* Mutant of Release: an early return forgets the lock.                    *)
ReleaseForgetting(w) ==
  /\ lock = w
  /\ reader' = [reader EXCEPT ![w] = None]
  /\ UNCHANGED <<readRest, lock>>

(* The getter has copied what it wants, and _engine_snapshot_release.      *)
Release(w) ==
  /\ lock = w
  /\ lock' = None
  /\ reader' = [reader EXCEPT ![w] = None]
  /\ UNCHANGED readRest

-----------------------------------------------------------------------------
List(p) == UseCache(p) \/ ScanLog(p) \/ ScanDirectory(p) \/ Publish(p)
CallStep(p) ==
  \/ p = "worker" /\ (List(p) \/ Select \/ ReadLog \/ Swap)
  \/ Delete(p)

Next ==
  \/ Tick \/ Rotate \/ Compress \/ RemoveCopy \/ Expire
  \/ Publish("bounds") \/ BoundsScan
  \/ \E t \in Times : TimeSet(t)
  \/ LiveSet("main")
  \/ \E p \in Caller : CallStep(p)
  \/ \E w \in Worker : Acquire(w) \/ Release(w)

Spec == Init /\ [][Next]_vars

(* The lock is fair enough that its callers get it between readers.    *)
FairSpec ==
  /\ Spec
  /\ \A p \in Caller : SF_vars(CallStep(p))
  /\ \A w \in Worker : WF_vars(Release(w))

-----------------------------------------------------------------------------
(* Properties *)

(* A getter that holds the lock reads no snapshot that is deleted under    *)
(* it: history_time_set deletes the old client after the swap.             *)
ReadersSafe == \A w \in Worker : reader[w] \notin freed

(* The client whose snapshot is shown exists, and is never the one that is *)
(* about to be deleted or the one that is being filled.                    *)
ShownExists ==
  /\ history \notin freed
  /\ \A p \in Caller :
       call[p].at \in {"swap", "delete"} /\ call[p].client # None
         => call[p].client # history

(* When history_time_set is done, the windows see the very time that was   *)
(* asked for, unless a log was rotated or removed since the list was made. *)
ShowsTimeAsked ==
  [][history' # history /\ history' # None /\ lister["worker"].version = version
       => shown[history'] = time']_vars

(* What is shown is never later than the time that was asked for, however  *)
(* old the list was.                                                       *)
NeverLater == history # None => shown[history] <= time

(* What holds of clients and readers at every step.                        *)
HistoryInv == TypeOK /\ ReadersSafe /\ ShownExists /\ NeverLater

(* Setting the time, or going back to live, ends.                          *)
CallsEnd == \A p \in Caller : call[p].at # "idle" ~> call[p].at = "idle"
=============================================================================
