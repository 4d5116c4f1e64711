----------------------------- MODULE Lifecycle -----------------------------
(***************************************************************************)
(* Starting and stopping the enigmatic daemon.  A daemon is admitted by    *)
(* flock on the lock file, leaves its pid in the pidfile, and removes both *)
(* when it exits.  enigmatic_start launches a daemon unless one seems to   *)
(* be there; "enigmatic -s" asks the daemon to stop, or signals the pid of *)
(* the pidfile.  A process is a pid; a pid that has no process may be      *)
(* given to a new daemon or to a process that has nothing to do with it.   *)
(***************************************************************************)
EXTENDS Naturals

CONSTANTS
  Pid,        \* pids a daemon may get
  Inode,      \* inodes a lock file may get
  Starter,    \* runs of enigmatic_start
  Stopper,    \* runs of enigmatic -s
  None,       \* no pid, no inode, no file
  Tries,      \* bound: the 20 and 60 rounds of enigmatic_start, the 50 of -s
  MaxCrash,   \* bound: daemons killed from outside
  MaxOther    \* bound: pids given to unrelated processes

ASSUME NoneAssumption == None \notin Pid \cup Inode
ASSUME SomeAssumption == Pid # {} /\ Inode # {}
ASSUME ToolsAssumption == Starter \cap Stopper = {}
ASSUME BoundsAssumption == Tries \in Nat /\ MaxCrash \in Nat /\ MaxOther \in Nat

VARIABLES
  proc,       \* proc[p]: where the process with pid p is
  fd,         \* fd[p]: the inode of the lock file that p has open
  lockPath,   \* the inode that the path of the lock file names
  pidfile,    \* the pid in the pidfile
  term,       \* the pids whose SIGTERM has not been handled yet
  start,      \* start[s]: where the run s of enigmatic_start is
  stop,       \* stop[s]: where the run s of enigmatic -s is
  target,     \* target[s]: the pid that s read from the pidfile
  tries,      \* tries[s]: rounds left in the loop s is in
  crashes, others,
  lostLock,   \* history: an exit unlinked a lock file another process had open
  strayRemoval \* history: a stopper removed the pidfile of a live daemon

procVars == <<proc, fd, lockPath, pidfile, term>>
toolVars == <<start, stop, target, tries>>
countVars == <<crashes, others>>
historyVars == <<lostLock, strayRemoval>>
vars == <<procVars, toolVars, countVars, historyVars>>

-----------------------------------------------------------------------------
ProcStates == {"none", "other", "boot", "opened", "locked", "recorded", "run",
               "stopping", "unrecorded", "unlocked"}
StartStates == {"idle", "ready", "alive", "fork", "poll", "ok", "failed"}
StopStates == {"idle", "query", "read", "kill", "wait", "remove", "done"}

TypeOK ==
  /\ proc \in [Pid -> ProcStates]
  /\ fd \in [Pid -> Inode \cup {None}]
  /\ lockPath \in Inode \cup {None}
  /\ pidfile \in Pid \cup {None}
  /\ term \subseteq Pid
  /\ start \in [Starter -> StartStates]
  /\ stop \in [Stopper -> StopStates]
  /\ target \in [Stopper -> Pid \cup {None}]
  /\ tries \in [Starter \cup Stopper -> 0 .. Tries]
  /\ crashes \in 0 .. MaxCrash
  /\ others \in 0 .. MaxOther
  /\ lostLock \in BOOLEAN
  /\ strayRemoval \in BOOLEAN

(* A daemon that may have been started before; any pid and inode will do.  *)
Old == CHOOSE p \in Pid : TRUE
OldLock == CHOOSE i \in Inode : TRUE

(* Nothing is there, or that daemon serves.                                *)
Init ==
  /\ \E before \in BOOLEAN :
       /\ proc = [p \in Pid |-> IF before /\ p = Old THEN "run" ELSE "none"]
       /\ fd = [p \in Pid |-> IF before /\ p = Old THEN OldLock ELSE None]
       /\ lockPath = IF before THEN OldLock ELSE None
       /\ pidfile = IF before THEN Old ELSE None
  /\ term = {}
  /\ start = [s \in Starter |-> "idle"]
  /\ stop = [s \in Stopper |-> "idle"]
  /\ target = [s \in Stopper |-> None]
  /\ tries = [s \in Starter \cup Stopper |-> Tries]
  /\ crashes = 0
  /\ others = 0
  /\ lostLock = FALSE
  /\ strayRemoval = FALSE

Holding == {"locked", "recorded", "run", "stopping", "unrecorded"}

(* p holds the lock of the inode it has open.                              *)
Holds(p) == proc[p] \in Holding

(* p is a daemon between main and exit.                                    *)
IsDaemon(p) == proc[p] \notin {"none", "other"}

Goto(p, to) == proc' = [proc EXCEPT ![p] = to]

(* The process is gone; the kernel closes its descriptors.                 *)
Gone(p) ==
  /\ Goto(p, "none")
  /\ fd' = [fd EXCEPT ![p] = None]
  /\ term' = term \ {p}

-----------------------------------------------------------------------------
(* The daemon *)

(* Mutant of OpenLock: O_EXCL, a lock file that exists is taken for a lock. *)
OpenLockExclusive(p) ==
  /\ proc[p] = "boot"
  /\ IF lockPath = None
     THEN \E i \in Inode :
            /\ \A q \in Pid : fd[q] # i
            /\ lockPath' = i
            /\ fd' = [fd EXCEPT ![p] = i]
            /\ Goto(p, "opened")
            /\ UNCHANGED term
     ELSE Gone(p) /\ UNCHANGED lockPath
  /\ UNCHANGED <<pidfile, toolVars, countVars, historyVars>>

(* enigmatic_log_lock opens the lock file, creating it if the path is free *)
(* ...                                                                     *)
OpenLock(p) ==
  /\ proc[p] = "boot"
  /\ IF lockPath = None
     THEN \E i \in Inode :
            /\ \A q \in Pid : fd[q] # i
            /\ lockPath' = i
            /\ fd' = [fd EXCEPT ![p] = i]
     ELSE fd' = [fd EXCEPT ![p] = lockPath] /\ UNCHANGED lockPath
  /\ Goto(p, "opened")
  /\ UNCHANGED <<pidfile, term, toolVars, countVars, historyVars>>

(* Mutant of Flock: the result of flock is ignored.                        *)
FlockIgnored(p) ==
  /\ proc[p] = "opened"
  /\ Goto(p, "locked")
  /\ UNCHANGED <<fd, term, lockPath, pidfile, toolVars, countVars, historyVars>>

(* ... and takes its lock without waiting, or prints "Program already      *)
(* running!" and exits.                                                    *)
Flock(p) ==
  /\ proc[p] = "opened"
  /\ IF \E q \in Pid : Holds(q) /\ fd[q] = fd[p]
     THEN Gone(p)
     ELSE Goto(p, "locked") /\ UNCHANGED <<fd, term>>
  /\ UNCHANGED <<lockPath, pidfile, toolVars, countVars, historyVars>>

(* enigmatic_init: enigmatic_pidfile_create overwrites the pidfile ...     *)
WritePid(p) ==
  /\ proc[p] = "locked"
  /\ pidfile' = p
  /\ Goto(p, "recorded")
  /\ UNCHANGED <<fd, lockPath, term, toolVars, countVars, historyVars>>

(* ... and enigmatic_server_init opens the socket; the main loop starts.   *)
Serve(p) ==
  /\ proc[p] = "recorded"
  /\ Goto(p, "run")
  /\ UNCHANGED <<fd, lockPath, pidfile, term, toolVars, countVars, historyVars>>

(* cb_shutdown, then enigmatic_shutdown up to enigmatic_server_shutdown.   *)
BeginStop(p) ==
  /\ proc[p] = "run"
  /\ p \in term
  /\ term' = term \ {p}
  /\ Goto(p, "stopping")
  /\ UNCHANGED <<fd, lockPath, pidfile, toolVars, countVars, historyVars>>

(* enigmatic_pidfile_delete removes the file at the path.                  *)
DeletePid(p) ==
  /\ proc[p] = "stopping"
  /\ pidfile' = None
  /\ Goto(p, "unrecorded")
  /\ UNCHANGED <<fd, lockPath, term, toolVars, countVars, historyVars>>

(* cb_exit, enigmatic_log_unlock: LOCK_UN first ...                        *)
Unlock(p) ==
  /\ proc[p] = "unrecorded"
  /\ Goto(p, "unlocked")
  /\ UNCHANGED <<fd, lockPath, pidfile, term, toolVars, countVars, historyVars>>

(* ... then unlink(path), close and exit.                                  *)
Unlink(p) ==
  /\ proc[p] = "unlocked"
  /\ lockPath' = None
  /\ lostLock' = (lostLock \/ \E q \in Pid \ {p} : lockPath # None /\ fd[q] = lockPath)
  /\ Gone(p)
  /\ UNCHANGED <<pidfile, toolVars, countVars, strayRemoval>>

Crash(p) ==
  /\ crashes < MaxCrash
  /\ IsDaemon(p)
  /\ crashes' = crashes + 1
  /\ Gone(p)
  /\ UNCHANGED <<lockPath, pidfile, toolVars, others, historyVars>>

(* A process that is not enigmatic gets pid p, and ends.                   *)
OtherStarts(p) ==
  /\ others < MaxOther
  /\ proc[p] = "none"
  /\ others' = others + 1
  /\ Goto(p, "other")
  /\ UNCHANGED <<fd, lockPath, pidfile, term, toolVars, crashes, historyVars>>

OtherEnds(p) ==
  /\ proc[p] = "other"
  /\ Gone(p)
  /\ UNCHANGED <<lockPath, pidfile, toolVars, countVars, historyVars>>

-----------------------------------------------------------------------------
(* enigmatic_start *)

(* _pidfile_proc_alive: kill(pid, 0) finds some process.                   *)
PidfileAlive == pidfile # None /\ proc[pidfile] # "none"

(* _enigmatic_ping: main ignores SIGCHLD, so waitpid fails with ECHILD and *)
(* status keeps its initial 0: the answer of the child is never seen.      *)
Ping == TRUE

DaemonReady == PidfileAlive /\ Ping

StartGoto(s, to) == start' = [start EXCEPT ![s] = to]

StartMain(s) ==
  /\ start[s] = "idle"
  /\ StartGoto(s, IF DaemonReady THEN "ok" ELSE "ready")
  /\ UNCHANGED <<procVars, stop, target, tries, countVars, historyVars>>

(* The wait loop: _daemon_ready ...                                        *)
StartWaitReady(s) ==
  /\ start[s] = "ready"
  /\ StartGoto(s, IF tries[s] = 0 THEN "fork" ELSE IF DaemonReady THEN "ok" ELSE "alive")
  /\ UNCHANGED <<procVars, stop, target, tries, countVars, historyVars>>

(* ... then a second look at the pidfile, and 100 ms of sleep.             *)
StartWaitAlive(s) ==
  /\ start[s] = "alive"
  /\ IF PidfileAlive
     THEN StartGoto(s, "ready") /\ tries' = [tries EXCEPT ![s] = @ - 1]
     ELSE StartGoto(s, "fork") /\ UNCHANGED tries
  /\ UNCHANGED <<procVars, stop, target, countVars, historyVars>>

StartFork(s) ==
  /\ start[s] = "fork"
  /\ \E p \in Pid : proc[p] = "none" /\ Goto(p, "boot")
  /\ StartGoto(s, "poll")
  /\ tries' = [tries EXCEPT ![s] = Tries]
  /\ UNCHANGED <<fd, lockPath, pidfile, term, stop, target, countVars, historyVars>>

StartPoll(s) ==
  /\ start[s] = "poll"
  /\ CASE tries[s] = 0 -> StartGoto(s, "failed") /\ UNCHANGED tries
       [] tries[s] > 0 /\ DaemonReady -> StartGoto(s, "ok") /\ UNCHANGED tries
       [] OTHER -> UNCHANGED start /\ tries' = [tries EXCEPT ![s] = @ - 1]
  /\ UNCHANGED <<procVars, stop, target, countVars, historyVars>>

-----------------------------------------------------------------------------
(* enigmatic -s *)

StopGoto(s, to) == stop' = [stop EXCEPT ![s] = to]

(* enigmatic_query_send: a daemon that serves its socket answers STOPPING  *)
(* and raises SIGTERM; nobody answers, or not within a second.             *)
StopQuery(s) ==
  /\ stop[s] = "idle"
  /\ \/ \E p \in Pid :
          /\ proc[p] = "run"
          /\ term' = term \cup {p}
          /\ StopGoto(s, "done")
     \/ term' = term /\ StopGoto(s, "read")
  /\ UNCHANGED <<proc, fd, lockPath, pidfile, start, target, tries, countVars, historyVars>>

(* enigmatic_terminate reads the pidfile; _pid_is_enigmatic.               *)
StopRead(s) ==
  /\ stop[s] = "read"
  /\ IF pidfile # None /\ IsDaemon(pidfile)
     THEN target' = [target EXCEPT ![s] = pidfile] /\ StopGoto(s, "kill")
     ELSE target' = target /\ StopGoto(s, "done")
  /\ UNCHANGED <<procVars, start, tries, countVars, historyVars>>

(* kill(pid, SIGTERM).  A daemon that has not installed its handlers, or   *)
(* an unrelated process that has the pid by now, dies of it.               *)
StopKill(s) ==
  /\ stop[s] = "kill"
  /\ LET p == target[s] IN
     CASE proc[p] = "none" ->
            StopGoto(s, "remove") /\ UNCHANGED <<proc, fd, term>>
       [] proc[p] \in {"other", "boot", "opened", "locked"} ->
            StopGoto(s, "wait") /\ Gone(p)
       [] OTHER ->
            StopGoto(s, "wait") /\ term' = term \cup {p} /\ UNCHANGED <<proc, fd>>
  /\ UNCHANGED <<lockPath, pidfile, start, target, tries, countVars, historyVars>>

(* Wait until the pid has no process any more.                             *)
StopWait(s) ==
  /\ stop[s] = "wait"
  /\ CASE tries[s] = 0 -> StopGoto(s, "done") /\ UNCHANGED tries
       [] tries[s] > 0 /\ proc[target[s]] = "none" ->
            StopGoto(s, "remove") /\ UNCHANGED tries
       [] OTHER -> UNCHANGED stop /\ tries' = [tries EXCEPT ![s] = @ - 1]
  /\ UNCHANGED <<procVars, start, target, countVars, historyVars>>

(* ecore_file_remove of whatever the path names by now.                    *)
StopRemove(s) ==
  /\ stop[s] = "remove"
  /\ strayRemoval' = (strayRemoval \/ (pidfile # None /\ IsDaemon(pidfile)))
  /\ pidfile' = None
  /\ StopGoto(s, "done")
  /\ UNCHANGED <<proc, fd, lockPath, term, start, target, tries, countVars, lostLock>>

-----------------------------------------------------------------------------
DaemonStep(p) ==
  \/ OpenLock(p) \/ Flock(p) \/ WritePid(p) \/ Serve(p)
  \/ BeginStop(p) \/ DeletePid(p) \/ Unlock(p) \/ Unlink(p)

StartStep(s) ==
  \/ StartMain(s) \/ StartWaitReady(s) \/ StartWaitAlive(s)
  \/ StartFork(s) \/ StartPoll(s)

StopStep(s) ==
  \/ StopQuery(s) \/ StopRead(s) \/ StopKill(s) \/ StopWait(s) \/ StopRemove(s)

Next ==
  \/ \E p \in Pid : DaemonStep(p) \/ Crash(p) \/ OtherStarts(p) \/ OtherEnds(p)
  \/ \E s \in Starter : StartStep(s)
  \/ \E s \in Stopper : StopStep(s)

Spec == Init /\ [][Next]_vars

(* The system schedules every daemon and every start that can take a step; *)
(* nobody has to stop anything.                                            *)
FairSpec ==
  /\ Spec
  /\ \A p \in Pid : WF_vars(DaemonStep(p))
  /\ \A s \in Starter : WF_vars(StartStep(s))

-----------------------------------------------------------------------------
(* Properties *)

(* One daemon at a time is past the lock: what "Store only (see            *)
(* enigmatic_log_lock)." and "Program already running!" rely on.           *)
SingleDaemon == \A p, q \in Pid : Holds(p) /\ Holds(q) => p = q

(* Two daemons hold the lock at once only after an exit has unlinked a     *)
(* lock file that another process had open: crashes, stale files, reused   *)
(* pids and concurrent starts never lead there.                            *)
SingleUnlessUnlinked == lostLock \/ SingleDaemon

(* A daemon that is up, and has not begun to remove its files, is the one  *)
(* in the pidfile, unless the lock was lost as above or "enigmatic -s"     *)
(* removed the pidfile of the daemon that followed the one it stopped.     *)
PidfileNamesDaemon ==
  lostLock \/ strayRemoval \/
    \A p \in Pid : proc[p] \in {"recorded", "run", "stopping"} => pidfile = p

(* Whatever a killed daemon left behind, a start that gets as far as       *)
(* launching one ends with a daemon that serves, however many starts race, *)
(* unless "enigmatic -s" is called too.                                    *)
StartsAfterCrash ==
  \A s \in Starter :
    (start[s] = "fork" /\ crashes = MaxCrash)
      ~> \/ \E p \in Pid : proc[p] = "run"
         \/ \E t \in Stopper : stop[t] # "idle"

(* What holds of locks and pidfile at every step.                          *)
LifecycleInv == TypeOK /\ SingleUnlessUnlinked /\ PidfileNamesDaemon
=============================================================================
