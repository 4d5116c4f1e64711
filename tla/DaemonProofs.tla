---------------------------- MODULE DaemonProofs ----------------------------
(***************************************************************************)
(* Which daemons run, and what a client learns of the numbers one logs.    *)
(***************************************************************************)
EXTENDS Lifecycle, Scalars, NaturalsInduction, WellFoundedInduction,
        SequenceTheorems, TLAPS

(***************************************************************************)
(* At most one daemon is past the lock until an exit has unlinked a lock   *)
(* file another one had open, and the pidfile names it: for any number of  *)
(* processes, starts, stops and crashes.                                   *)
(*                                                                         *)
(* The inductive invariant is LockInv: until that happens every open lock  *)
(* file is the one at the path, so that flock compares like with like.     *)
(***************************************************************************)

(* What the loops of the tools rely on.                                    *)
ToolsInv ==
  /\ \A s \in Starter : start[s] = "alive" => tries[s] # 0
  /\ \A s \in Stopper : stop[s] \in {"kill", "wait", "remove"} => target[s] \in Pid

(* p has the lock file open.                                               *)
HasOpen(p) == proc[p] \in Holding \cup {"opened", "unlocked"}

LockInv ==
  lostLock \/ \A p \in Pid : HasOpen(p) => lockPath # None /\ fd[p] = lockPath

IInv == TypeOK /\ ToolsInv /\ LockInv /\ SingleUnlessUnlinked /\ PidfileNamesDaemon

-----------------------------------------------------------------------------
(* The old daemon of the initial states is a process, its lock a file.     *)
LEMMA OldExists == Old \in Pid /\ OldLock \in Inode
BY SomeAssumption DEF Old, OldLock

LEMMA InitIInv == Init => IInv
<1> SUFFICES ASSUME Init PROVE IInv
  OBVIOUS
<1> PICK before \in BOOLEAN :
       /\ proc = [p \in Pid |-> IF before /\ p = Old THEN "run" ELSE "none"]
       /\ fd = [p \in Pid |-> IF before /\ p = Old THEN OldLock ELSE None]
       /\ lockPath = IF before THEN OldLock ELSE None
       /\ pidfile = IF before THEN Old ELSE None
  BY DEF Init
<1>1. TypeOK
  <2>1. /\ proc \in [Pid -> ProcStates]
        /\ fd \in [Pid -> Inode \cup {None}]
        /\ lockPath \in Inode \cup {None} /\ pidfile \in Pid \cup {None}
    BY OldExists DEF ProcStates
  <2>2. tries \in [Starter \cup Stopper -> 0 .. Tries]
    BY BoundsAssumption DEF Init
  <2>3. crashes \in 0 .. MaxCrash /\ others \in 0 .. MaxOther
    BY BoundsAssumption DEF Init
  <2> QED
    BY <2>1, <2>2, <2>3 DEF Init, TypeOK, StartStates, StopStates
<1>2. ToolsInv
  BY DEF Init, ToolsInv
<1>3. LockInv
  BY OldExists, NoneAssumption DEF LockInv, HasOpen, Holding
<1>4. SingleUnlessUnlinked
  BY DEF SingleUnlessUnlinked, SingleDaemon, Holds, Holding
<1>5. PidfileNamesDaemon
  BY DEF PidfileNamesDaemon
<1> QED
  BY <1>1, <1>2, <1>3, <1>4, <1>5 DEF IInv

(* Types are kept.                                                         *)
LEMMA TypeStep ==
  ASSUME TypeOK, ToolsInv, [Next]_vars
  PROVE  TypeOK'
<1> USE DEF TypeOK, ToolsInv, ProcStates, StartStates, StopStates
<1>1. CASE \E p \in Pid : OpenLock(p)
  BY <1>1 DEF OpenLock, Goto, procVars, toolVars, countVars, historyVars
<1>2. CASE \E p \in Pid : Flock(p)
  BY <1>2 DEF Flock, Goto, Gone, Holds, procVars, toolVars, countVars,
       historyVars
<1>3. CASE \E p \in Pid : WritePid(p)
  BY <1>3 DEF WritePid, Goto, procVars, toolVars, countVars, historyVars
<1>4. CASE \E p \in Pid : Serve(p)
  BY <1>4 DEF Serve, Goto, procVars, toolVars, countVars, historyVars
<1>5. CASE \E p \in Pid : BeginStop(p)
  BY <1>5 DEF BeginStop, Goto, procVars, toolVars, countVars, historyVars
<1>6. CASE \E p \in Pid : DeletePid(p)
  BY <1>6 DEF DeletePid, Goto, procVars, toolVars, countVars, historyVars
<1>7. CASE \E p \in Pid : Unlock(p)
  BY <1>7 DEF Unlock, Goto, procVars, toolVars, countVars, historyVars
<1>8. CASE \E p \in Pid : Unlink(p)
  BY <1>8 DEF Unlink, Goto, Gone, procVars, toolVars, countVars, historyVars
<1>9. CASE \E p \in Pid : Crash(p)
  BY BoundsAssumption, <1>9 DEF Crash, Gone, Goto, IsDaemon, procVars,
       toolVars, countVars, historyVars
<1>10. CASE \E p \in Pid : OtherStarts(p)
  BY BoundsAssumption, <1>10 DEF OtherStarts, Goto, procVars, toolVars,
       countVars, historyVars
<1>11. CASE \E p \in Pid : OtherEnds(p)
  BY <1>11 DEF OtherEnds, Gone, Goto, procVars, toolVars, countVars,
       historyVars
<1>12. CASE \E s \in Starter : StartMain(s)
  BY <1>12 DEF StartMain, StartGoto, DaemonReady, PidfileAlive, Ping,
       procVars, toolVars, countVars, historyVars
<1>13. CASE \E s \in Starter : StartWaitReady(s)
  BY <1>13 DEF StartWaitReady, StartGoto, DaemonReady, PidfileAlive, Ping,
       procVars, toolVars, countVars, historyVars
<1>14. CASE \E s \in Starter : StartWaitAlive(s)
  BY BoundsAssumption, <1>14 DEF StartWaitAlive, StartGoto, PidfileAlive,
       procVars, toolVars, countVars, historyVars
<1>15. CASE \E s \in Starter : StartFork(s)
  BY BoundsAssumption, <1>15 DEF StartFork, StartGoto, Goto, procVars,
       toolVars, countVars, historyVars
<1>16. CASE \E s \in Starter : StartPoll(s)
  BY BoundsAssumption, <1>16 DEF StartPoll, StartGoto, DaemonReady, procVars,
       toolVars, countVars, historyVars
<1>17. CASE \E s \in Stopper : StopQuery(s)
  BY <1>17 DEF StopQuery, StopGoto, procVars, toolVars, countVars, historyVars
<1>18. CASE \E s \in Stopper : StopRead(s)
  BY <1>18 DEF StopRead, StopGoto, IsDaemon, procVars, toolVars, countVars,
       historyVars
<1>19. CASE \E s \in Stopper : StopKill(s)
  BY <1>19 DEF StopKill, StopGoto, Gone, Goto, procVars, toolVars, countVars,
       historyVars
<1>20. CASE \E s \in Stopper : StopWait(s)
  BY BoundsAssumption, <1>20 DEF StopWait, StopGoto, procVars, toolVars,
       countVars, historyVars
<1>21. CASE \E s \in Stopper : StopRemove(s)
  BY <1>21 DEF StopRemove, StopGoto, IsDaemon, procVars, toolVars, countVars,
       historyVars
<1>22. CASE UNCHANGED vars
  BY <1>22 DEF vars, procVars, toolVars, countVars, historyVars
<1> QED
  BY <1>1, <1>2, <1>3, <1>4, <1>5, <1>6, <1>7, <1>8, <1>9, <1>10, <1>11,
     <1>12, <1>13, <1>14, <1>15, <1>16, <1>17, <1>18, <1>19, <1>20, <1>21,
     <1>22 DEF Next, DaemonStep, StartStep, StopStep

(* A tool has what its next step needs.                                    *)
LEMMA ToolsStep ==
  ASSUME TypeOK, ToolsInv, [Next]_vars
  PROVE  ToolsInv'
<1> USE DEF TypeOK, ToolsInv
<1>1. CASE \E s \in Starter : StartWaitReady(s)
  BY <1>1 DEF StartWaitReady, StartGoto, DaemonReady, PidfileAlive, Ping,
       procVars, toolVars
<1>2. CASE \E s \in Starter : StartWaitAlive(s)
  BY <1>2 DEF StartWaitAlive, StartGoto, PidfileAlive, procVars, toolVars
<1>3. CASE \E s \in Starter : StartFork(s)
  BY <1>3 DEF StartFork, StartGoto, Goto, procVars, toolVars
<1>4. CASE \E s \in Starter : StartPoll(s)
  BY <1>4 DEF StartPoll, StartGoto, DaemonReady, procVars, toolVars
<1>5. CASE \E s \in Starter : StartMain(s)
  BY <1>5 DEF StartMain, StartGoto, DaemonReady, PidfileAlive, Ping, procVars,
       toolVars
<1>6. CASE \E s \in Stopper : StopQuery(s)
  BY <1>6 DEF StopQuery, StopGoto, procVars, toolVars
<1>7. CASE \E s \in Stopper : StopRead(s)
  BY <1>7 DEF StopRead, StopGoto, IsDaemon, procVars, toolVars
<1>8. CASE \E s \in Stopper : StopKill(s)
  BY <1>8 DEF StopKill, StopGoto, Gone, Goto, procVars, toolVars
<1>9. CASE \E s \in Stopper : StopWait(s)
  BY ToolsAssumption, <1>9 DEF StopWait, StopGoto, procVars, toolVars
<1>10. CASE \E s \in Stopper : StopRemove(s)
  BY <1>10 DEF StopRemove, StopGoto, IsDaemon, procVars, toolVars
<1>11. CASE UNCHANGED toolVars
  BY <1>11 DEF toolVars
<1> QED
  BY <1>1, <1>2, <1>3, <1>4, <1>5, <1>6, <1>7, <1>8, <1>9, <1>10, <1>11 DEF
     Next, DaemonStep, StartStep, StopStep, vars, OpenLock, Flock, WritePid,
     Serve, BeginStop, DeletePid, Unlock, Unlink, Crash, OtherStarts,
     OtherEnds, toolVars

(* Most steps of the tools only look at processes and files.               *)
Looks == UNCHANGED <<proc, fd, lockPath, pidfile, historyVars>>

(* Steps of the tools that only look.                                      *)
LEMMA ToolsLook ==
  /\ \A s \in Starter :
       StartMain(s) \/ StartWaitReady(s) \/ StartWaitAlive(s) \/ StartPoll(s) => Looks
  /\ \A s \in Stopper : StopQuery(s) \/ StopRead(s) \/ StopWait(s) => Looks
BY DEF Looks, StartMain, StartWaitReady, StartWaitAlive, StartPoll, StopQuery,
       StopRead, StopWait, procVars

(* Every open lock file is the one at the path: one that is opened is, and *)
(* an unlink with another open sets lostLock.                              *)
LEMMA LockStep ==
  ASSUME TypeOK, ToolsInv, LockInv, [Next]_vars
  PROVE  LockInv'
<1> USE DEF TypeOK, ToolsInv, LockInv, HasOpen, Holding, ProcStates
<1>1. CASE \E p \in Pid : OpenLock(p)
  BY NoneAssumption, <1>1 DEF OpenLock, Goto, historyVars
<1>2. CASE \E p \in Pid : Flock(p)
  BY <1>2 DEF Flock, Goto, Gone, Holds, historyVars
<1>3. CASE \E p \in Pid : WritePid(p)
  BY <1>3 DEF WritePid, Goto, historyVars
<1>4. CASE \E p \in Pid : Serve(p)
  BY <1>4 DEF Serve, Goto, historyVars
<1>5. CASE \E p \in Pid : BeginStop(p)
  BY <1>5 DEF BeginStop, Goto, historyVars
<1>6. CASE \E p \in Pid : DeletePid(p)
  BY <1>6 DEF DeletePid, Goto, historyVars
<1>7. CASE \E p \in Pid : Unlock(p)
  BY <1>7 DEF Unlock, Goto, historyVars
<1>8. CASE \E p \in Pid : Unlink(p)
  BY <1>8 DEF Unlink, Goto, Gone, historyVars
<1>9. CASE \E p \in Pid : Crash(p)
  BY <1>9 DEF Crash, Gone, Goto, IsDaemon, historyVars
<1>10. CASE \E p \in Pid : OtherStarts(p)
  BY <1>10 DEF OtherStarts, Goto, historyVars
<1>11. CASE \E p \in Pid : OtherEnds(p)
  BY <1>11 DEF OtherEnds, Gone, Goto, historyVars
<1>12. CASE \E s \in Starter : StartFork(s)
  BY <1>12 DEF StartFork, StartGoto, Goto, historyVars
<1>13. CASE \E s \in Stopper : StopKill(s)
  BY <1>13 DEF StopKill, StopGoto, Gone, Goto, historyVars
<1>14. CASE \E s \in Stopper : StopRemove(s)
  BY <1>14 DEF StopRemove, StopGoto, IsDaemon, historyVars
<1>15. CASE Looks
  BY <1>15 DEF Looks, historyVars
<1> QED
  BY ToolsLook, <1>1, <1>2, <1>3, <1>4, <1>5, <1>6, <1>7, <1>8, <1>9, <1>10,
     <1>11, <1>12, <1>13, <1>14, <1>15 DEF Next, DaemonStep, StartStep,
     StopStep, vars, procVars, historyVars, Looks

(* flock then finds whoever holds the lock.                                *)
LEMMA SingleStep ==
  ASSUME TypeOK, ToolsInv, LockInv, SingleUnlessUnlinked, [Next]_vars
  PROVE  SingleUnlessUnlinked'
<1> USE DEF TypeOK, ToolsInv, LockInv, SingleUnlessUnlinked, SingleDaemon,
            HasOpen, Holds, Holding, ProcStates
<1>1. CASE \E p \in Pid : OpenLock(p)
  BY <1>1 DEF OpenLock, Goto, historyVars
<1>2. CASE \E p \in Pid : Flock(p)
  BY <1>2 DEF Flock, Goto, Gone, Holds, historyVars
<1>3. CASE \E p \in Pid : WritePid(p)
  BY <1>3 DEF WritePid, Goto, historyVars
<1>4. CASE \E p \in Pid : Serve(p)
  BY <1>4 DEF Serve, Goto, historyVars
<1>5. CASE \E p \in Pid : BeginStop(p)
  BY <1>5 DEF BeginStop, Goto, historyVars
<1>6. CASE \E p \in Pid : DeletePid(p)
  BY <1>6 DEF DeletePid, Goto, historyVars
<1>7. CASE \E p \in Pid : Unlock(p)
  BY <1>7 DEF Unlock, Goto, historyVars
<1>8. CASE \E p \in Pid : Unlink(p)
  BY <1>8 DEF Unlink, Goto, Gone, historyVars
<1>9. CASE \E p \in Pid : Crash(p)
  BY <1>9 DEF Crash, Gone, Goto, IsDaemon, historyVars
<1>10. CASE \E p \in Pid : OtherStarts(p)
  BY <1>10 DEF OtherStarts, Goto, historyVars
<1>11. CASE \E p \in Pid : OtherEnds(p)
  BY <1>11 DEF OtherEnds, Gone, Goto, historyVars
<1>12. CASE \E s \in Starter : StartFork(s)
  BY <1>12 DEF StartFork, StartGoto, Goto, historyVars
<1>13. CASE \E s \in Stopper : StopKill(s)
  BY <1>13 DEF StopKill, StopGoto, Gone, Goto, historyVars
<1>14. CASE \E s \in Stopper : StopRemove(s)
  BY <1>14 DEF StopRemove, StopGoto, IsDaemon, historyVars
<1>15. CASE Looks
  BY <1>15 DEF Looks, historyVars
<1> QED
  BY ToolsLook, <1>1, <1>2, <1>3, <1>4, <1>5, <1>6, <1>7, <1>8, <1>9, <1>10,
     <1>11, <1>12, <1>13, <1>14, <1>15 DEF Next, DaemonStep, StartStep,
     StopStep, vars, procVars, historyVars, Looks

(* Whoever writes or deletes the pidfile is that daemon.                   *)
LEMMA PidfileStep ==
  ASSUME TypeOK, ToolsInv, SingleUnlessUnlinked, PidfileNamesDaemon,
         [Next]_vars
  PROVE  PidfileNamesDaemon'
<1> USE DEF TypeOK, ToolsInv, SingleUnlessUnlinked, SingleDaemon,
            PidfileNamesDaemon, Holds, Holding, ProcStates
<1>1. CASE \E p \in Pid : OpenLock(p)
  BY <1>1 DEF OpenLock, Goto, historyVars
<1>2. CASE \E p \in Pid : Flock(p)
  BY <1>2 DEF Flock, Goto, Gone, Holds, historyVars
<1>3. CASE \E p \in Pid : WritePid(p)
  BY <1>3 DEF WritePid, Goto, historyVars
<1>4. CASE \E p \in Pid : Serve(p)
  BY <1>4 DEF Serve, Goto, historyVars
<1>5. CASE \E p \in Pid : BeginStop(p)
  BY <1>5 DEF BeginStop, Goto, historyVars
<1>6. CASE \E p \in Pid : DeletePid(p)
  BY <1>6 DEF DeletePid, Goto, historyVars
<1>7. CASE \E p \in Pid : Unlock(p)
  BY <1>7 DEF Unlock, Goto, historyVars
<1>8. CASE \E p \in Pid : Unlink(p)
  BY <1>8 DEF Unlink, Goto, Gone, historyVars
<1>9. CASE \E p \in Pid : Crash(p)
  BY <1>9 DEF Crash, Gone, Goto, IsDaemon, historyVars
<1>10. CASE \E p \in Pid : OtherStarts(p)
  BY <1>10 DEF OtherStarts, Goto, historyVars
<1>11. CASE \E p \in Pid : OtherEnds(p)
  BY <1>11 DEF OtherEnds, Gone, Goto, historyVars
<1>12. CASE \E s \in Starter : StartFork(s)
  BY <1>12 DEF StartFork, StartGoto, Goto, historyVars
<1>13. CASE \E s \in Stopper : StopKill(s)
  BY <1>13 DEF StopKill, StopGoto, Gone, Goto, historyVars
<1>14. CASE \E s \in Stopper : StopRemove(s)
  <2>1. /\ proc' = proc /\ lostLock' = lostLock
        /\ strayRemoval' = (strayRemoval \/ (pidfile # None /\ IsDaemon(pidfile)))
    BY <1>14 DEF StopRemove, countVars
  <2>2. ASSUME NEW p \in Pid, proc[p] \in {"recorded", "run", "stopping"},
               pidfile = p
        PROVE  pidfile # None /\ IsDaemon(pidfile)
    BY <2>2, NoneAssumption DEF IsDaemon
  <2> QED
    BY <2>1, <2>2
<1>15. CASE Looks
  BY <1>15 DEF Looks, historyVars
<1> QED
  BY ToolsLook, <1>1, <1>2, <1>3, <1>4, <1>5, <1>6, <1>7, <1>8, <1>9, <1>10,
     <1>11, <1>12, <1>13, <1>14, <1>15 DEF Next, DaemonStep, StartStep,
     StopStep, vars, procVars, historyVars, Looks

-----------------------------------------------------------------------------
(* All four hold at every step.                                            *)
LEMMA Invariance == Spec => []IInv
<1>1. IInv /\ [Next]_vars => IInv'
  BY TypeStep, ToolsStep, LockStep, SingleStep, PidfileStep DEF IInv
<1> QED
  BY InitIInv, <1>1, PTL DEF Spec

(* Two daemons are past the lock only after an exit unlinked a lock file   *)
(* another one had open, and until then the pidfile names the daemon       *)
(* (enigmatic_log.c:64-104, enigmatic_util.c:83-120).                      *)
THEOREM LockExcludes == Spec => []LifecycleInv
<1>1. IInv => LifecycleInv
  BY DEF IInv, LifecycleInv
<1> QED
  BY Invariance, <1>1, PTL

-----------------------------------------------------------------------------
(***************************************************************************)
(* What the client has of the daemon's numbers, for every size of page and *)
(* of value.  The log is replayed by a sequence of values, one between     *)
(* every two messages: each message says what changes one into the next,   *)
(* the last is what the monitor holds, and the client is near the one that *)
(* it has come to.                                                         *)
(***************************************************************************)

Bounded == 0 .. Wide - 1
Percentages == 0 .. 100
CardValues == UNION {[1 .. n -> Bounded] : n \in 0 .. MaxCards}

(* The values of a kind, and the one that a record of values has.          *)
Number(k) ==
  CASE k = "memory" -> Bounded
    [] k = "video" -> CardValues
    [] k = "power" -> BOOLEAN
    [] k = "core" -> Percentages

NumberOf(k, v) ==
  CASE k = "memory" -> v.memory
    [] k = "video" -> v.video
    [] k = "power" -> v.power
    [] k = "core" -> v.core.percent

Changes == [width : 1 .. 4, bits : Int]
Messages ==
  [type : {"refresh", "mod"}, card : Nat,
   value : Bounded \cup CardValues \cup BOOLEAN \cup Percentages \cup Changes]

(* The message m tells, of the value `was', that it is `now'.              *)
OneCard(m, was, now) ==
  \E card \in DOMAIN was :
    /\ DOMAIN now = DOMAIN was
    /\ m = Mod(card, LogDiff(Pages(now[card], was[card])))
    /\ now = [was EXCEPT ![card] = now[card]]

Says(k, m, was, now) ==
  \/ m = Refresh(now) /\ (k = "core" => now = was)
  \/ k = "memory" /\ m = Mod(0, LogDiff(Pages(now, was)))
  \/ k = "video" /\ OneCard(m, was, now)
  \/ k = "power" /\ m = Mod(0, now)
  \/ k = "core" /\ m = Mod(0, LogDiff(now - was))

(* The messages f take the value t[0] to t[1], to t[2] and so on.          *)
Replays(k, f, t) ==
  /\ t \in [0 .. Len(f) -> Number(k)]
  /\ \A i \in 1 .. Len(f) : Says(k, f[i], t[i - 1], t[i])

(* What a client has that has been told of v.                              *)
Near(k, v, c, l) ==
  /\ k = "memory" => Behind(v, c.memory) <= (Page - 1) * l.memory
  /\ k = "video" =>
       /\ DOMAIN c.video = DOMAIN v
       /\ \A i \in DOMAIN v : Behind(v[i], c.video[i]) <= (Page - 1) * l.video[i]
  /\ k = "power" => c.power = v
  /\ k = "core" => c.core = [percent |-> v, cached |-> TRUE]

Lost == [memory : Nat, video : [Cards -> Nat]]
Samples == [busy : Int, idle : Int, interval : Intervals, percent : Percentages]

ScalarsTypeInv ==
  /\ kind \in Kinds /\ interval \in Intervals
  /\ daemon \in Values /\ client \in Values
  /\ sample \in Samples
  /\ file \in Seq(Messages) /\ at \in 0 .. Len(file)
  /\ lost \in Lost
  /\ broadcast \in BOOLEAN

(* The log tells what the daemon has, and the client has what it was told. *)
Followed ==
  \E t : /\ Replays(kind, file, t)
         /\ t[Len(file)] = NumberOf(kind, daemon)
         /\ at > 0 => Near(kind, t[at], client, lost)

(* A file begins with a whole value, but for the power, which the helper   *)
(* thread may keep from the broadcast.                                     *)
BeginsWhole ==
  kind # "power" => IF file = <<>> THEN broadcast ELSE file[1].type = "refresh"

(* A core is in the daemon's cache before it is in the log, and in the     *)
(* client's list when that has read of it.                                 *)
CoreCached ==
  kind = "core" =>
    /\ file # <<>> => daemon.core.cached
    /\ at = 0 => ~client.core.cached

(* The monitors of the other kinds are not looked at.                      *)
OthersIdle ==
  /\ kind # "memory" => daemon.memory = 0 /\ client.memory = 0
  /\ kind # "video" => daemon.video = <<>> /\ client.video = <<>>

FollowInv == Followed /\ BeginsWhole /\ CoreCached /\ OthersIdle /\ stray = FALSE

ScalarsIInv == ScalarsTypeInv /\ FollowInv /\ PercentFair
-----------------------------------------------------------------------------
(* Arithmetic *)

(* Quotient and remainder.                                                 *)
LEMMA Division ==
  ASSUME NEW a \in Int, NEW n \in Nat \ {0}
  PROVE  /\ a \div n \in Int /\ a % n \in 0 .. n - 1
         /\ a = n * (a \div n) + (a % n)
  OBVIOUS

(* There is only one of each.                                              *)
LEMMA DivisionUnique ==
  ASSUME NEW n \in Nat \ {0}, NEW p \in Int, NEW q \in Int,
         NEW r \in 0 .. n - 1, NEW s \in 0 .. n - 1, n * p + r = n * q + s
  PROVE  p = q /\ r = s
<1> DEFINE d == p - q
<1>1. d \in Int /\ n * d = s - r
  OBVIOUS
<1>2. ~(d >= 1)
  <2> SUFFICES ASSUME d >= 1 PROVE FALSE
    OBVIOUS
  <2>1. \A m \in Nat : n * (1 + m) >= n
    OBVIOUS
  <2>2. n * d >= n
    <3>1. d - 1 \in Nat /\ d = 1 + (d - 1)
      BY <1>1
    <3> HIDE DEF d
    <3> QED
      BY <2>1, <3>1
  <2> HIDE DEF d
  <2> QED
    BY <1>1, <2>2
<1>3. ~(d <= -1)
  <2> SUFFICES ASSUME d <= -1 PROVE FALSE
    OBVIOUS
  <2>1. \A m \in Nat : n * (-1 - m) <= -n
    OBVIOUS
  <2>2. n * d <= -n
    <3>1. -1 - d \in Nat /\ d = -1 - (-1 - d)
      BY <1>1
    <3> HIDE DEF d
    <3> QED
      BY <2>1, <3>1
  <2> HIDE DEF d
  <2> QED
    BY <1>1, <2>2
<1>4. d = 0
  <2> HIDE DEF d
  <2> QED
    BY <1>1, <1>2, <1>3
<1> QED
  BY <1>1, <1>4

(* A remainder taken once more adds no more than its own size.             *)
LEMMA RemainderGrows ==
  ASSUME NEW n \in Nat \ {0}, NEW a \in Int, NEW r \in Nat
  PROVE  (a + r) % n <= (a % n) + r
<1> DEFINE b == a + r
           x == a \div n
           y == b \div n
<1>1. /\ b \in Int /\ x \in Int /\ y \in Int /\ a % n \in 0 .. n - 1
      /\ b % n \in 0 .. n - 1
      /\ a = n * x + (a % n) /\ b = n * y + (b % n)
  BY Division
<1>2. n * y >= n * x
  <2>1. y >= x
    <3> SUFFICES ASSUME x - y >= 1 PROVE FALSE
      BY <1>1
    <3>1. x - y - 1 \in Nat /\ n * (x - y - 1) >= 0
      BY <1>1
    <3>2. n * x >= n * y + n
      BY <1>1, <3>1
    <3> QED
      BY <1>1, <3>2
  <2>2. y - x \in Nat /\ n * (y - x) >= 0
    BY <1>1, <2>1
  <2> QED
    BY <1>1, <2>2
<1> QED
  BY <1>1, <1>2

(* Adding multiples of n changes no remainder.                             *)
LEMMA SameRemainder ==
  ASSUME NEW n \in Nat \ {0}, NEW a \in Int, NEW b \in Int, NEW k \in Int, a = b + n * k
  PROVE  a % n = (b % n)
<1> DEFINE x == a \div n
           y == b \div n
<1>1. /\ x \in Int /\ y \in Int /\ a % n \in 0 .. n - 1 /\ b % n \in 0 .. n - 1
      /\ a = n * x + (a % n) /\ b = n * y + (b % n)
  BY Division
<1> DEFINE z == y + k
           r == a % n
           s == b % n
<1>2. /\ n * x + r = n * z + s /\ z \in Int /\ x \in Int /\ r \in 0 .. n - 1
      /\ s \in 0 .. n - 1
  <2> HIDE DEF x, y, r, s
  <2> QED
    BY <1>1 DEF r, s
<1> HIDE DEF x, y, z, r, s
<1>3. r = s
  BY <1>2, DivisionUnique
<1> QED
  BY <1>3 DEF r, s

-----------------------------------------------------------------------------
(* Differences *)

(* A difference comes through the narrowest of the widths it fits in.      *)
LEMMA CodecIsExact ==
  ASSUME NEW v \in Int, Fits(v, 4)
  PROVE  LogDiff(v) \in Changes /\ ChangeFind(LogDiff(v)) = v
<1> DEFINE w == Width(v)
           h == Half[w]
<1>1. w \in 1 .. 4 /\ Fits(v, w)
  BY DEF Width
<1>2. h \in Nat /\ -h <= v /\ v <= h - 1
  <2>1. Half[w] \in Nat \ {0}
    BY <1>1, ConstantsAssumption
  <2> HIDE DEF w
  <2> QED
    BY <1>1, <2>1 DEF Fits
<1> DEFINE bits == IF v < 0 THEN v + 2 * h ELSE v
<1>3. LogDiff(v) = [width |-> w, bits |-> bits]
  BY DEF LogDiff
<1>4. bits \in Int /\ (IF bits < h THEN bits ELSE bits - 2 * h) = v
  <2> HIDE DEF h
  <2> QED
    BY <1>2
<1> HIDE DEF bits, w
<1> QED
  BY <1>1, <1>3, <1>4 DEF ChangeFind, Changes

(* What two values differ by, in whole pages, and what is lost of it.      *)
LEMMA PagesFacts ==
  ASSUME NEW now \in Bounded, NEW was \in Bounded
  PROVE  \E r \in 0 .. Page - 1 :
           /\ Pages(now, was) \in Nat /\ Fits(Pages(now, was), 4)
           /\ (now - was) % Wide = Page * Pages(now, was) + r
<1> DEFINE d == ((now - was) % Wide)
           p == d \div Page
           top == (Wide - 1) \div Page
<1>1. /\ now \in Int /\ was \in Int /\ now - was \in Int /\ Wide \in Nat \ {0}
      /\ Page \in Nat \ {0}
  BY ConstantsAssumption DEF Bounded
<1>2. d \in 0 .. Wide - 1
  BY <1>1, Division
<1> HIDE DEF d
<1>3. d \in Int /\ d >= 0 /\ Wide - 1 \in Int /\ d <= Wide - 1
  BY <1>1, <1>2
<1>4. /\ p \in Int /\ d % Page \in 0 .. Page - 1 /\ d = Page * p + (d % Page)
      /\ top \in Int /\ (Wide - 1) % Page \in 0 .. Page - 1
      /\ Wide - 1 = Page * top + ((Wide - 1) % Page)
  BY <1>1, <1>3, Division
<1> HIDE DEF p, top
<1>5. \A m \in Nat : Page * m >= 0
  BY <1>1
<1>6. p >= 0
  <2> SUFFICES ASSUME p <= -1 PROVE FALSE
    BY <1>4
  <2>1. -1 - p \in Nat /\ Page * (-1 - p) = -Page - Page * p
    BY <1>1, <1>4
  <2>2. -Page - Page * p >= 0
    BY <1>5, <2>1
  <2> QED
    BY <1>1, <1>3, <1>4, <2>2
<1>7. p <= top
  <2> SUFFICES ASSUME p - top >= 1 PROVE FALSE
    BY <1>4
  <2>1. p - top - 1 \in Nat /\ Page * (p - top - 1) = Page * p - Page * top - Page
    BY <1>1, <1>4
  <2>2. Page * p - Page * top - Page >= 0
    BY <1>5, <2>1
  <2>3. Page * p \in Int /\ Page * top \in Int
    BY <1>1, <1>4
  <2> QED
    BY <1>1, <1>3, <1>4, <2>2, <2>3
<1>8. top < Half[4] /\ Half[4] \in Nat
  BY ConstantsAssumption DEF top
<1>9. Pages(now, was) = p
  BY DEF Pages, p, d
<1>10. p \in Nat /\ Fits(p, 4)
  BY <1>4, <1>6, <1>7, <1>8 DEF Fits
<1> QED
  BY <1>4, <1>9, <1>10 DEF d

(* The client falls behind by less than a page with each difference.       *)
LEMMA BehindGrows ==
  ASSUME NEW now \in Bounded, NEW was \in Bounded, NEW shown \in Bounded
  PROVE  LET next == Plus(shown, LogDiff(Pages(now, was))) IN
         next \in Bounded /\ Behind(now, next) <= Behind(was, shown) + (Page - 1)
<1> DEFINE p == Pages(now, was)
           next == (shown + p * Page) % Wide
<1>1. PICK r \in 0 .. Page - 1 :
        p \in Nat /\ Fits(p, 4) /\ (now - was) % Wide = Page * p + r
  BY PagesFacts
<1>2. next = Plus(shown, LogDiff(p))
  BY <1>1, CodecIsExact DEF Plus
<1> HIDE DEF p
<1>3. /\ now \in Int /\ was \in Int /\ shown \in Int /\ r \in Nat /\ r <= Page - 1
      /\ Wide \in Nat \ {0} /\ Page \in Nat \ {0} /\ p * Page \in Int
  BY <1>1, ConstantsAssumption DEF Bounded
<1> DEFINE s == shown + p * Page
           e == was - shown
           x == (now - was) \div Wide
           y == s \div Wide
<1>4. x \in Int /\ now - was = Wide * x + ((now - was) % Wide)
  BY <1>3, Division
<1>5. y \in Int /\ next \in 0 .. Wide - 1 /\ shown + p * Page = Wide * y + next
  <2>1. s \in Int /\ next = s % Wide
    BY <1>3
  <2> HIDE DEF s, next
  <2>2. y \in Int /\ next \in 0 .. Wide - 1 /\ s = Wide * y + next
    BY <1>3, <2>1, Division
  <2> QED
    BY <2>2 DEF s
<1> HIDE DEF x, y, next
<1>6. now - next = (was - shown + r) + Wide * (x + y)
  BY <1>1, <1>3, <1>4, <1>5
<1>7. (now - next) % Wide = (was - shown + r) % Wide
  <2> DEFINE a == now - next
             b == was - shown + r
             k == x + y
  <2>1. a \in Int /\ b \in Int /\ k \in Int /\ a = b + Wide * k
    BY <1>3, <1>4, <1>5, <1>6
  <2> HIDE DEF a, b, k
  <2>2. a % Wide = (b % Wide)
    BY <1>3, <2>1, SameRemainder
  <2> QED
    BY <2>2 DEF a, b
<1>8. (was - shown + r) % Wide <= ((was - shown) % Wide) + r
  <2>1. e \in Int
    BY <1>3
  <2> HIDE DEF e
  <2>2. (e + r) % Wide <= (e % Wide) + r
    BY <1>3, <2>1, RemainderGrows
  <2> QED
    BY <2>2 DEF e
<1>9. (was - shown) % Wide \in Int
  BY <1>3, Division
<1>10. Behind(now, next) <= Behind(was, shown) + (Page - 1)
  BY <1>3, <1>7, <1>8, <1>9 DEF Behind
<1> QED
  BY <1>2, <1>5, <1>10 DEF Bounded, p

(* Nothing is behind itself.                                               *)
LEMMA BehindNothing ==
  ASSUME NEW v \in Bounded
  PROVE  Behind(v, v) = 0
<1>1. v - v = 0 /\ Wide \in Nat \ {0}
  BY ConstantsAssumption DEF Bounded
<1>2. 0 \in Int /\ 0 \in 0 .. Wide - 1 /\ Wide * 0 + 0 = 0
  BY <1>1
<1>3. 0 % Wide = 0
  BY <1>1, <1>2, Division, DivisionUnique
<1> QED
  BY <1>1, <1>3 DEF Behind

(* How far a number is behind another.                                     *)
LEMMA BehindTyped ==
  \A v, w \in Bounded : Behind(v, w) \in Nat
<1> TAKE v, w \in Bounded
<1>1. v - w \in Int /\ Wide \in Nat \ {0}
  BY ConstantsAssumption DEF Bounded
<1> DEFINE d == v - w
<1> HIDE DEF d
<1>2. d % Wide \in 0 .. Wide - 1
  BY <1>1, Division DEF d
<1> QED
  BY <1>1, <1>2 DEF Behind, d

-----------------------------------------------------------------------------
(* Messages that are replayed *)

(* A set of natural numbers that is not empty has a least element.         *)
LEMMA LeastNat ==
  ASSUME NEW S \in SUBSET Nat, S # {}
  PROVE  \E n \in S : \A m \in S : n <= m
<1> DEFINE R == OpToRel(<, Nat)
<1>1. IsWellFoundedOn(R, Nat)
  BY NatLessThanWellFounded
<1>2. \A x, y \in Nat : <<y, x>> \in R <=> y < x
  BY DEF OpToRel
<1> HIDE DEF R
<1>3. PICK n \in S : \A y \in S : ~ (<<y, n>> \in R)
  BY <1>1, WFMin
<1>4. \A m \in S : m \in Nat /\ n \in Nat /\ ~(m < n)
  BY <1>2, <1>3
<1>5. \A m, k \in Nat : ~(m < k) => k <= m
  OBVIOUS
<1> QED
  BY <1>4, <1>5

(* No messages leave a value as it is.                                     *)
LEMMA NothingReplays ==
  ASSUME NEW k, NEW v \in Number(k)
  PROVE  Replays(k, <<>>, [i \in 0 .. 0 |-> v])
<1>1. Len(<<>>) = 0 /\ [i \in 0 .. 0 |-> v] \in [0 .. 0 -> Number(k)]
  OBVIOUS
<1> QED
  BY <1>1 DEF Replays

(* One message takes a value to another.                                   *)
LEMMA OneReplays ==
  ASSUME NEW k, NEW v \in Number(k), NEW w \in Number(k), NEW m, Says(k, m, v, w)
  PROVE  Replays(k, <<m>>, [i \in 0 .. 1 |-> IF i = 0 THEN v ELSE w])
<1> DEFINE t == [i \in 0 .. 1 |-> IF i = 0 THEN v ELSE w]
<1>1. /\ Len(<<m>>) = 1 /\ <<m>>[1] = m /\ t \in [0 .. 1 -> Number(k)] /\ t[0] = v
      /\ t[1] = w
  OBVIOUS
<1> HIDE DEF t
<1>2. \A i \in 1 .. 1 : i = 1 /\ i - 1 = 0
  OBVIOUS
<1>3. \A i \in 1 .. 1 : Says(k, <<m>>[i], t[i - 1], t[i])
  BY <1>1, <1>2
<1>4. Replays(k, <<m>>, t)
  BY <1>1, <1>3 DEF Replays
<1> QED
  BY <1>4 DEF t

(* h is replayed like f, which t replays, and on to x.                     *)
Continues(k, f, t, h, x) ==
  \E w : /\ Replays(k, h, w)
         /\ \A i \in 0 .. Len(f) : w[i] = t[i]
         /\ w[Len(h)] = x

(* Messages that start where others end may follow them.                   *)
LEMMA ReplaysFollow ==
  ASSUME NEW k, NEW f \in Seq(Messages), NEW g \in Seq(Messages), NEW t, NEW u,
         NEW h, h = f \o g,
         Replays(k, f, t), Replays(k, g, u), t[Len(f)] = u[0]
  PROVE  Continues(k, f, t, h, u[Len(g)])
<1> DEFINE w == [i \in 0 .. Len(h) |-> IF i <= Len(f) THEN t[i] ELSE u[i - Len(f)]]
<1>1. /\ Len(f) \in Nat /\ Len(g) \in Nat /\ Len(h) = Len(f) + Len(g)
      /\ \A i \in 1 .. Len(h) : h[i] = IF i <= Len(f) THEN f[i] ELSE g[i - Len(f)]
  OBVIOUS
<1>2. ASSUME NEW i \in 0 .. Len(h) PROVE w[i] \in Number(k)
  <2>1. CASE i <= Len(f)
    <3>1. i \in 0 .. Len(f) /\ w[i] = t[i]
      BY <1>1, <2>1
    <3> QED
      BY <3>1 DEF Replays
  <2>2. CASE ~(i <= Len(f))
    <3>1. i - Len(f) \in 0 .. Len(g) /\ w[i] = u[i - Len(f)]
      BY <1>1, <2>2
    <3> QED
      BY <3>1 DEF Replays
  <2> QED
    BY <2>1, <2>2
<1>3. w \in [0 .. Len(h) -> Number(k)]
  BY <1>2
<1>4. ASSUME NEW i \in 1 .. Len(h) PROVE Says(k, h[i], w[i - 1], w[i])
  <2>1. i \in 0 .. Len(h) /\ i - 1 \in 0 .. Len(h)
    BY <1>1
  <2>2. CASE i <= Len(f)
    <3>1. i \in 1 .. Len(f) /\ h[i] = f[i] /\ w[i] = t[i] /\ w[i - 1] = t[i - 1]
      BY <1>1, <2>1, <2>2
    <3> QED
      BY <3>1 DEF Replays
  <2>3. CASE ~(i <= Len(f))
    <3> DEFINE j == i - Len(f)
    <3>1. j \in 1 .. Len(g) /\ h[i] = g[j] /\ w[i] = u[j]
      BY <1>1, <2>1, <2>3
    <3>2. w[i - 1] = u[j - 1]
      <4>1. CASE i - 1 <= Len(f)
        <5>1. i - 1 = Len(f) /\ j - 1 = 0
          BY <1>1, <2>3, <4>1
        <5> QED
          BY <2>1, <4>1, <5>1
      <4>2. CASE ~(i - 1 <= Len(f))
        <5>1. i - 1 - Len(f) = j - 1
          BY <1>1
        <5> QED
          BY <2>1, <4>2, <5>1
      <4> QED
        BY <4>1, <4>2
    <3> HIDE DEF j, w
    <3> QED
      BY <3>1, <3>2 DEF Replays
  <2> QED
    BY <2>2, <2>3
<1>5. Replays(k, h, w)
  <2> HIDE DEF w
  <2> QED
    BY <1>3, <1>4 DEF Replays
<1>6. \A i \in 0 .. Len(f) : w[i] = t[i]
  BY <1>1
<1>7. w[Len(h)] = u[Len(g)]
  <2>1. Len(h) \in 0 .. Len(h) /\ Len(h) - Len(f) = Len(g)
    BY <1>1
  <2>2. CASE Len(g) = 0
    BY <1>1, <2>1, <2>2
  <2>3. CASE Len(g) # 0
    BY <1>1, <2>1, <2>3
  <2> QED
    BY <2>2, <2>3
<1> HIDE DEF w
<1> QED
  BY <1>5, <1>6, <1>7 DEF Continues

(* The messages f take v to w.                                             *)
Take(k, f, v, w) == \E t : Replays(k, f, t) /\ t[0] = v /\ t[Len(f)] = w

(* No message takes a value nowhere.                                       *)
LEMMA TakeNothing ==
  ASSUME NEW k, NEW v \in Number(k)
  PROVE  Take(k, <<>>, v, v)
<1> DEFINE t == [i \in 0 .. 0 |-> v]
<1>1. t[0] = v /\ t[Len(<<>>)] = v
  OBVIOUS
<1> QED
  BY <1>1, NothingReplays DEF Take

(* One message takes it where the message says.                            *)
LEMMA TakeOne ==
  ASSUME NEW k, NEW v \in Number(k), NEW w \in Number(k), NEW m, Says(k, m, v, w)
  PROVE  Take(k, <<m>>, v, w)
<1> DEFINE t == [i \in 0 .. 1 |-> IF i = 0 THEN v ELSE w]
<1>1. t[0] = v /\ t[Len(<<m>>)] = w
  OBVIOUS
<1>2. Replays(k, <<m>>, t)
  BY OneReplays
<1> HIDE DEF t
<1> QED
  BY <1>1, <1>2 DEF Take

(* Messages one after the other.                                           *)
LEMMA TakeBoth ==
  ASSUME NEW k, NEW f \in Seq(Messages), NEW g \in Seq(Messages), NEW v, NEW w, NEW x,
         Take(k, f, v, w), Take(k, g, w, x)
  PROVE  Take(k, f \o g, v, x)
<1>1. PICK t : Replays(k, f, t) /\ t[0] = v /\ t[Len(f)] = w
  BY DEF Take
<1>2. PICK u : Replays(k, g, u) /\ u[0] = w /\ u[Len(g)] = x
  BY DEF Take
<1> DEFINE h == f \o g
<1> HIDE DEF h
<1>3. PICK y : /\ Replays(k, h, y)
               /\ \A i \in 0 .. Len(f) : y[i] = t[i]
               /\ y[Len(h)] = u[Len(g)]
  <2>1. Replays(k, f, t) /\ Replays(k, g, u) /\ t[Len(f)] = u[0]
    BY <1>1, <1>2
  <2>2. Continues(k, f, t, h, u[Len(g)])
    BY <2>1, ReplaysFollow DEF h
  <2> QED
    BY <2>2 DEF Continues
<1>4. 0 \in 0 .. Len(f)
  OBVIOUS
<1>5. Take(k, h, v, x)
  BY <1>1, <1>2, <1>3, <1>4 DEF Take
<1> QED
  BY <1>5 DEF h

-----------------------------------------------------------------------------
(* What the monitors log *)

(* A log that grows by messages from what the daemon had to what it has    *)
(* still tells what it has.                                                *)
LEMMA LogFollows ==
  ASSUME ScalarsTypeInv, Followed, NEW k, NEW ms \in Seq(Messages), NEW w \in Number(k),
         kind = k, kind' = k, file' = file \o ms, UNCHANGED clientVars,
         Take(k, ms, NumberOf(k, daemon), w), NumberOf(k, daemon') = w
  PROVE  Followed'
<1>1. PICK t : /\ Replays(k, file, t)
               /\ t[Len(file)] = NumberOf(k, daemon)
               /\ at > 0 => Near(k, t[at], client, lost)
  BY DEF Followed
<1>2. PICK u : Replays(k, ms, u) /\ u[0] = NumberOf(k, daemon) /\ u[Len(ms)] = w
  BY DEF Take
<1>3. file \in Seq(Messages) /\ at \in 0 .. Len(file)
  BY DEF ScalarsTypeInv
<1>4. PICK y : /\ Replays(k, file', y)
               /\ \A i \in 0 .. Len(file) : y[i] = t[i]
               /\ y[Len(file')] = u[Len(ms)]
  <2>1. t[Len(file)] = u[0]
    BY <1>1, <1>2
  <2>2. Continues(k, file, t, file', u[Len(ms)])
    BY <1>1, <1>2, <1>3, <2>1, ReplaysFollow
  <2> QED
    BY <2>2 DEF Continues
<1>5. at' = at /\ client' = client /\ lost' = lost /\ y[at] = t[at]
  BY <1>3, <1>4 DEF clientVars
<1>6. at' > 0 => Near(k, y[at'], client', lost')
  BY <1>1, <1>5
<1>7. Replays(k, file', y) /\ y[Len(file')] = NumberOf(k, daemon')
  BY <1>2, <1>4
<1> QED
  BY <1>6, <1>7 DEF Followed

(* The messages are of the kinds that the log holds.                       *)
LEMMA MessagesTyped ==
  /\ \A v \in Bounded \cup CardValues \cup BOOLEAN \cup Percentages :
       Refresh(v) \in Messages
  /\ \A card \in Nat, v \in BOOLEAN \cup Changes : Mod(card, v) \in Messages
  BY DEF Messages, Refresh, Mod

(* Two values that differ are told apart by a difference of pages.         *)
LEMMA MemorySays ==
  ASSUME NEW now \in Bounded, NEW was \in Bounded, NEW card \in Nat
  PROVE  /\ Diff(card, now, was) \in Seq(Messages)
         /\ Take("memory", Diff(0, now, was), was, now)
<1>1. now \in Number("memory") /\ was \in Number("memory")
  BY DEF Number
<1>2. PICK r \in 0 .. Page - 1 : Pages(now, was) \in Nat /\ Fits(Pages(now, was), 4)
  BY PagesFacts
<1>3. LogDiff(Pages(now, was)) \in Changes
  BY <1>2, CodecIsExact
<1>4. Mod(card, LogDiff(Pages(now, was))) \in Messages
  BY <1>3, MessagesTyped
<1>5. Diff(card, now, was) \in Seq(Messages)
  BY <1>4 DEF Diff
<1>6. CASE now = was
  <2>1. Diff(0, now, was) = <<>>
    BY <1>6 DEF Diff
  <2> QED
    BY <1>1, <1>5, <1>6, <2>1, TakeNothing
<1>7. CASE now # was
  <2>1. Diff(0, now, was) = <<Mod(0, LogDiff(Pages(now, was)))>>
    BY <1>7 DEF Diff
  <2>2. Says("memory", Mod(0, LogDiff(Pages(now, was))), was, now)
    BY DEF Says
  <2> QED
    BY <1>1, <1>5, <2>1, <2>2, TakeOne
<1> QED
  BY <1>6, <1>7

(* The whole value is told by one message.                                 *)
LEMMA RefreshSays ==
  ASSUME NEW k \in {"memory", "video", "power", "core"}, NEW was \in Number(k),
         NEW now \in Number(k), k = "core" => now = was
  PROVE  <<Refresh(now)>> \in Seq(Messages) /\ Take(k, <<Refresh(now)>>, was, now)
<1>1. Refresh(now) \in Messages
  BY MessagesTyped DEF Number
<1>2. Says(k, Refresh(now), was, now)
  BY DEF Says
<1> QED
  BY <1>1, <1>2, TakeOne

(* What is logged of the power.                                            *)
LEMMA PowerSays ==
  ASSUME NEW was \in BOOLEAN, NEW now \in BOOLEAN
  PROVE  <<Mod(0, now)>> \in Seq(Messages) /\ Take("power", <<Mod(0, now)>>, was, now)
<1>1. Mod(0, now) \in Messages
  BY MessagesTyped
<1>2. /\ Says("power", Mod(0, now), was, now) /\ was \in Number("power")
      /\ now \in Number("power")
  BY DEF Says, Number
<1> QED
  BY <1>1, <1>2, TakeOne

(* What is logged of a core's percentage.                                  *)
LEMMA CoreSays ==
  ASSUME NEW was \in Percentages, NEW now \in Percentages
  PROVE  /\ <<Mod(0, LogDiff(now - was))>> \in Seq(Messages)
         /\ Take("core", <<Mod(0, LogDiff(now - was))>>, was, now)
<1>1. now - was \in Int /\ Fits(now - was, 4)
  BY ConstantsAssumption DEF Fits, Percentages
<1>2. Mod(0, LogDiff(now - was)) \in Messages
  BY <1>1, CodecIsExact, MessagesTyped
<1>3. /\ Says("core", Mod(0, LogDiff(now - was)), was, now)
      /\ was \in Number("core") /\ now \in Number("core")
  BY DEF Says, Number
<1> QED
  BY <1>2, <1>3, TakeOne

(* What a record of values has is of the kind's values.                    *)
LEMMA NumberTyped ==
  ASSUME NEW k \in {"memory", "video", "power", "core"}, NEW v \in Values
  PROVE  NumberOf(k, v) \in Number(k)
<1>1. /\ v.memory \in Bounded /\ v.video \in CardValues /\ v.power \in BOOLEAN
      /\ v.core.percent \in Percentages
  BY DEF Values, Bounded, CardValues, Percentages
<1> QED
  BY <1>1 DEF NumberOf, Number

(* The joined beginnings of a sequence of sequences.                       *)
Joins(f, s, n) ==
  /\ DOMAIN f = 1 .. n /\ f = [i \in 1 .. n |-> f[i]]
  /\ \A i \in 1 .. n : f[i] = IF i = 1 THEN s[i] ELSE f[i - 1] \o s[i]

(* The joined prefixes of a sequence of sequences.                         *)
LEMMA JoinsExist ==
  ASSUME NEW s, NEW n \in Nat
  PROVE  \E f : Joins(f, s, n)
<1> DEFINE Bad == {m \in Nat : ~ \E f : Joins(f, s, m)}
<1>1. Bad = {}
  <2> SUFFICES ASSUME Bad # {} PROVE FALSE
    OBVIOUS
  <2>1. PICK m \in Bad : \A k \in Bad : m <= k
    <3>1. Bad \in SUBSET Nat
      OBVIOUS
    <3> QED
      BY <3>1, LeastNat
  <2>2. m \in Nat /\ ~ \E f : Joins(f, s, m)
    BY <2>1
  <2>3. m # 0
    <3>1. Joins([i \in 1 .. 0 |-> 0], s, 0)
      BY DEF Joins
    <3> QED
      BY <2>2, <3>1
  <2>4. m - 1 \in Nat /\ m - 1 \notin Bad
    <3>1. m - 1 \in Nat /\ ~(m <= m - 1)
      BY <2>2, <2>3
    <3> HIDE DEF Bad
    <3> QED
      BY <2>1, <3>1
  <2>5. PICK g : Joins(g, s, m - 1)
    BY <2>4
  <2> DEFINE last == IF m = 1 THEN s[m] ELSE g[m - 1] \o s[m]
             f == [i \in 1 .. m |-> IF i = m THEN last ELSE g[i]]
  <2>6. ASSUME NEW i \in 1 .. m PROVE f[i] = IF i = 1 THEN s[i] ELSE f[i - 1] \o s[i]
    <3> HIDE DEF last
    <3>1. CASE i = m
      <4>1. f[i] = last
        BY <3>1
      <4>2. i # 1 => f[i - 1] = g[i - 1]
        <5>1. i # 1 => i - 1 \in 1 .. m /\ i - 1 # m
          BY <2>2
        <5> QED
          BY <5>1
      <4> HIDE DEF f
      <4> QED
        BY <3>1, <4>1, <4>2 DEF last
    <3>2. CASE i # m
      <4>1. i \in 1 .. m - 1 /\ f[i] = g[i]
        BY <2>2, <3>2
      <4>2. i # 1 => f[i - 1] = g[i - 1]
        <5>1. i # 1 => i - 1 \in 1 .. m /\ i - 1 # m
          BY <2>2
        <5> QED
          BY <5>1
      <4>3. g[i] = IF i = 1 THEN s[i] ELSE g[i - 1] \o s[i]
        BY <2>5, <4>1 DEF Joins
      <4> HIDE DEF f
      <4> QED
        BY <4>1, <4>2, <4>3
    <3> QED
      BY <3>1, <3>2
  <2>7. DOMAIN f = 1 .. m /\ f = [i \in 1 .. m |-> f[i]]
    OBVIOUS
  <2> HIDE DEF f
  <2>8. Joins(f, s, m)
    BY <2>6, <2>7 DEF Joins
  <2> QED
    BY <2>2, <2>8
<1> QED
  BY <1>1

(* FlattenSeq is the last of them.                                         *)
LEMMA FlattenJoins ==
  ASSUME NEW S, NEW s \in Seq(S), Len(s) # 0
  PROVE  \E f : Joins(f, s, Len(s)) /\ FlattenSeq(s) = f[Len(s)]
<1> DEFINE n == Len(s)
           Body(f) == [i \in 1 .. n |-> IF i = 1 THEN s[i] ELSE f[i - 1] \o s[i]]
           flatten == CHOOSE f : f = Body(f)
<1>1. FlattenSeq(s) = flatten[n]
  BY DEF FlattenSeq
<1>2. flatten = Body(flatten)
  <2>1. PICK f : Joins(f, s, n)
    <3>1. n \in Nat
      OBVIOUS
    <3> HIDE DEF n
    <3> QED
      BY <3>1, JoinsExist
  <2>2. f = Body(f)
    <3> HIDE DEF n
    <3> QED
      BY <2>1 DEF Joins
  <2> QED
    BY <2>2
<1>3. Joins(flatten, s, n)
  <2>1. DOMAIN flatten = 1 .. n /\ flatten = [i \in 1 .. n |-> flatten[i]]
    <3> HIDE DEF flatten, n
    <3> QED
      BY <1>2
  <2>2. \A i \in 1 .. n :
          flatten[i] = IF i = 1 THEN s[i] ELSE flatten[i - 1] \o s[i]
    BY <1>2
  <2> HIDE DEF flatten
  <2> QED
    BY <2>1, <2>2 DEF Joins
<1> HIDE DEF flatten
<1> QED
  BY <1>1, <1>3

(* The cards when the first i of them have been told.                      *)
Until(now, i) ==
  [j \in DOMAIN daemon.video |-> IF j <= i THEN Card(now, j) ELSE daemon.video[j]]

(* Cards, those that are there and those that are not.                     *)
LEMMA CardsTyped ==
  ASSUME ScalarsTypeInv, NEW now \in CardValues
  PROVE  /\ Len(daemon.video) \in 0 .. MaxCards
         /\ DOMAIN daemon.video = 1 .. Len(daemon.video)
         /\ daemon.video \in CardValues
         /\ \A i : Card(now, i) \in Bounded
         /\ \A i \in DOMAIN daemon.video : /\ daemon.video[i] \in Bounded
                                           /\ Card(daemon.video, i) = daemon.video[i]
         /\ \A i \in Int : Until(now, i) \in CardValues
<1>1. daemon.video \in CardValues
  BY DEF ScalarsTypeInv, Values, CardValues, Bounded
<1>2. PICK n \in 0 .. MaxCards : daemon.video \in [1 .. n -> Bounded]
  BY <1>1 DEF CardValues
<1>3. PICK m \in 0 .. MaxCards : now \in [1 .. m -> Bounded]
  BY DEF CardValues
<1>4. Len(daemon.video) = n /\ DOMAIN daemon.video = 1 .. n
  BY <1>2, ConstantsAssumption
<1>5. 0 \in Bounded
  BY ConstantsAssumption DEF Bounded
<1>6. \A i : Card(now, i) \in Bounded
  BY <1>3, <1>5 DEF Card
<1>7. \A i \in DOMAIN daemon.video : /\ daemon.video[i] \in Bounded
                                     /\ Card(daemon.video, i) = daemon.video[i]
  BY <1>2 DEF Card
<1>8. \A i \in Int : Until(now, i) \in CardValues
  <2> TAKE i \in Int
  <2>1. Until(now, i) \in [1 .. n -> Bounded]
    BY <1>4, <1>6, <1>7 DEF Until
  <2> QED
    BY <2>1 DEF CardValues
<1> QED
  BY <1>1, <1>4, <1>6, <1>7, <1>8

(* What is told of one card.                                               *)
LEMMA CardSays ==
  ASSUME ScalarsTypeInv, NEW now \in CardValues, NEW i \in DOMAIN daemon.video
  PROVE  LET diff == Diff(i, Card(now, i), Card(daemon.video, i)) IN
         /\ diff \in Seq(Messages)
         /\ Take("video", diff, Until(now, i - 1), Until(now, i))
<1> DEFINE v == Card(now, i)
           w == daemon.video[i]
           before == Until(now, i - 1)
           after == Until(now, i)
<1>1. /\ i \in Int /\ i \in Nat /\ v \in Bounded /\ w \in Bounded
      /\ Card(daemon.video, i) = w
      /\ before \in CardValues /\ after \in CardValues
      /\ Number("video") = CardValues
  <2>1. i \in 1 .. Len(daemon.video) /\ Len(daemon.video) \in Nat
    <3>1. /\ Len(daemon.video) \in 0 .. MaxCards
          /\ DOMAIN daemon.video = 1 .. Len(daemon.video)
          /\ \A j : Card(now, j) \in Bounded
      BY CardsTyped
    <3> QED
      BY <3>1, ConstantsAssumption
  <2>2. i \in Int /\ i \in Nat /\ i - 1 \in Int
    BY <2>1
  <2>3. v \in Bounded /\ w \in Bounded /\ Card(daemon.video, i) = w
    BY CardsTyped
  <2>4. before \in CardValues /\ after \in CardValues
    BY <2>2, CardsTyped
  <2> QED
    BY <2>2, <2>3, <2>4 DEF Number
<1>2. /\ DOMAIN before = DOMAIN daemon.video /\ DOMAIN after = DOMAIN daemon.video
      /\ before[i] = w /\ after[i] = v
      /\ \A j \in DOMAIN daemon.video : j # i => after[j] = before[j]
  <2>1. \A j \in DOMAIN daemon.video : j \in Int
    <3>1. DOMAIN daemon.video = 1 .. Len(daemon.video) /\ Len(daemon.video) \in Nat
      BY CardsTyped, ConstantsAssumption
    <3> QED
      BY <3>1
  <2> QED
    BY <1>1, <2>1 DEF Until
<1>3. after = [before EXCEPT ![i] = after[i]]
  <2>1. /\ after = [j \in DOMAIN daemon.video |-> after[j]]
        /\ before = [j \in DOMAIN daemon.video |-> before[j]]
    BY DEF Until
  <2> HIDE DEF before, after
  <2> QED
    BY <1>2, <2>1
<1> HIDE DEF v, before, after
<1>4. Diff(i, v, w) \in Seq(Messages)
  BY <1>1, MemorySays
<1>5. CASE v = w
  <2>1. Diff(i, v, w) = <<>>
    BY <1>5 DEF Diff
  <2>2. after = before
    <3>1. [before EXCEPT ![i] = before[i]] = before
      BY DEF before, Until
    <3> QED
      BY <1>2, <1>3, <1>5, <3>1
  <2>3. Take("video", <<>>, before, before)
    BY <1>1, TakeNothing
  <2> QED
    BY <1>1, <1>4, <2>1, <2>2, <2>3 DEF v, before, after
<1>6. CASE v # w
  <2> DEFINE m == Mod(i, LogDiff(Pages(v, w)))
  <2>1. Diff(i, v, w) = <<m>>
    BY <1>6 DEF Diff
  <2>2. OneCard(m, before, after)
    BY <1>2, <1>3 DEF OneCard
  <2> HIDE DEF m
  <2>3. Says("video", m, before, after)
    BY <2>2 DEF Says
  <2>4. Take("video", <<m>>, before, after)
    BY <1>1, <2>3, TakeOne
  <2> QED
    BY <1>1, <1>4, <2>1, <2>4 DEF v, before, after
<1> QED
  BY <1>5, <1>6

(* What is told of all that the daemon had.                                *)
LEMMA VideoSays ==
  ASSUME ScalarsTypeInv, NEW now \in CardValues
  PROVE  LET next == [i \in DOMAIN daemon.video |-> Card(now, i)] IN
         /\ FlattenSeq(VideoDiffs(now)) \in Seq(Messages) /\ next \in CardValues
         /\ Take("video", FlattenSeq(VideoDiffs(now)), daemon.video, next)
<1> DEFINE n == Len(daemon.video)
           s == VideoDiffs(now)
           next == [i \in DOMAIN daemon.video |-> Card(now, i)]
<1>1. /\ n \in Nat /\ DOMAIN daemon.video = 1 .. n /\ daemon.video \in CardValues
      /\ \A i \in Int : Until(now, i) \in CardValues
  BY CardsTyped, ConstantsAssumption
<1>2. /\ s = [i \in 1 .. n |-> Diff(i, Card(now, i), Card(daemon.video, i))]
      /\ \A i \in 1 .. n : /\ s[i] \in Seq(Messages)
                           /\ Take("video", s[i], Until(now, i - 1), Until(now, i))
  BY <1>1, CardSays DEF VideoDiffs, Compared
<1>3. s \in Seq(Seq(Messages)) /\ Len(s) = n
  <2>1. s \in [1 .. n -> Seq(Messages)]
    BY <1>2
  <2> HIDE DEF s
  <2> QED
    BY <1>1, <2>1
<1>4. Until(now, 0) = daemon.video /\ Until(now, n) = next
  <2>1. daemon.video = [j \in 1 .. n |-> daemon.video[j]]
    BY <1>1 DEF CardValues
  <2>2. Until(now, 0) = daemon.video
    BY <1>1, <2>1 DEF Until
  <2>3. Until(now, n) = next
    BY <1>1 DEF Until
  <2> QED
    BY <2>2, <2>3
<1> HIDE DEF s, next, n
<1>5. next \in CardValues
  BY <1>1, <1>4
<1>6. CASE n = 0
  <2>1. FlattenSeq(s) = <<>>
    BY <1>3, <1>6 DEF FlattenSeq
  <2>2. daemon.video = next
    BY <1>4, <1>6
  <2>3. Take("video", <<>>, next, next)
    BY <1>5, TakeNothing DEF Number
  <2> QED
    BY <1>5, <2>1, <2>2, <2>3 DEF s, next
<1>7. CASE n # 0
  <2>1. PICK f : Joins(f, s, n) /\ FlattenSeq(s) = f[n]
    BY <1>3, <1>7, FlattenJoins
  <2> DEFINE Told(i) == /\ f[i] \in Seq(Messages)
                        /\ Take("video", f[i], daemon.video, Until(now, i))
             Bad == {i \in 1 .. n : ~Told(i)}
  <2>2. Bad = {}
    <3> SUFFICES ASSUME Bad # {} PROVE FALSE
      OBVIOUS
    <3>1. PICK i \in Bad : \A j \in Bad : i <= j
      <4>1. Bad \in SUBSET Nat
        BY <1>1
      <4> QED
        BY <4>1, LeastNat
    <3>2. i \in 1 .. n /\ ~Told(i)
      BY <3>1
    <3>3. CASE i = 1
      <4>1. f[i] = s[i]
        BY <2>1, <3>2, <3>3 DEF Joins
      <4>2. i - 1 = 0
        BY <3>3
      <4> QED
        BY <1>2, <1>4, <3>2, <4>1, <4>2
    <3>4. CASE i # 1
      <4> DEFINE j == i - 1
      <4>1. j \in 1 .. n /\ ~(i <= j)
        BY <1>1, <3>2, <3>4
      <4>2. Told(j)
        <5>1. j \notin Bad
          <6> HIDE DEF Bad, j
          <6> QED
            BY <3>1, <4>1
        <5> HIDE DEF j
        <5> QED
          BY <4>1, <5>1
      <4>3. f[i] = f[j] \o s[i]
        BY <2>1, <3>2, <3>4 DEF Joins
      <4>4. s[i] \in Seq(Messages) /\ Take("video", s[i], Until(now, j), Until(now, i))
        BY <1>2, <3>2
      <4> HIDE DEF j
      <4>5. f[i] \in Seq(Messages)
        BY <4>2, <4>3, <4>4
      <4>6. Take("video", f[j] \o s[i], daemon.video, Until(now, i))
        BY <4>2, <4>4, TakeBoth
      <4> QED
        BY <3>2, <4>3, <4>5, <4>6
    <3> QED
      BY <3>3, <3>4
  <2>3. n \in 1 .. n
    BY <1>1, <1>7
  <2>4. Told(n)
    BY <2>2, <2>3
  <2> QED
    BY <1>4, <1>5, <2>1, <2>4 DEF s, next
<1> QED
  BY <1>6, <1>7

-----------------------------------------------------------------------------
(* Percentages *)

(* A quotient of natural numbers is one.                                   *)
LEMMA NatQuotient ==
  ASSUME NEW a \in Nat, NEW n \in Nat \ {0}
  PROVE  a \div n \in Nat
<1> DEFINE q == a \div n
<1>1. q \in Int /\ a % n \in 0 .. n - 1 /\ a = n * q + (a % n)
  BY Division
<1> HIDE DEF q
<1>2. ~(q <= -1)
  <2> SUFFICES ASSUME q <= -1 PROVE FALSE
    OBVIOUS
  <2>1. -1 - q \in Nat /\ n * (-1 - q) = -n - n * q /\ n * (-1 - q) >= 0
    BY <1>1
  <2> QED
    BY <1>1, <2>1
<1> QED
  BY <1>1, <1>2 DEF q

(* What a percentage stands for.                                           *)
Stands(p, used, total) ==
  /\ p \in Percentages
  /\ used <= total => p * total <= 100 * used /\ p * total >= 100 * used - total

(* A quotient, or one less where there is none left, is a percentage as it *)
(* should be.                                                              *)
LEMMA PercentOf ==
  ASSUME NEW total \in Nat \ {0}, NEW used \in Nat
  PROVE  LET exact == (100 * used) \div total IN
         /\ Stands(Least(100, exact), used, total)
         /\ used > 0 /\ (100 * used) % total = 0 =>
              Stands(Least(100, exact - 1), used, total)
<1> DEFINE exact == (100 * used) \div total
           rest == (100 * used) % total
<1>1. /\ exact \in Nat /\ rest \in 0 .. total - 1 /\ 100 * used = total * exact + rest
  <2> DEFINE a == 100 * used
  <2>1. a \in Nat
    OBVIOUS
  <2> HIDE DEF a
  <2>2. /\ a \div total \in Nat /\ a % total \in 0 .. total - 1
        /\ a = total * (a \div total) + (a % total)
    <3>1. a \div total \in Nat
      BY <2>1, NatQuotient
    <3>2. a % total \in 0 .. total - 1 /\ a = total * (a \div total) + (a % total)
      BY <2>1, Division
    <3> QED
      BY <3>1, <3>2
  <2> QED
    BY <2>2 DEF a
<1> HIDE DEF exact, rest
<1>2. used <= total => exact <= 100
  <2> SUFFICES ASSUME used <= total, exact >= 101 PROVE FALSE
    BY <1>1
  <2>1. exact - 101 \in Nat /\ total * (exact - 101) >= 0
    BY <1>1
  <2>2. total * (exact - 101) = total * exact - 101 * total /\ total * exact \in Int
    BY <1>1
  <2> QED
    BY <1>1, <2>1, <2>2
<1>3. Least(100, exact) \in Percentages /\ (exact <= 100 => Least(100, exact) = exact)
  BY <1>1 DEF Least, Percentages
<1>4. Stands(Least(100, exact), used, total)
  BY <1>1, <1>2, <1>3 DEF Stands
<1>5. ASSUME used > 0, rest = 0 PROVE Stands(Least(100, exact - 1), used, total)
  <2>1. exact # 0
    BY <1>1, <1>5
  <2>2. (exact - 1) * total = 100 * used - total
    BY <1>1, <1>5
  <2>3. /\ Least(100, exact - 1) \in Percentages
        /\ (exact <= 100 => Least(100, exact - 1) = exact - 1)
    BY <1>1, <2>1 DEF Least, Percentages
  <2> QED
    BY <1>1, <1>2, <2>2, <2>3 DEF Stands
<1> QED
  BY <1>4, <1>5 DEF exact, rest

(* The ticks of a poll, divided by its length.                             *)
LEMMA PercentsFair ==
  ASSUME ScalarsTypeInv, NEW busy \in Nat, NEW idle \in Int, busy + idle >= 0,
         NEW p \in Percents(busy, idle)
  PROVE  /\ p \in Percentages
         /\ idle >= 0 /\ busy + idle >= interval =>
              /\ p * (busy + idle) <= 100 * busy + 100 * (interval - 1)
              /\ p * (busy + idle) >= 100 * busy - 100 * (interval - 1) - (busy + idle)
<1> DEFINE ticks == busy + idle
           total == ticks \div interval
           r == ticks % interval
           q == idle \div interval
           s == idle % interval
           used == IF idle < 0 /\ interval > 1 THEN -1 ELSE total - q
           exact == (100 * used) \div total
<1>1. interval \in Nat \ {0} /\ ticks \in Nat
  BY ConstantsAssumption DEF ScalarsTypeInv
<1>2. p \in IF total = 0 /\ used = 0 THEN {0}
            ELSE IF total = 0 \/ used < 0 THEN {0, 100}
            ELSE {Least(100, exact)} \cup
                   IF used > 0 /\ (100 * used) % total = 0
                   THEN {Least(100, exact - 1)} ELSE {}
  BY DEF Percents
<1>3. total \in Nat /\ r \in 0 .. interval - 1 /\ ticks = interval * total + r
  <2> HIDE DEF ticks
  <2>1. total \in Nat
    BY <1>1, NatQuotient
  <2>2. r \in 0 .. interval - 1 /\ ticks = interval * total + r
    BY <1>1, Division
  <2> QED
    BY <2>1, <2>2
<1>4. q \in Int /\ s \in 0 .. interval - 1 /\ idle = interval * q + s
  BY <1>1, Division
<1> HIDE DEF total, r, q, s, exact
<1>5. used \in Int
  BY <1>3, <1>4
<1>6. idle >= 0 => q >= 0 /\ q <= total
  <2> SUFFICES ASSUME idle >= 0 PROVE q >= 0 /\ q <= total
    OBVIOUS
  <2>1. q >= 0
    BY <1>1, NatQuotient DEF q
  <2>2. ~(q - total >= 1)
    <3> SUFFICES ASSUME q - total >= 1 PROVE FALSE
      OBVIOUS
    <3>1. q - total - 1 \in Nat /\ interval * (q - total - 1) >= 0
      BY <1>1, <1>3, <1>4
    <3>2. interval * (q - total - 1) = interval * q - interval * total - interval
      BY <1>1, <1>3, <1>4
    <3>3. interval * q \in Int /\ interval * total \in Int
      BY <1>1, <1>3, <1>4
    <3> QED
      BY <1>1, <1>3, <1>4, <3>1, <3>2, <3>3
  <2> QED
    BY <1>3, <1>4, <2>1, <2>2
<1>7. idle >= 0 => used = total - q /\ used <= total /\ used >= 0
  BY <1>3, <1>4, <1>6
<1> HIDE DEF used, ticks
<1>8. CASE total = 0 \/ used < 0
  <2>1. p \in {0, 100}
    BY <1>2, <1>8
  <2>2. ~(idle >= 0 /\ ticks >= interval)
    <3> SUFFICES ASSUME idle >= 0, ticks >= interval PROVE FALSE
      OBVIOUS
    <3>1. total # 0
      <4> SUFFICES ASSUME total = 0 PROVE FALSE
        OBVIOUS
      <4>1. interval * total = 0
        BY <1>1
      <4> QED
        BY <1>1, <1>3, <4>1
    <3> QED
      BY <1>5, <1>7, <1>8, <3>1
  <2> QED
    BY <2>1, <2>2 DEF Percentages, ticks
<1>9. CASE ~(total = 0 \/ used < 0)
  <2>1. total \in Nat \ {0} /\ used \in Nat
    BY <1>3, <1>5, <1>9
  <2>2. Stands(p, used, total)
    <3>1. /\ Stands(Least(100, exact), used, total)
          /\ used > 0 /\ (100 * used) % total = 0 =>
               Stands(Least(100, exact - 1), used, total)
      BY <2>1, PercentOf DEF exact
    <3>2. \/ p = Least(100, exact)
          \/ used > 0 /\ (100 * used) % total = 0 /\ p = Least(100, exact - 1)
      BY <1>2, <1>9
    <3> QED
      BY <3>1, <3>2
  <2>3. p \in 0 .. 100
    BY <2>2 DEF Stands, Percentages
  <2>4. ASSUME idle >= 0
        PROVE  /\ p * ticks <= 100 * busy + 100 * (interval - 1)
               /\ p * ticks >= 100 * busy - 100 * (interval - 1) - ticks
    <3>1. p * total <= 100 * used /\ p * total >= 100 * used - total
      BY <1>7, <2>2, <2>4 DEF Stands
    <3> DEFINE pt == p * total
               iu == interval * used
               it == interval * total
               iq == interval * q
               pr == p * r
    <3>2. /\ pt \in Int /\ iu \in Int /\ it \in Int /\ iq \in Int /\ pr \in Int
          /\ p \in Int /\ r \in Int /\ s \in Int
      BY <1>1, <1>3, <1>4, <1>5, <2>3
    <3>3. interval * pt <= 100 * iu
      <4>1. 100 * used - pt \in Nat
        BY <1>5, <3>1, <3>2
      <4>2. interval * (100 * used - pt) >= 0
        <5> HIDE DEF pt
        <5> QED
          BY <1>1, <4>1
      <4>3. /\ interval * (100 * used - pt) = 100 * iu - interval * pt
            /\ interval * pt \in Int
        <5> HIDE DEF pt
        <5> QED
          BY <1>1, <1>5, <3>2
      <4> HIDE DEF pt, iu
      <4> QED
        BY <1>1, <1>5, <3>2, <4>2, <4>3
    <3>4. interval * pt >= 100 * iu - it
      <4>1. pt - 100 * used + total \in Nat
        BY <1>3, <1>5, <3>1, <3>2
      <4>2. interval * (pt - 100 * used + total) >= 0
        <5> HIDE DEF pt
        <5> QED
          BY <1>1, <4>1
      <4>3. /\ interval * (pt - 100 * used + total) = interval * pt - 100 * iu + it
            /\ interval * pt \in Int
        <5> HIDE DEF pt
        <5> QED
          BY <1>1, <1>3, <1>5, <3>2
      <4> HIDE DEF pt, iu, it
      <4> QED
        BY <1>1, <1>5, <3>2, <4>2, <4>3
    <3>5. iu = it - iq
      BY <1>1, <1>3, <1>4, <1>7, <2>4
    <3>6. p * ticks = interval * pt + pr
      BY <1>1, <1>3, <2>3
    <3>7. pr >= 0 /\ pr <= 100 * r
      <4>1. \A x, y \in Nat : x * y >= 0
        OBVIOUS
      <4>2. r \in Nat /\ 100 - p \in Nat /\ p \in Nat
        BY <1>1, <1>3, <2>3
      <4>3. (100 - p) * r >= 0 /\ p * r >= 0
        BY <4>1, <4>2
      <4>4. (100 - p) * r = 100 * r - p * r
        BY <4>2
      <4> QED
        BY <3>2, <4>2, <4>3, <4>4
    <3>8. /\ ticks = it + r /\ idle = iq + s /\ busy = ticks - idle
          /\ r >= 0 /\ r <= interval - 1 /\ s >= 0 /\ s <= interval - 1
      BY <1>1, <1>3, <1>4 DEF ticks
    <3> DEFINE ipt == interval * pt
               ptk == p * ticks
    <3>9. ipt \in Int /\ ptk \in Int
      BY <1>1, <2>3, <3>2
    <3> HIDE DEF pt, iu, it, iq, pr, ipt, ptk
    <3>10. ptk = ipt + pr /\ ipt <= 100 * iu /\ ipt >= 100 * iu - it
      BY <3>3, <3>4, <3>6 DEF ipt, ptk
    <3>11. /\ ptk <= 100 * busy + 100 * (interval - 1)
           /\ ptk >= 100 * busy - 100 * (interval - 1) - ticks
      BY <1>1, <3>2, <3>5, <3>7, <3>8, <3>9, <3>10
    <3> QED
      BY <3>11 DEF ptk
  <2> QED
    BY <2>3, <2>4 DEF ticks, Percentages
<1> QED
  BY <1>8, <1>9

-----------------------------------------------------------------------------
(* What the client reads *)

(* After m, which tells of v that it is w, the client is near w.           *)
ReadsWell(m, v, w) ==
  \A c \in Values, l \in Lost :
    (at > 0 => Near(kind, v, c, l)) =>
      /\ message(c, m) \in Values /\ LostOf(l, m) \in Lost
      /\ Near(kind, w, message(c, m), LostOf(l, m))
      /\ kind # "memory" => message(c, m).memory = c.memory
      /\ kind # "video" => message(c, m).video = c.video
      /\ ~(m.type = "mod" /\ m.card > Len(c.video))

(* What a set of values has.                                               *)
LEMMA ValuesFacts ==
  /\ Values = [memory : Bounded, power : BOOLEAN, video : CardValues,
               core : [percent : Percentages, cached : BOOLEAN]]
  /\ \A v \in CardValues : /\ Len(v) \in 0 .. MaxCards /\ DOMAIN v = 1 .. Len(v)
                           /\ v \in [1 .. Len(v) -> Bounded]
<1>1. ASSUME NEW v \in CardValues
      PROVE  /\ Len(v) \in 0 .. MaxCards /\ DOMAIN v = 1 .. Len(v)
             /\ v \in [1 .. Len(v) -> Bounded]
  <2>1. PICK n \in 0 .. MaxCards : v \in [1 .. n -> Bounded]
    BY DEF CardValues
  <2>2. Len(v) = n
    BY <2>1, ConstantsAssumption
  <2> QED
    BY <2>1, <2>2
<1> QED
  BY <1>1 DEF Values, Bounded, CardValues, Percentages

(* The two types of message.                                               *)
LEMMA MessageFields ==
  /\ \A v : Refresh(v).type = "refresh" /\ Refresh(v).value = v /\ Refresh(v).card = 0
  /\ \A card, v : /\ Mod(card, v).type = "mod" /\ Mod(card, v).value = v
                  /\ Mod(card, v).card = card
  BY DEF Refresh, Mod

(* A message about memory: the client stays less than a page behind for    *)
(* each difference.                                                        *)
LEMMA MemoryReads ==
  ASSUME NEW m, NEW v \in Bounded, NEW w \in Bounded, kind = "memory",
         Says(kind, m, v, w),
         at = 0 => m.type = "refresh", at \in Nat
  PROVE  ReadsWell(m, v, w)
<1> SUFFICES ASSUME NEW c \in Values, NEW l \in Lost, at > 0 => Near(kind, v, c, l)
             PROVE  /\ message(c, m) \in Values /\ LostOf(l, m) \in Lost
                    /\ Near(kind, w, message(c, m), LostOf(l, m))
                    /\ message(c, m).video = c.video
                    /\ ~(m.type = "mod" /\ m.card > Len(c.video))
  BY DEF ReadsWell
<1>1. /\ c.memory \in Bounded /\ l.memory \in Nat /\ Len(c.video) \in Nat
      /\ \A x \in Bounded : [c EXCEPT !.memory = x] \in Values
      /\ \A x \in Nat : [l EXCEPT !.memory = x] \in Lost
      /\ \A x : /\ [c EXCEPT !.memory = x].memory = x
                /\ [c EXCEPT !.memory = x].video = c.video
      /\ \A x : [l EXCEPT !.memory = x].memory = x
  <2>1. c.memory \in Bounded /\ c.video \in CardValues /\ l.memory \in Nat
    BY ValuesFacts DEF Lost
  <2>2. Len(c.video) \in Nat
    BY <2>1, ValuesFacts, ConstantsAssumption
  <2>3. \A x \in Bounded : [c EXCEPT !.memory = x] \in Values
    BY ValuesFacts
  <2>4. \A x \in Nat : [l EXCEPT !.memory = x] \in Lost
    BY DEF Lost
  <2>5. /\ \A x : /\ [c EXCEPT !.memory = x].memory = x
                  /\ [c EXCEPT !.memory = x].video = c.video
        /\ \A x : [l EXCEPT !.memory = x].memory = x
    BY ValuesFacts DEF Lost
  <2> QED
    BY <2>1, <2>2, <2>3, <2>4, <2>5
<1>2. CASE m = Refresh(w)
  <2>1. /\ message(c, m) = [c EXCEPT !.memory = w]
        /\ LostOf(l, m) = [l EXCEPT !.memory = 0]
        /\ m.type = "refresh"
    BY <1>2, MessageFields DEF message, message_memory, LostOf
  <2>2. Behind(w, w) <= (Page - 1) * 0
    BY BehindNothing, ConstantsAssumption
  <2>3. Near("memory", w, [c EXCEPT !.memory = w], [l EXCEPT !.memory = 0])
    BY <1>1, <2>2 DEF Near
  <2> QED
    BY <1>1, <2>1, <2>3
<1>3. CASE m = Mod(0, LogDiff(Pages(w, v)))
  <2> DEFINE next == Plus(c.memory, LogDiff(Pages(w, v)))
  <2>1. /\ message(c, m) = [c EXCEPT !.memory = next]
        /\ LostOf(l, m) = [l EXCEPT !.memory = l.memory + 1]
        /\ m.type = "mod" /\ m.card = 0
    BY <1>3, MessageFields DEF message, message_memory, LostOf
  <2>2. next \in Bounded /\ Behind(w, next) <= Behind(v, c.memory) + (Page - 1)
    BY <1>1, BehindGrows
  <2>3. Behind(v, c.memory) <= (Page - 1) * l.memory
    BY <2>1 DEF Near
  <2>4. /\ (Page - 1) * (l.memory + 1) = (Page - 1) * l.memory + (Page - 1)
        /\ (Page - 1) * l.memory \in Int
    <3>1. \A p, n \in Nat : p * (n + 1) = p * n + p /\ p * n \in Int
      OBVIOUS
    <3>2. Page - 1 \in Nat
      BY ConstantsAssumption
    <3>3. l.memory \in Nat
      BY <1>1
    <3> QED
      BY <3>1, <3>2, <3>3
  <2>5. Behind(w, next) \in Int /\ Behind(v, c.memory) \in Int
    BY <1>1, <2>2, BehindTyped
  <2> HIDE DEF next
  <2>6. Behind(w, next) <= (Page - 1) * (l.memory + 1)
    <3> DEFINE pl == (Page - 1) * l.memory
               pm == (Page - 1) * (l.memory + 1)
               bw == Behind(w, next)
               bv == Behind(v, c.memory)
    <3> HIDE DEF pl, pm, bw, bv
    <3>1. bw <= pm
      BY <2>2, <2>3, <2>4, <2>5, ConstantsAssumption DEF pl, pm, bw, bv
    <3> QED
      BY <3>1 DEF pm, bw
  <2>7. Near("memory", w, [c EXCEPT !.memory = next], [l EXCEPT !.memory = l.memory + 1])
    BY <1>1, <2>6 DEF Near
  <2>8. ~(m.card > Len(c.video)) /\ l.memory + 1 \in Nat
    BY <1>1, <2>1
  <2>9. /\ [c EXCEPT !.memory = next] \in Values
        /\ [c EXCEPT !.memory = next].video = c.video
    BY <1>1, <2>2
  <2>10. [l EXCEPT !.memory = l.memory + 1] \in Lost
    BY <1>1, <2>8
  <2> QED
    BY <2>1, <2>7, <2>8, <2>9, <2>10
<1> QED
  BY <1>2, <1>3 DEF Says

(* One about the cards: the same for each of them.                         *)
LEMMA VideoReads ==
  ASSUME NEW m, NEW v \in CardValues, NEW w \in CardValues, kind = "video",
         Says(kind, m, v, w),
         at = 0 => m.type = "refresh", at \in Nat
  PROVE  ReadsWell(m, v, w)
<1> SUFFICES ASSUME NEW c \in Values, NEW l \in Lost, at > 0 => Near(kind, v, c, l)
             PROVE  /\ message(c, m) \in Values /\ LostOf(l, m) \in Lost
                    /\ Near(kind, w, message(c, m), LostOf(l, m))
                    /\ message(c, m).memory = c.memory
                    /\ ~(m.type = "mod" /\ m.card > Len(c.video))
  BY DEF ReadsWell
<1>1. /\ c.video \in CardValues /\ l.video \in [Cards -> Nat]
      /\ NotLost.video \in [Cards -> Nat]
      /\ \A x \in CardValues : [c EXCEPT !.video = x] \in Values
      /\ \A x \in [Cards -> Nat] : [l EXCEPT !.video = x] \in Lost
      /\ \A x : /\ [c EXCEPT !.video = x].video = x
                /\ [c EXCEPT !.video = x].memory = c.memory
      /\ \A x : [l EXCEPT !.video = x].video = x
      /\ \A i \in Cards : NotLost.video[i] = 0
  BY ValuesFacts DEF Lost, NotLost
<1>2. \A x \in CardValues : /\ Len(x) \in 0 .. MaxCards /\ Len(x) \in Nat
                            /\ DOMAIN x = 1 .. Len(x)
                            /\ x \in [1 .. Len(x) -> Bounded]
                            /\ \A i \in DOMAIN x : /\ i \in Cards /\ i \in Nat
                                                   /\ x[i] \in Bounded
  <2> TAKE x \in CardValues
  <2>1. /\ Len(x) \in 0 .. MaxCards /\ MaxCards \in Nat /\ DOMAIN x = 1 .. Len(x)
        /\ x \in [1 .. Len(x) -> Bounded]
    BY ValuesFacts, ConstantsAssumption
  <2>2. \A i \in 1 .. Len(x) : i \in 1 .. MaxCards /\ i \in Nat /\ x[i] \in Bounded
    BY <2>1
  <2> QED
    BY <2>1, <2>2 DEF Cards
<1>3. CASE m = Refresh(w)
  <2>1. /\ message(c, m) = [c EXCEPT !.video = w]
        /\ LostOf(l, m) = [l EXCEPT !.video = NotLost.video]
        /\ m.type = "refresh"
    BY <1>3, MessageFields DEF message, message_video, LostOf
  <2>2. \A i \in DOMAIN w : Behind(w[i], w[i]) <= (Page - 1) * NotLost.video[i]
    <3> TAKE i \in DOMAIN w
    <3>1. w[i] \in Bounded /\ NotLost.video[i] = 0
      BY <1>1, <1>2
    <3>2. Behind(w[i], w[i]) = 0
      BY <3>1, BehindNothing
    <3>3. (Page - 1) * 0 = 0
      BY ConstantsAssumption
    <3> QED
      BY <3>1, <3>2, <3>3
  <2>3. Near("video", w, [c EXCEPT !.video = w], [l EXCEPT !.video = NotLost.video])
    BY <1>1, <2>2 DEF Near
  <2> QED
    BY <1>1, <2>1, <2>3
<1>4. CASE OneCard(m, v, w)
  <2>1. PICK card \in DOMAIN v : /\ DOMAIN w = DOMAIN v
                                 /\ m = Mod(card, LogDiff(Pages(w[card], v[card])))
                                 /\ w = [v EXCEPT ![card] = w[card]]
    BY <1>4 DEF OneCard
  <2> DEFINE change == LogDiff(Pages(w[card], v[card]))
             next == Plus(c.video[card], change)
             shown == [i \in DOMAIN c.video |->
                         IF i = card THEN Plus(c.video[i], change) ELSE c.video[i]]
             count == [l.video EXCEPT ![card] = l.video[card] + 1]
  <2>2. m.type = "mod" /\ m.card = card /\ m.value = change
    BY <2>1, MessageFields
  <2>3. message(c, m) = [c EXCEPT !.video = shown]
    BY <2>2 DEF message, message_video
  <2>4. LostOf(l, m) = [l EXCEPT !.video = count]
    BY <2>2 DEF LostOf, Lost
  <2>5. /\ DOMAIN c.video = DOMAIN v
        /\ \A i \in DOMAIN v : Behind(v[i], c.video[i]) <= (Page - 1) * l.video[i]
    BY <2>2 DEF Near
  <2>6. /\ next \in Bounded
        /\ Behind(w[card], next) <= Behind(v[card], c.video[card]) + (Page - 1)
    <3>1. w[card] \in Bounded /\ v[card] \in Bounded /\ c.video[card] \in Bounded
      BY <1>1, <1>2, <2>1, <2>5
    <3> QED
      BY <3>1, BehindGrows
  <2> HIDE DEF change
  <2>7. shown \in CardValues
    <3>1. shown \in [1 .. Len(c.video) -> Bounded]
      BY <1>1, <1>2, <2>6
    <3> HIDE DEF shown
    <3> QED
      BY <1>1, <1>2, <3>1 DEF CardValues
  <2>8. /\ card \in Cards /\ count \in [Cards -> Nat] /\ count[card] = l.video[card] + 1
        /\ l.video[card] \in Nat
    <3>1. card \in Cards
      BY <1>2
    <3> QED
      BY <1>1, <3>1
  <2>9. \A i \in DOMAIN w : Behind(w[i], shown[i]) <= (Page - 1) * count[i]
    <3> TAKE i \in DOMAIN w
    <3>1. i \in DOMAIN v /\ i \in Cards /\ i \in DOMAIN c.video
      BY <1>2, <2>1, <2>5
    <3>2. CASE i = card
      <4>1. shown[i] = next /\ count[i] = l.video[i] + 1
        BY <2>8, <3>1, <3>2
      <4>2. Behind(v[i], c.video[i]) <= (Page - 1) * l.video[i]
        BY <2>5, <3>1
      <4>3. Behind(w[i], next) \in Int /\ Behind(v[i], c.video[i]) \in Int
        <5>1. w[i] \in Bounded /\ v[i] \in Bounded /\ c.video[i] \in Bounded
          BY <1>1, <1>2, <3>1
        <5> HIDE DEF next
        <5> QED
          BY <2>6, <5>1, BehindTyped
      <4> HIDE DEF shown, count, next
      <4> DEFINE n == l.video[i]
                 bw == Behind(w[i], next)
                 bv == Behind(v[i], c.video[i])
                 pl == (Page - 1) * n
                 pm == (Page - 1) * (n + 1)
      <4>4. n \in Nat /\ pm = pl + (Page - 1) /\ pl \in Int
        BY <2>8, <3>2, ConstantsAssumption
      <4>5. bw <= pm
        <5>1. /\ bw <= bv + (Page - 1) /\ bv <= pl /\ bw \in Int /\ bv \in Int
              /\ Page - 1 \in Int
          BY <2>6, <3>2, <4>2, <4>3, ConstantsAssumption
        <5> HIDE DEF bw, bv, pl, pm
        <5> QED
          BY <4>4, <5>1
      <4> QED
        BY <4>1, <4>5
    <3>3. CASE i # card
      <4>1. shown[i] = c.video[i] /\ count[i] = l.video[i]
        BY <1>1, <3>1, <3>3
      <4>2. w[i] = v[i]
        BY <2>1, <3>1, <3>3
      <4> QED
        BY <2>5, <3>1, <4>1, <4>2
    <3> QED
      BY <3>2, <3>3
  <2>10. DOMAIN shown = DOMAIN w
    BY <2>1, <2>5
  <2> HIDE DEF shown, count
  <2>11. Near("video", w, [c EXCEPT !.video = shown], [l EXCEPT !.video = count])
    BY <1>1, <2>9, <2>10 DEF Near
  <2>12. ~(card > Len(c.video))
    <3>1. card \in 1 .. Len(c.video) /\ Len(c.video) \in Nat
      BY <1>1, <1>2, <2>5
    <3> QED
      BY <3>1
  <2> QED
    BY <1>1, <2>2, <2>3, <2>4, <2>7, <2>8, <2>11, <2>12
<1> QED
  BY <1>3, <1>4 DEF Says

(* One about the power: the client has it.                                 *)
LEMMA PowerReads ==
  ASSUME NEW m, NEW v \in BOOLEAN, NEW w \in BOOLEAN, kind = "power", Says(kind, m, v, w)
  PROVE  ReadsWell(m, v, w)
<1> SUFFICES ASSUME NEW c \in Values, NEW l \in Lost
             PROVE  /\ message(c, m) \in Values /\ LostOf(l, m) \in Lost
                    /\ Near(kind, w, message(c, m), LostOf(l, m))
                    /\ message(c, m).memory = c.memory /\ message(c, m).video = c.video
                    /\ ~(m.type = "mod" /\ m.card > Len(c.video))
  BY DEF ReadsWell
<1>1. m.value = w /\ m.card = 0
  BY MessageFields DEF Says
<1>2. message(c, m) = [c EXCEPT !.power = w] /\ LostOf(l, m) = l
  BY <1>1 DEF message, message_power, LostOf
<1>3. /\ [c EXCEPT !.power = w] \in Values /\ [c EXCEPT !.power = w].power = w
      /\ [c EXCEPT !.power = w].memory = c.memory
      /\ [c EXCEPT !.power = w].video = c.video
      /\ c.video \in CardValues
  BY ValuesFacts
<1>4. Len(c.video) \in Nat
  BY <1>3, ValuesFacts, ConstantsAssumption
<1>5. ~(0 > Len(c.video))
  BY <1>4
<1> QED
  BY <1>1, <1>2, <1>3, <1>5 DEF Near

(* One about a core: the client has the percentage.                        *)
LEMMA CoreReads ==
  ASSUME NEW m, NEW v \in Percentages, NEW w \in Percentages, kind = "core",
         Says(kind, m, v, w),
         at = 0 => m.type = "refresh", at \in Nat,
         NEW c \in Values, NEW l \in Lost,
         at > 0 => Near(kind, v, c, l), at = 0 => ~c.core.cached
  PROVE  /\ message(c, m) \in Values /\ LostOf(l, m) \in Lost
         /\ Near(kind, w, message(c, m), LostOf(l, m))
         /\ message(c, m).memory = c.memory /\ message(c, m).video = c.video
         /\ ~(m.type = "mod" /\ m.card > Len(c.video))
<1>1. /\ [c EXCEPT !.core = [percent |-> w, cached |-> TRUE]] \in Values
      /\ [c EXCEPT !.core = [percent |-> w, cached |-> TRUE]].core
            = [percent |-> w, cached |-> TRUE]
      /\ [c EXCEPT !.core = [percent |-> w, cached |-> TRUE]].memory = c.memory
      /\ [c EXCEPT !.core = [percent |-> w, cached |-> TRUE]].video = c.video
      /\ c.video \in CardValues /\ c.core \in [percent : Percentages, cached : BOOLEAN]
      /\ c = [c EXCEPT !.core = c.core]
  BY ValuesFacts
<1>2. Len(c.video) \in Nat
  BY <1>1, ValuesFacts, ConstantsAssumption
<1>3. m.card = 0 /\ LostOf(l, m) = l /\ ~(0 > Len(c.video))
  BY <1>2, MessageFields DEF LostOf, Says
<1>4. message(c, m) = [c EXCEPT !.core = [percent |-> w, cached |-> TRUE]]
  <2>1. CASE m = Refresh(w) /\ w = v
    <3>1. m.type = "refresh" /\ m.value = w
      BY <2>1, MessageFields
    <3>2. CASE c.core.cached
      <4>1. at > 0
        BY <3>2
      <4>2. c.core = [percent |-> w, cached |-> TRUE]
        BY <2>1, <4>1 DEF Near
      <4>3. message(c, m) = c
        BY <3>1, <3>2 DEF message, message_core
      <4> QED
        BY <1>1, <4>2, <4>3
    <3>3. CASE ~c.core.cached
      BY <3>1, <3>3 DEF message, message_core
    <3> QED
      BY <3>2, <3>3
  <2>2. CASE m = Mod(0, LogDiff(w - v))
    <3>1. m.type = "mod" /\ m.value = LogDiff(w - v)
      BY <2>2, MessageFields
    <3>2. c.core = [percent |-> v, cached |-> TRUE]
      <4>1. at > 0
        BY <3>1
      <4> QED
        BY <4>1 DEF Near
    <3>3. ChangeFind(m.value) = w - v
      <4>1. w - v \in Int /\ Fits(w - v, 4)
        BY ConstantsAssumption DEF Fits, Percentages
      <4> QED
        BY <3>1, <4>1, CodecIsExact
    <3>4. v + (w - v) = w
      BY DEF Percentages
    <3>5. message(c, m)
                = [c EXCEPT !.core =
                     [c.core EXCEPT !.percent = c.core.percent + ChangeFind(m.value)]]
      BY <3>1 DEF message, message_core
    <3>6. [c.core EXCEPT !.percent = c.core.percent + ChangeFind(m.value)]
            = [percent |-> w, cached |-> TRUE]
      <4> DEFINE x == c.core.percent + ChangeFind(m.value)
      <4>1. x = w
        BY <3>2, <3>3, <3>4
      <4> HIDE DEF x
      <4>2. [c.core EXCEPT !.percent = x] = [percent |-> w, cached |-> TRUE]
        <5> DEFINE next == [c.core EXCEPT !.percent = x]
        <5>1. /\ next \in [percent : Percentages, cached : BOOLEAN]
              /\ next.percent = w /\ next.cached = c.core.cached
          BY <1>1, <4>1
        <5>2. c.core.cached = TRUE
          BY <3>2
        <5> HIDE DEF next
        <5>3. next = [percent |-> w, cached |-> TRUE]
          BY <5>1, <5>2
        <5> QED
          BY <5>3 DEF next
      <4> QED
        BY <4>2 DEF x
    <3> QED
      BY <3>5, <3>6
  <2> QED
    BY <2>1, <2>2 DEF Says
<1> QED
  BY <1>1, <1>3, <1>4 DEF Near

(* The client reads one message.                                           *)
LEMMA ReadFollows ==
  ASSUME ScalarsTypeInv, FollowInv, Read
  PROVE  ScalarsTypeInv' /\ FollowInv'
<1> DEFINE m == file[at + 1]
<1>1. /\ at \in Nat /\ Len(file) \in Nat /\ at < Len(file) /\ at' = at + 1
      /\ kind' = kind /\ file' = file /\ daemon' = daemon /\ broadcast' = broadcast
      /\ interval' = interval /\ sample' = sample
      /\ client' = message(client, m) /\ lost' = LostOf(lost, m)
      /\ stray' = (stray \/ (m.type = "mod" /\ m.card > Len(client.video)))
  BY DEF ScalarsTypeInv, Read
<1>2. /\ kind \in {"memory", "video", "power", "core"} /\ file # <<>>
      /\ client \in Values /\ lost \in Lost
      /\ at + 1 \in 1 .. Len(file) /\ at \in 0 .. Len(file) /\ at + 1 \in 0 .. Len(file)
      /\ at' \in 0 .. Len(file')
  BY <1>1, ConstantsAssumption DEF ScalarsTypeInv
<1>3. PICK t : /\ Replays(kind, file, t)
               /\ t[Len(file)] = NumberOf(kind, daemon)
               /\ at > 0 => Near(kind, t[at], client, lost)
  BY DEF FollowInv, Followed
<1> DEFINE v == t[at]
           w == t[at + 1]
<1>4. v \in Number(kind) /\ w \in Number(kind) /\ Says(kind, m, v, w)
  <2>1. \A i \in 1 .. Len(file) : Says(kind, file[i], t[i - 1], t[i])
    BY <1>3 DEF Replays
  <2>2. at + 1 - 1 = at
    BY <1>1
  <2>3. Says(kind, file[at + 1], t[at + 1 - 1], t[at + 1])
    BY <1>2, <2>1
  <2> QED
    BY <1>2, <1>3, <2>2, <2>3 DEF Replays
<1>5. kind # "power" => (at = 0 => m.type = "refresh")
  BY <1>1, <1>2 DEF FollowInv, BeginsWhole
<1>6. kind = "core" => (at = 0 => ~client.core.cached)
  BY DEF FollowInv, CoreCached
<1> HIDE DEF m, v, w
<1>7. /\ client' \in Values /\ lost' \in Lost /\ Near(kind, w, client', lost')
      /\ kind # "memory" => client'.memory = client.memory
      /\ kind # "video" => client'.video = client.video
      /\ ~(m.type = "mod" /\ m.card > Len(client.video))
  <2>1. at > 0 => Near(kind, v, client, lost)
    BY <1>3 DEF v
  <2>2. CASE kind = "memory"
    <3>1. v \in Bounded /\ w \in Bounded
      BY <1>4, <2>2 DEF Number
    <3>2. ReadsWell(m, v, w)
      BY <1>1, <1>4, <1>5, <2>2, <3>1, MemoryReads
    <3> QED
      BY <1>1, <1>2, <2>1, <3>2 DEF ReadsWell
  <2>3. CASE kind = "video"
    <3>1. v \in CardValues /\ w \in CardValues
      BY <1>4, <2>3 DEF Number
    <3>2. ReadsWell(m, v, w)
      BY <1>1, <1>4, <1>5, <2>3, <3>1, VideoReads
    <3> QED
      BY <1>1, <1>2, <2>1, <3>2 DEF ReadsWell
  <2>4. CASE kind = "power"
    <3>1. v \in BOOLEAN /\ w \in BOOLEAN
      BY <1>4, <2>4 DEF Number
    <3>2. ReadsWell(m, v, w)
      BY <1>4, <2>4, <3>1, PowerReads
    <3> QED
      BY <1>1, <1>2, <2>1, <3>2 DEF ReadsWell
  <2>5. CASE kind = "core"
    <3>1. v \in Percentages /\ w \in Percentages
      BY <1>4, <2>5 DEF Number
    <3>2. /\ message(client, m) \in Values /\ LostOf(lost, m) \in Lost
          /\ Near(kind, w, message(client, m), LostOf(lost, m))
          /\ message(client, m).memory = client.memory
          /\ message(client, m).video = client.video
          /\ ~(m.type = "mod" /\ m.card > Len(client.video))
      BY <1>1, <1>2, <1>4, <1>5, <1>6, <2>1, <2>5, <3>1, CoreReads
    <3> QED
      BY <1>1, <3>2
  <2> QED
    BY <1>2, <2>2, <2>3, <2>4, <2>5
<1>8. ScalarsTypeInv'
  BY <1>1, <1>2, <1>7 DEF ScalarsTypeInv
<1>9. Followed'
  <2>1. /\ Replays(kind', file', t) /\ t[Len(file')] = NumberOf(kind', daemon')
        /\ Near(kind', t[at'], client', lost')
    BY <1>1, <1>3, <1>7 DEF w
  <2> QED
    BY <2>1 DEF Followed
<1>10. BeginsWhole' /\ CoreCached' /\ OthersIdle' /\ stray' = FALSE
  <2>1. BeginsWhole' /\ CoreCached'
    BY <1>1 DEF FollowInv, BeginsWhole, CoreCached
  <2>2. OthersIdle' /\ stray' = FALSE
    BY <1>1, <1>7 DEF FollowInv, OthersIdle
  <2> QED
    BY <2>1, <2>2
<1> QED
  BY <1>8, <1>9, <1>10 DEF FollowInv

-----------------------------------------------------------------------------
(* The invariant is inductive *)

(* Before anything is read.                                                *)
LEMMA NoValuesTyped ==
  NoValues \in Values
<1>1. <<>> \in CardValues
  <2>1. <<>> \in [1 .. 0 -> Bounded] /\ 0 \in 0 .. MaxCards
    BY ConstantsAssumption
  <2> QED
    BY <2>1 DEF CardValues
<1>2. 0 \in Bounded /\ 0 \in Percentages
  BY ConstantsAssumption DEF Bounded, Percentages
<1> QED
  BY <1>1, <1>2, ValuesFacts DEF NoValues

LEMMA ScalarsInitHolds ==
  ASSUME ScalarsInit
  PROVE  ScalarsIInv
<1>1. /\ kind \in Kinds /\ kind \in {"memory", "video", "power", "core"} /\ interval = 1
      /\ 1 \in Intervals
      /\ daemon = NoValues /\ client = NoValues /\ sample = NoSample /\ lost = NotLost
      /\ stray = FALSE /\ file = <<>> /\ at = 0 /\ broadcast = TRUE
  BY ConstantsAssumption DEF ScalarsInit
<1>2. NoValues \in Values
  BY NoValuesTyped
<1>3. NoSample \in Samples
  BY <1>1 DEF NoSample, Samples, Percentages
<1>4. NotLost \in Lost
  BY DEF NotLost, Lost
<1>5. <<>> \in Seq(Messages) /\ Len(<<>>) = 0 /\ 0 \in 0 .. 0
  OBVIOUS
<1>6. ScalarsTypeInv
  BY <1>1, <1>2, <1>3, <1>4, <1>5 DEF ScalarsTypeInv
<1>7. Followed
  <2> DEFINE v == NumberOf(kind, daemon)
             t == [i \in 0 .. 0 |-> v]
  <2>1. v \in Number(kind)
    BY <1>1, <1>2, NumberTyped
  <2>2. Replays(kind, <<>>, t) /\ t[Len(<<>>)] = v
    BY <1>5, <2>1, NothingReplays
  <2> HIDE DEF t, v
  <2>3. Replays(kind, file, t) /\ t[Len(file)] = NumberOf(kind, daemon) /\ ~(at > 0)
    BY <1>1, <2>2 DEF v
  <2> QED
    BY <2>3 DEF Followed
<1>8. BeginsWhole /\ CoreCached /\ OthersIdle /\ stray = FALSE
  BY <1>1 DEF BeginsWhole, CoreCached, OthersIdle, NoValues
<1>9. PercentFair
  BY <1>1 DEF PercentFair, NoSample
<1> QED
  BY <1>6, <1>7, <1>8, <1>9 DEF ScalarsIInv, FollowInv

(* A poll that appends messages which tell of the change it makes keeps    *)
(* what is between the daemon and its client.                              *)
LEMMA PollFollows ==
  ASSUME ScalarsTypeInv, FollowInv, NEW k, NEW ms \in Seq(Messages), NEW w \in Number(k),
         kind = k, file' = file \o ms, broadcast' \in BOOLEAN, interval' \in Intervals,
         UNCHANGED <<kind, clientVars>>,
         daemon' \in Values, NumberOf(k, daemon') = w,
         Take(k, ms, NumberOf(k, daemon), w),
         k # "power" => IF broadcast THEN ms # <<>> /\ ms[1].type = "refresh" ELSE TRUE,
         k = "core" => daemon'.core.cached,
         k # "memory" => daemon'.memory = daemon.memory,
         k # "video" => daemon'.video = daemon.video,
         sample' \in Samples
  PROVE  ScalarsTypeInv' /\ FollowInv'
<1>1. /\ kind' = kind /\ at' = at /\ client' = client /\ lost' = lost /\ stray' = stray
      /\ file \in Seq(Messages) /\ file' \in Seq(Messages)
      /\ Len(file') = Len(file) + Len(ms)
      /\ Len(file) \in Nat /\ Len(ms) \in Nat /\ at \in 0 .. Len(file)
  BY DEF clientVars, ScalarsTypeInv
<1>2. at' \in 0 .. Len(file')
  BY <1>1
<1>3. ScalarsTypeInv'
  BY <1>1, <1>2 DEF ScalarsTypeInv
<1>4. Followed'
  BY <1>1, LogFollows DEF FollowInv
<1>5. BeginsWhole'
  <2> SUFFICES ASSUME k # "power" PROVE file' # <<>> /\ file'[1].type = "refresh"
    BY <1>1 DEF BeginsWhole
  <2>1. CASE file = <<>>
    <3>1. broadcast /\ ms # <<>> /\ ms[1].type = "refresh"
      BY <2>1 DEF FollowInv, BeginsWhole
    <3>2. file' = ms
      BY <2>1
    <3> QED
      BY <3>1, <3>2
  <2>2. CASE file # <<>>
    <3>1. file[1].type = "refresh"
      BY <2>2 DEF FollowInv, BeginsWhole
    <3>2. Len(file) # 0 /\ file'[1] = file[1] /\ file' # <<>>
      BY <1>1, <2>2
    <3> QED
      BY <3>1, <3>2
  <2> QED
    BY <2>1, <2>2
<1>6. CoreCached'
  BY <1>1 DEF FollowInv, CoreCached
<1>7. OthersIdle' /\ stray' = FALSE
  BY <1>1 DEF FollowInv, OthersIdle
<1> QED
  BY <1>3, <1>4, <1>5, <1>6, <1>7 DEF FollowInv

LEMMA MemoryPolled ==
  ASSUME ScalarsTypeInv, FollowInv, NEW b \in Bytes, PollMemory(b)
  PROVE  ScalarsTypeInv' /\ FollowInv' /\ UNCHANGED sample
<1> DEFINE ms == IF broadcast THEN <<Refresh(b)>> ELSE Diff(0, b, daemon.memory)
<1>1. /\ kind = "memory" /\ file' = file \o ms /\ broadcast' \in BOOLEAN
      /\ interval' \in Intervals
      /\ UNCHANGED <<kind, clientVars>> /\ daemon' = [daemon EXCEPT !.memory = b]
      /\ sample' = sample
  BY DEF PollMemory, Log
<1>2. /\ b \in Bounded /\ daemon \in Values /\ daemon.memory \in Bounded
      /\ sample \in Samples
      /\ Number("memory") = Bounded /\ broadcast \in BOOLEAN
  BY ValuesFacts, ConstantsAssumption DEF ScalarsTypeInv, Bounded, Number
<1>3. /\ daemon' \in Values /\ NumberOf("memory", daemon') = b
      /\ NumberOf("memory", daemon) = daemon.memory
      /\ daemon'.video = daemon.video
  BY <1>1, <1>2, ValuesFacts DEF NumberOf
<1>4. ms \in Seq(Messages) /\ Take("memory", ms, daemon.memory, b)
  <2>1. CASE broadcast
    BY <1>2, <2>1, RefreshSays
  <2>2. CASE ~broadcast
    BY <1>2, <2>2, MemorySays
  <2> QED
    BY <2>1, <2>2
<1>5. IF broadcast THEN ms # <<>> /\ ms[1].type = "refresh" ELSE TRUE
  BY MessageFields
<1> HIDE DEF ms
<1> QED
  BY <1>1, <1>2, <1>3, <1>4, <1>5, PollFollows

LEMMA VideoPolled ==
  ASSUME ScalarsTypeInv, FollowInv, NEW v \in Videos, PollVideo(v)
  PROVE  ScalarsTypeInv' /\ FollowInv' /\ UNCHANGED sample
<1> DEFINE next == IF broadcast THEN v ELSE [i \in DOMAIN daemon.video |-> Card(v, i)]
           ms == IF broadcast THEN <<Refresh(v)>> ELSE FlattenSeq(VideoDiffs(v))
<1>1. /\ kind = "video" /\ file' = file \o ms /\ broadcast' \in BOOLEAN
      /\ interval' \in Intervals
      /\ UNCHANGED <<kind, clientVars>> /\ daemon' = [daemon EXCEPT !.video = next]
      /\ sample' = sample
  BY DEF PollVideo, Log
<1>2. v \in CardValues
  <2>1. PICK n \in 0 .. MaxCards : v \in [1 .. n -> Bytes]
    BY DEF Videos
  <2>2. v \in [1 .. n -> Bounded]
    BY <2>1, ConstantsAssumption DEF Bounded
  <2> QED
    BY <2>2 DEF CardValues
<1>3. /\ daemon \in Values /\ daemon.video \in CardValues /\ sample \in Samples
      /\ Number("video") = CardValues /\ broadcast \in BOOLEAN
  BY ValuesFacts DEF ScalarsTypeInv, Number
<1>4. ms \in Seq(Messages) /\ Take("video", ms, daemon.video, next) /\ next \in CardValues
  <2>1. CASE broadcast
    BY <1>2, <1>3, <2>1, RefreshSays
  <2>2. CASE ~broadcast
    BY <1>2, <2>2, VideoSays
  <2> QED
    BY <2>1, <2>2
<1>5. IF broadcast THEN ms # <<>> /\ ms[1].type = "refresh" ELSE TRUE
  BY MessageFields
<1> HIDE DEF ms, next
<1>6. /\ daemon' \in Values /\ NumberOf("video", daemon') = next
      /\ NumberOf("video", daemon) = daemon.video
      /\ daemon'.memory = daemon.memory
  BY <1>1, <1>3, <1>4, ValuesFacts DEF NumberOf
<1> QED
  BY <1>1, <1>3, <1>4, <1>5, <1>6, PollFollows

LEMMA PowerPolled ==
  ASSUME ScalarsTypeInv, FollowInv, NEW ac \in BOOLEAN, PollPower(ac)
  PROVE  ScalarsTypeInv' /\ FollowInv' /\ UNCHANGED sample
<1> DEFINE ms == PowerMessage(ac)
<1>1. /\ kind = "power" /\ file' = file \o ms /\ broadcast' \in BOOLEAN
      /\ interval' \in Intervals
      /\ UNCHANGED <<kind, clientVars>> /\ daemon' = [daemon EXCEPT !.power = ac]
      /\ sample' = sample
  BY DEF PollPower, Log
<1>2. /\ daemon \in Values /\ daemon.power \in BOOLEAN /\ sample \in Samples
      /\ Number("power") = BOOLEAN /\ broadcast \in BOOLEAN
  BY ValuesFacts DEF ScalarsTypeInv, Number
<1>3. /\ daemon' \in Values /\ NumberOf("power", daemon') = ac
      /\ NumberOf("power", daemon) = daemon.power
      /\ daemon'.memory = daemon.memory /\ daemon'.video = daemon.video
  BY <1>1, <1>2, ValuesFacts DEF NumberOf
<1>4. ms \in Seq(Messages) /\ Take("power", ms, daemon.power, ac)
  <2>1. CASE broadcast
    <3>1. ms = <<Refresh(ac)>>
      BY <2>1 DEF PowerMessage
    <3> QED
      BY <1>2, <3>1, RefreshSays
  <2>2. CASE ~broadcast /\ ac # daemon.power
    <3>1. ms = <<Mod(0, ac)>>
      BY <2>2 DEF PowerMessage
    <3> QED
      BY <1>2, <3>1, PowerSays
  <2>3. CASE ~broadcast /\ ac = daemon.power
    <3>1. ms = <<>>
      BY <2>3 DEF PowerMessage
    <3>2. Take("power", <<>>, ac, ac)
      BY <1>2, TakeNothing
    <3> QED
      BY <2>3, <3>1, <3>2
  <2> QED
    BY <2>1, <2>2, <2>3
<1> HIDE DEF ms
<1> QED
  BY <1>1, <1>2, <1>3, <1>4, PollFollows

LEMMA PowerLocked ==
  ASSUME ScalarsTypeInv, FollowInv, PollPowerLocked
  PROVE  ScalarsTypeInv' /\ FollowInv' /\ UNCHANGED sample
<1>1. /\ kind = "power" /\ file' = file \o <<>> /\ broadcast' \in BOOLEAN
      /\ interval' \in Intervals
      /\ UNCHANGED <<kind, clientVars>> /\ daemon' = daemon /\ sample' = sample
  BY DEF PollPowerLocked, Log
<1>2. /\ daemon \in Values /\ daemon.power \in BOOLEAN /\ sample \in Samples
      /\ Number("power") = BOOLEAN /\ NumberOf("power", daemon) = daemon.power
      /\ <<>> \in Seq(Messages)
  BY ValuesFacts DEF ScalarsTypeInv, Number, NumberOf
<1>3. Take("power", <<>>, daemon.power, daemon.power)
  BY <1>2, TakeNothing
<1> QED
  BY <1>1, <1>2, <1>3, PollFollows

(* What a core's poll takes for busy and idle.                             *)
LEMMA CorePolled ==
  ASSUME ScalarsTypeInv, FollowInv, NEW busy \in Ticks \cap Nat, NEW idle \in Ticks,
         busy + idle >= 0,
         PollCore(busy, idle)
  PROVE  ScalarsTypeInv' /\ FollowInv' /\ PercentFair'
<1> DEFINE b == IF daemon.core.cached THEN busy ELSE 0
           i == IF daemon.core.cached THEN idle ELSE 0
           was == daemon.core.percent
<1>1. b \in Nat /\ i \in Int /\ b + i >= 0
  BY ConstantsAssumption
<1>2. PICK p \in Percents(b, i) :
        /\ Log("core", (IF broadcast THEN <<Refresh(was)>> ELSE <<>>)
                         \o (IF p # was THEN <<Mod(0, LogDiff(p - was))>> ELSE <<>>))
        /\ daemon' = [daemon EXCEPT !.core = [percent |-> p, cached |-> TRUE]]
        /\ sample' = [busy |-> b, idle |-> i, interval |-> interval, percent |-> p]
  BY DEF PollCore
<1> DEFINE first == IF broadcast THEN <<Refresh(was)>> ELSE <<>>
           then == IF p # was THEN <<Mod(0, LogDiff(p - was))>> ELSE <<>>
           ms == first \o then
<1>3. /\ kind = "core" /\ file' = file \o ms /\ broadcast' \in BOOLEAN
      /\ interval' \in Intervals
      /\ UNCHANGED <<kind, clientVars>>
  BY <1>2 DEF Log
<1>4. /\ daemon \in Values /\ was \in Percentages /\ interval \in Intervals
      /\ interval \in Nat \ {0}
      /\ Number("core") = Percentages /\ broadcast \in BOOLEAN
  BY ValuesFacts, ConstantsAssumption DEF ScalarsTypeInv, Number
<1> HIDE DEF b, i
<1>5. /\ p \in Percentages
      /\ i >= 0 /\ b + i >= interval =>
           /\ p * (b + i) <= 100 * b + 100 * (interval - 1)
           /\ p * (b + i) >= 100 * b - 100 * (interval - 1) - (b + i)
  BY <1>1, PercentsFair
<1>6. /\ daemon' \in Values /\ NumberOf("core", daemon') = p
      /\ NumberOf("core", daemon) = was
      /\ daemon'.memory = daemon.memory /\ daemon'.video = daemon.video
      /\ daemon'.core.cached
  BY <1>2, <1>4, <1>5, ValuesFacts DEF NumberOf
<1> HIDE DEF was
<1>7. first \in Seq(Messages) /\ Take("core", first, was, was)
  <2>1. CASE broadcast
    BY <1>4, <2>1, RefreshSays
  <2>2. CASE ~broadcast
    BY <1>4, <2>2, TakeNothing
  <2> QED
    BY <2>1, <2>2
<1>8. then \in Seq(Messages) /\ Take("core", then, was, p)
  <2>1. CASE p # was
    BY <1>4, <1>5, <2>1, CoreSays
  <2>2. CASE p = was
    BY <1>4, <2>2, TakeNothing
  <2> QED
    BY <2>1, <2>2
<1>9. broadcast => first # <<>> /\ Len(first) = 1 /\ first[1].type = "refresh"
  BY MessageFields
<1> HIDE DEF first, then
<1>10. ms \in Seq(Messages) /\ Take("core", ms, was, p)
  BY <1>7, <1>8, TakeBoth
<1>11. IF broadcast THEN ms # <<>> /\ ms[1].type = "refresh" ELSE TRUE
  <2>1. broadcast => Len(ms) = Len(first) + Len(then) /\ ms[1] = first[1]
    BY <1>7, <1>8, <1>9
  <2>2. Len(then) \in Nat
    BY <1>8
  <2> HIDE DEF ms
  <2> QED
    BY <1>9, <2>1, <2>2
<1>12. sample' \in Samples
  BY <1>1, <1>2, <1>4, <1>5 DEF Samples
<1> HIDE DEF ms
<1>13. ScalarsTypeInv' /\ FollowInv'
  BY <1>3, <1>4, <1>5, <1>6, <1>10, <1>11, <1>12, PollFollows
<1>14. PercentFair'
  <2>1. /\ sample'.busy = b /\ sample'.idle = i /\ sample'.interval = interval
        /\ sample'.percent = p
    BY <1>2
  <2> QED
    BY <1>5, <2>1 DEF PercentFair
<1> QED
  BY <1>13, <1>14

(* The log is truncated.                                                   *)
LEMMA Truncated ==
  ASSUME ScalarsTypeInv, FollowInv, NEW d \in Values, Truncate(d),
         kind # "memory" => d.memory = 0, kind # "video" => d.video = <<>>
  PROVE  ScalarsTypeInv' /\ FollowInv' /\ UNCHANGED sample
<1>1. /\ daemon' = d /\ broadcast' = TRUE /\ file' = <<>> /\ at' = 0 /\ kind' = kind
      /\ client' = [client EXCEPT !.core = NoValues.core] /\ lost' = NotLost
      /\ interval' = interval /\ sample' = sample /\ stray' = stray
  BY DEF Truncate
<1>2. /\ client' \in Values /\ client'.memory = client.memory
      /\ client'.video = client.video
      /\ ~client'.core.cached
  <2> DEFINE none == NoValues.core
  <2>1. none \in [percent : Percentages, cached : BOOLEAN] /\ ~none.cached
    BY DEF NoValues, Percentages
  <2> HIDE DEF none
  <2>2. client \in Values /\ client' = [client EXCEPT !.core = none]
    BY <1>1 DEF ScalarsTypeInv, none
  <2> QED
    BY <2>1, <2>2, ValuesFacts
<1>3. <<>> \in Seq(Messages) /\ Len(<<>>) = 0 /\ 0 \in 0 .. 0 /\ NotLost \in Lost
  BY DEF NotLost, Lost
<1>4. ScalarsTypeInv'
  BY <1>1, <1>2, <1>3 DEF ScalarsTypeInv
<1>5. Followed'
  <2> DEFINE v == NumberOf(kind, d)
             t == [i \in 0 .. 0 |-> v]
  <2>1. v \in Number(kind)
    BY NumberTyped, ConstantsAssumption DEF ScalarsTypeInv
  <2>2. Replays(kind, <<>>, t) /\ t[Len(<<>>)] = v
    BY <1>3, <2>1, NothingReplays
  <2> HIDE DEF t, v
  <2>3. Replays(kind', file', t) /\ t[Len(file')] = NumberOf(kind', daemon') /\ ~(at' > 0)
    BY <1>1, <2>2 DEF v
  <2> QED
    BY <2>3 DEF Followed
<1>6. BeginsWhole' /\ CoreCached' /\ OthersIdle' /\ stray' = FALSE
  BY <1>1, <1>2 DEF FollowInv, BeginsWhole, CoreCached, OthersIdle
<1> QED
  BY <1>1, <1>4, <1>5, <1>6 DEF FollowInv

(* Another client opens the log.                                           *)
LEMMA Opened ==
  ASSUME ScalarsTypeInv, FollowInv, Open
  PROVE  ScalarsTypeInv' /\ FollowInv' /\ UNCHANGED sample
<1>1. /\ client' = NoValues /\ lost' = NotLost /\ at' = 0 /\ kind' = kind
      /\ daemon' = daemon
      /\ interval' = interval /\ broadcast' = broadcast /\ sample' = sample
      /\ file' = file
      /\ stray' = stray
  BY DEF Open
<1>2. /\ client' \in Values /\ client'.memory = 0 /\ client'.video = <<>>
      /\ ~client'.core.cached
      /\ lost' \in Lost /\ Len(file) \in Nat /\ file \in Seq(Messages)
  BY <1>1, NoValuesTyped DEF ScalarsTypeInv, NoValues, NotLost, Lost
<1>3. at' \in 0 .. Len(file')
  BY <1>1, <1>2
<1>4. ScalarsTypeInv'
  BY <1>1, <1>2, <1>3 DEF ScalarsTypeInv
<1>5. Followed'
  <2>1. PICK t : Replays(kind, file, t) /\ t[Len(file)] = NumberOf(kind, daemon)
    BY DEF FollowInv, Followed
  <2>2. Replays(kind', file', t) /\ t[Len(file')] = NumberOf(kind', daemon') /\ ~(at' > 0)
    BY <1>1, <2>1
  <2> QED
    BY <2>2 DEF Followed
<1>6. BeginsWhole' /\ CoreCached' /\ OthersIdle' /\ stray' = FALSE
  BY <1>1, <1>2 DEF FollowInv, BeginsWhole, CoreCached, OthersIdle
<1> QED
  BY <1>1, <1>4, <1>5, <1>6 DEF FollowInv

LEMMA ScalarsNextHolds ==
  ASSUME ScalarsIInv, ScalarsNext
  PROVE  ScalarsIInv'
<1>1. ScalarsTypeInv /\ FollowInv /\ PercentFair
  BY DEF ScalarsIInv
<1>2. ASSUME UNCHANGED sample PROVE PercentFair'
  BY <1>1, <1>2 DEF PercentFair
<1>3. ASSUME NEW b \in Bytes, PollMemory(b) PROVE ScalarsIInv'
  BY <1>1, <1>2, <1>3, MemoryPolled DEF ScalarsIInv
<1>4. ASSUME NEW v \in Videos, PollVideo(v) PROVE ScalarsIInv'
  BY <1>1, <1>2, <1>4, VideoPolled DEF ScalarsIInv
<1>5. ASSUME NEW ac \in BOOLEAN, PollPower(ac) PROVE ScalarsIInv'
  BY <1>1, <1>2, <1>5, PowerPolled DEF ScalarsIInv
<1>6. ASSUME PollPowerLocked PROVE ScalarsIInv'
  BY <1>1, <1>2, <1>6, PowerLocked DEF ScalarsIInv
<1>7. ASSUME NEW busy \in Ticks \cap Nat, NEW idle \in Ticks, busy + idle >= 0,
             PollCore(busy, idle)
      PROVE  ScalarsIInv'
  BY <1>1, <1>7, CorePolled DEF ScalarsIInv
<1>8. ASSUME Rotate PROVE ScalarsIInv'
  <2>1. /\ daemon \in Values /\ (kind # "memory" => daemon.memory = 0)
        /\ (kind # "video" => daemon.video = <<>>)
    BY <1>1 DEF ScalarsTypeInv, FollowInv, OthersIdle
  <2> QED
    BY <1>1, <1>2, <1>8, <2>1, Truncated DEF Rotate, ScalarsIInv
<1>9. ASSUME Restart PROVE ScalarsIInv'
  <2>1. NoValues \in Values /\ NoValues.memory = 0 /\ NoValues.video = <<>>
    BY NoValuesTyped DEF NoValues
  <2> QED
    BY <1>1, <1>2, <1>9, <2>1, Truncated DEF Restart, ScalarsIInv
<1>10. ASSUME Read PROVE ScalarsIInv'
  <2>1. UNCHANGED sample
    BY <1>10 DEF Read
  <2> QED
    BY <1>1, <1>2, <1>10, <2>1, ReadFollows DEF ScalarsIInv
<1>11. ASSUME Open PROVE ScalarsIInv'
  BY <1>1, <1>2, <1>11, Opened DEF ScalarsIInv
<1> QED
  BY <1>3, <1>4, <1>5, <1>6, <1>7, <1>8, <1>9, <1>10, <1>11 DEF ScalarsNext, Poll

LEMMA ScalarsStutterHolds ==
  ASSUME ScalarsIInv, UNCHANGED scalarsVars
  PROVE  ScalarsIInv'
<1>1. ScalarsTypeInv'
  BY DEF ScalarsIInv, ScalarsTypeInv, scalarsVars, clientVars
<1>2. Followed'
  BY DEF ScalarsIInv, FollowInv, Followed, scalarsVars, clientVars
<1>3. BeginsWhole' /\ CoreCached' /\ OthersIdle' /\ stray' = FALSE /\ PercentFair'
  BY DEF ScalarsIInv, FollowInv, BeginsWhole, CoreCached, OthersIdle, PercentFair,
       scalarsVars, clientVars
<1> QED
  BY <1>1, <1>2, <1>3 DEF ScalarsIInv, FollowInv

(* A client that has read the whole log is near what the daemon has.       *)
LEMMA ScalarsIInvImplies ==
  ASSUME ScalarsIInv
  PROVE  ScalarsInv
<1>1. /\ ScalarsTypeInv /\ FollowInv /\ daemon \in Values /\ client \in Values
      /\ lost \in Lost
      /\ file \in Seq(Messages) /\ at \in 0 .. Len(file) /\ stray = FALSE
      /\ kind \in {"memory", "video", "power", "core"}
  BY ConstantsAssumption DEF ScalarsIInv, ScalarsTypeInv, FollowInv
<1>2. ScalarsTyped
  <2>1. sample.percent \in 0 .. 100 /\ sample.interval \in Intervals
    BY <1>1 DEF ScalarsTypeInv, Samples, Percentages
  <2>2. kind \in Kinds /\ interval \in Intervals /\ broadcast \in BOOLEAN
    BY <1>1 DEF ScalarsTypeInv
  <2> QED
    BY <1>1, <2>1, <2>2 DEF ScalarsTyped
<1>3. HasRead => Near(kind, NumberOf(kind, daemon), client, lost)
  <2> SUFFICES ASSUME HasRead PROVE Near(kind, NumberOf(kind, daemon), client, lost)
    OBVIOUS
  <2>1. at = Len(file) /\ at > 0
    BY <1>1 DEF HasRead
  <2> QED
    BY <1>1, <2>1 DEF FollowInv, Followed
<1>4. /\ daemon.memory \in Bounded /\ client.memory \in Bounded /\ lost.memory \in Nat
      /\ daemon.video \in CardValues /\ client.video \in CardValues /\ Page \in Nat \ {0}
  BY <1>1, ValuesFacts, ConstantsAssumption DEF Lost
<1>5. ASSUME HasRead
      PROVE  Behind(daemon.memory, client.memory) <= (Page - 1) * lost.memory
  <2>1. CASE kind = "memory"
    BY <1>3, <1>5, <2>1 DEF Near, NumberOf
  <2>2. CASE kind # "memory"
    <3>1. daemon.memory = 0 /\ client.memory = 0
      BY <1>1, <2>2 DEF FollowInv, OthersIdle
    <3>2. Behind(daemon.memory, client.memory) = 0
      BY <1>4, <3>1, BehindNothing
    <3>3. \A p, n \in Nat : p * n >= 0
      OBVIOUS
    <3>4. Page - 1 \in Nat
      BY <1>4
    <3> QED
      BY <1>4, <3>2, <3>3, <3>4
  <2> QED
    BY <2>1, <2>2
<1>6. ASSUME HasRead
      PROVE  /\ DOMAIN client.video = DOMAIN daemon.video
             /\ \A i \in DOMAIN daemon.video :
                  Behind(daemon.video[i], client.video[i]) <= (Page - 1) * lost.video[i]
  <2>1. CASE kind = "video"
    BY <1>3, <1>6, <2>1 DEF Near, NumberOf
  <2>2. CASE kind # "video"
    BY <1>1, <2>2 DEF FollowInv, OthersIdle
  <2> QED
    BY <2>1, <2>2
<1>7. LosesRemainders /\ CardsKnown
  BY <1>1, <1>5, <1>6 DEF LosesRemainders, CardsKnown
<1>8. PowerTold
  BY <1>3 DEF PowerTold, Near, NumberOf
<1>9. PercentTold
  <2> SUFFICES ASSUME HasRead, kind = "core" PROVE client.core = daemon.core
    BY DEF PercentTold
  <2>1. client.core = [percent |-> daemon.core.percent, cached |-> TRUE]
    BY <1>3 DEF Near, NumberOf
  <2>2. daemon.core.cached
    BY <1>1 DEF FollowInv, CoreCached, HasRead
  <2>3. daemon.core \in [percent : Percentages, cached : BOOLEAN]
    BY <1>1, ValuesFacts
  <2> QED
    BY <2>1, <2>2, <2>3
<1> QED
  BY <1>2, <1>7, <1>8, <1>9 DEF ScalarsInv

LEMMA ScalarsIInvHolds ==
  ScalarsSpec => []ScalarsIInv
<1>1. ScalarsInit => ScalarsIInv
  BY ScalarsInitHolds
<1>2. ScalarsIInv /\ [ScalarsNext]_scalarsVars => ScalarsIInv'
  BY ScalarsNextHolds, ScalarsStutterHolds
<1> QED
  BY <1>1, <1>2, PTL DEF ScalarsSpec

-----------------------------------------------------------------------------
(* The theorems *)

(* Whatever the page and the widths, a client that has read the log is     *)
(* below the daemon's memory, and that of each card, by less than a page   *)
(* for each difference since the last whole value; it knows every card it  *)
(* is told a difference of, and has the power and the percentage as they   *)
(* are (memory.c:32-104, power.c:57-87, log.c:574-611, client.c:155-207).  *)
THEOREM ScalarsCorrect ==
  ScalarsSpec => []ScalarsInv
<1>1. ScalarsIInv => ScalarsInv
  BY ScalarsIInvImplies
<1> QED
  BY <1>1, ScalarsIInvHolds, PTL

(* Whatever the counters and the length of the poll, the percentage is     *)
(* within one, and what a division by that length rounds away, of what the *)
(* ticks say (cores.c:147-160).                                            *)
THEOREM PercentIsFair ==
  ScalarsSpec => []PercentFair
<1>1. ScalarsIInv => PercentFair
  BY DEF ScalarsIInv
<1> QED
  BY <1>1, ScalarsIInvHolds, PTL
=============================================================================
