------------------------------ MODULE Archive ------------------------------
(***************************************************************************)
(* Rotation of the daemon's log and the readers of what it leaves.  When   *)
(* the slot of the day changes (an hour), enigmatic_log_rotate copies the  *)
(* log to a file named by the slot, truncates the log and leaves the copy  *)
(* to a background thread, which writes the two files of an archive and    *)
(* removes the copy.  A client replays logs and archives meanwhile.  Names *)
(* are used again every day, and nothing that is written is renamed into   *)
(* place.  A log is the set of the clock ticks at which a record was       *)
(* written to it.                                                          *)
(***************************************************************************)
EXTENDS Integers, Sequences

CONSTANTS
  Slots,      \* slots of the log in a day (24)
  PerSlot,    \* clock ticks in a slot
  MaxTime,    \* bound: ticks
  MaxFaults,  \* bound: crashes, SIGTERMs, and operations that fail
  MaxReads    \* bound: replays

ASSUME BoundsAssumption ==
  /\ {Slots, PerSlot} \subseteq Nat \ {0}
  /\ {MaxTime, MaxFaults, MaxReads} \subseteq Nat

VARIABLES
  now,
  keep,       \* config: log.save_history
  live,       \* content of enigmatic.log, a frame being written included
  cut,        \* the last daemon may have left a part of a frame at its end
  logSlot,    \* enigmatic->log.hour
  file,       \* enigmatic->log.file: "open", or "freed"
  monitor,    \* where the monitor thread is
  main,       \* where the main thread is
  copy,       \* copy[s]: the file named s
  size,       \* size[s]: the file s.lz4.size
  lz4,        \* lz4[s]: the file s.lz4
  mtime,      \* mtime[s]: the day s.lz4 was written
  threads,    \* the background threads, a set of [slot, at, src]
  rd,         \* the reader
  faults,     \* faults so far
  reads,      \* replays so far
  misuse,     \* history: a freed Log was written or freed
  late,       \* history: the main thread gave up waiting for the monitor
  refused,    \* history: slots of which an unchecked write of the archive failed
  failed,     \* history: the log could not be opened
  told        \* what each file read so far has given of the range

daemonVars == <<live, cut, logSlot, file, monitor, main>>
fileVars == <<copy, size, lz4, mtime>>
readVars == <<rd, reads, told>>
historyVars == <<misuse, late, failed, refused>>
vars == <<now, keep, daemonVars, fileVars, threads, readVars, faults, historyVars>>

-----------------------------------------------------------------------------
Slot == 0 .. Slots - 1
SlotOf(t) == (t \div PerSlot) % Slots
Day(t) == t \div (Slots * PerSlot)
Records == 0 .. MaxTime

(* A file: absent; whole, with the records it stands for; torn, with the   *)
(* records of the whole of which it is a first part; or broken, an archive *)
(* that is all there of a copy that was torn.                              *)
Absent == [state |-> "absent", data |-> {}]
Whole(d) == [state |-> "whole", data |-> d]
Torn(f) == [f EXCEPT !.state = "torn"]
Broken(f) == [f EXCEPT !.state = "broken"]
Files ==
  [state : {"absent", "torn", "whole", "broken"}, data : SUBSET Records]

NoSlot == -1    \* log.hour of a daemon that has not opened a log yet

Log == [kind |-> "log", slot |-> 0]
Copied(s) == [kind |-> "copy", slot |-> s]
Archived(s) == [kind |-> "lz4", slot |-> s]
Paths == {Log} \cup {Copied(s) : s \in Slot} \cup {Archived(s) : s \in Slot}

Threads ==
  [slot : Slot, at : {"begin", "size", "sized", "lz4", "done"}, src : Files]
NewThread(s) == [slot |-> s, at |-> "begin", src |-> Absent]

(* A reader has the files of its list still to read, each with its place   *)
(* in the list, and of the file it reads what it has found so far.         *)
Listed == [hour : Nat, path : Paths]
Readers ==
  [at : {"idle", "next", "opened", "sized", "dead"}, from : Records, to : Records,
   todo : SUBSET Listed, lz4 : Files, size : Files]
Idle == [at |-> "idle", from |-> 0, to |-> 0, todo |-> {}, lz4 |-> Absent,
         size |-> Absent]

TypeOK ==
  /\ now \in Records /\ keep \in BOOLEAN
  /\ live \subseteq Records /\ logSlot \in Slot \cup {NoSlot}
  /\ file \in {"open", "freed"}
  /\ monitor \in {"poll", "copy", "copying", "join", "open", "ended"}
  /\ main \in {"loop", "wait", "closed", "gone"}
  /\ mtime \in [Slot -> 0 .. Day(MaxTime)]
  /\ {copy, size, lz4} \subseteq [Slot -> Files]
  /\ threads \subseteq Threads /\ rd \in Readers
  /\ faults \in 0 .. MaxFaults /\ reads \in 0 .. MaxReads
  /\ {misuse, late, failed, cut} \subseteq BOOLEAN
  /\ refused \subseteq Slot
  /\ told \in Seq(SUBSET Records)

Init ==
  /\ now = 0 /\ keep \in BOOLEAN
  /\ live = {} /\ cut = FALSE /\ logSlot = 0 /\ file = "open" /\ monitor = "poll" /\ main = "loop"
  /\ copy = [s \in Slot |-> Absent] /\ size = copy /\ lz4 = copy
  /\ mtime = [s \in Slot |-> 0]
  /\ threads = {}
  /\ rd = Idle /\ told = <<>>
  /\ faults = 0 /\ reads = 0
  /\ misuse = FALSE /\ late = FALSE /\ failed = FALSE /\ refused = {}

(* The clock, and the sleep of the machine: any number of slots may pass,  *)
(* but not a whole day inside one rotation.                                *)
Tick ==
  /\ now < MaxTime
  /\ monitor \in {"poll", "ended"} \/ logSlot # SlotOf(now + 1)
  /\ now' = now + 1
  /\ UNCHANGED <<keep, daemonVars, fileVars, threads, readVars, faults, historyVars>>

-----------------------------------------------------------------------------
(* Every fault counts against the bound; an operation that works does not. *)
Works == UNCHANGED faults
Fails == faults < MaxFaults /\ faults' = faults + 1

(* The monitor thread *)

(* What a daemon does that has used freed memory is not described; it can  *)
(* still be ended.                                                         *)
Monitor(from, to) == ~misuse /\ monitor = from /\ monitor' = to

monitorRest ==
  <<now, keep, cut, main, fileVars, threads, readVars, faults, late, failed, refused>>

(* enigmatic_system_monitor: between two rotations a record goes to the    *)
(* log.  A Log that was freed is used all the same.                        *)
Poll ==
  /\ Monitor("poll", "poll")
  /\ logSlot \in {NoSlot, SlotOf(now)}
  /\ live' = IF file = "open" THEN live \cup {now} ELSE live
  /\ misuse' = (misuse \/ file = "freed")
  /\ live' # live \/ misuse' # misuse
  /\ UNCHANGED <<monitorRest, logSlot, file>>

(* enigmatic_log_rotate: nothing as long as the hour of the day is the one *)
(* the log was opened in; otherwise the log is ended, closed and freed.    *)
RotateBegin ==
  /\ Monitor("poll", IF keep THEN "copy" ELSE "open")
  /\ logSlot \notin {NoSlot, SlotOf(now)}
  /\ misuse' = (misuse \/ file = "freed")
  /\ file' = "freed"
  /\ UNCHANGED <<monitorRest, live, logSlot>>

(* ecore_file_cp truncates the copy of the slot's last day ...             *)
CopyBegin ==
  /\ Monitor("copy", "copying")
  /\ copy' = [copy EXCEPT ![logSlot] = Torn(Whole(live))]
  /\ UNCHANGED <<now, keep, live, cut, logSlot, file, main, size, lz4, mtime, threads, readVars,
                 faults, historyVars>>

(* (if it can be opened at all)                                            *)
CopyFails ==
  /\ Monitor("copy", "join") /\ Fails
  /\ UNCHANGED <<now, keep, live, cut, logSlot, file, main, fileVars, threads, readVars, historyVars>>

(* ... and fills it, or fails on the way, which nobody looks at.           *)
CopyEnd ==
  /\ Monitor("copying", "join")
  /\ \/ Works /\ copy' = [copy EXCEPT ![logSlot] = Whole(live)]
     \/ Fails /\ copy' = copy
  /\ UNCHANGED <<now, keep, live, cut, logSlot, file, main, size, lz4, mtime, threads, readVars, historyVars>>

(* Mutant of Join: a thread that has ended is not taken off.               *)
JoinKeeping ==
  /\ Monitor("join", "open")
  /\ threads = {}
  /\ UNCHANGED <<now, keep, live, cut, logSlot, file, main, fileVars, threads, readVars,
                 faults, historyVars>>

(* eina_thread_join of the thread of the rotation before.                  *)
Join ==
  /\ Monitor("join", "open")
  /\ \A t \in threads : t.at = "done"
  /\ threads' = {}
  /\ UNCHANGED <<now, keep, live, cut, logSlot, file, main, fileVars, readVars, faults,
                 historyVars>>

(* enigmatic_log_open truncates the log; when it fails, log.file is left   *)
(* pointing at what was freed, and log.hour is left as it was.  Then the   *)
(* copy is given to a background thread.                                   *)
Open ==
  /\ Monitor("open", "poll")
  /\ \/ Works /\ live' = {} /\ logSlot' = SlotOf(now) /\ file' = "open" /\ UNCHANGED failed
     \/ Fails /\ failed' = TRUE /\ UNCHANGED <<live, logSlot, file>>
  /\ threads' = IF keep THEN threads \cup {NewThread(logSlot)} ELSE threads
  /\ UNCHANGED <<now, keep, cut, main, fileVars, readVars, misuse, late, refused>>

(* ecore_thread_check: a monitor that was cancelled leaves after its poll. *)
MonitorEnds ==
  /\ main = "wait"
  /\ Monitor("poll", "ended")
  /\ UNCHANGED <<now, keep, live, cut, logSlot, file, main, fileVars, threads, readVars,
                 faults, historyVars>>

-----------------------------------------------------------------------------
(* The background thread: enigmatic_log_compress, then unlink *)

(* At any time in its loop the monitor may be writing a frame, and the     *)
(* main thread the last one in enigmatic_log_close.                        *)
Writing == monitor = "poll" \/ main = "closed"

(* The process ends with all its threads, in whatever it is writing, and   *)
(* what it knew is gone.                                                   *)
Gone ==
  /\ main' = "gone" /\ monitor' = "ended" /\ threads' = {}
  /\ misuse' = FALSE /\ late' = FALSE /\ file' = "freed" /\ logSlot' = NoSlot
  /\ cut' = (cut \/ Writing)
goneRest == <<now, keep, live, fileVars, readVars, failed, refused>>

At(t, from, to) ==
  t.at = from /\ threads' = (threads \ {t}) \cup {[t EXCEPT !.at = to]}

(* Nothing is done without the copy, or if s.lz4.size cannot be opened ... *)
NoArchive(t) ==
  /\ At(t, "begin", "done")
  /\ (copy[t.slot].state = "absent" /\ Works) \/ Fails
  /\ UNCHANGED <<now, keep, daemonVars, fileVars, readVars, historyVars>>

(* ... and a copy of which not a byte could be written cannot be mapped,   *)
(* for which ERROR ends the daemon.                                        *)
EmptyCopy(t) ==
  /\ t.at = "begin" /\ copy[t.slot].state = "torn"
  /\ Gone
  /\ UNCHANGED <<goneRest, faults>>

(* s.lz4.size is truncated: the archive of the day before loses its sizes. *)
SizeBegin(t) ==
  /\ t.at = "begin" /\ copy[t.slot].state # "absent"
  /\ LET c == copy[t.slot]
         src == IF c.state = "torn" THEN Broken(c) ELSE c
     IN /\ threads' = (threads \ {t}) \cup {[t EXCEPT !.at = "size", !.src = src]}
        /\ size' = [size EXCEPT ![t.slot] = Torn(src)]
  /\ refused' = refused \ {t.slot}
  /\ UNCHANGED <<now, keep, daemonVars, copy, lz4, mtime, readVars, faults, misuse, late,
                 failed>>

(* Every block is compressed in memory and its two lengths are written;    *)
(* whether fprintf and fclose could write them is not looked at.           *)
SizeEnd(t) ==
  /\ At(t, "size", "sized")
  /\ \/ Works /\ size' = [size EXCEPT ![t.slot] = t.src] /\ UNCHANGED refused
     \/ Fails /\ refused' = refused \cup {t.slot} /\ UNCHANGED size
  /\ UNCHANGED <<now, keep, daemonVars, copy, lz4, mtime, readVars, misuse, late, failed>>

(* s.lz4 is truncated: that ends the archive of the day before.            *)
Lz4Begin(t) ==
  /\ At(t, "sized", "lz4")
  /\ lz4' = [lz4 EXCEPT ![t.slot] = Torn(t.src)]
  /\ mtime' = [mtime EXCEPT ![t.slot] = Day(now)]
  /\ UNCHANGED <<now, keep, daemonVars, copy, size, readVars, faults, historyVars>>

(* (if it can be opened at all; the sizes are those of the new one)        *)
NoLz4(t) ==
  /\ At(t, "sized", "done") /\ Fails
  /\ UNCHANGED <<now, keep, daemonVars, fileVars, readVars, historyVars>>

WriteLz4(t) ==
  /\ lz4' = [lz4 EXCEPT ![t.slot] = t.src]
  /\ mtime' = [mtime EXCEPT ![t.slot] = Day(now)]
RemoveCopy(t) == copy' = [copy EXCEPT ![t.slot] = Absent]

(* Mutant of Lz4End: the copy goes though the archive is not all there.    *)
Lz4EndAlways(t) ==
  /\ At(t, "lz4", "done")
  /\ \/ Works /\ WriteLz4(t)
     \/ Fails /\ UNCHANGED <<lz4, mtime>>
  /\ RemoveCopy(t)
  /\ UNCHANGED <<now, keep, daemonVars, size, readVars, historyVars>>

(* The blocks are written with one fwrite; only if it took them all is the *)
(* copy removed, though fclose, which nobody looks at, may still fail to   *)
(* write the last of them.                                                 *)
Lz4End(t) ==
  /\ At(t, "lz4", "done")
  /\ \/ Works /\ WriteLz4(t) /\ RemoveCopy(t) /\ UNCHANGED refused
     \/ Fails /\ UNCHANGED <<lz4, mtime, copy, refused>>
     \/ /\ Fails /\ RemoveCopy(t) /\ refused' = refused \cup {t.slot}
        /\ UNCHANGED <<lz4, mtime>>
  /\ UNCHANGED <<now, keep, daemonVars, size, readVars, misuse, late, failed>>

Compress ==
  \E t \in threads :
    \/ NoArchive(t) \/ EmptyCopy(t) \/ SizeBegin(t) \/ SizeEnd(t)
    \/ Lz4Begin(t) \/ NoLz4(t) \/ Lz4End(t)

-----------------------------------------------------------------------------
(* The end of the daemon and its next start *)

daemonRest == <<now, keep, fileVars, readVars>>

(* SIGTERM: cb_shutdown cancels the monitor and waits for it ...           *)
Terminate ==
  /\ main = "loop" /\ Fails
  /\ main' = "wait"
  /\ UNCHANGED <<daemonRest, live, cut, logSlot, file, monitor, threads, historyVars>>

(* ... for half a second; then enigmatic_shutdown writes a last frame to   *)
(* the log, closes and frees it, whoever else is about to use it.          *)
Close ==
  /\ main = "wait"
  /\ main' = "closed"
  /\ late' = (late \/ monitor # "ended")
  /\ misuse' = (misuse \/ file = "freed")
  /\ file' = "freed"
  /\ UNCHANGED <<daemonRest, live, cut, logSlot, monitor, threads, faults, failed, refused>>

Exit ==
  /\ main = "closed" /\ Gone
  /\ UNCHANGED <<goneRest, faults>>

Crash ==
  /\ main # "gone" /\ Fails /\ Gone
  /\ UNCHANGED goneRest

(* enigmatic_init: the log of the last daemon is truncated; whether it can *)
(* be opened is not looked at.                                             *)
Start ==
  /\ main = "gone"
  /\ main' = "loop" /\ monitor' = "poll"
  /\ \/ /\ Works /\ live' = {} /\ cut' = FALSE /\ logSlot' = SlotOf(now)
        /\ file' = "open" /\ UNCHANGED failed
     \/ Fails /\ UNCHANGED <<live, cut>> /\ logSlot' = NoSlot /\ file' = "freed" /\ failed' = TRUE
  /\ misuse' = FALSE /\ late' = FALSE
  /\ UNCHANGED <<daemonRest, threads, refused>>

-----------------------------------------------------------------------------
(* A client: enigmatic_client_replay, or evisum on one file *)

readRest == <<now, keep, daemonVars, fileVars, threads, faults, historyVars>>

Recent(day) == day \in {Day(now), Day(now) - 1}

(* The log is listed for the hour of the end, if that is the hour it is    *)
(* now, and never for the hour of the start.                               *)
FileOfHour(from, to, i) ==
  LET s == SlotOf(from + PerSlot * i)
  IN IF i # 0 /\ s = SlotOf(to) /\ s = SlotOf(now) THEN Log ELSE Archived(s)

Listable(p) ==
  CASE p.kind = "log" -> live = {} \/ \E t \in live : Recent(Day(t))
    [] p.kind = "lz4" -> lz4[p.slot].state # "absent" /\ Recent(mtime[p.slot])

(* enigmatic_client_replay_hours: a file for every hour of the range, if   *)
(* it exists and was written today or yesterday.                           *)
ReplayFiles(from, to) ==
  {f \in {[hour |-> i, path |-> FileOfHour(from, to, i)] :
             i \in 0 .. (to - from) \div PerSlot} : Listable(f.path)}

Replay(from, to) ==
  /\ rd.at = "idle" /\ reads < MaxReads
  /\ from < to /\ to <= now /\ (to - from) \div PerSlot <= Slots
  /\ rd' = [Idle EXCEPT !.at = "next", !.from = from, !.to = to,
                        !.todo = ReplayFiles(from, to)]
  /\ reads' = reads + 1 /\ told' = <<>>
  /\ UNCHANGED readRest

Exists(p) ==
  CASE p.kind = "log" -> TRUE
    [] p.kind = "copy" -> copy[p.slot].state # "absent"
    [] p.kind = "lz4" -> lz4[p.slot].state # "absent"

(* evisum lists the directory and opens one file, from its start to now.   *)
Browse(p) ==
  /\ rd.at = "idle" /\ reads < MaxReads
  /\ Exists(p)
  /\ rd' = [Idle EXCEPT !.at = "next", !.to = now,
                        !.todo = {[hour |-> 0, path |-> p]}]
  /\ reads' = reads + 1 /\ told' = <<>>
  /\ UNCHANGED readRest

NextFile == CHOOSE f \in rd.todo : \A g \in rd.todo : f.hour <= g.hour
Reading(kind, s) ==
  rd.todo # {} /\ NextFile.path.kind = kind /\ NextFile.path.slot = s

Done ==
  rd' = [rd EXCEPT !.at = "next", !.todo = @ \ {NextFile}, !.lz4 = Absent,
                   !.size = Absent]

(* Mutant of Tell: records are reported without a look at their time.      *)
TellAll(d) == told' = Append(told, d) /\ Done

(* The client decodes records, in the order they were written, until one   *)
(* is past the end, and reports those that are not before the start.       *)
Tell(d) == told' = Append(told, {t \in d : rd.from <= t /\ t <= rd.to}) /\ Done

Skip == Done /\ UNCHANGED told

(* ERROR, or SIGBUS: the program that reads ends.                          *)
Die == rd' = [Idle EXCEPT !.at = "dead"] /\ told' = <<>>

(* Of what is cut short a client gets the first records, if the cut is     *)
(* between two frames.                                                     *)
TellPart(d) == \E k \in Records : Tell({t \in d : t < k})

(* enigmatic_client_read: a frame that is not whole is an ERROR.  (fstat   *)
(* and read are one step here; the module Follower takes them apart.)      *)
ReadLog ==
  /\ rd.at = "next" /\ Reading("log", 0)
  /\ Tell(live) \/ ((Writing \/ cut) /\ Die)
  /\ UNCHANGED <<readRest, reads>>

(* A copy is read in one pass; in one that is torn the last frame is       *)
(* likely cut.                                                             *)
ReadCopy(s) ==
  /\ rd.at = "next" /\ Reading("copy", s)
  /\ CASE copy[s].state = "whole" -> Tell(copy[s].data)
       [] copy[s].state = "absent" -> Skip
       [] OTHER -> TellPart(copy[s].data) \/ Die
  /\ UNCHANGED <<readRest, reads>>

(* enigmatic_log_decompress: the archive is opened and mapped, ...         *)
OpenLz4(s) ==
  /\ rd.at = "next" /\ Reading("lz4", s)
  /\ IF lz4[s].state = "absent" THEN Skip
     ELSE rd' = [rd EXCEPT !.at = "opened", !.lz4 = lz4[s]] /\ UNCHANGED told
  /\ UNCHANGED <<readRest, reads>>

(* ... then the lengths of its blocks are read, ...                        *)
ReadSize(s) ==
  /\ rd.at = "opened" /\ Reading("lz4", s)
  /\ rd' = [rd EXCEPT !.at = "sized", !.size = size[s]]
  /\ UNCHANGED <<readRest, reads, told>>

Complete(f) == f.state \in {"whole", "broken"}

(* The lengths fit the blocks: all of them, or as many as were written.    *)
AllFit(s) == Complete(rd.size) /\ lz4[s] = rd.size
SomeFit(s) ==
  /\ rd.size.state = "torn" /\ lz4[s].state # "absent"
  /\ rd.size.data = lz4[s].data

(* Mutant of DecodeLz4: the lengths are believed, not checked against the  *)
(* length of the archive.                                                  *)
DecodeUnchecked(s) ==
  /\ rd.at = "sized" /\ Reading("lz4", s)
  /\ IF AllFit(s) /\ lz4[s].state = "whole" THEN Tell(lz4[s].data)
     ELSE Skip \/ (Complete(rd.size) /\ Die)
  /\ UNCHANGED <<readRest, reads>>

(* ... and every block is decoded from the mapping, which shows the file   *)
(* as it is by now.  Lengths past the end the file had when it was opened, *)
(* and blocks that do not decode to their length, are an archive that      *)
(* holds nothing.  A file that has been truncated since is not there to    *)
(* read; one that was written again decodes if the lengths are its own;    *)
(* what the first lengths give ends where a block does, and likely not     *)
(* where a frame does.                                                     *)
DecodeLz4(s) ==
  /\ rd.at = "sized" /\ Reading("lz4", s)
  /\ \/ AllFit(s) /\ Complete(rd.lz4) /\ lz4[s].state = "whole" /\ Tell(lz4[s].data)
     \/ /\ SomeFit(s) \/ (AllFit(s) /\ Complete(rd.lz4) /\ lz4[s].state = "broken")
        /\ TellPart(lz4[s].data) \/ Die
     \/ lz4[s] # rd.lz4 /\ rd.size.state # "absent" /\ Die
     \/ ~(AllFit(s) /\ lz4[s] = rd.lz4) /\ Skip
  /\ UNCHANGED <<readRest, reads>>

(* The replay is over, or the program is started again.                    *)
ReadEnds ==
  /\ rd.at = "dead" \/ (rd.at = "next" /\ rd.todo = {})
  /\ rd' = Idle /\ told' = <<>>
  /\ UNCHANGED <<readRest, reads>>

Read ==
  \/ ReadLog \/ ReadEnds
  \/ \E s \in Slot : ReadCopy(s) \/ OpenLz4(s) \/ ReadSize(s) \/ DecodeLz4(s)

-----------------------------------------------------------------------------
MonitorStep ==
  \/ RotateBegin \/ CopyBegin \/ CopyFails \/ CopyEnd \/ Join \/ Open

Next ==
  \/ Tick \/ Poll \/ MonitorStep \/ MonitorEnds \/ Compress
  \/ Terminate \/ Close \/ Exit \/ Crash \/ Start
  \/ \E from, to \in Records : Replay(from, to)
  \/ \E p \in Paths : Browse(p)
  \/ Read

Spec == Init /\ [][Next]_vars

(* The threads of the daemon that can go on do, one of them at a time.     *)
FairSpec == Spec /\ WF_vars(MonitorStep \/ Compress)

-----------------------------------------------------------------------------
(* Properties *)

(* Two background threads never work at the same time, so that none finds  *)
(* the files of its slot rewritten by another: log_background_compress is  *)
(* started only after eina_thread_join.                                    *)
OneCompressor ==
  \A t, u \in threads : t.at # "done" /\ u.at # "done" => t = u

(* A replay reports records of its range only, in the order of their time  *)
(* and each once, though an hour's archive may be yesterday's, the log may *)
(* be rotated between the listing and the reading, and archives are        *)
(* rewritten under the reader.  (Not a replay that ends in the hour of the *)
(* day it began in, the day after: it takes that hour's records of both    *)
(* days first; nor one of a log that could not be opened again after it    *)
(* was saved, which is still there to be read.)                            *)
ReplayInOrder ==
  \/ rd.at = "idle" \/ failed
  \/ rd.to \div PerSlot - rd.from \div PerSlot >= Slots
  \/ /\ \A i \in DOMAIN told : \A r \in told[i] : rd.from <= r /\ r <= rd.to
     /\ \A i, j \in DOMAIN told : i < j => \A r \in told[i], t \in told[j] : r < t

(* The log is written or freed after it was freed only by a daemon that    *)
(* could not open it, or whose monitor outlived the wait of cb_shutdown.   *)
MisuseExplained == misuse => late \/ failed

(* What holds of threads, files and what is replayed at every step.        *)
ArchiveInv == TypeOK /\ OneCompressor /\ ReplayInOrder /\ MisuseExplained

(* A reader is ended by a file only if it is the log, while a frame is     *)
(* written to it or after a daemon that died writing one; a copy that is   *)
(* not all there, or an archive of one; an archive whose sizes were not    *)
(* all written; or while the background thread is at work on the very      *)
(* archive.  An archive cut short by a crash is taken for empty.           *)
DeathExplained ==
  [][rd.at # "dead" /\ rd'.at = "dead" =>
       LET s == NextFile.path.slot
       IN \/ NextFile.path.kind = "log" /\ (Writing \/ cut)
          \/ NextFile.path.kind = "copy" /\ copy[s].state = "torn"
          \/ /\ NextFile.path.kind = "lz4"
             /\ lz4[s].state = "broken" \/ lz4[s] # rd.lz4 \/ SomeFit(s)]_vars

(* A rotation, once begun, ends, though it waits for the thread of the     *)
(* rotation before, unless the daemon ends.                                *)
RotationEnds ==
  []<>(monitor \in {"poll", "ended"} \/ misuse)

(* What can be got back of the log of a slot: its copy, or its archive.    *)
Saved(s) ==
  CASE copy[s].state = "whole" -> copy[s].data
    [] copy[s].state = "absent" /\ lz4[s].state = "whole"
         /\ lz4[s] = size[s] -> lz4[s].data
    [] OTHER -> {}

Store == INSTANCE LogStore WITH
  Record <- Records, slot <- logSlot, saved <- [s \in Slot |-> Saved(s)]

(* Copying, compressing, removing the copy and crashing between any two of *)
(* these leave what is saved as it was: only the rotation of a log of the  *)
(* same hour of another day replaces it, and only a disk that refused a    *)
(* write of its archive which enigmatic_log_compress does not check loses  *)
(* it (enigmatic_log.c:351-364; the copy is unlinked all the same).        *)
KeepsSaved == Store!Spec
=============================================================================
