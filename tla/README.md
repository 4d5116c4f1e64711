# Verification of enigmatic and evisum

evisum is a system monitor. Its data comes from a daemon, **enigmatic**, that
polls the operating system and appends compressed records to a log file; a
client library, **enigmatic_client**, follows that file and rebuilds from it
what the daemon knows; **evisum** runs the client and shows its snapshot in
windows, each with a thread of its own. This directory holds TLA+ modules that
model these parts, TLC configurations that check them on small instances, and
TLAPS proofs of what matters most for instances of every size.

Sources are named relative to the repository: `E/` stands for
`src/bin/enigmatic/`, `B/` for `src/bin/`.

## 1. Inventory

| Component | State | Operations | Correct when | Module |
|---|---|---|---|---|
| Poll loop (`E/enigmatic_main.c`) | `broadcast`, `interval`, counters of polls | one poll every `interval`: rotate, header, monitors, block end, crush; shutdown on a signal | a poll reports every change of the system exactly once; a new file is self-contained | LogStream, Archive |
| Unique ids (`E/uid.c`) | list of slots (id, available) | `unique_id_find`, `unique_id_release` | an id is in use exactly while its object is cached; release never exits | UniqueIds |
| Object monitors (`E/monitor/cores.c`, `sensors.c`, `batteries.c`, `network_interfaces.c`, `file_systems.c`) | one cache (hash or list) per kind; two lists shared with helper threads | fill, refresh, purge, add, modify | log messages turn the reader's list into the cache | LogStream |
| Scalar monitors (`E/monitor/memory.c`, `power.c`, the percentage of `cores.c`) | one record each | refresh, difference | the client's number is the daemon's, up to what a page rounds away | Scalars |
| Process monitor (`E/monitor/processes.c`, `E/system/process.c`) | cache by pid, totals of sockets | refresh, add, modify, delete | the client's list is the cache; nothing is counted twice | Processes |
| Log file (`E/enigmatic_log.c`) | open file, buffer, hour of opening, compression thread | open, write, crush, rotate, close, compress, decompress, lock, unlock | frames are whole and in order; what was saved stays readable | LogStream, Follower, Archive, Scalars |
| Start and stop (`E/enigmatic_start.c`, `_util.c`, `_query.c`, `_server.c`) | lock file, pidfile, socket | launch, ping, wait, terminate | one daemon; a start leaves one that serves | Lifecycle |
| Client, following (`E/client/enigmatic_client.c`) | `fd`, `offset`, `file_size`, `truncated`, `zbuf` | file events, read, reset | decodes every frame once, in order, and goes on following unless a named cause ends it | Follower, Tail |
| Client, snapshot (same file) | `Snapshot`: one list per kind | message handlers, event callbacks | equals the daemon's caches at that record | Snapshots, Scalars, Processes |
| Client, replay (same file) | times, decoded file | replay of hours, start and end | records of the range, each once, in order | Archive, History |
| Engine (`B/engine/evisum_engine.c`) | client, `snapshot_seq`, lock and condition, history, lists of logs | start, update wait, copies of the snapshot, `history_time_set`, `history_live_set` | an update is seen by whoever waits; what is shown exists and is of the time asked for | UpdateSignal, History |
| Background (`B/background/evisum_background.c`) | poller thread, `seq`, lock and condition | poll, update wait, shutdown | passes every update on; ends safely | UpdateSignal |
| Windows (`B/ui/evisum_ui.c`, `B/main.c`) | a view and a thread per window | open, update, close; restart, shutdown | nothing is used after it was freed; a closed window's thread ends | UpdateSignal, Session |
| Process list (`B/ui/evisum_ui_process_list.c`) | worker, slider, search, sort, cache of rates | see the module | shows what was asked for, last of all | ProcessWindow, Processes |
| One process (`B/ui/evisum_ui_process_view.c`) | worker, entry, buttons | update, end of the process, kill, manual page | shows and signals that process only | Processes |
| Graphs (`B/ui/evisum_ui_memory.c`, `_disk.c`, `_network.c`, `_sensors.c`, `_cpu*.c`) | rows, histories of samples, peak | worker's list, feedback, toggle, close | rows and samples belong to the list and time drawn | GraphWindow |
| Columns and rows (`B/ui/evisum_ui_widget_exel.c`, `evisum_ui_cache.c`) | mask, order, widths, header, rows built ahead | menu, drag, resize, click, deferred reset | header, rows and settings agree | Columns |
| Single instance, settings (`B/evisum_server.c`, `B/evisum_config.c`) | local socket, one Eet file | offer an action to a running evisum, or serve; load, save | one evisum per user, no action and no setting lost | Session |
| Daemon configuration (`E/enigmatic_config.c`) | one Eet file | load, save | – | `keep` of Archive |
| Drawing, probes, lz4, gettext, examples | | | – | none (section 6) |

**Interactions.** Daemon and client share only the log file and its
modification events. A start, a stop and a daemon share the lock file, the
pidfile, signals and a socket. In evisum, the client's callbacks run on the main
thread and increment the engine's counter; the poller thread waits for that
counter and increments the background counter; window threads wait for that
one, copy lists out of the engine under its lock (or keep pointers into them), and
send them to the main thread. The main thread cancels, joins for at most half a
second, and frees. In the daemon, the monitor thread shares the sensor, battery
and power lists with three helper threads and only tries their locks; a
rotation hands the copy of the log to one background thread.

**What is hard.** Reads that interleave with a growing, truncated or archived
file; a message protocol whose handlers trust that the sender told everything
before; id and pid reuse; a lock that is missed in just the poll that matters;
crashes that leave files behind; bounded joins; update signals that must not be
lost between two waits; requests that are overtaken by the answer to an earlier
one; settings that live in three places. `PROJECT.json` lists these hazards at their
lines with the properties that cover them.

## 2. Modules

| Module | Models |
|---|---|
| `UniqueIds` | `uid.c`: the pool as a sequence of slots, `Find`, `FindId`, `Release` |
| `Snapshots` | the client's message handlers for keyed objects: `Decode(lists, message)` |
| `LogStream` | poll loop, five monitors, log buffer and file, crash and restart, and a client that decodes what has reached the file (EXTENDS the two above) |
| `Tail` | abstract: a file that grows or starts again, and a reader that has the first items of one file |
| `Follower` | bytes and sizes below `LogStream`: stat, fstat, read and decode against partial writes and truncations |
| `Scalars` | memory, video cards, power, a core's percentage, and the widths of differences |
| `Lifecycle` | flock, pidfile, start and stop of daemons |
| `LogStore` | abstract: a log being written and one saved log per hour |
| `Archive` | rotation, copies, background compression, and replays |
| `UpdateSignal` | the engine's and the background's counters, waiters, windows, shutdown |
| `Background` | an instance of `UpdateSignal` under names of its own, for its run and for a module that also has a window |
| `History` | the engine's switch between live and a time of the past |
| `ProcessWindow` | worker and main thread of the process list |
| `Processes` | processes from the probe to the rates in two windows |
| `GraphWindow` | the five graph windows, one program indexed by `kind` |
| `Columns` | header, menu, drags and rows of the process list |
| `Session` | starts of evisum, their socket, settings and windows |
| `MCLogStream`, `MCScalars` | constants of the TLC instances that a cfg cannot write |
| `LogStreamProofs` (`LogStream`, with the lemmas about `UniqueIds` and `Snapshots`), `ClientProofs` (`Follower`, `Processes`), `DaemonProofs` (`Lifecycle`, `Scalars`), `ArchiveProofs`, `ProcessListProofs` (`History`, `Columns`), `ProcessWindowProofs`, `GraphWindowProofs` (`GraphWindow`, `UpdateSignal`), `SessionProofs` | theorems and their proofs |

Two refinements tie the levels together. `Follower` implements `Tail`
(`FollowsTail`), so that the client which `LogStream` assumes, one that reads records in
order and starts again only at a truncated file, is what `Follower` shows of the bytes
below it. `Archive` implements `LogStore` (`KeepsSaved`). `ProcessWindow` takes for one step what `History` takes apart, and
the windows of `GraphWindow` and `Processes` wait for the updates whose delivery
`UpdateSignal` is about.

**LogStream.** One action per step of `enigmatic_system_monitor`: `RotateClose`,
`RotateOpen`, `PollFull` or `PollShort`, then for each kind `Call` (or
`CallSkipped`, the lock taken by a helper), `Fill`/`FillDone` (an absent cache),
`Refresh`, `Purge`/`PurgeDone`, `Add`, `Mod`, `UpdateDone`, then `BlockEnd` and
`Crush`. `Stop`, `Crash` and `Start` end and restart the daemon. `ClientRead`
decodes one record, `ClientReset` starts again at a truncated file. The five
monitors are one text repeated, so the actions take the kind; where the text
differs the difference is a set: `Contended` (try-lock), `RefreshUpdates` (kinds
whose refresh changes a list that is not empty), `FloatFields` (fields that go
through `FLOAT_VALID`). Probes may find any objects with any values. `hist` and
`told` are history: `hist` pairs, for each position of the log, what a reader knows
there with the daemon's caches; `told` is the set of kinds refreshed into an
empty list of this file.

**Follower.** The file is a sequence of cells, the smallest pieces a reader can
tell apart; a frame has one or more. `Crush` and `CrushMore` write a frame at once
or piece by piece (`Torn`), `OpenLog` truncates. The client's `Stat`, `Fstat`,
`Read`, `ReadEof`, `Decode` are the steps between which the daemon may act. At offset 0
of a large file `Fstat` may go to any place of `BroadcastOffsets`, the last broadcast's
header as `broadcast_offset_find` looks for it; which bytes a frame holds is left open. `event`
is the pending inotify event; `missed` records that the client went on in a file
it took for another. LZ4 is external: what it finds in bytes that are no frame, or
that were spliced from two, is an error or garbage.

**Scalars.** `PollMemory`, `PollVideo`, `PollPower` (or `PollPowerLocked`) and
`PollCore` append what one poll of that monitor logs; `Read` is the client's handler
of one message; `Rotate`, `Restart`, `Open` truncate the file, start another daemon,
another client. Bytes are modulo `Wide` (2^64) and told in pages; a difference goes
through `LogDiff` and `ChangeFind`, the codec of four signed widths
(`enigmatic_log_diff`, `change_find`). What a conversion of a quotient that is no
number gives (a core whose ticks did not move) is a choice in `Percents`.

**Lifecycle.** Processes are pids; a free pid may go to a daemon or to an unrelated
process. A daemon opens, locks, records its pid, runs, and removes pidfile and lock
file in the code's order, one system call per step. `enigmatic_start` runs are
`Starter`s, `enigmatic -s` runs are `Stopper`s. Retry loops have `Tries` rounds in
place of 20, 50 and 60.

**Archive.** A file is absent, torn, whole or broken, and holds the clock ticks at
which its records were written. The monitor thread goes through the steps of
`enigmatic_log_rotate` (`RotateBegin`, `CopyBegin`, `CopyEnd` or `CopyFails`, `Join`,
`Open`), the background thread through those of `log_background_compress` (`.size`,
`.lz4`, removal of the copy), with the failures the code looks at (`NoArchive`, `NoLz4`, a short
fwrite) and those it does not (fprintf and fclose, in `SizeEnd` and `Lz4End`; history
variable `refused`). `Terminate`, `Close`, `Exit` are cb_shutdown with its half
second, `Crash` and `Start` come at any point, and one operation may fail. A daemon that ends
may leave a part of a frame in the log (`cut`). `Replay` lists
the files of a range by the hour their names give, `Browse` names one, and the reader
takes them a step at a time, the earliest first (`NextFile`), while they are rewritten.
`told` is the sequence of what it reported, the records of a file together. `mtime`
decides which of two days a name stands for.

**UpdateSignal.** A thread is at `check` (loop head), `test`, `lock`, `asleep`,
`got`, `status`, `read` or `ended`; what happens under one lock is one step. `Timeout`
is the 0.2 s of `eina_condition_timedwait`; `Late` is a join that gives up after half a
second. The main thread publishes snapshots, opens and closes windows, quits, and
shuts down step by step. `broken` records a use of something freed, `orphaned` that the
main thread went on without a thread that was still running.

**History.** A call (`TimeSet`, `LiveSet`) lists the logs (`UseCache` or `ScanLog` and
`ScanDirectory`, file by file, and `Publish`), selects one, replays it into a client of
its own (`ReadLog`), swaps the client under the lock (`Swap`) and deletes the old one
(`Delete`). Readers hold the lock between `Acquire` and `Release`. Meanwhile the daemon
rotates, compresses, removes copies and lets logs expire, and the main thread lists
them as well for the slider's bounds.

**ProcessWindow.** The worker's round is `Top` (what is requested), `Load`
(history_time_set), `Recheck` and `Undo` (is it still what is wanted), `Clear`, `Take`
(the view's choices), `List` (send). Everything the user can do to the
window is an action of the main thread; `LiveClicked`/`LiveDone`, `BarOff`/`BarOffDone`
and `WholeChanged`/`WholeDone` are in two steps, since the engine is called before the
lock is taken. `misused` records what is read after it was freed.

**GraphWindow.** `Poll`, `Got`, `Read` and `End` are the worker; `Feedback`, `Toggle`,
`Close`, `Closed` and `GiveUp` the main thread; `Plug`, `Unplug`, `Replace`, `Traffic`,
`Restart` what happens to devices. `kind` selects the text of the window: what
is sent (a copy, pointers, a static struct), what an empty list does, what becomes of
the rows that are missing.

**Processes.** `Poll` is the monitor: totals of the sockets, then `Dels`, `Adds`,
`Mods`, after a refresh where it broadcasts (told as one record for each process);
`ReadBlocks` applies the blocks that are there to the client's list with the handlers'
own rules; `Look`, `GetList`, `Rates` are the window's worker, `Feedback` its main thread.
`os` is what really happened and is compared with what is counted and shown. `irregular`
collects the causes that the properties allow for (a failed dump, a second block in a
second, a list older than its time).

**Columns.** `mask`, `order` and `widths` are the settings as the window has them,
`saved` as the file has them, `enabled` and `header` what the header was built with,
`items` and `unused` the rows in sight and built ahead, each with the columns it
has. Menu, mouse, list and timers are separate actions on the one main thread.

**Session.** Each process runs `evisum`'s `main` from `Connect` to the end of the loop;
`Program(p)` is what it does of itself, `User(p)` what is done to its windows. `inbox`
is the set of clients whose hello waits: the main loop takes up connections in an order
of its own. `ui`, `config` and `file` are the three places of the settings; `flags` the windows to open
again after a restart; `chosen` is history: what the user last gave each window.

## 3. What the runs check

Bounds are the constants of the cfg and the `Max...` guards of the modules. A name
that ends in `Inv` is the conjunction of the module's type invariant and its state
invariants, each stated and explained where it is defined.

| Run | Instance | Shows |
|---|---|---|
| `stream` | a core, an interface and a sensor, one key, values -1 and 1, 4 records; a million states | ids match caches; snapshots are sound and blocks complete; kinds once told stay complete, sensors missed by the lock included |
| `follower` | frames of 1 or 2 cells, partial writes, 2 truncations, 3 frames, a search from 4 cells on | decoding in order, refinement of `Tail`, and a client that catches up unless a frame it saw half of, or the search for the last broadcast, ends it |
| `scalars` | pages of 2 bytes, values modulo 256, widths of 1 to 8 bits, polls of length 1 and 3, 2 cards, 3 messages | how far memory may drift; power and percentages are told exactly; percentages are fair |
| `lifecycle` | a daemon that may be up, 2 starts, a stop, 3 pids, 3 inodes, a crash, an unrelated process | one daemon unless a lock file was unlinked under another's descriptor; the pidfile names it; a start after the last crash ends with a serving daemon |
| `archive` | a day of 2 hours, 4 ticks, one fault (a write nobody checks is one), one replay | replays in order, causes of a reader's end, refinement of `LogStore`, rotations end |
| `signal` | a window and the poller, 3 snapshots, joins that may give up, a main loop that may leave windows | no update without a snapshot; none lost; cancelled threads end; uses of freed state only after an abandoned join or restart |
| `history` | a reading window, 2 clients, 3 times, 2 changes of the logs | nothing shown or read is freed; the time asked for is shown; calls end |
| `process_window` | 2 times, 3 inputs | the engine follows the view; the last request is shown; the window settles |
| `graph_windows` | 5 kinds, 2 devices, counters from 1 to 2 and back to 0, 2 samples, 2 messages, 3 changes | rates are carried traffic, peaks cover, samples line up; causes of misuse; the window follows |
| `processes` | a pid used twice, 3 seconds, 2 blocks behind, an input | the list is the cache; what is counted was moved; a window keeps to its process; windows follow |
| `columns` | 4 fields in any order of the file, a row, 3 inputs | order stays a permutation; header, rows and settings agree; a field is where it was dropped; a reset ends |
| `session` | 2 processes, 3 starts, 2 inputs, a crash | settings are kept; what makes two instances; an answered start has its window; a restart brings windows back |

Every property has a mutant of the model, a plausible bug in the code, that the
run rejects (comments "Mutant of ..." in the modules).

**Why the bounds are enough.** *stream*: four records hold the broadcast and refresh
of a new file, a deletion, an add that takes the freed id, and a block end or a
change; a rotation or crash starts the count again, so files follow one another without
bound, and with three kinds an id moves from one to another. *follower*: two
frames of two cells are what it takes to be in the middle of one and before another; two
truncations, that one is noticed and one is not; a file of four cells has a frame before
the one that the search finds. *scalars*: the values 0, 1 and 11 make
differences of a part of a page, of some pages, and below zero; the widths are crossed by
both; 1 and 3 give polls that divide and do not. *lifecycle*: three processes are a daemon
that leaves, one that holds the old inode and one that makes the new. *archive*: four ticks
are two days of two hours, so that a name comes up again, and a fault between any
two steps. *signal*: window and poller give a waiter of each counter; three snapshots put an
update between two waits. *history*: two clients are the one shown and the one being
filled. *process_window*: three inputs are a request, a second that overtakes it, and
a return to live or close. *graph_windows*: two devices, that one's coming shifts the other's
place; three changes are go, come back, and traffic. *processes*: a pid's two owners and
a gap between them. *columns*: with four fields a drag can pass over a hidden one and still
have both ends. *session*: two processes and three starts are an instance, a rival and one that
finds either.

**Deadlock** is checked in `stream`, `scalars`, `graph_windows`, `processes` and
`columns`, where somebody can always go on. It is off where the system may really
stop: every process has ended (`lifecycle`, `session`), evisum has shut down
(`signal`), the window is closed (`process_window`), the daemon is gone or the client ended
with an error or waits for an event (`archive`, `follower`), nobody asks for
anything (`history`).

**Fairness.** All of it is weak but for one. `Follower`: the client's main loop runs and a
write that has begun ends; nothing is assumed of what the daemon writes or when.
`Lifecycle`: a daemon or a start that can take a step is scheduled. `Archive`: of the
monitor's rotation and the background thread one that can go on does (the two are under one
condition, since a rotation that waits for the thread cannot); `RotationEnds` says that
the monitor is again and again at its poll, or has ended. `UpdateSignal`: threads run, and
the main thread ends a shutdown or join it has begun; it need not publish, open, close
or quit. `History`: readers let the lock go, and a caller that can take it again and again
gets it (strong fairness: a mutex is fair enough for that). `ProcessWindow`: the
worker runs, the main loop handles messages and timers, a mouse button that is held is let
go. `GraphWindow`, `Processes`: updates keep coming (the daemon polls, the client reads), both
threads run. `Columns`: lists keep coming and timers fire. `Session`: each process is
scheduled; no user has to do anything.

## 4. What the models say about the code

Where a property has an exception ("unless", a history variable), the exception is
something the code does. In short:

*Log and clients.*
- `enigmatic_log_unlock` (`E/enigmatic_log.c:99`) lets the flock go before it unlinks
  the path; a daemon that had the old file open then holds an unlinked lock and the
  next one makes a new file (`lostLock`).
- `enigmatic_start.c` ignores SIGCHLD, so waitpid fails and every ping succeeds: a
  start that meets a daemon on its way out reports success.
- `enigmatic -s` removes whatever the pidfile names once its pid is gone
  (`strayRemoval`).
- A client that fstats while a frame is being written, or that takes a truncated and
  regrown file for the old one, ends with ERROR (`EndedByTornFrame`, `missed`).
- A client that starts on a log of 8 MiB or more (or starts again at one) seeks to the last
  bytes in the file that are an EVENT_BROADCAST header (`E/client/enigmatic_client.c:52-86`,
  1459-1468). The file holds LZ4 frames, so such bytes can only be inside one, where a block is
  stored as it is; LZ4F_getFrameInfo then finds no frame and the client ends with
  ERROR (`EndedBySearch`). If there are none it starts at 0 as ever. No frame is decoded out of
  its place in either case.
- A poll that broadcasts while a helper thread has the sensors' lock leaves the new
  file without them until the next broadcast; the power of a new client likewise.
- `FLOAT_VALID` clamps sums at 0: a field that was below zero drifts in the client.
- Memory differences are rounded down to pages, so the client is below the daemon by less
  than a page per difference; a decrease always takes the widest width; a video card that
  comes is told by the next broadcast only; the delete callback runs for an added
  adapter when only that one is set (`enigmatic_client.c:645-661`); the percentage of a new
  core is 0/0.
- A failed netlink dump sets the totals of processes to 0 and counts them again as one
  second's traffic; a refresh of processes merges and never removes (`enigmatic_client.c:249`).

*Archives and history.*
- The hour alone decides about rotation and names: a daemon that sleeps a day does
  not rotate; a replay of a full day lists the first hour's file twice
  (`enigmatic_client.c:1844`), and one that ends, a day later, in the hour of day it began
  in (from 10:40 to 10:10 of the next day) reports that hour's records of the second day
  first. `ReplayInOrder` excepts both, by the number of hours between start and end.
- A log that cannot be opened leaves a freed `Log` in use (`E/enigmatic_log.c:263`); the
  half second of `cb_shutdown` may free what a poll still uses.
- A copy that is not all there, an archive of one, an archive whose sizes were not all
  written, and one rewritten while it is read, end the reader. So does the live log, if it is
  replayed while a frame is written to it or after a daemon died writing one: the decoder takes
  a frame that is not whole for an ERROR (`E/client/enigmatic_client.c:1536-1544`).
- `enigmatic_log_compress` looks at the result of fwrite only. A disk that refuses what
  fprintf or fclose has still to write (`E/enigmatic_log.c:351-364`) leaves a short
  `.size` or `.lz4`, and the plain copy is unlinked all the same (508): that hour's log is lost
  (`refused`; `Lose` of `LogStore`). An empty copy cannot be mapped, which ends the daemon
  (`EmptyCopy`).
- The engine's list of logs may be ten seconds old: the file chosen may be another by then.

*Windows.*
- Restart and the exit signal leave windows' threads waiting on a condition that is freed;
  a close waits half a second and frees whatever came of it.
- The process list sets the engine live before it takes its own lock
  (`evisum_ui_process_list.c:1144`), so a worker may look in between (`crossed`); a failed load
  resets a newer request (1512); the search text is freed while the worker reads it (2002); a
  search that matches nothing leaves the rows of before.
- The sensors' worker writes the row count the main thread loops to; pointers into the
  engine's lists (sensors, interfaces, cores) outlive its lock; memory sends a static record.
- The window of one process is told of its end only by seeing another process under the
  pid, so its buttons may reach nobody or, before that, another (`evisum_ui_process_view.c:650`).
- Toggling a column saves the mask before the menu is applied; a window closed with the menu
  open saves what it then gives up; a drag that ends outside the header swallows the next click.
- Two starts that find no server both become instances and write over each other's
  settings; a crash while they are saved leaves defaults (`E`'s and `B`'s files are
  written in place).

## 5. What is proved

All theorems hold for every value of the constants under the named
assumptions of the modules (`OrderAssumption`: no kind is polled twice;
`FieldsAssumption`, `ValueAssumption`: fields and integer values;
`ThreadsAssumption`: the poller is no window; `ToolsAssumption`: a run that starts
the daemon is none that stops it; and the like).

*UniqueIds.* `FindTakesFreeId`, `ReleaseFreesId`: the list of slots behaves as a
set of ids. The pool's own invariant is that the id of a slot is its index.

*Snapshots.* `RefreshSound`, `AddSound`, `ModSound`, `DelSound`: one handler
applied to a sound list gives a sound list. "Sound" allows a float field to be above
the daemon's where the clamp struck, and nothing else.

*LogStream.* One inductive invariant in layers, each using those before it:

1. `TypeInv` strengthens `TypeOK` with the typing of each group of variables
   (`TypeCorrect`).
2. `PoolInv`: ids taken are the ids cached (`IdsMatchCaches`), so release finds
   its id (`ReleaseNeverFails`).
3. `SoundInv`: a reader of the whole buffered log shows only what is cached, and
   did so after each record (`HistSound`). Needed because add and delete refer to
   ids, and only the pool layer says that a fresh id is not in a reader's list
   (`NoSecondEntry`).
4. `ClientInv`: the history is the decoding of the log and the client is at one
   of its positions (`SnapshotsAreSound`).
5. `TellInv`: a kind without a contended lock is in `told` or its refresh is
   still to come in this poll (`Pending`); this is what `broadcast` is for
   (`ToldStaysComplete`).
6. `BlockInv`: hence complete at every block end (`BlocksAreComplete`).

*UpdateSignal* (in `GraphWindowProofs`, whose workers wait for that signal; the two speak of
different variables, and `Background` gives the signal names that do not clash with a
window's). `CountInv` adds to `NoSpuriousUpdate` what a sleeping poller waits
for and that a poller with news is ahead of the background counter
(`UpdatesAreReal`). `FreeInv` says in which phase of the shutdown which thread may
still run (`ShutdownIsSafe`). `TypeCorrect` types both.

*Lifecycle.* `LockExcludes`: the lock file keeps daemons apart for any number of
processes, starts, stops and crashes. `LockInv` is the reason: until a lock file is
unlinked while another process has it open (`lostLock`), every open descriptor
is of the file that is at the path, so that flock, which compares inodes, also
compares names. `ToolsInv` bounds the retries of the tools and says that what
`enigmatic -s` signals is a pid it has read.

*Scalars* (in `DaemonProofs`). `ScalarsCorrect`: for any page, any counter width and any
widths of differences of which the widest holds a count of pages, a client that has read the log is behind the daemon's memory, and that of
each card, by less than a page for each difference since the last whole value, and has
power and percentage as they are; `PercentIsFair`: a percentage is off by at most one and by what
the division by the length of the poll rounds away, where the ticks are not fewer than that length and the
idle time did not go back. `Followed` is the reason: there is a
course of values, one for each message of the file, that begins with a whole one, in which
each message takes one value to the next (`Take`), that ends with what the daemon has, and of
which the client has the one at its place. That a difference comes back from the codec as it
went in is arithmetic of quotients and remainders (`DivisionUnique` and the lemmas after it).

*History.* `ShownIsAlive`: for any number of windows, clients and times, nobody reads a
snapshot that was deleted, and what is shown is not later than the time that was asked
for. `OwnerInv` says who owns a client (it is free, or shown, or in the hands of one
caller that fills or deletes it), `ReaderInv` that who reads holds the lock and reads
what is shown: a swap under the lock therefore takes the old client from every reader
before its new owner deletes it. `FilledInv` carries the time of the call to the swap.
`ShowsTheTimeAsked` is the action property: the swap shows the very time that was asked for,
unless a log was replaced or removed after the list of logs was made. `ListsInv` says for each
list, in the hands of the worker, of the thread that finds the bounds, or in the cache, that
what it says of a log is still so while the count of changes is that of the list
(`Current`; a log may have grown), `TimeInv` carries this from the selection through the reading to
the swap.

*Columns* (in `ProcessListProofs`). `ColumnsCorrect`: for any number of fields, whatever the
file says and in whatever order menu, mouse, timers and lists come, the order is one of
all fields (`Whole`), rows fit the header, what is saved is what is shown, and a click is
swallowed for a reason. `ShownInv` is the inductive part: the header is the selection of the
order by the fields switched on, or by those that were on when the menu opened
(`ShownMask`), unless the columns were reset meanwhile; `CacheInv` and `MouseInv` say what
rows there can be and what the mouse holds. `DropsCorrect`: a field that is dropped is shown
in the gap it was dropped in, whichever hidden fields lie between. Selections are a
recursive function, of which the lemmas `VisibleEmpty`, `VisibleAppend` and
`VisibleConcat` say all that is used.

*Follower.* `FollowerCorrect`: unless the client passed over a truncation, it has
decoded the frames of one file from the first on, each once, in order, wherever its stat,
fstat, read and decode fall between the writes of the daemon. A frame is a run of cells
with one end, so its place is found by counting ends (`EndsUpTo`, `FrameOf`). `FileInv`
says that the file is the frames 1, 2, ... cell by cell, the last one perhaps torn;
`PlaceInv` what size, offset and buffer are to each other at each step of the client;
`ReadInv` that the buffer goes on where `seen` ends or does not begin with a frame, `GoesOn`
that the file goes on where the buffer ends, or that the client has just gone to the last
broadcast (`Sought`). `FollowerImplementsTail` maps each step to a step of `Tail` or a
stutter: in `Tail` what a reader has are the first items of the file it is at (`Items`), so a
frame left out, repeated or out of order is no step of it.

*Processes* (in `ClientProofs`). `ProcessesCorrect`: however processes come, go and take each
other's pids, sockets are closed, blocks wait and the history is visited, a client that has
read the log has the monitor's processes, each once; nothing is counted that was not moved
unless a dump failed; no window shows a rate above what can be moved unless one of the
causes in `irregular` came up. The invariant has four layers. `ListsInv`: the list the client will have
after each of the blocks it has not read, the last of them being what the monitor caches; the
lemma under it is that the records of one poll, applied message by message, turn the list of the
old cache into that of the new one, in any order of processes within a kind of record. `StartsInv`: start
times tell processes apart. `MovedInv`: what the monitor would count now was moved.
`SteadyInv`: take everything anybody knows of one process (the client, every unread block, the
history, the worker, the messages it sent, the window's cache); between any two of
these it moved no more than a unit for each second between them. A rate is then a quotient
that cannot exceed one. `WindowKeepsToItsProcess`, from `FreedInv`: the window of one process
shows that process only, and its memory is used after it is freed only by threads nobody waited for.

*Archive.* `ArchiveCorrect`: no two threads compress at the same time, a replay reports
records in the order of their times, and a freed `Log` is used only after the two causes named
in section 4. `PlaceInv` says where the threads of the daemon can be, `ThreadInv` what
the background thread finds in the files of its slot, `SlotInv` that records are in the file of
their hour of the day, `AgeInv` which files are older than the log, `ReadInv` that what a
replay has still to read is later than what it has reported; hours and days are a handful of
lemmas about `\div` and `%`. `DeathsAreExplained` is the action property about readers that
end, of the log, a copy or an archive; `ArchiveImplementsStore` the refinement of `LogStore`,
in which a saved log is lost only to a disk that refused a part of it.

*ProcessWindow.* `WindowCorrect`: however requests and answers overtake each other, when
the view says live and the worker is about to decide, the engine is live, but for
the crossing named in section 4; and freed memory is used only after a close that
did not wait, or by a key of the search. `PastIsOnItsWay` says that, while the view is live or
turns to it, an engine in the past is one whose worker has yet to look again; `GivesUpLive` that
giving up a time leaves it live; `CloseWaited` where a close may have left the worker.

*GraphWindow.* `GraphCorrect`: for any devices, counters and lists on their way, an
interface is never shown to have carried more than it did, however often it goes, comes
back or starts to count again while lists wait; the peak covers what is drawn; samples drawn
above each other are of one time. `MisuseIsExplained`: what is gone is used only for the
causes named in section 4. `PipeInv` is the reason for the first. Each row and each item of
a list has a `mark`, a history variable: what the device had carried when its counter was
read. What is shown, the lists in the queue in their order, what the worker holds and the
counter itself are then a `Line` of readings, in which the counter grows from one to a later
one by no more than the marks do; pointers that still follow the counter stay in it as well,
since one whose device has gone keeps the reading it had. The samples of a row add up to no
more than its mark. `SendInv` counts what is on its way: at most one list unless the main
thread was behind, and none when the view is freed, unless the close gave up. Sums are a
recursive function, so their lemmas (`SumsExist`, `SumsUnique`, `SumFacts`) come from a least
counterexample (`LeastNat`), not from an induction theorem.

*Session.* `SessionCorrect`: an open window has the settings the user last chose for it
in whatever instance that was, unless two instances overlapped or one was killed.
`SettingsInv` says where the settings are safe at each place of the program: in the `ui`
of the one instance, in its `config()` for windows that are closed, in the file
between instances. It needs `SoleInv` (while nothing was shared there is at most one
instance, which has the socket from the time it listens until it has saved).
`SecondOverlaps` and `AnswersAreTrue` are the action properties; the latter needs
`ClientsInv` (a client waits in one place, and one that is being answered has its window).

**Only model-checked.** Every liveness property (`CatchesUp`, `StartsAfterCrash`,
`ThreadsProgress`, `RotationEnds`, `AskedIsShown`, `Settles`, `CallsEnd`, `Restored`,
`Follows`): fairness and ENABLED are out of the prover's reach. Every invariant and every
action property of the runs, and the two refinements, are proved. What a recursive
definition computes for every input is out of reach as well where it needs induction: `Decode` of
a whole log enters the proofs one record at a time, and where a fact about a recursive function is
needed (sums, selections, the messages of a poll) it comes from a least counterexample
(`LeastNat`).

## 6. What is not modelled

- Drawing: what the windows do through EFL with a row once they have it, colours,
  icons, smoothing of curves, and the plain getters of settings. EFL's main loop,
  timers, pipes and threads are modelled by what the code relies on.
- The platform probes (`E/system/`): they are input, and may find anything, with the
  exception of the socket totals of `process.c`, which keep state (`Processes`).
- lz4 and gettext are third party. lz4 is the external decoder of `Follower` and
  `Archive`; `examples/` and the tests only call the client.
- Floating point: differences and sums of float fields are exact in `Snapshots` and
  `LogStream`, where the code rounds them.
- `history_time_set` and `history_live_set` also publish a snapshot, from the worker that
  called them (`evisum_engine.c:772-773`, 793-794). In `UpdateSignal` only the client's callback on
  the main thread does; to who waits the other is one snapshot more.
- A saved window position with a coordinate of 0 or less, which every `*_win_add` replaces by the
  centre of the screen (`evisum_ui_process_list.c:2454-2455`, `_network.c:584-585`,
  `_process_view.c:1277-1278`): in `Session` a saved geometry is restored as it is.
- In `Processes` one counter stands for a process's sockets and its disk, though only the
  former are totals the monitor keeps, and start times tell any two processes apart,
  though the code has seconds (`E/system/process.c:331`).
- The daemon's configuration but for `save_history`, and its socket's requests for
  another interval.
- Of the client, which event callbacks run (but for the adapters in `Scalars`); of
  the engine, the cache of recent logs and `since`.
- In the windows: layout of menus, the about window, the item menu and the summary of
  the process list, the tabs with children, threads and the manual page of a process
  beyond what keeps state across updates, and the CPU and network windows' menus.

## 7. Plan

Done: the modules of section 2 and the proofs of section 5. What is left are the daemon's
socket protocol, and the menus and tabs left out in section 6.
