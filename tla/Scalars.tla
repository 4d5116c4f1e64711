------------------------------ MODULE Scalars ------------------------------
(***************************************************************************)
(* The numbers of the log: memory, video cards, power, and how busy a core *)
(* is.  A monitor logs the whole value when it broadcasts and differences  *)
(* afterwards, each in the narrowest of four signed widths, and the client *)
(* adds them up.  Memory is counted in bytes modulo 2^64 and told in       *)
(* pages, so that the remainder of each difference is lost.  The power     *)
(* monitor shares its value with a helper thread and does nothing while    *)
(* that holds the lock.  `kind' says which of the monitors is looked at:   *)
(* they have nothing in common but the flag `broadcast'.                   *)
(***************************************************************************)
EXTENDS Integers, Sequences, SequencesExt

CONSTANTS
  Kinds,      \* the monitors looked at
  Page,       \* bytes in a page (4096)
  Wide,       \* values of an uint64_t (2^64)
  Half,       \* a number of width w is in -Half[w] .. Half[w] - 1
  Bytes,      \* what the system may report, in bytes
  Ticks,      \* ticks a core may spend busy, or idle, between two polls
  Intervals,  \* length of a poll: 1, 3 or 5 tenths of a second
  MaxCards,   \* video cards there may be
  MaxLog      \* bound: messages in a file that grows further

ASSUME ConstantsAssumption ==
  /\ Kinds \subseteq {"memory", "video", "power", "core"}
  /\ Page \in Nat \ {0} /\ Wide \in Nat \ {0}
  /\ Half \in [1 .. 4 -> Nat \ {0}]
  /\ \A w \in 1 .. 3 : Half[w] <= Half[w + 1]
  /\ (Wide - 1) \div Page < Half[4] /\ 100 < Half[4]
  /\ Bytes \subseteq 0 .. Wide - 1 /\ Ticks \subseteq Int
  /\ Intervals \subseteq Nat \ {0} /\ 1 \in Intervals /\ MaxCards \in Nat /\ MaxLog \in Nat

VARIABLES
  kind,
  daemon,     \* what the monitor logged last
  interval,   \* enigmatic->interval
  broadcast,  \* enigmatic->broadcast
  sample,     \* what the last percentage of the core was made of
  file,       \* the messages in the log since it was truncated
  at,         \* how many of them the client has read
  client,     \* its snapshot
  lost,       \* history: differences it has added to a value since its refresh
  stray       \* history: a difference was for a card it did not know

clientVars == <<at, client, lost, stray>>
scalarsVars == <<kind, daemon, interval, broadcast, sample, file, clientVars>>

-----------------------------------------------------------------------------
(* enigmatic_log_diff and change_find *)

Fits(v, w) == -Half[w] <= v /\ v <= Half[w] - 1

Width(v) ==
  IF Fits(v, 1) THEN 1 ELSE IF Fits(v, 2) THEN 2 ELSE IF Fits(v, 3) THEN 3 ELSE 4

(* The bits of a number in two's complement, as a natural number.          *)
LogDiff(v) ==
  LET w == Width(v) IN [width |-> w, bits |-> IF v < 0 THEN v + 2 * Half[w] ELSE v]

ChangeFind(c) ==
  IF c.bits < Half[c.width] THEN c.bits ELSE c.bits - 2 * Half[c.width]

-----------------------------------------------------------------------------
Cards == 1 .. MaxCards
Videos == UNION {[1 .. n -> Bytes] : n \in 0 .. MaxCards}
NoValues ==
  [memory |-> 0, video |-> <<>>, power |-> FALSE,
   core |-> [percent |-> 0, cached |-> FALSE]]
NoSample == [busy |-> 0, idle |-> 0, interval |-> 1, percent |-> 0]
NotLost == [memory |-> 0, video |-> [i \in Cards |-> 0]]

Values ==
  [memory : 0 .. Wide - 1, power : BOOLEAN,
   video : UNION {[1 .. n -> 0 .. Wide - 1] : n \in 0 .. MaxCards},
   core : [percent : 0 .. 100, cached : BOOLEAN]]

ScalarsTyped ==
  /\ kind \in Kinds /\ interval \in Intervals
  /\ daemon \in Values /\ client \in Values
  /\ sample.percent \in 0 .. 100 /\ sample.interval \in Intervals \cup {1}
  /\ at \in 0 .. Len(file)
  /\ broadcast \in BOOLEAN /\ stray \in BOOLEAN

ScalarsInit ==
  /\ kind \in Kinds /\ interval = 1
  /\ daemon = NoValues /\ client = NoValues
  /\ sample = NoSample /\ lost = NotLost /\ stray = FALSE
  /\ file = <<>> /\ at = 0 /\ broadcast = TRUE

-----------------------------------------------------------------------------
(* The daemon *)

Refresh(v) == [type |-> "refresh", card |-> 0, value |-> v]
Mod(card, v) == [type |-> "mod", card |-> card, value |-> v]

(* What a poll appends.  The flag `broadcast' is cleared after it, and set *)
(* again every so many polls; the interval may have been changed.          *)
Log(k, messages) ==
  /\ kind = k /\ Len(file) < MaxLog
  /\ file' = file \o messages
  /\ broadcast' \in BOOLEAN /\ interval' \in Intervals
  /\ UNCHANGED <<kind, clientVars>>

(* Mutant of Pages: a signed difference, rounded towards zero.             *)
PagesTowardsZero(now, was) ==
  IF now >= was THEN (now - was) \div Page ELSE -((was - now) \div Page)

(* The difference of two uint64_t is one, too, and its pages an int64_t.   *)
Pages(now, was) == ((now - was) % Wide) \div Page

Diff(card, now, was) ==
  IF now = was THEN <<>> ELSE <<Mod(card, LogDiff(Pages(now, was)))>>

PollMemory(now) ==
  /\ Log("memory", IF broadcast THEN <<Refresh(now)>> ELSE Diff(0, now, daemon.memory))
  /\ daemon' = [daemon EXCEPT !.memory = now]
  /\ UNCHANGED sample

(* What memory_info says of a card it did not find.                        *)
Card(video, i) == IF i \in DOMAIN video THEN video[i] ELSE 0

(* A card that comes is told by the next broadcast only.                   *)
Compared(now) == Len(daemon.video)

VideoDiffs(now) ==
  [i \in 1 .. Compared(now) |-> Diff(i, Card(now, i), Card(daemon.video, i))]

PollVideo(now) ==
  /\ Log("video", IF broadcast THEN <<Refresh(now)>> ELSE FlattenSeq(VideoDiffs(now)))
  /\ daemon' = [daemon EXCEPT !.video =
       IF broadcast THEN now ELSE [i \in DOMAIN @ |-> Card(now, i)]]
  /\ UNCHANGED sample

PowerMessage(ac) ==
  IF broadcast THEN <<Refresh(ac)>>
  ELSE IF ac # daemon.power THEN <<Mod(0, ac)>> ELSE <<>>

PollPower(ac) ==
  /\ Log("power", PowerMessage(ac))
  /\ daemon' = [daemon EXCEPT !.power = ac]
  /\ UNCHANGED sample

(* The helper thread has the lock.                                         *)
PollPowerLocked == Log("power", <<>>) /\ UNCHANGED <<daemon, sample>>

Least(a, b) == IF a < b THEN a ELSE b

(* Mutant of Percents: only one of the differences is divided.             *)
PercentsOfLonger(busy, idle) ==
  LET total == (busy + idle) \div interval
      used == total - idle
  IN IF total = 0 /\ used = 0 THEN {0}
     ELSE IF total = 0 \/ used < 0 THEN {0, 100}
     ELSE {Least(100, (100 * used) \div total)}

(* What becomes of the ticks since the last poll.  Where the quotient is   *)
(* no number an int made of it comes out as 0; where it is too large, as 0 *)
(* or 100, as the machine has it; one that is whole may come out just      *)
(* below.  The counters are unsigned: idle time that went back, divided by *)
(* more than 1, is longer than any total.                                  *)
Percents(busy, idle) ==
  LET total == (busy + idle) \div interval
      used == IF idle < 0 /\ interval > 1 THEN -1 ELSE total - idle \div interval
      exact == (100 * used) \div total
  IN IF total = 0 /\ used = 0 THEN {0}
     ELSE IF total = 0 \/ used < 0 THEN {0, 100}
     ELSE {Least(100, exact)} \cup
            IF used > 0 /\ (100 * used) % total = 0 THEN {Least(100, exact - 1)} ELSE {}

(* A core that was not in the cache is put there with the counters it has, *)
(* so that nothing has happened to it since.                               *)
PollCore(busy, idle) ==
  LET b == IF daemon.core.cached THEN busy ELSE 0
      i == IF daemon.core.cached THEN idle ELSE 0
      was == daemon.core.percent
  IN \E p \in Percents(b, i) :
       /\ Log("core", (IF broadcast THEN <<Refresh(was)>> ELSE <<>>)
                        \o (IF p # was THEN <<Mod(0, LogDiff(p - was))>> ELSE <<>>))
       /\ daemon' = [daemon EXCEPT !.core = [percent |-> p, cached |-> TRUE]]
       /\ sample' = [busy |-> b, idle |-> i, interval |-> interval, percent |-> p]

Poll ==
  \/ \E b \in Bytes : PollMemory(b)
  \/ \E v \in Videos : PollVideo(v)
  \/ \E ac \in BOOLEAN : PollPower(ac)
  \/ PollPowerLocked
  \/ \E busy \in Ticks \cap Nat, idle \in Ticks :
       busy + idle >= 0 /\ PollCore(busy, idle)

(* The log is truncated, by a rotation or by a new daemon; the client's    *)
(* lists are emptied, its memory and power are left.                       *)
Truncate(d) ==
  /\ file # <<>>
  /\ daemon' = d /\ broadcast' = TRUE
  /\ file' = <<>> /\ at' = 0
  /\ client' = [client EXCEPT !.core = NoValues.core]
  /\ lost' = NotLost
  /\ UNCHANGED <<kind, interval, sample, stray>>

Rotate == Truncate(daemon)
Restart == Truncate(NoValues)

-----------------------------------------------------------------------------
(* The client *)

Plus(v, change) == (v + ChangeFind(change) * Page) % Wide

message_memory(c, m) ==
  IF m.type = "refresh" THEN [c EXCEPT !.memory = m.value]
  ELSE [c EXCEPT !.memory = Plus(@, m.value)]

message_video(c, m) ==
  IF m.type = "refresh" THEN [c EXCEPT !.video = m.value]
  ELSE [c EXCEPT !.video = [i \in DOMAIN @ |->
                              IF i = m.card THEN Plus(@[i], m.value) ELSE @[i]]]

message_power(c, m) == [c EXCEPT !.power = m.value]

(* A core that the client has already is not refreshed.                    *)
message_core(c, m) ==
  IF m.type = "mod" THEN [c EXCEPT !.core.percent = @ + ChangeFind(m.value)]
  ELSE IF c.core.cached THEN c
  ELSE [c EXCEPT !.core = [percent |-> m.value, cached |-> TRUE]]

message(c, m) ==
  CASE kind = "memory" -> message_memory(c, m)
    [] kind = "video"  -> message_video(c, m)
    [] kind = "power"  -> message_power(c, m)
    [] kind = "core"   -> message_core(c, m)

(* How many differences have gone into each value.                         *)
LostOf(l, m) ==
  CASE kind = "memory" -> [l EXCEPT !.memory = IF m.type = "mod" THEN @ + 1 ELSE 0]
    [] kind = "video" ->
         IF m.type = "mod" THEN [l EXCEPT !.video[m.card] = @ + 1]
         ELSE [l EXCEPT !.video = NotLost.video]
    [] OTHER -> l

Read ==
  /\ at < Len(file)
  /\ LET m == file[at + 1]
     IN /\ client' = message(client, m)
        /\ lost' = LostOf(lost, m)
        /\ stray' = (stray \/ (m.type = "mod" /\ m.card > Len(client.video)))
  /\ at' = at + 1
  /\ UNCHANGED <<kind, daemon, interval, broadcast, sample, file>>

(* Another client starts, and reads the file from its beginning.           *)
Open ==
  /\ client' = NoValues /\ lost' = NotLost /\ at' = 0
  /\ UNCHANGED <<kind, daemon, interval, broadcast, sample, file, stray>>

ScalarsNext == Poll \/ Rotate \/ Restart \/ Read \/ Open

ScalarsSpec == ScalarsInit /\ [][ScalarsNext]_scalarsVars

-----------------------------------------------------------------------------
(* Properties *)

HasRead == file # <<>> /\ at = Len(file)
Behind(now, shown) == (now - shown) % Wide

(* The client's memory is never above the daemon's, and below it by less   *)
(* than a page for each difference since the last refresh; for each video  *)
(* card, too (memory.c:32-104, client.c:875-925).  Only what is no whole   *)
(* number of pages is lost.                                                *)
LosesRemainders ==
  HasRead =>
    /\ Behind(daemon.memory, client.memory) <= (Page - 1) * lost.memory
    /\ \A i \in DOMAIN daemon.video :
         Behind(daemon.video[i], client.video[i]) <= (Page - 1) * lost.video[i]

(* No difference is for a card the client has not been told of, though     *)
(* cards come and go between broadcasts: the index is into an array of     *)
(* eight (memory.c:83-104, client.c:913-918).                              *)
CardsKnown ==
  ~stray /\ (HasRead => DOMAIN client.video = DOMAIN daemon.video)

(* Once a file has told of the power, a client that has read it knows what *)
(* the daemon knows, though the monitor may have been locked out of the    *)
(* broadcast (power.c:57-87).                                              *)
PowerTold ==
  HasRead /\ kind = "power" => client.power = daemon.power

(* The percentage is that of the ticks, but for what the division by the   *)
(* length of a poll rounds away, unless no poll's length has passed or the *)
(* idle time has gone back (cores.c:147-160).                              *)
PercentFair ==
  LET ticks == sample.busy + sample.idle
      i == sample.interval
  IN sample.idle >= 0 /\ ticks >= i =>
       /\ sample.percent * ticks <= 100 * sample.busy + 100 * (i - 1)
       /\ sample.percent * ticks >= 100 * sample.busy - 100 * (i - 1) - ticks

(* The client's percentage is the daemon's: each difference comes through  *)
(* the widths whole (log.c:574-611, client.c:155-207).                     *)
PercentTold == HasRead /\ kind = "core" => client.core = daemon.core

(* What the client has of the daemon's numbers at every step.              *)
ScalarsInv == ScalarsTyped /\ LosesRemainders /\ CardsKnown /\ PowerTold /\ PercentTold
=============================================================================
