---------------------------- MODULE ArchiveProofs ----------------------------
(***************************************************************************)
(* A replay of logs and archives is in order, no two threads compress at   *)
(* the same time, a reader dies of a file only as DeathExplained says, and *)
(* the files the rotation leaves are what LogStore promises: for any       *)
(* number of slots in a day, of any length, and any number of faults.      *)
(*                                                                         *)
(* The inductive invariant: PlaceInv, where the threads of the daemon can  *)
(* be; ThreadInv, what the background thread finds in the files of its     *)
(* slot; SlotInv, which slot the records of a file are of; AgeInv, which   *)
(* files are older than the log; ReadInv, what a replay has still to read  *)
(* is later than what it has reported.                                     *)
(***************************************************************************)
EXTENDS Archive, WellFoundedInduction, TLAPS

Rotating == monitor \in {"copy", "copying", "join", "open"}

PlaceInv ==
  /\ \A t, u \in threads : t = u
  /\ monitor = "open" \/ ~keep \/ main = "gone" => threads = {}
  /\ main = "gone" => monitor = "ended"
  /\ Rotating => logSlot # NoSlot /\ logSlot # SlotOf(now) /\ file = "freed"
  /\ file = "open" => logSlot # NoSlot
  /\ logSlot = NoSlot => failed \/ main = "gone"
  /\ file = "freed" =>
       \/ failed \/ late \/ Rotating
       \/ main \in {"closed", "gone"} /\ monitor = "ended"

(* The thread works on a slot the log has left, and its source is the copy *)
(* that is there.                                                          *)
ThreadInv ==
  \A t \in threads :
    /\ t.at # "done" /\ t.slot = logSlot =>
         failed /\ file = "freed" /\ (misuse \/ monitor \in {"poll", "ended"})
    /\ t.at \in {"size", "sized", "lz4"} =>
         \/ copy[t.slot].state = "whole" /\ t.src = copy[t.slot]
         \/ copy[t.slot].state = "torn" /\ t.src = Broken(copy[t.slot])
    /\ t.at \in {"sized", "lz4"} => size[t.slot] = t.src \/ t.slot \in refused
    /\ t.at = "lz4" => lz4[t.slot].state = "torn"

SlotInv ==
  /\ logSlot # NoSlot => \A r \in live : SlotOf(r) = logSlot
  /\ \A r \in live : r <= now
  /\ \A s \in Slot :
       /\ copy[s].state # "broken"
       /\ \A r \in copy[s].data \cup lz4[s].data : SlotOf(r) = s

AgeInv ==
  ~failed =>
    \A s \in Slot :
      /\ \A r \in copy[s].data \cup lz4[s].data : r < now
      /\ \A r \in lz4[s].data, t \in live : r < t
      /\ \/ main = "gone"
         \/ monitor \in {"copying", "join", "open"} /\ s = logSlot
         \/ \A r \in copy[s].data, t \in live : r < t

(* What is in one of the files of the range: no record that was reported.  *)
Hours == rd.to \div PerSlot - rd.from \div PerSlot
StillAhead(f) ==
  /\ f.hour <= Hours
  /\ \A i \in DOMAIN told : \A r \in told[i] :
       r \div PerSlot < rd.from \div PerSlot + f.hour
  /\ f.path.kind # "copy"
  /\ f.path.kind = "lz4" => f.path.slot = SlotOf(rd.from + PerSlot * f.hour)
  /\ f.path.kind = "log" =>
       /\ f.hour = Hours
       /\ \A i \in DOMAIN told : \A r \in told[i] : r < now /\ \A t \in live : r < t
ReadInv ==
  \/ rd.at = "idle" \/ failed \/ Hours >= Slots
  \/ told = <<>> /\ \A f, g \in rd.todo : f = g
  \/ /\ \A f \in rd.todo : StillAhead(f)
     /\ \A f, g \in rd.todo : f.hour = g.hour => f = g

IInv ==
  /\ TypeOK /\ PlaceInv /\ ThreadInv /\ SlotInv /\ AgeInv
  /\ MisuseExplained /\ ReplayInOrder /\ ReadInv

-----------------------------------------------------------------------------
(* A set of natural numbers that is not empty has a least element.         *)
LEMMA LeastNat ==
  ASSUME NEW S \in SUBSET Nat, S # {}
  PROVE  \E n \in S : \A m \in S : n <= m
<1> DEFINE R == OpToRel(<, Nat)
<1>1. IsWellFoundedOn(R, Nat)
  BY NatLessThanWellFounded
<1>2. \A x, y \in Nat : <<y, x>> \in R <=> y < x
  BY DEF OpToRel
<1> HIDE DEF R
<1>3. PICK n \in S : \A y \in S : ~ (<<y, n>> \in R)
  BY <1>1, WFMin
<1>4. \A m \in S : m \in Nat /\ n \in Nat /\ ~(m < n)
  BY <1>2, <1>3
<1>5. \A m, k \in Nat : ~(m < k) => k <= m
  OBVIOUS
<1> QED BY <1>4, <1>5

(* Quotient and remainder.                                                 *)
LEMMA DivMod ==
  ASSUME NEW a \in Nat, NEW n \in Nat \ {0}
  PROVE  /\ a \div n \in Nat /\ a % n \in 0 .. n - 1
         /\ a = n * (a \div n) + (a % n)
  OBVIOUS

(* Products grow with what they are made of.                               *)
LEMMA TimesMonotone ==
  ASSUME NEW n \in Nat, NEW p \in Int, NEW q \in Int, p <= q
  PROVE  n * p <= n * q
  OBVIOUS

(* Quotients do as well.                                                   *)
LEMMA DivMonotone ==
  ASSUME NEW n \in Nat \ {0}, NEW a \in Nat, NEW b \in Nat, a <= b
  PROVE  a \div n <= b \div n
<1> DEFINE p == a \div n
           q == b \div n
<1>1. /\ p \in Nat /\ q \in Nat
      /\ n * p <= a /\ b < n * q + n
  BY DivMod
<1> HIDE DEF p, q
<1>2. SUFFICES ASSUME q + 1 <= p PROVE FALSE
  BY <1>1
<1>3. n * (q + 1) <= n * p
  BY <1>1, <1>2, TimesMonotone
<1>4. n * (q + 1) = n * q + n
  BY <1>1
<1> QED
  BY <1>1, <1>3, <1>4

(* There is one quotient and one remainder.                                *)
LEMMA DivUnique ==
  ASSUME NEW n \in Nat \ {0}, NEW a \in Nat, NEW q \in Nat, NEW m \in 0 .. n - 1, a = n * q + m
  PROVE  a \div n = q /\ a % n = m
<1> DEFINE p == a \div n
           r == a % n
<1>1. /\ p \in Nat /\ r \in 0 .. n - 1 /\ a = n * p + r
  BY DivMod
<1> HIDE DEF p, r
<1>2. ASSUME p < q PROVE FALSE
  <2>1. n * (p + 1) <= n * q
    BY <1>1, <1>2, TimesMonotone
  <2>2. n * (p + 1) = n * p + n
    BY <1>1
  <2> QED BY <1>1, <2>1, <2>2
<1>3. ASSUME q < p PROVE FALSE
  <2>1. n * (q + 1) <= n * p
    BY <1>1, <1>3, TimesMonotone
  <2>2. n * (q + 1) = n * q + n
    BY <1>1
  <2> QED BY <1>1, <2>1, <2>2
<1>4. p = q
  BY <1>1, <1>2, <1>3
<1>5. r = m
  BY <1>1, <1>4
<1> QED BY <1>4, <1>5 DEF p, r

(* The hour of the day tells hours apart that are less than a day apart.   *)
LEMMA ModUnique ==
  ASSUME NEW n \in Nat \ {0}, NEW x \in Nat, NEW y \in Nat, x % n = y % n, x < y + n, y < x + n
  PROVE  x = y
<1> DEFINE p == x \div n
           q == y \div n
           r == x % n
<1>1. /\ p \in Nat /\ q \in Nat /\ r \in 0 .. n - 1 /\ x = n * p + r /\ y = n * q + r
  BY DivMod
<1> HIDE DEF p, q, r
<1>2. ASSUME p < q PROVE FALSE
  <2>1. n * (p + 1) <= n * q
    BY <1>1, <1>2, TimesMonotone
  <2>2. n * (p + 1) = n * p + n
    BY <1>1
  <2> QED BY <1>1, <2>1, <2>2
<1>3. ASSUME q < p PROVE FALSE
  <2>1. n * (q + 1) <= n * p
    BY <1>1, <1>3, TimesMonotone
  <2>2. n * (q + 1) = n * q + n
    BY <1>1
  <2> QED BY <1>1, <2>1, <2>2
<1> QED
  BY <1>1, <1>2, <1>3

(* enigmatic_client_replay_hours adds hours to the start, and the hour of  *)
(* the result is that many hours later.                                    *)
LEMMA DivAdd ==
  ASSUME NEW n \in Nat \ {0}, NEW a \in Nat, NEW i \in Nat
  PROVE  (a + n * i) \div n = a \div n + i
<1> DEFINE p == a \div n
           r == a % n
<1>1. /\ p \in Nat /\ r \in 0 .. n - 1 /\ a = n * p + r
  BY DivMod
<1> HIDE DEF p, r
<1>2. a + n * i = n * (p + i) + r
  BY <1>1
<1>3. p + i \in Nat /\ a + n * i \in Nat
  BY <1>1
<1>4. (a + n * i) \div n = p + i
  BY <1>1, <1>2, <1>3, DivUnique
<1> QED BY <1>4 DEF p

LEMMA Constants ==
  /\ Slots \in Nat \ {0} /\ PerSlot \in Nat \ {0} /\ MaxTime \in Nat /\ MaxFaults \in Nat
  /\ MaxReads \in Nat
  /\ 0 \in Records /\ 0 \in Slot /\ Records \subseteq Nat /\ Slot \subseteq Nat
  /\ NoSlot \notin Slot
  BY BoundsAssumption DEF Records, Slot, NoSlot

(* The slot of a time is one.                                              *)
LEMMA SlotType ==
  ASSUME NEW t \in Nat
  PROVE  SlotOf(t) \in Slot
<1>1. t \div PerSlot \in Nat
  BY Constants, DivMod
<1>2. (t \div PerSlot) % Slots \in 0 .. Slots - 1
  BY <1>1, Constants, DivMod
<1> QED
  BY <1>2 DEF SlotOf, Slot

(* Its day is no later than the last.                                      *)
LEMMA DayType ==
  ASSUME NEW t \in Records
  PROVE  Day(t) \in 0 .. Day(MaxTime)
<1> DEFINE n == Slots * PerSlot
<1>1. n \in Nat \ {0}
  BY Constants
<1>2. t \in Nat /\ MaxTime \in Nat /\ t <= MaxTime
  BY Constants DEF Records
<1> HIDE DEF n
<1>3. t \div n \in Nat /\ MaxTime \div n \in Nat /\ t \div n <= MaxTime \div n
  BY <1>1, <1>2, DivMod, DivMonotone
<1> QED
  BY <1>3 DEF Day, n

(* Two records of the same slot, whose hours are less than a day apart,    *)
(* are of the same hour.                                                   *)
LEMMA SameHour ==
  ASSUME NEW r \in Nat, NEW t \in Nat, SlotOf(r) = SlotOf(t),
         r \div PerSlot < t \div PerSlot + Slots,
         t \div PerSlot < r \div PerSlot + Slots
  PROVE  r \div PerSlot = t \div PerSlot
<1>1. r \div PerSlot \in Nat /\ t \div PerSlot \in Nat
  BY Constants, DivMod
<1>2. (r \div PerSlot) % Slots = (t \div PerSlot) % Slots
  BY DEF SlotOf
<1> QED
  BY <1>1, <1>2, Constants, ModUnique

(* A record of an earlier hour is earlier.                                 *)
LEMMA EarlierHour ==
  ASSUME NEW r \in Nat, NEW t \in Nat, r \div PerSlot < t \div PerSlot
  PROVE  r < t
<1>1. r \div PerSlot \in Nat /\ t \div PerSlot \in Nat
  BY Constants, DivMod
<1>2. ASSUME t <= r PROVE FALSE
  <2>1. t \div PerSlot <= r \div PerSlot
    BY <1>2, Constants, DivMonotone
  <2> QED
    BY <1>1, <2>1
<1> QED
  BY <1>2

(* Files as they can be.                                                   *)
LEMMA FileTypes ==
  /\ Absent \in Files /\ Absent.data = {} /\ Absent.state = "absent"
  /\ \A d \in SUBSET Records : Whole(d) \in Files
  /\ \A d : Whole(d).data = d /\ Whole(d).state = "whole"
  /\ \A f \in Files :
       /\ f.data \subseteq Records
       /\ Torn(f) \in Files /\ Torn(f).data = f.data /\ Torn(f).state = "torn"
       /\ Broken(f) \in Files /\ Broken(f).data = f.data /\ Broken(f).state = "broken"
  BY DEF Absent, Torn, Broken, Whole, Files

(* What was told.                                                          *)
LEMMA ToldTypes ==
  ASSUME told \in Seq(SUBSET Records)
  PROVE  /\ DOMAIN told = 1 .. Len(told) /\ Len(told) \in Nat
         /\ \A i \in DOMAIN told : told[i] \subseteq Records
  OBVIOUS

(* The first of the files that are to be read.                             *)
LEMMA NextFileIsFirst ==
  ASSUME TypeOK, rd.todo # {}
  PROVE  /\ NextFile \in rd.todo /\ NextFile \in Listed
         /\ \A g \in rd.todo : NextFile.hour <= g.hour
<1>1. rd.todo \subseteq Listed
  BY DEF TypeOK, Readers
<1>2. \A f \in rd.todo : f.hour \in Nat
  BY <1>1 DEF Listed
<1> DEFINE H == {f.hour : f \in rd.todo}
<1>3. H \in SUBSET Nat /\ H # {}
  BY <1>2
<1> HIDE DEF H
<1>4. PICK h \in H : \A m \in H : h <= m
  BY <1>3, LeastNat
<1>5. \E f \in rd.todo : \A g \in rd.todo : f.hour <= g.hour
  BY <1>4 DEF H
<1>6. NextFile \in rd.todo /\ \A g \in rd.todo : NextFile.hour <= g.hour
  BY <1>5 DEF NextFile
<1> QED
  BY <1>1, <1>6

-----------------------------------------------------------------------------
(* What the daemon does leaves the reader where it is; what it writes to   *)
(* the log is as late as now.                                              *)
Forward ==
  /\ UNCHANGED <<rd, told>>
  /\ failed => failed'
  /\ now' \in Nat /\ now <= now'
  /\ \A t \in live' : t \in live \/ t = now

(* A reader that has told of a file has only later ones left.              *)
LEMMA ForwardKeepsReads ==
  ASSUME TypeOK, ReplayInOrder, ReadInv, Forward
  PROVE  ReplayInOrder' /\ ReadInv'
<1>1. rd' = rd /\ told' = told /\ (failed => failed')
  BY DEF Forward
<1>2. ReplayInOrder'
  BY <1>1 DEF ReplayInOrder
<1>3. \A i \in DOMAIN told : \A r \in told[i] : r \in Nat
  BY ToldTypes, Constants DEF TypeOK
<1>4. ASSUME NEW f \in rd.todo, StillAhead(f) PROVE StillAhead(f)'
  <2>1. \A i \in DOMAIN told : \A r \in told[i] :
          (r < now /\ \A t \in live : r < t) => (r < now' /\ \A t \in live' : r < t)
    <3>1. now \in Nat /\ live \subseteq Nat
      BY Constants DEF TypeOK
    <3> SUFFICES ASSUME NEW i \in DOMAIN told, NEW r \in told[i],
                        r < now, \A t \in live : r < t
                 PROVE  r < now' /\ \A t \in live' : r < t
      OBVIOUS
    <3>2. r \in Nat
      BY <1>3
    <3>3. now' \in Nat /\ now <= now'
      BY DEF Forward
    <3>4. r < now'
      BY <3>1, <3>2, <3>3
    <3>5. \A t \in live' : r < t
      BY DEF Forward
    <3> QED
      BY <3>4, <3>5
  <2>2. Hours' = Hours
    BY <1>1 DEF Hours
  <2> QED
    BY <1>1, <1>4, <2>1, <2>2 DEF StillAhead
<1>5. Hours' = Hours
  BY <1>1 DEF Hours
<1>6. ReadInv'
  BY <1>1, <1>4, <1>5 DEF ReadInv
<1> QED
  BY <1>2, <1>6

(* The parts of the invariant, and the types that come with them.          *)
LEMMA Unfolded ==
  ASSUME IInv
  PROVE  /\ TypeOK /\ PlaceInv /\ ThreadInv /\ SlotInv /\ AgeInv
         /\ MisuseExplained /\ ReplayInOrder /\ ReadInv
         /\ now \in Nat /\ now \in Records /\ live \subseteq Nat
         /\ copy \in [Slot -> Files] /\ size \in [Slot -> Files] /\ lz4 \in [Slot -> Files]
         /\ \A t \in threads : t \in Threads /\ t.slot \in Slot /\ t.src \in Files
         /\ \A s \in Slot : copy[s].data \subseteq Nat /\ lz4[s].data \subseteq Nat
<1>1. TypeOK
  BY DEF IInv
<1>2. copy \in [Slot -> Files] /\ size \in [Slot -> Files] /\ lz4 \in [Slot -> Files]
  BY <1>1 DEF TypeOK
<1>3. \A t \in threads : t \in Threads
  BY <1>1 DEF TypeOK
<1>4. \A t \in Threads : t.slot \in Slot /\ t.src \in Files
  BY DEF Threads
<1>5. now \in Nat /\ now \in Records /\ live \subseteq Nat
  BY <1>1, Constants DEF TypeOK
<1>6. \A s \in Slot : copy[s].data \subseteq Nat /\ lz4[s].data \subseteq Nat
  BY <1>2, FileTypes, Constants
<1> QED
  BY <1>2, <1>3, <1>4, <1>5, <1>6 DEF IInv

-----------------------------------------------------------------------------
(* The clock and the monitor thread *)

LEMMA TickKeeps ==
  ASSUME IInv, Tick
  PROVE  IInv'
<1>1. /\ keep' = keep /\ live' = live /\ logSlot' = logSlot /\ file' = file
      /\ monitor' = monitor /\ main' = main /\ copy' = copy /\ size' = size
      /\ lz4' = lz4 /\ mtime' = mtime /\ threads' = threads /\ rd' = rd
      /\ reads' = reads /\ told' = told /\ faults' = faults /\ misuse' = misuse
      /\ late' = late /\ failed' = failed
      /\ cut' = cut /\ refused' = refused
  BY DEF Tick, daemonVars, fileVars, readVars, historyVars
<1>2. /\ now' = now + 1 /\ now' \in Records
      /\ monitor \in {"poll", "ended"} \/ logSlot # SlotOf(now')
  BY Unfolded, Constants DEF Tick, Records
<1>10. TypeOK'
  BY <1>1, <1>2, Unfolded, Constants DEF TypeOK
<1>11. PlaceInv'
  BY <1>1, <1>2, Unfolded, Constants DEF PlaceInv, Rotating
<1>12. ThreadInv'
  BY <1>1, <1>2, Unfolded, Constants DEF ThreadInv
<1>13. SlotInv'
  BY <1>1, <1>2, Unfolded, Constants DEF SlotInv
<1>14. AgeInv'
  BY <1>1, <1>2, Unfolded, Constants DEF AgeInv
<1>15. MisuseExplained'
  BY <1>1, <1>2, Unfolded, Constants DEF MisuseExplained
<1>16. Forward
  BY <1>1, <1>2, Unfolded, Constants DEF Forward
<1> QED
  BY <1>10, <1>11, <1>12, <1>13, <1>14, <1>15, <1>16, Unfolded, ForwardKeepsReads DEF IInv

LEMMA PollKeeps ==
  ASSUME IInv, Poll
  PROVE  IInv'
<1>1. /\ now' = now /\ keep' = keep /\ logSlot' = logSlot /\ file' = file
      /\ monitor' = monitor /\ main' = main /\ copy' = copy /\ size' = size
      /\ lz4' = lz4 /\ mtime' = mtime /\ threads' = threads /\ rd' = rd
      /\ reads' = reads /\ told' = told /\ faults' = faults /\ late' = late
      /\ failed' = failed
      /\ cut' = cut /\ refused' = refused
  BY DEF Poll, Monitor, monitorRest, fileVars, readVars
<1>2. /\ ~misuse /\ monitor = "poll" /\ logSlot \in {NoSlot, SlotOf(now)}
      /\ file = "open" => live' = live \cup {now}
      /\ file # "open" => live' = live
      /\ misuse' = (misuse \/ file = "freed")
  BY DEF Poll, Monitor
<1>10. TypeOK'
  BY <1>1, <1>2, Unfolded, Constants DEF TypeOK
<1>11. PlaceInv'
  BY <1>1, <1>2, Unfolded, Constants DEF PlaceInv, Rotating
<1>12. ThreadInv'
  BY <1>1, <1>2, Unfolded, Constants DEF ThreadInv
<1>13. SlotInv'
  BY <1>1, <1>2, Unfolded, Constants DEF SlotInv
<1>14. AgeInv'
  BY <1>1, <1>2, Unfolded, Constants DEF AgeInv
<1>15. MisuseExplained'
  BY <1>1, <1>2, Unfolded, Constants DEF MisuseExplained, PlaceInv, Rotating
<1>16. Forward
  BY <1>1, <1>2, Unfolded, Constants DEF Forward
<1> QED
  BY <1>10, <1>11, <1>12, <1>13, <1>14, <1>15, <1>16, Unfolded, ForwardKeepsReads DEF IInv

LEMMA RotateBeginKeeps ==
  ASSUME IInv, RotateBegin
  PROVE  IInv'
<1>1. /\ now' = now /\ keep' = keep /\ live' = live /\ logSlot' = logSlot
      /\ main' = main /\ copy' = copy /\ size' = size /\ lz4' = lz4
      /\ mtime' = mtime /\ threads' = threads /\ rd' = rd /\ reads' = reads
      /\ told' = told /\ faults' = faults /\ late' = late /\ failed' = failed
      /\ cut' = cut /\ refused' = refused
  BY DEF RotateBegin, Monitor, monitorRest, fileVars, readVars
<1>2. /\ ~misuse /\ monitor = "poll" /\ logSlot \notin {NoSlot, SlotOf(now)}
      /\ monitor' = IF keep THEN "copy" ELSE "open"
      /\ file' = "freed" /\ misuse' = (misuse \/ file = "freed")
  BY DEF RotateBegin, Monitor
<1>10. TypeOK'
  BY <1>1, <1>2, Unfolded, Constants DEF TypeOK
<1>11. PlaceInv'
  BY <1>1, <1>2, Unfolded, Constants DEF PlaceInv, Rotating
<1>12. ThreadInv'
  BY <1>1, <1>2, Unfolded, Constants DEF ThreadInv
<1>13. SlotInv'
  BY <1>1, <1>2, Unfolded, Constants DEF SlotInv
<1>14. AgeInv'
  BY <1>1, <1>2, Unfolded, Constants DEF AgeInv
<1>15. MisuseExplained'
  BY <1>1, <1>2, Unfolded, Constants DEF MisuseExplained, PlaceInv, Rotating
<1>16. Forward
  BY <1>1, <1>2, Unfolded, Constants DEF Forward
<1> QED
  BY <1>10, <1>11, <1>12, <1>13, <1>14, <1>15, <1>16, Unfolded, ForwardKeepsReads DEF IInv

LEMMA CopyBeginKeeps ==
  ASSUME IInv, CopyBegin
  PROVE  IInv'
<1>1. /\ now' = now /\ keep' = keep /\ live' = live /\ logSlot' = logSlot
      /\ file' = file /\ main' = main /\ size' = size /\ lz4' = lz4
      /\ mtime' = mtime /\ threads' = threads /\ rd' = rd /\ reads' = reads
      /\ told' = told /\ faults' = faults /\ misuse' = misuse /\ late' = late
      /\ failed' = failed
      /\ cut' = cut /\ refused' = refused
  BY DEF CopyBegin, Monitor, readVars, historyVars
<1>2. /\ ~misuse /\ monitor = "copy" /\ monitor' = "copying"
      /\ copy' = [copy EXCEPT ![logSlot] = Torn(Whole(live))]
  BY DEF CopyBegin, Monitor
<1>3. logSlot \in Slot /\ logSlot # SlotOf(now)
  BY <1>2, Unfolded DEF PlaceInv, Rotating, TypeOK
<1>4. Whole(live) \in Files /\ Whole(live).data = live
  BY FileTypes, Unfolded DEF TypeOK
<1>5. \A s \in Slot :
        \/ copy'[s] = copy[s]
        \/ s = logSlot /\ copy'[s].data = live /\ copy'[s].state = "torn"
  BY <1>2, <1>3, <1>4, Unfolded, FileTypes
<1>7. \A r \in live : SlotOf(r) = logSlot /\ r < now
  BY <1>2, <1>3, Unfolded, Constants DEF SlotInv
<1>10. TypeOK'
  <2>1. copy' \in [Slot -> Files]
    BY <1>2, <1>3, <1>4, Unfolded, FileTypes
  <2> QED
    BY <1>1, <1>2, <2>1, Unfolded DEF TypeOK
<1>11. PlaceInv'
  BY <1>1, <1>2, Unfolded, Constants DEF PlaceInv, Rotating
<1>12. ThreadInv'
  BY <1>1, <1>2, Unfolded, Constants DEF ThreadInv
<1>13. SlotInv'
  BY <1>1, <1>5, <1>7, Unfolded DEF SlotInv
<1>14. AgeInv'
  BY <1>1, <1>2, <1>5, <1>7, Unfolded DEF AgeInv
<1>15. MisuseExplained'
  BY <1>1, <1>2, Unfolded, Constants DEF MisuseExplained
<1>16. Forward
  BY <1>1, <1>2, Unfolded, Constants DEF Forward
<1> QED
  BY <1>10, <1>11, <1>12, <1>13, <1>14, <1>15, <1>16, Unfolded, ForwardKeepsReads DEF IInv

LEMMA CopyFailsKeeps ==
  ASSUME IInv, CopyFails
  PROVE  IInv'
<1>1. /\ now' = now /\ keep' = keep /\ live' = live /\ logSlot' = logSlot
      /\ file' = file /\ main' = main /\ copy' = copy /\ size' = size /\ lz4' = lz4
      /\ mtime' = mtime /\ threads' = threads /\ rd' = rd /\ reads' = reads
      /\ told' = told /\ misuse' = misuse /\ late' = late /\ failed' = failed
      /\ cut' = cut /\ refused' = refused
  BY DEF CopyFails, Monitor, Fails, fileVars, readVars, historyVars
<1>2. /\ ~misuse /\ monitor = "copy" /\ monitor' = "join"
      /\ faults < MaxFaults /\ faults' = faults + 1
  BY DEF CopyFails, Monitor, Fails
<1>10. TypeOK'
  <2>1. faults' \in 0 .. MaxFaults
    BY <1>2, Unfolded, Constants DEF TypeOK
  <2> QED
    BY <1>1, <1>2, <2>1, Unfolded DEF TypeOK
<1>11. PlaceInv'
  BY <1>1, <1>2, Unfolded, Constants DEF PlaceInv, Rotating
<1>12. ThreadInv'
  BY <1>1, <1>2, Unfolded, Constants DEF ThreadInv
<1>13. SlotInv'
  BY <1>1, <1>2, Unfolded, Constants DEF SlotInv
<1>14. AgeInv'
  BY <1>1, <1>2, Unfolded, Constants DEF AgeInv
<1>15. MisuseExplained'
  BY <1>1, <1>2, Unfolded, Constants DEF MisuseExplained
<1>16. Forward
  BY <1>1, <1>2, Unfolded, Constants DEF Forward
<1> QED
  BY <1>10, <1>11, <1>12, <1>13, <1>14, <1>15, <1>16, Unfolded, ForwardKeepsReads DEF IInv

LEMMA CopyEndKeeps ==
  ASSUME IInv, CopyEnd
  PROVE  IInv'
<1>1. /\ now' = now /\ keep' = keep /\ live' = live /\ logSlot' = logSlot
      /\ file' = file /\ main' = main /\ size' = size /\ lz4' = lz4
      /\ mtime' = mtime /\ threads' = threads /\ rd' = rd /\ reads' = reads
      /\ told' = told /\ misuse' = misuse /\ late' = late /\ failed' = failed
      /\ cut' = cut /\ refused' = refused
  BY DEF CopyEnd, Monitor, Works, Fails, readVars, historyVars
<1>2. /\ ~misuse /\ monitor = "copying" /\ monitor' = "join"
      /\ \/ faults' = faults /\ copy' = [copy EXCEPT ![logSlot] = Whole(live)]
         \/ faults < MaxFaults /\ faults' = faults + 1 /\ copy' = copy
  BY DEF CopyEnd, Monitor, Works, Fails
<1>3. logSlot \in Slot /\ logSlot # SlotOf(now)
  BY <1>2, Unfolded DEF PlaceInv, Rotating, TypeOK
<1>4. Whole(live) \in Files /\ Whole(live).data = live /\ Whole(live).state = "whole"
  BY FileTypes, Unfolded DEF TypeOK
<1>5. \A s \in Slot : copy'[s] = copy[s] \/ (s = logSlot /\ copy'[s] = Whole(live))
  BY <1>2, <1>3, Unfolded
<1>6. copy' \in [Slot -> Files]
  BY <1>2, <1>3, <1>4, Unfolded
<1>7. \A r \in live : SlotOf(r) = logSlot /\ r < now
  BY <1>2, <1>3, Unfolded, Constants DEF SlotInv
<1>10. TypeOK'
  <2>1. faults' \in 0 .. MaxFaults
    BY <1>2, Unfolded, Constants DEF TypeOK
  <2> QED
    BY <1>1, <1>2, <1>6, <2>1, Unfolded DEF TypeOK
<1>11. PlaceInv'
  BY <1>1, <1>2, Unfolded, Constants DEF PlaceInv, Rotating
<1>12. ThreadInv'
  BY <1>1, <1>2, Unfolded, Constants DEF ThreadInv
<1>13. SlotInv'
  BY <1>1, <1>4, <1>5, <1>7, Unfolded DEF SlotInv
<1>14. AgeInv'
  BY <1>1, <1>2, <1>4, <1>5, <1>7, Unfolded DEF AgeInv
<1>15. MisuseExplained'
  BY <1>1, <1>2, Unfolded, Constants DEF MisuseExplained
<1>16. Forward
  BY <1>1, <1>2, Unfolded, Constants DEF Forward
<1> QED
  BY <1>10, <1>11, <1>12, <1>13, <1>14, <1>15, <1>16, Unfolded, ForwardKeepsReads DEF IInv

LEMMA JoinKeeps ==
  ASSUME IInv, Join
  PROVE  IInv'
<1>1. /\ now' = now /\ keep' = keep /\ live' = live /\ logSlot' = logSlot
      /\ file' = file /\ main' = main /\ copy' = copy /\ size' = size /\ lz4' = lz4
      /\ mtime' = mtime /\ rd' = rd /\ reads' = reads /\ told' = told
      /\ faults' = faults /\ misuse' = misuse /\ late' = late /\ failed' = failed
      /\ cut' = cut /\ refused' = refused
  BY DEF Join, Monitor, fileVars, readVars, historyVars
<1>2. /\ ~misuse /\ monitor = "join" /\ monitor' = "open"
      /\ threads' = {}
  BY DEF Join, Monitor
<1>10. TypeOK'
  BY <1>1, <1>2, Unfolded, Constants DEF TypeOK
<1>11. PlaceInv'
  BY <1>1, <1>2, Unfolded, Constants DEF PlaceInv, Rotating
<1>12. ThreadInv'
  BY <1>1, <1>2, Unfolded, Constants DEF ThreadInv
<1>13. SlotInv'
  BY <1>1, <1>2, Unfolded, Constants DEF SlotInv
<1>14. AgeInv'
  BY <1>1, <1>2, Unfolded, Constants DEF AgeInv
<1>15. MisuseExplained'
  BY <1>1, <1>2, Unfolded, Constants DEF MisuseExplained
<1>16. Forward
  BY <1>1, <1>2, Unfolded, Constants DEF Forward
<1> QED
  BY <1>10, <1>11, <1>12, <1>13, <1>14, <1>15, <1>16, Unfolded, ForwardKeepsReads DEF IInv

LEMMA OpenKeeps ==
  ASSUME IInv, Open
  PROVE  IInv'
<1>1. /\ now' = now /\ keep' = keep /\ main' = main /\ copy' = copy /\ size' = size
      /\ lz4' = lz4 /\ mtime' = mtime /\ rd' = rd /\ reads' = reads /\ told' = told
      /\ misuse' = misuse /\ late' = late
      /\ cut' = cut /\ refused' = refused
  BY DEF Open, Monitor, Works, Fails, fileVars, readVars
<1>2. /\ ~misuse /\ monitor = "open" /\ monitor' = "poll"
      /\ \/ /\ faults' = faults /\ live' = {} /\ logSlot' = SlotOf(now)
            /\ file' = "open" /\ failed' = failed
         \/ /\ faults < MaxFaults /\ faults' = faults + 1 /\ failed' = TRUE
            /\ live' = live /\ logSlot' = logSlot /\ file' = file
      /\ threads' = IF keep THEN threads \cup {NewThread(logSlot)} ELSE threads
  BY DEF Open, Monitor, Works, Fails
<1>3. logSlot \in Slot /\ logSlot # SlotOf(now) /\ threads = {}
  BY <1>2, Unfolded DEF PlaceInv, Rotating, TypeOK
<1>4. SlotOf(now) \in Slot
  BY Unfolded, SlotType
<1>5. /\ NewThread(logSlot) \in Threads /\ NewThread(logSlot).slot = logSlot
      /\ NewThread(logSlot).at = "begin"
  BY <1>3, FileTypes DEF NewThread, Threads
<1>6. threads' = {} \/ (keep /\ threads' = {NewThread(logSlot)})
  BY <1>2, <1>3
<1>10. TypeOK'
  <2>1. threads' \subseteq Threads
    BY <1>5, <1>6
  <2>2. /\ live' \subseteq Records /\ logSlot' \in Slot \cup {NoSlot}
        /\ file' \in {"open", "freed"} /\ failed' \in BOOLEAN
    BY <1>2, <1>4, Unfolded DEF TypeOK
  <2>3. faults' \in 0 .. MaxFaults
    BY <1>2, Unfolded, Constants DEF TypeOK
  <2> QED
    BY <1>1, <1>2, <2>1, <2>2, <2>3, Unfolded DEF TypeOK
<1>11. PlaceInv'
  BY <1>1, <1>2, <1>3, <1>4, <1>6, Unfolded, Constants DEF PlaceInv, Rotating
<1>12. ThreadInv'
  <2>1. file = "freed"
    BY <1>2, Unfolded DEF PlaceInv, Rotating
  <2> QED
    BY <1>1, <1>2, <1>3, <1>5, <1>6, <2>1 DEF ThreadInv
<1>13. SlotInv'
  BY <1>1, <1>2, Unfolded, Constants DEF SlotInv
<1>14. AgeInv'
  BY <1>1, <1>2, Unfolded, Constants DEF AgeInv
<1>15. MisuseExplained'
  BY <1>1, <1>2, Unfolded, Constants DEF MisuseExplained
<1>16. Forward
  BY <1>1, <1>2, Unfolded, Constants DEF Forward
<1> QED
  BY <1>10, <1>11, <1>12, <1>13, <1>14, <1>15, <1>16, Unfolded, ForwardKeepsReads DEF IInv

LEMMA MonitorEndsKeeps ==
  ASSUME IInv, MonitorEnds
  PROVE  IInv'
<1>1. /\ now' = now /\ keep' = keep /\ live' = live /\ logSlot' = logSlot
      /\ file' = file /\ main' = main /\ copy' = copy /\ size' = size /\ lz4' = lz4
      /\ mtime' = mtime /\ threads' = threads /\ rd' = rd /\ reads' = reads
      /\ told' = told /\ faults' = faults /\ misuse' = misuse /\ late' = late
      /\ failed' = failed
      /\ cut' = cut /\ refused' = refused
  BY DEF MonitorEnds, Monitor, fileVars, readVars, historyVars
<1>2. /\ ~misuse /\ monitor = "poll" /\ monitor' = "ended" /\ main = "wait"
  BY DEF MonitorEnds, Monitor
<1>10. TypeOK'
  BY <1>1, <1>2, Unfolded, Constants DEF TypeOK
<1>11. PlaceInv'
  BY <1>1, <1>2, Unfolded, Constants DEF PlaceInv, Rotating
<1>12. ThreadInv'
  BY <1>1, <1>2, Unfolded, Constants DEF ThreadInv
<1>13. SlotInv'
  BY <1>1, <1>2, Unfolded, Constants DEF SlotInv
<1>14. AgeInv'
  BY <1>1, <1>2, Unfolded, Constants DEF AgeInv
<1>15. MisuseExplained'
  BY <1>1, <1>2, Unfolded, Constants DEF MisuseExplained
<1>16. Forward
  BY <1>1, <1>2, Unfolded, Constants DEF Forward
<1> QED
  BY <1>10, <1>11, <1>12, <1>13, <1>14, <1>15, <1>16, Unfolded, ForwardKeepsReads DEF IInv

-----------------------------------------------------------------------------
(* The background thread *)

(* There is no thread but the one that takes a step.                       *)
LEMMA OnlyThread ==
  ASSUME IInv, NEW t \in threads, NEW from, NEW to, At(t, from, to),
         to \in {"size", "sized", "lz4", "done"}
  PROVE  /\ t.at = from /\ t \in Threads
         /\ \E u \in Threads : /\ threads' = {u}
                              /\ u.at = to /\ u.slot = t.slot /\ u.src = t.src
<1> DEFINE u == [t EXCEPT !.at = to]
<1>1. threads = {t} /\ t \in Threads
  BY Unfolded DEF PlaceInv
<1>2. threads' = {u} /\ t.at = from
  BY <1>1 DEF At
<1>3. u \in Threads /\ u.at = to /\ u.slot = t.slot /\ u.src = t.src
  BY <1>1 DEF Threads
<1> QED
  BY <1>1, <1>2, <1>3

(* Nothing is archived without the copy.                                   *)
LEMMA NoArchiveKeeps ==
  ASSUME IInv, NEW t \in threads, NoArchive(t)
  PROVE  IInv'
<1>1. /\ now' = now /\ keep' = keep /\ live' = live /\ logSlot' = logSlot
      /\ file' = file /\ monitor' = monitor /\ main' = main /\ copy' = copy
      /\ size' = size /\ lz4' = lz4 /\ mtime' = mtime /\ rd' = rd /\ reads' = reads
      /\ told' = told /\ misuse' = misuse /\ late' = late /\ failed' = failed
      /\ cut' = cut /\ refused' = refused
  BY DEF NoArchive, At, daemonVars, fileVars, readVars, historyVars
<1>2. At(t, "begin", "done")
  BY DEF NoArchive
<1>3. faults' \in 0 .. MaxFaults /\ threads # {}
  BY Unfolded, Constants DEF NoArchive, Works, Fails, TypeOK
<1>4. PICK u \in Threads : threads' = {u} /\ u.at = "done" /\ u.slot = t.slot
  BY <1>2, OnlyThread
<1>10. TypeOK'
  BY <1>1, <1>3, <1>4, Unfolded DEF TypeOK
<1>11. PlaceInv'
  BY <1>1, <1>3, <1>4, Unfolded DEF PlaceInv, Rotating
<1>12. ThreadInv'
  BY <1>4 DEF ThreadInv
<1>13. SlotInv'
  BY <1>1, Unfolded DEF SlotInv
<1>14. AgeInv'
  BY <1>1, Unfolded DEF AgeInv
<1>15. MisuseExplained'
  BY <1>1, Unfolded DEF MisuseExplained
<1>16. Forward
  BY <1>1, Unfolded DEF Forward
<1> QED
  BY <1>10, <1>11, <1>12, <1>13, <1>14, <1>15, <1>16, Unfolded, ForwardKeepsReads DEF IInv

LEMMA SizeBeginKeeps ==
  ASSUME IInv, NEW t \in threads, SizeBegin(t)
  PROVE  IInv'
<1> DEFINE c == copy[t.slot]
           src == IF c.state = "torn" THEN Broken(c) ELSE c
           v == [t EXCEPT !.at = "size", !.src = src]
<1>1. /\ now' = now /\ keep' = keep /\ live' = live /\ logSlot' = logSlot
      /\ file' = file /\ monitor' = monitor /\ main' = main /\ copy' = copy
      /\ lz4' = lz4 /\ mtime' = mtime /\ rd' = rd /\ reads' = reads /\ told' = told
      /\ faults' = faults /\ misuse' = misuse /\ late' = late /\ failed' = failed
      /\ cut' = cut /\ refused' \subseteq refused
  BY DEF SizeBegin, daemonVars, readVars
<1>2. /\ t.at = "begin" /\ c.state # "absent"
      /\ threads' = (threads \ {t}) \cup {v}
      /\ size' = [size EXCEPT ![t.slot] = Torn(src)]
  BY DEF SizeBegin
<1>3. t \in Threads /\ t.slot \in Slot /\ threads # {} /\ c \in Files /\ src \in Files
  BY Unfolded, FileTypes
<1>4. t.slot = logSlot => failed /\ file = "freed" /\ (misuse \/ monitor \in {"poll", "ended"})
  BY <1>2, Unfolded DEF ThreadInv
<1>5. c.state \in {"torn", "whole"}
  BY <1>2, <1>3, Unfolded DEF SlotInv, Files
<1>6. \/ copy[t.slot].state = "whole" /\ src = copy[t.slot]
      \/ copy[t.slot].state = "torn" /\ src = Broken(copy[t.slot])
  BY <1>5
<1> HIDE DEF c, src
<1>7. threads' = {v} /\ v \in Threads /\ v.slot = t.slot /\ v.at = "size" /\ v.src = src
  <2>1. threads' = {v}
    BY <1>2, Unfolded DEF PlaceInv
  <2> QED
    BY <1>3, <2>1 DEF Threads
<1> HIDE DEF v
<1>8. size' \in [Slot -> Files]
  BY <1>2, <1>3, Unfolded, FileTypes
<1>10. TypeOK'
  BY <1>1, <1>7, <1>8, Unfolded DEF TypeOK
<1>11. PlaceInv'
  BY <1>1, <1>3, <1>7, Unfolded DEF PlaceInv, Rotating
<1>12. ThreadInv'
  BY <1>1, <1>4, <1>6, <1>7 DEF ThreadInv
<1>13. SlotInv'
  BY <1>1, Unfolded, Constants DEF SlotInv
<1>14. AgeInv'
  BY <1>1, Unfolded, Constants DEF AgeInv
<1>15. MisuseExplained'
  BY <1>1, Unfolded, Constants DEF MisuseExplained
<1>16. Forward
  BY <1>1, Unfolded, Constants DEF Forward
<1> QED
  BY <1>10, <1>11, <1>12, <1>13, <1>14, <1>15, <1>16, Unfolded, ForwardKeepsReads DEF IInv

(* The sizes are those of the source, or the slot is one of the refused.   *)
LEMMA SizeEndKeeps ==
  ASSUME IInv, NEW t \in threads, SizeEnd(t)
  PROVE  IInv'
<1>1. /\ now' = now /\ keep' = keep /\ live' = live /\ logSlot' = logSlot
      /\ file' = file /\ monitor' = monitor /\ main' = main /\ copy' = copy
      /\ lz4' = lz4 /\ mtime' = mtime /\ rd' = rd /\ reads' = reads /\ told' = told
      /\ misuse' = misuse /\ late' = late /\ failed' = failed /\ cut' = cut
  BY DEF SizeEnd, At, daemonVars, readVars
<1>2. /\ At(t, "size", "sized")
      /\ \/ faults' = faults /\ size' = [size EXCEPT ![t.slot] = t.src] /\ refused' = refused
         \/ /\ faults < MaxFaults /\ faults' = faults + 1
            /\ size' = size /\ refused' = refused \cup {t.slot}
  BY DEF SizeEnd, At, Works, Fails
<1>3. t \in Threads /\ t.slot \in Slot /\ t.src \in Files /\ threads # {}
  BY Unfolded
<1>4. PICK u \in Threads : /\ threads' = {u} /\ t.at = "size"
                            /\ u.at = "sized" /\ u.slot = t.slot /\ u.src = t.src
  BY <1>2, OnlyThread
<1>5. /\ t.slot = logSlot => failed /\ file = "freed" /\ (misuse \/ monitor \in {"poll", "ended"})
      /\ \/ copy[t.slot].state = "whole" /\ t.src = copy[t.slot]
         \/ copy[t.slot].state = "torn" /\ t.src = Broken(copy[t.slot])
  BY <1>4, Unfolded DEF ThreadInv
<1>6. size' \in [Slot -> Files] /\ (size'[t.slot] = t.src \/ t.slot \in refused')
  BY <1>2, <1>3, Unfolded
<1>7. refused' \subseteq Slot /\ faults' \in 0 .. MaxFaults
  BY <1>2, <1>3, Unfolded, Constants DEF TypeOK
<1>10. TypeOK'
  BY <1>1, <1>4, <1>6, <1>7, Unfolded DEF TypeOK
<1>11. PlaceInv'
  BY <1>1, <1>3, <1>4, Unfolded DEF PlaceInv, Rotating
<1>12. ThreadInv'
  BY <1>1, <1>4, <1>5, <1>6 DEF ThreadInv
<1>13. SlotInv'
  BY <1>1, Unfolded, Constants DEF SlotInv
<1>14. AgeInv'
  BY <1>1, Unfolded, Constants DEF AgeInv
<1>15. MisuseExplained'
  BY <1>1, Unfolded, Constants DEF MisuseExplained
<1>16. Forward
  BY <1>1, Unfolded, Constants DEF Forward
<1> QED
  BY <1>10, <1>11, <1>12, <1>13, <1>14, <1>15, <1>16, Unfolded, ForwardKeepsReads DEF IInv

LEMMA Lz4BeginKeeps ==
  ASSUME IInv, NEW t \in threads, Lz4Begin(t)
  PROVE  IInv'
<1>1. /\ now' = now /\ keep' = keep /\ live' = live /\ logSlot' = logSlot
      /\ file' = file /\ monitor' = monitor /\ main' = main /\ copy' = copy
      /\ size' = size /\ rd' = rd /\ reads' = reads /\ told' = told
      /\ faults' = faults /\ misuse' = misuse /\ late' = late /\ failed' = failed
      /\ cut' = cut /\ refused' = refused
  BY DEF Lz4Begin, At, daemonVars, readVars, historyVars
<1>2. /\ At(t, "sized", "lz4")
      /\ lz4' = [lz4 EXCEPT ![t.slot] = Torn(t.src)]
      /\ mtime' = [mtime EXCEPT ![t.slot] = Day(now)]
  BY DEF Lz4Begin, At
<1>3. t \in Threads /\ t.slot \in Slot /\ t.src \in Files /\ threads # {}
  BY Unfolded
<1>4. PICK u \in Threads : /\ threads' = {u} /\ t.at = "sized"
                            /\ u.at = "lz4" /\ u.slot = t.slot /\ u.src = t.src
  BY <1>2, OnlyThread
<1>5. /\ t.slot = logSlot => failed /\ file = "freed" /\ (misuse \/ monitor \in {"poll", "ended"})
      /\ \/ copy[t.slot].state = "whole" /\ t.src = copy[t.slot]
         \/ copy[t.slot].state = "torn" /\ t.src = Broken(copy[t.slot])
  BY <1>4, Unfolded DEF ThreadInv
<1>6. /\ lz4' \in [Slot -> Files]
      /\ lz4'[t.slot].state = "torn"
      /\ \A s \in Slot : lz4'[s] = lz4[s] \/ (s = t.slot /\ lz4'[s].data = t.src.data)
  BY <1>2, <1>3, Unfolded, FileTypes
<1>7. mtime' \in [Slot -> 0 .. Day(MaxTime)]
  BY <1>2, <1>3, Unfolded, DayType DEF TypeOK
<1>8. size[t.slot] = t.src \/ t.slot \in refused
  BY <1>4, Unfolded DEF ThreadInv
<1>9. t.src.data = copy[t.slot].data
  BY <1>3, <1>5, Unfolded, FileTypes
<1>10. TypeOK'
  BY <1>1, <1>4, <1>6, <1>7, Unfolded DEF TypeOK
<1>11. PlaceInv'
  BY <1>1, <1>3, <1>4, Unfolded DEF PlaceInv, Rotating
<1>12. ThreadInv'
  BY <1>1, <1>4, <1>5, <1>6, <1>8 DEF ThreadInv
<1>13. SlotInv'
  BY <1>1, <1>3, <1>6, <1>9, Unfolded DEF SlotInv
<1>14. AgeInv'
  <2> SUFFICES ASSUME ~failed, NEW s \in Slot
               PROVE  /\ \A r \in copy'[s].data \cup lz4'[s].data : r < now
                      /\ \A r \in lz4'[s].data, x \in live : r < x
                      /\ \/ main = "gone"
                         \/ monitor \in {"copying", "join", "open"} /\ s = logSlot
                         \/ \A r \in copy'[s].data, x \in live : r < x
    BY <1>1 DEF AgeInv
  <2>1. main # "gone" /\ t.slot # logSlot
    BY <1>3, <1>5, Unfolded DEF PlaceInv
  <2>2. \A r \in t.src.data : r < now /\ \A x \in live : r < x
    BY <1>3, <1>9, <2>1, Unfolded DEF AgeInv
  <2> QED
    BY <1>1, <1>6, <2>2, Unfolded DEF AgeInv
<1>15. MisuseExplained'
  BY <1>1, <1>2, Unfolded, Constants DEF MisuseExplained
<1>16. Forward
  BY <1>1, <1>2, Unfolded, Constants DEF Forward
<1> QED
  BY <1>10, <1>11, <1>12, <1>13, <1>14, <1>15, <1>16, Unfolded, ForwardKeepsReads DEF IInv

(* The archive of the day before stays, with the sizes of the new one.     *)
LEMMA NoLz4Keeps ==
  ASSUME IInv, NEW t \in threads, NoLz4(t)
  PROVE  IInv'
<1>1. /\ now' = now /\ keep' = keep /\ live' = live /\ logSlot' = logSlot
      /\ file' = file /\ monitor' = monitor /\ main' = main /\ copy' = copy
      /\ size' = size /\ lz4' = lz4 /\ mtime' = mtime /\ rd' = rd /\ reads' = reads
      /\ told' = told /\ misuse' = misuse /\ late' = late /\ failed' = failed
      /\ cut' = cut /\ refused' = refused
  BY DEF NoLz4, At, daemonVars, fileVars, readVars, historyVars
<1>2. At(t, "sized", "done")
  BY DEF NoLz4
<1>3. faults' \in 0 .. MaxFaults /\ threads # {}
  BY Unfolded, Constants DEF NoLz4, Fails, TypeOK
<1>4. PICK u \in Threads : threads' = {u} /\ u.at = "done" /\ u.slot = t.slot
  BY <1>2, OnlyThread
<1>10. TypeOK'
  BY <1>1, <1>3, <1>4, Unfolded DEF TypeOK
<1>11. PlaceInv'
  BY <1>1, <1>3, <1>4, Unfolded DEF PlaceInv, Rotating
<1>12. ThreadInv'
  BY <1>4 DEF ThreadInv
<1>13. SlotInv'
  BY <1>1, Unfolded DEF SlotInv
<1>14. AgeInv'
  BY <1>1, Unfolded DEF AgeInv
<1>15. MisuseExplained'
  BY <1>1, Unfolded DEF MisuseExplained
<1>16. Forward
  BY <1>1, Unfolded DEF Forward
<1> QED
  BY <1>10, <1>11, <1>12, <1>13, <1>14, <1>15, <1>16, Unfolded, ForwardKeepsReads DEF IInv

LEMMA Lz4EndKeeps ==
  ASSUME IInv, NEW t \in threads, Lz4End(t)
  PROVE  IInv'
<1>1. /\ now' = now /\ keep' = keep /\ live' = live /\ logSlot' = logSlot
      /\ file' = file /\ monitor' = monitor /\ main' = main /\ size' = size
      /\ rd' = rd /\ reads' = reads /\ told' = told /\ misuse' = misuse
      /\ late' = late /\ failed' = failed
      /\ cut' = cut
  BY DEF Lz4End, Works, Fails, WriteLz4, RemoveCopy, At, daemonVars, readVars
<1>2. /\ At(t, "lz4", "done")
      /\ \/ /\ faults' = faults /\ refused' = refused
            /\ lz4' = [lz4 EXCEPT ![t.slot] = t.src]
            /\ mtime' = [mtime EXCEPT ![t.slot] = Day(now)]
            /\ copy' = [copy EXCEPT ![t.slot] = Absent]
         \/ /\ faults < MaxFaults /\ faults' = faults + 1 /\ refused' = refused
            /\ lz4' = lz4 /\ mtime' = mtime /\ copy' = copy
         \/ /\ faults < MaxFaults /\ faults' = faults + 1
            /\ refused' = refused \cup {t.slot}
            /\ lz4' = lz4 /\ mtime' = mtime
            /\ copy' = [copy EXCEPT ![t.slot] = Absent]
  BY DEF Lz4End, Works, Fails, WriteLz4, RemoveCopy, At
<1>3. t \in Threads /\ t.slot \in Slot /\ t.src \in Files /\ threads # {}
  BY Unfolded
<1>4. PICK u \in Threads : /\ threads' = {u} /\ t.at = "lz4"
                            /\ u.at = "done" /\ u.slot = t.slot /\ u.src = t.src
  BY <1>2, OnlyThread
<1>5. /\ t.slot = logSlot => failed /\ file = "freed" /\ (misuse \/ monitor \in {"poll", "ended"})
      /\ \/ copy[t.slot].state = "whole" /\ t.src = copy[t.slot]
         \/ copy[t.slot].state = "torn" /\ t.src = Broken(copy[t.slot])
  BY <1>4, Unfolded DEF ThreadInv
<1>6. /\ lz4' \in [Slot -> Files] /\ copy' \in [Slot -> Files]
      /\ \A s \in Slot :
           /\ \/ lz4'[s] = lz4[s]
              \/ s = t.slot /\ lz4'[s] = t.src
           /\ copy'[s] \in {copy[s], Absent}
  BY <1>2, <1>3, Unfolded, FileTypes
<1>7. mtime' \in [Slot -> 0 .. Day(MaxTime)]
  <2>1. mtime \in [Slot -> 0 .. Day(MaxTime)] /\ Day(now) \in 0 .. Day(MaxTime)
    BY Unfolded, DayType DEF TypeOK
  <2> QED
    BY <1>2, <1>3, <2>1
<1>8. t.src.data = copy[t.slot].data
  BY <1>3, <1>5, Unfolded, FileTypes
<1>9. Absent.state # "broken" /\ Absent.data = {}
  BY FileTypes
<1>10. TypeOK'
  <2>1. refused' \subseteq Slot /\ faults' \in 0 .. MaxFaults
    BY <1>2, <1>3, Unfolded, Constants DEF TypeOK
  <2> QED
    BY <1>1, <1>4, <1>6, <1>7, <2>1, Unfolded DEF TypeOK
<1>11. PlaceInv'
  BY <1>1, <1>3, <1>4, Unfolded DEF PlaceInv, Rotating
<1>12. ThreadInv'
  BY <1>1, <1>4, <1>5 DEF ThreadInv
<1>13. SlotInv'
  BY <1>1, <1>3, <1>6, <1>8, <1>9, Unfolded DEF SlotInv
<1>14. AgeInv'
  <2> SUFFICES ASSUME ~failed, NEW s \in Slot
               PROVE  /\ \A r \in copy'[s].data \cup lz4'[s].data : r < now
                      /\ \A r \in lz4'[s].data, x \in live : r < x
                      /\ \/ main = "gone"
                         \/ monitor \in {"copying", "join", "open"} /\ s = logSlot
                         \/ \A r \in copy'[s].data, x \in live : r < x
    BY <1>1 DEF AgeInv
  <2>1. main # "gone" /\ t.slot # logSlot
    BY <1>3, <1>5, Unfolded DEF PlaceInv
  <2>2. \A r \in t.src.data : r < now /\ \A x \in live : r < x
    BY <1>3, <1>8, <2>1, Unfolded DEF AgeInv
  <2> QED
    BY <1>6, <1>9, <2>2, Unfolded DEF AgeInv
<1>15. MisuseExplained'
  BY <1>1, <1>2, Unfolded, Constants DEF MisuseExplained
<1>16. Forward
  BY <1>1, <1>2, Unfolded, Constants DEF Forward
<1> QED
  BY <1>10, <1>11, <1>12, <1>13, <1>14, <1>15, <1>16, Unfolded, ForwardKeepsReads DEF IInv

-----------------------------------------------------------------------------
(* The end of the daemon, and its next start *)

LEMMA TerminateKeeps ==
  ASSUME IInv, Terminate
  PROVE  IInv'
<1>1. /\ now' = now /\ keep' = keep /\ live' = live /\ logSlot' = logSlot
      /\ file' = file /\ monitor' = monitor /\ copy' = copy /\ size' = size
      /\ lz4' = lz4 /\ mtime' = mtime /\ threads' = threads /\ rd' = rd
      /\ reads' = reads /\ told' = told /\ misuse' = misuse /\ late' = late
      /\ failed' = failed
      /\ cut' = cut /\ refused' = refused
  BY DEF Terminate, Fails, historyVars, daemonRest, fileVars, readVars
<1>2. /\ main = "loop" /\ main' = "wait"
      /\ faults < MaxFaults /\ faults' = faults + 1
  BY DEF Terminate, Fails
<1>10. TypeOK'
  BY <1>1, <1>2, Unfolded, Constants DEF TypeOK
<1>11. PlaceInv'
  BY <1>1, <1>2, Unfolded, Constants DEF PlaceInv, Rotating
<1>12. ThreadInv'
  BY <1>1, <1>2, Unfolded, Constants DEF ThreadInv
<1>13. SlotInv'
  BY <1>1, <1>2, Unfolded, Constants DEF SlotInv
<1>14. AgeInv'
  BY <1>1, <1>2, Unfolded, Constants DEF AgeInv
<1>15. MisuseExplained'
  BY <1>1, <1>2, Unfolded, Constants DEF MisuseExplained
<1>16. Forward
  BY <1>1, <1>2, Unfolded, Constants DEF Forward
<1> QED
  BY <1>10, <1>11, <1>12, <1>13, <1>14, <1>15, <1>16, Unfolded, ForwardKeepsReads DEF IInv

LEMMA CloseKeeps ==
  ASSUME IInv, Close
  PROVE  IInv'
<1>1. /\ now' = now /\ keep' = keep /\ live' = live /\ logSlot' = logSlot
      /\ monitor' = monitor /\ copy' = copy /\ size' = size /\ lz4' = lz4
      /\ mtime' = mtime /\ threads' = threads /\ rd' = rd /\ reads' = reads
      /\ told' = told /\ faults' = faults /\ failed' = failed
      /\ cut' = cut /\ refused' = refused
  BY DEF Close, daemonRest, fileVars, readVars
<1>2. /\ main = "wait" /\ main' = "closed" /\ file' = "freed"
      /\ late' = (late \/ monitor # "ended")
      /\ misuse' = (misuse \/ file = "freed")
  BY DEF Close
<1>10. TypeOK'
  BY <1>1, <1>2, Unfolded, Constants DEF TypeOK
<1>11. PlaceInv'
  BY <1>1, <1>2, Unfolded, Constants DEF PlaceInv, Rotating
<1>12. ThreadInv'
  BY <1>1, <1>2, Unfolded, Constants DEF ThreadInv
<1>13. SlotInv'
  BY <1>1, <1>2, Unfolded, Constants DEF SlotInv
<1>14. AgeInv'
  BY <1>1, <1>2, Unfolded, Constants DEF AgeInv
<1>15. MisuseExplained'
  BY <1>1, <1>2, Unfolded, Constants DEF MisuseExplained, PlaceInv, Rotating
<1>16. Forward
  BY <1>1, <1>2, Unfolded, Constants DEF Forward
<1> QED
  BY <1>10, <1>11, <1>12, <1>13, <1>14, <1>15, <1>16, Unfolded, ForwardKeepsReads DEF IInv

(* The process ends; its files stay as they are.                           *)
LEMMA GoneKeeps ==
  ASSUME IInv, Gone, UNCHANGED goneRest, faults' \in 0 .. MaxFaults
  PROVE  IInv'
<1>1. /\ now' = now /\ keep' = keep /\ live' = live /\ copy' = copy /\ size' = size
      /\ lz4' = lz4 /\ mtime' = mtime /\ rd' = rd /\ reads' = reads /\ told' = told
      /\ failed' = failed /\ refused' = refused
  BY DEF goneRest, fileVars, readVars
<1>2. /\ main' = "gone" /\ monitor' = "ended" /\ threads' = {}
      /\ misuse' = FALSE /\ late' = FALSE /\ file' = "freed" /\ logSlot' = NoSlot
      /\ cut' \in BOOLEAN
  BY Unfolded DEF Gone, TypeOK
<1>10. TypeOK'
  BY <1>1, <1>2, Unfolded DEF TypeOK
<1>11. PlaceInv'
  BY <1>1, <1>2 DEF PlaceInv, Rotating
<1>12. ThreadInv'
  BY <1>2 DEF ThreadInv
<1>13. SlotInv'
  BY <1>1, <1>2, Unfolded DEF SlotInv
<1>14. AgeInv'
  BY <1>1, <1>2, Unfolded DEF AgeInv
<1>15. MisuseExplained'
  BY <1>2 DEF MisuseExplained
<1>16. Forward
  BY <1>1, Unfolded DEF Forward
<1> QED
  BY <1>10, <1>11, <1>12, <1>13, <1>14, <1>15, <1>16, Unfolded, ForwardKeepsReads DEF IInv

(* The daemon ends of itself, of a copy that cannot be mapped, or of a     *)
(* crash.                                                                  *)
LEMMA EndKeeps ==
  ASSUME IInv, Exit \/ Crash \/ \E t \in threads : EmptyCopy(t)
  PROVE  IInv'
<1>1. Gone /\ UNCHANGED goneRest /\ (faults' = faults \/ Fails)
  BY DEF Exit, Crash, EmptyCopy
<1>2. faults' \in 0 .. MaxFaults
  BY <1>1, Unfolded, Constants DEF Fails, TypeOK
<1> QED
  BY <1>1, <1>2, GoneKeeps

LEMMA StartKeeps ==
  ASSUME IInv, Start
  PROVE  IInv'
<1>1. /\ now' = now /\ keep' = keep /\ copy' = copy /\ size' = size /\ lz4' = lz4
      /\ mtime' = mtime /\ threads' = threads /\ rd' = rd /\ reads' = reads
      /\ told' = told
      /\ refused' = refused
  BY DEF Start, Works, Fails, daemonRest, fileVars, readVars
<1>2. /\ main = "gone" /\ main' = "loop" /\ monitor' = "poll"
      /\ misuse' = FALSE /\ late' = FALSE
      /\ \/ /\ faults' = faults /\ live' = {} /\ cut' = FALSE /\ logSlot' = SlotOf(now)
            /\ file' = "open" /\ failed' = failed
         \/ /\ faults < MaxFaults /\ faults' = faults + 1 /\ live' = live /\ cut' = cut
            /\ logSlot' = NoSlot /\ file' = "freed" /\ failed' = TRUE
  BY DEF Start, Works, Fails
<1>3. threads = {} /\ SlotOf(now) \in Slot
  BY <1>2, Unfolded, SlotType DEF PlaceInv
<1>10. TypeOK'
  <2>1. faults' \in 0 .. MaxFaults
    BY <1>2, Unfolded, Constants DEF TypeOK
  <2>2. /\ live' \subseteq Records /\ logSlot' \in Slot \cup {NoSlot} /\ cut' \in BOOLEAN
        /\ file' \in {"open", "freed"} /\ failed' \in BOOLEAN
    BY <1>2, <1>3, Unfolded DEF TypeOK
  <2> QED
    BY <1>1, <1>2, <2>1, <2>2, Unfolded DEF TypeOK
<1>11. PlaceInv'
  BY <1>1, <1>2, <1>3, Constants DEF PlaceInv, Rotating
<1>12. ThreadInv'
  BY <1>1, <1>3 DEF ThreadInv
<1>13. SlotInv'
  BY <1>1, <1>2, Unfolded, Constants DEF SlotInv
<1>14. AgeInv'
  BY <1>1, <1>2, Unfolded, Constants DEF AgeInv
<1>15. MisuseExplained'
  BY <1>1, <1>2, Unfolded, Constants DEF MisuseExplained
<1>16. Forward
  BY <1>1, <1>2, Unfolded, Constants DEF Forward
<1> QED
  BY <1>10, <1>11, <1>12, <1>13, <1>14, <1>15, <1>16, Unfolded, ForwardKeepsReads DEF IInv

-----------------------------------------------------------------------------
(* A client *)

(* A step of the reader is no step of anyone else.                         *)
LEMMA ReaderKeeps ==
  ASSUME IInv, UNCHANGED readRest, reads' \in 0 .. MaxReads, rd' \in Readers,
         told' \in Seq(SUBSET Records), ReplayInOrder', ReadInv'
  PROVE  IInv'
<1>1. /\ now' = now /\ keep' = keep /\ live' = live /\ logSlot' = logSlot /\ file' = file
      /\ monitor' = monitor /\ main' = main /\ copy' = copy /\ size' = size /\ lz4' = lz4
      /\ mtime' = mtime /\ threads' = threads /\ faults' = faults /\ misuse' = misuse
      /\ late' = late /\ failed' = failed /\ cut' = cut /\ refused' = refused
  BY DEF readRest, daemonVars, fileVars, historyVars
<1>2. TypeOK'
  BY <1>1, Unfolded DEF TypeOK
<1>3. PlaceInv' /\ MisuseExplained'
  BY <1>1, Unfolded DEF PlaceInv, Rotating, MisuseExplained
<1>4. ThreadInv'
  BY <1>1, Unfolded DEF ThreadInv
<1>5. SlotInv'
  BY <1>1, Unfolded DEF SlotInv
<1>6. AgeInv'
  BY <1>1, Unfolded DEF AgeInv
<1> QED
  BY <1>2, <1>3, <1>4, <1>5, <1>6 DEF IInv

(* A reader that reads nothing.                                            *)
LEMMA IdleType ==
  Idle \in Readers /\ Idle.at = "idle" /\ Idle.from = 0 /\ Idle.to = 0 /\ Idle.todo = {}
<1>1. 0 \in Records /\ Absent \in Files
  BY Constants, FileTypes
<1> QED
  BY <1>1 DEF Idle, Readers

(* What a reader has.                                                      *)
LEMMA ReaderTypes ==
  ASSUME IInv
  PROVE  /\ rd \in Readers /\ rd.from \in Nat /\ rd.to \in Nat /\ rd.todo \subseteq Listed
         /\ rd.from \in Records /\ rd.to \in Records
         /\ \A f \in rd.todo : /\ f.hour \in Nat /\ f.path \in Paths
                               /\ f.path.kind \in {"log", "copy", "lz4"}
                               /\ f.path.kind # "log" => f.path.slot \in Slot
         /\ rd.from \div PerSlot \in Nat /\ rd.to \div PerSlot \in Nat /\ Hours \in Int
         /\ DOMAIN told = 1 .. Len(told) /\ Len(told) \in Nat
         /\ \A i \in DOMAIN told : \A r \in told[i] : r \in Nat /\ r \div PerSlot \in Nat
<1>1. rd \in Readers /\ told \in Seq(SUBSET Records)
  BY Unfolded DEF TypeOK
<1>2. /\ rd.from \in Records /\ rd.to \in Records /\ rd.todo \subseteq Listed
      /\ rd.from \in Nat /\ rd.to \in Nat
  BY <1>1, Constants DEF Readers
<1>3. rd.from \div PerSlot \in Nat /\ rd.to \div PerSlot \in Nat
  BY <1>2, Constants, DivMod
<1>4. \A p \in Paths : p.kind \in {"log", "copy", "lz4"} /\ (p.kind # "log" => p.slot \in Slot)
  BY DEF Paths, Log, Copied, Archived
<1>5. \A f \in rd.todo : f.hour \in Nat /\ f.path \in Paths
  BY <1>2 DEF Listed
<1>6. DOMAIN told = 1 .. Len(told) /\ Len(told) \in Nat
  BY <1>1, ToldTypes
<1>7. \A i \in DOMAIN told : \A r \in told[i] : r \in Nat
  BY <1>1, ToldTypes, Constants
<1>8. \A i \in DOMAIN told : \A r \in told[i] : r \div PerSlot \in Nat
  BY <1>7, Constants, DivMod
<1> QED
  BY <1>1, <1>2, <1>3, <1>4, <1>5, <1>6, <1>7, <1>8 DEF Hours

(* The reader goes on in the same file, or ends in it.                     *)
LEMMA SameFileKeeps ==
  ASSUME IInv, UNCHANGED readRest, told' = told, rd.at # "idle",
         rd'.from = rd.from, rd'.to = rd.to, rd'.todo = rd.todo
  PROVE  ReplayInOrder' /\ ReadInv'
<1>1. now' = now /\ live' = live /\ failed' = failed
  BY DEF readRest, daemonVars, historyVars
<1>2. Hours' = Hours
  BY DEF Hours
<1>3. ReplayInOrder'
  BY <1>1, Unfolded DEF ReplayInOrder
<1>4. \A f \in rd.todo : StillAhead(f) => StillAhead(f)'
  BY <1>1, <1>2 DEF StillAhead
<1>5. ReadInv'
  BY <1>1, <1>2, <1>4, Unfolded DEF ReadInv
<1> QED
  BY <1>3, <1>5

(* A file that is done with.                                               *)
LEMMA DoneEffect ==
  ASSUME IInv, Done
  PROVE  /\ rd' \in Readers /\ rd'.at = "next" /\ rd'.from = rd.from /\ rd'.to = rd.to
         /\ rd'.todo = rd.todo \ {NextFile}
<1>1. rd \in Readers /\ Absent \in Files
  BY ReaderTypes, FileTypes
<1>2. rd.todo \ {NextFile} \subseteq Listed
  BY ReaderTypes
<1> DEFINE todo == rd.todo \ {NextFile}
<1>3. rd' = [rd EXCEPT !.at = "next", !.todo = todo, !.lz4 = Absent, !.size = Absent]
  BY DEF Done
<1> HIDE DEF todo
<1>4. rd' \in Readers /\ rd'.at = "next" /\ rd'.from = rd.from /\ rd'.to = rd.to
  BY <1>1, <1>2, <1>3 DEF Readers, todo
<1>5. rd'.todo = todo
  BY <1>1, <1>3 DEF Readers
<1> QED
  BY <1>4, <1>5 DEF todo

(* A file that gives nothing is passed over.                               *)
LEMMA SkipKeeps ==
  ASSUME IInv, UNCHANGED readRest, rd.at # "idle", Skip
  PROVE  ReplayInOrder' /\ ReadInv'
<1>1. now' = now /\ live' = live /\ failed' = failed /\ told' = told
  BY DEF readRest, daemonVars, historyVars, Skip
<1>2. rd'.from = rd.from /\ rd'.to = rd.to /\ rd'.todo \subseteq rd.todo
  BY DoneEffect DEF Skip
<1>3. Hours' = Hours
  BY <1>2 DEF Hours
<1>4. ReplayInOrder'
  BY <1>1, <1>2, Unfolded DEF ReplayInOrder
<1>5. \A f \in rd.todo : StillAhead(f) => StillAhead(f)'
  BY <1>1, <1>2, <1>3 DEF StillAhead
<1>6. ReadInv'
  BY <1>1, <1>2, <1>3, <1>5, Unfolded DEF ReadInv
<1> QED
  BY <1>4, <1>6

(* The records of an archive that are in the range are of the hour the     *)
(* archive was listed for, though it may have been written another day.    *)
LEMMA ArchiveOfItsHour ==
  ASSUME IInv, NEW f \in rd.todo, StillAhead(f), Hours < Slots, f.path.kind = "lz4",
         NEW r \in lz4[f.path.slot].data, rd.from <= r, r <= rd.to
  PROVE  r \in Nat /\ r \div PerSlot = rd.from \div PerSlot + f.hour
<1> DEFINE start == rd.from + PerSlot * f.hour
<1>1. f.path.slot \in Slot /\ f.hour \in Nat /\ rd.from \in Nat /\ rd.to \in Nat
  BY ReaderTypes
<1>2. r \in Nat /\ SlotOf(r) = f.path.slot
  BY <1>1, Unfolded DEF SlotInv
<1>3. f.path.slot = SlotOf(start) /\ f.hour <= Hours
  BY DEF StillAhead
<1>4. start \in Nat
  BY <1>1, Constants
<1>5. start \div PerSlot = rd.from \div PerSlot + f.hour
  BY <1>1, Constants, DivAdd
<1>6. rd.from \div PerSlot <= r \div PerSlot /\ r \div PerSlot <= rd.to \div PerSlot
  BY <1>1, <1>2, Constants, DivMonotone
<1> HIDE DEF start
<1> DEFINE a == rd.from \div PerSlot
           b == rd.to \div PerSlot
           c == r \div PerSlot
           d == start \div PerSlot
<1>7. /\ a \in Nat /\ b \in Nat /\ c \in Nat /\ d = a + f.hour
      /\ a <= c /\ c <= b /\ f.hour <= b - a /\ b - a < Slots
  BY <1>2, <1>3, <1>5, <1>6, ReaderTypes, Constants, DivMod DEF Hours
<1>8. SlotOf(r) = SlotOf(start)
  BY <1>2, <1>3
<1>9. ASSUME c < d + Slots, d < c + Slots PROVE c = d
  BY <1>2, <1>4, <1>8, <1>9, SameHour
<1> HIDE DEF a, b, c, d
<1>10. c < d + Slots /\ d < c + Slots
  BY <1>1, <1>7, Constants
<1>11. c = a + f.hour
  BY <1>7, <1>9, <1>10
<1> QED
  BY <1>2, <1>11 DEF a, c

(* What a file gives is later than all that was reported, and earlier than *)
(* what is in the files after it.                                          *)
LEMMA TellKeeps ==
  ASSUME IInv, UNCHANGED readRest, rd.at # "idle", rd.todo # {}, NEW d, Tell(d),
         d \subseteq Records,
         NextFile.path.kind = "log" => d \subseteq live,
         NextFile.path.kind = "lz4" => d \subseteq lz4[NextFile.path.slot].data
  PROVE  /\ told' \in Seq(SUBSET Records)
         /\ ReplayInOrder' /\ ReadInv'
<1> DEFINE b == {r \in d : rd.from <= r /\ r <= rd.to}
           f == NextFile
           n == Len(told)
<1>1. /\ now' = now /\ live' = live /\ failed' = failed
  BY DEF readRest, daemonVars, historyVars
<1>2. /\ rd'.from = rd.from /\ rd'.to = rd.to /\ rd'.at = "next"
      /\ rd'.todo = rd.todo \ {f}
  BY DoneEffect DEF Tell
<1>3. Hours' = Hours
  BY <1>2 DEF Hours
<1>4. told \in Seq(SUBSET Records) /\ b \in SUBSET Records
  BY Unfolded DEF TypeOK
<1>5. told' = Append(told, b)
  BY DEF Tell
<1>6. f \in rd.todo /\ \A g \in rd.todo : f.hour <= g.hour
  BY Unfolded, NextFileIsFirst
<1>7. \A r \in b : r \in d /\ r \in Nat /\ rd.from <= r /\ r <= rd.to
  BY <1>4, Constants
<1> HIDE DEF b, f
<1>8. /\ told' \in Seq(SUBSET Records) /\ n \in Nat
      /\ DOMAIN told' = 1 .. n + 1 /\ DOMAIN told = 1 .. n /\ told'[n + 1] = b
      /\ \A i \in 1 .. n : told'[i] = told[i]
  BY <1>4, <1>5
<1> HIDE DEF n
<1>9. CASE failed \/ Hours >= Slots
  BY <1>1, <1>2, <1>3, <1>8, <1>9 DEF ReplayInOrder, ReadInv, Hours
<1>10. CASE ~failed /\ ~(Hours >= Slots)
  <2>1. /\ \A i \in 1 .. n : \A r \in told[i] : rd.from <= r /\ r <= rd.to
        /\ \A i, j \in 1 .. n : i < j => \A r \in told[i], t \in told[j] : r < t
    BY <1>8, <1>10, Unfolded DEF ReplayInOrder, Hours
  <2>2. ASSUME \A i \in 1 .. n : \A r \in told[i], t \in b : r < t
        PROVE  ReplayInOrder'
    <3>1. \A i \in 1 .. n + 1 : \A r \in told'[i] : rd.from <= r /\ r <= rd.to
      BY <1>7, <1>8, <2>1
    <3>2. \A i, j \in 1 .. n + 1 : i < j => \A r \in told'[i], t \in told'[j] : r < t
      BY <1>8, <2>1, <2>2
    <3> QED
      BY <1>2, <1>8, <3>1, <3>2 DEF ReplayInOrder
  <2>3. CASE told = <<>> /\ \A g, h \in rd.todo : g = h
    <3>1. n = 0 /\ rd'.todo = {}
      BY <1>2, <1>6, <2>3 DEF n
    <3> QED
      BY <1>8, <2>2, <3>1 DEF ReadInv
  <2>4. CASE ~(told = <<>> /\ \A g, h \in rd.todo : g = h)
    <3>1. /\ \A g \in rd.todo : StillAhead(g)
          /\ \A g, h \in rd.todo : g.hour = h.hour => g = h
      BY <1>10, <2>4, Unfolded DEF ReadInv
    <3>2. /\ rd.from \div PerSlot \in Nat /\ Hours \in Int
          /\ \A g \in rd.todo : g.hour \in Nat
      BY ReaderTypes
    <3>3. \A g \in rd'.todo : g \in rd.todo /\ f.hour < g.hour
      BY <1>2, <1>6, <3>1, <3>2
    <3>4. \A i \in 1 .. n : \A r \in told[i] :
             r \in Nat /\ r \div PerSlot \in Nat /\ r \div PerSlot < rd.from \div PerSlot + f.hour
      BY <1>6, <1>8, <3>1, ReaderTypes DEF StillAhead
    <3>5. CASE f.path.kind = "log"
      <4>1. b \subseteq live
        BY <1>7, <3>5 DEF f
      <4>2. \A i \in 1 .. n : \A r \in told[i], t \in b : r < t
        BY <1>6, <1>8, <3>1, <3>5, <4>1 DEF StillAhead
      <4>3. rd'.todo = {}
        BY <1>6, <3>1, <3>2, <3>3, <3>5 DEF StillAhead
      <4> QED
        BY <1>8, <2>2, <4>2, <4>3 DEF ReadInv
    <3>6. CASE f.path.kind = "lz4"
      <4>1. \A r \in b : r \in lz4[f.path.slot].data
        BY <1>7, <3>6 DEF f
      <4>2. \A r \in b : r \in Nat /\ r \div PerSlot = rd.from \div PerSlot + f.hour
        <5>1. Hours < Slots
          BY <1>10, <3>2, Constants
        <5> QED
          BY <1>6, <1>7, <3>1, <3>6, <4>1, <5>1, ArchiveOfItsHour
      <4>3. \A i \in 1 .. n : \A r \in told[i], t \in b : r < t
        BY <3>4, <4>2, EarlierHour
      <4>4. \A r \in b : r < now /\ \A t \in live : r < t
        <5>1. f.path.slot \in Slot
          BY <1>6, <3>6, ReaderTypes
        <5> QED
          BY <1>10, <4>1, <5>1, Unfolded DEF AgeInv
      <4>5. ASSUME NEW g \in rd'.todo PROVE StillAhead(g)'
        <5>1. g \in rd.todo /\ StillAhead(g) /\ f.hour < g.hour /\ g.hour \in Nat /\ f.hour \in Nat
          BY <1>6, <3>1, <3>2, <3>3
        <5>2. \A i \in 1 .. n + 1 : \A r \in told'[i] :
                 r \div PerSlot < rd.from \div PerSlot + g.hour
          <6>1. \A i \in 1 .. n : \A r \in told'[i] :
                   r \div PerSlot < rd.from \div PerSlot + g.hour
            BY <1>8, <5>1 DEF StillAhead
          <6>2. \A r \in b : r \div PerSlot < rd.from \div PerSlot + g.hour
            BY <3>2, <4>2, <5>1
          <6> QED
            BY <1>8, <6>1, <6>2
        <5>3. g.path.kind = "log" =>
                \A i \in 1 .. n + 1 : \A r \in told'[i] : r < now /\ \A t \in live : r < t
          BY <1>8, <4>4, <5>1 DEF StillAhead
        <5> QED
          BY <1>1, <1>2, <1>3, <1>8, <5>1, <5>2, <5>3 DEF StillAhead
      <4>6. \A g, h \in rd'.todo : g.hour = h.hour => g = h
        BY <3>1, <3>3
      <4> QED
        BY <1>8, <2>2, <4>3, <4>5, <4>6 DEF ReadInv
    <3>7. f.path.kind \in {"log", "lz4"}
      BY <1>6, <3>1, ReaderTypes DEF StillAhead
    <3> QED
      BY <3>5, <3>6, <3>7
  <2> QED
    BY <2>3, <2>4
<1> QED
  BY <1>8, <1>9, <1>10

(* enigmatic_client_replay_hours lists each file of the range once, and    *)
(* the log, if it is the hour it is now, last.                             *)
LEMMA ReplayKeeps ==
  ASSUME IInv, NEW from \in Records, NEW to \in Records, Replay(from, to)
  PROVE  IInv'
<1> DEFINE last == (to - from) \div PerSlot
           File(i) == [hour |-> i, path |-> FileOfHour(from, to, i)]
<1>1. from \in Nat /\ to \in Nat /\ from < to /\ last \in Nat
  <2>1. from \in Nat /\ to \in Nat /\ from < to
    BY Constants DEF Replay
  <2>2. to - from \in Nat
    BY <2>1
  <2> QED
    BY <2>1, <2>2, Constants, DivMod
<1>2. \A i \in 0 .. last : FileOfHour(from, to, i) \in Paths
  <2> SUFFICES ASSUME NEW i \in 0 .. last PROVE FileOfHour(from, to, i) \in Paths
    OBVIOUS
  <2>1. from + PerSlot * i \in Nat
    BY <1>1, Constants
  <2>2. SlotOf(from + PerSlot * i) \in Slot
    BY <2>1, SlotType
  <2> QED
    BY <2>2 DEF FileOfHour, Paths
<1>3. \A f \in ReplayFiles(from, to) : \E i \in 0 .. last : f = File(i)
  BY DEF ReplayFiles
<1>4. ReplayFiles(from, to) \in SUBSET Listed
  <2>1. \A i \in 0 .. last : File(i) \in Listed
    BY <1>1, <1>2 DEF Listed
  <2> HIDE DEF File
  <2> QED
    BY <1>3, <2>1
<1>5. /\ rd' \in Readers /\ rd'.at = "next" /\ rd'.from = from /\ rd'.to = to
      /\ rd'.todo = ReplayFiles(from, to)
  <2> DEFINE todo == ReplayFiles(from, to)
  <2>1. rd' = [Idle EXCEPT !.at = "next", !.from = from, !.to = to, !.todo = todo]
    BY DEF Replay
  <2>2. 0 \in Records /\ Absent \in Files /\ todo \in SUBSET Listed
    BY <1>4, Constants, FileTypes
  <2> HIDE DEF todo
  <2>3. /\ rd' \in Readers /\ rd'.at = "next" /\ rd'.from = from /\ rd'.to = to
        /\ rd'.todo = todo
    BY <2>1, <2>2 DEF Idle, Readers
  <2> QED
    BY <2>3 DEF todo
<1>6. told' = <<>> /\ UNCHANGED readRest /\ reads' \in 0 .. MaxReads
  <2>1. told' = <<>> /\ UNCHANGED readRest /\ reads < MaxReads /\ reads' = reads + 1
    BY DEF Replay
  <2>2. reads \in 0 .. MaxReads
    BY Unfolded DEF TypeOK
  <2> QED
    BY <2>1, <2>2, Constants
<1>7. ReplayInOrder'
  BY <1>6 DEF ReplayInOrder
<1>8. ASSUME Hours' < Slots, NEW f \in ReplayFiles(from, to)
      PROVE  StillAhead(f)'
  <2> DEFINE a == from \div PerSlot
             z == to \div PerSlot
  <2>1. Hours' = z - a /\ a \in Nat /\ z \in Nat
    BY <1>1, <1>5, Constants, DivMod DEF Hours
  <2>2. PICK i \in 0 .. last : f = File(i)
    BY <1>3
  <2> DEFINE x == from + PerSlot * i
             p == x \div PerSlot
  <2>3. x \in Nat /\ x <= to
    <3>1. PerSlot * last <= to - from
      <4>1. to - from \in Nat
        BY <1>1
      <4> QED
        BY <4>1, Constants, DivMod
    <3>2. PerSlot * i <= PerSlot * last /\ PerSlot * i \in Nat
      BY <1>1, Constants, TimesMonotone
    <3> HIDE DEF last
    <3> DEFINE u == PerSlot * i
               v == PerSlot * last
    <3> HIDE DEF u, v
    <3>3. u <= v /\ v <= to - from /\ u \in Nat /\ v \in Int
      BY <1>1, <3>1, <3>2, Constants DEF u, v
    <3>4. from + u \in Nat /\ from + u <= to
      BY <1>1, <3>3
    <3> QED
      BY <3>4 DEF u
  <2>4. p = a + i /\ p <= z /\ i \in Nat
    <3>1. i \in Nat
      BY <1>1
    <3>2. p = a + i
      BY <1>1, <3>1, Constants, DivAdd
    <3> HIDE DEF x
    <3>3. p <= z
      BY <1>1, <2>3, Constants, DivMonotone
    <3> QED
      BY <3>1, <3>2, <3>3
  <2>5. f.hour = i /\ f.path = FileOfHour(from, to, i)
    BY <2>2
  <2>6. SlotOf(x) = SlotOf(to) => p = z
    <3>1. z < p + Slots /\ p < z + Slots
      <4> HIDE DEF a, z, p, x
      <4> QED
        BY <1>8, <2>1, <2>4, Constants
    <3> QED
      BY <1>1, <2>3, <3>1, SameHour
  <2>7. /\ f.path.kind # "copy"
        /\ f.path.kind = "lz4" => f.path.slot = SlotOf(x)
        /\ f.path.kind = "log" => SlotOf(x) = SlotOf(to)
    BY <2>5 DEF FileOfHour, Log, Archived
  <2> HIDE DEF p, a, z
  <2>8. f.hour <= Hours' /\ (f.path.kind = "log" => f.hour = Hours')
    BY <2>1, <2>4, <2>5, <2>6, <2>7
  <2> QED
    BY <1>5, <1>6, <2>5, <2>7, <2>8 DEF StillAhead
<1>9. \A f, g \in ReplayFiles(from, to) : f.hour = g.hour => f = g
  BY <1>3
<1>10. ReadInv'
  <2>1. Hours' \in Int
    <3>1. from \div PerSlot \in Nat /\ to \div PerSlot \in Nat
      BY <1>1, Constants, DivMod
    <3> QED
      BY <1>5, <3>1 DEF Hours
  <2> QED
    BY <1>5, <1>6, <1>8, <1>9, <2>1, Constants DEF ReadInv
<1> QED
  BY <1>5, <1>6, <1>7, <1>10, ReaderKeeps

LEMMA BrowseKeeps ==
  ASSUME IInv, NEW p \in Paths, Browse(p)
  PROVE  IInv'
<1> DEFINE f == [hour |-> 0, path |-> p]
<1>1. {f} \in SUBSET Listed
  BY DEF Listed
<1>2. rd' \in Readers /\ rd'.todo = {f}
  <2>1. rd' = [Idle EXCEPT !.at = "next", !.to = now, !.todo = {f}]
    BY DEF Browse
  <2>2. 0 \in Records /\ now \in Records /\ Absent \in Files
    BY Constants, Unfolded, FileTypes
  <2> HIDE DEF f
  <2> QED
    BY <1>1, <2>1, <2>2 DEF Idle, Readers
<1>3. told' = <<>> /\ UNCHANGED readRest /\ reads' \in 0 .. MaxReads
  BY Unfolded, Constants DEF Browse, TypeOK
<1>4. ReplayInOrder'
  BY <1>3 DEF ReplayInOrder
<1>5. ReadInv'
  BY <1>2, <1>3 DEF ReadInv
<1> QED
  BY <1>2, <1>3, <1>4, <1>5, ReaderKeeps

(* The program that reads ends.                                            *)
LEMMA DeathKeeps ==
  ASSUME IInv, UNCHANGED readRest, reads' = reads, Die
  PROVE  IInv'
<1>1. /\ rd' = [Idle EXCEPT !.at = "dead"] /\ told' = <<>>
  BY DEF Die
<1>2. rd' \in Readers /\ rd'.todo = {}
  BY <1>1, IdleType DEF Readers
<1>3. ReplayInOrder' /\ ReadInv'
  BY <1>1, <1>2 DEF ReplayInOrder, ReadInv
<1> QED
  BY <1>1, <1>2, <1>3, Unfolded, ReaderKeeps DEF TypeOK

(* What is cut short gives a part of its records.                          *)
LEMMA PartIsSubset ==
  ASSUME NEW d, TellPart(d)
  PROVE  \E e \in SUBSET d : Tell(e)
  BY DEF TellPart

(* What can be done with the first file of the list: of its records some   *)
(* or all are told.                                                        *)
LEMMA FileKeeps ==
  ASSUME IInv, UNCHANGED readRest, reads' = reads, rd.at # "idle", rd.todo # {},
         NEW d, d \subseteq Records,
         NextFile.path.kind = "log" => d \subseteq live,
         NextFile.path.kind = "lz4" => d \subseteq lz4[NextFile.path.slot].data,
         Skip \/ Die \/ Tell(d) \/ TellPart(d)
  PROVE  IInv'
<1>1. reads' \in 0 .. MaxReads /\ told \in Seq(SUBSET Records)
  BY Unfolded DEF TypeOK
<1>2. CASE Skip
  <2>1. told' = told /\ rd' \in Readers
    BY <1>2, DoneEffect DEF Skip
  <2> QED
    BY <1>1, <1>2, <2>1, SkipKeeps, ReaderKeeps
<1>3. ASSUME NEW e \in SUBSET d, Tell(e) PROVE IInv'
  <2>1. told' \in Seq(SUBSET Records) /\ ReplayInOrder' /\ ReadInv'
    BY <1>3, TellKeeps
  <2> QED
    BY <1>1, <1>3, <2>1, DoneEffect, ReaderKeeps DEF Tell
<1> QED
  BY <1>2, <1>3, DeathKeeps, PartIsSubset

LEMMA ReadKeeps ==
  ASSUME IInv, Read
  PROVE  IInv'
<1>1. CASE ReadLog
  <2>1. live \subseteq Records
    BY Unfolded DEF TypeOK
  <2> QED
    BY <1>1, <2>1, FileKeeps DEF ReadLog, Reading
<1>2. CASE ReadEnds
  <2>1. /\ rd' = Idle /\ told' = <<>> /\ UNCHANGED readRest /\ reads' = reads
    BY <1>2 DEF ReadEnds
  <2>2. ReplayInOrder' /\ ReadInv'
    BY <2>1, IdleType DEF ReplayInOrder, ReadInv
  <2> QED
    BY <2>1, <2>2, Unfolded, IdleType, ReaderKeeps DEF TypeOK
<1>3. ASSUME NEW s \in Slot, ReadCopy(s) PROVE IInv'
  <2>1. /\ UNCHANGED readRest /\ reads' = reads /\ rd.at = "next" /\ rd.todo # {}
        /\ NextFile.path.kind = "copy" /\ NextFile.path.slot = s
    BY <1>3 DEF ReadCopy, Reading
  <2>2. Skip \/ Die \/ Tell(copy[s].data) \/ TellPart(copy[s].data)
    BY <1>3 DEF ReadCopy
  <2>3. copy[s].data \subseteq Records
    BY Unfolded, FileTypes
  <2> QED
    BY <2>1, <2>2, <2>3, FileKeeps
<1>4. ASSUME NEW s \in Slot, OpenLz4(s) PROVE IInv'
  <2>1. /\ UNCHANGED readRest /\ reads' = reads /\ rd.at = "next" /\ rd.todo # {}
    BY <1>4 DEF OpenLz4, Reading
  <2>2. CASE Skip
    <3>1. told' = told /\ rd' \in Readers
      BY <2>2, DoneEffect DEF Skip
    <3> QED
      BY <2>1, <2>2, <3>1, Unfolded, SkipKeeps, ReaderKeeps DEF TypeOK
  <2>3. CASE ~Skip
    <3>1. rd' = [rd EXCEPT !.at = "opened", !.lz4 = lz4[s]] /\ told' = told
      BY <1>4, <2>3 DEF OpenLz4
    <3>2. rd' \in Readers /\ rd'.from = rd.from /\ rd'.to = rd.to /\ rd'.todo = rd.todo
      BY <3>1, Unfolded, ReaderTypes DEF Readers
    <3> QED
      BY <2>1, <3>1, <3>2, Unfolded, SameFileKeeps, ReaderKeeps DEF TypeOK
  <2> QED
    BY <2>2, <2>3
<1>5. ASSUME NEW s \in Slot, ReadSize(s) PROVE IInv'
  <2>1. /\ UNCHANGED readRest /\ reads' = reads /\ rd.at = "opened" /\ told' = told
        /\ rd' = [rd EXCEPT !.at = "sized", !.size = size[s]]
    BY <1>5 DEF ReadSize
  <2>2. rd' \in Readers /\ rd'.from = rd.from /\ rd'.to = rd.to /\ rd'.todo = rd.todo
    BY <2>1, Unfolded, ReaderTypes DEF Readers
  <2> QED
    BY <2>1, <2>2, Unfolded, SameFileKeeps, ReaderKeeps DEF TypeOK
<1>6. ASSUME NEW s \in Slot, DecodeLz4(s) PROVE IInv'
  <2>1. /\ UNCHANGED readRest /\ reads' = reads /\ rd.at = "sized" /\ rd.todo # {}
        /\ NextFile.path.kind = "lz4" /\ NextFile.path.slot = s
    BY <1>6 DEF DecodeLz4, Reading
  <2>2. Skip \/ Die \/ Tell(lz4[s].data) \/ TellPart(lz4[s].data)
    BY <1>6 DEF DecodeLz4
  <2>3. lz4[s].data \subseteq Records
    BY Unfolded, FileTypes
  <2> QED
    BY <2>1, <2>2, <2>3, FileKeeps
<1> QED
  BY <1>1, <1>2, <1>3, <1>4, <1>5, <1>6 DEF Read

-----------------------------------------------------------------------------
(* The theorems *)

LEMMA InitEstablishes ==
  ASSUME Init
  PROVE  IInv
<1>1. /\ now = 0 /\ keep \in BOOLEAN /\ live = {} /\ logSlot = 0 /\ file = "open"
      /\ monitor = "poll" /\ main = "loop" /\ threads = {} /\ rd = Idle /\ told = <<>>
      /\ faults = 0 /\ reads = 0 /\ misuse = FALSE /\ late = FALSE /\ failed = FALSE
      /\ copy = [s \in Slot |-> Absent] /\ size = [s \in Slot |-> Absent]
      /\ lz4 = [s \in Slot |-> Absent] /\ mtime = [s \in Slot |-> 0]
      /\ cut = FALSE /\ refused = {}
  BY DEF Init
<1>2. /\ copy \in [Slot -> Files] /\ size \in [Slot -> Files] /\ lz4 \in [Slot -> Files]
      /\ \A s \in Slot : copy[s] = Absent /\ lz4[s] = Absent
  BY <1>1, FileTypes
<1>3. 0 \in 0 .. Day(MaxTime) /\ 0 \in 0 .. MaxFaults /\ 0 \in 0 .. MaxReads /\ 0 # NoSlot
  <2>1. Day(0) \in 0 .. Day(MaxTime)
    BY Constants, DayType
  <2>2. Day(MaxTime) \in Nat
    <3>1. Slots * PerSlot \in Nat \ {0}
      BY Constants
    <3> QED
      BY <3>1, Constants, DivMod DEF Day
  <2> QED
    BY <2>2, Constants
<1>4. TypeOK
  <2>1. mtime \in [Slot -> 0 .. Day(MaxTime)]
    BY <1>1, <1>3
  <2>2. /\ rd \in Readers /\ told \in Seq(SUBSET Records) /\ now \in Records
        /\ logSlot \in Slot \cup {NoSlot}
    BY <1>1, Constants, IdleType
  <2>3. faults \in 0 .. MaxFaults /\ reads \in 0 .. MaxReads
    BY <1>1, <1>3
  <2> QED
    BY <1>1, <1>2, <2>1, <2>2, <2>3 DEF TypeOK
<1>5. PlaceInv /\ ThreadInv /\ MisuseExplained
  BY <1>1, <1>3 DEF PlaceInv, Rotating, ThreadInv, MisuseExplained
<1>6. SlotInv /\ AgeInv
  BY <1>1, <1>2, FileTypes DEF SlotInv, AgeInv
<1>7. ReplayInOrder /\ ReadInv
  BY <1>1, IdleType DEF ReplayInOrder, ReadInv
<1> QED
  BY <1>4, <1>5, <1>6, <1>7 DEF IInv

LEMMA NextKeeps ==
  ASSUME IInv, [Next]_vars
  PROVE  IInv'
<1>1. CASE Tick
  BY <1>1, TickKeeps
<1>2. CASE Poll
  BY <1>2, PollKeeps
<1>3. CASE MonitorStep
  BY <1>3, RotateBeginKeeps, CopyBeginKeeps, CopyFailsKeeps, CopyEndKeeps, JoinKeeps, OpenKeeps
     DEF MonitorStep
<1>4. CASE MonitorEnds
  BY <1>4, MonitorEndsKeeps
<1>5. CASE Compress
  BY <1>5, NoArchiveKeeps, EndKeeps, SizeBeginKeeps, SizeEndKeeps, Lz4BeginKeeps, NoLz4Keeps,
     Lz4EndKeeps DEF Compress
<1>6. CASE Terminate \/ Close \/ Exit \/ Crash \/ Start
  BY <1>6, TerminateKeeps, CloseKeeps, EndKeeps, StartKeeps
<1>7. CASE \E from, to \in Records : Replay(from, to)
  BY <1>7, ReplayKeeps
<1>8. CASE \E p \in Paths : Browse(p)
  BY <1>8, BrowseKeeps
<1>9. CASE Read
  BY <1>9, ReadKeeps
<1>10. CASE UNCHANGED vars
  <2>1. UNCHANGED readRest /\ UNCHANGED <<rd, reads, told>>
    BY <1>10 DEF vars, readRest, daemonVars, fileVars, readVars, historyVars
  <2>2. ReplayInOrder'
    BY <2>1, Unfolded DEF ReplayInOrder, readRest, historyVars
  <2>3. now' = now /\ live' = live /\ failed' = failed /\ Hours' = Hours
    BY <2>1 DEF readRest, daemonVars, historyVars, Hours
  <2>4. \A f \in rd.todo : StillAhead(f) => StillAhead(f)'
    BY <2>1, <2>3 DEF StillAhead
  <2>5. ReadInv'
    BY <2>1, <2>3, <2>4, Unfolded DEF ReadInv
  <2> QED
    BY <2>1, <2>2, <2>5, Unfolded, ReaderTypes, ReaderKeeps DEF TypeOK
<1> QED
  BY <1>1, <1>2, <1>3, <1>4, <1>5, <1>6, <1>7, <1>8, <1>9, <1>10 DEF Next

LEMMA Inductive == Spec => []IInv
  BY InitEstablishes, NextKeeps, PTL DEF Spec

(* For a day of any number of hours, and any number of rotations, crashes, *)
(* failed operations and replays: no two background threads are at work at *)
(* once, a replay reports records of its range in the order of their time, *)
(* each once, and the log is used after it was freed only by a daemon that *)
(* could not open it or whose monitor outlived the wait of cb_shutdown.    *)
THEOREM ArchiveCorrect == Spec => []ArchiveInv
<1>1. IInv => ArchiveInv
  <2>1. PlaceInv => OneCompressor
    BY DEF PlaceInv, OneCompressor
  <2> QED
    BY <2>1 DEF IInv, ArchiveInv
<1> QED
  BY <1>1, Inductive, PTL

(* A client that replays is ended by the log only while a frame of it is   *)
(* being written or was cut by the end of a daemon, by a copy only if the  *)
(* disk or a crash cut it, and by an archive only if it is one of such a   *)
(* copy, has lost a part of its sizes, or was written to since the client  *)
(* opened it: for any number of slots, faults and replays.                 *)
THEOREM DeathsAreExplained == Spec => DeathExplained
<1> DEFINE Explained ==
             rd.at # "dead" /\ rd'.at = "dead" =>
               LET s == NextFile.path.slot
               IN \/ NextFile.path.kind = "log" /\ (Writing \/ cut)
                  \/ NextFile.path.kind = "copy" /\ copy[s].state = "torn"
                  \/ /\ NextFile.path.kind = "lz4"
                     /\ lz4[s].state = "broken" \/ lz4[s] # rd.lz4 \/ SomeFit(s)
<1>1. ASSUME IInv, [Next]_vars PROVE [Explained]_vars
  <2> SUFFICES ASSUME rd.at # "dead", rd'.at = "dead" PROVE Explained
    OBVIOUS
  <2>1. rd' # rd
    OBVIOUS
  <2>2. Read \/ (\E from, to \in Records : Replay(from, to)) \/ (\E p \in Paths : Browse(p))
    <3>1. ~(Tick \/ Poll \/ MonitorStep \/ MonitorEnds)
      BY <2>1 DEF readVars, monitorRest, Tick, Poll, MonitorStep, RotateBegin, CopyBegin,
                  CopyFails, CopyEnd, Join, Open, MonitorEnds
    <3>2. ~Compress
      BY <2>1 DEF readVars, Compress, NoArchive, EmptyCopy, SizeBegin, SizeEnd, Lz4Begin, NoLz4,
                  Lz4End, goneRest
    <3>3. ~(Terminate \/ Close \/ Exit \/ Crash \/ Start)
      BY <2>1 DEF readVars, Terminate, Close, Exit, Crash, Start, daemonRest, goneRest
    <3> QED
      BY <1>1, <2>1, <3>1, <3>2, <3>3 DEF Next, vars, readVars
  <2>3. \A d : Tell(d) => rd'.at = "next"
    BY <1>1, DoneEffect DEF Tell
  <2>4. (Skip => rd'.at = "next") /\ \A d : TellPart(d) => rd'.at = "next"
    BY <1>1, <2>3, DoneEffect DEF Skip, TellPart
  <2>5. rd \in Readers
    BY <1>1, ReaderTypes
  <2>6. ASSUME NEW s \in Slot, ReadCopy(s) PROVE Explained
    <3>1. NextFile.path.kind = "copy" /\ NextFile.path.slot = s
      BY <2>6 DEF ReadCopy, Reading
    <3>2. copy[s].state \notin {"whole", "absent"}
      BY <2>3, <2>4, <2>6 DEF ReadCopy
    <3>3. copy[s].state \in {"absent", "torn", "whole"}
      BY <1>1, Unfolded DEF SlotInv, Files
    <3> QED
      BY <3>1, <3>2, <3>3
  <2>7. ASSUME NEW s \in Slot, DecodeLz4(s) PROVE Explained
    <3>1. NextFile.path.kind = "lz4" /\ NextFile.path.slot = s
      BY <2>7 DEF DecodeLz4, Reading
    <3>2. lz4[s].state = "broken" \/ lz4[s] # rd.lz4 \/ SomeFit(s)
      BY <2>3, <2>4, <2>7 DEF DecodeLz4
    <3> QED
      BY <3>1, <3>2
  <2>8. ASSUME NEW s \in Slot, OpenLz4(s) \/ ReadSize(s) PROVE FALSE
    BY <2>4, <2>5, <2>8 DEF OpenLz4, ReadSize, Readers
  <2>9. ReadLog => Explained
    BY <2>3 DEF ReadLog, Reading
  <2>12. ~ReadEnds
    BY IdleType DEF ReadEnds
  <2>10. \A from, to \in Records : ~Replay(from, to)
    BY DEF Replay, Idle
  <2>11. \A p \in Paths : ~Browse(p)
    BY DEF Browse, Idle
  <2> QED
    BY <2>2, <2>6, <2>7, <2>8, <2>9, <2>10, <2>11, <2>12 DEF Read
<1> QED
  BY <1>1, Inductive, PTL DEF Spec, DeathExplained

-----------------------------------------------------------------------------
(* The files are a LogStore *)

SameSaved == UNCHANGED <<live, logSlot>> /\ \A s \in Slot : Saved(s)' = Saved(s)

LEMMA SavedStays ==
  ASSUME SameSaved
  PROVE  [s \in Slot |-> Saved(s)]' = [s \in Slot |-> Saved(s)]
  BY DEF SameSaved

LEMMA UnsavedStutters ==
  ASSUME SameSaved, refused' = refused
  PROVE  UNCHANGED Store!vars
  BY SavedStays DEF SameSaved, Store!vars

(* A slot of which a part is refused, or of which all is taken after all.  *)
LEMMA UnsavedRefuses ==
  ASSUME SameSaved, NEW s \in Slot, refused' = refused \cup {s} \/ refused' = refused \ {s}
  PROVE  Store!Next
  BY SavedStays DEF SameSaved, Store!Next, Store!Refuse, Store!Accept

(* As long as the files stay as they are, so does what they hold.          *)
LEMMA SameFilesSame ==
  ASSUME NEW s \in Slot, copy'[s] = copy[s],
         copy[s].state \in {"whole", "torn"} \/ (lz4'[s] = lz4[s] /\ size'[s] = size[s])
  PROVE  Saved(s)' = Saved(s)
  BY DEF Saved

(* Only the slot of the log is saved, or given up for it.                  *)
LEMMA CopyBeginGivesUp ==
  ASSUME IInv, CopyBegin
  PROVE  Store!GiveUp
<1>1. /\ copy' = [copy EXCEPT ![logSlot] = Torn(Whole(live))] /\ size' = size /\ lz4' = lz4
      /\ live' = live /\ logSlot' = logSlot /\ monitor = "copy" /\ refused' = refused
  BY DEF CopyBegin, Monitor, historyVars
<1>2. logSlot \in Slot /\ logSlot # NoSlot
  BY <1>1, Unfolded DEF PlaceInv, Rotating, TypeOK
<1>3. \A s \in Slot :
        IF s = logSlot THEN copy'[s].state = "torn" ELSE copy'[s] = copy[s]
  BY <1>1, Unfolded, FileTypes DEF TypeOK
<1>4. \A s \in Slot : Saved(s)' = IF s = logSlot THEN {} ELSE Saved(s)
  BY <1>1, <1>3 DEF Saved
<1>5. [s \in Slot |-> Saved(s)]' = [[s \in Slot |-> Saved(s)] EXCEPT ![logSlot] = {}]
  BY <1>4
<1> QED
  BY <1>1, <1>2, <1>5 DEF Store!GiveUp

LEMMA CopyEndSaves ==
  ASSUME IInv, CopyEnd
  PROVE  Store!Save \/ UNCHANGED Store!vars
<1>1. /\ size' = size /\ lz4' = lz4 /\ live' = live /\ logSlot' = logSlot
      /\ monitor = "copying" /\ refused' = refused
  BY DEF CopyEnd, Monitor, historyVars
<1>2. logSlot \in Slot /\ logSlot # NoSlot
  BY <1>1, Unfolded DEF PlaceInv, Rotating, TypeOK
<1>3. CASE copy' = copy
  BY <1>1, <1>3, UnsavedStutters DEF SameSaved, Saved
<1>4. CASE copy' = [copy EXCEPT ![logSlot] = Whole(live)]
  <2>1. \A s \in Slot : copy'[s] = IF s = logSlot THEN Whole(live) ELSE copy[s]
    BY <1>4, Unfolded
  <2>2. \A s \in Slot : Saved(s)' = IF s = logSlot THEN live ELSE Saved(s)
    BY <1>1, <2>1, FileTypes DEF Saved
  <2>3. [s \in Slot |-> Saved(s)]' = [[s \in Slot |-> Saved(s)] EXCEPT ![logSlot] = live]
    BY <2>2
  <2> QED
    BY <1>1, <1>2, <2>3 DEF Store!Save
<1> QED
  BY <1>3, <1>4 DEF CopyEnd

(* The process that ends no longer writes the log.                         *)
LEMMA GoneStops ==
  ASSUME IInv, Gone, UNCHANGED goneRest
  PROVE  Store!Next
<1>1. UNCHANGED <<live, copy, size, lz4, refused>> /\ logSlot' = NoSlot
  BY DEF Gone, goneRest, fileVars
<1>2. [s \in Slot |-> Saved(s)]' = [s \in Slot |-> Saved(s)]
  BY <1>1 DEF Saved
<1> QED
  BY <1>1, <1>2 DEF Store!Next, Store!Stop

(* While the background thread writes the archive the copy is there.       *)
LEMMA CopyHeldSame ==
  ASSUME IInv, NEW t \in threads, UNCHANGED <<live, logSlot, copy>>,
         copy[t.slot].state \in {"whole", "torn"},
         \A s \in Slot : s # t.slot => lz4'[s] = lz4[s] /\ size'[s] = size[s]
  PROVE  SameSaved
  BY Unfolded, SameFilesSame DEF SameSaved

(* The copy goes when the archive is whole, unless the disk refused a part *)
(* of it in a write that is not looked at.                                 *)
LEMMA Lz4EndImplements ==
  ASSUME IInv, NEW t \in threads, Lz4End(t)
  PROVE  [Store!Next]_Store!vars
<1>1. /\ t.slot \in Slot /\ live' = live /\ logSlot' = logSlot /\ size' = size
      /\ t.at = "lz4"
  BY Unfolded DEF Lz4End, At, daemonVars
<1>2. /\ \/ copy[t.slot].state = "whole" /\ t.src = copy[t.slot]
         \/ copy[t.slot].state = "torn" /\ t.src = Broken(copy[t.slot])
      /\ size[t.slot] = t.src \/ t.slot \in refused
      /\ lz4[t.slot].state = "torn"
  BY <1>1, Unfolded DEF ThreadInv
<1>3. t.src.state \in {"whole", "broken"}
  BY <1>1, <1>2, Unfolded, FileTypes
<1>4. CASE copy' = copy /\ lz4' = lz4 /\ refused' = refused
  BY <1>1, <1>4, UnsavedStutters DEF SameSaved, Saved
<1>5. CASE copy' = [copy EXCEPT ![t.slot] = Absent]
  <2>1. /\ copy'[t.slot].state = "absent"
        /\ \A s \in Slot : s # t.slot => copy'[s] = copy[s]
    BY <1>1, <1>5, Unfolded, FileTypes
  <2>2. \/ lz4' = [lz4 EXCEPT ![t.slot] = t.src] /\ refused' = refused
        \/ lz4' = lz4 /\ refused' = refused \cup {t.slot}
    <3>1. copy' # copy
      BY <1>2, <2>1
    <3> QED
      BY <3>1 DEF Lz4End, WriteLz4
  <2>3. \A s \in Slot : s # t.slot => lz4'[s] = lz4[s]
    BY <2>2, Unfolded
  <2>4. \A s \in Slot : s # t.slot => Saved(s)' = Saved(s)
    BY <1>1, <2>1, <2>3, SameFilesSame
  <2>5. CASE lz4'[t.slot] = t.src /\ size[t.slot] = t.src /\ refused' = refused
    <3>1. Saved(t.slot)' = Saved(t.slot)
      BY <1>1, <1>2, <1>3, <2>1, <2>5, Unfolded, FileTypes DEF Saved
    <3> QED
      BY <1>1, <2>4, <2>5, <3>1, UnsavedStutters DEF SameSaved
  <2>6. CASE Saved(t.slot)' = {} /\ refused' = refused \cup {t.slot}
    <3>1. [s \in Slot |-> Saved(s)]' = [[s \in Slot |-> Saved(s)] EXCEPT ![t.slot] = {}]
      BY <1>1, <2>4, <2>6
    <3> QED
      BY <1>1, <2>6, <3>1 DEF Store!Next, Store!Lose
  <2>7. CASE lz4'[t.slot] = t.src /\ size[t.slot] # t.src
    <3>1. Saved(t.slot)' = {}
      BY <1>1, <2>1, <2>7 DEF Saved
    <3> QED
      BY <1>2, <2>2, <2>6, <2>7, <3>1
  <2>8. CASE lz4' = lz4 /\ refused' = refused \cup {t.slot}
    <3>1. Saved(t.slot)' = {}
      BY <1>2, <2>1, <2>8 DEF Saved
    <3> QED
      BY <2>6, <2>8, <3>1
  <2>9. lz4'[t.slot] = t.src \/ (lz4' = lz4 /\ refused' = refused \cup {t.slot})
    BY <1>1, <2>2, Unfolded
  <2> QED
    BY <1>2, <2>2, <2>5, <2>7, <2>8, <2>9
<1> QED
  BY <1>4, <1>5 DEF Lz4End, RemoveCopy

(* What the background thread does loses nothing but what is refused.      *)
LEMMA CompressImplements ==
  ASSUME IInv, Compress
  PROVE  [Store!Next]_Store!vars
<1> PICK t \in threads :
      \/ NoArchive(t) \/ EmptyCopy(t) \/ SizeBegin(t) \/ SizeEnd(t)
      \/ Lz4Begin(t) \/ NoLz4(t) \/ Lz4End(t)
  BY DEF Compress
<1>1. t.slot \in Slot
  BY Unfolded
<1>2. t.at \in {"size", "sized"} => copy[t.slot].state \in {"whole", "torn"}
  BY Unfolded DEF ThreadInv
<1>3. CASE NoArchive(t) \/ NoLz4(t)
  BY <1>3, UnsavedStutters
     DEF NoArchive, NoLz4, daemonVars, fileVars, historyVars, SameSaved, Saved
<1>4. CASE EmptyCopy(t)
  BY <1>4, GoneStops DEF EmptyCopy
<1>5. CASE SizeBegin(t)
  <2>1. /\ UNCHANGED <<live, logSlot, copy, lz4>> /\ refused' = refused \ {t.slot}
        /\ \A s \in Slot : s # t.slot => size'[s] = size[s]
    BY <1>5, Unfolded DEF SizeBegin, daemonVars
  <2>2. copy[t.slot].state \in {"whole", "torn"}
    BY <1>1, <1>5, Unfolded DEF SizeBegin, SlotInv, Files
  <2> QED
    BY <1>1, <2>1, <2>2, CopyHeldSame, UnsavedRefuses
<1>6. CASE SizeEnd(t)
  <2>1. /\ UNCHANGED <<live, logSlot, copy, lz4>> /\ t.at = "size"
        /\ refused' = refused \/ refused' = refused \cup {t.slot}
        /\ \A s \in Slot : s # t.slot => size'[s] = size[s]
    BY <1>6, Unfolded DEF SizeEnd, At, daemonVars
  <2> QED
    BY <1>1, <1>2, <2>1, CopyHeldSame, UnsavedRefuses, UnsavedStutters
<1>7. CASE Lz4Begin(t)
  <2>1. /\ UNCHANGED <<live, logSlot, copy, size, refused>> /\ t.at = "sized"
        /\ \A s \in Slot : s # t.slot => lz4'[s] = lz4[s]
    BY <1>7, Unfolded DEF Lz4Begin, At, daemonVars, historyVars
  <2> QED
    BY <1>1, <1>2, <2>1, CopyHeldSame, UnsavedStutters
<1>8. CASE Lz4End(t)
  BY <1>8, Lz4EndImplements
<1> QED
  BY <1>3, <1>4, <1>5, <1>6, <1>7, <1>8

LEMMA StepImplements ==
  ASSUME IInv, [Next]_vars
  PROVE  [Store!Next]_Store!vars
<1>1. CASE UNCHANGED <<live, logSlot, copy, size, lz4, refused>>
  BY <1>1, UnsavedStutters DEF SameSaved, Saved
<1>2. CASE Poll /\ ~UNCHANGED <<live, logSlot, copy, size, lz4, refused>>
  <2>1. /\ live' = live \cup {now} /\ file = "open" /\ logSlot' = logSlot
        /\ copy' = copy /\ size' = size /\ lz4' = lz4 /\ refused' = refused
    BY <1>2 DEF Poll, monitorRest, fileVars
  <2>2. now \in Records \ live /\ logSlot # NoSlot
    BY <1>2, <2>1, Unfolded DEF PlaceInv
  <2>3. [s \in Slot |-> Saved(s)]' = [s \in Slot |-> Saved(s)]
    BY <2>1 DEF Saved
  <2> QED
    BY <2>1, <2>2, <2>3 DEF Store!Next, Store!Append
<1>3. CASE CopyBegin
  BY <1>3, CopyBeginGivesUp DEF Store!Next
<1>4. CASE CopyEnd
  BY <1>4, CopyEndSaves DEF Store!Next
<1>5. CASE Open \/ Start
  <2>1. /\ copy' = copy /\ size' = size /\ lz4' = lz4 /\ refused' = refused
        /\ \/ live' = {} /\ logSlot' = SlotOf(now)
           \/ live' = live /\ logSlot' \in {logSlot, NoSlot}
    BY <1>5 DEF Open, Start, fileVars, daemonRest
  <2>2. [s \in Slot |-> Saved(s)]' = [s \in Slot |-> Saved(s)]
    BY <2>1 DEF Saved
  <2>3. SlotOf(now) \in Slot
    BY Unfolded, SlotType
  <2> QED
    BY <2>1, <2>2, <2>3 DEF Store!Next, Store!Begin, Store!Stop, Store!vars
<1>6. CASE Compress
  BY <1>6, CompressImplements
<1>7. CASE Exit \/ Crash
  BY <1>7, GoneStops DEF Exit, Crash
<1>8. CASE ~(Poll \/ CopyBegin \/ CopyEnd \/ Open \/ Start \/ Compress \/ Exit \/ Crash)
  <2>1. UNCHANGED <<live, logSlot, copy, size, lz4, refused>>
    BY <1>8
       DEF Next, vars, daemonVars, fileVars, historyVars, monitorRest, Tick, MonitorStep,
           RotateBegin, CopyFails, Join, MonitorEnds, Terminate, Close, Replay, Browse, Read,
           ReadLog, ReadEnds, ReadCopy, OpenLz4, ReadSize, DecodeLz4, readRest, daemonRest
  <2> QED
    BY <1>1, <2>1
<1> QED
  BY <1>1, <1>2, <1>3, <1>4, <1>5, <1>6, <1>7, <1>8

(* Copying the log, writing the archive, removing the copy, and a crash    *)
(* between any two of these, are steps of LogStore or none at all: what is *)
(* saved of a slot goes only when a log of that slot is rotated, or when   *)
(* the disk refused a part of its archive that was written unchecked.      *)
THEOREM ArchiveImplementsStore == Spec => KeepsSaved
<1>1. Init => Store!Init
  <2> SUFFICES ASSUME Init PROVE Store!Init
    OBVIOUS
  <2>1. /\ live = {} /\ logSlot = 0 /\ copy = [s \in Slot |-> Absent]
        /\ lz4 = [s \in Slot |-> Absent] /\ refused = {}
    BY DEF Init
  <2>2. \A s \in Slot : Saved(s) = {}
    BY <2>1, FileTypes DEF Saved
  <2>3. [s \in Slot |-> Saved(s)] = [s \in Slot |-> {}]
    BY <2>2
  <2> QED
    BY <2>1, <2>3, Constants DEF Store!Init
<1> QED
  BY <1>1, Inductive, StepImplements, PTL DEF Spec, KeepsSaved, Store!Spec
=============================================================================
