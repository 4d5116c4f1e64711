------------------------ MODULE ProcessListProofs ------------------------
(***************************************************************************)
(* What the process list shows of the past, and in which columns.          *)
(*                                                                         *)
(* History: windows read no snapshot that is deleted, however setting the  *)
(* time of the history, going back to live and deleting old clients        *)
(* interleave, and what is shown is never later than the time that was     *)
(* asked for.  The inductive invariant says who owns a client: it is free, *)
(* or shown, or in the hands of one caller that fills or deletes it.  What *)
(* is shown is the time asked for, unless a log was replaced meanwhile: a  *)
(* second invariant says how long a list of the logs is right.             *)
(*                                                                         *)
(* Columns: the order of the fields is always an order of all of them, and *)
(* header, rows and file agree on which are shown.  The inductive          *)
(* invariant says what each of them is one selection of; that selections   *)
(* of sequences behave is proved first.                                    *)
(***************************************************************************)
EXTENDS History, Columns, FiniteSetTheorems, SequenceTheorems, WellFoundedInduction,
        TLAPS

-----------------------------------------------------------------------------
(* The snapshots of the history *)


(* p has a client that is not shown yet, or no longer.                     *)
Owns(p) == call[p].at \in {"swap", "delete"} /\ call[p].client # None

OwnerInv ==
  /\ \A p \in Caller : Owns(p) => call[p].client \notin freed \cup {history}
  /\ \A p, q \in Caller :
       p # q /\ Owns(p) /\ Owns(q) => call[p].client # call[q].client

(* Who reads has the lock, and reads what is shown.                        *)
ReaderInv ==
  \A w \in Worker :
    reader[w] # None =>
      lock = w /\ reader[w] = (IF history # None THEN history ELSE Live)

(* A client is filled up to the time that is asked for.                    *)
FilledInv ==
  call["worker"].at = "swap" =>
    /\ call["worker"].client \in Client
    /\ shown[call["worker"].client] <= call["worker"].time

IInv ==
  /\ TypeOK /\ OwnerInv /\ ReaderInv /\ FilledInv
  /\ history \notin freed /\ NeverLater

-----------------------------------------------------------------------------
(* What the inductive invariant is for.                                    *)
LEMMA IInvSuffices == IInv => HistoryInv
<1> SUFFICES ASSUME IInv PROVE HistoryInv
  OBVIOUS
<1>1. ReadersSafe
  BY ConstantsAssumption DEF IInv, ReaderInv, TypeOK, ReadersSafe
<1>2. ShownExists
  BY DEF IInv, OwnerInv, Owns, ShownExists
<1> QED
  BY <1>1, <1>2 DEF IInv, HistoryInv

LEMMA InitIInv == Init => IInv
<1> SUFFICES ASSUME Init PROVE IInv
  OBVIOUS
<1>1. TypeOK
  <2>1. /\ now \in Times /\ version \in 0 .. MaxChanges
        /\ shown \in [Client -> Times] /\ time \in Times
    BY ConstantsAssumption DEF Init, Times
  <2>2. disk \in [File -> Span]
    BY ConstantsAssumption DEF Init, File, Span, NoFile, Times
  <2>3. lister \in [Lister -> Listing] /\ call \in [Caller -> Call]
    BY ConstantsAssumption
      DEF Init, Listing, Call, NoList, NoCall, Times, File, Entries
  <2>4. cache \in Cache
    BY ConstantsAssumption DEF Init, NoCache, Cache
  <2> QED
    BY <2>1, <2>2, <2>3, <2>4 DEF Init, TypeOK
<1>2. OwnerInv /\ ReaderInv /\ FilledInv /\ history \notin freed /\ NeverLater
  BY ConstantsAssumption
    DEF Init, OwnerInv, Owns, NoCall, Caller, ReaderInv, FilledInv, NeverLater
<1> QED
  BY <1>1, <1>2 DEF IInv

-----------------------------------------------------------------------------
(* What the files are is the daemon's business.                            *)
LEMMA FilesStep ==
  ASSUME TypeOK, Tick \/ Rotate \/ Compress \/ RemoveCopy
  PROVE  TypeOK'
<1> USE ConstantsAssumption DEF TypeOK, Span, Times, File
<1>1. CASE Tick
  <2>1. now' \in Times /\ now + 1 \in Times /\ now + 1 \in 0 .. MaxTime + 1
    BY <1>1 DEF Tick
  <2>2. disk' \in [File -> Span]
    BY <1>1, <2>1 DEF Tick
  <2> QED
    BY <1>1, <2>1, <2>2 DEF Tick, engineVars
<1>2. CASE Rotate
  BY <1>2 DEF Rotate, Change, NoFile, engineVars
<1>3. CASE Compress
  BY <1>3 DEF Compress, Change, engineVars
<1>4. CASE RemoveCopy
  BY <1>4 DEF RemoveCopy, Change, NoFile, engineVars
<1> QED
  BY <1>1, <1>2, <1>3, <1>4

(* The entries that a listing finds.                                       *)
LEMMA EntriesTyped ==
  ASSUME TypeOK, NEW files \in SUBSET File
  PROVE  EntriesOf(files) \subseteq Entries
BY DEF TypeOK, EntriesOf, Entries, Span

(* A lister that goes on with a list, or has published it.                 *)
LEMMA ListedTyped ==
  ASSUME TypeOK, NEW p \in Lister, NEW found \in SUBSET Entries,
         NEW v \in 0 .. MaxChanges, Listed(p, found, v)
  PROVE  lister' \in [Lister -> Listing]
<1>1. lister[p] \in Listing
  BY DEF TypeOK
<1>2. [lister[p] EXCEPT !.at = "have", !.found = found, !.todo = {}, !.version = v]
        \in Listing
  BY <1>1 DEF Listing
<1>3. NoList \in Listing
  BY ConstantsAssumption DEF NoList, Listing
<1> QED
  BY <1>2, <1>3 DEF Listed, TypeOK

(* What the listing of logs changes is the lists.                          *)
Lists == lister' \in [Lister -> Listing] /\ cache' \in Cache

LEMMA ListStep ==
  ASSUME TypeOK,
         \/ Expire \/ Publish("bounds") \/ BoundsScan \/ List("worker")
  PROVE  Lists /\ UNCHANGED listRest
<1>1. "worker" \in Lister /\ "bounds" \in Lister
  BY DEF Lister
<1>2. lister \in [Lister -> Listing] /\ cache \in Cache /\ version \in 0 .. MaxChanges
  BY DEF TypeOK
<1>3. CASE Expire
  BY <1>2, <1>3, ConstantsAssumption DEF Expire, NoCache, Cache, Lists
<1>4. ASSUME NEW p \in Lister, Publish(p)
      PROVE  Lists /\ UNCHANGED listRest
  <2>1. lister[p].found \in SUBSET Entries /\ lister[p].version \in 0 .. MaxChanges
    BY <1>2 DEF Listing
  <2>2. lister' \in [Lister -> Listing]
    BY <1>4, <2>1, ListedTyped DEF Publish
  <2>3. cache' \in Cache
    BY <1>2, <1>4, <2>1 DEF Publish, Cache
  <2> QED
    BY <1>4, <2>2, <2>3 DEF Publish, Lists
<1>5. CASE BoundsScan
  <2>1. EntriesOf(File) \in SUBSET Entries
    BY EntriesTyped
  <2>2. [NoList EXCEPT !.at = "scan", !.found = EntriesOf(File), !.version = version]
          \in Listing
    BY <1>2, <2>1 DEF NoList, Listing
  <2> QED
    BY <1>1, <1>2, <1>5, <2>2 DEF BoundsScan, Lists
<1>6. CASE UseCache("worker")
  <2>1. cache.found \in SUBSET Entries /\ cache.version \in 0 .. MaxChanges
    BY <1>2 DEF Cache
  <2>2. lister' \in [Lister -> Listing]
    BY <1>1, <1>6, <2>1, ListedTyped DEF UseCache
  <2> QED
    BY <1>2, <1>6, <2>2 DEF UseCache, Lists
<1>7. CASE ScanLog("worker")
  <2>1. EntriesOf({"log"}) \in SUBSET Entries
    BY EntriesTyped DEF File
  <2> DEFINE new == [lister["worker"] EXCEPT !.found = EntriesOf({"log"}),
                       !.todo = @ \ {"log"}, !.version = version]
  <2>2. new \in Listing
    BY <1>1, <1>2, <2>1 DEF Listing
  <2>3. lister' = [lister EXCEPT !["worker"] = new]
    BY <1>1, <1>2, <1>7 DEF ScanLog, Listing
  <2> HIDE DEF new
  <2> QED
    <3>1. lister' \in [Lister -> Listing]
      BY <1>1, <1>2, <2>2, <2>3
    <3>2. UNCHANGED <<cache, listRest>>
      BY <1>7 DEF ScanLog
    <3> QED
      BY <1>2, <3>1, <3>2 DEF Lists
<1>8. CASE ScanDirectory("worker")
  <2> DEFINE found == lister["worker"].found \cup EntriesOf(lister["worker"].todo)
  <2>1. found \in SUBSET Entries
    BY <1>1, <1>2, EntriesTyped DEF Listing
  <2> DEFINE new == [lister["worker"] EXCEPT !.found = found, !.todo = {}]
  <2>2. new \in Listing
    <3> HIDE DEF found
    <3> QED
      BY <1>1, <1>2, <2>1 DEF Listing
  <2>3. lister' = [lister EXCEPT !["worker"] = new]
    BY <1>1, <1>2, <1>8 DEF ScanDirectory, Listing
  <2> HIDE DEF new
  <2> QED
    BY <1>1, <1>2, <1>8, <2>2, <2>3 DEF ScanDirectory, Lists
<1> QED
  BY <1>1, <1>3, <1>4, <1>5, <1>6, <1>7, <1>8 DEF List

-----------------------------------------------------------------------------
(* Who owns which client depends on these alone.                           *)
owners == <<freed, shown, history, time, call, reader, lock>>

LEMMA OwnersStep ==
  ASSUME IInv, TypeOK', UNCHANGED owners
  PROVE  IInv'
BY DEF owners, IInv, OwnerInv, Owns, ReaderInv, FilledInv, NeverLater

(* A call that is no longer, or not yet, in possession of a client.        *)
LEMMA CallTyped ==
  ASSUME TypeOK, NEW p \in Caller, NEW c \in Call, call' = [call EXCEPT ![p] = c]
  PROVE  call' \in [Caller -> Call]
BY DEF TypeOK

(* An idle caller.                                                         *)
LEMMA NoCallTyped == NoCall \in Call
BY ConstantsAssumption DEF NoCall, Call, Times, File

(* A lister that begins.                                                   *)
LEMMA ScanTyped ==
  /\ NoList \in Listing
  /\ [NoList EXCEPT !.at = "scan", !.todo = File] \in Listing
  /\ [NoList EXCEPT !.at = "scan", !.todo = File, !.forced = TRUE] \in Listing
<1>1. File \in SUBSET File /\ {} \in SUBSET Entries /\ {} \in SUBSET File
  OBVIOUS
<1>2. 0 \in 0 .. MaxChanges
  BY ConstantsAssumption
<1>3. NoList \in Listing
  BY <1>1, <1>2 DEF NoList, Listing
<1> QED
  BY <1>1, <1>3 DEF Listing

LEMMA TimeSetStep ==
  ASSUME IInv, NEW t \in Times, TimeSet(t)
  PROVE  IInv'
<1> DEFINE new == [NoCall EXCEPT !.at = "list", !.time = t]
<1>1. new \in Call
  BY NoCallTyped DEF Call
<1>2. call' = [call EXCEPT !["worker"] = new]
  BY DEF TimeSet
<1>3. call' \in [Caller -> Call]
  BY <1>1, <1>2, CallTyped DEF IInv, Caller
<1>4. lister' \in [Lister -> Listing]
  BY ScanTyped DEF TimeSet, IInv, TypeOK
<1>5. TypeOK'
  BY <1>3, <1>4 DEF TimeSet, IInv, TypeOK, callRest, fileVars, engineVars
<1>6. \A p \in Caller : Owns(p)' => Owns(p) /\ call'[p] = call[p]
  BY <1>2 DEF IInv, TypeOK, Owns, NoCall, Caller
<1>7. call'["worker"].at # "swap"
  BY <1>2 DEF IInv, TypeOK, NoCall, Caller
<1> QED
  BY <1>5, <1>6, <1>7
    DEF TimeSet, IInv, OwnerInv, ReaderInv, FilledInv, NeverLater,
        callRest, fileVars, engineVars

LEMMA SelectStep ==
  ASSUME IInv, Select
  PROVE  IInv'
<1> DEFINE list == lister["worker"].found
           logs == Having(list, call["worker"].time)
<1>0. "worker" \in Caller /\ "worker" \in Lister
  BY DEF Caller, Lister
<1>1. lister["worker"] \in Listing /\ call["worker"] \in Call
  BY <1>0 DEF IInv, TypeOK
<1>2. PICK c \in Call, l \in Listing :
        /\ c.at \in {"read", "list", "idle"}
        /\ call' = [call EXCEPT !["worker"] = c]
        /\ lister' = [lister EXCEPT !["worker"] = l]
  <2>1. CASE logs # {}
    <3>1. PICK e \in logs : call' = [call EXCEPT !["worker"].at = "read",
                                                 !["worker"].file = e.file]
      BY <2>1 DEF Select
    <3>2. e.file \in File
      BY <1>1 DEF Having, Listing, Entries
    <3>3. [call["worker"] EXCEPT !.at = "read", !.file = e.file] \in Call
      BY <1>1, <3>2 DEF Call
    <3>4. call' = [call EXCEPT !["worker"] =
                     [call["worker"] EXCEPT !.at = "read", !.file = e.file]]
      BY <1>0, <3>1 DEF IInv, TypeOK
    <3>5. [lister["worker"] EXCEPT !.found = {}] \in Listing
      BY <1>1 DEF Listing
    <3>6. lister' = [lister EXCEPT !["worker"] = [lister["worker"] EXCEPT !.found = {}]]
      BY <2>1 DEF Select
    <3>7. [call["worker"] EXCEPT !.at = "read", !.file = e.file].at = "read"
      BY <1>1 DEF Call
    <3> QED
      BY <3>3, <3>4, <3>5, <3>6, <3>7
  <2>2. CASE logs = {} /\ ~lister["worker"].forced
    <3>1. call' = [call EXCEPT !["worker"] = call["worker"]]
      BY <2>2 DEF Select, IInv, TypeOK
    <3> QED
      BY <1>1, <2>2, <3>1, ScanTyped DEF Select
  <2>3. CASE logs = {} /\ lister["worker"].forced
    <3>1. NoCall.at = "idle"
      BY DEF NoCall
    <3> QED
      BY <2>3, <3>1, ScanTyped, NoCallTyped DEF Select, Done
  <2> QED
    BY <2>1, <2>2, <2>3
<1>3. call' \in [Caller -> Call] /\ lister' \in [Lister -> Listing]
  BY <1>0, <1>2 DEF IInv, TypeOK
<1>4. TypeOK'
  BY <1>3 DEF Select, IInv, TypeOK, callRest, fileVars, engineVars
<1>5. \A p \in Caller : Owns(p)' => Owns(p) /\ call'[p] = call[p]
  BY <1>0, <1>2 DEF IInv, TypeOK, Owns
<1>6. call'["worker"].at # "swap"
  BY <1>0, <1>2 DEF IInv, TypeOK
<1> QED
  BY <1>4, <1>5, <1>6
    DEF Select, IInv, OwnerInv, ReaderInv, FilledInv, NeverLater,
        callRest, fileVars, engineVars

(* No reader goes past its time.                                           *)
LEMMA LastUpToTyped ==
  ASSUME NEW f \in Span, NEW t \in Times
  PROVE  LastUpTo(f, t) \in Times /\ LastUpTo(f, t) <= t
BY ConstantsAssumption DEF LastUpTo, HasRecords, Span, Times

LEMMA ReadLogStep ==
  ASSUME IInv, ReadLog
  PROVE  IInv'
<1>0. "worker" \in Caller /\ call["worker"] \in Call
  BY DEF IInv, TypeOK, Caller
<1> DEFINE t == call["worker"].time
           last == LastUpTo(disk[call["worker"].file], t)
           new(c) == [call["worker"] EXCEPT !.at = "swap", !.client = c,
                                            !.file = NoCall.file]
<1>1. PICK c \in freed :
        /\ call' = [call EXCEPT !["worker"] = new(c)]
        /\ freed' = freed \ {c}
        /\ shown' = [shown EXCEPT ![c] = last]
  BY DEF ReadLog, Free
<1>2. last \in Times /\ last <= t /\ t \in Times
  BY <1>0, LastUpToTyped DEF IInv, TypeOK, Call
<1>3. c \in Client /\ c # None /\ c # history
  BY ConstantsAssumption DEF IInv, TypeOK
<1>4. new(c) \in Call /\ new(c).at = "swap" /\ new(c).client = c /\ new(c).time = t
  BY <1>0, <1>3, NoCallTyped DEF Call
<1> HIDE DEF last, new, t
<1>5. TypeOK'
  <2>1. call' \in [Caller -> Call] /\ shown' \in [Client -> Times] /\ freed' \subseteq Client
    BY <1>0, <1>1, <1>2, <1>3, <1>4 DEF IInv, TypeOK
  <2> QED
    BY <2>1 DEF ReadLog, IInv, TypeOK, callRest, fileVars
<1>6. UNCHANGED <<history, time, lock, reader>>
  BY DEF ReadLog, callRest
<1>7. call'["worker"] = new(c) /\ \A p \in Caller \ {"worker"} : call'[p] = call[p]
  BY <1>0, <1>1 DEF IInv, TypeOK
<1>8. OwnerInv'
  <2>1. \A p \in Caller \ {"worker"} : Owns(p)' => Owns(p) /\ call[p].client \notin freed
    BY <1>7 DEF Owns, IInv, OwnerInv
  <2> QED
    BY <1>1, <1>3, <1>4, <1>6, <1>7, <2>1 DEF IInv, OwnerInv, Owns
<1>9. FilledInv'
  BY <1>1, <1>2, <1>3, <1>4, <1>7 DEF IInv, TypeOK, FilledInv
<1>10. history' \notin freed' /\ NeverLater'
  BY <1>1, <1>3, <1>6 DEF IInv, TypeOK, NeverLater
<1> QED
  BY <1>5, <1>6, <1>8, <1>9, <1>10 DEF IInv, ReaderInv

(* Nobody reads while nobody has the lock.                                 *)
LEMMA UnlockedReaders ==
  ASSUME IInv, lock = None
  PROVE  \A w \in Worker : reader[w] = None
BY ConstantsAssumption DEF IInv, ReaderInv

LEMMA SwapStep ==
  ASSUME IInv, Swap
  PROVE  IInv'
<1>0. "worker" \in Caller /\ call["worker"] \in Call
  BY DEF IInv, TypeOK, Caller
<1> DEFINE new == [call["worker"] EXCEPT !.at = "delete", !.client = history]
<1>1. call' = [call EXCEPT !["worker"] = new]
  BY <1>0 DEF Swap, IInv, TypeOK
<1>2. new \in Call /\ new.at = "delete" /\ new.client = history
  BY <1>0 DEF Call, IInv, TypeOK
<1> HIDE DEF new
<1>3. call["worker"].at = "swap" /\ call["worker"].client \in Client
      /\ call["worker"].client # None /\ Owns("worker")
  BY ConstantsAssumption DEF Swap, IInv, FilledInv, Owns
<1>4. call'["worker"] = new /\ \A p \in Caller \ {"worker"} : call'[p] = call[p]
  BY <1>0, <1>1 DEF IInv, TypeOK
<1>5. TypeOK'
  <2>1. call' \in [Caller -> Call]
    BY <1>0, <1>1, <1>2 DEF IInv, TypeOK
  <2>2. lister' \in [Lister -> Listing]
    BY ScanTyped DEF Swap, IInv, TypeOK
  <2>3. history' \in Client \cup {None} /\ time' \in Times
    BY <1>0, <1>3 DEF Swap, Call
  <2> QED
    BY <2>1, <2>2, <2>3 DEF Swap, IInv, TypeOK, callRest, fileVars
<1>6. OwnerInv'
  <2>1. \A p \in Caller \ {"worker"} :
          Owns(p)' => /\ Owns(p)
                      /\ call[p].client \notin freed \cup {history}
                      /\ call[p].client # call["worker"].client
    BY <1>0, <1>3, <1>4 DEF Owns, IInv, OwnerInv
  <2>2. history # None => history \notin freed /\ history # call["worker"].client
    BY <1>0, <1>3 DEF IInv, OwnerInv
  <2>3. freed' = freed /\ history' = call["worker"].client
    BY DEF Swap
  <2>4. Owns("worker")' => call'["worker"].client = history /\ history # None
    BY <1>2, <1>4 DEF Owns
  <2>5. \A p \in Caller : Owns(p)' => call'[p].client \notin freed' \cup {history'}
    BY <1>0, <1>4, <2>1, <2>2, <2>3, <2>4
  <2>6. \A p, q \in Caller \ {"worker"} : p = q
    BY DEF Caller
  <2>7. \A p, q \in Caller :
          p # q /\ Owns(p)' /\ Owns(q)' => call'[p].client # call'[q].client
    BY <1>0, <1>4, <2>1, <2>4, <2>6
  <2> QED
    BY <2>5, <2>7 DEF OwnerInv
<1>7. ReaderInv'
  BY UnlockedReaders DEF Swap, callRest, ReaderInv
<1>8. FilledInv'
  BY <1>2, <1>4 DEF FilledInv
<1>9. history' \notin freed' /\ NeverLater'
  BY <1>0, <1>3 DEF Swap, IInv, OwnerInv, FilledInv, NeverLater
<1> QED
  BY <1>5, <1>6, <1>7, <1>8, <1>9 DEF IInv

LEMMA LiveSetStep ==
  ASSUME IInv, LiveSet("main")
  PROVE  IInv'
<1>0. "main" \in Caller /\ "worker" \in Caller
  BY DEF Caller
<1> DEFINE new == [NoCall EXCEPT !.at = "delete", !.client = history]
<1>1. call' = [call EXCEPT !["main"] = new]
  BY DEF LiveSet
<1>2. new \in Call /\ new.at = "delete" /\ new.client = history
  BY NoCallTyped DEF Call, IInv, TypeOK
<1> HIDE DEF new
<1>3. call'["main"] = new /\ \A p \in Caller \ {"main"} : call'[p] = call[p]
  BY <1>0, <1>1 DEF IInv, TypeOK
<1>4. TypeOK'
  <2>1. call' \in [Caller -> Call]
    BY <1>0, <1>1, <1>2 DEF IInv, TypeOK
  <2>2. history' \in Client \cup {None} /\ time' \in Times
    BY ConstantsAssumption DEF LiveSet, Times
  <2> QED
    BY <2>1, <2>2 DEF LiveSet, IInv, TypeOK, callRest, fileVars
<1>5. OwnerInv'
  <2>1. \A p \in Caller \ {"main"} :
          Owns(p)' => Owns(p) /\ call[p].client \notin freed \cup {history}
    BY <1>3 DEF Owns, IInv, OwnerInv
  <2>2. history \notin freed /\ freed' = freed /\ history' = None
    BY DEF IInv, LiveSet
  <2> QED
    BY <1>2, <1>3, <2>1, <2>2 DEF OwnerInv, Owns, Caller
<1>6. ReaderInv'
  BY UnlockedReaders DEF LiveSet, callRest, ReaderInv
<1>7. FilledInv'
  BY <1>0, <1>3 DEF LiveSet, IInv, FilledInv
<1>8. history' \notin freed' /\ NeverLater'
  BY ConstantsAssumption DEF LiveSet, IInv, TypeOK, NeverLater
<1> QED
  BY <1>4, <1>5, <1>6, <1>7, <1>8 DEF IInv

LEMMA DeleteStep ==
  ASSUME IInv, NEW p \in Caller, Delete(p)
  PROVE  IInv'
<1> DEFINE c == call[p].client
<1>1. call' = [call EXCEPT ![p] = NoCall] /\ UNCHANGED <<callRest, history, time, lock, lister>>
  BY DEF Delete, Done
<1>2. call'[p] = NoCall /\ \A q \in Caller \ {p} : call'[q] = call[q]
  BY <1>1 DEF IInv, TypeOK
<1>3. call[p] \in Call /\ c \in Client \cup {None}
  BY DEF IInv, TypeOK, Call
<1>4. \/ c = None /\ freed' = freed /\ shown' = shown
      \/ /\ c # None /\ c \in Client /\ c # history /\ Owns(p)
         /\ freed' = freed \cup {c} /\ shown' = [shown EXCEPT ![c] = 0]
  BY <1>3 DEF Delete, Owns, IInv, OwnerInv
<1>5. ~Owns(p)' /\ call'[p].at = "idle"
  BY <1>2 DEF Owns, NoCall
<1>6. \A q \in Caller : Owns(q)' => /\ q # p /\ Owns(q) /\ call'[q] = call[q]
                                    /\ c # None => call[q].client # c
  BY <1>2, <1>4, <1>5 DEF Owns, IInv, OwnerInv
<1>7. TypeOK'
  <2>1. call' \in [Caller -> Call]
    BY <1>1, NoCallTyped DEF IInv, TypeOK
  <2>2. freed' \subseteq Client /\ shown' \in [Client -> Times]
    BY <1>4, ConstantsAssumption DEF IInv, TypeOK, Times
  <2> QED
    BY <1>1, <2>1, <2>2 DEF IInv, TypeOK, callRest, fileVars
<1>8. OwnerInv'
  BY <1>1, <1>4, <1>6 DEF IInv, OwnerInv
<1>9. ReaderInv'
  BY <1>1 DEF IInv, ReaderInv, callRest
<1>10. FilledInv'
  <2> SUFFICES ASSUME call'["worker"].at = "swap"
               PROVE  /\ call'["worker"].client \in Client
                      /\ shown'[call'["worker"].client] <= call'["worker"].time
    BY DEF FilledInv
  <2>1. "worker" \in Caller /\ "worker" # p /\ call'["worker"] = call["worker"]
    BY <1>2, <1>5 DEF Caller
  <2>2. /\ call["worker"].client \in Client /\ call["worker"].client # None
        /\ shown[call["worker"].client] <= call["worker"].time
    BY <2>1, ConstantsAssumption DEF IInv, FilledInv
  <2>3. c # None => call["worker"].client # c
    BY <1>6, <2>1, <2>2 DEF Owns
  <2> QED
    BY <1>4, <2>1, <2>2, <2>3 DEF IInv, TypeOK
<1>11. history' \notin freed' /\ NeverLater'
  BY <1>1, <1>4, ConstantsAssumption DEF IInv, TypeOK, NeverLater
<1> QED
  BY <1>7, <1>8, <1>9, <1>10, <1>11 DEF IInv

LEMMA ReaderStep ==
  ASSUME IInv, NEW w \in Worker, Acquire(w) \/ Release(w)
  PROVE  IInv'
<1>1. TypeOK'
  BY DEF Acquire, Release, readRest, fileVars, engineVars, IInv, TypeOK
<1>2. ReaderInv'
  <2>1. CASE Acquire(w)
    BY <2>1, UnlockedReaders
      DEF Acquire, readRest, engineVars, IInv, TypeOK, ReaderInv
  <2>2. CASE Release(w)
    BY <2>2 DEF Release, readRest, engineVars, IInv, TypeOK, ReaderInv
  <2> QED
    BY <2>1, <2>2
<1>3. UNCHANGED <<freed, shown, history, time, call>>
  BY DEF Acquire, Release, readRest, engineVars
<1> QED
  BY <1>1, <1>2, <1>3 DEF IInv, OwnerInv, Owns, FilledInv, NeverLater

-----------------------------------------------------------------------------
(* Each step leaves every client with one owner.                           *)
LEMMA NextIInv == IInv /\ [Next]_vars => IInv'
<1> SUFFICES ASSUME IInv, [Next]_vars
             PROVE  IInv'
  OBVIOUS
<1>1. CASE Tick \/ Rotate \/ Compress \/ RemoveCopy
  <2>1. TypeOK'
    BY <1>1, FilesStep DEF IInv
  <2>2. UNCHANGED owners
    BY <1>1 DEF Tick, Rotate, Compress, RemoveCopy, engineVars, owners
  <2> QED
    BY <2>1, <2>2, OwnersStep
<1>2. CASE Expire \/ Publish("bounds") \/ BoundsScan \/ List("worker")
  <2>1. Lists /\ UNCHANGED listRest
    BY <1>2, ListStep DEF IInv
  <2>2. TypeOK'
    BY <2>1 DEF Lists, listRest, fileVars, engineVars, IInv, TypeOK
  <2>3. UNCHANGED owners
    BY <2>1 DEF listRest, engineVars, owners
  <2> QED
    BY <2>2, <2>3, OwnersStep
<1>3. CASE \E t \in Times : TimeSet(t)
  BY <1>3, TimeSetStep
<1>4. CASE LiveSet("main")
  BY <1>4, LiveSetStep
<1>5. CASE \E p \in Caller : Delete(p)
  BY <1>5, DeleteStep
<1>6. CASE Select
  BY <1>6, SelectStep
<1>7. CASE ReadLog
  BY <1>7, ReadLogStep
<1>8. CASE Swap
  BY <1>8, SwapStep
<1>9. CASE \E w \in Worker : Acquire(w) \/ Release(w)
  BY <1>9, ReaderStep
<1>10. CASE UNCHANGED vars
  <2>1. TypeOK'
    BY <1>10 DEF vars, fileVars, engineVars, IInv, TypeOK
  <2>2. UNCHANGED owners
    BY <1>10 DEF vars, engineVars, owners
  <2> QED
    BY <2>1, <2>2, OwnersStep
<1> QED
  BY <1>1, <1>2, <1>3, <1>4, <1>5, <1>6, <1>7, <1>8, <1>9, <1>10
    DEF Next, CallStep

-----------------------------------------------------------------------------
(* Every reachable state: no window reads a snapshot that was deleted, the *)
(* one that is shown exists and is none that is filled or deleted, and it  *)
(* is not later than the time that was asked for                           *)
(* (evisum_engine_history_time_set, evisum_engine_history_live_set,        *)
(* _engine_snapshot_acquire).                                              *)
THEOREM ShownIsAlive == Spec => []HistoryInv
BY InitIInv, NextIInv, IInvSuffices, PTL DEF Spec

-----------------------------------------------------------------------------
(***************************************************************************)
(* The time that is shown is the one that was asked for.  A list of the    *)
(* logs says for which count of changes it was made; while that is still   *)
(* the count, what it says of a log holds, but that the log may have       *)
(* grown: in the cache, and in the hands of both who list.                 *)
(***************************************************************************)

(* What a list of the logs says of them is still so, unless a file was     *)
(* replaced or removed since; a log may have grown.                        *)
Current(found, v) ==
  /\ v <= version
  /\ v = version =>
       \A e \in found : /\ HasRecords(e)
                        /\ disk[e.file].from = e.from /\ e.to <= disk[e.file].to

ListsInv ==
  /\ \A f \in File : disk[f].to <= now
  /\ Current(cache.found, cache.version)
  /\ \A p \in Lister : Current(lister[p].found, lister[p].version)

(* Hence the log that was selected holds the time that is asked for when   *)
(* it is read, and the client ends with it.                                *)
TimeInv ==
  LET c == call["worker"]
      l == lister["worker"]
  IN
  /\ c.at \in {"read", "swap"} => l.at = "have"
  /\ c.at = "read" /\ l.version = version => Holds(disk[c.file], c.time)
  /\ c.at = "swap" /\ l.version = version => shown[c.client] = c.time

ExactIInv == IInv /\ ListsInv /\ TimeInv

-----------------------------------------------------------------------------
(* The daemon's work leaves current what it does not count as a change.    *)
LEMMA FilesKeepLists ==
  ASSUME TypeOK, Tick \/ Rotate \/ Compress \/ RemoveCopy,
         \A f \in File : disk[f].to <= now,
         NEW found \in SUBSET Entries, NEW v \in 0 .. MaxChanges, Current(found, v)
  PROVE  /\ v <= version'
         /\ v = version' =>
              \A e \in found : /\ HasRecords(e)
                               /\ disk'[e.file].from = e.from
                               /\ e.to <= disk'[e.file].to
<1> USE ConstantsAssumption DEF TypeOK
<1>1. \A e \in found : e.file \in File /\ e.from \in Int /\ e.to \in Int
  BY DEF Entries, Times
<1>2. \A f \in File : disk[f].from \in Int /\ disk[f].to \in Int
  BY DEF Span, Times
<1>3. ASSUME version' = version,
             \A f \in File : HasRecords(disk[f]) =>
               disk'[f].from = disk[f].from /\ disk[f].to <= disk'[f].to /\ disk'[f].to \in Int
      PROVE  /\ v <= version'
             /\ v = version' =>
                  \A e \in found : /\ HasRecords(e)
                                   /\ disk'[e.file].from = e.from
                                   /\ e.to <= disk'[e.file].to
  <2> SUFFICES ASSUME v = version, NEW e \in found
               PROVE  /\ HasRecords(e) /\ disk'[e.file].from = e.from
                      /\ e.to <= disk'[e.file].to
    BY <1>3 DEF Current
  <2>1. /\ HasRecords(e)
        /\ disk[e.file].from = e.from /\ e.to <= disk[e.file].to
    BY DEF Current
  <2>2. HasRecords(disk[e.file])
    BY <1>1, <1>2, <2>1 DEF HasRecords
  <2>3. e.file \in File
    BY <1>1
  <2>4. /\ disk'[e.file].from = disk[e.file].from /\ disk[e.file].to <= disk'[e.file].to
        /\ disk'[e.file].to \in Int
    BY <1>3, <2>2, <2>3
  <2> QED
    BY <1>1, <1>2, <2>1, <2>3, <2>4
<1>4. ASSUME Change
      PROVE  /\ v <= version'
             /\ v = version' =>
                  \A e \in found : /\ HasRecords(e)
                                   /\ disk'[e.file].from = e.from
                                   /\ e.to <= disk'[e.file].to
  BY <1>4 DEF Change, Current
<1>5. CASE Tick
  <2>1. version' = version /\ now' = now + 1 /\ now \in Int
    BY <1>5 DEF Tick, Times
  <2>2. ASSUME NEW f \in File, HasRecords(disk[f])
        PROVE  /\ disk'[f].from = disk[f].from /\ disk[f].to <= disk'[f].to
               /\ disk'[f].to \in Int
    <3>1. CASE f = "log"
      <4>1. disk'[f] = [disk[f] EXCEPT !.to = now + 1]
        BY <1>5, <2>2, <3>1 DEF Tick
      <4>2. disk[f] \in Span
        OBVIOUS
      <4>3. disk'[f].from = disk[f].from /\ disk'[f].to = now + 1
        BY <4>1, <4>2 DEF Span
      <4> QED
        BY <1>2, <2>1, <4>3
    <3>2. CASE f # "log"
      <4>1. disk'[f] = disk[f]
        BY <1>5, <3>2 DEF Tick
      <4> QED
        BY <1>2, <4>1
    <3> QED
      BY <3>1, <3>2
  <2> QED
    BY <1>3, <2>1, <2>2
<1>6. CASE Compress
  <2>1. CASE HasRecords(disk["lz4"])
    BY <1>4, <1>6, <2>1 DEF Compress
  <2>2. CASE ~HasRecords(disk["lz4"])
    <3>1. version' = version
      BY <1>6, <2>2 DEF Compress
    <3>2. ASSUME NEW f \in File, HasRecords(disk[f])
          PROVE  disk'[f] = disk[f]
      BY <1>6, <2>2, <3>2 DEF Compress
    <3> QED
      BY <1>2, <1>3, <3>1, <3>2
  <2> QED
    BY <2>1, <2>2
<1> QED
  BY <1>4, <1>5, <1>6 DEF Rotate, RemoveCopy

(* No record is from later than now.                                       *)
LEMMA RecordsArePast ==
  ASSUME TypeOK, Tick \/ Rotate \/ Compress \/ RemoveCopy,
         \A f \in File : disk[f].to <= now
  PROVE  \A f \in File : disk'[f].to <= now'
<1> USE ConstantsAssumption DEF TypeOK
<1>1. now \in 0 .. MaxTime /\ MaxTime \in Nat
      /\ \A f \in File : disk[f] \in Span /\ disk[f].to \in Int
  BY DEF Span, Times
<1> SUFFICES ASSUME NEW f \in File PROVE disk'[f].to <= now'
  OBVIOUS
<1>2. CASE Tick
  <2>1. now' = now + 1
    BY <1>2 DEF Tick
  <2>2. f = "log" => disk'[f].to = now + 1
    BY <1>1, <1>2 DEF Tick, Span
  <2>3. f # "log" => disk'[f] = disk[f]
    BY <1>2 DEF Tick
  <2> QED
    BY <1>1, <2>1, <2>2, <2>3
<1>3. CASE Rotate
  <2>1. now' = now
    BY <1>3 DEF Rotate
  <2>2. disk'[f] = disk[f] \/ disk'[f] = NoFile \/ disk'[f] = disk["log"]
    BY <1>3 DEF Rotate
  <2> QED
    BY <1>1, <2>1, <2>2 DEF NoFile, File
<1>4. CASE Compress
  <2>1. now' = now
    BY <1>4 DEF Compress
  <2>2. disk'[f] = disk[f] \/ disk'[f] = disk["copy"]
    BY <1>4 DEF Compress
  <2> QED
    BY <1>1, <2>1, <2>2 DEF File
<1>5. CASE RemoveCopy
  <2>1. now' = now
    BY <1>5 DEF RemoveCopy
  <2>2. disk'[f] = disk[f] \/ disk'[f] = NoFile
    BY <1>5 DEF RemoveCopy
  <2> QED
    BY <1>1, <2>1, <2>2 DEF NoFile
<1> QED
  BY <1>2, <1>3, <1>4, <1>5

(* What is read of the directory is current, with what was read before.    *)
LEMMA ScanIsCurrent ==
  ASSUME TypeOK, NEW files \in SUBSET File
  PROVE  /\ Current(EntriesOf(files), version)
         /\ \A found, v : Current(found, v) => Current(found \cup EntriesOf(files), v)
<1>1. \A e \in EntriesOf(files) :
        /\ HasRecords(e)
        /\ disk[e.file].from = e.from /\ e.to = disk[e.file].to
  BY DEF EntriesOf, HasRecords
<1>2. version \in Int /\ \A f \in File : disk[f].to \in Int
  BY DEF TypeOK, Span, Times
<1>3. \A e \in EntriesOf(files) : e.to <= disk[e.file].to
  <2>1. \A e \in EntriesOf(files) : e.file \in File
    BY DEF EntriesOf
  <2> QED
    BY <1>1, <1>2, <2>1
<1> QED
  BY <1>1, <1>2, <1>3 DEF Current

(* The daemon's work, where a call is under way.                           *)
LEMMA FilesKeepTime ==
  ASSUME ExactIInv, Tick \/ Rotate \/ Compress \/ RemoveCopy
  PROVE  ListsInv' /\ TimeInv'
<1> USE DEF ExactIInv, IInv
<1>1. TypeOK /\ ListsInv /\ TimeInv
  OBVIOUS
<1>2. cache \in Cache /\ lister \in [Lister -> Listing] /\ call["worker"] \in Call
  BY <1>1 DEF TypeOK, Caller
<1>3. UNCHANGED <<cache, lister, call, shown>>
  BY DEF Tick, Rotate, Compress, RemoveCopy, engineVars
<1>4. ListsInv'
  <2>1. \A f \in File : disk'[f].to <= now'
    BY <1>1, RecordsArePast DEF ListsInv
  <2>2. Current(cache.found, cache.version)'
    <3>1. cache.found \in SUBSET Entries /\ cache.version \in 0 .. MaxChanges
      BY <1>2 DEF Cache
    <3> QED
      BY <1>1, <1>3, <3>1, FilesKeepLists DEF ListsInv, Current
  <2>3. ASSUME NEW p \in Lister
        PROVE  Current(lister[p].found, lister[p].version)'
    <3>1. lister[p].found \in SUBSET Entries /\ lister[p].version \in 0 .. MaxChanges
      BY <1>2 DEF Listing
    <3> QED
      BY <1>1, <1>3, <3>1, FilesKeepLists DEF ListsInv, Current
  <2> QED
    BY <2>1, <2>2, <2>3 DEF ListsInv
<1>5. TimeInv'
  <2> DEFINE c == call["worker"]
             v == lister["worker"].version
             e == [file |-> c.file, from |-> disk[c.file].from, to |-> disk[c.file].to]
  <2>1. v \in 0 .. MaxChanges /\ c.file \in File /\ c.time \in Times
    BY <1>2 DEF Listing, Lister, Call
  <2>2. disk[c.file] \in Span /\ disk' \in [File -> Span] /\ disk'[c.file] \in Span
    BY <1>1, <2>1, FilesStep DEF TypeOK
  <2>3. v <= version /\ version \in Int
    BY <1>1 DEF ListsInv, Current, Lister, TypeOK
  <2>4. c.at = "read" /\ v = version' => Holds(disk'[c.file], c.time)
    <3> SUFFICES ASSUME c.at = "read", v = version'
                 PROVE  Holds(disk'[c.file], c.time)
      OBVIOUS
    <3>1. v = version
      BY <2>1, <2>3 DEF Tick, Rotate, Compress, RemoveCopy, Change
    <3>2. Holds(disk[c.file], c.time)
      BY <1>1, <3>1 DEF TimeInv
    <3>3. Current({e}, v)
      BY <2>1, <2>2, <2>3, <3>2 DEF Current, HasRecords, Holds, Span, Times
    <3>4. {e} \in SUBSET Entries
      BY <2>1, <2>2 DEF Entries, Span
    <3> HIDE DEF e
    <3>5. \A x \in {e} : disk'[x.file].from = x.from /\ x.to <= disk'[x.file].to
      BY <1>1, <2>1, <3>3, <3>4, FilesKeepLists DEF ListsInv
    <3>6. e.file = c.file /\ e.from = disk[c.file].from /\ e.to = disk[c.file].to
      BY DEF e
    <3>7. disk'[c.file].from = disk[c.file].from /\ disk[c.file].to <= disk'[c.file].to
      BY <3>5, <3>6
    <3> QED
      BY <2>1, <2>2, <3>2, <3>7 DEF Holds, Span, Times
  <2>5. v = version' => v = version
    BY <2>1, <2>3 DEF Tick, Rotate, Compress, RemoveCopy, Change
  <2> QED
    BY <1>1, <1>3, <2>4, <2>5 DEF TimeInv
<1> QED
  BY <1>4, <1>5

(* Listing the logs, which the worker does only before it selects one.     *)
LEMMA ListingKeepsTime ==
  ASSUME ExactIInv, Expire \/ Publish("bounds") \/ BoundsScan \/ List("worker")
  PROVE  ListsInv' /\ TimeInv'
<1> USE DEF ExactIInv, IInv
<1>1. TypeOK /\ ListsInv /\ TimeInv
  OBVIOUS
<1>2. lister \in [Lister -> Listing] /\ cache \in Cache /\ version \in 0 .. MaxChanges
  BY <1>1 DEF TypeOK
<1>3. "worker" \in Lister /\ "bounds" \in Lister /\ "worker" # "bounds"
  BY DEF Lister
<1>4. UNCHANGED <<now, disk, version, shown, call>> /\ lister' \in [Lister -> Listing]
  BY <1>1, ListStep DEF listRest, fileVars, engineVars, Lists
<1>5. Current({}, 0)
  BY <1>2, ConstantsAssumption DEF Current
<1>6. ASSUME NEW p \in Lister, NEW l, lister' = [lister EXCEPT ![p] = l],
             Current(l.found, l.version),
             Current(cache'.found, cache'.version),
             p = "worker" => lister["worker"].at # "have"
      PROVE  ListsInv' /\ TimeInv'
  <2>1. \A q \in Lister : lister'[q] = IF q = p THEN l ELSE lister[q]
    BY <1>2, <1>6
  <2>2. ListsInv'
    BY <1>1, <1>4, <1>6, <2>1 DEF ListsInv, Current
  <2>3. TimeInv'
    <3>1. CASE p = "worker"
      BY <1>1, <1>4, <1>6, <3>1 DEF TimeInv
    <3>2. CASE p # "worker"
      BY <1>1, <1>3, <1>4, <2>1, <3>2 DEF TimeInv
    <3> QED
      BY <3>1, <3>2
  <2> QED
    BY <2>2, <2>3
<1>7. Current(cache.found, cache.version)
      /\ \A p \in Lister : Current(lister[p].found, lister[p].version)
  BY <1>1 DEF ListsInv
(* A list that is gone on with.                                            *)
<1>8. ASSUME NEW p \in Lister, NEW found \in SUBSET Entries, NEW v \in 0 .. MaxChanges,
             Current(found, v), Listed(p, found, v),
             Current(cache'.found, cache'.version), lister[p].at = "scan"
      PROVE  ListsInv' /\ TimeInv'
  <2>1. CASE p = "worker"
    <3> DEFINE l == [lister[p] EXCEPT !.at = "have", !.found = found, !.todo = {},
                                      !.version = v]
    <3>1. lister' = [lister EXCEPT ![p] = l]
      BY <1>8, <2>1 DEF Listed
    <3>2. l.found = found /\ l.version = v
      BY <1>2 DEF Listing
    <3> HIDE DEF l
    <3>3. Current(l.found, l.version)
      BY <1>8, <3>2
    <3> QED
      BY <1>6, <1>8, <3>1, <3>3
  <2>2. CASE p # "worker"
    <3>1. lister' = [lister EXCEPT ![p] = NoList]
      BY <1>8, <2>2 DEF Listed
    <3>2. NoList.found = {} /\ NoList.version = 0
      BY DEF NoList
    <3>3. Current(NoList.found, NoList.version)
      BY <1>5, <3>2
    <3> QED
      BY <1>6, <1>8, <2>2, <3>1, <3>3
  <2> QED
    BY <2>1, <2>2
<1>9. CASE Expire
  <2>1. NoCache.found = {} /\ NoCache.version = 0
    BY DEF NoCache
  <2>2. Current(cache'.found, cache'.version)
    BY <1>5, <1>9, <2>1 DEF Expire
  <2>3. lister' = lister
    BY <1>9 DEF Expire
  <2>4. ListsInv'
    BY <1>1, <1>4, <2>2, <2>3 DEF ListsInv, Current
  <2> QED
    BY <1>1, <1>4, <2>3, <2>4 DEF TimeInv
<1>10. ASSUME NEW p \in Lister, Publish(p)
       PROVE  ListsInv' /\ TimeInv'
  <2>1. lister[p].found \in SUBSET Entries /\ lister[p].version \in 0 .. MaxChanges
    BY <1>2 DEF Listing
  <2>2. Listed(p, lister[p].found, lister[p].version) /\ lister[p].at = "scan"
    BY <1>10 DEF Publish
  <2>3. cache' = cache \/ (/\ cache'.found = lister[p].found
                           /\ cache'.version = lister[p].version)
    BY <1>10 DEF Publish
  <2>4. Current(cache'.found, cache'.version)
    BY <1>7, <2>3
  <2> QED
    BY <1>7, <1>8, <2>1, <2>2, <2>4
<1>11. CASE BoundsScan
  <2> DEFINE l == [NoList EXCEPT !.at = "scan", !.found = EntriesOf(File),
                                 !.version = version]
  <2>1. lister' = [lister EXCEPT !["bounds"] = l] /\ cache' = cache
    BY <1>11 DEF BoundsScan
  <2>2. l.found = EntriesOf(File) /\ l.version = version
    BY DEF NoList
  <2>3. Current(EntriesOf(File), version)
    BY <1>1, ScanIsCurrent
  <2> HIDE DEF l
  <2>4. Current(l.found, l.version)
    BY <2>2, <2>3
  <2> QED
    BY <1>3, <1>6, <1>7, <2>1, <2>4
<1>12. CASE UseCache("worker")
  <2>1. cache.found \in SUBSET Entries /\ cache.version \in 0 .. MaxChanges
    BY <1>2 DEF Cache
  <2> QED
    BY <1>3, <1>7, <1>8, <1>12, <2>1 DEF UseCache
<1>13. CASE ScanLog("worker")
  <2> DEFINE l == [lister["worker"] EXCEPT !.found = EntriesOf({"log"}),
                                           !.todo = @ \ {"log"}, !.version = version]
  <2>1. lister' = [lister EXCEPT !["worker"] = l] /\ cache' = cache
    BY <1>2, <1>3, <1>13 DEF ScanLog, Listing
  <2>2. l.found = EntriesOf({"log"}) /\ l.version = version
    BY <1>2, <1>3 DEF Listing
  <2>3. Current(EntriesOf({"log"}), version)
    BY <1>1, ScanIsCurrent DEF File
  <2> HIDE DEF l
  <2>4. Current(l.found, l.version)
    BY <2>2, <2>3
  <2>5. lister["worker"].at = "scan"
    BY <1>13 DEF ScanLog
  <2> QED
    BY <1>3, <1>6, <1>7, <2>1, <2>4, <2>5
<1>14. CASE ScanDirectory("worker")
  <2> DEFINE l == [lister["worker"] EXCEPT
                     !.found = @ \cup EntriesOf(lister["worker"].todo), !.todo = {}]
  <2>1. lister' = [lister EXCEPT !["worker"] = l] /\ cache' = cache
    BY <1>2, <1>3, <1>14 DEF ScanDirectory, Listing
  <2>2. /\ l.found = lister["worker"].found \cup EntriesOf(lister["worker"].todo)
        /\ l.version = lister["worker"].version
    BY <1>2, <1>3 DEF Listing
  <2>3. lister["worker"].todo \in SUBSET File
    BY <1>2, <1>3 DEF Listing
  <2> HIDE DEF l
  <2>4. Current(l.found, l.version)
    BY <1>1, <1>3, <1>7, <2>2, <2>3, ScanIsCurrent
  <2>5. lister["worker"].at = "scan"
    BY <1>14 DEF ScanDirectory
  <2> QED
    BY <1>3, <1>6, <1>7, <2>1, <2>4, <2>5
<1> QED
  BY <1>3, <1>9, <1>10, <1>11, <1>12, <1>13, <1>14 DEF List

(* Nothing that the lists are about changes.                               *)
LEMMA ListsKept ==
  ASSUME ExactIInv, UNCHANGED <<fileVars, cache>>,
         \A p \in Lister :
           \/ lister'[p].found \subseteq lister[p].found
                /\ lister'[p].version = lister[p].version
           \/ lister'[p].found = {} /\ lister'[p].version = 0
  PROVE  ListsInv'
<1>1. version \in 0 .. MaxChanges /\ UNCHANGED <<now, disk, version>>
  BY DEF ExactIInv, IInv, TypeOK, fileVars
<1>2. \A p \in Lister : Current(lister[p].found, lister[p].version)
  BY DEF ExactIInv, ListsInv
<1>3. ASSUME NEW p \in Lister
      PROVE  Current(lister'[p].found, lister'[p].version)
  <2>1. CASE /\ lister'[p].found \subseteq lister[p].found
             /\ lister'[p].version = lister[p].version
    BY <1>2, <2>1 DEF Current
  <2>2. CASE lister'[p].found = {} /\ lister'[p].version = 0
    BY <1>1, <2>2, ConstantsAssumption DEF Current
  <2> QED
    BY <2>1, <2>2
<1> QED
  BY <1>1, <1>3 DEF ExactIInv, ListsInv, Current

(* A call begins with no list.                                             *)
LEMMA TimeSetIsExact ==
  ASSUME ExactIInv, NEW t \in Times, TimeSet(t)
  PROVE  ListsInv' /\ TimeInv'
<1>1. lister \in [Lister -> Listing] /\ call \in [Caller -> Call]
      /\ "worker" \in Caller /\ "worker" \in Lister
  BY DEF ExactIInv, IInv, TypeOK, Caller, Lister
<1> DEFINE l == [NoList EXCEPT !.at = "scan", !.todo = File]
<1>2. lister' = [lister EXCEPT !["worker"] = l] /\ UNCHANGED <<fileVars, cache>>
  BY DEF TimeSet, callRest
<1>3. l.found = {} /\ l.version = 0
  BY DEF NoList
<1> HIDE DEF l
<1>4. ListsInv'
  BY <1>1, <1>2, <1>3, ListsKept
<1>5. call'["worker"].at = "list"
  BY <1>1 DEF TimeSet, NoCall
<1> QED
  BY <1>4, <1>5 DEF TimeInv

(* A log that was selected from a list that is current holds the time.     *)
LEMMA SelectIsExact ==
  ASSUME ExactIInv, Select
  PROVE  ListsInv' /\ TimeInv'
<1> DEFINE l == lister["worker"]
           c == call["worker"]
           logs == Having(l.found, c.time)
<1>1. lister \in [Lister -> Listing] /\ call \in [Caller -> Call]
      /\ "worker" \in Caller /\ "worker" \in Lister
  BY DEF ExactIInv, IInv, TypeOK, Caller, Lister
<1>2. UNCHANGED <<fileVars, cache, shown>> /\ l.at = "have" /\ c.at = "list"
  BY DEF Select, callRest, engineVars
<1>3. l \in Listing /\ c \in Call
  BY <1>1
<1>4. CASE logs # {}
  <2>1. PICK e \in logs : call' = [call EXCEPT !["worker"].at = "read",
                                               !["worker"].file = e.file]
    BY <1>4 DEF Select
  <2>2. /\ lister' = [lister EXCEPT !["worker"].found = {}]
    BY <1>4 DEF Select
  <2>3. /\ call'["worker"].at = "read" /\ call'["worker"].file = e.file
        /\ call'["worker"].time = c.time
    BY <1>1, <1>3, <2>1 DEF Call
  <2>4. /\ lister'["worker"].found = {} /\ lister'["worker"].version = l.version
        /\ lister'["worker"].at = "have"
        /\ \A p \in Lister \ {"worker"} : lister'[p] = lister[p]
    BY <1>1, <1>2, <1>3, <2>2 DEF Listing
  <2>5. ListsInv'
    BY <1>2, <2>4, ListsKept
  <2>6. l.version = version => Holds(disk[e.file], c.time)
    <3>1. e \in l.found /\ e \in Entries /\ Holds(e, c.time)
      BY <1>3 DEF Having, Listing
    <3>2. l.version = version =>
            disk[e.file].from = e.from /\ e.to <= disk[e.file].to
      BY <1>1, <3>1 DEF ExactIInv, ListsInv, Current
    <3>3. disk[e.file] \in Span /\ c.time \in Times
      BY <1>3, <3>1 DEF ExactIInv, IInv, TypeOK, Entries, Call
    <3> QED
      BY <3>1, <3>2, <3>3 DEF Holds, Span, Entries, Times
  <2> QED
    BY <1>2, <2>3, <2>4, <2>5, <2>6 DEF TimeInv, fileVars
<1>5. CASE logs = {}
  <2>1. /\ call'["worker"].at \in {"list", "idle"}
    BY <1>1, <1>2, <1>5 DEF Select, Done, NoCall
  <2> DEFINE again == [NoList EXCEPT !.at = "scan", !.todo = File, !.forced = TRUE]
  <2>2. \/ lister' = [lister EXCEPT !["worker"] = again]
        \/ lister' = [lister EXCEPT !["worker"] = NoList]
    BY <1>5 DEF Select
  <2>3. /\ again.found = {} /\ again.version = 0
        /\ NoList.found = {} /\ NoList.version = 0
    BY DEF NoList
  <2> HIDE DEF again
  <2>4. ListsInv'
    BY <1>1, <1>2, <2>2, <2>3, ListsKept
  <2> QED
    BY <2>1, <2>4 DEF TimeInv
<1> QED
  BY <1>4, <1>5

(* A client that reads a log that holds the time ends with it.             *)
LEMMA ReadLogIsExact ==
  ASSUME ExactIInv, ReadLog
  PROVE  ListsInv' /\ TimeInv'
<1> DEFINE c == call["worker"]
           last == LastUpTo(disk[c.file], c.time)
           new(x) == [call["worker"] EXCEPT !.at = "swap", !.client = x,
                                            !.file = NoCall.file]
<1>1. PICK x \in freed :
        /\ call' = [call EXCEPT !["worker"] = new(x)]
        /\ shown' = [shown EXCEPT ![x] = last]
  BY DEF ReadLog, Free
<1>2. UNCHANGED <<fileVars, cache, lister>> /\ c.at = "read"
  BY DEF ReadLog, callRest
<1>3. call \in [Caller -> Call] /\ c \in Call /\ "worker" \in Caller
  BY DEF ExactIInv, IInv, TypeOK, Caller
<1>4. new(x).at = "swap" /\ new(x).client = x /\ new(x).time = c.time
  BY <1>3 DEF Call
<1>5. shown'[x] = last
  BY <1>1 DEF ExactIInv, IInv, TypeOK
<1>6. Holds(disk[c.file], c.time) => last = c.time
  <2>1. disk[c.file] \in Span /\ c.time \in Times
    BY <1>3 DEF ExactIInv, IInv, TypeOK, Call
  <2> QED
    BY <2>1 DEF LastUpTo, Holds, HasRecords, Span, Times
<1> HIDE DEF new, last
<1>7. call'["worker"] = new(x)
  BY <1>1, <1>3
<1>8. ListsInv'
  BY <1>2, ListsKept
<1> QED
  BY <1>2, <1>4, <1>5, <1>6, <1>7, <1>8 DEF TimeInv, ExactIInv, fileVars

(* A client that is deleted is none that is being filled.                  *)
LEMMA DeleteIsExact ==
  ASSUME ExactIInv, NEW p \in Caller, Delete(p)
  PROVE  ListsInv' /\ TimeInv'
<1>1. call \in [Caller -> Call] /\ shown \in [Client -> Times] /\ "worker" \in Caller
  BY DEF ExactIInv, IInv, TypeOK, Caller
<1>2. UNCHANGED <<fileVars, cache, lister>> /\ call' = [call EXCEPT ![p] = NoCall]
  BY DEF Delete, Done, callRest
<1>3. ListsInv'
  BY <1>2, ListsKept
<1>4. CASE p = "worker"
  BY <1>1, <1>2, <1>3, <1>4 DEF TimeInv, NoCall
<1>5. CASE p # "worker"
  <2>1. call'["worker"] = call["worker"]
    BY <1>1, <1>2, <1>5
  <2>2. call["worker"].at = "swap" => shown'[call["worker"].client] = shown[call["worker"].client]
    <3> SUFFICES ASSUME call["worker"].at = "swap"
                 PROVE  shown'[call["worker"].client] = shown[call["worker"].client]
      OBVIOUS
    <3>1. call["worker"].client \in Client /\ Owns("worker")
      BY ConstantsAssumption DEF ExactIInv, IInv, FilledInv, Owns
    <3>2. call[p].at = "delete" /\ (call[p].client # None => Owns(p))
      BY DEF Delete, Owns
    <3>3. call[p].client # None => call[p].client # call["worker"].client
      BY <1>1, <1>5, <3>1, <3>2 DEF ExactIInv, IInv, OwnerInv
    <3> QED
      BY <1>1, <3>1, <3>3 DEF Delete
  <2> QED
    BY <1>2, <1>3, <2>1, <2>2 DEF TimeInv, ExactIInv, fileVars
<1> QED
  BY <1>4, <1>5

(* The other steps of the engine, and the readers.                         *)
LEMMA EngineIsExact ==
  ASSUME ExactIInv,
         Swap \/ LiveSet("main") \/ UNCHANGED vars
           \/ \E w \in Worker : Acquire(w) \/ Release(w)
  PROVE  ListsInv' /\ TimeInv'
<1>1. call \in [Caller -> Call] /\ lister \in [Lister -> Listing]
      /\ "worker" \in Caller /\ "worker" \in Lister
  BY DEF ExactIInv, IInv, TypeOK, Caller, Lister
<1>2. CASE Swap
  <2>1. call'["worker"].at = "delete"
    BY <1>1, <1>2 DEF Swap, Call
  <2>2. lister' = [lister EXCEPT !["worker"] = NoList] /\ UNCHANGED <<fileVars, cache>>
    BY <1>2 DEF Swap, callRest
  <2>3. NoList.found = {} /\ NoList.version = 0
    BY DEF NoList
  <2>4. ListsInv'
    BY <1>1, <2>2, <2>3, ListsKept
  <2> QED
    BY <2>1, <2>4 DEF TimeInv
<1>3. CASE LiveSet("main")
  <2>1. UNCHANGED <<fileVars, cache, lister, shown>>
    BY <1>3 DEF LiveSet, callRest
  <2>2. call'["worker"] = call["worker"]
    BY <1>1, <1>3 DEF LiveSet
  <2>3. ListsInv'
    BY <2>1, ListsKept
  <2> QED
    BY <2>1, <2>2, <2>3 DEF TimeInv, ExactIInv, fileVars
<1>4. CASE UNCHANGED vars \/ \E w \in Worker : Acquire(w) \/ Release(w)
  <2>1. UNCHANGED <<fileVars, cache, lister, shown, call>>
    BY <1>4 DEF Acquire, Release, readRest, vars, engineVars
  <2>2. ListsInv'
    BY <2>1, ListsKept
  <2> QED
    BY <2>1, <2>2 DEF TimeInv, ExactIInv, fileVars
<1> QED
  BY <1>2, <1>3, <1>4

(* Nothing is listed yet.                                                  *)
LEMMA InitIsExact == Init => ListsInv /\ TimeInv
<1> SUFFICES ASSUME Init PROVE ListsInv /\ TimeInv
  OBVIOUS
<1>1. \A f \in File : disk[f].to <= now
  BY DEF Init, NoFile
<1>2. Current({}, 0)
  BY ConstantsAssumption DEF Init, Current
<1>3. cache.found = {} /\ cache.version = 0
  BY DEF Init, NoCache
<1>4. \A p \in Lister : lister[p].found = {} /\ lister[p].version = 0
  BY DEF Init, NoList
<1>5. ListsInv
  BY <1>1, <1>2, <1>3, <1>4 DEF ListsInv
<1>6. call["worker"].at = "idle"
  BY DEF Init, Caller, NoCall
<1> QED
  BY <1>5, <1>6 DEF TimeInv

(* What is shown is the very time that was asked for when                  *)
(* history_time_set is done, unless a log was replaced or removed after    *)
(* the list of them was made: whatever is listed, cached and published by  *)
(* whom, and however the log grows meanwhile                               *)
(* (evisum_engine_history_time_set, _engine_history_logs_get).             *)
THEOREM ShowsTheTimeAsked == Spec => ShowsTimeAsked
<1>1. Init => ExactIInv
  BY InitIInv, InitIsExact DEF ExactIInv
<1>2. ExactIInv /\ [Next]_vars => ExactIInv'
  <2> SUFFICES ASSUME ExactIInv, [Next]_vars
               PROVE  ListsInv' /\ TimeInv'
    BY NextIInv DEF ExactIInv
  <2>1. CASE Tick \/ Rotate \/ Compress \/ RemoveCopy
    BY <2>1, FilesKeepTime
  <2>2. CASE Expire \/ Publish("bounds") \/ BoundsScan \/ List("worker")
    BY <2>2, ListingKeepsTime
  <2>3. CASE \E t \in Times : TimeSet(t)
    BY <2>3, TimeSetIsExact
  <2>4. CASE Select
    BY <2>4, SelectIsExact
  <2>5. CASE ReadLog
    BY <2>5, ReadLogIsExact
  <2>6. CASE \E p \in Caller : Delete(p)
    BY <2>6, DeleteIsExact
  <2>7. CASE \/ Swap \/ LiveSet("main") \/ UNCHANGED vars
             \/ \E w \in Worker : Acquire(w) \/ Release(w)
    BY <2>7, EngineIsExact
  <2> QED
    BY <2>1, <2>2, <2>3, <2>4, <2>5, <2>6, <2>7 DEF Next, CallStep
<1> DEFINE Shows == history' # history /\ history' # None
                      /\ lister["worker"].version = version => shown[history'] = time'
<1>3. ExactIInv /\ [Next]_vars => [Shows]_vars
  <2> SUFFICES ASSUME ExactIInv, Next, history' # history, history' # None,
                      lister["worker"].version = version
               PROVE  shown[history'] = time'
    OBVIOUS
  <2>1. CASE Swap
    BY <2>1 DEF Swap, ExactIInv, TimeInv
  <2>2. CASE LiveSet("main")
    BY <2>2 DEF LiveSet
  <2>3. CASE Expire \/ Publish("bounds") \/ BoundsScan \/ List("worker")
    BY <2>3, ListStep DEF ExactIInv, IInv, listRest, engineVars
  <2> QED
    BY <2>1, <2>2, <2>3
      DEF Next, CallStep, Tick, Rotate, Compress, RemoveCopy, TimeSet, Select, ReadLog,
          Delete, Acquire, Release, readRest, callRest, engineVars
<1> QED
  BY <1>1, <1>2, <1>3, PTL DEF Spec, ShowsTimeAsked

-----------------------------------------------------------------------------
(***************************************************************************)
(* The columns of the list.  Every order of the fields has each of them    *)
(* once; header and rows are what one selection gives of it, as long as no *)
(* column is dropped, and no row built, with a menu open that has changed  *)
(* the fields.                                                             *)
(***************************************************************************)

(* An order of the fields in which each has one place.                     *)
Whole(ord) ==
  /\ ord \in [Fields -> Fields] /\ ord[1] = First
  /\ \A i, j \in Fields : ord[i] = ord[j] => i = j
  /\ \A f \in Fields : \E i \in Fields : ord[i] = f

OrdersInv == Whole(order) /\ Whole(saved.order)

(* A menu shows the header what was switched on before.                    *)
ShownMask == IF menu.open THEN menu.snapshot ELSE mask

ShownInv ==
  state = "open" =>
    /\ enabled = Synced(mask)
    /\ header = Visible(order, Synced(ShownMask)) \/ "reset" \in irregular

CacheInv == ~built => unused = <<>> /\ items = NoRows

(* The button is held on a field that moves, and what will be ignored is   *)
(* the click that ends a movement.                                         *)
MouseInv ==
  /\ mouse.at \in {"pressed", "drag"} => mouse.field \in Movable
  /\ mouse.at = "idle" => mouse.moved = FALSE
  /\ mouse.at \in {"drag", "resize"} => mouse.moved = TRUE
  /\ ignore = TRUE => mouse.moved = TRUE \/ "outside" \in irregular

ClosedInv ==
  state = "closed" =>
    /\ menu = NoMenu /\ mouse = NoMouse /\ ignore = FALSE
    /\ listed = FALSE /\ built = FALSE

ColumnsIInv ==
  /\ ColumnsTyped /\ OrdersInv /\ ShownInv /\ CacheInv /\ RowsFitHeader
  /\ SavedIsShown /\ MouseInv /\ SwallowedExplained /\ ClosedInv

-----------------------------------------------------------------------------
(* Selections *)

(* A set of numbers that is not empty has a least one: what stands in for  *)
(* induction below.                                                        *)
LEMMA LeastNat ==
  ASSUME NEW S \in SUBSET Nat, S # {}
  PROVE  \E n \in S : \A m \in S : n <= m
<1> DEFINE R == OpToRel(<, Nat)
<1>1. IsWellFoundedOn(R, Nat)
  BY NatLessThanWellFounded
<1>2. \A x, y \in Nat : <<y, x>> \in R <=> y < x
  BY DEF OpToRel
<1> HIDE DEF R
<1>3. PICK n \in S : \A y \in S : ~ (<<y, n>> \in R)
  BY <1>1, WFMin
<1>4. \A m \in S : m \in Nat /\ n \in Nat /\ ~(m < n)
  BY <1>2, <1>3
<1>5. \A m, k \in Nat : ~(m < k) => k <= m
  OBVIOUS
<1> QED BY <1>4, <1>5

(* f[i] is what S selects of the first i elements of s.                    *)
Selects(f, s, S, n) ==
  /\ f = [i \in 0 .. n |-> f[i]]
  /\ f[0] = <<>>
  /\ \A i \in 1 .. n : f[i] = IF s[i] \in S THEN Append(f[i - 1], s[i]) ELSE f[i - 1]

(* There is such a function: it is built element by element.               *)
LEMMA SelectsExist ==
  ASSUME NEW s, NEW S, NEW n \in Nat
  PROVE  \E f : Selects(f, s, S, n)
<1> DEFINE Bad == {m \in Nat : ~ \E f : Selects(f, s, S, m)}
<1>1. Bad = {}
  <2> SUFFICES ASSUME Bad # {} PROVE FALSE
    OBVIOUS
  <2>1. PICK m \in Bad : \A k \in Bad : m <= k
    <3>1. Bad \in SUBSET Nat
      OBVIOUS
    <3> QED
      BY <3>1, LeastNat
  <2>2. m \in Nat /\ ~ \E f : Selects(f, s, S, m)
    BY <2>1
  <2>3. m # 0
    <3>1. Selects([i \in 0 .. 0 |-> <<>>], s, S, 0)
      BY DEF Selects
    <3> QED
      BY <2>2, <3>1
  <2>4. m - 1 \in Nat /\ m - 1 \notin Bad
    <3>1. m - 1 \in Nat /\ ~(m <= m - 1)
      BY <2>2, <2>3
    <3> HIDE DEF Bad
    <3> QED
      BY <2>1, <3>1
  <2>5. PICK g : Selects(g, s, S, m - 1)
    BY <2>4
  <2> DEFINE last == IF s[m] \in S THEN Append(g[m - 1], s[m]) ELSE g[m - 1]
             f == [i \in 0 .. m |-> IF i = m THEN last ELSE g[i]]
  <2> HIDE DEF last
  <2>6. f = [i \in 0 .. m |-> f[i]] /\ f[m] = last /\ f[m - 1] = g[m - 1]
    <3>1. m \in 0 .. m /\ m - 1 \in 0 .. m /\ m - 1 # m
      BY <2>2, <2>4
    <3> QED
      BY <3>1
  <2>7. ASSUME NEW i \in 0 .. m - 1 PROVE f[i] = g[i]
    <3>1. i \in 0 .. m /\ i # m
      BY <2>2
    <3> QED
      BY <3>1
  <2> HIDE DEF f
  <2>8. f[0] = <<>>
    <3>1. 0 \in 0 .. m - 1
      BY <2>4
    <3> QED
      BY <2>5, <2>7, <3>1 DEF Selects
  <2>9. ASSUME NEW i \in 1 .. m
        PROVE  f[i] = IF s[i] \in S THEN Append(f[i - 1], s[i]) ELSE f[i - 1]
    <3>1. CASE i = m
      BY <2>6, <3>1 DEF last
    <3>2. CASE i # m
      <4>1. i \in 1 .. m - 1 /\ i \in 0 .. m - 1 /\ i - 1 \in 0 .. m - 1
        BY <2>2, <3>2
      <4> QED
        BY <2>5, <2>7, <4>1 DEF Selects
    <3> QED
      BY <3>1, <3>2
  <2>10. Selects(f, s, S, m)
    BY <2>6, <2>8, <2>9 DEF Selects
  <2> QED
    BY <2>2, <2>10
<1> QED
  BY <1>1

(* Visible is what it selects of all.                                      *)
LEMMA VisibleSelects ==
  ASSUME NEW s \in Seq(Fields), NEW S
  PROVE  \E f : Selects(f, s, S, Len(s)) /\ Visible(s, S) = f[Len(s)]
<1> DEFINE n == Len(s)
           Body(f) == [i \in 0 .. n |->
                         IF i = 0 THEN <<>>
                         ELSE IF s[i] \in S THEN Append(f[i - 1], s[i]) ELSE f[i - 1]]
           upTo == CHOOSE f : f = Body(f)
<1>1. Visible(s, S) = upTo[n]
  BY DEF Visible
<1>2. upTo = Body(upTo)
  <2>1. PICK f : Selects(f, s, S, n)
    <3>1. n \in Nat
      OBVIOUS
    <3> HIDE DEF n
    <3> QED
      BY <3>1, SelectsExist
  <2>2. f = Body(f)
    <3>1. \A i \in 0 .. n : i # 0 => i \in 1 .. n
      OBVIOUS
    <3> HIDE DEF n
    <3> QED
      BY <2>1, <3>1 DEF Selects
  <2> QED
    BY <2>2
<1>3. Selects(upTo, s, S, n)
  <2>1. n \in Nat
    OBVIOUS
  <2> HIDE DEF upTo, n
  <2>2. 0 \in 0 .. n /\ \A i \in 1 .. n : i \in 0 .. n /\ i # 0
    BY <2>1
  <2> QED
    BY <1>2, <2>2 DEF Selects
<1> HIDE DEF upTo
<1> QED
  BY <1>1, <1>3

(* What is selected of the first elements depends on them alone.           *)
LEMMA SelectsAgree ==
  ASSUME NEW s, NEW t, NEW S, NEW n \in Nat, NEW m \in Nat, n <= m,
         NEW f, Selects(f, s, S, n), NEW g, Selects(g, t, S, m),
         \A i \in 1 .. n : s[i] = t[i]
  PROVE  f[n] = g[n]
<1> DEFINE Bad == {k \in 0 .. n : f[k] # g[k]}
<1>1. Bad = {}
  <2> SUFFICES ASSUME Bad # {} PROVE FALSE
    OBVIOUS
  <2>1. PICK k \in Bad : \A j \in Bad : k <= j
    <3>1. Bad \in SUBSET Nat
      OBVIOUS
    <3> QED
      BY <3>1, LeastNat
  <2>2. k \in 0 .. n /\ f[k] # g[k]
    BY <2>1
  <2>3. k # 0
    BY <2>2 DEF Selects
  <2>4. k - 1 \in 0 .. n /\ ~(k <= k - 1) /\ k \in 1 .. n /\ k \in 1 .. m
    BY <2>2, <2>3
  <2>5. f[k - 1] = g[k - 1]
    <3>1. k - 1 \notin Bad
      <4> HIDE DEF Bad
      <4> QED
        BY <2>1, <2>4
    <3> QED
      BY <2>4, <3>1
  <2>6. f[k] = IF s[k] \in S THEN Append(f[k - 1], s[k]) ELSE f[k - 1]
    BY <2>4 DEF Selects
  <2>7. g[k] = IF t[k] \in S THEN Append(g[k - 1], t[k]) ELSE g[k - 1]
    BY <2>4 DEF Selects
  <2> QED
    BY <2>2, <2>4, <2>5, <2>6, <2>7
<1> QED
  BY <1>1

(* Nothing is selected of nothing.                                         *)
LEMMA VisibleEmpty ==
  ASSUME NEW S
  PROVE  Visible(<<>>, S) = <<>>
<1> DEFINE none == <<>>
<1>1. none \in Seq(Fields) /\ Len(none) = 0
  OBVIOUS
<1> HIDE DEF none
<1>2. PICK f : Selects(f, none, S, Len(none)) /\ Visible(none, S) = f[Len(none)]
  BY <1>1, VisibleSelects
<1> QED
  BY <1>1, <1>2 DEF Selects, none

(* An element more is selected, or not.                                    *)
LEMMA VisibleAppend ==
  ASSUME NEW s \in Seq(Fields), NEW x \in Fields, NEW S
  PROVE  Visible(Append(s, x), S)
           = IF x \in S THEN Append(Visible(s, S), x) ELSE Visible(s, S)
<1> DEFINE t == Append(s, x)
           n == Len(s)
<1>1. /\ t \in Seq(Fields) /\ Len(t) = n + 1 /\ t[n + 1] = x /\ n \in Nat
      /\ \A i \in 1 .. n : s[i] = t[i]
  OBVIOUS
<1>2. PICK f : Selects(f, s, S, n) /\ Visible(s, S) = f[n]
  BY VisibleSelects
<1> HIDE DEF t
<1>3. PICK g : Selects(g, t, S, n + 1) /\ Visible(t, S) = g[n + 1]
  BY <1>1, VisibleSelects
<1> HIDE DEF n
<1>4. f[n] = g[n]
  <2>1. n + 1 \in Nat /\ n <= n + 1
    BY <1>1
  <2> QED
    BY <1>1, <1>2, <1>3, <2>1, SelectsAgree
<1>5. g[n + 1] = IF x \in S THEN Append(g[n], x) ELSE g[n]
  <2>1. n + 1 \in 1 .. n + 1 /\ (n + 1) - 1 = n
    BY <1>1
  <2> QED
    BY <1>1, <1>3, <2>1 DEF Selects
<1> QED
  BY <1>2, <1>3, <1>4, <1>5 DEF t

-----------------------------------------------------------------------------
(* The selection v has the elements of s that are in S, in their order:    *)
(* its k-th is the one at the place at[k].                                 *)
Places(v, s, S, at) ==
  /\ at \in [1 .. Len(v) -> 1 .. Len(s)]
  /\ \A j, k \in 1 .. Len(v) : j < k => at[j] < at[k]
  /\ \A k \in 1 .. Len(v) : v[k] = s[at[k]]
  /\ \A i \in 1 .. Len(s) : s[i] \in S <=> \E k \in 1 .. Len(v) : at[k] = i

HasPlaces(v, s, S) == v \in Seq(Fields) /\ \E at : Places(v, s, S, at)

(* The places go on to the new element.                                    *)
LEMMA PlacesAppend ==
  ASSUME NEW s \in Seq(Fields), NEW x \in Fields, NEW S, NEW v, HasPlaces(v, s, S)
  PROVE  HasPlaces(IF x \in S THEN Append(v, x) ELSE v, Append(s, x), S)
<1> DEFINE n == Len(s)
           m == Len(v)
           t == Append(s, x)
<1>1. /\ v \in Seq(Fields) /\ n \in Nat /\ m \in Nat /\ t \in Seq(Fields)
      /\ Len(t) = n + 1 /\ t[n + 1] = x /\ \A i \in 1 .. n : t[i] = s[i]
  BY DEF HasPlaces
<1>2. PICK at : Places(v, s, S, at)
  BY DEF HasPlaces
<1> HIDE DEF t
<1>3. /\ at \in [1 .. m -> 1 .. n]
      /\ \A j, k \in 1 .. m : j < k => at[j] < at[k]
      /\ \A k \in 1 .. m : v[k] = s[at[k]]
      /\ \A i \in 1 .. n : s[i] \in S <=> \E k \in 1 .. m : at[k] = i
  BY <1>2 DEF Places
<1>4. \A i \in 1 .. n + 1 : i \in 1 .. n \/ i = n + 1
  BY <1>1
<1>5. CASE x \in S
  <2> DEFINE w == Append(v, x)
             to == [k \in 1 .. m + 1 |-> IF k = m + 1 THEN n + 1 ELSE at[k]]
  <2>1. /\ w \in Seq(Fields) /\ Len(w) = m + 1 /\ w[m + 1] = x
        /\ \A k \in 1 .. m : w[k] = v[k]
    BY <1>1
  <2>2. \A k \in 1 .. m + 1 : k \in 1 .. m \/ k = m + 1
    BY <1>1
  <2>3. /\ m + 1 \in 1 .. m + 1 /\ to[m + 1] = n + 1
        /\ \A k \in 1 .. m : k \in 1 .. m + 1 /\ to[k] = at[k] /\ at[k] \in 1 .. n
    BY <1>1, <1>3
  <2>4. to \in [1 .. m + 1 -> 1 .. n + 1]
    BY <1>1, <1>3
  <2> HIDE DEF w, to, m, n
  <2>5. \A j, k \in 1 .. m + 1 : j < k => to[j] < to[k]
    <3> SUFFICES ASSUME NEW j \in 1 .. m + 1, NEW k \in 1 .. m + 1, j < k
                 PROVE  to[j] < to[k]
      OBVIOUS
    <3>1. j \in 1 .. m
      BY <1>1
    <3>2. CASE k = m + 1
      BY <1>1, <2>3, <3>1, <3>2
    <3>3. CASE k \in 1 .. m
      BY <1>3, <2>3, <3>1, <3>3
    <3> QED
      BY <2>2, <3>2, <3>3
  <2>6. ASSUME NEW k \in 1 .. m + 1 PROVE w[k] = t[to[k]]
    <3>1. CASE k = m + 1
      BY <1>1, <2>1, <2>3, <3>1
    <3>2. CASE k \in 1 .. m
      <4>1. to[k] = at[k] /\ at[k] \in 1 .. n /\ w[k] = v[k]
        BY <2>1, <2>3, <3>2
      <4> QED
        BY <1>1, <1>3, <3>2, <4>1
    <3> QED
      BY <2>2, <3>1, <3>2
  <2>7. \A i \in 1 .. n + 1 : t[i] \in S <=> \E k \in 1 .. m + 1 : to[k] = i
    <3> SUFFICES ASSUME NEW i \in 1 .. n + 1
                 PROVE  t[i] \in S <=> \E k \in 1 .. m + 1 : to[k] = i
      OBVIOUS
    <3>1. CASE i = n + 1
      BY <1>1, <1>5, <2>3, <3>1
    <3>2. CASE i \in 1 .. n
      <4>1. i # n + 1 /\ t[i] = s[i]
        BY <1>1, <3>2
      <4> QED
        BY <1>3, <2>2, <2>3, <3>2, <4>1
    <3> QED
      BY <1>4, <3>1, <3>2
  <2>8. Places(w, t, S, to)
    BY <1>1, <2>1, <2>4, <2>5, <2>6, <2>7 DEF Places
  <2> QED
    BY <1>5, <2>1, <2>8 DEF HasPlaces, w, t
<1>6. CASE x \notin S
  <2>1. Places(v, t, S, at)
    <3>1. at \in [1 .. m -> 1 .. n + 1]
      BY <1>1, <1>3
    <3>2. \A k \in 1 .. m : v[k] = t[at[k]]
      BY <1>1, <1>3
    <3> HIDE DEF m, n
    <3>3. \A i \in 1 .. n + 1 : t[i] \in S <=> \E k \in 1 .. m : at[k] = i
      <4> SUFFICES ASSUME NEW i \in 1 .. n + 1
                   PROVE  t[i] \in S <=> \E k \in 1 .. m : at[k] = i
        OBVIOUS
      <4>1. CASE i = n + 1
        <5>1. \A k \in 1 .. m : at[k] \in 1 .. n /\ at[k] # n + 1
          BY <1>1, <1>3
        <5> QED
          BY <1>1, <1>6, <4>1, <5>1
      <4>2. CASE i \in 1 .. n
        BY <1>1, <1>3, <4>2
      <4> QED
        BY <1>4, <4>1, <4>2
    <3> QED
      BY <1>1, <1>3, <3>1, <3>2, <3>3 DEF Places, m, n
  <2> QED
    BY <1>1, <1>6, <2>1 DEF HasPlaces, t
<1> QED
  BY <1>5, <1>6

(* A sequence that is not empty has a last element, and some before it.    *)
LEMMA SeqSplit ==
  ASSUME NEW s \in Seq(Fields), Len(s) # 0
  PROVE  /\ s[Len(s)] \in Fields
         /\ \E r \in Seq(Fields) : s = Append(r, s[Len(s)]) /\ Len(r) = Len(s) - 1
<1> DEFINE r == SubSeq(s, 1, Len(s) - 1)
<1>1. r \in Seq(Fields) /\ Len(r) = Len(s) - 1 /\ s[Len(s)] \in Fields
  <2> DEFINE n == Len(s) - 1
             l == Len(s)
  <2>0. l \in Nat /\ l # 0
    OBVIOUS
  <2> HIDE DEF l
  <2>1. /\ l \in 1 .. l
        /\ n \in 1 - 1 .. l /\ 1 \in 1 .. l + 1 /\ n \in Nat
        /\ n = IF 1 <= n THEN n - 1 + 1 ELSE 0
    BY <2>0 DEF l
  <2> HIDE DEF n
  <2>2. SubSeq(s, 1, n) \in Seq(Fields) /\ Len(SubSeq(s, 1, n)) = n
    BY <2>1, SubSeqProperties DEF l
  <2>3. r = SubSeq(s, 1, n)
    BY DEF n
  <2> QED
    BY <2>0, <2>1, <2>2, <2>3 DEF n, l
<1>2. s = Append(r, s[Len(s)])
  OBVIOUS
<1> QED
  BY <1>1, <1>2

(* What is selected is selected from places that grow.                     *)
LEMMA VisiblePlaces ==
  ASSUME NEW s \in Seq(Fields), NEW S
  PROVE  HasPlaces(Visible(s, S), s, S)
<1> DEFINE Wrong(t) == ~HasPlaces(Visible(t, S), t, S)
           Bad == {n \in Nat : \E t \in Seq(Fields) : Len(t) = n /\ Wrong(t)}
<1>1. Bad = {}
  <2> SUFFICES ASSUME Bad # {} PROVE FALSE
    OBVIOUS
  <2>1. PICK n \in Bad : \A j \in Bad : n <= j
    <3>1. Bad \in SUBSET Nat
      OBVIOUS
    <3> HIDE DEF Bad
    <3> QED
      BY <3>1, LeastNat
  <2>2. PICK t \in Seq(Fields) : Len(t) = n /\ Wrong(t)
    BY <2>1
  <2>3. CASE n = 0
    <3>1. t = <<>>
      BY <2>2, <2>3
    <3>2. <<>> \in Seq(Fields) /\ Places(<<>>, <<>>, S, [k \in 1 .. 0 |-> 1])
      BY DEF Places
    <3>3. HasPlaces(<<>>, <<>>, S)
      BY <3>2 DEF HasPlaces
    <3> QED
      BY <2>2, <3>1, <3>3, VisibleEmpty
  <2>4. CASE n # 0
    <3> DEFINE x == t[Len(t)]
    <3>1. PICK r \in Seq(Fields) : t = Append(r, x) /\ Len(r) = n - 1
      BY <2>2, <2>4, SeqSplit
    <3>2. x \in Fields
      BY <2>2, <2>4, SeqSplit
    <3>3. ~Wrong(r)
      <4>1. n \in Nat /\ n - 1 \in Nat /\ ~(n <= n - 1)
        BY <2>2, <2>4
      <4>2. n - 1 \notin Bad
        <5> HIDE DEF Bad
        <5> QED
          BY <2>1, <4>1
      <4> QED
        BY <3>1, <4>1, <4>2
    <3> HIDE DEF x
    <3>4. HasPlaces(Visible(t, S), t, S)
      <4>1. Visible(t, S) = IF x \in S THEN Append(Visible(r, S), x) ELSE Visible(r, S)
        BY <3>1, <3>2, VisibleAppend
      <4>2. HasPlaces(Visible(r, S), r, S)
        BY <3>3
      <4> QED
        BY <3>1, <3>2, <4>1, <4>2, PlacesAppend
    <3> QED
      BY <2>2, <3>4
  <2> QED
    BY <2>3, <2>4
<1>2. Len(s) \in Nat
  OBVIOUS
<1> QED
  BY <1>1, <1>2

-----------------------------------------------------------------------------
(* What is selected *)

(* The fields are numbers; all but the first can move.                     *)
LEMMA FieldsAre ==
  /\ N \in Nat /\ N # 0 /\ Fields = 1 .. N /\ First = 1 /\ First \in Fields
  /\ \A f : f \in Movable <=> f \in Fields /\ f # 1
  BY ColumnsAssumption DEF Fields, Movable, First

(* A function that is one to one has no more arguments than values.        *)
LEMMA NoMoreThan ==
  ASSUME NEW m \in Nat, NEW n \in Nat, NEW f \in [1 .. m -> 1 .. n],
         \A j, k \in 1 .. m : f[j] = f[k] => j = k
  PROVE  m <= n
<1> SUFFICES ASSUME n < m PROVE FALSE
  OBVIOUS
<1>1. /\ IsFiniteSet(1 .. m) /\ IsFiniteSet(1 .. n)
      /\ Cardinality(1 .. m) = m /\ Cardinality(1 .. n) = n
  BY FS_Interval
<1>2. \E x, y \in 1 .. m : x # y /\ f[x] = f[y]
  BY <1>1, FS_PigeonHole
<1> QED
  BY <1>2

(* f has every number up to n, each once.                                  *)
OneToOne(f, m, n) ==
  /\ \A j, k \in 1 .. m : f[j] = f[k] => j = k
  /\ \A x \in 1 .. n : \E k \in 1 .. m : f[k] = x

(* One that reaches all values has as many.                                *)
LEMMA AsManyAs ==
  ASSUME NEW m \in Nat, NEW n \in Nat, NEW f \in [1 .. m -> 1 .. n],
         OneToOne(f, m, n)
  PROVE  m <= n /\ n <= m
<1> DEFINE g == [x \in 1 .. n |-> CHOOSE k \in 1 .. m : f[k] = x]
<1>1. \A x \in 1 .. n : g[x] \in 1 .. m /\ f[g[x]] = x
  BY DEF OneToOne
<1>2. g \in [1 .. n -> 1 .. m]
  BY <1>1
<1> HIDE DEF g
<1>3. \A x, y \in 1 .. n : g[x] = g[y] => x = y
  BY <1>1
<1>4. \A j, k \in 1 .. m : f[j] = f[k] => j = k
  BY DEF OneToOne
<1> QED
  BY <1>2, <1>3, <1>4, NoMoreThan

(* A selection holds fields of the order, all of those selected, and is    *)
(* not longer.                                                             *)
LEMMA VisibleElements ==
  ASSUME NEW s \in Seq(Fields), NEW S
  PROVE  /\ Visible(s, S) \in Seq(Fields)
         /\ Len(Visible(s, S)) <= Len(s)
         /\ \A k \in 1 .. Len(Visible(s, S)) :
              /\ Visible(s, S)[k] \in Fields /\ Visible(s, S)[k] \in S
              /\ \E i \in 1 .. Len(s) : s[i] = Visible(s, S)[k]
         /\ \A i \in 1 .. Len(s) :
              s[i] \in S => \E k \in 1 .. Len(Visible(s, S)) : Visible(s, S)[k] = s[i]
<1> DEFINE v == Visible(s, S)
           n == Len(s)
           m == Len(v)
<1>1. v \in Seq(Fields)
  BY VisiblePlaces DEF HasPlaces
<1>2. PICK at : Places(v, s, S, at)
  BY VisiblePlaces DEF HasPlaces
<1> HIDE DEF v
<1>3. /\ at \in [1 .. m -> 1 .. n] /\ m \in Nat /\ n \in Nat
      /\ \A j, k \in 1 .. m : j < k => at[j] < at[k]
      /\ \A k \in 1 .. m : v[k] = s[at[k]] /\ v[k] \in Fields
      /\ \A i \in 1 .. n : s[i] \in S <=> \E k \in 1 .. m : at[k] = i
  BY <1>1, <1>2 DEF Places
<1> HIDE DEF m, n
<1>4. m <= n
  <2>1. \A j, k \in 1 .. m : at[j] \in Nat /\ (at[j] = at[k] => j = k)
    BY <1>3
  <2>2. \A j, k \in 1 .. m : at[j] = at[k] => j = k
    BY <2>1
  <2> QED
    BY <1>3, <2>2, NoMoreThan
<1>5. \A k \in 1 .. m : v[k] \in S /\ \E i \in 1 .. n : s[i] = v[k]
  BY <1>3
<1>6. \A i \in 1 .. n : s[i] \in S => \E k \in 1 .. m : v[k] = s[i]
  BY <1>3
<1> QED
  BY <1>1, <1>3, <1>4, <1>5, <1>6 DEF v, m, n

(* An order is a sequence of as many elements as there are fields.         *)
LEMMA WholeIsSeq ==
  ASSUME NEW ord, Whole(ord)
  PROVE  ord \in Seq(Fields) /\ Len(ord) = N
  BY FieldsAre DEF Whole

(* Short sequences of fields are columns.                                  *)
LEMMA ColumnsFromSeq ==
  ASSUME NEW v \in Seq(Fields), Len(v) <= N
  PROVE  v \in Columns
<1>1. Len(v) \in 0 .. N /\ v \in [1 .. Len(v) -> Fields]
  BY FieldsAre
<1> QED
  BY <1>1 DEF Columns

(* What is selected of an order is columns.                                *)
LEMMA VisibleTyped ==
  ASSUME NEW ord, Whole(ord), NEW S
  PROVE  Visible(ord, S) \in Columns
<1>1. ord \in Seq(Fields) /\ Len(ord) = N
  BY WholeIsSeq
<1> QED
  BY <1>1, VisibleElements, ColumnsFromSeq

(* The field f of an order.                                                *)
LEMMA PosOf ==
  ASSUME NEW ord, Whole(ord), NEW f \in Fields
  PROVE  /\ Pos(ord, f) \in Fields /\ ord[Pos(ord, f)] = f
         /\ f # First => Pos(ord, f) # 1
<1>1. \E i \in DOMAIN ord : ord[i] = f
  BY DEF Whole
<1>2. Pos(ord, f) \in DOMAIN ord /\ ord[Pos(ord, f)] = f
  BY <1>1 DEF Pos
<1> QED
  BY <1>2 DEF Whole

-----------------------------------------------------------------------------
(* A field that is moved *)

(* A field moved to another place leaves an order an order, ...            *)
LEMMA MovedWhole ==
  ASSUME NEW ord, Whole(ord), NEW f \in Movable, NEW to \in Int
  PROVE  Whole(Moved(ord, f, to))
<1> DEFINE q == Pos(ord, f)
           pos == IF to < 2 THEN 2 ELSE IF to > N THEN N ELSE to
           without == RemoveAt(ord, q)
           new == InsertAt(without, pos, f)
           from == [i \in 1 .. N |-> IF i < pos THEN IF i < q THEN i ELSE i + 1
                                     ELSE IF i = pos THEN q
                                     ELSE IF i - 1 < q THEN i - 1 ELSE i]
<1>1. /\ N \in Nat /\ N > 1 /\ f \in Fields /\ Fields = 1 .. N
      /\ ord \in Seq(Fields) /\ Len(ord) = N
  BY FieldsAre, WholeIsSeq
<1>2. q \in 2 .. N /\ ord[q] = f
  <2>1. q \in Fields /\ ord[q] = f /\ q # 1
    BY <1>1, PosOf, FieldsAre
  <2> HIDE DEF q
  <2> QED
    BY <1>1, <2>1
<1>3. pos \in 2 .. N
  BY <1>1
<1>4. Moved(ord, f, to) = new
  BY <1>1 DEF Moved
<1> HIDE DEF q, pos
<1>5. /\ without \in Seq(Fields) /\ Len(without) = N - 1
      /\ \A i \in 1 .. N - 1 : without[i] = ord[IF i < q THEN i ELSE i + 1]
  BY <1>1, <1>2 DEF RemoveAt
<1> HIDE DEF without
<1>6. /\ new \in Seq(Fields) /\ Len(new) = N
      /\ \A i \in 1 .. N : new[i] = IF i < pos THEN without[i]
                                    ELSE IF i = pos THEN f ELSE without[i - 1]
  BY <1>1, <1>3, <1>5 DEF InsertAt
<1> HIDE DEF new
<1>7. /\ from \in [1 .. N -> 1 .. N] /\ from[1] = 1
      /\ \A i, j \in 1 .. N : from[i] = from[j] => i = j
      /\ \A k \in 1 .. N : \E i \in 1 .. N : from[i] = k
  <2>1. /\ from \in [1 .. N -> 1 .. N] /\ from[1] = 1
        /\ \A i, j \in 1 .. N : from[i] = from[j] => i = j
    BY <1>1, <1>2, <1>3
  <2>2. ASSUME NEW k \in 1 .. N PROVE \E i \in 1 .. N : from[i] = k
    <3> DEFINE i == IF k = q THEN pos
                    ELSE IF k < q THEN IF k < pos THEN k ELSE k + 1
                    ELSE IF k - 1 < pos THEN k - 1 ELSE k
    <3>1. i \in 1 .. N
      BY <1>1, <1>2, <1>3
    <3>2. from[i] = k
      BY <1>1, <1>2, <1>3, <3>1
    <3> QED
      BY <3>1, <3>2
  <2> QED
    BY <2>1, <2>2
<1>8. ASSUME NEW i \in 1 .. N PROVE new[i] = ord[from[i]]
  <2>1. CASE i < pos
    <3>1. i \in 1 .. N - 1 /\ from[i] = IF i < q THEN i ELSE i + 1
      BY <1>1, <1>3, <2>1
    <3> HIDE DEF from
    <3> QED
      BY <1>5, <1>6, <2>1, <3>1
  <2>2. CASE i = pos
    <3>1. from[i] = q /\ ~(i < pos)
      BY <1>3, <2>2
    <3> HIDE DEF from
    <3> QED
      BY <1>2, <1>6, <2>2, <3>1
  <2>3. CASE i > pos
    <3> DEFINE h == i - 1
    <3>1. /\ h \in 1 .. N - 1 /\ ~(i < pos) /\ i # pos
          /\ from[i] = IF h < q THEN h ELSE h + 1
      BY <1>1, <1>2, <1>3, <2>3
    <3>2. new[i] = without[h]
      BY <1>6, <3>1
    <3> HIDE DEF from, h
    <3> QED
      BY <1>5, <3>1, <3>2
  <2> QED
    BY <1>3, <2>1, <2>2, <2>3
<1> HIDE DEF from
<1>9. \A i \in Fields : from[i] \in Fields /\ new[i] = ord[from[i]]
  BY <1>1, <1>7, <1>8
<1>10. new \in [Fields -> Fields] /\ new[1] = First
  <2>1. new[1] = ord[from[1]]
    BY <1>1, <1>9
  <2>2. new[1] = First
    BY <1>7, <2>1 DEF Whole
  <2>3. new \in [1 .. N -> Fields]
    BY <1>6
  <2> QED
    BY <1>1, <2>2, <2>3
<1>11. ASSUME NEW i \in Fields, NEW j \in Fields, new[i] = new[j] PROVE i = j
  <2>1. from[i] = from[j]
    BY <1>9, <1>11 DEF Whole
  <2> QED
    BY <1>1, <1>7, <2>1
<1>12. ASSUME NEW x \in Fields PROVE \E i \in Fields : new[i] = x
  <2>1. PICK k \in Fields : ord[k] = x
    BY DEF Whole
  <2>2. PICK i \in Fields : from[i] = k
    BY <1>1, <1>7
  <2> QED
    BY <1>1, <1>8, <2>1, <2>2
<1>13. Whole(new)
  BY <1>10, <1>11, <1>12 DEF Whole
<1> QED
  BY <1>4, <1>13

(* Where a drag may end.                                                   *)
LEMMA DropPosTyped ==
  ASSUME Whole(order), NEW f, NEW gap \in 0 .. N
  PROVE  DropPos(f, gap) \in Int
<1> DEFINE others == Visible(order, enabled \ {f, First})
<1>1. /\ N \in Nat /\ N # 0 /\ Fields = 1 .. N
      /\ order \in Seq(Fields) /\ Len(order) = N
  BY FieldsAre, WholeIsSeq
<1>2. /\ others \in Seq(Fields) /\ Len(others) \in Nat
      /\ \A k \in 1 .. Len(others) : others[k] \in Fields
  BY <1>1, VisibleElements
<1>3. \A x \in Fields : Pos(order, x) \in 1 .. N
  BY <1>1, PosOf
<1> HIDE DEF others
<1>4. CASE gap < Len(others)
  <2>1. gap + 1 \in 1 .. Len(others)
    BY <1>2, <1>4
  <2>2. DropPos(f, gap) = Pos(order, others[gap + 1])
    BY <1>4 DEF DropPos, others
  <2>3. Pos(order, others[gap + 1]) \in 1 .. N
    BY <1>2, <1>3, <2>1
  <2> QED
    BY <1>1, <2>2, <2>3
<1>5. CASE ~(gap < Len(others)) /\ others = <<>>
  BY <1>1, <1>5 DEF DropPos, others
<1>6. CASE ~(gap < Len(others)) /\ others # <<>>
  <2>1. Len(others) \in 1 .. Len(others)
    BY <1>2, <1>6
  <2>2. DropPos(f, gap) = Pos(order, Last(others)) + 1
    BY <1>6 DEF DropPos, others
  <2>3. Pos(order, Last(others)) \in 1 .. N
    BY <1>2, <1>3, <2>1 DEF Last
  <2> QED
    BY <1>1, <2>2, <2>3
<1> QED
  BY <1>4, <1>5, <1>6

(* ... and so does the drop at the end of a drag.                          *)
LEMMA DroppedWhole ==
  ASSUME Whole(order), NEW f \in Movable, NEW gap \in 0 .. N
  PROVE  Whole(Dropped(f, gap))
<1> DEFINE to == DropPos(f, gap)
           final == IF to > Pos(order, f) THEN to - 1 ELSE to
<1>1. to \in Int
  BY DropPosTyped, FieldsAre
<1>2. final \in Int
  BY <1>1
<1>3. Dropped(f, gap) = Moved(order, f, final)
  BY DEF Dropped
<1> HIDE DEF final
<1> QED
  BY <1>2, <1>3, MovedWhole

(* A field is shown before every other: the first is.                      *)
LEMMA PreviousTyped ==
  ASSUME Whole(order), First \in enabled, NEW f \in Movable
  PROVE  Previous(f) \in Fields
<1> DEFINE p == Pos(order, f)
           head == SubSeq(order, 1, p - 1)
           before == Visible(head, enabled)
<1>1. /\ N \in Nat /\ Fields = 1 .. N /\ f \in Fields /\ f # First /\ First = 1
      /\ order \in Seq(Fields) /\ Len(order) = N /\ order[1] = First
  BY FieldsAre, WholeIsSeq DEF Whole
<1>2. p \in 2 .. N
  <2>1. p \in Fields /\ p # 1
    BY <1>1, PosOf
  <2> HIDE DEF p
  <2> QED
    BY <1>1, <2>1
<1> HIDE DEF p
<1>3. head \in Seq(Fields) /\ 1 \in 1 .. Len(head) /\ head[1] = First
  BY <1>1, <1>2
<1> HIDE DEF head
<1>4. /\ before \in Seq(Fields)
      /\ \E k \in 1 .. Len(before) : before[k] = head[1]
  BY <1>3, VisibleElements
<1>5. Len(before) \in 1 .. Len(before) /\ before[Len(before)] \in Fields
  BY <1>4
<1> HIDE DEF before
<1>6. Previous(f) = Last(before)
  BY DEF Previous, before, head, p
<1> QED
  BY <1>5, <1>6 DEF Last

-----------------------------------------------------------------------------
(* An order that was read *)

AllFields == [i \in Fields |-> i]

(* What is selected of all fields are those of S, in ascending order.      *)
LEMMA Ascending ==
  ASSUME NEW S
  PROVE  /\ Visible(AllFields, S) \in Seq(Fields)
         /\ \A j, k \in 1 .. Len(Visible(AllFields, S)) :
              j < k => Visible(AllFields, S)[j] < Visible(AllFields, S)[k]
         /\ \A k \in 1 .. Len(Visible(AllFields, S)) :
              Visible(AllFields, S)[k] \in Fields \cap S
         /\ \A f \in Fields \cap S :
              \E k \in 1 .. Len(Visible(AllFields, S)) : Visible(AllFields, S)[k] = f
<1> DEFINE v == Visible(AllFields, S)
           m == Len(v)
<1>1. /\ AllFields \in Seq(Fields) /\ Len(AllFields) = N /\ Fields = 1 .. N
      /\ \A i \in Fields : AllFields[i] = i
  BY FieldsAre DEF AllFields
<1>2. HasPlaces(v, AllFields, S)
  BY <1>1, VisiblePlaces
<1> HIDE DEF v
<1>3. v \in Seq(Fields)
  BY <1>2 DEF HasPlaces
<1>4. PICK at : Places(v, AllFields, S, at)
  BY <1>2 DEF HasPlaces
<1> HIDE DEF m
<1>5. /\ at \in [1 .. m -> Fields]
      /\ \A j, k \in 1 .. m : j < k => at[j] < at[k]
      /\ \A k \in 1 .. m : v[k] = AllFields[at[k]]
      /\ \A i \in Fields : AllFields[i] \in S <=> \E k \in 1 .. m : at[k] = i
  BY <1>1, <1>4 DEF Places, m
<1>6. \A k \in 1 .. m : v[k] = at[k] /\ at[k] \in Fields
  BY <1>1, <1>5
<1> QED
  BY <1>1, <1>3, <1>5, <1>6 DEF v, m

(* The places in what was read at which a field comes for the first time.  *)
Firsts(raw) ==
  {i \in Fields : raw[i] \in Movable /\ \A j \in 1 .. i - 1 : raw[j] # raw[i]}
FirstOf(raw, f) == \E i \in Firsts(raw) : raw[i] = f

(* Whatever the file says, the sanitized order is one.                     *)
LEMMA SanitizedWhole ==
  ASSUME NEW raw
  PROVE  Whole(Sanitized(raw))
<1> DEFINE at == Visible(AllFields, Firsts(raw))
           kept == [k \in DOMAIN at |-> raw[at[k]]]
           missing == Movable \ {kept[k] : k \in DOMAIN kept}
           added == Visible(AllFields, missing)
           m == Len(at)
           q == Len(added)
           ord == <<First>> \o kept \o added
<1>1. N \in Nat /\ N # 0 /\ Fields = 1 .. N /\ First = 1 /\ First \in Fields
  BY FieldsAre
<1>2. /\ at \in Seq(Fields)
      /\ \A j, k \in 1 .. m : j < k => at[j] < at[k]
      /\ \A k \in 1 .. m : at[k] \in Fields \cap Firsts(raw)
  BY Ascending
<1>3. /\ added \in Seq(Fields)
      /\ \A j, k \in 1 .. q : j < k => added[j] < added[k]
      /\ \A k \in 1 .. q : added[k] \in Fields \cap missing
      /\ \A f \in Fields \cap missing : \E k \in 1 .. q : added[k] = f
  <2> HIDE DEF missing
  <2> QED
    BY Ascending
<1>4. Sanitized(raw) = ord
  BY DEF Sanitized, AllFields, Firsts
<1> HIDE DEF added
<1>5. m \in Nat /\ q \in Nat /\ DOMAIN at = 1 .. m
  BY <1>2, <1>3
<1> HIDE DEF at
<1>6. /\ kept \in [1 .. m -> Movable]
      /\ \A k \in 1 .. m : kept[k] = raw[at[k]]
  BY <1>2, <1>5 DEF Firsts
<1>7. ASSUME NEW j \in 1 .. m, NEW k \in 1 .. m, j < k PROVE kept[j] # kept[k]
  <2>1. at[j] \in 1 .. at[k] - 1
    BY <1>1, <1>2, <1>7
  <2>2. at[k] \in Firsts(raw)
    BY <1>2
  <2> QED
    BY <1>6, <2>1, <2>2 DEF Firsts
<1>8. \A f : f \in missing <=> f \in Movable /\ \A k \in 1 .. m : kept[k] # f
  BY <1>5, <1>6
<1> HIDE DEF kept, missing
<1>9. /\ kept \in Seq(Fields) /\ Len(kept) = m
      /\ \A f \in Movable : f \in Fields /\ f # First
  BY <1>1, <1>5, <1>6, FieldsAre
<1> DEFINE n == 1 + m + q
<1>10. /\ ord \in Seq(Fields) /\ Len(ord) = n /\ n \in Nat /\ ord[1] = First
       /\ \A k \in 1 .. m : 1 + k \in 1 .. n /\ ord[1 + k] = kept[k]
       /\ \A k \in 1 .. q : 1 + m + k \in 1 .. n /\ ord[1 + m + k] = added[k]
  <2> DEFINE one == <<First>>
             two == one \o kept
  <2>1. one \in Seq(Fields) /\ Len(one) = 1 /\ one[1] = First
    BY <1>1
  <2> HIDE DEF one
  <2>2. /\ two \in Seq(Fields) /\ Len(two) = 1 + m
        /\ \A i \in 1 .. 1 + m : two[i] = IF i <= 1 THEN one[i] ELSE kept[i - 1]
    <3>0. kept \in Seq(Fields) /\ Len(kept) = m /\ m \in Nat
      BY <1>5, <1>9
    <3> HIDE DEF m
    <3>1. /\ two \in Seq(Fields) /\ Len(two) = Len(one) + Len(kept)
          /\ \A i \in 1 .. Len(one) + Len(kept) :
               two[i] = IF i <= Len(one) THEN one[i] ELSE kept[i - Len(one)]
      BY <2>1, <3>0, ConcatProperties
    <3> HIDE DEF two
    <3> QED
      BY <2>1, <3>0, <3>1
  <2>3. ord = two \o added
    BY DEF one
  <2>4. Len(added) = q
    OBVIOUS
  <2> HIDE DEF two, ord, q
  <2>5. /\ ord \in Seq(Fields) /\ Len(ord) = 1 + m + q
        /\ \A i \in 1 .. 1 + m + q :
             ord[i] = IF i <= 1 + m THEN two[i] ELSE added[i - (1 + m)]
    <3>0. m \in Nat /\ q \in Nat
      BY <1>5, <2>4
    <3> HIDE DEF m
    <3>1. /\ ord \in Seq(Fields) /\ Len(ord) = Len(two) + Len(added)
          /\ \A i \in 1 .. Len(two) + Len(added) :
               ord[i] = IF i <= Len(two) THEN two[i] ELSE added[i - Len(two)]
      BY <1>3, <2>2, <2>3, ConcatProperties
    <3> QED
      BY <2>2, <2>4, <3>0, <3>1
  <2>6. ord[1] = First
    BY <1>5, <2>1, <2>2, <2>5
  <2>7. ASSUME NEW k \in 1 .. m PROVE 1 + k \in 1 .. n /\ ord[1 + k] = kept[k]
    <3>1. /\ 1 + k \in 1 .. 1 + m + q /\ 1 + k <= 1 + m /\ 1 + k \in 1 .. 1 + m
          /\ ~(1 + k <= 1) /\ (1 + k) - 1 = k
      BY <1>5
    <3> QED
      BY <2>2, <2>5, <3>1
  <2>8. ASSUME NEW k \in 1 .. q
        PROVE  1 + m + k \in 1 .. n /\ ord[1 + m + k] = added[k]
    <3>1. /\ 1 + m + k \in 1 .. 1 + m + q /\ ~(1 + m + k <= 1 + m)
          /\ (1 + m + k) - (1 + m) = k
      BY <1>5
    <3> QED
      BY <2>5, <3>1
  <2> QED
    BY <1>5, <2>5, <2>6, <2>7, <2>8
<1>11. ASSUME NEW i \in 1 .. n
       PROVE  \/ i = 1
              \/ \E k \in 1 .. m : i = 1 + k
              \/ \E k \in 1 .. q : i = 1 + m + k
  <2>1. CASE i = 1
    BY <2>1
  <2>2. CASE i > 1 /\ i <= 1 + m
    <3>1. i - 1 \in 1 .. m /\ i = 1 + (i - 1)
      BY <1>5, <2>2
    <3> QED
      BY <3>1
  <2>3. CASE i > 1 + m
    <3>1. i - 1 - m \in 1 .. q /\ i = 1 + m + (i - 1 - m)
      BY <1>5, <2>3
    <3> QED
      BY <3>1
  <2> QED
    BY <1>5, <2>1, <2>2, <2>3
<1> HIDE DEF ord, n, m, q
<1>12. ASSUME NEW i \in 1 .. n, NEW j \in 1 .. n, ord[i] = ord[j] PROVE i = j
  <2>1. /\ \A k \in 1 .. m : kept[k] \in Movable /\ kept[k] # First
        /\ \A k \in 1 .. q : /\ added[k] \in Movable /\ added[k] # First
                             /\ \A h \in 1 .. m : kept[h] # added[k]
    BY <1>3, <1>6, <1>8, <1>9
  <2>2. \A h, k \in 1 .. m : kept[h] = kept[k] => h = k
    <3>1. \A h, k \in 1 .. m : h < k \/ k < h \/ h = k
      BY <1>5
    <3> QED
      BY <1>7, <3>1
  <2>3. \A h, k \in 1 .. q : added[h] = added[k] => h = k
    <3>1. \A h, k \in 1 .. q : h < k \/ k < h \/ h = k
      BY <1>5
    <3>2. \A h \in 1 .. q : added[h] \in Int
      BY <1>1, <1>3
    <3>3. \A x \in Int : ~(x < x)
      OBVIOUS
    <3> QED
      BY <1>3, <3>1, <3>2, <3>3
  <2>4. CASE i = 1
    <3>1. \A k \in 1 .. m : j # 1 + k
      BY <1>10, <1>12, <2>1, <2>4
    <3>2. \A k \in 1 .. q : j # 1 + m + k
      BY <1>10, <1>12, <2>1, <2>4
    <3> QED
      BY <1>11, <2>4, <3>1, <3>2
  <2>5. CASE \E k \in 1 .. m : i = 1 + k
    <3>1. PICK k \in 1 .. m : i = 1 + k
      BY <2>5
    <3>2. ord[i] = kept[k]
      BY <1>10, <3>1
    <3>3. j # 1
      BY <1>10, <1>12, <2>1, <3>2
    <3>4. ASSUME NEW h \in 1 .. q PROVE j # 1 + m + h
      <4>1. ord[1 + m + h] = added[h] /\ kept[k] # added[h]
        BY <1>10, <2>1
      <4> QED
        BY <1>12, <3>2, <4>1
    <3>5. PICK h \in 1 .. m : j = 1 + h
      BY <1>11, <3>3, <3>4
    <3>6. ord[j] = kept[h]
      BY <1>10, <3>5
    <3> QED
      BY <1>12, <2>2, <3>1, <3>2, <3>5, <3>6
  <2>6. CASE \E k \in 1 .. q : i = 1 + m + k
    <3>1. PICK k \in 1 .. q : i = 1 + m + k
      BY <2>6
    <3>2. ord[i] = added[k]
      BY <1>10, <3>1
    <3>3. j # 1
      BY <1>10, <1>12, <2>1, <3>2
    <3>4. ASSUME NEW h \in 1 .. m PROVE j # 1 + h
      <4>1. ord[1 + h] = kept[h] /\ kept[h] # added[k]
        BY <1>10, <2>1
      <4> QED
        BY <1>12, <3>2, <4>1
    <3>5. PICK h \in 1 .. q : j = 1 + m + h
      BY <1>11, <3>3, <3>4
    <3>6. ord[j] = added[h]
      BY <1>10, <3>5
    <3> QED
      BY <1>12, <2>3, <3>1, <3>2, <3>5, <3>6
  <2> QED
    BY <1>11, <2>4, <2>5, <2>6
<1>13. ASSUME NEW f \in Fields PROVE \E i \in 1 .. n : ord[i] = f
  <2>1. CASE f = First
    <3>1. 1 \in 1 .. n
      BY <1>5, <1>10 DEF n
    <3> QED
      BY <1>10, <2>1, <3>1
  <2>2. CASE \E k \in 1 .. m : kept[k] = f
    BY <1>10, <2>2
  <2>3. CASE f # First /\ \A k \in 1 .. m : kept[k] # f
    <3>1. f \in Fields \cap missing
      BY <1>1, <1>8, <2>3, FieldsAre
    <3> QED
      BY <1>3, <1>10, <3>1
  <2> QED
    BY <2>1, <2>2, <2>3
<1>14. n = N
  <2>1. ord \in [1 .. n -> 1 .. N]
    BY <1>1, <1>10
  <2>2. \A j, k \in 1 .. n : ord[j] = ord[k] => j = k
    BY <1>12
  <2>3. \A x \in 1 .. N : \E k \in 1 .. n : ord[k] = x
    BY <1>1, <1>13
  <2>4. n \in Nat /\ N \in Nat
    BY <1>1, <1>10
  <2>5. OneToOne(ord, n, N)
    BY <2>2, <2>3 DEF OneToOne
  <2>6. n <= N /\ N <= n
    BY <2>1, <2>4, <2>5, AsManyAs
  <2> QED
    BY <2>4, <2>6
<1>15. ord \in [Fields -> Fields]
  BY <1>1, <1>10, <1>14
<1>16. Whole(ord)
  BY <1>1, <1>10, <1>12, <1>13, <1>14, <1>15 DEF Whole
<1> QED
  BY <1>4, <1>16

(* What is whole already stays as it is.                                   *)
LEMMA FromSecond ==
  ASSUME NEW at \in Seq(Fields),
         \A j, k \in 1 .. Len(at) : j < k => at[j] < at[k],
         \A k \in 1 .. Len(at) : at[k] \in 2 .. N,
         \A i \in 2 .. N : \E k \in 1 .. Len(at) : at[k] = i
  PROVE  Len(at) = N - 1 /\ \A k \in 1 .. Len(at) : at[k] = k + 1
<1> DEFINE m == Len(at)
           Bad == {k \in 1 .. m : at[k] # k + 1}
<1>1. m \in Nat /\ N \in Nat /\ N # 0
  BY FieldsAre
<1> HIDE DEF m
<1>2. /\ \A j, k \in 1 .. m : j < k => at[j] < at[k]
      /\ \A k \in 1 .. m : at[k] \in 2 .. N
      /\ \A i \in 2 .. N : \E k \in 1 .. m : at[k] = i
  BY DEF m
<1>3. Bad = {}
  <2> SUFFICES ASSUME Bad # {} PROVE FALSE
    OBVIOUS
  <2>1. PICK k \in Bad : \A j \in Bad : k <= j
    <3>1. Bad \in SUBSET Nat
      BY <1>1
    <3> HIDE DEF Bad
    <3> QED
      BY <3>1, LeastNat
  <2>2. k \in 1 .. m /\ at[k] # k + 1 /\ k \in Nat /\ at[k] \in 2 .. N /\ at[k] \in Nat
    BY <1>1, <1>2, <2>1
  <2>3. \A j \in 1 .. m : j < k => at[j] = j + 1
    BY <1>1, <2>1, <2>2
  <2>4. at[k] > k + 1
    <3>1. CASE k = 1
      BY <2>2, <3>1
    <3>2. CASE k # 1
      <4>1. k - 1 \in 1 .. m /\ k - 1 < k /\ k - 1 + 1 = k
        BY <1>1, <2>2, <3>2
      <4>2. at[k - 1] = k /\ at[k - 1] < at[k]
        BY <1>2, <2>2, <2>3, <4>1
      <4> QED
        BY <2>2, <4>2
    <3> QED
      BY <3>1, <3>2
  <2>5. PICK j \in 1 .. m : at[j] = k + 1
    <3>1. k + 1 \in 2 .. N
      BY <1>1, <2>2, <2>4
    <3> QED
      BY <1>2, <3>1
  <2>6. ~(j < k)
    BY <1>1, <2>2, <2>3, <2>5
  <2>7. ~(k < j)
    <3> SUFFICES ASSUME k < j PROVE FALSE
      OBVIOUS
    <3>1. at[k] < at[j]
      BY <1>2, <2>2
    <3> QED
      BY <2>2, <2>4, <2>5, <3>1
  <2> QED
    BY <1>1, <2>2, <2>5, <2>6, <2>7
<1>4. \A k \in 1 .. m : at[k] = k + 1
  BY <1>3
<1>5. m = N - 1
  <2>1. m <= N - 1
    <3>1. CASE m = 0
      BY <1>1, <3>1
    <3>2. CASE m # 0
      <4>1. m \in 1 .. m
        BY <1>1, <3>2
      <4>2. at[m] = m + 1 /\ at[m] \in 2 .. N
        BY <1>2, <1>4, <4>1
      <4> QED
        BY <1>1, <4>2
    <3> QED
      BY <3>1, <3>2
  <2>2. m >= N - 1
    <3>1. CASE N = 1
      BY <1>1, <3>1
    <3>2. CASE N # 1
      <4>1. N \in 2 .. N
        BY <1>1, <3>2
      <4>2. PICK k \in 1 .. m : at[k] = N
        BY <1>2, <4>1
      <4> QED
        BY <1>1, <1>4, <4>2
    <3> QED
      BY <3>1, <3>2
  <2> QED
    BY <1>1, <2>1, <2>2
<1> QED
  BY <1>4, <1>5 DEF m

(* An order that is one is not changed by that.                            *)
LEMMA SanitizedSame ==
  ASSUME NEW ord, Whole(ord)
  PROVE  Sanitized(ord) = ord
<1> DEFINE at == Visible(AllFields, Firsts(ord))
           kept == [k \in DOMAIN at |-> ord[at[k]]]
           missing == Movable \ {kept[k] : k \in DOMAIN kept}
           added == Visible(AllFields, missing)
<1>1. /\ N \in Nat /\ N # 0 /\ Fields = 1 .. N /\ First = 1
      /\ ord \in Seq(Fields) /\ Len(ord) = N
  BY FieldsAre, WholeIsSeq
<1>2. \A i \in Fields : i \in Firsts(ord) <=> i \in 2 .. N
  <2> SUFFICES ASSUME NEW i \in Fields PROVE i \in Firsts(ord) <=> i \in 2 .. N
    OBVIOUS
  <2>1. i # 1 => ord[i] \in Movable
    BY <1>1, FieldsAre DEF Whole
  <2>2. ord[1] \notin Movable
    BY <1>1, FieldsAre DEF Whole
  <2>3. \A j \in 1 .. i - 1 : j \in Fields /\ j # i
    BY <1>1
  <2>4. \A j \in 1 .. i - 1 : ord[j] # ord[i]
    BY <2>3 DEF Whole
  <2>5. i \in 2 .. N <=> i # 1
    BY <1>1
  <2> QED
    BY <2>1, <2>2, <2>4, <2>5 DEF Firsts
<1>3. /\ at \in Seq(Fields)
      /\ \A j, k \in 1 .. Len(at) : j < k => at[j] < at[k]
      /\ \A k \in 1 .. Len(at) : at[k] \in Fields \cap Firsts(ord)
      /\ \A f \in Fields \cap Firsts(ord) : \E k \in 1 .. Len(at) : at[k] = f
  BY Ascending
<1>4. Sanitized(ord) = <<First>> \o kept \o added
  BY DEF Sanitized, AllFields, Firsts
<1> HIDE DEF added, at
<1>5. Len(at) = N - 1 /\ \A k \in 1 .. Len(at) : at[k] = k + 1
  <2>1. \A k \in 1 .. Len(at) : at[k] \in 2 .. N
    BY <1>2, <1>3
  <2>2. \A i \in 2 .. N : i \in Fields
    BY <1>1
  <2>3. \A i \in 2 .. N : \E k \in 1 .. Len(at) : at[k] = i
    BY <1>2, <1>3, <2>2
  <2> QED
    BY <1>3, <2>1, <2>3, FromSecond
<1>6. DOMAIN at = 1 .. N - 1 /\ \A k \in 1 .. N - 1 : at[k] = k + 1
  BY <1>3, <1>5
<1>7. kept = [k \in 1 .. N - 1 |-> ord[k + 1]]
  BY <1>6
<1>8. missing = {}
  <2> SUFFICES ASSUME NEW f \in Movable PROVE \E k \in DOMAIN kept : kept[k] = f
    OBVIOUS
  <2>1. f \in Fields /\ f # ord[1]
    BY <1>1, FieldsAre DEF Whole
  <2>2. PICK i \in Fields : ord[i] = f
    BY <2>1 DEF Whole
  <2>3. i - 1 \in 1 .. N - 1 /\ i - 1 + 1 = i
    BY <1>1, <2>1, <2>2
  <2> HIDE DEF kept
  <2> QED
    BY <1>7, <2>2, <2>3
<1> HIDE DEF missing, kept
<1>9. added = <<>>
  <2>1. added \in Seq(Fields) /\ \A k \in 1 .. Len(added) : added[k] \in Fields \cap missing
    BY Ascending DEF added
  <2>2. Len(added) = 0
    <3>1. Len(added) \in Nat /\ (Len(added) # 0 => 1 \in 1 .. Len(added))
      BY <2>1
    <3> QED
      BY <1>8, <2>1, <3>1
  <2> QED
    BY <2>1, <2>2
<1>10. kept \in Seq(Fields) /\ Len(kept) = N - 1
  <2>1. \A k \in 1 .. N - 1 : ord[k + 1] \in Fields
    BY <1>1
  <2>2. N - 1 \in Nat
    BY <1>1
  <2> QED
    BY <1>7, <2>1, <2>2
<1>11. ord = <<First>> \o kept
  <2> DEFINE one == <<First>>
             new == one \o kept
  <2>1. one \in Seq(Fields) /\ Len(one) = 1 /\ one[1] = First
    BY <1>1
  <2> HIDE DEF one
  <2>2. /\ new \in Seq(Fields) /\ Len(new) = Len(one) + Len(kept)
        /\ \A i \in 1 .. Len(one) + Len(kept) :
             new[i] = IF i <= Len(one) THEN one[i] ELSE kept[i - Len(one)]
    BY <1>10, <2>1, ConcatProperties
  <2> HIDE DEF new
  <2>3. ASSUME NEW i \in 1 .. N PROVE new[i] = ord[i]
    <3>1. new[i] = IF i <= 1 THEN one[i] ELSE kept[i - 1]
      BY <1>1, <1>10, <2>1, <2>2
    <3>2. CASE i = 1
      BY <1>1, <2>1, <3>1, <3>2 DEF Whole
    <3>3. CASE i # 1
      <4>1. i - 1 \in 1 .. N - 1 /\ i - 1 + 1 = i /\ ~(i <= 1)
        BY <1>1, <3>3
      <4> QED
        BY <1>7, <3>1, <4>1
    <3> QED
      BY <3>2, <3>3
  <2>4. Len(new) = N
    BY <1>1, <1>10, <2>1, <2>2
  <2>5. new = ord
    BY <1>1, <2>2, <2>3, <2>4, SeqEqual
  <2> QED
    BY <2>5 DEF new, one
<1>12. <<First>> \o kept \o <<>> = <<First>> \o kept
  <2>1. <<First>> \o kept \in Seq(Fields)
    BY <1>1, <1>11
  <2> QED
    BY <2>1, ConcatEmptySeq
<1> QED
  BY <1>4, <1>9, <1>11, <1>12

-----------------------------------------------------------------------------
(* Types *)

(* What there is before the window opens.                                  *)
LEMMA NothingTyped ==
  /\ <<>> \in Columns /\ NoRow \in Rows /\ NoRows \in [Items -> Rows]
  /\ NoMenu \in Menus /\ NoMouse \in Mice
<1>1. <<>> \in Columns
  <2>1. <<>> \in Seq(Fields) /\ Len(<<>>) <= N
    BY FieldsAre
  <2> QED
    BY <2>1, ColumnsFromSeq
<1>2. 0 \in 0 .. N
  BY FieldsAre
<1> QED
  BY <1>1, <1>2, FieldsAre DEF NoRow, NoRows, Rows, NoMenu, Menus, NoMouse, Mice

(* Widths that were missing are filled in with widths.                     *)
LEMMA FilledTyped ==
  ASSUME NEW w \in [Fields -> Widths], NEW on
  PROVE  Filled(w, on) \in [Fields -> Widths]
BY DEF Filled, Widths

(* The first column is always on.                                          *)
LEMMA SyncedTyped ==
  ASSUME NEW m \in SUBSET Movable
  PROVE  Synced(m) \in SUBSET Fields /\ First \in Synced(m)
BY FieldsAre DEF Synced

(* A cache as it is built: each row has the fields that are on.            *)
FullCache(ord, on) == [k \in 1 .. CacheSize |-> Cells(ord, on)]

(* Rows are built with the columns the header is.                          *)
LEMMA CellsTyped ==
  ASSUME NEW ord, Whole(ord), NEW on
  PROVE  /\ Cells(ord, on) = Visible(ord, on) /\ Visible(ord, on) \in Columns
         /\ FullCache(ord, on) \in Seq(Columns)
         /\ \A k \in DOMAIN FullCache(ord, on) : FullCache(ord, on)[k] = Visible(ord, on)
<1> DEFINE c == Cells(ord, on)
           rowsOf == [k \in 1 .. CacheSize |-> c]
<1>1. c = Visible(ord, on) /\ c \in Columns
  BY VisibleTyped DEF Cells
<1>2. CacheSize \in Nat /\ FullCache(ord, on) = rowsOf
  BY ColumnsAssumption DEF FullCache
<1> HIDE DEF c
<1>3. rowsOf \in Seq(Columns) /\ \A k \in DOMAIN rowsOf : rowsOf[k] = c
  BY <1>1, <1>2
<1> HIDE DEF rowsOf
<1>4. \A k \in DOMAIN FullCache(ord, on) : FullCache(ord, on)[k] = Visible(ord, on)
  BY <1>1, <1>2, <1>3
<1> QED
  BY <1>1, <1>2, <1>3, <1>4 DEF c

(* Rows that are thrown away and built anew have one selection.            *)
LEMMA ResetRowsTyped ==
  ASSUME ColumnsTyped, NEW ord, Whole(ord), NEW m, ResetRows(ord, m)
  PROVE  /\ items' = NoRows /\ orphans' = 0 /\ listed' = FALSE
         /\ built' = built /\ deferred' = deferred
         /\ unused' \in Seq(Columns) /\ pending' \in Nat /\ timer' \in BOOLEAN
         /\ built => \A k \in DOMAIN unused' : unused'[k] = Visible(ord, Synced(m))
         /\ ~built => unused' = unused
<1> DEFINE active == {i \in Items : items[i].at = "active"}
           used == Cardinality(active)
           room == IF Len(unused) > Keep THEN 0 ELSE Keep + 1 - Len(unused)
           back == IF used < room THEN used ELSE room
<1>1. /\ items' = NoRows /\ orphans' = 0 /\ listed' = FALSE
      /\ built' = built /\ deferred' = deferred
      /\ IF built
         THEN /\ unused' = [k \in 1 .. CacheSize |-> Cells(ord, Synced(m))]
              /\ pending' = pending + Len(unused) + back + orphans
              /\ timer' = TRUE
         ELSE unused' = unused /\ pending' = pending /\ timer' = timer
  BY DEF ResetRows
<1>2. back \in Nat
  <2>1. used \in Nat
    <3>1. IsFiniteSet(active)
      BY ColumnsAssumption, FS_Subset
    <3> HIDE DEF active
    <3> QED
      BY <3>1, FS_CardinalityType
  <2>2. room \in Nat
    BY ColumnsAssumption DEF ColumnsTyped
  <2> HIDE DEF used, room
  <2> QED
    BY <2>1, <2>2
<1> HIDE DEF back
<1>3. pending' \in Nat
  BY <1>1, <1>2 DEF ColumnsTyped
<1>4. /\ FullCache(ord, Synced(m)) \in Seq(Columns)
      /\ \A k \in DOMAIN FullCache(ord, Synced(m)) :
           FullCache(ord, Synced(m))[k] = Visible(ord, Synced(m))
  BY CellsTyped
<1>5. unused \in Seq(Columns) /\ timer \in BOOLEAN /\ built \in BOOLEAN
  BY DEF ColumnsTyped
<1>6. CASE built
  <2> DEFINE new == FullCache(ord, Synced(m))
  <2>1. unused' = new /\ timer' = TRUE
    BY <1>1, <1>6 DEF FullCache
  <2>2. new \in Seq(Columns) /\ \A k \in DOMAIN new : new[k] = Visible(ord, Synced(m))
    BY <1>4
  <2> HIDE DEF new
  <2> QED
    BY <1>1, <1>3, <1>6, <2>1, <2>2
<1>7. CASE ~built
  BY <1>1, <1>3, <1>5, <1>7
<1> QED
  BY <1>6, <1>7

(* A menu and the mouse have the types they have.                          *)
LEMMA HeldTyped ==
  ASSUME Whole(order), First \in enabled, NEW f \in Movable,
         NEW part \in {"left", "middle", "right"}
  PROVE  /\ Held(f, part) \in Mice
         /\ Held(f, part).at \in {"pressed", "drag"} => Held(f, part).field \in Movable
         /\ Held(f, part).at \in {"resize", "pressed"}
         /\ Held(f, part).at = "resize" => Held(f, part).moved = TRUE
<1>1. Previous(f) \in Fields /\ f \in Fields /\ 0 \in 0 .. N
  BY PreviousTyped, FieldsAre
<1>2. CASE part = "right"
  <2>1. Held(f, part) = [at |-> "resize", field |-> f, gap |-> 0, moved |-> TRUE]
    BY <1>2 DEF Held
  <2> QED
    BY <1>1, <2>1 DEF Mice
<1>3. CASE part = "left"
  <2>1. Held(f, part)
          = [at |-> "resize", field |-> Previous(f), gap |-> 0, moved |-> TRUE]
    BY <1>3 DEF Held
  <2> QED
    BY <1>1, <2>1 DEF Mice
<1>4. CASE part = "middle"
  <2>1. Held(f, part) = [at |-> "pressed", field |-> f, gap |-> 0, moved |-> FALSE]
    BY <1>4 DEF Held
  <2> QED
    BY <1>1, <2>1 DEF Mice
<1> QED
  BY <1>2, <1>3, <1>4

LEMMA ColumnsInitIInv == ColumnsInit => ColumnsIInv
<1> SUFFICES ASSUME ColumnsInit PROVE ColumnsIInv
  OBVIOUS
<1>1. mask \in SUBSET Movable /\ Whole(order)
  BY SanitizedWhole DEF ColumnsInit
<1>2. ColumnsTyped
  <2>1. [f \in Fields |-> 0] \in [Fields -> Widths]
    BY DEF Widths
  <2>2. widths \in [Fields -> Widths]
    BY <2>1, FilledTyped DEF ColumnsInit
  <2>3. saved \in Settings /\ order \in [Fields -> Fields]
    BY <1>1, <2>1 DEF ColumnsInit, Settings, Whole
  <2>4. enabled \in SUBSET Fields /\ header \in Columns
    BY <1>1, SyncedTyped, VisibleTyped DEF ColumnsInit
  <2>5. menu \in Menus /\ mouse \in Mice /\ items \in [Items -> Rows]
    BY NothingTyped DEF ColumnsInit
  <2>6. /\ unused \in Seq(Columns) /\ orphans \in Nat /\ pending \in Nat
        /\ inputs \in 0 .. MaxInputs
    BY ColumnsAssumption DEF ColumnsInit
  <2>7. /\ state \in {"open", "closed"} /\ ignore \in BOOLEAN /\ listed \in BOOLEAN
        /\ built \in BOOLEAN /\ timer \in BOOLEAN /\ deferred \in BOOLEAN /\ skip \in BOOLEAN
        /\ irregular \subseteq {"made", "reset", "closed", "outside", "swallowed"}
    BY DEF ColumnsInit
  <2> QED
    BY <1>1, <2>2, <2>3, <2>4, <2>5, <2>6, <2>7 DEF ColumnsTyped
<1>3. OrdersInv
  BY <1>1 DEF ColumnsInit, OrdersInv
<1>4. ShownInv
  BY DEF ColumnsInit, ShownInv, ShownMask, NoMenu
<1>5. CacheInv /\ ClosedInv /\ SwallowedExplained /\ SavedIsShown
  BY DEF ColumnsInit, CacheInv, ClosedInv, SwallowedExplained, SavedIsShown
<1>6. RowsFitHeader
  BY DEF ColumnsInit, RowsFitHeader, NoRows
<1>7. MouseInv
  BY DEF ColumnsInit, MouseInv, NoMouse
<1> QED
  BY <1>2, <1>3, <1>4, <1>5, <1>6, <1>7 DEF ColumnsIInv

LEMMA ColumnsTypedStep ==
  ASSUME ColumnsIInv, ColumnsNext
  PROVE  ColumnsTyped'
<1> USE DEF ColumnsTyped, Input
<1>0. /\ ColumnsTyped /\ Whole(order) /\ Whole(saved.order)
      /\ saved \in Settings /\ saved.mask \in SUBSET Movable
      /\ saved.order \in [Fields -> Fields] /\ saved.widths \in [Fields -> Widths]
      /\ menu.snapshot \in SUBSET Movable /\ First \in Fields
      /\ state = "open" => First \in enabled
  BY FieldsAre, SyncedTyped DEF ColumnsIInv, OrdersInv, ShownInv, Settings, Menus
<1>a. /\ \A m \in SUBSET Movable : Synced(m) \in SUBSET Fields
      /\ \A w \in [Fields -> Widths] : \A on : Filled(w, on) \in [Fields -> Widths]
      /\ \A ord, on : Whole(ord) => Visible(ord, on) \in Columns
      /\ \A ord : Whole(ord) => ord \in [Fields -> Fields]
  BY SyncedTyped, FilledTyped, VisibleTyped DEF Whole
<1>b. \A m \in SUBSET Movable, ord \in [Fields -> Fields], w \in [Fields -> Widths] :
        [mask |-> m, order |-> ord, widths |-> w] \in Settings
  BY DEF Settings
<1>c. \A f \in Fields, w \in 1 .. 2 : [widths EXCEPT ![f] = w] \in [Fields -> Widths]
  BY <1>0 DEF Widths
<1>1. CASE MenuShow
  <2>1. menu' \in Menus
    BY <1>0, <1>1 DEF MenuShow, NewMenu, Menus
  <2>2. /\ saved' \in Settings /\ enabled' \in SUBSET Fields /\ skip' \in BOOLEAN
        /\ inputs' \in 0 .. MaxInputs
    <3>1. saved' = [mask |-> mask, order |-> order, widths |-> widths] /\ skip' = TRUE
      BY <1>1 DEF MenuShow, Notify, Save
    <3>2. saved' \in Settings
      BY <1>0, <1>b, <3>1
    <3>3. enabled' \in SUBSET Fields
      BY <1>0, <1>1, <1>a DEF MenuShow
    <3>4. inputs' \in 0 .. MaxInputs
      BY <1>0, <1>1, ColumnsAssumption DEF MenuShow
    <3> QED
      BY <3>1, <3>2, <3>3, <3>4
  <2> QED
    BY <1>0, <1>1, <2>1, <2>2 DEF MenuShow, settings, pointer, rows, timers
<1>2. ASSUME NEW f \in Movable, Toggle(f) PROVE ColumnsTyped'
  <2>1. mask' \in SUBSET Movable
    BY <1>0, <1>2 DEF Toggle
  <2>2. menu' \in Menus
    BY <1>0, <1>2 DEF Toggle, Menus
  <2>3. /\ saved' \in Settings /\ enabled' \in SUBSET Fields /\ skip' \in BOOLEAN
        /\ inputs' \in 0 .. MaxInputs
    <3>1. saved' = [mask |-> mask', order |-> order, widths |-> widths] /\ skip' = TRUE
      BY <1>2 DEF Toggle, Notify, Save
    <3>2. saved' \in Settings
      BY <1>0, <1>b, <2>1, <3>1
    <3>3. enabled' \in SUBSET Fields
      BY <1>0, <1>2, <1>a, <2>1 DEF Toggle
    <3>4. inputs' \in 0 .. MaxInputs
      BY <1>0, <1>2, ColumnsAssumption DEF Toggle
    <3> QED
      BY <3>1, <3>2, <3>3, <3>4
  <2> QED
    BY <1>0, <1>2, <2>1, <2>2, <2>3 DEF Toggle, pointer, rows, timers
<1>3. CASE MenuApply
  <2>1. /\ items' = NoRows /\ unused' \in Seq(Columns) /\ orphans' = 0 /\ pending' \in Nat
        /\ timer' \in BOOLEAN /\ listed' = FALSE /\ built' = built /\ deferred' = deferred
    BY <1>0, <1>3, ResetRowsTyped DEF MenuApply, Reset
  <2> QED
    BY <1>0, <1>3, <1>a, <2>1, NothingTyped DEF MenuApply, Reset, pointer
<1>4. CASE MenuClose
  <2>1. /\ mask' \in SUBSET Movable /\ enabled' \in SUBSET Fields /\ menu' \in Menus
        /\ saved' \in Settings /\ skip' \in BOOLEAN
    BY <1>0, <1>4, <1>a, <1>b, NothingTyped DEF MenuClose, Dismiss, Notify, Save
  <2> QED
    BY <1>0, <1>4, <2>1 DEF MenuClose, pointer, rows, timers
<1>5. ASSUME NEW f \in Movable, NEW part \in {"left", "middle", "right"}, Press(f, part)
      PROVE  ColumnsTyped'
  <2>1. mouse' \in Mice
    BY <1>0, <1>5, HeldTyped DEF Press
  <2> QED
    BY <1>0, <1>5, <2>1, ColumnsAssumption
      DEF Press, settings, widget, rows, timers
<1>6. ASSUME NEW gap \in 0 .. N, Drag(gap) PROVE ColumnsTyped'
  <2>1. mouse' \in Mice
    BY <1>0, <1>6 DEF Drag, Mice
  <2> QED
    BY <1>0, <1>6, <2>1 DEF Drag, pointerRest, widget, rows, timers
<1>7. ASSUME NEW w \in 1 .. 2, Resize(w) PROVE ColumnsTyped'
  <2>1. mouse.field \in Fields
    BY <1>0 DEF Mice
  <2>2. widths' \in [Fields -> Widths]
    BY <1>7, <1>a, <1>c, <2>1 DEF Resize
  <2> QED
    BY <1>0, <1>7, <2>2 DEF Resize, pointerRest, pointer, widget, rows, timers
<1>8. ASSUME NEW w \in 1 .. 2, ResizeEnd(w) PROVE ColumnsTyped'
  <2>1. mouse.field \in Fields
    BY <1>0 DEF Mice
  <2>2. widths' \in [Fields -> Widths]
    BY <1>8, <1>a, <1>c, <2>1 DEF ResizeEnd
  <2>3. mouse' \in Mice
    BY <1>0, <1>8, NothingTyped DEF ResizeEnd, Released, Mice
  <2> QED
    BY <1>0, <1>8, <1>b, <2>2, <2>3 DEF ResizeEnd, Save, widget, rows, timers
<1>9. CASE Drop
  <2> DEFINE new == Dropped(mouse.field, mouse.gap)
  <2>1. mouse.field \in Movable /\ mouse.gap \in 0 .. N
    BY <1>0, <1>9 DEF Drop, ColumnsIInv, MouseInv, Mice
  <2>2. Whole(new)
    BY <1>0, <2>1, DroppedWhole
  <2>3. mouse' \in Mice
    BY <1>0, <1>9, NothingTyped DEF Drop, Released, Mice
  <2>4. CASE new = order
    BY <1>0, <1>9, <2>3, <2>4 DEF Drop, widget, rows, timers
  <2>5. CASE new # order
    <3> HIDE DEF new
    <3>1. /\ order' = new /\ ignore' = TRUE /\ Reset(new) /\ Save(mask, new, widths')
          /\ irregular' = irregular \cup
               (IF menu.open /\ mask # menu.snapshot THEN {"reset"} ELSE {})
          /\ UNCHANGED <<state, mask, menu, skip, inputs>>
      BY <1>9, <2>5 DEF Drop, new
    <3>2. /\ items' = NoRows /\ unused' \in Seq(Columns) /\ orphans' = 0
          /\ pending' \in Nat /\ timer' \in BOOLEAN /\ listed' = FALSE
          /\ built' = built /\ deferred' = deferred
      BY <1>0, <2>2, <3>1, ResetRowsTyped DEF Reset
    <3>3. /\ enabled' \in SUBSET Fields /\ header' \in Columns
          /\ widths' \in [Fields -> Widths] /\ order' \in [Fields -> Fields]
      BY <1>0, <1>a, <2>2, <3>1 DEF Reset
    <3>4. saved' \in Settings
      BY <1>0, <1>b, <3>1, <3>3 DEF Save
    <3> QED
      BY <1>0, <2>3, <3>1, <3>2, <3>3, <3>4, NothingTyped
  <2> QED
    BY <2>4, <2>5
<1>10. CASE ReleaseInPlace
  <2>1. mouse' \in Mice
    BY <1>0, <1>10, NothingTyped DEF ReleaseInPlace, Released, Mice
  <2> QED
    BY <1>0, <1>10, <2>1 DEF ReleaseInPlace, pointerRest, widget, rows, timers
<1>11. CASE Click
  <2>1. /\ mask' \in SUBSET Movable /\ enabled' \in SUBSET Fields /\ menu' \in Menus
        /\ saved' \in Settings /\ skip' \in BOOLEAN
    <3>1. CASE ignore
      BY <1>0, <1>11, <3>1 DEF Click
    <3>2. CASE ~ignore /\ menu.open
      <4>1. /\ mask' = menu.snapshot /\ enabled' = Synced(menu.snapshot)
            /\ menu' = NoMenu /\ skip' = TRUE
            /\ saved' = [mask |-> menu.snapshot, order |-> order, widths |-> widths]
        BY <1>11, <3>2 DEF Click, Dismiss, Notify, Save
      <4>2. saved' \in Settings
        BY <1>0, <1>b, <4>1
      <4> QED
        BY <1>0, <1>a, <4>1, <4>2, NothingTyped
    <3>3. CASE ~ignore /\ ~menu.open
      BY <1>0, <1>11, <3>3 DEF Click
    <3> QED
      BY <3>1, <3>2, <3>3
  <2>2. /\ mouse' \in Mice /\ ignore' \in BOOLEAN
        /\ irregular' \subseteq {"made", "reset", "closed", "outside", "swallowed"}
    BY <1>0, <1>11, NothingTyped DEF Click
  <2> QED
    BY <1>0, <1>11, <2>1, <2>2 DEF Click, rows, timers
<1>12. CASE NoClick
  BY <1>0, <1>12, NothingTyped DEF NoClick, settings, widget, rows, timers
<1>d. /\ NewRow \in Columns /\ Cached \in Seq(Columns) /\ Taken \in Columns
      /\ Rest \in Seq(Columns)
  <2>1. NewRow \in Columns
    BY <1>0, <1>a DEF NewRow, Cells
  <2>2. Cached \in Seq(Columns)
    <3>1. [k \in 1 .. CacheSize |-> NewRow] \in Seq(Columns)
      BY <2>1, ColumnsAssumption
    <3> QED
      BY <1>0, <3>1 DEF Cached
  <2> QED
    BY <2>1, <2>2 DEF Taken, Rest
<1>13. ASSUME NEW i \in Items, Realize(i) PROVE ColumnsTyped'
  <2>1. [cols |-> Taken, at |-> "active"] \in Rows
    BY <1>d DEF Rows
  <2>2. items' \in [Items -> Rows]
    BY <1>0, <1>13, <2>1 DEF Realize
  <2>3. widths' \in [Fields -> Widths]
    <3>1. PICK w \in 1 .. 2 : widths' = CmdWidth(w)
      BY <1>13 DEF Realize
    <3> QED
      BY <1>0, <1>a, <1>c, <3>1 DEF CmdWidth
  <2> QED
    BY <1>0, <1>13, <1>d, <2>2, <2>3 DEF Realize, Made, widget, pointer, timers
<1>14. ASSUME NEW i \in Items, Unrealize(i) PROVE ColumnsTyped'
  <2>1. items' \in [Items -> Rows] /\ items[i].cols \in Columns
    BY <1>0, <1>14, NothingTyped DEF Unrealize, Rows
  <2>2. unused' \in Seq(Columns)
    <3>1. <<items[i].cols>> \o unused \in Seq(Columns)
      BY <1>0, <2>1
    <3> QED
      BY <1>0, <1>14, <3>1 DEF Unrealize
  <2> QED
    BY <1>0, <1>14, <2>1, <2>2 DEF Unrealize, settings, widget, pointer, timers
<1>15. CASE Measure
  BY <1>0, <1>15, <1>d, ColumnsAssumption
    DEF Measure, Made, settings, widget, pointer, timers
<1>16. CASE Update
  <2>1. items' \in [Items -> Rows] /\ orphans' \in Nat /\ listed' \in BOOLEAN
    <3>1. \A row \in Rows : [row EXCEPT !.at = "loose"] \in Rows
      BY DEF Rows
    <3>2. [i \in Items |-> IF items[i] = NoRow THEN NoRow
                           ELSE [items[i] EXCEPT !.at = "loose"]] \in [Items -> Rows]
      BY <1>0, <3>1, NothingTyped
    <3>3. \/ items' = items /\ orphans' = orphans
          \/ orphans' = 0
             /\ items' = [i \in Items |-> IF items[i] = NoRow THEN NoRow
                                          ELSE [items[i] EXCEPT !.at = "loose"]]
      BY <1>16 DEF Update, Steal
    <3>4. listed' = listed \/ listed' = TRUE
      BY <1>16 DEF Update
    <3>5. items' \in [Items -> Rows]
      BY <1>0, <3>2, <3>3
    <3>6. orphans' \in Nat
      <4>1. orphans' = orphans \/ orphans' = 0
        BY <3>3
      <4> QED
        BY <1>0, <4>1
    <3>7. listed' \in BOOLEAN
      BY <1>0, <3>4
    <3> QED
      BY <3>5, <3>6, <3>7
  <2> QED
    BY <1>0, <1>16, <2>1 DEF Update, settings, widget, pointer, timers
<1>17. CASE DeletePending
  BY <1>0, <1>17, ColumnsAssumption
    DEF DeletePending, settings, widget, pointer, rows
<1>18. CASE Deferred
  BY <1>0, <1>18 DEF Deferred, settings, widget, pointer, rows
<1>19. CASE Close
  <2>1. /\ menu' \in Menus /\ mouse' \in Mice /\ items' \in [Items -> Rows]
        /\ unused' \in Seq(Columns) /\ header' \in Columns
    BY <1>19, NothingTyped DEF Close, NoWindow
  <2>2. /\ mask' \in SUBSET Movable /\ saved' \in Settings /\ enabled' \in SUBSET Fields
        /\ inputs' \in 0 .. MaxInputs
        /\ irregular' \subseteq {"made", "reset", "closed", "outside", "swallowed"}
    BY <1>0, <1>19, <1>b, ColumnsAssumption DEF Close, Save
  <2>3. /\ state' \in {"open", "closed"} /\ ignore' \in BOOLEAN /\ built' \in BOOLEAN
        /\ orphans' \in Nat /\ listed' \in BOOLEAN /\ pending' \in Nat
        /\ timer' \in BOOLEAN /\ deferred' \in BOOLEAN /\ skip' \in BOOLEAN
    BY <1>19 DEF Close, NoWindow
  <2>4. order' = order /\ widths' = widths
    BY <1>19 DEF Close
  <2> QED
    BY <1>0, <2>1, <2>2, <2>3, <2>4
<1>20. CASE Open
  <2>1. Whole(Sanitized(saved.order))
    BY SanitizedWhole
  <2>2. /\ mask' \in SUBSET Movable /\ order' \in [Fields -> Fields]
        /\ widths' \in [Fields -> Widths] /\ enabled' \in SUBSET Fields
        /\ header' \in Columns
    BY <1>0, <1>20, <1>a, <2>1 DEF Open, Opened
  <2> QED
    BY <1>0, <1>20, <2>2 DEF Open, pointer, rows, timers
<1> QED
  BY <1>1, <1>2, <1>3, <1>4, <1>5, <1>6, <1>7, <1>8, <1>9, <1>10, <1>11, <1>12, <1>13,
     <1>14, <1>15, <1>16, <1>17, <1>18, <1>19, <1>20
    DEF ColumnsNext, Menu, Mouse, RowsStep, Timers

(* The steps that leave settings, header and menu as they are.             *)
Still ==
  /\ UNCHANGED <<state, mask, order, saved, enabled, header, menu>>
  /\ irregular \subseteq irregular'
  /\ irregular' \subseteq irregular \cup {"made", "outside"}
  /\ state = "closed" => widths' = widths

(* The steps that are about the header, and the rest that leaves it still. *)
LEMMA StillSteps ==
  ASSUME ColumnsNext, ClosedInv
  PROVE  \/ Still
         \/ MenuShow \/ (\E f \in Movable : Toggle(f)) \/ MenuApply \/ MenuClose
         \/ Drop \/ (\E w \in 1 .. 2 : ResizeEnd(w)) \/ Click \/ Close \/ Open
<1> USE DEF Still
<1>0. NoMouse.at = "idle" /\ NoMenu.open = FALSE
  BY DEF NoMouse, NoMenu
<1>1. ASSUME NEW f \in Movable, NEW part \in {"left", "middle", "right"}, Press(f, part)
      PROVE  Still
  BY <1>1 DEF Press, settings, widget
<1>2. ASSUME NEW gap \in 0 .. N, Drag(gap) PROVE Still
  BY <1>2 DEF Drag, pointerRest, widget
<1>3. ASSUME NEW w \in 1 .. 2, Resize(w) PROVE Still
  BY <1>0, <1>3 DEF Resize, ClosedInv, pointerRest, widget
<1>4. CASE ReleaseInPlace
  BY <1>4 DEF ReleaseInPlace, pointerRest, widget
<1>5. CASE NoClick
  BY <1>5 DEF NoClick, settings, widget
<1>6. CASE Measure
  BY <1>6 DEF Measure, Made, settings, widget
<1>7. CASE Update
  BY <1>7 DEF Update, settings, widget
<1>8. ASSUME NEW i \in Items, Realize(i) PROVE Still
  BY <1>8 DEF Realize, Made, widget, ClosedInv
<1>9. ASSUME NEW i \in Items, Unrealize(i) PROVE Still
  BY <1>9 DEF Unrealize, settings, widget
<1>10. CASE Timers
  BY <1>10 DEF Timers, DeletePending, Deferred, settings, widget
<1> QED
  BY <1>1, <1>2, <1>3, <1>4, <1>5, <1>6, <1>7, <1>8, <1>9, <1>10
    DEF ColumnsNext, Menu, Mouse, RowsStep

(* The settings of the menu, given up.                                     *)
LEMMA DismissStep ==
  ASSUME Dismiss
  PROVE  /\ mask' = menu.snapshot /\ enabled' = Synced(menu.snapshot) /\ menu' = NoMenu
         /\ saved' = [mask |-> menu.snapshot, order |-> order, widths |-> widths]
BY DEF Dismiss, Notify, Save

(* Orders stay orders.                                                     *)
LEMMA OrdersStep ==
  ASSUME ColumnsIInv, ColumnsNext
  PROVE  OrdersInv'
<1>0. Whole(order) /\ Whole(saved.order) /\ ColumnsTyped /\ ClosedInv
  BY DEF ColumnsIInv, OrdersInv
<1>1. CASE Still
  BY <1>0, <1>1 DEF Still, OrdersInv
<1>2. CASE order' = order /\ (saved' = saved \/ saved'.order = order)
  BY <1>0, <1>2 DEF OrdersInv
<1>3. CASE MenuShow
  BY <1>2, <1>3 DEF MenuShow, Notify, Save, settings
<1>4. ASSUME NEW f \in Movable, Toggle(f) PROVE OrdersInv'
  BY <1>2, <1>4 DEF Toggle, Notify, Save
<1>5. CASE MenuApply
  BY <1>2, <1>5 DEF MenuApply
<1>6. CASE MenuClose
  BY <1>2, <1>6, DismissStep DEF MenuClose
<1>7. CASE Drop
  <2> DEFINE new == Dropped(mouse.field, mouse.gap)
  <2>1. mouse.field \in Movable /\ mouse.gap \in 0 .. N
    BY <1>0, <1>7 DEF Drop, ColumnsIInv, MouseInv, ColumnsTyped, Mice
  <2>2. Whole(new)
    BY <1>0, <2>1, DroppedWhole
  <2>3. \/ order' = order /\ saved' = saved
        \/ order' = new /\ saved'.order = new
    BY <1>7 DEF Drop, Save
  <2> HIDE DEF new
  <2> QED
    BY <1>0, <2>2, <2>3 DEF OrdersInv
<1>8. ASSUME NEW w \in 1 .. 2, ResizeEnd(w) PROVE OrdersInv'
  BY <1>2, <1>8 DEF ResizeEnd, Save
<1>9. CASE Click
  <2>1. order' = order /\ (saved' = saved \/ Dismiss)
    BY <1>9 DEF Click
  <2> QED
    BY <1>2, <2>1, DismissStep
<1>10. CASE Close
  BY <1>2, <1>10 DEF Close, Save
<1>11. CASE Open
  <2>1. Whole(Sanitized(saved.order))
    BY SanitizedWhole
  <2>2. saved' = saved /\ (order' = order \/ order' = Sanitized(saved.order))
    BY <1>11 DEF Open, Opened
  <2> QED
    BY <1>0, <2>1, <2>2 DEF OrdersInv
<1> QED
  BY <1>0, <1>1, <1>3, <1>4, <1>5, <1>6, <1>7, <1>8, <1>9, <1>10, <1>11, StillSteps

(* The header stays a selection of the order.                              *)
LEMMA ShownStep ==
  ASSUME ColumnsIInv, ColumnsNext
  PROVE  ShownInv'
<1>0. /\ ShownInv /\ ClosedInv /\ NoMenu.open = FALSE /\ NoMouse.at = "idle"
      /\ menu.open \in BOOLEAN
  BY DEF ColumnsIInv, NoMenu, NoMouse, ColumnsTyped, Menus
<1> USE DEF ShownInv, ShownMask
<1>1. CASE Still
  BY <1>0, <1>1 DEF Still
<1>2. CASE MenuShow
  <2>1. menu' = [open |-> TRUE, snapshot |-> mask, changed |-> saved.mask # mask]
    BY <1>2 DEF MenuShow, NewMenu
  <2>2. /\ UNCHANGED <<state, mask, order, header, irregular>> /\ enabled' = Synced(mask)
        /\ ~menu.open
    BY <1>2 DEF MenuShow, settings
  <2> QED
    BY <1>0, <2>1, <2>2
<1>3. ASSUME NEW f \in Movable, Toggle(f) PROVE ShownInv'
  <2>1. menu'.open = menu.open /\ menu'.snapshot = menu.snapshot /\ menu.open
    BY <1>3 DEF Toggle, ColumnsIInv, ColumnsTyped, Menus
  <2>2. UNCHANGED <<state, order, header, irregular>> /\ enabled' = Synced(mask')
    BY <1>3 DEF Toggle
  <2> QED
    BY <1>0, <2>1, <2>2
<1>4. CASE MenuApply
  BY <1>0, <1>4 DEF MenuApply, Reset
<1>5. CASE MenuClose
  <2>1. UNCHANGED <<state, order, header, irregular>> /\ menu.open
    BY <1>5 DEF MenuClose
  <2> QED
    BY <1>0, <1>5, <2>1, DismissStep DEF MenuClose
<1>6. CASE Drop
  <2> DEFINE new == Dropped(mouse.field, mouse.gap)
  <2>1. \/ UNCHANGED <<order, enabled, header, irregular>>
        \/ /\ order' = new /\ enabled' = Synced(mask)
           /\ header' = Visible(new, Synced(mask))
           /\ irregular' = irregular \cup
                (IF menu.open /\ mask # menu.snapshot THEN {"reset"} ELSE {})
    BY <1>6 DEF Drop, Reset, widget
  <2>2. UNCHANGED <<state, mask, menu>>
    BY <1>6 DEF Drop
  <2> HIDE DEF new
  <2> QED
    BY <1>0, <2>1, <2>2
<1>7. ASSUME NEW w \in 1 .. 2, ResizeEnd(w) PROVE ShownInv'
  BY <1>0, <1>7 DEF ResizeEnd, widget
<1>8. CASE Click
  <2>1. UNCHANGED <<state, order, header>> /\ irregular \subseteq irregular'
    BY <1>8 DEF Click
  <2>2. (UNCHANGED <<mask, enabled, menu>>) \/ (menu.open /\ Dismiss)
    BY <1>8 DEF Click
  <2> QED
    BY <1>0, <2>1, <2>2, DismissStep
<1>9. CASE Close
  BY <1>9 DEF Close
<1>10. CASE Open
  <2>1. menu' = NoMenu /\ enabled' = Synced(mask') /\ header' = Visible(order', Synced(mask'))
    BY <1>0, <1>10 DEF Open, Opened, ClosedInv
  <2> QED
    BY <1>0, <2>1
<1> QED
  BY <1>0, <1>1, <1>2, <1>3, <1>4, <1>5, <1>6, <1>7, <1>8, <1>9, <1>10, StillSteps

(* The file stays what is shown, or is behind for a reason.                *)
LEMMA SavedStep ==
  ASSUME ColumnsIInv, ColumnsNext
  PROVE  SavedIsShown'
<1>0. /\ SavedIsShown /\ ClosedInv /\ Whole(saved.order) /\ NoMenu.open = FALSE
      /\ NoMouse.at = "idle" /\ state \in {"open", "closed"}
  BY DEF ColumnsIInv, OrdersInv, NoMenu, NoMouse, ColumnsTyped
<1> USE DEF SavedIsShown
<1>1. CASE Still
  BY <1>0, <1>1 DEF Still
<1>2. CASE MenuShow
  BY <1>2 DEF MenuShow, Notify, Save, settings
<1>3. ASSUME NEW f \in Movable, Toggle(f) PROVE SavedIsShown'
  <2>1. state' = "open" /\ order' = order
    BY <1>0, <1>3 DEF Toggle, ClosedInv
  <2> QED
    BY <1>3, <2>1 DEF Toggle, Notify, Save
<1>4. CASE MenuApply
  <2>1. state' = "open"
    BY <1>0, <1>4 DEF MenuApply, ClosedInv
  <2> QED
    BY <1>0, <1>4, <2>1 DEF MenuApply
<1>5. CASE MenuClose
  <2>1. state' = "open" /\ order' = order
    BY <1>0, <1>5 DEF MenuClose, ClosedInv
  <2> QED
    BY <1>5, <2>1, DismissStep DEF MenuClose
<1>6. CASE Drop
  <2>1. state' = "open" /\ mask' = mask
    BY <1>0, <1>6 DEF Drop, ClosedInv
  <2>2. \/ UNCHANGED <<order, saved, irregular>>
        \/ /\ saved' = [mask |-> mask, order |-> order', widths |-> widths']
    BY <1>6 DEF Drop, Save
  <2> QED
    BY <1>0, <2>1, <2>2
<1>7. ASSUME NEW w \in 1 .. 2, ResizeEnd(w) PROVE SavedIsShown'
  BY <1>7 DEF ResizeEnd, Save
<1>8. CASE Click
  <2>1. state' = "open" /\ order' = order /\ irregular \subseteq irregular'
    BY <1>0, <1>8 DEF Click, ClosedInv
  <2>2. (UNCHANGED <<mask, saved>>) \/ Dismiss
    BY <1>8 DEF Click
  <2> QED
    BY <1>0, <2>1, <2>2, DismissStep
<1>9. CASE Close
  <2>1. /\ saved' = [mask |-> mask, order |-> order, widths |-> widths]
        /\ order' = order /\ widths' = widths
        /\ mask' = IF menu.open THEN menu.snapshot ELSE mask
        /\ irregular' = irregular \cup
             (IF menu.open /\ mask # menu.snapshot THEN {"closed"} ELSE {})
    BY <1>9 DEF Close, Save
  <2> QED
    BY <2>1
<1>10. CASE Open
  <2>1. state = "closed" /\ state' = "open" /\ saved' = saved
    BY <1>10 DEF Open
  <2>2. Sanitized(saved.order) = saved.order
    BY <1>0, SanitizedSame
  <2>3. \/ mask' = mask /\ order' = order /\ irregular' = irregular \cap {"closed"}
        \/ mask' = saved.mask /\ order' = Sanitized(saved.order)
    BY <1>10 DEF Open, Opened
  <2> QED
    BY <1>0, <2>1, <2>2, <2>3
<1> QED
  BY <1>0, <1>1, <1>2, <1>3, <1>4, <1>5, <1>6, <1>7, <1>8, <1>9, <1>10, StillSteps

(* Only these steps touch the rows.                                        *)
LEMMA RowSteps ==
  ASSUME ColumnsNext, ColumnsTyped
  PROVE  \/ UNCHANGED <<header, rows>> /\ irregular \subseteq irregular'
         \/ MenuApply \/ Drop \/ Measure \/ Update
         \/ (\E i \in Items : Realize(i) \/ Unrealize(i)) \/ Close \/ Open
<1> USE DEF widget
<1>1. CASE MenuShow
  BY <1>1 DEF MenuShow
<1>2. ASSUME NEW f \in Movable, Toggle(f) PROVE UNCHANGED <<header, rows, irregular>>
  BY <1>2 DEF Toggle
<1>3. CASE MenuClose
  BY <1>3 DEF MenuClose
<1>4. ASSUME NEW f \in Movable, NEW part \in {"left", "middle", "right"}, Press(f, part)
      PROVE  UNCHANGED <<header, rows, irregular>>
  BY <1>4 DEF Press
<1>5. ASSUME NEW gap \in 0 .. N, Drag(gap) PROVE UNCHANGED <<header, rows, irregular>>
  BY <1>5 DEF Drag
<1>6. ASSUME NEW w \in 1 .. 2, Resize(w) \/ ResizeEnd(w)
      PROVE  UNCHANGED <<header, rows, irregular>>
  BY <1>6 DEF Resize, ResizeEnd
<1>7. CASE ReleaseInPlace
  BY <1>7 DEF ReleaseInPlace
<1>8. CASE Click \/ NoClick
  BY <1>8 DEF Click, NoClick
<1>9. CASE Timers
  BY <1>9 DEF Timers, DeletePending, Deferred
<1> QED
  BY <1>1, <1>2, <1>3, <1>4, <1>5, <1>6, <1>7, <1>8, <1>9
    DEF ColumnsNext, Menu, Mouse, RowsStep

(* What a reset of header and rows leaves.                                 *)
LEMMA ResetFits ==
  ASSUME ColumnsTyped, CacheInv, NEW ord, Whole(ord), Reset(ord)
  PROVE  CacheInv' /\ RowsFitHeader'
<1>1. header' = Visible(ord, Synced(mask)) /\ ResetRows(ord, mask)
  BY DEF Reset
<1>2. /\ items' = NoRows /\ built' = built
      /\ built => \A k \in DOMAIN unused' : unused'[k] = Visible(ord, Synced(mask))
      /\ ~built => unused' = unused
  BY <1>1, ResetRowsTyped
<1>3. \A i \in Items : items'[i] = NoRow
  BY <1>2 DEF NoRows
<1>4. \A k \in DOMAIN unused' : unused'[k] = header'
  BY <1>1, <1>2 DEF CacheInv
<1> QED
  BY <1>2, <1>3, <1>4 DEF CacheInv, RowsFitHeader

(* What is taken from the cache fits the header, and so does the rest, or  *)
(* the row that was built is noted.                                        *)
LEMMA TakenFits ==
  ASSUME ColumnsIInv, listed, irregular' = irregular \cup Made
  PROVE  \/ irregular' \cap {"made", "reset"} # {}
         \/ Taken = header /\ \A k \in DOMAIN Rest : Rest[k] = header
<1> SUFFICES ASSUME irregular \cap {"made", "reset"} = {}, Made = {}
             PROVE  Taken = header /\ \A k \in DOMAIN Rest : Rest[k] = header
  BY DEF Made
<1>1. /\ \A k \in DOMAIN unused : unused[k] = header
      /\ state = "open" => header = Visible(order, Synced(ShownMask))
      /\ Whole(order) /\ unused \in Seq(Columns)
  BY DEF ColumnsIInv, RowsFitHeader, ShownInv, OrdersInv, ColumnsTyped
<1>2. state = "open"
  BY DEF ColumnsIInv, ClosedInv, ColumnsTyped
<1>3. NewRow = Visible(order, Synced(mask)) /\ NewRow \in Columns
  BY <1>1, CellsTyped DEF NewRow
<1>4. ~built \/ Cached = <<>> => NewRow = header
  <2>1. ~built \/ Cached = <<>> => ~menu.open \/ mask = menu.snapshot
    BY DEF Made
  <2> QED
    BY <1>1, <1>2, <1>3, <2>1 DEF ShownMask
<1>5. Cached \in Seq(Columns) /\ \A k \in DOMAIN Cached : Cached[k] = header
  <2>1. CASE built
    BY <1>1, <2>1 DEF Cached
  <2>2. CASE ~built
    <3> DEFINE row == NewRow
               new == [k \in 1 .. CacheSize |-> row]
    <3>1. Cached = new /\ row = header /\ row \in Columns
      BY <1>3, <1>4, <2>2 DEF Cached
    <3> HIDE DEF row
    <3>2. new \in Seq(Columns) /\ \A k \in DOMAIN new : new[k] = row
      BY <3>1, ColumnsAssumption
    <3> QED
      BY <3>1, <3>2
  <2> QED
    BY <2>1, <2>2
<1>6. CASE Cached = <<>>
  BY <1>4, <1>6 DEF Taken, Rest
<1>7. CASE Cached # <<>>
  <2> DEFINE c == Cached
  <2>1. c \in Seq(Columns) /\ c # <<>> /\ \A k \in DOMAIN c : c[k] = header
    BY <1>5, <1>7
  <2>2. Taken = Head(c) /\ Rest = Tail(c)
    BY <1>7 DEF Taken, Rest
  <2> HIDE DEF c
  <2>3. /\ Head(c) = c[1] /\ 1 \in DOMAIN c
        /\ \A k \in DOMAIN Tail(c) : Tail(c)[k] = c[k + 1] /\ k + 1 \in DOMAIN c
    BY <2>1
  <2> QED
    BY <2>1, <2>2, <2>3
<1> QED
  BY <1>6, <1>7

(* Each row built has the columns of the header.                           *)
LEMMA RowsKept ==
  ASSUME ColumnsIInv, ColumnsNext
  PROVE  CacheInv' /\ RowsFitHeader'
<1>0. /\ ColumnsTyped /\ CacheInv /\ RowsFitHeader /\ ClosedInv /\ Whole(order)
      /\ OrdersInv'
  BY OrdersStep DEF ColumnsIInv, OrdersInv
<1> DEFINE Odd == irregular \cap {"made", "reset"} # {}
<1>1. CASE UNCHANGED <<header, rows>> /\ irregular \subseteq irregular'
  BY <1>0, <1>1 DEF CacheInv, RowsFitHeader, rows
<1>2. CASE MenuApply
  <2>1. Reset(order)
    BY <1>2 DEF MenuApply
  <2> QED
    BY <1>0, <2>1, ResetFits
<1>3. CASE Drop
  <2> DEFINE new == Dropped(mouse.field, mouse.gap)
  <2>1. CASE UNCHANGED <<widget, rows, irregular>>
    BY <1>0, <2>1 DEF CacheInv, RowsFitHeader, rows, widget
  <2>2. CASE order' = new /\ Reset(new)
    <3>1. Whole(new)
      BY <1>0, <2>2 DEF OrdersInv
    <3> HIDE DEF new
    <3> QED
      BY <1>0, <2>2, <3>1, ResetFits
  <2> QED
    BY <1>3, <2>1, <2>2 DEF Drop
<1>4. CASE Measure
  <2>1. /\ listed /\ built' = TRUE /\ unused' = Rest /\ irregular' = irregular \cup Made
        /\ header' = header /\ items' = items
    BY <1>4 DEF Measure, widget
  <2>2. \/ irregular' \cap {"made", "reset"} # {}
        \/ Taken = header /\ \A k \in DOMAIN Rest : Rest[k] = header
    BY <2>1, TakenFits
  <2> QED
    BY <1>0, <2>1, <2>2 DEF CacheInv, RowsFitHeader
<1>5. ASSUME NEW i \in Items, Realize(i) PROVE CacheInv' /\ RowsFitHeader'
  <2>1. /\ listed /\ built' = TRUE /\ unused' = Rest /\ irregular' = irregular \cup Made
        /\ header' = header /\ items' = [items EXCEPT ![i] = [cols |-> Taken, at |-> "active"]]
    BY <1>5 DEF Realize, widget
  <2>2. \/ irregular' \cap {"made", "reset"} # {}
        \/ Taken = header /\ \A k \in DOMAIN Rest : Rest[k] = header
    BY <2>1, TakenFits
  <2>3. ASSUME irregular' \cap {"made", "reset"} = {}, NEW j \in Items
        PROVE  items'[j] = NoRow \/ items'[j].cols = header
    <3>1. irregular \cap {"made", "reset"} = {}
      BY <2>1, <2>3
    <3>2. items[j] = NoRow \/ items[j].cols = header
      BY <1>0, <3>1 DEF RowsFitHeader
    <3>3. items'[j] = items[j] \/ items'[j] = [cols |-> Taken, at |-> "active"]
      BY <1>0, <2>1 DEF ColumnsTyped
    <3> QED
      BY <2>2, <2>3, <3>2, <3>3
  <2> QED
    BY <2>1, <2>2, <2>3 DEF CacheInv, RowsFitHeader
<1>6. ASSUME NEW i \in Items, Unrealize(i) PROVE CacheInv' /\ RowsFitHeader'
  <2>1. /\ items[i] # NoRow /\ items' = [items EXCEPT ![i] = NoRow]
        /\ unused' = unused \/ unused' = <<items[i].cols>> \o unused
        /\ UNCHANGED <<header, built, irregular>>
    BY <1>6 DEF Unrealize, widget
  <2>2. built'
    BY <1>0, <2>1 DEF CacheInv, NoRows
  <2>3. CASE irregular \cap {"made", "reset"} = {}
    <3>1. /\ \A j \in Items : items[j] = NoRow \/ items[j].cols = header
          /\ \A k \in DOMAIN unused : unused[k] = header
      BY <1>0, <2>3 DEF RowsFitHeader
    <3>2. \A j \in Items : items'[j] = NoRow \/ items'[j].cols = header
      BY <1>0, <2>1, <3>1 DEF ColumnsTyped
    <3>3. \A k \in DOMAIN unused' : unused'[k] = header
      <4>1. CASE unused' = unused
        BY <3>1, <4>1
      <4>2. CASE unused' = <<items[i].cols>> \o unused
        <5> DEFINE c == items[i].cols
        <5>1. c = header /\ c \in Columns /\ unused \in Seq(Columns)
          BY <1>0, <2>1, <3>1 DEF ColumnsTyped, Rows
        <5>2. unused' = <<c>> \o unused
          BY <4>2
        <5> HIDE DEF c
        <5>3. \A k \in DOMAIN (<<c>> \o unused) :
                \/ (<<c>> \o unused)[k] = c
                \/ k - 1 \in DOMAIN unused /\ (<<c>> \o unused)[k] = unused[k - 1]
          BY <5>1
        <5> QED
          BY <3>1, <5>1, <5>2, <5>3
      <4> QED
        BY <2>1, <4>1, <4>2
    <3> QED
      BY <2>1, <2>2, <3>2, <3>3 DEF CacheInv, RowsFitHeader
  <2>4. CASE irregular \cap {"made", "reset"} # {}
    BY <2>1, <2>2, <2>4 DEF CacheInv, RowsFitHeader
  <2> QED
    BY <2>3, <2>4
<1>7. CASE Update
  <2>1. UNCHANGED <<header, built, unused, irregular>>
    BY <1>7 DEF Update, widget
  <2>2. \/ items' = items
        \/ items' = [i \in Items |-> IF items[i] = NoRow THEN NoRow
                                     ELSE [items[i] EXCEPT !.at = "loose"]]
    BY <1>7 DEF Update, Steal
  <2>3. ASSUME NEW i \in Items
        PROVE  /\ items[i] = NoRow => items'[i] = NoRow
               /\ items'[i].cols = items[i].cols
    <3>1. items[i] \in Rows
      BY <1>0 DEF ColumnsTyped
    <3> QED
      BY <2>2, <3>1 DEF Rows
  <2>4. CacheInv'
    <3>1. CASE built
      BY <2>1, <3>1 DEF CacheInv
    <3>2. CASE ~built
      <4>1. unused' = <<>> /\ items = NoRows
        BY <1>0, <2>1, <3>2 DEF CacheInv
      <4>2. items' = [i \in Items |-> NoRow]
        BY <2>2, <4>1 DEF NoRows
      <4> QED
        BY <4>1, <4>2 DEF CacheInv, NoRows
    <3> QED
      BY <3>1, <3>2
  <2> QED
    BY <1>0, <2>1, <2>3, <2>4 DEF RowsFitHeader
<1>8. CASE Close
  BY <1>8 DEF Close, NoWindow, CacheInv, RowsFitHeader, NoRows
<1>9. CASE Open
  <2>1. built' = built /\ items' = NoRows /\ unused' = <<>> /\ items = NoRows /\ unused = <<>>
    BY <1>0, <1>9 DEF Open, rows, ClosedInv, CacheInv
  <2> QED
    BY <2>1 DEF CacheInv, RowsFitHeader, NoRows
<1> QED
  BY <1>0, <1>1, <1>2, <1>3, <1>4, <1>5, <1>6, <1>7, <1>8, <1>9, RowSteps

(* What the mouse holds.                                                   *)
LEMMA MouseStep ==
  ASSUME ColumnsIInv, ColumnsNext
  PROVE  MouseInv' /\ SwallowedExplained'
<1>0. /\ MouseInv /\ SwallowedExplained /\ ClosedInv /\ ShownInv /\ Whole(order)
      /\ mask \in SUBSET Movable /\ mouse \in Mice
      /\ mouse.moved \in BOOLEAN /\ ignore \in BOOLEAN
      /\ NoMouse \in Mice /\ NoMouse.at = "idle" /\ NoMouse.moved = FALSE
  BY NothingTyped DEF ColumnsIInv, ColumnsTyped, OrdersInv, Mice, NoMouse
<1> USE DEF MouseInv, SwallowedExplained
<1>1. ASSUME UNCHANGED <<mouse, ignore>>, irregular \subseteq irregular',
             "swallowed" \in irregular' => "swallowed" \in irregular
      PROVE  MouseInv' /\ SwallowedExplained'
  BY <1>0, <1>1
<1>2. CASE Released /\ mouse.at \in {"drag", "resize"} /\ irregular \subseteq irregular'
           /\ ("swallowed" \in irregular' => "swallowed" \in irregular)
  <2>1. mouse'.at = "up" /\ mouse.moved = TRUE /\ mouse'.moved = mouse.moved
    BY <1>0, <1>2 DEF Released, NoMouse
  <2> QED
    BY <1>0, <1>2, <2>1
<1>3. CASE MenuShow
  BY <1>1, <1>3 DEF MenuShow, pointer
<1>4. ASSUME NEW f \in Movable, Toggle(f) PROVE MouseInv' /\ SwallowedExplained'
  BY <1>1, <1>4 DEF Toggle, pointer
<1>5. CASE MenuApply \/ MenuClose
  BY <1>1, <1>5 DEF MenuApply, MenuClose, pointer
<1>6. ASSUME NEW f \in Movable, NEW part \in {"left", "middle", "right"}, Press(f, part)
      PROVE  MouseInv' /\ SwallowedExplained'
  <2>1. First \in enabled
    BY <1>0, <1>6, SyncedTyped DEF Press, ShownInv
  <2>2. /\ mouse'.at \in {"pressed", "drag"} => mouse'.field \in Movable
        /\ mouse'.at \in {"resize", "pressed"}
        /\ mouse'.at = "resize" => mouse'.moved = TRUE
    BY <1>0, <1>6, <2>1, HeldTyped DEF Press
  <2>3. mouse.at = "idle" /\ UNCHANGED <<ignore, irregular>>
    BY <1>6 DEF Press
  <2> QED
    BY <1>0, <2>2, <2>3
<1>7. ASSUME NEW gap \in 0 .. N, Drag(gap) PROVE MouseInv' /\ SwallowedExplained'
  <2>1. /\ mouse'.at = "drag" /\ mouse'.field = mouse.field /\ mouse'.moved = TRUE
        /\ mouse.at \in {"pressed", "drag"} /\ irregular' = irregular
    BY <1>0, <1>7 DEF Drag, Mice
  <2> QED
    BY <1>0, <2>1
<1>8. ASSUME NEW w \in 1 .. 2, Resize(w) PROVE MouseInv' /\ SwallowedExplained'
  BY <1>1, <1>8 DEF Resize, pointer
<1>9. ASSUME NEW w \in 1 .. 2, ResizeEnd(w) PROVE MouseInv' /\ SwallowedExplained'
  BY <1>2, <1>9 DEF ResizeEnd
<1>10. CASE Drop
  <2>1. Released /\ mouse.at = "drag"
    BY <1>10 DEF Drop
  <2>2. irregular' \subseteq irregular \cup {"reset"} /\ irregular \subseteq irregular'
    BY <1>10 DEF Drop
  <2> QED
    BY <1>2, <2>1, <2>2
<1>11. CASE ReleaseInPlace
  <2>1. /\ mouse'.at = "up" /\ mouse'.moved = mouse.moved
        /\ UNCHANGED <<ignore, irregular>>
    BY <1>0, <1>11 DEF ReleaseInPlace, Released, NoMouse
  <2> QED
    BY <1>0, <2>1
<1>12. CASE Click
  <2>1. /\ mouse' = NoMouse /\ ignore' = FALSE
        /\ irregular' = irregular \cup (IF ignore /\ ~mouse.moved THEN {"swallowed"} ELSE {})
    BY <1>12 DEF Click
  <2>2. CASE ignore = TRUE /\ mouse.moved = FALSE
    BY <1>0, <2>1, <2>2
  <2>3. CASE ~(ignore = TRUE /\ mouse.moved = FALSE)
    <3>1. irregular' = irregular
      BY <1>0, <2>1, <2>3
    <3> QED
      BY <1>0, <2>1, <3>1
  <2> QED
    BY <2>2, <2>3
<1>13. CASE NoClick
  <2>1. /\ mouse' = NoMouse /\ ignore' = ignore
        /\ irregular' = irregular \cup (IF ignore THEN {"outside"} ELSE {})
    BY <1>13 DEF NoClick
  <2> QED
    BY <1>0, <2>1
<1>14. CASE Measure \/ Update \/ Timers
  BY <1>1, <1>14 DEF Measure, Made, Update, Timers, DeletePending, Deferred, pointer
<1>15. ASSUME NEW i \in Items, Realize(i) \/ Unrealize(i)
       PROVE  MouseInv' /\ SwallowedExplained'
  BY <1>1, <1>15 DEF Realize, Made, Unrealize, pointer
<1>16. CASE Close
  <2>1. /\ mouse' = NoMouse /\ ignore' = FALSE
        /\ irregular' \subseteq irregular \cup {"closed"} /\ irregular \subseteq irregular'
    BY <1>16 DEF Close, NoWindow
  <2> QED
    BY <1>0, <2>1
<1>17. CASE Open
  <2>1. /\ mouse' = NoMouse /\ ignore' = FALSE /\ irregular' \subseteq {"closed"}
    BY <1>0, <1>17 DEF Open, Opened, ClosedInv, pointer
  <2> QED
    BY <1>0, <2>1
<1> QED
  BY <1>3, <1>4, <1>5, <1>6, <1>7, <1>8, <1>9, <1>10, <1>11, <1>12, <1>13, <1>14, <1>15,
     <1>16, <1>17 DEF ColumnsNext, Menu, Mouse, RowsStep

(* A window that is closed has no menu and holds nothing.                  *)
LEMMA ClosedStep ==
  ASSUME ColumnsIInv, ColumnsNext
  PROVE  ClosedInv'
<1>0. ClosedInv /\ NoMouse.at = "idle" /\ NoMenu.open = FALSE
      /\ state \in {"open", "closed"}
  BY DEF ColumnsIInv, ColumnsTyped, NoMouse, NoMenu
<1> USE DEF ClosedInv
<1>1. CASE state' = "open"
  BY <1>1
<1>2. CASE UNCHANGED <<state, menu, mouse, ignore, listed, built>>
  BY <1>0, <1>2
<1>3. CASE state = "open" /\ state' = state
  BY <1>1, <1>3
<1>4. CASE MenuShow
  BY <1>3, <1>4 DEF MenuShow
<1>5. ASSUME NEW f \in Movable, Toggle(f) PROVE ClosedInv'
  BY <1>0, <1>3, <1>5 DEF Toggle
<1>6. CASE MenuApply \/ MenuClose
  BY <1>0, <1>3, <1>6 DEF MenuApply, MenuClose
<1>7. ASSUME NEW f \in Movable, NEW part \in {"left", "middle", "right"}, Press(f, part)
      PROVE  ClosedInv'
  BY <1>3, <1>7 DEF Press
<1>8. ASSUME NEW gap \in 0 .. N, Drag(gap) PROVE ClosedInv'
  BY <1>0, <1>3, <1>8 DEF Drag, pointerRest
<1>9. ASSUME NEW w \in 1 .. 2, Resize(w) \/ ResizeEnd(w) PROVE ClosedInv'
  BY <1>0, <1>3, <1>9 DEF Resize, ResizeEnd, pointerRest
<1>10. CASE Drop \/ ReleaseInPlace \/ Click \/ NoClick
  BY <1>0, <1>3, <1>10 DEF Drop, ReleaseInPlace, Click, NoClick, pointerRest
<1>11. CASE Measure \/ Update
  BY <1>0, <1>3, <1>11 DEF Measure, Update
<1>12. ASSUME NEW i \in Items, Realize(i) PROVE ClosedInv'
  BY <1>0, <1>3, <1>12 DEF Realize
<1>13. ASSUME NEW i \in Items, Unrealize(i) PROVE ClosedInv'
  BY <1>2, <1>13 DEF Unrealize, pointer
<1>14. CASE Timers
  BY <1>2, <1>14 DEF Timers, DeletePending, Deferred, pointer, rows
<1>15. CASE Close
  BY <1>15 DEF Close, NoWindow
<1>16. CASE Open
  BY <1>1, <1>16 DEF Open
<1> QED
  BY <1>4, <1>5, <1>6, <1>7, <1>8, <1>9, <1>10, <1>11, <1>12, <1>13, <1>14, <1>15, <1>16
    DEF ColumnsNext, Menu, Mouse, RowsStep

LEMMA ColumnsIInvStep == ColumnsIInv /\ [ColumnsNext]_columnsVars => ColumnsIInv'
<1> SUFFICES ASSUME ColumnsIInv, [ColumnsNext]_columnsVars PROVE ColumnsIInv'
  OBVIOUS
<1>1. CASE ColumnsNext
  BY <1>1, ColumnsTypedStep, OrdersStep, ShownStep, RowsKept, SavedStep, MouseStep,
     ClosedStep DEF ColumnsIInv
<1>2. CASE UNCHANGED columnsVars
  BY <1>2 DEF columnsVars, settings, widget, pointer, rows, timers, ColumnsIInv,
     ColumnsTyped, OrdersInv, ShownInv, ShownMask, CacheInv, RowsFitHeader, SavedIsShown,
     MouseInv, SwallowedExplained, ClosedInv
<1> QED
  BY <1>1, <1>2

LEMMA ColumnsIInvImplies == ColumnsIInv => ColumnsInv
<1> SUFFICES ASSUME ColumnsIInv PROVE ColumnsInv
  OBVIOUS
<1>1. Whole(order) /\ Whole(saved.order)
  BY DEF ColumnsIInv, OrdersInv
<1>2. OrderIsWhole
  <2>1. \A ord : Whole(ord) => ord[1] = First /\ Fields \subseteq {ord[i] : i \in DOMAIN ord}
    BY DEF Whole
  <2> QED
    BY <1>1, <2>1 DEF OrderIsWhole
<1>3. HeaderIsMask
  BY DEF ColumnsIInv, ShownInv, ShownMask, HeaderIsMask
<1> QED
  BY <1>2, <1>3 DEF ColumnsIInv, ColumnsInv

(* Whatever the user drags, resizes, switches and closes, in whatever      *)
(* order the timers and the lists come: the order of the fields stays an   *)
(* order of all of them, header, rows and file show the fields that are    *)
(* switched on but for the cases that are named, and no click is lost that *)
(* does not follow a drag released elsewhere (evisum_ui_widget_exel.c,     *)
(* evisum_ui_process_list.c:230-400, evisum_ui_cache.c:51-125).            *)
THEOREM ColumnsCorrect == ColumnsSpec => []ColumnsInv
BY ColumnsInitIInv, ColumnsIInvStep, ColumnsIInvImplies, PTL DEF ColumnsSpec

-----------------------------------------------------------------------------
(* Selections of two sequences, one after the other *)

(* Sequences are what appending makes of the empty one.                    *)
LEMMA SeqInduction ==
  ASSUME NEW X \in SUBSET Seq(Fields), <<>> \in X,
         \A s \in X, x \in Fields : Append(s, x) \in X
  PROVE  X = Seq(Fields)
<1> DEFINE Bad == {n \in Nat : \E t \in Seq(Fields) : Len(t) = n /\ t \notin X}
<1>1. Bad = {}
  <2> SUFFICES ASSUME Bad # {} PROVE FALSE
    OBVIOUS
  <2>1. PICK n \in Bad : \A j \in Bad : n <= j
    <3>1. Bad \in SUBSET Nat
      OBVIOUS
    <3> HIDE DEF Bad
    <3> QED
      BY <3>1, LeastNat
  <2>2. PICK t \in Seq(Fields) : Len(t) = n /\ t \notin X
    BY <2>1
  <2>3. CASE n = 0
    BY <2>2, <2>3
  <2>4. CASE n # 0
    <3> DEFINE x == t[Len(t)]
    <3>1. PICK r \in Seq(Fields) : t = Append(r, x) /\ Len(r) = n - 1
      BY <2>2, <2>4, SeqSplit
    <3>2. x \in Fields
      BY <2>2, <2>4, SeqSplit
    <3> HIDE DEF x
    <3>3. n \in Nat /\ n - 1 \in Nat /\ ~(n <= n - 1)
      BY <2>2, <2>4
    <3>4. n - 1 \notin Bad
      <4> HIDE DEF Bad
      <4> QED
        BY <2>1, <3>3
    <3>5. r \in X
      BY <3>1, <3>3, <3>4
    <3> QED
      BY <2>2, <3>1, <3>2, <3>5
  <2> QED
    BY <2>3, <2>4
<1>2. \A t \in Seq(Fields) : Len(t) \in Nat
  OBVIOUS
<1> QED
  BY <1>1, <1>2

(* What is selected of two parts is selected of each.                      *)
LEMMA VisibleConcat ==
  ASSUME NEW s \in Seq(Fields), NEW t \in Seq(Fields), NEW S
  PROVE  Visible(s \o t, S) = Visible(s, S) \o Visible(t, S)
<1> DEFINE X == {u \in Seq(Fields) : Visible(s \o u, S) = Visible(s, S) \o Visible(u, S)}
<1>0. \A u \in Seq(Fields) : Visible(u, S) \in Seq(Fields)
  BY VisibleElements
<1>1. <<>> \in X
  <2> DEFINE vs == Visible(s, S)
             none == <<>>
  <2>1. vs \in Seq(Fields) /\ none \in Seq(Fields) /\ Visible(none, S) = none
    BY <1>0, VisibleEmpty
  <2> HIDE DEF vs
  <2>2. s \o none = s /\ vs \o none = vs
    BY <2>1
  <2> HIDE DEF none
  <2>3. Visible(s \o none, S) = Visible(s, S) \o Visible(none, S)
    BY <2>1, <2>2 DEF vs
  <2> QED
    BY <2>1, <2>3 DEF none
<1>2. ASSUME NEW u \in X, NEW x \in Fields PROVE Append(u, x) \in X
  <2> DEFINE vs == Visible(s, S)
             vu == Visible(u, S)
  <2>1. /\ u \in Seq(Fields) /\ vs \in Seq(Fields) /\ vu \in Seq(Fields)
        /\ Visible(s \o u, S) = vs \o vu
    BY <1>0, <1>2
  <2>2. s \o Append(u, x) = Append(s \o u, x) /\ s \o u \in Seq(Fields)
        /\ Append(u, x) \in Seq(Fields)
    BY <2>1
  <2>3. Visible(s \o Append(u, x), S) = IF x \in S THEN Append(vs \o vu, x) ELSE vs \o vu
    <3> DEFINE su == s \o u
    <3>1. su \in Seq(Fields) /\ s \o Append(u, x) = Append(su, x) /\ Visible(su, S) = vs \o vu
      BY <2>1, <2>2
    <3> HIDE DEF su, vs, vu
    <3>2. Visible(Append(su, x), S)
            = IF x \in S THEN Append(Visible(su, S), x) ELSE Visible(su, S)
      BY <3>1, VisibleAppend
    <3> QED
      BY <3>1, <3>2
  <2>4. Visible(Append(u, x), S) = IF x \in S THEN Append(vu, x) ELSE vu
    BY <2>1, VisibleAppend
  <2> HIDE DEF vs, vu
  <2>5. vs \o Append(vu, x) = Append(vs \o vu, x)
    BY <2>1
  <2>6. Visible(s \o Append(u, x), S) = vs \o Visible(Append(u, x), S)
    BY <2>3, <2>4, <2>5
  <2> QED
    BY <2>2, <2>6 DEF vs
<1>3. X = Seq(Fields)
  <2> HIDE DEF X
  <2>1. X \in SUBSET Seq(Fields)
    BY DEF X
  <2> QED
    BY <1>1, <1>2, <2>1, SeqInduction
<1> QED
  BY <1>3

(* Two sets that agree on the elements select the same.                    *)
LEMMA VisibleAgree ==
  ASSUME NEW s \in Seq(Fields), NEW S, NEW T,
         \A i \in 1 .. Len(s) : s[i] \in S <=> s[i] \in T
  PROVE  Visible(s, S) = Visible(s, T)
<1> DEFINE X == {u \in Seq(Fields) :
                   (\A i \in 1 .. Len(u) : u[i] \in S <=> u[i] \in T)
                     => Visible(u, S) = Visible(u, T)}
<1>1. <<>> \in X
  BY VisibleEmpty
<1>2. ASSUME NEW u \in X, NEW x \in Fields PROVE Append(u, x) \in X
  <2>1. u \in Seq(Fields) /\ Append(u, x) \in Seq(Fields)
    OBVIOUS
  <2>2. SUFFICES ASSUME \A i \in 1 .. Len(Append(u, x)) :
                          Append(u, x)[i] \in S <=> Append(u, x)[i] \in T
                 PROVE  Visible(Append(u, x), S) = Visible(Append(u, x), T)
    BY <2>1
  <2>3. /\ \A i \in 1 .. Len(u) : i \in 1 .. Len(Append(u, x)) /\ Append(u, x)[i] = u[i]
        /\ Len(u) + 1 \in 1 .. Len(Append(u, x)) /\ Append(u, x)[Len(u) + 1] = x
    BY <2>1
  <2>4. x \in S <=> x \in T
    BY <2>2, <2>3
  <2>5. Visible(u, S) = Visible(u, T)
    <3>1. \A i \in 1 .. Len(u) : u[i] \in S <=> u[i] \in T
      BY <2>2, <2>3
    <3> QED
      BY <3>1
  <2>6. /\ Visible(Append(u, x), S) = IF x \in S THEN Append(Visible(u, S), x)
                                                  ELSE Visible(u, S)
        /\ Visible(Append(u, x), T) = IF x \in T THEN Append(Visible(u, T), x)
                                                  ELSE Visible(u, T)
    BY <2>1, VisibleAppend
  <2> QED
    BY <2>4, <2>5, <2>6
<1>3. X = Seq(Fields)
  <2> HIDE DEF X
  <2>1. X \in SUBSET Seq(Fields)
    BY DEF X
  <2> QED
    BY <1>1, <1>2, <2>1, SeqInduction
<1> QED
  BY <1>3

(* If all are selected nothing is left out.                                *)
LEMMA VisibleAll ==
  ASSUME NEW s \in Seq(Fields), NEW S, \A i \in 1 .. Len(s) : s[i] \in S
  PROVE  Visible(s, S) = s
<1> DEFINE X == {u \in Seq(Fields) : Visible(u, Fields) = u}
<1>1. <<>> \in X
  BY VisibleEmpty
<1>2. ASSUME NEW u \in X, NEW x \in Fields PROVE Append(u, x) \in X
  BY VisibleAppend
<1>3. X = Seq(Fields)
  <2> HIDE DEF X
  <2>1. X \in SUBSET Seq(Fields)
    BY DEF X
  <2> QED
    BY <1>1, <1>2, <2>1, SeqInduction
<1>4. Visible(s, S) = Visible(s, Fields)
  <2>1. \A i \in 1 .. Len(s) : s[i] \in S <=> s[i] \in Fields
    OBVIOUS
  <2> QED
    BY <2>1, VisibleAgree
<1> QED
  BY <1>3, <1>4

(* A selection from one field.                                             *)
LEMMA VisibleOne ==
  ASSUME NEW x \in Fields, NEW S
  PROVE  Visible(<<x>>, S) = IF x \in S THEN <<x>> ELSE <<>>
<1> DEFINE none == <<>>
<1>1. none \in Seq(Fields) /\ <<x>> = Append(none, x)
  OBVIOUS
<1>2. Visible(Append(none, x), S)
        = IF x \in S THEN Append(Visible(none, S), x) ELSE Visible(none, S)
  <2> HIDE DEF none
  <2> QED
    BY <1>1, VisibleAppend
<1> QED
  BY <1>1, <1>2, VisibleEmpty

(* A sequence in which each element has one place.                         *)
Distinct(s) == \A i, j \in 1 .. Len(s) : s[i] = s[j] => i = j

(* No field is selected twice.                                             *)
LEMMA VisibleDistinct ==
  ASSUME NEW s \in Seq(Fields), Distinct(s), NEW S
  PROVE  Distinct(Visible(s, S))
<1> DEFINE v == Visible(s, S)
           m == Len(v)
           n == Len(s)
<1>1. PICK at : Places(v, s, S, at)
  BY VisiblePlaces DEF HasPlaces
<1>2. v \in Seq(Fields) /\ m \in Nat /\ n \in Nat
  BY VisibleElements
<1> HIDE DEF v
<1>3. /\ at \in [1 .. m -> 1 .. n]
      /\ \A j, k \in 1 .. m : j < k => at[j] < at[k]
      /\ \A k \in 1 .. m : v[k] = s[at[k]]
  BY <1>1 DEF Places
<1> HIDE DEF m, n
<1>4. ASSUME NEW j \in 1 .. m, NEW k \in 1 .. m, v[j] = v[k] PROVE j = k
  <2>1. at[j] = at[k]
    BY <1>3, <1>4 DEF Distinct, n
  <2>2. at[j] \in Nat /\ ~(j < k) /\ ~(k < j)
    BY <1>2, <1>3, <2>1
  <2> QED
    BY <1>2, <2>2
<1> QED
  BY <1>4 DEF Distinct, v, m

-----------------------------------------------------------------------------
(* What is selected up to a place *)

(* An order cut in two, and its selection.                                 *)
LEMMA CutAt ==
  ASSUME NEW s \in Seq(Fields), NEW c \in 0 .. Len(s), NEW S
  PROVE  /\ SubSeq(s, 1, c) \in Seq(Fields) /\ SubSeq(s, c + 1, Len(s)) \in Seq(Fields)
         /\ s = SubSeq(s, 1, c) \o SubSeq(s, c + 1, Len(s))
         /\ Visible(s, S) = Visible(SubSeq(s, 1, c), S) \o Visible(SubSeq(s, c + 1, Len(s)), S)
<1> DEFINE a == SubSeq(s, 1, c)
           b == SubSeq(s, c + 1, Len(s))
<1>1. a \in Seq(Fields) /\ b \in Seq(Fields) /\ s = a \o b
  <2>1. /\ a \in Seq(Fields) /\ Len(a) = c /\ \A i \in 1 .. c : a[i] = s[i]
    OBVIOUS
  <2>2. /\ b \in Seq(Fields) /\ Len(b) = Len(s) - c
        /\ \A i \in 1 .. Len(s) - c : b[i] = s[c + i]
    OBVIOUS
  <2> DEFINE n == Len(s)
             ab == a \o b
  <2>3. n \in Nat /\ c \in 0 .. n /\ s \in [1 .. n -> Fields]
    OBVIOUS
  <2> HIDE DEF a, b, n
  <2>4. /\ ab \in Seq(Fields) /\ Len(ab) = n
        /\ \A i \in 1 .. n : ab[i] = IF i <= c THEN a[i] ELSE b[i - c]
    BY <2>1, <2>2, <2>3 DEF n
  <2> HIDE DEF ab
  <2>5. \A i \in 1 .. n : ab[i] = s[i]
    <3> SUFFICES ASSUME NEW i \in 1 .. n PROVE ab[i] = s[i]
      OBVIOUS
    <3>1. CASE i <= c
      BY <2>1, <2>3, <2>4, <3>1
    <3>2. CASE c < i
      <4>1. i - c \in 1 .. n - c /\ c + (i - c) = i /\ ~(i <= c)
        BY <2>3, <3>2
      <4> QED
        BY <2>2, <2>4, <4>1 DEF n
    <3> QED
      BY <2>3, <3>1, <3>2
  <2>6. ab \in [1 .. n -> Fields]
    BY <2>4
  <2>7. s = ab
    BY <2>3, <2>5, <2>6
  <2> QED
    BY <2>1, <2>2, <2>7 DEF ab
<1> HIDE DEF a, b
<1>2. Visible(a \o b, S) = Visible(a, S) \o Visible(b, S)
  BY <1>1, VisibleConcat
<1> QED
  BY <1>1, <1>2 DEF a, b

(* An element that is selected is the last that is selected up to it.      *)
LEMMA UpTo ==
  ASSUME NEW s \in Seq(Fields), NEW c \in 1 .. Len(s), NEW S, s[c] \in S
  PROVE  LET j == Len(Visible(SubSeq(s, 1, c), S))
         IN /\ j \in 1 .. Len(Visible(s, S)) /\ Visible(s, S)[j] = s[c]
            /\ Len(Visible(SubSeq(s, 1, c - 1), S)) = j - 1
<1> DEFINE a == SubSeq(s, 1, c - 1)
           b == SubSeq(s, c + 1, Len(s))
           x == s[c]
           va == Visible(a, S)
           vb == Visible(b, S)
<1>0. x \in S
  OBVIOUS
<1>1. /\ a \in Seq(Fields) /\ b \in Seq(Fields) /\ x \in Fields
      /\ SubSeq(s, 1, c) = Append(a, x)
  OBVIOUS
<1>2. Visible(s, S) = Visible(SubSeq(s, 1, c), S) \o vb
  <2>1. c \in 0 .. Len(s)
    OBVIOUS
  <2> QED
    BY <2>1, CutAt
<1> HIDE DEF a, b, x
<1>3. Visible(SubSeq(s, 1, c), S) = Append(va, x)
  <2>1. Visible(Append(a, x), S) = Append(va, x)
    BY <1>0, <1>1, VisibleAppend
  <2> QED
    BY <1>1, <2>1
<1>4. va \in Seq(Fields) /\ vb \in Seq(Fields)
  BY <1>1, VisibleElements
<1> HIDE DEF va, vb
<1>5. /\ Len(Append(va, x)) = Len(va) + 1 /\ Len(va) \in Nat
      /\ Len(va) + 1 \in 1 .. Len(Append(va, x) \o vb)
      /\ (Append(va, x) \o vb)[Len(va) + 1] = x
  BY <1>1, <1>4
<1>6. Len(va) = (Len(va) + 1) - 1
  BY <1>5
<1> QED
  BY <1>2, <1>3, <1>5, <1>6 DEF a, va, x

-----------------------------------------------------------------------------
(* A field is dropped among those that are shown *)

(* The order without a field.                                              *)
OthersOf(ord, f) == RemoveAt(ord, Pos(ord, f))

(* The order without one field: the others, in their places or one before. *)
LEMMA OthersAre ==
  ASSUME NEW ord, Whole(ord), NEW f \in Movable
  PROVE  /\ OthersOf(ord, f) \in Seq(Fields) /\ Len(OthersOf(ord, f)) = N - 1
         /\ \A i \in 1 .. N - 1 :
              OthersOf(ord, f)[i] = ord[IF i < Pos(ord, f) THEN i ELSE i + 1]
         /\ OthersOf(ord, f) = SubSeq(ord, 1, Pos(ord, f) - 1)
                                 \o SubSeq(ord, Pos(ord, f) + 1, N)
         /\ Distinct(OthersOf(ord, f)) /\ OthersOf(ord, f)[1] = First
         /\ \A i \in 1 .. N - 1 : OthersOf(ord, f)[i] # f
         /\ Pos(ord, f) \in 2 .. N /\ ord[Pos(ord, f)] = f
<1> DEFINE q == Pos(ord, f)
           base == OthersOf(ord, f)
<1>1. /\ N \in Nat /\ f \in Fields /\ Fields = 1 .. N /\ First = 1
      /\ ord \in Seq(Fields) /\ Len(ord) = N
  BY FieldsAre, WholeIsSeq
<1>2. q \in 2 .. N /\ ord[q] = f
  <2>1. q \in Fields /\ ord[q] = f /\ q # 1
    BY <1>1, PosOf, FieldsAre
  <2> HIDE DEF q
  <2> QED
    BY <1>1, <2>1
<1>3. base = RemoveAt(ord, q) /\ base = SubSeq(ord, 1, q - 1) \o SubSeq(ord, q + 1, N)
  BY <1>1 DEF OthersOf, RemoveAt
<1> HIDE DEF q, base
<1>4. /\ base \in Seq(Fields) /\ Len(base) = N - 1
      /\ \A i \in 1 .. N - 1 : base[i] = ord[IF i < q THEN i ELSE i + 1]
  <2> DEFINE without == RemoveAt(ord, q)
  <2>1. /\ without \in Seq(Fields) /\ Len(without) = N - 1
        /\ \A i \in 1 .. N - 1 : without[i] = ord[IF i < q THEN i ELSE i + 1]
    BY <1>1, <1>2 DEF RemoveAt
  <2> QED
    BY <1>3, <2>1
<1>5. \A i, j \in 1 .. N : ord[i] = ord[j] => i = j
  BY <1>1 DEF Whole
<1>6. ASSUME NEW i \in 1 .. N - 1
      PROVE  (IF i < q THEN i ELSE i + 1) \in 1 .. N /\ (IF i < q THEN i ELSE i + 1) # q
  BY <1>1, <1>2
<1>7. ASSUME NEW i \in 1 .. N - 1 PROVE base[i] # f
  BY <1>2, <1>4, <1>5, <1>6
<1>8. Distinct(base)
  <2> SUFFICES ASSUME NEW i \in 1 .. N - 1, NEW j \in 1 .. N - 1, base[i] = base[j]
               PROVE  i = j
    BY <1>4 DEF Distinct
  <2>1. (IF i < q THEN i ELSE i + 1) = (IF j < q THEN j ELSE j + 1)
    BY <1>4, <1>5, <1>6
  <2> QED
    BY <1>1, <1>2, <2>1
<1>9. base[1] = First
  <2>1. 1 \in 1 .. N - 1 /\ 1 < q
    BY <1>1, <1>2
  <2>2. base[1] = ord[1]
    BY <1>4, <2>1
  <2> QED
    BY <2>2 DEF Whole
<1> QED
  BY <1>2, <1>3, <1>4, <1>7, <1>8, <1>9 DEF q, base

(* The others that are shown: those of the header, and the first with      *)
(* those behind it.                                                        *)
OthersShow(ord, f, on) ==
  /\ Visible(OthersOf(ord, f), on) = Visible(Visible(ord, on), Fields \ {f})
  /\ Visible(OthersOf(ord, f), on) = <<First>> \o Visible(ord, on \ {f, First})
  /\ Len(Visible(ord, on)) = Len(Visible(OthersOf(ord, f), on)) + 1

(* What is shown of the others is the header without the field.            *)
LEMMA OthersShown ==
  ASSUME NEW ord, Whole(ord), NEW f \in Movable, NEW on, f \in on, First \in on
  PROVE  OthersShow(ord, f, on)
<1> DEFINE q == Pos(ord, f)
           a == SubSeq(ord, 1, q - 1)
           b == SubSeq(ord, q + 1, N)
           base == OthersOf(ord, f)
<1>1. /\ N \in Nat /\ f \in Fields /\ Fields = 1 .. N /\ First = 1 /\ f # First
      /\ First \in Fields /\ ord \in Seq(Fields) /\ Len(ord) = N
  BY FieldsAre, WholeIsSeq
<1>2. /\ base \in Seq(Fields) /\ Len(base) = N - 1 /\ base = a \o b
      /\ Distinct(base) /\ base[1] = First /\ \A i \in 1 .. N - 1 : base[i] # f
      /\ q \in 2 .. N /\ ord[q] = f
  BY OthersAre
<1> HIDE DEF q, base
<1>3. a \in Seq(Fields) /\ b \in Seq(Fields) /\ ord = a \o (<<f>> \o b)
  <2>1. /\ a \in Seq(Fields) /\ SubSeq(ord, q, Len(ord)) \in Seq(Fields)
        /\ ord = a \o SubSeq(ord, q, Len(ord))
    <3>1. q - 1 \in 0 .. Len(ord) /\ (q - 1) + 1 = q
      BY <1>1, <1>2
    <3> QED
      BY <1>1, <3>1, CutAt
  <2>2. b \in Seq(Fields)
    <3>1. q \in 0 .. Len(ord)
      BY <1>1, <1>2
    <3> QED
      BY <1>1, <3>1, CutAt
  <2>3. SubSeq(ord, q, Len(ord)) = <<f>> \o b
    <3>1. q \in 1 .. Len(ord) /\ Len(ord) \in q .. Len(ord)
      BY <1>1, <1>2
    <3> QED
      BY <1>1, <1>2, <3>1, SubSeqRecursiveFirst
  <2> QED
    BY <2>1, <2>2, <2>3
<1> HIDE DEF a, b
<1> DEFINE ab == a \o b
<1>4. ab \in Seq(Fields) /\ ab = base
  BY <1>2, <1>3
<1>5. ASSUME NEW S
      PROVE  /\ Visible(base, S) = Visible(a, S) \o Visible(b, S)
             /\ Visible(ord, S) = Visible(a, S) \o (Visible(<<f>>, S) \o Visible(b, S))
  <2>1. Visible(a \o b, S) = Visible(a, S) \o Visible(b, S)
    BY <1>3, VisibleConcat
  <2>2. Visible(<<f>> \o b, S) = Visible(<<f>>, S) \o Visible(b, S)
    <3>1. <<f>> \in Seq(Fields)
      BY <1>1
    <3> QED
      BY <1>3, <3>1, VisibleConcat
  <2> DEFINE fb == <<f>> \o b
  <2>3. fb \in Seq(Fields)
    BY <1>1, <1>3
  <2>4. Visible(a \o fb, S) = Visible(a, S) \o Visible(fb, S)
    <3> HIDE DEF fb
    <3> QED
      BY <1>3, <2>3, VisibleConcat
  <2> QED
    BY <1>2, <1>3, <2>1, <2>2, <2>4
<1>6. /\ Visible(base, on) = Visible(Visible(ord, on), Fields \ {f})
      /\ Len(Visible(ord, on)) = Len(Visible(base, on)) + 1
  <2> DEFINE va == Visible(a, on)
             vb == Visible(b, on)
             T == Fields \ {f}
  <2>1. /\ va \in Seq(Fields) /\ vb \in Seq(Fields)
        /\ Visible(base, on) = va \o vb
        /\ Visible(ord, on) = va \o (<<f>> \o vb)
    <3>1. Visible(<<f>>, on) = <<f>>
      BY <1>1, VisibleOne
    <3> QED
      BY <1>3, <1>5, <3>1, VisibleElements
  <2>2. \A i \in 1 .. Len(va) : va[i] \in T
    <3>1. \A i \in 1 .. Len(va) : va[i] \in Fields /\ \E j \in 1 .. Len(a) : a[j] = va[i]
      BY <1>3, VisibleElements
    <3>2. \A j \in 1 .. Len(a) : j \in 1 .. N - 1 /\ base[j] = a[j]
      BY <1>2, <1>3
    <3> QED
      BY <1>2, <3>1, <3>2
  <2>3. \A i \in 1 .. Len(vb) : vb[i] \in T
    <3>1. \A i \in 1 .. Len(vb) : vb[i] \in Fields /\ \E j \in 1 .. Len(b) : b[j] = vb[i]
      BY <1>3, VisibleElements
    <3>2. \A j \in 1 .. Len(b) : Len(a) + j \in 1 .. N - 1 /\ base[Len(a) + j] = b[j]
      BY <1>2, <1>3
    <3> QED
      BY <1>2, <3>1, <3>2
  <2> HIDE DEF va, vb
  <2>4. Visible(va, T) = va /\ Visible(vb, T) = vb
    BY <2>1, <2>2, <2>3, VisibleAll
  <2>5. Visible(<<f>>, T) = <<>>
    BY <1>1, VisibleOne
  <2> DEFINE fvb == <<f>> \o vb
  <2>6. /\ fvb \in Seq(Fields) /\ <<f>> \in Seq(Fields) /\ <<>> \o vb = vb
    BY <1>1, <2>1
  <2>7. Visible(fvb, T) = vb
    <3>1. Visible(<<f>> \o vb, T) = Visible(<<f>>, T) \o Visible(vb, T)
      BY <2>1, <2>6, VisibleConcat
    <3> QED
      BY <2>4, <2>5, <2>6, <3>1
  <2>8. Visible(va \o fvb, T) = va \o vb
    <3> HIDE DEF fvb, T
    <3>1. Visible(va \o fvb, T) = Visible(va, T) \o Visible(fvb, T)
      BY <2>1, <2>6, VisibleConcat
    <3> QED
      BY <2>4, <2>7, <3>1
  <2>9. Len(va \o fvb) = Len(va \o vb) + 1
    BY <1>1, <2>1
  <2> QED
    BY <2>1, <2>8, <2>9
<1>7. Visible(base, on) = <<First>> \o Visible(ord, on \ {f, First})
  <2> DEFINE S == on \ {f, First}
             c == SubSeq(base, 2, Len(base))
  <2>1. Visible(ord, S) = Visible(base, S)
    <3> DEFINE va == Visible(a, S)
               vb == Visible(b, S)
    <3>1. Visible(<<f>>, S) = <<>>
      BY <1>1, VisibleOne
    <3>2. va \in Seq(Fields) /\ vb \in Seq(Fields)
      BY <1>3, VisibleElements
    <3>3. Visible(base, S) = va \o vb /\ Visible(ord, S) = va \o (<<>> \o vb)
      BY <1>5, <3>1
    <3> HIDE DEF va, vb
    <3>4. <<>> \o vb = vb
      BY <3>2
    <3> QED
      BY <3>3, <3>4
  <2>2. c \in Seq(Fields) /\ base = <<First>> \o c /\ \A i \in 1 .. Len(c) : c[i] # First
    <3> DEFINE n == Len(base)
    <3>1. n = N - 1 /\ 1 \in 1 .. n /\ n \in 1 .. n /\ n \in Nat
      BY <1>1, <1>2
    <3>2. SubSeq(base, 1, n) = <<base[1]>> \o SubSeq(base, 1 + 1, n)
      <4> HIDE DEF n
      <4> QED
        BY <1>2, <3>1, SubSeqRecursiveFirst DEF n
    <3>3. base = <<First>> \o c
      <4>1. SubSeq(base, 1, n) = base
        <5>1. base \in Seq(Fields)
          BY <1>2
        <5> HIDE DEF base
        <5> QED
          BY <5>1, SubSeqFull
      <4>2. 1 + 1 = 2
        OBVIOUS
      <4> QED
        BY <1>2, <3>2, <4>1, <4>2
    <3>4. /\ c \in Seq(Fields)
          /\ \A i \in 1 .. Len(c) : c[i] = base[i + 1] /\ i + 1 \in 1 .. n /\ i + 1 # 1
      <4>1. \A i \in 2 .. n : base[i] \in Fields
        BY <1>2
      <4>2. /\ c \in Seq(Fields) /\ Len(c) = IF 2 <= n THEN n - 2 + 1 ELSE 0
            /\ \A i \in 1 .. n - 2 + 1 : c[i] = base[2 + i - 1]
        <5> HIDE DEF n
        <5> QED
          BY <3>1, <4>1, SubSeqProperties DEF n
      <4> HIDE DEF c, n
      <4> QED
        BY <3>1, <4>2
    <3>5. \A i \in 1 .. Len(c) : c[i] # First
      <4> HIDE DEF c, n
      <4> QED
        BY <1>2, <3>1, <3>4 DEF Distinct, n
    <3> QED
      BY <3>3, <3>4, <3>5
  <2> HIDE DEF c
  <2>3. ASSUME NEW R
        PROVE  Visible(base, R) = Visible(<<First>>, R) \o Visible(c, R)
    <3>1. <<First>> \in Seq(Fields)
      BY <1>1
    <3> QED
      BY <2>2, <3>1, VisibleConcat
  <2>4. Visible(<<First>>, on) = <<First>> /\ Visible(<<First>>, S) = <<>>
    BY <1>1, VisibleOne
  <2>5. Visible(c, on) = Visible(c, S)
    <3>1. \A i \in 1 .. Len(c) : c[i] # f
      <4>1. \A i \in 1 .. Len(c) : i + 1 \in 1 .. N - 1 /\ base[i + 1] = c[i]
        BY <1>1, <1>2, <2>2
      <4> QED
        BY <1>2, <4>1
    <3>2. \A i \in 1 .. Len(c) : c[i] \in on <=> c[i] \in S
      BY <2>2, <3>1
    <3> HIDE DEF S
    <3> QED
      BY <2>2, <3>2, VisibleAgree
  <2> DEFINE vc == Visible(c, S)
  <2>6. vc \in Seq(Fields)
    BY <2>2, VisibleElements
  <2>7. Visible(base, on) = <<First>> \o vc /\ Visible(base, S) = <<>> \o vc
    BY <2>3, <2>4, <2>5
  <2> HIDE DEF vc
  <2>8. <<>> \o vc = vc
    BY <2>6
  <2> QED
    BY <2>1, <2>7, <2>8
<1> QED
  BY <1>6, <1>7 DEF base, OthersShow

(* What is shown of an order with a field moved: the field between two     *)
(* parts.                                                                  *)
LEMMA MovedShown ==
  ASSUME NEW ord, Whole(ord), NEW f \in Movable, NEW on, f \in on, NEW to \in 2 .. N
  PROVE  LET base == OthersOf(ord, f)
         IN Visible(Moved(ord, f, to), on)
              = Visible(SubSeq(base, 1, to - 1), on)
                  \o <<f>> \o Visible(SubSeq(base, to, Len(base)), on)
<1> DEFINE base == OthersOf(ord, f)
           a == SubSeq(base, 1, to - 1)
           b == SubSeq(base, to, Len(base))
           af == a \o <<f>>
<1>1. /\ N \in Nat /\ f \in Fields /\ base \in Seq(Fields) /\ Len(base) = N - 1
  BY FieldsAre, OthersAre
<1>2. Moved(ord, f, to) = af \o b
  <2>1. N > 1 /\ ~(to < 2) /\ ~(to > N)
    BY <1>1
  <2>2. Moved(ord, f, to) = InsertAt(base, to, f)
    BY <2>1 DEF Moved, OthersOf
  <2> HIDE DEF base
  <2> QED
    BY <2>2 DEF InsertAt
<1>3. a \in Seq(Fields) /\ b \in Seq(Fields) /\ <<f>> \in Seq(Fields)
  <2> HIDE DEF base
  <2>1. to - 1 \in 0 .. Len(base) /\ (to - 1) + 1 = to
    BY <1>1
  <2> QED
    BY <1>1, <2>1, CutAt
<1> HIDE DEF a, b
<1>4. Visible(af, on) = Visible(a, on) \o <<f>>
  <2>1. Visible(af, on) = Visible(a, on) \o Visible(<<f>>, on)
    BY <1>3, VisibleConcat
  <2> QED
    BY <1>1, <2>1, VisibleOne
<1>5. af \in Seq(Fields)
  BY <1>3
<1> HIDE DEF af
<1>6. Visible(af \o b, on) = Visible(af, on) \o Visible(b, on)
  BY <1>3, <1>5, VisibleConcat
<1> QED
  BY <1>2, <1>4, <1>6 DEF a, b

(* Where a field goes that is held over a gap: as many of the others that  *)
(* are shown are before it as there are gaps before, and the first.        *)
LEMMA GapIsPlace ==
  ASSUME Whole(order), NEW f \in Movable, f \in enabled, First \in enabled,
         NEW gap \in Nat, gap <= Len(Visible(order, enabled \ {f, First}))
  PROVE  \E to \in 2 .. N :
           /\ Dropped(f, gap) = Moved(order, f, to)
           /\ Len(Visible(SubSeq(OthersOf(order, f), 1, to - 1), enabled)) = gap + 1
<1> DEFINE q == Pos(order, f)
           base == OthersOf(order, f)
           others == Visible(order, enabled \ {f, First})
           rest == Visible(base, enabled)
           before(to) == Visible(SubSeq(base, 1, to - 1), enabled)
           final == IF DropPos(f, gap) > q THEN DropPos(f, gap) - 1 ELSE DropPos(f, gap)
<1>1. /\ N \in Nat /\ N # 0 /\ f \in Fields /\ Fields = 1 .. N /\ First = 1 /\ f # First
      /\ order \in Seq(Fields) /\ Len(order) = N
      /\ \A i, j \in 1 .. N : order[i] = order[j] => i = j
  BY FieldsAre, WholeIsSeq DEF Whole
<1>2. /\ base \in Seq(Fields) /\ Len(base) = N - 1
      /\ \A i \in 1 .. N - 1 : base[i] = order[IF i < q THEN i ELSE i + 1]
      /\ Distinct(base) /\ base[1] = First /\ q \in 2 .. N /\ order[q] = f
  BY OthersAre
<1>3. Dropped(f, gap) = Moved(order, f, final)
  BY DEF Dropped
<1>4. /\ others \in Seq(Fields) /\ rest = <<First>> \o others
      /\ \A k \in 1 .. Len(others) : others[k] \in enabled \ {f, First} /\ others[k] \in Fields
  <2>1. /\ others \in Seq(Fields)
        /\ \A k \in 1 .. Len(others) : others[k] \in enabled \ {f, First} /\ others[k] \in Fields
    BY <1>1, VisibleElements
  <2>2. rest = <<First>> \o others
    <3>1. Visible(OthersOf(order, f), enabled)
            = <<First>> \o Visible(order, enabled \ {f, First})
      <4>1. OthersShow(order, f, enabled)
        BY OthersShown
      <4> QED
        BY <4>1 DEF OthersShow
    <3> QED
      BY <3>1
  <2> QED
    BY <2>1, <2>2
<1>5. rest \in Seq(Fields) /\ Distinct(rest)
  BY <1>2, VisibleElements, VisibleDistinct
(* The place of a field among the others.                                  *)
<1>6. ASSUME NEW x \in Fields, x \in enabled, x # f, x # First
      PROVE  LET p == Pos(order, x)
                 c == IF p < q THEN p ELSE p - 1
             IN /\ p \in 2 .. N /\ p # q /\ c \in 2 .. N - 1 /\ base[c] = x
                /\ Len(before(c + 1)) \in 1 .. Len(rest) /\ rest[Len(before(c + 1))] = x
                /\ Len(before(c)) = Len(before(c + 1)) - 1
  <2> DEFINE p == Pos(order, x)
             c == IF p < q THEN p ELSE p - 1
  <2>1. p \in 2 .. N /\ order[p] = x
    <3>1. p \in Fields /\ order[p] = x /\ p # 1
      BY <1>6, PosOf
    <3> HIDE DEF p
    <3> QED
      BY <1>1, <3>1
  <2> HIDE DEF p, q, base
  <2>2. p # q
    BY <1>2, <1>6, <2>1
  <2>3. c \in 2 .. N - 1 /\ (IF c < q THEN c ELSE c + 1) = p
    <3>1. q \in 2 .. N /\ N \in Nat
      BY <1>1, <1>2
    <3>2. p \in 2 .. N
      BY <2>1
    <3>3. CASE p < q
      BY <3>1, <3>2, <3>3
    <3>4. CASE ~(p < q)
      BY <2>2, <3>1, <3>2, <3>4
    <3> QED
      BY <3>3, <3>4
  <2>4. c \in 1 .. N - 1
    BY <2>3
  <2>5. base[c] = x
    <3> HIDE DEF c
    <3> QED
      BY <1>2, <2>1, <2>3, <2>4
  <2> HIDE DEF c
  <2>6. c \in 1 .. Len(base) /\ (c + 1) - 1 = c
    BY <1>2, <2>3
  <2>7. LET j == Len(Visible(SubSeq(base, 1, c), enabled))
        IN /\ j \in 1 .. Len(rest) /\ rest[j] = base[c]
           /\ Len(Visible(SubSeq(base, 1, c - 1), enabled)) = j - 1
    BY <1>2, <1>6, <2>5, <2>6, UpTo
  <2> HIDE DEF rest
  <2> QED
    BY <2>1, <2>2, <2>3, <2>5, <2>6, <2>7 DEF c, p
<1> HIDE DEF q, base, others, rest, before
<1>7. /\ Len(others) \in Nat /\ Len(rest) = Len(others) + 1
      /\ \A k \in 1 .. Len(others) : rest[k + 1] = others[k]
  BY <1>1, <1>4
<1>8. CASE gap < Len(others)
  <2> DEFINE x == others[gap + 1]
             p == Pos(order, x)
             c == IF p < q THEN p ELSE p - 1
  <2>1. gap + 1 \in 1 .. Len(others) /\ gap + 2 \in 1 .. Len(rest) /\ rest[gap + 2] = x
    <3>1. gap + 1 \in 1 .. Len(others) /\ (gap + 1) + 1 = gap + 2
      BY <1>7, <1>8
    <3> QED
      BY <1>7, <3>1
  <2>2. x \in Fields /\ x \in enabled /\ x # f /\ x # First
    BY <1>4, <2>1
  <2>3. DropPos(f, gap) = p
    BY <1>8 DEF DropPos, others
  <2> HIDE DEF x
  <2>4. /\ p \in 2 .. N /\ p # q /\ c \in 2 .. N - 1 /\ base[c] = x
        /\ Len(before(c + 1)) \in 1 .. Len(rest) /\ rest[Len(before(c + 1))] = x
        /\ Len(before(c)) = Len(before(c + 1)) - 1
    BY <1>6, <2>2
  <2> HIDE DEF p
  <2>5. final = c /\ c \in 2 .. N
    <3>1. q \in Int /\ p \in Int /\ p # q /\ N \in Int
      BY <1>1, <1>2, <2>4
    <3>2. final = IF p > q THEN p - 1 ELSE p
      BY <2>3
    <3>3. final = c
      BY <3>1, <3>2
    <3> QED
      BY <2>4, <3>1, <3>3
  <2> HIDE DEF c, final
  <2>6. Len(before(c + 1)) = gap + 2
    BY <1>5, <2>1, <2>4 DEF Distinct
  <2>7. Len(before(c)) = gap + 1
    BY <2>4, <2>6
  <2> QED
    BY <1>3, <2>5, <2>7 DEF before, base
<1>9. CASE ~(gap < Len(others)) /\ others # <<>>
  <2> DEFINE x == Last(others)
             p == Pos(order, x)
             c == IF p < q THEN p ELSE p - 1
  <2>1. gap = Len(others) /\ gap \in 1 .. Len(others) /\ x = others[gap]
    <3>1. gap <= Len(others)
      BY DEF others
    <3> QED
      BY <1>4, <1>7, <1>9, <3>1 DEF Last
  <2>2. gap + 1 \in 1 .. Len(rest) /\ rest[gap + 1] = x
    BY <1>7, <2>1
  <2>3. x \in Fields /\ x \in enabled /\ x # f /\ x # First
    BY <1>4, <2>1
  <2>4. DropPos(f, gap) = p + 1
    BY <1>9 DEF DropPos, others
  <2> HIDE DEF x
  <2>5. /\ p \in 2 .. N /\ p # q /\ c \in 2 .. N - 1 /\ base[c] = x
        /\ Len(before(c + 1)) \in 1 .. Len(rest) /\ rest[Len(before(c + 1))] = x
    BY <1>6, <2>3
  <2> HIDE DEF p
  <2>6. final = c + 1 /\ c + 1 \in 2 .. N
    <3>1. q \in Int /\ p \in Int /\ p # q /\ N \in Int
      BY <1>1, <1>2, <2>5
    <3>2. final = IF p + 1 > q THEN (p + 1) - 1 ELSE p + 1
      BY <2>4
    <3>3. final = c + 1
      BY <3>1, <3>2
    <3> QED
      BY <2>5, <3>1, <3>3
  <2> HIDE DEF c, final
  <2>7. Len(before(c + 1)) = gap + 1
    BY <1>5, <2>2, <2>5 DEF Distinct
  <2> QED
    BY <1>3, <2>6, <2>7 DEF before, base
<1>10. CASE others = <<>>
  <2>1. gap = 0 /\ Len(rest) = 1
    <3>1. gap <= Len(others)
      BY DEF others
    <3> QED
      BY <1>7, <1>10, <3>1
  <2>2. DropPos(f, gap) = 3
    BY <1>10, <2>1 DEF DropPos, others
  <2>3. final \in 2 .. N
    BY <1>1, <1>2, <2>2
  <2> HIDE DEF final
  <2> DEFINE v == before(final)
             w == Visible(SubSeq(base, final, Len(base)), enabled)
             s == SubSeq(base, 1, final - 1)
  <2>4. rest = v \o w /\ v \in Seq(Fields) /\ w \in Seq(Fields) /\ s \in Seq(Fields)
        /\ v = Visible(s, enabled)
    <3> DEFINE e == final - 1
    <3>1. e \in 0 .. Len(base) /\ e + 1 = final
      BY <1>1, <1>2, <2>3
    <3>2. /\ s \in Seq(Fields) /\ SubSeq(base, final, Len(base)) \in Seq(Fields)
          /\ rest = v \o w
      <4>1. s = SubSeq(base, 1, e) /\ v = Visible(SubSeq(base, 1, e), enabled)
        BY DEF before
      <4> HIDE DEF e, v, s
      <4>2. /\ SubSeq(base, 1, e) \in Seq(Fields)
            /\ SubSeq(base, e + 1, Len(base)) \in Seq(Fields)
            /\ Visible(base, enabled) = Visible(SubSeq(base, 1, e), enabled)
                 \o Visible(SubSeq(base, e + 1, Len(base)), enabled)
        BY <1>2, <3>1, CutAt
      <4> QED
        BY <3>1, <4>1, <4>2 DEF rest
    <3> QED
      BY <3>2, VisibleElements DEF before
  <2>5. 1 \in 1 .. Len(s) /\ s[1] = First
    BY <1>1, <1>2, <2>3
  <2> HIDE DEF v, w, s
  <2>6. \E k \in 1 .. Len(v) : v[k] = First
    <3>1. s[1] \in enabled
      BY <2>5
    <3>2. \E k \in 1 .. Len(v) : v[k] = s[1]
      <4>1. \A i \in 1 .. Len(s) : s[i] \in enabled =>
              \E k \in 1 .. Len(Visible(s, enabled)) : Visible(s, enabled)[k] = s[i]
        BY <2>4, VisibleElements
      <4> QED
        BY <2>4, <2>5, <3>1, <4>1
    <3> QED
      BY <2>5, <3>2
  <2>7. Len(v) = 1
    <3>1. Len(v) \in Nat /\ Len(w) \in Nat /\ Len(v) # 0
      BY <2>4, <2>6
    <3>2. Len(rest) = Len(v) + Len(w)
      BY <2>4
    <3> QED
      BY <2>1, <3>1, <3>2
  <2> QED
    BY <1>3, <2>1, <2>3, <2>7 DEF before, base, v
<1> QED
  BY <1>8, <1>9, <1>10

(* A field dropped in a gap of the header is shown in that gap.            *)
LEMMA DropShown ==
  ASSUME Whole(order), NEW f \in Movable, f \in enabled, First \in enabled,
         NEW gap \in Nat, header = Visible(order, enabled), gap <= Len(header) - 2
  PROVE  Visible(Dropped(f, gap), enabled)
           = InsertAt(Visible(header, Fields \ {f}), gap + 2, f)
<1> DEFINE base == OthersOf(order, f)
           rest == Visible(header, Fields \ {f})
           others == Visible(order, enabled \ {f, First})
<1>1. /\ base \in Seq(Fields) /\ Len(base) = N - 1 /\ N \in Nat /\ First \in Fields
      /\ f \in Fields /\ order \in Seq(Fields)
  BY OthersAre, FieldsAre, WholeIsSeq
<1>2. /\ Visible(base, enabled) = rest /\ rest = <<First>> \o others
      /\ Len(header) = Len(rest) + 1
  <2>1. OthersShow(order, f, enabled)
    BY OthersShown
  <2> QED
    BY <2>1 DEF OthersShow
<1>3. others \in Seq(Fields)
  BY <1>1, VisibleElements
<1>4. rest \in Seq(Fields) /\ gap <= Len(others)
  <2> HIDE DEF others, rest
  <2>1. rest \in Seq(Fields) /\ Len(rest) = Len(others) + 1 /\ Len(others) \in Nat
    BY <1>1, <1>2, <1>3
  <2> QED
    BY <1>2, <2>1
<1>5. PICK to \in 2 .. N :
        /\ Dropped(f, gap) = Moved(order, f, to)
        /\ Len(Visible(SubSeq(OthersOf(order, f), 1, to - 1), enabled)) = gap + 1
  BY <1>4, GapIsPlace
<1> DEFINE v == Visible(SubSeq(base, 1, to - 1), enabled)
           w == Visible(SubSeq(base, to, Len(base)), enabled)
<1>6. Visible(Dropped(f, gap), enabled) = v \o <<f>> \o w /\ Len(v) = gap + 1
  BY <1>5, MovedShown
<1>7. rest = v \o w /\ v \in Seq(Fields) /\ w \in Seq(Fields)
  <2> DEFINE e == to - 1
  <2>1. e \in 0 .. Len(base) /\ e + 1 = to
    BY <1>1
  <2>2. v = Visible(SubSeq(base, 1, e), enabled)
    OBVIOUS
  <2> HIDE DEF e, v, base
  <2>3. /\ SubSeq(base, 1, e) \in Seq(Fields) /\ SubSeq(base, e + 1, Len(base)) \in Seq(Fields)
        /\ Visible(base, enabled) = Visible(SubSeq(base, 1, e), enabled)
             \o Visible(SubSeq(base, e + 1, Len(base)), enabled)
    BY <1>1, <2>1, CutAt
  <2> QED
    BY <1>2, <2>1, <2>2, <2>3, VisibleElements
<1> HIDE DEF v, w, rest
<1>8. SubSeq(rest, 1, gap + 1) = v /\ SubSeq(rest, gap + 2, Len(rest)) = w
  <2> DEFINE k == Len(v)
             vw == v \o w
  <2>1. k \in Nat /\ k = gap + 1
    BY <1>6, <1>7
  <2>2. SubSeq(vw, 1, k) = v /\ SubSeq(vw, k + 1, Len(vw)) = w
    BY <1>7
  <2> QED
    BY <1>7, <2>1, <2>2
<1>9. InsertAt(rest, gap + 2, f) = v \o <<f>> \o w
  <2>1. (gap + 2) - 1 = gap + 1
    OBVIOUS
  <2> QED
    BY <1>8, <2>1 DEF InsertAt
<1> QED
  BY <1>6, <1>9 DEF rest

(* Only a drop ends a drag.                                                *)
LEMMA DragEnds ==
  ASSUME ColumnsIInv, ColumnsNext, mouse.at = "drag", mouse'.at = "up"
  PROVE  Drop
<1>1. NoMouse.at = "idle" /\ mouse' # mouse /\ mouse \in Mice /\ state = "open"
  BY DEF NoMouse, ColumnsIInv, ClosedInv, ColumnsTyped
<1>2. ~(UNCHANGED pointer)
  BY <1>1 DEF pointer
<1>3. ASSUME NEW f \in Movable, Toggle(f) PROVE FALSE
  BY <1>2, <1>3 DEF Toggle
<1>4. ~MenuShow /\ ~MenuApply /\ ~MenuClose
  BY <1>2 DEF MenuShow, MenuApply, MenuClose
<1>5. ASSUME NEW f \in Movable, NEW part \in {"left", "middle", "right"}, Press(f, part)
      PROVE  FALSE
  BY <1>5 DEF Press
<1>6. ASSUME NEW gap \in 0 .. N, Drag(gap) PROVE FALSE
  BY <1>1, <1>6 DEF Drag, Mice
<1>7. ASSUME NEW w \in 1 .. 2, Resize(w) \/ ResizeEnd(w) PROVE FALSE
  BY <1>7 DEF Resize, ResizeEnd
<1>8. ~ReleaseInPlace /\ ~Click /\ ~NoClick
  BY DEF ReleaseInPlace, Click, NoClick
<1>9. ~Measure /\ ~Update /\ ~Timers
  BY <1>2 DEF Measure, Update, Timers, DeletePending, Deferred
<1>10. ASSUME NEW i \in Items, Realize(i) \/ Unrealize(i) PROVE FALSE
  BY <1>2, <1>10 DEF Realize, Unrealize
<1>11. ~Close
  BY <1>1 DEF Close, NoWindow
<1>12. ~Open
  BY <1>1 DEF Open
<1> QED
  BY <1>3, <1>4, <1>5, <1>6, <1>7, <1>8, <1>9, <1>10, <1>11, <1>12
    DEF ColumnsNext, Menu, Mouse, RowsStep

(* Wherever hidden fields are, a column is dropped in the gap between the  *)
(* columns that are shown over which it was (evisum_ui_widget_exel.c:      *)
(* 385-431).                                                               *)
THEOREM DropsCorrect == ColumnsSpec => DropsWhereShown
<1>1. ColumnsIInv /\ [ColumnsNext]_columnsVars
        => [mouse.at = "drag" /\ mouse'.at = "up" /\ header = Visible(order, enabled)
            /\ Contains(header, mouse.field) /\ mouse.gap <= Len(header) - 2 =>
              Visible(order', enabled) =
                InsertAt(Visible(header, Fields \ {mouse.field}), mouse.gap + 2, mouse.field)
           ]_columnsVars
  <2> SUFFICES ASSUME ColumnsIInv, ColumnsNext, mouse.at = "drag", mouse'.at = "up",
                      header = Visible(order, enabled), Contains(header, mouse.field),
                      mouse.gap <= Len(header) - 2
               PROVE  Visible(order', enabled) =
                        InsertAt(Visible(header, Fields \ {mouse.field}), mouse.gap + 2,
                                 mouse.field)
    OBVIOUS
  <2>1. order' = Dropped(mouse.field, mouse.gap)
    BY DragEnds DEF Drop
  <2>2. Whole(order) /\ mouse.field \in Movable /\ mouse.gap \in Nat /\ First \in enabled
    <3>1. state = "open"
      BY DEF ColumnsIInv, ClosedInv, ColumnsTyped, NoMouse
    <3> QED
      BY <3>1, SyncedTyped, FieldsAre
        DEF ColumnsIInv, OrdersInv, MouseInv, ColumnsTyped, ShownInv, Mice
  <2>3. mouse.field \in enabled
    <3>1. order \in Seq(Fields)
      BY <2>2, WholeIsSeq
    <3> QED
      BY <3>1, VisibleElements DEF Contains
  <2> QED
    BY <2>1, <2>2, <2>3, DropShown
<1> QED
  BY <1>1, ColumnsInitIInv, ColumnsIInvStep, PTL DEF ColumnsSpec, DropsWhereShown
=============================================================================
