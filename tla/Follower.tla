------------------------------ MODULE Follower ------------------------------
(***************************************************************************)
(* How enigmatic_client follows the log file that the daemon appends to    *)
(* and truncates: cb_file_modified (stat, compare with file_size) and      *)
(* enigmatic_client_read (fstat, read, decode) of                          *)
(* src/src/bin/enigmatic/client/enigmatic_client.c against crush, rotation *)
(* and restart of the daemon.  The two processes share nothing but the     *)
(* file and its modification events.                                       *)
(*                                                                         *)
(* The file is a sequence of cells, the smallest pieces a reader can tell  *)
(* apart; a frame (one enigmatic_log_crush) is one or more cells.  What    *)
(* the frames hold is the business of LogStream.                           *)
(***************************************************************************)
EXTENDS Integers, Sequences, FiniteSets

CONSTANTS
  Sizes,      \* the numbers of cells a frame may take
  Torn,       \* a reader may see a part of a write(2)
  SeekMin,    \* BROADCAST_SEEK_MIN_SIZE
  MaxGen,     \* bound: truncations
  MaxFrames   \* bound: frames in one file

ASSUME SizesAssumption == Sizes \subseteq Nat \ {0}
ASSUME TornAssumption == Torn \in BOOLEAN
ASSUME SeekMinAssumption == SeekMin \in Nat \ {0}
ASSUME BoundsAssumption == MaxGen \in Nat /\ MaxFrames \in Nat

VARIABLES
  exists,     \* the log file has been created
  gen,        \* how often it has been truncated
  file,       \* its cells
  frames,     \* frames written to it, the one being written included
  rest,       \* cells of the frame being written that are still to come
  event,      \* EIO_MONITOR_FILE_* events are waiting for the client
  pc,         \* where the client's main loop is
  open,       \* client->fd # -1
  truncated,  \* client->truncated
  fileSize,   \* client->file_size
  offset,     \* client->offset
  zbuf,       \* client->zbuf
  seen,       \* frames decoded since the last enigmatic_client_reset
  seenGen,    \* the file they are from
  missed      \* the client has passed over a truncation

fileVars == <<exists, gen, file, frames, rest>>
clientVars == <<pc, open, truncated, fileSize, offset, zbuf, seen, seenGen, missed>>
vars == <<fileVars, event, clientVars>>

Cell == [gen : Nat, frame : Nat \ {0}, part : Nat \ {0}, size : Nat \ {0}]

(* A frame of one file, and what bytes decode to that are not a frame.     *)
Frame == [gen : Nat, frame : Nat \ {0}]
Garbage == [gen |-> -1, frame |-> 0]

(* offset and file_size are numbers of cells.                              *)
TypeOK ==
  /\ exists \in BOOLEAN /\ gen \in Nat /\ frames \in Nat /\ rest \in Nat
  /\ file \in Seq(Cell)
  /\ event \in BOOLEAN
  /\ pc \in {"idle", "fstat", "read", "decode", "dead"}
  /\ open \in BOOLEAN /\ truncated \in BOOLEAN /\ missed \in BOOLEAN
  /\ fileSize \in Nat /\ offset \in Nat /\ seenGen \in Nat
  /\ zbuf \in Seq(Cell)
  /\ pc \in {"idle", "fstat"} => zbuf = <<>>
  /\ pc \in {"read", "decode"} => Len(zbuf) <= fileSize
  /\ seen \in Seq(Frame \cup {Garbage})

Init ==
  /\ exists \in BOOLEAN
  /\ gen = 0 /\ file = <<>> /\ frames = 0 /\ rest = 0
  /\ event = FALSE
  /\ pc = "idle" /\ open = exists /\ truncated = FALSE
  /\ fileSize = 0 /\ offset = 0 /\ zbuf = <<>>
  /\ seen = <<>> /\ seenGen = 0 /\ missed = FALSE

-----------------------------------------------------------------------------
(* The daemon *)

CellOf(n, part, size) == [gen |-> gen, frame |-> n, part |-> part, size |-> size]

(* enigmatic_log_crush: one write of one frame ...                         *)
Crush ==
  /\ exists /\ rest = 0 /\ frames < MaxFrames
  /\ frames' = frames + 1
  /\ \E size \in Sizes :
       LET cells == [i \in 1 .. size |-> CellOf(frames', i, size)] IN
       IF Torn /\ size > 1
       THEN file' = Append(file, cells[1]) /\ rest' = size - 1 /\ UNCHANGED event
       ELSE file' = file \o cells /\ rest' = 0 /\ event' = TRUE
  /\ UNCHANGED <<exists, gen, clientVars>>

(* ... the rest of which may reach the file a piece at a time.             *)
CrushMore ==
  /\ rest > 0
  /\ LET last == file[Len(file)] IN
     file' = Append(file, [last EXCEPT !.part = @ + 1])
  /\ rest' = rest - 1
  /\ event' = (event \/ rest = 1)
  /\ UNCHANGED <<exists, gen, frames, clientVars>>

(* enigmatic_log_open with O_CREAT | O_TRUNC: at the end of a rotation, or *)
(* in a new daemon, whatever the old one was doing when it died.           *)
OpenLog ==
  /\ gen < MaxGen
  /\ exists' = TRUE
  /\ gen' = gen + 1
  /\ file' = <<>> /\ frames' = 0 /\ rest' = 0
  /\ event' = TRUE
  /\ UNCHANGED clientVars

(* The client watches the directory: the lock file, the pidfile and the    *)
(* copies of a rotation make events too.                                   *)
OtherFile ==
  /\ ~event
  /\ event' = TRUE
  /\ UNCHANGED <<fileVars, clientVars>>

-----------------------------------------------------------------------------
(* What LZ4F finds in the bytes it is given. *)

IsEnd(c) == c.part = c.size

Continues(c, d) ==
  IF IsEnd(c) THEN d.part = 1
  ELSE d = [c EXCEPT !.part = @ + 1]

(* LZ4F_getFrameInfo finds a frame, and LZ4F_decompress finds its end.     *)
StartsFrame(cells) == cells[1].part = 1
EndsFrame(cells) == IsEnd(cells[Len(cells)])
Unbroken(cells) == \A i \in 1 .. Len(cells) - 1 : Continues(cells[i], cells[i + 1])

(* The frames that end in the cells, in their order.                       *)
EndsUpTo(cells, i) == Cardinality({j \in 1 .. i : IsEnd(cells[j])})
EndOf(cells, n) ==
  CHOOSE i \in 1 .. Len(cells) : IsEnd(cells[i]) /\ EndsUpTo(cells, i) = n
FrameOf(c) == [gen |-> c.gen, frame |-> c.frame]
FramesOf(cells) ==
  [n \in 1 .. EndsUpTo(cells, Len(cells)) |-> FrameOf(cells[EndOf(cells, n)])]

(* broadcast_offset_find: where a client at offset 0 of a log of at least  *)
(* BROADCAST_SEEK_MIN_SIZE starts instead.  It looks for the bytes of the  *)
(* last EVENT_BROADCAST header in the file as it is, and those can only be *)
(* inside a frame (that holds them uncompressed), never where one begins.  *)
BroadcastOffsets ==
  {0} \cup {i \in 1 .. Len(file) - 1 : Len(file) >= SeekMin /\ file[i + 1].part > 1}

-----------------------------------------------------------------------------
(* Mutants: forms a plausible bug would give to the definitions above.     *)

(* The snapshot survives enigmatic_client_reset.                           *)
FstatKeepsSnapshot ==
  /\ pc = "fstat"
  /\ open' = TRUE
  /\ truncated' = FALSE
  /\ LET from == IF truncated THEN 0 ELSE offset IN
     /\ offset' \in IF from = 0 THEN BroadcastOffsets ELSE {from}
     /\ seenGen' = IF from = 0 THEN gen ELSE seenGen
     /\ missed' = (from > 0 /\ (missed \/ seenGen # gen))
  /\ fileSize' = Len(file)
  /\ pc' = IF fileSize' > offset' THEN "read" ELSE "idle"
  /\ UNCHANGED <<fileVars, event, zbuf, seen>>

(* Only the first frame of what was read is dispatched.                    *)
DecodeFirst ==
  /\ pc = "decode"
  /\ pc' = "idle"
  /\ zbuf' = <<>>
  /\ seen' = IF FramesOf(zbuf) = <<>> THEN seen ELSE Append(seen, Head(FramesOf(zbuf)))
  /\ UNCHANGED <<fileVars, event, open, truncated, fileSize, offset, seenGen, missed>>

(* Events that came while the client read count as dealt with.             *)
DecodeDropsEvents ==
  /\ pc = "decode"
  /\ pc' = "idle"
  /\ zbuf' = <<>>
  /\ event' = FALSE
  /\ seen' = seen \o FramesOf(zbuf)
  /\ UNCHANGED <<fileVars, open, truncated, fileSize, offset, seenGen, missed>>

-----------------------------------------------------------------------------
(* The client *)

(* cb_file_modified: compare the size of the file with the one last read.  *)
(* The client passes over a truncation when it goes on at an offset that   *)
(* it counted in another file, or takes a new file for the old one.        *)
Stat ==
  /\ pc = "idle" /\ event
  /\ event' = FALSE
  /\ IF ~exists
     THEN /\ open' = FALSE /\ fileSize' = 0 /\ offset' = 0
          /\ UNCHANGED <<pc, truncated, missed>>
     ELSE /\ truncated' = (~open \/ Len(file) < fileSize)
          /\ pc' = IF truncated' \/ Len(file) > fileSize THEN "fstat" ELSE "idle"
          /\ missed' = (missed \/ (/\ ~truncated' /\ seenGen # gen
                                   /\ offset > 0 \/ (fileSize > 0 /\ pc' = "idle")))
          /\ UNCHANGED <<open, fileSize, offset>>
  /\ UNCHANGED <<fileVars, zbuf, seen, seenGen>>

(* enigmatic_client_read: after a truncation close, reset and open again;  *)
(* fstat; at offset 0 seek to the last broadcast.                          *)
Fstat ==
  /\ pc = "fstat"
  /\ open' = TRUE
  /\ truncated' = FALSE
  /\ seen' = IF truncated THEN <<>> ELSE seen
  /\ LET from == IF truncated THEN 0 ELSE offset IN
     /\ offset' \in IF from = 0 THEN BroadcastOffsets ELSE {from}
     /\ seenGen' = IF from = 0 THEN gen ELSE seenGen
     /\ missed' = (from > 0 /\ (missed \/ seenGen # gen))
  /\ fileSize' = Len(file)
  /\ pc' = IF fileSize' > offset' THEN "read" ELSE "idle"
  /\ UNCHANGED <<fileVars, event, zbuf>>

(* read(2) of the next piece, up to the size that fstat gave ...           *)
Read ==
  /\ pc = "read"
  /\ offset < Len(file)
  /\ zbuf' = Append(zbuf, file[offset + 1])
  /\ offset' = offset + 1
  /\ missed' = (missed \/ seenGen # gen)
  /\ pc' = IF offset' = fileSize THEN "decode" ELSE "read"
  /\ UNCHANGED <<fileVars, event, open, truncated, fileSize, seen, seenGen>>

(* ... or 0 at the end of a file that has become shorter: what was read is *)
(* dropped.                                                                *)
ReadEof ==
  /\ pc = "read"
  /\ offset >= Len(file)
  /\ zbuf' = <<>>
  /\ pc' = "idle"
  /\ UNCHANGED <<fileVars, event, open, truncated, fileSize, offset, seen, seenGen, missed>>

(* Decompress every frame and dispatch its records.  ERROR, which ends the *)
(* process, at bytes that are not a frame or only the first part of one;   *)
(* frames carry no checksum, so one spliced from two files may decode.     *)
Decode ==
  /\ pc = "decode"
  /\ \/ /\ StartsFrame(zbuf) /\ EndsFrame(zbuf) /\ Unbroken(zbuf)
        /\ seen' = seen \o FramesOf(zbuf)
        /\ zbuf' = <<>> /\ pc' = "idle"
     \/ /\ StartsFrame(zbuf) /\ ~Unbroken(zbuf)
        /\ seen' = Append(seen, Garbage)
        /\ zbuf' = <<>> /\ pc' = "idle"
     \/ /\ ~(StartsFrame(zbuf) /\ EndsFrame(zbuf) /\ Unbroken(zbuf))
        /\ UNCHANGED <<seen, zbuf>>
        /\ pc' = "dead"
  /\ UNCHANGED <<fileVars, event, open, truncated, fileSize, offset, seenGen, missed>>

-----------------------------------------------------------------------------
ClientStep == Stat \/ Fstat \/ Read \/ ReadEof \/ Decode

Next == Crush \/ CrushMore \/ OpenLog \/ OtherFile \/ ClientStep

Spec == Init /\ [][Next]_vars

(* The client's main loop runs, and a write that has begun ends.           *)
FairSpec == Spec /\ WF_vars(ClientStep) /\ WF_vars(CrushMore)

-----------------------------------------------------------------------------
(* Properties *)

(* Unless it has passed over a truncation, the client has decoded the      *)
(* frames of one file, from the first on, in order, none twice, none left  *)
(* out, whatever the daemon did between its stat, fstat and read.  A       *)
(* client that starts at the last broadcast of a large log would leave out *)
(* the frames before it; it never decodes one, because what it then reads  *)
(* does not begin with a frame (enigmatic_client.c:52-86, 1459-1468).      *)
SeenInOrder ==
  missed \/ \A i \in DOMAIN seen : seen[i] = [gen |-> seenGen, frame |-> i]

(* What holds of file and client at every step.                            *)
FollowerInv == TypeOK /\ SeenInOrder

(* When the daemon falls silent the client has all of the file, unless it  *)
(* has passed over a truncation, or was ended by a frame whose write had   *)
(* not ended when it looked for the size, or by the search for the last    *)
(* broadcast: no modification is forgotten, and no read that gives less    *)
(* than it was asked for ends the client                                   *)
(* (enigmatic_client.c:1434-1556, 1606-1651).                              *)
CaughtUp == Len(seen) = frames /\ (seenGen = gen \/ frames = 0)
EndedByTornFrame == pc = "dead" /\ offset = fileSize /\ ~EndsFrame(zbuf)
EndedBySearch ==
  pc = "dead" /\ seen = <<>> /\ Len(zbuf) < offset /\ fileSize >= SeekMin
CatchesUp == <>[](missed \/ EndedByTornFrame \/ EndedBySearch \/ CaughtUp)

(* Following the file as Tail promises: a step of the client decodes the   *)
(* next frames of the file it is at, gives up what it has only for a new   *)
(* file, and loses its place only to one (enigmatic_client.c:1434-1599).   *)
T == INSTANCE Tail WITH
       file <- frames, got <- seen, of <- seenGen, lost <- missed
FollowsTail == T!Spec
=============================================================================
