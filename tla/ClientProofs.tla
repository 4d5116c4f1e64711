---------------------------- MODULE ClientProofs ----------------------------
(***************************************************************************)
(* The client decodes the frames of one file in order, none twice and none *)
(* left out, unless it has passed over a truncation; and it follows the    *)
(* file as Tail promises.  What it makes of the blocks, in the second      *)
(* part: its list of processes is the monitor's, and what the windows show *)
(* of a process is what it moved.                                          *)
(***************************************************************************)
EXTENDS Follower, Processes, FiniteSetTheorems, SequenceTheorems, WellFoundedInduction, TLAPS

(* The cells of a file, one after the other.                               *)
ComesAfter(c, d) ==
  /\ d.gen = c.gen
  /\ IF IsEnd(c) THEN d.part = 1 /\ d.frame = c.frame + 1
     ELSE d.part = c.part + 1 /\ d.frame = c.frame /\ d.size = c.size
Ordered(cells) == \A i \in 1 .. Len(cells) - 1 : ComesAfter(cells[i], cells[i + 1])

(* What the daemon has written is the frames 1, 2, ... of one file, and of *)
(* the last one what is not to come.                                       *)
FileInv ==
  /\ \A i \in 1 .. Len(file) :
       file[i].gen = gen /\ file[i].part <= file[i].size /\ file[i].frame <= frames
  /\ Ordered(file)
  /\ file = <<>> => frames = 0 /\ rest = 0
  /\ file # <<>> => /\ file[1].part = 1 /\ file[1].frame = 1
                    /\ file[Len(file)].frame = frames
                    /\ file[Len(file)].part + rest = file[Len(file)].size
  /\ ~exists => file = <<>> /\ offset = 0

(* Where the client is in the file, and in its own loop.                   *)
PlaceInv ==
  /\ seenGen <= gen
  /\ missed => seenGen # gen
  /\ Len(zbuf) <= offset
  /\ offset = 0 => seen = <<>>
  /\ pc = "read" => offset < fileSize
  /\ pc = "decode" => zbuf # <<>> /\ offset = fileSize
  /\ ~open => offset = 0 /\ pc \in {"idle", "fstat"}
  /\ truncated => pc = "fstat"
  /\ truncated /\ seenGen = gen => offset = 0
  /\ seenGen = gen => fileSize <= Len(file) /\ offset <= Len(file)

(* What it has read and not decoded goes on where it has decoded to, or    *)
(* does not begin with a frame.                                            *)
ReadInv ==
  ~missed =>
    /\ \A i \in 1 .. Len(zbuf) : zbuf[i].gen = seenGen /\ zbuf[i].part <= zbuf[i].size
    /\ Ordered(zbuf)
    /\ zbuf # <<>> /\ StartsFrame(zbuf) => zbuf[1].frame = Len(seen) + 1

(* As long as the file is not truncated again, it will go on from there,   *)
(* or has just gone to the last broadcast and will read no frame.          *)
Sought == pc = "read" /\ file[offset + 1].part > 1
GoesOn ==
  seenGen = gen /\ offset > 0 =>
    IF zbuf = <<>> THEN Sought \/ (IsEnd(file[offset]) /\ file[offset].frame = Len(seen))
    ELSE zbuf[Len(zbuf)] = file[offset]

IInv == TypeOK /\ FileInv /\ PlaceInv /\ SeenInOrder /\ ReadInv /\ GoesOn

-----------------------------------------------------------------------------
(* A set of natural numbers that is not empty has a least element.         *)
LEMMA LeastNat ==
  ASSUME NEW S \in SUBSET Nat, S # {}
  PROVE  \E n \in S : \A m \in S : n <= m
<1> DEFINE R == OpToRel(<, Nat)
<1>1. IsWellFoundedOn(R, Nat)
  BY NatLessThanWellFounded
<1>2. \A x, y \in Nat : <<y, x>> \in R <=> y < x
  BY DEF OpToRel
<1> HIDE DEF R
<1>3. PICK n \in S : \A y \in S : ~ (<<y, n>> \in R)
  BY <1>1, WFMin
<1>4. \A m \in S : m \in Nat /\ n \in Nat /\ ~(m < n)
  BY <1>2, <1>3
<1>5. \A m, k \in Nat : ~(m < k) => k <= m
  OBVIOUS
<1> QED BY <1>4, <1>5

LEMMA CellFields ==
  ASSUME NEW c \in Cell
  PROVE  c.gen \in Nat /\ c.frame \in Nat \ {0} /\ c.part \in Nat \ {0} /\ c.size \in Nat \ {0}
  BY DEF Cell

(* How many frames end in the first cells.                                 *)
LEMMA EndsUpToNext ==
  ASSUME NEW cells, NEW i \in Nat
  PROVE  /\ EndsUpTo(cells, 0) = 0
         /\ EndsUpTo(cells, i) \in Nat
         /\ IsEnd(cells[i + 1]) => EndsUpTo(cells, i + 1) = EndsUpTo(cells, i) + 1
         /\ ~IsEnd(cells[i + 1]) => EndsUpTo(cells, i + 1) = EndsUpTo(cells, i)
<1> DEFINE E(k) == {j \in 1 .. k : IsEnd(cells[j])}
<1>1. E(0) = {}
  OBVIOUS
<1>2. IsFiniteSet(E(i))
  <2>1. IsFiniteSet(1 .. i)
    BY FS_Interval
  <2>2. E(i) \subseteq 1 .. i
    OBVIOUS
  <2> QED
    BY <2>1, <2>2, FS_Subset
<1>3. IsEnd(cells[i + 1]) => E(i + 1) = E(i) \cup {i + 1}
  OBVIOUS
<1>4. ~IsEnd(cells[i + 1]) => E(i + 1) = E(i)
  OBVIOUS
<1>5. i + 1 \notin E(i)
  OBVIOUS
<1>6. Cardinality(E(i) \cup {i + 1}) = Cardinality(E(i)) + 1 /\ Cardinality(E(i)) \in Nat
  BY <1>2, <1>5, FS_AddElement, FS_CardinalityType
<1>7. Cardinality(E(0)) = 0
  BY <1>1, FS_EmptySet
<1>8. \A k : EndsUpTo(cells, k) = Cardinality(E(k))
  BY DEF EndsUpTo
<1> HIDE DEF E
<1> QED
  BY <1>3, <1>4, <1>6, <1>7, <1>8

(* The n-th end is there, if there are n.                                  *)
LEMMA EndOfIsEnd ==
  ASSUME NEW cells \in Seq(Cell), NEW n \in 1 .. EndsUpTo(cells, Len(cells))
  PROVE  /\ EndOf(cells, n) \in 1 .. Len(cells)
         /\ IsEnd(cells[EndOf(cells, n)])
         /\ EndsUpTo(cells, EndOf(cells, n)) = n
<1> DEFINE S == {i \in 0 .. Len(cells) : EndsUpTo(cells, i) >= n}
<1>1. EndsUpTo(cells, Len(cells)) \in Nat /\ EndsUpTo(cells, 0) = 0
  BY EndsUpToNext
<1>2. PICK i \in S : \A m \in S : i <= m
  <2>1. S \in SUBSET Nat
    OBVIOUS
  <2>2. Len(cells) \in S
    BY <1>1
  <2> HIDE DEF S
  <2> QED
    BY <2>1, <2>2, LeastNat
<1>3. i \in 1 .. Len(cells) /\ i - 1 \in Nat /\ ~ (EndsUpTo(cells, i - 1) >= n)
  <2>1. i # 0
    BY <1>1, <1>2
  <2>2. i - 1 \notin S
    BY <1>2
  <2> QED
    BY <2>1, <2>2
<1>4. EndsUpTo(cells, i) >= n
  BY <1>2
<1>5. IsEnd(cells[i]) /\ EndsUpTo(cells, i) = n
  <2> DEFINE j == i - 1
  <2>1. j \in Nat /\ j + 1 = i
    BY <1>3
  <2> HIDE DEF j
  <2>2. /\ EndsUpTo(cells, j) \in Nat
        /\ IsEnd(cells[i]) => EndsUpTo(cells, i) = EndsUpTo(cells, j) + 1
        /\ ~IsEnd(cells[i]) => EndsUpTo(cells, i) = EndsUpTo(cells, j)
    BY <2>1, EndsUpToNext
  <2>3. ~ (EndsUpTo(cells, j) >= n)
    BY <1>3 DEF j
  <2> QED
    BY <1>4, <2>2, <2>3
<1> QED
  BY <1>3, <1>5 DEF EndOf

LEMMA FramesOfType ==
  ASSUME NEW cells \in Seq(Cell)
  PROVE  FramesOf(cells) \in Seq(Frame)
<1>1. EndsUpTo(cells, Len(cells)) \in Nat
  BY EndsUpToNext
<1>2. ASSUME NEW n \in 1 .. EndsUpTo(cells, Len(cells))
      PROVE  FrameOf(cells[EndOf(cells, n)]) \in Frame
  <2>1. EndOf(cells, n) \in 1 .. Len(cells)
    BY EndOfIsEnd
  <2>2. cells[EndOf(cells, n)] \in Cell
    BY <2>1
  <2> QED
    BY <2>2, CellFields DEF FrameOf, Frame
<1> QED
  BY <1>1, <1>2 DEF FramesOf

(* In cells that are in order every frame but the last ends before the     *)
(* next begins.                                                            *)
LEMMA EndsInOrder ==
  ASSUME NEW cells \in Seq(Cell), Ordered(cells), NEW i \in 1 .. Len(cells)
  PROVE  EndsUpTo(cells, i)
           = cells[i].frame - cells[1].frame + (IF IsEnd(cells[i]) THEN 1 ELSE 0)
<1> DEFINE Right(k) == EndsUpTo(cells, k)
                 = cells[k].frame - cells[1].frame + (IF IsEnd(cells[k]) THEN 1 ELSE 0)
           S == {k \in 1 .. Len(cells) : ~Right(k)}
<1>1. ASSUME S # {} PROVE FALSE
  <2>1. PICK k \in S : \A m \in S : k <= m
    <3>1. S \in SUBSET Nat
      OBVIOUS
    <3> HIDE DEF S
    <3> QED
      BY <1>1, <3>1, LeastNat
  <2>2. \A j \in 1 .. Len(cells) : cells[j].frame \in Nat
    <3>1. \A j \in 1 .. Len(cells) : cells[j] \in Cell
      OBVIOUS
    <3> QED
      BY <3>1, CellFields
  <2>3. k # 1
    <3>1. /\ IsEnd(cells[0 + 1]) => EndsUpTo(cells, 0 + 1) = 0 + 1
          /\ ~IsEnd(cells[0 + 1]) => EndsUpTo(cells, 0 + 1) = 0
      BY EndsUpToNext
    <3>2. Right(1)
      BY <2>2, <3>1
    <3> QED
      BY <3>2
  <2> DEFINE j == k - 1
  <2>4. j \in 1 .. Len(cells) - 1 /\ j \in Nat /\ k = j + 1 /\ j \in 1 .. Len(cells)
    BY <2>1, <2>3
  <2>5. Right(j)
    BY <2>1, <2>4
  <2> HIDE DEF j
  <2>6. ComesAfter(cells[j], cells[k])
    BY <2>4 DEF Ordered
  <2>7. /\ EndsUpTo(cells, j) \in Nat
        /\ IsEnd(cells[k]) => EndsUpTo(cells, k) = EndsUpTo(cells, j) + 1
        /\ ~IsEnd(cells[k]) => EndsUpTo(cells, k) = EndsUpTo(cells, j)
    BY <2>4, EndsUpToNext
  <2>8. cells[k].frame = cells[j].frame + (IF IsEnd(cells[j]) THEN 1 ELSE 0)
    BY <2>2, <2>4, <2>6 DEF ComesAfter
  <2>9. Right(k)
    <3>1. cells[1].frame \in Nat /\ cells[j].frame \in Nat /\ cells[k].frame \in Nat
      BY <2>2, <2>4
    <3>2. EndsUpTo(cells, j)
            = cells[j].frame - cells[1].frame + (IF IsEnd(cells[j]) THEN 1 ELSE 0)
      BY <2>5
    <3>3. EndsUpTo(cells, k)
            = cells[k].frame - cells[1].frame + (IF IsEnd(cells[k]) THEN 1 ELSE 0)
      <4>1. EndsUpTo(cells, j) = cells[k].frame - cells[1].frame
        BY <2>8, <3>1, <3>2
      <4> QED
        BY <2>7, <3>1, <4>1
    <3> QED
      BY <3>3
  <2> QED
    BY <2>1, <2>9
<1> QED
  BY <1>1

(* Cells of one file that are in order hold the frames from the first to   *)
(* the last of them.                                                       *)
LEMMA FramesInOrder ==
  ASSUME NEW cells \in Seq(Cell), Ordered(cells), cells # <<>>, EndsFrame(cells),
         NEW g, \A i \in 1 .. Len(cells) : cells[i].gen = g
  PROVE  /\ Len(FramesOf(cells)) = cells[Len(cells)].frame - cells[1].frame + 1
         /\ \A n \in 1 .. Len(FramesOf(cells)) :
              FramesOf(cells)[n] = [gen |-> g, frame |-> cells[1].frame + n - 1]
<1> DEFINE last == EndsUpTo(cells, Len(cells))
<1>1. Len(cells) \in 1 .. Len(cells) /\ 1 \in 1 .. Len(cells)
  OBVIOUS
<1>2. last = cells[Len(cells)].frame - cells[1].frame + 1
  BY <1>1, EndsInOrder DEF EndsFrame
<1>3. last \in Nat
  BY EndsUpToNext
<1>4. /\ Len(FramesOf(cells)) = last
      /\ \A n \in 1 .. last : FramesOf(cells)[n] = FrameOf(cells[EndOf(cells, n)])
  BY <1>3 DEF FramesOf
<1>5. ASSUME NEW n \in 1 .. last
      PROVE  FrameOf(cells[EndOf(cells, n)]) = [gen |-> g, frame |-> cells[1].frame + n - 1]
  <2> DEFINE i == EndOf(cells, n)
  <2>1. i \in 1 .. Len(cells) /\ IsEnd(cells[i]) /\ EndsUpTo(cells, i) = n
    BY EndOfIsEnd
  <2> HIDE DEF i
  <2>2. n = cells[i].frame - cells[1].frame + 1
    BY <2>1, EndsInOrder
  <2>3. cells[i].frame \in Nat /\ cells[1].frame \in Nat
    <3>1. cells[i] \in Cell /\ cells[1] \in Cell
      BY <1>1, <2>1
    <3> QED
      BY <3>1, CellFields
  <2>4. cells[i].frame = cells[1].frame + n - 1
    BY <2>2, <2>3
  <2>5. FrameOf(cells[i]) = [gen |-> g, frame |-> cells[1].frame + n - 1]
    BY <2>1, <2>4 DEF FrameOf
  <2> QED
    BY <2>5 DEF i
<1> HIDE DEF last
<1> QED
  BY <1>2, <1>4, <1>5

-----------------------------------------------------------------------------
(* The daemon *)

LEMMA Concat ==
  ASSUME NEW S, NEW s \in Seq(S), NEW t \in Seq(S)
  PROVE  /\ s \o t \in Seq(S) /\ Len(s \o t) = Len(s) + Len(t)
         /\ \A i \in 1 .. Len(s) : (s \o t)[i] = s[i]
         /\ \A i \in 1 .. Len(t) : (s \o t)[Len(s) + i] = t[i]
<1>1. /\ s \o t \in Seq(S) /\ Len(s \o t) = Len(s) + Len(t)
      /\ \A i \in 1 .. Len(s) + Len(t) :
           (s \o t)[i] = IF i <= Len(s) THEN s[i] ELSE t[i - Len(s)]
  BY ConcatProperties
<1>2. Len(s) \in Nat /\ Len(t) \in Nat
  OBVIOUS
<1>3. ASSUME NEW i \in 1 .. Len(s) PROVE (s \o t)[i] = s[i]
  BY <1>1, <1>2
<1>4. ASSUME NEW i \in 1 .. Len(t) PROVE (s \o t)[Len(s) + i] = t[i]
  <2>1. Len(s) + i \in 1 .. Len(s) + Len(t) /\ ~(Len(s) + i <= Len(s))
        /\ (Len(s) + i) - Len(s) = i
    BY <1>2
  <2> QED
    BY <1>1, <2>1
<1> QED BY <1>1, <1>3, <1>4

(* A longer file, the same up to where it was.                             *)
LEMMA Longer ==
  ASSUME IInv, file' \in Seq(Cell), Len(file') >= Len(file),
         \A i \in 1 .. Len(file) : file'[i] = file[i],
         UNCHANGED <<gen, clientVars>>
  PROVE  PlaceInv' /\ SeenInOrder' /\ ReadInv' /\ GoesOn'
<1>1. UNCHANGED <<gen, pc, open, truncated, fileSize, offset, zbuf, seen, seenGen, missed>>
  BY DEF clientVars
<1>2. Len(file) \in Nat /\ Len(file') \in Nat /\ offset \in Nat /\ fileSize \in Nat
  BY DEF IInv, TypeOK
<1>3. PlaceInv'
  BY <1>1, <1>2 DEF IInv, PlaceInv
<1>4. SeenInOrder' /\ ReadInv'
  BY <1>1 DEF IInv, SeenInOrder, ReadInv
<1>5. GoesOn'
  <2>1. seenGen = gen /\ offset > 0 => offset \in 1 .. Len(file)
    BY <1>2 DEF IInv, PlaceInv
  <2>2. seenGen = gen /\ pc = "read" => offset + 1 \in 1 .. Len(file)
    BY <1>2 DEF IInv, PlaceInv
  <2> QED
    BY <1>1, <2>1, <2>2 DEF IInv, GoesOn, Sought
<1> QED BY <1>3, <1>4, <1>5

LEMMA CrushInv == ASSUME IInv, Crush PROVE IInv'
<1>1. /\ exists /\ rest = 0 /\ frames' = frames + 1
      /\ UNCHANGED <<exists, gen, pc, open, truncated, fileSize, offset, zbuf, seen,
                     seenGen, missed>>
  BY DEF Crush, clientVars
<1>2. /\ file \in Seq(Cell) /\ frames \in Nat /\ gen \in Nat
      /\ Len(file) \in Nat
  BY DEF IInv, TypeOK
<1>3. PICK size \in Sizes :
        \/ /\ size > 1
           /\ file' = Append(file, CellOf(frames', 1, size)) /\ rest' = size - 1
           /\ event' = event
        \/ /\ file' = file \o [i \in 1 .. size |-> CellOf(frames', i, size)]
           /\ rest' = 0 /\ event' = TRUE
  <2>1. PICK size \in Sizes :
          LET cells == [i \in 1 .. size |-> CellOf(frames', i, size)] IN
          IF Torn /\ size > 1
          THEN file' = Append(file, cells[1]) /\ rest' = size - 1 /\ UNCHANGED event
          ELSE file' = file \o cells /\ rest' = 0 /\ event' = TRUE
    BY DEF Crush
  <2>2. 1 \in 1 .. size
    BY SizesAssumption
  <2> QED
    BY <2>1, <2>2
<1>4. size \in Nat \ {0}
  BY SizesAssumption
(* A write that is torn after its first cell is the case n = 1.            *)
<1> DEFINE cells(n) == [i \in 1 .. n |-> CellOf(frames', i, size)]
<1>5. PICK n \in 1 .. size : file' = file \o cells(n) /\ rest' = size - n
  <2>1. CASE file' = Append(file, CellOf(frames', 1, size)) /\ rest' = size - 1
    <3>1. cells(1) = <<CellOf(frames', 1, size)>>
      OBVIOUS
    <3> HIDE DEF cells
    <3>2. file' = file \o cells(1)
      <4>1. CellOf(frames', 1, size) \in Cell
        BY <1>1, <1>2, <1>4 DEF CellOf, Cell
      <4> QED
        BY <1>2, <2>1, <3>1, <4>1, AppendIsConcat
    <3> QED
      BY <1>4, <2>1, <3>2
  <2>2. CASE file' = file \o cells(size) /\ rest' = 0
    BY <1>4, <2>2
  <2> QED
    BY <1>3, <2>1, <2>2
<1>6. /\ cells(n) \in Seq(Cell) /\ Len(cells(n)) = n /\ n \in Nat /\ rest' \in Nat
      /\ \A i \in 1 .. n : cells(n)[i] = CellOf(frames', i, size)
  <2>1. \A i \in 1 .. n : CellOf(frames', i, size) \in Cell
    BY <1>1, <1>2, <1>4 DEF CellOf, Cell
  <2>2. n \in Nat /\ rest' \in Nat
    BY <1>4, <1>5
  <2> QED
    BY <2>1, <2>2
<1> HIDE DEF cells
<1>7. /\ file' \in Seq(Cell) /\ Len(file') = Len(file) + n
      /\ \A i \in 1 .. Len(file) : file'[i] = file[i]
      /\ \A i \in 1 .. n : file'[Len(file) + i] = CellOf(frames', i, size)
  <2>1. /\ file \o cells(n) \in Seq(Cell)
        /\ Len(file \o cells(n)) = Len(file) + Len(cells(n))
        /\ \A i \in 1 .. Len(file) : (file \o cells(n))[i] = file[i]
        /\ \A i \in 1 .. Len(cells(n)) : (file \o cells(n))[Len(file) + i] = cells(n)[i]
    <3> DEFINE new == cells(n)
    <3>1. file \in Seq(Cell) /\ new \in Seq(Cell)
      BY <1>2, <1>6
    <3> HIDE DEF new
    <3>2. /\ file \o new \in Seq(Cell) /\ Len(file \o new) = Len(file) + Len(new)
          /\ \A i \in 1 .. Len(file) : (file \o new)[i] = file[i]
          /\ \A i \in 1 .. Len(new) : (file \o new)[Len(file) + i] = new[i]
      BY <3>1, Concat
    <3> QED
      BY <3>2 DEF new
  <2> QED
    BY <1>5, <1>6, <2>1
<1>8. TypeOK'
  <2>1. event' \in BOOLEAN
    BY <1>3 DEF IInv, TypeOK
  <2> QED
    BY <1>1, <1>2, <1>6, <1>7, <2>1 DEF IInv, TypeOK
<1>9. FileInv'
  <2>1. \A i \in 1 .. n : /\ file'[Len(file) + i].gen = gen
                          /\ file'[Len(file) + i].frame = frames'
                          /\ file'[Len(file) + i].part = i
                          /\ file'[Len(file) + i].size = size
    <3> TAKE i \in 1 .. n
    <3>1. file'[Len(file) + i] = [gen |-> gen, frame |-> frames', part |-> i, size |-> size]
      BY <1>7 DEF CellOf
    <3> QED
      BY <3>1
  <2>2. \A i \in 1 .. Len(file') : i \in 1 .. Len(file) \/ \E j \in 1 .. n : i = Len(file) + j
    <3>1. ASSUME NEW i \in 1 .. Len(file'), i \notin 1 .. Len(file)
          PROVE  i - Len(file) \in 1 .. n /\ i = Len(file) + (i - Len(file))
      BY <1>2, <1>6, <1>7, <3>1
    <3> QED
      BY <3>1
  <2>3. \A i \in 1 .. Len(file) : file[i].frame \in Nat /\ file[i].frame <= frames
    <3>1. \A i \in 1 .. Len(file) : file[i] \in Cell
      BY <1>2
    <3> QED
      BY <3>1, CellFields DEF IInv, FileInv
  <2>4. \A i \in 1 .. Len(file') :
          file'[i].gen = gen /\ file'[i].part <= file'[i].size /\ file'[i].frame <= frames'
    <3>1. \A i \in 1 .. Len(file) :
            file'[i].gen = gen /\ file'[i].part <= file'[i].size /\ file'[i].frame <= frames'
      <4>1. \A k \in Nat : k <= frames => k <= frames'
        BY <1>1, <1>2
      <4> QED
        BY <1>7, <2>3, <4>1 DEF IInv, FileInv
    <3>2. \A j \in 1 .. n : j <= size
      BY <1>4
    <3>3. frames' <= frames'
      BY <1>1, <1>2
    <3>4. \A j \in 1 .. n : /\ file'[Len(file) + j].gen = gen
                            /\ file'[Len(file) + j].part <= file'[Len(file) + j].size
                            /\ file'[Len(file) + j].frame <= frames'
      BY <2>1, <3>2, <3>3
    <3> QED
      BY <2>2, <3>1, <3>4
  <2>5. file # <<>> => IsEnd(file[Len(file)]) /\ file[Len(file)].frame = frames
                       /\ file[Len(file)].gen = gen /\ Len(file) \in 1 .. Len(file)
    <3>1. ASSUME file # <<>> PROVE Len(file) \in 1 .. Len(file) /\ file[Len(file)] \in Cell
      BY <1>2, <3>1
    <3> QED
      BY <1>1, <3>1, CellFields DEF IInv, FileInv, IsEnd
  <2>6. Ordered(file')
    <3> SUFFICES ASSUME NEW i \in 1 .. Len(file') - 1 PROVE ComesAfter(file'[i], file'[i + 1])
      BY DEF Ordered
    <3>1. CASE i \in 1 .. Len(file) - 1
      <4>1. i \in 1 .. Len(file) /\ i + 1 \in 1 .. Len(file)
        BY <1>2, <3>1
      <4>2. ComesAfter(file[i], file[i + 1])
        BY <3>1 DEF IInv, FileInv, Ordered
      <4> QED
        BY <1>7, <4>1, <4>2
    <3>2. CASE i = Len(file)
      <4>1. file # <<>> /\ i \in 1 .. Len(file)
        BY <1>2, <3>2
      <4>2. 1 \in 1 .. n
        BY <1>6
      <4> QED
        BY <1>1, <1>7, <2>1, <2>5, <3>2, <4>1, <4>2 DEF ComesAfter
    <3>3. CASE i > Len(file)
      <4> DEFINE j == i - Len(file)
      <4>1. i = Len(file) + j /\ i + 1 = Len(file) + (j + 1) /\ j \in 1 .. n /\ j + 1 \in 1 .. n
        BY <1>2, <1>6, <1>7, <3>3
      <4> HIDE DEF j
      <4>2. j # size
        BY <1>4, <4>1
      <4>3. /\ file'[i].gen = gen /\ file'[i].frame = frames'
            /\ file'[i].part = j /\ file'[i].size = size
        BY <2>1, <4>1
      <4>4. /\ file'[i + 1].gen = gen /\ file'[i + 1].frame = frames'
            /\ file'[i + 1].part = j + 1 /\ file'[i + 1].size = size
        BY <2>1, <4>1
      <4> QED
        BY <4>2, <4>3, <4>4 DEF ComesAfter, IsEnd
    <3> QED
      BY <1>2, <1>7, <3>1, <3>2, <3>3
  <2>7. /\ file'[1].part = 1 /\ file'[1].frame = 1
    <3>1. CASE file = <<>>
      <4>1. Len(file) + 1 = 1 /\ 1 \in 1 .. n /\ frames' = 1
        BY <1>1, <1>6, <3>1 DEF IInv, FileInv
      <4> QED
        BY <2>1, <4>1
    <3>2. CASE file # <<>>
      <4>1. 1 \in 1 .. Len(file)
        BY <1>2, <3>2
      <4> QED
        BY <1>7, <3>2, <4>1 DEF IInv, FileInv
    <3> QED
      BY <3>1, <3>2
  <2>8. /\ file'[Len(file')].frame = frames'
        /\ file'[Len(file')].part + rest' = file'[Len(file')].size
    <3>1. n \in 1 .. n
      BY <1>6
    <3>2. n + (size - n) = size
      BY <1>4, <1>6
    <3> QED
      BY <1>5, <1>7, <2>1, <3>1, <3>2
  <2>9. file' # <<>>
    BY <1>2, <1>6, <1>7
  <2> QED
    BY <1>1, <2>4, <2>6, <2>7, <2>8, <2>9 DEF FileInv
<1>10. PlaceInv' /\ SeenInOrder' /\ ReadInv' /\ GoesOn'
  BY <1>1, <1>2, <1>6, <1>7, Longer DEF clientVars
<1> QED BY <1>8, <1>9, <1>10 DEF IInv

LEMMA CrushMoreInv == ASSUME IInv, CrushMore PROVE IInv'
<1> DEFINE last == file[Len(file)]
           cell == [last EXCEPT !.part = @ + 1]
<1>1. /\ rest > 0 /\ rest' = rest - 1 /\ file' = Append(file, cell)
      /\ UNCHANGED <<exists, gen, frames, pc, open, truncated, fileSize, offset, zbuf, seen,
                     seenGen, missed>>
  BY DEF CrushMore, clientVars
<1>2. /\ file \in Seq(Cell) /\ rest \in Nat /\ Len(file) \in Nat
  BY DEF IInv, TypeOK
<1>3. file # <<>>
  BY <1>1, <1>2 DEF IInv, FileInv
<1>4. /\ last \in Cell /\ last.gen = gen /\ last.frame = frames
      /\ last.part + rest = last.size /\ Len(file) \in 1 .. Len(file)
  BY <1>2, <1>3 DEF IInv, FileInv
<1>5. last.part \in Nat \ {0} /\ last.size \in Nat
  BY <1>4, CellFields
<1>6. /\ cell \in Cell /\ cell.gen = gen /\ cell.frame = frames
      /\ cell.part = last.part + 1 /\ cell.size = last.size
  BY <1>4, <1>5 DEF Cell
<1> HIDE DEF last, cell
<1>7. /\ file' \in Seq(Cell) /\ Len(file') = Len(file) + 1
      /\ \A i \in 1 .. Len(file) : file'[i] = file[i]
      /\ file'[Len(file) + 1] = cell
  BY <1>1, <1>2, <1>6
<1>8. TypeOK'
  <2>1. event' \in BOOLEAN
    BY DEF CrushMore, IInv, TypeOK
  <2>2. rest' \in Nat
    BY <1>1, <1>2
  <2> QED
    BY <1>1, <1>7, <2>1, <2>2 DEF IInv, TypeOK
<1>9. FileInv'
  <2>1. \A i \in 1 .. Len(file') : i \in 1 .. Len(file) \/ i = Len(file) + 1
    BY <1>2, <1>7
  <2>2. cell.part <= cell.size /\ cell.frame <= frames
    BY <1>1, <1>2, <1>4, <1>5, <1>6 DEF IInv, TypeOK
  <2>3. \A i \in 1 .. Len(file') :
          file'[i].gen = gen /\ file'[i].part <= file'[i].size /\ file'[i].frame <= frames
    BY <1>6, <1>7, <2>1, <2>2 DEF IInv, FileInv
  <2>4. ComesAfter(last, cell)
    BY <1>1, <1>2, <1>4, <1>5, <1>6 DEF ComesAfter, IsEnd
  <2>5. Ordered(file')
    <3> SUFFICES ASSUME NEW i \in 1 .. Len(file') - 1 PROVE ComesAfter(file'[i], file'[i + 1])
      BY DEF Ordered
    <3>1. CASE i \in 1 .. Len(file) - 1
      <4>1. i \in 1 .. Len(file) /\ i + 1 \in 1 .. Len(file)
        BY <1>2, <3>1
      <4>2. ComesAfter(file[i], file[i + 1])
        BY <3>1 DEF IInv, FileInv, Ordered
      <4> QED
        BY <1>7, <4>1, <4>2
    <3>2. CASE i = Len(file)
      BY <1>4, <1>7, <2>4, <3>2 DEF last
    <3> QED
      BY <1>2, <1>7, <3>1, <3>2
  <2>6. file'[1].part = 1 /\ file'[1].frame = 1
    <3>1. 1 \in 1 .. Len(file)
      BY <1>2, <1>3
    <3> QED
      BY <1>3, <1>7, <3>1 DEF IInv, FileInv
  <2>7. cell.part + rest' = cell.size
    BY <1>1, <1>2, <1>4, <1>5, <1>6
  <2>8. file' # <<>> /\ exists'
    BY <1>1, <1>2, <1>3, <1>7 DEF IInv, FileInv, TypeOK
  <2> QED
    BY <1>1, <1>6, <1>7, <2>3, <2>5, <2>6, <2>7, <2>8 DEF FileInv
<1>10. PlaceInv' /\ SeenInOrder' /\ ReadInv' /\ GoesOn'
  BY <1>1, <1>2, <1>7, Longer DEF clientVars
<1> QED BY <1>8, <1>9, <1>10 DEF IInv

LEMMA OpenLogInv == ASSUME IInv, OpenLog PROVE IInv'
<1>1. /\ exists' = TRUE /\ gen' = gen + 1 /\ file' = <<>> /\ frames' = 0 /\ rest' = 0
      /\ event' = TRUE
      /\ UNCHANGED <<pc, open, truncated, fileSize, offset, zbuf, seen, seenGen, missed>>
  BY DEF OpenLog, clientVars
<1>2. gen \in Nat /\ seenGen \in Nat /\ seenGen <= gen
  BY DEF IInv, TypeOK, PlaceInv
<1>3. seenGen # gen' /\ seenGen <= gen'
  BY <1>1, <1>2
<1>4. file' \in Seq(Cell)
  BY <1>1
<1>5. TypeOK'
  BY <1>1, <1>2, <1>4 DEF IInv, TypeOK
<1>6. FileInv'
  BY <1>1 DEF FileInv, Ordered
<1>7. PlaceInv' /\ GoesOn'
  BY <1>1, <1>3 DEF IInv, PlaceInv, GoesOn
<1>8. SeenInOrder' /\ ReadInv'
  BY <1>1 DEF IInv, SeenInOrder, ReadInv
<1> QED BY <1>5, <1>6, <1>7, <1>8 DEF IInv

LEMMA OtherFileInv == ASSUME IInv, OtherFile PROVE IInv'
<1>1. /\ UNCHANGED <<exists, gen, file, frames, rest>> /\ event' = TRUE
      /\ UNCHANGED <<pc, open, truncated, fileSize, offset, zbuf, seen, seenGen, missed>>
  BY DEF OtherFile, fileVars, clientVars
<1>2. TypeOK'
  BY <1>1 DEF IInv, TypeOK
<1>3. FileInv' /\ PlaceInv' /\ GoesOn'
  BY <1>1 DEF IInv, FileInv, PlaceInv, GoesOn, Sought
<1>4. SeenInOrder' /\ ReadInv'
  BY <1>1 DEF IInv, SeenInOrder, ReadInv
<1> QED BY <1>2, <1>3, <1>4 DEF IInv

-----------------------------------------------------------------------------
(* The client *)

LEMMA StatInv == ASSUME IInv, Stat PROVE IInv'
<1>1. /\ pc = "idle" /\ event' = FALSE
      /\ UNCHANGED <<exists, gen, file, frames, rest, zbuf, seen, seenGen>>
  BY DEF Stat, fileVars
<1>2. zbuf = <<>> /\ ~truncated
  BY <1>1 DEF IInv, TypeOK, PlaceInv
<1>3. CASE ~exists
  <2>1. /\ open' = FALSE /\ fileSize' = 0 /\ offset' = 0
        /\ UNCHANGED <<pc, truncated, missed>>
    BY <1>3 DEF Stat
  <2>2. offset = 0 /\ seen = <<>> /\ Len(file) \in Nat
    BY <1>3 DEF IInv, FileInv, PlaceInv, TypeOK
  <2>3. TypeOK'
    BY <1>1, <1>2, <2>1 DEF IInv, TypeOK
  <2>4. FileInv' /\ GoesOn'
    BY <1>1, <2>1 DEF IInv, FileInv, GoesOn
  <2>5. PlaceInv'
    BY <1>1, <1>2, <2>1, <2>2 DEF IInv, PlaceInv
  <2>6. SeenInOrder' /\ ReadInv'
    BY <1>1, <2>1 DEF IInv, SeenInOrder, ReadInv
  <2> QED BY <2>3, <2>4, <2>5, <2>6 DEF IInv
<1>4. CASE exists
  <2>1. /\ truncated' = (~open \/ Len(file) < fileSize)
        /\ pc' = IF truncated' \/ Len(file) > fileSize THEN "fstat" ELSE "idle"
        /\ (missed => missed') /\ (missed' => missed \/ seenGen # gen)
        /\ missed' \in BOOLEAN
        /\ UNCHANGED <<open, fileSize, offset>>
    BY <1>4 DEF Stat, IInv, TypeOK
  <2>2. Len(file) \in Nat /\ fileSize \in Nat /\ Len(zbuf) = 0
    BY <1>2 DEF IInv, TypeOK
  <2>3. TypeOK'
    BY <1>1, <1>2, <2>1 DEF IInv, TypeOK
  <2>4. FileInv' /\ GoesOn'
    BY <1>1, <1>2, <2>1 DEF IInv, FileInv, GoesOn, Sought
  <2>5. truncated' /\ seenGen = gen => offset = 0
    BY <2>1, <2>2 DEF IInv, PlaceInv
  <2>6. PlaceInv'
    BY <1>1, <1>2, <2>1, <2>5 DEF IInv, PlaceInv
  <2>7. SeenInOrder' /\ ReadInv'
    BY <1>1, <2>1 DEF IInv, SeenInOrder, ReadInv
  <2> QED BY <2>3, <2>4, <2>6, <2>7 DEF IInv
<1> QED BY <1>3, <1>4

(* Where the client goes on from: its offset, or the beginning of a file,  *)
(* and then the last broadcast, inside a frame, if it finds one.           *)
LEMMA FstatCases ==
  ASSUME IInv, Fstat
  PROVE  /\ UNCHANGED <<exists, gen, file, frames, rest, event, zbuf>>
         /\ open' = TRUE /\ truncated' = FALSE /\ fileSize' = Len(file)
         /\ offset' \in Nat
         /\ pc' = IF fileSize' > offset' THEN "read" ELSE "idle"
         /\ \/ /\ truncated \/ offset = 0
               /\ seen' = <<>> /\ seenGen' = gen /\ missed' = FALSE
               /\ offset' > 0 => offset' \in 1 .. Len(file) - 1 /\ file[offset' + 1].part > 1
            \/ /\ ~truncated /\ offset > 0
               /\ UNCHANGED <<offset, seen, seenGen>>
               /\ missed' = (missed \/ seenGen # gen)
<1> DEFINE from == IF truncated THEN 0 ELSE offset
<1>1. /\ pc = "fstat" /\ open' = TRUE /\ truncated' = FALSE /\ fileSize' = Len(file)
      /\ offset' \in IF from = 0 THEN BroadcastOffsets ELSE {from}
      /\ seen' = IF truncated THEN <<>> ELSE seen
      /\ seenGen' = IF from = 0 THEN gen ELSE seenGen
      /\ missed' = (from > 0 /\ (missed \/ seenGen # gen))
      /\ pc' = IF fileSize' > offset' THEN "read" ELSE "idle"
      /\ UNCHANGED <<exists, gen, file, frames, rest, event, zbuf>>
  BY DEF Fstat, fileVars
<1>2. offset \in Nat /\ truncated \in BOOLEAN /\ Len(file) \in Nat
  BY DEF IInv, TypeOK
<1>3. CASE truncated \/ offset = 0
  <2>1. from = 0 /\ ~(from > 0)
    BY <1>3
  <2>2. seen' = <<>>
    BY <1>1, <1>3 DEF IInv, PlaceInv
  <2>3. seenGen' = gen /\ missed' = FALSE /\ offset' \in BroadcastOffsets
    BY <1>1, <2>1
  <2>4. /\ offset' \in Nat
        /\ offset' > 0 => offset' \in 1 .. Len(file) - 1 /\ file[offset' + 1].part > 1
    BY <1>2, <2>3 DEF BroadcastOffsets
  <2> QED BY <1>1, <1>3, <2>2, <2>3, <2>4
<1>4. CASE ~truncated /\ offset > 0
  <2>1. from = offset /\ from # 0 /\ from > 0
    BY <1>2, <1>4
  <2>2. UNCHANGED <<offset, seen, seenGen>> /\ missed' = (missed \/ seenGen # gen)
    BY <1>1, <1>4, <2>1
  <2> QED BY <1>1, <1>2, <1>4, <2>2
<1>5. truncated \/ offset = 0 \/ (~truncated /\ offset > 0)
  BY <1>2
<1> HIDE DEF from
<1> QED BY <1>3, <1>4, <1>5

LEMMA FstatInv == ASSUME IInv, Fstat PROVE IInv'
<1>1. /\ UNCHANGED <<exists, gen, file, frames, rest, event, zbuf>>
      /\ open' = TRUE /\ truncated' = FALSE /\ fileSize' = Len(file)
      /\ offset' \in Nat
      /\ pc' = IF fileSize' > offset' THEN "read" ELSE "idle"
  BY FstatCases
<1>2. pc = "fstat"
  BY DEF Fstat
<1>3. /\ zbuf = <<>> /\ Len(zbuf) = 0 /\ Len(file) \in Nat /\ offset \in Nat
      /\ gen \in Nat /\ seenGen \in Nat /\ seen \in Seq(Frame \cup {Garbage})
      /\ missed \in BOOLEAN
  BY <1>2 DEF IInv, TypeOK
<1>4. pc' \in {"read", "idle"} /\ (pc' = "read" <=> fileSize' > offset')
  BY <1>1
<1>5. TypeOK'
  <2>1. Len(zbuf') <= fileSize' /\ zbuf' = <<>> /\ zbuf' \in Seq(Cell)
    BY <1>1, <1>3
  <2>2. /\ seenGen' = gen \/ seenGen' = seenGen
        /\ missed' = FALSE \/ missed' = (missed \/ seenGen # gen)
        /\ seen' = <<>> \/ seen' = seen
    BY FstatCases
  <2>3. seenGen' \in Nat /\ missed' \in BOOLEAN /\ seen' \in Seq(Frame \cup {Garbage})
    <3>1. <<>> \in Seq(Frame \cup {Garbage})
      OBVIOUS
    <3>2. seen' \in Seq(Frame \cup {Garbage})
      BY <1>3, <2>2, <3>1
    <3>3. missed' \in BOOLEAN
      BY <2>2
    <3> QED
      BY <1>3, <2>2, <3>2, <3>3
  <2> QED
    BY <1>1, <1>3, <1>4, <2>1, <2>3 DEF IInv, TypeOK
<1>6. FileInv'
  <2>1. ASSUME ~exists PROVE offset' = 0
    <3>1. offset = 0 /\ Len(file) = 0
      BY <2>1 DEF IInv, FileInv
    <3> QED
      BY <1>1, <3>1, FstatCases
  <2> QED
    BY <1>1, <2>1 DEF IInv, FileInv
<1>7. ASSUME seen' = <<>>, seenGen' = gen, missed' = FALSE,
             offset' > 0 => offset' \in 1 .. Len(file) - 1 /\ file[offset' + 1].part > 1
      PROVE  PlaceInv' /\ SeenInOrder' /\ GoesOn'
  <2>1. offset' <= Len(file)
    <3>1. offset' > 0 => offset' \in 1 .. Len(file) - 1
      BY ONLY <1>7, Zenon
    <3>2. offset' \in Nat
      BY <1>1
    <3> QED
      BY ONLY <1>3, <3>1, <3>2
  <2>2. PlaceInv'
    BY <1>1, <1>3, <1>4, <1>7, <2>1 DEF PlaceInv
  <2>3. SeenInOrder'
    BY <1>7 DEF SeenInOrder
  <2>4. GoesOn'
    <3>1. offset' > 0 => pc' = "read"
      BY <1>1, <1>3, <1>4, <1>7
    <3> QED
      BY <1>1, <1>3, <1>7, <3>1 DEF GoesOn, Sought
  <2> QED BY <2>2, <2>3, <2>4
<1>8. ASSUME ~truncated, offset > 0, UNCHANGED <<offset, seen, seenGen>>,
             missed' = (missed \/ seenGen # gen)
      PROVE  PlaceInv' /\ SeenInOrder' /\ GoesOn'
  <2>1. seenGen <= gen /\ (missed' => seenGen # gen) /\ (seenGen = gen => offset <= Len(file))
    BY <1>8 DEF IInv, PlaceInv
  <2>2. PlaceInv'
    BY <1>1, <1>3, <1>4, <1>8, <2>1 DEF PlaceInv
  <2>3. SeenInOrder'
    BY <1>1, <1>8 DEF IInv, SeenInOrder
  <2>4. GoesOn'
    BY <1>1, <1>2, <1>3, <1>8 DEF IInv, GoesOn, Sought
  <2> QED BY <2>2, <2>3, <2>4
<1>9. ReadInv'
  BY <1>1, <1>3 DEF ReadInv, Ordered
<1>10. PlaceInv' /\ SeenInOrder' /\ GoesOn'
  BY <1>7, <1>8, FstatCases
<1> QED BY <1>5, <1>6, <1>9, <1>10 DEF IInv

LEMMA ReadStep == ASSUME IInv, Read PROVE IInv'
<1> DEFINE cell == file[offset + 1]
<1>1. /\ pc = "read" /\ offset < Len(file) /\ offset' = offset + 1
      /\ zbuf' = Append(zbuf, cell)
      /\ missed' = (missed \/ seenGen # gen)
      /\ pc' = IF offset' = fileSize THEN "decode" ELSE "read"
      /\ UNCHANGED <<exists, gen, file, frames, rest, event, open, truncated, fileSize, seen,
                     seenGen>>
  BY DEF Read, fileVars
<1>2. /\ file \in Seq(Cell) /\ zbuf \in Seq(Cell) /\ offset \in Nat /\ fileSize \in Nat
      /\ Len(file) \in Nat /\ Len(zbuf) \in Nat /\ Len(zbuf) <= offset /\ offset < fileSize
  BY <1>1 DEF IInv, TypeOK, PlaceInv
<1>3. cell \in Cell /\ offset + 1 \in 1 .. Len(file)
  BY <1>1, <1>2
<1>4. /\ zbuf' \in Seq(Cell) /\ Len(zbuf') = Len(zbuf) + 1 /\ zbuf' # <<>>
      /\ \A i \in 1 .. Len(zbuf) : zbuf'[i] = zbuf[i]
      /\ zbuf'[Len(zbuf) + 1] = cell
  BY <1>1, <1>2, <1>3
<1>5. /\ offset' \in Nat /\ missed' \in BOOLEAN /\ Len(zbuf') <= offset'
      /\ Len(zbuf') <= fileSize /\ offset' <= fileSize /\ offset' <= Len(file) /\ offset' > 0
  BY <1>1, <1>2, <1>4 DEF IInv, TypeOK
<1>6. TypeOK'
  BY <1>1, <1>4, <1>5 DEF IInv, TypeOK
<1>7. FileInv'
  BY <1>1, <1>2, <1>3 DEF IInv, FileInv
<1>8. PlaceInv'
  <2>1. open /\ ~truncated
    BY <1>1 DEF IInv, PlaceInv
  <2>2. /\ pc' = "read" => offset' < fileSize
        /\ pc' = "decode" => offset' = fileSize
        /\ pc' \in {"read", "decode"}
    BY <1>1, <1>2, <1>5
  <2>3. missed' => seenGen # gen
    BY <1>1 DEF IInv, PlaceInv
  <2>4. seenGen <= gen /\ (seenGen = gen => fileSize <= Len(file))
    BY DEF IInv, PlaceInv
  <2> QED
    BY <1>1, <1>4, <1>5, <2>1, <2>2, <2>3, <2>4 DEF PlaceInv
<1>9. GoesOn'
  BY <1>1, <1>4 DEF GoesOn
<1>10. SeenInOrder'
  BY <1>1 DEF IInv, SeenInOrder
<1>11. ReadInv'
  <2> SUFFICES ASSUME ~missed, seenGen = gen PROVE ReadInv'
    BY <1>1 DEF ReadInv
  <2>1. cell.gen = gen /\ cell.part <= cell.size
    BY <1>3 DEF IInv, FileInv
  <2>2. offset > 0 => ComesAfter(file[offset], cell)
    <3>1. offset > 0 => offset \in 1 .. Len(file) - 1
      BY <1>1, <1>2
    <3> QED
      BY <3>1 DEF IInv, FileInv, Ordered
  <2>3. \A i \in 1 .. Len(zbuf') : i \in 1 .. Len(zbuf) \/ i = Len(zbuf) + 1
    BY <1>2, <1>4
  <2>4. \A i \in 1 .. Len(zbuf') : zbuf'[i].gen = seenGen /\ zbuf'[i].part <= zbuf'[i].size
    BY <1>4, <2>1, <2>3 DEF IInv, ReadInv
  <2>5. CASE zbuf = <<>>
    <3>1. Len(zbuf) = 0 /\ Len(zbuf') = 1 /\ zbuf'[1] = cell
      BY <1>4, <2>5
    <3>2. cell.part = 1 => cell.frame = Len(seen) + 1
      <4>1. CASE offset = 0
        <5>1. cell = file[1] /\ file # <<>> /\ Len(seen) = 0
          BY <1>1, <1>2, <4>1 DEF IInv, PlaceInv
        <5> QED
          BY <5>1 DEF IInv, FileInv
      <4>2. CASE offset > 0
        <5>1. cell.part > 1 \/ (IsEnd(file[offset]) /\ file[offset].frame = Len(seen))
          BY <2>5, <4>2 DEF IInv, GoesOn, Sought
        <5> QED
          BY <2>2, <4>2, <5>1 DEF ComesAfter
      <4> QED
        BY <1>2, <4>1, <4>2
    <3> QED
      BY <1>1, <2>4, <3>1, <3>2 DEF ReadInv, Ordered, StartsFrame
  <2>6. CASE zbuf # <<>>
    <3>1. Len(zbuf) \in 1 .. Len(zbuf) /\ 1 \in 1 .. Len(zbuf) /\ offset > 0
      BY <1>2, <2>6
    <3>2. ComesAfter(zbuf[Len(zbuf)], cell)
      BY <2>2, <2>6, <3>1 DEF IInv, GoesOn
    <3>3. Ordered(zbuf')
      <4> SUFFICES ASSUME NEW i \in 1 .. Len(zbuf') - 1
                   PROVE  ComesAfter(zbuf'[i], zbuf'[i + 1])
        BY DEF Ordered
      <4>1. CASE i \in 1 .. Len(zbuf) - 1
        <5>1. i \in 1 .. Len(zbuf) /\ i + 1 \in 1 .. Len(zbuf)
          BY <1>2, <4>1
        <5>2. ComesAfter(zbuf[i], zbuf[i + 1])
          BY <4>1 DEF IInv, ReadInv, Ordered
        <5> QED
          BY <1>4, <5>1, <5>2
      <4>2. CASE i = Len(zbuf)
        BY <1>4, <3>1, <3>2, <4>2
      <4> QED
        BY <1>2, <1>4, <4>1, <4>2
    <3>4. zbuf'[1].part = 1 => zbuf'[1].frame = Len(seen) + 1
      BY <1>4, <2>6, <3>1 DEF IInv, ReadInv, StartsFrame
    <3> QED
      BY <1>1, <2>4, <3>3, <3>4 DEF ReadInv, StartsFrame
  <2> QED
    BY <2>5, <2>6
<1> QED BY <1>6, <1>7, <1>8, <1>9, <1>10, <1>11 DEF IInv

LEMMA ReadEofInv == ASSUME IInv, ReadEof PROVE IInv'
<1>1. /\ pc = "read" /\ offset >= Len(file) /\ zbuf' = <<>> /\ pc' = "idle"
      /\ UNCHANGED <<exists, gen, file, frames, rest, event, open, truncated, fileSize, offset,
                     seen, seenGen, missed>>
  BY DEF ReadEof, fileVars
<1>2. /\ offset \in Nat /\ fileSize \in Nat /\ Len(file) \in Nat /\ offset < fileSize
      /\ zbuf' \in Seq(Cell) /\ Len(zbuf') = 0
  BY <1>1 DEF IInv, TypeOK, PlaceInv
<1>3. seenGen # gen
  BY <1>1, <1>2 DEF IInv, PlaceInv
<1>4. TypeOK'
  BY <1>1, <1>2 DEF IInv, TypeOK
<1>5. FileInv' /\ SeenInOrder'
  BY <1>1 DEF IInv, FileInv, SeenInOrder
<1>6. PlaceInv' /\ GoesOn'
  BY <1>1, <1>2, <1>3 DEF IInv, PlaceInv, GoesOn
<1>7. ReadInv'
  BY <1>1, <1>2 DEF ReadInv, Ordered
<1> QED BY <1>4, <1>5, <1>6, <1>7 DEF IInv

(* Cells in order are such as LZ4F_decompress takes without an error.      *)
LEMMA OrderedUnbroken ==
  ASSUME NEW cells \in Seq(Cell), Ordered(cells)
  PROVE  Unbroken(cells)
<1> SUFFICES ASSUME NEW i \in 1 .. Len(cells) - 1
             PROVE  Continues(cells[i], cells[i + 1])
  BY DEF Unbroken
<1> DEFINE c == cells[i]
           d == cells[i + 1]
<1>1. c \in Cell /\ d \in Cell
  OBVIOUS
<1>2. ComesAfter(c, d)
  BY DEF Ordered
<1> HIDE DEF c, d
<1>3. CASE IsEnd(c)
  BY <1>2, <1>3 DEF ComesAfter, Continues, c, d
<1>4. CASE ~IsEnd(c)
  <2>1. d = [c EXCEPT !.part = @ + 1]
    BY <1>1, <1>2, <1>4 DEF ComesAfter, Cell
  <2>2. Continues(c, d)
    BY <1>4, <2>1 DEF Continues
  <2> QED
    BY <2>2 DEF c, d
<1> QED
  BY <1>3, <1>4 DEF c, d

(* What a client that has passed over no truncation decodes.               *)
LEMMA Decoded ==
  ASSUME IInv, pc = "decode", ~missed, StartsFrame(zbuf), EndsFrame(zbuf)
  PROVE  /\ Len(FramesOf(zbuf)) = zbuf[Len(zbuf)].frame - Len(seen)
         /\ Len(FramesOf(zbuf)) \in Nat \ {0}
         /\ \A n \in 1 .. Len(FramesOf(zbuf)) :
              FramesOf(zbuf)[n] = [gen |-> seenGen, frame |-> Len(seen) + n]
<1>1. zbuf \in Seq(Cell) /\ zbuf # <<>> /\ Len(seen) \in Nat
  BY DEF IInv, TypeOK, PlaceInv
<1>2. /\ \A i \in 1 .. Len(zbuf) : zbuf[i].gen = seenGen
      /\ Ordered(zbuf) /\ zbuf[1].frame = Len(seen) + 1
  BY <1>1 DEF IInv, ReadInv
<1>3. /\ Len(FramesOf(zbuf)) = zbuf[Len(zbuf)].frame - zbuf[1].frame + 1
      /\ \A n \in 1 .. Len(FramesOf(zbuf)) :
           FramesOf(zbuf)[n] = [gen |-> seenGen, frame |-> zbuf[1].frame + n - 1]
  BY <1>1, <1>2, FramesInOrder
<1>4. zbuf[Len(zbuf)].frame \in Nat
  <2>1. zbuf[Len(zbuf)] \in Cell
    BY <1>1
  <2> QED
    BY <2>1, CellFields
<1>5. Len(FramesOf(zbuf)) \in Nat
  BY <1>1, FramesOfType
<1>6. EndsUpTo(zbuf, Len(zbuf)) # 0
  <2> DEFINE j == Len(zbuf) - 1
  <2>1. j \in Nat /\ j + 1 = Len(zbuf)
    BY <1>1
  <2> HIDE DEF j
  <2>2. EndsUpTo(zbuf, j) \in Nat /\ EndsUpTo(zbuf, j + 1) = EndsUpTo(zbuf, j) + 1
    BY <2>1, EndsUpToNext DEF EndsFrame
  <2> QED
    BY <2>1, <2>2
<1>7. Len(FramesOf(zbuf)) # 0
  <2>1. EndsUpTo(zbuf, Len(zbuf)) \in Nat
    BY <1>1, EndsUpToNext
  <2> QED
    BY <1>6, <2>1 DEF FramesOf
<1>8. Len(FramesOf(zbuf)) = zbuf[Len(zbuf)].frame - Len(seen)
  <2>1. Len(FramesOf(zbuf)) = zbuf[Len(zbuf)].frame - (Len(seen) + 1) + 1
    BY <1>2, <1>3
  <2>2. Len(seen) \in Nat
    BY <1>1
  <2> QED
    BY <1>4, <2>1, <2>2
<1>9. \A n \in Nat : zbuf[1].frame + n - 1 = Len(seen) + n
  BY <1>1, <1>2
<1> QED
  BY <1>3, <1>5, <1>7, <1>8, <1>9

LEMMA DecodeInv == ASSUME IInv, Decode PROVE IInv'
<1>1. /\ pc = "decode"
      /\ UNCHANGED <<exists, gen, file, frames, rest, event, open, truncated, fileSize, offset,
                     seenGen, missed>>
  BY DEF Decode, fileVars
<1>2. /\ zbuf \in Seq(Cell) /\ zbuf # <<>> /\ seen \in Seq(Frame \cup {Garbage})
      /\ offset \in Nat /\ Len(zbuf) \in Nat /\ offset = fileSize /\ Len(zbuf) <= offset
      /\ offset # 0 /\ Len(seen) \in Nat
  BY <1>1 DEF IInv, TypeOK, PlaceInv
<1>3. FileInv'
  BY <1>1 DEF IInv, FileInv
<1>4. CASE pc' = "dead" /\ UNCHANGED <<seen, zbuf>>
  <2>1. TypeOK'
    BY <1>1, <1>4 DEF IInv, TypeOK
  <2>2. PlaceInv' /\ GoesOn'
    BY <1>1, <1>4 DEF IInv, PlaceInv, GoesOn
  <2>3. SeenInOrder' /\ ReadInv'
    BY <1>1, <1>4 DEF IInv, SeenInOrder, ReadInv
  <2> QED BY <1>3, <2>1, <2>2, <2>3 DEF IInv
<1>5. CASE zbuf' = <<>> /\ pc' = "idle"
  <2>1. CASE StartsFrame(zbuf) /\ EndsFrame(zbuf) /\ seen' = seen \o FramesOf(zbuf)
    <3> DEFINE new == FramesOf(zbuf)
    <3>1. new \in Seq(Frame) /\ new \in Seq(Frame \cup {Garbage}) /\ Len(new) \in Nat
      <4>1. new \in Seq(Frame)
        BY <1>2, FramesOfType
      <4> HIDE DEF new
      <4> QED
        BY <4>1
    <3> HIDE DEF new
    <3>2. /\ seen' \in Seq(Frame \cup {Garbage}) /\ Len(seen') = Len(seen) + Len(new)
          /\ \A i \in 1 .. Len(seen) : seen'[i] = seen[i]
          /\ \A i \in 1 .. Len(new) : seen'[Len(seen) + i] = new[i]
      BY <1>2, <2>1, <3>1, Concat DEF new
    <3>3. TypeOK'
      BY <1>1, <1>5, <3>2 DEF IInv, TypeOK
    <3>4. PlaceInv'
      BY <1>1, <1>2, <1>5 DEF IInv, PlaceInv
    <3>5. ReadInv'
      BY <1>5 DEF ReadInv, Ordered
    <3>6. ASSUME ~missed
          PROVE  /\ Len(new) = zbuf[Len(zbuf)].frame - Len(seen)
                 /\ \A n \in 1 .. Len(new) :
                      new[n] = [gen |-> seenGen, frame |-> Len(seen) + n]
      BY <1>1, <2>1, <3>6, Decoded DEF new
    <3>7. SeenInOrder'
      <4> SUFFICES ASSUME ~missed, NEW i \in DOMAIN seen'
                   PROVE  seen'[i] = [gen |-> seenGen, frame |-> i]
        BY <1>1 DEF SeenInOrder
      <4>1. CASE i \in 1 .. Len(seen)
        <5>1. i \in DOMAIN seen
          BY <1>2, <4>1
        <5> QED
          BY <3>2, <4>1, <5>1 DEF IInv, SeenInOrder
      <4>2. CASE i \notin 1 .. Len(seen)
        <5> DEFINE n == i - Len(seen)
        <5>1. n \in 1 .. Len(new) /\ i = Len(seen) + n
          BY <1>2, <3>1, <3>2, <4>2
        <5> HIDE DEF n
        <5> QED
          BY <3>2, <3>6, <5>1
      <4> QED
        BY <4>1, <4>2
    <3>8. GoesOn'
      <4> SUFFICES ASSUME seenGen = gen
                   PROVE  IsEnd(file[offset]) /\ file[offset].frame = Len(seen')
        BY <1>1, <1>5 DEF GoesOn
      <4>1. ~missed /\ zbuf[Len(zbuf)] = file[offset]
        BY <1>2 DEF IInv, PlaceInv, GoesOn
      <4>2. zbuf[Len(zbuf)] \in Cell
        BY <1>2
      <4>3. zbuf[Len(zbuf)].frame \in Nat
        BY <4>2, CellFields
      <4>4. Len(new) = zbuf[Len(zbuf)].frame - Len(seen)
        BY <3>6, <4>1
      <4>5. Len(seen') = zbuf[Len(zbuf)].frame
        BY <1>2, <3>1, <3>2, <4>3, <4>4
      <4> QED
        BY <2>1, <4>1, <4>5 DEF EndsFrame
    <3> QED BY <1>3, <3>3, <3>4, <3>5, <3>7, <3>8 DEF IInv
  <2>2. CASE ~Unbroken(zbuf) /\ seen' = Append(seen, Garbage)
    <3>1. missed
      BY <1>2, <2>2, OrderedUnbroken DEF IInv, ReadInv
    <3>2. seenGen # gen
      BY <3>1 DEF IInv, PlaceInv
    <3>3. seen' \in Seq(Frame \cup {Garbage}) /\ zbuf' \in Seq(Cell)
      BY <1>2, <1>5, <2>2
    <3>4. TypeOK'
      BY <1>1, <1>5, <3>3 DEF IInv, TypeOK
    <3>5. PlaceInv' /\ GoesOn'
      BY <1>1, <1>2, <1>5, <3>2 DEF IInv, PlaceInv, GoesOn
    <3>6. SeenInOrder' /\ ReadInv'
      BY <1>1, <3>1 DEF SeenInOrder, ReadInv
    <3> QED BY <1>3, <3>4, <3>5, <3>6 DEF IInv
  <2> QED
    BY <1>5, <2>1, <2>2 DEF Decode
<1> QED
  BY <1>4, <1>5 DEF Decode

-----------------------------------------------------------------------------
LEMMA InitInv == Init => IInv
<1> SUFFICES ASSUME Init PROVE IInv
  OBVIOUS
<1>1. file \in Seq(Cell) /\ zbuf \in Seq(Cell) /\ seen \in Seq(Frame \cup {Garbage})
  BY DEF Init
<1>2. TypeOK
  BY <1>1 DEF Init, TypeOK
<1>3. FileInv
  BY DEF Init, FileInv, Ordered
<1>4. PlaceInv /\ GoesOn
  BY DEF Init, PlaceInv, GoesOn
<1>5. SeenInOrder /\ ReadInv
  BY DEF Init, SeenInOrder, ReadInv, Ordered
<1> QED BY <1>2, <1>3, <1>4, <1>5 DEF IInv

LEMMA NextInv == IInv /\ [Next]_vars => IInv'
<1> SUFFICES ASSUME IInv, [Next]_vars PROVE IInv'
  OBVIOUS
<1>1. CASE Next
  BY <1>1, CrushInv, CrushMoreInv, OpenLogInv, OtherFileInv, StatInv, FstatInv, ReadStep,
     ReadEofInv, DecodeInv DEF Next, ClientStep
<1>2. CASE UNCHANGED vars
  <2>1. UNCHANGED <<exists, gen, file, frames, rest, event, pc, open, truncated, fileSize,
                    offset, zbuf, seen, seenGen, missed>>
    BY <1>2 DEF vars, fileVars, clientVars
  <2>2. TypeOK' /\ FileInv'
    BY <2>1 DEF IInv, TypeOK, FileInv
  <2>3. PlaceInv' /\ GoesOn' /\ SeenInOrder' /\ ReadInv'
    BY <2>1 DEF IInv, PlaceInv, GoesOn, Sought, SeenInOrder, ReadInv
  <2> QED BY <2>2, <2>3 DEF IInv
<1> QED BY <1>1, <1>2

(* The inductive invariant.                                                *)
LEMMA Inductive == Spec => []IInv
  BY InitInv, NextInv, PTL DEF Spec

(* Unless it has passed over a truncation, the client has decoded the      *)
(* frames of one file from the first on, in order, none twice, none left   *)
(* out: for frames of any sizes, however many there are, and wherever a    *)
(* write, a rotation or a restart of the daemon falls, also for a client   *)
(* that goes to the last broadcast of a large log instead of its start.    *)
THEOREM FollowerCorrect == Spec => []FollowerInv
<1>1. IInv => FollowerInv
  BY DEF IInv, FollowerInv
<1> QED BY <1>1, Inductive, PTL

-----------------------------------------------------------------------------
(* Every step of daemon or client is a step of Tail, or changes nothing    *)
(* that Tail speaks of.                                                    *)

LEMMA DaemonFollows ==
  ASSUME IInv, Crush \/ CrushMore \/ OpenLog \/ OtherFile
  PROVE  [T!Next]_(T!vars)
<1>1. UNCHANGED <<seen, seenGen, missed>>
  BY DEF Crush, CrushMore, OpenLog, OtherFile, clientVars
<1>2. frames \in Nat /\ gen \in Nat /\ seenGen \in Nat /\ seenGen <= gen
  BY DEF IInv, TypeOK, PlaceInv
<1>3. CASE Crush
  <2>1. frames' = frames + 1 /\ UNCHANGED gen
    BY <1>3 DEF Crush
  <2>2. T!Grow
    BY <1>1, <1>2, <2>1 DEF T!Grow
  <2> QED
    BY <2>2 DEF T!Next
<1>4. CASE CrushMore \/ OtherFile
  <2>1. UNCHANGED <<frames, gen>>
    BY <1>4 DEF CrushMore, OtherFile, fileVars
  <2> QED
    BY <1>1, <2>1 DEF T!vars
<1>5. CASE OpenLog
  <2>1. frames' = 0 /\ gen' = gen + 1
    BY <1>5 DEF OpenLog
  <2>2. gen' \in Nat /\ gen' > gen
    BY <1>2, <2>1
  <2>3. T!Truncate
    BY <1>1, <2>1, <2>2 DEF T!Truncate
  <2> QED
    BY <2>3 DEF T!Next
<1> QED BY <1>3, <1>4, <1>5

(* A client that passes over a truncation is lost.                         *)
LEMMA LosesPlace ==
  ASSUME IInv, UNCHANGED <<frames, gen, seen, seenGen>>, missed' \in BOOLEAN,
         missed => missed', missed' => missed \/ seenGen # gen
  PROVE  [T!Next]_(T!vars)
<1>1. missed \in BOOLEAN
  BY DEF IInv, TypeOK
<1>2. CASE missed' = missed
  BY <1>2 DEF T!vars
<1>3. CASE missed' # missed
  <2>1. missed' = TRUE /\ seenGen # gen
    BY <1>1, <1>3
  <2>2. T!Lose
    BY <2>1 DEF T!Lose
  <2> QED
    BY <2>2 DEF T!Next
<1> QED BY <1>2, <1>3

LEMMA FstatFollows == ASSUME IInv, Fstat PROVE [T!Next]_(T!vars)
<1>1. UNCHANGED <<gen, frames>> /\ missed \in BOOLEAN
  BY FstatCases DEF IInv, TypeOK
<1>2. CASE (truncated \/ offset = 0) /\ seen' = <<>> /\ seenGen' = gen /\ missed' = FALSE
  <2>1. CASE seenGen # gen
    <3>1. T!Restart
      BY <1>1, <1>2, <2>1 DEF T!Restart
    <3> QED
      BY <3>1 DEF T!Next
  <2>2. CASE seenGen = gen
    <3>1. missed = FALSE /\ seen = <<>>
      BY <1>1, <1>2, <2>2 DEF IInv, PlaceInv
    <3> QED
      BY <1>1, <1>2, <2>2, <3>1 DEF T!vars
  <2> QED BY <2>1, <2>2
<1>3. CASE UNCHANGED <<seen, seenGen>> /\ missed' = (missed \/ seenGen # gen)
  BY <1>1, <1>3, LosesPlace
<1> QED BY <1>2, <1>3, FstatCases

LEMMA DecodeFollows == ASSUME IInv, Decode PROVE [T!Next]_(T!vars)
<1>1. pc = "decode" /\ UNCHANGED <<gen, frames, seenGen, missed, file>>
  BY DEF Decode, fileVars
<1>2. /\ seen \in Seq(Frame \cup {Garbage}) /\ Len(seen) \in Nat /\ missed \in BOOLEAN
      /\ zbuf \in Seq(Cell) /\ frames \in Nat
  BY DEF IInv, TypeOK
<1>3. CASE UNCHANGED seen
  BY <1>1, <1>3 DEF T!vars
<1>4. CASE missed
  <2>1. T!Wander
    BY <1>1, <1>4 DEF T!Wander
  <2> QED
    BY <2>1 DEF T!Next
<1>5. CASE ~missed /\ seen' # seen
  <2>1. Unbroken(zbuf)
    BY <1>2, <1>5, OrderedUnbroken DEF IInv, ReadInv
  <2>2. StartsFrame(zbuf) /\ EndsFrame(zbuf) /\ seen' = seen \o FramesOf(zbuf)
    BY <1>5, <2>1 DEF Decode
  <2> DEFINE new == FramesOf(zbuf)
  <2>3. Len(new) = zbuf[Len(zbuf)].frame - Len(seen) /\ Len(new) \in Nat \ {0}
    BY <1>1, <1>5, <2>2, Decoded
  <2>4. new \in Seq(Frame)
    BY <1>2, FramesOfType
  <2> HIDE DEF new
  <2>5. Len(seen') = Len(seen) + Len(new)
    <3>1. new \in Seq(Frame \cup {Garbage})
      BY <2>4
    <3> QED
      BY <1>2, <2>2, <3>1, Concat DEF new
  <2>6. Len(seen') \in Nat /\ Len(seen') > Len(seen)
    BY <1>2, <2>3, <2>5
  <2>7. seenGen = gen => Len(seen') <= frames
    <3> SUFFICES ASSUME seenGen = gen PROVE Len(seen') <= frames
      OBVIOUS
    <3>1. zbuf # <<>> /\ offset > 0 /\ offset \in 1 .. Len(file)
      BY <1>1, <1>2 DEF IInv, TypeOK, PlaceInv
    <3>2. zbuf[Len(zbuf)] = file[offset] /\ file[offset].frame <= frames
      BY <3>1 DEF IInv, GoesOn, FileInv
    <3>3. zbuf[Len(zbuf)] \in Cell
      BY <1>2, <3>1
    <3>4. zbuf[Len(zbuf)].frame \in Nat
      BY <3>3, CellFields
    <3>5. Len(seen') = zbuf[Len(zbuf)].frame
      BY <1>2, <2>3, <2>5, <3>4
    <3> QED
      BY <3>2, <3>5
  <2>8. seen' = T!Items(Len(seen'))
    <3>1. seen' \in Seq(Frame \cup {Garbage}) /\ SeenInOrder'
      BY DecodeInv DEF IInv, TypeOK
    <3>2. \A i \in DOMAIN seen' : seen'[i] = [gen |-> seenGen, frame |-> i]
      BY <1>1, <1>5, <3>1 DEF SeenInOrder
    <3>3. seen' = [i \in 1 .. Len(seen') |-> seen'[i]] /\ DOMAIN seen' = 1 .. Len(seen')
      BY <3>1
    <3> QED
      BY <3>2, <3>3 DEF T!Items
  <2>9. T!Decode
    BY <1>1, <1>5, <2>6, <2>7, <2>8 DEF T!Decode
  <2> QED
    BY <2>9 DEF T!Next
<1> QED BY <1>3, <1>4, <1>5

LEMMA ClientFollows == ASSUME IInv, ClientStep PROVE [T!Next]_(T!vars)
<1>1. CASE Stat
  <2>1. UNCHANGED <<frames, gen, seen, seenGen>>
    BY <1>1 DEF Stat, fileVars
  <2>2. /\ missed' \in BOOLEAN /\ (missed => missed')
        /\ missed' => missed \/ seenGen # gen
    BY <1>1 DEF Stat, IInv, TypeOK
  <2> QED
    BY <2>1, <2>2, LosesPlace
<1>2. CASE Read
  <2>1. UNCHANGED <<frames, gen, seen, seenGen>> /\ missed' = (missed \/ seenGen # gen)
    BY <1>2 DEF Read, fileVars
  <2> QED
    BY <2>1, LosesPlace
<1>3. CASE ReadEof
  BY <1>3 DEF ReadEof, fileVars, T!vars
<1> QED
  BY <1>1, <1>2, <1>3, FstatFollows, DecodeFollows DEF ClientStep

(* The client follows the file as Tail promises: what it decodes makes     *)
(* what it has the first frames of the file it is at, none of which the    *)
(* file does not hold; it gives them up only for a new file, and can lose  *)
(* its place only to a truncation.                                         *)
THEOREM FollowerImplementsTail == Spec => FollowsTail
<1>1. Init => T!Init
  BY DEF Init, T!Init
<1>2. IInv /\ [Next]_vars => [T!Next]_(T!vars)
  <2> SUFFICES ASSUME IInv, [Next]_vars PROVE [T!Next]_(T!vars)
    OBVIOUS
  <2>1. CASE Next
    BY <2>1, DaemonFollows, ClientFollows DEF Next
  <2>2. CASE UNCHANGED vars
    BY <2>2 DEF vars, fileVars, clientVars, T!vars
  <2> QED BY <2>1, <2>2
<1> QED BY <1>1, <1>2, Inductive, PTL DEF Spec, FollowsTail, T!Spec

-----------------------------------------------------------------------------
(* What the client makes of messages and of blocks: the recursive          *)
(* functions of the model are what they say, and a part of a sequence does *)
(* what it did in the whole.                                               *)

(* Induction over the numbers in a set.                                    *)
LEMMA AllNat ==
  ASSUME NEW S \in SUBSET Nat, 0 \in S, \A n \in Nat : n \in S => n + 1 \in S
  PROVE  S = Nat
<1> DEFINE Bad == Nat \ S
<1>1. Bad = {}
  <2> SUFFICES ASSUME Bad # {} PROVE FALSE
    OBVIOUS
  <2>1. PICK m \in Bad : \A k \in Bad : m <= k
    <3>1. Bad \in SUBSET Nat
      OBVIOUS
    <3> QED
      BY <3>1, LeastNat
  <2>2. m \in Nat /\ m # 0 /\ m - 1 \in Nat /\ (m - 1) + 1 = m /\ ~(m <= m - 1)
    BY <2>1
  <2>3. m - 1 \in S
    BY <2>1, <2>2
  <2> QED
    BY <2>1, <2>2, <2>3
<1> QED
  BY <1>1

(* f is what a list becomes, message by message.                           *)
Chain(f, list, msgs, n) ==
  /\ f = [i \in 0 .. n |-> f[i]]
  /\ f[0] = list
  /\ \A i \in 1 .. n : f[i] = Apply(f[i - 1], msgs[i])

(* There is such a function for each number of messages.                   *)
LEMMA ChainsExist ==
  ASSUME NEW list, NEW msgs, NEW n \in Nat
  PROVE  \E f : Chain(f, list, msgs, n)
<1> DEFINE S == {m \in Nat : \E f : Chain(f, list, msgs, m)}
<1>1. 0 \in S
  <2>1. Chain([i \in 0 .. 0 |-> list], list, msgs, 0)
    BY DEF Chain
  <2> QED
    BY <2>1
<1>2. ASSUME NEW m \in Nat, m \in S PROVE m + 1 \in S
  <2>1. PICK g : Chain(g, list, msgs, m)
    BY <1>2
  <2> DEFINE last == Apply(g[m], msgs[m + 1])
             f == [i \in 0 .. m + 1 |-> IF i = m + 1 THEN last ELSE g[i]]
  <2> HIDE DEF last
  <2>2. /\ f = [i \in 0 .. m + 1 |-> f[i]] /\ f[m + 1] = last
        /\ \A i \in 0 .. m : f[i] = g[i]
    OBVIOUS
  <2> HIDE DEF f
  <2>3. f[0] = list
    BY <2>1, <2>2 DEF Chain
  <2>4. ASSUME NEW i \in 1 .. m + 1
        PROVE  f[i] = Apply(f[i - 1], msgs[i])
    <3>1. CASE i = m + 1
      <4>1. i - 1 = m /\ m \in 0 .. m
        BY <3>1
      <4> QED
        BY <2>2, <3>1, <4>1 DEF last
    <3>2. CASE i # m + 1
      <4>1. i \in 1 .. m /\ i \in 0 .. m /\ i - 1 \in 0 .. m
        BY <3>2
      <4> QED
        BY <2>1, <2>2, <4>1 DEF Chain
    <3> QED
      BY <3>1, <3>2
  <2>5. Chain(f, list, msgs, m + 1)
    BY <2>2, <2>3, <2>4 DEF Chain
  <2> QED
    BY <2>5
<1> HIDE DEF S
<1>3. S = Nat
  <2>1. S \in SUBSET Nat
    BY DEF S
  <2> QED
    BY <1>1, <1>2, <2>1, AllNat
<1> QED
  BY <1>3 DEF S

(* Applied is one.                                                         *)
LEMMA AppliedIs ==
  ASSUME NEW list, NEW B, NEW msgs \in Seq(B)
  PROVE  Chain(Applied(list, msgs), list, msgs, Len(msgs))
<1> DEFINE n == Len(msgs)
           Body(f) == [i \in 0 .. n |->
                         IF i = 0 THEN list ELSE Apply(f[i - 1], msgs[i])]
           upTo == CHOOSE f : f = Body(f)
<1>1. Applied(list, msgs) = upTo
  BY DEF Applied
<1>2. n \in Nat
  OBVIOUS
<1> HIDE DEF n
<1>3. upTo = Body(upTo)
  <2>1. PICK f : Chain(f, list, msgs, n)
    BY <1>2, ChainsExist
  <2>2. f = Body(f)
    <3>1. \A i \in 0 .. n : i # 0 => i \in 1 .. n
      BY <1>2
    <3> QED
      BY <2>1, <3>1 DEF Chain
  <2> QED
    BY <2>2
<1> HIDE DEF upTo
<1>4. Chain(upTo, list, msgs, n)
  <2>1. 0 \in 0 .. n /\ \A i \in 1 .. n : i \in 0 .. n /\ i # 0
    BY <1>2
  <2> QED
    BY <1>3, <2>1 DEF Chain
<1> QED
  BY <1>1, <1>4 DEF n

(* Two chains that are at the same list, and then see the same messages,   *)
(* come to the same list.                                                  *)
ChainsMeet(f, l, s, n, g, k, t, m, i, j, c) ==
  /\ n \in Nat /\ Chain(f, l, s, n) /\ m \in Nat /\ Chain(g, k, t, m)
  /\ i \in Nat /\ j \in Nat /\ c \in Nat /\ i + c <= n /\ j + c <= m
  /\ f[i] = g[j] /\ \A d \in 1 .. c : s[i + d] = t[j + d]

(* Two that meet go on alike while the messages are the same.              *)
LEMMA ChainsAgree ==
  ASSUME NEW f, NEW l, NEW s, NEW n, NEW g, NEW k, NEW t, NEW m, NEW i, NEW j, NEW c,
         ChainsMeet(f, l, s, n, g, k, t, m, i, j, c)
  PROVE  f[i + c] = g[j + c]
<1> USE DEF ChainsMeet
<1> DEFINE S == {e \in Nat : e <= c => f[i + e] = g[j + e]}
<1>1. 0 \in S
  OBVIOUS
<1>2. ASSUME NEW e \in Nat, e \in S PROVE e + 1 \in S
  <2> SUFFICES ASSUME e + 1 <= c PROVE f[i + (e + 1)] = g[j + (e + 1)]
    OBVIOUS
  <2>1. f[i + e] = g[j + e]
    BY <1>2
  <2>2. /\ i + (e + 1) \in 1 .. n /\ (i + (e + 1)) - 1 = i + e
        /\ j + (e + 1) \in 1 .. m /\ (j + (e + 1)) - 1 = j + e /\ e + 1 \in 1 .. c
    OBVIOUS
  <2>3. f[i + (e + 1)] = Apply(f[i + e], s[i + (e + 1)])
    BY <2>2 DEF Chain
  <2>4. g[j + (e + 1)] = Apply(g[j + e], t[j + (e + 1)])
    BY <2>2 DEF Chain
  <2> QED
    BY <2>1, <2>2, <2>3, <2>4 
<1> HIDE DEF S
<1>3. S = Nat
  <2>1. S \in SUBSET Nat
    BY DEF S
  <2> QED
    BY <1>1, <1>2, <2>1, AllNat
<1>4. c \in S /\ c <= c
  BY <1>3
<1> QED
  BY <1>4 DEF S
(* f is what the client has, block by block.                               *)
Course(f, l, blocks, n) ==
  /\ f = [i \in 0 .. n |-> f[i]]
  /\ f[0] = l
  /\ \A i \in 1 .. n : f[i] = After(f[i - 1], blocks[i])

(* There is one for each number of blocks.                                 *)
LEMMA CoursesExist ==
  ASSUME NEW l, NEW blocks, NEW n \in Nat
  PROVE  \E f : Course(f, l, blocks, n)
<1> DEFINE S == {m \in Nat : \E f : Course(f, l, blocks, m)}
<1>1. 0 \in S
  <2>1. Course([i \in 0 .. 0 |-> l], l, blocks, 0)
    BY DEF Course
  <2> QED
    BY <2>1
<1>2. ASSUME NEW m \in Nat, m \in S PROVE m + 1 \in S
  <2>1. PICK g : Course(g, l, blocks, m)
    BY <1>2
  <2> DEFINE last == After(g[m], blocks[m + 1])
             f == [i \in 0 .. m + 1 |-> IF i = m + 1 THEN last ELSE g[i]]
  <2> HIDE DEF last
  <2>2. /\ f = [i \in 0 .. m + 1 |-> f[i]] /\ f[m + 1] = last
        /\ \A i \in 0 .. m : f[i] = g[i]
    OBVIOUS
  <2> HIDE DEF f
  <2>3. f[0] = l
    BY <2>1, <2>2 DEF Course
  <2>4. ASSUME NEW i \in 1 .. m + 1
        PROVE  f[i] = After(f[i - 1], blocks[i])
    <3>1. CASE i = m + 1
      <4>1. i - 1 = m /\ m \in 0 .. m
        BY <3>1
      <4> QED
        BY <2>2, <3>1, <4>1 DEF last
    <3>2. CASE i # m + 1
      <4>1. i \in 1 .. m /\ i \in 0 .. m /\ i - 1 \in 0 .. m
        BY <3>2
      <4> QED
        BY <2>1, <2>2, <4>1 DEF Course
    <3> QED
      BY <3>1, <3>2
  <2>5. Course(f, l, blocks, m + 1)
    BY <2>2, <2>3, <2>4 DEF Course
  <2> QED
    BY <2>5
<1> HIDE DEF S
<1>3. S = Nat
  <2>1. S \in SUBSET Nat
    BY DEF S
  <2> QED
    BY <1>1, <1>2, <2>1, AllNat
<1> QED
  BY <1>3 DEF S

(* Reads is one.                                                           *)
LEMMA ReadsAre ==
  ASSUME NEW l, NEW B, NEW blocks \in Seq(B)
  PROVE  Course(Reads(l, blocks), l, blocks, Len(blocks))
<1> DEFINE n == Len(blocks)
           Body(f) == [i \in 0 .. n |->
                         IF i = 0 THEN l ELSE After(f[i - 1], blocks[i])]
           upTo == CHOOSE f : f = Body(f)
<1>1. Reads(l, blocks) = upTo
  BY DEF Reads
<1>2. n \in Nat
  OBVIOUS
<1> HIDE DEF n
<1>3. upTo = Body(upTo)
  <2>1. PICK f : Course(f, l, blocks, n)
    BY <1>2, CoursesExist
  <2>2. f = Body(f)
    <3>1. \A i \in 0 .. n : i # 0 => i \in 1 .. n
      BY <1>2
    <3> QED
      BY <2>1, <3>1 DEF Course
  <2> QED
    BY <2>2
<1> HIDE DEF upTo
<1>4. Course(upTo, l, blocks, n)
  <2>1. 0 \in 0 .. n /\ \A i \in 1 .. n : i \in 0 .. n /\ i # 0
    BY <1>2
  <2> QED
    BY <1>3, <2>1 DEF Course
<1> QED
  BY <1>1, <1>4 DEF n

(* The same of blocks.                                                     *)
CoursesMeet(f, l, s, n, g, k, t, m, i, j, c) ==
  /\ n \in Nat /\ Course(f, l, s, n) /\ m \in Nat /\ Course(g, k, t, m)
  /\ i \in Nat /\ j \in Nat /\ c \in Nat /\ i + c <= n /\ j + c <= m
  /\ f[i] = g[j] /\ \A d \in 1 .. c : s[i + d] = t[j + d]

(* Two that meet go on alike while the blocks are the same.                *)
LEMMA CoursesAgree ==
  ASSUME NEW f, NEW l, NEW s, NEW n, NEW g, NEW k, NEW t, NEW m, NEW i, NEW j, NEW c,
         CoursesMeet(f, l, s, n, g, k, t, m, i, j, c)
  PROVE  f[i + c] = g[j + c]
<1> USE DEF CoursesMeet
<1> DEFINE S == {e \in Nat : e <= c => f[i + e] = g[j + e]}
<1>1. 0 \in S
  OBVIOUS
<1>2. ASSUME NEW e \in Nat, e \in S PROVE e + 1 \in S
  <2> SUFFICES ASSUME e + 1 <= c PROVE f[i + (e + 1)] = g[j + (e + 1)]
    OBVIOUS
  <2>1. f[i + e] = g[j + e]
    BY <1>2
  <2>2. /\ i + (e + 1) \in 1 .. n /\ (i + (e + 1)) - 1 = i + e
        /\ j + (e + 1) \in 1 .. m /\ (j + (e + 1)) - 1 = j + e /\ e + 1 \in 1 .. c
    OBVIOUS
  <2>3. f[i + (e + 1)] = After(f[i + e], s[i + (e + 1)])
    BY <2>2 DEF Course
  <2>4. g[j + (e + 1)] = After(g[j + e], t[j + (e + 1)])
    BY <2>2 DEF Course
  <2> QED
    BY <2>1, <2>2, <2>3, <2>4 
<1> HIDE DEF S
<1>3. S = Nat
  <2>1. S \in SUBSET Nat
    BY DEF S
  <2> QED
    BY <1>1, <1>2, <2>1, AllNat
<1>4. c \in S /\ c <= c
  BY <1>3
<1> QED
  BY <1>4 DEF S
(* f[i] is what is left of the first i elements.                           *)
Left(f, list, pid, n) ==
  /\ f = [i \in 0 .. n |-> f[i]]
  /\ f[0] = <<>>
  /\ \A i \in 1 .. n : f[i] = IF list[i].pid = pid THEN f[i - 1]
                              ELSE Append(f[i - 1], list[i])

(* There is one for each list.                                             *)
LEMMA LeftExists ==
  ASSUME NEW list, NEW pid, NEW n \in Nat
  PROVE  \E f : Left(f, list, pid, n)
<1> DEFINE S == {m \in Nat : \E f : Left(f, list, pid, m)}
<1>1. 0 \in S
  <2>1. Left([i \in 0 .. 0 |-> <<>>], list, pid, 0)
    BY DEF Left
  <2> QED
    BY <2>1
<1>2. ASSUME NEW m \in Nat, m \in S PROVE m + 1 \in S
  <2>1. PICK g : Left(g, list, pid, m)
    BY <1>2
  <2> DEFINE last == IF list[m + 1].pid = pid THEN g[m] ELSE Append(g[m], list[m + 1])
             f == [i \in 0 .. m + 1 |-> IF i = m + 1 THEN last ELSE g[i]]
  <2> HIDE DEF last
  <2>2. /\ f = [i \in 0 .. m + 1 |-> f[i]] /\ f[m + 1] = last
        /\ \A i \in 0 .. m : f[i] = g[i]
    OBVIOUS
  <2> HIDE DEF f
  <2>3. f[0] = <<>>
    BY <2>1, <2>2 DEF Left
  <2>4. ASSUME NEW i \in 1 .. m + 1
        PROVE  f[i] = IF list[i].pid = pid THEN f[i - 1] ELSE Append(f[i - 1], list[i])
    <3>1. CASE i = m + 1
      <4>1. i - 1 = m /\ m \in 0 .. m
        BY <3>1
      <4> QED
        BY <2>2, <3>1, <4>1 DEF last
    <3>2. CASE i # m + 1
      <4>1. i \in 1 .. m /\ i \in 0 .. m /\ i - 1 \in 0 .. m
        BY <3>2
      <4> QED
        BY <2>1, <2>2, <4>1 DEF Left
    <3> QED
      BY <3>1, <3>2
  <2>5. Left(f, list, pid, m + 1)
    BY <2>2, <2>3, <2>4 DEF Left
  <2> QED
    BY <2>5
<1> HIDE DEF S
<1>3. S = Nat
  <2>1. S \in SUBSET Nat
    BY DEF S
  <2> QED
    BY <1>1, <1>2, <2>1, AllNat
<1> QED
  BY <1>3 DEF S

(* Without is the last of one.                                             *)
LEMMA WithoutIs ==
  ASSUME NEW B, NEW list \in Seq(B), NEW pid
  PROVE  \E f : Left(f, list, pid, Len(list)) /\ Without(list, pid) = f[Len(list)]
<1> DEFINE n == Len(list)
           Body(f) == [i \in 0 .. n |->
                         IF i = 0 THEN <<>>
                         ELSE IF list[i].pid = pid THEN f[i - 1]
                         ELSE Append(f[i - 1], list[i])]
           kept == CHOOSE f : f = Body(f)
<1>1. Without(list, pid) = kept[n]
  BY DEF Without
<1>2. n \in Nat
  OBVIOUS
<1> HIDE DEF n
<1>3. kept = Body(kept)
  <2>1. PICK f : Left(f, list, pid, n)
    BY <1>2, LeftExists
  <2>2. f = Body(f)
    <3>1. \A i \in 0 .. n : i # 0 => i \in 1 .. n
      BY <1>2
    <3> QED
      BY <2>1, <3>1 DEF Left
  <2> QED
    BY <2>2
<1> HIDE DEF kept
<1>4. Left(kept, list, pid, n)
  <2>1. 0 \in 0 .. n /\ \A i \in 1 .. n : i \in 0 .. n /\ i # 0
    BY <1>2
  <2> QED
    BY <1>3, <2>1 DEF Left
<1> QED
  BY <1>1, <1>4 DEF n

-----------------------------------------------------------------------------
(* A list that has each pid once, and what a message makes of it: of the   *)
(* entries of its own pid what the message says, of the others nothing.    *)

Loose == [pid : Pids, start : Int, net : Int]
Single(l) == \A i, j \in DOMAIN l : l[i].pid = l[j].pid => i = j
EntriesOf(l, p) == {l[i] : i \in Of(l, p)}
Told(msg) == [pid |-> msg.pid, start |-> msg.start, net |-> msg.net]
Became(entries, msg) ==
  IF msg.type = "del" THEN {}
  ELSE IF msg.type = "mod" THEN {[e EXCEPT !.net = @ + msg.net] : e \in entries}
  ELSE {Told(msg)}

(* r is l with `entries' for what it had of the pid q.                     *)
Replaced(l, r, q, entries) ==
  /\ r \in Seq(Loose) /\ Single(r)
  /\ EntriesOf(r, q) = entries
  /\ \A p \in Pids : p # q => EntriesOf(r, p) = EntriesOf(l, p)

(* The entries of a pid, by their places.                                  *)
LEMMA EntryIs ==
  ASSUME NEW l \in Seq(Loose), NEW p, NEW e
  PROVE  e \in EntriesOf(l, p) <=> \E i \in 1 .. Len(l) : l[i] = e /\ e.pid = p
BY DEF EntriesOf, Of

(* The first entry of a pid is one of them.                                *)
LEMMA FirstIs ==
  ASSUME NEW l \in Seq(Loose), NEW p, Of(l, p) # {}
  PROVE  First(l, p) \in 1 .. Len(l) /\ l[First(l, p)].pid = p
<1>1. Of(l, p) \in SUBSET Nat /\ DOMAIN l = 1 .. Len(l)
  BY DEF Of
<1>2. \E i \in Of(l, p) : \A j \in Of(l, p) : i <= j
  BY <1>1, LeastNat
<1>3. First(l, p) \in Of(l, p)
  BY <1>2 DEF First
<1> QED
  BY <1>1, <1>3 DEF Of

(* In a list that has each pid once, an entry is all there is of its pid.  *)
LEMMA OneEntry ==
  ASSUME NEW l \in Seq(Loose), Single(l), NEW i \in 1 .. Len(l), NEW p, l[i].pid = p
  PROVE  EntriesOf(l, p) = {l[i]}
<1>1. \A j \in 1 .. Len(l) : l[j].pid = p => j = i
  BY DEF Single
<1> QED
  BY <1>1 DEF EntriesOf, Of

(* An entry of a new pid at the end.                                       *)
LEMMA AppendOne ==
  ASSUME NEW l \in Seq(Loose), Single(l), NEW e \in Loose, EntriesOf(l, e.pid) = {}
  PROVE  Replaced(l, Append(l, e), e.pid, {e})
<1> DEFINE r == Append(l, e)
           n == Len(l)
<1>1. /\ r \in Seq(Loose) /\ Len(r) = n + 1 /\ n \in Nat /\ DOMAIN r = 1 .. n + 1
      /\ \A i \in 1 .. n : r[i] = l[i]
      /\ r[n + 1] = e
  BY AppendProperties
<1>2. \A i \in 1 .. n : l[i].pid # e.pid
  BY EntryIs
<1>3. DOMAIN l = 1 .. n
  OBVIOUS
<1> HIDE DEF r, n
<1>4. \A i \in 1 .. n + 1 : i \in 1 .. n \/ i = n + 1
  BY <1>1
<1>5. Single(r)
  BY <1>1, <1>2, <1>3, <1>4 DEF Single
<1>6. EntriesOf(r, e.pid) = {e}
  <2>1. n + 1 \in 1 .. Len(r) /\ r[n + 1].pid = e.pid
    BY <1>1
  <2> QED
    BY <1>1, <1>5, <2>1, OneEntry
<1>7. ASSUME NEW p \in Pids, p # e.pid
      PROVE  EntriesOf(r, p) = EntriesOf(l, p)
  <2>1. Of(r, p) = Of(l, p)
    <3>1. n + 1 \notin 1 .. n /\ \A i \in 1 .. n : i \in 1 .. n + 1
      BY <1>1
    <3> QED
      BY <1>1, <1>3, <1>4, <1>7, <3>1 DEF Of
  <2>2. \A i \in Of(l, p) : r[i] = l[i]
    BY <1>1, <1>3 DEF Of
  <2> QED
    BY <2>1, <2>2 DEF EntriesOf
<1> QED
  BY <1>1, <1>5, <1>6, <1>7 DEF Replaced, r

(* An entry in the place of another of the same pid.                       *)
LEMMA ReplaceOne ==
  ASSUME NEW l \in Seq(Loose), Single(l), NEW i \in 1 .. Len(l), NEW e \in Loose,
         e.pid = l[i].pid
  PROVE  Replaced(l, [l EXCEPT ![i] = e], e.pid, {e})
<1> DEFINE r == [l EXCEPT ![i] = e]
           n == Len(l)
<1>1. /\ r \in Seq(Loose) /\ Len(r) = n /\ n \in Nat /\ DOMAIN r = 1 .. n
      /\ DOMAIN l = 1 .. n
      /\ \A j \in 1 .. n : r[j] = IF j = i THEN e ELSE l[j]
  BY ExceptSeq
<1>2. i \in 1 .. n
  OBVIOUS
<1> HIDE DEF r, n
<1>3. \A j \in 1 .. n : r[j].pid = l[j].pid
  BY <1>1
<1>4. Single(r)
  BY <1>1, <1>3 DEF Single
<1>5. EntriesOf(r, e.pid) = {e}
  <2>1. r[i] = e /\ i \in 1 .. Len(r)
    BY <1>1, <1>2
  <2> QED
    BY <1>1, <1>4, <2>1, OneEntry
<1>6. ASSUME NEW p \in Pids, p # e.pid
      PROVE  EntriesOf(r, p) = EntriesOf(l, p)
  <2>1. Of(r, p) = Of(l, p)
    BY <1>1, <1>3 DEF Of
  <2>2. \A j \in Of(l, p) : r[j] = l[j]
    BY <1>1, <1>6 DEF Of
  <2> QED
    BY <2>1, <2>2 DEF EntriesOf
<1> QED
  BY <1>1, <1>4, <1>5, <1>6 DEF Replaced, r

(* Put leaves one entry of a pid: the one that was put (MESG_REFRESH).     *)
LEMMA PutEntries ==
  ASSUME NEW l \in Seq(Loose), Single(l), NEW e \in Loose
  PROVE  Replaced(l, Put(l, e), e.pid, {e})
<1>1. CASE Of(l, e.pid) = {}
  <2>1. EntriesOf(l, e.pid) = {}
    BY <1>1 DEF EntriesOf
  <2> QED
    BY <1>1, <2>1, AppendOne DEF Put
<1>2. CASE Of(l, e.pid) # {}
  <2> DEFINE i == First(l, e.pid)
  <2>1. i \in 1 .. Len(l) /\ l[i].pid = e.pid
    BY <1>2, FirstIs
  <2>2. Put(l, e) = [l EXCEPT ![i] = e]
    BY <1>2 DEF Put
  <2> HIDE DEF i
  <2> QED
    BY <2>1, <2>2, ReplaceOne
<1> QED
  BY <1>1, <1>2

(* Without leaves none (MESG_DEL).                                         *)
LEMMA WithoutEntries ==
  ASSUME NEW l \in Seq(Loose), Single(l), NEW q \in Pids
  PROVE  Replaced(l, Without(l, q), q, {})
<1>1. PICK f : Left(f, l, q, Len(l)) /\ Without(l, q) = f[Len(l)]
  BY WithoutIs
<1> DEFINE N == Len(l)
           Upto(n, p) == {l[i] : i \in {j \in 1 .. n : l[j].pid = p}}
           Good(n) == /\ f[n] \in Seq(Loose) /\ Single(f[n])
                      /\ \A p \in Pids : EntriesOf(f[n], p) =
                           IF p = q THEN {} ELSE Upto(n, p)
           S == {n \in Nat : n <= N => Good(n)}
<1>2. N \in Nat /\ DOMAIN l = 1 .. N /\ \A i \in 1 .. N : l[i] \in Loose
  OBVIOUS
<1>3. 0 \in S
  <2>1. f[0] = <<>>
    BY <1>1 DEF Left
  <2>2. Good(0)
    BY <2>1 DEF Single, EntriesOf, Of
  <2> QED
    BY <2>2
<1> HIDE DEF Good
<1>4. ASSUME NEW n \in Nat, n \in S PROVE n + 1 \in S
  <2> HIDE DEF N
  <2> SUFFICES ASSUME n + 1 <= N PROVE Good(n + 1)
    OBVIOUS
  <2>1. Good(n) /\ n + 1 \in 1 .. N /\ (n + 1) - 1 = n /\ l[n + 1] \in Loose
    <3>1. n <= N /\ n + 1 \in 1 .. N /\ (n + 1) - 1 = n
      BY <1>2
    <3> QED
      BY <1>2, <1>4, <3>1
  <2> USE DEF Good
  <2> DEFINE e == l[n + 1]
  <2>2. f[n + 1] = IF e.pid = q THEN f[n] ELSE Append(f[n], e)
    BY <1>1, <2>1 DEF Left, N
  <2>3. \A p \in Pids : Upto(n + 1, p) = Upto(n, p) \cup (IF e.pid = p THEN {e} ELSE {})
    <3>1. \A j \in 1 .. n + 1 : j \in 1 .. n \/ j = n + 1
      OBVIOUS
    <3>2. \A j \in 1 .. n : j \in 1 .. n + 1
      OBVIOUS
    <3>3. n + 1 \in 1 .. n + 1
      OBVIOUS
    <3> QED
      BY <3>1, <3>2, <3>3
  <2>4. \A j \in 1 .. n : l[j].pid # e.pid
    <3>1. \A j \in 1 .. n : j \in 1 .. N /\ j # n + 1
      BY <1>2, <2>1
    <3> QED
      BY <1>2, <2>1, <3>1 DEF Single
  <2>5. CASE e.pid = q
    BY <2>1, <2>2, <2>3, <2>5
  <2>6. CASE e.pid # q
    <3>1. Upto(n, e.pid) = {}
      BY <2>4
    <3>2. e.pid \in Pids /\ e \in Loose
      BY <2>1 DEF Loose
    <3>3. EntriesOf(f[n], e.pid) = {}
      BY <2>1, <2>6, <3>1, <3>2
    <3>4. Replaced(f[n], Append(f[n], e), e.pid, {e})
      <4> HIDE DEF e, Upto
      <4> QED
        BY <2>1, <3>2, <3>3, AppendOne
    <3> HIDE DEF e, Upto
    <3>5. f[n + 1] \in Seq(Loose) /\ Single(f[n + 1])
      BY <2>2, <2>6, <3>4 DEF Replaced
    <3>6. ASSUME NEW p \in Pids
          PROVE  EntriesOf(f[n + 1], p) = IF p = q THEN {} ELSE Upto(n + 1, p)
      <4>1. CASE p = e.pid
        BY <2>2, <2>3, <2>6, <3>1, <3>4, <4>1 DEF Replaced
      <4>2. CASE p # e.pid
        BY <2>1, <2>2, <2>3, <2>6, <3>4, <4>2 DEF Replaced
      <4> QED
        BY <4>1, <4>2
    <3> QED
      BY <3>5, <3>6
  <2> QED
    BY <2>5, <2>6
<1> HIDE DEF S, Good, N
<1>5. S = Nat
  <2>1. S \in SUBSET Nat
    BY DEF S
  <2> QED
    BY <1>3, <1>4, <2>1, AllNat
<1>6. Good(N)
  <2>1. N \in S /\ N <= N
    BY <1>2, <1>5
  <2> QED
    BY <2>1 DEF S
<1>7. \A p \in Pids : Upto(N, p) = EntriesOf(l, p)
  BY <1>2 DEF EntriesOf, Of
<1> QED
  BY <1>1, <1>6, <1>7 DEF Good, N, Replaced

(* Adding to a total leaves the rest of an entry.                          *)
LEMMA AddNet ==
  ASSUME NEW e \in Loose, NEW d \in Int
  PROVE  [e EXCEPT !.net = @ + d] \in Loose /\ [e EXCEPT !.net = @ + d].pid = e.pid
BY DEF Loose

(* Every message does to the entries of its pid what it says, and nothing  *)
(* to the others, if what it adds is not there yet (message_processes).    *)
LEMMA ApplyEntries ==
  ASSUME NEW l \in Seq(Loose), Single(l), NEW msg \in Message,
         msg.type = "add" => EntriesOf(l, msg.pid) = {}
  PROVE  Replaced(l, Apply(l, msg), msg.pid, Became(EntriesOf(l, msg.pid), msg))
<1> USE ProcessesAssumption
<1>1. /\ msg.type \in {"refresh", "add", "mod", "del"} /\ msg.pid \in Pids
      /\ Told(msg) \in Loose /\ Told(msg).pid = msg.pid /\ msg.net \in Int
  BY DEF Message, Told, Loose
<1>2. CASE msg.type = "refresh"
  <2>1. Apply(l, msg) = Put(l, Told(msg)) /\ Became(EntriesOf(l, msg.pid), msg) = {Told(msg)}
    BY <1>2 DEF Apply, Told, Became
  <2> QED
    BY <1>1, <2>1, PutEntries
<1>3. CASE msg.type = "add"
  <2>1. /\ Apply(l, msg) = Append(l, Told(msg))
        /\ Became(EntriesOf(l, msg.pid), msg) = {Told(msg)}
    BY <1>3 DEF Apply, Told, Became
  <2> QED
    BY <1>1, <1>3, <2>1, AppendOne
<1>4. CASE msg.type = "mod"
  <2>1. CASE Of(l, msg.pid) = {}
    <3>1. Apply(l, msg) = l /\ EntriesOf(l, msg.pid) = {}
      BY <1>4, <2>1 DEF Apply, EntriesOf
    <3>2. Became(EntriesOf(l, msg.pid), msg) = {}
      BY <1>4, <3>1 DEF Became
    <3> QED
      BY <3>1, <3>2 DEF Replaced
  <2>2. CASE Of(l, msg.pid) # {}
    <3> DEFINE i == First(l, msg.pid)
               e == [l[i] EXCEPT !.net = @ + msg.net]
    <3>1. i \in 1 .. Len(l) /\ l[i].pid = msg.pid /\ l[i] \in Loose
      BY <2>2, FirstIs
    <3>2. Apply(l, msg) = [l EXCEPT ![i] = e]
      BY <1>4, <2>2 DEF Apply
    <3>3. EntriesOf(l, msg.pid) = {l[i]}
      <4> HIDE DEF i
      <4> QED
        BY <3>1, OneEntry
    <3>4. Became(EntriesOf(l, msg.pid), msg) = {e}
      BY <1>4, <3>3 DEF Became
    <3>5. e \in Loose /\ e.pid = l[i].pid /\ e.pid = msg.pid
      <4> HIDE DEF i
      <4> QED
        BY <1>1, <3>1, AddNet
    <3> HIDE DEF i, e
    <3>6. Replaced(l, [l EXCEPT ![i] = e], e.pid, {e})
      BY <3>1, <3>5, ReplaceOne
    <3> QED
      BY <3>2, <3>4, <3>5, <3>6
  <2> QED
    BY <2>1, <2>2
<1>5. CASE msg.type = "del"
  <2>1. Apply(l, msg) = Without(l, msg.pid) /\ Became(EntriesOf(l, msg.pid), msg) = {}
    BY <1>5 DEF Apply, Became
  <2> QED
    BY <1>1, <2>1, WithoutEntries
<1> QED
  BY <1>1, <1>2, <1>3, <1>4, <1>5

(* A sequence of messages of which each is about a pid of its own.         *)
Spoken(l, r, msgs) ==
  /\ r \in Seq(Loose) /\ Single(r)
  /\ \A p \in Pids :
       (\A i \in 1 .. Len(msgs) : msgs[i].pid # p) => EntriesOf(r, p) = EntriesOf(l, p)
  /\ \A i \in 1 .. Len(msgs) :
       EntriesOf(r, msgs[i].pid) = Became(EntriesOf(l, msgs[i].pid), msgs[i])

Final(l, msgs) == Applied(l, msgs)[Len(msgs)]

(* Messages of pids of their own do, together, what each says.             *)
LEMMA SpokenOnce ==
  ASSUME NEW l \in Seq(Loose), Single(l), NEW msgs \in Seq(Message), Single(msgs),
         \A i \in 1 .. Len(msgs) :
           msgs[i].type = "add" => EntriesOf(l, msgs[i].pid) = {}
  PROVE  Spoken(l, Final(l, msgs), msgs)
<1> DEFINE f == Applied(l, msgs)
           N == Len(msgs)
           Good(n) ==
             /\ f[n] \in Seq(Loose) /\ Single(f[n])
             /\ \A p \in Pids : (\A i \in 1 .. n : msgs[i].pid # p)
                                  => EntriesOf(f[n], p) = EntriesOf(l, p)
             /\ \A i \in 1 .. n :
                  EntriesOf(f[n], msgs[i].pid) = Became(EntriesOf(l, msgs[i].pid), msgs[i])
           S == {n \in Nat : n <= N => Good(n)}
<1>1. Chain(f, l, msgs, N)
  BY AppliedIs
<1>2. /\ N \in Nat /\ DOMAIN msgs = 1 .. N
      /\ \A i \in 1 .. N : msgs[i] \in Message /\ msgs[i].pid \in Pids
  <2>1. N \in Nat /\ DOMAIN msgs = 1 .. N /\ \A i \in 1 .. N : msgs[i] \in Message
    OBVIOUS
  <2>2. \A m \in Message : m.pid \in Pids
    BY DEF Message
  <2> QED
    BY <2>1, <2>2
<1> HIDE DEF f
<1>3. 0 \in S
  <2>1. f[0] = l
    BY <1>1 DEF Chain
  <2>2. Good(0)
    BY <2>1
  <2> QED
    BY <2>2
<1> HIDE DEF Good
<1>4. ASSUME NEW n \in Nat, n \in S PROVE n + 1 \in S
  <2> HIDE DEF N
  <2> SUFFICES ASSUME n + 1 <= N PROVE Good(n + 1)
    OBVIOUS
  <2>1. Good(n) /\ n + 1 \in 1 .. N /\ (n + 1) - 1 = n
    <3>1. n <= N /\ n + 1 \in 1 .. N /\ (n + 1) - 1 = n
      BY <1>2
    <3> QED
      BY <1>4, <3>1
  <2> DEFINE m == msgs[n + 1]
  <2>2. f[n + 1] = Apply(f[n], m)
    BY <1>1, <2>1 DEF Chain
  <2>3. \A i \in 1 .. n : msgs[i].pid # m.pid /\ i \in 1 .. N
    <3>1. \A i \in 1 .. n : i \in 1 .. N /\ i # n + 1
      BY <1>2, <2>1
    <3> QED
      BY <1>2, <2>1, <3>1 DEF Single
  <2>4. m \in Message /\ m.pid \in Pids /\ (m.type = "add" => EntriesOf(l, m.pid) = {})
    BY <1>2, <2>1 DEF N
  <2> HIDE DEF m
  <2>5. EntriesOf(f[n], m.pid) = EntriesOf(l, m.pid)
    BY <2>1, <2>3, <2>4 DEF Good
  <2>6. Replaced(f[n], f[n + 1], m.pid, Became(EntriesOf(l, m.pid), m))
    <3>1. f[n] \in Seq(Loose) /\ Single(f[n])
      BY <2>1 DEF Good
    <3>2. Replaced(f[n], Apply(f[n], m), m.pid, Became(EntriesOf(f[n], m.pid), m))
      BY <2>4, <2>5, <3>1, ApplyEntries
    <3> QED
      BY <2>2, <2>5, <3>2
  <2>7. f[n + 1] \in Seq(Loose) /\ Single(f[n + 1])
    BY <2>6 DEF Replaced
  <2>8. ASSUME NEW p \in Pids, \A i \in 1 .. n + 1 : msgs[i].pid # p
        PROVE  EntriesOf(f[n + 1], p) = EntriesOf(l, p)
    <3>1. p # m.pid /\ \A i \in 1 .. n : msgs[i].pid # p
      BY <2>8 DEF m
    <3> QED
      BY <2>1, <2>6, <3>1 DEF Good, Replaced
  <2>9. ASSUME NEW i \in 1 .. n + 1
        PROVE  EntriesOf(f[n + 1], msgs[i].pid)
                 = Became(EntriesOf(l, msgs[i].pid), msgs[i])
    <3>1. CASE i = n + 1
      BY <2>6, <3>1 DEF Replaced, m
    <3>2. CASE i # n + 1
      <4>1. i \in 1 .. n
        BY <3>2
      <4>2. msgs[i].pid # m.pid /\ msgs[i].pid \in Pids
        BY <1>2, <2>3, <4>1
      <4>3. EntriesOf(f[n], msgs[i].pid) = Became(EntriesOf(l, msgs[i].pid), msgs[i])
        BY <2>1, <4>1 DEF Good
      <4> QED
        BY <2>6, <4>2, <4>3 DEF Replaced
    <3> QED
      BY <3>1, <3>2
  <2> QED
    BY <2>7, <2>8, <2>9 DEF Good
<1> HIDE DEF S, N
<1>5. S = Nat
  <2>1. S \in SUBSET Nat
    BY DEF S
  <2> QED
    BY <1>3, <1>4, <2>1, AllNat
<1>6. Good(N)
  <2>1. N \in S /\ N <= N
    BY <1>2, <1>5
  <2> QED
    BY <2>1 DEF S
<1> QED
  BY <1>6 DEF Good, N, Spoken, Final, f

(* One part after the other.                                               *)
LEMMA FinalOfParts ==
  ASSUME NEW l, NEW a \in Seq(Message), NEW b \in Seq(Message)
  PROVE  a \o b \in Seq(Message) /\ Final(l, a \o b) = Final(Final(l, a), b)
<1> DEFINE ab == a \o b
           n == Len(a)
           m == Len(b)
           mid == Applied(l, a)[n]
<1>1. /\ ab \in Seq(Message) /\ Len(ab) = n + m /\ n \in Nat /\ m \in Nat
      /\ \A i \in 1 .. n + m : ab[i] = IF i <= n THEN a[i] ELSE b[i - n]
  BY ConcatProperties
<1>2. /\ Chain(Applied(l, ab), l, ab, n + m) /\ Chain(Applied(l, a), l, a, n)
      /\ Chain(Applied(mid, b), mid, b, m)
  <2>1. Chain(Applied(l, ab), l, ab, Len(ab))
    <3> HIDE DEF ab
    <3> QED
      BY <1>1, AppliedIs
  <2>2. Chain(Applied(l, a), l, a, n)
    BY AppliedIs
  <2>3. Chain(Applied(mid, b), mid, b, m)
    <3> HIDE DEF mid
    <3> QED
      BY AppliedIs
  <2> QED
    BY <1>1, <2>1, <2>2, <2>3
<1> HIDE DEF ab, n, m, mid
<1>3. Applied(l, ab)[n] = mid
  <2>1. Applied(l, ab)[0 + n] = Applied(l, a)[0 + n]
    <3>1. Applied(l, ab)[0] = Applied(l, a)[0]
      BY <1>2 DEF Chain
    <3>2. \A d \in 1 .. n : ab[0 + d] = a[0 + d]
      BY <1>1
    <3>3. 0 + n <= n + m /\ 0 + n <= n /\ n + m \in Nat /\ n \in Nat /\ 0 \in Nat
      BY <1>1
    <3>4. ChainsMeet(Applied(l, ab), l, ab, n + m, Applied(l, a), l, a, n, 0, 0, n)
      BY <1>2, <3>1, <3>2, <3>3 DEF ChainsMeet
    <3> QED
      BY <3>4, ChainsAgree
  <2> QED
    BY <1>1, <2>1 DEF mid
<1>4. Applied(l, ab)[n + m] = Applied(mid, b)[0 + m]
  <2>1. Applied(l, ab)[n] = Applied(mid, b)[0]
    BY <1>2, <1>3 DEF Chain
  <2>2. \A d \in 1 .. m : ab[n + d] = b[0 + d]
    BY <1>1
  <2>3. n + m <= n + m /\ 0 + m <= m /\ n + m \in Nat /\ m \in Nat /\ n \in Nat /\ 0 \in Nat
    BY <1>1
  <2>4. ChainsMeet(Applied(l, ab), l, ab, n + m, Applied(mid, b), mid, b, m, n, 0, m)
    BY <1>2, <2>1, <2>2, <2>3 DEF ChainsMeet
  <2> QED
    BY <2>4, ChainsAgree
<1>5. 0 + m = m
  BY <1>1
<1> QED
  BY <1>1, <1>4, <1>5 DEF Final, ab, n, m, mid

(* The messages that tell something of a set of processes, in any order.   *)
Says(type, e) == [type |-> type, pid |-> e.pid, start |-> e.start, net |-> e.net]
Items == [pid : Pids, start : 0 .. MaxStarts, net : Int]
OnePerPid(procs) == procs \subseteq Items /\ \A e, g \in procs : e.pid = g.pid => e = g
Order(s, B) ==
  /\ s \in Seq(B)
  /\ \A i, j \in 1 .. Len(s) : s[i] = s[j] => i = j
  /\ \A x \in B : \E i \in 1 .. Len(s) : s[i] = x

(* The sequence of a set has each element once.                            *)
LEMMA SetToSeqIs ==
  ASSUME NEW B, IsFiniteSet(B)
  PROVE  Order(SetToSeq(B), B)
<1> DEFINE n == Cardinality(B)
           s == SetToSeq(B)
<1>1. n \in Nat /\ ExistsBijection(1 .. n, B)
  BY FS_CardinalityType
<1>2. \E f \in [1 .. n -> B] : IsInjective(f)
  BY <1>1 DEF ExistsBijection, Bijection, Injection
<1>3. s \in [1 .. n -> B] /\ IsInjective(s)
  BY <1>2 DEF SetToSeq
<1> HIDE DEF n, s
<1>4. s \in Seq(B) /\ Len(s) = n /\ DOMAIN s = 1 .. n
  BY <1>1, <1>3
<1>5. s \in Surjection(1 .. n, B)
  <2>1. IsFiniteSet(1 .. n) /\ Cardinality(1 .. n) = n
    <3>1. 1 \in Int /\ n \in Int
      BY <1>1
    <3>2. /\ IsFiniteSet(1 .. n)
          /\ Cardinality(1 .. n) = IF 1 > n THEN 0 ELSE n - 1 + 1
      BY <3>1, FS_Interval
    <3> QED
      BY <1>1, <3>2
  <2>2. s \in Injection(1 .. n, B)
    BY <1>3 DEF Injection
  <2> QED
    BY <2>1, <2>2, FS_Injection DEF n
<1>6. \A x \in B : \E i \in 1 .. n : s[i] = x
  BY <1>5 DEF Surjection
<1>7. \A i, j \in 1 .. n : s[i] = s[j] => i = j
  BY <1>3, <1>4 DEF IsInjective
<1> QED
  BY <1>4, <1>6, <1>7 DEF Order, s

(* A message of an entry says just that.                                   *)
LEMMA SaysIs ==
  ASSUME NEW e \in Items, NEW type \in {"refresh", "add", "mod", "del"}
  PROVE  /\ Says(type, e) \in Message /\ Says(type, e).pid = e.pid
         /\ Says(type, e).type = type /\ Told(Says(type, e)) = e
BY DEF Items, Says, Message, Told

Speaks(msgs, type, procs) ==
  /\ msgs \in Seq(Message) /\ Single(msgs)
  /\ \A i \in 1 .. Len(msgs) : \E e \in procs : msgs[i] = Says(type, e)
  /\ \A e \in procs : \E i \in 1 .. Len(msgs) : msgs[i] = Says(type, e)

(* The messages of some entries, one each.                                 *)
LEMMA TellsAre ==
  ASSUME NEW procs, OnePerPid(procs), NEW type \in {"refresh", "add", "mod", "del"}
  PROVE  Speaks(Tells(type, procs), type, procs)
<1> DEFINE B == {Says(type, e) : e \in procs}
           s == Tells(type, procs)
<1>1. s = SetToSeq(B)
  BY DEF Tells, Says
<1>2. ASSUME NEW x \in B
      PROVE  x \in Message /\ x.pid \in Pids
  <2>1. PICK e \in procs : x = Says(type, e)
    OBVIOUS
  <2>2. e \in Items
    BY DEF OnePerPid
  <2> QED
    BY <2>1, <2>2, SaysIs DEF Items
<1>3. ASSUME NEW x \in B, NEW y \in B, x.pid = y.pid
      PROVE  x = y
  <2>1. PICK e \in procs : x = Says(type, e)
    OBVIOUS
  <2>2. PICK g \in procs : y = Says(type, g)
    OBVIOUS
  <2>3. e \in Items /\ g \in Items
    BY DEF OnePerPid
  <2>4. e.pid = g.pid
    BY <1>3, <2>1, <2>2, <2>3, SaysIs
  <2> QED
    BY <2>1, <2>2, <2>4 DEF OnePerPid
<1> HIDE DEF B
<1>4. IsFiniteSet(B)
  <2> DEFINE pidOf == [x \in B |-> x.pid]
  <2>1. pidOf \in Injection(B, Pids)
    BY <1>2, <1>3 DEF Injection, IsInjective
  <2> HIDE DEF pidOf
  <2> QED
    BY <2>1, FS_Injection, ProcessesAssumption
<1>5. Order(s, B)
  BY <1>1, <1>4, SetToSeqIs
<1> HIDE DEF s
<1>6. \A i \in 1 .. Len(s) : s[i] \in B
  BY <1>5 DEF Order
<1>7. s \in Seq(Message)
  <2>1. B \subseteq Message
    BY <1>2
  <2> QED
    BY <1>5, <2>1 DEF Order
<1>8. Single(s)
  <2>1. DOMAIN s = 1 .. Len(s)
    BY <1>7
  <2> QED
    BY <1>3, <1>5, <1>6, <2>1 DEF Order, Single
<1>9. \A i \in 1 .. Len(s) : \E e \in procs : s[i] = Says(type, e)
  BY <1>6 DEF B
<1>10. \A e \in procs : \E i \in 1 .. Len(s) : s[i] = Says(type, e)
  BY <1>5 DEF Order, B
<1> QED
  BY <1>7, <1>8, <1>9, <1>10 DEF s, Speaks

(* What such messages make of a list.                                      *)
Informed(l, r, type, procs) ==
  /\ r \in Seq(Loose) /\ Single(r)
  /\ \A p \in Pids :
       (\A e \in procs : e.pid # p) => EntriesOf(r, p) = EntriesOf(l, p)
  /\ \A e \in procs : EntriesOf(r, e.pid) = Became(EntriesOf(l, e.pid), Says(type, e))

(* A list that was told of some entries has what the messages made of      *)
(* them.                                                                   *)
LEMMA TellsInform ==
  ASSUME NEW l \in Seq(Loose), Single(l), NEW procs, OnePerPid(procs),
         NEW type \in {"refresh", "add", "mod", "del"},
         type = "add" => \A e \in procs : EntriesOf(l, e.pid) = {}
  PROVE  Informed(l, Final(l, Tells(type, procs)), type, procs)
<1> DEFINE msgs == Tells(type, procs)
           r == Final(l, msgs)
<1>1. Speaks(msgs, type, procs)
  BY TellsAre
<1>2. \A e \in procs : Says(type, e).pid = e.pid /\ Says(type, e).type = type
  BY SaysIs DEF OnePerPid
<1> HIDE DEF msgs
<1>3. Spoken(l, r, msgs)
  <2>1. ASSUME NEW i \in 1 .. Len(msgs), msgs[i].type = "add"
        PROVE  EntriesOf(l, msgs[i].pid) = {}
    <3>1. PICK e \in procs : msgs[i] = Says(type, e)
      BY <1>1 DEF Speaks
    <3>2. msgs[i].pid = e.pid /\ type = "add"
      BY <1>2, <2>1, <3>1
    <3> QED
      BY <3>2
  <2>2. msgs \in Seq(Message) /\ Single(msgs)
    BY <1>1 DEF Speaks
  <2> QED
    BY <2>1, <2>2, SpokenOnce
<1> HIDE DEF r
<1>4. ASSUME NEW p \in Pids, \A e \in procs : e.pid # p
      PROVE  EntriesOf(r, p) = EntriesOf(l, p)
  <2>1. \A i \in 1 .. Len(msgs) : msgs[i].pid # p
    BY <1>1, <1>2, <1>4 DEF Speaks
  <2> QED
    BY <1>3, <2>1 DEF Spoken
<1>5. ASSUME NEW e \in procs
      PROVE  EntriesOf(r, e.pid) = Became(EntriesOf(l, e.pid), Says(type, e))
  <2>1. PICK i \in 1 .. Len(msgs) : msgs[i] = Says(type, e)
    BY <1>1 DEF Speaks
  <2>2. msgs[i].pid = e.pid
    BY <1>2, <2>1
  <2>3. EntriesOf(r, msgs[i].pid) = Became(EntriesOf(l, msgs[i].pid), msgs[i])
    BY <1>3 DEF Spoken
  <2> QED
    BY <2>1, <2>2, <2>3
<1>6. r \in Seq(Loose) /\ Single(r)
  BY <1>3 DEF Spoken
<1>7. Informed(l, r, type, procs)
  BY <1>4, <1>5, <1>6 DEF Informed
<1> QED
  BY <1>7 DEF r, msgs

-----------------------------------------------------------------------------
(* A poll: the list that had the old cache has the new one.                *)

Caches == [Pids -> {Gone} \cup Cached]
Shape(cache, p) == IF p \in InCache(cache) THEN {Log(p, cache[p])} ELSE {}
Mirrors(l, cache) ==
  /\ l \in Seq(Loose) /\ Single(l)
  /\ \A p \in Pids : EntriesOf(l, p) = Shape(cache, p)
NewCache(c, dumped) == [p \in Pids |-> Entry(p, c, dumped)]
Records(c, new, broadcast) ==
  (IF broadcast THEN Refresh(c) ELSE <<>>) \o Dels(c) \o Adds(c, new) \o Mods(c, new)

OsTyped == os \in [Pids -> {Gone} \cup Running]

(* A record of a process is not the mark of none.                          *)
LEMMA NotGone ==
  /\ \A e \in Running : e # Gone
  /\ \A e \in Cached : e # Gone /\ e.start \in 1 .. MaxStarts /\ e.raw \in Nat /\ e.net \in Nat
<1>1. \A e \in Running : e.start \in 1 .. MaxStarts
  BY DEF Running
<1>2. \A e \in Cached : e.start \in 1 .. MaxStarts /\ e.raw \in Nat /\ e.net \in Nat
  BY DEF Cached
<1>3. Gone.start = 0 /\ 0 \notin 1 .. MaxStarts
  BY ProcessesAssumption DEF Gone
<1> QED
  BY <1>1, <1>2, <1>3

(* What a process that runs has.                                           *)
LEMMA ListedIs ==
  ASSUME OsTyped, NEW p \in Listed
  PROVE  /\ p \in Pids /\ os[p] # Gone /\ os[p] \in Running
         /\ os[p].start \in 1 .. MaxStarts /\ os[p].raw \in Nat /\ os[p].moved \in Nat
<1>1. p \in Pids /\ os[p] # Gone /\ os[p] \in Running
  BY DEF OsTyped, Listed
<1> QED
  BY <1>1 DEF Running

(* What a process in a cache has.                                          *)
LEMMA CachedIs ==
  ASSUME NEW c \in Caches, NEW p \in Pids
  PROVE  /\ p \in InCache(c) <=> c[p] # Gone
         /\ p \in InCache(c) <=> c[p] \in Cached
         /\ p \in InCache(c) => /\ c[p].start \in 1 .. MaxStarts
                                /\ c[p].raw \in Nat /\ c[p].net \in Nat
<1>1. DOMAIN c = Pids /\ c[p] \in {Gone} \cup Cached
  BY DEF Caches
<1> QED
  BY <1>1, NotGone DEF InCache

(* The same process: it runs, it is in the cache, and it started then.     *)
LEMMA SameIs ==
  ASSUME OsTyped, NEW c \in Caches, NEW p \in Pids
  PROVE  Same(p, c) <=> p \in Listed /\ p \in InCache(c) /\ os[p].start = c[p].start
BY CachedIs DEF Same

(* A total never gets smaller (processes.c:185-211).                       *)
LEMMA CountedIs ==
  ASSUME NEW raw \in Nat, NEW prev \in Cached
  PROVE  Counted(raw, prev) \in Nat /\ prev.net <= Counted(raw, prev)
BY NotGone DEF Counted

(* The new cache has the processes that run, and of those it had before    *)
(* the total that goes on.                                                 *)
LEMMA NewEntry ==
  ASSUME OsTyped, NEW c \in Caches, NEW dumped \in BOOLEAN, NEW p \in Pids
  PROVE  LET w == NewCache(c, dumped) IN
         /\ w \in Caches
         /\ p \in InCache(w) <=> p \in Listed
         /\ p \in Listed => /\ w[p].start = os[p].start /\ w[p].raw = Reported(p, dumped)
                            /\ w[p].net = IF Same(p, c)
                                          THEN Counted(Reported(p, dumped), c[p]) ELSE 0
<1> DEFINE w == NewCache(c, dumped)
<1>1. ASSUME NEW q \in Pids
      PROVE  /\ q \in Listed => /\ Entry(q, c, dumped) \in Cached
                                /\ Entry(q, c, dumped).start = os[q].start
                                /\ Entry(q, c, dumped).raw = Reported(q, dumped)
                                /\ Entry(q, c, dumped).net =
                                     IF Same(q, c)
                                     THEN Counted(Reported(q, dumped), c[q]) ELSE 0
             /\ q \notin Listed => Entry(q, c, dumped) = Gone
  <2>1. CASE q \in Listed
    <3> DEFINE raw == Reported(q, dumped)
               net == IF Same(q, c) THEN Counted(raw, c[q]) ELSE 0
               e == [start |-> os[q].start, raw |-> raw, net |-> net]
    <3>1. Entry(q, c, dumped) = e
      BY <2>1 DEF Entry
    <3>2. os[q].start \in 1 .. MaxStarts /\ os[q].raw \in Nat
      BY <2>1, ListedIs
    <3>3. raw \in Nat
      BY <3>2 DEF Reported
    <3>4. net \in Nat
      <4>1. CASE Same(q, c)
        <5>1. c[q] \in Cached
          BY <4>1, SameIs, CachedIs
        <5> HIDE DEF raw
        <5> QED
          BY <3>3, <4>1, <5>1, CountedIs
      <4>2. CASE ~Same(q, c)
        BY <4>2
      <4> QED
        BY <4>1, <4>2
    <3> HIDE DEF raw, net
    <3>5. e \in Cached
      BY <3>2, <3>3, <3>4 DEF Cached
    <3> QED
      BY <2>1, <3>1, <3>5 DEF raw, net
  <2>2. CASE q \notin Listed
    BY <2>2 DEF Entry
  <2> QED
    BY <2>1, <2>2
<1>2. \A q \in Pids : w[q] = Entry(q, c, dumped)
  BY DEF NewCache
<1>3. w \in Caches
  <2>1. \A q \in Pids : Entry(q, c, dumped) \in {Gone} \cup Cached
    BY <1>1
  <2> QED
    BY <2>1 DEF NewCache, Caches
<1> HIDE DEF w
<1>4. p \in InCache(w) <=> p \in Listed
  <2>1. p \in InCache(w) <=> w[p] # Gone
    BY <1>3, CachedIs
  <2> QED
    BY <1>1, <1>2, <2>1, NotGone
<1>5. p \in Listed => /\ w[p].start = os[p].start /\ w[p].raw = Reported(p, dumped)
                      /\ w[p].net = IF Same(p, c)
                                    THEN Counted(Reported(p, dumped), c[p]) ELSE 0
  BY <1>1, <1>2
<1> QED
  BY <1>3, <1>4, <1>5 DEF w

(* What the messages of one kind make of a list.                           *)
Phase(l, r, type, P, F) ==
  /\ r \in Seq(Loose) /\ Single(r)
  /\ \A p \in Pids : EntriesOf(r, p) =
       IF p \in P THEN Became(EntriesOf(l, p), Says(type, F[p])) ELSE EntriesOf(l, p)

About(P, F) == P \subseteq Pids /\ \A p \in P : F[p] \in Items /\ F[p].pid = p

(* The messages of one kind about some pids, applied to a list.            *)
LEMMA PhaseIs ==
  ASSUME NEW l \in Seq(Loose), Single(l), NEW type \in {"refresh", "add", "mod", "del"},
         NEW P, NEW F, About(P, F),
         type = "add" => \A p \in P : EntriesOf(l, p) = {},
         NEW msgs, msgs = Tells(type, {F[p] : p \in P})
  PROVE  msgs \in Seq(Message) /\ Phase(l, Final(l, msgs), type, P, F)
<1> DEFINE D == {F[p] : p \in P}
           r == Final(l, msgs)
<1>1. /\ OnePerPid(D) /\ \A p \in Pids : p \notin P => \A e \in D : e.pid # p
      /\ \A p \in P : F[p] \in D
  BY DEF OnePerPid, About
<1>2. type = "add" => \A e \in D : EntriesOf(l, e.pid) = {}
  BY DEF About
<1> HIDE DEF D
<1>3. Informed(l, Final(l, Tells(type, D)), type, D)
  BY <1>1, <1>2, TellsInform
<1>4. Informed(l, r, type, D)
  BY <1>3 DEF D
<1>5. Speaks(Tells(type, D), type, D)
  BY <1>1, TellsAre
<1>6. msgs \in Seq(Message)
  BY <1>5 DEF D, Speaks
<1> HIDE DEF r
<1>7. ASSUME NEW p \in Pids
      PROVE  EntriesOf(r, p) =
               IF p \in P THEN Became(EntriesOf(l, p), Says(type, F[p])) ELSE EntriesOf(l, p)
  <2>1. CASE p \in P
    <3>1. F[p] \in D /\ F[p].pid = p
      BY <1>1, <2>1 DEF About
    <3> QED
      BY <1>4, <2>1, <3>1 DEF Informed
  <2>2. CASE p \notin P
    BY <1>1, <1>4, <2>2 DEF Informed
  <2> QED
    BY <2>1, <2>2
<1>8. r \in Seq(Loose) /\ Single(r)
  BY <1>4 DEF Informed
<1> QED
  BY <1>6, <1>7, <1>8 DEF Phase, r

(* What the kinds of message make of the entries of a pid.                 *)
LEMMA BecameIs ==
  ASSUME NEW e \in Items, NEW entries
  PROVE  /\ Became(entries, Says("refresh", e)) = {e}
         /\ Became(entries, Says("add", e)) = {e}
         /\ Became(entries, Says("del", e)) = {}
         /\ Became(entries, Says("mod", e)) = {[x EXCEPT !.net = @ + e.net] : x \in entries}
<1>1. \A type \in {"refresh", "add", "mod", "del"} :
        /\ Says(type, e).type = type /\ Told(Says(type, e)) = e
        /\ Says(type, e).net = e.net
  <2>1. \A type : Says(type, e).net = e.net
    BY DEF Says
  <2> QED
    BY <2>1, SaysIs
<1> QED
  BY <1>1 DEF Became

(* The record of a process is well formed.                                 *)
LEMMA LogTyped ==
  ASSUME NEW p \in Pids, NEW e, e.start \in 0 .. MaxStarts, e.net \in Int
  PROVE  Log(p, e) \in Items /\ Log(p, e).pid = p
BY DEF Log, Items

(* The records of a poll turn the list of the old cache into that of the   *)
(* new one: refreshed if there is a broadcast, without who is gone, with   *)
(* who came, with what moved; a pid that changed hands is taken out before *)
(* it is put in (processes.c:244-389).                                     *)
LEMMA PollMirrors ==
  ASSUME OsTyped, NEW c \in Caches, NEW dumped \in BOOLEAN, NEW broadcast \in BOOLEAN,
         NEW l \in Seq(Loose), Single(l),
         \/ \A p \in Pids : EntriesOf(l, p) = Shape(c, p)
         \/ broadcast /\ \A p \in Pids : EntriesOf(l, p) = {}
  PROVE  LET w == NewCache(c, dumped)
             recs == Records(c, w, broadcast)
         IN recs \in Seq(Message) /\ Mirrors(Final(l, recs), w)
<1> DEFINE w == NewCache(c, dumped)
           P1 == InCache(c)
           P2 == {q \in InCache(c) : ~Same(q, c)}
           P3 == {q \in InCache(w) : ~Same(q, c)}
           P4 == {q \in InCache(w) : Same(q, c) /\ w[q].net # c[q].net}
           F1 == [p \in Pids |-> Log(p, c[p])]
           F2 == [p \in Pids |-> Log(p, [start |-> 0, net |-> 0])]
           F3 == [p \in Pids |-> Log(p, w[p])]
           F4 == [p \in Pids |-> Log(p, [start |-> 0, net |-> w[p].net - c[p].net])]
           m1 == IF broadcast THEN Refresh(c) ELSE <<>>
           m2 == Dels(c)
           m3 == Adds(c, w)
           m4 == Mods(c, w)
           l1 == Final(l, m1)
           l2 == Final(l1, m2)
           l3 == Final(l2, m3)
           l4 == Final(l3, m4)
<1>1. w \in Caches
  <2>1. \E p : p \in Pids
    BY ProcessesAssumption
  <2> QED
    BY <2>1, NewEntry
<1>2. ASSUME NEW p \in Pids
      PROVE  /\ p \in InCache(w) <=> p \in Listed
             /\ p \in InCache(w) => w[p].start \in 1 .. MaxStarts /\ w[p].net \in Nat
             /\ p \in InCache(c) => c[p].start \in 1 .. MaxStarts /\ c[p].net \in Nat
             /\ Same(p, c) => /\ p \in InCache(c) /\ p \in InCache(w)
                              /\ w[p].start = c[p].start
  BY <1>1, NewEntry, CachedIs, SameIs
<1>3. /\ P1 \subseteq Pids /\ P2 \subseteq Pids /\ P3 \subseteq Pids /\ P4 \subseteq Pids
      /\ 0 \in 0 .. MaxStarts
  BY <1>1, ProcessesAssumption DEF Caches, InCache
<1>4. /\ \A p \in P1 : F1[p] \in Items /\ F1[p].pid = p
      /\ \A p \in P2 : F2[p] \in Items /\ F2[p].pid = p
      /\ \A p \in P3 : F3[p] \in Items /\ F3[p].pid = p
      /\ \A p \in P4 : F4[p] \in Items /\ F4[p].pid = p
  <2> HIDE DEF w
  <2>0. 1 .. MaxStarts \subseteq 0 .. MaxStarts
    BY ProcessesAssumption
  <2>1. \A p \in P1 : F1[p] \in Items /\ F1[p].pid = p
    BY <1>2, <1>3, <2>0, LogTyped
  <2>2. \A p \in P2 : F2[p] \in Items /\ F2[p].pid = p
    BY <1>2, <1>3, LogTyped
  <2>3. \A p \in P3 : F3[p] \in Items /\ F3[p].pid = p
    BY <1>2, <1>3, <2>0, LogTyped
  <2>4. ASSUME NEW p \in P4
        PROVE  F4[p] \in Items /\ F4[p].pid = p
    <3>1. p \in Pids /\ w[p].net - c[p].net \in Int
      BY <1>2, <1>3
    <3> QED
      BY <1>3, <3>1, LogTyped
  <2> QED
    BY <2>1, <2>2, <2>3, <2>4
<1>5. /\ Refresh(c) = Tells("refresh", {F1[p] : p \in P1})
      /\ m2 = Tells("del", {F2[p] : p \in P2})
      /\ m3 = Tells("add", {F3[p] : p \in P3})
      /\ m4 = Tells("mod", {F4[p] : p \in P4})
  <2> HIDE DEF w
  <2>1. {Log(p, c[p]) : p \in InCache(c)} = {F1[p] : p \in P1}
    BY <1>3
  <2>2. {Log(p, [start |-> 0, net |-> 0]) : p \in P2} = {F2[p] : p \in P2}
    BY <1>3
  <2>3. {Log(p, w[p]) : p \in P3} = {F3[p] : p \in P3}
    BY <1>3
  <2>4. {Log(p, [start |-> 0, net |-> w[p].net - c[p].net]) : p \in P4} = {F4[p] : p \in P4}
    BY <1>3
  <2> QED
    BY <2>1, <2>2, <2>3, <2>4 DEF Refresh, Dels, Adds, Mods
<1> HIDE DEF w, P1, P2, P3, P4, F1, F2, F3, F4
<1>a. About(P1, F1) /\ About(P2, F2) /\ About(P3, F3) /\ About(P4, F4)
  BY <1>3, <1>4 DEF About
(* After the broadcast.                                                    *)
<1>6. /\ m1 \in Seq(Message) /\ l1 \in Seq(Loose) /\ Single(l1)
      /\ \A p \in Pids : EntriesOf(l1, p) = Shape(c, p)
  <2>1. CASE broadcast
    <3> DEFINE m == Refresh(c)
    <3>1. m \in Seq(Message) /\ Phase(l, Final(l, m), "refresh", P1, F1)
      <4>1. m = Tells("refresh", {F1[p] : p \in P1})
        BY <1>5
      <4>2. "refresh" \in {"refresh", "add", "mod", "del"} /\ "refresh" # "add"
        OBVIOUS
      <4> HIDE DEF m
      <4> QED
        BY <1>a, <4>1, <4>2, PhaseIs
    <3>2. m1 = m
      BY <2>1
    <3> HIDE DEF m, m1
    <3>3. \A p \in P1 : Became(EntriesOf(l, p), Says("refresh", F1[p])) = {F1[p]}
      BY <1>4, BecameIs
    <3>4. \A p \in P1 : Shape(c, p) = {F1[p]}
      BY <1>3 DEF Shape, P1, F1
    <3>5. \A p \in Pids : p \notin P1 => EntriesOf(l, p) = Shape(c, p)
      BY DEF Shape, P1
    <3> QED
      BY <3>1, <3>2, <3>3, <3>4, <3>5 DEF Phase
  <2>2. CASE ~broadcast
    <3>1. m1 = <<>> /\ m1 \in Seq(Message) /\ Len(m1) = 0
      BY <2>2
    <3>2. Chain(Applied(l, m1), l, m1, 0)
      <4> HIDE DEF m1
      <4> QED
        BY <3>1, AppliedIs
    <3>3. l1 = l
      BY <3>1, <3>2 DEF Chain, Final
    <3> QED
      BY <2>2, <3>1, <3>3
  <2> QED
    BY <2>1, <2>2
<1> HIDE DEF m1, m2, m3, m4
(* After who is gone.                                                      *)
<1>7. m2 \in Seq(Message) /\ Phase(l1, l2, "del", P2, F2)
  <2>1. "del" \in {"refresh", "add", "mod", "del"} /\ "del" # "add"
    OBVIOUS
  <2> HIDE DEF l1
  <2> QED
    BY <1>a, <1>5, <1>6, <2>1, PhaseIs
<1> DEFINE Kept(p) == IF Same(p, c) THEN {F1[p]} ELSE {}
<1>8. l2 \in Seq(Loose) /\ Single(l2) /\ \A p \in Pids : EntriesOf(l2, p) = Kept(p)
  <2> HIDE DEF l1, l2
  <2>1. ASSUME NEW p \in Pids
        PROVE  EntriesOf(l2, p) = Kept(p)
    <3>1. CASE p \in P2
      <4>1. ~Same(p, c)
        BY <3>1 DEF P2
      <4>2. Became(EntriesOf(l1, p), Says("del", F2[p])) = {}
        BY <1>4, <3>1, BecameIs
      <4> QED
        BY <1>7, <3>1, <4>1, <4>2 DEF Phase
    <3>2. CASE p \notin P2
      <4>1. EntriesOf(l2, p) = Shape(c, p)
        BY <1>6, <1>7, <3>2 DEF Phase
      <4>2. p \in InCache(c) <=> Same(p, c)
        BY <1>2, <3>2 DEF P2
      <4> QED
        BY <4>1, <4>2 DEF Shape, F1
    <3> QED
      BY <3>1, <3>2
  <2> QED
    BY <1>7, <2>1 DEF Phase
<1> HIDE DEF Kept
(* After who came.                                                         *)
<1>9. m3 \in Seq(Message) /\ Phase(l2, l3, "add", P3, F3)
  <2>1. "add" \in {"refresh", "add", "mod", "del"}
    OBVIOUS
  <2>2. \A p \in P3 : EntriesOf(l2, p) = {}
    <3> HIDE DEF l2
    <3> QED
      BY <1>3, <1>8 DEF P3, Kept
  <2> HIDE DEF l2
  <2> QED
    BY <1>a, <1>5, <1>8, <2>1, <2>2, PhaseIs
<1>10. /\ l3 \in Seq(Loose) /\ Single(l3)
       /\ \A p \in Pids : EntriesOf(l3, p) =
            IF Same(p, c) THEN {F1[p]} ELSE IF p \in InCache(w) THEN {F3[p]} ELSE {}
  <2> HIDE DEF l2, l3
  <2>1. ASSUME NEW p \in Pids
        PROVE  EntriesOf(l3, p) =
            IF Same(p, c) THEN {F1[p]} ELSE IF p \in InCache(w) THEN {F3[p]} ELSE {}
    <3>1. CASE p \in P3
      <4>1. ~Same(p, c) /\ p \in InCache(w)
        BY <3>1 DEF P3
      <4>2. Became(EntriesOf(l2, p), Says("add", F3[p])) = {F3[p]}
        BY <1>4, <3>1, BecameIs
      <4> QED
        BY <1>9, <3>1, <4>1, <4>2 DEF Phase
    <3>2. CASE p \notin P3
      <4>1. EntriesOf(l3, p) = Kept(p)
        BY <1>8, <1>9, <3>2 DEF Phase
      <4>2. p \in InCache(w) => Same(p, c)
        BY <3>2 DEF P3
      <4> QED
        BY <4>1, <4>2 DEF Kept
    <3> QED
      BY <3>1, <3>2
  <2> QED
    BY <1>9, <2>1 DEF Phase
(* After who moved.                                                        *)
<1>11. m4 \in Seq(Message) /\ Phase(l3, l4, "mod", P4, F4)
  <2>1. "mod" \in {"refresh", "add", "mod", "del"} /\ "mod" # "add"
    OBVIOUS
  <2> HIDE DEF l3
  <2> QED
    BY <1>a, <1>5, <1>10, <2>1, PhaseIs
<1>12. Mirrors(l4, w)
  <2> HIDE DEF l3, l4
  <2>1. ASSUME NEW p \in Pids
        PROVE  EntriesOf(l4, p) = Shape(w, p)
    <3>1. CASE Same(p, c)
      <4>1. p \in InCache(c) /\ p \in InCache(w) /\ w[p].start = c[p].start
        BY <1>2, <3>1
      <4>2. EntriesOf(l3, p) = {F1[p]} /\ Shape(w, p) = {Log(p, w[p])}
        BY <1>10, <3>1, <4>1 DEF Shape
      <4>3. F1[p] = Log(p, c[p])
        BY DEF F1
      <4>4. CASE w[p].net = c[p].net
        <5>1. p \notin P4
          BY <4>4 DEF P4
        <5>2. Log(p, c[p]) = Log(p, w[p])
          BY <4>1, <4>4 DEF Log
        <5> QED
          BY <1>11, <4>2, <4>3, <5>1, <5>2 DEF Phase
      <4>5. CASE w[p].net # c[p].net
        <5>1. p \in P4
          BY <3>1, <4>1, <4>5 DEF P4
        <5>2. EntriesOf(l4, p) = {[x EXCEPT !.net = @ + F4[p].net] : x \in {F1[p]}}
          BY <1>4, <1>11, <4>2, <5>1, BecameIs DEF Phase
        <5>3. F4[p].net = w[p].net - c[p].net
          BY DEF F4, Log
        <5>4. [F1[p] EXCEPT !.net = @ + F4[p].net] = Log(p, w[p])
          <6>1. c[p].net \in Nat /\ w[p].net \in Nat
            BY <1>2, <4>1
          <6>2. c[p].net + (w[p].net - c[p].net) = w[p].net
            BY <6>1
          <6> QED
            BY <4>1, <4>3, <5>3, <6>2 DEF Log
        <5> QED
          BY <4>2, <5>2, <5>4
      <4> QED
        BY <4>4, <4>5
    <3>2. CASE ~Same(p, c)
      <4>1. p \notin P4
        BY <3>2 DEF P4
      <4>2. EntriesOf(l4, p) = IF p \in InCache(w) THEN {F3[p]} ELSE {}
        BY <1>10, <1>11, <3>2, <4>1 DEF Phase
      <4> QED
        BY <4>2 DEF Shape, F3
    <3> QED
      BY <3>1, <3>2
  <2> QED
    BY <1>11, <2>1 DEF Phase, Mirrors
<1>13. m1 \o m2 \in Seq(Message) /\ l2 = Final(l, m1 \o m2)
  BY <1>6, <1>7, FinalOfParts
<1>b. l3 = Final(l2, m3) /\ l4 = Final(l3, m4)
  OBVIOUS
<1> DEFINE m12 == m1 \o m2
           m123 == m12 \o m3
<1> HIDE DEF l1, l2, l3, l4, m12
<1>14. m123 \in Seq(Message) /\ l3 = Final(l, m123)
  <2>1. m12 \in Seq(Message) /\ l2 = Final(l, m12)
    BY <1>13 DEF m12
  <2> QED
    BY <1>9, <1>b, <2>1, FinalOfParts
<1> HIDE DEF m123
<1>15. m123 \o m4 \in Seq(Message) /\ l4 = Final(l, m123 \o m4)
  <2>1. m123 \in Seq(Message) /\ m4 \in Seq(Message)
    BY <1>11, <1>14
  <2>2. /\ m123 \o m4 \in Seq(Message)
        /\ Final(l, m123 \o m4) = Final(Final(l, m123), m4)
    BY <2>1, FinalOfParts
  <2> QED
    BY <1>14, <1>b, <2>2
<1>16. Records(c, w, broadcast) = m123 \o m4
  BY DEF Records, m1, m2, m3, m4, m12, m123
<1> QED
  BY <1>12, <1>15, <1>16 DEF w

-----------------------------------------------------------------------------
(* The invariants.                                                         *)

(* What the client will have after each block it has not read is well      *)
(* formed, and after the last of them it is what the monitor has.          *)
ListsInv ==
  /\ \A k \in 0 .. Len(log) : Reads(live, log)[k] \in Lists
  /\ Reads(live, log)[Len(log)].time = now
  /\ Mirrors(Reads(live, log)[Len(log)].list, daemon)
  /\ daemon # NoCache => now > 0

(* Processes are told apart by when they started, and what the monitor     *)
(* would count now was moved.                                              *)
StartsInv ==
  /\ \A p \in Listed : os[p].start <= starts
  /\ \A p, q \in Listed : os[p].start = os[q].start => p = q
  /\ \A p \in InCache(daemon) : daemon[p].start <= starts
MovedInv ==
  "dump" \notin irregular =>
    \A p \in InCache(daemon) :
      Same(p, daemon) => Counted(os[p].raw, daemon[p]) <= os[p].moved

(* All that anyone knows of what a process had moved at some time: the     *)
(* client, in the blocks read and to be read, the history, the window's    *)
(* thread, the messages it sent, the window's cache.                       *)
SeenIn(l) ==
  {[start |-> l.list[i].start, time |-> l.time, net |-> l.list[i].net] :
     i \in DOMAIN l.list}
Blocks == UNION {SeenIn(Reads(live, log)[k]) : k \in 0 .. Len(log)}
Sent ==
  {[start |-> queue[i].proc.start, time |-> queue[i].time, net |-> queue[i].proc.net] :
     i \in DOMAIN queue}
Samples ==
  {[start |-> win.cache[p].start, time |-> win.cache[p].time, net |-> win.cache[p].abs] :
     p \in {q \in Pids : win.cache[q].start # 0}}
Obs == Blocks \cup SeenIn(past.seen) \cup SeenIn(worker.got) \cup Sent \cup Samples

(* A process moved at most a unit in each second between two of these.     *)
Steady(O) ==
  \A a, b \in O : a.start = b.start /\ a.time <= b.time =>
    a.net <= b.net /\ b.net - a.net <= b.time - a.time
(* They are of processes that the monitor has, if they still run.          *)
Known(O) ==
  \A a \in O : /\ a.start \in 1 .. starts /\ a.time \in 1 .. now /\ a.net \in Nat
               /\ \A p \in Listed : os[p].start = a.start =>
                    p \in InCache(daemon) /\ daemon[p].start = a.start
(* What the next poll will count is at most a unit more.                   *)
Slow ==
  \A p \in InCache(daemon) : Same(p, daemon) =>
    Counted(os[p].raw, daemon[p]) <= daemon[p].net + (IF p \in busy THEN 1 ELSE 0)
LowRates == \A p \in Pids : win.cache[p].rate <= 1 /\ win.rows[p].rate <= 1
SteadyInv == irregular = {} => Steady(Obs) /\ Known(Obs) /\ Slow /\ LowRates

ProcessesIInv == ProcessesTyped /\ ListsInv /\ StartsInv /\ MovedInv /\ SteadyInv

(* Why the view is used after it is freed.                                 *)
FreedInv ==
  /\ kind = "list" => win.state = "open" /\ win.start = 0 /\ queue = <<>>
  /\ win.state = "freed" => worker.at \in {"wait", "start", "ended", "look"}
  /\ win.state = "freed" /\ worker.at \in {"wait", "start"} => "gone" \in win.how
  /\ win.state = "freed" /\ worker.at = "look" => {"gone", "late"} \cap win.how # {}
  /\ win.state = "freed" /\ queue # <<>> => {"gone", "late"} \cap win.how # {}
  /\ win.state = "freed" /\ man > 0 => "manual" \in win.how
  /\ win.state # "freed" => misused = {}
  /\ win.gone => win.buttons = {}
  /\ worker.at = "rates" => kind = "list"
  /\ win.state = "new" =>
       worker.at = "ended" /\ queue = <<>> /\ win.rows[Own].start = 0
ViewIInv == FreedInv /\ KeepsToItsProcess /\ MisuseExplained

-----------------------------------------------------------------------------
(* Blocks that are written and blocks that are read.                       *)

(* Before any block the client has what it had.                            *)
LEMMA ReadsFirst ==
  ASSUME NEW l, NEW B, NEW s \in Seq(B)
  PROVE  Reads(l, s)[0] = l
<1>1. Course(Reads(l, s), l, s, Len(s))
  BY ReadsAre
<1> QED
  BY <1>1 DEF Course

(* A block more changes nothing in what is read before it.                 *)
LEMMA ReadsMore ==
  ASSUME NEW l, NEW B, NEW s \in Seq(B), NEW b \in B
  PROVE  /\ \A k \in 0 .. Len(s) : Reads(l, Append(s, b))[k] = Reads(l, s)[k]
         /\ Reads(l, Append(s, b))[Len(s) + 1] = After(Reads(l, s)[Len(s)], b)
<1> DEFINE t == Append(s, b)
           n == Len(s)
           f == Reads(l, t)
           g == Reads(l, s)
<1>1. /\ t \in Seq(B) /\ Len(t) = n + 1 /\ n \in Nat /\ \A i \in 1 .. n : t[i] = s[i]
      /\ t[n + 1] = b
  BY AppendProperties
<1>2. Course(g, l, s, n)
  BY ReadsAre
<1>3. Course(f, l, t, n + 1)
  <2>1. Course(f, l, t, Len(t))
    <3> HIDE DEF t
    <3> QED
      BY <1>1, ReadsAre
  <2> QED
    BY <1>1, <2>1
<1> HIDE DEF t, n, f, g
<1>4. ASSUME NEW k \in 0 .. n PROVE f[k] = g[k]
  <2>1. f[0] = g[0]
    BY <1>2, <1>3 DEF Course
  <2>2. /\ \A d \in 1 .. k : t[0 + d] = s[0 + d]
        /\ k \in Nat /\ 0 + k <= n + 1 /\ 0 + k <= n /\ n + 1 \in Nat /\ 0 \in Nat
        /\ 0 + k = k
    BY <1>1
  <2>3. CoursesMeet(f, l, t, n + 1, g, l, s, n, 0, 0, k)
    BY <1>1, <1>2, <1>3, <2>1, <2>2 DEF CoursesMeet
  <2>4. f[0 + k] = g[0 + k]
    BY <2>3, CoursesAgree
  <2> QED
    BY <2>2, <2>4
<1>5. f[n + 1] = After(g[n], b)
  <2>1. n + 1 \in 1 .. n + 1 /\ (n + 1) - 1 = n /\ n \in 0 .. n
    BY <1>1
  <2>2. f[n + 1] = After(f[n], t[n + 1])
    BY <1>3, <2>1 DEF Course
  <2> QED
    BY <1>1, <1>4, <2>1, <2>2
<1> QED
  BY <1>4, <1>5 DEF t, n, f, g

(* The blocks after the first n, read from where these lead, lead where    *)
(* all of them do.                                                         *)
LEMMA ReadsRest ==
  ASSUME NEW l, NEW B, NEW s \in Seq(B), NEW n \in 0 .. Len(s)
  PROVE  LET t == SubSeq(s, n + 1, Len(s)) IN
         /\ t \in Seq(B) /\ Len(t) = Len(s) - n
         /\ \A k \in 0 .. Len(s) - n :
              Reads(Reads(l, s)[n], t)[k] = Reads(l, s)[n + k]
<1> DEFINE t == SubSeq(s, n + 1, Len(s))
           N == Len(s)
           g == Reads(l, s)
           f == Reads(g[n], t)
<1>1. N \in Nat /\ n \in Nat /\ n <= N
  OBVIOUS
<1>2. t \in Seq(B) /\ Len(t) = N - n /\ \A i \in 1 .. N - n : t[i] = s[n + i]
  <2>1. \A i \in n + 1 .. N : s[i] \in B
    BY <1>1
  <2>2. n + 1 \in Int /\ N \in Int
    BY <1>1
  <2> HIDE DEF N
  <2> DEFINE u == SubSeq(s, n + 1, N)
  <2>3. /\ u \in Seq(B) /\ Len(u) = IF n + 1 <= N THEN N - (n + 1) + 1 ELSE 0
        /\ \A i \in 1 .. N - (n + 1) + 1 : u[i] = s[(n + 1) + i - 1]
    BY <2>1, <2>2, SubSeqProperties
  <2> HIDE DEF u
  <2>4. Len(u) = N - n
    BY <1>1, <2>3
  <2>5. \A i \in 1 .. N - n : u[i] = s[n + i]
    <3>1. N - (n + 1) + 1 = N - n /\ \A i \in 1 .. N - n : (n + 1) + i - 1 = n + i
      BY <1>1
    <3> QED
      BY <2>3, <3>1
  <2> QED
    BY <2>3, <2>4, <2>5 DEF u, N
<1>3. Course(g, l, s, N)
  BY ReadsAre
<1>4. Course(f, g[n], t, N - n)
  <2>1. Course(f, g[n], t, Len(t))
    <3> HIDE DEF t, g
    <3> QED
      BY <1>2, ReadsAre
  <2> QED
    BY <1>2, <2>1
<1> HIDE DEF t, N, g, f
<1>5. ASSUME NEW k \in 0 .. N - n PROVE f[k] = g[n + k]
  <2>1. f[0] = g[n]
    BY <1>4 DEF Course
  <2>2. /\ \A d \in 1 .. k : t[0 + d] = s[n + d]
        /\ k \in Nat /\ 0 + k <= N - n /\ n + k <= N /\ N - n \in Nat /\ 0 \in Nat
        /\ 0 + k = k
    BY <1>1, <1>2
  <2>3. CoursesMeet(f, g[n], t, N - n, g, l, s, N, 0, n, k)
    BY <1>1, <1>3, <1>4, <2>1, <2>2 DEF CoursesMeet
  <2>4. f[0 + k] = g[n + k]
    BY <2>3, CoursesAgree
  <2> QED
    BY <2>2, <2>4
<1> QED
  BY <1>2, <1>5 DEF t, N, g, f

-----------------------------------------------------------------------------
(* What a step leaves alone.                                               *)

(* The lists depend on the blocks and the cache.                           *)
LEMMA KeepLists ==
  ASSUME ListsInv, UNCHANGED <<live, log, daemon, now>>
  PROVE  ListsInv'
BY DEF ListsInv, Mirrors, Shape, InCache, Lists, Loose

(* When processes started depends on the system and the cache.             *)
LEMMA KeepStarts ==
  ASSUME StartsInv, UNCHANGED <<os, starts, daemon>>
  PROVE  StartsInv'
BY DEF StartsInv, Listed, InCache

(* What is counted depends on the system and the cache.                    *)
LEMMA KeepMoved ==
  ASSUME MovedInv, UNCHANGED <<os, daemon>>, irregular \subseteq irregular'
  PROVE  MovedInv'
BY DEF MovedInv, InCache, Same, Listed, Counted

(* Rates stay low where nothing new is known.                              *)
LEMMA KeepSteady ==
  ASSUME SteadyInv, UNCHANGED <<os, starts, busy, daemon, now>>,
         irregular \subseteq irregular',
         irregular' = {} => Obs' \subseteq Obs /\ LowRates'
  PROVE  SteadyInv'
<1> SUFFICES ASSUME irregular' = {}
             PROVE  Steady(Obs)' /\ Known(Obs)' /\ Slow' /\ LowRates'
  BY DEF SteadyInv
<1>1. Steady(Obs) /\ Known(Obs) /\ Slow /\ Obs' \subseteq Obs /\ LowRates'
  BY DEF SteadyInv
<1>2. Slow'
  BY <1>1 DEF Slow, InCache, Same, Listed, Counted
<1> HIDE DEF Obs
<1>3. Steady(Obs)'
  BY <1>1 DEF Steady
<1>4. Known(Obs)'
  BY <1>1 DEF Known, Listed, InCache
<1> QED
  BY <1>1, <1>2, <1>3, <1>4

(* What is known depends on who keeps it.                                  *)
LEMMA KeepObs ==
  ASSUME UNCHANGED <<live, log, queue>>, past.seen' = past.seen,
         worker.got' = worker.got, win.cache' = win.cache
  PROVE  Obs' = Obs
BY DEF Obs, Blocks, SeenIn, Sent, Samples

(* What a sample is of.                                                    *)
LEMMA SeenIs ==
  ASSUME NEW l \in Lists, NEW i \in DOMAIN l.list
  PROVE  /\ l.list[i] \in Process /\ l.time \in 0 .. MaxTime
         /\ [start |-> l.list[i].start, time |-> l.time, net |-> l.list[i].net] \in SeenIn(l)
<1>1. l.list \in Seq(Process) /\ l.time \in 0 .. MaxTime
  BY DEF Lists
<1> QED
  BY <1>1 DEF SeenIn

(* The first entry of a pid in a list of processes.                        *)
LEMMA FirstOf ==
  ASSUME NEW l \in Seq(Process), NEW p, Of(l, p) # {}
  PROVE  First(l, p) \in DOMAIN l /\ l[First(l, p)].pid = p
<1>1. Process \subseteq Loose
  <2>1. 1 .. MaxStarts \subseteq Int /\ Nat \subseteq Int
    OBVIOUS
  <2> QED
    BY <2>1 DEF Process, Loose
<1>2. l \in Seq(Loose)
  BY <1>1
<1> QED
  BY <1>2, FirstIs

(* No list is a list, and tells nothing.                                   *)
LEMMA NoListIs == NoList \in Lists /\ SeenIn(NoList) = {}
<1>1. NoList \in Lists
  BY ProcessesAssumption DEF NoList, Lists
<1>2. NoList.list = <<>>
  BY DEF NoList
<1> QED
  BY <1>1, <1>2 DEF SeenIn

(* What the engine shows is a list, and is known.                          *)
LEMMA ShownIs ==
  ASSUME ProcessesTyped, ListsInv
  PROVE  Shown \in Lists /\ SeenIn(Shown) \subseteq Obs /\ SeenIn(live) \subseteq Obs
<1>1. live \in Lists /\ past.seen \in Lists
  BY DEF ProcessesTyped
<1>2. SeenIn(live) \subseteq Blocks
  <2>1. Reads(live, log)[0] = live /\ 0 \in 0 .. Len(log)
    <3>1. log \in Seq([time : 1 .. MaxTime, recs : Seq(Message)])
      BY DEF ProcessesTyped
    <3>2. Reads(live, log)[0] = live
      BY <3>1, ReadsFirst
    <3> QED
      BY <3>1, <3>2
  <2> QED
    BY <2>1 DEF Blocks
<1> QED
  BY <1>1, <1>2 DEF Shown, Obs

(* A list that mirrors a cache has its processes, each at a place.         *)
LEMMA MirrorTyped ==
  ASSUME NEW c \in Caches \cup {NoCache}, NEW l, Mirrors(l, c)
  PROVE  /\ l \in Seq(Process)
         /\ \A i \in DOMAIN l : l[i].pid \in InCache(c) /\ l[i] = Log(l[i].pid, c[l[i].pid])
         /\ \A p \in InCache(c) : \E i \in DOMAIN l : l[i] = Log(p, c[p])
<1>1. l \in Seq(Loose) /\ Single(l) /\ \A p \in Pids : EntriesOf(l, p) = Shape(c, p)
  BY DEF Mirrors
<1>2. \A p \in InCache(c) : p \in Pids /\ Log(p, c[p]) \in Process
  <2>1. CASE c = NoCache
    BY <2>1 DEF NoCache, InCache
  <2>2. CASE c \in Caches
    <3> SUFFICES ASSUME NEW p \in InCache(c)
                 PROVE  p \in Pids /\ Log(p, c[p]) \in Process
      OBVIOUS
    <3>1. p \in Pids
      BY <2>2 DEF Caches, InCache
    <3>2. c[p].start \in 1 .. MaxStarts /\ c[p].net \in Nat
      BY <2>2, <3>1, CachedIs
    <3> QED
      BY <3>1, <3>2 DEF Log, Process
  <2> QED
    BY <2>1, <2>2
<1>3. ASSUME NEW i \in 1 .. Len(l)
      PROVE  /\ l[i].pid \in InCache(c) /\ l[i] = Log(l[i].pid, c[l[i].pid])
             /\ l[i] \in Process
  <2>1. l[i].pid \in Pids
    <3>1. l[i] \in Loose
      BY <1>1
    <3> QED
      BY <3>1 DEF Loose
  <2>2. l[i] \in EntriesOf(l, l[i].pid)
    BY <1>1, EntryIs
  <2>3. l[i] \in Shape(c, l[i].pid)
    BY <1>1, <2>1, <2>2
  <2>4. l[i].pid \in InCache(c) /\ l[i] = Log(l[i].pid, c[l[i].pid])
    BY <2>3 DEF Shape
  <2> QED
    BY <1>2, <2>4
<1>4. ASSUME NEW p \in InCache(c)
      PROVE  \E i \in 1 .. Len(l) : l[i] = Log(p, c[p])
  <2>1. Log(p, c[p]) \in EntriesOf(l, p)
    BY <1>1, <1>2 DEF Shape
  <2> QED
    BY <1>1, <2>1, EntryIs
<1>5. DOMAIN l = 1 .. Len(l) /\ l \in Seq(Process)
  BY <1>1, <1>3
<1> QED
  BY <1>3, <1>4, <1>5

(* The invariants hold at the start.                                       *)
LEMMA ProcessesInitInv ==
  ASSUME ProcessesInit
  PROVE  ProcessesIInv /\ ViewIInv
<1> USE DEF ProcessesInit
<1>0. /\ MaxStarts \in Nat \ {0} /\ MaxTime \in Nat \ {0} /\ MaxBehind \in Nat \ {0}
      /\ MaxQueue \in Nat \ {0} /\ MaxInputs \in Nat
      /\ Own \in Pids
  BY ProcessesAssumption
<1>1. NoList \in Lists /\ SeenIn(NoList) = {}
  BY NoListIs
<1>2. \A p \in Pids : os[p] = IF p = Own THEN [start |-> 1, raw |-> 0, moved |-> 0] ELSE Gone
  OBVIOUS
<1>3. NoEntry \in Sampled /\ NoEntry.start = 0 /\ NoEntry.rate = 0
  BY <1>0 DEF NoEntry, Sampled
<1>4. Listed \subseteq {Own}
  BY <1>2 DEF Listed
<1>5. InCache(daemon) = {}
  BY DEF InCache, NoCache
<1>6. ProcessesTyped
  <2>1. os \in [Pids -> {Gone} \cup Running]
    <3>1. [start |-> 1, raw |-> 0, moved |-> 0] \in Running
      BY <1>0 DEF Running
    <3> QED
      BY <3>1
  <2>2. /\ starts \in 0 .. MaxStarts /\ busy \subseteq Pids /\ now \in 0 .. MaxTime
        /\ daemon = NoCache /\ man \in 0 .. 2 /\ inputs \in 0 .. MaxInputs
    BY <1>0
  <2>6. /\ log \in Seq([time : 1 .. MaxTime, recs : Seq(Message)]) /\ Len(log) <= MaxBehind
        /\ queue \in Seq([proc : Process, time : 0 .. MaxTime]) /\ Len(queue) <= MaxQueue
    <3>1. \A B : <<>> \in Seq(B) /\ Len(<<>>) = 0
      OBVIOUS
    <3> QED
      BY <1>0, <3>1
  <2>7. /\ misused \subseteq {"worker", "feedback", "manual"}
        /\ irregular \subseteq {"dump", "clock"}
        /\ kind \in {"view", "list"} /\ signal \in BOOLEAN
    OBVIOUS
  <2>3. live \in Lists /\ past \in [seen : Lists, shown : BOOLEAN]
    BY <1>1
  <2>4. worker \in [at : {"wait", "look", "rates", "ended", "start"}, got : Lists]
    BY <1>1
  <2>5. win \in [state : {"new", "open", "freed"}, start : 0 .. MaxStarts,
              gone : BOOLEAN, buttons : SUBSET Buttons, thread : BOOLEAN,
              manual : BOOLEAN, how : SUBSET {"gone", "late", "manual"},
              cache : [Pids -> Sampled], rows : [Pids -> Sampled]]
    <3>1. [p \in Pids |-> NoEntry] \in [Pids -> Sampled]
      BY <1>3
    <3>2. 0 \in 0 .. MaxStarts /\ (kind = "list") \in BOOLEAN /\ FALSE \in BOOLEAN
      BY <1>0
    <3>3. (IF kind = "list" THEN "open" ELSE "new") \in {"new", "open", "freed"}
      OBVIOUS
    <3> QED
      BY <3>1, <3>2, <3>3 DEF NewWindow
  <2> QED
    BY <2>1, <2>2, <2>3, <2>4, <2>5, <2>6, <2>7 DEF ProcessesTyped
<1>7. Reads(live, log)[0] = live
  <2>1. log \in Seq(Nat)
    OBVIOUS
  <2> QED
    BY <2>1, ReadsFirst
<1>8. ListsInv
  <2>1. Len(log) = 0 /\ NoList.time = 0 /\ NoList.list = <<>>
    BY DEF NoList
  <2>2. Mirrors(<<>>, daemon)
    <3>1. <<>> \in Seq(Loose) /\ Single(<<>>) /\ \A p : EntriesOf(<<>>, p) = {}
      BY DEF Single, EntriesOf, Of
    <3> QED
      BY <1>5, <3>1 DEF Mirrors, Shape
  <2> QED
    BY <1>1, <1>7, <2>1, <2>2 DEF ListsInv
<1>9. StartsInv
  <2>1. \A p \in Listed : p = Own /\ os[p].start = 1 /\ starts = 1
    BY <1>0, <1>2, <1>4
  <2> QED
    BY <1>5, <2>1 DEF StartsInv
<1>10. MovedInv
  BY <1>5 DEF MovedInv
<1>11. SteadyInv
  <2>1. Blocks = {}
    <3>1. \A k \in 0 .. Len(log) : k = 0
      OBVIOUS
    <3> QED
      BY <1>1, <1>7, <3>1 DEF Blocks
  <2>2. \A p \in Pids : win.cache[p] = NoEntry /\ win.rows[p] = NoEntry
    BY DEF NewWindow
  <2>3. Samples = {}
    BY <1>3, <2>2 DEF Samples
  <2>4. Sent = {}
    BY DEF Sent
  <2>5. Obs = {}
    BY <1>1, <2>1, <2>3, <2>4 DEF Obs
  <2>6. Slow /\ LowRates
    BY <1>3, <1>5, <2>2 DEF Slow, LowRates
  <2> QED
    BY <2>5, <2>6 DEF SteadyInv, Steady, Known
<1>12. ViewIInv
  <2>1. win.rows[Own].start = 0
    BY <1>0, <1>3 DEF NewWindow
  <2> QED
  BY <2>1 DEF ViewIInv, FreedInv, KeepsToItsProcess, MisuseExplained, NewWindow
<1> QED
  BY <1>6, <1>8, <1>9, <1>10, <1>11, <1>12 DEF ProcessesIInv

(* The cache a poll finds: the first one is made as it comes.              *)
Found(dumped) ==
  IF daemon = NoCache THEN NewCache([q \in Pids |-> Gone], dumped) ELSE daemon
Block(broadcast, second, dumped) ==
  [time |-> now + second,
   recs |-> Records(Found(dumped), NewCache(Found(dumped), dumped), broadcast)]

(* The caches before and after a poll are well formed.                     *)
LEMMA FoundIs ==
  ASSUME ProcessesTyped, NEW dumped \in BOOLEAN
  PROVE  /\ Found(dumped) \in Caches /\ NewCache(Found(dumped), dumped) \in Caches
         /\ daemon \in Caches \cup {NoCache}
         /\ daemon # NoCache => Found(dumped) = daemon
<1>1. OsTyped /\ daemon \in Caches \cup {NoCache}
  BY DEF ProcessesTyped, OsTyped, Caches
<1>2. PICK p : p \in Pids
  BY ProcessesAssumption
<1>3. [q \in Pids |-> Gone] \in Caches
  BY DEF Caches
<1>4. \A c \in Caches : NewCache(c, dumped) \in Caches
  BY <1>1, <1>2, NewEntry
<1> QED
  BY <1>1, <1>3, <1>4 DEF Found

(* A poll, in the terms used here.                                         *)
LEMMA PollIs ==
  ASSUME ProcessesTyped, NEW broadcast \in BOOLEAN, NEW second \in 0 .. 1,
         NEW dumped \in BOOLEAN, Poll(broadcast, second, dumped)
  PROVE  /\ daemon' = NewCache(Found(dumped), dumped)
         /\ log' = Append(log, Block(broadcast, second, dumped))
         /\ Len(log) < MaxBehind /\ now + second <= MaxTime /\ now' = now + second
         /\ daemon = NoCache => broadcast /\ second = 1
         /\ inputs' = inputs \/ (inputs < MaxInputs /\ inputs' = inputs + 1)
         /\ busy' \in {{}, busy} /\ (second = 1 => busy' = {})
         /\ irregular' = irregular \cup (IF dumped THEN {} ELSE {"dump"})
                                   \cup (IF second = 0 THEN {"clock"} ELSE {})
         /\ UNCHANGED <<os, starts, engine, kind, signal, window>>
<1>1. /\ daemon' = NewCache(Found(dumped), dumped)
      /\ log' = Append(log, Block(broadcast, second, dumped))
  BY DEF Poll, Found, NewCache, Block, Records
<1>2. /\ Len(log) < MaxBehind /\ now + second <= MaxTime /\ now' = now + second
      /\ daemon = NoCache => broadcast /\ second = 1
      /\ inputs' = inputs \/ (inputs < MaxInputs /\ inputs' = inputs + 1)
      /\ busy' \in {{}, busy} /\ (second = 1 => busy' = {})
      /\ irregular' = irregular \cup (IF dumped THEN {} ELSE {"dump"})
                                \cup (IF second = 0 THEN {"clock"} ELSE {})
      /\ UNCHANGED <<os, starts, engine, kind, signal, window>>
  BY DEF Poll, Input
<1> QED
  BY <1>1, <1>2

(* The block of a poll is well formed, and whoever reads it after all the  *)
(* others has the new cache.                                               *)
LEMMA PollLists ==
  ASSUME ProcessesTyped, ListsInv, NEW broadcast \in BOOLEAN, NEW second \in 0 .. 1,
         NEW dumped \in BOOLEAN, Poll(broadcast, second, dumped)
  PROVE  /\ ListsInv'
         /\ log' \in Seq([time : 1 .. MaxTime, recs : Seq(Message)])
         /\ Len(log') = Len(log) + 1 /\ Len(log) \in Nat
         /\ \A k \in 0 .. Len(log) : Reads(live', log')[k] = Reads(live, log)[k]
<1> DEFINE B == [time : 1 .. MaxTime, recs : Seq(Message)]
           c == Found(dumped)
           w == NewCache(c, dumped)
           b == Block(broadcast, second, dumped)
           n == Len(log)
           r == Reads(live, log)[n]
           recs == Records(c, w, broadcast)
<1>1. OsTyped /\ log \in Seq(B) /\ now \in 0 .. MaxTime /\ MaxTime \in Nat
      /\ live \in Lists /\ n \in Nat
  BY ProcessesAssumption DEF ProcessesTyped, OsTyped
<1>2. /\ daemon' = w /\ log' = Append(log, b) /\ now' = now + second /\ now + second <= MaxTime
      /\ daemon = NoCache => broadcast /\ second = 1
      /\ live' = live
  BY PollIs DEF engine
<1>3. c \in Caches /\ w \in Caches /\ (daemon # NoCache => c = daemon)
  BY FoundIs
<1>4. /\ Mirrors(r.list, daemon) /\ r.time = now /\ r \in Lists
      /\ daemon # NoCache => now > 0
      /\ \A k \in 0 .. n : Reads(live, log)[k] \in Lists
  BY <1>1 DEF ListsInv
<1> HIDE DEF c, w, r
<1>5. recs \in Seq(Message) /\ Mirrors(Final(r.list, recs), w)
  <2>1. r.list \in Seq(Loose) /\ Single(r.list)
    BY <1>4 DEF Mirrors
  <2>2. \/ \A p \in Pids : EntriesOf(r.list, p) = Shape(c, p)
        \/ broadcast /\ \A p \in Pids : EntriesOf(r.list, p) = {}
    <3>1. CASE daemon = NoCache
      <4>1. InCache(daemon) = {}
        BY <3>1 DEF InCache, NoCache
      <4> QED
        BY <1>2, <1>4, <3>1, <4>1 DEF Mirrors, Shape
    <3>2. CASE daemon # NoCache
      BY <1>3, <1>4, <3>2 DEF Mirrors
    <3> QED
      BY <3>1, <3>2
  <2> QED
    BY <1>1, <1>3, <2>1, <2>2, PollMirrors DEF w
<1>6. b = [time |-> now + second, recs |-> recs]
  BY DEF Block, c, w
<1>7. now + second \in 1 .. MaxTime
  BY <1>1, <1>2, <1>4
<1> HIDE DEF recs, b
<1>8. b \in B
  BY <1>5, <1>6, <1>7
<1>9. /\ \A k \in 0 .. n : Reads(live, Append(log, b))[k] = Reads(live, log)[k]
      /\ Reads(live, Append(log, b))[n + 1] = After(r, b)
  <2> HIDE DEF B
  <2> QED
    BY <1>1, <1>8, ReadsMore DEF r
<1>10. After(r, b) = [time |-> now + second, list |-> Final(r.list, recs)]
  BY <1>6 DEF After, Final
<1>11. w # NoCache
  <2>1. \E p : p \in Pids
    BY ProcessesAssumption
  <2>2. DOMAIN w = Pids /\ DOMAIN NoCache = {}
    BY <1>3 DEF Caches, NoCache
  <2> QED
    BY <2>1, <2>2
<1>12. Final(r.list, recs) \in Seq(Process)
  BY <1>3, <1>5, MirrorTyped
<1>13. After(r, b) \in Lists
  <2>1. now + second \in 0 .. MaxTime
    BY <1>7
  <2> QED
    BY <1>10, <1>12, <2>1 DEF Lists
<1>14. log' \in Seq(B) /\ Len(log') = n + 1
  <2> HIDE DEF B
  <2> QED
    BY <1>1, <1>2, <1>8, AppendProperties
<1>15. /\ \A k \in 0 .. n : Reads(live', log')[k] = Reads(live, log)[k]
       /\ Reads(live', log')[n + 1] = After(r, b)
  BY <1>2, <1>9
<1>16. ListsInv'
  <2>1. \A k \in 0 .. n + 1 : Reads(live', log')[k] \in Lists
    <3>1. \A k \in 0 .. n + 1 : k \in 0 .. n \/ k = n + 1
      BY <1>1
    <3> QED
      BY <1>4, <1>13, <1>15, <3>1
  <2>2. Reads(live', log')[n + 1].time = now'
    BY <1>2, <1>10, <1>15
  <2>3. Mirrors(Reads(live', log')[n + 1].list, daemon')
    BY <1>2, <1>5, <1>10, <1>15
  <2>4. now' > 0
    BY <1>2, <1>7
  <2>5. Mirrors(Reads(live, log)[Len(log)].list, daemon)'
    BY <1>14, <2>3
  <2>6. (daemon # NoCache => now > 0)'
    BY <2>4
  <2>7. (Reads(live, log)[Len(log)].time = now)'
    BY <1>14, <2>2
  <2>8. (\A k \in 0 .. Len(log) : Reads(live, log)[k] \in Lists)'
    BY <1>14, <2>1
  <2> QED
    BY <2>5, <2>6, <2>7, <2>8 DEF ListsInv
<1> QED
  BY <1>1, <1>14, <1>15, <1>16

(* A poll keeps the types.                                                 *)
LEMMA PollTyped ==
  ASSUME ProcessesTyped, ListsInv, NEW broadcast \in BOOLEAN, NEW second \in 0 .. 1,
         NEW dumped \in BOOLEAN, Poll(broadcast, second, dumped)
  PROVE  ProcessesTyped'
<1>1. /\ daemon' = NewCache(Found(dumped), dumped)
      /\ Len(log) < MaxBehind /\ now + second <= MaxTime /\ now' = now + second
      /\ inputs' = inputs \/ (inputs < MaxInputs /\ inputs' = inputs + 1)
      /\ busy' \in {{}, busy}
      /\ irregular' = irregular \cup (IF dumped THEN {} ELSE {"dump"})
                                \cup (IF second = 0 THEN {"clock"} ELSE {})
      /\ UNCHANGED <<os, starts, engine, kind, signal, window>>
  BY PollIs
<1>2. /\ log' \in Seq([time : 1 .. MaxTime, recs : Seq(Message)])
      /\ Len(log') = Len(log) + 1 /\ Len(log) \in Nat
  BY PollLists
<1>3. daemon' \in [Pids -> {Gone} \cup Cached]
  BY <1>1, FoundIs DEF Caches
<1> USE DEF ProcessesTyped
<1>4. Len(log') <= MaxBehind
  BY <1>1, <1>2, ProcessesAssumption
<1>5. now' \in 0 .. MaxTime /\ inputs' \in 0 .. MaxInputs
  BY <1>1, ProcessesAssumption
<1>6. irregular' \subseteq {"dump", "clock"} /\ busy' \subseteq Pids
  BY <1>1
<1>7. /\ os' \in [Pids -> {Gone} \cup Running] /\ starts' \in 0 .. MaxStarts
      /\ live' \in Lists /\ past' \in [seen : Lists, shown : BOOLEAN]
      /\ kind' \in {"view", "list"} /\ signal' \in BOOLEAN
      /\ worker' \in [at : {"wait", "look", "rates", "ended", "start"}, got : Lists]
      /\ queue' \in Seq([proc : Process, time : 0 .. MaxTime]) /\ Len(queue') <= MaxQueue
      /\ man' \in 0 .. 2 /\ misused' \subseteq {"worker", "feedback", "manual"}
  BY <1>1 DEF engine, window
<1>8. win' = win
  BY <1>1 DEF window
<1> QED
  BY <1>2, <1>3, <1>4, <1>5, <1>6, <1>7, <1>8

(* What the new cache has of the processes that run.                       *)
LEMMA CountIs ==
  ASSUME ProcessesTyped, NEW dumped \in BOOLEAN, NEW p \in Pids
  PROVE  LET c == Found(dumped)
             w == NewCache(c, dumped)
         IN /\ p \in InCache(w) <=> p \in Listed
            /\ p \in Listed => /\ w[p] \in Cached /\ w[p].start = os[p].start
                               /\ dumped => w[p].raw = os[p].raw
            /\ p \in Listed /\ p \in InCache(daemon) /\ Same(p, daemon) /\ dumped =>
                 w[p].net = Counted(os[p].raw, daemon[p])
            /\ p \in Listed /\ ~(p \in InCache(daemon) /\ Same(p, daemon)) /\ dumped =>
                 w[p].net = 0
<1> DEFINE c == Found(dumped)
           w == NewCache(c, dumped)
<1>1. c \in Caches /\ w \in Caches /\ (daemon # NoCache => c = daemon)
      /\ daemon \in Caches \cup {NoCache}
  BY FoundIs
<1>2. OsTyped
  BY DEF ProcessesTyped, OsTyped
<1>3. daemon = NoCache => c = NewCache([q \in Pids |-> Gone], dumped)
  BY DEF Found
<1> HIDE DEF c
<1>4. /\ p \in InCache(w) <=> p \in Listed
      /\ p \in Listed => /\ w[p].start = os[p].start /\ w[p].raw = Reported(p, dumped)
                         /\ w[p].net = IF Same(p, c)
                                       THEN Counted(Reported(p, dumped), c[p]) ELSE 0
  BY <1>1, <1>2, NewEntry
<1> HIDE DEF w
<1>5. p \in Listed => w[p] \in Cached
  BY <1>1, <1>4, CachedIs
<1>6. dumped => Reported(p, dumped) = os[p].raw
  BY DEF Reported
<1>7. CASE daemon # NoCache
  <2>1. c = daemon /\ daemon \in Caches
    BY <1>1, <1>7
  <2>2. Same(p, daemon) => p \in InCache(daemon)
    BY <1>2, <2>1, SameIs
  <2> QED
    BY <1>4, <1>5, <1>6, <2>1, <2>2 DEF w, c
<1>8. CASE daemon = NoCache
  <2>1. p \notin InCache(daemon)
    BY <1>8 DEF InCache, NoCache
  <2>2. ASSUME p \in Listed, dumped PROVE w[p].net = 0
    <3> DEFINE g == [q \in Pids |-> Gone]
    <3>1. g \in Caches /\ g[p] = Gone
      BY DEF Caches
    <3>2. ~Same(p, g)
      BY <3>1 DEF Same
    <3> HIDE DEF g
    <3>3. c = NewCache(g, dumped)
      BY <1>3, <1>8 DEF g
    <3>4. c[p].raw = os[p].raw /\ c[p].net = 0
      BY <1>2, <1>6, <2>2, <3>1, <3>2, <3>3, NewEntry
    <3>5. os[p].raw \in Nat
      BY <1>2, <2>2, ListedIs
    <3>6. Counted(os[p].raw, c[p]) = 0
      BY <3>4, <3>5 DEF Counted
    <3> QED
      BY <1>4, <1>6, <2>2, <3>6
  <2> QED
    BY <1>4, <1>5, <1>6, <2>1, <2>2 DEF w, c
<1> QED
  BY <1>7, <1>8

(* A poll takes the processes as they run.                                 *)
LEMMA PollStarts ==
  ASSUME ProcessesTyped, StartsInv, NEW broadcast \in BOOLEAN, NEW second \in 0 .. 1,
         NEW dumped \in BOOLEAN, Poll(broadcast, second, dumped)
  PROVE  StartsInv'
<1> DEFINE w == NewCache(Found(dumped), dumped)
<1>1. daemon' = w /\ UNCHANGED <<os, starts>>
  BY PollIs
<1>2. w \in Caches
  BY FoundIs
<1>3. \A p \in InCache(w) : p \in Pids
  BY <1>2 DEF Caches, InCache
<1>4. \A p \in InCache(w) : p \in Listed /\ w[p].start = os[p].start
  BY <1>3, CountIs
<1> HIDE DEF w
<1>5. \A p \in InCache(w) : w[p].start <= starts
  BY <1>4 DEF StartsInv
<1> QED
  BY <1>1, <1>5 DEF StartsInv, Listed, InCache

(* A total that was taken now is what it is.                               *)
LEMMA CountedNow ==
  ASSUME NEW e \in Cached
  PROVE  Counted(e.raw, e) = e.net
BY NotGone DEF Counted

(* What a poll counts was moved, unless the dump of the sockets failed.    *)
LEMMA PollMoved ==
  ASSUME ProcessesTyped, MovedInv, NEW broadcast \in BOOLEAN, NEW second \in 0 .. 1,
         NEW dumped \in BOOLEAN, Poll(broadcast, second, dumped)
  PROVE  MovedInv'
<1> DEFINE w == NewCache(Found(dumped), dumped)
<1>1. /\ daemon' = w /\ UNCHANGED <<os, starts>>
      /\ irregular' = irregular \cup (IF dumped THEN {} ELSE {"dump"})
                                \cup (IF second = 0 THEN {"clock"} ELSE {})
  BY PollIs
<1>2. w \in Caches
  BY FoundIs
<1>3. OsTyped
  BY DEF ProcessesTyped, OsTyped
<1>4. ASSUME "dump" \notin irregular', NEW p \in InCache(w)
      PROVE  Counted(os[p].raw, w[p]) <= os[p].moved
  <2>1. dumped /\ "dump" \notin irregular
    BY <1>1, <1>4
  <2>2. p \in Pids
    BY <1>2 DEF Caches, InCache
  <2>3. /\ p \in Listed /\ w[p] \in Cached /\ w[p].raw = os[p].raw
        /\ p \in InCache(daemon) /\ Same(p, daemon) =>
             w[p].net = Counted(os[p].raw, daemon[p])
        /\ ~(p \in InCache(daemon) /\ Same(p, daemon)) => w[p].net = 0
    BY <2>1, <2>2, CountIs
  <2> HIDE DEF w
  <2>4. Counted(os[p].raw, w[p]) = w[p].net
    BY <2>3, CountedNow
  <2>5. os[p].moved \in Nat
    BY <1>3, <2>3, ListedIs
  <2> QED
    BY <2>1, <2>3, <2>4, <2>5 DEF MovedInv
<1> HIDE DEF w
<1> QED
  BY <1>1, <1>4 DEF MovedInv, InCache, Counted

(* What the monitor has, as a client sees it in the last block.            *)
LEMMA LastIs ==
  ASSUME ProcessesTyped, ListsInv, NEW p \in InCache(daemon)
  PROVE  [start |-> daemon[p].start, time |-> now, net |-> daemon[p].net] \in Obs
<1> DEFINE n == Len(log)
           r == Reads(live, log)[n]
<1>1. n \in 0 .. n
  BY DEF ProcessesTyped
<1>2. Mirrors(r.list, daemon) /\ r.time = now /\ daemon \in Caches \cup {NoCache}
  BY DEF ListsInv, ProcessesTyped, Caches
<1>3. SeenIn(r) \subseteq Blocks
  BY <1>1 DEF Blocks
<1> HIDE DEF r
<1>4. PICK i \in DOMAIN r.list : r.list[i] = Log(p, daemon[p])
  BY <1>2, MirrorTyped
<1>5. r.list[i].start = daemon[p].start /\ r.list[i].net = daemon[p].net
  BY <1>4 DEF Log
<1>6. [start |-> r.list[i].start, time |-> r.time, net |-> r.list[i].net] \in SeenIn(r)
  BY <1>4 DEF SeenIn
<1> QED
  BY <1>2, <1>3, <1>5, <1>6 DEF Obs

(* What a block that is written adds to what is known.                     *)
LEMMA PollObs ==
  ASSUME ProcessesTyped, ListsInv, NEW broadcast \in BOOLEAN, NEW second \in 0 .. 1,
         NEW dumped \in BOOLEAN, Poll(broadcast, second, dumped), NEW a \in Obs'
  PROVE  \/ a \in Obs
         \/ \E p \in InCache(daemon') :
              a = [start |-> daemon'[p].start, time |-> now', net |-> daemon'[p].net]
<1>1. UNCHANGED <<live, past, kind, window>>
  BY PollIs DEF engine
<1>2. /\ ListsInv' /\ Len(log') = Len(log) + 1 /\ Len(log) \in Nat
      /\ \A k \in 0 .. Len(log) : Reads(live', log')[k] = Reads(live, log)[k]
  BY PollLists
<1>3. daemon' \in Caches \cup {NoCache}
  BY PollIs, FoundIs
<1>4. CASE a \in Blocks'
  <2>1. PICK k \in 0 .. Len(log') : a \in SeenIn(Reads(live', log')[k])
    BY <1>4 DEF Blocks, SeenIn
  <2>2. CASE k \in 0 .. Len(log)
    <3>1. a \in SeenIn(Reads(live, log)[k])
      BY <1>2, <2>1, <2>2
    <3> QED
      BY <2>2, <3>1 DEF Blocks, Obs
  <2>3. CASE k \notin 0 .. Len(log)
    <3> DEFINE r == Reads(live', log')[Len(log')]
    <3>1. k = Len(log')
      BY <1>2, <2>3
    <3>2. a \in SeenIn(r)
      BY <2>1, <3>1
    <3>3. Mirrors(r.list, daemon') /\ r.time = now'
      BY <1>2 DEF ListsInv, Mirrors, Shape, InCache, Loose
    <3> HIDE DEF r
    <3>4. PICK i \in DOMAIN r.list :
            a = [start |-> r.list[i].start, time |-> r.time, net |-> r.list[i].net]
      BY <3>2 DEF SeenIn
    <3> DEFINE q == r.list[i].pid
    <3>5. q \in InCache(daemon') /\ r.list[i] = Log(q, daemon'[q])
      BY <1>3, <3>3, MirrorTyped
    <3> HIDE DEF q
    <3>6. r.list[i].start = daemon'[q].start /\ r.list[i].net = daemon'[q].net
      BY <3>5 DEF Log
    <3> QED
      BY <3>3, <3>4, <3>5, <3>6
  <2> QED
    BY <2>2, <2>3
<1>5. CASE a \notin Blocks'
  <2>1. SeenIn(past.seen)' = SeenIn(past.seen) /\ SeenIn(worker.got)' = SeenIn(worker.got)
        /\ Sent' = Sent /\ Samples' = Samples
    BY <1>1 DEF SeenIn, Sent, Samples, window
  <2> QED
    BY <1>5, <2>1 DEF Obs
<1> QED
  BY <1>4, <1>5

(* A poll counts at most a unit more of a process, a second later.         *)
LEMMA PollSteady ==
  ASSUME ProcessesTyped, ListsInv, StartsInv, SteadyInv,
         NEW broadcast \in BOOLEAN, NEW second \in 0 .. 1,
         NEW dumped \in BOOLEAN, Poll(broadcast, second, dumped)
  PROVE  SteadyInv'
<1> DEFINE w == NewCache(Found(dumped), dumped)
           new(p) == [start |-> w[p].start, time |-> now + 1, net |-> w[p].net]
<1> SUFFICES ASSUME irregular' = {}
             PROVE  Steady(Obs)' /\ Known(Obs)' /\ Slow' /\ LowRates'
  BY DEF SteadyInv
<1>1. /\ daemon' = w /\ now' = now + second
      /\ irregular' = irregular \cup (IF dumped THEN {} ELSE {"dump"})
                                \cup (IF second = 0 THEN {"clock"} ELSE {})
      /\ UNCHANGED <<os, starts, win>>
  BY PollIs DEF window
<1>2. second = 1 /\ dumped /\ irregular = {} /\ now' = now + 1
  BY <1>1
<1>3. Steady(Obs) /\ Known(Obs) /\ Slow /\ LowRates
  BY <1>2 DEF SteadyInv
<1>4. OsTyped /\ now \in Nat /\ w \in Caches /\ daemon \in Caches \cup {NoCache}
  BY FoundIs DEF ProcessesTyped, OsTyped
<1>5. ASSUME NEW p \in InCache(w)
      PROVE  /\ p \in Listed /\ p \in Pids /\ w[p] \in Cached /\ w[p].start = os[p].start
             /\ w[p].start \in 1 .. starts /\ w[p].net \in Nat
             /\ Counted(os[p].raw, w[p]) = w[p].net
             /\ p \in InCache(daemon) /\ Same(p, daemon) =>
                  w[p].net = Counted(os[p].raw, daemon[p])
  <2>1. p \in Pids
    BY <1>4 DEF Caches, InCache
  <2>2. /\ p \in Listed /\ w[p] \in Cached /\ w[p].raw = os[p].raw
        /\ w[p].start = os[p].start
        /\ p \in InCache(daemon) /\ Same(p, daemon) =>
             w[p].net = Counted(os[p].raw, daemon[p])
    BY <1>2, <2>1, CountIs
  <2> HIDE DEF w
  <2>3. Counted(os[p].raw, w[p]) = w[p].net
    BY <2>2, CountedNow
  <2>4. w[p].start \in 1 .. MaxStarts /\ w[p].net \in Nat
    BY <2>2, NotGone
  <2>5. w[p].start <= starts /\ starts \in Nat
    BY <2>2 DEF StartsInv, ProcessesTyped
  <2> QED
    BY <2>1, <2>2, <2>3, <2>4, <2>5, ProcessesAssumption
<1>6. ASSUME NEW p \in Listed
      PROVE  p \in InCache(w) /\ w[p].start = os[p].start
  <2>1. p \in Pids
    BY DEF Listed
  <2> QED
    BY <2>1, CountIs
<1>7. \A a \in Obs' : a \in Obs \/ \E p \in InCache(w) : a = new(p)
  <2> SUFFICES ASSUME NEW a \in Obs'
               PROVE  a \in Obs \/ \E p \in InCache(w) : a = new(p)
    OBVIOUS
  <2>1. CASE a \in Obs
    BY <2>1
  <2>2. CASE \E p \in InCache(daemon') :
               a = [start |-> daemon'[p].start, time |-> now', net |-> daemon'[p].net]
    <3>1. PICK p \in InCache(daemon') :
                 a = [start |-> daemon'[p].start, time |-> now', net |-> daemon'[p].net]
      BY <2>2
    <3> HIDE DEF w
    <3>2. p \in InCache(w) /\ a = new(p)
      BY <1>1, <1>2, <3>1
    <3> QED
      BY <3>2
  <2> QED
    BY <2>1, <2>2, PollObs
<1> HIDE DEF w
<1>8. Slow'
  <2>1. \A p \in InCache(w) : Counted(os[p].raw, w[p]) <= w[p].net /\ w[p].net \in Nat
    BY <1>5
  <2>2. ASSUME NEW p \in InCache(w)
        PROVE  Counted(os[p].raw, w[p]) <= w[p].net + (IF p \in busy' THEN 1 ELSE 0)
    <3>1. w[p].net <= w[p].net + (IF p \in busy' THEN 1 ELSE 0)
      BY <2>1
    <3> QED
      BY <1>5, <3>1
  <2> QED
    BY <1>1, <2>2 DEF Slow, InCache, Counted
<1>9. LowRates'
  BY <1>1, <1>3 DEF LowRates
<1> DEFINE O == Obs
           O2 == Obs'
<1>a. \A a \in O : /\ a.start \in 1 .. starts /\ a.time \in 1 .. now /\ a.net \in Nat
                   /\ \A p \in Listed : os[p].start = a.start =>
                        p \in InCache(daemon) /\ daemon[p].start = a.start
  BY <1>3 DEF Known
<1>b. \A a, b \in O : a.start = b.start /\ a.time <= b.time =>
        a.net <= b.net /\ b.net - a.net <= b.time - a.time
  BY <1>3 DEF Steady
<1>c. \A p \in InCache(w) : /\ new(p).start = w[p].start /\ new(p).time = now + 1
                            /\ new(p).net = w[p].net
  OBVIOUS
<1>d. \A p \in InCache(daemon) :
        [start |-> daemon[p].start, time |-> now, net |-> daemon[p].net] \in O
  BY LastIs
<1>e. \A a \in O2 : a \in O \/ \E p \in InCache(w) : a = new(p)
  BY <1>7
<1> HIDE DEF O, O2, new
<1>10. ASSUME NEW a \in O2
       PROVE  /\ a.start \in 1 .. starts /\ a.time \in 1 .. now + 1 /\ a.net \in Nat
              /\ \A p \in Listed : os[p].start = a.start =>
                   p \in InCache(w) /\ w[p].start = a.start
  <2>1. \A p \in Listed : os[p].start = a.start =>
          p \in InCache(w) /\ w[p].start = a.start
    BY <1>6
  <2>2. CASE a \in O
    BY <1>4, <1>a, <2>1, <2>2
  <2>3. CASE \E p \in InCache(w) : a = new(p)
    BY <1>4, <1>5, <1>c, <2>1, <2>3
  <2> QED
    BY <1>e, <2>2, <2>3
<1>11. Known(Obs)'
  BY <1>1, <1>2, <1>10 DEF Known, Listed, InCache, O2
(* From what was known to the new total.                                   *)
<1>12. ASSUME NEW a \in O, NEW p \in InCache(w), a.start = w[p].start
       PROVE  a.net <= w[p].net /\ w[p].net - a.net <= (now + 1) - a.time
  <2>1. p \in Listed /\ p \in Pids /\ os[p].start = a.start
    BY <1>5, <1>12
  <2>2. p \in InCache(daemon) /\ daemon[p].start = a.start
    BY <1>a, <2>1
  <2>3. daemon[p] \in Cached
    <3>1. daemon # NoCache
      BY <2>2 DEF InCache, NoCache
    <3> QED
      BY <1>4, <2>1, <2>2, <3>1, CachedIs
  <2>4. Same(p, daemon)
    BY <2>1, <2>2 DEF Same, InCache
  <2>5. w[p].net = Counted(os[p].raw, daemon[p])
    BY <1>5, <2>2, <2>4
  <2>6. os[p].raw \in Nat
    BY <1>4, <2>1, ListedIs
  <2>7. daemon[p].net <= w[p].net /\ w[p].net \in Nat
    BY <2>3, <2>5, <2>6, CountedIs
  <2>8. w[p].net <= daemon[p].net + (IF p \in busy THEN 1 ELSE 0)
    BY <1>3, <2>2, <2>4, <2>5 DEF Slow
  <2>9. daemon[p].net \in Nat
    BY <2>3, NotGone
  <2> DEFINE d == [start |-> daemon[p].start, time |-> now, net |-> daemon[p].net]
  <2>10. d \in O /\ d.start = a.start /\ d.time = now /\ d.net = daemon[p].net
    BY <1>d, <2>2
  <2> HIDE DEF d
  <2>11. a.time \in 1 .. now /\ a.net \in Nat
    BY <1>a
  <2>12. a.net <= d.net /\ d.net - a.net <= d.time - a.time
    BY <1>4, <1>b, <2>10, <2>11
  <2> QED
    BY <1>4, <2>7, <2>8, <2>9, <2>10, <2>11, <2>12
<1>13. ASSUME NEW a \in O2, NEW b \in O2, a.start = b.start, a.time <= b.time
       PROVE  a.net <= b.net /\ b.net - a.net <= b.time - a.time
  <2>1. CASE a \in O /\ b \in O
    BY <1>b, <1>13, <2>1
  <2>2. CASE a \in O /\ \E p \in InCache(w) : b = new(p)
    <3>1. PICK p \in InCache(w) : b = new(p)
      BY <2>2
    <3>2. b.start = w[p].start /\ b.time = now + 1 /\ b.net = w[p].net
      BY <1>c, <3>1
    <3> QED
      BY <1>12, <1>13, <2>2, <3>2
  <2>3. CASE b \in O /\ \E p \in InCache(w) : a = new(p)
    <3>1. a.time = now + 1
      BY <1>c, <2>3
    <3>2. b.time \in 1 .. now
      BY <1>a, <2>3
    <3> QED
      BY <1>4, <1>13, <3>1, <3>2
  <2>4. CASE (\E p \in InCache(w) : a = new(p)) /\ \E p \in InCache(w) : b = new(p)
    <3>1. PICK p \in InCache(w) : a = new(p)
      BY <2>4
    <3>2. PICK q \in InCache(w) : b = new(q)
      BY <2>4
    <3>3. os[p].start = os[q].start /\ p \in Listed /\ q \in Listed
      BY <1>5, <1>c, <1>13, <3>1, <3>2
    <3>4. p = q
      BY <3>3 DEF StartsInv
    <3>5. a.net \in Nat /\ a.time \in Nat /\ a = b
      BY <1>10, <3>1, <3>2, <3>4
    <3> QED
      BY <3>5
  <2> QED
    BY <1>e, <2>1, <2>2, <2>3, <2>4
<1>14. Steady(Obs)'
  BY <1>13 DEF Steady, O2
<1> QED
  BY <1>8, <1>9, <1>11, <1>14

(* A poll keeps the invariant.                                             *)
LEMMA PollInv ==
  ASSUME ProcessesIInv, NEW broadcast \in BOOLEAN, NEW second \in 0 .. 1,
         NEW dumped \in BOOLEAN, Poll(broadcast, second, dumped)
  PROVE  ProcessesIInv'
<1>1. ProcessesTyped /\ ListsInv /\ StartsInv /\ MovedInv /\ SteadyInv
  BY DEF ProcessesIInv
<1>2. ProcessesTyped'
  BY <1>1, PollTyped
<1>3. ListsInv'
  BY <1>1, PollLists
<1>4. StartsInv' /\ MovedInv'
  BY <1>1, PollStarts, PollMoved
<1>5. SteadyInv'
  BY <1>1, PollSteady
<1> QED
  BY <1>2, <1>3, <1>4, <1>5 DEF ProcessesIInv

-----------------------------------------------------------------------------
(* The system                                                              *)

(* What a step of the system makes of a process that runs after it: it is  *)
(* new, or it moved a unit, the first in its second, or its sockets report *)
(* no more than they did.                                                  *)
Moves(q) ==
  \/ os'[q].start = starts + 1 /\ starts' = starts + 1
  \/ /\ q \in Listed /\ os'[q].start = os[q].start
     /\ \/ /\ q \notin busy /\ q \in busy'
           /\ os'[q].raw = os[q].raw + 1 /\ os'[q].moved = os[q].moved + 1
        \/ os'[q].raw \in 0 .. os[q].raw /\ os'[q].moved = os[q].moved
Stirs ==
  /\ os' \in [Pids -> {Gone} \cup Running]
  /\ starts' \in {starts, starts + 1} /\ starts' <= MaxStarts
  /\ busy \subseteq busy' /\ busy' \subseteq Pids
  /\ \A q \in Listed' : Moves(q)
  /\ \A q, r \in Listed' : os'[q].start = starts + 1 /\ os'[r].start = starts + 1 => q = r
  /\ inputs' = inputs \/ (inputs < MaxInputs /\ inputs' = inputs + 1)
  /\ UNCHANGED systemRest

(* A total counts no more than the sockets report more.                    *)
LEMMA CountedGrows ==
  ASSUME NEW e \in Cached, NEW raw \in Nat
  PROVE  /\ Counted(raw + 1, e) <= Counted(raw, e) + 1
         /\ \A less \in 0 .. raw : Counted(less, e) <= Counted(raw, e)
BY NotGone DEF Counted

(* A step of the system keeps the types.                                   *)
LEMMA StirsTyped ==
  ASSUME ProcessesTyped, Stirs
  PROVE  ProcessesTyped'
<1> USE DEF ProcessesTyped, Stirs, systemRest, engine, window
<1>1. starts' \in 0 .. MaxStarts /\ inputs' \in 0 .. MaxInputs
  BY ProcessesAssumption
<1>2. /\ os' \in [Pids -> {Gone} \cup Running] /\ busy' \subseteq Pids /\ now' \in 0 .. MaxTime
      /\ daemon' = NoCache \/ daemon' \in [Pids -> {Gone} \cup Cached]
      /\ log' \in Seq([time : 1 .. MaxTime, recs : Seq(Message)]) /\ Len(log') <= MaxBehind
      /\ live' \in Lists /\ past' \in [seen : Lists, shown : BOOLEAN]
      /\ kind' \in {"view", "list"} /\ signal' \in BOOLEAN
      /\ worker' \in [at : {"wait", "look", "rates", "ended", "start"}, got : Lists]
      /\ queue' \in Seq([proc : Process, time : 0 .. MaxTime]) /\ Len(queue') <= MaxQueue
      /\ man' \in 0 .. 2 /\ misused' \subseteq {"worker", "feedback", "manual"}
      /\ irregular' \subseteq {"dump", "clock"}
  OBVIOUS
<1>3. win' = win
  OBVIOUS
<1> QED
  BY <1>1, <1>2, <1>3

(* A step of the system keeps the invariant.                               *)
LEMMA StirsInv ==
  ASSUME ProcessesIInv, Stirs
  PROVE  ProcessesIInv'
<1>1. ProcessesTyped /\ ListsInv /\ StartsInv /\ MovedInv /\ SteadyInv
  BY DEF ProcessesIInv
<1>2. ProcessesTyped'
  BY <1>1, StirsTyped
<1>3. UNCHANGED <<now, daemon, log, engine, kind, signal, window, irregular>>
  BY DEF Stirs, systemRest
<1>4. ListsInv'
  BY <1>1, <1>3, KeepLists DEF engine
<1>5. /\ OsTyped /\ OsTyped' /\ starts \in Nat /\ starts' \in Nat
      /\ daemon \in Caches \cup {NoCache}
  BY <1>1, <1>2, ProcessesAssumption DEF ProcessesTyped, OsTyped, Caches
<1>6. starts' \in {starts, starts + 1} /\ busy \subseteq busy' /\ \A q \in Listed' : Moves(q)
  BY DEF Stirs
<1>7. \A q \in Listed' : q \in Pids /\ os'[q] # Gone /\ os'[q].start \in 1 .. MaxStarts
  <2>1. \A q \in Listed' : os'[q] \in Running /\ q \in Pids
    BY <1>5 DEF OsTyped, Listed
  <2> QED
    BY <2>1, NotGone DEF Running
<1>8. \A p \in InCache(daemon) : /\ p \in Pids /\ daemon[p] \in Cached
                                 /\ daemon[p].start <= starts
  <2>1. \A p \in InCache(daemon) : p \in Pids /\ daemon \in Caches
    BY <1>5 DEF InCache, NoCache, Caches
  <2> QED
    BY <1>1, <2>1, CachedIs DEF StartsInv
(* A process that was there goes on.                                       *)
<1>9. ASSUME NEW q \in Listed', os'[q].start <= starts
      PROVE  /\ q \in Listed /\ os'[q].start = os[q].start
             /\ \/ /\ q \notin busy /\ q \in busy'
                   /\ os'[q].raw = os[q].raw + 1 /\ os'[q].moved = os[q].moved + 1
                \/ os'[q].raw \in 0 .. os[q].raw /\ os'[q].moved = os[q].moved
  BY <1>5, <1>6, <1>9 DEF Moves
<1>10. StartsInv'
  <2>1. ASSUME NEW q \in Listed'
        PROVE  os'[q].start <= starts'
    <3>1. CASE os'[q].start = starts + 1 /\ starts' = starts + 1
      BY <1>5, <3>1
    <3>2. CASE q \in Listed /\ os'[q].start = os[q].start
      <4>1. os[q].start <= starts /\ os[q].start \in 1 .. MaxStarts
        BY <1>1, <1>5, <3>2, ListedIs DEF StartsInv
      <4> QED
        BY <1>5, <1>6, <3>2, <4>1
    <3> QED
      BY <1>6, <3>1, <3>2 DEF Moves
  <2>2. ASSUME NEW q \in Listed', NEW r \in Listed', os'[q].start = os'[r].start
        PROVE  q = r
    <3>1. CASE os'[q].start <= starts
      <4>1. q \in Listed /\ r \in Listed /\ os[q].start = os[r].start
        BY <1>9, <2>2, <3>1
      <4> QED
        BY <1>1, <4>1 DEF StartsInv
    <3>2. CASE ~(os'[q].start <= starts)
      <4>1. os'[q].start = starts + 1
        BY <1>5, <1>6, <1>7, <2>1, <3>2
      <4> QED
        BY <2>2, <4>1 DEF Stirs
    <3> QED
      BY <3>1, <3>2
  <2>3. \A p \in InCache(daemon) : daemon[p].start <= starts'
    <3> SUFFICES ASSUME NEW p \in InCache(daemon) PROVE daemon[p].start <= starts'
      OBVIOUS
    <3>1. daemon[p].start <= starts /\ daemon[p].start \in 1 .. MaxStarts
      BY <1>8, NotGone
    <3> QED
      BY <1>5, <1>6, <3>1
  <2> QED
    BY <1>3, <2>1, <2>2, <2>3 DEF StartsInv, InCache
(* What the monitor would count of a process.                              *)
<1>11. ASSUME NEW p \in InCache(daemon), Same(p, daemon)'
       PROVE  /\ p \in Listed /\ Same(p, daemon) /\ daemon[p] \in Cached
              /\ os[p].raw \in Nat /\ os[p].moved \in Nat
              /\ \/ /\ p \notin busy /\ p \in busy'
                    /\ Counted(os'[p].raw, daemon[p]) <= Counted(os[p].raw, daemon[p]) + 1
                    /\ os'[p].moved = os[p].moved + 1
                 \/ /\ Counted(os'[p].raw, daemon[p]) <= Counted(os[p].raw, daemon[p])
                    /\ os'[p].moved = os[p].moved
              /\ Counted(os'[p].raw, daemon[p]) \in Nat
              /\ Counted(os[p].raw, daemon[p]) \in Nat
  <2>1. p \in Listed' /\ os'[p].start = daemon[p].start /\ daemon[p] # Gone
    BY <1>3, <1>11 DEF Same
  <2>2. /\ p \in Listed /\ os'[p].start = os[p].start
        /\ \/ /\ p \notin busy /\ p \in busy'
              /\ os'[p].raw = os[p].raw + 1 /\ os'[p].moved = os[p].moved + 1
           \/ os'[p].raw \in 0 .. os[p].raw /\ os'[p].moved = os[p].moved
    BY <1>8, <1>9, <2>1
  <2>3. os[p].raw \in Nat /\ os[p].moved \in Nat
    BY <1>5, <2>2, ListedIs
  <2>4. Same(p, daemon) /\ daemon[p] \in Cached
    BY <1>8, <2>1, <2>2 DEF Same
  <2>5. os'[p].raw \in Nat
    BY <2>2, <2>3
  <2>6. Counted(os'[p].raw, daemon[p]) \in Nat /\ Counted(os[p].raw, daemon[p]) \in Nat
    BY <2>3, <2>4, <2>5, CountedIs
  <2> QED
    BY <2>2, <2>3, <2>4, <2>6, CountedGrows
<1>12. MovedInv'
  <2> SUFFICES ASSUME "dump" \notin irregular, NEW p \in InCache(daemon), Same(p, daemon)'
               PROVE  Counted(os'[p].raw, daemon[p]) <= os'[p].moved
    BY <1>3 DEF MovedInv, InCache, Counted
  <2>1. Counted(os[p].raw, daemon[p]) <= os[p].moved
    BY <1>1, <1>11 DEF MovedInv
  <2> QED
    BY <1>11, <2>1
<1>13. SteadyInv'
  <2> SUFFICES ASSUME irregular' = {}
               PROVE  Steady(Obs)' /\ Known(Obs)' /\ Slow' /\ LowRates'
    BY DEF SteadyInv
  <2>1. Steady(Obs) /\ Known(Obs) /\ Slow /\ LowRates
    BY <1>1, <1>3 DEF SteadyInv
  <2>2. Obs' = Obs /\ win' = win
    BY <1>3, KeepObs DEF engine, window
  <2>3. Slow'
    <3> SUFFICES ASSUME NEW p \in InCache(daemon), Same(p, daemon)'
                 PROVE  Counted(os'[p].raw, daemon[p]) <=
                          daemon[p].net + (IF p \in busy' THEN 1 ELSE 0)
      BY <1>3 DEF Slow, InCache, Counted
    <3>1. Counted(os[p].raw, daemon[p]) <= daemon[p].net + (IF p \in busy THEN 1 ELSE 0)
      BY <1>11, <2>1 DEF Slow
    <3>2. daemon[p].net \in Nat
      BY <1>11, NotGone
    <3> QED
      BY <1>6, <1>11, <3>1, <3>2
  <2>4. LowRates'
    BY <2>1, <2>2 DEF LowRates
  <2> HIDE DEF Obs
  <2>5. Steady(Obs)'
    BY <2>1, <2>2 DEF Steady
  <2>6. Known(Obs)'
    <3> SUFFICES ASSUME NEW a \in Obs
                 PROVE  /\ a.start \in 1 .. starts' /\ a.time \in 1 .. now /\ a.net \in Nat
                        /\ \A p \in Listed' : os'[p].start = a.start =>
                             p \in InCache(daemon) /\ daemon[p].start = a.start
      BY <1>3, <2>2 DEF Known, InCache
    <3>1. /\ a.start \in 1 .. starts /\ a.time \in 1 .. now /\ a.net \in Nat
          /\ \A p \in Listed : os[p].start = a.start =>
               p \in InCache(daemon) /\ daemon[p].start = a.start
      BY <2>1 DEF Known
    <3>2. a.start \in 1 .. starts'
      BY <1>5, <1>6, <3>1
    <3>3. \A p \in Listed' : os'[p].start = a.start =>
            p \in InCache(daemon) /\ daemon[p].start = a.start
      BY <1>9, <3>1
    <3> QED
      BY <3>1, <3>2, <3>3
  <2> QED
    BY <2>3, <2>4, <2>5, <2>6
<1> QED
  BY <1>2, <1>4, <1>10, <1>12, <1>13 DEF ProcessesIInv

(* A process that is left alone.                                           *)
LEMMA MovesNot ==
  ASSUME OsTyped, NEW q \in Listed, os'[q] = os[q]
  PROVE  Moves(q)
<1>1. os[q].raw \in Nat
  BY ListedIs
<1> QED
  BY <1>1 DEF Moves

(* A step that changes one process.                                        *)
LEMMA StirsIf ==
  ASSUME ProcessesTyped, StartsInv, NEW p \in Pids,
         NEW e \in {Gone} \cup Running,
         os' = [os EXCEPT ![p] = e], e # Gone => Moves(p),
         starts' \in {starts, starts + 1}, starts' <= MaxStarts,
         busy \subseteq busy', busy' \subseteq Pids,
         inputs' = inputs \/ (inputs < MaxInputs /\ inputs' = inputs + 1),
         UNCHANGED systemRest
  PROVE  Stirs
<1>1. OsTyped /\ starts \in Nat
  BY ProcessesAssumption DEF ProcessesTyped, OsTyped
<1>2. os'[p] = e /\ \A q \in Pids : q # p => os'[q] = os[q]
  BY <1>1 DEF OsTyped
<1>3. os' \in [Pids -> {Gone} \cup Running]
  BY <1>1 DEF OsTyped
<1>4. ASSUME NEW q \in Listed', q # p
      PROVE  q \in Listed /\ os'[q] = os[q]
  BY <1>2, <1>4 DEF Listed
<1>5. \A q \in Listed' : Moves(q)
  <2>1. \A q \in Listed' : q # p => Moves(q)
    BY <1>1, <1>4, MovesNot
  <2>2. p \in Listed' => e # Gone
    BY <1>2 DEF Listed
  <2> QED
    BY <2>1, <2>2
<1>6. \A q \in Listed' : os'[q].start = starts + 1 => q = p
  <2> SUFFICES ASSUME NEW q \in Listed', q # p PROVE os'[q].start # starts + 1
    OBVIOUS
  <2>1. q \in Listed /\ os'[q] = os[q]
    BY <1>4
  <2>2. os[q].start <= starts /\ os[q].start \in 1 .. MaxStarts
    BY <1>1, <2>1, ListedIs DEF StartsInv
  <2> QED
    BY <1>1, <2>1, <2>2
<1> QED
  BY <1>3, <1>5, <1>6 DEF Stirs

(* The steps of the system, and the kill button, are such steps.           *)
LEMMA SystemStirs ==
  ASSUME ProcessesTyped, StartsInv, NEW p \in Pids,
         Fork(p) \/ Exit(p) \/ Traffic(p) \/ CloseSocket(p) \/ (p = Own /\ Kill)
  PROVE  Stirs
<1>1. /\ OsTyped /\ starts \in 0 .. MaxStarts /\ MaxStarts \in Nat /\ busy \subseteq Pids
      /\ os \in [Pids -> {Gone} \cup Running]
  BY ProcessesAssumption DEF ProcessesTyped, OsTyped
<1>2. CASE Fork(p)
  <2> DEFINE e == [start |-> starts + 1, raw |-> 0, moved |-> 0]
  <2>1. /\ starts < MaxStarts /\ starts' = starts + 1 /\ busy' = busy /\ inputs' = inputs
        /\ os' = [os EXCEPT ![p] = e] /\ UNCHANGED systemRest
    BY <1>2 DEF Fork
  <2>2. e \in Running
    BY <1>1, <2>1 DEF Running
  <2>3. os'[p] = e
    BY <1>1, <2>1
  <2>4. e.start = starts + 1
    OBVIOUS
  <2>5. Moves(p)
    BY <2>1, <2>3, <2>4 DEF Moves
  <2>6. starts' <= MaxStarts
    BY <1>1, <2>1
  <2> HIDE DEF e
  <2> QED
    BY <1>1, <2>1, <2>2, <2>5, <2>6, StirsIf
<1>3. CASE Exit(p) \/ (p = Own /\ Kill)
  <2>1. /\ starts' = starts /\ busy' = busy
        /\ inputs' = inputs \/ (inputs < MaxInputs /\ inputs' = inputs + 1)
        /\ os' = [os EXCEPT ![p] = Gone] /\ UNCHANGED systemRest
    BY <1>3 DEF Exit, Kill, Input, mainRest, systemRest
  <2>2. starts' <= MaxStarts
    BY <1>1, <2>1
  <2> QED
    BY <1>1, <2>1, <2>2, StirsIf
<1>4. ASSUME NEW raw \in Nat, NEW moved \in Nat, p \in Listed,
             os' = [os EXCEPT ![p].raw = raw, ![p].moved = moved]
      PROVE  /\ [os[p] EXCEPT !.raw = raw, !.moved = moved] \in Running
             /\ os' = [os EXCEPT ![p] = [os[p] EXCEPT !.raw = raw, !.moved = moved]]
             /\ os'[p].start = os[p].start /\ os'[p].raw = raw /\ os'[p].moved = moved
  <2>1. os[p] \in Running
    BY <1>1, <1>4, ListedIs
  <2> QED
    BY <1>1, <1>4, <2>1 DEF Running
<1>5. CASE Traffic(p)
  <2>1. /\ starts' = starts /\ busy' = busy \cup {p} /\ inputs' = inputs /\ p \notin busy
        /\ os' = [os EXCEPT ![p].raw = @ + 1, ![p].moved = @ + 1]
        /\ os[p] # Gone /\ UNCHANGED systemRest
    BY <1>5 DEF Traffic
  <2>2. p \in Listed
    BY <2>1 DEF Listed
  <2>3. os[p].raw \in Nat /\ os[p].moved \in Nat
    BY <1>1, <2>2, ListedIs
  <2> DEFINE raw == os[p].raw + 1
             moved == os[p].moved + 1
             e == [os[p] EXCEPT !.raw = raw, !.moved = moved]
  <2>4. os' = [os EXCEPT ![p].raw = raw, ![p].moved = moved]
    BY <1>1, <2>1
  <2>5. raw \in Nat /\ moved \in Nat
    BY <2>3
  <2>a. raw = os[p].raw + 1 /\ moved = os[p].moved + 1
    OBVIOUS
  <2> HIDE DEF raw, moved
  <2>6. /\ e \in Running /\ os' = [os EXCEPT ![p] = e]
        /\ os'[p].start = os[p].start /\ os'[p].raw = raw /\ os'[p].moved = moved
    BY <1>4, <2>2, <2>4, <2>5
  <2>7. Moves(p)
    BY <2>1, <2>2, <2>6, <2>a DEF Moves
  <2>8. starts' <= MaxStarts /\ busy' \subseteq Pids
    BY <1>1, <2>1
  <2> HIDE DEF e
  <2> QED
    BY <1>1, <2>1, <2>6, <2>7, <2>8, StirsIf
<1>6. CASE CloseSocket(p)
  <2>1. PICK left \in 0 .. os[p].raw - 1 : os' = [os EXCEPT ![p].raw = left]
    BY <1>6 DEF CloseSocket
  <2>2. /\ starts' = starts /\ busy' = busy /\ inputs < MaxInputs /\ inputs' = inputs + 1
        /\ os[p] # Gone /\ UNCHANGED systemRest
    BY <1>6 DEF CloseSocket, Input
  <2>3. p \in Listed
    BY <2>2 DEF Listed
  <2>4. os[p].raw \in Nat /\ os[p].moved \in Nat /\ os[p] \in Running
    BY <1>1, <2>3, ListedIs
  <2>5. left \in Nat /\ left \in 0 .. os[p].raw
    BY <2>4
  <2> DEFINE moved == os[p].moved
             e == [os[p] EXCEPT !.raw = left, !.moved = moved]
  <2>6. os' = [os EXCEPT ![p].raw = left, ![p].moved = moved]
    BY <1>1, <2>1, <2>4 DEF Running
  <2>7. /\ e \in Running /\ os' = [os EXCEPT ![p] = e]
        /\ os'[p].start = os[p].start /\ os'[p].raw = left /\ os'[p].moved = moved
    BY <1>4, <2>3, <2>4, <2>5, <2>6
  <2>8. Moves(p)
    BY <2>3, <2>5, <2>7 DEF Moves
  <2>9. starts' <= MaxStarts
    BY <1>1, <2>2
  <2> HIDE DEF e
  <2> QED
    BY <1>1, <2>2, <2>7, <2>8, <2>9, StirsIf
<1> QED
  BY <1>2, <1>3, <1>5, <1>6

-----------------------------------------------------------------------------
(* The client                                                              *)

(* Reading keeps the invariant: the blocks lead where they led.            *)
LEMMA ReadBlocksInv ==
  ASSUME ProcessesIInv, ReadBlocks
  PROVE  ProcessesIInv'
<1> DEFINE B == [time : 1 .. MaxTime, recs : Seq(Message)]
           N == Len(log)
<1>1. ProcessesTyped /\ ListsInv /\ StartsInv /\ MovedInv /\ SteadyInv
  BY DEF ProcessesIInv
<1>2. log \in Seq(B) /\ N \in Nat /\ N <= MaxBehind /\ MaxBehind \in Nat
  BY <1>1, ProcessesAssumption DEF ProcessesTyped
<1>3. PICK n \in 1 .. N :
        /\ live' = Reads(live, log)[n]
        /\ log' = SubSeq(log, n + 1, Len(log))
        /\ past' = IF past.seen = NoList THEN [past EXCEPT !.seen = live'] ELSE past
        /\ Tell
        /\ UNCHANGED <<system, now, daemon, kind, window, irregular, inputs>>
  BY DEF ReadBlocks
<1>4. n \in 0 .. N /\ n \in Nat /\ N - n \in 0 .. N
  BY <1>2, <1>3
<1>5. /\ log' \in Seq(B) /\ Len(log') = N - n
      /\ \A k \in 0 .. N - n : Reads(live', log')[k] = Reads(live, log)[n + k]
  <2> HIDE DEF B
  <2> QED
    <3> DEFINE t == SubSeq(log, n + 1, Len(log))
    <3>1. /\ t \in Seq(B) /\ Len(t) = Len(log) - n
          /\ \A k \in 0 .. Len(log) - n :
               Reads(Reads(live, log)[n], t)[k] = Reads(live, log)[n + k]
      BY <1>2, <1>4, ReadsRest
    <3>2. log' = t /\ live' = Reads(live, log)[n]
      BY <1>3
    <3> HIDE DEF t
    <3> QED
      BY <3>1, <3>2
<1>6. \A k \in 0 .. N : Reads(live, log)[k] \in Lists
  BY <1>1 DEF ListsInv
<1>7. live' \in Lists
  BY <1>3, <1>4, <1>6
<1>8. past' \in [seen : Lists, shown : BOOLEAN] /\ past'.seen \in {past.seen, live'}
  BY <1>1, <1>3, <1>7 DEF ProcessesTyped
<1>9. ProcessesTyped'
  <2> USE <1>1 DEF ProcessesTyped, system, window
  <2>1. Len(log') <= MaxBehind
    BY <1>2, <1>4, <1>5
  <2>2. signal' \in BOOLEAN
    BY <1>3 DEF Tell
  <2>3. /\ os' \in [Pids -> {Gone} \cup Running] /\ starts' \in 0 .. MaxStarts
        /\ busy' \subseteq Pids /\ now' \in 0 .. MaxTime
        /\ daemon' = NoCache \/ daemon' \in [Pids -> {Gone} \cup Cached]
        /\ kind' \in {"view", "list"}
        /\ worker' \in [at : {"wait", "look", "rates", "ended", "start"}, got : Lists]
        /\ queue' \in Seq([proc : Process, time : 0 .. MaxTime]) /\ Len(queue') <= MaxQueue
        /\ man' \in 0 .. 2 /\ misused' \subseteq {"worker", "feedback", "manual"}
        /\ irregular' \subseteq {"dump", "clock"} /\ inputs' \in 0 .. MaxInputs
    BY <1>3
  <2>4. win' = win
    BY <1>3
  <2> QED
    BY <1>5, <1>7, <1>8, <2>1, <2>2, <2>3, <2>4
<1>10. \A k \in 0 .. N - n : n + k \in 0 .. N
  BY <1>2, <1>4
<1>11. ListsInv'
  <2>1. (\A k \in 0 .. Len(log) : Reads(live, log)[k] \in Lists)'
    <3>1. \A k \in 0 .. Len(log') : Reads(live', log')[k] \in Lists
      BY <1>5, <1>6, <1>10
    <3> QED
      BY <3>1 DEF Lists, Process
  <2>2. n + (N - n) = N /\ N - n \in 0 .. N - n
    BY <1>2, <1>4
  <2>3. Reads(live', log')[Len(log')] = Reads(live, log)[N]
    BY <1>5, <2>2
  <2> DEFINE r == Reads(live, log)[N]
  <2>4. r.time = now /\ Mirrors(r.list, daemon) /\ (daemon # NoCache => now > 0)
    BY <1>1 DEF ListsInv
  <2> HIDE DEF r, N
  <2>5. (Reads(live, log)[Len(log)].time = now)'
    BY <1>3, <2>3, <2>4 DEF r
  <2>6. Mirrors(Reads(live, log)[Len(log)].list, daemon)'
    <3>1. Mirrors(Reads(live', log')[Len(log')].list, daemon')
      BY <1>3, <2>3, <2>4 DEF r
    <3> QED
      BY <3>1
  <2>7. (daemon # NoCache => now > 0)'
    BY <1>3, <2>4
  <2> QED
    BY <2>1, <2>5, <2>6, <2>7 DEF ListsInv
<1>12. StartsInv' /\ MovedInv'
  BY <1>1, <1>3, KeepStarts, KeepMoved DEF system
<1>13. Obs' \subseteq Obs
  <2>1. Blocks' \subseteq Blocks
    <3> SUFFICES ASSUME NEW k \in 0 .. Len(log')
                 PROVE  SeenIn(Reads(live', log')[k]) \subseteq Blocks
      BY DEF Blocks, SeenIn
    <3>1. n + k \in 0 .. N /\ Reads(live', log')[k] = Reads(live, log)[n + k]
      BY <1>5, <1>10
    <3> QED
      BY <3>1 DEF Blocks
  <2>2. SeenIn(live') \subseteq Blocks
    BY <1>3, <1>4 DEF Blocks
  <2>3. SeenIn(past'.seen) \subseteq Blocks \cup SeenIn(past.seen)
    BY <1>8, <2>2
  <2>4. SeenIn(past.seen)' = SeenIn(past'.seen)
    BY DEF SeenIn
  <2>5. SeenIn(worker.got)' = SeenIn(worker.got) /\ Sent' = Sent /\ Samples' = Samples
    BY <1>3 DEF window, SeenIn, Sent, Samples
  <2> QED
    BY <2>1, <2>3, <2>4, <2>5 DEF Obs
<1>14. SteadyInv'
  <2>1. SteadyInv
    BY <1>1
  <2>2. UNCHANGED <<os, starts, busy, daemon, now, win, irregular>>
    BY <1>3 DEF system, window
  <2>3. irregular = {} => LowRates'
    BY <2>1, <2>2 DEF SteadyInv, LowRates
  <2> QED
    BY <1>13, <2>1, <2>2, <2>3, KeepSteady
<1> QED
  BY <1>9, <1>11, <1>12, <1>14 DEF ProcessesIInv

Windows ==
  [state : {"new", "open", "freed"}, start : 0 .. MaxStarts,
   gone : BOOLEAN, buttons : SUBSET Buttons, thread : BOOLEAN,
   manual : BOOLEAN, how : SUBSET {"gone", "late", "manual"},
   cache : [Pids -> Sampled], rows : [Pids -> Sampled]]
Workers == [at : {"wait", "look", "rates", "ended", "start"}, got : Lists]
Queued == [proc : Process, time : 0 .. MaxTime]
Pasts == [seen : Lists, shown : BOOLEAN]
blocks == <<system, now, daemon, log, live, kind>>

(* What a step of the engine or of the window changes, and its types.      *)
WindowTyped ==
  /\ past \in Pasts /\ signal \in BOOLEAN /\ win \in Windows /\ worker \in Workers
  /\ queue \in Seq(Queued) /\ Len(queue) <= MaxQueue
  /\ man \in 0 .. 2 /\ misused \subseteq {"worker", "feedback", "manual"}
  /\ irregular \subseteq {"dump", "clock"} /\ inputs \in 0 .. MaxInputs

(* The types of what a window changes, and of the rest.                    *)
LEMMA TypedParts ==
  /\ ProcessesTyped => WindowTyped
  /\ ProcessesTyped /\ UNCHANGED blocks /\ WindowTyped' => ProcessesTyped'
BY DEF ProcessesTyped, WindowTyped, Windows, Workers, Queued, Pasts, blocks, system

(* A step of the windows keeps the invariant if it knows nothing new and   *)
(* its rates are low.                                                      *)
LEMMA WindowInv ==
  ASSUME ProcessesIInv, UNCHANGED blocks, WindowTyped', irregular \subseteq irregular',
         irregular' = {} => Obs' \subseteq Obs /\ LowRates'
  PROVE  ProcessesIInv'
<1>1. ProcessesTyped /\ ListsInv /\ StartsInv /\ MovedInv /\ SteadyInv
  BY DEF ProcessesIInv
<1>2. UNCHANGED <<os, starts, busy, now, daemon, log, live>>
  BY DEF blocks, system
<1>3. ProcessesTyped'
  BY <1>1, TypedParts
<1>4. ListsInv' /\ StartsInv' /\ MovedInv'
  BY <1>1, <1>2, KeepLists, KeepStarts, KeepMoved
<1>5. SteadyInv'
  BY <1>1, <1>2, KeepSteady
<1> QED
  BY <1>3, <1>4, <1>5 DEF ProcessesIInv

(* Where what is known is the same, and so are the rates.                  *)
LEMMA CalmInv ==
  ASSUME ProcessesIInv, UNCHANGED blocks, WindowTyped', irregular' = irregular,
         past'.seen = past.seen, worker'.got = worker.got, queue' = queue,
         win'.cache = win.cache, win'.rows = win.rows
  PROVE  ProcessesIInv'
<1>1. SteadyInv
  BY DEF ProcessesIInv
<1>2. Obs' = Obs
  BY KeepObs DEF blocks
<1>3. irregular = {} => LowRates'
  BY <1>1 DEF SteadyInv, LowRates
<1> QED
  BY <1>2, <1>3, WindowInv

(* A quotient of what is not larger than the divisor is at most one.       *)
LEMMA DivLow ==
  ASSUME NEW a \in Nat, NEW d \in Nat, d > 0
  PROVE  a \div d \in Nat /\ (a <= d => a \div d <= 1) /\ (a <= 0 => a \div d <= 1)
OBVIOUS

(* The thread's next place.                                                *)
LEMMA WorkerAt ==
  ASSUME worker \in Workers, NEW at \in {"wait", "look", "rates", "ended", "start"}
  PROVE  /\ [worker EXCEPT !.at = at] \in Workers
         /\ [worker EXCEPT !.at = at].got = worker.got
         /\ [worker EXCEPT !.at = at].at = at
         /\ worker.got \in Lists /\ Round \in {"ended", "wait"}
BY DEF Workers, Round

(* Blocks in which nothing changes, and travel in time, keep the           *)
(* invariant.                                                              *)
LEMMA EngineCalm ==
  ASSUME ProcessesIInv, Later \/ Travel
  PROVE  ProcessesIInv'
<1>1. WindowTyped
  BY TypedParts DEF ProcessesIInv
<1>2. signal' \in BOOLEAN /\ inputs' \in 0 .. MaxInputs
  <2>1. signal' = (worker.at # "ended")
    BY DEF Later, Travel, Tell
  <2>2. inputs' = inputs \/ (inputs < MaxInputs /\ inputs' = inputs + 1)
    BY DEF Later, Travel, Input
  <2>3. signal' \in BOOLEAN
    BY <2>1
  <2>4. inputs' \in 0 .. MaxInputs
    BY <1>1, <2>2, ProcessesAssumption DEF WindowTyped
  <2> QED
    BY <2>3, <2>4
<1>3. past' \in Pasts /\ past'.seen = past.seen
  BY <1>1 DEF Later, Travel, engine, WindowTyped, Pasts
<1>4. UNCHANGED <<blocks, window, irregular>>
  BY DEF Later, Travel, engine, blocks
<1>5. WindowTyped'
  BY <1>1, <1>2, <1>3, <1>4 DEF WindowTyped, window
<1> QED
  BY <1>3, <1>4, <1>5, CalmInv DEF window

(* Waiting keeps the invariant.                                            *)
LEMMA WorkerCalm ==
  ASSUME ProcessesIInv, Start \/ Wake \/ Timeout
  PROVE  ProcessesIInv'
<1>1. WindowTyped
  BY TypedParts DEF ProcessesIInv
<1>2. UNCHANGED <<blocks, past, man, inputs, win, queue, irregular>>
  BY DEF Start, Wake, Timeout, workerRest, engine, blocks
<1>3. worker' \in Workers /\ worker'.got = worker.got
  <2>1. worker \in Workers
    BY <1>1 DEF WindowTyped
  <2>2. \E at \in {"wait", "look", "rates", "ended", "start"} :
          worker' = [worker EXCEPT !.at = at]
    <3>1. CASE Start
      BY <2>1, <3>1, WorkerAt DEF Start
    <3>2. CASE Wake
      BY <3>2 DEF Wake
    <3>3. CASE Timeout
      BY <3>3 DEF Timeout
    <3> QED
      BY <3>1, <3>2, <3>3
  <2> QED
    BY <2>1, <2>2, WorkerAt
<1>4. signal' \in BOOLEAN /\ misused' \subseteq {"worker", "feedback", "manual"}
  BY <1>1 DEF Start, Wake, Timeout, WindowTyped
<1>5. WindowTyped'
  BY <1>1, <1>2, <1>3, <1>4 DEF WindowTyped
<1> QED
  BY <1>2, <1>3, <1>5, CalmInv

(* Opening the window and the manual keep the invariant.                   *)
LEMMA MainCalm ==
  ASSUME ProcessesIInv, Open \/ Manual \/ ManualRead
  PROVE  ProcessesIInv'
<1>1. WindowTyped /\ ProcessesTyped /\ ListsInv
  BY TypedParts DEF ProcessesIInv
<1>2. UNCHANGED <<blocks, past, signal, queue, irregular>>
  BY DEF Open, Manual, ManualRead, mainRest, engine, blocks, system
<1>3. worker' \in Workers /\ worker'.got = worker.got
  <2>1. worker \in Workers
    BY <1>1 DEF WindowTyped
  <2>2. worker' = worker \/ worker' = [worker EXCEPT !.at = "start"]
    BY DEF Open, Manual, ManualRead
  <2> QED
    BY <2>1, <2>2, WorkerAt
<1>4. win' \in Windows /\ win'.cache = win.cache /\ win'.rows = win.rows
  <2>1. win \in Windows
    BY <1>1 DEF WindowTyped
  <2>2. CASE Open
    <3> DEFINE s == IF Of(Shown.list, Own) = {} THEN 0
                    ELSE Shown.list[First(Shown.list, Own)].start
    <3>1. s \in 0 .. MaxStarts
      <4>1. CASE Of(Shown.list, Own) = {}
        BY <4>1, ProcessesAssumption
      <4>2. CASE Of(Shown.list, Own) # {}
        <5>1. Shown \in Lists
          BY <1>1, ShownIs
        <5>2. Shown.list \in Seq(Process)
          BY <5>1 DEF Lists
        <5>3. First(Shown.list, Own) \in DOMAIN Shown.list
          BY <4>2, <5>2, FirstOf
        <5>4. Shown.list[First(Shown.list, Own)] \in Process
          BY <5>2, <5>3
        <5>5. Shown.list[First(Shown.list, Own)].start \in 1 .. MaxStarts
          BY <5>4 DEF Process
        <5> QED
          BY <4>2, <5>5, ProcessesAssumption
      <4> QED
        BY <4>1, <4>2
    <3>2. win' = [win EXCEPT !.state = "open", !.thread = TRUE, !.start = s]
      BY <2>2 DEF Open
    <3> HIDE DEF s
    <3> QED
      BY <2>1, <3>1, <3>2 DEF Windows
  <2>3. CASE Manual
    BY <2>1, <2>3 DEF Manual
  <2>4. CASE ManualRead
    <3>1. win' = win \/ win' = [win EXCEPT !.manual = TRUE]
      BY <2>4 DEF ManualRead
    <3> QED
      BY <2>1, <3>1 DEF Windows
  <2> QED
    BY <2>2, <2>3, <2>4
<1>5. /\ man' \in 0 .. 2 /\ misused' \subseteq {"worker", "feedback", "manual"}
      /\ inputs' \in 0 .. MaxInputs
  <2>1. CASE Open
    BY <1>1, <2>1 DEF Open, WindowTyped
  <2>2. CASE Manual
    BY <1>1, <2>2, ProcessesAssumption DEF Manual, Input, WindowTyped
  <2>3. CASE ManualRead
    BY <1>1, <2>3 DEF ManualRead, WindowTyped
  <2> QED
    BY <2>1, <2>2, <2>3
<1>6. WindowTyped'
  BY <1>1, <1>2, <1>3, <1>4, <1>5 DEF WindowTyped
<1> QED
  BY <1>2, <1>3, <1>4, <1>6, CalmInv

-----------------------------------------------------------------------------
(* What the window's thread takes                                          *)

(* What the thread sends was shown.                                        *)
LEMMA LookInv ==
  ASSUME ProcessesIInv, Look
  PROVE  ProcessesIInv'
<1>1. WindowTyped /\ ProcessesTyped /\ ListsInv /\ SteadyInv
  BY TypedParts DEF ProcessesIInv
<1>2. UNCHANGED <<blocks, past, man, inputs, signal, win, misused, irregular>>
  BY DEF Look, workerRest, engine, blocks
<1>3. worker \in Workers /\ win \in Windows /\ queue \in Seq(Queued)
  BY <1>1 DEF WindowTyped
<1>4. worker' \in Workers /\ worker'.got = worker.got
  BY <1>3, WorkerAt DEF Look
<1>5. Shown \in Lists /\ SeenIn(Shown) \subseteq Obs
  BY <1>1, ShownIs
<1>6. /\ queue' \in Seq(Queued) /\ Len(queue') <= MaxQueue
      /\ \A i \in DOMAIN queue' :
           \/ i \in DOMAIN queue /\ queue'[i] = queue[i]
           \/ \E j \in DOMAIN Shown.list :
                queue'[i] = [proc |-> Shown.list[j], time |-> Shown.time]
  <2>1. CASE Of(Shown.list, Own) = {}
    BY <1>1, <2>1 DEF Look, WindowTyped
  <2>2. CASE Of(Shown.list, Own) # {}
    <3> DEFINE j == First(Shown.list, Own)
               m == [proc |-> Shown.list[j], time |-> Shown.time]
    <3>1. Shown.list \in Seq(Process) /\ Shown.time \in 0 .. MaxTime
      BY <1>5 DEF Lists
    <3>2. j \in DOMAIN Shown.list
      BY <2>2, <3>1, FirstOf
    <3>3. Len(queue) < MaxQueue /\ queue' = Append(queue, m)
      BY <2>2 DEF Look
    <3> HIDE DEF j
    <3>4. m \in Queued
      BY <3>1, <3>2 DEF Queued
    <3> HIDE DEF m
    <3>5. /\ queue' \in Seq(Queued) /\ Len(queue') = Len(queue) + 1
          /\ queue'[Len(queue) + 1] = m
          /\ \A i \in 1 .. Len(queue) : queue'[i] = queue[i]
      BY <1>3, <3>3, <3>4, AppendProperties
    <3>6. Len(queue) \in Nat /\ DOMAIN queue = 1 .. Len(queue) /\ DOMAIN queue' = 1 .. Len(queue')
      BY <1>3, <3>5
    <3>7. Len(queue') <= MaxQueue
      BY <3>3, <3>5, <3>6, ProcessesAssumption
    <3>8. \A i \in DOMAIN queue' : i \in DOMAIN queue \/ i = Len(queue) + 1
      BY <3>5, <3>6
    <3> QED
      BY <3>2, <3>5, <3>6, <3>7, <3>8 DEF m
  <2> QED
    BY <2>1, <2>2
<1>7. WindowTyped'
  BY <1>1, <1>2, <1>4, <1>6 DEF WindowTyped
<1>8. Obs' \subseteq Obs
  <2>1. Sent' \subseteq Sent \cup SeenIn(Shown)
    <3> SUFFICES ASSUME NEW i \in DOMAIN queue'
                 PROVE  [start |-> queue'[i].proc.start, time |-> queue'[i].time,
                         net |-> queue'[i].proc.net] \in Sent \cup SeenIn(Shown)
      BY DEF Sent
    <3>1. CASE i \in DOMAIN queue /\ queue'[i] = queue[i]
      BY <3>1 DEF Sent
    <3>2. ASSUME NEW j \in DOMAIN Shown.list,
                 queue'[i] = [proc |-> Shown.list[j], time |-> Shown.time]
          PROVE  [start |-> queue'[i].proc.start, time |-> queue'[i].time,
                  net |-> queue'[i].proc.net] \in SeenIn(Shown)
      <4>1. queue'[i].proc = Shown.list[j] /\ queue'[i].time = Shown.time
        BY <3>2
      <4> QED
        BY <4>1 DEF SeenIn
    <3> QED
      BY <1>6, <3>1, <3>2
  <2>2. Blocks' = Blocks /\ SeenIn(past.seen)' = SeenIn(past.seen)
        /\ SeenIn(worker.got)' = SeenIn(worker.got) /\ Samples' = Samples
    BY <1>2, <1>4 DEF blocks, Blocks, SeenIn, Samples
  <2> QED
    BY <1>5, <2>1, <2>2 DEF Obs
<1>9. irregular' = {} => LowRates'
  BY <1>1, <1>2 DEF SteadyInv, LowRates
<1> QED
  BY <1>2, <1>7, <1>8, <1>9, WindowInv

(* The list the thread takes was shown.                                    *)
LEMMA GetListInv ==
  ASSUME ProcessesIInv, GetList
  PROVE  ProcessesIInv'
<1>1. WindowTyped /\ ProcessesTyped /\ ListsInv /\ SteadyInv
  BY TypedParts DEF ProcessesIInv
<1>2. UNCHANGED <<blocks, past, man, inputs, signal, win, queue, misused, irregular>>
  BY DEF GetList, workerRest, engine, blocks
<1>3. Shown \in Lists /\ SeenIn(Shown) \subseteq Obs
  BY <1>1, ShownIs
<1>4. worker' \in Workers /\ worker'.got = Shown
  BY <1>3 DEF GetList, Workers
<1>5. WindowTyped'
  BY <1>1, <1>2, <1>4 DEF WindowTyped
<1>6. Obs' \subseteq Obs
  <2>1. SeenIn(worker.got)' = SeenIn(Shown)
    BY <1>4 DEF SeenIn
  <2>2. Blocks' = Blocks /\ SeenIn(past.seen)' = SeenIn(past.seen)
        /\ Sent' = Sent /\ Samples' = Samples
    BY <1>2 DEF blocks, Blocks, SeenIn, Sent, Samples
  <2> QED
    BY <1>3, <2>1, <2>2 DEF Obs
<1>7. irregular' = {} => LowRates'
  BY <1>1, <1>2 DEF SteadyInv, LowRates
<1> QED
  BY <1>2, <1>5, <1>6, <1>7, WindowInv

(* What an entry of a rate cache has.                                      *)
LEMMA SampleParts ==
  ASSUME NEW c \in Sampled
  PROVE  c.start \in 0 .. MaxStarts /\ c.time \in 0 .. MaxTime /\ c.abs \in Nat /\ c.rate \in Nat
BY DEF Sampled

(* What a process in a list has.                                           *)
LEMMA ProcessParts ==
  ASSUME NEW proc \in Process
  PROVE  /\ proc.pid \in Pids /\ proc.start \in 1 .. MaxStarts /\ proc.net \in Nat
         /\ proc.start \in 0 .. MaxStarts /\ proc.start # 0
BY DEF Process

(* A new entry with a rate.                                                *)
LEMMA NewIs ==
  ASSUME NEW proc \in Process, NEW time \in 0 .. MaxTime, NEW rate \in Nat
  PROVE  LET e == [New(proc, time) EXCEPT !.rate = rate] IN
         /\ e \in Sampled /\ e.start = proc.start /\ e.time = time /\ e.abs = proc.net
         /\ e.rate = rate
         /\ New(proc, time) = [New(proc, time) EXCEPT !.rate = 0]
<1>1. proc.start \in 0 .. MaxStarts /\ proc.net \in Nat
  BY ProcessParts
<1> QED
  BY <1>1 DEF New, Sampled

(* What a process moved between what the cache has and what is seen.       *)
Between(c, proc, time) ==
  c.start = proc.start =>
    /\ c.time \in 1 .. MaxTime
    /\ c.time <= time => c.abs <= proc.net /\ proc.net - c.abs <= time - c.time
    /\ time <= c.time => proc.net <= c.abs

(* The entry the process list makes, and its rate, which is at most a unit *)
(* a second if no more was moved (process_list.c:1343-1451).               *)
LEMMA ListEntryIs ==
  ASSUME NEW c \in Sampled, NEW proc \in Process, NEW time \in 0 .. MaxTime
  PROVE  LET e == ListEntry(c, proc, time) IN
         /\ e \in Sampled /\ e.start = proc.start /\ e.time = time /\ e.abs = proc.net
         /\ Between(c, proc, time) => e.rate <= 1
<1> DEFINE d == IF c.time # 0 /\ time > c.time THEN time - c.time ELSE 1
           a == proc.net - c.abs
           r == IF c.abs # 0 /\ proc.net >= c.abs THEN a \div d ELSE 0
           rate == IF c.start # proc.start THEN 0 ELSE r
<1>1. c.start \in 0 .. MaxStarts /\ c.time \in 0 .. MaxTime /\ c.abs \in Nat /\ c.rate \in Nat
  BY SampleParts
<1>2. proc.start \in 0 .. MaxStarts /\ proc.net \in Nat
  BY ProcessParts
<1>3. time \in Nat /\ c.time \in Nat
  BY <1>1, ProcessesAssumption
<1>4. d \in Nat /\ d > 0
  BY <1>3
<1>5. proc.net >= c.abs => a \in Nat
  BY <1>1, <1>2
<1>6. Between(c, proc, time) /\ c.start = proc.start /\ proc.net >= c.abs => a <= d
  BY <1>1, <1>2, <1>3 DEF Between
<1>7. ListEntry(c, proc, time) = [New(proc, time) EXCEPT !.rate = rate]
  <2>1. CASE c.start # proc.start
    <3>1. ListEntry(c, proc, time) = New(proc, time) /\ rate = 0
      BY <2>1 DEF ListEntry
    <3>2. New(proc, time) = [New(proc, time) EXCEPT !.rate = 0]
      <4>1. 0 \in Nat
        OBVIOUS
      <4> QED
        BY <4>1, NewIs
    <3> HIDE DEF rate
    <3> QED
      BY <3>1, <3>2
  <2>2. CASE c.start = proc.start
    BY <2>2 DEF ListEntry
  <2> QED
    BY <2>1, <2>2
<1> HIDE DEF d, a
<1>8. rate \in Nat /\ (Between(c, proc, time) => rate <= 1)
  BY <1>4, <1>5, <1>6, DivLow
<1> HIDE DEF rate
<1> QED
  BY <1>7, <1>8, NewIs

(* The entry the window of one process makes, likewise; the rate that      *)
(* another process left behind is low if it was (process_view.c:498-610).  *)
LEMMA ViewEntryIs ==
  ASSUME NEW c \in Sampled, NEW proc \in Process, NEW time \in 0 .. MaxTime
  PROVE  LET e == ViewEntry(c, proc, time) IN
         /\ e \in Sampled
         /\ e = c \/ (e.start = proc.start /\ e.time = time /\ e.abs = proc.net)
         /\ e.start = proc.start
         /\ Between(c, proc, time) /\ c.rate <= 1 => e.rate <= 1
<1> DEFINE d == time - c.time
           a == proc.net - c.abs
           r == IF proc.net >= c.abs THEN a \div d ELSE 0
<1>1. c.start \in 0 .. MaxStarts /\ c.time \in 0 .. MaxTime /\ c.abs \in Nat /\ c.rate \in Nat
  BY SampleParts
<1>2. proc.start \in 0 .. MaxStarts /\ proc.net \in Nat
  BY ProcessParts
<1>3. time \in Nat /\ c.time \in Nat
  BY <1>1, ProcessesAssumption
<1>4. CASE c.start # proc.start
  <2>1. ViewEntry(c, proc, time) = [New(proc, time) EXCEPT !.rate = c.rate]
    BY <1>4 DEF ViewEntry
  <2> QED
    BY <1>1, <2>1, NewIs
<1>5. CASE c.start = proc.start /\ time <= c.time
  BY <1>5 DEF ViewEntry
<1>6. CASE c.start = proc.start /\ ~(time <= c.time)
  <2>1. ViewEntry(c, proc, time) = [New(proc, time) EXCEPT !.rate = r]
    BY <1>6 DEF ViewEntry
  <2>2. d \in Nat /\ d > 0
    BY <1>3, <1>6
  <2>3. proc.net >= c.abs => a \in Nat
    BY <1>1, <1>2
  <2>4. Between(c, proc, time) => a <= d
    BY <1>1, <1>2, <1>3, <1>6 DEF Between
  <2> HIDE DEF a, d
  <2>5. r \in Nat /\ (Between(c, proc, time) => r <= 1)
    BY <2>2, <2>3, <2>4, DivLow
  <2> HIDE DEF r
  <2> QED
    BY <2>1, <2>5, NewIs
<1> QED
  BY <1>4, <1>5, <1>6

(* What the cache has and what is seen are both known.                     *)
LEMMA BetweenIs ==
  ASSUME Steady(Obs), Known(Obs), win \in Windows, now \in 0 .. MaxTime,
         NEW p \in Pids, NEW proc \in Process, NEW time \in 0 .. MaxTime,
         [start |-> proc.start, time |-> time, net |-> proc.net] \in Obs
  PROVE  Between(win.cache[p], proc, time)
<1> DEFINE c == win.cache[p]
           O == Obs
           a == [start |-> c.start, time |-> c.time, net |-> c.abs]
           b == [start |-> proc.start, time |-> time, net |-> proc.net]
<1> SUFFICES ASSUME c.start = proc.start
             PROVE  /\ c.time \in 1 .. MaxTime
                    /\ c.time <= time => c.abs <= proc.net /\ proc.net - c.abs <= time - c.time
                    /\ time <= c.time => proc.net <= c.abs
  BY DEF Between
<1>1. c.start # 0
  BY ProcessParts
<1>2. a \in O
  BY <1>1 DEF Obs, Samples
<1>3. b \in O
  OBVIOUS
<1>4. a.start = b.start /\ a.time = c.time /\ a.net = c.abs /\ b.time = time /\ b.net = proc.net
  OBVIOUS
<1>5. \A x, y \in O : x.start = y.start /\ x.time <= y.time =>
        x.net <= y.net /\ y.net - x.net <= y.time - x.time
  BY DEF Steady
<1>6. a.time \in 1 .. now
  BY <1>2 DEF Known
<1> HIDE DEF a, b, c, O
<1>7. c.time \in 1 .. MaxTime
  BY <1>4, <1>6, ProcessesAssumption
<1> QED
  BY <1>2, <1>3, <1>4, <1>5, <1>7

(* The rates of the process list keep the invariant.                       *)
LEMMA RatesInv ==
  ASSUME ProcessesIInv, Rates
  PROVE  ProcessesIInv'
<1> DEFINE got == worker.got
           entry == [p \in Pids |->
             IF Of(got.list, p) = {} THEN NoEntry
             ELSE ListEntry(win.cache[p], got.list[First(got.list, p)], Shown.time)]
<1>1. WindowTyped /\ ProcessesTyped /\ ListsInv /\ SteadyInv
  BY TypedParts DEF ProcessesIInv
<1>2. /\ UNCHANGED <<blocks, past, man, inputs, signal, queue, misused>>
      /\ win' = [win EXCEPT !.cache = entry, !.rows = entry]
      /\ worker' = [at |-> Round, got |-> NoList]
      /\ irregular' = Late(got.time, Shown.time)
  BY DEF Rates, workerRest, engine, blocks
<1>3. worker \in Workers /\ win \in Windows /\ irregular \subseteq {"dump", "clock"}
  BY <1>1 DEF WindowTyped
<1>4. Shown \in Lists /\ got \in Lists /\ NoList \in Lists /\ SeenIn(NoList) = {}
  BY <1>1, <1>3, ShownIs, NoListIs DEF Workers
<1>5. got.list \in Seq(Process) /\ Shown.time \in 0 .. MaxTime /\ win.cache \in [Pids -> Sampled]
  BY <1>3, <1>4 DEF Lists, Windows
<1>6. worker' \in Workers
  BY <1>2, <1>4 DEF Workers, Round
<1>7. NoEntry \in Sampled /\ NoEntry.start = 0 /\ NoEntry.rate = 0
  BY ProcessesAssumption DEF NoEntry, Sampled
(* What is made of one pid.                                                *)
<1>8. ASSUME NEW p \in Pids
      PROVE  /\ entry[p] \in Sampled
             /\ \/ entry[p].start = 0 /\ entry[p].rate = 0
                \/ \E i \in DOMAIN got.list :
                     /\ got.list[i] \in Process
                     /\ entry[p].start = got.list[i].start
                     /\ entry[p].time = Shown.time /\ entry[p].abs = got.list[i].net
                     /\ Between(win.cache[p], got.list[i], Shown.time) => entry[p].rate <= 1
  <2>1. CASE Of(got.list, p) = {}
    BY <1>7, <2>1
  <2>2. CASE Of(got.list, p) # {}
    <3> DEFINE i == First(got.list, p)
               proc == got.list[i]
    <3>1. i \in DOMAIN got.list
      BY <1>5, <2>2, FirstOf
    <3>2. entry[p] = ListEntry(win.cache[p], proc, Shown.time)
      BY <2>2
    <3> HIDE DEF i, entry, got
    <3>3. proc \in Process
      BY <1>5, <3>1
    <3>4. win.cache[p] \in Sampled
      BY <1>5
    <3> HIDE DEF proc
    <3>5. /\ entry[p] \in Sampled
          /\ entry[p].start = proc.start
          /\ entry[p].time = Shown.time /\ entry[p].abs = proc.net
          /\ Between(win.cache[p], proc, Shown.time) => entry[p].rate <= 1
      BY <1>5, <3>2, <3>3, <3>4, ListEntryIs
    <3> QED
      BY <3>1, <3>3, <3>5 DEF proc
  <2> QED
    BY <2>1, <2>2
<1>a. DOMAIN entry = Pids
  OBVIOUS
<1> HIDE DEF entry
<1>9. entry \in [Pids -> Sampled]
  <2>1. entry = [p \in Pids |-> entry[p]]
    BY DEF entry
  <2> QED
    BY <1>8, <2>1
<1>10. win' \in Windows /\ win'.cache = entry /\ win'.rows = entry
  BY <1>2, <1>3, <1>9 DEF Windows
<1>11. irregular' \subseteq {"dump", "clock"} /\ irregular \subseteq irregular'
       /\ (irregular' = {} => irregular = {} /\ got.time = Shown.time)
  BY <1>2, <1>3 DEF Late
<1>12. WindowTyped'
  BY <1>1, <1>2, <1>6, <1>10, <1>11 DEF WindowTyped
<1>13. ASSUME irregular' = {}
       PROVE  Obs' \subseteq Obs /\ LowRates'
  <2>1. irregular = {} /\ got.time = Shown.time
    BY <1>11, <1>13
  <2>2. Steady(Obs) /\ Known(Obs)
    BY <1>1, <2>1 DEF SteadyInv
  <2>3. SeenIn(got) \subseteq Obs
    BY DEF Obs
  <2>4. \A i \in DOMAIN got.list :
          [start |-> got.list[i].start, time |-> Shown.time, net |-> got.list[i].net] \in Obs
    BY <2>1, <2>3 DEF SeenIn
  <2>5. Samples' \subseteq Obs
    <3> SUFFICES ASSUME NEW p \in Pids, entry[p].start # 0
                 PROVE  [start |-> entry[p].start, time |-> entry[p].time,
                         net |-> entry[p].abs] \in Obs
      BY <1>10 DEF Samples
    <3> HIDE DEF got
    <3>1. PICK i \in DOMAIN got.list :
            /\ entry[p].start = got.list[i].start
            /\ entry[p].time = Shown.time /\ entry[p].abs = got.list[i].net
      BY <1>8
    <3> QED
      BY <2>4, <3>1
  <2>6. Obs' \subseteq Obs
    <3>1. Blocks' = Blocks /\ SeenIn(past.seen)' = SeenIn(past.seen) /\ Sent' = Sent
      BY <1>2 DEF blocks, Blocks, SeenIn, Sent
    <3>2. SeenIn(worker.got)' = {}
      BY <1>2, <1>4 DEF SeenIn
    <3>3. /\ Blocks \subseteq Obs /\ SeenIn(past.seen) \subseteq Obs /\ Sent \subseteq Obs
          /\ Obs' = Blocks' \cup SeenIn(past.seen)' \cup SeenIn(worker.got)' \cup Sent' \cup Samples'
      BY DEF Obs
    <3> QED
      BY <2>5, <3>1, <3>2, <3>3
  <2>7. LowRates'
    <3>1. ASSUME NEW p \in Pids PROVE entry[p].rate <= 1
      <4> HIDE DEF got
      <4>1. CASE entry[p].rate = 0
        BY <4>1
      <4>2. ASSUME NEW i \in DOMAIN got.list, got.list[i] \in Process,
                   Between(win.cache[p], got.list[i], Shown.time) => entry[p].rate <= 1
            PROVE  entry[p].rate <= 1
        <5>1. now \in 0 .. MaxTime
          BY <1>1 DEF ProcessesTyped
        <5>2. Between(win.cache[p], got.list[i], Shown.time)
          BY <1>3, <1>5, <2>2, <2>4, <4>2, <5>1, BetweenIs
        <5> QED
          BY <4>2, <5>2
      <4> QED
        BY <1>8, <4>1, <4>2
    <3> QED
      BY <1>10, <3>1 DEF LowRates
  <2> QED
    BY <2>6, <2>7
<1> QED
  BY <1>2, <1>11, <1>12, <1>13, WindowInv

(* A message is handled or dropped; either way there is one less.          *)
LEMMA SentLess ==
  ASSUME queue \in Seq(Queued), queue # <<>>, queue' = Tail(queue)
  PROVE  /\ Head(queue) \in Queued /\ queue' \in Seq(Queued) /\ Len(queue') <= Len(queue)
         /\ Sent' \subseteq Sent
         /\ [start |-> Head(queue).proc.start, time |-> Head(queue).time,
             net |-> Head(queue).proc.net] \in Sent
<1>1. /\ Len(queue) \in Nat \ {0} /\ Head(queue) = queue[1] /\ queue' \in Seq(Queued)
      /\ Len(queue') = Len(queue) - 1
      /\ \A i \in 1 .. Len(queue) - 1 : queue'[i] = queue[i + 1]
  OBVIOUS
<1>2. DOMAIN queue = 1 .. Len(queue) /\ DOMAIN queue' = 1 .. Len(queue) - 1 /\ 1 \in DOMAIN queue
  BY <1>1
<1>3. Head(queue) \in Queued
  BY <1>1, <1>2
<1>4. \A i \in DOMAIN queue' : i + 1 \in DOMAIN queue /\ queue'[i] = queue[i + 1]
  BY <1>1, <1>2
<1>5. Sent' \subseteq Sent
  BY <1>4 DEF Sent
<1> QED
  BY <1>1, <1>2, <1>3, <1>5 DEF Sent

(* The rates of the window of one process keep the invariant.              *)
LEMMA FeedbackInv ==
  ASSUME ProcessesIInv, Feedback
  PROVE  ProcessesIInv'
<1> DEFINE m == Head(queue)
           proc == m.proc
           time == live.time
           c == win.cache[Own]
           new == ViewEntry(c, proc, time)
<1>1. WindowTyped /\ ProcessesTyped /\ ListsInv /\ SteadyInv
  BY TypedParts DEF ProcessesIInv
<1>2. UNCHANGED <<blocks, past, man, inputs, signal, worker>>
  BY DEF Feedback, mainRest, engine, blocks, system
<1>3. /\ win \in Windows /\ queue \in Seq(Queued) /\ irregular \subseteq {"dump", "clock"}
      /\ Len(queue) <= MaxQueue /\ misused \subseteq {"worker", "feedback", "manual"}
      /\ live \in Lists /\ now \in 0 .. MaxTime /\ Own \in Pids
  BY <1>1, ProcessesAssumption DEF WindowTyped, ProcessesTyped
<1>4. /\ m \in Queued /\ queue' \in Seq(Queued) /\ Len(queue') <= Len(queue)
      /\ Sent' \subseteq Sent
      /\ [start |-> proc.start, time |-> m.time, net |-> proc.net] \in Sent
  <2>1. queue # <<>> /\ queue' = Tail(queue)
    BY DEF Feedback
  <2> QED
    BY <1>3, <2>1, SentLess
<1>5. proc \in Process /\ m.time \in 0 .. MaxTime /\ time \in 0 .. MaxTime /\ c \in Sampled
  BY <1>3, <1>4 DEF Queued, Lists, Windows
<1>6. Len(queue') <= MaxQueue
  <2>1. Len(queue) \in Nat /\ Len(queue') \in Nat
    BY <1>3, <1>4
  <2> QED
    BY <1>3, <1>4, <2>1, ProcessesAssumption
<1>7. /\ Blocks' = Blocks /\ SeenIn(past.seen)' = SeenIn(past.seen)
      /\ SeenIn(worker.got)' = SeenIn(worker.got)
  BY <1>2 DEF blocks, Blocks, SeenIn
<1>8. CASE /\ win' = ViewUpdate(proc)
           /\ irregular' = Late(m.time, live.time)
           /\ UNCHANGED misused
  <2> DEFINE row == Row(c, proc, new)
             f == [win.cache EXCEPT ![Own] = new]
             g == [win.rows EXCEPT ![Own] = row]
             b == (win.buttons \ {"start"}) \cup {"stop"}
  <2>1. /\ new \in Sampled
        /\ new = c \/ (new.start = proc.start /\ new.time = time /\ new.abs = proc.net)
        /\ Between(c, proc, time) /\ c.rate <= 1 => new.rate <= 1
    <3> HIDE DEF c, proc, time
    <3> QED
      BY <1>5, ViewEntryIs
  <2>2. new.rate \in Nat /\ new.time \in 0 .. MaxTime
    BY <2>1, SampleParts
  <2> HIDE DEF new
  <2>3. row \in Sampled /\ (new.rate <= 1 => row.rate <= 1)
    <3> DEFINE rate == IF c.start # proc.start THEN 0 ELSE new.rate
    <3>1. rate \in Nat /\ (new.rate <= 1 => rate <= 1)
      BY <2>2
    <3>2. row = [New(proc, new.time) EXCEPT !.rate = rate]
      BY DEF Row
    <3> HIDE DEF rate, proc, row
    <3> QED
      BY <1>5, <2>2, <3>1, <3>2, NewIs
  <2>4. win' = [win EXCEPT !.cache[Own] = new, !.rows[Own] = row, !.buttons = b]
    BY <1>8 DEF ViewUpdate, new
  <2> HIDE DEF row
  <2>5. f \in [Pids -> Sampled] /\ g \in [Pids -> Sampled] /\ b \in SUBSET Buttons
    BY <1>3, <2>1, <2>3 DEF Windows, Buttons
  <2>6. /\ f[Own] = new /\ g[Own] = row
        /\ \A p \in Pids : p # Own => f[p] = win.cache[p] /\ g[p] = win.rows[p]
    BY <1>3 DEF Windows
  <2>7. win' = [win EXCEPT !.cache = f, !.rows = g, !.buttons = b]
    BY <1>3, <2>4 DEF Windows
  <2> HIDE DEF f, g, b
  <2>8. win' \in Windows /\ win'.cache = f /\ win'.rows = g
    BY <1>3, <2>5, <2>7 DEF Windows
  <2>9. irregular' \subseteq {"dump", "clock"} /\ irregular \subseteq irregular'
         /\ (irregular' = {} => irregular = {} /\ m.time = time)
    BY <1>3, <1>8 DEF Late
  <2>10. WindowTyped'
    BY <1>1, <1>2, <1>4, <1>6, <1>8, <2>8, <2>9 DEF WindowTyped
  <2>11. ASSUME irregular' = {}
         PROVE  Obs' \subseteq Obs /\ LowRates'
    <3>1. irregular = {} /\ m.time = time
      BY <2>9, <2>11
    <3>2. Steady(Obs) /\ Known(Obs) /\ LowRates
      BY <1>1, <3>1 DEF SteadyInv
    <3>3. [start |-> proc.start, time |-> time, net |-> proc.net] \in Obs
      BY <1>4, <3>1 DEF Obs
    <3> HIDE DEF proc, time
    <3>4. Between(c, proc, time)
      BY <1>3, <1>5, <3>2, <3>3, BetweenIs
    <3>5. Samples' \subseteq Obs
      <4> SUFFICES ASSUME NEW p \in Pids, f[p].start # 0
                   PROVE  [start |-> f[p].start, time |-> f[p].time, net |-> f[p].abs] \in Obs
        BY <2>8 DEF Samples
      <4>1. CASE f[p] = win.cache[p]
        BY <4>1 DEF Obs, Samples
      <4>2. CASE /\ f[p].start = proc.start /\ f[p].time = time /\ f[p].abs = proc.net
        BY <3>3, <4>2
      <4> QED
        BY <2>1, <2>6, <4>1, <4>2
    <3>6. Obs' \subseteq Obs
      <4>1. /\ Blocks \subseteq Obs /\ SeenIn(past.seen) \subseteq Obs /\ Sent \subseteq Obs
            /\ SeenIn(worker.got) \subseteq Obs
            /\ Obs' = Blocks' \cup SeenIn(past.seen)' \cup SeenIn(worker.got)' \cup Sent' \cup Samples'
        BY DEF Obs
      <4> QED
        BY <1>4, <1>7, <3>5, <4>1
    <3>7. LowRates'
      <4>1. new.rate <= 1 /\ row.rate <= 1
        BY <1>3, <2>1, <2>3, <3>2, <3>4 DEF LowRates
      <4>2. \A p \in Pids : f[p].rate <= 1 /\ g[p].rate <= 1
        BY <2>6, <3>2, <4>1 DEF LowRates
      <4> QED
        BY <2>8, <4>2 DEF LowRates
    <3> QED
      BY <3>6, <3>7
  <2> QED
    BY <1>2, <2>9, <2>10, <2>11, WindowInv
<1>9. CASE /\ win' = win \/ win' = ProcGone
           /\ misused' = misused \/ misused' = misused \cup {"feedback"}
           /\ UNCHANGED irregular
  <2>1. win' \in Windows /\ win'.cache = win.cache /\ win'.rows = win.rows
    <3>1. CASE win' = win
      BY <1>3, <3>1
    <3>2. CASE win' = [win EXCEPT !.gone = TRUE, !.buttons = {}, !.thread = FALSE]
      BY <1>3, <3>2 DEF Windows
    <3> QED
      BY <1>9, <3>1, <3>2 DEF ProcGone
  <2>2. misused' \subseteq {"worker", "feedback", "manual"}
    BY <1>3, <1>9
  <2>3. WindowTyped'
    BY <1>1, <1>2, <1>4, <1>6, <1>9, <2>1, <2>2 DEF WindowTyped
  <2>4. ASSUME irregular' = {}
        PROVE  Obs' \subseteq Obs /\ LowRates'
    <3>1. LowRates
      BY <1>1, <1>9, <2>4 DEF SteadyInv
    <3>2. LowRates'
      BY <2>1, <3>1 DEF LowRates
    <3>3. Samples' = Samples
      BY <2>1 DEF Samples
    <3> QED
      BY <1>4, <1>7, <3>2, <3>3 DEF Obs
  <2> QED
    BY <1>2, <1>9, <2>3, <2>4, WindowInv
<1> QED
  BY <1>8, <1>9 DEF Feedback

(* No entry has no rate.                                                   *)
LEMMA NoEntryIs ==
  NoEntry \in Sampled /\ NoEntry.start = 0 /\ NoEntry.rate = 0 /\ 0 \in 0 .. MaxStarts
<1>1. 0 \in 0 .. MaxStarts /\ 0 \in 0 .. MaxTime
  BY ProcessesAssumption
<1> QED
  BY <1>1 DEF NoEntry, Sampled

(* Closing the window keeps the invariant.                                 *)
LEMMA CloseInv ==
  ASSUME ProcessesIInv, Close
  PROVE  ProcessesIInv'
<1>1. WindowTyped /\ ProcessesTyped /\ ListsInv /\ SteadyInv
  BY TypedParts DEF ProcessesIInv
<1>2. UNCHANGED <<blocks, past, man, inputs, signal, misused, irregular>> /\ kind = "view"
  BY DEF Close, mainRest, engine, blocks, system
<1>3. /\ worker \in Workers /\ queue \in Seq(Queued) /\ Len(queue) <= MaxQueue
  BY <1>1 DEF WindowTyped
<1>4. /\ win'.cache = [p \in Pids |-> NoEntry] /\ win'.rows = [p \in Pids |-> NoEntry]
      /\ win' \in Windows
  <2>1. PICK how \in {"", "gone", "late"} :
          win' = Freed((IF man > 0 THEN {"manual"} ELSE {}) \cup ({how} \ {""}))
    BY DEF Close
  <2> DEFINE h == (IF man > 0 THEN {"manual"} ELSE {}) \cup ({how} \ {""})
             none == [p \in Pids |-> NoEntry]
  <2>2. h \in SUBSET {"gone", "late", "manual"}
    OBVIOUS
  <2> HIDE DEF h
  <2>b. Buttons \in SUBSET Buttons
    OBVIOUS
  <2>3. none \in [Pids -> Sampled]
    BY NoEntryIs
  <2>4. win' = [state |-> "freed", start |-> 0, gone |-> FALSE, buttons |-> Buttons,
                thread |-> FALSE, manual |-> FALSE, how |-> h, cache |-> none, rows |-> none]
    BY <2>1 DEF Freed, NewWindow, h
  <2> HIDE DEF none
  <2>5. win'.cache = none /\ win'.rows = none /\ win' \in Windows
    BY <2>2, <2>3, <2>4, <2>b, NoEntryIs DEF Windows
  <2> QED
    BY <2>5 DEF none
<1>5. /\ worker' \in Workers /\ worker'.got = worker.got
      /\ queue' \in Seq(Queued) /\ Len(queue') <= MaxQueue /\ Sent' \subseteq Sent
  <2>1. (worker' = [worker EXCEPT !.at = "ended"] /\ queue' = <<>>) \/ UNCHANGED <<worker, queue>>
    BY DEF Close
  <2>2. CASE worker' = [worker EXCEPT !.at = "ended"] /\ queue' = <<>>
    <3>1. queue' \in Seq(Queued) /\ Len(queue') = 0 /\ DOMAIN queue' = {}
      BY <2>2
    <3>2. Sent' = {}
      BY <3>1 DEF Sent
    <3> QED
      BY <1>3, <2>2, <3>1, <3>2, WorkerAt, ProcessesAssumption
  <2>3. CASE UNCHANGED <<worker, queue>>
    BY <1>3, <2>3 DEF Sent
  <2> QED
    BY <2>1, <2>2, <2>3
<1>6. WindowTyped'
  BY <1>1, <1>2, <1>4, <1>5 DEF WindowTyped
<1>7. Obs' \subseteq Obs
  <2>1. Samples' = {}
    BY <1>4 DEF Samples, NoEntry
  <2>2. Blocks' = Blocks /\ SeenIn(past.seen)' = SeenIn(past.seen)
        /\ SeenIn(worker.got)' = SeenIn(worker.got)
    BY <1>2, <1>5 DEF blocks, Blocks, SeenIn
  <2> QED
    BY <1>5, <2>1, <2>2 DEF Obs
<1>8. LowRates'
  BY <1>4 DEF LowRates, NoEntry
<1> QED
  BY <1>2, <1>6, <1>7, <1>8, WindowInv

(* What does not touch the window keeps what holds of it.                  *)
LEMMA ViewKept ==
  ASSUME ViewIInv, UNCHANGED <<kind, win, worker, queue, man, misused>>
  PROVE  ViewIInv'
BY DEF ViewIInv, FreedInv, KeepsToItsProcess, MisuseExplained

(* The thread's steps keep what holds of the window: one that finds the    *)
(* view freed was not waited for.                                          *)
LEMMA ViewWorker ==
  ASSUME WindowTyped, ViewIInv, Start \/ Wake \/ Timeout \/ Look \/ GetList
  PROVE  ViewIInv'
<1>1. worker \in Workers
  BY DEF WindowTyped
<1>2. UNCHANGED <<kind, win, man>>
  BY DEF Start, Wake, Timeout, Look, GetList, workerRest
<1>3. win.state = "freed" => Round = "ended"
  BY DEF Round, Cancelled
<1>4. Round \in {"wait", "ended"}
  BY DEF Round
<1> USE DEF ViewIInv, FreedInv, KeepsToItsProcess, MisuseExplained
<1>5. CASE Start
  <2>1. worker'.at = Round /\ worker.at = "start" /\ UNCHANGED <<queue, misused>>
    BY <1>1, <1>4, <1>5, WorkerAt DEF Start
  <2> QED
    BY <1>2, <1>3, <1>4, <2>1
<1>6. CASE Wake
  <2>1. CASE win.state = "freed"
    <3>1. /\ worker'.at = "ended" /\ worker.at = "wait" /\ misused' = misused \cup {"worker"}
          /\ queue' = queue
      BY <1>1, <1>6, <2>1, WorkerAt DEF Wake
    <3> QED
      BY <1>2, <2>1, <3>1
  <2>2. CASE win.state # "freed"
    <3>1. worker'.at = "look" /\ worker.at = "wait" /\ UNCHANGED <<queue, misused>>
      BY <1>1, <1>6, <2>2, WorkerAt DEF Wake
    <3> QED
      BY <1>2, <2>2, <3>1
  <2> QED
    BY <2>1, <2>2
<1>7. CASE Timeout
  <2>1. worker'.at = "ended" /\ worker.at = "wait" /\ UNCHANGED <<queue, misused>>
    BY <1>1, <1>7, WorkerAt DEF Timeout
  <2> QED
    BY <1>2, <2>1
<1>8. CASE Look
  <2>1. worker'.at = Round /\ worker.at = "look" /\ misused' = misused /\ kind = "view"
    BY <1>1, <1>4, <1>8, WorkerAt DEF Look
  <2> QED
    BY <1>2, <1>3, <1>4, <2>1
<1>9. CASE GetList
  <2>1. worker'.at = "rates" /\ worker.at = "look" /\ UNCHANGED <<queue, misused>> /\ kind = "list"
    BY <1>9 DEF GetList
  <2> QED
    BY <1>2, <2>1
<1> QED
  BY <1>5, <1>6, <1>7, <1>8, <1>9

(* Rates are of the process list only.                                     *)
LEMMA ViewRates ==
  ASSUME WindowTyped, ViewIInv, Rates
  PROVE  ViewIInv'
<1>1. worker \in Workers /\ win \in Windows
  BY DEF WindowTyped
<1>2. /\ worker.at = "rates" /\ worker'.at = Round /\ UNCHANGED <<kind, queue, man, misused>>
  BY DEF Rates, workerRest
<1>3. UNCHANGED <<win.state, win.start, win.gone, win.buttons, win.how>>
  <2>1. \E entry : win' = [win EXCEPT !.cache = entry, !.rows = entry]
    BY DEF Rates
  <2> QED
    BY <1>1, <2>1 DEF Windows
<1>4. kind = "list" /\ win.state = "open" /\ Round \in {"wait", "ended"}
  BY <1>2 DEF ViewIInv, FreedInv, Round
<1> QED
  BY <1>2, <1>3, <1>4 DEF ViewIInv, FreedInv, KeepsToItsProcess, MisuseExplained

(* Opening and the manual keep what holds of the window.                   *)
LEMMA ViewMain ==
  ASSUME WindowTyped, ViewIInv, Open \/ Manual \/ ManualRead
  PROVE  ViewIInv'
<1>1. worker \in Workers /\ win \in Windows /\ man \in 0 .. 2
  BY DEF WindowTyped
<1>2. UNCHANGED <<kind, queue>>
  BY DEF Open, Manual, ManualRead, mainRest
<1> USE DEF ViewIInv, FreedInv, KeepsToItsProcess, MisuseExplained
<1>3. CASE Open
  <2>1. /\ win.state = "new" /\ worker'.at = "start" /\ UNCHANGED <<man, misused>>
    BY <1>1, <1>3, WorkerAt DEF Open
  <2>2. win'.state = "open" /\ UNCHANGED <<win.gone, win.buttons, win.how, win.rows>>
    <3>1. \E s : win' = [win EXCEPT !.state = "open", !.thread = TRUE, !.start = s]
      BY <1>3 DEF Open
    <3> QED
      BY <1>1, <3>1 DEF Windows
  <2>3. kind # "list"
    BY <2>1
  <2> QED
    BY <1>2, <2>1, <2>2, <2>3
<1>4. CASE Manual
  <2>1. win.state = "open" /\ UNCHANGED <<win, worker, misused>>
    BY <1>4 DEF Manual
  <2> QED
    BY <1>2, <2>1
<1>5. CASE ManualRead
  <2>1. man > 0 /\ man' = man - 1 /\ worker' = worker
    BY <1>5 DEF ManualRead
  <2>2. man' > 0 => man > 0
    BY <1>1, <2>1
  <2>3. CASE win.state = "freed"
    <3>1. misused' = misused \cup {"manual"} /\ win' = win
      BY <1>5, <2>3 DEF ManualRead
    <3> QED
      BY <1>2, <2>1, <2>2, <2>3, <3>1
  <2>4. CASE win.state # "freed"
    <3>1. win' = [win EXCEPT !.manual = TRUE] /\ misused' = misused
      BY <1>5, <2>4 DEF ManualRead
    <3>2. UNCHANGED <<win.state, win.start, win.gone, win.buttons, win.how, win.rows>>
      BY <1>1, <3>1 DEF Windows
    <3> QED
      BY <1>2, <2>1, <2>2, <2>4, <3>1, <3>2
  <2> QED
    BY <2>3, <2>4
<1> QED
  BY <1>3, <1>4, <1>5

(* A message shows the process the window was opened on, or none.          *)
LEMMA ViewFeedback ==
  ASSUME ProcessesTyped, ViewIInv, Feedback
  PROVE  ViewIInv'
<1>1. win \in Windows /\ Own \in Pids /\ kind \in {"view", "list"}
  BY TypedParts, ProcessesAssumption DEF WindowTyped, ProcessesTyped
<1>2. UNCHANGED <<kind, worker, man>> /\ queue # <<>>
  BY DEF Feedback, mainRest
<1>3. kind = "view" /\ win.state # "new"
  <2>1. kind # "list" /\ win.state # "new"
    BY <1>2 DEF ViewIInv, FreedInv
  <2>2. win.state \in {"new", "open", "freed"}
    BY <1>1 DEF Windows
  <2> QED
    BY <1>1, <2>1
<1> DEFINE m == Head(queue)
<1> USE DEF ViewIInv, FreedInv, KeepsToItsProcess, MisuseExplained
<1>4. CASE win.state = "freed"
  <2>1. misused' = misused \cup {"feedback"} /\ win' = win
    BY <1>4 DEF Feedback
  <2> QED
    BY <1>2, <1>4, <2>1
<1>5. CASE win.state # "freed" /\ win.start # 0 /\ m.proc.start # win.start
  <2>1. win' = [win EXCEPT !.gone = TRUE, !.buttons = {}, !.thread = FALSE] /\ misused' = misused
    BY <1>5 DEF Feedback, ProcGone
  <2>2. /\ UNCHANGED <<win.state, win.start, win.how, win.rows>>
        /\ win'.buttons = {}
    BY <1>1, <2>1 DEF Windows
  <2> QED
    BY <1>2, <1>3, <1>5, <2>1, <2>2
<1>6. CASE win.state # "freed" /\ ~(win.start # 0 /\ m.proc.start # win.start) /\ win.gone
  <2>1. win' = win /\ misused' = misused
    BY <1>6 DEF Feedback
  <2> QED
    BY <1>2, <1>3, <1>6, <2>1
<1>7. CASE win.state # "freed" /\ ~(win.start # 0 /\ m.proc.start # win.start) /\ ~win.gone
  <2> DEFINE new == ViewEntry(win.cache[Own], m.proc, live.time)
             row == Row(win.cache[Own], m.proc, new)
  <2>1. win' = ViewUpdate(m.proc) /\ misused' = misused
    BY <1>7 DEF Feedback
  <2>2. win' = [win EXCEPT !.cache[Own] = new, !.rows[Own] = row,
                           !.buttons = (@ \ {"start"}) \cup {"stop"}]
    BY <2>1 DEF ViewUpdate
  <2>3. row.start = m.proc.start
    BY DEF Row, New
  <2> HIDE DEF row, new
  <2>4. /\ UNCHANGED <<win.state, win.start, win.how, win.gone>>
        /\ win'.rows[Own] = row
    BY <1>1, <2>2 DEF Windows
  <2>5. kind' = "view" /\ (win'.start # 0 => win'.rows[Own].start = win'.start)
    BY <1>2, <1>3, <1>7, <2>3, <2>4
  <2> QED
    BY <1>2, <1>3, <1>7, <2>1, <2>4, <2>5
<1> QED
  BY <1>4, <1>5, <1>6, <1>7

(* Closing keeps what holds of the window: it notes who may still use the  *)
(* view.                                                                   *)
LEMMA ViewClose ==
  ASSUME WindowTyped, ViewIInv, Close
  PROVE  ViewIInv'
<1>1. worker \in Workers
  BY DEF WindowTyped
<1>2. UNCHANGED <<kind, man, misused>> /\ kind = "view" /\ win.state = "open"
  BY DEF Close, mainRest
<1>3. PICK how \in {"", "gone", "late"} :
        /\ how = "late" => worker.at = "look"
        /\ win' = Freed((IF man > 0 THEN {"manual"} ELSE {}) \cup ({how} \ {""}))
        /\ IF how = "" THEN /\ worker' = [worker EXCEPT !.at = "ended"]
                            /\ queue' = <<>>
           ELSE UNCHANGED <<worker, queue>>
  BY DEF Close
<1>4. /\ win'.state = "freed" /\ win'.gone = FALSE /\ win'.start = 0
      /\ win'.how = (IF man > 0 THEN {"manual"} ELSE {}) \cup ({how} \ {""})
  BY <1>3 DEF Freed, NewWindow
<1>5. misused = {} /\ worker.at # "rates"
  BY <1>2 DEF ViewIInv, FreedInv
<1>6. CASE how = ""
  <2>1. worker'.at = "ended" /\ queue' = <<>>
    BY <1>1, <1>3, <1>6, WorkerAt
  <2> QED
    BY <1>2, <1>4, <1>5, <2>1 DEF ViewIInv, FreedInv, KeepsToItsProcess, MisuseExplained
<1>7. CASE how \in {"gone", "late"}
  <2>1. worker' = worker /\ queue' = queue /\ how \in win'.how /\ (how = "late" => worker.at = "look")
    BY <1>3, <1>4, <1>7
  <2>2. worker.at \in {"wait", "start", "ended", "look"}
    BY <1>1, <1>5 DEF Workers
  <2> QED
    BY <1>2, <1>4, <1>5, <1>7, <2>1, <2>2
       DEF ViewIInv, FreedInv, KeepsToItsProcess, MisuseExplained
<1> QED
  BY <1>6, <1>7

-----------------------------------------------------------------------------

(* Every step keeps both invariants.                                       *)
LEMMA ProcessesStep ==
  ASSUME ProcessesIInv, ViewIInv, [ProcessesNext]_processesVars
  PROVE  ProcessesIInv' /\ ViewIInv'
<1>1. WindowTyped /\ ProcessesTyped /\ StartsInv
  BY TypedParts DEF ProcessesIInv
<1>2. Own \in Pids
  BY ProcessesAssumption
<1>3. ASSUME NEW p \in Pids,
             Fork(p) \/ Exit(p) \/ Traffic(p) \/ CloseSocket(p) \/ (p = Own /\ Kill)
      PROVE  ProcessesIInv' /\ ViewIInv'
  <2>1. Stirs
    BY <1>1, <1>3, SystemStirs
  <2>2. UNCHANGED <<kind, win, worker, queue, man, misused>>
    BY <2>1 DEF Stirs, systemRest, window
  <2> QED
    BY <2>1, <2>2, StirsInv, ViewKept
<1>4. CASE System
  BY <1>3, <1>4 DEF System
<1>5. CASE Daemon
  <2>1. PICK broadcast \in BOOLEAN, dumped \in BOOLEAN, second \in 0 .. 1 :
          Poll(broadcast, second, dumped)
    BY <1>5 DEF Daemon, Dumps
  <2>2. UNCHANGED <<kind, win, worker, queue, man, misused>>
    BY <2>1 DEF Poll, window
  <2> QED
    BY <2>1, <2>2, PollInv, ViewKept
<1>6. CASE Client
  <2>1. UNCHANGED <<kind, win, worker, queue, man, misused>>
    BY <1>6 DEF Client, ReadBlocks, Later, window
  <2> QED
    BY <1>6, <2>1, ReadBlocksInv, EngineCalm, ViewKept DEF Client
<1>7. CASE Worker
  BY <1>1, <1>7, WorkerCalm, LookInv, GetListInv, RatesInv, ViewWorker, ViewRates DEF Worker
<1>8. CASE Feedback
  BY <1>1, <1>8, FeedbackInv, ViewFeedback
<1>9. CASE ManualRead
  BY <1>1, <1>9, MainCalm, ViewMain
<1>10. CASE User
  <2>1. CASE Travel
    <3>1. UNCHANGED <<kind, win, worker, queue, man, misused>>
      BY <2>1 DEF Travel, window
    <3> QED
      BY <2>1, <3>1, EngineCalm, ViewKept
  <2>2. CASE Open \/ Manual
    BY <1>1, <2>2, MainCalm, ViewMain
  <2>3. CASE Kill
    BY <1>2, <1>3, <2>3
  <2>4. CASE Close
    BY <1>1, <2>4, CloseInv, ViewClose
  <2> QED
    BY <1>10, <2>1, <2>2, <2>3, <2>4 DEF User
<1>11. CASE UNCHANGED processesVars
  <2>1. /\ UNCHANGED <<kind, win, worker, queue, man, misused, past, signal, irregular, inputs>>
        /\ UNCHANGED blocks
    BY <1>11 DEF processesVars, system, engine, window, blocks
  <2>2. WindowTyped'
    BY <1>1, <2>1 DEF WindowTyped
  <2>3. ProcessesIInv'
    BY <2>1, <2>2, CalmInv
  <2> QED
    BY <2>1, <2>3, ViewKept
<1> QED
  BY <1>4, <1>5, <1>6, <1>7, <1>8, <1>9, <1>10, <1>11 DEF ProcessesNext

-----------------------------------------------------------------------------
(* What the invariants say.                                                *)

(* With no block unread, the list is the cache, an entry for each process. *)
LEMMA ListIsCacheIf ==
  ASSUME ProcessesTyped, ListsInv
  PROVE  ListIsCache
<1> SUFFICES ASSUME log = <<>>
             PROVE  /\ Len(live.list) = Cardinality(InCache(daemon))
                    /\ {live.list[i] : i \in DOMAIN live.list} =
                         {Log(p, daemon[p]) : p \in InCache(daemon)}
  BY DEF ListIsCache
<1> DEFINE l == live.list
           n == Len(l)
<1>1. Reads(live, log)[Len(log)] = live
  <2>1. log \in Seq([time : 1 .. MaxTime, recs : Seq(Message)]) /\ Len(log) = 0
    BY DEF ProcessesTyped
  <2> QED
    BY <2>1, ReadsFirst
<1>2. Mirrors(l, daemon) /\ daemon \in Caches \cup {NoCache}
  BY <1>1 DEF ListsInv, ProcessesTyped, Caches
<1> HIDE DEF l
<1>3. /\ l \in Seq(Process) /\ Single(l)
      /\ \A i \in DOMAIN l : l[i].pid \in InCache(daemon) /\ l[i] = Log(l[i].pid, daemon[l[i].pid])
      /\ \A p \in InCache(daemon) : \E i \in DOMAIN l : l[i] = Log(p, daemon[p])
  BY <1>2, MirrorTyped DEF Mirrors
<1>4. {l[i] : i \in DOMAIN l} = {Log(p, daemon[p]) : p \in InCache(daemon)}
  BY <1>3
<1>5. n \in Nat /\ DOMAIN l = 1 .. n
  BY <1>3
<1> DEFINE f == [i \in 1 .. n |-> l[i].pid]
<1>6. f \in Bijection(1 .. n, InCache(daemon))
  <2>1. f \in [1 .. n -> InCache(daemon)]
    BY <1>3, <1>5
  <2>2. \A i, j \in 1 .. n : f[i] = f[j] => i = j
    BY <1>3, <1>5 DEF Single
  <2>3. \A p \in InCache(daemon) : \E i \in 1 .. n : f[i] = p
    <3>1. \A p \in InCache(daemon) : Log(p, daemon[p]).pid = p
      BY DEF Log
    <3> QED
      BY <1>3, <1>5, <3>1
  <2> HIDE DEF f
  <2> QED
    BY <2>1, <2>2, <2>3 DEF Bijection, Injection, Surjection, IsInjective
<1> HIDE DEF f
<1>7. IsFiniteSet(1 .. n) /\ Cardinality(1 .. n) = n
  <2>1. 1 \in Int /\ n \in Int
    BY <1>5
  <2> HIDE DEF n
  <2>2. IsFiniteSet(1 .. n) /\ Cardinality(1 .. n) = IF 1 > n THEN 0 ELSE n - 1 + 1
    BY <2>1, FS_Interval
  <2> QED
    BY <1>5, <2>2 DEF n
<1>8. Cardinality(InCache(daemon)) = n
  BY <1>6, <1>7, FS_Bijection DEF ExistsBijection
<1> QED
  BY <1>4, <1>8 DEF l

(* What was counted is no more than what would be counted now.             *)
LEMMA CountsMovedIf ==
  ASSUME ProcessesTyped, MovedInv
  PROVE  CountsMoved
<1> SUFFICES ASSUME NEW p \in InCache(daemon), Same(p, daemon), "dump" \notin irregular
             PROVE  daemon[p].net <= os[p].moved
  BY DEF CountsMoved
<1>1. OsTyped /\ daemon \in Caches \cup {NoCache}
  BY DEF ProcessesTyped, OsTyped, Caches
<1>2. daemon \in Caches /\ p \in Pids /\ p \in Listed
  BY <1>1 DEF InCache, NoCache, Caches, Same
<1>3. os[p].raw \in Nat /\ os[p].moved \in Nat /\ daemon[p] \in Cached
  BY <1>1, <1>2, ListedIs, CachedIs
<1>4. Counted(os[p].raw, daemon[p]) \in Nat /\ daemon[p].net <= Counted(os[p].raw, daemon[p])
      /\ daemon[p].net \in Nat
  BY <1>3, CountedIs, NotGone
<1>5. Counted(os[p].raw, daemon[p]) <= os[p].moved
  BY DEF MovedInv
<1> QED
  BY <1>3, <1>4, <1>5

(* The inductive invariant says that counts are true.                      *)
LEMMA CountsIf ==
  ASSUME ProcessesIInv
  PROVE  CountsInv
<1>1. ProcessesTyped /\ ListsInv /\ MovedInv /\ SteadyInv
  BY DEF ProcessesIInv
<1>2. RatesExplained
  <2> SUFFICES ASSUME NEW p \in Pids, win.rows[p].rate > 1, irregular = {}
               PROVE  FALSE
    BY DEF RatesExplained
  <2>1. win.rows[p].rate <= 1
    BY <1>1 DEF SteadyInv, LowRates
  <2>2. win.rows[p].rate \in Nat
    <3>1. win \in Windows
      BY <1>1, TypedParts DEF WindowTyped
    <3>2. win.rows[p] \in Sampled
      BY <3>1 DEF Windows
    <3> QED
      BY <3>2, SampleParts
  <2> QED
    BY <2>1, <2>2
<1> QED
  BY <1>1, <1>2, ListIsCacheIf, CountsMovedIf DEF CountsInv

(* What is counted, told and shown of the processes is true at every step: *)
(* a client that has read the log has the list of the monitor, the monitor *)
(* counts nothing that was not moved unless a dump failed, and no rate is  *)
(* above what can be moved unless something out of the ordinary happened   *)
(* (processes.c:185-389, message_processes, process_list.c:1343-1451,      *)
(* process_view.c:498-610).                                                *)
THEOREM ProcessesCorrect == ProcessesSpec => []CountsInv
<1>1. ProcessesInit => ProcessesIInv /\ ViewIInv
  BY ProcessesInitInv
<1>2. ProcessesIInv /\ ViewIInv /\ [ProcessesNext]_processesVars => ProcessesIInv' /\ ViewIInv'
  BY ProcessesStep
<1>3. ProcessesIInv => CountsInv
  BY CountsIf
<1> QED
  BY <1>1, <1>2, <1>3, PTL DEF ProcessesSpec

(* The window of one process shows no other, and its view is used after it *)
(* is freed only by threads that were not waited for                       *)
(* (process_view.c:484-524, 1118-1143).                                    *)
THEOREM WindowKeepsToItsProcess == ProcessesSpec => []ViewInv
<1>1. ProcessesInit => ProcessesIInv /\ ViewIInv
  BY ProcessesInitInv
<1>2. ProcessesIInv /\ ViewIInv /\ [ProcessesNext]_processesVars => ProcessesIInv' /\ ViewIInv'
  BY ProcessesStep
<1>3. ViewIInv => ViewInv
  BY DEF ViewIInv, ViewInv
<1> QED
  BY <1>1, <1>2, <1>3, PTL DEF ProcessesSpec

=============================================================================
