------------------------- MODULE GraphWindowProofs -------------------------
(***************************************************************************)
(* What the graph windows show, for any devices, histories and queues.     *)
(***************************************************************************)
EXTENDS GraphWindow, Background, TLAPS, NaturalsInduction, FiniteSetTheorems

(* One list at a time is on its way from the worker, so that a main thread *)
(* that is not behind finds at most one, and no more devices counted than  *)
(* it holds; and a window is freed with nothing on its way, unless the     *)
(* close gave up.                                                          *)
SendInv ==
  /\ worker.at \in {"getting", "reading"} => Len(queue) < MaxQueue
  /\ ~behind => Len(queue) <= 1 /\ (worker.at \in {"getting", "reading"} => queue = <<>>)
  /\ kind = "sensors" /\ ~behind /\ queue # <<>> => view.n <= Len(queue[1])
  /\ view.state = "freed" => view.n = 0
  /\ view.state = "freed" /\ ~gaveUp => worker.at = "ended" /\ queue = <<>>

(* A reading of a counter, with what the device had carried by then.       *)
Reading == [total : Int, mark : Nat]

(* Of a reading and a later one: the counter has grown by no more than     *)
(* what was carried meanwhile.                                             *)
Then(a, b) == a.mark <= b.mark /\ b.total - a.total <= b.mark - a.mark

(* The readings of one device: what is shown, what a list has of it, what  *)
(* the lists on their way have, and what the counter is.                   *)
Base(row) == IF row = NoRow THEN {} ELSE {[total |-> row.total, mark |-> row.mark]}
ReadingsOf(m, d) ==
  {[total |-> m[i].total, mark |-> m[i].mark] : i \in {j \in DOMAIN m : m[j].dev = d}}
QueueOf(q, d) == [k \in DOMAIN q |-> ReadingsOf(q[k], d)]
Current(d) == [total |-> total[d], mark |-> carried[d]]

(* What is shown (B), what is on its way in its order (Q), what the worker *)
(* holds (H) and what the counter is now are later and later readings.     *)
Line(B, Q, H, now) ==
  /\ \A b \in B : Then(b, now)
  /\ \A h \in H : Then(h, now)
  /\ \A b \in B, h \in H : Then(b, h)
  /\ \A k \in DOMAIN Q : \A a \in Q[k] :
       /\ Then(a, now)
       /\ \A b \in B : Then(b, a)
       /\ \A h \in H : Then(a, h)
  /\ \A k, l \in DOMAIN Q : k < l => \A a \in Q[k], b \in Q[l] : Then(a, b)

(* And the samples of an interface are covered by what it had carried when *)
(* it got the last one.                                                    *)
Ordered(d) ==
  /\ Sum(view.rows[d].hist) <= view.rows[d].mark
  /\ Line(Base(view.rows[d]), QueueOf(queue, d), ReadingsOf(worker.held, d), Current(d))

PipeInv == kind = "network" => \A d \in Devices : Ordered(d)

IInv == TypeOK /\ SendInv /\ PipeInv /\ PeakCovers /\ InTime

-----------------------------------------------------------------------------
(* Sums of histories *)

(* A set of natural numbers that is not empty has a least element.         *)
LEMMA LeastNat ==
  ASSUME NEW S \in SUBSET Nat, S # {}
  PROVE  \E n \in S : \A m \in S : n <= m
<1> DEFINE R == OpToRel(<, Nat)
<1>1. IsWellFoundedOn(R, Nat)
  BY NatLessThanWellFounded
<1>2. \A x, y \in Nat : <<y, x>> \in R <=> y < x
  BY DEF OpToRel
<1> HIDE DEF R
<1>3. PICK n \in S : \A y \in S : ~ (<<y, n>> \in R)
  BY <1>1, WFMin
<1>4. \A m \in S : m \in Nat /\ n \in Nat /\ ~(m < n)
  BY <1>2, <1>3
<1>5. \A m, k \in Nat : ~(m < k) => k <= m
  OBVIOUS
<1> QED
  BY <1>4, <1>5

(* The sums of the beginnings of h.                                        *)
Sums(g, h) ==
  /\ DOMAIN g = 0 .. Len(h) /\ g[0] = 0
  /\ \A i \in 1 .. Len(h) : g[i] = g[i - 1] + h[i]

(* The sums of the first elements of a history: they exist, ...            *)
LEMMA SumsExist ==
  ASSUME NEW h \in Seq(Nat)
  PROVE  \E g \in [0 .. Len(h) -> Nat] : Sums(g, h)
<1> DEFINE Upto(g, n) == g[0] = 0 /\ \A i \in 1 .. n : g[i] = g[i - 1] + h[i]
           Bad == {n \in 0 .. Len(h) : ~ \E g \in [0 .. n -> Nat] : Upto(g, n)}
<1>1. Bad = {}
  <2> SUFFICES ASSUME Bad # {} PROVE FALSE
    OBVIOUS
  <2>1. PICK n \in Bad : \A m \in Bad : n <= m
    <3>1. Bad \in SUBSET Nat
      OBVIOUS
    <3> QED
      BY <3>1, LeastNat
  <2>2. n # 0
    <3>1. [i \in 0 .. 0 |-> 0] \in [0 .. 0 -> Nat] /\ Upto([i \in 0 .. 0 |-> 0], 0)
      OBVIOUS
    <3> QED
      BY <3>1
  <2>3. n \in 1 .. Len(h) /\ n - 1 \in 0 .. Len(h) /\ n - 1 \notin Bad
    <3>1. n \in 1 .. Len(h) /\ Len(h) \in Nat
      BY <2>1, <2>2
    <3> HIDE DEF Bad
    <3> QED
      BY <2>1, <3>1
  <2>4. PICK g \in [0 .. n - 1 -> Nat] : Upto(g, n - 1)
    BY <2>3
  <2> DEFINE f == [i \in 0 .. n |-> IF i = n THEN g[n - 1] + h[n] ELSE g[i]]
  <2>5. /\ n \in Nat /\ h[n] \in Nat /\ g[n - 1] \in Nat
        /\ \A i \in 0 .. n - 1 : g[i] \in Nat
        /\ \A i \in 0 .. n : i # n => i \in 0 .. n - 1
    <3>1. n \in 1 .. Len(h) /\ n - 1 \in 0 .. n - 1 /\ Len(h) \in Nat
      BY <2>3
    <3>2. h[n] \in Nat
      BY <3>1
    <3>3. \A i \in 0 .. n - 1 : g[i] \in Nat
      BY <2>4
    <3> QED
      BY <3>1, <3>2, <3>3
  <2>6. f \in [0 .. n -> Nat]
    <3>1. \A i \in 0 .. n : (IF i = n THEN g[n - 1] + h[n] ELSE g[i]) \in Nat
      BY <2>5
    <3> QED
      BY <3>1
  <2>7. Upto(f, n)
    <3>1. f[0] = 0
      BY <2>3, <2>4
    <3>2. ASSUME NEW i \in 1 .. n PROVE f[i] = f[i - 1] + h[i]
      <4>1. i - 1 \in 0 .. n /\ i - 1 # n /\ f[i - 1] = g[i - 1]
        BY <2>5
      <4>2. CASE i = n
        BY <2>5, <4>1, <4>2
      <4>3. CASE i # n
        <5>1. i \in 1 .. n - 1 /\ f[i] = g[i]
          BY <2>5, <4>3
        <5> HIDE DEF f
        <5> QED
          BY <2>4, <4>1, <5>1
      <4> QED
        BY <4>2, <4>3
    <3> HIDE DEF f
    <3> QED
      BY <3>1, <3>2
  <2> QED
    BY <2>6, <2>7
<1>2. Len(h) \notin Bad /\ Len(h) \in 0 .. Len(h)
  <2>1. Len(h) \in 0 .. Len(h)
    OBVIOUS
  <2> HIDE DEF Bad
  <2> QED
    BY <1>1, <2>1
<1>3. PICK g \in [0 .. Len(h) -> Nat] : Upto(g, Len(h))
  BY <1>2
<1> QED
  BY <1>3 DEF Sums

(* ... are what they are, ...                                              *)
LEMMA SumsUnique ==
  ASSUME NEW h \in Seq(Nat), NEW f, NEW g, Sums(f, h), Sums(g, h)
  PROVE  \A i \in 0 .. Len(h) : f[i] = g[i]
<1> DEFINE Bad == {n \in 0 .. Len(h) : f[n] # g[n]}
<1>1. Bad = {}
  <2> SUFFICES ASSUME Bad # {} PROVE FALSE
    OBVIOUS
  <2>1. PICK n \in Bad : \A m \in Bad : n <= m
    <3>1. Bad \in SUBSET Nat
      OBVIOUS
    <3> QED
      BY <3>1, LeastNat
  <2>2. n \in 1 .. Len(h) /\ n - 1 \in 0 .. Len(h) /\ n - 1 \notin Bad
    BY <2>1 DEF Sums
  <2> QED
    BY <2>1, <2>2 DEF Sums
<1> QED
  BY <1>1

(* ... and the last is the sum of all.                                     *)
LEMMA SumOfSums ==
  ASSUME NEW h \in Seq(Nat), NEW g, Sums(g, h)
  PROVE  Sum(h) = g[Len(h)]
<1> DEFINE Body(f) == [i \in 0 .. Len(h) |-> IF i = 0 THEN 0 ELSE f[i - 1] + h[i]]
           upTo == CHOOSE f : f = Body(f)
<1>1. Sum(h) = upTo[Len(h)]
  BY DEF Sum
<1>2. upTo = Body(upTo)
  <2>1. PICK f \in [0 .. Len(h) -> Nat] : Sums(f, h)
    BY SumsExist
  <2>2. f = Body(f)
    BY <2>1 DEF Sums
  <2> QED
    BY <2>2
<1>3. Sums(upTo, h)
  <2>1. DOMAIN upTo = 0 .. Len(h)
    BY <1>2
  <2>2. \A i \in 0 .. Len(h) : upTo[i] = IF i = 0 THEN 0 ELSE upTo[i - 1] + h[i]
    BY <1>2
  <2> HIDE DEF upTo
  <2> QED
    BY <2>1, <2>2 DEF Sums
<1> HIDE DEF upTo
<1>4. Len(h) \in 0 .. Len(h)
  OBVIOUS
<1> QED
  BY <1>1, <1>3, <1>4, SumsUnique

(* What is used of sums.                                                   *)
LEMMA SumFacts ==
  /\ Sum(<<>>) = 0
  /\ \A h \in Seq(Nat) :
       /\ Sum(h) \in Nat
       /\ \A v \in Nat : Sum(Append(h, v)) = Sum(h) + v
       /\ h # <<>> => Sum(Tail(h)) <= Sum(h)
<1>1. Sum(<<>>) = 0
  <2>1. Sums([i \in 0 .. 0 |-> 0], <<>>) /\ <<>> \in Seq(Nat)
    BY DEF Sums
  <2> QED
    BY <2>1, SumOfSums
<1>2. ASSUME NEW h \in Seq(Nat) PROVE Sum(h) \in Nat
  BY SumsExist, SumOfSums
<1>3. ASSUME NEW h \in Seq(Nat), NEW v \in Nat
      PROVE  Sum(Append(h, v)) = Sum(h) + v
  <2>1. PICK g \in [0 .. Len(h) -> Nat] : Sums(g, h)
    BY SumsExist
  <2> DEFINE n == Len(h)
             f == [i \in 0 .. n + 1 |-> IF i = n + 1 THEN g[n] + v ELSE g[i]]
  <2>2. /\ Append(h, v) \in Seq(Nat) /\ Len(Append(h, v)) = n + 1 /\ n \in Nat
        /\ Append(h, v)[n + 1] = v /\ \A i \in 1 .. n : Append(h, v)[i] = h[i]
    OBVIOUS
  <2>3. Sums(f, Append(h, v))
    BY <2>1, <2>2 DEF Sums
  <2>4. f[n + 1] = g[n] + v
    BY <2>2
  <2> QED
    BY <2>1, <2>2, <2>3, <2>4, SumOfSums
<1>4. ASSUME NEW h \in Seq(Nat), h # <<>>
      PROVE  Sum(Tail(h)) <= Sum(h)
  <2>1. PICK g \in [0 .. Len(h) -> Nat] : Sums(g, h)
    BY SumsExist
  <2> DEFINE n == Len(h)
             f == [i \in 0 .. n - 1 |-> g[i + 1] - h[1]]
  <2>2. /\ Tail(h) \in Seq(Nat) /\ Len(Tail(h)) = n - 1 /\ n \in Nat \ {0} /\ h[1] \in Nat
        /\ \A i \in 1 .. n - 1 : Tail(h)[i] = h[i + 1] /\ i + 1 \in 1 .. n /\ h[i + 1] \in Nat
    BY <1>4
  <2>3. Sums(f, Tail(h))
    <3>1. DOMAIN f = 0 .. Len(Tail(h))
      BY <2>2
    <3>2. f[0] = 0
      BY <2>1, <2>2 DEF Sums
    <3>3. ASSUME NEW i \in 1 .. n - 1 PROVE f[i] = f[i - 1] + Tail(h)[i]
      <4>1. f[i] = g[i + 1] - h[1] /\ f[i - 1] = g[i] - h[1]
        BY <2>2
      <4>2. g[i + 1] = g[i] + h[i + 1] /\ g[i] \in Nat
        <5>1. i + 1 \in 1 .. n /\ i \in 0 .. n /\ (i + 1) - 1 = i
          BY <2>2
        <5>2. \A j \in 1 .. n : g[j] = g[j - 1] + h[j]
          BY <2>1 DEF Sums
        <5> QED
          BY <2>1, <5>1, <5>2
      <4> HIDE DEF f
      <4> QED
        BY <2>2, <4>1, <4>2
    <3> QED
      BY <2>2, <3>1, <3>2, <3>3 DEF Sums
  <2>4. f[n - 1] = g[n] - h[1]
    BY <2>2
  <2> HIDE DEF f
  <2>5. Sum(Tail(h)) = g[n] - h[1] /\ Sum(h) = g[n] /\ g[n] \in Nat
    <3>1. g[n] \in Nat
      BY <2>1, <2>2
    <3>2. Sum(h) = g[n]
      BY <2>1, SumOfSums
    <3>3. Sum(Tail(h)) = f[n - 1]
      BY <2>2, <2>3, SumOfSums
    <3> QED
      BY <2>4, <3>1, <3>2, <3>3
  <2> QED
    BY <2>2, <2>5
<1> QED
  BY <1>1, <1>2, <1>3, <1>4

(* A set of natural numbers below a bound has a greatest element.          *)
LEMMA MaxOf ==
  ASSUME NEW b \in Nat, NEW S \in SUBSET (0 .. b), S # {}
  PROVE  Max(S) \in S /\ \A v \in S : v <= Max(S)
<1> DEFINE U == {n \in 0 .. b : \A v \in S : v <= n}
<1>1. PICK n \in U : \A m \in U : n <= m
  <2>1. U \in SUBSET Nat /\ b \in U
    OBVIOUS
  <2> QED
    BY <2>1, LeastNat
<1>2. n \in S
  <2> SUFFICES ASSUME n \notin S PROVE FALSE
    OBVIOUS
  <2>1. \A v \in S : v <= n - 1 /\ 0 <= v
    BY <1>1
  <2>2. PICK v \in S : TRUE
    OBVIOUS
  <2>3. n - 1 \in 0 .. b
    BY <1>1, <2>1, <2>2
  <2>4. n - 1 \in U
    BY <2>1, <2>3
  <2> QED
    BY <1>1, <2>4
<1>3. \E x \in S : \A y \in S : x >= y
  BY <1>1, <1>2
<1> QED
  BY <1>3 DEF Max
-----------------------------------------------------------------------------
(* Records and rows *)

LEMMA Constants ==
  /\ Samples \in Nat \ {0} /\ MaxQueue \in Nat \ {0} /\ MaxTotal \in Nat /\ MaxChanges \in Nat
  /\ IsFiniteSet(Devices)
  /\ Totals \subseteq Nat /\ 0 \in Totals /\ 1 \in Totals
  BY ConstantsAssumption DEF Totals

(* What a row has.                                                         *)
LEMMA RowFields ==
  ASSUME NEW r \in Row
  PROVE  /\ r.hist \in Seq(Totals) /\ r.hist \in Seq(Nat) /\ Len(r.hist) \in Nat
         /\ r.total \in Totals \cup {-1} /\ r.total \in Int /\ r.mark \in Nat
         /\ r.on \in BOOLEAN /\ r.gap \in BOOLEAN
         /\ Sum(r.hist) \in Nat
<1>1. r.hist \in Seq(Totals) /\ r.total \in Totals \cup {-1} /\ r.mark \in Nat
      /\ r.on \in BOOLEAN /\ r.gap \in BOOLEAN
  BY DEF Row
<1>2. r.hist \in Seq(Nat)
  <2>1. \A i \in 1 .. Len(r.hist) : r.hist[i] \in Nat
    <3>1. \A i \in 1 .. Len(r.hist) : r.hist[i] \in Totals
      BY <1>1
    <3> QED
      BY <3>1 DEF Totals
  <2> QED
    BY <1>1, <2>1
<1>3. Sum(r.hist) \in Nat
  BY <1>2, SumFacts
<1>4. r.total \in Int /\ Len(r.hist) \in Nat
  BY <1>1, Constants DEF Totals
<1> QED
  BY <1>1, <1>2, <1>3, <1>4

(* What an item of a list has.                                             *)
LEMMA ItemFields ==
  ASSUME NEW a \in Item
  PROVE  a.dev \in Devices /\ a.total \in Totals /\ a.total \in Nat /\ a.mark \in Nat
         /\ a.freed \in BOOLEAN
  BY Constants DEF Item

(* No row, and rows that are none.                                         *)
LEMMA NoRowIs ==
  /\ NoRow \in Row /\ NoRow.hist = <<>> /\ NoRow.total = -1 /\ NoRow.mark = 0 /\ ~NoRow.gap
  /\ Missed(NoRow) = NoRow /\ Emptied(NoRow) = NoRow
  /\ NoRows \in [Devices -> Row] /\ \A d \in Devices : NoRows[d] = NoRow
  /\ Sum(<<>>) = 0 /\ Len(<<>>) = 0
<1>1. NoRow \in Row /\ NoRow.hist = <<>> /\ NoRow.total = -1 /\ NoRow.mark = 0 /\ ~NoRow.gap
  BY DEF NoRow, Row
<1>2. Missed(NoRow) = NoRow /\ Emptied(NoRow) = NoRow
  <2>1. [NoRow EXCEPT !.hist = <<>>] = NoRow
    BY DEF NoRow
  <2> QED
    BY <1>1, <2>1 DEF Missed, Emptied
<1>3. NoRows \in [Devices -> Row] /\ \A d \in Devices : NoRows[d] = NoRow
  BY <1>1 DEF NoRows
<1> QED
  BY <1>1, <1>2, <1>3, SumFacts

(* A row that is new in any window.                                        *)
LEMMA NewRows ==
  ASSUME NEW new \in {NewSensor, NewDisk, NewInterface}
  PROVE  new \in Row /\ new.hist = <<>> /\ new.total = 0 /\ new.mark = 0 /\ ~new.gap /\ new # NoRow
<1>1. 0 \in Totals /\ NoRow.total # 0
  BY Constants, NoRowIs
<1>2. /\ NewSensor \in Row /\ NewSensor.hist = <<>> /\ NewSensor.total = 0
      /\ NewSensor.mark = 0 /\ ~NewSensor.gap
  BY <1>1, NoRowIs DEF NewSensor, Row
<1>3. \A r \in {NewDisk, NewInterface} : r = [NewSensor EXCEPT !.on = TRUE]
  BY DEF NewDisk, NewInterface
<1>4. LET r == [NewSensor EXCEPT !.on = TRUE] IN
      r \in Row /\ r.hist = <<>> /\ r.total = 0 /\ r.mark = 0 /\ ~r.gap
  BY <1>2 DEF Row
<1> QED
  BY <1>1, <1>2, <1>3, <1>4

(* What a sample does to a row.                                            *)
LEMMA SampledRow ==
  ASSUME NEW r \in Row, NEW v \in Totals, Len(r.hist) <= Samples
  PROVE  /\ Sampled(r, v) \in Row
         /\ Len(Sampled(r, v).hist) = IF Len(r.hist) < Samples THEN Len(r.hist) + 1 ELSE Samples
         /\ Len(Sampled(r, v).hist) \in 1 .. Samples
         /\ Sum(Sampled(r, v).hist) <= Sum(r.hist) + v
         /\ ToSet(Sampled(r, v).hist) \subseteq ToSet(r.hist) \cup {v}
         /\ Sampled(r, v).total = r.total /\ Sampled(r, v).mark = r.mark
         /\ (Sampled(r, v).gap <=> r.gap)
<1> DEFINE h == r.hist
           a == Append(h, v)
           g == IF Len(a) > Samples THEN Tail(a) ELSE a
<1>1. /\ h \in Seq(Totals) /\ h \in Seq(Nat) /\ Len(h) \in Nat /\ v \in Nat /\ Len(h) <= Samples
      /\ Samples \in Nat \ {0}
  BY RowFields, Constants
<1>2. /\ a \in Seq(Totals) /\ a \in Seq(Nat) /\ Len(a) = Len(h) + 1 /\ a # <<>>
      /\ \A i \in 1 .. Len(h) : a[i] = h[i]
      /\ a[Len(h) + 1] = v
  BY <1>1
<1>3. Sum(a) = Sum(h) + v /\ Sum(Tail(a)) <= Sum(a) /\ Sum(a) \in Nat
  BY <1>1, <1>2, SumFacts
<1>4. /\ g \in Seq(Totals) /\ Len(g) = (IF Len(h) < Samples THEN Len(h) + 1 ELSE Samples)
      /\ \A i \in 1 .. Len(g) : g[i] = v \/ \E k \in 1 .. Len(h) : g[i] = h[k]
  <2>1. CASE Len(h) < Samples
    <3>1. g = a
      BY <1>1, <1>2, <2>1
    <3>2. \A i \in 1 .. Len(a) : i \in 1 .. Len(h) \/ i = Len(h) + 1
      BY <1>1, <1>2
    <3> HIDE DEF a, g, h
    <3>3. \A i \in 1 .. Len(a) : a[i] = v \/ \E k \in 1 .. Len(h) : a[i] = h[k]
      BY <1>2, <3>2
    <3> QED
      BY <1>2, <2>1, <3>1, <3>3
  <2>2. CASE Len(h) = Samples
    <3>1. g = Tail(a)
      BY <1>1, <1>2, <2>2
    <3>2. Tail(a) \in Seq(Totals) /\ Len(Tail(a)) = Len(h)
          /\ \A i \in 1 .. Len(h) : Tail(a)[i] = a[i + 1]
      <4> HIDE DEF a, h
      <4>1. Tail(a) \in Seq(Totals) /\ Len(Tail(a)) = Len(a) - 1
            /\ \A i \in 1 .. Len(a) - 1 : Tail(a)[i] = a[i + 1]
        BY <1>2
      <4>2. Len(a) - 1 = Len(h)
        BY <1>1, <1>2
      <4> QED
        BY <4>1, <4>2
    <3>3. ASSUME NEW i \in 1 .. Len(h)
          PROVE  a[i + 1] = v \/ \E k \in 1 .. Len(h) : a[i + 1] = h[k]
      <4>1. CASE i = Len(h)
        BY <1>2, <4>1
      <4>2. CASE i < Len(h)
        <5>1. i + 1 \in 1 .. Len(h)
          BY <1>1, <4>2
        <5> HIDE DEF a, h
        <5> QED
          BY <1>2, <5>1
      <4>3. i = Len(h) \/ i < Len(h)
        BY <1>1
      <4> QED
        BY <4>1, <4>2, <4>3
    <3> HIDE DEF a, g, h
    <3>4. \A i \in 1 .. Len(h) : g[i] = v \/ \E k \in 1 .. Len(h) : g[i] = h[k]
      BY <3>1, <3>2, <3>3
    <3>5. ~(Len(h) < Samples)
      BY <1>1, <2>2
    <3> QED
      BY <2>2, <3>1, <3>2, <3>4, <3>5
  <2>3. Len(h) < Samples \/ Len(h) = Samples
    BY <1>1
  <2> HIDE DEF a, g, h
  <2> QED
    BY <2>1, <2>2, <2>3
<1>5. Sum(g) <= Sum(h) + v
  BY <1>3
<1>6. ToSet(g) \subseteq ToSet(h) \cup {v}
  <2>1. DOMAIN g = 1 .. Len(g) /\ DOMAIN h = 1 .. Len(h)
    BY <1>1, <1>4
  <2> HIDE DEF g
  <2> QED
    BY <1>4, <2>1 DEF ToSet
<1>7. Sampled(r, v) = [r EXCEPT !.hist = g]
  BY DEF Sampled
<1>8. Len(g) \in 1 .. Samples
  BY <1>1, <1>4
<1> HIDE DEF g
<1>9. [r EXCEPT !.hist = g] \in Row /\ [r EXCEPT !.hist = g].hist = g
      /\ [r EXCEPT !.hist = g].total = r.total /\ [r EXCEPT !.hist = g].mark = r.mark
      /\ [r EXCEPT !.hist = g].gap = r.gap
  BY <1>4 DEF Row
<1> QED
  BY <1>4, <1>5, <1>6, <1>7, <1>8, <1>9

(* A row that gets no sample keeps what it was.                            *)
LEMMA MissedRow ==
  ASSUME NEW r \in Row
  PROVE  /\ Missed(r) \in Row /\ Missed(r).hist = r.hist
         /\ Missed(r).total = r.total /\ Missed(r).mark = r.mark
  BY DEF Missed, Row

(* What drawing does to the rows.                                          *)
LEMMA DrawnRows ==
  ASSUME NEW rows \in [Devices -> Row], \A d \in Devices : Len(rows[d].hist) <= Samples,
         NEW value, DOMAIN value \subseteq Devices, \A d \in DOMAIN value : value[d] \in Totals
  PROVE  /\ Drawn(rows, value) \in [Devices -> Row]
         /\ \A d \in Devices : Len(Drawn(rows, value)[d].hist) <= Samples
         /\ \A d \in DOMAIN value : Drawn(rows, value)[d] = Sampled(rows[d], value[d])
         /\ \A d \in Devices \ DOMAIN value : Drawn(rows, value)[d] = Missed(rows[d])
<1>1. ASSUME NEW d \in Devices, d \in DOMAIN value
      PROVE  Sampled(rows[d], value[d]) \in Row /\ Len(Sampled(rows[d], value[d]).hist) <= Samples
  <2>1. rows[d] \in Row /\ value[d] \in Totals /\ Len(rows[d].hist) <= Samples
    BY <1>1
  <2>2. /\ Sampled(rows[d], value[d]) \in Row
        /\ Len(Sampled(rows[d], value[d]).hist) \in 1 .. Samples
    BY <2>1, SampledRow
  <2> QED
    BY <2>2, Constants
<1>2. ASSUME NEW d \in Devices
      PROVE  Missed(rows[d]) \in Row /\ Len(Missed(rows[d]).hist) <= Samples
  BY MissedRow
<1> QED
  BY <1>1, <1>2 DEF Drawn

(* Rows of which those that are not seen are gone stay so when drawn, and  *)
(* no old sample is drawn too late.                                        *)
LEMMA Redrawn ==
  ASSUME NEW rows \in [Devices -> Row], \A d \in Devices : Len(rows[d].hist) <= Samples,
         NEW value, DOMAIN value \subseteq Devices, \A d \in DOMAIN value : value[d] \in Totals,
         \A d \in Devices \ DOMAIN value : rows[d] = NoRow
  PROVE  /\ Drawn(rows, value) \in [Devices -> Row]
         /\ \A d \in Devices : Len(Drawn(rows, value)[d].hist) <= Samples
         /\ \A d \in Devices \ DOMAIN value : Drawn(rows, value)[d] = NoRow
         /\ \A d \in DOMAIN value : Drawn(rows, value)[d] = Sampled(rows[d], value[d])
         /\ (\A d \in Devices : ~rows[d].gap) => \A d \in Devices : ~Drawn(rows, value)[d].gap
<1>1. /\ Drawn(rows, value) \in [Devices -> Row]
      /\ \A d \in Devices : Len(Drawn(rows, value)[d].hist) <= Samples
      /\ \A d \in DOMAIN value : Drawn(rows, value)[d] = Sampled(rows[d], value[d])
      /\ \A d \in Devices \ DOMAIN value : Drawn(rows, value)[d] = Missed(rows[d])
  BY DrawnRows
<1>2. \A d \in Devices \ DOMAIN value : Drawn(rows, value)[d] = NoRow
  BY <1>1, NoRowIs
<1>3. ASSUME NEW d \in Devices, ~rows[d].gap PROVE ~Drawn(rows, value)[d].gap
  <2>1. CASE d \in DOMAIN value
    BY <1>1, <1>3, <2>1, SampledRow
  <2>2. CASE d \notin DOMAIN value
    BY <1>2, <2>2, NoRowIs
  <2> QED
    BY <2>1, <2>2
<1> QED
  BY <1>1, <1>2, <1>3

(* One that is emptied, too, but for its samples.                          *)
LEMMA EmptiedRow ==
  ASSUME NEW r \in Row
  PROVE  /\ Emptied(r) \in Row /\ Emptied(r).hist = <<>> /\ Emptied(r).total = r.total
         /\ Emptied(r).mark = r.mark /\ (Emptied(r).gap <=> r.gap)
<1>1. PICK g \in Seq(Totals) : g = <<>>
  <2>1. <<>> \in Seq(Totals)
    OBVIOUS
  <2> QED
    BY <2>1
<1>2. [r EXCEPT !.hist = g] \in Row /\ [r EXCEPT !.hist = g].hist = g
      /\ [r EXCEPT !.hist = g].total = r.total /\ [r EXCEPT !.hist = g].mark = r.mark
      /\ [r EXCEPT !.hist = g].gap = r.gap
  BY DEF Row
<1>3. Emptied(r) = [r EXCEPT !.hist = g]
  BY <1>1 DEF Emptied
<1> QED
  BY <1>1, <1>2, <1>3

(* What the view, the worker and the queue have.                           *)
LEMMA ViewFields ==
  ASSUME TypeOK
  PROVE  /\ view \in View /\ view.rows \in [Devices -> Row] /\ view.peak \in Totals
         /\ view.n \in Nat /\ view.state \in {"open", "closing", "freed"}
         /\ \A d \in Devices : Len(view.rows[d].hist) <= Samples
         /\ worker \in Working /\ worker.at \in {"top", "getting", "reading", "ended"}
         /\ worker.held \in Seq(Item)
         /\ queue \in Seq(Seq(Item)) /\ Len(queue) \in Nat /\ Len(queue) <= MaxQueue
         /\ kind \in Kinds /\ total \in [Devices -> Totals] /\ carried \in [Devices -> Nat]
<1>1. /\ view \in View /\ worker \in Working
      /\ queue \in Seq(Seq(Item)) /\ Len(queue) <= MaxQueue
      /\ \A d \in Devices : Len(view.rows[d].hist) <= Samples
      /\ kind \in Kinds /\ total \in [Devices -> Totals] /\ carried \in [Devices -> Nat]
  BY DEF TypeOK
<1>2. /\ view.rows \in [Devices -> Row] /\ view.peak \in Totals
      /\ view.n \in Nat /\ view.state \in {"open", "closing", "freed"}
  BY <1>1 DEF View
<1>3. worker.at \in {"top", "getting", "reading", "ended"} /\ worker.held \in Seq(Item)
  BY <1>1 DEF Working
<1>4. Len(queue) \in Nat
  BY <1>1
<1> QED
  BY <1>1, <1>2, <1>3, <1>4

(* Rows for the devices there are: old ones are kept.                      *)
LEMMA FoundRows ==
  ASSUME TypeOK, NEW here \in SUBSET Devices, NEW new \in {NewSensor, NewDisk, NewInterface}
  PROVE  /\ Found(here, new) \in [Devices -> Row]
         /\ \A d \in Devices : Len(Found(here, new)[d].hist) <= Samples
         /\ \A d \in Devices \ here : Found(here, new)[d] = NoRow
         /\ \A d \in here : Found(here, new)[d] = IF view.rows[d] = NoRow THEN new ELSE view.rows[d]
         /\ (\A d \in Devices : ~view.rows[d].gap) => \A d \in Devices : ~Found(here, new)[d].gap
<1>1. /\ \A d \in Devices \ here : Found(here, new)[d] = NoRow
      /\ \A d \in here : Found(here, new)[d] = IF view.rows[d] = NoRow THEN new ELSE view.rows[d]
      /\ DOMAIN Found(here, new) = Devices
      /\ Found(here, new) = [d \in Devices |-> Found(here, new)[d]]
  BY DEF Found
<1>2. new \in Row /\ new.hist = <<>> /\ ~new.gap /\ Len(new.hist) = 0
  BY NewRows
<1>3. ASSUME NEW d \in Devices
      PROVE  /\ Found(here, new)[d] \in Row /\ Len(Found(here, new)[d].hist) <= Samples
             /\ ~view.rows[d].gap => ~Found(here, new)[d].gap
  <2>1. Found(here, new)[d] \in {NoRow, new, view.rows[d]}
    BY <1>1
  <2> QED
    BY <1>2, <2>1, NoRowIs, ViewFields, Constants
<1> QED
  BY <1>1, <1>3

(* The same where something new starts all of them again.                  *)
LEMMA ResetRows ==
  ASSUME TypeOK, NEW here \in SUBSET Devices, NEW new \in {NewSensor, NewDisk, NewInterface}
  PROVE  /\ Reset(here, new) \in [Devices -> Row]
         /\ \A d \in Devices : Len(Reset(here, new)[d].hist) <= Samples
         /\ \A d \in Devices \ here : Reset(here, new)[d] = NoRow
         /\ New(here) = {} => \A d \in here : view.rows[d] # NoRow /\ Reset(here, new)[d] = view.rows[d]
         /\ New(here) # {} => \A d \in here : Reset(here, new)[d].hist = <<>>
         /\ (\A d \in Devices : ~view.rows[d].gap) => \A d \in Devices : ~Reset(here, new)[d].gap
<1> DEFINE F == Found(here, new)
<1>1. /\ F \in [Devices -> Row] /\ \A d \in Devices : Len(F[d].hist) <= Samples
      /\ \A d \in Devices \ here : F[d] = NoRow
      /\ \A d \in here : F[d] = IF view.rows[d] = NoRow THEN new ELSE view.rows[d]
      /\ (\A d \in Devices : ~view.rows[d].gap) => \A d \in Devices : ~F[d].gap
  BY FoundRows
<1>2. Reset(here, new) = IF New(here) = {} THEN F ELSE [d \in Devices |-> Emptied(F[d])]
  BY DEF Reset
<1> HIDE DEF F
<1>3. CASE New(here) = {}
  <2>1. \A d \in here : view.rows[d] # NoRow
    BY <1>3 DEF New
  <2> QED
    BY <1>1, <1>2, <1>3, <2>1
<1>4. CASE New(here) # {}
  <2>1. \A d \in Devices : /\ F[d] \in Row /\ Emptied(F[d]) \in Row /\ Emptied(F[d]).hist = <<>>
                           /\ (Emptied(F[d]).gap <=> F[d].gap)
    BY <1>1, EmptiedRow
  <2>2. \A d \in Devices : Reset(here, new)[d] = Emptied(F[d])
    BY <1>2, <1>4
  <2>3. Reset(here, new) \in [Devices -> Row]
    BY <1>2, <1>4, <2>1
  <2> QED
    BY <1>1, <1>4, <2>1, <2>2, <2>3, NoRowIs, Constants
<1> QED
  BY <1>3, <1>4

(* Of storage and network all histories are as long as each other, whether *)
(* they start again or go on.                                              *)
LEMMA SameLength ==
  ASSUME TypeOK, InTime, kind \in {"disk", "network"}, NEW here \in SUBSET Devices,
         NEW new \in {NewSensor, NewDisk, NewInterface}
  PROVE  \A d, e \in here : Len(Reset(here, new)[d].hist) = Len(Reset(here, new)[e].hist)
<1>1. CASE New(here) = {}
  BY <1>1, ResetRows DEF InTime
<1>2. CASE New(here) # {}
  BY <1>2, ResetRows
<1> QED
  BY <1>1, <1>2

(* What is drawn as a rate has been carried.                               *)
LEMMA RateCarried ==
  ASSUME NEW r \in Row, NEW a \in Item, r # NoRow => Then(r, a)
  PROVE  /\ Rate(r, a.total) \in Totals
         /\ Rate(r, a.total) <= a.mark - r.mark
<1>1. /\ r.total \in Int /\ r.mark \in Nat /\ a.total \in Nat /\ a.mark \in Nat
      /\ a.total \in 0 .. MaxTotal /\ MaxTotal \in Nat
  BY RowFields, ItemFields, Constants DEF Totals
<1>2. Rate(r, a.total) \in 0 .. MaxTotal
  BY <1>1 DEF Rate
<1>3. Rate(r, a.total) <= a.mark - r.mark
  <2>1. CASE r = NoRow
    <3>1. r.total = -1 /\ r.mark = 0
      BY <2>1, NoRowIs
    <3>2. Rate(r, a.total) = 0
      BY <3>1 DEF Rate
    <3> QED
      BY <1>1, <3>1, <3>2
  <2>2. CASE r # NoRow
    <3>1. r.mark <= a.mark /\ a.total - r.total <= a.mark - r.mark
      BY <2>2 DEF Then
    <3> QED
      BY <1>1, <3>1 DEF Rate
  <2> QED
    BY <2>1, <2>2
<1> QED
  BY <1>2, <1>3 DEF Totals
-----------------------------------------------------------------------------
(* Readings in their order *)

(* The order of readings.                                                  *)
LEMMA ThenIs ==
  ASSUME NEW a \in Reading, NEW b \in Reading
  PROVE  /\ Then(a, a)
         /\ \A c \in Reading : Then(a, b) /\ Then(b, c) => Then(a, c)
<1>1. a.total \in Int /\ a.mark \in Nat /\ b.total \in Int /\ b.mark \in Nat
  BY DEF Reading
<1>2. Then(a, a)
  BY <1>1 DEF Then
<1>3. ASSUME NEW c \in Reading, Then(a, b), Then(b, c) PROVE Then(a, c)
  <2>1. c.total \in Int /\ c.mark \in Nat
    BY DEF Reading
  <2> QED
    BY <1>1, <1>3, <2>1 DEF Then
<1> QED
  BY <1>2, <1>3

(* A later value of the counter, a list that is sent, one that the worker  *)
(* is given, one that is shown, and a row that goes.                       *)
LEMMA LineNow ==
  ASSUME NEW B \in SUBSET Reading, NEW Q \in Seq(SUBSET Reading), NEW H \in SUBSET Reading,
         NEW now \in Reading, NEW later \in Reading, Line(B, Q, H, now), Then(now, later)
  PROVE  Line(B, Q, H, later)
<1>1. \A a \in Reading : Then(a, now) => Then(a, later)
  BY ThenIs
<1>2. \A k \in DOMAIN Q : Q[k] \subseteq Reading
  OBVIOUS
<1> QED
  BY <1>1, <1>2 DEF Line

(* A list that is sent goes to the end of the line.                        *)
LEMMA LineSend ==
  ASSUME NEW B \in SUBSET Reading, NEW Q \in Seq(SUBSET Reading), NEW H \in SUBSET Reading,
         NEW now \in Reading, Line(B, Q, H, now)
  PROVE  Line(B, Append(Q, H), {}, now)
<1> DEFINE P == Append(Q, H)
<1>1. /\ P \in Seq(SUBSET Reading) /\ Len(Q) \in Nat /\ DOMAIN P = 1 .. Len(Q) + 1
      /\ DOMAIN Q = 1 .. Len(Q)
      /\ \A k \in 1 .. Len(Q) : P[k] = Q[k]
      /\ P[Len(Q) + 1] = H
  OBVIOUS
<1> HIDE DEF P
<1>2. \A k \in DOMAIN P : k \in DOMAIN Q \/ k = Len(Q) + 1
  BY <1>1
<1>3. ASSUME NEW k \in DOMAIN P, NEW a \in P[k]
      PROVE  Then(a, now) /\ \A b \in B : Then(b, a)
  BY <1>1, <1>2 DEF Line
<1>4. ASSUME NEW k \in DOMAIN P, NEW l \in DOMAIN P, k < l, NEW a \in P[k], NEW b \in P[l]
      PROVE  Then(a, b)
  <2>1. k \in DOMAIN Q /\ a \in Q[k]
    BY <1>1, <1>4
  <2>2. CASE l \in DOMAIN Q
    BY <1>1, <1>4, <2>1, <2>2 DEF Line
  <2>3. CASE l = Len(Q) + 1
    BY <1>1, <1>4, <2>1, <2>3 DEF Line
  <2> QED
    BY <1>2, <2>2, <2>3
<1> QED
  BY <1>3, <1>4 DEF Line, P

(* A list that is held is the last before the counter.                     *)
LEMMA LineHeld ==
  ASSUME NEW B \in SUBSET Reading, NEW Q \in Seq(SUBSET Reading), NEW H,
         NEW now \in Reading, Line(B, Q, H, now), NEW held \in SUBSET {now}
  PROVE  Line(B, Q, held, now)
<1>1. \A h \in held : h = now /\ Then(h, now)
  BY ThenIs
<1> QED
  BY <1>1 DEF Line

(* One that is shown comes before those that wait.                         *)
LEMMA LineShow ==
  ASSUME NEW B, NEW Q \in Seq(SUBSET Reading), NEW H,
         NEW now, Line(B, Q, H, now), Q # <<>>, NEW C \in SUBSET (B \cup Q[1])
  PROVE  Line(C, Tail(Q), H, now)
<1>1. /\ Tail(Q) \in Seq(SUBSET Reading) /\ Len(Q) \in Nat \ {0} /\ DOMAIN Q = 1 .. Len(Q)
      /\ DOMAIN Tail(Q) = 1 .. Len(Q) - 1
      /\ \A k \in 1 .. Len(Q) - 1 : Tail(Q)[k] = Q[k + 1] /\ k + 1 \in DOMAIN Q
      /\ 1 \in DOMAIN Q
  OBVIOUS
<1>2. \A c \in C : c \in B \cup Q[1] /\ Then(c, now) /\ \A h \in H : Then(c, h)
  BY <1>1 DEF Line
<1>3. ASSUME NEW k \in DOMAIN Tail(Q), NEW a \in Tail(Q)[k]
      PROVE  /\ Then(a, now)
             /\ \A c \in C : Then(c, a)
             /\ \A h \in H : Then(a, h)
  <2>1. k + 1 \in DOMAIN Q /\ a \in Q[k + 1] /\ 1 < k + 1
    BY <1>1
  <2> QED
    BY <1>1, <1>2, <2>1 DEF Line
<1>4. ASSUME NEW k \in DOMAIN Tail(Q), NEW l \in DOMAIN Tail(Q), k < l,
             NEW a \in Tail(Q)[k], NEW b \in Tail(Q)[l]
      PROVE  Then(a, b)
  <2>1. k + 1 \in DOMAIN Q /\ a \in Q[k + 1] /\ l + 1 \in DOMAIN Q /\ b \in Q[l + 1] /\ k + 1 < l + 1
    BY <1>1, <1>4
  <2> QED
    BY <2>1 DEF Line
<1>5. \A h \in H : Then(h, now)
  BY DEF Line
<1> QED
  BY <1>2, <1>3, <1>4, <1>5 DEF Line

(* Fewer readings are a line as well.                                      *)
LEMMA LineLess ==
  ASSUME NEW B, NEW Q, NEW H, NEW now, Line(B, Q, H, now), NEW C \in SUBSET B
  PROVE  Line(C, Q, H, now)
  BY DEF Line

(* The reading of a row.                                                   *)
LEMMA BaseIs ==
  ASSUME NEW r \in Row
  PROVE  /\ Base(r) \in SUBSET Reading
         /\ Base(r) \subseteq {[total |-> r.total, mark |-> r.mark]}
         /\ r # NoRow => [total |-> r.total, mark |-> r.mark] \in Base(r)
         /\ Base(NoRow) = {}
  BY RowFields DEF Base, Reading

(* The readings of a list.                                                 *)
LEMMA ReadingsAre ==
  ASSUME NEW m \in Seq(Item), NEW d
  PROVE  /\ ReadingsOf(m, d) \in SUBSET Reading
         /\ \A i \in 1 .. Len(m) : m[i] \in Item
         /\ \A i \in 1 .. Len(m) :
              m[i].dev = d => [total |-> m[i].total, mark |-> m[i].mark] \in ReadingsOf(m, d)
<1>1. DOMAIN m = 1 .. Len(m) /\ \A i \in DOMAIN m : m[i] \in Item
  OBVIOUS
<1>2. \A i \in DOMAIN m : m[i].total \in Int /\ m[i].mark \in Nat
  BY <1>1, ItemFields
<1> QED
  BY <1>1, <1>2 DEF ReadingsOf, Reading

(* Those of the queue: the first list goes, another joins at its end.      *)
LEMMA QueueReadings ==
  ASSUME NEW q \in Seq(Seq(Item)), NEW d
  PROVE  /\ QueueOf(q, d) \in Seq(SUBSET Reading)
         /\ q # <<>> => /\ QueueOf(q, d) # <<>> /\ QueueOf(q, d)[1] = ReadingsOf(Head(q), d)
                        /\ QueueOf(Tail(q), d) = Tail(QueueOf(q, d))
         /\ \A m \in Seq(Item) : QueueOf(Append(q, m), d) = Append(QueueOf(q, d), ReadingsOf(m, d))
<1>1. /\ DOMAIN q = 1 .. Len(q) /\ Len(q) \in Nat
      /\ \A k \in DOMAIN q : q[k] \in Seq(Item) /\ ReadingsOf(q[k], d) \in SUBSET Reading
  BY ReadingsAre
<1>2. QueueOf(q, d) \in Seq(SUBSET Reading) /\ Len(QueueOf(q, d)) = Len(q)
  BY <1>1 DEF QueueOf
<1>3. ASSUME q # <<>>
      PROVE  /\ QueueOf(q, d) # <<>> /\ QueueOf(q, d)[1] = ReadingsOf(Head(q), d)
             /\ QueueOf(Tail(q), d) = Tail(QueueOf(q, d))
  <2>1. Len(q) # 0 /\ 1 \in DOMAIN q /\ Head(q) = q[1]
    BY <1>1, <1>3
  <2>2. QueueOf(q, d) # <<>> /\ QueueOf(q, d)[1] = ReadingsOf(Head(q), d)
    BY <1>2, <2>1 DEF QueueOf
  <2>3. /\ Tail(q) \in Seq(Seq(Item)) /\ Len(Tail(q)) = Len(q) - 1
        /\ \A k \in 1 .. Len(q) - 1 : Tail(q)[k] = q[k + 1] /\ k + 1 \in DOMAIN q
    BY <1>1, <1>3, <2>1
  <2> DEFINE T == Tail(QueueOf(q, d))
  <2>4. /\ T \in Seq(SUBSET Reading) /\ Len(T) = Len(q) - 1
        /\ \A k \in 1 .. Len(q) - 1 : T[k] = QueueOf(q, d)[k + 1]
    BY <1>2, <2>2
  <2> HIDE DEF T
  <2>5. DOMAIN Tail(q) = 1 .. Len(q) - 1 /\ DOMAIN T = 1 .. Len(q) - 1
    BY <2>3, <2>4
  <2>6. \A k \in 1 .. Len(q) - 1 : T[k] = ReadingsOf(Tail(q)[k], d)
    BY <2>3, <2>4 DEF QueueOf
  <2>7. T = [k \in 1 .. Len(q) - 1 |-> T[k]]
    BY <2>4, <2>5
  <2>8. QueueOf(Tail(q), d) = T
    BY <2>5, <2>6, <2>7 DEF QueueOf
  <2> QED
    BY <2>2, <2>8 DEF T
<1>4. ASSUME NEW m \in Seq(Item)
      PROVE  QueueOf(Append(q, m), d) = Append(QueueOf(q, d), ReadingsOf(m, d))
  <2> DEFINE A == Append(QueueOf(q, d), ReadingsOf(m, d))
  <2>1. /\ DOMAIN Append(q, m) = 1 .. Len(q) + 1 /\ Append(q, m)[Len(q) + 1] = m
        /\ \A k \in 1 .. Len(q) : Append(q, m)[k] = q[k]
    BY <1>1
  <2>2. /\ A \in Seq(SUBSET Reading) /\ DOMAIN A = 1 .. Len(q) + 1
        /\ A[Len(q) + 1] = ReadingsOf(m, d)
        /\ \A k \in 1 .. Len(q) : A[k] = QueueOf(q, d)[k]
    BY <1>2, ReadingsAre
  <2> HIDE DEF A
  <2>3. \A k \in 1 .. Len(q) + 1 : A[k] = ReadingsOf(Append(q, m)[k], d)
    <3>1. \A k \in 1 .. Len(q) + 1 : k \in 1 .. Len(q) \/ k = Len(q) + 1
      BY <1>1
    <3> QED
      BY <1>1, <2>1, <2>2, <3>1 DEF QueueOf
  <2>4. A = [k \in 1 .. Len(q) + 1 |-> A[k]]
    BY <2>2
  <2> QED
    BY <2>1, <2>3, <2>4 DEF QueueOf, A
<1> QED
  BY <1>2, <1>3, <1>4

(* All of them are readings.                                               *)
LEMMA LineTypes ==
  ASSUME TypeOK, NEW d \in Devices
  PROVE  /\ Base(view.rows[d]) \in SUBSET Reading
         /\ QueueOf(queue, d) \in Seq(SUBSET Reading)
         /\ ReadingsOf(worker.held, d) \in SUBSET Reading
         /\ Current(d) \in Reading
<1>1. total[d] \in Int /\ carried[d] \in Nat
  BY ViewFields, Constants DEF Totals
<1>2. Current(d) \in Reading
  BY <1>1 DEF Current, Reading
<1> QED
  BY <1>2, ViewFields, BaseIs, QueueReadings, ReadingsAre
-----------------------------------------------------------------------------
(* A list is shown *)

Kept(w) ==
  /\ w \in View /\ w.state = view.state /\ w.n = view.n
  /\ \A d \in Devices : Len(w.rows[d].hist) <= Samples

Timely(w) ==
  /\ kind # "memory" => \A d \in Devices : ~w.rows[d].gap
  /\ kind \in {"disk", "network"} =>
       \A d, e \in {x \in Devices : w.rows[x] # NoRow} :
          Len(w.rows[d].hist) = Len(w.rows[e].hist)

(* A view with other rows, ...                                             *)
LEMMA ViewRows ==
  ASSUME TypeOK, NEW rows \in [Devices -> Row],
         \A d \in Devices : Len(rows[d].hist) <= Samples
  PROVE  /\ Kept([view EXCEPT !.rows = rows])
         /\ [view EXCEPT !.rows = rows].rows = rows
         /\ [view EXCEPT !.rows = rows].peak = view.peak
<1>1. view \in View
  BY ViewFields
<1>2. /\ [view EXCEPT !.rows = rows] \in View
      /\ [view EXCEPT !.rows = rows].rows = rows
      /\ [view EXCEPT !.rows = rows].peak = view.peak
      /\ [view EXCEPT !.rows = rows].state = view.state
      /\ [view EXCEPT !.rows = rows].n = view.n
  BY <1>1 DEF View
<1> QED
  BY <1>2 DEF Kept

(* ... and another peak.                                                   *)
LEMMA ViewPeak ==
  ASSUME TypeOK, NEW rows \in [Devices -> Row],
         \A d \in Devices : Len(rows[d].hist) <= Samples, NEW peak \in Totals
  PROVE  /\ Kept([view EXCEPT !.rows = rows, !.peak = peak])
         /\ [view EXCEPT !.rows = rows, !.peak = peak].rows = rows
         /\ [view EXCEPT !.rows = rows, !.peak = peak].peak = peak
<1>1. view \in View
  BY ViewFields
<1>2. /\ [view EXCEPT !.rows = rows, !.peak = peak] \in View
      /\ [view EXCEPT !.rows = rows, !.peak = peak].rows = rows
      /\ [view EXCEPT !.rows = rows, !.peak = peak].peak = peak
      /\ [view EXCEPT !.rows = rows, !.peak = peak].state = view.state
      /\ [view EXCEPT !.rows = rows, !.peak = peak].n = view.n
  BY <1>1 DEF View
<1> QED
  BY <1>2 DEF Kept

(* Nothing for each.                                                       *)
LEMMA ZerosAre ==
  ASSUME NEW here
  PROVE  DOMAIN Zeros(here) = here /\ \A d \in here : Zeros(here)[d] = 0 /\ Zeros(here)[d] \in Totals
  BY Constants DEF Zeros

(* The devices a list names.                                               *)
LEMMA NamedAre ==
  ASSUME NEW m \in Seq(Item), NEW n \in Nat
  PROVE  /\ Named(m) \in SUBSET Devices
         /\ Named(SubSeq(m, 1, Min({n, Len(m)}))) \in SUBSET Devices
         /\ \A i \in 1 .. Len(m) : m[i] \in Item /\ m[i].dev \in Named(m)
<1>1. \A s \in Seq(Item) : /\ \A i \in 1 .. Len(s) : s[i] \in Item /\ s[i].dev \in Devices
                           /\ Named(s) \in SUBSET Devices
  BY ItemFields DEF Named
<1>2. Min({n, Len(m)}) \in {n, Len(m)}
  <2>1. Len(m) \in Nat
    OBVIOUS
  <2>2. \E x \in {n, Len(m)} : \A y \in {n, Len(m)} : x <= y
    BY <2>1
  <2> QED
    BY <2>2 DEF Min
<1>3. Min({n, Len(m)}) \in 0 .. Len(m)
  <2>1. \A y \in {n, Len(m)} : Min({n, Len(m)}) <= y
    <3>1. Len(m) \in Nat
      OBVIOUS
    <3>2. \E x \in {n, Len(m)} : \A y \in {n, Len(m)} : x <= y
      BY <3>1
    <3> QED
      BY <3>2 DEF Min
  <2> QED
    BY <1>2, <2>1
<1>4. SubSeq(m, 1, Min({n, Len(m)})) \in Seq(Item)
  <2> DEFINE k == Min({n, Len(m)})
  <2>1. k \in 0 .. Len(m) /\ Len(m) \in Nat
    BY <1>3
  <2> HIDE DEF k
  <2>2. SubSeq(m, 1, k) \in Seq(Item)
    BY <2>1
  <2> QED
    BY <2>2 DEF k
<1> QED
  BY <1>1, <1>4 DEF Named

(* The windows, one by one: what is drawn has the type of a view and the   *)
(* samples of one time.                                                    *)
LEMMA MemoryShown ==
  ASSUME TypeOK, NEW present \in SUBSET Devices
  PROVE  Kept(ShowMemory(present))
<1> DEFINE rows == Drawn(view.rows, Zeros(present))
<1>1. rows \in [Devices -> Row] /\ \A d \in Devices : Len(rows[d].hist) <= Samples
  BY ViewFields, ZerosAre, DrawnRows
<1>2. ShowMemory(present) = [view EXCEPT !.rows = rows]
  BY DEF ShowMemory
<1> HIDE DEF rows
<1> QED
  BY <1>1, <1>2, ViewRows

(* The same of the cores, ...                                              *)
LEMMA CoresShown ==
  ASSUME TypeOK, InTime, kind = "cpu"
  PROVE  Kept(ShowCores) /\ Timely(ShowCores)
<1> DEFINE there == {d \in Devices : view.rows[d] # NoRow}
           rows == Drawn(view.rows, Zeros(there))
<1>1. /\ view.rows \in [Devices -> Row] /\ \A d \in Devices : Len(view.rows[d].hist) <= Samples
      /\ DOMAIN Zeros(there) \subseteq Devices
      /\ \A d \in DOMAIN Zeros(there) : Zeros(there)[d] \in Totals
      /\ \A d \in Devices \ DOMAIN Zeros(there) : view.rows[d] = NoRow
      /\ \A d \in Devices : ~view.rows[d].gap
  BY ViewFields, ZerosAre DEF InTime
<1>2. /\ rows \in [Devices -> Row] /\ \A d \in Devices : Len(rows[d].hist) <= Samples
      /\ \A d \in Devices : ~rows[d].gap
  BY <1>1, Redrawn
<1>3. ShowCores = [view EXCEPT !.rows = rows]
  BY DEF ShowCores
<1> HIDE DEF rows
<1>4. Kept(ShowCores) /\ ShowCores.rows = rows
  BY <1>2, <1>3, ViewRows
<1> QED
  BY <1>2, <1>4 DEF Timely

(* ... of the sensors ...                                                  *)
LEMMA SensorsShown ==
  ASSUME TypeOK, InTime, kind = "sensors", NEW m \in Seq(Item)
  PROVE  Kept(ShowSensors(m)) /\ Timely(ShowSensors(m))
<1> DEFINE here == Named(SubSeq(m, 1, Min({view.n, Len(m)})))
           rows == Drawn(Found(here, NewSensor), Zeros(here))
<1>1. here \in SUBSET Devices
  BY NamedAre, ViewFields
<1>2. ShowSensors(m) = [view EXCEPT !.rows = rows]
  BY DEF ShowSensors
<1> HIDE DEF here
<1>3. /\ Found(here, NewSensor) \in [Devices -> Row]
      /\ \A d \in Devices : Len(Found(here, NewSensor)[d].hist) <= Samples
      /\ \A d \in Devices \ DOMAIN Zeros(here) : Found(here, NewSensor)[d] = NoRow
      /\ DOMAIN Zeros(here) \subseteq Devices
      /\ \A d \in DOMAIN Zeros(here) : Zeros(here)[d] \in Totals
      /\ \A d \in Devices : ~Found(here, NewSensor)[d].gap
  <2>1. \A d \in Devices : ~view.rows[d].gap
    BY DEF InTime
  <2> QED
    BY <1>1, <2>1, FoundRows, ZerosAre
<1>4. /\ rows \in [Devices -> Row] /\ \A d \in Devices : Len(rows[d].hist) <= Samples
      /\ \A d \in Devices : ~rows[d].gap
  BY <1>3, Redrawn
<1> HIDE DEF rows
<1>5. Kept(ShowSensors(m)) /\ ShowSensors(m).rows = rows
  BY <1>2, <1>4, ViewRows
<1> QED
  BY <1>4, <1>5 DEF Timely

(* Rows that were all seen, of histories of one length, have one more      *)
(* sample each or the samples there can be.                                *)
LEMMA DrawnInTime ==
  ASSUME NEW rows \in [Devices -> Row], \A d \in Devices : Len(rows[d].hist) <= Samples,
         NEW here \in SUBSET Devices, NEW value, DOMAIN value = here,
         \A d \in here : value[d] \in Totals,
         \A d \in Devices \ here : rows[d] = NoRow,
         \A d, e \in here : Len(rows[d].hist) = Len(rows[e].hist),
         \A d \in Devices : ~rows[d].gap,
         NEW w, w.rows = Drawn(rows, value)
  PROVE  Timely(w)
<1>1. /\ \A d \in Devices : ~w.rows[d].gap
      /\ \A d \in Devices \ here : w.rows[d] = NoRow
      /\ \A d \in here : w.rows[d] = Sampled(rows[d], value[d])
  BY Redrawn
<1>2. ASSUME NEW d \in Devices, NEW e \in Devices, w.rows[d] # NoRow, w.rows[e] # NoRow
      PROVE  Len(w.rows[d].hist) = Len(w.rows[e].hist)
  <2>1. d \in here /\ e \in here
    BY <1>1, <1>2
  <2>2. \A x \in here : Len(w.rows[x].hist) =
            IF Len(rows[x].hist) < Samples THEN Len(rows[x].hist) + 1 ELSE Samples
    BY <1>1, SampledRow
  <2> QED
    BY <2>1, <2>2
<1> QED
  BY <1>1, <1>2 DEF Timely

(* ... and of the disks.                                                   *)
LEMMA DisksShown ==
  ASSUME TypeOK, InTime, kind = "disk", NEW m \in Seq(Item)
  PROVE  Kept(ShowDisks(Named(m))) /\ Timely(ShowDisks(Named(m)))
<1> DEFINE here == Named(m)
           old == Reset(here, NewDisk)
           rows == Drawn(old, Zeros(here))
<1>1. here \in SUBSET Devices
  BY NamedAre
<1>2. ShowDisks(here) = [view EXCEPT !.rows = rows]
  BY DEF ShowDisks
<1> HIDE DEF here
<1>3. /\ old \in [Devices -> Row] /\ \A d \in Devices : Len(old[d].hist) <= Samples
      /\ \A d \in Devices \ here : old[d] = NoRow
      /\ \A d \in Devices : ~old[d].gap
  <2>1. \A d \in Devices : ~view.rows[d].gap
    BY DEF InTime
  <2> QED
    BY <1>1, <2>1, ResetRows
<1>4. \A d, e \in here : Len(old[d].hist) = Len(old[e].hist)
  BY <1>1, SameLength
<1>5. DOMAIN Zeros(here) = here /\ \A d \in here : Zeros(here)[d] \in Totals
  BY ZerosAre
<1> HIDE DEF old
<1>6. rows \in [Devices -> Row] /\ \A d \in Devices : Len(rows[d].hist) <= Samples
  BY <1>1, <1>3, <1>5, Redrawn
<1>7. Kept(ShowDisks(here)) /\ ShowDisks(here).rows = rows
  <2> HIDE DEF rows
  <2> QED
    BY <1>2, <1>6, ViewRows
<1>8. Timely(ShowDisks(here))
  BY <1>1, <1>3, <1>4, <1>5, <1>7, DrawnInTime
<1> QED
  BY <1>7, <1>8 DEF here

(* The rows of the network window after a list: each has the total and the *)
(* mark of the list, a sample more, and is covered by what was carried;    *)
(* and the graph's top is not below any sample.                            *)
LEMMA InterfacesShown ==
  ASSUME TypeOK, InTime, PeakCovers, kind = "network", NEW m \in Seq(Item),
         \A d \in Devices : Sum(view.rows[d].hist) <= view.rows[d].mark,
         \A d \in Devices : \A b \in Base(view.rows[d]), a \in ReadingsOf(m, d) : Then(b, a)
  PROVE  /\ Kept(ShowInterfaces(m)) /\ Timely(ShowInterfaces(m))
         /\ \A d \in Devices :
              LET row == ShowInterfaces(m).rows[d] IN
              /\ \A v \in ToSet(row.hist) : v <= ShowInterfaces(m).peak
              /\ Base(row) \in SUBSET ReadingsOf(m, d)
              /\ Sum(row.hist) <= row.mark
<1> DEFINE here == Named(m)
           now(d) == m[CHOOSE i \in 1 .. Len(m) : m[i].dev = d]
           rate == [d \in here |-> Rate(view.rows[d], now(d).total)]
           old == Reset(here, NewInterface)
           read == [d \in Devices |->
                      IF d \in here
                        THEN [old[d] EXCEPT !.total = now(d).total, !.mark = now(d).mark]
                        ELSE NoRow]
           rows == Drawn(read, rate)
           tops == {rate[d] : d \in here} \cup {IF New(here) # {} THEN 0 ELSE view.peak}
           peak == Max(tops)
           w == ShowInterfaces(m)
<1>1. w = [view EXCEPT !.rows = rows, !.peak = peak]
  BY DEF ShowInterfaces
<1>2. here \in SUBSET Devices
  BY NamedAre, ViewFields
<1>3. ASSUME NEW d \in here
      PROVE  now(d) \in Item /\ [total |-> now(d).total, mark |-> now(d).mark] \in ReadingsOf(m, d)
  <2>1. \E i \in 1 .. Len(m) : m[i].dev = d
    BY DEF Named
  <2>2. PICK i \in 1 .. Len(m) : m[i].dev = d /\ now(d) = m[i]
    BY <2>1
  <2> HIDE DEF now
  <2> QED
    BY <2>2, ReadingsAre
<1> HIDE DEF now, w, here
<1>4. ASSUME NEW d \in here
      PROVE  /\ Rate(view.rows[d], now(d).total) \in Totals
             /\ Rate(view.rows[d], now(d).total) <= now(d).mark - view.rows[d].mark
  <2>1. view.rows[d] \in Row /\ now(d) \in Item
    BY <1>2, <1>3, ViewFields
  <2>2. ASSUME view.rows[d] # NoRow PROVE Then(view.rows[d], now(d))
    <3>1. [total |-> view.rows[d].total, mark |-> view.rows[d].mark] \in Base(view.rows[d])
      BY <2>1, <2>2, BaseIs
    <3>2. Then([total |-> view.rows[d].total, mark |-> view.rows[d].mark],
               [total |-> now(d).total, mark |-> now(d).mark])
      BY <1>2, <1>3, <3>1
    <3> QED
      BY <3>2 DEF Then
  <2> QED
    BY <2>1, <2>2, RateCarried
<1>5. DOMAIN rate = here /\ \A d \in here : /\ rate[d] = Rate(view.rows[d], now(d).total)
                                            /\ rate[d] \in Totals
                                            /\ rate[d] <= now(d).mark - view.rows[d].mark
  BY <1>4
<1> HIDE DEF rate
<1>6. /\ old \in [Devices -> Row] /\ \A d \in Devices : Len(old[d].hist) <= Samples
      /\ \A d \in Devices : ~old[d].gap
      /\ New(here) = {} => \A d \in here : old[d] = view.rows[d]
      /\ New(here) # {} => \A d \in here : old[d].hist = <<>>
  <2>1. \A d \in Devices : ~view.rows[d].gap
    BY DEF InTime
  <2> QED
    BY <1>2, <2>1, ResetRows
<1>7. \A d, e \in here : Len(old[d].hist) = Len(old[e].hist)
  BY <1>2, SameLength
<1> HIDE DEF old
<1>8. ASSUME NEW d \in here
      PROVE  /\ read[d] \in Row /\ read[d].hist = old[d].hist /\ read[d].gap = old[d].gap
             /\ read[d].total = now(d).total /\ read[d].mark = now(d).mark
  <2>1. old[d] \in Row /\ now(d).total \in Totals /\ now(d).mark \in Nat
    BY <1>2, <1>3, <1>6, ItemFields
  <2>2. read[d] = [old[d] EXCEPT !.total = now(d).total, !.mark = now(d).mark]
    BY <1>2
  <2> HIDE DEF read
  <2> QED
    BY <2>1, <2>2 DEF Row
<1>9. \A d \in Devices \ here : read[d] = NoRow
  OBVIOUS
<1>10. DOMAIN read = Devices /\ read = [d \in Devices |-> read[d]]
  OBVIOUS
<1> HIDE DEF read
<1>11. /\ read \in [Devices -> Row] /\ \A d \in Devices : Len(read[d].hist) <= Samples
       /\ \A d \in Devices : ~read[d].gap
  <2>1. \A d \in Devices : read[d] \in Row /\ Len(read[d].hist) <= Samples /\ ~read[d].gap
    BY <1>2, <1>6, <1>8, <1>9, NoRowIs, Constants
  <2> QED
    BY <1>10, <2>1
<1>12. /\ rows \in [Devices -> Row] /\ \A d \in Devices : Len(rows[d].hist) <= Samples
       /\ \A d \in Devices \ here : rows[d] = NoRow
       /\ \A d \in here : rows[d] = Sampled(read[d], rate[d])
  BY <1>2, <1>5, <1>9, <1>11, Redrawn
<1>13. /\ peak \in Totals /\ \A d \in here : rate[d] <= peak
       /\ New(here) = {} => view.peak <= peak
  <2>1. MaxTotal \in Nat /\ 0 \in Totals /\ view.peak \in Totals
    BY Constants, ViewFields
  <2>2. tops \in SUBSET (0 .. MaxTotal) /\ tops # {}
    BY <1>5, <2>1 DEF Totals
  <2>3. \A d \in here : rate[d] \in tops
    OBVIOUS
  <2>4. New(here) = {} => view.peak \in tops
    OBVIOUS
  <2> HIDE DEF tops
  <2>5. Max(tops) \in tops /\ \A v \in tops : v <= Max(tops)
    BY <2>1, <2>2, MaxOf
  <2> QED
    BY <2>2, <2>3, <2>4, <2>5 DEF Totals
<1> HIDE DEF peak
<1>14. Kept(w) /\ w.rows = rows /\ w.peak = peak
  <2> HIDE DEF rows
  <2> QED
    BY <1>1, <1>12, <1>13, ViewPeak
<1>15. Timely(w)
  <2>1. \A d, e \in here : Len(read[d].hist) = Len(read[e].hist)
    BY <1>7, <1>8
  <2> QED
    BY <1>2, <1>5, <1>9, <1>11, <1>14, <2>1, DrawnInTime
<1> HIDE DEF rows
<1>16. ASSUME NEW d \in Devices
       PROVE  /\ \A v \in ToSet(rows[d].hist) : v <= peak
              /\ Base(rows[d]) \in SUBSET ReadingsOf(m, d)
              /\ Sum(rows[d].hist) <= rows[d].mark
  <2>1. CASE d \notin here
    <3>1. rows[d] = NoRow
      BY <1>12, <2>1
    <3>2. ToSet(NoRow.hist) = {}
      BY NoRowIs DEF ToSet
    <3>3. Base(NoRow) = {}
      BY DEF Base
    <3>4. Sum(NoRow.hist) <= NoRow.mark
      BY NoRowIs
    <3> QED
      BY <3>1, <3>2, <3>3, <3>4
  <2>2. CASE d \in here
    <3>1. /\ read[d] \in Row /\ rate[d] \in Totals /\ rate[d] \in Nat
          /\ Len(read[d].hist) <= Samples
      BY <1>5, <1>8, <1>11, <2>2, Constants
    <3>2. /\ rows[d] \in Row
          /\ Sum(rows[d].hist) <= Sum(read[d].hist) + rate[d]
          /\ ToSet(rows[d].hist) \subseteq ToSet(read[d].hist) \cup {rate[d]}
          /\ rows[d].total = read[d].total /\ rows[d].mark = read[d].mark
      <4>1. rows[d] = Sampled(read[d], rate[d])
        BY <1>12, <2>2
      <4>2. ASSUME NEW r \in Row, NEW v \in Totals, Len(r.hist) <= Samples
            PROVE  /\ Sampled(r, v) \in Row
                   /\ Sum(Sampled(r, v).hist) <= Sum(r.hist) + v
                   /\ ToSet(Sampled(r, v).hist) \subseteq ToSet(r.hist) \cup {v}
                   /\ Sampled(r, v).total = r.total /\ Sampled(r, v).mark = r.mark
        BY <4>2, SampledRow
      <4> HIDE DEF tops
      <4>3. /\ Sampled(read[d], rate[d]) \in Row
            /\ Sum(Sampled(read[d], rate[d]).hist) <= Sum(read[d].hist) + rate[d]
        BY <3>1, <4>2
      <4>4. ToSet(Sampled(read[d], rate[d]).hist) \subseteq ToSet(read[d].hist) \cup {rate[d]}
        BY <3>1, <4>2
      <4>5. /\ Sampled(read[d], rate[d]).total = read[d].total
            /\ Sampled(read[d], rate[d]).mark = read[d].mark
        BY <3>1, <4>2
      <4> QED
        BY <4>1, <4>3, <4>4, <4>5
    <3>3. \A v \in ToSet(rows[d].hist) : v <= peak
      <4>1. CASE New(here) = {}
        <5>1. \A v \in ToSet(read[d].hist) : v \in Nat /\ v <= view.peak
          <6>1. read[d].hist = view.rows[d].hist
            BY <1>6, <1>8, <2>2, <4>1
          <6>2. view.rows[d].hist \in Seq(Nat)
            BY ViewFields, RowFields
          <6> QED
            BY <6>1, <6>2 DEF PeakCovers, ToSet
        <5>2. view.peak <= peak /\ view.peak \in Nat /\ peak \in Nat
          BY <1>13, <4>1, ViewFields, Constants
        <5> QED
          BY <1>13, <2>2, <3>2, <5>1, <5>2
      <4>2. CASE New(here) # {}
        <5>1. ToSet(read[d].hist) = {}
          BY <1>6, <1>8, <2>2, <4>2 DEF ToSet
        <5> QED
          BY <1>13, <2>2, <3>2, <5>1
      <4> QED
        BY <4>1, <4>2
    <3>4. Base(rows[d]) \in SUBSET ReadingsOf(m, d)
      <4>1. rows[d].total = now(d).total /\ rows[d].mark = now(d).mark
        BY <1>8, <2>2, <3>2
      <4>2. Base(rows[d]) \subseteq {[total |-> rows[d].total, mark |-> rows[d].mark]}
        BY <3>2, BaseIs
      <4>3. [total |-> now(d).total, mark |-> now(d).mark] \in ReadingsOf(m, d)
        BY <1>3, <2>2
      <4> QED
        BY <4>1, <4>2, <4>3
    <3>5. Sum(read[d].hist) + rate[d] <= now(d).mark
      <4>1. /\ rate[d] <= now(d).mark - view.rows[d].mark /\ now(d).mark \in Nat
            /\ view.rows[d].mark \in Nat /\ Sum(view.rows[d].hist) <= view.rows[d].mark
            /\ Sum(view.rows[d].hist) \in Nat
        BY <1>3, <1>5, <2>2, ViewFields, RowFields, ItemFields
      <4>2. CASE New(here) = {}
        <5>1. read[d].hist = view.rows[d].hist
          BY <1>6, <1>8, <2>2, <4>2
        <5> QED
          BY <3>1, <4>1, <5>1
      <4>3. CASE New(here) # {}
        <5>1. Sum(read[d].hist) = 0
          BY <1>6, <1>8, <2>2, <4>3, SumFacts
        <5> QED
          BY <3>1, <4>1, <5>1
      <4> QED
        BY <4>2, <4>3
    <3>6. Sum(rows[d].hist) <= rows[d].mark
      <4>1. rows[d].mark = now(d).mark /\ now(d).mark \in Nat /\ Sum(rows[d].hist) \in Nat
            /\ Sum(read[d].hist) \in Nat
        BY <1>3, <1>8, <2>2, <3>1, <3>2, RowFields, ItemFields
      <4> QED
        BY <3>1, <3>2, <3>5, <4>1
    <3> QED
      BY <3>3, <3>4, <3>6
  <2> QED
    BY <2>1, <2>2
<1> QED
  BY <1>14, <1>15, <1>16 DEF w
-----------------------------------------------------------------------------
(* What the steps are made of *)

(* The worker at another place, or with another list.                      *)
LEMMA WorkerWith ==
  ASSUME TypeOK, NEW at \in {"top", "getting", "reading", "ended"}
  PROVE  /\ [worker EXCEPT !.at = at] \in Working
         /\ [worker EXCEPT !.at = at].at = at
         /\ [worker EXCEPT !.at = at].held = worker.held
         /\ \A m \in Seq(Item) : /\ [at |-> at, held |-> m] \in Working
                                 /\ [worker EXCEPT !.held = m] \in Working
                                 /\ [worker EXCEPT !.held = m].held = m
                                 /\ [worker EXCEPT !.held = m].at = worker.at
<1>1. worker \in Working
  BY ViewFields
<1> QED
  BY <1>1 DEF Working

(* The empty list.                                                         *)
LEMMA NoItems ==
  <<>> \in Seq(Item) /\ \A d : ReadingsOf(<<>>, d) = {}
  BY DEF ReadingsOf

(* A list that is read now has the counters of now.                        *)
LEMMA ListItems ==
  ASSUME TypeOK
  PROVE  /\ Items \in Seq(Item) /\ Len(Items) = Len(list)
         /\ \A d \in Devices : ReadingsOf(Items, d) \in SUBSET {Current(d)}
<1>1. /\ list \in Seq(Devices) /\ Len(list) \in Nat
      /\ \A i \in 1 .. Len(list) : list[i] \in Devices
      /\ total \in [Devices -> Totals] /\ carried \in [Devices -> Nat]
  <2>1. list \in Seq(Devices)
    BY DEF TypeOK
  <2> QED
    BY <2>1, ViewFields
<1>2. ASSUME NEW i \in 1 .. Len(list)
      PROVE  /\ Items[i] \in Item /\ Items[i].dev = list[i] /\ Items[i].total = total[list[i]]
             /\ Items[i].mark = carried[list[i]]
  <2>1. Items[i] = [dev |-> list[i], total |-> total[list[i]], freed |-> FALSE,
                    mark |-> carried[list[i]]]
    BY DEF Items
  <2> QED
    BY <1>1, <2>1 DEF Item
<1>3. DOMAIN Items = 1 .. Len(list) /\ Items = [i \in 1 .. Len(list) |-> Items[i]]
  BY DEF Items
<1>4. Items \in Seq(Item) /\ Len(Items) = Len(list)
  BY <1>1, <1>2, <1>3
<1>5. ASSUME NEW d \in Devices, NEW r \in ReadingsOf(Items, d) PROVE r = Current(d)
  <2>1. PICK i \in 1 .. Len(list) :
          Items[i].dev = d /\ r = [total |-> Items[i].total, mark |-> Items[i].mark]
    BY <1>3 DEF ReadingsOf
  <2> QED
    BY <1>2, <2>1 DEF Current
<1> QED
  BY <1>4, <1>5

(* A device that is gone leaves the readings as they were.                 *)
LEMMA WithoutIs ==
  ASSUME NEW m \in Seq(Item), NEW gone
  PROVE  /\ Without(m, gone) \in Seq(Item) /\ Len(Without(m, gone)) = Len(m)
         /\ \A d : ReadingsOf(Without(m, gone), d) = ReadingsOf(m, d)
<1> DEFINE w == Without(m, gone)
<1>1. Len(m) \in Nat /\ DOMAIN m = 1 .. Len(m) /\ \A i \in 1 .. Len(m) : m[i] \in Item
  OBVIOUS
<1>2. ASSUME NEW i \in 1 .. Len(m)
      PROVE  /\ w[i] \in Item /\ w[i].dev = m[i].dev /\ w[i].total = m[i].total
             /\ w[i].mark = m[i].mark
  <2>1. PICK f \in BOOLEAN : w[i] = [m[i] EXCEPT !.freed = f]
    <3>1. \A f : f = (m[i].freed \/ (kind \in Pointers /\ m[i].dev \in gone)) => f \in BOOLEAN
      OBVIOUS
    <3>2. w[i] = [m[i] EXCEPT !.freed =
                     m[i].freed \/ (kind \in Pointers /\ m[i].dev \in gone)]
      BY DEF Without
    <3> QED
      BY <3>1, <3>2
  <2>2. m[i] \in Item
    BY <1>1
  <2> HIDE DEF w
  <2> QED
    BY <2>1, <2>2 DEF Item
<1>3. DOMAIN w = 1 .. Len(m) /\ w = [i \in 1 .. Len(m) |-> w[i]]
  BY DEF Without
<1> HIDE DEF w
<1>4. w \in Seq(Item) /\ Len(w) = Len(m)
  BY <1>1, <1>2, <1>3
<1>5. \A d : ReadingsOf(w, d) = ReadingsOf(m, d)
  BY <1>1, <1>2, <1>3 DEF ReadingsOf
<1> QED
  BY <1>4, <1>5 DEF w

(* Rows and top as they were.                                              *)
LEMMA RowsSame ==
  ASSUME PeakCovers, InTime, kind' = kind, view'.rows = view.rows, view'.peak = view.peak
  PROVE  PeakCovers' /\ InTime'
<1>1. PeakCovers'
  BY DEF PeakCovers
<1>2. InTime'
  BY DEF InTime
<1> QED
  BY <1>1, <1>2

(* No rows at all, as of a window that is freed or new.                    *)
LEMMA RowsGone ==
  ASSUME TypeOK, PipeInv, kind' = kind, view'.rows = NoRows,
         UNCHANGED <<total, carried, queue>>, worker'.held = worker.held
  PROVE  PeakCovers' /\ InTime' /\ PipeInv'
<1>1. \A d \in Devices : view'.rows[d] = NoRow
  BY NoRowIs
<1>2. PeakCovers'
  <2>1. ToSet(NoRow.hist) = {}
    BY NoRowIs DEF ToSet
  <2> QED
    BY <1>1, <2>1 DEF PeakCovers
<1>3. InTime'
  BY <1>1, NoRowIs DEF InTime
<1>4. PipeInv'
  <2> SUFFICES ASSUME kind = "network", NEW d \in Devices PROVE Ordered(d)'
    BY DEF PipeInv
  <2>1. Line(Base(view.rows[d]), QueueOf(queue, d), ReadingsOf(worker.held, d), Current(d))
    BY DEF PipeInv, Ordered
  <2>2. Base(NoRow) = {} /\ Sum(NoRow.hist) <= NoRow.mark
    BY NoRowIs DEF Base
  <2>3. Line({}, QueueOf(queue, d), ReadingsOf(worker.held, d), Current(d))
    BY <2>1, LineLess
  <2> QED
    BY <1>1, <2>2, <2>3 DEF Ordered, Current
<1> QED
  BY <1>2, <1>3, <1>4

(* The line is about these alone.                                          *)
LEMMA PipeSame ==
  ASSUME PipeInv, kind' = kind, view'.rows = view.rows, worker'.held = worker.held,
         UNCHANGED <<total, carried, queue>>
  PROVE  PipeInv'
  BY DEF PipeInv, Ordered, Current
-----------------------------------------------------------------------------
(* The worker's steps *)

LEMMA PollKeeps ==
  ASSUME IInv, Poll
  PROVE  IInv'
<1>1. /\ worker.at = "top" /\ view.state = "open" /\ Len(queue) < MaxQueue
      /\ worker' = [worker EXCEPT !.at = "getting"] /\ static' = {}
      /\ view' = (IF kind = "sensors" THEN [view EXCEPT !.n = 0] ELSE view)
      /\ behind' = (queue # <<>>)
      /\ kind' = kind /\ list' = list /\ total' = total /\ carried' = carried
      /\ queue' = queue /\ gaveUp' = gaveUp /\ misused' = misused /\ changes' = changes
  BY DEF Poll, Cancelled, engine
<1>2. TypeOK /\ SendInv /\ PipeInv /\ PeakCovers /\ InTime
  BY DEF IInv
<1>3. worker' \in Working /\ worker'.at = "getting" /\ worker'.held = worker.held
  BY <1>1, <1>2, WorkerWith
<1>4. /\ view' \in View /\ view'.rows = view.rows /\ view'.peak = view.peak
      /\ view'.state = "open" /\ view'.n = (IF kind = "sensors" THEN 0 ELSE view.n)
  <2>1. view \in View
    BY <1>2, ViewFields
  <2> QED
    BY <1>1, <2>1 DEF View
<1>5. TypeOK'
  BY <1>1, <1>2, <1>3, <1>4 DEF TypeOK
<1>6. SendInv'
  <2>1. queue = <<>> => Len(queue) <= 1
    OBVIOUS
  <2> QED
    BY <1>1, <1>3, <1>4, <2>1 DEF SendInv
<1>7. PipeInv'
  BY <1>1, <1>2, <1>3, <1>4, PipeSame
<1>8. PeakCovers' /\ InTime'
  BY <1>1, <1>2, <1>4, RowsSame
<1> QED
  BY <1>5, <1>6, <1>7, <1>8 DEF IInv

LEMMA EndKeeps ==
  ASSUME IInv, End
  PROVE  IInv'
<1>1. /\ worker.at = "top" /\ worker' = [worker EXCEPT !.at = "ended"]
      /\ static' = static /\ view' = view /\ behind' = behind
      /\ kind' = kind /\ list' = list /\ total' = total /\ carried' = carried
      /\ queue' = queue /\ gaveUp' = gaveUp /\ misused' = misused /\ changes' = changes
  BY DEF End, engine
<1>2. TypeOK /\ SendInv /\ PipeInv /\ PeakCovers /\ InTime
  BY DEF IInv
<1>3. worker' \in Working /\ worker'.at = "ended" /\ worker'.held = worker.held
  BY <1>1, <1>2, WorkerWith
<1>4. TypeOK'
  BY <1>1, <1>2, <1>3 DEF TypeOK
<1>5. SendInv'
  BY <1>1, <1>2, <1>3 DEF SendInv
<1>6. PipeInv'
  BY <1>1, <1>2, <1>3, PipeSame
<1>7. PeakCovers' /\ InTime'
  BY <1>1, <1>2, RowsSame
<1> QED
  BY <1>4, <1>5, <1>6, <1>7 DEF IInv

(* What sending, or not sending, does to the queue and the worker.         *)
LEMMA SendIs ==
  ASSUME TypeOK, SendInv, worker.at \in {"getting", "reading"}, NEW m \in Seq(Item),
         Send(m) \/ SendNothing
  PROVE  /\ worker' \in Working /\ worker'.at = "top" /\ worker'.held = <<>>
         /\ queue' \in Seq(Seq(Item)) /\ Len(queue') \in Nat /\ Len(queue') <= MaxQueue
         /\ queue' = queue \/ queue' = Append(queue, m)
         /\ queue = <<>> => Len(queue') <= 1 /\ (queue' # <<>> => queue'[1] = m)
<1>1. worker' = [at |-> "top", held |-> <<>>]
  BY DEF Send, SendNothing
<1>2. worker' \in Working /\ worker'.at = "top" /\ worker'.held = <<>>
  BY <1>1, NoItems DEF Working
<1>3. queue' = queue \/ queue' = Append(queue, m)
  BY DEF Send, SendNothing
<1>4. /\ queue \in Seq(Seq(Item)) /\ Len(queue) \in Nat /\ Len(queue) < MaxQueue
      /\ MaxQueue \in Nat
  BY ViewFields, Constants DEF SendInv
<1> DEFINE A == Append(queue, m)
<1>5. /\ A \in Seq(Seq(Item)) /\ Len(A) = Len(queue) + 1 /\ Len(A) \in Nat
      /\ Len(A) <= MaxQueue /\ A[Len(queue) + 1] = m
  BY <1>4
<1>6. queue = <<>> => Len(queue) = 0
  OBVIOUS
<1>7. queue' = queue \/ queue' = A
  BY <1>3
<1> HIDE DEF A
<1>8. queue' \in Seq(Seq(Item)) /\ Len(queue') \in Nat /\ Len(queue') <= MaxQueue
  BY <1>4, <1>5, <1>7
<1>9. ASSUME queue = <<>> PROVE Len(queue') <= 1 /\ (queue' # <<>> => queue'[1] = m)
  <2>1. Len(queue) = 0 /\ Len(A) = 1 /\ A[1] = m
    <3>1. Len(queue) = 0
      BY <1>6, <1>9
    <3>2. Len(queue) + 1 = 1
      BY <3>1
    <3> QED
      BY <1>5, <3>1, <3>2
  <2>2. CASE queue' = queue
    BY <1>9, <2>1, <2>2
  <2>3. CASE queue' = A
    <3>1. Len(queue') = 1
      BY <2>1, <2>3
    <3>2. queue'[1] = m
      BY <2>1, <2>3
    <3> QED
      BY <3>1, <3>2
  <2> QED
    BY <1>7, <2>2, <2>3
<1> QED
  BY <1>2, <1>3, <1>8, <1>9

(* What the engine answered is sent, or the worker goes on to read it.     *)
LEMMA GotKeeps ==
  ASSUME IInv, Got
  PROVE  IInv'
<1>1. /\ worker.at = "getting" /\ behind' = behind
      /\ kind' = kind /\ list' = list /\ total' = total /\ carried' = carried
      /\ gaveUp' = gaveUp /\ changes' = changes
      /\ GotMemory \/ GotDisk \/ GotSensors \/ GotPointers
  BY DEF Got, engine
<1>2. TypeOK /\ SendInv /\ PipeInv /\ PeakCovers /\ InTime
  BY DEF IInv
<1>3. Items \in Seq(Item) /\ Len(Items) \in Nat
  BY <1>2, ListItems
<1>4. ~behind => queue = <<>>
  BY <1>1, <1>2 DEF SendInv
<1>5. CASE GotMemory
  <2>1. /\ kind = "memory" /\ static' = ToSet(list) /\ Send(<<>>) /\ view' = view
        /\ misused' = misused \cup (IF view.state = "freed" THEN {"view"} ELSE {})
    BY <1>5 DEF GotMemory, MemoryGot, Misuse
  <2>2. /\ worker' \in Working /\ worker'.at = "top" /\ worker'.held = <<>>
        /\ queue' \in Seq(Seq(Item)) /\ Len(queue') \in Nat /\ Len(queue') <= MaxQueue
        /\ queue = <<>> => Len(queue') <= 1
    BY <1>1, <1>2, <2>1, SendIs, NoItems
  <2>3. static' \subseteq Devices
    <3>1. list \in Seq(Devices)
      BY <1>2 DEF TypeOK
    <3> QED
      BY <2>1, <3>1 DEF ToSet
  <2>4. TypeOK'
    BY <1>1, <1>2, <2>1, <2>2, <2>3 DEF TypeOK
  <2>5. SendInv'
    BY <1>1, <1>2, <1>4, <2>1, <2>2 DEF SendInv
  <2>6. PipeInv'
    BY <1>1, <2>1 DEF PipeInv
  <2>7. PeakCovers' /\ InTime'
    BY <1>1, <1>2, <2>1, RowsSame
  <2> QED
    BY <2>4, <2>5, <2>6, <2>7 DEF IInv
<1>6. CASE GotDisk
  <2>1. /\ kind = "disk" /\ static' = static /\ view' = view /\ misused' = misused
        /\ Send(Items) \/ SendNothing
    BY <1>6 DEF GotDisk, FileSystemsGot
  <2>2. /\ worker' \in Working /\ worker'.at = "top" /\ worker'.held = <<>>
        /\ queue' \in Seq(Seq(Item)) /\ Len(queue') \in Nat /\ Len(queue') <= MaxQueue
        /\ queue = <<>> => Len(queue') <= 1
    BY <1>1, <1>2, <1>3, <2>1, SendIs
  <2>3. TypeOK'
    BY <1>1, <1>2, <2>1, <2>2 DEF TypeOK
  <2>4. SendInv'
    BY <1>1, <1>2, <1>4, <2>1, <2>2 DEF SendInv
  <2>5. PipeInv'
    BY <1>1, <2>1 DEF PipeInv
  <2>6. PeakCovers' /\ InTime'
    BY <1>1, <1>2, <2>1, RowsSame
  <2> QED
    BY <2>3, <2>4, <2>5, <2>6 DEF IInv
<1>7. CASE GotSensors
  <2>1. /\ kind = "sensors" /\ static' = static /\ Send(Items)
        /\ view' = (IF view.state = "freed" THEN view ELSE [view EXCEPT !.n = Len(Items)])
        /\ misused' = misused \cup (IF view.state = "freed" THEN {"view"} ELSE {})
    BY <1>7 DEF GotSensors, SensorsGot, Misuse
  <2>2. /\ worker' \in Working /\ worker'.at = "top" /\ worker'.held = <<>>
        /\ queue' \in Seq(Seq(Item)) /\ Len(queue') \in Nat /\ Len(queue') <= MaxQueue
        /\ queue = <<>> => Len(queue') <= 1 /\ (queue' # <<>> => queue'[1] = Items)
    BY <1>1, <1>2, <1>3, <2>1, SendIs
  <2>3. /\ view' \in View /\ view'.rows = view.rows /\ view'.peak = view.peak
        /\ view'.state = view.state
        /\ view'.n = (IF view.state = "freed" THEN view.n ELSE Len(Items))
    <3>1. view \in View
      BY <1>2, ViewFields
    <3> QED
      BY <1>3, <2>1, <3>1 DEF View
  <2>4. TypeOK'
    BY <1>1, <1>2, <2>1, <2>2, <2>3 DEF TypeOK
  <2>5. SendInv'
    <3>1. view.state = "freed" => view.n = 0 /\ 0 <= Len(Items)
      BY <1>2, <1>3 DEF SendInv
    <3>2. view'.n <= Len(Items)
      BY <1>3, <2>3, <3>1
    <3> QED
      BY <1>1, <1>2, <1>4, <2>2, <2>3, <3>1, <3>2 DEF SendInv
  <2>6. PipeInv'
    BY <1>1, <2>1 DEF PipeInv
  <2>7. PeakCovers' /\ InTime'
    BY <1>1, <1>2, <2>3, RowsSame
  <2> QED
    BY <2>4, <2>5, <2>6, <2>7 DEF IInv
<1>8. CASE GotPointers
  <2>1. /\ worker' = [at |-> "reading", held |-> Items]
        /\ queue' = queue /\ static' = static /\ view' = view /\ misused' = misused
    BY <1>8 DEF GotPointers, InterfacesGot, CoresGot
  <2>2. worker' \in Working /\ worker'.at = "reading" /\ worker'.held = Items
    BY <1>3, <2>1 DEF Working
  <2>3. TypeOK'
    BY <1>1, <1>2, <2>1, <2>2 DEF TypeOK
  <2>4. SendInv'
    BY <1>1, <1>2, <2>1, <2>2 DEF SendInv
  <2>5. PipeInv'
    <3> SUFFICES ASSUME kind = "network", NEW d \in Devices PROVE Ordered(d)'
      BY <1>1 DEF PipeInv
    <3>1. /\ Sum(view.rows[d].hist) <= view.rows[d].mark
          /\ Line(Base(view.rows[d]), QueueOf(queue, d), ReadingsOf(worker.held, d), Current(d))
      BY <1>2 DEF PipeInv, Ordered
    <3>2. Line(Base(view.rows[d]), QueueOf(queue, d), ReadingsOf(Items, d), Current(d))
      BY <1>2, <3>1, LineHeld, LineTypes, ListItems
    <3> QED
      BY <1>1, <2>1, <2>2, <3>1, <3>2 DEF Ordered, Current
  <2>6. PeakCovers' /\ InTime'
    BY <1>1, <1>2, <2>1, RowsSame
  <2> QED
    BY <2>3, <2>4, <2>5, <2>6 DEF IInv
<1> QED
  BY <1>1, <1>5, <1>6, <1>7, <1>8

LEMMA ReadKeeps ==
  ASSUME IInv, Read
  PROVE  IInv'
<1>1. /\ worker.at = "reading" /\ kind \in {"network", "cpu"}
      /\ static' = static /\ view' = view /\ behind' = behind
      /\ kind' = kind /\ list' = list /\ total' = total /\ carried' = carried
      /\ gaveUp' = gaveUp /\ changes' = changes
      /\ (worker.held = <<>> /\ SendNothing) \/ Send(worker.held)
  BY DEF Read, ReadInterfaces, ReadCores, engine
<1>2. TypeOK /\ SendInv /\ PipeInv /\ PeakCovers /\ InTime
  BY DEF IInv
<1>3. worker.held \in Seq(Item)
  BY <1>2, ViewFields
<1>4. misused' \subseteq misused \cup {"device", "view"}
  BY DEF Read, ReadInterfaces, ReadCores, Misuse
<1>5. /\ worker' \in Working /\ worker'.at = "top" /\ worker'.held = <<>>
      /\ queue' \in Seq(Seq(Item)) /\ Len(queue') \in Nat /\ Len(queue') <= MaxQueue
      /\ queue = <<>> => Len(queue') <= 1
  BY <1>1, <1>2, <1>3, SendIs
<1>6. TypeOK'
  BY <1>1, <1>2, <1>4, <1>5 DEF TypeOK
<1>7. SendInv'
  <2>1. ~behind => queue = <<>>
    BY <1>1, <1>2 DEF SendInv
  <2> QED
    BY <1>1, <1>2, <1>5, <2>1 DEF SendInv
<1>8. PipeInv'
  <2> SUFFICES ASSUME kind = "network", NEW d \in Devices PROVE Ordered(d)'
    BY <1>1 DEF PipeInv
  <2> DEFINE B == Base(view.rows[d])
             Q == QueueOf(queue, d)
             H == ReadingsOf(worker.held, d)
  <2>1. Sum(view.rows[d].hist) <= view.rows[d].mark /\ Line(B, Q, H, Current(d))
    BY <1>2 DEF PipeInv, Ordered
  <2>2. /\ B \in SUBSET Reading /\ Q \in Seq(SUBSET Reading) /\ H \in SUBSET Reading
        /\ Current(d) \in Reading
    BY <1>2, LineTypes
  <2>3. Line(B, QueueOf(queue', d), {}, Current(d))
    <3>1. CASE worker.held = <<>> /\ SendNothing
      <4>1. QueueOf(queue', d) = Q /\ H = {}
        BY <3>1, NoItems DEF SendNothing
      <4> QED
        BY <2>1, <4>1
    <3>2. CASE Send(worker.held)
      <4>1. QueueOf(queue', d) = Append(Q, H)
        BY <1>2, <1>3, <3>2, QueueReadings, ViewFields DEF Send
      <4> HIDE DEF B, Q, H
      <4> QED
        BY <2>1, <2>2, <4>1, LineSend
    <3> QED
      BY <1>1, <3>1, <3>2
  <2>4. ReadingsOf(worker'.held, d) = {}
    BY <1>5, NoItems
  <2> QED
    BY <1>1, <2>1, <2>3, <2>4 DEF Ordered, Current
<1>9. PeakCovers' /\ InTime'
  BY <1>1, <1>2, RowsSame
<1> QED
  BY <1>6, <1>7, <1>8, <1>9 DEF IInv
-----------------------------------------------------------------------------
(* The main thread's steps *)

(* A window shows a list: what each kind of window makes of its rows.      *)
LEMMA ListShown ==
  ASSUME IInv, queue # <<>>, view' = Shown(Head(queue)),
         kind \in {"disk", "network", "sensors", "cpu"}, kind' = kind
  PROVE  /\ Kept(view') /\ Timely(view')
         /\ kind = "network" =>
              \A d \in Devices :
                 /\ \A v \in ToSet(view'.rows[d].hist) : v <= view'.peak
                 /\ Base(view'.rows[d]) \in SUBSET ReadingsOf(Head(queue), d)
                 /\ Sum(view'.rows[d].hist) <= view'.rows[d].mark
<1>1. TypeOK /\ SendInv /\ PipeInv /\ PeakCovers /\ InTime
  BY DEF IInv
<1>2. Head(queue) \in Seq(Item)
  BY <1>1, ViewFields
<1>3. CASE kind = "disk"
  <2>1. view' = ShowDisks(Named(Head(queue)))
    BY <1>3 DEF Shown
  <2> QED
    BY <1>1, <1>2, <1>3, <2>1, DisksShown
<1>4. CASE kind = "sensors"
  <2>1. view' = ShowSensors(Head(queue))
    BY <1>4 DEF Shown
  <2> QED
    BY <1>1, <1>2, <1>4, <2>1, SensorsShown
<1>5. CASE kind = "cpu"
  <2>1. view' = ShowCores
    BY <1>5 DEF Shown
  <2> QED
    BY <1>1, <1>5, <2>1, CoresShown
<1>6. CASE kind = "network"
  <2>1. view' = ShowInterfaces(Head(queue))
    BY <1>6 DEF Shown
  <2>2. \A d \in Devices : Sum(view.rows[d].hist) <= view.rows[d].mark
    BY <1>1, <1>6 DEF PipeInv, Ordered
  <2>3. ASSUME NEW d \in Devices, NEW b \in Base(view.rows[d]),
               NEW a \in ReadingsOf(Head(queue), d)
        PROVE  Then(b, a)
    <3>1. Line(Base(view.rows[d]), QueueOf(queue, d), ReadingsOf(worker.held, d), Current(d))
      BY <1>1, <1>6 DEF PipeInv, Ordered
    <3>2. QueueOf(queue, d)[1] = ReadingsOf(Head(queue), d) /\ 1 \in DOMAIN QueueOf(queue, d)
      <4>1. queue \in Seq(Seq(Item))
        BY <1>1, ViewFields
      <4>2. /\ QueueOf(queue, d) \in Seq(SUBSET Reading) /\ QueueOf(queue, d) # <<>>
            /\ QueueOf(queue, d)[1] = ReadingsOf(Head(queue), d)
        BY <4>1, QueueReadings
      <4> QED
        BY <4>2
    <3> QED
      BY <2>3, <3>1, <3>2 DEF Line
  <2> QED
    BY <1>1, <1>2, <1>6, <2>1, <2>2, <2>3, InterfacesShown
<1> QED
  BY <1>3, <1>4, <1>5, <1>6

LEMMA FeedbackKeeps ==
  ASSUME IInv, Feedback
  PROVE  IInv'
<1>1. /\ queue # <<>> /\ queue' = Tail(queue)
      /\ worker' = worker /\ static' = static /\ behind' = behind
      /\ kind' = kind /\ list' = list /\ total' = total /\ carried' = carried
      /\ gaveUp' = gaveUp /\ changes' = changes
  BY DEF Feedback, engine
<1>2. TypeOK /\ SendInv /\ PipeInv /\ PeakCovers /\ InTime
  BY DEF IInv
<1>3. /\ queue' \in Seq(Seq(Item)) /\ Len(queue') \in Nat /\ Len(queue') = Len(queue) - 1
      /\ Len(queue) \in Nat /\ Len(queue) <= MaxQueue /\ MaxQueue \in Nat
  BY <1>1, <1>2, ViewFields, Constants
<1>4. \/ view' = view
      \/ kind = "memory" /\ \E present \in SUBSET Devices : view' = ShowMemory(present)
      \/ view' = Shown(Head(queue)) /\ kind \in {"disk", "network", "sensors", "cpu"}
  <2>1. CASE view.state = "freed"
    BY <2>1 DEF Feedback
  <2>2. CASE view.state # "freed" /\ kind = "memory"
    <3>1. PICK present \in (IF worker.at = "getting" THEN SUBSET ToSet(list) ELSE {static}) :
            view' = ShowMemory(present)
      BY <2>2 DEF Feedback
    <3>2. list \in Seq(Devices) /\ static \subseteq Devices
      BY <1>2 DEF TypeOK
    <3>3. ToSet(list) \subseteq Devices
      BY <3>2 DEF ToSet
    <3> QED
      BY <2>2, <3>1, <3>2, <3>3
  <2>3. CASE view.state # "freed" /\ kind # "memory"
    <3>1. kind \in {"disk", "network", "sensors", "cpu"}
      BY <1>2, <2>3, ConstantsAssumption DEF TypeOK
    <3>2. view' = view \/ view' = Shown(Head(queue))
      BY <2>3 DEF Feedback
    <3> QED
      BY <3>1, <3>2
  <2> QED
    BY <2>1, <2>2, <2>3
<1>5. misused' \subseteq {"view", "device", "past the end", "half filled"}
  <2>1. misused \subseteq {"view", "device", "past the end", "half filled"}
    BY <1>2 DEF TypeOK
  <2> QED
    BY <2>1 DEF Feedback, Misuse
<1>6. Kept(view')
  <2>1. CASE view' = view
    <3>1. view \in View /\ \A d \in Devices : Len(view.rows[d].hist) <= Samples
      BY <1>2, ViewFields
    <3> QED
      BY <2>1, <3>1 DEF Kept
  <2>2. CASE kind = "memory" /\ \E present \in SUBSET Devices : view' = ShowMemory(present)
    BY <1>2, <2>2, MemoryShown
  <2>3. CASE view' = Shown(Head(queue)) /\ kind \in {"disk", "network", "sensors", "cpu"}
    BY <1>1, <2>3, ListShown
  <2> QED
    BY <1>4, <2>1, <2>2, <2>3
<1>7. TypeOK'
  <2>1. queue' \in Seq(Seq(Item)) /\ Len(queue') <= MaxQueue
    BY <1>3
  <2>2. view' \in View /\ \A d \in Devices : Len(view'.rows[d].hist) <= Samples
    BY <1>6 DEF Kept
  <2> QED
    BY <1>1, <1>2, <1>5, <2>1, <2>2 DEF TypeOK
<1>8. SendInv'
  <2>1. ~behind => queue' = <<>>
    BY <1>2, <1>3 DEF SendInv
  <2>2. worker.at \in {"getting", "reading"} => Len(queue') < MaxQueue
    BY <1>2, <1>3 DEF SendInv
  <2>3. view'.state = view.state /\ view'.n = view.n
    BY <1>6 DEF Kept
  <2>4. view.state = "freed" /\ ~gaveUp => queue' = <<>> /\ worker.at = "ended"
    BY <1>1, <1>2 DEF SendInv
  <2>5. queue' = <<>> => Len(queue') <= 1
    OBVIOUS
  <2> QED
    BY <1>1, <1>2, <2>1, <2>2, <2>3, <2>4, <2>5 DEF SendInv
<1>9. PeakCovers' /\ InTime'
  <2>1. CASE view' = view
    BY <1>1, <1>2, <2>1, RowsSame
  <2>2. CASE kind = "memory"
    BY <1>1, <2>2 DEF PeakCovers, InTime
  <2>3. CASE view' = Shown(Head(queue)) /\ kind \in {"disk", "network", "sensors", "cpu"}
    <3>1. /\ Timely(view')
          /\ kind = "network" =>
               \A d \in Devices : \A v \in ToSet(view'.rows[d].hist) : v <= view'.peak
      BY <1>1, <2>3, ListShown
    <3>2. PeakCovers'
      BY <1>1, <3>1 DEF PeakCovers
    <3>3. InTime'
      BY <1>1, <3>1 DEF InTime, Timely
    <3> QED
      BY <3>2, <3>3
  <2> QED
    BY <1>4, <2>1, <2>2, <2>3
<1>10. PipeInv'
  <2> SUFFICES ASSUME kind = "network", NEW d \in Devices PROVE Ordered(d)'
    BY <1>1 DEF PipeInv
  <2> DEFINE B == Base(view.rows[d])
             Q == QueueOf(queue, d)
             H == ReadingsOf(worker.held, d)
  <2>1. Sum(view.rows[d].hist) <= view.rows[d].mark /\ Line(B, Q, H, Current(d))
    BY <1>2 DEF PipeInv, Ordered
  <2>2. /\ Q \in Seq(SUBSET Reading) /\ Q # <<>> /\ Q[1] = ReadingsOf(Head(queue), d)
        /\ QueueOf(queue', d) = Tail(Q)
    <3>1. queue \in Seq(Seq(Item))
      BY <1>2, ViewFields
    <3> QED
      BY <1>1, <3>1, QueueReadings
  <2>3. /\ Base(view'.rows[d]) \in SUBSET (B \cup Q[1])
        /\ Sum(view'.rows[d].hist) <= view'.rows[d].mark
    <3>1. CASE view' = view
      BY <2>1, <3>1
    <3>2. CASE view' = Shown(Head(queue))
      <4>1. /\ Base(view'.rows[d]) \in SUBSET ReadingsOf(Head(queue), d)
            /\ Sum(view'.rows[d].hist) <= view'.rows[d].mark
        BY <1>1, <3>2, ListShown
      <4> QED
        BY <2>2, <4>1
    <3> QED
      BY <1>4, <3>1, <3>2
  <2> HIDE DEF B, Q, H
  <2>4. Line(Base(view'.rows[d]), Tail(Q), H, Current(d))
    BY <2>1, <2>2, <2>3, LineShow
  <2> QED
    BY <1>1, <2>2, <2>3, <2>4 DEF Ordered, Current, H
<1> QED
  BY <1>7, <1>8, <1>9, <1>10 DEF IInv
-----------------------------------------------------------------------------
(* The user's steps *)

(* The button changes nothing but whether the row is drawn.                *)
LEMMA ToggleKeeps ==
  ASSUME IInv, NEW d \in Devices, Toggle(d)
  PROVE  IInv'
<1>1. /\ view.state = "open" /\ view.rows[d] # NoRow
      /\ changes < MaxChanges /\ changes' = changes + 1
      /\ view' = [view EXCEPT !.rows[d].on = ~@]
      /\ worker' = worker /\ static' = static /\ behind' = behind
      /\ kind' = kind /\ list' = list /\ total' = total /\ carried' = carried
      /\ queue' = queue /\ gaveUp' = gaveUp /\ misused' = misused
  BY DEF Toggle, engine
<1>2. TypeOK /\ SendInv /\ PipeInv /\ PeakCovers /\ InTime
  BY DEF IInv
<1>3. PICK on \in BOOLEAN : on = ~view.rows[d].on
  OBVIOUS
<1> DEFINE row == [view.rows[d] EXCEPT !.on = on]
           rows == [view.rows EXCEPT ![d] = row]
<1>4. /\ row \in Row /\ row.hist = view.rows[d].hist /\ row.gap = view.rows[d].gap
      /\ row.total = view.rows[d].total /\ row.mark = view.rows[d].mark
  <2>1. view.rows[d] \in Row
    BY <1>2, ViewFields
  <2> QED
    BY <2>1 DEF Row
<1>5. view' = [view EXCEPT !.rows = rows]
  BY <1>1, <1>3
<1> HIDE DEF row
<1>6. /\ rows \in [Devices -> Row] /\ rows[d] = row
      /\ \A e \in Devices : e # d => rows[e] = view.rows[e]
  BY <1>2, <1>4, ViewFields
<1> HIDE DEF rows
<1>7. \A e \in Devices : /\ rows[e].hist = view.rows[e].hist /\ rows[e].gap = view.rows[e].gap
                         /\ rows[e].total = view.rows[e].total
                         /\ rows[e].mark = view.rows[e].mark
                         /\ rows[e] # NoRow => view.rows[e] # NoRow
  BY <1>1, <1>4, <1>6
<1>8. Kept(view') /\ view'.rows = rows /\ view'.peak = view.peak
  <2>1. \A e \in Devices : Len(rows[e].hist) <= Samples
    BY <1>2, <1>7, ViewFields
  <2> QED
    BY <1>2, <1>5, <1>6, <2>1, ViewRows
<1>9. TypeOK'
  <2>1. changes' \in 0 .. MaxChanges
    <3>1. changes \in 0 .. MaxChanges
      BY <1>2 DEF TypeOK
    <3> QED
      BY <1>1, <3>1, Constants
  <2>2. view' \in View /\ \A e \in Devices : Len(view'.rows[e].hist) <= Samples
    BY <1>8 DEF Kept
  <2> QED
    BY <1>1, <1>2, <2>1, <2>2 DEF TypeOK
<1>10. SendInv'
  BY <1>1, <1>2, <1>8 DEF SendInv, Kept
<1>11. PipeInv'
  <2> SUFFICES ASSUME kind = "network", NEW e \in Devices PROVE Ordered(e)'
    BY <1>1 DEF PipeInv
  <2>1. /\ Sum(view.rows[e].hist) <= view.rows[e].mark
        /\ Line(Base(view.rows[e]), QueueOf(queue, e), ReadingsOf(worker.held, e), Current(e))
    BY <1>2 DEF PipeInv, Ordered
  <2>2. Base(rows[e]) \in SUBSET Base(view.rows[e])
    BY <1>7 DEF Base
  <2>3. Line(Base(rows[e]), QueueOf(queue, e), ReadingsOf(worker.held, e), Current(e))
    BY <2>1, <2>2, LineLess
  <2> QED
    BY <1>1, <1>7, <1>8, <2>1, <2>3 DEF Ordered, Current
<1>12. PeakCovers'
  BY <1>1, <1>2, <1>7, <1>8 DEF PeakCovers
<1>13. InTime'
  BY <1>1, <1>2, <1>7, <1>8 DEF InTime
<1> QED
  BY <1>9, <1>10, <1>11, <1>12, <1>13 DEF IInv

LEMMA CloseKeeps ==
  ASSUME IInv, Close
  PROVE  IInv'
<1>1. /\ view.state = "open" /\ view' = [view EXCEPT !.state = "closing"]
      /\ worker' = worker /\ static' = static /\ behind' = behind
      /\ kind' = kind /\ list' = list /\ total' = total /\ carried' = carried
      /\ queue' = queue /\ gaveUp' = gaveUp /\ misused' = misused /\ changes' = changes
  BY DEF Close, engine
<1>2. TypeOK /\ SendInv /\ PipeInv /\ PeakCovers /\ InTime
  BY DEF IInv
<1>3. /\ view' \in View /\ view'.rows = view.rows /\ view'.peak = view.peak
      /\ view'.state = "closing" /\ view'.n = view.n
  <2>1. view \in View
    BY <1>2, ViewFields
  <2> QED
    BY <1>1, <2>1 DEF View
<1>4. TypeOK'
  BY <1>1, <1>2, <1>3 DEF TypeOK
<1>5. SendInv'
  BY <1>1, <1>2, <1>3 DEF SendInv
<1>6. PipeInv'
  BY <1>1, <1>2, <1>3, PipeSame
<1>7. PeakCovers' /\ InTime'
  BY <1>1, <1>2, <1>3, RowsSame
<1> QED
  BY <1>4, <1>5, <1>6, <1>7 DEF IInv

(* A view that begins again.                                               *)
LEMMA BlankView ==
  ASSUME NEW rows \in [Devices -> Row], \A d \in Devices : rows[d].hist = <<>>,
         NEW w, w \in {Blank(rows), [Blank(rows) EXCEPT !.state = "freed"]}
  PROVE  /\ w \in View /\ w.rows = rows /\ w.n = 0 /\ w.peak = 0
         /\ \A d \in Devices : Len(w.rows[d].hist) <= Samples
         /\ w = Blank(rows) => w.state = "open"
<1>1. 0 \in Totals /\ 0 \in Nat
  BY Constants
<1>2. /\ Blank(rows) \in View /\ Blank(rows).rows = rows /\ Blank(rows).n = 0
      /\ Blank(rows).peak = 0 /\ Blank(rows).state = "open"
  BY <1>1 DEF Blank, View
<1>3. [Blank(rows) EXCEPT !.state = "freed"] =
        [state |-> "freed", rows |-> rows, peak |-> 0, n |-> 0]
  BY DEF Blank
<1>4. LET f == [state |-> "freed", rows |-> rows, peak |-> 0, n |-> 0] IN
      f \in View /\ f.rows = rows /\ f.n = 0 /\ f.peak = 0
  BY <1>1 DEF View
<1>5. w \in View /\ w.rows = rows /\ w.n = 0 /\ w.peak = 0
  BY <1>2, <1>3, <1>4
<1>6. \A d \in Devices : Len(w.rows[d].hist) <= Samples
  BY <1>5, NoRowIs, Constants
<1> QED
  BY <1>2, <1>5, <1>6

(* A window is freed, whether its worker has ended or the wait for it did. *)
LEMMA FreedKeeps ==
  ASSUME IInv, Closed \/ GiveUp
  PROVE  IInv'
<1>1. /\ view' = Freed
      /\ worker' = worker /\ static' = static /\ behind' = behind
      /\ kind' = kind /\ list' = list /\ total' = total /\ carried' = carried
      /\ queue' = queue /\ gaveUp' \in BOOLEAN /\ misused' = misused /\ changes' = changes
      /\ ~gaveUp' => worker.at = "ended" /\ queue = <<>>
      /\ gaveUp' = gaveUp \/ gaveUp'
  BY DEF Closed, GiveUp, engine, IInv, TypeOK
<1>2. TypeOK /\ SendInv /\ PipeInv /\ PeakCovers /\ InTime
  BY DEF IInv
<1>3. /\ view' \in View /\ view'.rows = NoRows /\ view'.n = 0
      /\ \A d \in Devices : Len(view'.rows[d].hist) <= Samples
  <2>1. NoRows \in [Devices -> Row] /\ \A d \in Devices : NoRows[d].hist = <<>>
    BY NoRowIs
  <2>2. view' \in {Blank(NoRows), [Blank(NoRows) EXCEPT !.state = "freed"]}
    BY <1>1 DEF Freed
  <2> QED
    BY <2>1, <2>2, BlankView
<1>4. TypeOK'
  BY <1>1, <1>2, <1>3 DEF TypeOK
<1>5. SendInv'
  BY <1>1, <1>2, <1>3 DEF SendInv
<1>6. PeakCovers' /\ InTime' /\ PipeInv'
  BY <1>1, <1>2, <1>3, RowsGone
<1> QED
  BY <1>4, <1>5, <1>6 DEF IInv

(* A window that is opened has no history, whatever rows it starts with.   *)
LEMMA OpenedIs ==
  ASSUME kind \in Kinds
  PROVE  /\ Opened \in View /\ Opened.n = 0 /\ Opened.state = "open"
         /\ \A d \in Devices : Len(Opened.rows[d].hist) <= Samples
         /\ kind = "network" => Opened.rows = NoRows
         /\ Timely(Opened)
<1>1. /\ NoRows \in [Devices -> Row]
      /\ \A d \in Devices : NoRows[d].hist = <<>> /\ ~NoRows[d].gap /\ NoRows[d] = NoRow
  BY NoRowIs
<1> DEFINE on == [NoRow EXCEPT !.on = TRUE, !.total = 0]
<1>2. on \in Row /\ on.hist = <<>> /\ ~on.gap
  BY NoRowIs, Constants DEF Row
<1> HIDE DEF on
<1>3. /\ MemorySeries \in [Devices -> Row] /\ CoreRows \in [Devices -> Row]
      /\ \A d \in Devices : MemorySeries[d].hist = <<>> /\ CoreRows[d].hist = <<>>
      /\ \A d \in Devices : ~MemorySeries[d].gap /\ ~CoreRows[d].gap
  <2>1. MemorySeries = [d \in Devices |-> on]
    BY DEF MemorySeries, on
  <2>2. CoreRows = [d \in Devices |-> IF d \in ToSet(list) THEN on ELSE NoRow]
    BY DEF CoreRows, on
  <2> QED
    BY <1>2, <2>1, <2>2, NoRowIs
<1>4. PICK rows \in {NoRows, MemorySeries, CoreRows} :
        /\ Opened = Blank(rows)
        /\ kind \in {"network", "disk", "sensors"} => rows = NoRows
  <2>1. kind \in {"memory", "disk", "network", "sensors", "cpu"}
    BY ConstantsAssumption
  <2> QED
    BY <2>1 DEF Opened, OpenMemory, OpenDisks, OpenNetwork, OpenSensors, OpenCores
<1>5. /\ rows \in [Devices -> Row]
      /\ \A d \in Devices : rows[d].hist = <<>> /\ ~rows[d].gap
  BY <1>1, <1>3
<1>6. /\ Opened \in View /\ Opened.n = 0 /\ Opened.state = "open" /\ Opened.rows = rows
      /\ \A d \in Devices : Len(Opened.rows[d].hist) <= Samples
  BY <1>4, <1>5, BlankView
<1>7. Timely(Opened)
  BY <1>5, <1>6 DEF Timely
<1> QED
  BY <1>4, <1>6, <1>7

LEMMA OpenKeeps ==
  ASSUME IInv, Open
  PROVE  IInv'
<1>1. /\ queue = <<>> /\ view' = Opened /\ worker' = [worker EXCEPT !.at = "top"]
      /\ static' = static /\ behind' = behind
      /\ kind' = kind /\ list' = list /\ total' = total /\ carried' = carried
      /\ queue' = queue /\ gaveUp' = gaveUp /\ misused' = misused /\ changes' = changes
  BY DEF Open, engine
<1>2. TypeOK /\ SendInv /\ PipeInv /\ PeakCovers /\ InTime
  BY DEF IInv
<1>3. worker' \in Working /\ worker'.at = "top" /\ worker'.held = worker.held
  BY <1>1, <1>2, WorkerWith
<1>4. /\ view' \in View /\ view'.n = 0 /\ view'.state = "open"
      /\ \A d \in Devices : Len(view'.rows[d].hist) <= Samples
      /\ kind = "network" => view'.rows = NoRows
      /\ Timely(view')
  BY <1>1, <1>2, OpenedIs, ViewFields
<1>5. TypeOK'
  BY <1>1, <1>2, <1>3, <1>4 DEF TypeOK
<1>6. SendInv'
  BY <1>1, <1>2, <1>3, <1>4 DEF SendInv
<1>7. PeakCovers' /\ PipeInv'
  <2>1. CASE kind = "network"
    BY <1>1, <1>2, <1>3, <1>4, <2>1, RowsGone
  <2>2. CASE kind # "network"
    BY <1>1, <2>2 DEF PeakCovers, PipeInv
  <2> QED
    BY <2>1, <2>2
<1>8. InTime'
  BY <1>1, <1>4 DEF InTime, Timely
<1> QED
  BY <1>5, <1>6, <1>7, <1>8 DEF IInv
-----------------------------------------------------------------------------
(* The environment's steps *)

(* What happens to devices is no step of the window.                       *)
LEMMA ChangesIs ==
  ASSUME IInv, Changes
  PROVE  /\ changes' \in 0 .. MaxChanges
         /\ kind' = kind /\ static' = static /\ view' = view /\ behind' = behind
         /\ gaveUp' = gaveUp /\ misused' = misused
<1>1. changes \in 0 .. MaxChanges
  BY DEF IInv, TypeOK
<1>2. changes < MaxChanges /\ changes' = changes + 1
  BY DEF Changes
<1>3. changes' \in 0 .. MaxChanges
  BY <1>1, <1>2, Constants
<1> QED
  BY <1>3 DEF Changes

(* Two sequences, one after the other.                                     *)
LEMMA Joined ==
  ASSUME NEW S, NEW a \in Seq(S), NEW b \in Seq(S)
  PROVE  /\ a \o b \in Seq(S) /\ Len(a \o b) = Len(a) + Len(b)
         /\ \A k \in 1 .. Len(a) : (a \o b)[k] = a[k]
         /\ \A k \in Len(a) + 1 .. Len(a) + Len(b) : (a \o b)[k] = b[k - Len(a)]
  OBVIOUS

(* One device more, at the end of the list, or one less.                   *)
LEMMA ListChanged ==
  ASSUME TypeOK
  PROVE  /\ \A d \in Devices \ ToSet(list) :
              Append(list, d) \in Seq(Devices) /\ IsInjective(Append(list, d))
         /\ \A i \in DOMAIN list :
              RemoveAt(list, i) \in Seq(Devices) /\ IsInjective(RemoveAt(list, i))
<1>1. list \in Seq(Devices) /\ IsInjective(list)
  BY DEF TypeOK
<1>2. DOMAIN list = 1 .. Len(list) /\ Len(list) \in Nat
  BY <1>1
<1>3. ASSUME NEW d \in Devices \ ToSet(list)
      PROVE  Append(list, d) \in Seq(Devices) /\ IsInjective(Append(list, d))
  <2> DEFINE A == Append(list, d)
  <2>1. /\ A \in Seq(Devices) /\ DOMAIN A = 1 .. Len(list) + 1 /\ A[Len(list) + 1] = d
        /\ \A j \in 1 .. Len(list) : A[j] = list[j] /\ A[j] # d
    BY <1>1, <1>2, <1>3 DEF ToSet
  <2> HIDE DEF A
  <2>2. \A j \in 1 .. Len(list) + 1 : j \in 1 .. Len(list) \/ j = Len(list) + 1
    BY <1>2
  <2>3. IsInjective(A)
    BY <1>1, <1>2, <2>1, <2>2 DEF IsInjective
  <2> QED
    BY <2>1, <2>3 DEF A
<1>4. ASSUME NEW i \in DOMAIN list
      PROVE  RemoveAt(list, i) \in Seq(Devices) /\ IsInjective(RemoveAt(list, i))
  <2> DEFINE n == Len(list)
             a == SubSeq(list, 1, i - 1)
             b == SubSeq(list, i + 1, n)
             R == a \o b
  <2>1. i \in 1 .. n /\ n \in Nat
    BY <1>2, <1>4
  <2>2. /\ a \in Seq(Devices) /\ Len(a) = i - 1
        /\ \A j \in 1 .. i - 1 : a[j] = list[j]
    BY <1>1, <2>1
  <2>3. /\ b \in Seq(Devices) /\ Len(b) = n - i
        /\ \A j \in 1 .. n - i : b[j] = list[i + j]
    BY <1>1, <2>1
  <2> HIDE DEF a, b
  <2>4. /\ R \in Seq(Devices) /\ Len(R) = n - 1
        /\ \A j \in 1 .. n - 1 : R[j] = IF j < i THEN list[j] ELSE list[j + 1]
    <3>1. R \in Seq(Devices) /\ Len(R) = (i - 1) + (n - i)
      <4>1. R \in Seq(Devices) /\ Len(R) = Len(a) + Len(b)
        BY <2>2, <2>3, Joined
      <4> QED
        BY <2>2, <2>3, <4>1
    <3>2. ASSUME NEW j \in 1 .. n - 1, j < i PROVE R[j] = list[j]
      <4>1. j \in 1 .. i - 1
        BY <2>1, <3>2
      <4>2. R[j] = a[j]
        BY <2>1, <2>2, <2>3, <4>1
      <4> QED
        BY <2>2, <4>1, <4>2
    <3>3. ASSUME NEW j \in 1 .. n - 1, ~(j < i) PROVE R[j] = list[j + 1]
      <4>1. j - (i - 1) \in 1 .. n - i /\ j > i - 1 /\ j <= (i - 1) + (n - i)
            /\ i + (j - (i - 1)) = j + 1
        BY <2>1, <3>3
      <4>2. R[j] = b[j - (i - 1)]
        <5>1. \A k \in Len(a) + 1 .. Len(a) + Len(b) : R[k] = b[k - Len(a)]
          BY <2>2, <2>3, Joined
        <5>2. j \in Len(a) + 1 .. Len(a) + Len(b)
          BY <2>1, <2>2, <2>3, <4>1
        <5> HIDE DEF R
        <5> QED
          BY <2>2, <5>1, <5>2
      <4>3. b[j - (i - 1)] = list[i + (j - (i - 1))]
        BY <2>3, <4>1
      <4> QED
        BY <4>1, <4>2, <4>3
    <3> HIDE DEF R
    <3>4. (i - 1) + (n - i) = n - 1
      BY <2>1
    <3> QED
      BY <3>1, <3>2, <3>3, <3>4
  <2>5. DOMAIN R = 1 .. n - 1
    BY <2>4
  <2> HIDE DEF R
  <2>6. ASSUME NEW j \in 1 .. n - 1, NEW k \in 1 .. n - 1, R[j] = R[k] PROVE j = k
    <3>1. \A x, y \in 1 .. n : list[x] = list[y] => x = y
      BY <1>1, <1>2 DEF IsInjective
    <3>2. j \in 1 .. n /\ k \in 1 .. n /\ j + 1 \in 1 .. n /\ k + 1 \in 1 .. n
      BY <2>1
    <3> QED
      BY <2>1, <2>4, <2>6, <3>1, <3>2
  <2>7. RemoveAt(list, i) = R
    BY DEF RemoveAt, R, a, b
  <2> QED
    BY <2>4, <2>5, <2>6, <2>7 DEF IsInjective
<1> QED
  BY <1>3, <1>4

LEMMA PlugKeeps ==
  ASSUME IInv, NEW d \in Devices, Plug(d)
  PROVE  IInv'
<1>1. /\ d \notin ToSet(list) /\ list' = Append(list, d)
      /\ total' = total /\ carried' = carried /\ worker' = worker /\ queue' = queue
  BY DEF Plug
<1>2. TypeOK /\ SendInv /\ PipeInv /\ PeakCovers /\ InTime
  BY DEF IInv
<1>3. /\ changes' \in 0 .. MaxChanges
      /\ kind' = kind /\ static' = static /\ view' = view /\ behind' = behind
      /\ gaveUp' = gaveUp /\ misused' = misused
  BY ChangesIs DEF Plug
<1>4. list' \in Seq(Devices) /\ IsInjective(list')
  BY <1>1, <1>2, ListChanged
<1>5. TypeOK'
  BY <1>1, <1>2, <1>3, <1>4 DEF TypeOK
<1>6. SendInv'
  BY <1>1, <1>2, <1>3 DEF SendInv
<1>7. PipeInv'
  BY <1>1, <1>2, <1>3, PipeSame
<1>8. PeakCovers' /\ InTime'
  BY <1>2, <1>3, RowsSame
<1> QED
  BY <1>5, <1>6, <1>7, <1>8 DEF IInv

(* What is released may be gone, but has been read as it was.              *)
LEMMA ReleaseIs ==
  ASSUME TypeOK, NEW gone, Release(gone)
  PROVE  /\ worker' \in Working /\ worker'.at = worker.at
         /\ queue' \in Seq(Seq(Item)) /\ Len(queue') = Len(queue)
         /\ \A i \in 1 .. Len(queue) : Len(queue'[i]) = Len(queue[i])
         /\ \A d : ReadingsOf(worker'.held, d) = ReadingsOf(worker.held, d)
         /\ \A d : QueueOf(queue', d) = QueueOf(queue, d)
<1>1. /\ worker' = [worker EXCEPT !.held = Without(worker.held, gone)]
      /\ queue' = [i \in 1 .. Len(queue) |->
                     IF kind = "sensors" THEN Without(queue[i], gone) ELSE queue[i]]
  BY DEF Release
<1>2. worker.held \in Seq(Item) /\ queue \in Seq(Seq(Item)) /\ Len(queue) \in Nat
  BY ViewFields
<1>3. \A i \in 1 .. Len(queue) : queue[i] \in Seq(Item)
  BY <1>2
<1>4. /\ Without(worker.held, gone) \in Seq(Item)
      /\ \A d : ReadingsOf(Without(worker.held, gone), d) = ReadingsOf(worker.held, d)
  BY <1>2, WithoutIs
<1>5. /\ worker' \in Working /\ worker'.at = worker.at
      /\ worker'.held = Without(worker.held, gone)
  <2>1. worker \in Working
    BY ViewFields
  <2> QED
    BY <1>1, <1>4, <2>1 DEF Working
<1>6. ASSUME NEW i \in 1 .. Len(queue)
      PROVE  /\ queue'[i] \in Seq(Item) /\ Len(queue'[i]) = Len(queue[i])
             /\ \A d : ReadingsOf(queue'[i], d) = ReadingsOf(queue[i], d)
  <2>1. queue'[i] = IF kind = "sensors" THEN Without(queue[i], gone) ELSE queue[i]
    BY <1>1
  <2> QED
    BY <1>3, <2>1, WithoutIs
<1>7. /\ DOMAIN queue' = 1 .. Len(queue) /\ DOMAIN queue = 1 .. Len(queue)
      /\ queue' = [i \in 1 .. Len(queue) |-> queue'[i]]
  BY <1>1, <1>2
<1>8. queue' \in Seq(Seq(Item)) /\ Len(queue') = Len(queue)
  <2> DEFINE q == queue'
             n == Len(queue)
  <2>1. n \in Nat /\ q = [i \in 1 .. n |-> q[i]] /\ \A i \in 1 .. n : q[i] \in Seq(Item)
    BY <1>2, <1>6, <1>7
  <2> HIDE DEF q, n
  <2>2. q \in Seq(Seq(Item)) /\ Len(q) = n
    BY <2>1
  <2> QED
    BY <2>2 DEF q, n
<1>9. \A d : QueueOf(queue', d) = QueueOf(queue, d)
  BY <1>6, <1>7 DEF QueueOf
<1> QED
  BY <1>4, <1>5, <1>6, <1>8, <1>9

LEMMA ReleaseKeeps ==
  ASSUME IInv, NEW gone, Release(gone), Changes, list' \in Seq(Devices), IsInjective(list'),
         UNCHANGED <<total, carried>>
  PROVE  IInv'
<1>1. TypeOK /\ SendInv /\ PipeInv /\ PeakCovers /\ InTime
  BY DEF IInv
<1>2. /\ changes' \in 0 .. MaxChanges
      /\ kind' = kind /\ static' = static /\ view' = view /\ behind' = behind
      /\ gaveUp' = gaveUp /\ misused' = misused
  BY ChangesIs
<1>3. /\ worker' \in Working /\ worker'.at = worker.at
      /\ queue' \in Seq(Seq(Item)) /\ Len(queue') = Len(queue)
      /\ \A i \in 1 .. Len(queue) : Len(queue'[i]) = Len(queue[i])
      /\ \A d : ReadingsOf(worker'.held, d) = ReadingsOf(worker.held, d)
      /\ \A d : QueueOf(queue', d) = QueueOf(queue, d)
  BY <1>1, ReleaseIs
<1>4. queue \in Seq(Seq(Item)) /\ Len(queue) \in Nat
  BY <1>1, ViewFields
<1>5. (queue' = <<>> <=> queue = <<>>) /\ (queue # <<>> => 1 \in 1 .. Len(queue))
  BY <1>3, <1>4
<1>6. TypeOK'
  BY <1>1, <1>2, <1>3 DEF TypeOK
<1>7. SendInv'
  BY <1>1, <1>2, <1>3, <1>5 DEF SendInv
<1>8. PipeInv'
  BY <1>1, <1>2, <1>3 DEF PipeInv, Ordered, Current
<1>9. PeakCovers' /\ InTime'
  BY <1>1, <1>2, RowsSame
<1> QED
  BY <1>6, <1>7, <1>8, <1>9 DEF IInv

LEMMA UnplugKeeps ==
  ASSUME IInv, NEW i \in DOMAIN list, Unplug(i)
  PROVE  IInv'
<1>1. /\ Changes /\ list' = RemoveAt(list, i) /\ Release({list[i]})
      /\ UNCHANGED <<total, carried>>
  BY DEF Unplug
<1>2. list' \in Seq(Devices) /\ IsInjective(list')
  BY <1>1, ListChanged DEF IInv
<1> QED
  BY <1>1, <1>2, ReleaseKeeps

LEMMA ReplaceKeeps ==
  ASSUME IInv, Replace
  PROVE  IInv'
<1>1. Changes /\ Release(Devices) /\ UNCHANGED <<total, carried>> /\ list' = list
  BY DEF Replace
<1>2. list' \in Seq(Devices) /\ IsInjective(list')
  BY <1>1 DEF IInv, TypeOK
<1> QED
  BY <1>1, <1>2, ReleaseKeeps

(* A counter grows by what is carried, or starts again.                    *)
LEMMA CounterKeeps ==
  ASSUME IInv, NEW d \in Devices, Traffic(d) \/ Restart(d)
  PROVE  IInv'
<1>1. TypeOK /\ SendInv /\ PipeInv /\ PeakCovers /\ InTime
  BY DEF IInv
<1>2. /\ changes' \in 0 .. MaxChanges
      /\ kind' = kind /\ static' = static /\ view' = view /\ behind' = behind
      /\ gaveUp' = gaveUp /\ misused' = misused
  BY ChangesIs DEF Traffic, Restart
<1>3. list' = list /\ worker' = worker /\ queue' = queue
  BY DEF Traffic, Restart
<1>4. /\ total \in [Devices -> Totals] /\ carried \in [Devices -> Nat]
      /\ total[d] \in 0 .. MaxTotal /\ carried[d] \in Nat
      /\ MaxTotal \in Nat
  BY <1>1, ViewFields, Constants DEF Totals
<1>5. /\ total' \in [Devices -> Totals] /\ carried' \in [Devices -> Nat]
      /\ \A e \in Devices : Then(Current(e), Current(e)')
  <2>1. CASE Traffic(d)
    <3>1. /\ total' = [total EXCEPT ![d] = total[d] + 1] /\ total[d] < MaxTotal
          /\ carried' = [carried EXCEPT ![d] = carried[d] + 1]
      BY <2>1 DEF Traffic
    <3>2. total[d] + 1 \in Totals /\ carried[d] + 1 \in Nat
      BY <1>4, <3>1 DEF Totals
    <3>3. \A e \in Devices : Then(Current(e), Current(e)')
      <4> SUFFICES ASSUME NEW e \in Devices PROVE Then(Current(e), Current(e)')
        OBVIOUS
      <4>1. /\ total'[e] = (IF e = d THEN total[d] + 1 ELSE total[e])
            /\ carried'[e] = (IF e = d THEN carried[d] + 1 ELSE carried[e])
            /\ total[e] \in Int /\ carried[e] \in Nat
        BY <1>4, <3>1, Constants DEF Totals
      <4> QED
        BY <1>4, <4>1 DEF Then, Current
    <3> QED
      BY <1>4, <3>1, <3>2, <3>3
  <2>2. CASE Restart(d)
    <3>1. total' = [total EXCEPT ![d] = 0] /\ carried' = carried
      BY <2>2 DEF Restart
    <3>2. \A e \in Devices : Then(Current(e), Current(e)')
      <4> SUFFICES ASSUME NEW e \in Devices PROVE Then(Current(e), Current(e)')
        OBVIOUS
      <4>1. /\ total'[e] = (IF e = d THEN 0 ELSE total[e]) /\ carried'[e] = carried[e]
            /\ total[e] \in Nat /\ carried[e] \in Nat
        BY <1>4, <3>1, Constants DEF Totals
      <4> QED
        BY <1>4, <4>1 DEF Then, Current
    <3> QED
      BY <1>4, <3>1, <3>2, Constants
  <2> QED
    BY <2>1, <2>2
<1>6. TypeOK'
  BY <1>1, <1>2, <1>3, <1>5 DEF TypeOK
<1>7. SendInv'
  BY <1>1, <1>2, <1>3 DEF SendInv
<1>8. PipeInv'
  <2> SUFFICES ASSUME kind = "network", NEW e \in Devices PROVE Ordered(e)'
    BY <1>2 DEF PipeInv
  <2> DEFINE B == Base(view.rows[e])
             Q == QueueOf(queue, e)
             H == ReadingsOf(worker.held, e)
  <2>1. Sum(view.rows[e].hist) <= view.rows[e].mark /\ Line(B, Q, H, Current(e))
    BY <1>1 DEF PipeInv, Ordered
  <2>2. /\ B \in SUBSET Reading /\ Q \in Seq(SUBSET Reading) /\ H \in SUBSET Reading
        /\ Current(e) \in Reading
    BY <1>1, LineTypes
  <2>3. Current(e)' \in Reading
    <3>1. total'[e] \in Int /\ carried'[e] \in Nat
      BY <1>5, Constants DEF Totals
    <3> QED
      BY <3>1 DEF Current, Reading
  <2> HIDE DEF B, Q, H
  <2>4. Line(B, Q, H, Current(e)')
    BY <1>5, <2>1, <2>2, <2>3, LineNow
  <2> QED
    BY <1>2, <1>3, <2>1, <2>4 DEF Ordered, B, Q, H
<1>9. PeakCovers' /\ InTime'
  BY <1>1, <1>2, RowsSame
<1> QED
  BY <1>6, <1>7, <1>8, <1>9 DEF IInv
-----------------------------------------------------------------------------
(* The specification *)

LEMMA InitHolds == Init => IInv
<1> SUFFICES ASSUME Init PROVE IInv
  OBVIOUS
<1>1. /\ kind \in Kinds /\ total = [d \in Devices |-> 1] /\ carried = [d \in Devices |-> 0]
      /\ worker = [at |-> "top", held |-> <<>>] /\ static = {} /\ queue = <<>>
      /\ view = Opened /\ behind = FALSE /\ gaveUp = FALSE /\ misused = {} /\ changes = 0
  BY DEF Init
<1>2. list \in Seq(Devices) /\ IsInjective(list)
  <2>1. PICK S \in SUBSET Devices : list = SetToSeq(S)
    BY DEF Init
  <2> DEFINE n == Cardinality(S)
  <2>2. IsFiniteSet(S) /\ n \in Nat
    BY FS_Subset, FS_CardinalityType, Constants
  <2>3. PICK f : f \in Bijection(1 .. n, S)
    BY <2>2, FS_CardinalityType DEF ExistsBijection
  <2>4. f \in [1 .. n -> S] /\ IsInjective(f)
    BY <2>3 DEF Bijection, Injection
  <2>5. list \in [1 .. n -> S] /\ IsInjective(list)
    BY <2>1, <2>4 DEF SetToSeq
  <2> HIDE DEF n
  <2> QED
    BY <2>2, <2>5
<1>3. /\ view \in View /\ view.n = 0 /\ view.state = "open"
      /\ \A d \in Devices : Len(view.rows[d].hist) <= Samples
      /\ kind = "network" => view.rows = NoRows
      /\ Timely(view)
  BY <1>1, OpenedIs
<1>4. queue \in Seq(Seq(Item)) /\ Len(queue) = 0 /\ Len(queue) <= MaxQueue
  BY <1>1, Constants
<1>5. TypeOK
  <2>1. total \in [Devices -> Totals] /\ carried \in [Devices -> Nat]
    BY <1>1, Constants
  <2>2. worker \in Working
    BY <1>1, NoItems DEF Working
  <2>3. changes \in 0 .. MaxChanges
    BY <1>1, Constants
  <2> QED
    BY <1>1, <1>2, <1>3, <1>4, <2>1, <2>2, <2>3 DEF TypeOK
<1>6. SendInv
  BY <1>1, <1>3, <1>4 DEF SendInv
<1>7. PipeInv
  <2> SUFFICES ASSUME kind = "network", NEW d \in Devices PROVE Ordered(d)
    BY DEF PipeInv
  <2>1. view.rows[d] = NoRow
    BY <1>3, NoRowIs
  <2>2. Base(NoRow) = {} /\ Sum(NoRow.hist) <= NoRow.mark
    BY NoRowIs DEF Base
  <2>3. DOMAIN QueueOf(queue, d) = {} /\ ReadingsOf(worker.held, d) = {}
    BY <1>1, NoItems DEF QueueOf
  <2> QED
    BY <2>1, <2>2, <2>3 DEF Ordered, Line
<1>8. PeakCovers
  <2>1. ToSet(NoRow.hist) = {}
    BY NoRowIs DEF ToSet
  <2> QED
    BY <1>3, <2>1, NoRowIs DEF PeakCovers
<1>9. InTime
  BY <1>3 DEF InTime, Timely
<1> QED
  BY <1>5, <1>6, <1>7, <1>8, <1>9 DEF IInv

LEMMA StutterKeeps ==
  ASSUME IInv, UNCHANGED vars
  PROVE  IInv'
<1>1. /\ kind' = kind /\ list' = list /\ total' = total /\ carried' = carried
      /\ worker' = worker /\ static' = static /\ queue' = queue /\ view' = view
      /\ behind' = behind /\ gaveUp' = gaveUp /\ misused' = misused /\ changes' = changes
  BY DEF vars, engine
<1>2. TypeOK'
  BY <1>1 DEF IInv, TypeOK
<1>3. SendInv'
  BY <1>1 DEF IInv, SendInv
<1>4. PipeInv'
  BY <1>1, PipeSame DEF IInv
<1>5. PeakCovers' /\ InTime'
  BY <1>1, RowsSame DEF IInv
<1> QED
  BY <1>2, <1>3, <1>4, <1>5 DEF IInv

LEMMA StepKeeps == IInv /\ [Next]_vars => IInv'
<1> SUFFICES ASSUME IInv, [Next]_vars PROVE IInv'
  OBVIOUS
<1>1. CASE Poll
  BY <1>1, PollKeeps
<1>2. CASE Got
  BY <1>2, GotKeeps
<1>3. CASE Read
  BY <1>3, ReadKeeps
<1>4. CASE End
  BY <1>4, EndKeeps
<1>5. CASE Feedback
  BY <1>5, FeedbackKeeps
<1>6. CASE Closed \/ GiveUp
  BY <1>6, FreedKeeps
<1>7. CASE Close
  BY <1>7, CloseKeeps
<1>8. CASE Open
  BY <1>8, OpenKeeps
<1>9. ASSUME NEW d \in Devices, Toggle(d) PROVE IInv'
  BY <1>9, ToggleKeeps
<1>10. CASE Replace
  BY <1>10, ReplaceKeeps
<1>11. ASSUME NEW i \in DOMAIN list, Unplug(i) PROVE IInv'
  BY <1>11, UnplugKeeps
<1>12. ASSUME NEW d \in Devices, Plug(d) PROVE IInv'
  BY <1>12, PlugKeeps
<1>13. ASSUME NEW d \in Devices, Traffic(d) \/ Restart(d) PROVE IInv'
  BY <1>13, CounterKeeps
<1>14. CASE UNCHANGED vars
  BY <1>14, StutterKeeps
<1> QED
  BY <1>1, <1>2, <1>3, <1>4, <1>5, <1>6, <1>7, <1>8, <1>9, <1>10, <1>11, <1>12, <1>13, <1>14
  DEF Next, Worker, Main, User, Environment

(* What the rows show of an interface has been carried by now.             *)
LEMMA InvIsTrue == IInv => GraphInv
<1> SUFFICES ASSUME IInv PROVE GraphInv
  OBVIOUS
<1>1. TypeOK /\ PipeInv /\ PeakCovers /\ InTime
  BY DEF IInv
<1>2. ASSUME kind = "network", NEW d \in Devices
      PROVE  Sum(view.rows[d].hist) <= carried[d]
  <2>1. /\ Sum(view.rows[d].hist) <= view.rows[d].mark
        /\ Line(Base(view.rows[d]), QueueOf(queue, d), ReadingsOf(worker.held, d), Current(d))
    BY <1>1, <1>2 DEF PipeInv, Ordered
  <2>2. view.rows[d] \in Row /\ carried[d] \in Nat
    BY <1>1, ViewFields
  <2>3. view.rows[d].mark <= carried[d]
    <3>1. CASE view.rows[d] = NoRow
      BY <2>2, <3>1, NoRowIs
    <3>2. CASE view.rows[d] # NoRow
      <4>1. [total |-> view.rows[d].total, mark |-> view.rows[d].mark] \in Base(view.rows[d])
        BY <2>2, <3>2, BaseIs
      <4>2. Then([total |-> view.rows[d].total, mark |-> view.rows[d].mark], Current(d))
        BY <2>1, <4>1 DEF Line
      <4> QED
        BY <4>2 DEF Then, Current
    <3> QED
      BY <3>1, <3>2
  <2> QED
    BY <2>1, <2>2, <2>3, RowFields
<1> QED
  BY <1>1, <1>2 DEF GraphInv, RatesCarried

(* What is drawn is true at every step of every window: the rates of the   *)
(* interfaces have been carried, nothing is above the graph's top, and the *)
(* samples drawn above each other are of the same time, whatever devices   *)
(* come and go and however far the main thread is behind                   *)
(* (evisum_ui_network.c:371-415, evisum_ui_disk.c:350-371,                 *)
(* evisum_ui_sensors.c:410, evisum_ui_memory.c:288-292).                   *)
THEOREM GraphCorrect == Spec => []GraphInv
<1>1. Spec => []IInv
  BY InitHolds, StepKeeps, PTL DEF Spec
<1> QED
  BY <1>1, InvIsTrue, PTL

(* Nothing that is gone is used without its cause, in windows of any       *)
(* number of devices: the view only after a close that did not wait, the   *)
(* end of an array and a half filled struct only by a main thread that is  *)
(* behind, a device only by windows that keep pointers                     *)
(* (evisum_ui_sensors.c:363,385-392, evisum_ui_memory.c:334-349,           *)
(* evisum_ui_network.c:327-339).                                           *)
THEOREM MisuseIsExplained == Spec => MisuseExplained
<1> DEFINE Explained(m) ==
      CASE m = "view"         -> gaveUp
        [] m = "device"       -> kind \in Pointers
        [] m = "past the end" -> kind = "sensors" /\ behind
        [] m = "half filled"  -> kind = "memory" /\ behind
<1>1. ASSUME IInv, [Next]_vars
      PROVE  [\A m \in misused' \ misused : Explained(m)]_vars
  <2>1. TypeOK /\ SendInv
    BY <1>1 DEF IInv
  <2>2. /\ Explained("view") <=> gaveUp
        /\ Explained("device") <=> kind \in Pointers
        /\ Explained("past the end") <=> kind = "sensors" /\ behind
        /\ Explained("half filled") <=> kind = "memory" /\ behind
    OBVIOUS
  <2> HIDE DEF Explained
  <2>3. view.state = "freed" /\ (queue # <<>> \/ worker.at # "ended") => gaveUp
    BY <2>1 DEF SendInv, TypeOK
  <2>4. \/ misused' = misused
        \/ Got \/ Read \/ Feedback
    BY <1>1 DEF Next, Worker, Main, User, Environment, Poll, End, Closed, Close, GiveUp, Open,
                Toggle, Replace, Unplug, Plug, Traffic, Restart, Changes, vars
  <2>5. ASSUME Got, NEW m \in misused' \ misused PROVE Explained(m)
    <3>1. m = "view" /\ view.state = "freed" /\ worker.at = "getting"
      BY <2>5 DEF Got, GotMemory, GotDisk, GotSensors, GotPointers, Misuse
    <3> QED
      BY <2>2, <2>3, <3>1
  <2>6. ASSUME Read, NEW m \in misused' \ misused PROVE Explained(m)
    <3>1. /\ worker.at = "reading" /\ kind \in Pointers
          /\ m = "device" \/ (m = "view" /\ view.state = "freed")
      BY <2>6 DEF Read, ReadInterfaces, ReadCores, Misuse, Pointers
    <3> QED
      BY <2>2, <2>3, <3>1
  <2>7. ASSUME Feedback, NEW m \in misused' \ misused PROVE Explained(m)
    <3>1. queue # <<>>
      BY <2>7 DEF Feedback
    <3>2. CASE view.state = "freed"
      <4>1. m = "view"
        BY <2>7, <3>2 DEF Feedback, Misuse
      <4> QED
        BY <2>2, <2>3, <3>1, <3>2, <4>1
    <3>3. CASE view.state # "freed" /\ kind = "memory"
      <4>1. m = "half filled" /\ worker.at = "getting"
        BY <2>7, <3>3 DEF Feedback, Misuse
      <4>2. behind
        BY <2>1, <3>1, <4>1 DEF SendInv, TypeOK
      <4> QED
        BY <2>2, <3>3, <4>1, <4>2
    <3>4. CASE view.state # "freed" /\ kind # "memory"
      <4>1. /\ kind = "sensors"
            /\ m = "device" \/ (m = "past the end" /\ view.n > Len(Head(queue)))
        BY <2>7, <3>4 DEF Feedback, Misuse
      <4>2. CASE m = "device"
        BY <2>2, <4>1, <4>2 DEF Pointers
      <4>3. CASE m = "past the end" /\ view.n > Len(Head(queue))
        <5>1. view.n \in Nat /\ Len(queue[1]) \in Nat /\ Head(queue) = queue[1]
          <6>1. queue \in Seq(Seq(Item)) /\ view.n \in Nat
            BY <2>1, ViewFields
          <6> QED
            BY <3>1, <6>1
        <5>2. behind
          <6> SUFFICES ASSUME ~behind PROVE FALSE
            OBVIOUS
          <6>1. view.n <= Len(queue[1])
            BY <2>1, <3>1, <4>1 DEF SendInv
          <6>2. view.n > Len(queue[1])
            BY <4>3, <5>1
          <6> QED
            BY <5>1, <6>1, <6>2
        <5> QED
          BY <2>2, <4>1, <4>3, <5>2
      <4> QED
        BY <4>1, <4>2, <4>3
    <3> QED
      BY <3>2, <3>3, <3>4
  <2> QED
    BY <2>4, <2>5, <2>6, <2>7
<1>2. IInv /\ [Next]_vars => [\A m \in misused' \ misused : Explained(m)]_vars
  BY <1>1
<1> QED
  BY <1>2, InitHolds, StepKeeps, PTL DEF Spec, MisuseExplained

-----------------------------------------------------------------------------
(* The update signal.  What a worker's Poll stands for is a wait for the   *)
(* background signal, and what GiveUp stands for is a join that does not   *)
(* succeed.  These are the theorems about UpdateSignal, for any number of  *)
(* windows and snapshots.                                                  *)

(* The seq of a sleeping thread is what it waits to see change, unless it  *)
(* is 0; and the poller only has what it has not passed on yet.            *)
CountInv ==
  /\ Signal!NoSpuriousUpdate
  /\ pc[Poller] = "asleep" =>
       /\ target[Poller] <= count["engine"]
       /\ seen[Poller] # 0 => target[Poller] = seen[Poller]
  /\ pc[Poller] = "got" => count["background"] < seen[Poller]
  /\ \A w \in Window : pc[w] \notin {"status", "read"}

(* As long as the main thread has waited for every thread: what is freed   *)
(* is a view whose thread has ended, and after evisum_ui_shutdown has      *)
(* begun no thread but the poller runs, after its join none.               *)
FreeInv ==
  orphaned \/
    /\ ~broken
    /\ \A w \in Window : w \in freed => ~Signal!Running(w)
    /\ main # "loop" => \A w \in Window : ~Signal!Running(w)
    /\ main \notin {"loop", "quit"} => ~Signal!Running(Poller)
    /\ main \in {"loop", "quit"} =>
         live["engine"] /\ live["background"] /\ Poller \notin freed

-----------------------------------------------------------------------------
LEMMA Threads ==
  Poller \in Signal!Thread /\ Window \subseteq Signal!Thread /\ Poller \notin Window
  BY ThreadsAssumption DEF Signal!Thread

LEMMA Sources == \A t \in Signal!Thread : Signal!SourceOf(t) \in Signal!Source
  BY DEF Signal!SourceOf, Signal!Source

LEMMA TypeInit == Signal!Init => Signal!TypeOK
<1> SUFFICES ASSUME Signal!Init PROVE Signal!TypeOK
  OBVIOUS
<1>1. up \in [Signal!Source -> BOOLEAN]
  BY DEF Signal!Init
<1>2. pc \in [Signal!Thread -> Signal!PCs]
  BY DEF Signal!Init, Signal!PCs
<1>3. QED BY <1>1, <1>2 DEF Signal!Init, Signal!TypeOK, Signal!Mains

(* Look moves a thread, and gives it the counter it looked at.             *)
LEMMA LookTyped ==
  ASSUME Signal!TypeOK, NEW t \in Signal!Thread, NEW from, Signal!Look(t, from)
  PROVE  /\ \E to \in {"check", "got", "asleep"} : pc' = [pc EXCEPT ![t] = to]
         /\ seen' \in [Signal!Thread -> Nat]
  BY Sources DEF Signal!TypeOK, Signal!Look, Signal!Goto

LEMMA ThreadTyped ==
  ASSUME Signal!TypeOK, NEW t \in Signal!Thread, Signal!ThreadStep(t)
  PROVE  Signal!TypeOK'
<1> USE DEF Signal!TypeOK, Signal!PCs, Signal!sourceVars, Signal!mainVars
<1>1. CASE Signal!Check(t)
  BY <1>1 DEF Signal!Check, Signal!Goto
<1>2. CASE Signal!Test(t)
  BY <1>2 DEF Signal!Test, Signal!Goto
<1>3. CASE Signal!Lock(t)
  <2>1. target' \in [Signal!Thread -> Nat]
    BY <1>3, Sources DEF Signal!Lock
  <2>2. pc' \in [Signal!Thread -> Signal!PCs]
        /\ signalled' \subseteq {u \in Signal!Thread : pc'[u] = "asleep"}
        /\ seen' \in [Signal!Thread -> Nat]
    BY <1>3, LookTyped DEF Signal!Lock
  <2>3. QED BY <1>3, <2>1, <2>2 DEF Signal!Lock
<1>4. CASE Signal!Wake(t)
  <2>1. pc' \in [Signal!Thread -> Signal!PCs]
        /\ signalled' \subseteq {u \in Signal!Thread : pc'[u] = "asleep"}
        /\ seen' \in [Signal!Thread -> Nat]
    BY <1>4, LookTyped DEF Signal!Wake
  <2>2. QED BY <1>4, <2>1 DEF Signal!Wake
<1>5. CASE Signal!Timeout(t)
  BY <1>5 DEF Signal!Timeout, Signal!Goto
<1>6. CASE Signal!Show(t)
  BY <1>6 DEF Signal!Show, Signal!Goto
<1>7. CASE Signal!Break(t)
  BY <1>7 DEF Signal!Break, Signal!Goto
<1>8. CASE t = Poller /\ Signal!Forward
  <2>1. count' \in [Signal!Source -> Nat]
    BY <1>8 DEF Signal!Forward, Signal!Publish, Signal!Source
  <2>2. pc' \in [Signal!Thread -> Signal!PCs]
        /\ signalled' \subseteq {u \in Signal!Thread : pc'[u] = "asleep"}
    BY <1>8 DEF Signal!Forward, Signal!Publish, Signal!Goto, Signal!Sleepers,
                Signal!SourceOf
  <2>3. QED BY <1>8, <2>1, <2>2 DEF Signal!Forward
<1>9. CASE t = Poller /\ Signal!Status
  BY <1>9 DEF Signal!Status, Signal!Goto
<1>10. CASE t = Poller /\ Signal!ReadStatus
  BY <1>10 DEF Signal!ReadStatus, Signal!Goto
<1>11. QED BY <1>1, <1>2, <1>3, <1>4, <1>5, <1>6, <1>7, <1>8, <1>9, <1>10
  DEF Signal!ThreadStep

LEMMA MainTyped ==
  ASSUME Signal!TypeOK, Signal!MainStep
  PROVE  Signal!TypeOK'
<1> USE DEF Signal!TypeOK, Signal!Mains, Signal!sourceVars, Signal!threadVars,
            Signal!mainVars
<1>1. CASE Signal!EngineStart
  BY <1>1 DEF Signal!EngineStart
<1>2. CASE Signal!Snapshot
  BY <1>2 DEF Signal!Snapshot, Signal!Publish, Signal!Sleepers, Signal!Source
<1>3. CASE Signal!Quit
  BY <1>3, Threads DEF Signal!Quit
<1>4. CASE Signal!BackgroundStop
  BY <1>4 DEF Signal!BackgroundStop, Signal!Sleepers
<1>5. CASE Signal!BackgroundFree
  BY <1>5 DEF Signal!BackgroundFree
<1>6. CASE Signal!EngineStop
  BY <1>6 DEF Signal!EngineStop, Signal!Sleepers
<1>7. CASE Signal!EngineFree
  BY <1>7 DEF Signal!EngineFree
<1>8. CASE Signal!UiFree
  BY <1>8, Threads DEF Signal!UiFree
<1>9. ASSUME NEW w \in Window, Signal!Open(w) PROVE Signal!TypeOK'
  BY <1>9, Threads DEF Signal!Open, Signal!Goto, Signal!PCs
<1>10. ASSUME NEW w \in Window, Signal!Close(w) PROVE Signal!TypeOK'
  BY <1>10, Threads DEF Signal!Close
<1>11. ASSUME NEW w \in Window, Signal!Joined(w) PROVE Signal!TypeOK'
  BY <1>11, Threads DEF Signal!Joined
<1>12. QED
  BY <1>1, <1>2, <1>3, <1>4, <1>5, <1>6, <1>7, <1>8, <1>9, <1>10, <1>11
  DEF Signal!MainStep, Signal!Shutdown

(* Every variable keeps its type, and only sleeping threads are woken.     *)
THEOREM TypeCorrect == SignalSpec => []SignalTyped
<1>1. Signal!TypeOK /\ UNCHANGED Signal!vars => Signal!TypeOK'
  BY DEF Signal!TypeOK, Signal!vars, Signal!sourceVars, Signal!threadVars, Signal!mainVars
<1>2. Signal!TypeOK /\ [Signal!Next]_(Signal!vars) => Signal!TypeOK'
  BY <1>1, ThreadTyped, MainTyped DEF Signal!Next
<1>3. QED BY TypeInit, <1>2, PTL DEF SignalSpec, SignalTyped, Signal!Spec

-----------------------------------------------------------------------------
(* The counters *)

LEMMA CountInit == Signal!Init => CountInv
  BY Threads DEF Signal!Init, CountInv, Signal!NoSpuriousUpdate, Signal!Source,
                 Signal!Thread

(* A thread that finds its counter changed has now seen all of it.         *)
LEMMA LookCounts ==
  ASSUME Signal!TypeOK, CountInv, NEW t \in Signal!Thread,
     NEW from \in Nat,
         from <= count[Signal!SourceOf(t)], seen[t] # 0 => from = seen[t],
         Signal!Look(t, from), target' = [target EXCEPT ![t] = from], UNCHANGED count
  PROVE  CountInv'
<1>1. count \in [Signal!Source -> Nat] /\ seen \in [Signal!Thread -> Nat]
      /\ target \in [Signal!Thread -> Nat]
      /\ pc \in [Signal!Thread -> Signal!PCs]
  BY DEF Signal!TypeOK
<1>2. "engine" \in Signal!Source /\ "background" \in Signal!Source
  BY DEF Signal!Source
<1>3. CASE t = Poller
  BY <1>1, <1>2, <1>3, Threads DEF CountInv, Signal!NoSpuriousUpdate, Signal!Look,
                                   Signal!Goto, Signal!SourceOf
<1>4. CASE t \in Window
  <2>1. Signal!SourceOf(t) = "background" /\ t # Poller
    BY <1>4, Threads DEF Signal!SourceOf
  <2>2. pc'[Poller] = pc[Poller] /\ seen'[Poller] = seen[Poller]
        /\ target'[Poller] = target[Poller]
    BY <1>1, <2>1, Threads DEF Signal!Look, Signal!Goto
  <2>3. \A w \in Window : seen'[w] <= count["background"]
    BY <1>1, <1>2, <2>1, Threads DEF CountInv, Signal!NoSpuriousUpdate, Signal!Look
  <2>4. \A w \in Window : pc'[w] \notin {"status", "read"}
    BY <1>1, <2>1, Threads DEF CountInv, Signal!Look, Signal!Goto
  <2>5. QED BY <2>2, <2>3, <2>4 DEF CountInv, Signal!NoSpuriousUpdate
<1>5. QED BY <1>3, <1>4 DEF Signal!Thread

(* A thread other than the poller, or the poller anywhere but in its wait  *)
(* or before its publication, moves without touching a counter.            *)
LEMMA MoveCounts ==
  ASSUME Signal!TypeOK, CountInv, NEW t \in Signal!Thread,
     NEW to \in Signal!PCs,
         pc' = [pc EXCEPT ![t] = to], to \notin {"asleep", "got"},
         to \in {"status", "read"} => t = Poller,
         UNCHANGED <<count, seen, target>>
  PROVE  CountInv'
  BY Threads DEF Signal!TypeOK, CountInv, Signal!NoSpuriousUpdate

LEMMA ThreadCounts ==
  ASSUME Signal!TypeOK, CountInv, NEW t \in Signal!Thread,
     Signal!ThreadStep(t)
  PROVE  CountInv'
<1>1. CASE Signal!Check(t)
  BY <1>1, MoveCounts DEF Signal!Check, Signal!Goto, Signal!sourceVars, Signal!PCs
<1>2. CASE Signal!Test(t)
  BY <1>2, MoveCounts DEF Signal!Test, Signal!Goto, Signal!sourceVars, Signal!PCs
<1>3. CASE Signal!Lock(t)
  <2> DEFINE from == IF seen[t] # 0 THEN seen[t] ELSE count[Signal!SourceOf(t)]
  <2>1. from \in Nat /\ from <= count[Signal!SourceOf(t)]
    BY Sources, Threads DEF Signal!TypeOK, CountInv, Signal!NoSpuriousUpdate,
                            Signal!SourceOf, Signal!Thread, Signal!Source
  <2>2. target' = [target EXCEPT ![t] = from] /\ Signal!Look(t, from) /\ UNCHANGED count
    BY <1>3 DEF Signal!Lock, Signal!TypeOK, Signal!sourceVars
  <2>3. seen[t] # 0 => from = seen[t]
    OBVIOUS
  <2> HIDE DEF from
  <2>4. QED BY <2>1, <2>2, <2>3, LookCounts
<1>4. CASE Signal!Wake(t)
  <2>1. CASE t = Poller
    <3>1. target[t] \in Nat /\ target[t] <= count[Signal!SourceOf(t)]
          /\ (seen[t] # 0 => target[t] = seen[t])
      BY <1>4, <2>1 DEF Signal!Wake, CountInv, Signal!TypeOK, Signal!SourceOf
    <3>2. target' = [target EXCEPT ![t] = target[t]] /\ Signal!Look(t, target[t])
          /\ UNCHANGED count
      BY <1>4 DEF Signal!Wake, Signal!TypeOK, Signal!sourceVars
    <3>3. QED BY <3>1, <3>2, LookCounts
  <2>2. CASE t \in Window
    <3>1. Signal!SourceOf(t) = "background" /\ t # Poller
      BY <2>2, Threads DEF Signal!SourceOf
    <3>2. pc'[Poller] = pc[Poller] /\ seen'[Poller] = seen[Poller]
      BY <1>4, <3>1, Threads DEF Signal!Wake, Signal!Look, Signal!Goto, Signal!TypeOK
    <3>3. \A w \in Window : seen'[w] <= count["background"]
          /\ pc'[w] \notin {"status", "read"}
      BY <1>4, <3>1, Threads DEF Signal!Wake, Signal!Look, Signal!Goto, Signal!TypeOK,
                                 CountInv, Signal!NoSpuriousUpdate, Signal!Source
    <3>4. QED BY <1>4, <3>2, <3>3 DEF Signal!Wake, CountInv, Signal!NoSpuriousUpdate,
                                      Signal!sourceVars
  <2>3. QED BY <2>1, <2>2 DEF Signal!Thread
<1>5. CASE Signal!Timeout(t)
  BY <1>5, MoveCounts DEF Signal!Timeout, Signal!Goto, Signal!sourceVars, Signal!PCs
<1>6. CASE Signal!Show(t)
  BY <1>6, MoveCounts DEF Signal!Show, Signal!Goto, Signal!sourceVars, Signal!PCs
<1>7. CASE Signal!Break(t)
  BY <1>7, MoveCounts DEF Signal!Break, Signal!Goto, Signal!sourceVars, Signal!PCs
<1>8. CASE t = Poller /\ Signal!Forward
  <2>1. count' = [count EXCEPT !["background"] = @ + 1] /\ UNCHANGED <<seen, target>>
    BY <1>8 DEF Signal!Forward, Signal!Publish
  <2>2. pc'[Poller] \in {"check", "status"} /\ \A w \in Window : pc'[w] = pc[w]
    BY <1>8, Threads DEF Signal!Forward, Signal!Goto, Signal!TypeOK
  <2>3. count["background"] < seen[Poller]
    BY <1>8 DEF Signal!Forward, CountInv
  <2>4. count \in [Signal!Source -> Nat] /\ seen \in [Signal!Thread -> Nat]
    BY DEF Signal!TypeOK
  <2>5. QED BY <2>1, <2>2, <2>3, <2>4, Threads DEF CountInv, Signal!NoSpuriousUpdate,
    Signal!Source
<1>9. CASE t = Poller /\ Signal!Status
  BY <1>9, MoveCounts DEF Signal!Status, Signal!Goto, Signal!sourceVars, Signal!PCs
<1>10. CASE t = Poller /\ Signal!ReadStatus
  BY <1>10, MoveCounts DEF Signal!ReadStatus, Signal!Goto, Signal!sourceVars, Signal!PCs
<1>11. QED BY <1>1, <1>2, <1>3, <1>4, <1>5, <1>6, <1>7, <1>8, <1>9, <1>10
  DEF Signal!ThreadStep

LEMMA MainCounts ==
  ASSUME Signal!TypeOK, CountInv, Signal!MainStep
  PROVE  CountInv'
<1>1. CASE Signal!Snapshot
  <2>1. count' = [count EXCEPT !["engine"] = @ + 1] /\ UNCHANGED <<pc, seen, target>>
    BY <1>1 DEF Signal!Snapshot, Signal!Publish
  <2>2. count \in [Signal!Source -> Nat] /\ seen \in [Signal!Thread -> Nat]
        /\ target \in [Signal!Thread -> Nat]
    BY DEF Signal!TypeOK
  <2>3. QED BY <2>1, <2>2, Threads DEF CountInv, Signal!NoSpuriousUpdate, Signal!Source
<1>2. ASSUME NEW w \in Window, Signal!Open(w) PROVE CountInv'
  <2>1. pc'[w] = "check" /\ seen'[w] = 0
        /\ \A t \in Signal!Thread \ {w} : pc'[t] = pc[t] /\ seen'[t] = seen[t]
    BY <1>2, Threads DEF Signal!Open, Signal!Goto, Signal!TypeOK
  <2>2. UNCHANGED <<count, target>>
    BY <1>2 DEF Signal!Open, Signal!sourceVars
  <2>3. count["background"] \in Nat
    BY DEF Signal!TypeOK, Signal!Source
  <2>4. QED BY <2>1, <2>2, <2>3, Threads DEF CountInv, Signal!NoSpuriousUpdate
<1>3. CASE UNCHANGED <<count, pc, seen, target>>
  BY <1>3 DEF CountInv, Signal!NoSpuriousUpdate
<1>4. QED
  BY <1>1, <1>2, <1>3
  DEF Signal!MainStep, Signal!Shutdown, Signal!EngineStart, Signal!Quit,
      Signal!BackgroundStop, Signal!BackgroundFree, Signal!EngineStop,
      Signal!EngineFree, Signal!UiFree, Signal!Close, Signal!Joined, Signal!threadVars,
         Signal!sourceVars

LEMMA CountInvariant == SignalSpec => []CountInv
<1>1. CountInv /\ UNCHANGED Signal!vars => CountInv'
  BY DEF CountInv, Signal!NoSpuriousUpdate, Signal!vars, Signal!sourceVars,
         Signal!threadVars, Signal!mainVars
<1>2. Signal!TypeOK /\ CountInv /\ [Signal!Next]_(Signal!vars) => CountInv'
  BY <1>1, ThreadCounts, MainCounts DEF Signal!Next
<1>3. QED BY CountInit, <1>2, TypeCorrect, PTL DEF SignalSpec, SignalTyped, Signal!Spec

(* Every update a window is told of stands for a change of the engine's    *)
(* counter that the poller saw and had not passed on before.               *)
THEOREM UpdatesAreReal == SignalSpec => []NoSpuriousUpdate
<1>1. CountInv => NoSpuriousUpdate
  BY DEF CountInv, NoSpuriousUpdate
<1>2. QED BY <1>1, CountInvariant, PTL

-----------------------------------------------------------------------------
(* What is freed *)

LEMMA FreeInit == Signal!Init => FreeInv
  BY Threads DEF Signal!Init, FreeInv, Signal!Source

LEMMA ThreadFree ==
  ASSUME Signal!TypeOK, CountInv, FreeInv,
     NEW t \in Signal!Thread, Signal!ThreadStep(t)
  PROVE  FreeInv'
<1>1. UNCHANGED <<live, Signal!mainVars>>
  BY DEF Signal!ThreadStep, Signal!Check, Signal!Test, Signal!Lock, Signal!Wake,
         Signal!Timeout, Signal!Show, Signal!Break, Signal!Forward, Signal!Status,
         Signal!ReadStatus, Signal!sourceVars
<1> SUFFICES ASSUME ~orphaned, ~orphaned' PROVE FreeInv'
  BY <1>1 DEF FreeInv, Signal!mainVars
<1>2. Signal!Running(t)
  BY Threads DEF Signal!ThreadStep, Signal!Check, Signal!Test, Signal!Lock, Signal!Wake,
                 Signal!Timeout, Signal!Show, Signal!Break, Signal!UsesFreed,
                    Signal!Forward,
         Signal!Status, Signal!ReadStatus, Signal!Running
<1>3. \A u \in Signal!Thread \ {t} : pc'[u] = pc[u]
  BY DEF Signal!ThreadStep, Signal!Check, Signal!Test, Signal!Lock, Signal!Wake,
         Signal!Timeout, Signal!Show, Signal!Break, Signal!Forward, Signal!Status,
         Signal!ReadStatus, Signal!Look, Signal!Goto, Signal!TypeOK
<1>4. t \notin freed /\ main \in {"loop", "quit"}
  BY <1>2, Threads DEF FreeInv, Signal!Thread
<1>5. ~Signal!UsesFreed(t)
  BY <1>4 DEF Signal!UsesFreed, FreeInv, Signal!SourceOf
<1>6. UNCHANGED broken
  BY <1>5 DEF Signal!ThreadStep, Signal!Check, Signal!Test, Signal!Lock, Signal!Wake,
              Signal!Timeout, Signal!Show, Signal!Break, Signal!Forward, Signal!Status,
         Signal!ReadStatus
<1>7. QED BY <1>1, <1>2, <1>3, <1>4, <1>6, Threads DEF FreeInv, Signal!mainVars,
  Signal!Running, Signal!Thread

LEMMA MainFree ==
  ASSUME Signal!TypeOK, FreeInv, Signal!MainStep
  PROVE  FreeInv'
<1> SUFFICES ASSUME ~orphaned, ~orphaned' PROVE FreeInv'
  BY DEF FreeInv, Signal!MainStep, Signal!Shutdown, Signal!EngineStart, Signal!Snapshot,
         Signal!Quit, Signal!BackgroundStop, Signal!BackgroundFree,
         Signal!EngineStop, Signal!EngineFree, Signal!UiFree, Signal!Open, Signal!Close,
            Signal!Joined, Signal!mainVars
<1> USE DEF FreeInv, Signal!Running, Signal!Idle, Signal!threadVars
<1>1. CASE Signal!EngineStart
  BY <1>1 DEF Signal!EngineStart, Signal!mainVars
<1>2. CASE Signal!Snapshot
  BY <1>2 DEF Signal!Snapshot, Signal!mainVars
<1>3. CASE Signal!Quit
  BY <1>3 DEF Signal!Quit, Signal!sourceVars
<1>4. CASE Signal!BackgroundStop
  BY <1>4 DEF Signal!BackgroundStop
<1>5. CASE Signal!BackgroundFree
  BY <1>5 DEF Signal!BackgroundFree
<1>6. CASE Signal!EngineStop
  BY <1>6 DEF Signal!EngineStop
<1>7. CASE Signal!EngineFree
  BY <1>7 DEF Signal!EngineFree
<1>8. CASE Signal!UiFree
  BY <1>8, Threads DEF Signal!UiFree
<1>9. ASSUME NEW w \in Window, Signal!Open(w) PROVE FreeInv'
  BY <1>9, Threads DEF Signal!Open, Signal!Goto, Signal!sourceVars, Signal!TypeOK
<1>10. ASSUME NEW w \in Window, Signal!Close(w) PROVE FreeInv'
  BY <1>10 DEF Signal!Close, Signal!sourceVars
<1>11. ASSUME NEW w \in Window, Signal!Joined(w) PROVE FreeInv'
  BY <1>11, Threads DEF Signal!Joined, Signal!sourceVars
<1>12. QED
  BY <1>1, <1>2, <1>3, <1>4, <1>5, <1>6, <1>7, <1>8, <1>9, <1>10, <1>11
  DEF Signal!MainStep, Signal!Shutdown

LEMMA FreeInvariant == SignalSpec => []FreeInv
<1>1. FreeInv /\ UNCHANGED Signal!vars => FreeInv'
  BY DEF FreeInv, Signal!Running, Signal!vars, Signal!sourceVars, Signal!threadVars,
         Signal!mainVars
<1>2. Signal!TypeOK /\ CountInv /\ FreeInv /\ [Signal!Next]_(Signal!vars) => FreeInv'
  BY <1>1, ThreadFree, MainFree DEF Signal!Next
<1>3. QED BY FreeInit, <1>2, TypeCorrect, CountInvariant, PTL
  DEF SignalSpec, SignalTyped, Signal!Spec

(* No interleaving of waits, time-outs, windows and the shutdown makes a   *)
(* thread use what was freed, as long as every join succeeds and the main  *)
(* loop ends after the last window.                                        *)
THEOREM ShutdownIsSafe == SignalSpec => []FreedOnlyByOrphaning
<1>1. FreeInv => FreedOnlyByOrphaning
  BY DEF FreeInv, FreedOnlyByOrphaning, Signal!FreedOnlyByOrphaning, Signal!NeverUsesFreed
<1>2. QED BY <1>1, FreeInvariant, PTL
=============================================================================
