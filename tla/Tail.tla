-------------------------------- MODULE Tail --------------------------------
(***************************************************************************)
(* What following the log promises, whatever the log holds: a file that    *)
(* grows, and now and then starts again empty, and a reader that decodes   *)
(* it in order.  The reader may be behind; what it has is always the first *)
(* items of one file; it starts again only because the file did; it        *)
(* decodes nothing that the file does not hold, unless it has lost its     *)
(* place, and it can lose that only to a truncation.                       *)
(***************************************************************************)
EXTENDS Naturals, Sequences

VARIABLES
  file,     \* items in the file
  gen,      \* which file that is: how often it was truncated
  got,      \* items the reader has decoded since it last started at 0
  of,       \* the file they are from
  lost      \* the reader took a new file for a longer version of the old

vars == <<file, gen, got, of, lost>>

(* The first n items of the file the reader started at.                    *)
Items(n) == [i \in 1 .. n |-> [gen |-> of, frame |-> i]]

Init == file = 0 /\ gen = 0 /\ got = <<>> /\ of = 0 /\ ~lost

Grow ==
  /\ file' \in Nat /\ file' > file
  /\ UNCHANGED <<gen, got, of, lost>>

Truncate ==
  /\ file' = 0
  /\ gen' \in Nat /\ gen' > gen
  /\ UNCHANGED <<got, of, lost>>

(* What was fetched before a truncation may still be decoded after it.     *)
Decode ==
  /\ ~lost
  /\ Len(got') > Len(got)
  /\ got' = Items(Len(got'))
  /\ of = gen => Len(got') <= file
  /\ UNCHANGED <<file, gen, of, lost>>

Restart ==
  /\ of # gen
  /\ of' = gen /\ got' = <<>> /\ lost' = FALSE
  /\ UNCHANGED <<file, gen>>

Lose ==
  /\ of # gen
  /\ lost' = TRUE
  /\ UNCHANGED <<file, gen, got, of>>

(* A reader that is lost may decode anything.                              *)
Wander == lost /\ UNCHANGED <<file, gen, of, lost>>

Next == Grow \/ Truncate \/ Decode \/ Restart \/ Lose \/ Wander

Spec == Init /\ [][Next]_vars
=============================================================================
