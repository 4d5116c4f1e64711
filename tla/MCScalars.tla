----------------------------- MODULE MCScalars -----------------------------
(* Constants for checking Scalars with TLC: bytes of 8 bits, pages of two. *)
EXTENDS Scalars

Widths == <<1, 8, 32, 128>>
TickCounts == {-1, 0, 2, 3}
=============================================================================
