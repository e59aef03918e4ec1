------------------------------ MODULE MCTlrfu -------------------------------
(* Tlrfu for TLC with a clock that need not advance.                       *)
EXTENDS Tlrfu

\* Two reads may return the same time, and the clock may be set back.
CoarseClock == {-1, 0, 1}
=============================================================================
