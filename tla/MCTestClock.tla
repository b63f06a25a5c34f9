------------------------------ MODULE MCTestClock ------------------------------
(* TestClock with a duration that is in the past. *)
EXTENDS TestClock

MCDurations == {-1, 0, 1}
===============================================================================
