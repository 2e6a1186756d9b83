----------------------------- MODULE MCDispatch -----------------------------
(* The worker pool for TLC: four turns, two workers and a queue of two, so *)
(* that the queue fills up, both workers drain it, and a sender can be     *)
(* caught between its two selects by Stop.                                 *)
EXTENDS Dispatch
=============================================================================
