---------------------------- MODULE MCDebouncer ----------------------------
(* The debouncer for TLC.  Two posts of one conversation and one of        *)
(* another; a PostID may be pushed again after its buffer left.  With      *)
(* Window 2 and MaxWait 3 the second and third messages of a burst meet    *)
(* the ceiling, and four accepted messages let a stale callback take a     *)
(* buffer, orphan its timer, and that timer hit a third buffer.            *)
EXTENDS Debouncer

CONSTANTS k1, k2, p1, p2, q1
MCKeyOf == [p \in Posts |-> IF p = q1 THEN k2 ELSE k1]
=============================================================================
