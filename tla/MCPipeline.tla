----------------------------- MODULE MCPipeline -----------------------------
(* The whole path for TLC, with either idempotency store: two posts of one *)
(* conversation, the first of them delivered up to twice, and an empty     *)
(* one, the second replayed at boot, one worker and a queue of one, so     *)
(* that bursts, duplicates, backpressure, the shutdown window, a crash and *)
(* one of a host reply, a restart, a reset, an expired claim and a failing *)
(* claim occur.                                                            *)
EXTENDS Pipeline

CONSTANTS k1, p1, p2, e1
MCKeyOf == [p \in Posts |-> k1]
SecondReplayed == <<p2>>
NoFixtures == <<>>
FirstTwice == [p \in Posts |-> IF p = p1 THEN 2 ELSE 1]
=============================================================================
