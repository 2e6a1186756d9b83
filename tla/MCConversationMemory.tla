------------------------ MODULE MCConversationMemory ------------------------
(* The conversation memory for TLC: two turns of one conversation that may *)
(* be closed again and again, the first a burst of two messages, and       *)
(* threads of at most two entries, so that every second turn overflows its *)
(* thread, the burst loses its first message to its own fold once it is    *)
(* answered, and a later turn folds onto a summary that exists, in a file  *)
(* or in Mongo, with restarts at any step.                                 *)
EXTENDS ConversationMemory

CONSTANTS k1, t1
MCConvOf == [t \in Turns |-> k1]
MCSize == [t \in Turns |-> IF t = t1 THEN 2 ELSE 1]
=============================================================================
