----------------------------- MODULE Collector -----------------------------
(***************************************************************************)
(* What the debouncer (internal/infrastructure/debouncer/timed.go)         *)
(* promises the webhook handler and the flush function, without its        *)
(* timers, its lock and its clock: a message it accepts is held with the   *)
(* others of its conversation, leaves with all of them as one turn, once,  *)
(* or is discarded because a host replied or the process stops.            *)
(* The message is a pair of its number and its PostID, as in Debouncer.    *)
(***************************************************************************)
EXTENDS Integers

CONSTANTS Keys, Posts, KeyOf

VARIABLES held,      \* key -> messages waiting for their turn
          leaving,   \* turns, as sets of messages, on their way to flush
          out,       \* messages handed to flush
          discarded, \* messages given up
          closed,    \* Stop was called
          count      \* messages accepted

vars == <<held, leaving, out, discarded, closed, count>>

Init ==
    /\ held = [k \in Keys |-> {}]
    /\ leaving = {}
    /\ out = {}
    /\ discarded = {}
    /\ closed = FALSE
    /\ count = 0

(* Push, unless the PostID is held already.                                *)
Accept(p) ==
    LET k == KeyOf[p]
    IN  /\ ~closed
        /\ \A m \in held[k] : m[2] # p
        /\ count' = count + 1
        /\ held' = [held EXCEPT ![k] = @ \cup {<<count + 1, p>>}]
        /\ UNCHANGED <<leaving, out, discarded, closed>>

(* The conversation's messages leave together.                             *)
Take(k) ==
    /\ held[k] # {}
    /\ leaving' = leaving \cup {held[k]}
    /\ held' = [held EXCEPT ![k] = {}]
    /\ UNCHANGED <<out, discarded, closed, count>>

Deliver(turn) ==
    /\ turn \in leaving
    /\ leaving' = leaving \ {turn}
    /\ out' = out \cup turn
    /\ UNCHANGED <<held, discarded, closed, count>>

Discard(k) ==
    /\ held[k] # {}
    /\ discarded' = discarded \cup held[k]
    /\ held' = [held EXCEPT ![k] = {}]
    /\ UNCHANGED <<leaving, out, closed, count>>

Close ==
    /\ ~closed
    /\ closed' = TRUE
    /\ discarded' = discarded \cup UNION {held[k] : k \in Keys}
    /\ held' = [k \in Keys |-> {}]
    /\ UNCHANGED <<leaving, out, count>>

Next ==
    \/ \E p \in Posts : Accept(p)
    \/ \E k \in Keys : Take(k) \/ Discard(k)
    \/ \E turn \in leaving : Deliver(turn)
    \/ Close

Spec == Init /\ [][Next]_vars

(* Nothing is held for ever, and a turn that left arrives.                 *)
Fairness ==
    /\ \A k \in Keys : WF_vars(Take(k))
    /\ WF_vars(\E turn \in leaving : Deliver(turn))

FairSpec == Spec /\ Fairness
=============================================================================
