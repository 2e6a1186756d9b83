----------------------------- MODULE TurnQueue -----------------------------
(***************************************************************************)
(* What the worker pool promises the debouncer and the shutdown            *)
(* (internal/application/dispatch/pool.go), without its channel, its       *)
(* workers and their states: a turn is refused or accepted, an accepted    *)
(* one is handled once, and a Stop that reports success leaves nothing     *)
(* behind that was accepted before it.                                     *)
(***************************************************************************)
EXTENDS Integers

CONSTANT Jobs

VARIABLES status,  \* job -> how far it is
          closed,  \* Stop has been called
          late,    \* jobs accepted after that
          report   \* what Stop returned

vars == <<status, closed, late, report>>

Statuses == {"new", "refused", "waiting", "handling", "handled"}

Init ==
    /\ status = [j \in Jobs |-> "new"]
    /\ closed = FALSE
    /\ late = {}
    /\ report = "none"

Move(j, from, to) ==
    /\ status[j] = from
    /\ status' = [status EXCEPT ![j] = to]

(* Enqueue answers false: the queue is full or Stop was called.            *)
Refuse(j) == Move(j, "new", "refused") /\ UNCHANGED <<closed, late, report>>

(* Enqueue answers true; it may do so after Stop was called.               *)
Accept(j) ==
    /\ Move(j, "new", "waiting")
    /\ late' = IF closed THEN late \cup {j} ELSE late
    /\ UNCHANGED <<closed, report>>

Handle(j) == Move(j, "waiting", "handling") /\ UNCHANGED <<closed, late, report>>

Finish(j) == Move(j, "handling", "handled") /\ UNCHANGED <<closed, late, report>>

Close ==
    /\ ~closed
    /\ closed' = TRUE
    /\ UNCHANGED <<status, late, report>>

(* Stop returns: everything accepted in time is handled ...                *)
Drained ==
    /\ closed /\ report = "none"
    /\ \A j \in Jobs : status[j] \in {"waiting", "handling"} => j \in late
    /\ report' = "drained"
    /\ UNCHANGED <<status, closed, late>>

(* ... or its context ran out.                                             *)
GaveUp ==
    /\ closed /\ report = "none"
    /\ report' = "gaveUp"
    /\ UNCHANGED <<status, closed, late>>

Next ==
    \/ \E j \in Jobs : Refuse(j) \/ Accept(j) \/ Handle(j) \/ Finish(j)
    \/ Close
    \/ Drained
    \/ GaveUp

(* Every turn is answered, one accepted in time is taken up, and one taken *)
(* up is finished.                                                         *)
Fairness ==
    \A j \in Jobs :
        /\ WF_vars(Refuse(j) \/ Accept(j))
        /\ WF_vars(j \notin late /\ Handle(j))
        /\ WF_vars(Finish(j))

Spec == Init /\ [][Next]_vars

FairSpec == Spec /\ Fairness
=============================================================================
