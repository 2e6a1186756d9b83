---------------------------- MODULE GuestyClient ----------------------------
(***************************************************************************)
(* The Guesty HTTP client (internal/infrastructure/guesty/client.go and    *)
(* retry.go): do runs the retry loop inside a circuit breaker that all     *)
(* calls share.  The breaker is the gobreaker library, modelled from its   *)
(* settings in defaultBreaker and the way do uses it.                      *)
(*                                                                         *)
(* A call is a POST (PostNote, CreateReservation): an attempt may take     *)
(* effect at Guesty although its answer is an error or never arrives.      *)
(* Calls follow one another without end; only the state of the current one *)
(* is kept.  Backoff, jitter and Retry-After only say how long a retry     *)
(* waits.                                                                  *)
(***************************************************************************)
EXTENDS Integers, FiniteSets

CONSTANTS Callers,    \* goroutines that call the client
          Retries,    \* extra attempts
          TripAfter   \* consecutive failures that open the breaker: 5

ASSUME GuestyAssumption == Retries \in Nat /\ TripAfter \in Nat \ {0}

VARIABLES pc,       \* caller -> "idle", "attempt" or "wait"
          attempt,  \* caller -> number of the current attempt
          copies,   \* caller -> times the call took effect at Guesty
          result,   \* caller -> how its last call ended
          state,    \* of the breaker: "closed", "open" or "half"
          failures, \* consecutive failures of this generation
          admitted, \* requests admitted in this generation, 0 or 1 when half-open
          fresh,    \* callers admitted in this generation of the breaker
          healthy   \* Guesty answers with success

vars == <<pc, attempt, copies, result, state, failures, admitted, fresh, healthy>>

Results == {"none", "ok", "failed", "circuitOpen"}

Init ==
    /\ pc = [c \in Callers |-> "idle"]
    /\ attempt = [c \in Callers |-> 0]
    /\ copies = [c \in Callers |-> 0]
    /\ result = [c \in Callers |-> "none"]
    /\ state = "closed"
    /\ failures = 0
    /\ admitted = 0
    /\ fresh = {}
    /\ healthy \in BOOLEAN

-----------------------------------------------------------------------------
(* gobreaker: a new generation clears the counts and forgets the requests  *)
(* in flight.                                                              *)
NewGeneration(s) ==
    /\ state' = s
    /\ failures' = 0
    /\ admitted' = 0
    /\ fresh' = {}

(* The 30s of the open state pass, or the 60s after which a closed breaker *)
(* clears its counts.                                                      *)
OpenTimeout ==
    /\ state = "open"
    /\ NewGeneration("half")
    /\ UNCHANGED <<pc, attempt, copies, result, healthy>>

ClosedInterval ==
    /\ state = "closed"
    /\ NewGeneration("closed")
    /\ UNCHANGED <<pc, attempt, copies, result, healthy>>

\* Mutant: a half-open breaker lets everyone in.
mayPassAll == state # "open"

(* Execute refuses while open, and while half-open with the probe out.     *)
mayPass == state = "closed" \/ (state = "half" /\ admitted = 0)

(* do: refused by the breaker without an attempt, or on to the first one.  *)
DoRefused(c) ==
    /\ pc[c] = "idle"
    /\ ~mayPass
    /\ result' = [result EXCEPT ![c] = "circuitOpen"]
    /\ copies' = [copies EXCEPT ![c] = 0]
    /\ UNCHANGED <<pc, attempt, state, failures, admitted, fresh, healthy>>

Do(c) ==
    /\ pc[c] = "idle"
    /\ mayPass
    /\ pc' = [pc EXCEPT ![c] = "attempt"]
    /\ attempt' = [attempt EXCEPT ![c] = 0]
    /\ copies' = [copies EXCEPT ![c] = 0]
    /\ result' = [result EXCEPT ![c] = "none"]
    /\ admitted' = IF state = "half" THEN admitted + 1 ELSE admitted
    /\ fresh' = fresh \cup {c}
    /\ UNCHANGED <<state, failures, healthy>>

(* afterRequest of the breaker: a result of an older generation is         *)
(* ignored.                                                                *)
Reported(c, ok) ==
    IF c \notin fresh
      THEN UNCHANGED <<state, failures, admitted, fresh>>
    ELSE IF state = "half"
      THEN NewGeneration(IF ok THEN "closed" ELSE "open")
    ELSE IF ~ok /\ failures + 1 >= TripAfter
      THEN NewGeneration("open")
    ELSE /\ failures' = (IF ok THEN 0 ELSE failures + 1)
         /\ fresh' = fresh \ {c}
         /\ UNCHANGED <<state, admitted>>

Ends(c, how) ==
    /\ pc' = [pc EXCEPT ![c] = "idle"]
    /\ result' = [result EXCEPT ![c] = how]
    /\ Reported(c, how = "ok")

(* The three ways an attempt ends.  A 2xx ends the call with success ...   *)
AttemptOK(c) ==
    /\ pc[c] = "attempt"
    /\ healthy
    /\ copies' = [copies EXCEPT ![c] = @ + 1]
    /\ Ends(c, "ok")
    /\ UNCHANGED <<attempt, healthy>>

\* Mutant: a status that is not retried counts as success.
AttemptRejectedOK(c) ==
    /\ pc[c] = "attempt"
    /\ ~healthy
    /\ Ends(c, "ok")
    /\ UNCHANGED <<attempt, copies, healthy>>

(* ... a status that is not retried, or a 2xx whose body cannot be decoded *)
(* and which did take effect, with failure ...                             *)
AttemptRejected(c) ==
    /\ pc[c] = "attempt"
    /\ ~healthy
    /\ copies' \in {copies, [copies EXCEPT ![c] = @ + 1]}
    /\ Ends(c, "failed")
    /\ UNCHANGED <<attempt, healthy>>

(* ... and a transport error, a 429 or a 5xx with a retry, or with failure *)
(* when there is none left.  The request may have taken effect.            *)
AttemptFailed(c) ==
    /\ pc[c] = "attempt"
    /\ ~healthy
    /\ copies' \in {copies, [copies EXCEPT ![c] = @ + 1]}
    /\ \/ /\ attempt[c] = Retries
          /\ Ends(c, "failed")
       \/ /\ attempt[c] < Retries
          /\ pc' = [pc EXCEPT ![c] = "wait"]
          /\ UNCHANGED <<result, state, failures, admitted, fresh>>
    /\ UNCHANGED <<attempt, healthy>>

\* Mutant: a cancelled call returns without telling the breaker.
WaitCancelledUnreported(c) ==
    /\ pc[c] = "wait"
    /\ pc' = [pc EXCEPT ![c] = "idle"]
    /\ result' = [result EXCEPT ![c] = "failed"]
    /\ UNCHANGED <<attempt, copies, state, failures, admitted, fresh, healthy>>

(* waitOrCancel: the pause is over, or the context is, which ends the call *)
(* as a failure.                                                           *)
WaitOver(c) ==
    /\ pc[c] = "wait"
    /\ pc' = [pc EXCEPT ![c] = "attempt"]
    /\ attempt' = [attempt EXCEPT ![c] = @ + 1]
    /\ UNCHANGED <<copies, result, state, failures, admitted, fresh, healthy>>

WaitCancelled(c) ==
    /\ pc[c] = "wait"
    /\ Ends(c, "failed")
    /\ UNCHANGED <<attempt, copies, healthy>>

(* Guesty goes down or comes back.                                         *)
Outage ==
    /\ healthy' = ~healthy
    /\ UNCHANGED <<pc, attempt, copies, result, state, failures, admitted, fresh>>

InCall(c) ==
    \/ AttemptOK(c)
    \/ AttemptRejected(c)
    \/ AttemptFailed(c)
    \/ WaitOver(c)
    \/ WaitCancelled(c)

Next ==
    \/ \E c \in Callers : Do(c) \/ DoRefused(c) \/ InCall(c)
    \/ OpenTimeout
    \/ ClosedInterval
    \/ Outage

Spec == Init /\ [][Next]_vars

(* Requests end (they have a timeout), the open state times out, and the   *)
(* server keeps calling Guesty as long as guests write.                    *)
FairSpec ==
    /\ Spec
    /\ \A c \in Callers : WF_vars(InCall(c)) /\ WF_vars(Do(c) \/ DoRefused(c))
    /\ WF_vars(OpenTimeout)

-----------------------------------------------------------------------------
(* Every variable holds a value of its type.                               *)
TypeOK ==
    /\ pc \in [Callers -> {"idle", "attempt", "wait"}]
    /\ attempt \in [Callers -> 0..Retries]
    /\ copies \in [Callers -> 0..(Retries + 1)]
    /\ result \in [Callers -> Results]
    /\ state \in {"closed", "open", "half"}
    /\ failures \in 0..(TripAfter - 1)
    /\ admitted \in 0..1
    /\ fresh \in SUBSET Callers
    /\ healthy \in BOOLEAN

(* What a caller may conclude from the error: nil means that Guesty has    *)
(* the note, more than once only if an attempt was repeated, and           *)
(* ErrCircuitOpen that nothing was sent.                                   *)
ResultMeans ==
    \A c \in Callers :
        /\ result[c] = "ok" => copies[c] \in 1..(attempt[c] + 1)
        /\ result[c] = "circuitOpen" => copies[c] = 0

(* The half-open breaker sends one probe: no second call of its generation *)
(* is in flight, however many callers wait for Guesty to come back.        *)
OneProbe == state = "half" => Cardinality(fresh) <= 1

(* The breaker: within the retries and the trip threshold, and one probe at*)
(* a time when half-open.                                                  *)
ProbeInv == TypeOK /\ OneProbe

(* Once Guesty stays up, the breaker closes for good: no interleaving of   *)
(* late failures from before the recovery keeps it open.                   *)
BreakerRecovers == <>[]healthy => <>[](state = "closed")

=============================================================================
