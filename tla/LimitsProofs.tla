---------------------------- MODULE LimitsProofs ----------------------------
(***************************************************************************)
(* Proofs about the two limits on outside calls: the retries and the       *)
(* circuit breaker of the Guesty client, and the daily budget of the LLM.  *)
(*                                                                         *)
(* The Guesty client, for any number of callers, any number of retries and *)
(* any trip threshold: what a caller may conclude from the result of a     *)
(* call, and that a half-open breaker has one probe out.  CallInv bounds,  *)
(* at each point of the retry loop, how often the request may have taken   *)
(* effect; BreakerInv ties the admitted count of the breaker to the        *)
(* callers of its generation.                                              *)
(*                                                                         *)
(* The second half is about the budget watcher, module Budget.             *)
(***************************************************************************)
EXTENDS GuestyClient, Budget, FiniteSetTheorems, TLAPS

(* Before an attempt, each earlier one may have taken effect once; after   *)
(* it, that one too.  A call in flight has no result yet.                  *)
CallInv(c) ==
    /\ pc[c] = "attempt" => copies[c] <= attempt[c]
    /\ pc[c] \in {"idle", "wait"} => copies[c] <= attempt[c] + 1
    /\ pc[c] = "wait" => attempt[c] < Retries
    /\ pc[c] # "idle" => result[c] = "none"
    /\ result[c] = "ok" => copies[c] >= 1
    /\ result[c] = "circuitOpen" => copies[c] = 0

(* An open breaker has no caller of its generation; a half-open one has    *)
(* none before it admits one, and one at most after.                       *)
BreakerInv ==
    /\ state = "open" => fresh = {}
    /\ state = "half" /\ admitted = 0 => fresh = {}
    /\ state = "half" => \A c1, c2 \in fresh : c1 = c2

IInv == TypeOK /\ BreakerInv /\ \A c \in Callers : CallInv(c)

-----------------------------------------------------------------------------
breaker == <<state, failures, admitted, fresh>>

BreakerOK ==
    /\ state \in {"closed", "open", "half"}
    /\ failures \in 0..(TripAfter - 1)
    /\ admitted \in 0..1
    /\ fresh \in SUBSET Callers

(* A new generation starts without failures, requests and callers.         *)
LEMMA NewGenerationStep ==
    ASSUME NEW s \in {"closed", "open", "half"}, NewGeneration(s)
    PROVE  BreakerOK' /\ BreakerInv'
  BY GuestyAssumption DEF NewGeneration, BreakerOK, BreakerInv

(* afterRequest: the result of a caller, of this generation or an older    *)
(* one, keeps the breaker consistent.                                      *)
LEMMA ReportedStep ==
    ASSUME IInv, NEW c \in Callers, NEW ok \in BOOLEAN, Reported(c, ok)
    PROVE  BreakerOK' /\ BreakerInv'
<1>1. CASE c \notin fresh
  <2>1. UNCHANGED breaker
    BY <1>1 DEF Reported, breaker
  <2> QED
    BY <2>1 DEF IInv, TypeOK, BreakerOK, BreakerInv, breaker
<1>2. CASE c \in fresh /\ state = "half"
  <2>1. NewGeneration("closed") \/ NewGeneration("open")
    BY <1>2 DEF Reported
  <2> QED
    BY <2>1, NewGenerationStep
<1>3. CASE c \in fresh /\ state # "half" /\ ~ok /\ failures + 1 >= TripAfter
  <2>1. NewGeneration("open")
    BY <1>3 DEF Reported
  <2> QED
    BY <2>1, NewGenerationStep
<1>4. CASE c \in fresh /\ state # "half" /\ ~(~ok /\ failures + 1 >= TripAfter)
  <2>1. /\ failures' = (IF ok THEN 0 ELSE failures + 1)
        /\ fresh' = fresh \ {c}
        /\ UNCHANGED <<state, admitted>>
    BY <1>4 DEF Reported
  <2>2. failures' \in 0..(TripAfter - 1)
    BY <1>4, <2>1, GuestyAssumption DEF IInv, TypeOK
  <2> QED
    BY <1>4, <2>1, <2>2 DEF IInv, TypeOK, BreakerOK, BreakerInv
<1> QED
  BY <1>1, <1>2, <1>3, <1>4

(* TypeOK after a step, with the breaker's part under one name.            *)
LEMMA TypeParts ==
    TypeOK' <=> /\ pc' \in [Callers -> {"idle", "attempt", "wait"}]
                /\ attempt' \in [Callers -> 0..Retries]
                /\ copies' \in [Callers -> 0..(Retries + 1)]
                /\ result' \in [Callers -> Results]
                /\ BreakerOK'
                /\ healthy' \in BOOLEAN
  BY DEF TypeOK, BreakerOK

(* A call's step leaves the other calls as they were.                      *)
LEMMA OtherCalls ==
    ASSUME IInv, NEW c \in Callers, NEW d \in Callers, d # c,
           pc'[d] = pc[d], attempt'[d] = attempt[d],
           copies'[d] = copies[d], result'[d] = result[d]
    PROVE  CallInv(d)'
  BY DEF IInv, CallInv

(* The request took effect once more, or not.                              *)
LEMMA CopiesGrow ==
    ASSUME IInv, NEW c \in Callers, pc[c] = "attempt",
           copies' \in {copies, [copies EXCEPT ![c] = @ + 1]}
    PROVE  /\ copies' \in [Callers -> 0..(Retries + 1)]
           /\ copies'[c] \in {copies[c], copies[c] + 1}
           /\ copies'[c] <= attempt[c] + 1
           /\ \A d \in Callers \ {c} : copies'[d] = copies[d]
<1>1. /\ copies[c] \in 0..(Retries + 1) /\ attempt[c] \in 0..Retries /\ Retries \in Nat
      /\ copies[c] <= attempt[c]
  BY GuestyAssumption DEF IInv, TypeOK, CallInv
<1> QED
  BY <1>1 DEF IInv, TypeOK

(* A call ends after its last attempt, with what it did to Guesty settled. *)
LEMMA EndsStep ==
    ASSUME IInv, NEW c \in Callers, NEW how \in {"ok", "failed"}, Ends(c, how),
           pc[c] # "idle", UNCHANGED <<attempt, healthy>>,
           copies' \in [Callers -> 0..(Retries + 1)],
           \A d \in Callers \ {c} : copies'[d] = copies[d],
           copies'[c] <= attempt[c] + 1,
           how = "ok" => copies'[c] >= 1
    PROVE  IInv'
<1>1. BreakerOK' /\ BreakerInv'
  <2>1. (how = "ok") \in BOOLEAN
    OBVIOUS
  <2> QED
    BY <2>1, ReportedStep DEF Ends
<1>2. /\ pc' \in [Callers -> {"idle", "attempt", "wait"}] /\ pc'[c] = "idle"
      /\ result' \in [Callers -> Results] /\ result'[c] = how
      /\ \A d \in Callers \ {c} : pc'[d] = pc[d] /\ result'[d] = result[d]
  BY DEF IInv, TypeOK, Ends, Results
<1>3. TypeOK'
  BY <1>1, <1>2, TypeParts DEF IInv, TypeOK
<1>4. CallInv(c)'
  BY <1>2 DEF CallInv
<1>5. ASSUME NEW d \in Callers, d # c PROVE CallInv(d)'
  BY <1>2, <1>5, OtherCalls
<1> QED
  BY <1>1, <1>3, <1>4, <1>5 DEF IInv

(* do: the breaker refuses the call, which then sent nothing ...           *)
LEMMA DoRefusedStep ==
    ASSUME IInv, NEW c \in Callers, DoRefused(c)
    PROVE  IInv'
<1>1. /\ pc[c] = "idle" /\ UNCHANGED <<pc, attempt, state, failures, admitted, fresh, healthy>>
      /\ result' = [result EXCEPT ![c] = "circuitOpen"]
      /\ copies' = [copies EXCEPT ![c] = 0]
  BY DEF DoRefused
<1>2. /\ copies' \in [Callers -> 0..(Retries + 1)] /\ result' \in [Callers -> Results]
      /\ copies'[c] = 0 /\ result'[c] = "circuitOpen"
      /\ \A d \in Callers \ {c} : copies'[d] = copies[d] /\ result'[d] = result[d]
  BY <1>1, GuestyAssumption DEF IInv, TypeOK, Results
<1>3. TypeOK' /\ BreakerInv'
  BY <1>1, <1>2 DEF IInv, TypeOK, BreakerInv
<1>4. CallInv(c)'
  BY <1>1, <1>2, GuestyAssumption DEF IInv, TypeOK, CallInv
<1>5. ASSUME NEW d \in Callers, d # c PROVE CallInv(d)'
  BY <1>1, <1>2, <1>5, OtherCalls
<1> QED
  BY <1>3, <1>4, <1>5 DEF IInv

(* ... or admits it, as its only probe when half-open.                     *)
LEMMA DoStep ==
    ASSUME IInv, NEW c \in Callers, Do(c)
    PROVE  IInv'
<1>1. /\ pc[c] = "idle" /\ UNCHANGED <<state, failures, healthy>>
      /\ pc' = [pc EXCEPT ![c] = "attempt"]
      /\ attempt' = [attempt EXCEPT ![c] = 0]
      /\ copies' = [copies EXCEPT ![c] = 0]
      /\ result' = [result EXCEPT ![c] = "none"]
      /\ admitted' = IF state = "half" THEN admitted + 1 ELSE admitted
      /\ fresh' = fresh \cup {c}
      /\ state = "closed" \/ (state = "half" /\ admitted = 0)
  BY DEF Do, mayPass
<1>2. /\ pc' \in [Callers -> {"idle", "attempt", "wait"}]
      /\ attempt' \in [Callers -> 0..Retries]
      /\ copies' \in [Callers -> 0..(Retries + 1)] /\ result' \in [Callers -> Results]
      /\ pc'[c] = "attempt" /\ attempt'[c] = 0 /\ copies'[c] = 0 /\ result'[c] = "none"
      /\ \A d \in Callers \ {c} :
           /\ pc'[d] = pc[d] /\ attempt'[d] = attempt[d]
           /\ copies'[d] = copies[d] /\ result'[d] = result[d]
  BY <1>1, GuestyAssumption DEF IInv, TypeOK, Results
<1>3. BreakerOK' /\ BreakerInv'
  BY <1>1 DEF IInv, TypeOK, BreakerOK, BreakerInv
<1>4. TypeOK'
  BY <1>1, <1>2, <1>3, TypeParts DEF IInv, TypeOK
<1>5. CallInv(c)'
  BY <1>2 DEF CallInv
<1>6. ASSUME NEW d \in Callers, d # c PROVE CallInv(d)'
  BY <1>2, <1>6, OtherCalls
<1> QED
  BY <1>3, <1>4, <1>5, <1>6 DEF IInv

(* The retry loop: each way an attempt or a pause may end.                 *)
LEMMA InCallStep ==
    ASSUME IInv, NEW c \in Callers, InCall(c)
    PROVE  IInv'
<1>1. CASE AttemptOK(c)
  <2>1. /\ pc[c] = "attempt" /\ copies' = [copies EXCEPT ![c] = @ + 1]
        /\ Ends(c, "ok") /\ UNCHANGED <<attempt, healthy>>
    BY <1>1 DEF AttemptOK
  <2>2. copies'[c] = copies[c] + 1 /\ copies[c] \in Nat
    BY <2>1, GuestyAssumption DEF IInv, TypeOK
  <2>3. /\ copies' \in [Callers -> 0..(Retries + 1)] /\ copies'[c] <= attempt[c] + 1
        /\ \A d \in Callers \ {c} : copies'[d] = copies[d]
    BY <2>1, CopiesGrow
  <2>4. copies'[c] >= 1
    BY <2>2
  <2> QED
    BY <2>1, <2>3, <2>4, EndsStep
<1>2. CASE AttemptRejected(c)
  <2>1. /\ pc[c] = "attempt" /\ copies' \in {copies, [copies EXCEPT ![c] = @ + 1]}
        /\ Ends(c, "failed") /\ UNCHANGED <<attempt, healthy>>
    BY <1>2 DEF AttemptRejected
  <2> QED
    BY <2>1, CopiesGrow, EndsStep
<1>3. CASE AttemptFailed(c)
  <2>1. /\ pc[c] = "attempt" /\ copies' \in {copies, [copies EXCEPT ![c] = @ + 1]}
        /\ UNCHANGED <<attempt, healthy>>
    BY <1>3 DEF AttemptFailed
  <2>2. CASE Ends(c, "failed")
    BY <2>1, <2>2, CopiesGrow, EndsStep
  <2>3. CASE /\ attempt[c] < Retries
             /\ pc' = [pc EXCEPT ![c] = "wait"]
             /\ UNCHANGED <<result, state, failures, admitted, fresh>>
    <3>1. /\ pc' \in [Callers -> {"idle", "attempt", "wait"}] /\ pc'[c] = "wait"
          /\ \A d \in Callers \ {c} : pc'[d] = pc[d]
      BY <2>3 DEF IInv, TypeOK
    <3>2. /\ copies' \in [Callers -> 0..(Retries + 1)] /\ copies'[c] <= attempt[c] + 1
          /\ \A d \in Callers \ {c} : copies'[d] = copies[d]
      BY <2>1, CopiesGrow
    <3>3. BreakerOK' /\ BreakerInv'
      BY <2>3 DEF IInv, TypeOK, BreakerOK, BreakerInv
    <3>4. TypeOK'
      BY <2>1, <2>3, <3>1, <3>2, <3>3, TypeParts DEF IInv, TypeOK
    <3>5. CallInv(c)'
      BY <2>1, <2>3, <3>1, <3>2 DEF IInv, CallInv
    <3>6. ASSUME NEW d \in Callers, d # c PROVE CallInv(d)'
      BY <2>1, <2>3, <3>1, <3>2, <3>6, OtherCalls
    <3> QED
      BY <3>3, <3>4, <3>5, <3>6 DEF IInv
  <2> QED
    BY <1>3, <2>2, <2>3 DEF AttemptFailed
<1>4. CASE WaitOver(c)
  <2>1. /\ pc[c] = "wait" /\ pc' = [pc EXCEPT ![c] = "attempt"]
        /\ attempt' = [attempt EXCEPT ![c] = @ + 1]
        /\ UNCHANGED <<copies, result, state, failures, admitted, fresh, healthy>>
    BY <1>4 DEF WaitOver
  <2>2. attempt[c] < Retries /\ attempt[c] \in 0..Retries /\ Retries \in Nat
    BY <2>1, GuestyAssumption DEF IInv, TypeOK, CallInv
  <2>3. /\ pc' \in [Callers -> {"idle", "attempt", "wait"}]
        /\ attempt' \in [Callers -> 0..Retries]
        /\ pc'[c] = "attempt" /\ attempt'[c] = attempt[c] + 1
        /\ \A d \in Callers \ {c} : pc'[d] = pc[d] /\ attempt'[d] = attempt[d]
    BY <2>1, <2>2 DEF IInv, TypeOK
  <2>4. BreakerOK' /\ BreakerInv'
    BY <2>1 DEF IInv, TypeOK, BreakerOK, BreakerInv
  <2>5. TypeOK'
    BY <2>1, <2>3, <2>4, TypeParts DEF IInv, TypeOK
  <2>6. CallInv(c)'
    BY <2>1, <2>3 DEF IInv, CallInv
  <2>7. ASSUME NEW d \in Callers, d # c PROVE CallInv(d)'
    BY <2>1, <2>3, <2>7, OtherCalls
  <2> QED
    BY <2>4, <2>5, <2>6, <2>7 DEF IInv
<1>5. CASE WaitCancelled(c)
  <2>1. /\ pc[c] = "wait" /\ Ends(c, "failed") /\ UNCHANGED <<attempt, copies, healthy>>
    BY <1>5 DEF WaitCancelled
  <2>2. copies' \in [Callers -> 0..(Retries + 1)] /\ copies'[c] <= attempt[c] + 1
    BY <2>1 DEF IInv, TypeOK, CallInv
  <2> QED
    BY <2>1, <2>2, EndsStep
<1> QED
  BY <1>1, <1>2, <1>3, <1>4, <1>5 DEF InCall

(* The breaker's timers and Guesty's health change no call.                *)
LEMMA EnvironmentStep ==
    ASSUME IInv, OpenTimeout \/ ClosedInterval \/ Outage \/ UNCHANGED vars
    PROVE  IInv'
<1>1. UNCHANGED <<pc, attempt, copies, result>>
  BY DEF OpenTimeout, ClosedInterval, Outage, vars
<1>2. healthy' \in BOOLEAN
  BY DEF IInv, TypeOK, OpenTimeout, ClosedInterval, Outage, vars
<1>3. NewGeneration("half") \/ NewGeneration("closed") \/ UNCHANGED breaker
  BY DEF OpenTimeout, ClosedInterval, Outage, vars, breaker
<1>4. BreakerOK' /\ BreakerInv'
  <2>1. CASE UNCHANGED breaker
    BY <2>1 DEF IInv, TypeOK, BreakerOK, BreakerInv, breaker
  <2> QED
    BY <1>3, <2>1, NewGenerationStep
<1>5. TypeOK'
  BY <1>1, <1>2, <1>4, TypeParts DEF IInv, TypeOK
<1>6. \A c \in Callers : CallInv(c)'
  BY <1>1 DEF IInv, CallInv
<1> QED
  BY <1>4, <1>5, <1>6 DEF IInv

-----------------------------------------------------------------------------
(* The retry loop and the breaker keep to their invariants, whatever the   *)
(* interleaving of calls, timers and outages.                              *)
THEOREM Invariance == Spec => []IInv
<1>1. Init => IInv
  <2> SUFFICES ASSUME Init PROVE IInv
    OBVIOUS
  <2>1. TypeOK
    BY GuestyAssumption DEF Init, TypeOK, Results
  <2>2. BreakerInv /\ \A c \in Callers : CallInv(c)
    BY DEF Init, BreakerInv, CallInv
  <2> QED
    BY <2>1, <2>2 DEF IInv
<1>2. IInv /\ [Next]_vars => IInv'
  BY DoStep, DoRefusedStep, InCallStep, EnvironmentStep DEF Next
<1> QED
  BY <1>1, <1>2, PTL DEF Spec

(* However many callers wait for Guesty to come back, a half-open breaker  *)
(* has one of them out as its probe, and its counts stay within the trip   *)
(* threshold and the retries.                                              *)
THEOREM OneProbeAtATime == Spec => []ProbeInv
<1>1. IInv => ProbeInv
  <2> SUFFICES ASSUME IInv, state = "half" PROVE Cardinality(fresh) <= 1
    BY DEF IInv, ProbeInv, OneProbe
  <2>1. CASE fresh = {}
    <3>1. Cardinality(fresh) = 0
      BY <2>1, FS_EmptySet
    <3> QED
      BY <3>1
  <2>2. CASE fresh # {}
    <3>1. PICK c : fresh = {c}
      BY <2>2 DEF IInv, BreakerInv
    <3>2. Cardinality({c}) = 1
      BY FS_Singleton
    <3> QED
      BY <3>1, <3>2
  <2> QED
    BY <2>1, <2>2
<1> QED
  BY <1>1, Invariance, PTL

(* What a caller of PostNote or CreateReservation may conclude: success    *)
(* means that Guesty has the request, at most once per attempt, and        *)
(* ErrCircuitOpen that nothing was sent.                                   *)
THEOREM ResultsMeanWhatTheySay == Spec => []ResultMeans
<1>1. IInv => ResultMeans
  <2> SUFFICES ASSUME IInv, NEW c \in Callers
               PROVE  /\ result[c] = "ok" => copies[c] \in 1..(attempt[c] + 1)
                      /\ result[c] = "circuitOpen" => copies[c] = 0
    BY DEF ResultMeans
  <2>1. /\ CallInv(c) /\ copies[c] \in 0..(Retries + 1) /\ attempt[c] \in 0..Retries
        /\ pc[c] \in {"idle", "attempt", "wait"} /\ Retries \in Nat
    BY GuestyAssumption DEF IInv, TypeOK
  <2> QED
    BY <2>1 DEF CallInv
<1> QED
  BY <1>1, Invariance, PTL

-----------------------------------------------------------------------------
(***************************************************************************)
(* The budget watcher, for any callers, costs, cap and number of days.     *)
(*                                                                         *)
(* The difficulty is the gap between the unlock in tally and the trip: a   *)
(* caller may carry a bucket's trip across later calls, flips and          *)
(* midnights.  TripInv follows each trip from the moment the flag is set;  *)
(* it is stated with quantifiers over callers, and only the last step      *)
(* turns it into the cardinality that Pending counts.                      *)
(***************************************************************************)

(* Days after the bucket's are unbilled, so a new bucket starts from zero. *)
BillInv ==
    /\ BucketIsTheDay
    /\ \A d \in Days : d > day => billed[d] = 0

(* A bucket's trip is carried by one caller or done, and only once its     *)
(* flag is set: the flag of the current bucket, or of an earlier one.      *)
TripInv ==
    \A d \in Days :
        /\ darkened[d] \in {0, 1}
        /\ \A c1, c2 \in Payers : tripping[c1] = d /\ tripping[c2] = d => c1 = c2
        /\ darkened[d] = 1 => \A c \in Payers : tripping[c] # d
        /\ (darkened[d] = 1 \/ \E c \in Payers : tripping[c] = d) =>
               d < day \/ (d = day /\ tripped)

(* A tripped bucket is dark, about to be, or overruled by the operator.    *)
DarkInv ==
    (day # Unset /\ tripped) =>
        ~auto \/ (\E c \in Payers : tripping[c] = day) \/ last.by = "operator"

BudgetIInv == BudgetTypeOK /\ BillInv /\ TripInv /\ DarkInv

-----------------------------------------------------------------------------
(* What the configuration gives the toggle at start-up is well typed.      *)
LEMMA ConfigTyped == Config \in Setters /\ Default \in BOOLEAN
  BY BudgetAssumption DEF Config, Setters

(* The watcher starts with an empty bucket and the configured toggle.      *)
LEMMA BudgetInitEstablishes == BudgetInit => BudgetIInv
<1> SUFFICES ASSUME BudgetInit PROVE BudgetIInv
  OBVIOUS
<1>1. BudgetTypeOK
  <2>1. 1 \in Days /\ MaxCalls \in Nat /\ MaxFlips \in Nat /\ MaxRestarts \in Nat
    BY BudgetAssumption DEF Days
  <2>2. last \in Setters /\ auto \in BOOLEAN
    BY ConfigTyped DEF BudgetInit
  <2>3. today \in Days /\ day = Unset /\ day <= today
    BY <2>1 DEF BudgetInit, Unset
  <2>4. calls \in 0..MaxCalls /\ flips \in 0..MaxFlips /\ restarts \in 0..MaxRestarts
    BY <2>1 DEF BudgetInit
  <2> QED
    BY <2>2, <2>3, <2>4 DEF BudgetInit, BudgetTypeOK
<1>2. BillInv /\ TripInv /\ DarkInv
  BY DEF BudgetInit, BillInv, BucketIsTheDay, TripInv, DarkInv, Days, Unset
<1> QED
  BY <1>1, <1>2 DEF BudgetIInv

(* tally: the bucket restarts on a new day, and the caller that brings it  *)
(* to the cap is the only one told to trip.                                *)
LEMMA TallyStep ==
    ASSUME BudgetIInv, NEW c \in Payers, NEW cost \in Costs, Tally(c, cost)
    PROVE  BudgetIInv'
<1> DEFINE spentNow == (IF day = today THEN spent ELSE 0) + cost
           trippedBefore == tripped /\ day = today
           shouldTrip == CapUSD > 0 /\ ~trippedBefore /\ spentNow >= CapUSD
<1>1. /\ cost \in Nat /\ CapUSD \in Int /\ MaxCalls \in Nat
      /\ today \in Days /\ today # Unset /\ day <= today
      /\ day \in Days \cup {Unset} /\ day \in Int /\ today \in Int
      /\ Days \subseteq Int /\ Unset = 0 /\ Unset \notin Days
  BY BudgetAssumption DEF BudgetIInv, BudgetTypeOK, Days, Unset
<1>2. /\ calls < MaxCalls /\ calls' = calls + 1
      /\ tripping[c] = Unset
      /\ day' = today /\ spent' = spentNow
      /\ tripped' = (trippedBefore \/ shouldTrip)
      /\ tripping' = [tripping EXCEPT ![c] = IF shouldTrip THEN today ELSE Unset]
      /\ billed' = [billed EXCEPT ![today] = @ + cost]
      /\ UNCHANGED <<today, auto, flips, restarts, darkened, last>>
  BY DEF Tally
<1>3. spentNow \in Nat /\ spentNow = billed[today] + cost
  <2>1. CASE day = today
    BY <1>1, <2>1 DEF BudgetIInv, BudgetTypeOK, BillInv, BucketIsTheDay
  <2>2. CASE day # today
    BY <1>1, <2>2 DEF BudgetIInv, BudgetTypeOK, BillInv
  <2> QED
    BY <2>1, <2>2
<1>4. shouldTrip \in BOOLEAN /\ trippedBefore \in BOOLEAN
  OBVIOUS
<1>5. day = today /\ tripped => CapUSD > 0 /\ billed[today] >= CapUSD
  BY <1>1 DEF BudgetIInv, BillInv, BucketIsTheDay
<1>6. trippedBefore \/ shouldTrip <=> CapUSD > 0 /\ spentNow >= CapUSD
  BY <1>1, <1>3, <1>5 DEF BudgetIInv, BudgetTypeOK
<1> HIDE DEF spentNow, shouldTrip
<1>7. BudgetTypeOK'
  <2>1. tripping' \in [Payers -> Days \cup {Unset}]
    BY <1>1, <1>2, <1>4 DEF BudgetIInv, BudgetTypeOK
  <2>2. billed' \in [Days -> Nat]
    BY <1>1, <1>2 DEF BudgetIInv, BudgetTypeOK
  <2>3. calls' \in 0..MaxCalls
    BY <1>1, <1>2 DEF BudgetIInv, BudgetTypeOK
  <2>4. tripped' \in BOOLEAN
    BY <1>2
  <2> QED
    BY <1>1, <1>2, <1>3, <2>1, <2>2, <2>3, <2>4 DEF BudgetIInv, BudgetTypeOK
<1>8. BillInv'
  <2>1. billed'[today] = spentNow
    BY <1>1, <1>2, <1>3 DEF BudgetIInv, BudgetTypeOK
  <2>2. \A d \in Days : d > today => billed'[d] = 0
    BY <1>1, <1>2 DEF BudgetIInv, BudgetTypeOK, BillInv
  <2>3. BucketIsTheDay'
    BY <1>2, <1>6, <2>1 DEF BucketIsTheDay
  <2> QED
    BY <1>2, <2>2, <2>3 DEF BillInv
<1>9. TripInv'
  <2> SUFFICES ASSUME NEW d \in Days
               PROVE  /\ darkened[d] \in {0, 1}
                      /\ \A c1, c2 \in Payers : tripping'[c1] = d /\ tripping'[c2] = d => c1 = c2
                      /\ darkened[d] = 1 => \A x \in Payers : tripping'[x] # d
                      /\ (darkened[d] = 1 \/ \E x \in Payers : tripping'[x] = d) =>
                             d < today \/ (d = today /\ (trippedBefore \/ shouldTrip))
    BY <1>2 DEF TripInv
  <2>1. /\ darkened[d] \in {0, 1}
        /\ \A c1, c2 \in Payers : tripping[c1] = d /\ tripping[c2] = d => c1 = c2
        /\ darkened[d] = 1 => \A x \in Payers : tripping[x] # d
        /\ (darkened[d] = 1 \/ \E x \in Payers : tripping[x] = d) =>
               d < day \/ (d = day /\ tripped)
    BY DEF BudgetIInv, TripInv
  <2>2. \A x \in Payers : tripping'[x] = IF x = c THEN (IF shouldTrip THEN today ELSE Unset)
                                                  ELSE tripping[x]
    BY <1>2 DEF BudgetIInv, BudgetTypeOK
  <2>3. CASE shouldTrip /\ d = today
    <3>1. darkened[d] # 1 /\ \A x \in Payers : tripping[x] # d
      BY <1>1, <2>1, <2>3 DEF shouldTrip
    <3> QED
      BY <1>1, <2>1, <2>2, <2>3, <3>1
  <2>4. CASE ~shouldTrip \/ d # today
    <3>1. tripping'[c] # d
      BY <1>1, <2>2, <2>4
    <3> QED
      BY <1>1, <2>1, <2>2, <3>1
  <2> QED
    BY <2>3, <2>4
<1>10. DarkInv'
  <2>1. CASE shouldTrip
    <3>1. tripping'[c] = day'
      BY <1>2, <2>1 DEF BudgetIInv, BudgetTypeOK
    <3> QED
      BY <3>1 DEF DarkInv
  <2>2. CASE ~shouldTrip /\ tripped'
    <3>1. tripped /\ day = today
      BY <1>2, <2>2
    <3>2. ~auto \/ (\E x \in Payers : tripping[x] = day) \/ last.by = "operator"
      BY <1>1, <3>1 DEF BudgetIInv, DarkInv
    <3>3. ASSUME NEW x \in Payers, tripping[x] = day PROVE tripping'[x] = day'
      BY <1>1, <1>2, <3>1, <3>3 DEF BudgetIInv, BudgetTypeOK
    <3> QED
      BY <1>2, <3>2, <3>3 DEF DarkInv
  <2> QED
    BY <2>1, <2>2 DEF DarkInv
<1> QED
  BY <1>7, <1>8, <1>9, <1>10 DEF BudgetIInv

(* trip: the caller hands its bucket's trip over to darkened.              *)
LEMMA TripStep ==
    ASSUME BudgetIInv, NEW c \in Payers, Trip(c)
    PROVE  BudgetIInv'
<1>1. /\ tripping[c] \in Days /\ Unset \notin Days
      /\ auto' = FALSE /\ last' = Watcher(tripping[c])
      /\ tripping' = [tripping EXCEPT ![c] = Unset]
      /\ darkened' = [darkened EXCEPT ![tripping[c]] = @ + 1]
      /\ UNCHANGED <<today, day, spent, tripped, calls, flips, restarts, billed>>
  BY DEF BudgetIInv, BudgetTypeOK, Trip, SetAutoResponse, Days, Unset
<1>2. BudgetTypeOK'
  <2>1. last' \in Setters
    BY <1>1 DEF Watcher, Setters
  <2>2. tripping' \in [Payers -> Days \cup {Unset}] /\ darkened' \in [Days -> Nat]
    BY <1>1 DEF BudgetIInv, BudgetTypeOK
  <2> QED
    BY <1>1, <2>1, <2>2 DEF BudgetIInv, BudgetTypeOK
<1>3. BillInv'
  BY <1>1 DEF BudgetIInv, BillInv, BucketIsTheDay
<1>4. TripInv'
  <2> SUFFICES ASSUME NEW d \in Days
               PROVE  /\ darkened'[d] \in {0, 1}
                      /\ \A c1, c2 \in Payers : tripping'[c1] = d /\ tripping'[c2] = d => c1 = c2
                      /\ darkened'[d] = 1 => \A x \in Payers : tripping'[x] # d
                      /\ (darkened'[d] = 1 \/ \E x \in Payers : tripping'[x] = d) =>
                             d < day \/ (d = day /\ tripped)
    BY <1>1 DEF TripInv
  <2>1. /\ darkened[d] \in {0, 1}
        /\ \A c1, c2 \in Payers : tripping[c1] = d /\ tripping[c2] = d => c1 = c2
        /\ darkened[d] = 1 => \A x \in Payers : tripping[x] # d
        /\ (darkened[d] = 1 \/ \E x \in Payers : tripping[x] = d) =>
               d < day \/ (d = day /\ tripped)
    BY DEF BudgetIInv, TripInv
  <2>2. \A x \in Payers : tripping'[x] = IF x = c THEN Unset ELSE tripping[x]
    BY <1>1 DEF BudgetIInv, BudgetTypeOK
  <2>3. darkened'[d] = IF d = tripping[c] THEN darkened[d] + 1 ELSE darkened[d]
    BY <1>1 DEF BudgetIInv, BudgetTypeOK
  <2> QED
    BY <1>1, <2>1, <2>2, <2>3
<1>5. DarkInv'
  BY <1>1 DEF DarkInv
<1> QED
  BY <1>2, <1>3, <1>4, <1>5 DEF BudgetIInv

-----------------------------------------------------------------------------
(* The invariant: what is billed, who carries a trip, and why a tripped    *)
(* bucket may still find the toggle on.                                    *)
THEOREM BudgetInvariance == BudgetSpec => []BudgetIInv
<1>1. BudgetIInv /\ [BudgetNext]_budgetVars => BudgetIInv'
  <2> SUFFICES ASSUME BudgetIInv, [BudgetNext]_budgetVars PROVE BudgetIInv'
    OBVIOUS
  <2>1. ASSUME NEW on \in BOOLEAN, AdminSetAutoResponse(on) PROVE BudgetIInv'
    <3>1. BudgetTypeOK'
      <4>1. last' \in Setters /\ auto' \in BOOLEAN
        BY <2>1 DEF AdminSetAutoResponse, SetAutoResponse, Operator, Setters
      <4>2. flips' \in 0..MaxFlips
        BY <2>1, BudgetAssumption DEF BudgetIInv, BudgetTypeOK, AdminSetAutoResponse
      <4> QED
        BY <2>1, <4>1, <4>2 DEF BudgetIInv, BudgetTypeOK, AdminSetAutoResponse
    <3>2. BillInv' /\ TripInv'
      BY <2>1 DEF BudgetIInv, BillInv, BucketIsTheDay, TripInv, AdminSetAutoResponse
    <3>3. DarkInv'
      BY <2>1 DEF DarkInv, AdminSetAutoResponse, SetAutoResponse, Operator
    <3> QED
      BY <3>1, <3>2, <3>3 DEF BudgetIInv
  <2>2. CASE Midnight
    <3>1. BudgetTypeOK'
      BY <2>2, BudgetAssumption DEF BudgetIInv, BudgetTypeOK, Midnight, Days, Unset
    <3>2. BillInv' /\ TripInv' /\ DarkInv'
      BY <2>2 DEF BudgetIInv, BillInv, BucketIsTheDay, TripInv, DarkInv, Midnight
    <3> QED
      BY <3>1, <3>2 DEF BudgetIInv
  <2>3. CASE Restart
    <3>1. BudgetTypeOK'
      <4>1. restarts' \in 0..MaxRestarts
        BY <2>3, BudgetAssumption DEF BudgetIInv, BudgetTypeOK, Restart
      <4>2. last' \in Setters /\ auto' \in BOOLEAN
        BY <2>3, ConfigTyped DEF Restart
      <4>3. today' \in Days /\ day' = Unset /\ day' <= today'
        BY <2>3 DEF BudgetIInv, BudgetTypeOK, Restart, Days, Unset
      <4> QED
        BY <2>3, <4>1, <4>2, <4>3 DEF BudgetIInv, BudgetTypeOK, Restart
    <3>2. BillInv' /\ TripInv' /\ DarkInv'
      BY <2>3 DEF BillInv, BucketIsTheDay, TripInv, DarkInv, Restart, Days, Unset
    <3> QED
      BY <3>1, <3>2 DEF BudgetIInv
  <2>4. CASE UNCHANGED budgetVars
    BY <2>4 DEF BudgetIInv, BudgetTypeOK, BillInv, BucketIsTheDay, TripInv, DarkInv, budgetVars
  <2> QED
    BY <2>1, <2>2, <2>3, <2>4, TallyStep, TripStep DEF BudgetNext
<1> QED
  BY <1>1, BudgetInitEstablishes, PTL DEF BudgetSpec

(* The watcher's bucket holds exactly what this process paid on its day,   *)
(* and its flag is set exactly at the cap (tally).                         *)
THEOREM BucketCorrect == BudgetSpec => []BucketInv
<1>1. BudgetIInv => BucketInv
  BY DEF BudgetIInv, BillInv, BucketInv
<1> QED
  BY <1>1, BudgetInvariance, PTL

(* Pending counts no caller, or the one that carries the trip.             *)
LEMMA PendingIsOneCaller ==
    ASSUME BudgetIInv, NEW d \in Days
    PROVE  \/ Pending(d) = 0 /\ \A c \in Payers : tripping[c] # d
           \/ Pending(d) = 1 /\ \E c \in Payers : tripping[c] = d
<1> DEFINE S == {c \in Payers : tripping[c] = d}
<1>1. CASE S = {}
  BY <1>1, FS_EmptySet DEF Pending
<1>2. CASE S # {}
  <2>1. PICK c \in S : TRUE
    BY <1>2
  <2>2. S = {c}
    BY <2>1 DEF BudgetIInv, TripInv
  <2>3. Cardinality({c}) = 1
    BY FS_Singleton
  <2> QED
    BY <2>1, <2>2, <2>3 DEF Pending
<1> QED
  BY <1>1, <1>2

(* However many callers pass the cap together, and however late they run   *)
(* trip, each bucket is tripped by one of them and once.                   *)
THEOREM OneTripEach == BudgetSpec => []OneTripPerBucket
<1>1. BudgetIInv => OneTripPerBucket
  <2> SUFFICES ASSUME BudgetIInv, NEW d \in Days PROVE darkened[d] + Pending(d) <= 1
    BY DEF OneTripPerBucket
  <2>1. darkened[d] \in {0, 1} /\ (darkened[d] = 1 => \A c \in Payers : tripping[c] # d)
    BY DEF BudgetIInv, TripInv
  <2> QED
    BY <2>1, PendingIsOneCaller
<1> QED
  BY <1>1, BudgetInvariance, PTL

(* A bucket at its cap leaves auto-response on only while its trip is on   *)
(* the way or after the operator turned it on again.                       *)
THEOREM OverCapGoesDark == BudgetSpec => []OverCapIsDark
<1>1. BudgetIInv => OverCapIsDark
  <2> SUFFICES ASSUME BudgetIInv, CapUSD > 0, day # Unset, billed[day] >= CapUSD
               PROVE  ~auto \/ Pending(day) > 0 \/ last.by = "operator"
    BY DEF OverCapIsDark
  <2>1. day \in Days /\ tripped
    BY DEF BudgetIInv, BudgetTypeOK, BillInv, BucketIsTheDay
  <2>2. ~auto \/ (\E c \in Payers : tripping[c] = day) \/ last.by = "operator"
    BY <2>1 DEF BudgetIInv, DarkInv
  <2> QED
    BY <2>1, <2>2, PendingIsOneCaller
<1> QED
  BY <1>1, BudgetInvariance, PTL
=============================================================================
