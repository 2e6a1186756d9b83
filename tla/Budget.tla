------------------------------- MODULE Budget -------------------------------
(***************************************************************************)
(* The LLM budget watcher and the toggle source                            *)
(* (internal/infrastructure/budget/watcher.go,                             *)
(* internal/infrastructure/togglesource/source.go), with the operator who  *)
(* flips the same toggle through the admin endpoint.                       *)
(*                                                                         *)
(* Record is called by every goroutine that talks to a language model.     *)
(* tally runs under the watcher's mutex; trip runs after the unlock, so a  *)
(* caller may sit between the two while others record, the operator acts   *)
(* or the day changes.  Days are numbered, money is counted in whole       *)
(* units; a call that failed or cost nothing leaves no trace and is left   *)
(* out, and so are the log, the counter and the event of a trip.           *)
(***************************************************************************)
EXTENDS Integers, FiniteSets

CONSTANTS Payers,    \* goroutines that call Record
          Costs,     \* costs of one call
          CapUSD,    \* daily cap; not positive: never trips
          Default,   \* AUTO_RESPONSE_ENABLED of the configuration
          MaxCalls,  \* bound: paid calls in one behaviour
          MaxDay,    \* bound: the last day
          MaxFlips,  \* bound: operator flips in one behaviour
          MaxRestarts \* bound: restarts in one behaviour

ASSUME BudgetAssumption ==
    /\ Costs \subseteq Nat \ {0}
    /\ CapUSD \in Int
    /\ Default \in BOOLEAN
    /\ {MaxCalls, MaxFlips, MaxRestarts} \subseteq Nat
    /\ MaxDay \in Nat \ {0}

Unset == 0           \* Watcher.day = "", and no trip pending
Days == 1..MaxDay

VARIABLES today,     \* the UTC date
          day, spent, tripped,  \* the watcher's bucket
          tripping,  \* caller -> bucket for which it is about to run trip
          auto,      \* the toggle
          calls, flips, restarts,
          billed,    \* history: day -> what this process paid on it
          darkened,  \* history: day -> trips run for its bucket
          last       \* history: who set the toggle last, see Setters

budgetVars == <<today, day, spent, tripped, tripping, auto, calls, flips, restarts,
                billed, darkened, last>>

(* Who sets the toggle: the watcher on behalf of a bucket, the operator,   *)
(* or the configuration at start-up.                                       *)
Watcher(d) == [by |-> "watcher", day |-> d]
Operator == [by |-> "operator", day |-> Unset]
Config == [by |-> "config", day |-> Unset]
Setters == [by : {"watcher", "operator", "config"}, day : Days \cup {Unset}]

BudgetInit ==
    /\ today = 1
    /\ day = Unset /\ spent = 0 /\ tripped = FALSE
    /\ tripping = [c \in Payers |-> Unset]
    /\ auto = Default
    /\ calls = 0 /\ flips = 0 /\ restarts = 0
    /\ billed = [d \in Days |-> 0]
    /\ darkened = [d \in Days |-> 0]
    /\ last = Config

\* Mutant: a new day keeps the tally of the old one.
TallyNoReset(c, cost) ==
    LET spentNow == spent + cost
        trippedBefore == tripped /\ day = today
        shouldTrip == CapUSD > 0 /\ ~trippedBefore /\ spentNow >= CapUSD
    IN  /\ calls < MaxCalls
        /\ calls' = calls + 1
        /\ tripping[c] = Unset
        /\ day' = today
        /\ spent' = spentNow
        /\ tripped' = (trippedBefore \/ shouldTrip)
        /\ tripping' = [tripping EXCEPT ![c] = IF shouldTrip THEN today ELSE Unset]
        /\ billed' = [billed EXCEPT ![today] = @ + cost]
        /\ UNCHANGED <<today, auto, flips, restarts, darkened, last>>

\* Mutant: the flag is not set under the lock, so every caller trips.
TallyFlagLate(c, cost) ==
    LET spentNow == (IF day = today THEN spent ELSE 0) + cost
        shouldTrip == CapUSD > 0 /\ spentNow >= CapUSD
    IN  /\ calls < MaxCalls
        /\ calls' = calls + 1
        /\ tripping[c] = Unset
        /\ day' = today
        /\ spent' = spentNow
        /\ tripped' = shouldTrip
        /\ tripping' = [tripping EXCEPT ![c] = IF shouldTrip THEN today ELSE Unset]
        /\ billed' = [billed EXCEPT ![today] = @ + cost]
        /\ UNCHANGED <<today, auto, flips, restarts, darkened, last>>

\* Mutant: the cap must be exceeded, reaching it is not enough.
TallyStrictCap(c, cost) ==
    LET spentNow == (IF day = today THEN spent ELSE 0) + cost
        trippedBefore == tripped /\ day = today
        shouldTrip == CapUSD > 0 /\ ~trippedBefore /\ spentNow > CapUSD
    IN  /\ calls < MaxCalls
        /\ calls' = calls + 1
        /\ tripping[c] = Unset
        /\ day' = today
        /\ spent' = spentNow
        /\ tripped' = (trippedBefore \/ shouldTrip)
        /\ tripping' = [tripping EXCEPT ![c] = IF shouldTrip THEN today ELSE Unset]
        /\ billed' = [billed EXCEPT ![today] = @ + cost]
        /\ UNCHANGED <<today, auto, flips, restarts, darkened, last>>

(* Record of a paid call: tally, one critical section.  The bucket starts  *)
(* afresh when the date differs from the one it was opened on.             *)
Tally(c, cost) ==
    LET spentNow == (IF day = today THEN spent ELSE 0) + cost
        trippedBefore == tripped /\ day = today
        shouldTrip == CapUSD > 0 /\ ~trippedBefore /\ spentNow >= CapUSD
    IN  /\ calls < MaxCalls
        /\ calls' = calls + 1
        /\ tripping[c] = Unset
        /\ day' = today
        /\ spent' = spentNow
        /\ tripped' = (trippedBefore \/ shouldTrip)
        /\ tripping' = [tripping EXCEPT ![c] = IF shouldTrip THEN today ELSE Unset]
        /\ billed' = [billed EXCEPT ![today] = @ + cost]
        /\ UNCHANGED <<today, auto, flips, restarts, darkened, last>>

(* SetAutoResponse: one critical section of the toggle source.             *)
SetAutoResponse(on, setter) ==
    /\ auto' = on
    /\ last' = setter

(* The rest of Record: trip, outside the watcher's mutex.                  *)
Trip(c) ==
    /\ tripping[c] # Unset
    /\ SetAutoResponse(FALSE, Watcher(tripping[c]))
    /\ tripping' = [tripping EXCEPT ![c] = Unset]
    /\ darkened' = [darkened EXCEPT ![tripping[c]] = @ + 1]
    /\ UNCHANGED <<today, day, spent, tripped, calls, flips, restarts, billed>>

(* POST /admin/auto-response.                                              *)
AdminSetAutoResponse(on) ==
    /\ flips < MaxFlips
    /\ flips' = flips + 1
    /\ SetAutoResponse(on, Operator)
    /\ UNCHANGED <<today, day, spent, tripped, tripping, calls, restarts, billed, darkened>>

(* The date changes; the watcher does not notice before the next Record.   *)
Midnight ==
    /\ today < MaxDay
    /\ today' = today + 1
    /\ UNCHANGED <<day, spent, tripped, tripping, auto, calls, flips, restarts,
                   billed, darkened, last>>

(* The process starts anew: bucket and toggle live in memory only.         *)
Restart ==
    /\ restarts < MaxRestarts
    /\ restarts' = restarts + 1
    /\ day' = Unset /\ spent' = 0 /\ tripped' = FALSE
    /\ tripping' = [c \in Payers |-> Unset]
    /\ auto' = Default
    /\ billed' = [d \in Days |-> 0]
    /\ darkened' = [d \in Days |-> 0]
    /\ last' = Config
    /\ UNCHANGED <<today, calls, flips>>

BudgetNext ==
    \/ \E c \in Payers, cost \in Costs : Tally(c, cost)
    \/ \E c \in Payers : Trip(c)
    \/ \E on \in BOOLEAN : AdminSetAutoResponse(on)
    \/ Midnight
    \/ Restart

BudgetSpec == BudgetInit /\ [][BudgetNext]_budgetVars

-----------------------------------------------------------------------------
(* Every variable holds a value of its type.                               *)
BudgetTypeOK ==
    /\ today \in Days
    /\ day \in Days \cup {Unset} /\ day <= today
    /\ spent \in Nat
    /\ tripped \in BOOLEAN
    /\ tripping \in [Payers -> Days \cup {Unset}]
    /\ auto \in BOOLEAN
    /\ calls \in 0..MaxCalls /\ flips \in 0..MaxFlips /\ restarts \in 0..MaxRestarts
    /\ billed \in [Days -> Nat]
    /\ darkened \in [Days -> Nat]
    /\ last \in Setters

(* The bucket holds exactly what the process paid on the bucket's day, and *)
(* is marked as tripped exactly when that reaches the cap, whatever the    *)
(* order of concurrent calls around midnight.                              *)
BucketIsTheDay ==
    day # Unset =>
        /\ spent = billed[day]
        /\ tripped <=> CapUSD > 0 /\ billed[day] >= CapUSD

(* The watcher's bucket: never ahead of the clock, and the spend of its day*)
(* (tally).                                                                *)
BucketInv == BudgetTypeOK /\ BucketIsTheDay

(* However many callers pass the cap together, a bucket is tripped once:   *)
(* by one caller that is about to do it or by one that has done it.  So an *)
(* operator who turns auto-response back on is not overruled a second time *)
(* (runbook: "will not re-trip until the NEXT day's cap is reached").      *)
Pending(d) == Cardinality({c \in Payers : tripping[c] = d})
OneTripPerBucket == \A d \in Days : darkened[d] + Pending(d) <= 1

(* A bucket at its cap leaves auto-response on only while the trip is on   *)
(* its way or because the operator turned it on; no restart comes between. *)
OverCapIsDark ==
    (CapUSD > 0 /\ day # Unset /\ billed[day] >= CapUSD) =>
        ~auto \/ Pending(day) > 0 \/ last.by = "operator"

=============================================================================
