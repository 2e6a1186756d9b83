------------------------------ MODULE MCParts ------------------------------
(* Four parts of the server for TLC, one of them in each behaviour.  They  *)
(* share no state, so a behaviour of the server is, seen from one of them, *)
(* a behaviour of that part alone; the other three stay as they start.     *)
(*                                                                         *)
(* The Guesty client: three callers, two attempts a call and a breaker     *)
(* that opens after two failures in a row, so that calls of an older       *)
(* generation end while a probe is out.  The production value (5 failures) *)
(* only makes the way to the open state longer.                            *)
(* The budget watcher: two callers, so that both can pass the cap before   *)
(* either trips, three days, so that a trip can be a bucket late, and      *)
(* enough calls to reach the cap on each of two days.                      *)
(* Conversion tracking, on either store: two reservations, two concurrent  *)
(* webhook handlers, three auto-replies and three confirmations, so that a *)
(* reservation is handled again after its conversion and confirmed more    *)
(* often than there are handlers.                                          *)
(* The agent loop: two listings, one of them the turn's or none known, a   *)
(* budget of two rounds with up to two tool calls in each.                 *)
EXTENDS GuestyClient, Budget, Conversions, Generator

VARIABLE part    \* the part that moves: "client", "budget", "conversions", "generator"

partVars == <<vars, budgetVars, conversionsVars, generatorVars, part>>

(* What a part that does not move starts from is of no interest: of its    *)
(* initial states one is taken.                                            *)
PartInit ==
    /\ part \in {"client", "budget", "conversions", "generator"}
    /\ Init /\ BudgetInit /\ ConversionsInit /\ GeneratorInit
    /\ part # "client" => healthy
    /\ part # "conversions" => ledger = "file" /\ arg = CHOOSE a \in [Handlers -> Reservations] : TRUE
    /\ part # "generator" => expected = Unresolved

Client == part = "client" /\ Next
             /\ UNCHANGED <<budgetVars, conversionsVars, generatorVars, part>>
Budgeting == part = "budget" /\ BudgetNext
             /\ UNCHANGED <<vars, conversionsVars, generatorVars, part>>
Converting == part = "conversions" /\ ConversionsNext
             /\ UNCHANGED <<vars, budgetVars, generatorVars, part>>
Generating == part = "generator" /\ GeneratorNext
             /\ UNCHANGED <<vars, budgetVars, conversionsVars, part>>

(* Paid calls and webhooks come to their bounds; the client and the agent  *)
(* loop must never get stuck.                                              *)
BoundsReached == part \in {"budget", "conversions"} /\ UNCHANGED partVars

PartNext == Client \/ Budgeting \/ Converting \/ Generating \/ BoundsReached

(* The fairness of GuestyClient!FairSpec, in the behaviours of the client. *)
PartSpec ==
    /\ PartInit
    /\ [][PartNext]_partVars
    /\ \A c \in Callers :
          /\ WF_vars(part = "client" /\ InCall(c))
          /\ WF_vars(part = "client" /\ (Do(c) \/ DoRefused(c)))
    /\ WF_vars(part = "client" /\ OpenTimeout)
=============================================================================
