----------------------------- MODULE Generator -----------------------------
(***************************************************************************)
(* The generator's agent loop (internal/application/generatereply): chat   *)
(* with the model, run the tools it asks for, feed the results back, until *)
(* it answers or the budget of turns is spent; then one reflection call.   *)
(*                                                                         *)
(* The model may ask for any tool with any arguments, repeat itself, or    *)
(* answer at once; a chat or a tool call may fail at any point, also       *)
(* because the context of the whole call has expired.  A hold that failed  *)
(* may have been placed all the same: the answer was lost.  Prompts and    *)
(* tool results are left out, the arguments of a request are the listing   *)
(* it names and whether the rest of it parses.                             *)
(***************************************************************************)
EXTENDS Gates, Sequences, FiniteSets

CONSTANTS Listings,
          Unresolved,    \* Input.ListingID = ""
          Inputs,        \* the values of Input.ListingID to consider
          MaxTurns,      \* LLM_AGENT_MAX_TURNS
          MaxParallel,   \* bound: tool calls in one message of the model
          Nothing        \* no result yet

ASSUME GeneratorAssumption ==
    /\ Unresolved \notin Listings
    /\ Inputs \subseteq Listings \cup {Unresolved}
    /\ MaxTurns \in Nat \ {0} /\ MaxParallel \in Nat
    /\ Nothing \notin Reply

ToolNames == Tools \cup {"get_listing", "get_conversation_history", "unknown"}
Requests == [name : ToolNames, listing : Listings, wellFormed : BOOLEAN]
Failed == [failed |-> TRUE]      \* Generate returned an error

VARIABLES expected, \* Input.ListingID of this call
          phase,    \* "chat", "tools", "reflect" or "done"
          turn,     \* rounds of the loop so far
          chats,    \* chats with the model so far
          asked,    \* tool calls of the last message, not run yet
          toolLog,  \* set of [name, ok], the records of the tools that ran
          holds,    \* listings with a reservation placed in Guesty by this call
          checked,  \* listings whose availability Guesty reported
          returned  \* what Generate returned

generatorVars == <<expected, phase, turn, chats, asked, toolLog, holds, checked, returned>>

GeneratorInit ==
    /\ expected \in Inputs
    /\ phase = "chat"
    /\ turn = 0
    /\ chats = 0
    /\ asked = <<>>
    /\ toolLog = {}
    /\ holds = {}
    /\ checked = {}
    /\ returned = Nothing

Returns(r) ==
    /\ phase' = "done"
    /\ returned' = r

(* usedSuccessfulTool: the names the validators find in UsedTools.         *)
usedSuccessfully == {name \in Tools : [name |-> name, ok |-> TRUE] \in toolLog}

(* callWithTools fails, or returns no choice.                              *)
ChatFails ==
    /\ phase = "chat"
    /\ chats' = chats + 1
    /\ Returns(Failed)
    /\ UNCHANGED <<expected, turn, asked, toolLog, holds, checked>>

(* A message without tool calls: parseFinal, the draft with the log of the *)
(* tools, or an error.  Of the draft only its promises matter here.        *)
ChatAnswers ==
    /\ phase = "chat"
    /\ chats' = chats + 1
    /\ \/ Returns(Failed)
       \/ \E abort, sells, promises \in BOOLEAN :
             Returns([abort |-> abort, confident |-> TRUE, badLength |-> FALSE,
                      hedges |-> FALSE, sells |-> sells, promisesHold |-> promises,
                      promisesChannel |-> FALSE, restricted |-> FALSE,
                      tools |-> usedSuccessfully])
    /\ UNCHANGED <<expected, turn, asked, toolLog, holds, checked>>

(* A message with tool calls.                                              *)
ChatAsks ==
    /\ phase = "chat"
    /\ chats' = chats + 1
    /\ \E n \in 1..MaxParallel : asked' \in [1..n -> Requests]
    /\ phase' = "tools"
    /\ UNCHANGED <<expected, turn, toolLog, holds, checked, returned>>

\* Mutant: the listing the model names is taken as it is.
rejectIfWrongListingNever(got) == FALSE

rejectIfWrongListing(got) == expected # Unresolved /\ got # expected

(* Whether runTool gets as far as calling Guesty.                          *)
Reaches(req) ==
    /\ req.name # "unknown"
    /\ req.wellFormed
    /\ req.name # "get_conversation_history" => ~rejectIfWrongListing(req.listing)

\* Mutant: the error of Guesty is logged and not put on the record.
LoggedAlways(req, ok) ==
    toolLog' = toolLog \cup {[name |-> req.name, ok |-> TRUE]}

Logged(req, ok) == toolLog' = toolLog \cup {[name |-> req.name, ok |-> ok]}

(* The loop goes on: the next tool, the next round, or the reflection.     *)
NextTool ==
    /\ asked' = Tail(asked)
    /\ IF Len(asked) > 1
         THEN UNCHANGED <<phase, turn>>
         ELSE /\ turn' = turn + 1
              /\ phase' = IF turn + 1 < MaxTurns THEN "chat" ELSE "reflect"

(* runTool: the record of a call that Guesty answered, or of one that was  *)
(* turned down before it or failed in it.                                  *)
RunToolOK ==
    LET req == Head(asked)
    IN  /\ phase = "tools"
        /\ Reaches(req)
        /\ Logged(req, TRUE)
        /\ holds' = IF req.name = "hold_reservation" THEN holds \cup {req.listing} ELSE holds
        /\ checked' = IF req.name = "check_availability" THEN checked \cup {req.listing}
                                                         ELSE checked
        /\ NextTool
        /\ UNCHANGED <<expected, chats, returned>>

RunToolError ==
    LET req == Head(asked)
    IN  /\ phase = "tools"
        /\ Logged(req, FALSE)
        /\ \/ UNCHANGED holds
           \/ /\ Reaches(req) /\ req.name = "hold_reservation"
              /\ holds' = holds \cup {req.listing}
        /\ NextTool
        /\ UNCHANGED <<expected, chats, checked, returned>>

(* reflectOnFailure: whatever its chat says, the reply carries the abort   *)
(* reason max_turns and the log of the tools.                              *)
ReflectOnFailure ==
    /\ phase = "reflect"
    /\ chats' = chats + 1
    /\ Returns([abort |-> TRUE, confident |-> FALSE, badLength |-> TRUE,
                hedges |-> FALSE, sells |-> FALSE, promisesHold |-> FALSE,
                promisesChannel |-> FALSE, restricted |-> FALSE,
                tools |-> usedSuccessfully])
    /\ UNCHANGED <<expected, turn, asked, toolLog, holds, checked>>

Generate ==
    \/ ChatFails
    \/ ChatAnswers
    \/ ChatAsks
    \/ RunToolOK
    \/ RunToolError
    \/ ReflectOnFailure

(* Generate is over; the orchestrator takes the result.                    *)
Done == phase = "done" /\ UNCHANGED generatorVars

GeneratorNext == Generate \/ Done

GeneratorSpec == GeneratorInit /\ [][GeneratorNext]_generatorVars

-----------------------------------------------------------------------------
Replied == returned \notin {Nothing, Failed}

(* Every variable holds a value of its type; the chats stay within the     *)
(* budget and the one reflection on top of it.                             *)
GeneratorTypeOK ==
    /\ expected \in Inputs
    /\ phase \in {"chat", "tools", "reflect", "done"}
    /\ turn \in 0..MaxTurns
    /\ chats \in 0..(MaxTurns + 1)
    /\ asked \in Seq(Requests)
    /\ toolLog \in SUBSET [name : ToolNames, ok : BOOLEAN]
    /\ holds \in SUBSET Listings
    /\ checked \in SUBSET Listings
    /\ Replied => returned \in Reply

(* README: "a commitment in the reply is backed by a Guesty-side state     *)
(* change".  A reply the validators let through that promises a hold has   *)
(* placed one, and one that sells certainty has seen the availability, of  *)
(* the listing this turn is about whenever that listing is known, whatever *)
(* else the model asked for on the way and however it went.                *)
Backed(listings) == IF expected = Unresolved THEN listings # {} ELSE expected \in listings

PromisesBacked ==
    Replied /\ ValidateReply(returned) = {} =>
        /\ returned.promisesHold => Backed(holds)
        /\ returned.sells => Backed(checked)

(* A model that never comes to an answer does not get a reply out: when    *)
(* the last round ended with tools, the draft is an abort.                 *)
ExhaustedAborts == Replied /\ turn = MaxTurns => returned.abort

(* No hold is placed on another listing than the one of this turn.         *)
HoldsOnThisListing == expected # Unresolved => holds \subseteq {expected}

(* A hold Guesty may have placed is on the log of the tools, as a success  *)
(* or as an error, also after a lost answer; every draft, the aborted one  *)
(* too, carries that log to the orchestrator.                              *)
HoldsLogged == holds # {} => \E rec \in toolLog : rec.name = "hold_reservation"

(* The loop: within its budget and aborted when that is spent, its holds   *)
(* on the turn's own listing (rejectIfWrongListing) and on the log.        *)
HoldInv == GeneratorTypeOK /\ ExhaustedAborts /\ HoldsOnThisListing /\ HoldsLogged
=============================================================================
