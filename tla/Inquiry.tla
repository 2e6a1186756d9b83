------------------------------ MODULE Inquiry ------------------------------
(***************************************************************************)
(* The orchestrator (internal/application/processinquiry/usecase.go):      *)
(* UseCase.Run for every turn the workers are handling at the same time.   *)
(*                                                                         *)
(* Run is straight-line code with early returns; a step of the model ends  *)
(* where the code reads or writes something another goroutine shares: the  *)
(* toggle, the conversation memory, the escalation store, the idempotency  *)
(* store, Guesty, or where it waits for a language model.  What a model    *)
(* answers is chosen from small sets.  The errors of Escalations.Record    *)
(* and Memory.Update are only logged: the record may be missing, Run goes  *)
(* on.  Idempotency.Complete is one too; completed says it was called.     *)
(***************************************************************************)
EXTENDS Gates, FiniteSets

CONSTANTS Turns,            \* turns that may be handed to Run
          Together,         \* the sets of turns that one behaviour hands to it
          Convs, ConvOf,    \* conversations, and the one of each turn
          Slots,            \* booking-critical entities: check-in, check-out, guests
          Classifications,  \* turn -> answers of the classifier
          Replies,          \* turn -> answers of the generator
          QualifierReplies, \* turn -> answers of the qualifier
          HasQualifier,     \* X1_AUTOREPLY_ENABLED
          None              \* no classification, reply or verdict yet

ASSUME ConvOfAssumption == ConvOf \in [Turns -> Convs] /\ Together \subseteq SUBSET Turns
ASSUME AnswersAssumption ==
    /\ Classifications \in [Turns -> SUBSET Classification]
    /\ Replies \in [Turns -> SUBSET Reply]
    /\ QualifierReplies \in [Turns -> SUBSET Reply]
    /\ HasQualifier \in BOOLEAN
    /\ None \notin Classification \cup Reply \cup Verdict

VARIABLES pc,        \* turn -> the next step of its Run
          auto,      \* the toggle auto_response_enabled
          prior,     \* turn -> KnownEntities as priorContext read them
          cls,       \* turn -> the classifier's answer
          found,     \* turn -> ExtractedEntities of that answer
          reply,     \* turn -> the draft
          verdict,   \* turn -> the critic's verdict
          reason,    \* turn -> reason of the escalation to raise
          close,     \* turn -> the escalation is followed by closeTurn
          raised,    \* turn -> reasons with which recordEscalation was called
          onRecord,  \* turns whose escalation the store has
          noted,     \* turns whose note Guesty stored
          acked,     \* turns whose PostNote returned nil
          managed,   \* turns passed to Conversions.MarkManaged
          mem,       \* conversation -> its memory record
          completed, \* turns whose LastPostID was completed
          darkSince  \* history: turns for which the toggle has been off ever
                     \* since their draft was ready

vars == <<pc, auto, prior, cls, found, reply, verdict, reason, close, raised,
          onRecord, noted, acked, managed, mem, completed, darkSince>>

Steps == {"detect", "kill", "context", "classify", "route", "qualify",
          "qualifierGate", "generate", "critic", "gate2", "post", "managed",
          "escalate", "memory", "complete", "done", "absent"}

Reasons ==
    {"prompt_injection_suspected", "auto_disabled", "commitment_needs_human",
     "classifier_failed", "qualifier_saturated", "qualifier_failed",
     "generator_failed", "risk_flag", "code_requires_human",
     "code_not_in_low_risk", "classifier_low_confidence", "generator_aborted",
     "generator_low_confidence", "reply_validation", "restricted_content",
     "post_note_failed"}

Record == [guest : SUBSET Turns,  \* turns whose guest messages are in Thread
           bot : SUBSET Turns,    \* turns whose bot reply is in Thread
           slots : SUBSET Slots]  \* KnownEntities

Init ==
    /\ \E handed \in Together :
         pc = [t \in Turns |-> IF t \in handed THEN "detect" ELSE "absent"]
    /\ auto \in BOOLEAN
    /\ prior = [t \in Turns |-> {}]
    /\ cls = [t \in Turns |-> None]
    /\ found = [t \in Turns |-> {}]
    /\ reply = [t \in Turns |-> None]
    /\ verdict = [t \in Turns |-> None]
    /\ reason = [t \in Turns |-> ""]
    /\ close = [t \in Turns |-> FALSE]
    /\ raised = [t \in Turns |-> {}]
    /\ onRecord = {}
    /\ noted = {}
    /\ acked = {}
    /\ managed = {}
    /\ mem = [c \in Convs |-> [guest |-> {}, bot |-> {}, slots |-> {}]]
    /\ completed = {}
    /\ darkSince = {}

-----------------------------------------------------------------------------
(* Where a Run goes next.                                                  *)
Go(t, step) ==
    /\ pc' = [pc EXCEPT ![t] = step]
    /\ UNCHANGED <<reason, close>>

(* recordEscalation(why) comes next, followed by closeTurn or, where the   *)
(* code skips the memory, by Idempotency.Complete alone.                   *)
Escalating(t, why, closing) ==
    /\ pc' = [pc EXCEPT ![t] = "escalate"]
    /\ reason' = [reason EXCEPT ![t] = why]
    /\ close' = [close EXCEPT ![t] = closing]

draft == <<prior, cls, found, reply, verdict>>
effects == <<raised, onRecord, noted, acked, managed, mem, completed>>

DetectInjection(t) ==
    /\ pc[t] = "detect"
    /\ \/ Go(t, "kill")
       \/ Escalating(t, "prompt_injection_suspected", FALSE)
    /\ UNCHANGED <<auto, draft, effects, darkSince>>

ShortCircuitKillSwitch(t) ==
    /\ pc[t] = "kill"
    /\ IF auto THEN Go(t, "context") ELSE Escalating(t, "auto_disabled", TRUE)
    /\ UNCHANGED <<auto, draft, effects, darkSince>>

(* priorContext reads the memory, commitmentHandoff looks for an offer the *)
(* guest accepts in what it read; whether there is one is left open.       *)
PriorContext(t) ==
    /\ pc[t] = "context"
    /\ prior' = [prior EXCEPT ![t] = mem[ConvOf[t]].slots]
    /\ \/ Go(t, "classify")
       \/ Escalating(t, "commitment_needs_human", TRUE)
    /\ UNCHANGED <<auto, cls, found, reply, verdict, effects, darkSince>>

(* Classify returns an answer; its two attempts end in one, or in an error. *)
Classify(t) ==
    \E c \in Classifications[t], s \in SUBSET Slots :
        /\ cls' = [cls EXCEPT ![t] = c]
        /\ found' = [found EXCEPT ![t] = s]

ClassifyOrEscalate(t) ==
    /\ pc[t] = "classify"
    /\ \/ Classify(t) /\ Go(t, "route")
       \/ /\ Escalating(t, "classifier_failed", FALSE)
          /\ UNCHANGED <<cls, found>>
    /\ UNCHANGED <<auto, prior, reply, verdict, effects, darkSince>>

qualifierSaturated(slots) == slots = Slots

\* Mutant: the swap of primary and secondary is computed and not used.
RouteUnswapped(t) ==
    LET c == cls[t]
        gate1 == PreGenerate(c, auto)
        qualifies == c.primary = "X1" /\ HasQualifier
    IN  /\ pc[t] = "route"
        /\ \/ /\ qualifies
              /\ qualifierSaturated(prior[t])
              /\ Escalating(t, "qualifier_saturated", TRUE)
           \/ /\ qualifies
              /\ ~qualifierSaturated(prior[t])
              /\ IF auto THEN Go(t, "qualify") ELSE Escalating(t, "auto_disabled", TRUE)
           \/ /\ ~qualifies
              /\ IF gate1 = "ok_to_generate" THEN Go(t, "generate")
                                             ELSE Escalating(t, gate1, TRUE)
        /\ UNCHANGED <<auto, draft, effects, darkSince>>

(* enforcePriority; then the X1 branch with its own look at the toggle, or *)
(* GATE 1.                                                                 *)
Route(t) ==
    LET c == EnforcePriority(cls[t])
        gate1 == PreGenerate(c, auto)
        qualifies == c.primary = "X1" /\ HasQualifier
    IN  /\ pc[t] = "route"
        /\ \/ /\ qualifies
              /\ qualifierSaturated(prior[t])
              /\ Escalating(t, "qualifier_saturated", TRUE)
           \/ /\ qualifies
              /\ ~qualifierSaturated(prior[t])
              /\ IF auto THEN Go(t, "qualify") ELSE Escalating(t, "auto_disabled", TRUE)
           \/ /\ ~qualifies
              /\ IF gate1 = "ok_to_generate" THEN Go(t, "generate")
                                             ELSE Escalating(t, gate1, TRUE)
        /\ cls' = [cls EXCEPT ![t] = c]
        /\ UNCHANGED <<auto, prior, found, reply, verdict, effects, darkSince>>

(* A language model answered: from here on darkSince watches the toggle.   *)
Drafted(t, r) ==
    /\ reply' = [reply EXCEPT ![t] = r]
    /\ darkSince' = IF auto THEN darkSince ELSE darkSince \cup {t}

(* Qualifier.Generate returns a reply.                                     *)
QualifierGenerate(t) == \E r \in QualifierReplies[t] : Drafted(t, r)

Qualify(t) ==
    /\ pc[t] = "qualify"
    /\ \/ QualifierGenerate(t) /\ Go(t, "qualifierGate")
       \/ /\ Escalating(t, "qualifier_failed", FALSE)
          /\ UNCHANGED <<reply, darkSince>>
    /\ UNCHANGED <<auto, prior, cls, found, verdict, effects>>

QualifierGate(t) ==
    LET final == DecideQualifier(reply[t], auto)
    IN  /\ pc[t] = "qualifierGate"
        /\ IF final = "ok" THEN Go(t, "post") ELSE Escalating(t, final, TRUE)
        /\ UNCHANGED <<auto, draft, effects, darkSince>>

GenerateOrEscalate(t) ==
    /\ pc[t] = "generate"
    /\ \/ \E r \in Replies[t] : Drafted(t, r) /\ Go(t, "critic")
       \/ /\ Escalating(t, "generator_failed", FALSE)
          /\ UNCHANGED <<reply, darkSince>>
    /\ UNCHANGED <<auto, prior, cls, found, verdict, effects>>

(* Critic.Review: a verdict of the model, or one of the failures it maps   *)
(* to failClosed.  A rejection carries one tag; several act like their     *)
(* strongest one.                                                          *)
Critic(t) ==
    /\ pc[t] = "critic"
    /\ \/ verdict' = [verdict EXCEPT ![t] = [pass |-> TRUE, issues |-> {}]]
       \/ \E tag \in criticBlockerTags \cup AdvisoryTags :
            verdict' = [verdict EXCEPT ![t] = [pass |-> FALSE, issues |-> {tag}]]
       \/ \E tag \in FailClosedTags :
            verdict' = [verdict EXCEPT ![t] = failClosed(tag)]
    /\ Go(t, "gate2")
    /\ UNCHANGED <<auto, prior, cls, found, reply, effects, darkSince>>

\* Mutant: GATE 2 trusts the toggle that GATE 1 saw on.
Gate2StaleToggle(t) ==
    LET issues == ValidateReply(reply[t]) \cup criticIssues(verdict[t])
        final == Decide(cls[t], reply[t], issues, TRUE)
    IN  /\ pc[t] = "gate2"
        /\ IF final = "ok" THEN Go(t, "post") ELSE Escalating(t, final, TRUE)
        /\ UNCHANGED <<auto, draft, effects, darkSince>>

\* Mutant: the return after the escalation is missing.
Gate2FallsThrough(t) ==
    LET issues == ValidateReply(reply[t]) \cup criticIssues(verdict[t])
        final == Decide(cls[t], reply[t], issues, auto)
    IN  /\ pc[t] = "gate2"
        /\ raised' = IF final = "ok" THEN raised ELSE [raised EXCEPT ![t] = {final}]
        /\ Go(t, "post")
        /\ UNCHANGED <<auto, draft, onRecord, noted, acked, managed, mem, completed, darkSince>>

Gate2(t) ==
    LET issues == ValidateReply(reply[t]) \cup criticIssues(verdict[t])
        final == Decide(cls[t], reply[t], issues, auto)
    IN  /\ pc[t] = "gate2"
        /\ IF final = "ok" THEN Go(t, "post") ELSE Escalating(t, final, TRUE)
        /\ UNCHANGED <<auto, draft, effects, darkSince>>

(***************************************************************************)
(* PostNote: acknowledged, or an error after which the note may or may not *)
(* be there: the answer of the last attempt, or of an earlier one the      *)
(* client retried, can be lost.                                            *)
(***************************************************************************)
PostNote(t) ==
    /\ pc[t] = "post"
    /\ \/ /\ noted' = noted \cup {t}
          /\ acked' = acked \cup {t}
          /\ Go(t, "managed")
       \/ /\ noted' \in {noted, noted \cup {t}}
          /\ Escalating(t, "post_note_failed", TRUE)
          /\ UNCHANGED acked
    /\ UNCHANGED <<auto, draft, raised, onRecord, managed, mem, completed, darkSince>>

MarkManaged(t) ==
    /\ pc[t] = "managed"
    /\ managed' = managed \cup {t}
    /\ Go(t, "memory")
    /\ UNCHANGED <<auto, draft, raised, onRecord, noted, acked, mem, completed, darkSince>>

(* recordEscalation: Escalations.Record stores the escalation or fails,    *)
(* which is logged; publishEscalation and the rest of Run follow anyway.   *)
RecordEscalation(t) ==
    /\ pc[t] = "escalate"
    /\ raised' = [raised EXCEPT ![t] = @ \cup {reason[t]}]
    /\ onRecord' \in {onRecord, onRecord \cup {t}}
    /\ Go(t, IF close[t] THEN "memory" ELSE "complete")
    /\ UNCHANGED <<auto, draft, noted, acked, managed, mem, completed, darkSince>>

(* What is known is kept unless the turn says something new.               *)
MergeEntities(base, incoming) == base \cup incoming

(* foldOverflow takes older entries out of a thread over its cap.  Which   *)
(* ones is the subject of ConversationMemory; here any may go.             *)
foldOverflow(r) ==
    [guest : SUBSET r.guest, bot : SUBSET r.bot, slots : {r.slots}]

(* applyMemoryUpdate, given whether the reply was sent: the records it may *)
(* leave.                                                                  *)
applyMemoryUpdate(r, t, sent) ==
    foldOverflow([guest |-> r.guest \cup {t},
                  bot |-> IF sent THEN r.bot \cup {t} ELSE r.bot,
                  slots |-> IF cls[t] = None THEN r.slots
                                             ELSE MergeEntities(r.slots, found[t])])

\* Mutant: the bot reply joins the thread whenever there is one.
CloseTurnMemoryUnsent(t) ==
    /\ pc[t] = "memory"
    /\ \/ \E r \in applyMemoryUpdate(mem[ConvOf[t]], t, reply[t] # None) :
            mem' = [mem EXCEPT ![ConvOf[t]] = r]
       \/ UNCHANGED mem
    /\ Go(t, "complete")
    /\ UNCHANGED <<auto, draft, raised, onRecord, noted, acked, managed, completed, darkSince>>

(* closeTurn, Memory.Update: atomic under the store's lock, or failed.     *)
(* sent is true exactly when the turn comes from MarkManaged.              *)
CloseTurnMemory(t) ==
    /\ pc[t] = "memory"
    /\ \/ \E r \in applyMemoryUpdate(mem[ConvOf[t]], t, t \in managed) :
            mem' = [mem EXCEPT ![ConvOf[t]] = r]
       \/ UNCHANGED mem
    /\ Go(t, "complete")
    /\ UNCHANGED <<auto, draft, raised, onRecord, noted, acked, managed, completed, darkSince>>

Complete(t) ==
    /\ pc[t] = "complete"
    /\ completed' = completed \cup {t}
    /\ Go(t, "done")
    /\ UNCHANGED <<auto, draft, raised, onRecord, noted, acked, managed, mem, darkSince>>

(* An operator, or the budget watcher, flips the kill-switch at any time.  *)
SetAutoResponse(on) ==
    /\ auto' = on
    /\ darkSince' = IF on THEN {} ELSE darkSince
    /\ UNCHANGED <<pc, draft, reason, close, effects>>

Run(t) ==
    \/ DetectInjection(t)
    \/ ShortCircuitKillSwitch(t)
    \/ PriorContext(t)
    \/ ClassifyOrEscalate(t)
    \/ Route(t)
    \/ Qualify(t)
    \/ QualifierGate(t)
    \/ GenerateOrEscalate(t)
    \/ Critic(t)
    \/ Gate2(t)
    \/ PostNote(t)
    \/ MarkManaged(t)
    \/ RecordEscalation(t)
    \/ CloseTurnMemory(t)
    \/ Complete(t)

Next ==
    \/ \E t \in Turns : Run(t)
    \/ \E on \in BOOLEAN : SetAutoResponse(on)

Spec == Init /\ [][Next]_vars

-----------------------------------------------------------------------------
(* Every variable holds a value of its type.                               *)
TypeOK ==
    /\ pc \in [Turns -> Steps]
    /\ auto \in BOOLEAN
    /\ prior \in [Turns -> SUBSET Slots]
    /\ cls \in [Turns -> Classification \cup {None}]
    /\ found \in [Turns -> SUBSET Slots]
    /\ reply \in [Turns -> Reply \cup {None}]
    /\ verdict \in [Turns -> Verdict \cup {None}]
    /\ reason \in [Turns -> Reasons \cup {""}]
    /\ close \in [Turns -> BOOLEAN]
    /\ raised \in [Turns -> SUBSET Reasons]
    /\ onRecord \in SUBSET Turns
    /\ noted \in SUBSET Turns
    /\ acked \in SUBSET Turns
    /\ managed \in SUBSET Turns
    /\ mem \in [Convs -> Record]
    /\ completed \in SUBSET Turns
    /\ darkSince \in SUBSET Turns

(* Every Run that ends has either had its note acknowledged or raised      *)
(* exactly one escalation, never both and never neither, over all the      *)
(* early returns and error paths of Run, qualifyAndSend and gateAndSend;   *)
(* only what was raised is on record.                                      *)
Sent(t) == t \in acked
Escalated(t) == raised[t] # {}

OneOutcomePerRun ==
    \A t \in Turns :
        /\ ~(Sent(t) /\ Escalated(t))
        /\ Cardinality(raised[t]) <= 1
        /\ pc[t] = "done" => Sent(t) \/ Escalated(t)
        /\ t \in onRecord => Escalated(t)

(* The post is completed in the idempotency store only once Run has its    *)
(* outcome, so a crash in between leaves the turn open rather than lost.   *)
CompletedMeansHandled ==
    \A t \in completed : Sent(t) \/ Escalated(t)

(* The ends of Run: one outcome per turn, reached before the claim is      *)
(* completed, over every early return of Run, qualifyAndSend, gateAndSend. *)
(* "Sent" is the code's view, PostNote returned nil, and "Escalated" that  *)
(* Record was called; NeverBoth is about what Guesty and the store have.   *)
OutcomeInv == TypeOK /\ OneOutcomePerRun /\ CompletedMeansHandled

(* shortCircuitKillSwitch's comment names the invariant "every turn lands  *)
(* in exactly one of {auto-send, escalation}".  Of what Guesty and the     *)
(* escalation store have, the code does not keep it: a note that was       *)
(* stored though PostNote failed is escalated too.                         *)
NeverBoth == \A t \in Turns : ~(t \in noted /\ t \in onRecord)

(* What reaches Guesty passed the gates, whatever the concurrent turns and *)
(* the toggle did: no human-only code as primary or secondary, a confident,*)
(* unhedged reply without restricted content, and on the closer path a     *)
(* confident classification without risk, no uncovered promise and no      *)
(* price quoted without an availability check; and no critic rejected the  *)
(* reply for a tag of criticBlockerTags.  A rejection for any other tag    *)
(* does not stop the reply, see FailClosedEscalates.                       *)
ReplySafe(r) == ~r.abort /\ r.confident /\ ~r.badLength /\ ~r.hedges /\ ~r.restricted

CloserSafe(c, r) ==
    /\ c.confident /\ ~c.risk
    /\ ~r.promisesChannel
    /\ r.promisesHold => "hold_reservation" \in r.tools
    /\ r.sells => "check_availability" \in r.tools

SentPassedGates ==
    \A t \in noted :
        /\ {cls[t].primary, cls[t].secondary} \cap AlwaysEscalateCodes = {}
        /\ ReplySafe(reply[t])
        /\ CloserSafe(cls[t], reply[t]) \/ (cls[t].primary = "X1" /\ HasQualifier)
        /\ verdict[t] # None /\ ~verdict[t].pass =>
               verdict[t].issues \cap criticBlockerTags = {}

(* failClosed of the critic: "Pass=false guarantees the orchestrator       *)
(* escalates rather than auto-sending a reply whose quality the critic     *)
(* never assessed".  It does not: criticIssues keeps only the blocker tags *)
(* and the tags of a failed critic are none of them.                       *)
FailClosedEscalates ==
    \A t \in noted : verdict[t] # None => verdict[t].issues \cap FailClosedTags = {}

(* The thread remembers a bot reply only if Guesty acknowledged it: a      *)
(* rejected or failed draft never becomes context of the next turn.        *)
MemoryMatchesDelivery ==
    \A t \in Turns : t \in mem[ConvOf[t]].bot => t \in acked

(* The kill-switch is read again after the language models: a draft that   *)
(* was finished in the dark is not posted while it stays dark.             *)
ToggleReadAfterDraft ==
    \A t \in Turns : pc[t] = "post" => t \notin darkSince
=============================================================================
