------------------------------- MODULE Gates -------------------------------
(***************************************************************************)
(* The deterministic auto-send rules: the Traffic Light codes and their    *)
(* priority (internal/domain/classification.go), GATE 1, GATE 2, the reply *)
(* validators (internal/application/decide) and the critic filter of the   *)
(* orchestrator.  Every operator is a pure function.                       *)
(*                                                                         *)
(* Confidences are compared with one threshold each, so a classification   *)
(* and a reply say only whether they reach it.  A reply's text is what the *)
(* regular expressions see in it: a record of Booleans.                    *)
(***************************************************************************)
EXTENDS Integers

Codes == {"G1", "G2", "Y1", "Y2", "Y3", "Y4", "Y5", "Y6", "Y7", "R1", "R2", "X1"}
NoCode == "none"    \* SecondaryCode = nil

LowRiskCodes == {"G1", "G2", "Y1", "Y3", "Y4", "Y6", "Y7"}

AlwaysEscalateCodes == {"Y2", "Y5", "R1", "R2"}

(* Lower is more important; a code the table does not know ranks last.     *)
priorityRank(c) ==
    CASE c = "R1" -> 0  [] c = "R2" -> 1  [] c = "Y5" -> 2  [] c = "Y2" -> 3
      [] c = "Y4" -> 4  [] c = "Y1" -> 5  [] c = "Y3" -> 6  [] c = "Y6" -> 7
      [] c = "Y7" -> 8  [] c = "G1" -> 9  [] c = "G2" -> 10 [] c = "X1" -> 11
      [] OTHER -> 12

Classification ==
    [primary : Codes, secondary : Codes \cup {NoCode},
     confident : BOOLEAN,    \* Confidence >= ClassifierMin
     risk : BOOLEAN]         \* RiskFlag

(* The two codes are swapped when the secondary outranks the primary.      *)
EnforcePriority(cls) ==
    IF cls.secondary # NoCode /\ priorityRank(cls.secondary) < priorityRank(cls.primary)
      THEN [cls EXCEPT !.primary = cls.secondary, !.secondary = cls.primary]
      ELSE cls

-----------------------------------------------------------------------------
Tools == {"check_availability", "hold_reservation"}

Reply ==
    [abort : BOOLEAN,           \* AbortReason # ""
     confident : BOOLEAN,       \* Confidence >= GeneratorMin
     badLength : BOOLEAN,       \* outside the path's rune window
     hedges : BOOLEAN,          \* hedgingPattern
     sells : BOOLEAN,           \* CloserBeats.SellCertainty
     promisesHold : BOOLEAN,    \* holdCommitmentPattern
     promisesChannel : BOOLEAN, \* channelCommitmentPattern
     restricted : BOOLEAN,      \* RestrictedContentHits is not empty
     tools : SUBSET Tools]      \* tools that ran without an error

ValidateReply(r) ==
    IF r.abort
      THEN {"abort"}
      ELSE UNION {
             IF r.badLength THEN {"length_out_of_range"} ELSE {},
             IF r.hedges THEN {"hedging_language"} ELSE {},
             IF r.sells /\ "check_availability" \notin r.tools
               THEN {"sell_certainty_without_availability"} ELSE {},
             IF r.promisesHold /\ "hold_reservation" \notin r.tools
               THEN {"uncovered_commitment_hold"} ELSE {},
             IF r.promisesChannel THEN {"uncovered_commitment_channel"} ELSE {}}

ValidateQualifier(r) ==
    IF r.abort
      THEN {"abort"}
      ELSE UNION {
             IF r.badLength THEN {"length_out_of_range"} ELSE {},
             IF r.hedges THEN {"hedging_language"} ELSE {}}

(* A critic verdict: pass, or a set of issue tags.  Whatever goes wrong    *)
(* inside the critic comes back as pass = FALSE with a tag of its own.     *)
criticBlockerTags == {"hedging", "off_topic", "critic_uncertain"}
AdvisoryTags == {"missing_beat", "too_short"}
FailClosedTags == {"critic_call_failed", "critic_empty_response", "critic_schema_invalid"}
CriticTags == criticBlockerTags \cup AdvisoryTags \cup FailClosedTags

Verdict == [pass : BOOLEAN, issues : SUBSET CriticTags]

(* Review on failure: failClosed and failClosedWithRaw.                    *)
failClosed(tag) == [pass |-> FALSE, issues |-> {tag}]

(* Only blocker tags count against the reply.                              *)
criticIssues(v) == IF v.pass THEN {} ELSE v.issues \cap criticBlockerTags

-----------------------------------------------------------------------------
(* GATE 1; the decision is its Reason, AutoSend is Reason = ok_to_generate. *)
PreGenerate(cls, auto) ==
    IF ~auto THEN "auto_disabled"
    ELSE IF cls.risk THEN "risk_flag"
    ELSE IF cls.primary \in AlwaysEscalateCodes THEN "code_requires_human"
    ELSE IF cls.primary \notin LowRiskCodes THEN "code_not_in_low_risk"
    ELSE IF ~cls.confident THEN "classifier_low_confidence"
    ELSE "ok_to_generate"

(* GATE 2 of the closer path.                                              *)
Decide(cls, reply, issues, auto) ==
    IF ~auto THEN "auto_disabled"
    ELSE IF reply.abort THEN "generator_aborted"
    ELSE IF PreGenerate(cls, auto) # "ok_to_generate" THEN PreGenerate(cls, auto)
    ELSE IF ~reply.confident THEN "generator_low_confidence"
    ELSE IF issues # {} THEN "reply_validation"
    ELSE IF reply.restricted THEN "restricted_content"
    ELSE "ok"

(* GATE 2 of the qualifier path; the classification plays no part in it.   *)
DecideQualifier(reply, auto) ==
    IF ~auto THEN "auto_disabled"
    ELSE IF reply.abort THEN "generator_aborted"
    ELSE IF ValidateQualifier(reply) # {} THEN "reply_validation"
    ELSE IF ~reply.confident THEN "generator_low_confidence"
    ELSE IF reply.restricted THEN "restricted_content"
    ELSE "ok"
=============================================================================
