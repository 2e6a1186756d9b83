--------------------------- MODULE InquiryProofs ---------------------------
(***************************************************************************)
(* Proofs about the orchestrator, for any number of turns running at the   *)
(* same time, any conversations and any answers of the language models.    *)
(*                                                                         *)
(* The properties speak of turns whose Run is over or whose note is        *)
(* stored; none of them is inductive.  TurnInv says what each program      *)
(* point of Run may rely on, and SharedInv relates what the turns share.   *)
(* A step of Run changes one turn only, so its effect on the others is     *)
(* settled once, by the lemma TurnFrame.                                   *)
(***************************************************************************)
EXTENDS Inquiry, FiniteSetTheorems, TLAPS

-----------------------------------------------------------------------------
(* The rules of module Gates, as the proofs use them.                      *)

(* priorityRank puts exactly the always-escalate codes below 4.            *)
LEMMA RankSeparates ==
    ASSUME NEW code \in Codes \cup {NoCode}
    PROVE  /\ priorityRank(code) \in 0..12
           /\ code \in AlwaysEscalateCodes <=> priorityRank(code) < 4
  BY DEF Codes, NoCode, priorityRank, AlwaysEscalateCodes

(* After enforcePriority a human-only code cannot hide in second place.    *)
LEMMA PriorityExposesHumanCodes ==
    ASSUME NEW c \in Classification
    PROVE  /\ EnforcePriority(c) \in Classification
           /\ EnforcePriority(c).primary \notin AlwaysEscalateCodes =>
                  EnforcePriority(c).secondary \notin AlwaysEscalateCodes
<1>1. /\ c.primary \in Codes
      /\ c.secondary \in Codes \cup {NoCode}
      /\ c.primary \in Codes \cup {NoCode}
  BY DEF Classification
<1>2. NoCode \notin AlwaysEscalateCodes
  BY DEF NoCode, AlwaysEscalateCodes
<1>3. CASE /\ c.secondary # NoCode
           /\ priorityRank(c.secondary) < priorityRank(c.primary)
  <2>1. /\ EnforcePriority(c) = [c EXCEPT !.primary = c.secondary, !.secondary = c.primary]
        /\ EnforcePriority(c) \in Classification
        /\ EnforcePriority(c).primary = c.secondary
        /\ EnforcePriority(c).secondary = c.primary
    BY <1>1, <1>3 DEF EnforcePriority, Classification
  <2> QED
    BY <1>1, <1>3, <2>1, RankSeparates
<1>4. CASE ~ (/\ c.secondary # NoCode
              /\ priorityRank(c.secondary) < priorityRank(c.primary))
  <2>1. EnforcePriority(c) = c
    BY <1>4 DEF EnforcePriority
  <2> QED
    BY <1>1, <1>2, <1>4, <2>1, RankSeparates
<1> QED
  BY <1>3, <1>4

(* GATE 1 answers with a reason to escalate, or it lets only low-risk,     *)
(* confident and unflagged classifications through, and only with the      *)
(* toggle on.                                                              *)
LEMMA PreGenerateMeans ==
    ASSUME NEW c \in Classification, NEW on \in BOOLEAN
    PROVE  /\ PreGenerate(c, on) # "ok_to_generate" => PreGenerate(c, on) \in Reasons
           /\ PreGenerate(c, on) # "ok"
           /\ PreGenerate(c, on) = "ok_to_generate" =>
                  /\ on /\ c.confident /\ ~c.risk
                  /\ c.primary \notin AlwaysEscalateCodes
  BY DEF PreGenerate, Reasons

(* GATE 2 of the closer path: "ok" means that every check passed.          *)
LEMMA DecideMeans ==
    ASSUME NEW c \in Classification, NEW r \in Reply, NEW on \in BOOLEAN, NEW issues
    PROVE  /\ Decide(c, r, issues, on) # "ok" => Decide(c, r, issues, on) \in Reasons
           /\ Decide(c, r, issues, on) = "ok" =>
                  /\ on /\ c.confident /\ ~c.risk
                  /\ c.primary \notin AlwaysEscalateCodes
                  /\ ~r.abort /\ r.confident /\ ~r.restricted
                  /\ issues = {}
<1> DEFINE p == PreGenerate(c, on)
<1>1. /\ p # "ok_to_generate" => p \in Reasons
      /\ p # "ok"
      /\ p = "ok_to_generate" =>
           on /\ c.confident /\ ~c.risk /\ c.primary \notin AlwaysEscalateCodes
  BY PreGenerateMeans
<1> HIDE DEF p
<1>2. Decide(c, r, issues, on) =
        IF ~on THEN "auto_disabled"
        ELSE IF r.abort THEN "generator_aborted"
        ELSE IF p # "ok_to_generate" THEN p
        ELSE IF ~r.confident THEN "generator_low_confidence"
        ELSE IF issues # {} THEN "reply_validation"
        ELSE IF r.restricted THEN "restricted_content"
        ELSE "ok"
  BY DEF Decide, p
<1> QED
  BY <1>1, <1>2 DEF Reasons

(* A closer draft without issues has the right length, does not hedge, and *)
(* its tools back what it promises.                                        *)
LEMMA ValidReplyMeans ==
    ASSUME NEW r \in Reply, ~r.abort, ValidateReply(r) = {}
    PROVE  /\ ~r.badLength /\ ~r.hedges /\ ~r.promisesChannel
           /\ r.promisesHold => "hold_reservation" \in r.tools
           /\ r.sells => "check_availability" \in r.tools
  BY DEF ValidateReply

(* GATE 2 of the qualifier path.                                           *)
LEMMA DecideQualifierMeans ==
    ASSUME NEW r \in Reply, NEW on \in BOOLEAN
    PROVE  /\ DecideQualifier(r, on) # "ok" => DecideQualifier(r, on) \in Reasons
           /\ DecideQualifier(r, on) = "ok" => on /\ ReplySafe(r)
<1>1. DecideQualifier(r, on) # "ok" => DecideQualifier(r, on) \in Reasons
  BY DEF DecideQualifier, Reasons
<1>2. ASSUME DecideQualifier(r, on) = "ok"
      PROVE  on /\ ReplySafe(r)
  <2>1. on /\ ~r.abort /\ ValidateQualifier(r) = {} /\ r.confident /\ ~r.restricted
    BY <1>2 DEF DecideQualifier
  <2>2. ~r.badLength /\ ~r.hedges
    BY <2>1 DEF ValidateQualifier
  <2> QED
    BY <2>1, <2>2 DEF ReplySafe
<1> QED
  BY <1>1, <1>2

-----------------------------------------------------------------------------
(* The inductive invariant.                                                *)

(* The program points before a Run has had any effect outside itself.      *)
Undecided == {"absent", "detect", "kill", "context", "classify", "route",
              "qualify", "qualifierGate", "generate", "critic", "gate2", "post"}

(* Exactly one outcome: acknowledged and nothing raised, or the converse.  *)
OneOutcome(t) ==
    \/ t \in acked /\ raised[t] = {}
    \/ t \notin acked /\ \E why \in Reasons : raised[t] = {why}

(* How far the outcome of the turn has come at each program point.         *)
OutcomeAt(t) ==
    /\ pc[t] \in Undecided => t \notin noted
    /\ pc[t] \in Undecided \cup {"escalate"} => t \notin acked /\ raised[t] = {}
    /\ pc[t] = "escalate" => reason[t] \in Reasons
    /\ pc[t] = "managed" => t \in acked /\ raised[t] = {}
    /\ pc[t] \in {"memory", "complete", "done"} => OneOutcome(t)
    /\ t \in completed => pc[t] = "done"
    /\ t \in managed => t \in acked
    /\ t \in onRecord => pc[t] \in {"memory", "complete", "done"} /\ raised[t] # {}

NoHumanCode(c) == {c.primary, c.secondary} \cap AlwaysEscalateCodes = {}

(* What SentPassedGates asks of one turn.                                   *)
SafeToPost(t) ==
    /\ NoHumanCode(cls[t])
    /\ ReplySafe(reply[t])
    /\ CloserSafe(cls[t], reply[t]) \/ (cls[t].primary = "X1" /\ HasQualifier)
    /\ verdict[t] # None /\ ~verdict[t].pass =>
           verdict[t].issues \cap criticBlockerTags = {}

(* What the draft has passed at each program point.                        *)
DraftAt(t) ==
    /\ pc[t] \in {"route", "qualify", "qualifierGate", "generate", "critic", "gate2"} =>
           cls[t] \in Classification
    /\ pc[t] \in {"qualify", "qualifierGate"} =>
           cls[t].primary = "X1" /\ HasQualifier /\ NoHumanCode(cls[t])
    /\ pc[t] \in {"generate", "critic", "gate2"} => NoHumanCode(cls[t])
    /\ pc[t] \in {"qualifierGate", "critic", "gate2"} => reply[t] \in Reply
    /\ pc[t] \in {"detect", "kill", "context", "classify", "route", "qualify",
                  "qualifierGate"} => verdict[t] = None
    /\ pc[t] = "gate2" => verdict[t] \in Verdict
    /\ pc[t] = "post" \/ t \in noted => SafeToPost(t)
    /\ pc[t] = "post" => t \notin darkSince

TurnInv(t) == OutcomeAt(t) /\ DraftAt(t)

(* No turn is dark while the toggle is on; a thread holds only the replies *)
(* that were acknowledged.                                                 *)
SharedInv ==
    /\ auto => darkSince = {}
    /\ \A c \in Convs : mem[c].bot \subseteq acked

IInv == TypeOK /\ SharedInv /\ \A t \in Turns : TurnInv(t)

-----------------------------------------------------------------------------
(* The turn u is as it was: nothing TurnInv(u) reads has changed, except   *)
(* that the toggle may have gone on and ended its darkness.                *)
Kept(u) ==
    /\ pc'[u] = pc[u] /\ reason'[u] = reason[u]
    /\ cls'[u] = cls[u] /\ reply'[u] = reply[u] /\ verdict'[u] = verdict[u]
    /\ raised'[u] = raised[u]
    /\ u \in onRecord' <=> u \in onRecord
    /\ u \in noted' <=> u \in noted
    /\ u \in acked' <=> u \in acked
    /\ u \in managed' <=> u \in managed
    /\ u \in completed' <=> u \in completed
    /\ u \in darkSince' => u \in darkSince

(* A step of another turn leaves the invariant of this one alone.          *)
LEMMA TurnFrame ==
    ASSUME NEW u \in Turns, TurnInv(u), Kept(u)
    PROVE  TurnInv(u)'
<1>1. OutcomeAt(u)'
  BY DEF TurnInv, Kept, OutcomeAt, OneOutcome
<1>2. SafeToPost(u)' <=> SafeToPost(u)
  BY DEF Kept, SafeToPost
<1>3. DraftAt(u)'
  BY <1>2 DEF TurnInv, Kept, DraftAt
<1> QED
  BY <1>1, <1>3 DEF TurnInv

(* A step of Run(t) leaves every other turn as it was.                     *)
LEMMA RunTouchesOneTurn ==
    ASSUME TypeOK, NEW t \in Turns, Run(t), NEW u \in Turns, u # t
    PROVE  Kept(u)
<1>0. /\ DOMAIN pc = Turns /\ DOMAIN reason = Turns /\ DOMAIN raised = Turns
      /\ DOMAIN cls = Turns /\ DOMAIN reply = Turns /\ DOMAIN verdict = Turns
  BY DEF TypeOK
<1> USE <1>0 DEF Kept, Go, Escalating, draft, effects
<1>1. CASE DetectInjection(t)
  BY <1>1 DEF DetectInjection
<1>2. CASE ShortCircuitKillSwitch(t)
  BY <1>2 DEF ShortCircuitKillSwitch
<1>3. CASE PriorContext(t)
  BY <1>3 DEF PriorContext
<1>4. CASE ClassifyOrEscalate(t)
  BY <1>4 DEF ClassifyOrEscalate, Classify
<1>5. CASE Route(t)
  BY <1>5 DEF Route
<1>6. CASE Qualify(t)
  BY <1>6 DEF Qualify, QualifierGenerate, Drafted
<1>7. CASE QualifierGate(t)
  BY <1>7 DEF QualifierGate
<1>8. CASE GenerateOrEscalate(t)
  BY <1>8 DEF GenerateOrEscalate, Drafted
<1>9. CASE Critic(t)
  BY <1>9 DEF Critic
<1>10. CASE Gate2(t)
  BY <1>10 DEF Gate2
<1>11. CASE PostNote(t)
  BY <1>11 DEF PostNote
<1>12. CASE MarkManaged(t)
  BY <1>12 DEF MarkManaged
<1>13. CASE RecordEscalation(t)
  BY <1>13 DEF RecordEscalation
<1>14. CASE CloseTurnMemory(t)
  BY <1>14 DEF CloseTurnMemory
<1>15. CASE Complete(t)
  BY <1>15 DEF Complete
<1> QED
  BY <1>1, <1>2, <1>3, <1>4, <1>5, <1>6, <1>7, <1>8, <1>9, <1>10, <1>11,
     <1>12, <1>13, <1>14, <1>15 DEF Run

(* No turn has begun and the memory is empty.                              *)
LEMMA InitEstablishes == Init => IInv
<1> SUFFICES ASSUME Init PROVE IInv
  OBVIOUS
<1>1. /\ pc \in [Turns -> Steps]
      /\ \A t \in Turns : pc[t] \in {"detect", "absent"}
  BY DEF Init, Steps
<1>2. TypeOK
  BY <1>1 DEF Init, TypeOK, Record
<1>3. SharedInv
  BY DEF Init, SharedInv
<1>4. ASSUME NEW t \in Turns PROVE TurnInv(t)
  BY <1>1 DEF Init, TurnInv, OutcomeAt, DraftAt, Undecided
<1> QED
  BY <1>2, <1>3, <1>4 DEF IInv

(* TypeOK in the three groups of variables that a step changes or keeps.   *)
ControlOK ==
    /\ pc \in [Turns -> Steps]
    /\ reason \in [Turns -> Reasons \cup {""}]
    /\ close \in [Turns -> BOOLEAN]

DraftOK ==
    /\ prior \in [Turns -> SUBSET Slots]
    /\ cls \in [Turns -> Classification \cup {None}]
    /\ found \in [Turns -> SUBSET Slots]
    /\ reply \in [Turns -> Reply \cup {None}]
    /\ verdict \in [Turns -> Verdict \cup {None}]

EffectsOK ==
    /\ raised \in [Turns -> SUBSET Reasons]
    /\ onRecord \in SUBSET Turns
    /\ noted \in SUBSET Turns /\ acked \in SUBSET Turns
    /\ managed \in SUBSET Turns /\ completed \in SUBSET Turns
    /\ mem \in [Convs -> Record]

ToggleOK == auto \in BOOLEAN /\ darkSince \in SUBSET Turns

(* TypeOK in the parts that the steps change together.                     *)
LEMMA TypeParts == TypeOK <=> ControlOK /\ DraftOK /\ EffectsOK /\ ToggleOK
  BY DEF TypeOK, ControlOK, DraftOK, EffectsOK, ToggleOK

(* The same after a step.                                                  *)
LEMMA TypePartsNext == TypeOK' <=> ControlOK' /\ DraftOK' /\ EffectsOK' /\ ToggleOK'
  BY DEF TypeOK, ControlOK, DraftOK, EffectsOK, ToggleOK

(* The two ways a step moves its turn keep the control state well typed.   *)
LEMMA GoTyped ==
    ASSUME TypeOK, NEW t \in Turns, NEW step \in Steps, Go(t, step)
    PROVE  ControlOK' /\ pc'[t] = step
  BY DEF TypeOK, ControlOK, Go

(* What every path into recordEscalation sets.                             *)
LEMMA EscalatingTyped ==
    ASSUME TypeOK, NEW t \in Turns, NEW why \in Reasons, NEW closing \in BOOLEAN,
           Escalating(t, why, closing)
    PROVE  ControlOK' /\ pc'[t] = "escalate" /\ reason'[t] \in Reasons
<1>1. "escalate" \in Steps
  BY DEF Steps
<1>2. close' = [close EXCEPT ![t] = closing] => close' \in [Turns -> BOOLEAN]
  BY Zenon DEF TypeOK
<1> QED
  BY <1>1, <1>2 DEF TypeOK, ControlOK, Escalating

(* What a step of Run must show for the turn it belongs to.                *)
Preserved(t) == TypeOK' /\ SharedInv' /\ TurnInv(t)'

(* A turn that escalates before anything left the process, or after a      *)
(* post that was not acknowledged: only its note may be there.             *)
LEMMA EscalateStep ==
    ASSUME IInv, NEW t \in Turns, pc[t] \in Undecided,
           NEW why \in Reasons, NEW closing \in BOOLEAN, Escalating(t, why, closing),
           UNCHANGED <<raised, onRecord, acked, managed, completed>>,
           t \in noted' => SafeToPost(t)'
    PROVE  ControlOK' /\ TurnInv(t)'
<1>1. ControlOK' /\ pc'[t] = "escalate" /\ reason'[t] \in Reasons
  BY EscalatingTyped DEF IInv
<1>2. OutcomeAt(t)'
  BY <1>1 DEF IInv, TurnInv, OutcomeAt, Undecided
<1>3. DraftAt(t)'
  BY <1>1 DEF DraftAt
<1> QED
  BY <1>1, <1>2, <1>3 DEF TurnInv

(* A turn that moves to another undecided program point keeps its outcome  *)
(* open; what its draft passed is left to each step.                       *)
LEMMA MoveStep ==
    ASSUME IInv, NEW t \in Turns, pc[t] \in Undecided,
           NEW step \in Undecided \ {"absent"}, Go(t, step),
           UNCHANGED effects
    PROVE  ControlOK' /\ OutcomeAt(t)' /\ pc'[t] = step /\ t \notin noted'
<1>1. ControlOK' /\ pc'[t] = step
  <2>1. step \in Steps
    BY DEF Undecided, Steps
  <2> QED
    BY <2>1, GoTyped DEF IInv
<1>2. OutcomeAt(t)' /\ t \notin noted'
  BY <1>1 DEF IInv, TurnInv, OutcomeAt, Undecided, effects
<1> QED
  BY <1>1, <1>2

(* Where the effects are kept, so are their types and the threads.         *)
LEMMA EffectsKept ==
    ASSUME IInv, UNCHANGED effects, darkSince' = {} \/ ~auto' \/ UNCHANGED <<auto, darkSince>>
    PROVE  EffectsOK' /\ SharedInv'
  BY TypeParts DEF IInv, EffectsOK, SharedInv, effects

(* The steps before the draft: they only move the turn, or escalate it.    *)
LEMMA EarlySteps ==
    ASSUME IInv, NEW t \in Turns,
           DetectInjection(t) \/ ShortCircuitKillSwitch(t) \/ PriorContext(t)
    PROVE  Preserved(t)
<1>1. /\ UNCHANGED <<auto, cls, found, reply, verdict, effects, darkSince>>
      /\ \/ UNCHANGED prior
         \/ prior' = [prior EXCEPT ![t] = mem[ConvOf[t]].slots]
      /\ pc[t] \in {"detect", "kill", "context"}
      /\ \/ \E step \in {"kill", "context", "classify"} : Go(t, step)
         \/ \E why \in {"prompt_injection_suspected", "auto_disabled", "commitment_needs_human"},
               closing \in BOOLEAN : Escalating(t, why, closing)
  BY DEF DetectInjection, ShortCircuitKillSwitch, PriorContext, draft
<1>2. pc[t] \in Undecided /\ t \notin noted /\ verdict[t] = None
  BY <1>1 DEF IInv, TurnInv, OutcomeAt, DraftAt, Undecided
<1>3. mem[ConvOf[t]].slots \in SUBSET Slots
  BY ConvOfAssumption DEF IInv, TypeOK, Record
<1>4. DraftOK' /\ ToggleOK' /\ EffectsOK' /\ SharedInv'
  BY <1>1, <1>3, EffectsKept, TypeParts DEF IInv, DraftOK, ToggleOK
<1>5. ASSUME NEW step \in {"kill", "context", "classify"}, Go(t, step)
      PROVE  ControlOK' /\ TurnInv(t)'
  <2>1. ControlOK' /\ OutcomeAt(t)' /\ pc'[t] = step /\ t \notin noted'
    BY <1>1, <1>2, <1>5, MoveStep DEF Undecided
  <2>2. DraftAt(t)'
    BY <1>1, <1>2, <2>1 DEF DraftAt
  <2> QED
    BY <2>1, <2>2 DEF TurnInv
<1>6. ASSUME NEW why \in {"prompt_injection_suspected", "auto_disabled", "commitment_needs_human"},
             NEW closing \in BOOLEAN, Escalating(t, why, closing)
      PROVE  ControlOK' /\ TurnInv(t)'
  <2>1. why \in Reasons /\ t \notin noted' /\ UNCHANGED <<raised, onRecord, acked, managed, completed>>
    BY <1>1, <1>2 DEF Reasons, effects
  <2> QED
    BY <1>2, <1>6, <2>1, EscalateStep
<1> QED
  BY <1>1, <1>4, <1>5, <1>6, TypePartsNext DEF Preserved

(* The classifier: an escalation, or the classification and the next gate. *)
LEMMA ClassifyStep ==
    ASSUME IInv, NEW t \in Turns, ClassifyOrEscalate(t)
    PROVE  Preserved(t)
<1>1. /\ pc[t] = "classify"
      /\ UNCHANGED <<auto, prior, reply, verdict, effects, darkSince>>
  BY DEF ClassifyOrEscalate
<1>2. pc[t] \in Undecided /\ t \notin noted /\ verdict[t] = None
  BY <1>1 DEF IInv, TurnInv, OutcomeAt, DraftAt, Undecided
<1>3. ToggleOK' /\ EffectsOK' /\ SharedInv' /\ t \notin noted'
  BY <1>1, <1>2, EffectsKept, TypeParts DEF IInv, ToggleOK, effects
<1>4. CASE Classify(t) /\ Go(t, "route")
  <2>1. PICK c \in Classifications[t], s \in SUBSET Slots :
          cls' = [cls EXCEPT ![t] = c] /\ found' = [found EXCEPT ![t] = s]
    BY <1>4 DEF Classify
  <2>2. c \in Classification
    BY AnswersAssumption
  <2>3. DraftOK' /\ cls'[t] = c
    BY <1>1, <2>1, <2>2, TypeParts DEF IInv, DraftOK
  <2>4. ControlOK' /\ OutcomeAt(t)' /\ pc'[t] = "route" /\ t \notin noted'
    BY <1>1, <1>2, <1>4, MoveStep DEF Undecided
  <2>5. DraftAt(t)'
    BY <1>1, <1>2, <2>2, <2>3, <2>4 DEF DraftAt
  <2> QED
    BY <1>3, <2>3, <2>4, <2>5, TypePartsNext DEF Preserved, TurnInv
<1>5. CASE Escalating(t, "classifier_failed", FALSE) /\ UNCHANGED <<cls, found>>
  <2>1. "classifier_failed" \in Reasons /\ UNCHANGED <<raised, onRecord, acked, managed, completed>>
    BY <1>1 DEF Reasons, effects
  <2>2. ControlOK' /\ TurnInv(t)'
    BY <1>2, <1>3, <1>5, <2>1, EscalateStep
  <2>3. DraftOK'
    BY <1>1, <1>5, TypeParts DEF IInv, DraftOK
  <2> QED
    BY <1>3, <2>2, <2>3, TypePartsNext DEF Preserved
<1> QED
  BY <1>4, <1>5 DEF ClassifyOrEscalate

(* Route is where the priority rule and GATE 1 keep human-only codes off   *)
(* both drafting paths.                                                    *)
LEMMA RouteStep ==
    ASSUME IInv, NEW t \in Turns, Route(t)
    PROVE  Preserved(t)
<1> DEFINE c == EnforcePriority(cls[t])
           gate1 == PreGenerate(c, auto)
<1>1. /\ pc[t] = "route" /\ pc[t] \in Undecided
      /\ cls[t] \in Classification /\ auto \in BOOLEAN
      /\ t \notin noted /\ verdict[t] = None
  BY DEF Route, IInv, TypeOK, TurnInv, OutcomeAt, DraftAt, Undecided
<1>2. /\ c \in Classification
      /\ c.primary \notin AlwaysEscalateCodes => NoHumanCode(c)
  BY <1>1, PriorityExposesHumanCodes DEF NoHumanCode
<1>3. /\ gate1 # "ok_to_generate" => gate1 \in Reasons
      /\ gate1 = "ok_to_generate" => c.primary \notin AlwaysEscalateCodes
  BY <1>1, <1>2, PreGenerateMeans
<1>4. /\ cls' = [cls EXCEPT ![t] = c]
      /\ UNCHANGED <<auto, prior, found, reply, verdict, effects, darkSince>>
      /\ \/ \E why \in Reasons : Escalating(t, why, TRUE)
         \/ c.primary = "X1" /\ HasQualifier /\ Go(t, "qualify")
         \/ gate1 = "ok_to_generate" /\ Go(t, "generate")
  <2>1. {"qualifier_saturated", "auto_disabled"} \subseteq Reasons
    BY DEF Reasons
  <2> QED
    BY <1>3, <2>1 DEF Route
<1> HIDE DEF c, gate1
<1>5. DraftOK' /\ cls'[t] = c /\ verdict'[t] = None
  BY <1>1, <1>2, <1>4, TypeParts DEF IInv, DraftOK
<1>6. ToggleOK' /\ EffectsOK' /\ SharedInv' /\ t \notin noted'
  BY <1>1, <1>4, EffectsKept, TypeParts DEF IInv, ToggleOK, effects
<1>7. ASSUME NEW why \in Reasons, Escalating(t, why, TRUE)
      PROVE  ControlOK' /\ TurnInv(t)'
  <2>1. UNCHANGED <<raised, onRecord, acked, managed, completed>>
    BY <1>4 DEF effects
  <2> QED
    BY <1>1, <1>6, <1>7, <2>1, EscalateStep
<1>8. CASE c.primary = "X1" /\ HasQualifier /\ Go(t, "qualify")
  <2>1. ControlOK' /\ OutcomeAt(t)' /\ pc'[t] = "qualify"
    BY <1>1, <1>4, <1>8, MoveStep DEF Undecided
  <2>2. NoHumanCode(c)
    BY <1>2, <1>8 DEF AlwaysEscalateCodes
  <2>3. DraftAt(t)'
    BY <1>2, <1>5, <1>6, <1>8, <2>1, <2>2 DEF DraftAt
  <2> QED
    BY <1>5, <1>6, <2>1, <2>3, TypePartsNext DEF Preserved, TurnInv
<1>9. CASE gate1 = "ok_to_generate" /\ Go(t, "generate")
  <2>1. ControlOK' /\ OutcomeAt(t)' /\ pc'[t] = "generate"
    BY <1>1, <1>4, <1>9, MoveStep DEF Undecided
  <2>2. DraftAt(t)'
    BY <1>2, <1>3, <1>5, <1>6, <1>9, <2>1 DEF DraftAt
  <2> QED
    BY <1>5, <1>6, <2>1, <2>2, TypePartsNext DEF Preserved, TurnInv
<1> QED
  BY <1>4, <1>5, <1>6, <1>7, <1>8, <1>9, TypePartsNext DEF Preserved

(* A draft arrives from the generator or the qualifier; a turn drafted in  *)
(* the dark is remembered as such, and no other turn is.                   *)
LEMMA DraftStep ==
    ASSUME IInv, NEW t \in Turns, Qualify(t) \/ GenerateOrEscalate(t)
    PROVE  Preserved(t)
<1>1. /\ UNCHANGED <<auto, prior, cls, found, verdict, effects>>
      /\ pc[t] \in {"qualify", "generate"} /\ pc[t] \in Undecided
      /\ \/ \E r \in Replies[t] \cup QualifierReplies[t] :
              /\ Drafted(t, r)
              /\ \/ pc[t] = "qualify" /\ Go(t, "qualifierGate")
                 \/ pc[t] = "generate" /\ Go(t, "critic")
         \/ /\ \E why \in {"qualifier_failed", "generator_failed"} : Escalating(t, why, FALSE)
            /\ UNCHANGED <<reply, darkSince>>
  BY DEF Qualify, QualifierGenerate, GenerateOrEscalate, Undecided
<1>2. /\ t \notin noted /\ cls[t] \in Classification /\ NoHumanCode(cls[t])
      /\ pc[t] = "qualify" => verdict[t] = None /\ cls[t].primary = "X1" /\ HasQualifier
  BY <1>1 DEF IInv, TurnInv, OutcomeAt, DraftAt
<1>3. ToggleOK' /\ EffectsOK' /\ SharedInv' /\ t \notin noted'
  <2>1. darkSince' \in SUBSET Turns /\ (~auto' \/ UNCHANGED <<auto, darkSince>>)
    BY <1>1 DEF IInv, TypeOK, Drafted
  <2> QED
    BY <1>1, <1>2, <2>1, EffectsKept, TypeParts DEF IInv, ToggleOK, effects
<1>4. ASSUME NEW r \in Replies[t] \cup QualifierReplies[t], Drafted(t, r),
             \/ pc[t] = "qualify" /\ Go(t, "qualifierGate")
             \/ pc[t] = "generate" /\ Go(t, "critic")
      PROVE  DraftOK' /\ ControlOK' /\ TurnInv(t)'
  <2>1. r \in Reply
    BY AnswersAssumption
  <2>2. DraftOK' /\ reply'[t] = r
    BY <1>1, <1>4, <2>1, TypeParts DEF IInv, DraftOK, Drafted
  <2>3. CASE pc[t] = "qualify" /\ Go(t, "qualifierGate")
    <3>1. ControlOK' /\ OutcomeAt(t)' /\ pc'[t] = "qualifierGate"
      BY <1>1, <2>3, MoveStep DEF Undecided
    <3>2. DraftAt(t)'
      BY <1>1, <1>2, <1>3, <2>1, <2>2, <2>3, <3>1 DEF DraftAt
    <3> QED
      BY <2>2, <3>1, <3>2 DEF TurnInv
  <2>4. CASE pc[t] = "generate" /\ Go(t, "critic")
    <3>1. ControlOK' /\ OutcomeAt(t)' /\ pc'[t] = "critic"
      BY <1>1, <2>4, MoveStep DEF Undecided
    <3>2. DraftAt(t)'
      BY <1>1, <1>2, <1>3, <2>1, <2>2, <3>1 DEF DraftAt
    <3> QED
      BY <2>2, <3>1, <3>2 DEF TurnInv
  <2> QED
    BY <1>4, <2>3, <2>4
<1>5. ASSUME NEW why \in {"qualifier_failed", "generator_failed"},
             Escalating(t, why, FALSE), UNCHANGED <<reply, darkSince>>
      PROVE  DraftOK' /\ ControlOK' /\ TurnInv(t)'
  <2>1. why \in Reasons /\ UNCHANGED <<raised, onRecord, acked, managed, completed>>
    BY <1>1 DEF Reasons, effects
  <2>2. ControlOK' /\ TurnInv(t)'
    BY <1>1, <1>3, <1>5, <2>1, EscalateStep
  <2>3. DraftOK'
    BY <1>1, <1>5, TypeParts DEF IInv, DraftOK
  <2> QED
    BY <2>2, <2>3
<1> QED
  BY <1>1, <1>3, <1>4, <1>5, TypePartsNext DEF Preserved

(* The critic: its verdict, failed closed or open, before gate two.        *)
LEMMA CriticStep ==
    ASSUME IInv, NEW t \in Turns, Critic(t)
    PROVE  Preserved(t)
<1>1. /\ UNCHANGED <<auto, prior, cls, found, reply, effects, darkSince>>
      /\ pc[t] = "critic" /\ pc[t] \in Undecided /\ Go(t, "gate2")
      /\ \E v \in Verdict : verdict' = [verdict EXCEPT ![t] = v]
  <2>1. ASSUME NEW tag \in CriticTags, NEW pass \in BOOLEAN
        PROVE  /\ [pass |-> pass, issues |-> {tag}] \in Verdict
               /\ [pass |-> pass, issues |-> {}] \in Verdict
               /\ failClosed(tag) \in Verdict
    BY DEF Verdict, failClosed
  <2>2. criticBlockerTags \cup AdvisoryTags \cup FailClosedTags = CriticTags /\ "hedging" \in CriticTags
    BY DEF CriticTags, criticBlockerTags
  <2> QED
    BY <2>1, <2>2 DEF Critic, Undecided
<1>2. /\ t \notin noted /\ cls[t] \in Classification /\ NoHumanCode(cls[t])
      /\ reply[t] \in Reply
  BY <1>1 DEF IInv, TurnInv, OutcomeAt, DraftAt
<1>3. DraftOK' /\ verdict'[t] \in Verdict
  BY <1>1, TypeParts DEF IInv, DraftOK
<1>4. ToggleOK' /\ EffectsOK' /\ SharedInv'
  BY <1>1, EffectsKept, TypeParts DEF IInv, ToggleOK
<1>5. ControlOK' /\ OutcomeAt(t)' /\ pc'[t] = "gate2" /\ t \notin noted'
  BY <1>1, MoveStep DEF Undecided
<1>6. DraftAt(t)'
  BY <1>1, <1>2, <1>3, <1>5 DEF DraftAt
<1> QED
  BY <1>3, <1>4, <1>5, <1>6, TypePartsNext DEF Preserved, TurnInv

(* A turn that a gate lets through: its draft is safe and the toggle was   *)
(* on when the gate looked.                                                *)
LEMMA PassStep ==
    ASSUME IInv, NEW t \in Turns, pc[t] \in Undecided, Go(t, "post"),
           UNCHANGED <<auto, draft, effects, darkSince>>, auto, SafeToPost(t)
    PROVE  Preserved(t)
<1>1. ControlOK' /\ OutcomeAt(t)' /\ pc'[t] = "post" /\ t \notin noted'
  BY MoveStep DEF Undecided
<1>2. SafeToPost(t)' /\ t \notin darkSince'
  BY DEF IInv, SharedInv, SafeToPost, draft
<1>3. DraftAt(t)'
  BY <1>1, <1>2 DEF DraftAt
<1>4. DraftOK' /\ ToggleOK' /\ EffectsOK' /\ SharedInv'
  BY EffectsKept, TypeParts DEF IInv, DraftOK, ToggleOK, draft
<1> QED
  BY <1>1, <1>3, <1>4, TypePartsNext DEF Preserved, TurnInv

(* A turn that a gate stops.                                               *)
LEMMA StopStep ==
    ASSUME IInv, NEW t \in Turns, pc[t] \in Undecided,
           NEW why \in Reasons, Escalating(t, why, TRUE),
           UNCHANGED <<auto, draft, effects, darkSince>>
    PROVE  Preserved(t)
<1>1. t \notin noted' /\ UNCHANGED <<raised, onRecord, acked, managed, completed>>
  BY DEF IInv, TurnInv, OutcomeAt, effects
<1>2. ControlOK' /\ TurnInv(t)'
  BY <1>1, EscalateStep
<1>3. DraftOK' /\ ToggleOK' /\ EffectsOK' /\ SharedInv'
  BY EffectsKept, TypeParts DEF IInv, DraftOK, ToggleOK, draft
<1> QED
  BY <1>2, <1>3, TypePartsNext DEF Preserved

(* GATE 2 of the closer path: "ok" makes the draft safe to post.           *)
LEMMA Gate2Step ==
    ASSUME IInv, NEW t \in Turns, Gate2(t)
    PROVE  Preserved(t)
<1> DEFINE issues == ValidateReply(reply[t]) \cup criticIssues(verdict[t])
           final == Decide(cls[t], reply[t], issues, auto)
<1>1. /\ pc[t] = "gate2" /\ pc[t] \in Undecided
      /\ UNCHANGED <<auto, draft, effects, darkSince>>
      /\ IF final = "ok" THEN Go(t, "post") ELSE Escalating(t, final, TRUE)
  BY DEF Gate2, Undecided
<1>2. /\ cls[t] \in Classification /\ NoHumanCode(cls[t])
      /\ reply[t] \in Reply /\ verdict[t] \in Verdict /\ auto \in BOOLEAN
  BY <1>1 DEF IInv, TypeOK, TurnInv, DraftAt
<1>3. /\ final # "ok" => final \in Reasons
      /\ final = "ok" =>
           /\ auto /\ cls[t].confident /\ ~cls[t].risk
           /\ ~reply[t].abort /\ reply[t].confident /\ ~reply[t].restricted
           /\ issues = {}
  BY <1>2, DecideMeans
<1>4. CASE final = "ok"
  <2>1. ValidateReply(reply[t]) = {} /\ criticIssues(verdict[t]) = {}
    BY <1>3, <1>4
  <2>2. ReplySafe(reply[t]) /\ CloserSafe(cls[t], reply[t])
    BY <1>2, <1>3, <1>4, <2>1, ValidReplyMeans DEF ReplySafe, CloserSafe
  <2>3. ~verdict[t].pass => verdict[t].issues \cap criticBlockerTags = {}
    BY <2>1 DEF criticIssues
  <2>4. SafeToPost(t)
    BY <1>2, <2>2, <2>3 DEF SafeToPost
  <2> QED
    BY <1>1, <1>3, <1>4, <2>4, PassStep
<1>5. CASE final # "ok"
  <2> HIDE DEF final
  <2> QED
    BY <1>1, <1>3, <1>5, StopStep
<1> QED
  BY <1>4, <1>5

(* GATE 2 of the qualifier path, which sees neither the classification nor *)
(* a critic: what Route established must still hold.                       *)
LEMMA QualifierGateStep ==
    ASSUME IInv, NEW t \in Turns, QualifierGate(t)
    PROVE  Preserved(t)
<1> DEFINE final == DecideQualifier(reply[t], auto)
<1>1. /\ pc[t] = "qualifierGate" /\ pc[t] \in Undecided
      /\ UNCHANGED <<auto, draft, effects, darkSince>>
      /\ IF final = "ok" THEN Go(t, "post") ELSE Escalating(t, final, TRUE)
  BY DEF QualifierGate, Undecided
<1>2. /\ cls[t] \in Classification /\ NoHumanCode(cls[t])
      /\ cls[t].primary = "X1" /\ HasQualifier
      /\ reply[t] \in Reply /\ verdict[t] = None /\ auto \in BOOLEAN
  BY <1>1 DEF IInv, TypeOK, TurnInv, DraftAt
<1>3. /\ final # "ok" => final \in Reasons
      /\ final = "ok" => auto /\ ReplySafe(reply[t])
  BY <1>2, DecideQualifierMeans
<1> HIDE DEF final
<1>4. CASE final = "ok"
  <2>1. SafeToPost(t)
    BY <1>2, <1>3, <1>4 DEF SafeToPost
  <2> QED
    BY <1>1, <1>3, <1>4, <2>1, PassStep
<1>5. CASE final # "ok"
  BY <1>1, <1>3, <1>5, StopStep
<1> QED
  BY <1>4, <1>5

(* PostNote: acknowledged, or failed with the note stored or not.  The     *)
(* draft that was safe at "post" is the one that is stored.                *)
LEMMA PostStep ==
    ASSUME IInv, NEW t \in Turns, PostNote(t)
    PROVE  Preserved(t)
<1>1. /\ pc[t] = "post" /\ pc[t] \in Undecided
      /\ UNCHANGED <<auto, draft, raised, onRecord, managed, mem, completed, darkSince>>
      /\ noted' \in {noted, noted \cup {t}}
  BY DEF PostNote, Undecided
<1>2. /\ SafeToPost(t) /\ t \notin acked /\ raised[t] = {}
      /\ t \notin completed /\ t \notin onRecord
  BY <1>1 DEF IInv, TurnInv, OutcomeAt, DraftAt
<1>3. SafeToPost(t)'
  BY <1>1, <1>2 DEF SafeToPost, draft
<1>4. acked' \in {acked, acked \cup {t}}
  BY DEF PostNote
<1>5. DraftOK' /\ ToggleOK' /\ EffectsOK'
  BY <1>1, <1>4, TypeParts DEF IInv, DraftOK, ToggleOK, EffectsOK, draft
<1>6. SharedInv'
  BY <1>1, <1>4 DEF IInv, SharedInv
<1>7. CASE acked' = acked \cup {t} /\ Go(t, "managed")
  <2>1. ControlOK' /\ pc'[t] = "managed"
    BY <1>7, GoTyped DEF IInv, Steps
  <2>2. OutcomeAt(t)'
    BY <1>1, <1>2, <1>7, <2>1 DEF OutcomeAt, Undecided
  <2>3. DraftAt(t)'
    BY <1>3, <2>1 DEF DraftAt
  <2> QED
    BY <1>5, <1>6, <2>1, <2>2, <2>3, TypePartsNext DEF Preserved, TurnInv
<1>8. CASE Escalating(t, "post_note_failed", TRUE) /\ UNCHANGED acked
  <2>1. "post_note_failed" \in Reasons
    BY DEF Reasons
  <2>2. ControlOK' /\ TurnInv(t)'
    BY <1>1, <1>3, <1>8, <2>1, EscalateStep
  <2> QED
    BY <1>5, <1>6, <2>2, TypePartsNext DEF Preserved
<1> QED
  BY <1>7, <1>8 DEF PostNote

(* recordEscalation: the reason joins those raised for the turn.           *)
LEMMA RecordEscalationStep ==
    ASSUME IInv, NEW t \in Turns, RecordEscalation(t)
    PROVE  Preserved(t)
<1> DEFINE step == IF close[t] THEN "memory" ELSE "complete"
<1>1. /\ pc[t] = "escalate"
      /\ raised' = [raised EXCEPT ![t] = raised[t] \cup {reason[t]}]
      /\ Go(t, step)
      /\ onRecord' \in {onRecord, onRecord \cup {t}}
      /\ UNCHANGED <<auto, draft, noted, acked, managed, mem, completed, darkSince>>
  BY DEF RecordEscalation
<1>2. step \in {"memory", "complete"} /\ step \in Steps
  BY DEF Steps
<1> HIDE DEF step
<1>3. /\ reason[t] \in Reasons /\ raised[t] = {} /\ t \notin acked
      /\ t \notin completed /\ t \notin managed
      /\ t \in noted => SafeToPost(t)
  BY <1>1 DEF IInv, TurnInv, OutcomeAt, DraftAt
<1>4. raised' \in [Turns -> SUBSET Reasons] /\ raised'[t] = {reason[t]}
  BY <1>1, <1>3 DEF IInv, TypeOK
<1>5. DraftOK' /\ ToggleOK' /\ EffectsOK' /\ SharedInv'
  BY <1>1, <1>4, TypeParts DEF IInv, SharedInv, DraftOK, ToggleOK, EffectsOK, draft
<1>6. ControlOK' /\ pc'[t] \in {"memory", "complete"}
  BY <1>1, <1>2, GoTyped DEF IInv
<1>7. OutcomeAt(t)'
  BY <1>1, <1>3, <1>4, <1>6 DEF OutcomeAt, OneOutcome, Undecided
<1>8. SafeToPost(t)' <=> SafeToPost(t)
  BY <1>1 DEF SafeToPost, draft
<1>9. DraftAt(t)'
  BY <1>1, <1>3, <1>6, <1>8 DEF DraftAt
<1> QED
  BY <1>5, <1>6, <1>7, <1>9, TypePartsNext DEF Preserved, TurnInv

(* The memory of a turn's conversation after closeTurn: whatever the fold  *)
(* takes out, the only reply that can be new is the one of a managed turn. *)
LEMMA MemoryUpdated ==
    ASSUME IInv, NEW t \in Turns, CloseTurnMemory(t), NEW c \in Convs
    PROVE  /\ mem'[c] \in Record
           /\ mem'[c].bot \subseteq mem[c].bot \cup (managed \cap {t})
<1>1. CASE UNCHANGED mem
  BY <1>1 DEF IInv, TypeOK
<1>2. ASSUME NEW n \in applyMemoryUpdate(mem[ConvOf[t]], t, t \in managed),
             mem' = [mem EXCEPT ![ConvOf[t]] = n]
      PROVE  /\ mem'[c] \in Record
             /\ mem'[c].bot \subseteq mem[c].bot \cup (managed \cap {t})
  <2> DEFINE r == mem[ConvOf[t]]
             slots == IF cls[t] = None THEN r.slots ELSE MergeEntities(r.slots, found[t])
             bots == IF t \in managed THEN r.bot \cup {t} ELSE r.bot
             full == [guest |-> r.guest \cup {t}, bot |-> bots, slots |-> slots]
  <2>1. r \in Record /\ found[t] \in SUBSET Slots
    BY ConvOfAssumption DEF IInv, TypeOK
  <2>2. /\ full \in Record
        /\ bots \subseteq r.bot \cup (managed \cap {t})
    BY <2>1 DEF Record, MergeEntities
  <2>3. n \in foldOverflow(full)
    BY <1>2 DEF applyMemoryUpdate
  <2>4. n \in Record /\ n.bot \subseteq r.bot \cup (managed \cap {t})
    <3> HIDE DEF slots, bots
    <3> QED
      BY <2>2, <2>3 DEF Record, foldOverflow
  <2>5. mem'[c] = IF c = ConvOf[t] THEN n ELSE mem[c]
    BY <1>2 DEF IInv, TypeOK
  <2>6. CASE c = ConvOf[t]
    BY <2>4, <2>5, <2>6
  <2>7. CASE c # ConvOf[t]
    BY <2>5, <2>7 DEF IInv, TypeOK
  <2> QED
    BY <2>6, <2>7
<1> QED
  BY <1>1, <1>2 DEF CloseTurnMemory

(* MarkManaged after the note: the outcome is already fixed.               *)
LEMMA MarkManagedStep ==
    ASSUME IInv, NEW t \in Turns, MarkManaged(t)
    PROVE  Preserved(t)
<1>1. /\ pc[t] = "managed" /\ Go(t, "memory")
      /\ managed' = managed \cup {t}
      /\ UNCHANGED <<auto, draft, raised, onRecord, noted, acked, mem, completed, darkSince>>
  BY DEF MarkManaged
<1>2. ControlOK' /\ pc'[t] = "memory"
  BY <1>1, GoTyped DEF IInv, Steps
<1>3. DraftOK' /\ ToggleOK' /\ EffectsOK' /\ SharedInv'
  BY <1>1, TypeParts DEF IInv, SharedInv, DraftOK, ToggleOK, EffectsOK, draft
<1>4. OutcomeAt(t)'
  BY <1>1, <1>2 DEF IInv, TurnInv, OutcomeAt, OneOutcome, Undecided
<1>5. SafeToPost(t)' <=> SafeToPost(t)
  BY <1>1 DEF SafeToPost, draft
<1>6. DraftAt(t)'
  BY <1>1, <1>2, <1>5 DEF IInv, TurnInv, DraftAt
<1> QED
  BY <1>2, <1>3, <1>4, <1>6, TypePartsNext DEF Preserved, TurnInv

(* closeTurn: the reply enters the thread of an acknowledged turn only.    *)
LEMMA CloseTurnStep ==
    ASSUME IInv, NEW t \in Turns, CloseTurnMemory(t)
    PROVE  Preserved(t)
<1>1. /\ pc[t] = "memory" /\ Go(t, "complete")
      /\ UNCHANGED <<auto, draft, raised, onRecord, noted, acked, managed, completed, darkSince>>
  BY DEF CloseTurnMemory
<1>2. ControlOK' /\ pc'[t] = "complete"
  BY <1>1, GoTyped DEF IInv, Steps
<1>3. mem' \in [Convs -> Record]
  <2>1. mem' = [c \in Convs |-> mem'[c]]
    BY DEF IInv, TypeOK, CloseTurnMemory
  <2> QED
    BY <2>1, MemoryUpdated
<1>4. \A c \in Convs : mem'[c].bot \subseteq acked'
  BY <1>1, MemoryUpdated DEF IInv, SharedInv, TurnInv, OutcomeAt
<1>5. DraftOK' /\ ToggleOK' /\ EffectsOK' /\ SharedInv'
  BY <1>1, <1>3, <1>4, TypeParts DEF IInv, SharedInv, DraftOK, ToggleOK, EffectsOK, draft
<1>6. OutcomeAt(t)'
  BY <1>1, <1>2 DEF IInv, TurnInv, OutcomeAt, OneOutcome, Undecided
<1>7. SafeToPost(t)' <=> SafeToPost(t)
  BY <1>1 DEF SafeToPost, draft
<1>8. DraftAt(t)'
  BY <1>1, <1>2, <1>7 DEF IInv, TurnInv, DraftAt
<1> QED
  BY <1>2, <1>5, <1>6, <1>8, TypePartsNext DEF Preserved, TurnInv

(* Idempotency.Complete, the last step of Run.                             *)
LEMMA CompleteStep ==
    ASSUME IInv, NEW t \in Turns, Complete(t)
    PROVE  Preserved(t)
<1>1. /\ pc[t] = "complete" /\ Go(t, "done")
      /\ completed' = completed \cup {t}
      /\ UNCHANGED <<auto, draft, raised, onRecord, noted, acked, managed, mem, darkSince>>
  BY DEF Complete
<1>2. ControlOK' /\ pc'[t] = "done"
  BY <1>1, GoTyped DEF IInv, Steps
<1>3. DraftOK' /\ ToggleOK' /\ EffectsOK' /\ SharedInv'
  BY <1>1, TypeParts DEF IInv, SharedInv, DraftOK, ToggleOK, EffectsOK, draft
<1>4. OutcomeAt(t)'
  BY <1>1, <1>2 DEF IInv, TurnInv, OutcomeAt, OneOutcome, Undecided
<1>5. SafeToPost(t)' <=> SafeToPost(t)
  BY <1>1 DEF SafeToPost, draft
<1>6. DraftAt(t)'
  BY <1>1, <1>2, <1>5 DEF IInv, TurnInv, DraftAt
<1> QED
  BY <1>2, <1>3, <1>4, <1>6, TypePartsNext DEF Preserved, TurnInv

-----------------------------------------------------------------------------
(* The invariant on which the properties rest: what every program point of *)
(* Run may assume of its turn holds however the other turns and the toggle *)
(* interleave with it.                                                     *)
THEOREM Invariance == Spec => []IInv
<1>1. IInv /\ [Next]_vars => IInv'
  <2> SUFFICES ASSUME IInv, [Next]_vars PROVE IInv'
    OBVIOUS
  <2>1. ASSUME NEW t \in Turns, Run(t) PROVE IInv'
    <3>1. Preserved(t)
      BY <2>1, EarlySteps, ClassifyStep, RouteStep, DraftStep, QualifierGateStep,
         CriticStep, Gate2Step, PostStep, MarkManagedStep, RecordEscalationStep,
         CloseTurnStep, CompleteStep DEF Run
    <3>2. ASSUME NEW u \in Turns, u # t PROVE TurnInv(u)'
      <4>1. Kept(u)
        BY <2>1, <3>2, RunTouchesOneTurn DEF IInv
      <4>2. TurnInv(u)
        BY DEF IInv
      <4> QED
        BY <4>1, <4>2, TurnFrame
    <3> QED
      BY <3>1, <3>2 DEF IInv, Preserved
  <2>2. ASSUME NEW on \in BOOLEAN, SetAutoResponse(on) PROVE IInv'
    <3>1. TypeOK'
      BY <2>2 DEF IInv, TypeOK, SetAutoResponse, draft, effects
    <3>2. SharedInv'
      BY <2>2 DEF IInv, SharedInv, SetAutoResponse, effects
    <3>3. ASSUME NEW u \in Turns PROVE TurnInv(u)'
      <4>1. Kept(u)
        BY <2>2 DEF IInv, TypeOK, Kept, SetAutoResponse, draft, effects
      <4>2. TurnInv(u)
        BY DEF IInv
      <4> QED
        BY <4>1, <4>2, TurnFrame
    <3> QED
      BY <3>1, <3>2, <3>3 DEF IInv
  <2>3. CASE UNCHANGED vars
    <3>1. TypeOK' /\ SharedInv'
      BY <2>3 DEF IInv, TypeOK, SharedInv, vars
    <3>2. ASSUME NEW u \in Turns PROVE TurnInv(u)'
      <4>1. Kept(u)
        BY <2>3 DEF Kept, vars
      <4>2. TurnInv(u)
        BY DEF IInv
      <4> QED
        BY <4>1, <4>2, TurnFrame
    <3> QED
      BY <3>1, <3>2 DEF IInv
  <2> QED
    BY <2>1, <2>2, <2>3 DEF Next
<1> QED
  BY <1>1, InitEstablishes, PTL DEF Spec

(* Every Run ends with its note acknowledged or with exactly one reason    *)
(* handed to Escalations.Record, never both, and completes the claim only  *)
(* afterwards, over every early return of Run, qualifyAndSend, gateAndSend.*)
THEOREM OneOutcomePerTurn == Spec => []OutcomeInv
<1>1. IInv => OutcomeInv
  <2> SUFFICES ASSUME IInv PROVE OutcomeInv
    OBVIOUS
  <2>1. ASSUME NEW t \in Turns
        PROVE  /\ raised[t] = {} \/ (t \notin acked /\ \E why \in Reasons : raised[t] = {why})
               /\ t \in onRecord => raised[t] # {}
               /\ pc[t] = "done" => t \in acked \/ raised[t] # {}
    BY DEF IInv, TypeOK, Steps, TurnInv, OutcomeAt, OneOutcome, Undecided
  <2>2. ASSUME NEW t \in Turns PROVE Cardinality(raised[t]) <= 1
    <3>1. CASE raised[t] = {}
      <4>1. Cardinality(raised[t]) = 0
        BY <3>1, FS_EmptySet
      <4> QED
        BY <4>1
    <3>2. ASSUME NEW why, raised[t] = {why} PROVE Cardinality(raised[t]) <= 1
      <4>1. Cardinality({why}) = 1
        BY FS_Singleton
      <4> QED
        BY <3>2, <4>1
    <3> QED
      BY <2>1, <3>1, <3>2
  <2>3. OneOutcomePerRun
    BY <2>1, <2>2 DEF OneOutcomePerRun, Sent, Escalated
  <2>4. CompletedMeansHandled
    <3>1. ASSUME NEW t \in completed PROVE t \in Turns /\ pc[t] = "done"
      BY DEF IInv, TypeOK, TurnInv, OutcomeAt
    <3> QED
      BY <2>1, <3>1 DEF CompletedMeansHandled, Sent, Escalated
  <2> QED
    BY <2>3, <2>4 DEF IInv, OutcomeInv
<1> QED
  BY <1>1, Invariance, PTL

(* Nothing reaches Guesty that the gates would have stopped: a human-only  *)
(* code in either place, an unsafe draft, an uncovered promise, or a reply *)
(* the critic rejected for a blocker tag (enforcePriority, PreGenerate,    *)
(* Decide and DecideQualifier together).                                   *)
THEOREM OnlyPassedRepliesAreSent == Spec => []SentPassedGates
<1>1. IInv => SentPassedGates
  BY DEF IInv, TypeOK, TurnInv, DraftAt, SafeToPost, NoHumanCode, SentPassedGates
<1> QED
  BY <1>1, Invariance, PTL

(* The gates look at the toggle after the draft is ready, so a draft that  *)
(* was finished in the dark is not posted while it stays dark.             *)
THEOREM ToggleIsReadAgain == Spec => []ToggleReadAfterDraft
<1>1. IInv => ToggleReadAfterDraft
  BY DEF IInv, TurnInv, DraftAt, ToggleReadAfterDraft
<1> QED
  BY <1>1, Invariance, PTL

(* closeTurn puts a bot reply in the thread only when PostNote had         *)
(* returned nil for it.                                                    *)
THEOREM OnlyDeliveredIsRemembered == Spec => []MemoryMatchesDelivery
<1>1. IInv => MemoryMatchesDelivery
  BY ConvOfAssumption DEF IInv, SharedInv, MemoryMatchesDelivery
<1> QED
  BY <1>1, Invariance, PTL
=============================================================================
