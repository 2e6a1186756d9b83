----------------------------- MODULE MCInquiry -----------------------------
(* The orchestrator for TLC.  Drafts are the clean one and every draft     *)
(* with one defect, with a defect the tools cover, and with the wrong tool *)
(* for it.  A behaviour hands Run either one turn, t1, against all of them *)
(* and the classifications below, or two turns of one conversation, t2 and *)
(* t3, against few answers, so that every pair of their steps interleaves  *)
(* and one turn can find the entities the other one stored.                *)
EXTENDS Inquiry

CONSTANTS t1, t2, t3, c1, dates

Clean ==
    [abort |-> FALSE, confident |-> TRUE, badLength |-> FALSE, hedges |-> FALSE,
     sells |-> FALSE, promisesHold |-> FALSE, promisesChannel |-> FALSE,
     restricted |-> FALSE, tools |-> {}]

MCReplies ==
    {Clean,
     [Clean EXCEPT !.abort = TRUE],
     [Clean EXCEPT !.confident = FALSE],
     [Clean EXCEPT !.badLength = TRUE],
     [Clean EXCEPT !.hedges = TRUE],
     [Clean EXCEPT !.promisesChannel = TRUE],
     [Clean EXCEPT !.restricted = TRUE]}
    \cup {[Clean EXCEPT !.sells = TRUE, !.tools = s] : s \in SUBSET Tools}
    \cup {[Clean EXCEPT !.promisesHold = TRUE, !.tools = s] : s \in SUBSET Tools}

MCQualifierReplies == {r \in MCReplies : r.tools = {} /\ ~r.sells}

MCClassifications ==
    {c \in Classification :
        /\ c.primary \in {"G1", "Y1", "Y2", "Y4", "R2", "X1"}
        /\ c.secondary \in {NoCode, "G2", "Y2", "Y5", "X1"}}

MCConvOf == [t \in Turns |-> c1]

FewClassifications(codes) ==
    {[primary |-> p, secondary |-> NoCode, confident |-> TRUE, risk |-> FALSE] : p \in codes}

MCTogether == {{t1}, {t2, t3}}

AnswersToClassify ==
    [t \in Turns |-> CASE t = t1 -> MCClassifications
                       [] t = t2 -> FewClassifications({"G1", "R1"})
                       [] t = t3 -> FewClassifications({"X1"})]
AnswersToGenerate == [t \in Turns |-> IF t = t1 THEN MCReplies ELSE {Clean}]
AnswersToQualify == [t \in Turns |-> IF t = t1 THEN MCQualifierReplies ELSE {Clean}]
=============================================================================
