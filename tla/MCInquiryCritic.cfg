SPECIFICATION Spec
CONSTANTS
    t1 = t1
    t2 = t2
    t3 = t3
    c1 = c1
    dates = dates
    Turns = {t1, t2, t3}
    Together <- MCTogether
    Convs = {c1}
    ConvOf <- MCConvOf
    Slots = {dates}
    Classifications <- AnswersToClassify
    Replies <- AnswersToGenerate
    QualifierReplies <- AnswersToQualify
    HasQualifier = TRUE
    None = None
INVARIANT FailClosedEscalates
