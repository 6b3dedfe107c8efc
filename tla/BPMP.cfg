SPECIFICATION FairSpec
CONSTANT MaxRequests = 8
INVARIANTS AnswerMatches LagBounded
PROPERTY XferEnds
CHECK_DEADLOCK FALSE
