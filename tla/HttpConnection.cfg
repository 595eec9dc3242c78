SPECIFICATION FairSpec
CONSTANTS
  Requests <- MCRequests
  Missing = {"nowhere"}
  Forbidden = {"secret"}
  MaxRequests = 2
INVARIANTS AnswersMatch
PROPERTY EveryRequestAnswered
CHECK_DEADLOCK FALSE
