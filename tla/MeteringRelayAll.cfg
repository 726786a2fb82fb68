CONSTANTS
  Exchanges = {x1, x2}
  Convs = {c1}
  NoConv = NoConv
SPECIFICATION Spec
CHECK_DEADLOCK FALSE
INVARIANTS TypeOK UsageSurvives OwnNumbers BoundBeforeCounted
PROPERTIES KeepsPromise Answered
