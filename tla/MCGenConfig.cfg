SPECIFICATION Spec
CONSTANTS
  Missing = Missing
  Other = Other
  NoValue = NoValue
  Nets = {n1, n2}
  BadNet = BadNet
  Documents <- AllDocuments
INVARIANTS
  OutcomeAsDocumented
CHECK_DEADLOCK FALSE
