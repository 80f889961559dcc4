CONSTANTS
  Event = {e1, e2, bad}
  Valid = {e1, e2}
  Proc = {p1, p2}
  MaxTopic = 4
  MaxStarts = 3
  LostReply = TRUE
  Overlap = TRUE
  None = None
SPECIFICATION FairSpec
INVARIANT ChainVerifiesUnlessSlip
PROPERTIES ImplementsLedger NeverStuck
CHECK_DEADLOCK FALSE
