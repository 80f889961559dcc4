SPECIFICATION BringUpSpec
CONSTANTS
  Job = {"kafka-topic-init", "db-init", "cassandra-init"}
  Service = {"audit", "chat"}
  backoffLimit <- Limits
  MaxFaults = 2
INVARIANTS DoneLeavesAll RerunsNeverFail
PROPERTY ComesUp
CHECK_DEADLOCK FALSE
