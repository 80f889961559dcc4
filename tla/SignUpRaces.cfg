SPECIFICATION SignUpSpec
CONSTANTS
  Page = {p1, p2}
  ann = ann
  bob = bob
  work = work
  home = home
  Form <- Forms
  maxFailures = 2
  MaxFaults = 2
  NoForm = NoForm
INVARIANT OneAccountEach
PROPERTIES RegistryLearns BreakerRecloses
