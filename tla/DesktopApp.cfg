SPECIFICATION DesktopSpec
CONSTANTS
  Channel = {c1, c2}
  MaxIpc = 2
INVARIANT BellTellsTheTruth
PROPERTY MutedStaysMuted
