SPECIFICATION Spec
CONSTANTS
  Server = {s1, s2}
  Channel = {c1}
  Fetch = {f1, f2}
  Get = {g1, g2}
  None = None
  MaxClicks = 4
CHECK_DEADLOCK FALSE
INVARIANTS PanelOfThisServer OneIconPerServer IconsAreMemberships
PROPERTY OpenIsShown
