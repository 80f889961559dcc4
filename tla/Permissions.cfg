CONSTANTS
  Server = {s1}
  User = {o, u}
  Founder = {o}
  Channel = {c}
  Custom = {mod}
  Grant <- MCGrant
  Permission <- MCPermission
  Req = {r1, r2}
  None = None
SPECIFICATION Spec
INVARIANTS RolesNeedMembership AllowedWasGranted AllowedInside
PROPERTY PermissionsConverge
