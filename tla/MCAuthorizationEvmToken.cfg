CONSTANTS
  p = p
  e = e
  z = z
  y = y
  u = u
  Owner = Owner
  Label = {e}
  User = {u}
  Zk = {}
  Mode <- MCMode
  Registry <- MCRegistry
  Target <- MCTarget
  Reports = {"Success", "Rejected"}
  Limits = {1}
  MaxId = 1
  MaxTokens = 1
  MaxBlock = 1
SPECIFICATION Spec
INVARIANT TokensSettled
