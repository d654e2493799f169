CONSTANTS
  p = p
  e = e
  z = z
  y = y
  u = u
  Owner = Owner
  Label = {z, y}
  User = {u}
  Zk = {z, y}
  Mode <- MCMode
  Registry <- MCRegistry
  Target <- MCTarget
  Reports = {"Success"}
  Limits = {1}
  MaxId = 1
  MaxTokens = 0
  MaxBlock = 2
SPECIFICATION Spec
INVARIANT NoOlderBlock
