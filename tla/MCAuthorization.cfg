CONSTANTS
  p = p
  e = e
  z = z
  y = y
  u = u
  Owner = Owner
  Label = {p}
  User = {u}
  Zk = {}
  Mode <- MCMode
  Registry <- MCRegistry
  Target <- MCTarget
  Reports = {"Success", "Rejected"}
  Limits = {1, 2}
  MaxId = 1
  MaxTokens = 1
  MaxBlock = 1
SPECIFICATION FairSpec
INVARIANTS CountsMatch OneAnswerToCome AtMostOnce Escrow
PROPERTIES Admission ResultsFinal EveryExecutionAnswered
