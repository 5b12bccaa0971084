SPECIFICATION FairSpec
CONSTANTS
  e1 = e1
  e2 = e2
  e3 = e3
  j1 = j1
  j2 = j2
  roleA = roleA
  roleB = roleB
  NoRole = NoRole
  Callers <- FiveCallers
  Keys <- AllKeys
  Roles <- TwoRoles
  RoleOf <- KeyRoles
  BaseSts <- Sts0
  QueueRole = NoRole
  Program <- Programs
  StsLimit = 1
INVARIANTS
  TypeOK
  OneClientPerKey
  FilledOnce
  ClientsHaveSessions
PROPERTIES
  ValuesAreStable
  ImplementsContract
  EveryCallerEnds
