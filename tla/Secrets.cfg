SPECIFICATION FairSpec
CONSTANTS
  k1 = k1
  k2 = k2
  k3 = k3
  short = short
  a = a
  b = b
  Keys = {k1, k2, k3, short}
  Sized = {k1, k2, k3}
  Fingerprint <- MCFingerprint
  MaxPrevious = 1
  UserSecrets = {s1, s2}
  Configs <- MCConfigs
  Second = 2
  DefaultStep = 4
  DefaultLength = 6
  MaxLength = 8
  Alphabet = {a, b}
  Orders <- MCOrders
  Start = 100
  Horizon = 9
  MaxSkew = 1
  NoUser = NoUser
INVARIANTS TypeOK KeptKeysOpen AcceptedIsRecent InGraceIsAccepted
PROPERTIES GenerationEnds
