SPECIFICATION SpecEquitable
CONSTANTS
  Tn = {2}
  DoneTot = {FALSE, TRUE}
  RxMode = {"milieu", "apres", "avant"}
  Injecte = {FALSE, TRUE}
  MaxTrames = 2
  MaxResets = 2
  MaxDcch = 1
  MaxSessions = 2
  MaxPauses = 1
  MaxFile = 2
CHECK_DEADLOCK FALSE
INVARIANTS
  TypeOK
  L1SyncExclusif
  ResetEntreTrames
  BurstApresDemarrage
  PauseHorsTrame
PROPERTIES
  ImplementeAlternance
  ToutRepondu
  SignalArrete
