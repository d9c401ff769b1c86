SPECIFICATION SpecVive
CONSTANTS
  Reglages <- DeuxReglages
  Fb0RetryMax = 3
  AfcRetryMax = 5
  Latence = 3
  Residus <- AuBordDeLaTrame
INVARIANTS
  TypeOK
  ToujoursUnJeu
  SchAuBonEndroit
PROPERTIES
  AbandonneSansFb
CHECK_DEADLOCK FALSE
