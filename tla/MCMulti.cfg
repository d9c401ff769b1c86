SPECIFICATION SpecEquitable
CONSTANTS
  MaxTaches = 3
  MaxCoeurs = 2
  Pids = {101, 102, 103}
  Issues = {0, 142}
  MaxEtrangers = 1
CHECK_DEADLOCK FALSE
INVARIANTS
  TypeOK
  BilanFidele
PROPERTIES
  ImplementePool
  Termine
