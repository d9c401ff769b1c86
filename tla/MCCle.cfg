SPECIFICATION CleSpec
CONSTANTS
  Algos = {1, 2}
  Cles = {k1, k2}
  Melange = Melange
  SansCle = SansCle
  Periode = 7
  Grace = 4
  MaxGestes = 2
  MaxLiberations = 2
  MaxPannes = 1
INVARIANTS
  CleTypeOK
  CleAJour
PROPERTIES
  BasculesJustes
