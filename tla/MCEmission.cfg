SPECIFICATION Spec
CONSTANTS
  Ras = {1, 2}
  Residu = 9
  GardeTrames = 4
  Ecart = 5
  MaxAcces = 2
  MaxBlocs = 2
INVARIANTS
  TypeOK
  AccesFidele
  EmissionEntiere
