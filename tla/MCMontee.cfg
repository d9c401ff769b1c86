SPECIFICATION Spec
CONSTANTS
  Blocs = {vide, b1, b2}
  Vide = vide
  SansBloc = aucun
  Seuil = 2
  Ttl = 12
  MaxPoses = 3
INVARIANTS
  TypeOK
  UneSeuleFois
PROPERTIES
  ToutUneFois
