SPECIFICATION Spec
CONSTANTS
  Cas <- QuatreCas
  Hyper = 208
  Profondeur = 80
  Garde = 20
  Moments = {0, 11, 32}
  Pertes = {6, 37, 41}
  Duree = 120
INVARIANTS
  TypeOK
  BlocRendu
  JamaisDeuxFois
CHECK_DEADLOCK FALSE
