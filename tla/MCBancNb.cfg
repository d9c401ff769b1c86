CONSTANTS
  Tests = {"nb"}
  Bsic = 7
  Seaux = 25
  Places = 8
  Residus = {0}
  Epoques = {0}
  Essais = 2
  MaxPerdus = 0
SPECIFICATION BancSpec
CHECK_DEADLOCK FALSE
INVARIANT AttenteDuBloc
