CONSTANTS
  Tests = {"fb", "fbpos", "sb", "fbsb", "nb", "tx", "rach", "chk", "idle"}
  Bsic = 7
  Seaux = 25
  Places = 8
  Residus <- MCResidus
  Epoques <- MCEpoques
  Essais = 6
  MaxPerdus = 3
SPECIFICATION BancSpec
CHECK_DEADLOCK FALSE
INVARIANTS BancTypeOK AgendaTenu SchJuste ChacunLeSien VerdictFonde
