SPECIFICATION Spec
CONSTANTS
  Commande = commande
  Reponse = reponse
  Valeurs = {0, 1}
  DoneTot = {FALSE, TRUE}
  Table = 2
  NVal = 1
  MaxTicks = 3
  MaxEcrits = 3
  MaxTch = 2
CHECK_DEADLOCK FALSE
INVARIANTS
  TesteurJoue
