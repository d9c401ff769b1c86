SPECIFICATION Spec
CONSTANTS
  TnTch = {2, 3}
  TnSdcch = {0, 1}
  Installations <- DeuxInstallations
  Garde = 2
  MaxAppels = 7
INVARIANTS
  TypeOK
  Ts0Rendu
PROPERTIES
  MobileServi
  VeilleSurTs0
