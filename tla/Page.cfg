CONSTANTS
  Hosts = {h1, h2}
  MaxScans = 3
  NoHost = NoHost
  Languages = {en, ru}
SPECIFICATION CardsSpec
INVARIANTS
  TypeOK
  LatestReport
  NeverForgotten
  
PROPERTIES
  ButtonsReturn
CHECK_DEADLOCK FALSE
