SPECIFICATION MCSpec
CONSTANTS
  Router = {1, 2}
  Pris = {0, 1}
  InitPri <- MCInitPri
  MaxDowns = 2
  MaxInFlight = 2
  MaxRepris = 1
  FreedReads = {TRUE, FALSE}
  Timely = FALSE
INVARIANTS
  RolesCoherent
PROPERTIES
  Succession
  AgreementOfThree
CHECK_DEADLOCK FALSE
