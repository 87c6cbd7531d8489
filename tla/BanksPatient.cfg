SPECIFICATION FairSpec
CHECK_DEADLOCK FALSE
CONSTANTS
  Settings <- TwoSettings
  Default <- Wacom
  Tries = 2
  Labellings = {TRUE, FALSE}
  Lossy = TRUE
  Patient = TRUE
  MaxOps = 2

  
  
PROPERTIES
  AnswersToTheirBank
  
  TestsNotShown
  ModalEnds
