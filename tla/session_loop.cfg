CONSTANTS
  c1 = c1
  c2 = c2
  Conn = {c1}
  Word <- Words
  Credentials <- OneUser
  FileNames <- Names
  Folders <- Homes
  Asked <- Everything
  MaxText = 4
  MaxAsk <- Five
SPECIFICATION FairSpec
INVARIANTS SessionTypeOK InStep
PROPERTIES FilesAsNamed Answered CloseEnds
CHECK_DEADLOCK FALSE
