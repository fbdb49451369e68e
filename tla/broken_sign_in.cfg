CONSTANTS
  c1 = c1
  c2 = c2
  Conn = {c1, c2}
  Word <- Words
  Credentials <- OneUser
  FileNames <- Names
  Folders <- Homes
  Asked <- Registering
  MaxText = 4
  MaxAsk <- Once
SPECIFICATION Spec
INVARIANT RegisteredAsSent
CHECK_DEADLOCK FALSE
