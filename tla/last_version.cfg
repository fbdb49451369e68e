CONSTANTS
  c1 = c1
  c2 = c2
  u1 = u1
  u2 = u2
  f1 = f1
  f2 = f2
  x = x
  y = y
  Null = Null
  Session = {c1}
  User = {u1}
  UserOf <- OneUser
  File = {f1}
  Checksum = {x, torn}
  Torn = torn
  MaxTime = 1
  MaxBlob = 1
  Stamp <- InOrder
  Registered = {u1}
  LoggedIn = {c1}
  Methods <- AnyMethod
  Operations <- OneClient
SPECIFICATION FairHandlerSpec

PROPERTY LastVersionAnswered

