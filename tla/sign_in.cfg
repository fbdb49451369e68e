CONSTANTS
  c1 = c1
  c2 = c2
  u1 = u1
  u2 = u2
  f1 = f1
  f2 = f2
  x = x
  y = y
  Null = Null
  Session = {c1, c2}
  User = {u1, u2}
  UserOf <- TwoUsers
  File = {f1}
  Checksum = {x, torn}
  Torn = torn
  MaxTime = 1
  MaxBlob = 1
  Stamp <- InOrder
  Registered = {u2}
  LoggedIn = {c2}
  Methods <- AnyMethod
  Operations <- TwoClients
SPECIFICATION HandlerSpec
PROPERTY SignedInRegistered


