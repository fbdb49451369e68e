CONSTANTS
  c1 = c1
  c2 = c2
  u1 = u1
  u2 = u2
  f1 = f1
  f2 = f2
  x = x
  y = y
  Null = Null
  Session = {c1}
  User = {u1}
  UserOf <- OneUser
  File = {f1, f2}
  Checksum = {x, y, torn}
  Torn = torn
  MaxTime = 4
  MaxBlob = 1
  Stamp <- InOrder
  Registered = {}
  LoggedIn = {}
  Methods <- AnyMethod
  Operations <- OneClient
SPECIFICATION HandlerSpec
INVARIANTS HandlerTypeOK ChecksumOfContent BlobOfOneFile
PROPERTIES UploadDurable DownloadedIsLast
SYMMETRY Interchangeable
