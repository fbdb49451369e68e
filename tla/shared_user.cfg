CONSTANTS
  c1 = c1
  c2 = c2
  u1 = u1
  u2 = u2
  Null = Null
  Session = {c1, c2}
  User = {u1, u2}
  UserOf <- OneUser
  File = {f1}
  Checksum = {sha}
  MaxTime = 2
  MaxBlob = 3
  Stamp <- InOrder
  Registered = {u1}
  LoggedIn = {c1, c2}
  Methods <- Files
SPECIFICATION Spec
INVARIANTS TypeOK FileHasBlob BlobHandedOnce
PROPERTIES VersionsKept NewestDecides
SYMMETRY Clients
