SPECIFICATION Spec
CONSTANTS
  None = None
  Legacy = Legacy
  Nil = Nil
  k = k
  w = w
  t1 = t1
  t2 = t2
  x1 = x1
  x2 = x2
  x3 = x3
  x4 = x4
  x5 = x5
  a1 = a1
  a2 = a2
  Secrets = {k, w}
  TokenIds = {t1, t2, x1, x2, x3, x4, x5}
  Accounts = {a1, a2}
  Rows = {r1}
  RawEmails = {"Ada@x.io", "ada@x.io", "bob@x.io", "bob"}
  Valid = {"Ada@x.io", "ada@x.io", "bob@x.io"}
  Passwords = {7, 8, 73}
  TTL = 1
  MaxTime = 3
  Configs <- MCConfigs
  Foreign <- MCForeign
  Canonical <- MCCanonical
SYMMETRY Symmetry
VIEW View
INVARIANTS
  TypeOK
  ReadsStayWithOwner
  ExpiredOpensNothing
  OneAccountPerAddress
  RegisteredIsKnown
  PrivateNeedsCredential
PROPERTIES
  OnlyOwnersWrite
CHECK_DEADLOCK TRUE
