CONSTANTS
  a = a
  b = b
  c = c
  d = d
  k1 = k1
  k2 = k2
  k3 = k3
  s1 = s1
  s2 = s2
  x1 = x1
  x2 = x2
  Task = {a, b, c}
  Key = {k1, k2}
  Stream = {s1, s2}
  Exch = {x1, x2}
  KeyOf <- McKeyOf
  LeasesOf <- McLeasesOf
  NoLease = NoLease
  Tombstone = Tombstone
  NoStream = NoStream
  NoExch = NoExch
  MaxWatch = 2
  MaxRestarts = 1
  AdapterFails = TRUE
  SubSpec <- McSubSpec
  None = None
  MaxCmds = 2
  MaxEvents = 1
SPECIFICATION MdSpec
PROPERTIES StreamKeptWhileShared
CHECK_DEADLOCK FALSE
