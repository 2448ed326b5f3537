SPECIFICATION Spec
CONSTANTS
  c1 = c1
  c2 = c2
  c3 = c3
  c4 = c4
  c5 = c5
  u1 = u1
  u2 = u2
  u3 = u3
  Sockets = {s1, s2, s3, s4, s5}
  Clients = {c1, c2, c3, c4, c5}
  UserOf <- MCUserOf
  MaxConnections = 4
  BufferConnections = 1
  MaxCollaborators = 2
SYMMETRY SocketSymmetry
INVARIANT
  AllOrNone
