CONSTANTS
  Users = {u1, u2}
  Sessions = {s1, s2, s3}
SPECIFICATION Spec
SYMMETRY Symmetry
INVARIANTS
  NoDoubleLogin
  AckIsStored
  ForwardedToOwner
