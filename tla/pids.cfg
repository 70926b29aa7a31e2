SPECIFICATION Spec
CONSTANTS
  Svc = {s1, s2, s3}
  Pid = {p1, p2, p3, p4}
  None = None
  Size = 4
SYMMETRY Interchangeable
INVARIANTS
  FindsOwner
  LiveExact
