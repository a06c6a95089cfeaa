SPECIFICATION Spec
CONSTANTS
  Pages = {p1, p2, p3, p4, p5}
  NoPage = NoPage
  Envs = {e1, e2, e3}
  NASID = 2
  NPD = 2
  NHIGH = 1
  NPT = 2
  NTLB = 1
  REFS = 32
SYMMETRY MCSymmetry
INVARIANTS
  TypeOK
  PagesExact
  TlbCoherent
  KindsApart
CHECK_DEADLOCK FALSE
