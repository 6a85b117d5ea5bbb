\* One process is always on time, the others may be suspended or killed anywhere.
\* A lease outlives one refused renewal, not two in a row.
SPECIFICATION LeaseSpec
CONSTANTS
  Holders = {h1, h2, h3}
  NoHolder = NoHolder
  Procs = {p1, p2, p3}
  NoPid = NoPid
  TTL = 3
  RENEWAL = 1
  MaxTime = 4
  Punctual = {p1}
SYMMETRY LeaseSymmetry
INVARIANTS LeaseTypeOK GrantIsBounded PunctualHolderKeepsLease
PROPERTIES LiveRowIsRespected LockProperty
CHECK_DEADLOCK FALSE
