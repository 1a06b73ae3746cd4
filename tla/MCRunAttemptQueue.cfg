SPECIFICATION Spec
CONSTANTS
  None = None
  Attempts = {a1, a2, a3}
  Workers = {w1, w2}
  Lease = 2
  MaxDelay = 1
SYMMETRY Symmetry
PROPERTIES LeaseIsRespected LeasesAreKept
