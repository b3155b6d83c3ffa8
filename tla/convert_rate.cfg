SPECIFICATION Spec
CONSTANTS
  a1 = a1
  a2 = a2
  a3 = a3
  m1 = m1
  m2 = m2
  m3 = m3
  Allocators = {a1, a2}
  Memories = {m1, m2}
  Nobody = Nobody
  Fds = {3, 4, 5, 6, 7, 8, 9}
  Rates <- MCRates
  MaxFailures = 0
  MaxFrames = 7
  MaxCaps = 2
  MaxSessions = 1
SYMMETRY Symmetry
INVARIANTS
  KeepsTheRate
\* The elements end, or the process is killed.
CHECK_DEADLOCK FALSE
