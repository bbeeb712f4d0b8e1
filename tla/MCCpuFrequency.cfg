CONSTANTS
  p1 = p1
  k1 = k1
  k2 = k2
  c1 = c1
  c2 = c2
  c3 = c3
  Packages = {p1}
  Cores = {k1, k2}
  Cpus = {c1, c2, c3}
  parent <- MCParent
  Freqs = {0, 1, 2}
  Readings = {0, 2}
  Unreadable = Unreadable
  MaxStamp = 2
SYMMETRY CpuSymmetry
SPECIFICATION Spec
INVARIANTS
  TypeOK
  SameTotals
  ResidencyIsMean
PROPERTIES
  AccountsTruly
