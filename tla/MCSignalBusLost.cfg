CONSTANTS
  s1 = s1
  s2 = s2
  s3 = s3
  s4 = s4
  a = a
  b = b
  g1 = g1
  Subs <- MCSubs
  Names <- MCNames
  Goroutines <- MCGoroutines
  Nil = Nil
SPECIFICATION Spec
SYMMETRY MCSymmetry
INVARIANTS
  NotifyReachesAll
