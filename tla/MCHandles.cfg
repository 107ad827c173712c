CONSTANTS
  Runtimes = {r1, r2, r3}
  Threads = {w1, w2}
  Kind = "pool"
  Builder = builder
  Build = build
  Clones = clones
  None = none
SYMMETRY Symmetric
SPECIFICATION Spec
INVARIANTS TypeOK NoOrphans SenderFreed
CHECK_DEADLOCK FALSE
