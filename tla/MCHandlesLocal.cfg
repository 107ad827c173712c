CONSTANTS
  Runtimes = {r1, r2}
  Threads = {w1}
  Kind = "local"
  Builder = builder
  Build = build
  Clones = clones
  None = none
SPECIFICATION Spec
INVARIANTS NothingKeptAtLast
CHECK_DEADLOCK FALSE
