SPECIFICATION Spec
CONSTANTS
  main = main
  irq = irq
  other = other
  Procs = {main, other}
  Values <- Values3
  Funcs = {}
  SpuriousFail = TRUE
  Preempts <- NoPreemption
INVARIANT MutualExclusion
