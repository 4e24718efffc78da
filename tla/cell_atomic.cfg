SPECIFICATION FairSpec
CONSTANTS
  main = main
  irq = irq
  other = other
  Procs = {main, other}
  Values <- Values3
  Funcs <- Rotate
  SpuriousFail = FALSE
  Preempts <- NoPreemption
INVARIANT MutualExclusion
PROPERTIES Linearizable SomeCallCompletes TryReturns
