SPECIFICATION Spec
CONSTANTS
  Interrupts = {"MEI", "SSI"}
  Exceptions = {"ecall"}
  Pcs = {m, s}
  resetPc = m
  mtvec = m
  stvec = s
  StatusWords <- ContextWords
  DelegWords <- ContextDelegs
  NoContext = NoContext
INVARIANTS NoMissedInterrupt EffectiveModeFresh
PROPERTIES RisesByTrap ReturnsRestore
