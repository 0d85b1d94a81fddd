SPECIFICATION FairSpec
CONSTANTS
  Workers = {w1, w2}
  ctrl = ctrl
  Modulus = 2
INVARIANTS SingleOwner Coherent MessageIntact NoZombie
PROPERTIES ImplementsHart RunningHartExecutes StopIsHonoured
