SPECIFICATION FairSpec
CONSTANTS
  Clients = {c1, c2}
  MaxOutput = 2
  c1 = c1
  c2 = c2
  MaxSent <- MCMaxSent
  MaxInput = 1
INVARIANTS OutputShared InputInOrder
PROPERTIES AllEnd
