SPECIFICATION FairSpec
CONSTANTS
  Tests = {0, 1, 2, 3, 4, 5}
  Length <- MCLength
  Fails <- MCFails
  Traps <- MCTraps
  BadFiles = {4}
  BadSignatures = {5}
  Skipped = {3}
  TestLists <- MCTestLists
  Machines <- MCMachines
  InitTicks = {1}
  MaxThreads = 2
  MaxScripts = 2
  MaxEvents = 1
INVARIANTS SignatureIsOwn ErrorIsOwn EveryStepRecorded ServerStoppable
PROPERTIES ScriptEnds
