SPECIFICATION Spec
CONSTANTS
  Labels = {l1, l2}
  Variables = {x, y}
  None = None
  Programs <- AllPrograms
INVARIANTS LabelsResolve LengthsHold RewriteExact SilenceMeansSaved
