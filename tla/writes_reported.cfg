SPECIFICATION Spec
CONSTANTS
  c1 = c1
  c2 = c2
  Callers <- MCCallers
  Asked <- MCAsked
  PAGE = 2
  MaxRuns = 2
  MaxOthers = 2
SYMMETRY Symmetry
CHECK_DEADLOCK FALSE
INVARIANTS WritesTypeOK RetryableIsSafe OkIsApplied RefusedIsNotApplied TwiceOnlyUnseen OwnMailboxOnly LandsOnce
