SPECIFICATION ProcessSpec
CONSTANTS
  PolicyIds = {1, 2}
  Broken = {1}
  Attempts = 2
  MinStale = 2
  MaxLag = 2
  MaxSignals = 2
INVARIANTS VisitsAreUpToDate
PROPERTIES FileStaysAsItWas StopsWhenAborted ReadyIsEarned EveryPolicyVisited
