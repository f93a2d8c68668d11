SPECIFICATION FairSpec
CONSTANTS
    Letters <- MCLetters
INVARIANTS AcceptedIsStored NotCutShort
PROPERTIES NobodyWaits
\* A transfer ends.
CHECK_DEADLOCK FALSE
