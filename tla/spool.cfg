SPECIFICATION Spec
CONSTANTS
    Servers = {p1, p2}
    Letters <- MCLetters
    BoxOf <- MCBoxOf
    MailDir <- NoLabels
    NewLabels = {"newton"}
    Parts = 2
    MaxTime = 1
    QueueSize = 1
    NoName = NoName
INVARIANTS TypeOK NotMixed TakenIsOnDisk ReadOnce SameDomain
\* Everything may be read.
CONSTRAINT OneLoses
SYMMETRY SameWorkers
CHECK_DEADLOCK FALSE
