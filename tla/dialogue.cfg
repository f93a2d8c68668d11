SPECIFICATION Spec
CONSTANTS
  MaxFd = 1
  Offered <- Dialogue
  Faults = {}
  MaxBacklog = 1
  MaxInputs = 8
  MaxConnects = 1
  alice = alice
  bob = bob
  Malformed = Malformed
  NoMailbox = NoMailbox
  Mailboxes <- MCMailboxes
INVARIANTS TypeOK LetterLive ReplyAccounting
PROPERTIES SavedAsSaid ImplementsMailService
CHECK_DEADLOCK FALSE
