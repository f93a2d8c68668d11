SPECIFICATION FairSpec
CONSTANTS
  MaxFd = 2
  Offered <- Hello
  Faults = {"silence", "stall", "signal"}
  MaxBacklog = 1
  MaxInputs = 1
  MaxConnects = 2
  alice = alice
  bob = bob
  Malformed = Malformed
  NoMailbox = NoMailbox
  Mailboxes <- MCMailboxes
PROPERTIES Served TimedOutIsClosed
CHECK_DEADLOCK FALSE
