SPECIFICATION Spec
CONSTANTS
  MaxFd = 1
  Offered <- Hello
  Faults = {"signal"}
  MaxBacklog = 1
  MaxInputs = 2
  MaxConnects = 1
  alice = alice
  bob = bob
  Malformed = Malformed
  NoMailbox = NoMailbox
  Mailboxes <- MCMailboxes
INVARIANTS ShutdownNotifiesAll
CHECK_DEADLOCK FALSE
