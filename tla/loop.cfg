SPECIFICATION Spec
CONSTANTS
  MaxFd = 2
  Offered <- Hello
  Faults = {"close", "reset", "stall", "silence", "steal"}
  MaxBacklog = 1
  MaxInputs = 1
  MaxConnects = 2
  alice = alice
  bob = bob
  Malformed = Malformed
  NoMailbox = NoMailbox
  Mailboxes <- MCMailboxes
INVARIANTS WatchedOnce ReplyAccounting
PROPERTIES NoReplyOverwritten
CHECK_DEADLOCK FALSE
