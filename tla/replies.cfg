SPECIFICATION FairSpec
CONSTANTS
  d1 = d1
  d2 = d2
  m1 = m1
  m2 = m2
  NoDomain = NoDomain
  NoMail = NoMail
  Domains <- TwoDomains
  Mails <- TwoLetters
  DomainOf <- OneEach
  MaxFd = 2
  Uninit = {"init"}
  ServerFaults = {"not implemented", "split", "slow", "refuse"}
  MaxScans <- FirstTwice
INVARIANTS AcceptedOnce
PROPERTIES InOrder ReplyIsRead
CHECK_DEADLOCK FALSE
