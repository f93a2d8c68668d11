SPECIFICATION Spec
CONSTANTS
  d1 = d1
  d2 = d2
  m1 = m1
  m2 = m2
  NoDomain = NoDomain
  NoMail = NoMail
  Domains <- TwoDomains
  Mails <- TwoLetters
  DomainOf <- OneEach
  MaxFd = 3
  Uninit = {"init", "send_mail_from"}
  ServerFaults = {"refuse", "negative", "close", "reset", "split", "full"}
  MaxScans <- EachOnce
INVARIANTS TypeOK HeadPresent AcceptedOnce
PROPERTIES InOrder
CHECK_DEADLOCK FALSE
