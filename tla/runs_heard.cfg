SPECIFICATION FairSpec
CONSTANTS
  d1 = d1
  d2 = d2
  m1 = m1
  m2 = m2
  l1 = l1
  l2 = l2
  LogMsg <- Texts
  NoMail = NoMail
  Domains <- One
  Mails = {m1}
  DomainOf <- TheOne
  proc_num = 1
  LogKey = 1
  MaxQueue = 2
  Runs = {1, 2}
  Logged = {1, 2}
INVARIANTS TypeOK
PROPERTIES NewIsSent LeftLogIsRead
CONSTRAINT Heard
CHECK_DEADLOCK FALSE
