SPECIFICATION Spec
CONSTANTS
  d1 = d1
  d2 = d2
  m1 = m1
  m2 = m2
  l1 = l1
  l2 = l2
  LogMsg <- Texts
  NoMail = NoMail
  Domains <- Two
  Mails = {m1, m2}
  DomainOf <- OneEach
  proc_num = 2
  LogKey = 1
  MaxQueue = 2
  Runs = {1, 2}
  Logged = {1}
INVARIANTS OneProcessIfClean SentOnceIfClean
CONSTRAINT Clean
CHECK_DEADLOCK FALSE
