SPECIFICATION FairSpec
CONSTANTS
  d1 = d1
  d2 = d2
  m1 = m1
  m2 = m2
  m3 = m3
  Domains <- Two
  Mails = {m1, m2, m3}
  DomainOf <- TwoForOne
  proc_num = 2
  MaxQueue = 2
  Uninit = {"zero", "negative", "large"}
INVARIANTS TypeOK DomainsApart Balanced
PROPERTIES NewIsReceived
CHECK_DEADLOCK FALSE
