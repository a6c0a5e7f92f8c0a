CONSTANTS
  c1 = c1
  Campaign = {c1}
  Message = {m1}
  Worker = {w1, w2}
  CampaignOf <- OneCampaign
  Window = 2
  Lease = 1
  MaxStart = 1
  MaxTime = 4
  MaxClaims = 3
SPECIFICATION FairSpec
PROPERTIES
  MailIsSettled
CHECK_DEADLOCK FALSE
