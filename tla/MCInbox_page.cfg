SPECIFICATION FairSpec
CONSTANTS
  a = a b = b t1 = t1 t2 = t2
  Convs = {a, b}
  First = a
  SendStatuses = {"SENT"}
  AckStatuses = {"READ"}
  Tasks = {t1, t2}
  Webhooks = {t2}
  PageSize = 1
  Before = 1
  MaxMessages = 2
  MaxAcks = 1
  MaxClicks = 1
  MaxFaults = 1
  MaxAsked = 2
INVARIANTS TypeOK TimelineExplains
PROPERTY InboxSettles
CHECK_DEADLOCK FALSE
