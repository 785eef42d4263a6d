SPECIFICATION LiveSpec
CONSTANTS
  d1 = d1  d2 = d2  d3 = d3  m1 = m1  m2 = m2  c1 = c1
  Deliveries = {d1, d2, d3}
  Messages = {m1, m2}
  Conversations = {c1}
  MessageOf <- ThreeCalls
  ConversationOf <- OneChat
  Direct = {d3}
  Keyed = {m1}
  ViaQueue = {d1, d2}
  HistoryLimit = 3
  MaxExpiries = 1
  MaxCrashes = 1
INVARIANTS OncePerClaim OneTaskOrIdle AnsweredInOrder HistoryIsCurrent
PROPERTY WaitingIsServed
