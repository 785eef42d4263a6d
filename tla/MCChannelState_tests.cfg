SPECIFICATION Spec
CONSTANTS
  c1 = c1 c2 = c2 ch1 = ch1 ch2 = ch2 p1 = p1
  NoCall = NoCall NoQr = NoQr NoChannel = NoChannel
  Calls = {c1, c2}
  Channels = {ch1, ch2}
  Providers = {p1}
  ProviderOf <- OneProvider
  QrCodes = {}
  Threshold = 1
  Window = 2
  TTL = 0
  ProbeTimeout = 1
  AutoHealing = {ch1}
  MaxFaults = 1
INVARIANT OneTestAtATime
