SPECIFICATION FairSpec
CONSTANTS
  Poller = {p1}
  Streamer = {s1}
  Plaintext = {p1, s1}
  Consumer = Consumer
  Nobody = Nobody
  PollLimit = 1
  StreamLimit = 2
  MaxEvents = 2
  MaxQueue = 1
  MaxFault = 2
INVARIANTS
  SidecarTypeOK
  NoLostWakeup
PROPERTIES
  InOrderOnce
  EveryEventIsTold
  PollIsAnswered
