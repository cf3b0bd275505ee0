SPECIFICATION FairSpec
CONSTANTS
  t1 = t1
  t2 = t2
  d = d
  None = None
  TunnelId = {t1, t2}
  Data = {d}
  LastPacket = 2
  MaxLen = 2
  MaxChunks = 0
  Packets <- IdPackets
INVARIANTS
  FailureEndsPacket
  NothingBeforeInit
  ConfirmedTunnelsClose
  OrphansAreOvertaken
PROPERTIES
  DisconnectIsFinal
  PacketsFinish
CHECK_DEADLOCK FALSE
