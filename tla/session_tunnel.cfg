SPECIFICATION Spec
CONSTANTS
  t1 = t1
  t2 = t2
  d = d
  None = None
  TunnelId = {t1}
  Data = {d}
  LastPacket = 2
  MaxLen = 2
  MaxChunks = 1
  Packets <- TunnelPackets
INVARIANTS
  OneReply
  DisconnectEventOnce
  
  ClaimsAreBacked
CHECK_DEADLOCK FALSE
