SPECIFICATION FairSpec
CONSTANTS
  Tab = {t1}
  Conn = {c1, c2}
  None = None
  RegistersFirst = TRUE
  ClosesFirst = TRUE
  BroadcastCap = 1
  SendCap = 1
  MaxVersion = 3
  MaxLosses = 1
  MaxStops = 1
INVARIANTS SignalTypeOK ChannelsSound NeverStale 
PROPERTIES   Reaped
