CONSTANTS
  x = x
  a1 = a1
  a2 = a2
  b = b
  la = la
  lb = lb
  hb = hb
  tm = tm
  Thread = {hb, tm}
  HeartbeatThread = {hb}
  TimerThread = {tm}
  Name = {x}
  Names <- MCNames
  Locator = {la, lb}
  Server = {a1, a2}
  LocatorOf <- MCLocatorOf
  Kinds = {"numbered", "exclusive", "shared", "none"}
  MaxGood = 3
SPECIFICATION FairDSpec
INVARIANT SendersMatchServers
INVARIANT RequestsFindClients
INVARIANT MapPointsToSenders
PROPERTY ServersAreFound
PROPERTY SilentServersLeave
CHECK_DEADLOCK FALSE
