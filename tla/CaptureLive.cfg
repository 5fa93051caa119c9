SPECIFICATION FairSpec
CONSTANTS
  Devices = {d1, d2}
  Keys = {k1, touch}
  Contacts = {touch}
  Foreign = {d2}
  SkipBusy = TRUE
  BoundaryWrap = 3
  MaxAsked = 1
  MaxUnread = 2
PROPERTIES ReleasingEnds ArmingCompletes ImplementsPort
