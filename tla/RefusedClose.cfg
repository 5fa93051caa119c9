SPECIFICATION Spec
CONSTANTS
  Keys = {k1}
  Buttons = {}
  Touches = {}
  NoTouch = NoTouch
  NoMember = NoMember
  MaxTotal = 2
  CheckpointInterval = 2
  Lease = 3
  MaxPendingSnapshots = 3
  HeldLease = 3
  Devices = {d1}
  Supported = {k1}
  Deltas <- Forward
  MaxQueue = 2
  RejectClosing = TRUE
  MaxActs = 1
  MaxControl = 3
  MaxMotion = 1
  MaxTime = 0
INVARIANT NoStuckInput
