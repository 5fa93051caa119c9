SPECIFICATION FairSpec
CONSTANTS
  Keys = {k1}
  Buttons = {}
  Touches = {}
  NoTouch = NoTouch
  NoMember = NoMember
  MaxTotal = 2
  CheckpointInterval = 1
  Lease = 2
  MaxPendingSnapshots = 3
  HeldLease = 2
  Devices = {d1}
  Supported = {k1}
  Deltas <- Still
  MaxQueue = 2
  RejectClosing = FALSE
  MaxActs = 1
  MaxControl = 3
  MaxMotion = 0
  MaxTime = 3
PROPERTY HeldInputIsGivenUp
PROPERTY SnapshotResolves
