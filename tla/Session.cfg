SPECIFICATION Spec
CONSTANTS
  Keys = {}
  Buttons = {b1}
  Touches = {}
  NoTouch = NoTouch
  NoMember = NoMember
  MaxTotal = 2
  CheckpointInterval = 2
  Lease = 1
  MaxPendingSnapshots = 3
  HeldLease = 1
  Devices = {d1}
  Supported = {b1}
  Deltas <- Forward
  MaxQueue = 2
  RejectClosing = FALSE
  MaxActs = 2
  MaxControl = 3
  MaxMotion = 1
  MaxTime = 1
INVARIANT NeverDesynchronised
INVARIANT NoStuckInput
INVARIANT HeldIsLeased
INVARIANT MotionIsExact
INVARIANT AckedMeansApplied
PROPERTY ButtonsArePlaced
