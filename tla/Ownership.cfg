SPECIFICATION Spec
CONSTANTS
  Devices = {d1, d2}
  Keys = {k1}
  Contacts = {}
  Foreign = {}
  SkipBusy = TRUE
  BoundaryWrap = 5
  MaxAsked = 2
  MaxUnread = 4
SYMMETRY Symmetry
INVARIANTS GrabsMatchPhase TrackedMatchesKernel
PROPERTIES ActivationKeepsItsDevices GrabOnlyWhenNeutral
