SPECIFICATION AppSpec
CONSTANTS
  LinkPeers = {"p", "q"}
  DialWins = {"p"}
  MaxLinkSessions = 2
  MaxNudges = 1
  Controllers = {p, q}
  MaxSessions = 2
  MaxPrepares = 1
  MaxChanges = 1
  MacKeys = {"LCTRL", "LGUI", "PRINT_SCREEN", "F13", "MUTE"}
  PartPeer <- TwoLayouts
  EDGE_PAUSE = 2
  HAND_BACK_QUIET = 2
  HAND_BACK_GUARD = 3
  PauseAtEdges = {TRUE, FALSE}
  MaxCrossings = 1
  MaxMacMoves = 2
INVARIANT EscapePauses
CHECK_DEADLOCK FALSE
