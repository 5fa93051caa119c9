CONSTANTS
  Peers = {a, b}
  Wins = {}
  Asks <- MCAsks
  Capacity = 2
SPECIFICATION MCSpec
SYMMETRY Symmetry
INVARIANTS OneActivation SessionsFollowPolicy InputGoesSomewhere
PROPERTIES NoSendWhileControlled
CHECK_DEADLOCK FALSE
