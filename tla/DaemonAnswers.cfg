CONSTANTS
  Peers = {a, b}
  Wins = {a, b}
  Asks <- LiveAsks
  Capacity = 2
SPECIFICATION LiveSpec
PROPERTIES ReleaseIsAnswered InputComesBack
CHECK_DEADLOCK FALSE
