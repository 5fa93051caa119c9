SPECIFICATION MCSpec
CONSTANTS
  PadSlots = {1, 2}
  PadSpots = {0, 1, 3}
  PadModes = {TRUE, FALSE}
  MOTION_START = 1
  SCROLL_START = 1
  TAP_TRAVEL = 1
  TAP_TIME = 1
  CLICK_SPREAD = 2
  GainHalves = 1
  MaxPadEvents = 4
  SessionConfigs <- TwoConfigs
  MAX_CONTACTS = 5
  MAX_RECEIVER_LEASE_MS = 5
  MAX_CHECKPOINT_BOUND_MS = 2
  MaxTransportMessages = 3
  Keys = {"k1", "k2"}
  Name <- OneName
  Records = {"r"}
  MAX_NEIGHBORS = 1
  MaxMoves = 3
  Linux = {1}
  Windows = {2}
  Macs = {3}
  Pairs <- PairsOfThree
  MaxEdits = 3
  MaxBreaks = 1
  UserSessions = {1}
  Greeters = {2}
  SEAT_UNKNOWN_GRACE = 2
  MaxSeatChanges = 3
  MaxSeatFaults = 1
  MaxSeatTime = 4
  ReceiverStarts <- AroundActivation
  NetDelay = 2
  PROBE_INTERVAL = 2
  MAX_PENDING_PROBES = 2
  PROBE_MAX_AGE = 3
  SampleWindow = 2
  MinimumDelay = 0
  MaximumDelay = 1
  Margin = 0
  ContractionDivisor = 16
  DelaySampleAge = 3
  MaxTimingFrames = 2
  MaxTimingTime = 5
  PeerKeys = {"LGUI", "LALT", "TAB", "LEFT"}
  Fingers = {1, 2, 3}
  MAX_TOUCHPAD_CONTACTS = 2
  Places = {"p", "q"}
  LinkRecords = {1, 2}
  MaxLinkTasks = 2
  MaxLinkIds = 2
  MaxLinkMoves = 3
  Hosts = {"h"}
  HostAddresses <- HostsMoves
  HereAddresses <- OwnAddresses
  ZflowTxt <- OurTxts
  OtherTxt <- OtherTxts
  MAX_DISCOVERY_CANDIDATES = 2
  MAX_TXT_PROPERTIES = 4
  MAX_INSTANCES = 1
  MaxDiscoveries = 2
  MaxDiscoveryMoves = 4
  MaxDiscoveryQueue = 2
  NearHosts = {"g", "h"}
  Ports = {1, 2}
  MAX_NEARBY = 1
  MaxBrowsers = 3
  MaxAdvertisers = 3
  MaxNearbyMoves = 3
  Users = {"u1", "u2", "u3"}
  MaxLapses = 1
  MaxTrouble = 2
  LinuxSharers = {"l"}
  MacSharers = {"m"}
  WindowsSharers = {"w"}
  Source = "m"
  Clips = {"x"}
  MAX_CLIP_JOBS = 1
  MaxCopies = 2
  MaxWalks = 2
  MaxSwitches = 1
  Layouts <- Arrangements
  MacPeers = {"b"}
  FRACTION_MAX = 1000
  DEAD_CORNER = 1
  MAX_EXITS = 4
  MaxTransits = 3
INVARIANTS GesturesComeOutWhole WireServesBoth WindowIsForOne LayoutConverges SeatDecides TimingHolds
  ComputersAreFound RadioComesBack ClipsDoNotBounce PointerLandsWhereShown
PROPERTY DevicesHoldPeersInput
CHECK_DEADLOCK FALSE
