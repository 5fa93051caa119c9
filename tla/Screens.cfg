SPECIFICATION MCSpec
CONSTANTS
  WinPeers = {p}
  WinDialWins = {p}
  MaxWinSessions = 2
  MaxTokens = 1
  MaxTurns = 1
  Sources = {"a", "b"}
  Targets = {"x", "y"}
  Pairings <- TwoPairings
  MaxCrossings = 2
  TileCount = 2
  SCAN = 1
  Windows = {1, 4}
  MaxPaints = 3
  Spots = {1, 2}
  LensKeys = {"LGUI"}
  LensMode = "Mac"
  MaxLensInputs = 2
  TileKeys = {1, 2, 3}
  Paired <- InARow
  Geometries <- Desktops
  PEER_TILE_SIZE <- UnknownTile
  MAX_SHARED_TILES = 5
  MAX_COORDINATE = 100
  Drags <- Ways
  Tolerances = {0, 1}
  MaxTileEdits = 2
INVARIANTS EngineIsConsistent CrossingsAreExclusive LensIsFaithful
PROPERTY ScreensStayReachable
CHECK_DEADLOCK FALSE
