----------------------------- MODULE MCScreens ------------------------------
(***************************************************************************)
(* The engine of Windows, the crossings and screens between computers and   *)
(* the lens on one of them for TLC. As in MCMacs a behaviour runs one part. *)
(***************************************************************************)
EXTENDS WindowsEngine, Handoff, Lens, LensInput, Tiles, TLC

VARIABLE part   \* the one that runs

FromOne == {<<"a", "x">>, <<"a", "y">>}
FromTwo == {<<"a", "x">>, <<"b", "x">>}
TwoPairings == {FromOne, FromTwo}

(* Three computers in a row: the one in the middle paired both.              *)
InARow == [k \in 1 .. 3 |-> IF k = 2 THEN {1, 3} ELSE {2}]
Screen(id, left, top, width, height) ==
  [id |-> id, x |-> left, y |-> top, w |-> width, h |-> height, desk |-> <<width, height>>]
OneScreen == [displays |-> <<Screen(1, 0, 0, 2, 2)>>, size |-> <<2, 2>>]
TwoScreens == [displays |-> <<Screen(1, 0, 0, 2, 2), Screen(2, 2, 0, 1, 3)>>, size |-> <<3, 3>>]
SizeOnly(width, height) == [displays |-> <<>>, size |-> <<width, height>>]
Desktops ==
  [k \in 1 .. 3 |-> CASE k = 1 -> {SizeOnly(2, 1), SizeOnly(4, 3)}
                       [] k = 2 -> {OneScreen, TwoScreens}
                       [] k = 3 -> {SizeOnly(1, 3)}]
UnknownTile == <<2, 1>>
Ways == {-2, 2}

(* The variables of a part that does not run have no value. *)
Unused == 0
EngineOff ==
  /\ wconfig = Unused /\ wos = Unused /\ wof = Unused /\ walive = Unused
  /\ wacts = Unused /\ wlinks = Unused /\ wdialing = Unused /\ wnet = Unused
  /\ winbound = Unused /\ wlease = Unused /\ wout = Unused /\ warming = Unused
  /\ wremote = Unused /\ wkeys = Unused /\ wreleasing = Unused
  /\ wtok = Unused /\ wturns = Unused /\ wdesks = Unused
CrossingsOff ==
  /\ known = Unused /\ step = Unused /\ leg = Unused /\ next = Unused
  /\ armed = Unused /\ phases = Unused /\ rcmds = Unused /\ up = Unused
  /\ call = Unused /\ lease = Unused /\ shell = Unused /\ jobs = Unused
  /\ taker = Unused /\ tokens = Unused
LensesOff ==
  /\ desktop = Unused /\ paints = Unused /\ frames = Unused
  /\ screen = Unused /\ encoder = Unused /\ view = Unused /\ said = Unused
  /\ decoder = Unused
ViewingOff ==
  /\ viewer = Unused /\ inputs = Unused /\ moving = Unused
  /\ player = Unused /\ desk = Unused /\ mutter = Unused /\ reply = Unused
BoardOff ==
  /\ tiles = Unused /\ tileEdits = Unused

MCInit ==
  \/ part = "Engine" /\ WindowsInit /\ CrossingsOff /\ LensesOff
     /\ ViewingOff /\ BoardOff
  \/ part = "Crossings" /\ HandoffInit /\ EngineOff /\ LensesOff
     /\ ViewingOff /\ BoardOff
  \/ part = "Lenses" /\ LensInit /\ EngineOff /\ CrossingsOff /\ ViewingOff
     /\ BoardOff
  \/ part = "Viewing" /\ LensInputInit /\ EngineOff /\ CrossingsOff
     /\ LensesOff /\ BoardOff
  \/ part = "Board" /\ TilesInit /\ EngineOff /\ CrossingsOff /\ LensesOff
     /\ ViewingOff

RunEngine ==
  /\ part = "Engine" /\ WindowsNext
  /\ UNCHANGED <<part, handoffVars, lensVars, lensInputVars, tileVars>>

RunCrossings ==
  /\ part = "Crossings" /\ HandoffNext
  /\ UNCHANGED <<part, windowsVars, lensVars, lensInputVars, tileVars>>

RunLenses ==
  /\ part = "Lenses" /\ LensNext
  /\ UNCHANGED <<part, windowsVars, handoffVars, lensInputVars, tileVars>>

RunViewing ==
  /\ part = "Viewing" /\ LensInputNext
  /\ UNCHANGED <<part, windowsVars, handoffVars, lensVars, tileVars>>

RunBoard ==
  /\ part = "Board" /\ TilesNext
  /\ UNCHANGED <<part, windowsVars, handoffVars, lensVars, lensInputVars>>

MCNext == RunEngine \/ RunCrossings \/ RunLenses \/ RunViewing \/ RunBoard

MCSpec == MCInit /\ [][MCNext]_<<part, windowsVars, handoffVars, lensVars,
          lensInputVars, tileVars>>

Symmetry == Permutations(WinPeers)

-----------------------------------------------------------------------------
(* The engine's maps, its injector and its peers' desktops stay in step      *)
(* (windows/engine.rs, windows/input.rs).                                    *)
EngineIsConsistent ==
  part = "Engine" =>
    WindowsOneOwner /\ UsersAreLinked /\ WindowsKeyIsOwned /\ PreparedIsGivenBack

(* A desktop has one user at a time and a crossing ends on both sides        *)
(* (daemon/crossing.rs, session/desktop.rs).                                 *)
CrossingsAreExclusive == part = "Crossings" => LeaseHolderControls /\ NoInputAfterCrossing

(* The viewer sees what it is told: what is said to be exact is, and it comes *)
(* to that; and the viewed desktop sees what the person did, where it was    *)
(* done and with which keys (lens/tiles.rs, lens/host.rs, lens/client.rs).   *)
LensIsFaithful ==
  /\ part = "Lenses" => ExactIsExact /\ SettledIsSharp
  /\ part = "Viewing" => ClicksLandWhereMade /\ CopyLeavesModifiers

(* Screens stay where the pointer can find them, from both sides (desktop.rs). *)
ScreensStayReachable ==
  /\ [](part = "Board" => WaysAgree)
  /\ [][part = "Board" => ResizeKeepsContact]_tiles
=============================================================================
