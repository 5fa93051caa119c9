----------------------------- MODULE MCPlumbing -----------------------------
(***************************************************************************)
(* What lies under and beside the sessions for TLC: the wire, the clock,    *)
(* the seat, the touchpad and the virtual devices, the arrangement of       *)
(* computers and the versions of its layout. As in MCMacs a behaviour runs  *)
(* one part.                                                                *)
(***************************************************************************)
EXTENDS Touchpad, Transport, Arrange, SharedLayout, Seat, Timing,
        VirtualInput, Links, Discovery, Nearby, Awdl, Clipboard, EdgeMap,
        TLC

VARIABLE part   \* the one that runs

PairsOfThree == {{1, 2}, {2, 3}}
WithTouch == [touch |-> TRUE, lease |-> 3, checkpoint |-> 2, playout |-> 1]
WithoutTouch == [touch |-> FALSE, lease |-> 5, checkpoint |-> 1, playout |-> 2]
TwoConfigs == {WithTouch, WithoutTouch}
OneName == [k \in Keys |-> "n"]
AroundActivation == {-2, 1}

(* Addresses of a computer that comes and moves, and of this one.            *)
HostsMoves == {{<<3, "v4">>, <<4, "v4">>, <<5, "v4">>}, {<<1, "v4">>, <<6, "unscoped">>}}
OwnAddresses == {{1}, {2}}
NewerTxt == <<<<"v", "newer">>, <<"cap", <<"keyboard", "gaze">>>>, <<"mood", "good">>>>
PlainTxt == <<<<"v", "this">>, <<"cap", <<"keyboard">>>>>>
OurTxts == {build_service_info, PlainTxt, NewerTxt}
OtherTxts == {<<<<"v", "this">>>>, <<<<"v", "this">>, <<"v", "this">>, <<"cap", <<"touch">>>>>>}

(* Three arrangements: a row of three, one of them scaled; a peer of two      *)
(* screens and a third computer below; a peer whose displays leave a gap.     *)
Box(left, top, width, height) == [x |-> left, y |-> top, w |-> width, h |-> height]
OneDisplay(peer, plane, px) == [peer |-> peer, plane |-> plane, px |-> px, displays |-> {px}]
InARow ==
  <<OneDisplay("here", Box(0, 0, 12, 9), Box(0, 0, 24, 18)),
    OneDisplay("a", Box(12, 3, 8, 8), Box(0, 0, 16, 10)),
    OneDisplay("b", Box(20, 2, 8, 10), Box(-20, 0, 10, 20))>>
TwoAndBelow ==
  <<OneDisplay("here", Box(0, 0, 12, 9), Box(0, 0, 12, 9)),
    OneDisplay("a", Box(12, -4, 8, 8), Box(0, 0, 16, 16)),
    OneDisplay("a", Box(12, 4, 8, 10), Box(0, 16, 8, 20)),
    OneDisplay("b", Box(2, 9, 10, 8), Box(0, 0, 9, 9))>>
WithGap ==
  <<OneDisplay("here", Box(0, 0, 12, 9), Box(0, 0, 12, 18)),
    [peer |-> "a", plane |-> Box(12, 0, 10, 16), px |-> Box(0, 0, 20, 32),
     displays |-> {Box(0, 0, 20, 8), Box(0, 20, 20, 12), Box(8, 8, 12, 12)}]>>
Arrangements == {InARow, TwoAndBelow, WithGap}

(* The variables of a part that does not run have no value. *)
Unused == 0
PadOff ==
  /\ pad = Unused /\ buttons = Unused /\ pointer_ = Unused /\ takes = Unused
  /\ out = Unused /\ padEvents = Unused /\ nextContact = Unused
WireOff ==
  /\ allowed = Unused /\ conn = Unused /\ ends = Unused /\ stream = Unused
  /\ reader = Unused /\ slots = Unused /\ pump = Unused /\ air = Unused
  /\ sends = Unused
ArrangingOff ==
  /\ recs = Unused /\ nb = Unused /\ turned = Unused /\ peers = Unused
  /\ forgotten = Unused /\ tiles = Unused /\ phase = Unused /\ file = Unused
  /\ holding = Unused /\ task = Unused /\ met = Unused /\ auto = Unused
  /\ moves = Unused
LayoutsOff ==
  /\ layout = Unused /\ stored = Unused /\ computed = Unused /\ unsaved = Unused
  /\ linked = Unused /\ owed = Unused /\ carried = Unused /\ edits = Unused
  /\ breaks = Unused /\ twice = Unused /\ untold = Unused
GateOff ==
  /\ seat = Unused /\ signals = Unused /\ bus = Unused /\ follower = Unused
  /\ published = Unused /\ grace = Unused /\ seatClock = Unused
  /\ unknownAt = Unused /\ seatChanges = Unused /\ seatFaults = Unused
ClocksOff ==
  /\ now = Unused /\ receiverStart = Unused /\ sentFrames = Unused
  /\ wire = Unused /\ probing = Unused /\ mapper = Unused /\ jitter = Unused
  /\ queued = Unused /\ target = Unused /\ broken = Unused
KernelOff ==
  /\ remap = Unused /\ keyboard = Unused /\ pointer = Unused
  /\ contacts = Unused /\ kernel_slots = Unused /\ landing = Unused
  /\ touchpad = Unused /\ alive = Unused /\ peerHolds = Unused
AutoLinksOff ==
  /\ linkSession = Unused /\ linkIds = Unused /\ places = Unused
  /\ linkRecord = Unused /\ linkNow = Unused /\ linkTasks = Unused
  /\ linkMoves = Unused
BrowsingOff ==
  /\ discovery = Unused /\ made = Unused /\ announced = Unused
  /\ present = Unused /\ found = Unused /\ here = Unused /\ instances = Unused
  /\ records = Unused /\ ownRecord = Unused /\ fullOnce = Unused
  /\ heard = Unused /\ netMoves = Unused
ListingOff ==
  /\ browsers = Unused /\ snaps = Unused /\ shared = Unused
  /\ stopper = Unused /\ ads = Unused /\ advertiser = Unused
  /\ looking = Unused /\ access = Unused /\ listening = Unused
  /\ table = Unused /\ given = Unused /\ nearbyMoves = Unused
RadioOff ==
  /\ awdlPhase = Unused /\ downs = Unused /\ emptied = Unused
  /\ restores = Unused /\ locked = Unused /\ lease = Unused /\ lapsed = Unused
  /\ helper = Unused /\ trouble = Unused /\ lapses = Unused
ClipsOff ==
  /\ board = Unused /\ changes = Unused /\ written = Unused
  /\ share = Unused /\ echo = Unused /\ jobs = Unused /\ sending = Unused
  /\ at = Unused /\ clipsLost = Unused /\ rushed = Unused /\ copies = Unused
  /\ walks = Unused /\ switches = Unused
EdgesOff ==
  /\ arranged = Unused /\ reachable = Unused /\ handoff = Unused
  /\ watched = Unused /\ transit = Unused /\ refused = Unused
  /\ transits = Unused

MCInit ==
  \/ part = "Pad" /\ TouchpadInit /\ WireOff /\ ArrangingOff /\ LayoutsOff
     /\ GateOff /\ ClocksOff /\ KernelOff /\ AutoLinksOff /\ BrowsingOff
     /\ ListingOff /\ RadioOff /\ ClipsOff /\ EdgesOff
  \/ part = "Wire" /\ TransportInit /\ PadOff /\ ArrangingOff /\ LayoutsOff
     /\ GateOff /\ ClocksOff /\ KernelOff /\ AutoLinksOff /\ BrowsingOff
     /\ ListingOff /\ RadioOff /\ ClipsOff /\ EdgesOff
  \/ part = "Arranging" /\ ArrangeInit /\ PadOff /\ WireOff /\ LayoutsOff
     /\ GateOff /\ ClocksOff /\ KernelOff /\ AutoLinksOff /\ BrowsingOff
     /\ ListingOff /\ RadioOff /\ ClipsOff /\ EdgesOff
  \/ part = "Layouts" /\ LayoutInit /\ PadOff /\ WireOff /\ ArrangingOff
     /\ GateOff /\ ClocksOff /\ KernelOff /\ AutoLinksOff /\ BrowsingOff
     /\ ListingOff /\ RadioOff /\ ClipsOff /\ EdgesOff
  \/ part = "Gate" /\ SeatInit /\ PadOff /\ WireOff /\ ArrangingOff
     /\ LayoutsOff /\ ClocksOff /\ KernelOff /\ AutoLinksOff /\ BrowsingOff
     /\ ListingOff /\ RadioOff /\ ClipsOff /\ EdgesOff
  \/ part = "Clocks" /\ TimingInit /\ PadOff /\ WireOff /\ ArrangingOff
     /\ LayoutsOff /\ GateOff /\ KernelOff /\ AutoLinksOff /\ BrowsingOff
     /\ ListingOff /\ RadioOff /\ ClipsOff /\ EdgesOff
  \/ part = "Kernel" /\ VirtualInit /\ PadOff /\ WireOff /\ ArrangingOff
     /\ LayoutsOff /\ GateOff /\ ClocksOff /\ AutoLinksOff /\ BrowsingOff
     /\ ListingOff /\ RadioOff /\ ClipsOff /\ EdgesOff
  \/ part = "AutoLinks" /\ LinksInit /\ PadOff /\ WireOff /\ ArrangingOff
     /\ LayoutsOff /\ GateOff /\ ClocksOff /\ KernelOff /\ BrowsingOff
     /\ ListingOff /\ RadioOff /\ ClipsOff /\ EdgesOff
  \/ part = "Browsing" /\ DiscoveryInit /\ PadOff /\ WireOff /\ ArrangingOff
     /\ LayoutsOff /\ GateOff /\ ClocksOff /\ KernelOff /\ AutoLinksOff
     /\ ListingOff /\ RadioOff /\ ClipsOff /\ EdgesOff
  \/ part = "Listing" /\ NearbyInit /\ PadOff /\ WireOff /\ ArrangingOff
     /\ LayoutsOff /\ GateOff /\ ClocksOff /\ KernelOff /\ AutoLinksOff
     /\ BrowsingOff /\ RadioOff /\ ClipsOff /\ EdgesOff
  \/ part = "Radio" /\ AwdlInit /\ PadOff /\ WireOff /\ ArrangingOff
     /\ LayoutsOff /\ GateOff /\ ClocksOff /\ KernelOff /\ AutoLinksOff
     /\ BrowsingOff /\ ListingOff /\ ClipsOff /\ EdgesOff
  \/ part = "Clips" /\ ClipboardInit /\ PadOff /\ WireOff /\ ArrangingOff
     /\ LayoutsOff /\ GateOff /\ ClocksOff /\ KernelOff /\ AutoLinksOff
     /\ BrowsingOff /\ ListingOff /\ RadioOff /\ EdgesOff
  \/ part = "Edges" /\ EdgeMapInit /\ PadOff /\ WireOff /\ ArrangingOff
     /\ LayoutsOff /\ GateOff /\ ClocksOff /\ KernelOff /\ AutoLinksOff
     /\ BrowsingOff /\ ListingOff /\ RadioOff /\ ClipsOff

RunPad ==
  /\ part = "Pad" /\ TouchpadNext
  /\ UNCHANGED <<part, transportVars, arrangeVars, layoutVars, seatVars,
                 timingVars, virtualVars, linksVars, discoveryVars,
                 nearbyVars, awdlVars, clipboardVars, edgeMapVars>>

RunWire ==
  /\ part = "Wire" /\ TransportNext
  /\ UNCHANGED <<part, touchpadVars, arrangeVars, layoutVars, seatVars,
                 timingVars, virtualVars, linksVars, discoveryVars,
                 nearbyVars, awdlVars, clipboardVars, edgeMapVars>>

RunArranging ==
  /\ part = "Arranging" /\ ArrangeNext
  /\ UNCHANGED <<part, touchpadVars, transportVars, layoutVars, seatVars,
                 timingVars, virtualVars, linksVars, discoveryVars,
                 nearbyVars, awdlVars, clipboardVars, edgeMapVars>>

RunLayouts ==
  /\ part = "Layouts" /\ LayoutNext
  /\ UNCHANGED <<part, touchpadVars, transportVars, arrangeVars, seatVars,
                 timingVars, virtualVars, linksVars, discoveryVars,
                 nearbyVars, awdlVars, clipboardVars, edgeMapVars>>

RunGate ==
  /\ part = "Gate" /\ SeatNext
  /\ UNCHANGED <<part, touchpadVars, transportVars, arrangeVars, layoutVars,
                 timingVars, virtualVars, linksVars, discoveryVars,
                 nearbyVars, awdlVars, clipboardVars, edgeMapVars>>

RunClocks ==
  /\ part = "Clocks" /\ TimingNext
  /\ UNCHANGED <<part, touchpadVars, transportVars, arrangeVars, layoutVars,
                 seatVars, virtualVars, linksVars, discoveryVars,
                 nearbyVars, awdlVars, clipboardVars, edgeMapVars>>

RunKernel ==
  /\ part = "Kernel" /\ VirtualNext
  /\ UNCHANGED <<part, touchpadVars, transportVars, arrangeVars, layoutVars,
                 seatVars, timingVars, linksVars, discoveryVars, nearbyVars,
                 awdlVars, clipboardVars, edgeMapVars>>

RunAutoLinks ==
  /\ part = "AutoLinks" /\ LinksNext
  /\ UNCHANGED <<part, touchpadVars, transportVars, arrangeVars, layoutVars,
                 seatVars, timingVars, virtualVars, discoveryVars,
                 nearbyVars, awdlVars, clipboardVars, edgeMapVars>>

RunBrowsing ==
  /\ part = "Browsing" /\ DiscoveryNext
  /\ UNCHANGED <<part, touchpadVars, transportVars, arrangeVars, layoutVars,
                 seatVars, timingVars, virtualVars, linksVars, nearbyVars,
                 awdlVars, clipboardVars, edgeMapVars>>

RunListing ==
  /\ part = "Listing" /\ NearbyNext
  /\ UNCHANGED <<part, touchpadVars, transportVars, arrangeVars, layoutVars,
                 seatVars, timingVars, virtualVars, linksVars,
                 discoveryVars, awdlVars, clipboardVars, edgeMapVars>>

RunRadio ==
  /\ part = "Radio" /\ AwdlNext
  /\ UNCHANGED <<part, touchpadVars, transportVars, arrangeVars, layoutVars,
                 seatVars, timingVars, virtualVars, linksVars,
                 discoveryVars, nearbyVars, clipboardVars, edgeMapVars>>

RunClips ==
  /\ part = "Clips" /\ ClipboardNext
  /\ UNCHANGED <<part, touchpadVars, transportVars, arrangeVars, layoutVars,
                 seatVars, timingVars, virtualVars, linksVars,
                 discoveryVars, nearbyVars, awdlVars, edgeMapVars>>

RunEdges ==
  /\ part = "Edges" /\ EdgeMapNext
  /\ UNCHANGED <<part, touchpadVars, transportVars, arrangeVars, layoutVars,
                 seatVars, timingVars, virtualVars, linksVars,
                 discoveryVars, nearbyVars, awdlVars, clipboardVars>>

MCNext == RunPad \/ RunWire \/ RunArranging \/ RunLayouts \/ RunGate \/
          RunClocks \/ RunKernel \/ RunAutoLinks \/ RunBrowsing \/
          RunListing \/ RunRadio \/ RunClips \/ RunEdges

MCSpec == MCInit /\ [][MCNext]_<<part, touchpadVars, transportVars,
          arrangeVars, layoutVars, seatVars, timingVars, virtualVars,
          linksVars, discoveryVars, nearbyVars, awdlVars, clipboardVars,
          edgeMapVars>>

-----------------------------------------------------------------------------
(* The pad's gestures come out whole: every press ends, every count arrives  *)
(* (linux/touchpad.rs).                                                      *)
GesturesComeOutWhole == part = "Pad" => ClicksAreReleased /\ RoundingLosesNothing

(* Between two computers that run this code nothing is refused or left lying  *)
(* (transport/connection.rs, session/negotiate.rs).                          *)
WireServesBoth == part = "Wire" => NeverRefused /\ NothingStranded

(* The pairing window is for one computer, the only one that was there       *)
(* (pairing_window.rs, daemon/arrange.rs).                                   *)
WindowIsForOne == part = "Arranging" => WindowTakesOne /\ LoneStrangerJoins

(* Versions order layouts, so connected computers end on one: but for names  *)
(* given in another's stead or forgotten in a restart, and for what Windows  *)
(* could not save and did not send (desktop.rs, daemon.rs, windows/engine.rs).*)
LayoutConverges == part = "Layouts" => VersionNamesLayout /\ ConnectedAgree

(* What may inject follows the seat as it is (linux/seat.rs, daemon.rs).     *)
SeatDecides == part = "Gate" => SeatIsCurrent /\ GateFollowsSeat

(* The receiver's view of the sender's clock stays usable, but for frames    *)
(* captured before it was ready, and unbiased (core/clock.rs,                *)
(* core/playout.rs).                                                         *)
TimingHolds == part = "Clocks" => NeverBroken /\ ClockIsHonest

(* The virtual devices hold what the peer holds, contact by contact          *)
(* (linux/uinput.rs, core/keymap.rs).                                        *)
DevicesHoldPeersInput ==
  /\ part = "Kernel" => KernelHoldsPeersKeys /\ SlotsMatchContacts
  /\ [][part = "Kernel" =>
          KernelHoldsPeersKeys' /\ SlotsMatchContacts' /\ SlotLiftsFirst]_virtualVars

(* Computers find each other and connect: what is listed is there, what is   *)
(* advertised is listened for, and every trusted computer has the one link   *)
(* it should, which acts on news (discovery.rs, app/nearby.rs,               *)
(* daemon/links.rs).                                                         *)
ComputersAreFound ==
  /\ part = "AutoLinks" => NotParkedOnNews /\ StatusIsTrue /\ OneLinkEach
  /\ part = "Browsing" => ListedIsThere
  /\ part = "Listing" => OneBrowser /\ AdvertisedIsListening

(* AWDL comes back once nobody wants it down, and not before (macos/awdl.rs). *)
RadioComesBack == part = "Radio" => AwdlComesBack /\ WantedStaysDown /\ AsksForOne

(* A clip that came from a computer never goes back to it, and a Mac knows   *)
(* its own writes (clipboard.rs, macos/clipboard.rs).                        *)
ClipsDoNotBounce == part = "Clips" => NeverBounces /\ OwnWriteIsKnown

(* Out, on and home: the pointer comes out where the arrangement shows it,   *)
(* on a display, and no computer refuses what the other one's geometry gives  *)
(* (app/handoff.rs, desktop.rs, macos/handoff_server.rs).                    *)
PointerLandsWhereShown ==
  part = "Edges" => LandsAcross /\ LandsOnScreen /\ EndsWhereItLeft /\ NothingIsRefused
=============================================================================
