# zflow: TLA+ models and proofs

zflow lets one computer's keyboard, mouse and touchpad drive another. The
daemon of the computer that captures input (the *source*) takes its physical
devices away from the local desktop and streams what they do over QUIC; the
daemon of the controlled computer (the *sink*) injects it. What must not go
wrong is hard to test: a key that stays down on either computer, devices that
stay taken with nobody forwarding them, a pointer that is not where the user
put it, two ends that disagree about what is held, a peer that controls more
than it was allowed to.

This directory models the parts of the code that carry those obligations,
checks them with TLC on small instances, and proves the central ones with
TLAPS for every instance. Paths are relative to the repository;
`PROJECT.json` maps every definition to the lines it models, names a wrong
variant of the code that breaks each property, and lists the hazards, each at
its line, with the properties that would catch it.

## Inventory

| Component | State | Operations | What is hard | Modelled in |
|---|---|---|---|---|
| Sender, receiver and playout engines, `core/sender.rs`, `core/receiver.rs`, `core/playout.rs`, over `core/model.rs` | held state, cumulative motion, sequences, pending snapshots, lease, queued frames | the methods the session actor calls; they return messages or effects | deadlines, limits, overflow; loss and reordering against anchors | InputTypes, Sender, Receiver, Playout |
| Session actor, `session.rs`, `session/receive.rs` | both engines, merged devices, deferred controls | one branch of `select!` per command, message, datagram and timer | state advanced before an await; errors half-way through a handler | InputSession |
| Linux input thread, `runtime/linux.rs`, `linux/ownership.rs`, `linux/capture.rs` | phase, tracked keys, open and grabbed nodes, selected peer | activate, release, terminal_sent, reload, rescan, read | system calls that fail half-way, keys that move during them, a full event queue | LinuxCapture; RuntimePort is what the daemon sees of it |
| Daemon, `daemon.rs` | session map, outbound activation, inbound owner, policy generation, seat gate | connect, accept, begin/switch/end_outbound, route effects, apply config | dial races, revocation in flight, hops across awaits | Daemon |
| Crossings, `daemon/crossing.rs`, `daemon/desktop.rs`, `session/desktop.rs` | the crossing under way, the lease on a desktop | prepare, arm, poll, hop, finish | timeouts racing answers | Handoff |
| Links and seat, `daemon/links.rs`, `linux/seat.rs` | one task per trusted computer; the follower and its grace | dial, back off, news; inspect, publish | news lost while parked; a stale inspection | Links, Seat |
| Pairing and neighbours, `pairing_window.rs`, `daemon/arrange.rs`, `neighbors.rs` | the window and its file, records, candidates | hear, hold off, join, forget | restarts between two saves | Arrange |
| Shared layout, `desktop.rs`, `desktop/monitors.rs`, `app/layout_model.rs` | version, editor, tiles | edit, merge, forward, resize | saves and forwards in another order than the edits | SharedLayout, Tiles |
| Pointer geometry, `app/handoff.rs` | routes, fractions, exits | leave, enter, return | rounding between displays of different sizes | EdgeMap |
| Clock, `core/clock.rs` | samples, offset, probes, adaptive delay | probe, rebase, play | a bias that stays | Timing |
| Virtual devices, `linux/uinput.rs`, `core/keymap.rs` | keys, slots, modifiers owned by held keys | inject key, button, contacts | lifting what the kernel believes is down | VirtualInput, Keymap |
| Captured touchpad, `linux/touch.rs`, `linux/touchpad.rs` | contacts, gesture | report by report | gestures cut short | Touchpad |
| Transport and negotiation, `transport/connection.rs`, `session/negotiate.rs` | streams, a latest-wins queue, limits | handshake, framing, pump | cancelled reads, lost wake-ups | Transport |
| Discovery and nearby, `discovery.rs`, `app/nearby.rs`, `macos/advertise.rs` | records, browser threads, table | browse, register, restart | threads that outlive their stop | Discovery, Nearby |
| Clipboard, `clipboard.rs` and its three platforms | clip, echo, change counts | copy, share, receive | a clip that bounces | Clipboard |
| Lens, `lens/` | damage, tiles, acknowledgements; viewer's queue | encode, skip, decode; click, move, copy | saying exact of a stale picture | Lens, LensInput |
| Mac, `macos/link.rs`, `macos/receive.rs`, `macos/inject.rs`, `macos/awdl.rs` | links, policy, ownership, desktop lease, held keys, AWDL lease | dial, hop, claim, revoke, inject | locks taken one after the other; simultaneous dials | MacLink, MacReceive, MacInject, Awdl |
| Mac app, `app/sharing.rs`, `app/native.rs` | armed, paused, crossing | arm, escape, pause, hand back | an escape that meets a new layout | MacApp |
| Windows, `windows/engine.rs`, `windows/input.rs`, `windows/desktop.rs` | maps of links, sessions, desktops | commands, answers, ticks | an answer that comes after its question is moot | WindowsEngine |
| Hello exchange, configuration, identity, command line, desktop applications | files and one-shot requests | | | not modelled |

How they interact: the input thread reports `Remote`, captured frames and
`TerminalRequested` to the daemon's loop over a bounded queue and takes commands
from it; the loop tells the active session's actor to begin and end an
activation and forwards frames to it; the peer's actor turns them into effects
and awaits its daemon, which admits them by owner, policy and seat and gives
them to its own input thread. Links open sessions, crossings decide when the
daemon begins, hops and ends, and the layout says where.

## Modules

    InputTypes <- Sender, Receiver, Playout <- InputSession <- MCInputSession, MCInputParts
    RuntimePort <- LinuxCapture <- MCLinuxCapture          (LinuxCapture implements RuntimePort)
    RuntimePort <- Daemon <- MCDaemon
    MacLink, MacReceive, MacInject, MacApp              <- MCMacs
    WindowsEngine, Handoff, Lens, LensInput, Tiles      <- MCScreens
    Touchpad, Transport, Arrange, SharedLayout, Seat, Timing, Keymap <- VirtualInput,
      Links, Discovery, Nearby, Awdl, Clipboard, EdgeMap <- MCPlumbing
    InputSession <- InputSessionProofs <- InputStreamProofs
    LinuxCapture <- LinuxCaptureProofs      MCDaemon    <- DaemonProofs
    MCMacs       <- MacsProofs              MCScreens   <- ScreensProofs
    MCPlumbing   <- PlumbingProofs <- SharedLayoutProofs

Each module's header says which files it is about and what it abstracts.

**The input path.** *InputTypes* has held states, anchors, messages and frames.
The four axes of motion are handled alike, so one integer of bounded width stands
for them; a touch state is opaque. A message carries one field that is not on the
wire, `after`, a history of the sender's state for the properties. *Sender*,
*Receiver* and *Playout* are operators from a state to the next one and the
output, as the Rust types are pure state machines; a call's `Vec<ReceiverEffect>`
is kept as its net content. *InputSession* composes them with the connection, the
clock and the injection backend. The source's handlers never wait in the middle,
so each is one action. The sink's do: `emit` sends a batch to the daemon and
awaits the receipt with the receiver already changed, so the sink has a program
counter (`select`, `poll`, `drain`, `emit`, `cleanup`, `down`) and everything else
may happen while it waits. Reliable streams are queues, whose content a lost
connection may leave undelivered; datagrams are a set from which any frame may
arrive at any time, again, or never. Which frame is mature and how much of a
backlog a poll plays is left open.

| Code | Actions of InputSession |
|---|---|
| `run_session` commands, timer, acks | BeginOutbound, Capture, EndOutbound, SourceTick, ReceiveAck, SourceClose, SourceLost |
| `Inbound::receive_control`, `receive_motion`, `tick` | RecvControl, RecvMotion, InboundTick |
| `poll_playout`, `drain_pending_controls`, `apply_control` | PollPlayout, DrainEnds, ApplyControl |
| `emit`, `route_receiver_effects`, `inject` | BackendApplies, BackendRejects |
| end of the actor, `Inbound::close` | SinkClose, SinkLost, Cleanup |
| network and time (external) | NetworkLoss, Advance |

**The input thread.** *LinuxCapture* is the thread as owner of the physical devices,
against a kernel whose keys move on their own and a daemon that sends commands. A
handler runs alone, but `grab_all` is a sequence of system calls, so it is one
action per call, with key events in between. Each device has the kernel's key
state, the events this process has not read, and what the *other* readers believe
is held: they see nothing while it is grabbed. A `Foreign` device is one another
program has grabbed, which zflow skips. Any system call may fail. *RuntimePort* is
the abstract specification of the same thread that the daemon's model is built on:
phases, the devices taken or not, whether an answer is awaited; LinuxCapture
implements it (`ImplementsPort`, by INSTANCE).

| Code | Actions of LinuxCapture |
|---|---|
| commands | Activate, ReleaseLive, ReleaseLost, TerminalSent, Reload, ReloadFails, Stop |
| `rescan` | Rescan, RescanFails |
| `read_capture_path`, `handle_captured_frame` | ReadReady, DeviceRemoved, ReadFails, HandleFrame |
| `advance_ownership_boundary` | InspectFails, BoundaryWaits, AcquireGrabs, ReleaseGrabs |
| `grab_all`, `grab_transaction` | CheckBefore, GrabOne, GrabSucceeded, GrabFails |
| user and kernel (external) | KeyEvent, PointerFrame |

**The daemon.** *Daemon* has the session map with one record per session (the task
that made it, its actor, its open activations), the loop and its three queues, the
policy mutex with the one task that may hold it across an await (`wait`), and the
input thread as RuntimePort. A step runs from one await to the next. Statistics
and status texts are left out; `asks` bounds how often each outside request comes.

| Code | Actions of Daemon |
|---|---|
| `connect`, `accept_connection`, `retire_session` | Dial, AcceptConnection, Negotiated, RegisterDial, RegisterAccepted, AcceptTimesOut, DialAges |
| session actors | BeginOutbound, EndOutbound, ActorStops; PeerInput, ConnectionLost, LeaseEnds |
| `route_receiver_effects`, `claim_inbound` | RouteEnter, RoutePress, RouteLeave, RouteRelease |
| `handle_session_event` | OutboundEnded, SessionClosed |
| `handle_runtime_event` | RuntimeRemote, RuntimeIdle, RuntimeTerminal, RuntimeClosed, ForwardCapture |
| `end_outbound`, `finish_runtime_terminal` after their await | EndFinishes |
| `switch_outbound` before and after its await | SwitchOutbound, SwitchFinishes |
| `activate`, local release, `apply_config`, `update_seat_gate` | Activate, LocalRelease, SetPermissions, SetSharing, SeatChanges |
| the input thread (RuntimePort) | RtGrab, RtGrabFails, RtEscape, RtFault, RtUngrab, RtCapture, RtCommand |

**Composites.** MCMacs, MCScreens and MCPlumbing put components that share nothing
in one run: a behaviour picks a `part` and runs that component alone, while the
variables of the others have no value. That is not an interleaving of them and
claims none; it keeps each component a module with its own Init and Next and lets
one run ask each its questions. MCMacs has Links, Control, Injector and App;
MCScreens has Engine, Crossings, Lenses, Viewing and Board; MCPlumbing has Pad,
Wire, Arranging, Layouts, Gate, Clocks, Kernel, AutoLinks, Browsing, Listing, Radio,
Clips and Edges. MCInputParts runs two instances of InputSession the same way.

A definition named `X_Something` with a comment *Mutant* is a wrong version of `X`
that no action uses. `PROJECT.json` says which property each one breaks when it
takes the place of `X`.

## Runs

| Run | Checks | Instance |
|---|---|---|
| Session | NeverDesynchronised, NoStuckInput, HeldIsLeased, MotionIsExact, AckedMeansApplied, ButtonsArePlaced | 1 button, 2 activations of 3 controls, 1 frame, 1 tick, lease 1 |
| TouchesAndMotion | BothEndsAgree | 2 devices, 2 keys (one not injectable), 2 touch states, 4 controls; or 1 button, 2 frames of -1..1 over totals of width -2..1, 4 controls |
| Liveness | HeldInputIsGivenUp, SnapshotResolves | 1 key, 3 controls, 3 ticks, lease 2, fair |
| Ownership | GrabsMatchPhase, TrackedMatchesKernel, ActivationKeepsItsDevices, GrabOnlyWhenNeutral | 2 devices, boundary wraps at 5, event queue of 2, 4 unread events a device |
| CaptureLive | ReleasingEnds, ArmingCompletes, ImplementsPort | a device with a key and a contact, and a foreign one; boundary wraps at 3; fair |
| Daemon | OneActivation, SessionsFollowPolicy, InputGoesSomewhere, NoSendWhileControlled | 2 peers, queues of 2, no dial of this computer wins |
| DaemonAnswers | ReleaseIsAnswered, InputComesBack | 2 peers, every dial of this computer wins, fair |
| Macs | LinksKeepTheirOwn, ControlIsHeldTogether, SharingDoesAsMeant | 2 peers, 2 sessions, 2 layouts, 1 crossing, 5 keys |
| Screens | EngineIsConsistent, CrossingsAreExclusive, LensIsFaithful, ScreensStayReachable | 1 Windows peer with 2 sessions; 2 sources and 2 targets; 2 tiles; 3 computers on a board |
| Plumbing | GesturesComeOutWhole, WireServesBoth, WindowIsForOne, LayoutConverges, SeatDecides, TimingHolds, ComputersAreFound, RadioComesBack, ClipsDoNotBounce, PointerLandsWhereShown, DevicesHoldPeersInput | see `Plumbing.cfg` |
| RefusedClose | NoStuckInput, violated | closes may be refused |
| EscapeLost | EscapePauses, violated | the Mac app alone |

What they show, in words:

- *NeverDesynchronised*: a source running this code is never taken for a broken
  peer. Whatever is lost, repeated or late, the sink meets no control gap, invalid
  transition or backward anchor, and the source no unknown acknowledgement.
- *NoStuckInput*: whenever no handler waits, the backend holds what the receiver
  holds; after a close or the end of the session that is nothing. *HeldIsLeased* and
  *HeldInputIsGivenUp*: held input has a lease, a lease fires, and a lost connection
  releases. *SnapshotResolves*: a snapshot is answered or ends the activation.
- *MotionIsExact*, *ButtonsArePlaced*, *AckedMeansApplied*: the three ledgers of
  motion agree and an orderly leave accounts for every lost datagram; a button goes
  down exactly where the pointer was when it was captured; an acknowledgement is
  never ahead of the backend. *BothEndsAgree*: the receiver holds what the sender
  held after the last control applied, the sender what any of its devices holds;
  and the motion properties again with reordering and a counter at both its limits.
- *GrabsMatchPhase*, *TrackedMatchesKernel*, *GrabOnlyWhenNeutral*,
  *ActivationKeepsItsDevices*: the devices are taken exactly while the phase says
  so, on every path that ends an activation; neutrality is decided on the true key
  state; the capture set of a running activation is fixed. *ReleasingEnds*,
  *ArmingCompletes*: input comes back without another key or motion, and arming
  does not hang. *ImplementsPort*: LinuxCapture is a RuntimePort.
- *OneActivation*: after any order of hops, ends and lost sessions only the active
  session has an activation that nothing will end. *SessionsFollowPolicy*: one peer
  controls this computer, within what the configuration and the seat allow now, and
  nothing it pressed outlives its session. *InputGoesSomewhere*: with every queue
  drained, captured devices have a computer to send to, and free devices none.
  *NoSendWhileControlled*: a controlled computer forwards nothing.
  *ReleaseIsAnswered*, *InputComesBack*: the waiting input thread is always answered
  and captured input never stays without a target.
- *LinksKeepTheirOwn*, *ControlIsHeldTogether*, *SharingDoesAsMeant*: on the Mac, no
  session or prepared desktop outlives its link; a controller is admitted and holds
  keys and desktop together, and macOS sees down what it holds; the edges are armed
  as was asked last and only a deliberate push crosses.
- *EngineIsConsistent*, *CrossingsAreExclusive*, *LensIsFaithful*,
  *ScreensStayReachable*: late answers leave the Windows engine's maps in step; a
  desktop has one user and a crossing ends on both sides; a tile said to be exact is,
  and comes to be, and clicks land where they were made; edits of a board keep
  screens in touch.
- The properties of *Plumbing* are one or a few per part; their comments in
  MCPlumbing say what each is.

**Bounds.** In InputSession `MaxActs`, `MaxControl`, `MaxMotion` and `MaxTime` cap
what the source may do. Two activations are enough for one to leave something
behind for the next; three or four controls are an enter, a press, a snapshot or
release and a close; two frames can be reordered, and one can be lost behind the
other; queues of two fill up; a counter that reaches both ends of its width
exercises every check of a sum or a difference. The sink may be arbitrarily late. In
LinuxCapture the number of activations is not bounded; `MaxUnread` bounds how far
reading lags, `MaxAsked` is the room in the event queue, and `BoundaryWrap` stands
for 2^64. In Daemon `asks` bounds the requests of each kind from outside; two
sessions are a dial race, two peers a hop, a queue of two fills. The parts of the
composites bound the person, the network and the faults (`MaxMoves`, `MaxTrouble`, ...),
never the program; in SharedLayout `MaxEdits` counts edits and sessions that start,
`MaxBreaks` sessions that are lost, saves that fail and restarts. `Plumbing.cfg` runs one
computer of each platform, and receivers whose session is ready two ticks before the
activation or one after it. Symmetry is used where no constant tells the
values apart (devices of Ownership, touches and devices, peers of Daemon,
controllers), and in no run with a liveness property. Deadlock
is not checked where the bounds really stop the system (Daemon and the composites).

**Fairness.** InputSession: time passes; both actors keep running (weak fairness of
the steps inside a handler and of the source's timer); and `select!` polls its ready
branches in random order, so a branch that is ready again and again is taken
(strong fairness of the lease tick and of noticing the lost connection). The network
owes nothing. LinuxCapture: the thread finishes its handlers; every turn of `run`
drains commands and reads ready descriptors (strong fairness of reading); the daemon
answers a terminal request; the kernel publishes whole frames. Of the user nothing is
assumed: `ArmingCompletes` states its own condition, that the keys come up and the
pointer keeps moving. Daemon: the loop serves every ready source, the input thread
drains its commands and reaches a boundary, and the waits of the loop and of a hop
end, which `TERMINAL_SEND_TIMEOUT` gives; of actors, peers and the network nothing.
So what LinuxCapture assumes of the daemon is what `ReleaseIsAnswered` shows of it.

## Disagreements

Two runs show the code doing something other than what its comments or documents
say; `PROJECT.json` quotes the lines.

- **RefusedClose**: a close whose terminal anchor still moves the pointer is not a
  "safety release", so a full runtime queue may refuse it; the receiver engine has
  already let go of the activation and nobody releases the keys. The other runs set
  `RejectClosing = FALSE` to look past this.
- **EscapeLost**: the emergency combination during a crossing that a new layout is
  already ending is recorded by the disarmed observer, and the pause is never taken.

Seen while modelling, described here rather than run:

- *Own dial wins.* When both computers dial at once and this one's dial wins, its session
  takes the accepted one's place before that one's Closed event has been handled, so keys
  its peer pressed are still down while another peer may be admitted. Where an accepted
  session replaces another the code waits, so that "its close releases what it held before
  the new one is registered" (daemon.rs:1067). SessionsFollowPolicy is checked and proved
  for `Wins = {}`; `PolicyHolds` proves what is true for any `Wins`. A dialled session that ended
  after its negotiation and whose Closed event is already handled is registered all the
  same, and nothing takes it out (`NoDeadSession` of Daemon, in no run, fails).
- *GrabRace* (`LocalSeesReleases` of LinuxCapture): a key pressed before the grab of its
  node and released before the second check passes both checks, and the local desktop
  keeps it down. *RemapperHeldKey*: a key held on a remapper's source device when the
  activation is requested is tracked as held for ever, so arming by the chord never ends;
  `ArmingCompletes` excepts it.
- *Overflow.* On an anchor whose difference overflows the receiver closes the activation,
  then `rebase` fails in `apply_control` with the same overflow and the releases are never
  emitted (core/playout.rs:462 speaks of a rejection). It takes 2^63 units of motion, and is why
  the theorems below have `NoOverflow` or except `sinkEnd = "invalid"`.
- *Names of layouts.* Of two layouts with one version and one editor neither is newer, so computers
  that keep different ones never come together. Two things give a name twice. `FitPeerTile`
  (windows/engine.rs:944-955): Windows writes the size of a computer that just connected as a
  version with that computer as its editor, which desktop.rs:360-364 reserves for the editor
  itself. And a restart: a layout is kept, and sent to whoever connects, whether or not it is
  saved (daemon.rs:737-762, where the lock is gone before the save, and a failed save only warns);
  one that was not saved, or whose save came before that of an older one, may be known to others
  while its editor restores the older one and numbers its next edit the same.
  `VersionNamesLayout` is checked and proved for every other name (`twice` records these).
- *Windows sends nothing when its save fails* (windows/engine.rs:330-339): the error leaves before
  the sessions are told, although the new layout is kept. `ConnectedAgree` excepts the pairs it
  then owes (`untold`) until a later save or session tells them.
- An automatic first layout gets version 1 although the comment by daemon.rs:818 means it to lose
  against any edit.
- *The receiver's clock* starts when its session is ready (session.rs:416). A motion frame captured
  before that, by a source whose own session was ready earlier, is mapped from its arrival at first; the first
  echo replaces that bootstrap, the stored frame then maps below zero (session/receive.rs:203-211,
  core/clock.rs:208), and the session ends. `NeverBroken` allows the error for such a frame
  only, and the run starts receivers before and after the activation, so that it occurs.
- *Negotiated limits* (`AcksBeatLease` of Transport, in no run): a configuration keeps the playout
  delay under half of its own lease, because acknowledgements wait for playout
  (session.rs:71-80); the lease that is negotiated is the smaller of two and may be less.
- A touchpad's motion starts after 0.5 mm, and a tap may travel 1.3 mm, so a tap can move the
  pointer (linux/touchpad.rs:26-38). A copy that the viewed computer refuses ends the whole lens.
  A record none of whose addresses is usable fails to parse. Windows lists records with no
  usable address (windows/engine.rs:911-923). A clipboard's memory of what a peer has is never
  cleared. A timeout of AWDL's `down()` leaves a request whose answer nobody reads. After an
  emergency pause whose save failed the settings draft keeps sharing off.

## Proofs

Eight modules of proofs, checked by `tlapm` for every value of the constants. The
constants' assumptions are the ASSUMEs of the modules, which TLC evaluates in every
run; what a theorem assumes beyond them is in its statement and in this table.

| Module | Theorem | States |
|---|---|---|
| LinuxCaptureProofs | GrabsMatch, TerminalNeverLost, PeerMatches | `[]` GrabsMatchPhase, NoLostTerminal, PeerMatchesPhase |
| | KeepsItsDevices, NeutralGrab | ActivationKeepsItsDevices, GrabOnlyWhenNeutral |
| | TrackedMatches, TypeCorrect | `[]` TrackedMatchesKernel, TypeOK |
| | RefinesPort | ImplementsPort: the input thread is a RuntimePort |
| InputSessionProofs | SessionTypes, HeldLeased | `[]TypeOK`, `[]HeldIsLeased` |
| | NothingStuck | NoStuckInput unless the sink ended as invalid, if `RejectClosing = FALSE` |
| InputStreamProofs | HeldIsPrefix, SenderHoldsUnion, DevicesMerged | what the receiver holds is a prefix of what the sender held, the union of its devices |
| | NeverViolated | neither end is ever sent what the protocol forbids |
| | NeverApart | NeverDesynchronised, under `[]NoOverflow` |
| | NeverStuck | NoStuckInput, under `[]NoOverflow` and `RejectClosing = FALSE` |
| | AcknowledgedIsApplied, LedgersAgree, ButtonsInPlace | AckedMeansApplied, BaselinesAgree, ButtonsArePlaced |
| | ExactWhenLeft | an orderly leave is exact unless the sink ended as invalid, if `RejectClosing = FALSE` |
| | NothingLost | MotionIsExact, under `[]NoOverflow` and `RejectClosing = FALSE` |
| DaemonProofs | InputHasAPlace, ControlledSendsNothing | InputGoesSomewhere, NoSendWhileControlled |
| | OneComputerIsActive, DaemonTypes | OneActivation, `[]TypeOK` |
| | PolicyHolds | the policy half of SessionsFollowPolicy for any `Wins`, and the rest of it for every peer outside `Wins` |
| | PolicyIsFollowed | SessionsFollowPolicy, if `Wins = {}` |
| MacsProofs | ControlIsHeldTogetherAlways | ControlIsHeldTogether: the receiving side and the injector |
| | LinksKeepTheirOwnAlways | LinksKeepTheirOwn |
| ScreensProofs | CrossingsExclude | CrossingsAreExclusive |
| | EngineStaysConsistent | EngineIsConsistent, for any number of Windows peers |
| PlumbingProofs | SeatDecidesAlways, WindowIsForOneAlways | SeatDecides, WindowIsForOne |
| | RadioComesBackAlways | RadioComesBack |
| | ComputersAreFoundAlways | ComputersAreFound: links, the app's browser and advertiser, discovery |
| | WireServesBothAlways | WireServesBoth |
| | DevicesHoldPeersInputAlways | DevicesHoldPeersInput, its action property included |
| | GesturesComeOutWholeAlways | GesturesComeOutWhole |
| | ClipsDoNotBounceAlways | ClipsDoNotBounce |
| SharedLayoutProofs | LayoutConvergesAlways | LayoutConverges, for any network of computers |

The theorems of the composites are about `MCSpec`: a step runs one part and leaves the
variables of the others alone (`OnePartRuns`), so each part's induction is its own.

Assumptions that carry more than a type: `RecordsAssumption` (a record of
zflow parses and says its version, any other does not, and a computer lists a usable address);
`VirtualAssumption` and `TouchpadAssumption` (contacts and slots are finitely many, contacts
numbered from one); `TransportAssumption` (both configurations are within the bounds the
code checks before it offers them); `ClipsAssumption` (a clip is none of the other outcomes
of a read).

`RejectClosing = FALSE` and `Wins = {}` exclude the two disagreements above, and
nothing else. `NoOverflow` says that the sender's total and the playout's
position stay in the middle half of their width: in the code 2^62 units of motion.
It bounds playout too because a poll may run past its target: it plays a limited
part of a backlog and the whole newest sample.

### Why the properties are not inductive, and what is

*LinuxCapture.* After `GrabSucceeded` the grabbed nodes must be all of the own ones,
which follows only from what is known in the middle of `grab_all`. `GrabInProgress`
says that: inside it the phase is Arming, a grab is pending, nothing is pressed as
tracked, no device is inside a frame, and grabbed and still-to-do nodes make up the
own nodes. `OwnershipInv` joins it to the three safety invariants. Type correctness
is an induction of its own (`TypeInv`: a batch under way has frames left). Tracking is
about sequences of events: lemmas say what `Observe` makes of a run of events that is
appended to, cut in two, or observed again after a resync, by a key's last event in
the run. The refinement is one step per action: it maps to a step of RuntimePort or
changes nothing there, which uses `OwnershipInv` for what is grabbed in each phase.

*InputSession.* `TypeInv` adds to the types what a control in flight must look like;
`LeaseInv` that the time a handler read is not ahead of the clock. `StuckInv` ties the
backend to the receiver through the batch that waits: applying it will make them
agree, and whatever may still be refused belongs to an open activation, which the
cleanup closes. The stream needs the most: `StreamInv` (`Flow`) says that the controls
under way, in the stream or deferred, *continue* what the receiver applied: their
sequences are gapless, their activations never go back, each is one the sender could
send in the held state the one before leaves (`Chain`), the last leads to what the
sender holds now, and every frame under way belongs where its watermark says.
`PhaseInv` says which handler may be under way, `UnionInv` that the sender holds what some
device holds, `AckInv` that every snapshot and acknowledgement under way is still
recorded at the source, `TotalsInv` that anchors and frames under way are within
reach of both ends. For motion, `ShownInv` orders what was acknowledged, applied and
shown; `LedgerInv` says that playout, receiver and backend are level, or will be when
the batch that waits is applied, and where a button is pressed; `LeaveInv` the same
for the source's last anchor.

*Daemon.* `RouteInv` follows each capture through the event queue: between two opens
there is a close (`ClosedBetween`), an activation under way is live or reported closed
(`HeldOrClosed`), nothing newer than a grab is queued while it is held
(`GrabIsNewest`), and devices taken with no activation have a Remote event or a
release on its way (`HereInv`). `SessionInv` says what the map, the active activation,
the waiting task and each queued event know of a session; OneActivation is inductive
only with it, since an End in an actor's queue or a Closed event on its way is what
settles an activation. `ControlInv` says who controls this computer: a session with
an inbound activation is the owner, and one whose keys are down controls still, unless
this computer's own dial took its place. `RestInv` completes the types.

*MacsProofs.* Receiving: one link of a session has the claim, the ownership names it, and a
session has at most one command on its way (`LinksInv`, `CommandsInv`). What is down was
pressed by somebody who is still the owner, or a release stands in the queue before
anybody else presses (`PressesInv`): that is how the queue and the keys agree although the
claim is given up before the release is applied. Injecting: what was posted is what the
remap injects, each code counted once for each usage that holds it (`PostsInv`), and a held
Ctrl or Cmd key stands for one usage (`ChosenInv`). Links: the guard against two
crossings is in one place, in one command or with the crossing that runs, the capture goes
with it (`GuardInv`), and a reserved desktop belongs to the crossing, to the hop command
that carries it, or to a finish on its way (`DesksInv`).

*ScreensProofs.* Crossings: the commands of a source end in a release or are none outside a
crossing, and hold at most the one to activate inside (`CommandsEnd`); each lease keeps
other takers out (`LeasesExclude`). The Windows engine: a session that lives is a link or
its opening is still unheard, nothing is asked of a session before it is heard of, whatever
uses a session uses a link, and a prepared desktop is in use, in an answer or in an end on
its way.

*PlumbingProofs*, part by part. Seat: without a signal since its first read, an inspection
has read the seat as it is; a grace starts no later than the state became unknown. Window:
the file and the phase agree, and whoever said hello is remembered or the table turned one
away. AWDL: the
lock says who talks with the helper, and a lease nobody wants has the last user's restore
still to come. Links: a task that sleeps without news sleeps on the present view, and only
one that waits to dial shows a failure. Browser and advertiser: whatever lives is what the
app reads and would stop. Discovery: a record heard by the present browser is listed as it
says, unless it is this computer's own, unreachable, or the list was full. Wire: a stream
alternates lengths and payloads, the first length perhaps taken already, and its messages
are numbered from what was consumed to what was sent; so both ends select one schema; and a
pump that found nothing has a permit if something came since. Devices: slots and contacts
that are down are in bijection, also between the two reports of a replacement; owners of an
output key are held keys, and what is bound is injected. Pad: the changes of its button
alternate from where the last report left the switch, and a gesture's remainder is what
its counts lack. Clipboard: a pair has one live task, or one clip on its way, or neither
and then agrees; a note that is still to be taken is of this content or of an older one.

*SharedLayoutProofs.* What a computer keeps is, for each connected computer, owed, owed
once it is saved, carried, about to be kept there, known there, or among what Windows did
not send (`FlowInv`); what is in a queue or about to be kept for a peer is no newer than
what its sender keeps (`NoNewerInv`), so a layout that is turned down is answered by a newer
one; a name outside `twice` is one layout's in the whole system, wherever it is kept,
saved, owed or carried (`NamesInv`); and nothing a computer saves is older than the layout
it started with (`FirstInv`), so that a restart before the first save forgets no more than
`twice` says.

### Only model-checked

- Liveness (HeldInputIsGivenUp, SnapshotResolves, ReleasingEnds, ArmingCompletes,
  ReleaseIsAnswered, InputComesBack): the proof system does not reason about fairness
  or ENABLED.
- BothEndsAgree is about two instances with fixed constants; DevicesMerged, NothingLost
  and AcknowledgedIsApplied state its parts for all.
- ScreensStayReachable (the board of Tiles, of recursive geometry) and
  PointerLandsWhereShown (routes, and rounding over quotients): induction over data and
  nonlinear arithmetic.
- SharingDoesAsMeant: a crossing is judged by a fold over the motion recorded so far, and its
  release by how far two timers are apart.
- LensIsFaithful: the encoder's background scan is a fold over the tiles it visits, which
  needs induction over data.
- TimingHolds: the sample window, the percentile of delays and the rounding of midpoints.
- OneController and HeldIsReleased for peers in `Wins`, which do not hold.

## Not modelled

The hello exchange (one bounded request), configuration, identity and the command line
(parsing and files), and the desktop applications (windows and requests). Inside the
modelled components: the arithmetic of the clock fit and of adaptive delay (their
outcome is left open), the tables of key codes, video and pixel formats, pointer
acceleration, clip formats, the text of statuses and statistics, the watchdog of the
input thread and chord tracking (whether a frame completes a chord is open). QUIC and
TLS, logind, mDNS, evdev and uinput, and the macOS and Windows input services are
external: they are modelled as what the code can see of them. Simplifications a reader
should know: a cross in Handoff starts with an empty command queue of its source;
a failed save leaves the file as it was (`save_text` renames);
what a Mac's app was sent of layouts is a set, not a queue; AWDL's drop outside a runtime
(macos/awdl.rs:327-329) is left out; Seat assumes that every change signals while the bus is up,
although a lock may change without one (linux/seat.rs:172); EdgeMap
assumes that a desktop's size is stable during a crossing, takes the outermost points
of two screens' contact for the barrier, and leaves out the receiver GNOME runs; losing the
accessibility permission after the edges are disarmed does not stop a crossing in MacApp.

## What is left

Every component of the inventory that keeps state is modelled and checked. A next step
would be an abstract remote keyboard (held state and pointer position, with "release
everything" as its only failure) that InputSession implements, from the invariants proved
here; and the properties above that only TLC checks.
