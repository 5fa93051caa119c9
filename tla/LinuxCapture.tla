---------------------------- MODULE LinuxCapture ----------------------------
(***************************************************************************)
(* The Linux input thread as the owner of the physical devices:            *)
(* SourceOwnership and AggregateInputState (linux/ownership.rs), CaptureSet *)
(* (linux/capture.rs) and the RuntimeLoop handlers that drive them         *)
(* (runtime/linux.rs), against a kernel whose key state moves on its own   *)
(* and a daemon that sends commands.                                       *)
(*                                                                         *)
(* The thread runs one handler at a time: pc is "loop" between handlers,    *)
(* "frames" while a batch of captured frames is handled, "advance" in       *)
(* advance_ownership_boundary, and "check", "grab" in grab_all, whose      *)
(* system calls interleave with the user's keys.                           *)
(*                                                                         *)
(* Abstractions.  A physical action is one key event and its SYN_REPORT; a *)
(* read drains what the kernel has published so far, any prefix of what is  *)
(* unread.  Whether a frame completes the escape chord is open, and so is  *)
(* whether a system call fails.  release_pending is left out: the code sets *)
(* and clears it within one step.                                          *)
(***************************************************************************)
EXTENDS Integers, Sequences, FiniteSets

CONSTANTS Devices, Keys,
          Contacts,      \* keys that only say a finger or tool touches a pad
          Foreign,       \* devices another program has grabbed, as keyd does
          SkipBusy,      \* capture_devices is empty: busy nodes are skipped
          BoundaryWrap,  \* boundary_generation wraps at this value (2^64)
          MaxAsked,      \* room for TerminalRequested in the event queue
          MaxUnread      \* bound on unread events of one device

ASSUME CaptureAssumption ==
  /\ Contacts \subseteq Keys
  /\ Foreign \subseteq Devices
  /\ SkipBusy \in BOOLEAN
  /\ BoundaryWrap \in Nat \ {0}
  /\ MaxAsked \in Nat /\ MaxUnread \in Nat

VARIABLES
  phase, grabPending, terminalPending, transition, lastBoundary,
                     \* SourceOwnership
  held, partial, boundary,
                     \* AggregateInputState: held keys, devices in a frame
  nodes, grabbed,    \* CaptureSet: open nodes, the ones this process grabbed
  complete,          \* capture_selection_complete
  peer,              \* selected_peer is Some
  pc, frames, todo,  \* the thread: frames left in the batch, nodes left to grab
  asked,             \* TerminalRequested events the daemon has not answered
  kernel, unread,    \* the devices' key state, events this process has not read
  local              \* what the other readers of a device believe is held

ownership == <<phase, grabPending, terminalPending, transition, lastBoundary>>
aggregate == <<held, partial, boundary>>
capture == <<nodes, grabbed>>
world == <<kernel, local>>
vars == <<ownership, aggregate, capture, complete, peer, pc, frames, todo, asked, world, unread>>

Phases == {"Idle", "Arming", "Remote", "Releasing"}
SYN == [key |-> "SYN_REPORT"]
NothingHeld == [d \in Devices |-> {}]

Init ==
  /\ phase = "Idle" /\ grabPending = FALSE
  /\ terminalPending = FALSE /\ transition = FALSE /\ lastBoundary = 0
  /\ held = NothingHeld /\ partial = {} /\ boundary = 0
  /\ nodes = Devices /\ grabbed = {} /\ complete = TRUE /\ peer = FALSE
  /\ pc = "loop" /\ frames = 0 /\ todo = {} /\ asked = 0
  /\ kernel = NothingHeld /\ local = NothingHeld
  /\ unread = [d \in Devices |-> <<>>]

-----------------------------------------------------------------------------
(* CaptureSet and AggregateInputState *)

(* nothing_pressed and kernel_is_neutral *)
NothingPressed == \A d \in nodes : held[d] \subseteq Contacts
KernelNeutral == \A d \in nodes : kernel[d] \subseteq Contacts

AllAtBoundary == partial = {}

(* suspend: every descriptor is closed, and with it every grab. *)
Suspend ==
  /\ nodes' = {} /\ grabbed' = {}
  /\ held' = NothingHeld /\ partial' = {} /\ boundary' = 0
  /\ unread' = [d \in Devices |-> <<>>]

(* Mutant: the nodes stay grabbed. *)
UngrabOrSuspend_Forgets == UNCHANGED <<capture, aggregate, unread>>

(* ungrab_all, and suspend when an ungrab fails *)
UngrabOrSuspend ==
  \/ grabbed' = {} /\ UNCHANGED <<nodes, aggregate, unread>>
  \/ grabbed # {} /\ Suspend

-----------------------------------------------------------------------------
(* SourceOwnership *)

Ended ==
  /\ phase' = "Idle" /\ grabPending' = FALSE /\ terminalPending' = FALSE
  /\ transition' = FALSE
  /\ UNCHANGED lastBoundary

(* force_source_release: from Remote or Releasing the grabs go at once. *)
ForceRelease ==
  IF phase = "Idle" THEN UNCHANGED <<ownership, peer, aggregate, capture, unread>>
  ELSE /\ Ended
       /\ peer' = FALSE
       /\ IF phase = "Arming" THEN UNCHANGED <<aggregate, capture, unread>>
                              ELSE UngrabOrSuspend

(* Mutant: a full queue is not noticed. *)
RequestTerminal_IgnoresFullQueue ==
  /\ phase' = "Releasing" /\ transition' = TRUE /\ terminalPending' = TRUE
  /\ asked' \in {asked} \cup {n \in {asked + 1} : n <= MaxAsked}
  /\ UNCHANGED <<grabPending, lastBoundary, peer, aggregate, capture, unread>>

(* request_release(true) from Remote, then queue_terminal_or_fail_closed: the *)
(* event queue may be full at any time, and then the grabs are dropped now.   *)
RequestTerminal ==
  \/ /\ asked < MaxAsked
     /\ asked' = asked + 1
     /\ phase' = "Releasing" /\ transition' = TRUE /\ terminalPending' = TRUE
     /\ UNCHANGED <<grabPending, lastBoundary, peer, aggregate, capture, unread>>
  \/ ForceRelease /\ UNCHANGED asked

Continue == pc' = IF frames' > 0 THEN "frames" ELSE "loop"

-----------------------------------------------------------------------------
(* Commands of the daemon *)

(* activate: refused while the selection is incomplete or not Idle *)
Activate ==
  /\ pc = "loop"
  /\ complete /\ nodes # {} /\ phase = "Idle"
  /\ phase' = "Arming" /\ transition' = TRUE
  /\ held' = [d \in Devices |-> IF d \in nodes THEN kernel[d] ELSE held[d]]
  /\ peer' = TRUE
  /\ pc' = "advance"
  /\ UNCHANGED <<grabPending, terminalPending, lastBoundary, partial, boundary,
                 capture, complete, frames, todo, asked, world, unread>>

(* release(true) *)
ReleaseLive ==
  /\ pc = "loop"
  /\ \/ /\ phase = "Arming"
        /\ Ended /\ peer' = FALSE
        /\ UNCHANGED <<aggregate, capture, asked, unread>>
     \/ phase = "Remote" /\ RequestTerminal
     \/ /\ phase \in {"Idle", "Releasing"}
        /\ UNCHANGED <<ownership, peer, aggregate, capture, asked, unread>>
  /\ pc' = "advance"
  /\ UNCHANGED <<complete, frames, todo, world>>

(* release(false) *)
ReleaseLost ==
  /\ pc = "loop"
  /\ ForceRelease
  /\ UNCHANGED <<complete, pc, frames, todo, asked, world>>

(* Mutant: the boundary already seen is not looked at again. *)
TerminalConfirmed_WaitsForInput ==
  terminalPending' = FALSE /\ UNCHANGED <<phase, grabPending, lastBoundary, transition>>

TerminalConfirmed ==
  /\ terminalPending' = FALSE /\ transition' = TRUE
  /\ UNCHANGED <<phase, grabPending, lastBoundary>>

(* terminal_sent: the daemon answers a TerminalRequested.  An answer that   *)
(* comes after the activation was closed another way changes nothing.      *)
TerminalSent ==
  /\ pc = "loop" /\ asked > 0
  /\ asked' = asked - 1
  /\ \/ ForceRelease /\ UNCHANGED pc
     \/ /\ phase = "Releasing" /\ terminalPending
        /\ TerminalConfirmed
        /\ pc' = "advance"
        /\ UNCHANGED <<peer, aggregate, capture, unread>>
     \/ /\ ~(phase = "Releasing" /\ terminalPending)
        /\ UNCHANGED <<ownership, peer, aggregate, capture, unread, pc>>
  /\ UNCHANGED <<complete, frames, todo, world>>

(* stop_all *)
Stop ==
  /\ pc = "loop"
  /\ Suspend
  /\ IF phase = "Idle" THEN UNCHANGED <<ownership, peer>> ELSE Ended /\ peer' = FALSE
  /\ pc' = "stopped"
  /\ UNCHANGED <<complete, frames, todo, asked, world>>

-----------------------------------------------------------------------------
(* Rescan and reload *)

(* Mutant: a node joins as if nothing were held on it. *)
TakesIn_Neutral(d) == {}

(* open_one takes a node in with the keys the kernel says it holds. *)
TakesIn(d) == kernel[d]

(* reconcile: of the nodes still open the unselected ones are closed; new    *)
(* ones join only while nothing is grabbed.                                  *)
Reconcile(open, selected, mayJoin) ==
  LET stays == open \cap selected
      joins == IF mayJoin THEN selected \ open ELSE {}
  IN  /\ nodes' = stays \cup joins
      /\ held' = [d \in Devices |-> IF d \in joins THEN TakesIn(d)
                                   ELSE IF d \in stays THEN held[d] ELSE {}]
      /\ partial' = partial \cap stays
      /\ unread' = [d \in Devices |-> IF d \in stays THEN unread[d] ELSE <<>>]

(* Mutant: a node that disappears while grabbed leaves the activation open. *)
MustClose_OnlyIncomplete(selected) == selected = {} /\ phase # "Idle"

(* Either an incomplete selection or a lost grabbed node closes the          *)
(* activation (selection_loss_closes_activation, activation_must_close).     *)
MustClose(selected) ==
  \/ selected = {} /\ phase # "Idle"
  \/ grabbed # {} /\ ~(nodes \subseteq selected)

(* rescan with a selection that opens.  capture_set() is empty unless the   *)
(* selection is complete.                                                  *)
Rescan ==
  /\ pc = "loop"
  /\ \E selected \in SUBSET Devices :
       /\ complete' = (selected # {})
       /\ IF MustClose(selected)
            THEN Ended /\ peer' = FALSE /\ grabbed' = {} /\ Reconcile(nodes, selected, TRUE)
            ELSE /\ UNCHANGED <<ownership, peer>>
                 /\ grabbed' = grabbed \cap selected
                 /\ Reconcile(nodes, selected, grabbed = {})
  /\ UNCHANGED <<boundary, pc, frames, todo, asked, world>>

(* A node that cannot be opened, registered or ungrabbed closes the whole    *)
(* set.  The first two need a selection to open.                             *)
RescanFails ==
  /\ pc = "loop"
  /\ Suspend
  /\ IF phase = "Idle" THEN UNCHANGED <<ownership, peer>> ELSE Ended /\ peer' = FALSE
  /\ complete' \in BOOLEAN /\ (complete' \/ grabbed # {})
  /\ UNCHANGED <<pc, frames, todo, asked, world>>

(* reload: release first, then rescan with the new selectors.  After an      *)
(* ungrab that failed every node is opened anew.                             *)
Reload ==
  /\ pc = "loop"
  /\ IF phase = "Idle" THEN UNCHANGED <<ownership, peer>> ELSE Ended /\ peer' = FALSE
  /\ grabbed' = {}
  /\ \E selected \in SUBSET Devices :
       /\ complete' = (selected # {})
       /\ \/ Reconcile(nodes, selected, TRUE) /\ UNCHANGED boundary
          \/ grabbed # {} /\ Reconcile({}, selected, TRUE) /\ boundary' = 0
  /\ UNCHANGED <<pc, frames, todo, asked, world>>

(* reload released, but then the new virtual device or the device list could *)
(* not be had (the capture set stays), or a node could not be opened.        *)
ReloadFails ==
  /\ pc = "loop"
  /\ IF phase = "Idle" THEN UNCHANGED <<ownership, peer>> ELSE Ended /\ peer' = FALSE
  /\ \/ UngrabOrSuspend /\ UNCHANGED complete
     \/ Suspend /\ complete' = TRUE
  /\ UNCHANGED <<pc, frames, todo, asked, world>>

-----------------------------------------------------------------------------
(* Reading devices *)

(* observe, for every event of a batch *)
Observe(h, events) ==
  LET down == {i \in DOMAIN events : events[i] # SYN /\ events[i].down}
      up == {i \in DOMAIN events : events[i] # SYN /\ ~events[i].down}
      Last(k, is) == \E i \in is : /\ events[i].key = k
                                   /\ \A j \in down \cup up :
                                        j > i => events[j].key # k
  IN  {k \in Keys : Last(k, down) \/ (k \in h /\ ~Last(k, up))}

Reports(events) == Cardinality({i \in DOMAIN events : events[i] = SYN})

(* Mutant: an increment that does not wrap. *)
NextBoundary_NoWrap(events) == boundary + Reports(events)

NextBoundary(events) == (boundary + Reports(events)) % BoundaryWrap

(* read_ready and map_events: the aggregate sees the whole batch before the  *)
(* first of its frames is handled.                                           *)
ReadReady ==
  /\ pc = "loop"
  /\ \E d \in nodes : \E n \in 1 .. Len(unread[d]) :
       LET events == SubSeq(unread[d], 1, n)
       IN  /\ unread' = [unread EXCEPT ![d] = SubSeq(@, n + 1, Len(@))]
           /\ held' = [held EXCEPT ![d] = Observe(@, events)]
           /\ partial' = IF events[n] = SYN THEN partial \ {d} ELSE partial \cup {d}
           /\ boundary' = NextBoundary(events)
           /\ frames' = Reports(events)
  /\ Continue
  /\ UNCHANGED <<ownership, capture, complete, peer, todo, asked, world>>

(* A read finds the node gone: the grabs go with it. *)
DeviceRemoved ==
  /\ pc = "loop"
  /\ \E d \in nodes :
       \/ /\ nodes' = nodes \ {d} /\ grabbed' = {}
          /\ held' = [held EXCEPT ![d] = {}] /\ partial' = partial \ {d}
          /\ unread' = [unread EXCEPT ![d] = <<>>]
          /\ UNCHANGED boundary
       \/ phase \in {"Remote", "Releasing"} /\ Suspend
  /\ IF phase = "Idle" THEN UNCHANGED <<ownership, peer>> ELSE Ended /\ peer' = FALSE
  /\ UNCHANGED <<complete, pc, frames, todo, asked, world>>

(* Any other read error, SYN_DROPPED included, closes the capture set. *)
ReadFails ==
  /\ pc = "loop" /\ nodes # {}
  /\ Suspend
  /\ IF phase = "Idle" THEN UNCHANGED <<ownership, peer>> ELSE Ended /\ peer' = FALSE
  /\ UNCHANGED <<complete, pc, frames, todo, asked, world>>

(* handle_captured_frame: in Remote a frame either completes the escape      *)
(* chord, is forwarded, or finds the capture queue full.                     *)
HandleFrame ==
  /\ pc = "frames"
  /\ frames' = frames - 1
  /\ \/ phase = "Remote" /\ RequestTerminal
     \/ phase = "Remote" /\ ForceRelease /\ UNCHANGED asked
     \/ UNCHANGED <<ownership, peer, aggregate, capture, asked, unread>>
  /\ pc' = "advance"
  /\ UNCHANGED <<complete, todo, world>>

-----------------------------------------------------------------------------
(* advance_ownership_boundary *)

BoundaryPassed == AllAtBoundary /\ (boundary # lastBoundary \/ transition)

(* kernel_is_neutral failed while arming *)
InspectFails ==
  /\ pc = "advance" /\ phase = "Arming"
  /\ Ended /\ peer' = FALSE
  /\ UNCHANGED frames /\ Continue
  /\ UNCHANGED <<aggregate, capture, complete, todo, asked, world, unread>>

(* Mutant: a finger on the pad counts as a press. *)
MayAcquire_Neutral == phase = "Arming" /\ \A d \in nodes : held[d] \cup kernel[d] = {}

MayAcquire == phase = "Arming" /\ NothingPressed /\ KernelNeutral

MayRelease == phase = "Releasing" /\ ~terminalPending

(* at_complete_boundary has nothing to do yet *)
BoundaryWaits ==
  /\ pc = "advance"
  /\ ~(BoundaryPassed /\ (MayAcquire \/ MayRelease))
  /\ IF BoundaryPassed THEN lastBoundary' = boundary /\ transition' = FALSE
                       ELSE UNCHANGED <<lastBoundary, transition>>
  /\ UNCHANGED frames /\ Continue
  /\ UNCHANGED <<phase, grabPending, terminalPending, aggregate, capture,
                 complete, peer, todo, asked, world, unread>>

AcquireGrabs ==
  /\ pc = "advance" /\ BoundaryPassed /\ MayAcquire
  /\ lastBoundary' = boundary /\ transition' = FALSE
  /\ grabPending' = TRUE
  /\ pc' = "check" /\ todo' = nodes
  /\ UNCHANGED <<phase, terminalPending, aggregate, capture, complete, peer,
                 frames, asked, world, unread>>

(* ReleaseGrabs and release_completed *)
ReleaseGrabs ==
  /\ pc = "advance" /\ BoundaryPassed /\ MayRelease
  /\ lastBoundary' = boundary
  /\ phase' = "Idle" /\ terminalPending' = FALSE
  /\ transition' = FALSE
  /\ peer' = FALSE
  /\ UngrabOrSuspend
  /\ UNCHANGED frames /\ Continue
  /\ UNCHANGED <<grabPending, complete, todo, asked, world>>

-----------------------------------------------------------------------------
(* grab_all: a check, the transaction, a second check *)

(* Mutant: the peer of the failed activation stays selected. *)
GrabFailed_KeepsPeer ==
  /\ Suspend
  /\ phase' = "Idle" /\ grabPending' = FALSE /\ todo' = {}
  /\ UNCHANGED frames /\ Continue
  /\ UNCHANGED <<peer, terminalPending, transition, lastBoundary, complete, asked, world>>

GrabFailed ==
  /\ Suspend
  /\ phase' = "Idle" /\ grabPending' = FALSE /\ peer' = FALSE /\ todo' = {}
  /\ UNCHANGED frames /\ Continue
  /\ UNCHANGED <<terminalPending, transition, lastBoundary, complete, asked,
                 world>>

CheckBefore ==
  /\ pc = "check" /\ KernelNeutral
  /\ pc' = "grab"
  /\ UNCHANGED <<ownership, aggregate, capture, complete, peer, frames, todo, asked, world,
                 unread>>

(* grab_transaction, one node at a time *)
GrabOne ==
  /\ pc = "grab"
  /\ \E d \in todo :
       /\ todo' = todo \ {d}
       /\ \/ d \notin Foreign /\ grabbed' = grabbed \cup {d}
          \/ d \in Foreign /\ SkipBusy /\ UNCHANGED grabbed
  /\ UNCHANGED <<ownership, aggregate, nodes, complete, peer, pc, frames, asked, world, unread>>

(* Mutant: what happened during the ioctls does not matter. *)
StaysNeutral_Unchecked == TRUE

(* The second check: an input racing the ioctl must roll everything back. *)
StaysNeutral == KernelNeutral

(* Mutant: skipping every node is a success. *)
SomeGrabbed_Unchecked == TRUE

SomeGrabbed == grabbed # {}

GrabSucceeded ==
  /\ pc = "grab" /\ todo = {} /\ SomeGrabbed /\ StaysNeutral
  /\ phase' = "Remote" /\ grabPending' = FALSE
  /\ UNCHANGED frames /\ Continue
  /\ UNCHANGED <<terminalPending, transition, lastBoundary, aggregate, capture,
                 complete, peer, todo, asked, world, unread>>

(* A pressed key, a busy node that may not be skipped, a failing ioctl *)
GrabFails == pc \in {"check", "grab"} /\ GrabFailed

-----------------------------------------------------------------------------
(* The user and the kernel.  A grabbing process is the only reader of what   *)
(* happens next; everybody else keeps believing what they saw last.          *)
KeyEvent ==
  \E d \in Devices, k \in Keys :
    LET down == k \notin kernel[d]
        now == IF down THEN kernel[d] \cup {k} ELSE kernel[d] \ {k}
    IN  /\ Len(unread[d]) + 2 <= MaxUnread
        /\ kernel' = [kernel EXCEPT ![d] = now]
        /\ local' = IF d \in grabbed THEN local ELSE [local EXCEPT ![d] = now]
        /\ unread' = IF d \in nodes \ Foreign
                       THEN [unread EXCEPT ![d] = @ \o <<[key |-> k, down |-> down], SYN>>]
                       ELSE unread
        /\ UNCHANGED <<ownership, aggregate, capture, complete, peer, pc, frames, todo, asked>>

(* A pointer moves: a frame without a key. *)
PointerFrame ==
  \E d \in nodes \ (Foreign \cup partial) :
    /\ unread[d] = <<>> /\ MaxUnread > 0
    /\ unread' = [unread EXCEPT ![d] = <<SYN>>]
    /\ UNCHANGED <<ownership, aggregate, capture, complete, peer, pc, frames, todo, asked, world>>

Stopped == pc = "stopped" /\ UNCHANGED vars

Commands == Activate \/ ReleaseLive \/ ReleaseLost \/ TerminalSent \/ Stop
              \/ Reload \/ ReloadFails
Reads == ReadReady \/ DeviceRemoved \/ ReadFails \/ Rescan \/ RescanFails
Thread == HandleFrame \/ InspectFails \/ BoundaryWaits \/ AcquireGrabs \/ ReleaseGrabs
            \/ CheckBefore \/ GrabOne \/ GrabSucceeded \/ GrabFails

Next == Commands \/ Reads \/ Thread \/ KeyEvent \/ PointerFrame \/ Stopped

Spec == Init /\ [][Next]_vars

(* A handler runs to its end.  Every turn of run() drains the command queue  *)
(* and reads the ready descriptors, and finish_runtime_terminal answers      *)
(* within TERMINAL_SEND_TIMEOUT; the kernel publishes whole frames, so some  *)
(* read leaves no device inside one.                                         *)
WholeRead(d) == ReadReady /\ unread'[d] # unread[d] /\ d \notin partial'

Fairness ==
  /\ WF_vars(Thread)
  /\ SF_vars(TerminalSent)
  /\ \A d \in Devices : SF_vars(WholeRead(d))
  /\ SF_vars(ReadReady /\ partial' = {})

FairSpec == Spec /\ Fairness

-----------------------------------------------------------------------------
(* Properties *)

Events == [key : Keys, down : BOOLEAN] \cup {SYN}

(* Every variable keeps its type. *)
TypeOK ==
  /\ phase \in Phases
  /\ grabPending \in BOOLEAN /\ terminalPending \in BOOLEAN /\ transition \in BOOLEAN
  /\ boundary \in 0 .. BoundaryWrap - 1 /\ lastBoundary \in 0 .. BoundaryWrap - 1
  /\ held \in [Devices -> SUBSET Keys] /\ partial \subseteq Devices
  /\ nodes \subseteq Devices /\ grabbed \subseteq Devices
  /\ complete \in BOOLEAN /\ peer \in BOOLEAN
  /\ pc \in {"loop", "frames", "advance", "check", "grab", "stopped"}
  /\ frames \in Nat /\ todo \subseteq Devices /\ asked \in 0 .. MaxAsked
  /\ kernel \in [Devices -> SUBSET Keys] /\ local \in [Devices -> SUBSET Keys]
  /\ unread \in [Devices -> Seq(Events)]

(* Physical input is taken from the local machine exactly while the phase    *)
(* says so: all of the nodes that are not another program's in Remote and    *)
(* Releasing, none in Idle and Arming but inside grab_all, whatever          *)
(* combination of failures, rescans and reloads ended the last activation.   *)
GrabsMatchPhase ==
  IF phase \in {"Remote", "Releasing"}
    THEN grabbed = nodes \ Foreign /\ grabbed # {}
    ELSE grabbed # {} => pc = "grab" /\ grabPending

(* A thread that waits for TerminalSent has a TerminalRequested under way:   *)
(* grabs are never held for an answer that nobody owes.                      *)
NoLostTerminal == terminalPending => phase = "Releasing" /\ asked > 0

(* The status the daemon reads names a peer exactly while an activation is    *)
(* open, on every one of the paths that end one.                             *)
PeerMatchesPhase == peer <=> phase # "Idle"

(* Once all of a device's events are read the tracked keys are the kernel's, *)
(* however the reads were cut and whenever the node was opened or resynced:  *)
(* neutrality is never decided on a key missed or a release lost.            *)
TrackedMatchesKernel ==
  \A d \in nodes \ Foreign : Observe(held[d], unread[d]) = kernel[d]

(* The capture set of a running activation never changes: a hotplugged node  *)
(* waits for the next one, and a node that goes takes the activation along.  *)
ActivationKeepsItsDevices ==
  [][phase = "Remote" /\ phase' = "Remote" => nodes' = nodes /\ grabbed' = grabbed]_vars

(* Remote is entered with every key up, for the kernel and as tracked, and   *)
(* with no device inside a frame, although the keys move during grab_all.    *)
GrabOnlyWhenNeutral ==
  [][phase # "Remote" /\ phase' = "Remote" =>
       KernelNeutral /\ NothingPressed /\ AllAtBoundary]_vars

(* The escape chord and a release give local input back although nothing is   *)
(* typed or moved afterwards.                                                *)
ReleasingEnds == phase = "Releasing" ~> phase # "Releasing"

(* SPEC.md's Arming: once the user holds no key and keeps moving a pointer,   *)
(* arming ends in a grab or a reported failure.  A key that was down on a    *)
(* remapper's source when the activation was requested is left out: no event *)
(* of that node ever arrives, so it stays tracked as held.                   *)
ArmingCompletes ==
  (/\ <>[](KernelNeutral /\ \A d \in Foreign : held[d] = {})
   /\ []<>(\E d \in nodes : unread[d] # <<>>))
    => (phase = "Arming" ~> phase # "Arming")

(* grab_all: "an input racing the ioctl causes full rollback".  So in Remote *)
(* nobody else believes that a key of a grabbed device is down.              *)
LocalSeesReleases ==
  phase = "Remote" => \A d \in grabbed : local[d] \subseteq Contacts

(* The input thread is what the daemon takes it for: seen from outside,      *)
(* whatever devices, keys and system calls do, an activation moves through   *)
(* the steps of RuntimePort, the devices are taken exactly from the grab to  *)
(* the end, and a confirmation answers a terminal still waited for.          *)
Port == INSTANCE RuntimePort WITH
          waiting <- terminalPending,
          captured <- grabbed # {} /\ pc # "grab"

ImplementsPort == Port!PortSpec
=============================================================================
