------------------------------- MODULE MacApp -------------------------------
(***************************************************************************)
(* When the Mac shares its input: the edge observer of the app              *)
(* (app/sharing.rs) and the app that arms, disarms and pauses it             *)
(* (app/native.rs). The person moves and pushes the pointer, switches        *)
(* sharing, edits the arrangement or the file; peers control this Mac and    *)
(* send layouts; a crossing's worker reports over a channel that the app     *)
(* reads once a tick. One edge of the desktop is shared, in parts; a tick of *)
(* the app is the unit of time.                                              *)
(***************************************************************************)
EXTENDS Integers, Sequences, SequencesExt

CONSTANTS
  PartPeer,          \* the peer past each part of the shared edge
  EDGE_PAUSE,        \* ticks the pointer rests on an edge with pause on
  HAND_BACK_QUIET,   \* ticks without motion that settle a hand-back
  HAND_BACK_GUARD,   \* ticks a peer that let go is not crossed to
  PauseAtEdges,      \* the values the setting may have
  MaxCrossings,      \* bound: crossings started
  MaxMacMoves        \* bound: switches, edits, layouts, displays and controls

ASSUME MacAppAssumption ==
  /\ {EDGE_PAUSE, HAND_BACK_QUIET, HAND_BACK_GUARD} \subseteq Nat \ {0}
  /\ PauseAtEdges \subseteq BOOLEAN /\ {MaxCrossings, MaxMacMoves} \subseteq Nat

VARIABLES
  mac,         \* NativeApp and its Observer
  pause,       \* Observer.pause_at_edges
  pointer,     \* where the pointer is: a part of the edge, "corner" or "inside"
  pushing,     \* motion for take_local_motion
  controlledBy,  \* the peer controlling this Mac, "none"
  displays,    \* the display geometry
  trusted,     \* Accessibility, as the window server knows it
  disk,        \* the configuration file: its sharing switch, and edits by hand
  released,    \* history: the peer that controlled last, ticks since it let go
  rested,      \* history: the part the pointer is on, ticks it has been there
  escaped,     \* history: the app read an Escape, and nobody switched sharing on since
  macMoves, crossings

macAppVars ==
  <<mac, pause, pointer, pushing, controlledBy, displays, trusted, disk, released, rested, escaped, macMoves, crossings>>

Parts == DOMAIN PartPeer
NoRun == [on |-> FALSE]
NewRun == [on |-> TRUE, told |-> FALSE, statuses |-> <<>>, closed |-> FALSE, returned |-> FALSE,
           failed |-> FALSE, cancelled |-> FALSE, finished |-> FALSE, displays |-> displays]

MacAppInit ==
  /\ mac = [enabled |-> FALSE, armed |-> 0, pauseRequested |-> FALSE, run |-> NoRun,
            previous |-> "none", resting |-> "none", since |-> 0, spent |-> FALSE,
            by |-> "none", byAge |-> 0, settling |-> -1,
            sharing |-> TRUE, opened |-> 0, paused |-> FALSE, accessibility |-> TRUE, retry |-> 0,
            layout |-> 1, arranged |-> 1]
  /\ pause \in PauseAtEdges /\ pointer = "inside" /\ pushing = FALSE /\ controlledBy = "none"
  /\ displays = 1 /\ trusted = TRUE /\ disk = [sharing |-> TRUE, edits |-> 0]
  /\ released = [peer |-> "none", age |-> HAND_BACK_GUARD] /\ rested = [at |-> "inside", age |-> 0]
  /\ escaped = FALSE /\ macMoves = 0 /\ crossings = 0

-----------------------------------------------------------------------------
(* Mutant: starting over also forgets the peer that just let go.             *)
RestartForgets(m) ==
  [m EXCEPT !.previous = "none", !.resting = "none", !.spent = FALSE, !.by = "none", !.settling = -1]

(* Approach::restart keeps a hand-back that is still settling.               *)
Restarted(m) == [m EXCEPT !.previous = "none", !.resting = "none", !.spent = FALSE]

(* Observer::stop and disarm: a stop also tells the crossing.                *)
Disarmed(m) == [Restarted(m) EXCEPT !.enabled = FALSE]
StopSharing(m) == [Disarmed(m) EXCEPT !.run = IF @.on THEN [@ EXCEPT !.told = TRUE] ELSE @]

(* restart and rearm of the app. *)
RestartApp(m) == [StopSharing(m) EXCEPT !.retry = 0]
Rearm(m) == IF m.enabled \/ m.run.on THEN [Disarmed(m) EXCEPT !.retry = 0] ELSE m

(* Mutant: a new layout leaves the observer armed with the old one.          *)
ShowsOnly(m) == [m EXCEPT !.layout = @ + 1, !.arranged = displays]

(* show_shared and arrange: a layout that changed is used from now on.       *)
NewLayout(m) == Rearm([m EXCEPT !.layout = @ + 1, !.arranged = displays])

(* save_config: refused when the file was edited since it was read.          *)
Saves(m) == m.opened = disk.edits

-----------------------------------------------------------------------------
(* record, for each status the worker sent.                                  *)
Recorded(m, status) ==
  CASE status = "returned" -> [m EXCEPT !.run.returned = TRUE]
    [] status = "stopped"  -> [m EXCEPT !.run.finished = TRUE]
    [] status = "cancelled" -> [m EXCEPT !.run.finished = TRUE, !.run.cancelled = @ \/ ~m.run.failed]
    [] status = "failed"   -> [m EXCEPT !.run.finished = TRUE, !.run.failed = TRUE]
    [] status = "escape"   -> [m EXCEPT !.pauseRequested = TRUE, !.enabled = FALSE]
    [] OTHER -> m

(* finish: a pointer that came back may push out again at once.              *)
FinishRun(m) ==
  [m EXCEPT !.run = NoRun, !.previous = "none", !.resting = "none", !.spent = @ /\ ~m.run.returned,
            !.by = "none", !.settling = -1]

(* watch_crossing: displays that changed stop the crossing and the sharing.  *)
Watched(m) ==
  LET read == FoldLeft(Recorded, m, m.run.statuses)
      kept == IF read.run.displays = displays THEN read
              ELSE [read EXCEPT !.enabled = FALSE, !.run.told = TRUE, !.run.failed = TRUE]
  IN IF ~m.run.on THEN m
     ELSE IF m.run.closed THEN FinishRun(kept) ELSE [kept EXCEPT !.run.statuses = <<>>]

-----------------------------------------------------------------------------
(* Approach::settled, on motion while a hand-back settles.                   *)
Settled(m) ==
  CASE m.settling = -1 -> [m |-> m, push |-> pushing]
    [] m.settling # -1 /\ pointer = "inside" -> [m |-> [m EXCEPT !.settling = -1], push |-> pushing]
    [] m.settling # -1 /\ pointer # "inside" /\ pushing ->
         IF m.settling < HAND_BACK_QUIET THEN [m |-> [m EXCEPT !.settling = 0], push |-> FALSE]
         ELSE [m |-> [m EXCEPT !.settling = -1], push |-> TRUE]
    [] OTHER -> [m |-> m, push |-> FALSE]

To(m, peer) == [m |-> m, peer |-> peer]
Nobody == "none"

(* Approach::reaching: a rest in progress first, then a pointer that moved   *)
(* onto the edge or pushes against it.                                       *)
Rested(m) ==
  CASE PartPeer[pointer] # m.resting -> To([m EXCEPT !.resting = PartPeer[pointer], !.since = 0], Nobody)
    [] m.since >= EDGE_PAUSE -> To([m EXCEPT !.resting = "none"], PartPeer[pointer])
    [] OTHER -> To(m, Nobody)

Arrived(m, push) ==
  LET moved == m.previous = "inside" /\ pointer \in Parts
      pushed == push /\ pointer \in Parts /\ ~m.spent
      now == [m EXCEPT !.previous = pointer]
  IN CASE ~(moved \/ pushed) -> To(now, Nobody)
       [] (moved \/ pushed) /\ ~pause -> To([now EXCEPT !.spent = TRUE], PartPeer[pointer])
       [] OTHER -> To([now EXCEPT !.spent = TRUE, !.resting = PartPeer[pointer], !.since = 0], Nobody)

reaching(m, push) ==
  LET off == [m EXCEPT !.spent = @ /\ pointer \in Parts]
  IN IF off.resting # "none" /\ pointer \in Parts THEN Rested([off EXCEPT !.previous = pointer])
     ELSE Arrived([off EXCEPT !.resting = "none"], push)

(* Approach::reached: not to a peer that just took control back.             *)
reached(m) ==
  LET calm == Settled(m)
      to == reaching(calm.m, calm.push)
  IN IF to.peer # Nobody /\ to.peer = m.by /\ m.byAge < HAND_BACK_GUARD
     THEN To([to.m EXCEPT !.spent = FALSE], Nobody) ELSE to

(* observe: a layout that does not fit the displays ends the sharing. A held *)
(* button, Secure Input or a link that is not ready leaves input here.       *)
Observed(m, crosses) ==
  IF m.arranged # displays THEN Disarmed(m)
  ELSE LET to == reached(m)
       IN IF to.peer # Nobody /\ crosses THEN [to.m EXCEPT !.run = NewRun] ELSE to.m

(* tick_with. *)
Older(m) ==
  [m EXCEPT !.since = IF @ < EDGE_PAUSE THEN @ + 1 ELSE @,
            !.byAge = IF @ < HAND_BACK_GUARD THEN @ + 1 ELSE @,
            !.settling = IF @ \in 0 .. HAND_BACK_QUIET - 1 THEN @ + 1 ELSE @,
            !.retry = IF @ > 0 THEN @ - 1 ELSE @]

ObserverTick(m, crosses) ==
  LET watched == Watched(m)
  IN CASE controlledBy # "none" ->
            [Restarted(watched) EXCEPT !.by = controlledBy, !.byAge = 0, !.settling = 0]
       [] controlledBy = "none" /\ watched.enabled /\ ~watched.run.on -> Observed(watched, crosses)
       [] OTHER -> watched

(* tick of the app, after the observer's: an Escape pauses sharing, whether  *)
(* or not that can be saved; any other end of it is retried later.           *)
Noticed(before, m) ==
  CASE before.enabled /\ ~m.enabled /\ m.pauseRequested ->
         [m EXCEPT !.paused = TRUE, !.sharing = IF Saves(m) THEN FALSE ELSE @]
    [] before.enabled /\ ~m.enabled /\ ~m.pauseRequested -> [m EXCEPT !.retry = 2]
    [] OTHER -> m

(* Maintenance: reload, and Accessibility as it is now.                      *)
Reloaded(m) ==
  IF m.opened = disk.edits THEN m
  ELSE IF m.sharing = disk.sharing THEN [m EXCEPT !.opened = disk.edits]
  ELSE RestartApp([m EXCEPT !.opened = disk.edits, !.sharing = disk.sharing])

Maintained(m) ==
  LET loaded == [Reloaded(m) EXCEPT !.accessibility = trusted]
  IN IF loaded.arranged # displays THEN NewLayout(loaded) ELSE loaded

(* The rest of tick: a crossing without Accessibility ends, and an observer  *)
(* that may run is armed with the saved layout.                              *)
Arming(m, ready) ==
  IF m.run.on THEN (IF ~m.accessibility /\ m.enabled THEN StopSharing(m) ELSE m)
  ELSE IF m.paused \/ ~m.sharing THEN m
  ELSE IF ~m.accessibility THEN StopSharing(m)
  ELSE IF ~m.enabled /\ m.retry = 0 /\ ready
       THEN IF m.arranged = displays
            THEN [Restarted(m) EXCEPT !.enabled = TRUE, !.armed = m.layout, !.pauseRequested = FALSE]
            ELSE [m EXCEPT !.retry = 1]
       ELSE m

AppTick ==
  \E adopts, maintains, ready, crosses \in BOOLEAN :
    /\ adopts => macMoves < MaxMacMoves
    /\ crosses => crossings < MaxCrossings
    /\ \E seen \in {Noticed(mac, ObserverTick(Older(mac), crosses))} :
       \E kept \in {IF maintains THEN Maintained(seen) ELSE seen} :
         /\ mac' = Arming(IF adopts THEN NewLayout(kept) ELSE kept, ready)
         /\ disk' = IF seen.sharing # mac.sharing THEN [disk EXCEPT !.sharing = seen.sharing] ELSE disk
         /\ crossings' = IF ~mac.run.on /\ seen.run.on THEN crossings + 1 ELSE crossings
         /\ escaped' = (escaped \/ (mac.run.on /\ \E i \in DOMAIN mac.run.statuses : mac.run.statuses[i] = "escape"))
    /\ macMoves' = IF adopts THEN macMoves + 1 ELSE macMoves
    /\ pushing' = (mac.run.on /\ pushing)
    /\ released' = IF controlledBy # "none" THEN [peer |-> controlledBy, age |-> 0]
                   ELSE [released EXCEPT !.age = IF @ < HAND_BACK_GUARD THEN @ + 1 ELSE @]
    /\ rested' = IF rested.at = pointer THEN [rested EXCEPT !.age = IF @ < EDGE_PAUSE THEN @ + 1 ELSE @]
                 ELSE [at |-> pointer, age |-> 0]
    /\ UNCHANGED <<pause, pointer, controlledBy, displays, trusted>>

-----------------------------------------------------------------------------
(* The person: SetSharing, MoveTile, and the file by hand.                   *)
Moves == macMoves < MaxMacMoves /\ macMoves' = macMoves + 1

(* Mutant: the switch does not tell a crossing to end.                       *)
SwitchesOnly(on) ==
  IF ~Saves(mac) THEN [mac EXCEPT !.paused = @ \/ ~on]
  ELSE [Disarmed([mac EXCEPT !.sharing = on, !.paused = ~on]) EXCEPT !.retry = 0]

SwitchSharing(on) ==
  LET stopped == IF on THEN mac ELSE StopSharing([mac EXCEPT !.paused = TRUE])
  IN IF ~Saves(stopped) THEN stopped
     ELSE RestartApp([stopped EXCEPT !.sharing = on, !.paused = ~on])

SetSharing ==
  /\ Moves
  /\ \E on \in BOOLEAN :
       /\ mac' = SwitchSharing(on)
       /\ disk' = IF Saves(mac) THEN [disk EXCEPT !.sharing = on] ELSE disk
       /\ escaped' = (escaped /\ ~(on /\ Saves(mac)))
  /\ UNCHANGED <<pause, pointer, pushing, controlledBy, displays, trusted, released, rested, crossings>>

MoveTile ==
  /\ Moves /\ mac' = RestartApp(NewLayout(mac))
  /\ UNCHANGED <<pause, pointer, pushing, controlledBy, displays, trusted, disk, released, rested, escaped, crossings>>

(* SetAwdl, Forget and Retry: links and crossings start over.                *)
Restarts ==
  /\ Moves /\ (mac.enabled \/ mac.run.on)
  /\ \E retry \in BOOLEAN : (retry \/ Saves(mac)) /\ mac' = RestartApp(mac)
  /\ UNCHANGED <<pause, pointer, pushing, controlledBy, displays, trusted, disk, released, rested, escaped, crossings>>

Requests == SetSharing \/ MoveTile \/ Restarts

EditFile ==
  /\ Moves /\ \E on \in BOOLEAN : disk' = [sharing |-> on, edits |-> disk.edits + 1]
  /\ UNCHANGED <<mac, pause, pointer, pushing, controlledBy, displays, trusted, released, rested, escaped, crossings>>

(* The pointer, the displays, Accessibility and the peers (external).        *)
PointerMoves ==
  /\ ~mac.run.on /\ pointer' \in Parts \cup {"corner", "inside"} /\ pushing' = TRUE
  /\ UNCHANGED <<mac, pause, controlledBy, displays, trusted, disk, released, rested, escaped, macMoves, crossings>>

DesktopChanges ==
  /\ Moves
  /\ \/ displays' = 3 - displays /\ UNCHANGED trusted
     \/ trusted' = ~trusted /\ UNCHANGED displays
  /\ UNCHANGED <<mac, pause, pointer, pushing, controlledBy, disk, released, rested, escaped, crossings>>

(* A peer takes control while no crossing holds the Mac's input.             *)
ControlChanges ==
  /\ Moves /\ (mac.run.on => mac.run.closed)
  /\ IF controlledBy # "none" THEN controlledBy' = "none"
     ELSE controlledBy' \in {PartPeer[p] : p \in Parts}
  /\ UNCHANGED <<mac, pause, pointer, pushing, displays, trusted, disk, released, rested, escaped, crossings>>

(* run_crossing (external): what a worker reports, in its order.             *)
Report(statuses, closed) ==
  /\ mac.run.on /\ ~mac.run.closed
  /\ mac' = [mac EXCEPT !.run.statuses = @ \o statuses, !.run.closed = closed]
  /\ UNCHANGED <<pause, pointer, pushing, controlledBy, displays, trusted, disk, released, rested, escaped, macMoves, crossings>>

WorkerReports ==
  \/ mac.run.on /\ mac.run.statuses = <<>> /\ Report(<<"sharing">>, FALSE)
  \/ Report(<<"escape", "stopped">>, TRUE)
  \/ Report(<<"escape", "failed">>, TRUE)
  \/ Report(<<"returned", "stopped">>, TRUE)
  \/ \E end \in {"stopped", "cancelled", "failed"} : Report(<<end>>, TRUE)
  \/ Report(<<>>, TRUE)

MacAppNext ==
  \/ AppTick \/ Requests \/ EditFile
  \/ PointerMoves \/ DesktopChanges \/ ControlChanges \/ WorkerReports

MacAppSpec == MacAppInit /\ [][MacAppNext]_macAppVars

-----------------------------------------------------------------------------
MacAppTypeOK ==
  /\ pointer \in Parts \cup {"corner", "inside"} /\ mac.settling \in -1 .. HAND_BACK_QUIET
  /\ mac.byAge \in 0 .. HAND_BACK_GUARD /\ mac.retry \in 0 .. 2 /\ crossings \in 0 .. MaxCrossings

(* The observer is armed only for a person who shares, and with the          *)
(* arrangement shown: a pause outlives an edit of the file that refuses to   *)
(* save it, and no layout is crossed by after another took its place         *)
(* (enable, rearm, tick).                                                    *)
ArmedAsMeant == mac.enabled => mac.sharing /\ ~mac.paused /\ mac.armed = mac.layout

(* Sharing that is off, or paused, has no crossing that was not told to end  *)
(* or ended by itself (SetSharing, reload).                                  *)
OffReturnsInput == mac.run.on /\ ~mac.sharing => mac.run.told \/ escaped

(* A crossing starts only where the person means it: nobody controls this    *)
(* Mac, its peer did not just take control back, and with pause at edges the *)
(* pointer has stayed on that peer's part of the edge (Approach).            *)
CrossesOnPurpose ==
  ~mac.run.on /\ mac'.run.on =>
    /\ controlledBy = "none" /\ pointer \in Parts
    /\ released.peer = PartPeer[pointer] => released.age + 1 >= HAND_BACK_GUARD
    /\ pause => rested.at = pointer /\ rested.age + 1 >= EDGE_PAUSE

(* "Ctrl+Cmd+Backspace returns input and pauses sharing": once the app read  *)
(* it, sharing is off until a person switches it on.                         *)
EscapePauses == escaped => ~mac.enabled
=============================================================================
