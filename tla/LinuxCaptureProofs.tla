------------------------- MODULE LinuxCaptureProofs -------------------------
(***************************************************************************)
(* Proofs about LinuxCapture for any set of devices and keys, any choice of *)
(* devices another program holds and any bound.  The phase of SourceOwnership *)
(* and the grabs of CaptureSet never disagree; and the keys that            *)
(* AggregateInputState tracks never part from the kernel's: first what      *)
(* Observe makes of a run of events (appended to, cut in two, or observed   *)
(* again after a resync), then one step per operation that opens, reads or  *)
(* closes a node.                                                           *)
(***************************************************************************)
EXTENDS LinuxCapture, FiniteSetTheorems, SequenceTheorems, WellFoundedInduction, TLAPS

(* What grab_all relies on while its system calls run: the tracked state it  *)
(* was started on has not moved, and the nodes done so far are the ones      *)
(* grabbed or another program's.                                             *)
GrabInProgress ==
  /\ grabPending <=> pc \in {"check", "grab"}
  /\ grabPending => phase = "Arming" /\ NothingPressed /\ AllAtBoundary
  /\ pc = "check" => todo = nodes
  /\ pc = "grab" => todo \subseteq nodes /\ grabbed = (nodes \ todo) \ Foreign

(* The safety invariants are not inductive by themselves: that Remote is      *)
(* entered with every node grabbed needs what grab_all has done so far.       *)
OwnershipInv ==
  /\ GrabsMatchPhase
  /\ NoLostTerminal
  /\ PeerMatchesPhase
  /\ GrabInProgress
  /\ asked \in Nat

-----------------------------------------------------------------------------
LEMMA InitOwnership == Init => OwnershipInv
BY DEF Init, OwnershipInv, GrabsMatchPhase, NoLostTerminal, PeerMatchesPhase, GrabInProgress

(* force_source_release, from any handler and phase, leaves nothing grabbed. *)
LEMMA ForceReleaseSafe ==
  ASSUME OwnershipInv, pc \in {"loop", "frames"}, ForceRelease, asked' \in Nat,
         pc' \notin {"check", "grab"}
  PROVE  OwnershipInv'
BY DEF OwnershipInv, GrabsMatchPhase, NoLostTerminal, PeerMatchesPhase, GrabInProgress,
       ForceRelease, Ended, UngrabOrSuspend, Suspend, ownership, aggregate, capture

(* So does every failure that closes all descriptors. *)
LEMMA SuspendSafe ==
  ASSUME OwnershipInv, pc \in {"loop", "frames"}, Suspend,
         IF phase = "Idle" THEN UNCHANGED <<ownership, peer>> ELSE Ended /\ peer' = FALSE,
         UNCHANGED asked, pc' \notin {"check", "grab"}
  PROVE  OwnershipInv'
BY DEF OwnershipInv, GrabsMatchPhase, NoLostTerminal, PeerMatchesPhase, GrabInProgress,
       Ended, Suspend, ownership

(* The release of an activation asks the daemon or gives the grabs up. *)
LEMMA RequestTerminalSafe ==
  ASSUME OwnershipInv, pc \in {"loop", "frames"}, phase = "Remote", RequestTerminal,
         pc' \notin {"check", "grab"}
  PROVE  OwnershipInv'
<1>1. CASE ForceRelease /\ UNCHANGED asked
  BY <1>1, ForceReleaseSafe DEF OwnershipInv
<1>2. CASE ~(ForceRelease /\ UNCHANGED asked)
  <2>1. /\ asked' = asked + 1 /\ phase' = "Releasing"
        /\ UNCHANGED <<grabPending, peer, nodes, grabbed>>
    BY <1>2 DEF RequestTerminal, capture
  <2>2. ~grabPending /\ peer /\ asked' \in Nat /\ asked' > 0
    BY <2>1 DEF OwnershipInv, GrabInProgress, PeerMatchesPhase
  <2>3. GrabsMatchPhase' /\ NoLostTerminal' /\ PeerMatchesPhase'
    BY <2>1, <2>2 DEF OwnershipInv, GrabsMatchPhase, NoLostTerminal, PeerMatchesPhase
  <2>4. GrabInProgress'
    BY <2>1, <2>2 DEF GrabInProgress
  <2> QED BY <2>2, <2>3, <2>4 DEF OwnershipInv
<1> QED BY <1>1, <1>2

LEMMA CommandsSafe == OwnershipInv /\ Commands => OwnershipInv'
<1> SUFFICES ASSUME OwnershipInv, Commands PROVE OwnershipInv'
  OBVIOUS
<1> USE DEF OwnershipInv
<1>1. CASE Activate
  BY <1>1 DEF Activate, GrabsMatchPhase, NoLostTerminal, PeerMatchesPhase, GrabInProgress,
              capture
<1>2. CASE ReleaseLive
  <2>1. CASE phase = "Remote" /\ RequestTerminal
    BY <1>2, <2>1, RequestTerminalSafe DEF ReleaseLive
  <2>2. CASE ~(phase = "Remote" /\ RequestTerminal)
    BY <1>2, <2>2 DEF ReleaseLive, Ended, GrabsMatchPhase, NoLostTerminal, PeerMatchesPhase,
                      GrabInProgress, ownership, aggregate, capture
  <2> QED BY <2>1, <2>2
<1>3. CASE ReleaseLost
  BY <1>3, ForceReleaseSafe DEF ReleaseLost
<1>4. CASE TerminalSent
  <2>1. asked' \in Nat /\ pc' \in {"loop", "advance"}
    BY <1>4 DEF TerminalSent
  <2>2. CASE ForceRelease
    BY <1>4, <2>1, <2>2, ForceReleaseSafe DEF TerminalSent
  <2>3. CASE ~ForceRelease
    BY <1>4, <2>1, <2>3 DEF TerminalSent, TerminalConfirmed, GrabsMatchPhase, NoLostTerminal,
                       PeerMatchesPhase, GrabInProgress, ownership, aggregate, capture,
                       ForceRelease
  <2> QED BY <2>2, <2>3
<1>5. CASE Stop
  BY <1>5, SuspendSafe DEF Stop
<1>6. CASE Reload
  BY <1>6 DEF Reload, Ended, GrabsMatchPhase, NoLostTerminal, PeerMatchesPhase,
              GrabInProgress, ownership
<1>7. CASE ReloadFails
  <2>1. CASE Suspend
    BY <1>7, <2>1, SuspendSafe DEF ReloadFails
  <2>2. CASE ~Suspend
    BY <1>7, <2>2 DEF ReloadFails, UngrabOrSuspend, Ended, GrabsMatchPhase, NoLostTerminal,
                      PeerMatchesPhase, GrabInProgress, ownership
  <2> QED BY <2>1, <2>2
<1> QED BY <1>1, <1>2, <1>3, <1>4, <1>5, <1>6, <1>7 DEF Commands

LEMMA ReadsSafe == OwnershipInv /\ Reads => OwnershipInv'
<1> SUFFICES ASSUME OwnershipInv, Reads PROVE OwnershipInv'
  OBVIOUS
<1> USE DEF OwnershipInv
<1>1. CASE ReadReady
  BY <1>1 DEF ReadReady, Continue, GrabsMatchPhase, NoLostTerminal, PeerMatchesPhase,
              GrabInProgress, ownership, capture
<1>2. CASE DeviceRemoved
  <2>1. CASE Suspend
    BY <1>2, <2>1, SuspendSafe DEF DeviceRemoved
  <2>2. CASE ~Suspend
    BY <1>2, <2>2 DEF DeviceRemoved, Ended, GrabsMatchPhase, NoLostTerminal,
                      PeerMatchesPhase, GrabInProgress, ownership
  <2> QED BY <2>1, <2>2
<1>3. CASE ReadFails
  BY <1>3, SuspendSafe DEF ReadFails
<1>4. CASE Rescan
  <2>1. PICK selected \in SUBSET Devices :
          IF MustClose(selected)
            THEN Ended /\ peer' = FALSE /\ grabbed' = {} /\ Reconcile(nodes, selected, TRUE)
            ELSE /\ UNCHANGED <<ownership, peer>>
                 /\ grabbed' = grabbed \cap selected
                 /\ Reconcile(nodes, selected, grabbed = {})
    BY <1>4 DEF Rescan
  <2>2. pc = "loop" /\ UNCHANGED <<pc, todo, asked>>
    BY <1>4 DEF Rescan
  <2>3. CASE MustClose(selected)
    BY <2>1, <2>2, <2>3 DEF Ended, GrabsMatchPhase, NoLostTerminal, PeerMatchesPhase,
                            GrabInProgress
  <2>4. CASE ~MustClose(selected)
    \* A grabbed set survives a rescan only when it is selected as a whole.
    <3>1. grabbed # {} => nodes' = nodes /\ grabbed' = grabbed
      BY <2>1, <2>2, <2>4 DEF MustClose, Reconcile, GrabsMatchPhase, GrabInProgress
    <3> QED
      BY <2>1, <2>2, <2>4, <3>1 DEF GrabsMatchPhase, NoLostTerminal, PeerMatchesPhase,
                                    GrabInProgress, ownership
  <2> QED BY <2>3, <2>4
<1>5. CASE RescanFails
  BY <1>5, SuspendSafe DEF RescanFails
<1> QED BY <1>1, <1>2, <1>3, <1>4, <1>5 DEF Reads

LEMMA ThreadSafe == OwnershipInv /\ Thread => OwnershipInv'
<1> SUFFICES ASSUME OwnershipInv, Thread PROVE OwnershipInv'
  OBVIOUS
<1> USE DEF OwnershipInv
<1>1. CASE HandleFrame
  <2>1. CASE phase = "Remote" /\ RequestTerminal
    BY <1>1, <2>1, RequestTerminalSafe DEF HandleFrame
  <2>2. CASE phase = "Remote" /\ ForceRelease /\ UNCHANGED asked
    BY <1>1, <2>2, ForceReleaseSafe DEF HandleFrame
  <2>3. CASE UNCHANGED <<ownership, peer, aggregate, capture, asked, unread>>
    BY <1>1, <2>3 DEF HandleFrame, GrabsMatchPhase, NoLostTerminal, PeerMatchesPhase,
                      GrabInProgress, ownership, capture
  <2> QED BY <1>1, <2>1, <2>2, <2>3 DEF HandleFrame
<1>2. CASE InspectFails
  BY <1>2 DEF InspectFails, Ended, Continue, GrabsMatchPhase, NoLostTerminal,
              PeerMatchesPhase, GrabInProgress, capture
<1>3. CASE BoundaryWaits
  BY <1>3 DEF BoundaryWaits, Continue, GrabsMatchPhase, NoLostTerminal, PeerMatchesPhase,
              GrabInProgress, capture
<1>4. CASE AcquireGrabs
  BY <1>4 DEF AcquireGrabs, BoundaryPassed, MayAcquire, NothingPressed, AllAtBoundary,
              GrabsMatchPhase, NoLostTerminal, PeerMatchesPhase, GrabInProgress,
              aggregate, capture
<1>5. CASE ReleaseGrabs
  BY <1>5 DEF ReleaseGrabs, MayRelease, UngrabOrSuspend, Suspend, Continue, GrabsMatchPhase,
              NoLostTerminal, PeerMatchesPhase, GrabInProgress
<1>6. CASE CheckBefore
  BY <1>6 DEF CheckBefore, NothingPressed, AllAtBoundary, GrabsMatchPhase, NoLostTerminal,
              PeerMatchesPhase, GrabInProgress, ownership, aggregate, capture
<1>7. CASE GrabOne
  BY <1>7 DEF GrabOne, NothingPressed, AllAtBoundary, GrabsMatchPhase, NoLostTerminal,
              PeerMatchesPhase, GrabInProgress, ownership, aggregate
<1>8. CASE GrabSucceeded
  BY <1>8 DEF GrabSucceeded, SomeGrabbed, Continue, GrabsMatchPhase, NoLostTerminal,
              PeerMatchesPhase, GrabInProgress, capture
<1>9. CASE GrabFails
  BY <1>9 DEF GrabFails, GrabFailed, Suspend, Continue, GrabsMatchPhase, NoLostTerminal,
              PeerMatchesPhase, GrabInProgress
<1> QED BY <1>1, <1>2, <1>3, <1>4, <1>5, <1>6, <1>7, <1>8, <1>9 DEF Thread

(* What the user does changes neither the phase nor the grabs. *)
LEMMA UserSafe ==
  ASSUME OwnershipInv, KeyEvent \/ PointerFrame \/ Stopped \/ UNCHANGED vars
  PROVE  OwnershipInv'
<1>1. UNCHANGED <<ownership, aggregate, capture, peer, pc, todo, asked>>
  <2>1. CASE KeyEvent BY <2>1 DEF KeyEvent
  <2>2. CASE PointerFrame BY <2>2 DEF PointerFrame
  <2>3. CASE Stopped \/ UNCHANGED vars BY <2>3 DEF Stopped, vars
  <2> QED BY <2>1, <2>2, <2>3
<1> QED
  BY <1>1 DEF OwnershipInv, GrabsMatchPhase, NoLostTerminal, PeerMatchesPhase, GrabInProgress,
              NothingPressed, AllAtBoundary, ownership, aggregate, capture

LEMMA OwnershipInductive == OwnershipInv /\ [Next]_vars => OwnershipInv'
BY CommandsSafe, ReadsSafe, ThreadSafe, UserSafe DEF Next

LEMMA AlwaysOwnershipInv == Spec => []OwnershipInv
BY InitOwnership, OwnershipInductive, PTL DEF Spec

-----------------------------------------------------------------------------
(* Whatever fails, is unplugged or is reloaded in whatever order, zflow       *)
(* holds physical input exactly in Remote and Releasing.                      *)
THEOREM GrabsMatch == Spec => []GrabsMatchPhase
BY AlwaysOwnershipInv, PTL DEF OwnershipInv

(* A thread in Releasing is never left waiting for an answer nobody owes.     *)
THEOREM TerminalNeverLost == Spec => []NoLostTerminal
BY AlwaysOwnershipInv, PTL DEF OwnershipInv

(* The published status has a peer exactly while an activation is open.       *)
THEOREM PeerMatches == Spec => []PeerMatchesPhase
BY AlwaysOwnershipInv, PTL DEF OwnershipInv

-----------------------------------------------------------------------------
(* Action properties *)

(* A step that keeps an activation running keeps its capture set. *)
LEMMA RemoteKeepsDevices ==
  ASSUME OwnershipInv, [Next]_vars, phase = "Remote", phase' = "Remote"
  PROVE  nodes' = nodes /\ grabbed' = grabbed
<1> USE DEF OwnershipInv, GrabInProgress
<1>1. CASE Commands
  BY <1>1 DEF Commands, Activate, ReleaseLive, ReleaseLost, TerminalSent, Stop, Reload,
              ReloadFails, RequestTerminal, ForceRelease, Ended, ownership, capture
<1>2. CASE Reads
  <2>1. CASE Rescan
    BY <2>1 DEF Rescan, MustClose, Reconcile, Ended, GrabsMatchPhase
  <2> QED BY <1>2, <2>1 DEF Reads, ReadReady, DeviceRemoved, ReadFails, RescanFails, Ended,
                            ownership, capture
<1>3. CASE Thread
  <2>1. CASE HandleFrame
    BY <2>1 DEF HandleFrame, RequestTerminal, ForceRelease, Ended, capture
  <2> QED
    BY <1>3, <2>1 DEF Thread, InspectFails, BoundaryWaits, AcquireGrabs, MayAcquire,
           ReleaseGrabs, CheckBefore, GrabOne, GrabSucceeded, GrabFails, GrabFailed, capture
<1>4. CASE KeyEvent \/ PointerFrame
  BY <1>4 DEF KeyEvent, PointerFrame, capture
<1>5. CASE Stopped \/ UNCHANGED vars
  BY <1>5 DEF Stopped, vars, capture
<1> QED BY <1>1, <1>2, <1>3, <1>4, <1>5 DEF Next

(* Only grab_all's success enters Remote. *)
LEMMA OnlyGrabEnters ==
  ASSUME OwnershipInv, [Next]_vars, phase # "Remote", phase' = "Remote"
  PROVE  GrabSucceeded
<1>1. ~Commands
  BY DEF Commands, Activate, ReleaseLive, ReleaseLost, TerminalSent, TerminalConfirmed, Stop,
         Reload, ReloadFails, RequestTerminal, ForceRelease, Ended, ownership
<1>2. ~Reads
  BY DEF Reads, ReadReady, DeviceRemoved, ReadFails, Rescan, RescanFails, Ended, ownership
<1>3. ~KeyEvent /\ ~PointerFrame
  BY DEF KeyEvent, PointerFrame, ownership
<1>4. ~Stopped /\ ~UNCHANGED vars
  BY DEF Stopped, vars, ownership
<1>5. Thread
  BY <1>1, <1>2, <1>3, <1>4 DEF Next
<1>6. ~HandleFrame
  BY DEF HandleFrame, RequestTerminal, ForceRelease, Ended, ownership
<1> QED
  BY <1>5, <1>6 DEF Thread, InspectFails, BoundaryWaits, AcquireGrabs, ReleaseGrabs,
         CheckBefore, GrabOne, GrabFails, GrabFailed, Ended, ownership

(* A hotplugged node never joins a running activation and none leaves it. *)
THEOREM KeepsItsDevices == Spec => ActivationKeepsItsDevices
<1>1. OwnershipInv /\ [Next]_vars =>
        [phase = "Remote" /\ phase' = "Remote" => nodes' = nodes /\ grabbed' = grabbed]_vars
  BY RemoteKeepsDevices
<1> QED BY <1>1, AlwaysOwnershipInv, PTL DEF Spec, ActivationKeepsItsDevices

(* No key is down when Remote begins, although keys move during grab_all. *)
THEOREM NeutralGrab == Spec => GrabOnlyWhenNeutral
<1>1. OwnershipInv /\ [Next]_vars =>
        [phase # "Remote" /\ phase' = "Remote" =>
           KernelNeutral /\ NothingPressed /\ AllAtBoundary]_vars
  BY OnlyGrabEnters DEF GrabSucceeded, StaysNeutral, OwnershipInv, GrabInProgress
<1> QED BY <1>1, AlwaysOwnershipInv, PTL DEF Spec, GrabOnlyWhenNeutral

-----------------------------------------------------------------------------
(* Type correctness *)

TypeInv == TypeOK /\ (pc = "frames" => frames > 0)

LEMMA ReportsNat ==
  ASSUME NEW events \in Seq(Events)
  PROVE  Reports(events) \in Nat
<1>1. IsFiniteSet(DOMAIN events)
  BY FS_Interval
<1>2. IsFiniteSet({i \in DOMAIN events : events[i] = SYN})
  BY <1>1, FS_Subset
<1> QED BY <1>2, FS_CardinalityType DEF Reports

LEMMA NextBoundaryType ==
  ASSUME boundary \in Nat, NEW events \in Seq(Events)
  PROVE  NextBoundary(events) \in 0 .. BoundaryWrap - 1
<1>1. boundary + Reports(events) \in Nat
  BY ReportsNat
<1>2. \A a \in Nat, b \in Nat \ {0} : a % b \in 0 .. b - 1
  OBVIOUS
<1> QED BY <1>1, <1>2, CaptureAssumption DEF NextBoundary

LEMMA ZeroIsBoundary == 0 \in 0 .. BoundaryWrap - 1
BY CaptureAssumption

LEMMA SuspendType ==
  ASSUME Suspend
  PROVE  /\ nodes' = {} /\ grabbed' = {} /\ partial' = {}
         /\ held' \in [Devices -> SUBSET Keys]
         /\ unread' \in [Devices -> Seq(Events)]
         /\ boundary' \in 0 .. BoundaryWrap - 1
<1>1. <<>> \in Seq(Events)
  OBVIOUS
<1> QED BY <1>1, ZeroIsBoundary DEF Suspend, NothingHeld

LEMMA InitTypes == Init => TypeInv
<1>1. <<>> \in Seq(Events) /\ 0 \in 0 .. MaxAsked /\ 0 \in Nat
  BY CaptureAssumption
<1> QED BY <1>1, ZeroIsBoundary DEF Init, TypeInv, TypeOK, Phases, NothingHeld

LEMMA EndedType ==
  ASSUME TypeOK, IF phase = "Idle" THEN UNCHANGED <<ownership, peer>> ELSE Ended /\ peer' = FALSE
  PROVE  /\ phase' \in Phases /\ grabPending' \in BOOLEAN /\ terminalPending' \in BOOLEAN
         /\ transition' \in BOOLEAN /\ lastBoundary' \in 0 .. BoundaryWrap - 1
         /\ peer' \in BOOLEAN
BY DEF TypeOK, Ended, ownership, Phases

LEMMA UngrabType ==
  ASSUME TypeOK, UngrabOrSuspend
  PROVE  /\ nodes' \subseteq Devices /\ grabbed' \subseteq Devices /\ partial' \subseteq Devices
         /\ held' \in [Devices -> SUBSET Keys]
         /\ unread' \in [Devices -> Seq(Events)]
         /\ boundary' \in 0 .. BoundaryWrap - 1
<1>1. CASE Suspend
  BY <1>1, SuspendType
<1>2. CASE ~Suspend
  BY <1>2 DEF UngrabOrSuspend, TypeOK, aggregate
<1> QED BY <1>1, <1>2

LEMMA ForceReleaseType ==
  ASSUME TypeOK, ForceRelease
  PROVE  /\ phase' \in Phases /\ grabPending' \in BOOLEAN /\ terminalPending' \in BOOLEAN
         /\ transition' \in BOOLEAN /\ lastBoundary' \in 0 .. BoundaryWrap - 1
         /\ peer' \in BOOLEAN
         /\ nodes' \subseteq Devices /\ grabbed' \subseteq Devices /\ partial' \subseteq Devices
         /\ held' \in [Devices -> SUBSET Keys]
         /\ unread' \in [Devices -> Seq(Events)]
         /\ boundary' \in 0 .. BoundaryWrap - 1
<1>1. IF phase = "Idle" THEN UNCHANGED <<ownership, peer>> ELSE Ended /\ peer' = FALSE
  BY DEF ForceRelease
<1>2. \/ UNCHANGED <<aggregate, capture, unread>>
      \/ UngrabOrSuspend
  BY DEF ForceRelease
<1>3. CASE UNCHANGED <<aggregate, capture, unread>>
  BY <1>1, <1>3, EndedType DEF TypeOK, aggregate, capture
<1>4. CASE UngrabOrSuspend
  BY <1>1, <1>4, EndedType, UngrabType
<1> QED BY <1>2, <1>3, <1>4

LEMMA RequestTerminalType ==
  ASSUME TypeOK, RequestTerminal
  PROVE  /\ phase' \in Phases /\ grabPending' \in BOOLEAN /\ terminalPending' \in BOOLEAN
         /\ transition' \in BOOLEAN /\ lastBoundary' \in 0 .. BoundaryWrap - 1
         /\ peer' \in BOOLEAN /\ asked' \in 0 .. MaxAsked
         /\ nodes' \subseteq Devices /\ grabbed' \subseteq Devices /\ partial' \subseteq Devices
         /\ held' \in [Devices -> SUBSET Keys]
         /\ unread' \in [Devices -> Seq(Events)]
         /\ boundary' \in 0 .. BoundaryWrap - 1
<1>1. CASE ForceRelease /\ UNCHANGED asked
  BY <1>1, ForceReleaseType DEF TypeOK
<1>2. CASE ~(ForceRelease /\ UNCHANGED asked)
  <2>1. asked' \in 0 .. MaxAsked
    BY <1>2, CaptureAssumption DEF RequestTerminal, TypeOK
  <2> QED BY <1>2, <2>1 DEF RequestTerminal, TypeOK, Phases, aggregate, capture
<1> QED BY <1>1, <1>2

LEMMA ReconcileType ==
  ASSUME TypeOK, NEW open \in SUBSET Devices, NEW selected \in SUBSET Devices,
         NEW mayJoin \in BOOLEAN, Reconcile(open, selected, mayJoin)
  PROVE  /\ nodes' \subseteq Devices /\ partial' \subseteq Devices
         /\ held' \in [Devices -> SUBSET Keys]
         /\ unread' \in [Devices -> Seq(Events)]
BY DEF TypeOK, Reconcile, TakesIn

LEMMA CommandsType == TypeInv /\ Commands => TypeInv'
<1> SUFFICES ASSUME TypeOK, TypeInv, Commands PROVE TypeInv'
  BY DEF TypeInv
<1>1. CASE Activate
  BY <1>1 DEF Activate, TypeInv, TypeOK, Phases, capture, world
<1>2. CASE ReleaseLive
  <2>1. CASE RequestTerminal
    BY <1>2, <2>1, RequestTerminalType DEF ReleaseLive, TypeInv, TypeOK, world
  <2>2. CASE ~RequestTerminal
    BY <1>2, <2>2 DEF ReleaseLive, Ended, TypeInv, TypeOK, Phases, ownership, aggregate,
                      capture, world
  <2> QED BY <2>1, <2>2
<1>3. CASE ReleaseLost
  BY <1>3, ForceReleaseType DEF ReleaseLost, TypeInv, TypeOK, world
<1>4. CASE TerminalSent
  <2>1. asked' \in 0 .. MaxAsked
    BY <1>4, CaptureAssumption DEF TerminalSent, TypeOK
  <2>2. CASE ForceRelease
    BY <1>4, <2>1, <2>2, ForceReleaseType DEF TerminalSent, TypeInv, TypeOK, world
  <2>3. CASE ~ForceRelease
    BY <1>4, <2>1, <2>3 DEF TerminalSent, TerminalConfirmed, TypeInv, TypeOK, ownership,
                            aggregate, capture, world
  <2> QED BY <2>2, <2>3
<1>5. CASE Stop
  BY <1>5, SuspendType, EndedType DEF Stop, TypeInv, TypeOK, world
<1>6. CASE Reload
  <2>1. PICK selected \in SUBSET Devices :
          /\ complete' = (selected # {})
          /\ \/ Reconcile(nodes, selected, TRUE) /\ UNCHANGED boundary
             \/ grabbed # {} /\ Reconcile({}, selected, TRUE) /\ boundary' = 0
    BY <1>6 DEF Reload
  <2>2. /\ nodes' \subseteq Devices /\ partial' \subseteq Devices
        /\ held' \in [Devices -> SUBSET Keys] /\ unread' \in [Devices -> Seq(Events)]
    BY <2>1, ReconcileType DEF TypeOK
  <2>3. boundary' \in 0 .. BoundaryWrap - 1
    BY <2>1, ZeroIsBoundary DEF TypeOK
  <2> QED BY <1>6, <2>1, <2>2, <2>3, EndedType DEF Reload, TypeInv, TypeOK, world
<1>7. CASE ReloadFails
  <2>1. CASE Suspend /\ complete' = TRUE
    BY <1>7, <2>1, SuspendType, EndedType DEF ReloadFails, TypeInv, TypeOK, world
  <2>2. CASE UngrabOrSuspend /\ UNCHANGED complete
    BY <1>7, <2>2, UngrabType, EndedType DEF ReloadFails, TypeInv, TypeOK, world
  <2> QED BY <1>7, <2>1, <2>2 DEF ReloadFails
<1> QED BY <1>1, <1>2, <1>3, <1>4, <1>5, <1>6, <1>7 DEF Commands

LEMMA ReadsType == TypeInv /\ Reads => TypeInv'
<1> SUFFICES ASSUME TypeOK, TypeInv, Reads PROVE TypeInv'
  BY DEF TypeInv
<1>1. CASE ReadReady
  <2>0. PICK d \in nodes : \E n \in 1 .. Len(unread[d]) :
          LET events == SubSeq(unread[d], 1, n)
          IN  /\ unread' = [unread EXCEPT ![d] = SubSeq(@, n + 1, Len(@))]
              /\ held' = [held EXCEPT ![d] = Observe(@, events)]
              /\ partial' = IF events[n] = SYN THEN partial \ {d} ELSE partial \cup {d}
              /\ boundary' = NextBoundary(events)
              /\ frames' = Reports(events)
    BY <1>1 DEF ReadReady
  <2>1. PICK n \in 1 .. Len(unread[d]) :
          LET events == SubSeq(unread[d], 1, n)
          IN  /\ unread' = [unread EXCEPT ![d] = SubSeq(@, n + 1, Len(@))]
              /\ held' = [held EXCEPT ![d] = Observe(@, events)]
              /\ partial' = IF events[n] = SYN THEN partial \ {d} ELSE partial \cup {d}
              /\ boundary' = NextBoundary(events)
              /\ frames' = Reports(events)
    BY <2>0
  <2> DEFINE events == SubSeq(unread[d], 1, n)
  <2>2. d \in Devices /\ unread[d] \in Seq(Events) /\ n \in Nat
    BY DEF TypeOK
  <2>3. events \in Seq(Events) /\ SubSeq(unread[d], n + 1, Len(unread[d])) \in Seq(Events)
    BY <2>1, <2>2
  <2>4. unread' \in [Devices -> Seq(Events)]
    BY <2>1, <2>2, <2>3 DEF TypeOK
  <2>5. Observe(held[d], events) \subseteq Keys
    BY DEF Observe
  <2>6. held' \in [Devices -> SUBSET Keys]
    BY <2>1, <2>2, <2>5 DEF TypeOK
  <2>7. boundary' \in 0 .. BoundaryWrap - 1
    <3>1. boundary \in Nat
      BY CaptureAssumption DEF TypeOK
    <3> QED BY <2>1, <2>3, <3>1, NextBoundaryType
  <2>8. frames' \in Nat
    BY <2>1, <2>3, ReportsNat
  <2>9. partial' \subseteq Devices
    BY <2>1, <2>2 DEF TypeOK
  <2>10. UNCHANGED <<ownership, capture, complete, peer, todo, asked, world>>
    BY <1>1 DEF ReadReady
  <2>11. pc' \in {"loop", "frames"} /\ (pc' = "frames" => frames' > 0)
    BY <1>1 DEF ReadReady, Continue
  <2> QED BY <2>4, <2>6, <2>7, <2>8, <2>9, <2>10, <2>11
          DEF TypeInv, TypeOK, ownership, capture, world
<1>2. CASE DeviceRemoved
  <2>1. CASE Suspend
    BY <1>2, <2>1, SuspendType, EndedType DEF DeviceRemoved, TypeInv, TypeOK, world
  <2>2. CASE ~Suspend
    <3>1. PICK d \in nodes :
            /\ nodes' = nodes \ {d} /\ grabbed' = {} /\ partial' = partial \ {d}
            /\ held' = [held EXCEPT ![d] = {}]
            /\ unread' = [unread EXCEPT ![d] = <<>>]
            /\ UNCHANGED boundary
      BY <1>2, <2>2 DEF DeviceRemoved
    <3>2. held' \in [Devices -> SUBSET Keys] /\ unread' \in [Devices -> Seq(Events)]
      BY <3>1 DEF TypeOK
    <3> QED BY <1>2, <3>1, <3>2, EndedType DEF DeviceRemoved, TypeInv, TypeOK, world
  <2> QED BY <2>1, <2>2
<1>3. CASE ReadFails
  BY <1>3, SuspendType, EndedType DEF ReadFails, TypeInv, TypeOK, world
<1>4. CASE Rescan
  <2>1. PICK selected \in SUBSET Devices :
          /\ complete' = (selected # {})
          /\ IF MustClose(selected)
               THEN /\ Ended /\ peer' = FALSE /\ grabbed' = {}
                    /\ Reconcile(nodes, selected, TRUE)
               ELSE /\ UNCHANGED <<ownership, peer>>
                    /\ grabbed' = grabbed \cap selected
                    /\ Reconcile(nodes, selected, grabbed = {})
    BY <1>4 DEF Rescan
  <2>2. /\ nodes' \subseteq Devices /\ partial' \subseteq Devices
        /\ held' \in [Devices -> SUBSET Keys] /\ unread' \in [Devices -> Seq(Events)]
    BY <2>1, ReconcileType DEF TypeOK
  <2>3. UNCHANGED <<boundary, pc, frames, todo, asked, world>>
    BY <1>4 DEF Rescan
  <2> QED BY <2>1, <2>2, <2>3 DEF TypeInv, TypeOK, Ended, Phases, ownership, world
<1>5. CASE RescanFails
  BY <1>5, SuspendType, EndedType DEF RescanFails, TypeInv, TypeOK, world
<1> QED BY <1>1, <1>2, <1>3, <1>4, <1>5 DEF Reads

LEMMA ThreadType == TypeInv /\ Thread => TypeInv'
<1> SUFFICES ASSUME TypeOK, TypeInv, Thread PROVE TypeInv'
  BY DEF TypeInv
<1>1. CASE HandleFrame
  <2>1. frames' \in Nat /\ pc' = "advance" /\ UNCHANGED <<complete, todo, world>>
    BY <1>1 DEF HandleFrame, TypeInv, TypeOK
  <2>2. CASE RequestTerminal
    BY <2>1, <2>2, RequestTerminalType DEF TypeInv, TypeOK, world
  <2>3. CASE ForceRelease /\ UNCHANGED asked
    BY <2>1, <2>3, ForceReleaseType DEF TypeInv, TypeOK, world
  <2>4. CASE UNCHANGED <<ownership, peer, aggregate, capture, asked, unread>>
    BY <2>1, <2>4 DEF TypeInv, TypeOK, world, ownership, aggregate, capture
  <2> QED BY <1>1, <2>2, <2>3, <2>4 DEF HandleFrame
<1>2. CASE InspectFails
  BY <1>2 DEF InspectFails, Ended, Continue, TypeInv, TypeOK, Phases, aggregate, capture, world
<1>3. CASE BoundaryWaits
  BY <1>3 DEF BoundaryWaits, Continue, TypeInv, TypeOK, aggregate, capture, world
<1>4. CASE AcquireGrabs
  BY <1>4 DEF AcquireGrabs, TypeInv, TypeOK, aggregate, capture, world
<1>5. CASE ReleaseGrabs
  BY <1>5, UngrabType DEF ReleaseGrabs, Continue, TypeInv, TypeOK, Phases, world
<1>6. CASE CheckBefore
  BY <1>6 DEF CheckBefore, TypeInv, TypeOK, ownership, aggregate, capture, world
<1>7. CASE GrabOne
  BY <1>7 DEF GrabOne, TypeInv, TypeOK, ownership, aggregate, world
<1>8. CASE GrabSucceeded
  BY <1>8 DEF GrabSucceeded, Continue, TypeInv, TypeOK, Phases, aggregate, capture, world
<1>9. CASE GrabFails
  BY <1>9, SuspendType DEF GrabFails, GrabFailed, Continue, TypeInv, TypeOK, Phases, world
<1> QED BY <1>1, <1>2, <1>3, <1>4, <1>5, <1>6, <1>7, <1>8, <1>9 DEF Thread

LEMMA UserType ==
  ASSUME TypeInv, KeyEvent \/ PointerFrame \/ Stopped \/ UNCHANGED vars
  PROVE  TypeInv'
<1>1. CASE KeyEvent
  <2>1. PICK d \in Devices, k \in Keys :
          LET down == k \notin kernel[d]
              now == IF down THEN kernel[d] \cup {k} ELSE kernel[d] \ {k}
          IN  /\ kernel' = [kernel EXCEPT ![d] = now]
              /\ local' = IF d \in grabbed THEN local ELSE [local EXCEPT ![d] = now]
              /\ unread' = IF d \in nodes \ Foreign
                             THEN [unread EXCEPT ![d] = @ \o <<[key |-> k, down |-> down], SYN>>]
                             ELSE unread
    BY <1>1 DEF KeyEvent
  <2> DEFINE down == k \notin kernel[d]
  <2>2. kernel[d] \subseteq Keys /\ unread[d] \in Seq(Events)
    BY DEF TypeInv, TypeOK
  <2>3. [key |-> k, down |-> down] \in Events /\ SYN \in Events
    BY DEF Events
  <2>4. unread[d] \o <<[key |-> k, down |-> down], SYN>> \in Seq(Events)
    BY <2>2, <2>3
  <2>5. unread' \in [Devices -> Seq(Events)]
    BY <2>1, <2>4 DEF TypeInv, TypeOK
  <2>6. kernel' \in [Devices -> SUBSET Keys] /\ local' \in [Devices -> SUBSET Keys]
    BY <2>1, <2>2 DEF TypeInv, TypeOK
  <2>7. UNCHANGED <<ownership, aggregate, capture, complete, peer, pc, frames, todo, asked>>
    BY <1>1 DEF KeyEvent
  <2> QED BY <2>5, <2>6, <2>7 DEF TypeInv, TypeOK, ownership, aggregate, capture
<1>2. CASE PointerFrame
  <2>1. <<SYN>> \in Seq(Events)
    BY DEF Events
  <2>2. unread' \in [Devices -> Seq(Events)]
    BY <1>2, <2>1 DEF PointerFrame, TypeInv, TypeOK
  <2> QED BY <1>2, <2>2 DEF PointerFrame, TypeInv, TypeOK, ownership, aggregate, capture, world
<1>3. CASE Stopped \/ UNCHANGED vars
  BY <1>3 DEF Stopped, vars, TypeInv, TypeOK, ownership, aggregate, capture, world
<1> QED BY <1>1, <1>2, <1>3

(* Every variable keeps its type; above all the boundary counter wraps. *)
THEOREM TypeCorrect == Spec => []TypeOK
<1>1. TypeInv /\ [Next]_vars => TypeInv'
  BY CommandsType, ReadsType, ThreadType, UserType DEF Next
<1>2. TypeInv => TypeOK
  BY DEF TypeInv
<1> QED BY InitTypes, <1>1, <1>2, PTL DEF Spec

-----------------------------------------------------------------------------
(* Refinement of RuntimePort *)

(* What the daemon sees of a step that ends an activation. *)
LEMMA EndsAtPort ==
  ASSUME OwnershipInv, phase # "Idle", phase' = "Idle", ~terminalPending', grabbed' = {}
  PROVE  Port!GiveBack
BY DEF Port!GiveBack

(* A step that touches neither phase, terminal nor grabs is a stutter. *)
LEMMA QuietAtPort ==
  ASSUME OwnershipInv, UNCHANGED <<phase, terminalPending, grabbed>>,
         grabbed = {} \/ (pc # "grab" /\ pc' # "grab")
  PROVE  UNCHANGED Port!portVars
BY DEF Port!portVars

LEMMA RequestAtPort ==
  ASSUME OwnershipInv, pc \in {"loop", "frames"}, phase = "Remote", RequestTerminal,
         pc' \notin {"check", "grab"}
  PROVE  [Port!PortNext]_Port!portVars
<1> USE DEF OwnershipInv
<1>1. CASE ForceRelease
  <2>1. phase' = "Idle" /\ ~terminalPending' /\ grabbed' = {}
    BY <1>1 DEF ForceRelease, Ended, UngrabOrSuspend, Suspend
  <2> QED BY <2>1, EndsAtPort DEF Port!PortNext
<1>2. CASE ~ForceRelease
  BY <1>2 DEF RequestTerminal, NoLostTerminal, GrabsMatchPhase, capture, Port!PortNext,
              Port!AskTerminal
<1> QED BY <1>1, <1>2

(* force_source_release gives the devices back or finds nothing to end. *)
LEMMA ForceReleaseAtPort ==
  ASSUME OwnershipInv, pc \in {"loop", "frames"}, ForceRelease, pc' \notin {"check", "grab"}
  PROVE  [Port!PortNext]_Port!portVars
<1> USE DEF OwnershipInv
<1>1. CASE phase = "Idle"
  BY <1>1, QuietAtPort DEF ForceRelease, ownership, capture
<1>2. CASE phase # "Idle"
  <2>1. phase' = "Idle" /\ ~terminalPending' /\ grabbed' = {}
    BY <1>2 DEF ForceRelease, Ended, UngrabOrSuspend, Suspend, GrabsMatchPhase, capture,
                GrabInProgress
  <2> QED BY <1>2, <2>1, EndsAtPort DEF Port!PortNext
<1> QED BY <1>1, <1>2

(* So does every handler that ends with nothing grabbed. *)
LEMMA ClosedAtPort ==
  ASSUME OwnershipInv, pc # "grab", pc' # "grab", grabbed' = {},
         IF phase = "Idle" THEN UNCHANGED <<ownership, peer>> ELSE Ended /\ peer' = FALSE
  PROVE  [Port!PortNext]_Port!portVars
<1>1. CASE phase = "Idle"
  BY <1>1, QuietAtPort DEF OwnershipInv, GrabsMatchPhase, ownership
<1>2. CASE phase # "Idle"
  BY <1>2, EndsAtPort DEF Ended, Port!PortNext
<1> QED BY <1>1, <1>2

LEMMA CommandsAtPort == OwnershipInv /\ Commands => [Port!PortNext]_Port!portVars
<1> SUFFICES ASSUME OwnershipInv, Commands PROVE [Port!PortNext]_Port!portVars
  OBVIOUS
<1> USE DEF OwnershipInv
<1>1. CASE Activate
  BY <1>1 DEF Activate, capture, Port!PortNext, Port!Arm
<1>2. CASE ReleaseLive
  <2>1. CASE phase = "Arming"
    <3>1. phase' = "Idle" /\ ~terminalPending' /\ grabbed' = {}
      BY <1>2, <2>1 DEF ReleaseLive, Ended, GrabsMatchPhase, capture
    <3> QED BY <2>1, <3>1, EndsAtPort DEF Port!PortNext
  <2>2. CASE phase = "Remote"
    BY <1>2, <2>2, RequestAtPort DEF ReleaseLive
  <2>3. CASE phase \in {"Idle", "Releasing"}
    BY <1>2, <2>3, QuietAtPort DEF ReleaseLive, ownership, capture
  <2> QED BY <1>2, <2>1, <2>2, <2>3 DEF ReleaseLive
<1>3. CASE ReleaseLost
  BY <1>3, ForceReleaseAtPort DEF ReleaseLost
<1>4. CASE TerminalSent
  <2>1. CASE ForceRelease
    BY <1>4, <2>1, ForceReleaseAtPort DEF TerminalSent
  <2>2. CASE TerminalConfirmed /\ terminalPending
    BY <1>4, <2>2 DEF TerminalSent, TerminalConfirmed, capture, ForceRelease, Ended,
                      Port!PortNext, Port!ConfirmTerminal, Port!GiveBack
  <2>3. CASE UNCHANGED <<ownership, peer, aggregate, capture, unread, pc>>
    BY <1>4, <2>3, QuietAtPort DEF TerminalSent, ownership, capture
  <2> QED BY <1>4, <2>1, <2>2, <2>3 DEF TerminalSent
<1>5. CASE Stop
  BY <1>5, ClosedAtPort DEF Stop, Suspend
<1>6. CASE Reload
  BY <1>6, ClosedAtPort DEF Reload
<1>7. CASE ReloadFails
  BY <1>7, ClosedAtPort DEF ReloadFails, UngrabOrSuspend, Suspend
<1> QED BY <1>1, <1>2, <1>3, <1>4, <1>5, <1>6, <1>7 DEF Commands

LEMMA ReadsAtPort == OwnershipInv /\ Reads => [Port!PortNext]_Port!portVars
<1> SUFFICES ASSUME OwnershipInv, Reads PROVE [Port!PortNext]_Port!portVars
  OBVIOUS
<1> USE DEF OwnershipInv
<1>1. CASE ReadReady
  BY <1>1, QuietAtPort DEF ReadReady, Continue, ownership, capture
<1>2. CASE DeviceRemoved
  BY <1>2, ClosedAtPort DEF DeviceRemoved, Suspend
<1>3. CASE ReadFails
  BY <1>3, ClosedAtPort DEF ReadFails, Suspend
<1>4. CASE Rescan
  <2>1. PICK selected \in SUBSET Devices :
          IF MustClose(selected)
            THEN Ended /\ peer' = FALSE /\ grabbed' = {} /\ Reconcile(nodes, selected, TRUE)
            ELSE /\ UNCHANGED <<ownership, peer>>
                 /\ grabbed' = grabbed \cap selected
                 /\ Reconcile(nodes, selected, grabbed = {})
    BY <1>4 DEF Rescan
  <2>2. pc = "loop" /\ pc' = "loop"
    BY <1>4 DEF Rescan
  <2>3. CASE MustClose(selected)
    <3>1. phase # "Idle"
      BY <2>2, <2>3 DEF MustClose, GrabsMatchPhase
    <3> QED BY <2>1, <2>3, <3>1, EndsAtPort DEF Ended, Port!PortNext
  <2>4. CASE ~MustClose(selected)
    <3>1. grabbed' = grabbed
      BY <2>1, <2>2, <2>4 DEF MustClose, GrabsMatchPhase
    <3> QED BY <2>1, <2>2, <2>4, <3>1, QuietAtPort DEF ownership
  <2> QED BY <2>3, <2>4
<1>5. CASE RescanFails
  BY <1>5, ClosedAtPort DEF RescanFails, Suspend
<1> QED BY <1>1, <1>2, <1>3, <1>4, <1>5 DEF Reads

LEMMA ThreadAtPort == OwnershipInv /\ Thread => [Port!PortNext]_Port!portVars
<1> SUFFICES ASSUME OwnershipInv, Thread PROVE [Port!PortNext]_Port!portVars
  OBVIOUS
<1> USE DEF OwnershipInv
<1>1. CASE HandleFrame
  <2>1. CASE phase = "Remote" /\ RequestTerminal
    BY <1>1, <2>1, RequestAtPort DEF HandleFrame
  <2>2. CASE ForceRelease
    BY <1>1, <2>2, ForceReleaseAtPort DEF HandleFrame
  <2>3. CASE UNCHANGED <<ownership, peer, aggregate, capture, asked, unread>>
    BY <1>1, <2>3, QuietAtPort DEF HandleFrame, ownership, capture
  <2> QED BY <1>1, <2>1, <2>2, <2>3 DEF HandleFrame
<1>2. CASE InspectFails
  <2>1. phase' = "Idle" /\ ~terminalPending' /\ grabbed' = {}
    BY <1>2 DEF InspectFails, Ended, GrabsMatchPhase, capture
  <2> QED BY <1>2, <2>1, EndsAtPort DEF InspectFails, Port!PortNext
<1>3. CASE BoundaryWaits
  BY <1>3, QuietAtPort DEF BoundaryWaits, Continue, capture
<1>4. CASE AcquireGrabs
  BY <1>4, QuietAtPort DEF AcquireGrabs, capture
<1>5. CASE ReleaseGrabs
  <2>1. phase # "Idle" /\ phase' = "Idle" /\ ~terminalPending' /\ grabbed' = {}
    BY <1>5 DEF ReleaseGrabs, MayRelease, UngrabOrSuspend, Suspend
  <2> QED BY <2>1, EndsAtPort DEF Port!PortNext
<1>6. CASE CheckBefore
  \* Nothing is grabbed while grab_all makes its first check.
  <2>1. grabbed = {}
    BY <1>6 DEF CheckBefore, GrabInProgress, GrabsMatchPhase
  <2> QED BY <1>6, <2>1, QuietAtPort DEF CheckBefore, ownership, capture
<1>7. CASE GrabOne
  BY <1>7 DEF GrabOne, ownership, Port!portVars
<1>8. CASE GrabSucceeded
  BY <1>8 DEF GrabSucceeded, SomeGrabbed, Continue, GrabInProgress, capture, Port!PortNext,
              Port!Grab
<1>9. CASE GrabFails
  <2>1. phase # "Idle" /\ phase' = "Idle" /\ ~terminalPending' /\ grabbed' = {}
    BY <1>9 DEF GrabFails, GrabFailed, Suspend, GrabInProgress, NoLostTerminal
  <2> QED BY <2>1, EndsAtPort DEF Port!PortNext
<1> QED BY <1>1, <1>2, <1>3, <1>4, <1>5, <1>6, <1>7, <1>8, <1>9 DEF Thread

LEMMA StepAtPort == OwnershipInv /\ [Next]_vars => [Port!PortNext]_Port!portVars
<1>1. ASSUME OwnershipInv, KeyEvent \/ PointerFrame \/ Stopped \/ UNCHANGED vars
      PROVE  UNCHANGED Port!portVars
  BY <1>1 DEF KeyEvent, PointerFrame, Stopped, vars, ownership, capture, Port!portVars
<1> QED BY <1>1, CommandsAtPort, ReadsAtPort, ThreadAtPort DEF Next

(* The input thread, with its devices, keys and failing system calls, is the  *)
(* RuntimePort the daemon is written against.                                 *)
THEOREM RefinesPort == Spec => ImplementsPort
<1>1. Init => Port!PortInit
  BY DEF Init, Port!PortInit
<1> QED
  BY <1>1, StepAtPort, AlwaysOwnershipInv, PTL DEF Spec, ImplementsPort, Port!PortSpec

-----------------------------------------------------------------------------
(* Key tracking: what Observe makes of a run of events *)

(* The i-th event is the last one of key k. *)
LastOf(events, k, i) ==
  /\ i \in DOMAIN events /\ events[i] # SYN /\ events[i].key = k
  /\ \A j \in DOMAIN events : j > i /\ events[j] # SYN => events[j].key # k

LEMMA SynIsNoKey ==
  ASSUME NEW e \in Events, e # SYN
  PROVE  e \in [key : Keys, down : BOOLEAN]
BY DEF Events

(* A key's last event decides whether it is held afterwards. *)
LEMMA ObserveMember ==
  ASSUME NEW h, NEW events \in Seq(Events), NEW k \in Keys
  PROVE  k \in Observe(h, events) <=>
           \/ \E i : LastOf(events, k, i) /\ events[i].down
           \/ k \in h /\ ~\E i : LastOf(events, k, i) /\ ~events[i].down
<1>1. \A j \in DOMAIN events : events[j] # SYN =>
         events[j].down \in BOOLEAN
  BY SynIsNoKey
<1> DEFINE down == {i \in DOMAIN events : events[i] # SYN /\ events[i].down}
           up == {i \in DOMAIN events : events[i] # SYN /\ ~events[i].down}
           Last(is) == \E i \in is : /\ events[i].key = k
                                     /\ \A j \in down \cup up : j > i => events[j].key # k
<1>2. \A i \in down : LastOf(events, k, i) <=>
        events[i].key = k /\ \A j \in down \cup up : j > i => events[j].key # k
  BY <1>1 DEF LastOf
<1>3. \A i \in up : LastOf(events, k, i) <=>
        events[i].key = k /\ \A j \in down \cup up : j > i => events[j].key # k
  BY <1>1 DEF LastOf
<1>4. Last(down) <=> \E i : LastOf(events, k, i) /\ events[i].down
  BY <1>2 DEF LastOf
<1>5. Last(up) <=> \E i : LastOf(events, k, i) /\ ~events[i].down
  BY <1>3 DEF LastOf
<1>6. k \in Observe(h, events) <=> Last(down) \/ (k \in h /\ ~Last(up))
  BY DEF Observe
<1> QED BY <1>4, <1>5, <1>6

(* A key with an event has a last one. *)
LEMMA LastExists ==
  ASSUME NEW events \in Seq(Events), NEW k,
         NEW j \in DOMAIN events, events[j] # SYN, events[j].key = k
  PROVE  \E i : LastOf(events, k, i) /\ i >= j
<1> DEFINE n == Len(events)
           back == {m \in Nat : m < n /\ events[n - m] # SYN /\ events[n - m].key = k}
<1>1. n - j \in back /\ back \subseteq Nat
  BY DEF back
<1>2. PICK m \in back : \A x \in back : ~(<<x, m>> \in OpToRel(<, Nat))
  <2>1. back \subseteq Nat /\ back # {}
    BY <1>1
  <2> HIDE DEF back
  <2> QED BY <2>1, WFMin, NatLessThanWellFounded, Zenon
<1>3. ASSUME NEW x \in back
      PROVE  m <= x
  <2>1. x \in Nat /\ m \in Nat
    BY <1>1
  <2>2. x < m => <<x, m>> \in OpToRel(<, Nat)
    BY <2>1, Zenon DEF OpToRel
  <2>3. ~(x < m)
    BY <1>2, <2>2, Zenon
  <2> QED BY <2>1, <2>3
<1>4. n - m \in DOMAIN events /\ events[n - m] # SYN /\ events[n - m].key = k
  BY DEF back
<1>5. ASSUME NEW x \in DOMAIN events, x > n - m, events[x] # SYN
      PROVE  events[x].key # k
  <2>1. m \in Nat /\ n \in Nat /\ x \in 1 .. n
    BY <1>1, <1>5
  <2>2. n - x \in Nat /\ n - x < m /\ n - x < n /\ n - (n - x) = x
    BY <1>5, <2>1
  <2>3. n - x \notin back
    BY <1>3, <2>1, <2>2
  <2> QED BY <1>5, <2>2, <2>3
<1>6. LastOf(events, k, n - m)
  BY <1>4, <1>5 DEF LastOf
<1>7. n - m >= j
  <2>1. m \in Nat /\ n \in Nat /\ j \in Nat /\ m <= n - j
    BY <1>1, <1>3
  <2> QED BY <2>1
<1> QED BY <1>6, <1>7

LEMMA ObserveNothing ==
  ASSUME NEW h \in SUBSET Keys
  PROVE  Observe(h, <<>>) = h
BY DEF Observe

LEMMA ObserveReport ==
  ASSUME NEW h \in SUBSET Keys
  PROVE  Observe(h, <<SYN>>) = h
BY DEF Observe

(* A run of events that goes on with a key event and its report *)
GoesOn(events, e, all) ==
  /\ all \in Seq(Events) /\ Len(all) = Len(events) + 2
  /\ \A i \in 1 .. Len(events) : all[i] = events[i]
  /\ all[Len(events) + 1] = e /\ all[Len(events) + 2] = SYN

(* A key event and its report at the end of a run change that key alone. *)
LEMMA ObserveAppend ==
  ASSUME NEW h, NEW events \in Seq(Events), NEW all,
         NEW e \in Events, e # SYN, GoesOn(events, e, all)
  PROVE  Observe(h, all) =
           IF e.down THEN Observe(h, events) \cup {e.key} ELSE Observe(h, events) \ {e.key}
<1> DEFINE n == Len(events)
           k == e.key
<1>1. k \in Keys /\ e.down \in BOOLEAN
  BY SynIsNoKey
<1>2. /\ all \in Seq(Events) /\ DOMAIN all = 1 .. n + 2 /\ n \in Nat /\ DOMAIN events = 1 .. n
      /\ \A i \in 1 .. n : all[i] = events[i]
      /\ all[n + 1] = e /\ all[n + 2] = SYN
  BY DEF GoesOn
<1>3. \A i : LastOf(all, k, i) <=> i = n + 1
  BY <1>1, <1>2 DEF LastOf
<1>4. ASSUME NEW x, x # k
      PROVE  \A i : LastOf(all, x, i) <=> LastOf(events, x, i)
  BY <1>1, <1>2, <1>4 DEF LastOf
<1>5. k \in Observe(h, all) <=> e.down
  BY <1>1, <1>2, <1>3, ObserveMember
<1>6. ASSUME NEW x \in Keys, x # k
      PROVE  x \in Observe(h, all) <=> x \in Observe(h, events)
  <2>1. \A i : LastOf(events, x, i) => all[i] = events[i]
    BY <1>2 DEF LastOf
  <2> QED BY <1>2, <1>4, <1>6, <2>1, ObserveMember
<1>7. Observe(h, all) \subseteq Keys /\ Observe(h, events) \subseteq Keys
  BY DEF Observe
<1> QED BY <1>1, <1>5, <1>6, <1>7

(* However a run of events is cut, the pieces observed in turn add up. *)
LEMMA ObserveSplit ==
  ASSUME NEW h, NEW events \in Seq(Events), NEW n \in 1 .. Len(events)
  PROVE  Observe(Observe(h, SubSeq(events, 1, n)), SubSeq(events, n + 1, Len(events)))
           = Observe(h, events)
<1> DEFINE a == SubSeq(events, 1, n)
           b == SubSeq(events, n + 1, Len(events))
<1>1. /\ n \in Nat /\ Len(events) \in Nat
      /\ a \in Seq(Events) /\ DOMAIN a = 1 .. n /\ \A i \in 1 .. n : a[i] = events[i]
      /\ b \in Seq(Events) /\ DOMAIN b = 1 .. Len(events) - n
      /\ \A i \in 1 .. Len(events) - n : b[i] = events[i + n]
      /\ DOMAIN events = 1 .. Len(events)
  OBVIOUS
<1> HIDE DEF a, b
<1>2. ASSUME NEW k \in Keys
      PROVE  k \in Observe(Observe(h, a), b) <=> k \in Observe(h, events)
  <2>1. CASE \E j \in DOMAIN b : b[j] # SYN /\ b[j].key = k
    <3>1. PICK i : LastOf(b, k, i)
      BY <1>1, <2>1, LastExists
    <3>2. LastOf(events, k, i + n) /\ i + n \in DOMAIN events /\ events[i + n] = b[i]
      <4>1. i \in 1 .. Len(events) - n /\ events[i + n] = b[i] /\ b[i] # SYN /\ b[i].key = k
        BY <1>1, <3>1 DEF LastOf
      <4>2. ASSUME NEW j \in DOMAIN events, j > i + n, events[j] # SYN
            PROVE  events[j].key # k
        <5>1. j - n \in DOMAIN b /\ j - n > i /\ b[j - n] = events[j]
          BY <1>1, <4>1, <4>2
        <5> QED BY <3>1, <4>2, <5>1 DEF LastOf
      <4> QED BY <1>1, <4>1, <4>2 DEF LastOf
    <3>3. \A x : LastOf(events, k, x) => x = i + n
      BY <1>1, <3>2 DEF LastOf
    <3>4. \A x : LastOf(b, k, x) => x = i
      BY <1>1, <3>1 DEF LastOf
    <3>5. b[i].down \in BOOLEAN
      BY <1>1, <3>1, SynIsNoKey DEF LastOf
    <3>6. k \in Observe(h, events) <=> b[i].down
      BY <3>2, <3>3, <3>5, ObserveMember
    <3>7. k \in Observe(Observe(h, a), b) <=> b[i].down
      BY <1>1, <3>1, <3>4, <3>5, ObserveMember
    <3> QED BY <3>6, <3>7
  <2>2. CASE ~\E j \in DOMAIN b : b[j] # SYN /\ b[j].key = k
    <3>1. \A x : ~LastOf(b, k, x)
      BY <2>2 DEF LastOf
    <3>2. \A j \in DOMAIN events : j > n => ~(events[j] # SYN /\ events[j].key = k)
      <4>1. ASSUME NEW j \in DOMAIN events, j > n
            PROVE  j - n \in DOMAIN b /\ b[j - n] = events[j]
        <5>1. j \in 1 .. Len(events) /\ j - n \in 1 .. Len(events) - n
          BY <1>1, <4>1
        <5> QED BY <1>1, <5>1
      <4> QED BY <2>2, <4>1
    <3>3. \A x : LastOf(events, k, x) <=> LastOf(a, k, x)
      BY <1>1, <3>2 DEF LastOf
    <3>4. \A x : LastOf(a, k, x) => a[x] = events[x]
      BY <1>1 DEF LastOf
    <3>5. k \in Observe(h, events) <=> k \in Observe(h, a)
      <4>1. (\E x : LastOf(events, k, x) /\ events[x].down) <=>
            (\E x : LastOf(a, k, x) /\ a[x].down)
        BY <3>3, <3>4
      <4>2. (\E x : LastOf(events, k, x) /\ ~events[x].down) <=>
            (\E x : LastOf(a, k, x) /\ ~a[x].down)
        BY <3>3, <3>4
      <4> QED BY <1>1, <4>1, <4>2, ObserveMember
    <3>6. k \in Observe(Observe(h, a), b) <=> k \in Observe(h, a)
      BY <1>1, <3>1, ObserveMember
    <3> QED BY <3>5, <3>6
  <2> QED BY <2>1, <2>2
<1>3. Observe(Observe(h, a), b) \subseteq Keys /\ Observe(h, events) \subseteq Keys
  BY DEF Observe
<1> QED BY <1>2, <1>3 DEF a, b

(* A resync to the kernel's state absorbs the events still unread. *)
LEMMA ObserveResync ==
  ASSUME NEW h, NEW events \in Seq(Events)
  PROVE  Observe(Observe(h, events), events) = Observe(h, events)
<1>1. ASSUME NEW k \in Keys
      PROVE  k \in Observe(Observe(h, events), events) <=> k \in Observe(h, events)
  BY ObserveMember
<1>2. Observe(Observe(h, events), events) \subseteq Keys /\ Observe(h, events) \subseteq Keys
  BY DEF Observe
<1> QED BY <1>1, <1>2

-----------------------------------------------------------------------------
(* Key tracking: the invariant *)

TrackingInv == TypeInv /\ TrackedMatchesKernel

(* Closing nodes and whatever leaves keys and events alone. *)
LEMMA UntouchedTracking ==
  ASSUME TrackedMatchesKernel, kernel' = kernel, nodes' \subseteq nodes,
         \A d \in nodes' : held'[d] = held[d] /\ unread'[d] = unread[d]
  PROVE  TrackedMatchesKernel'
BY DEF TrackedMatchesKernel

LEMMA UngrabTracking ==
  ASSUME TrackedMatchesKernel, kernel' = kernel,
         UngrabOrSuspend \/ Suspend \/ UNCHANGED <<aggregate, capture, unread>>
  PROVE  TrackedMatchesKernel'
<1>1. nodes' = {} \/ UNCHANGED <<nodes, held, unread>>
  BY DEF UngrabOrSuspend, Suspend, aggregate, capture
<1> QED BY <1>1, UntouchedTracking

(* A node joins with the kernel's keys and nothing unread. *)
LEMMA ReconcileTracking ==
  ASSUME TypeOK, TrackedMatchesKernel, kernel' = kernel,
         NEW open \in SUBSET nodes, NEW selected \in SUBSET Devices, NEW mayJoin \in BOOLEAN,
         Reconcile(open, selected, mayJoin)
  PROVE  TrackedMatchesKernel'
<1> DEFINE stays == open \cap selected
           joins == IF mayJoin THEN selected \ open ELSE {}
<1> SUFFICES ASSUME NEW d \in nodes' \ Foreign
             PROVE  Observe(held'[d], unread'[d]) = kernel[d]
  BY DEF TrackedMatchesKernel
<1>1. d \in Devices /\ (d \in stays \/ d \in joins)
  BY DEF Reconcile
<1>2. CASE d \in joins
  <2>1. held'[d] = kernel[d] /\ unread'[d] = <<>>
    BY <1>1, <1>2 DEF Reconcile, TakesIn
  <2> QED BY <1>1, <2>1, ObserveNothing DEF TypeOK
<1>3. CASE d \in stays
  <2>1. d \in nodes /\ held'[d] = held[d] /\ unread'[d] = unread[d]
    BY <1>1, <1>3 DEF Reconcile
  <2> QED BY <2>1 DEF TrackedMatchesKernel
<1> QED BY <1>1, <1>2, <1>3

LEMMA CommandsTracking == TrackingInv /\ Commands => TrackedMatchesKernel'
<1> SUFFICES ASSUME TypeOK, TrackedMatchesKernel, Commands PROVE TrackedMatchesKernel'
  BY DEF TrackingInv, TypeInv
<1>1. CASE Activate
  <2> SUFFICES ASSUME NEW d \in nodes \ Foreign
               PROVE  Observe(held'[d], unread[d]) = kernel[d]
    BY <1>1 DEF Activate, TrackedMatchesKernel, capture, world
  <2>1. d \in Devices /\ held'[d] = kernel[d] /\ unread[d] \in Seq(Events)
    BY <1>1 DEF Activate, TypeOK
  <2>2. Observe(held[d], unread[d]) = kernel[d]
    BY DEF TrackedMatchesKernel
  <2> QED BY <2>1, <2>2, ObserveResync
<1>2. CASE ReleaseLive
  BY <1>2, UngrabTracking DEF ReleaseLive, RequestTerminal, ForceRelease, world, aggregate, capture
<1>3. CASE ReleaseLost
  BY <1>3, UngrabTracking DEF ReleaseLost, ForceRelease, world, aggregate, capture
<1>4. CASE TerminalSent
  BY <1>4, UngrabTracking DEF TerminalSent, ForceRelease, world, aggregate, capture
<1>5. CASE Stop
  BY <1>5, UngrabTracking DEF Stop, world
<1>6. CASE Reload
  <2>1. PICK selected \in SUBSET Devices :
          Reconcile(nodes, selected, TRUE) \/ Reconcile({}, selected, TRUE)
    BY <1>6 DEF Reload
  <2>2. kernel' = kernel
    BY <1>6 DEF Reload, world
  <2> QED BY <2>1, <2>2, ReconcileTracking
<1>7. CASE ReloadFails
  BY <1>7, UngrabTracking DEF ReloadFails, world
<1> QED BY <1>1, <1>2, <1>3, <1>4, <1>5, <1>6, <1>7 DEF Commands

LEMMA ReadsTracking == TrackingInv /\ Reads => TrackedMatchesKernel'
<1> SUFFICES ASSUME TypeOK, TrackedMatchesKernel, Reads PROVE TrackedMatchesKernel'
  BY DEF TrackingInv, TypeInv
<1>1. CASE ReadReady
  <2>1. PICK r \in nodes : \E n \in 1 .. Len(unread[r]) :
          /\ unread' = [unread EXCEPT ![r] = SubSeq(@, n + 1, Len(@))]
          /\ held' = [held EXCEPT ![r] = Observe(@, SubSeq(unread[r], 1, n))]
    BY <1>1 DEF ReadReady
  <2>2. PICK n \in 1 .. Len(unread[r]) :
          /\ unread' = [unread EXCEPT ![r] = SubSeq(@, n + 1, Len(@))]
          /\ held' = [held EXCEPT ![r] = Observe(@, SubSeq(unread[r], 1, n))]
    BY <2>1
  <2>3. nodes' = nodes /\ kernel' = kernel
    BY <1>1 DEF ReadReady, capture, world
  <2> SUFFICES ASSUME NEW d \in nodes \ Foreign
               PROVE  Observe(held'[d], unread'[d]) = kernel[d]
    BY <2>3 DEF TrackedMatchesKernel
  <2>4. d \in Devices /\ unread[d] \in Seq(Events) /\ Observe(held[d], unread[d]) = kernel[d]
    BY DEF TypeOK, TrackedMatchesKernel
  <2>5. CASE d = r
    <3>1. /\ held'[d] = Observe(held[d], SubSeq(unread[d], 1, n))
          /\ unread'[d] = SubSeq(unread[d], n + 1, Len(unread[d]))
      BY <2>2, <2>4, <2>5 DEF TypeOK
    <3> QED BY <2>4, <2>5, <3>1, ObserveSplit
  <2>6. CASE d # r
    BY <2>2, <2>4, <2>6 DEF TypeOK
  <2> QED BY <2>5, <2>6
<1>2. CASE DeviceRemoved
  <2>1. CASE Suspend
    BY <1>2, <2>1, UngrabTracking DEF DeviceRemoved, world
  <2>2. CASE ~Suspend
    BY <1>2, <2>2, UntouchedTracking DEF DeviceRemoved, TypeOK, world
  <2> QED BY <2>1, <2>2
<1>3. CASE ReadFails
  BY <1>3, UngrabTracking DEF ReadFails, world
<1>4. CASE Rescan
  <2>1. PICK selected \in SUBSET Devices :
          Reconcile(nodes, selected, TRUE) \/ Reconcile(nodes, selected, grabbed = {})
    BY <1>4 DEF Rescan
  <2>2. kernel' = kernel
    BY <1>4 DEF Rescan, world
  <2> QED BY <2>1, <2>2, ReconcileTracking
<1>5. CASE RescanFails
  BY <1>5, UngrabTracking DEF RescanFails, world
<1> QED BY <1>1, <1>2, <1>3, <1>4, <1>5 DEF Reads

LEMMA ThreadTracking == TrackingInv /\ Thread => TrackedMatchesKernel'
<1> SUFFICES ASSUME TrackedMatchesKernel, Thread PROVE TrackedMatchesKernel'
  BY DEF TrackingInv
<1>1. kernel' = kernel
  BY DEF Thread, HandleFrame, InspectFails, BoundaryWaits, AcquireGrabs, ReleaseGrabs,
         CheckBefore, GrabOne, GrabSucceeded, GrabFails, GrabFailed, world
<1>2. CASE HandleFrame
  BY <1>1, <1>2, UngrabTracking DEF HandleFrame, RequestTerminal, ForceRelease
<1>3. CASE ReleaseGrabs \/ GrabFails
  BY <1>1, <1>3, UngrabTracking DEF ReleaseGrabs, GrabFails, GrabFailed
<1>4. CASE InspectFails \/ BoundaryWaits \/ AcquireGrabs \/ CheckBefore \/ GrabSucceeded
  BY <1>1, <1>4, UngrabTracking
     DEF InspectFails, BoundaryWaits, AcquireGrabs, CheckBefore, GrabSucceeded
<1>5. CASE GrabOne
  BY <1>1, <1>5, UntouchedTracking DEF GrabOne, aggregate
<1> QED BY <1>2, <1>3, <1>4, <1>5 DEF Thread

LEMMA UserTracking ==
  ASSUME TrackingInv, KeyEvent \/ PointerFrame \/ Stopped \/ UNCHANGED vars
  PROVE  TrackedMatchesKernel'
<1> USE DEF TrackingInv, TypeInv
<1>1. CASE KeyEvent
  <2>1. PICK r \in Devices, k \in Keys :
          /\ kernel' = [kernel EXCEPT ![r] = IF k \notin kernel[r] THEN kernel[r] \cup {k}
                                             ELSE kernel[r] \ {k}]
          /\ unread' = IF r \in nodes \ Foreign
                         THEN [unread EXCEPT
                                 ![r] = @ \o <<[key |-> k, down |-> k \notin kernel[r]], SYN>>]
                         ELSE unread
          /\ UNCHANGED <<aggregate, capture>>
    BY <1>1 DEF KeyEvent
  <2> SUFFICES ASSUME NEW d \in nodes \ Foreign
               PROVE  Observe(held[d], unread'[d]) = kernel'[d]
    BY <2>1 DEF TrackedMatchesKernel, aggregate, capture
  <2>2. d \in Devices /\ unread[d] \in Seq(Events) /\ Observe(held[d], unread[d]) = kernel[d]
    BY DEF TypeOK, TrackedMatchesKernel
  <2>3. CASE d = r
    <3> DEFINE e == [key |-> k, down |-> k \notin kernel[d]]
    <3>1. unread'[d] = unread[d] \o <<e, SYN>>
      BY <2>1, <2>2, <2>3 DEF TypeOK
    <3>2. e \in Events /\ SYN \in Events /\ e # SYN /\ e.key = k /\ (e.down <=> k \notin kernel[d])
      BY DEF Events, SYN
    <3> HIDE DEF e
    <3>3. GoesOn(unread[d], e, unread'[d])
      BY <2>2, <3>1, <3>2 DEF GoesOn
    <3>4. Observe(held[d], unread'[d]) =
            IF e.down THEN Observe(held[d], unread[d]) \cup {e.key}
                      ELSE Observe(held[d], unread[d]) \ {e.key}
      BY <2>2, <3>2, <3>3, ObserveAppend
    <3>5. kernel'[d] = IF k \notin kernel[d] THEN kernel[d] \cup {k} ELSE kernel[d] \ {k}
      BY <2>1, <2>2, <2>3 DEF TypeOK
    <3> QED BY <2>2, <3>2, <3>4, <3>5
  <2>4. CASE d # r
    BY <2>1, <2>2, <2>4 DEF TypeOK
  <2> QED BY <2>3, <2>4
<1>2. CASE PointerFrame
  <2>1. PICK r \in nodes \ (Foreign \cup partial) :
          /\ unread[r] = <<>> /\ unread' = [unread EXCEPT ![r] = <<SYN>>]
          /\ UNCHANGED <<aggregate, capture, world>>
    BY <1>2 DEF PointerFrame
  <2> SUFFICES ASSUME NEW d \in nodes \ Foreign
               PROVE  Observe(held[d], unread'[d]) = kernel[d]
    BY <2>1 DEF TrackedMatchesKernel, aggregate, capture, world
  <2>2. d \in Devices /\ held[d] \in SUBSET Keys /\ Observe(held[d], unread[d]) = kernel[d]
    BY DEF TypeOK, TrackedMatchesKernel
  <2>3. CASE d = r
    <3>1. unread'[d] = <<SYN>>
      BY <2>1, <2>2, <2>3 DEF TypeOK
    <3> QED BY <2>1, <2>2, <2>3, <3>1, ObserveReport, ObserveNothing
  <2>4. CASE d # r
    BY <2>1, <2>2, <2>4 DEF TypeOK
  <2> QED BY <2>3, <2>4
<1>3. CASE Stopped \/ UNCHANGED vars
  BY <1>3, UngrabTracking DEF Stopped, vars, world
<1> QED BY <1>1, <1>2, <1>3

(* Whatever is read when, resynced, unplugged or reopened, the tracked keys   *)
(* are the kernel's as soon as what is unread has been read.                  *)
THEOREM TrackedMatches == Spec => []TrackedMatchesKernel
<1>1. Init => TrackingInv
  <2>1. Init => TrackedMatchesKernel
    BY ObserveNothing DEF Init, TrackedMatchesKernel, NothingHeld
  <2> QED BY <2>1, InitTypes DEF TrackingInv
<1>2. TrackingInv /\ [Next]_vars => TrackingInv'
  <2>1. TypeInv /\ [Next]_vars => TypeInv'
    BY CommandsType, ReadsType, ThreadType, UserType DEF Next
  <2>2. TrackingInv /\ [Next]_vars => TrackedMatchesKernel'
    BY CommandsTracking, ReadsTracking, ThreadTracking, UserTracking DEF Next
  <2> QED BY <2>1, <2>2 DEF TrackingInv
<1>3. TrackingInv => TrackedMatchesKernel
  BY DEF TrackingInv
<1> QED BY <1>1, <1>2, <1>3, PTL DEF Spec
=============================================================================
