--------------------------- MODULE PlumbingProofs ---------------------------
(***************************************************************************)
(* Proofs about the parts of MCPlumbing: the seat monitor and its gate, the *)
(* pairing window, the AWDL lease, the links and who is listed, discovery,  *)
(* the wire, the virtual devices, the touchpad and the clipboard; the shared*)
(* layout has a module of its own.  Every part has an inductive invariant   *)
(* that holds whenever that part is the one that runs; it is shown for the  *)
(* part's Init, for every one of its actions, and for a step that leaves the*)
(* part alone.                                                              *)
(***************************************************************************)
EXTENDS MCPlumbing, FiniteSetTheorems, SequenceTheorems, TLAPS

(* Everything a state of MCPlumbing holds.                                   *)
plumbingVars ==
  <<part, touchpadVars, transportVars, arrangeVars, layoutVars, seatVars, timingVars, virtualVars,
    linksVars, discoveryVars, nearbyVars, awdlVars, clipboardVars, edgeMapVars>>

(* A behaviour runs one part, and a step is a step of it or changes nothing   *)
(* of it.                                                                    *)
LEMMA OnePartRuns ==
  [MCNext]_plumbingVars =>
    /\ part' = part
    /\ part = "Gate" => SeatNext \/ UNCHANGED seatVars
    /\ part = "Arranging" => ArrangeNext \/ UNCHANGED arrangeVars
    /\ part = "Radio" => AwdlNext \/ UNCHANGED awdlVars
    /\ part = "Layouts" => LayoutNext \/ UNCHANGED layoutVars
    /\ part = "Clips" => ClipboardNext \/ UNCHANGED clipboardVars
    /\ part = "AutoLinks" => LinksNext \/ UNCHANGED linksVars
    /\ part = "Listing" => NearbyNext \/ UNCHANGED nearbyVars
    /\ part = "Browsing" => DiscoveryNext \/ UNCHANGED discoveryVars
    /\ part = "Wire" => TransportNext \/ UNCHANGED transportVars
    /\ part = "Kernel" => VirtualNext \/ UNCHANGED virtualVars
    /\ part = "Pad" => TouchpadNext \/ UNCHANGED touchpadVars
  BY DEF plumbingVars, MCNext, RunPad, RunWire, RunArranging, RunLayouts, RunGate, RunClocks,
         RunKernel, RunAutoLinks, RunBrowsing, RunListing, RunRadio, RunClips, RunEdges

-----------------------------------------------------------------------------
(* The places of the follower's loop in follow_logind.                       *)
SeatPlaces == {"subscribe", "inspect", "wait", "debounce"}

(* What an inspection has read so far when nothing changed under it.         *)
FirstRead == ReadSeat
SecondRead == IF seat.active = 0 THEN ReadSeat ELSE ReadSession(seat.active)
UndisturbedReads ==
  {<<>>, <<FirstRead>>, <<FirstRead, SecondRead>>} \cup
  (IF seat.active = 0 THEN {}
   ELSE {<<FirstRead, SecondRead, FirstRead>>, <<FirstRead, SecondRead, FirstRead, SecondRead>>})

(* What the variables of the seat monitor range over.                        *)
SeatTypes ==
  /\ seat \in [active : UserSessions \cup Greeters \cup {0}, locked : SUBSET UserSessions]
  /\ signals \in Nat /\ bus \in {"none", "up", "lost"}
  /\ DOMAIN follower = {"at", "read"} /\ follower.at \in SeatPlaces
  /\ DOMAIN published = {"state", "changed"} /\ published.changed \in BOOLEAN
  /\ DOMAIN grace = {"state", "since", "gate", "held"}
  /\ grace.since = <<>> \/ (grace.since = <<grace.since[1]>> /\ grace.since[1] \in Nat)
  /\ seatClock \in Nat /\ unknownAt \in Nat /\ unknownAt <= seatClock

(* Without a signal since its first read, an inspection has read the seat as *)
(* it is: that is why what it publishes then is the seat's own state.        *)
FollowerInv ==
  /\ bus = "none" <=> follower.at = "subscribe"
  /\ follower.at = "inspect" /\ bus = "up" /\ signals = 0 => follower.read \in UndisturbedReads
  /\ SeatIsCurrent

(* The gate's bookkeeping between two of its wakings. A grace period starts  *)
(* at the latest when the state last became unknown, and a publication the   *)
(* watcher has seen is the one it went by.                                   *)
GateInv ==
  /\ grace.gate = injection_gate(grace.state) /\ (grace.held <=> grace.since # <<>>)
  /\ grace.since # <<>> => grace.since[1] <= unknownAt
  /\ IsUnknown(published.state) /\ grace.since = <<>> => unknownAt = seatClock /\ published.changed
  /\ ~published.changed /\ ~IsUnknown(published.state) =>
       grace.since = <<>> /\ grace.state = published.state

(* The inductive invariant of the seat monitor.                              *)
SeatInv == SeatTypes /\ FollowerInv /\ GateInv

(* It holds in the behaviours that run that part.                            *)
SeatHolds == part = "Gate" => SeatInv

(* A tuple of one is not empty, and its element is the one it was made of.   *)
LEMMA OneIsThere == \A t : <<t>> # <<>> /\ <<t>>[1] = t
  OBVIOUS

(* Appending to a tuple of up to three elements.                             *)
LEMMA AppendSecond ==
  ASSUME NEW a, NEW b PROVE Append(<<a>>, b) = <<a, b>>
  <1> DEFINE S == {a, b}
  <1> DEFINE t == Append(<<a>>, b)
  <1>1. <<a>> \in Seq(S) /\ <<a, b>> \in Seq(S) /\ b \in S /\ Len(<<a>>) = 1 /\ Len(<<a, b>>) = 2
    OBVIOUS
  <1>2. t \in Seq(S) /\ Len(t) = 2 /\ (\A i \in 1..1 : t[i] = <<a>>[i]) /\ t[2] = b
    BY <1>1, AppendProperties
  <1>3. \A i \in 1..2 : t[i] = <<a, b>>[i]
    BY <1>2
  <1> QED  BY <1>1, <1>2, <1>3, SeqEqual

(* As AppendSecond, for the third element.                                   *)
LEMMA AppendThird ==
  ASSUME NEW a, NEW b, NEW c PROVE Append(<<a, b>>, c) = <<a, b, c>>
  <1> DEFINE S == {a, b, c}
  <1> DEFINE t == Append(<<a, b>>, c)
  <1>1. <<a, b>> \in Seq(S) /\ <<a, b, c>> \in Seq(S) /\ c \in S /\ Len(<<a, b>>) = 2 /\ Len(<<a, b, c>>) = 3
    OBVIOUS
  <1>2. t \in Seq(S) /\ Len(t) = 3 /\ (\A i \in 1..2 : t[i] = <<a, b>>[i]) /\ t[3] = c
    BY <1>1, AppendProperties
  <1>3. \A i \in 1..3 : t[i] = <<a, b, c>>[i]
    BY <1>2
  <1> QED  BY <1>1, <1>2, <1>3, SeqEqual

(* As AppendSecond, for the fourth element.                                  *)
LEMMA AppendFourth ==
  ASSUME NEW a, NEW b, NEW c, NEW d PROVE Append(<<a, b, c>>, d) = <<a, b, c, d>>
  <1> DEFINE S == {a, b, c, d}
  <1> DEFINE t == Append(<<a, b, c>>, d)
  <1>1. <<a, b, c>> \in Seq(S) /\ <<a, b, c, d>> \in Seq(S) /\ d \in S /\ Len(<<a, b, c>>) = 3 /\ Len(<<a, b, c, d>>) = 4
    OBVIOUS
  <1>2. t \in Seq(S) /\ Len(t) = 4 /\ (\A i \in 1..3 : t[i] = <<a, b, c>>[i]) /\ t[4] = d
    BY <1>1, AppendProperties
  <1>3. \A i \in 1..4 : t[i] = <<a, b, c, d>>[i]
    BY <1>2
  <1> QED  BY <1>1, <1>2, <1>3, SeqEqual

(* An Unknown state opens no gate.                                           *)
LEMMA UnknownIsDenied == \A state : IsUnknown(state) => injection_gate(state) = "Denied"
  BY DEF IsUnknown, injection_gate

(* The monitor starts in it: no bus, an unknown state and a shut gate.       *)
LEMMA SeatStarts == SeatInit => SeatInv
  <1> SUFFICES ASSUME SeatInit PROVE SeatInv  OBVIOUS
  <1>1. SeatTypes
    <2>1. grace = [state |-> Unknown("not queried"), since |-> <<0>>, gate |-> "Denied", held |-> TRUE]
      BY DEF SeatInit
    <2>2. grace.since = <<grace.since[1]>> /\ grace.since[1] \in Nat
      BY <2>1, OneIsThere
    <2>3. DOMAIN grace = {"state", "since", "gate", "held"}
      BY <2>1
    <2>4. seat \in [active : UserSessions \cup Greeters \cup {0}, locked : SUBSET UserSessions]
      BY DEF SeatInit
    <2>5. DOMAIN follower = {"at", "read"} /\ follower.at \in SeatPlaces
      BY DEF SeatInit, At_, SeatPlaces
    <2>6. DOMAIN published = {"state", "changed"} /\ published.changed \in BOOLEAN
      BY DEF SeatInit
    <2>7. signals \in Nat /\ bus \in {"none", "up", "lost"} /\ seatClock = 0 /\ unknownAt = 0
      BY DEF SeatInit
    <2> QED  BY <2>2, <2>3, <2>4, <2>5, <2>6, <2>7 DEF SeatTypes
  <1>2. FollowerInv
    BY DEF SeatInit, FollowerInv, SeatIsCurrent, At_
  <1>3. GateInv
    <2>1. grace.state = published.state /\ published.changed = FALSE /\ IsUnknown(published.state)
      BY DEF SeatInit, IsUnknown, Unknown
    <2>2. grace.since = <<0>> /\ grace.gate = "Denied" /\ grace.held = TRUE /\ unknownAt = 0
      BY DEF SeatInit
    <2>3. grace.since # <<>> /\ grace.since[1] = 0
      BY <2>2, OneIsThere
    <2>4. seatClock = 0
      BY DEF SeatInit
    <2> QED  BY <2>1, <2>2, <2>3, <2>4, UnknownIsDenied DEF GateInv
  <1> QED  BY <1>1, <1>2, <1>3 DEF SeatInv

(* An undisturbed inspection that ends finds the seat's state.               *)
LEMMA UndisturbedIsTrue ==
  ASSUME SeatTypes, follower.read \in UndisturbedReads, inspect_seat(follower.read) # <<>>
  PROVE  inspect_seat(follower.read)[1] = TrueState(seat)
  <1> DEFINE s == seat.active
  <1>1. follower.read[1] = FirstRead \/ follower.read = <<>>
    BY DEF UndisturbedReads
  <1>2. CASE seat.active = 0
    <2>1. \A i \in 1..Len(follower.read) : follower.read[i] = FirstRead
      BY <1>2 DEF UndisturbedReads, FirstRead, SecondRead, ReadSeat
    <2>3. FirstRead.active = 0 /\ 0 \notin UserSessions
      BY <1>2, SeatAssumption DEF FirstRead, ReadSeat
    <2>4. Len(follower.read) = 2 /\ follower.read[1].active = 0 /\ follower.read[2].active = 0
      BY <1>2, <2>3, <2>1 DEF UndisturbedReads, inspect_seat
    <2>5. inspect_seat(follower.read) = <<Definite("Restricted")>>
      BY <2>4 DEF inspect_seat
    <2> QED  BY <1>2, <2>3, <2>5 DEF TrueState
  <1>3. CASE seat.active # 0
    <2>1. follower.read = <<FirstRead, SecondRead, FirstRead, SecondRead>>
      BY <1>3 DEF UndisturbedReads, inspect_seat, FirstRead, ReadSeat
    <2>2. inspect_seat(follower.read) = <<classify_session(seat.active, SecondRead)>>
      BY <1>3, <2>1 DEF inspect_seat, FirstRead, ReadSeat
    <2>3. SecondRead.Active = TRUE /\ SecondRead.LockedHint = (seat.active \in seat.locked)
      BY <1>3 DEF SecondRead, ReadSession
    <2>4. /\ seat.active \in UserSessions \cup Greeters
          /\ seat.locked \subseteq UserSessions
          /\ UserSessions \cap Greeters = {}
      BY <1>3, SeatAssumption DEF SeatTypes
    <2>5. classify_session(seat.active, SecondRead) = TrueState(seat)
      BY <2>3, <2>4 DEF classify_session, TrueState
    <2> QED  BY <2>2, <2>5
  <1> QED  BY <1>2, <1>3

(* Publishing leaves the gate's bookkeeping right, whatever was published.   *)
LEMMA PublishKeepsGate ==
  ASSUME SeatTypes, GateInv, NEW state, publish(state), UNCHANGED <<grace, seatClock>>
  PROVE  GateInv' /\ published'.changed \in BOOLEAN /\ DOMAIN published' = {"state", "changed"}
         /\ unknownAt' \in Nat /\ unknownAt' <= seatClock /\ published'.state = state
  <1>1. published'.state = state /\ published'.changed \in BOOLEAN /\ DOMAIN published' = {"state", "changed"}
    BY DEF publish, SeatTypes
  <1>2. unknownAt' \in Nat /\ unknownAt' <= seatClock /\ (unknownAt' = unknownAt \/ unknownAt' = seatClock)
    BY DEF publish, SeatTypes
  <1>3. /\ grace.gate = injection_gate(grace.state) /\ (grace.held <=> grace.since # <<>>)
        /\ grace' = grace /\ seatClock' = seatClock
    BY DEF GateInv
  <1>4. grace.since # <<>> => grace.since[1] <= unknownAt'
    BY <1>2 DEF GateInv, SeatTypes, publish
  <1>5. IsUnknown(state) /\ grace.since = <<>> => unknownAt' = seatClock /\ published'.changed
    BY <1>1 DEF GateInv, SeatTypes, publish
  <1>6. ~published'.changed /\ ~IsUnknown(state) => grace.since = <<>> /\ grace.state = state
    BY <1>1 DEF GateInv, SeatTypes, publish
  <1> QED
    BY <1>1, <1>2, <1>3, <1>4, <1>5, <1>6 DEF GateInv, IsUnknown

(* What the gate goes by did not change.                                     *)
LEMMA GateUntouched ==
  GateInv /\ UNCHANGED <<published, grace, seatClock, unknownAt>> => GateInv'
  BY DEF GateInv, IsUnknown

(* Every step of the seat, the follower and the gate keeps it: only show     *)
(* extends an inspection, and only a publication or a waking moves the gate. *)
LEMMA SeatStep == ASSUME SeatInv, SeatNext PROVE SeatInv'
  <1> USE DEF SeatInv
  <1>1. CASE SeatChange
    <2>1. GateInv'
      BY <1>1, GateUntouched DEF SeatChange
    <2>2. SeatTypes'
      BY <1>1 DEF SeatChange, SeatTypes
    <2>3. signals' = IF bus = "up" THEN signals + 1 ELSE signals
      BY <1>1 DEF SeatChange
    <2>4. FollowerInv'
      BY <1>1, <2>3 DEF SeatChange, SeatTypes, FollowerInv, SeatIsCurrent
    <2> QED  BY <2>1, <2>2, <2>4
  <1>2. CASE LoseBus
    <2>1. GateInv'
      BY <1>2, GateUntouched DEF LoseBus
    <2>2. SeatTypes' /\ FollowerInv'
      BY <1>2 DEF LoseBus, SeatTypes, FollowerInv, SeatIsCurrent
    <2> QED  BY <2>1, <2>2
  <1>3. CASE subscribe
    <2>1. GateInv'
      BY <1>3, GateUntouched DEF subscribe
    <2>2. follower' = [at |-> "inspect", read |-> <<>>] /\ bus' = "up" /\ signals' = 0
      BY <1>3 DEF subscribe, At_
    <2>3. SeatTypes'
      BY <1>3, <2>2 DEF subscribe, SeatTypes, SeatPlaces
    <2>4. FollowerInv'
      BY <2>2 DEF FollowerInv, SeatIsCurrent, UndisturbedReads
    <2> QED  BY <2>1, <2>3, <2>4
  <1>4. CASE subscription_ended
    <2>1. follower' = [at |-> "subscribe", read |-> <<>>] /\ bus' = "none"
      BY <1>4 DEF subscription_ended, At_
    <2>2. publish(Unknown("subscription")) /\ UNCHANGED <<seat, signals, grace, seatClock>>
      BY <1>4 DEF subscription_ended
    <2>3. GateInv' /\ published'.changed \in BOOLEAN /\ DOMAIN published' = {"state", "changed"}
          /\ unknownAt' \in Nat /\ unknownAt' <= seatClock
      BY <2>2, PublishKeepsGate
    <2>4. SeatTypes'
      BY <2>1, <2>2, <2>3 DEF SeatTypes, SeatPlaces
    <2>5. FollowerInv'
      BY <2>1 DEF FollowerInv, SeatIsCurrent
    <2> QED  BY <2>3, <2>4, <2>5
  <1>5. CASE show
    <2>1. GateInv'
      BY <1>5, GateUntouched DEF show
    <2>2. follower' = [follower EXCEPT !.read = Append(@, NextRead(@))] /\ follower.at = "inspect"
      BY <1>5 DEF show
    <2>3. DOMAIN follower' = {"at", "read"} /\ follower'.at = "inspect"
          /\ follower'.read = Append(follower.read, NextRead(follower.read))
      BY <2>2 DEF SeatTypes
    <2>4. SeatTypes'
      BY <1>5, <2>3 DEF show, SeatTypes
    <2>5. ASSUME follower.read \in UndisturbedReads PROVE follower'.read \in UndisturbedReads'
      <3>1. inspect_seat(follower.read) = <<>> /\ seat' = seat
        BY <1>5 DEF show
      <3>2. UndisturbedReads' = UndisturbedReads
        BY <3>1 DEF UndisturbedReads, FirstRead, SecondRead, ReadSeat, ReadSession
      <3>3. CASE follower.read = <<>>
        BY <3>2, <3>3, <2>3 DEF UndisturbedReads, NextRead, FirstRead
      <3>4. CASE follower.read = <<FirstRead>>
        <4>1. NextRead(follower.read) = SecondRead
          BY <3>4 DEF NextRead, FirstRead, SecondRead, ReadSeat
        <4>2. follower'.read = <<FirstRead, SecondRead>>
          BY <3>4, <4>1, <2>3, AppendSecond
        <4> QED  BY <3>2, <3>4, <4>2 DEF UndisturbedReads
      <3>5. CASE follower.read = <<FirstRead, SecondRead>>
        <4>1. seat.active # 0
          BY <3>1, <3>5 DEF inspect_seat, FirstRead, ReadSeat
        <4>2. NextRead(follower.read) = FirstRead
          BY <3>5 DEF NextRead, FirstRead
        <4>3. follower'.read = <<FirstRead, SecondRead, FirstRead>>
          BY <3>5, <4>2, <2>3, AppendThird
        <4> QED  BY <3>2, <4>1, <4>3 DEF UndisturbedReads
      <3>6. CASE follower.read = <<FirstRead, SecondRead, FirstRead>> /\ seat.active # 0
        <4>1. NextRead(follower.read) = SecondRead
          BY <3>6 DEF NextRead, FirstRead, SecondRead, ReadSeat
        <4>2. follower'.read = <<FirstRead, SecondRead, FirstRead, SecondRead>>
          BY <3>6, <4>1, <2>3, AppendFourth
        <4> QED  BY <3>2, <3>6, <4>2 DEF UndisturbedReads
      <3>7. CASE follower.read = <<FirstRead, SecondRead, FirstRead, SecondRead>>
        BY <3>1, <3>7 DEF inspect_seat
      <3> QED  BY <2>5, <3>3, <3>4, <3>5, <3>6, <3>7 DEF UndisturbedReads
    <2>6. FollowerInv'
      BY <1>5, <2>2, <2>3, <2>5 DEF show, FollowerInv, SeatIsCurrent
    <2> QED  BY <2>1, <2>4, <2>6
  <1>6. CASE inspected \/ unknown_query
    <2>1. PICK state : publish(state) /\ (state = Unknown("query") \/ (inspected /\ state = inspect_seat(follower.read)[1]))
      BY <1>6 DEF inspected, unknown_query
    <2>2. follower' = [at |-> "wait", read |-> <<>>] /\ follower.at = "inspect"
          /\ UNCHANGED <<seat, signals, bus, grace, seatClock>>
      BY <1>6 DEF inspected, unknown_query, At_
    <2>3. GateInv' /\ published'.changed \in BOOLEAN /\ DOMAIN published' = {"state", "changed"}
          /\ unknownAt' \in Nat /\ unknownAt' <= seatClock /\ published'.state = state
      BY <2>1, <2>2, PublishKeepsGate
    <2>4. SeatTypes'
      BY <2>2, <2>3 DEF SeatTypes, SeatPlaces
    <2>5. SeatIsCurrent'
      <3>1. SUFFICES ASSUME bus = "up", signals = 0 PROVE IsUnknown(state) \/ state = TrueState(seat)
        BY <2>2, <2>3 DEF SeatIsCurrent, IsUnknown, TrueState
      <3>2. follower.read \in UndisturbedReads
        BY <3>1, <2>2 DEF FollowerInv
      <3>3. CASE state = Unknown("query")
        BY <3>3 DEF IsUnknown, Unknown
      <3>4. CASE inspected /\ state = inspect_seat(follower.read)[1]
        BY <3>2, <3>4, UndisturbedIsTrue DEF inspected
      <3> QED  BY <2>1, <3>3, <3>4
    <2>6. FollowerInv'
      BY <2>2, <2>5 DEF FollowerInv
    <2> QED  BY <2>3, <2>4, <2>6
  <1>7. CASE WakeUp \/ Debounced
    <2>1. GateInv'
      BY <1>7, GateUntouched DEF WakeUp, Debounced
    <2>2. \/ follower' = [at |-> "debounce", read |-> <<>>] /\ follower.at = "wait" /\ bus' = bus
          \/ follower' = [at |-> "inspect", read |-> <<>>] /\ follower.at = "debounce" /\ bus' = bus
      BY <1>7 DEF WakeUp, Debounced, At_
    <2>3. SeatTypes'
      BY <1>7, <2>2 DEF WakeUp, Debounced, SeatTypes, SeatPlaces
    <2>4. FollowerInv'
      BY <2>2 DEF FollowerInv, SeatIsCurrent, UndisturbedReads
    <2> QED  BY <2>1, <2>3, <2>4
  <1>8. CASE watch_seat
    <2> DEFINE g == observe(grace, published.state)
    <2>1. /\ grace' = [g EXCEPT !.gate = injection_gate(g.state), !.held = g.since # <<>>]
          /\ published' = [published EXCEPT !.changed = FALSE]
          /\ UNCHANGED <<seat, signals, bus, follower, seatClock, unknownAt>>
      BY <1>8 DEF watch_seat
    <2>2. published'.state = published.state /\ published'.changed = FALSE
          /\ DOMAIN published' = {"state", "changed"}
      BY <2>1 DEF SeatTypes
    <2>3. FollowerInv'
      BY <2>1, <2>2 DEF FollowerInv, SeatIsCurrent, UndisturbedReads, FirstRead, SecondRead,
                        ReadSeat, ReadSession, IsUnknown, TrueState
    <2>4. DOMAIN g = {"state", "since", "gate", "held"}
      BY DEF observe, SeatTypes
    <2>5. /\ grace'.state = g.state /\ grace'.since = g.since /\ grace'.gate = injection_gate(g.state)
          /\ grace'.held <=> g.since # <<>>
          /\ DOMAIN grace' = {"state", "since", "gate", "held"}
      BY <2>1, <2>4
    <2>6. CASE ~IsUnknown(published.state)
      <3>1. g.state = published.state /\ g.since = <<>>
        BY <2>6 DEF observe, SeatTypes
      <3>2. GateInv'
        BY <2>1, <2>2, <2>5, <2>6, <3>1 DEF GateInv, IsUnknown
      <3>3. SeatTypes'
        BY <2>1, <2>2, <2>5, <3>1 DEF SeatTypes
      <3> QED  BY <2>3, <3>2, <3>3
    <2>7. CASE IsUnknown(published.state)
      <3>1. PICK t \in Nat : g.since = <<t>> /\ t <= unknownAt
        <4>1. CASE grace.since = <<>>
          BY <2>7, <4>1 DEF observe, SeatTypes, GateInv
        <4>2. CASE grace.since # <<>>
          BY <2>7, <4>2 DEF observe, SeatTypes, GateInv
        <4> QED  BY <4>1, <4>2
      <3>2. grace'.since # <<>> /\ grace'.since[1] = t
        BY <2>5, <3>1, OneIsThere
      <3>3. GateInv'
        BY <2>1, <2>2, <2>5, <2>7, <3>1, <3>2 DEF GateInv, IsUnknown
      <3>4. SeatTypes'
        BY <2>1, <2>2, <2>5, <3>1, <3>2 DEF SeatTypes
      <3> QED  BY <2>3, <3>3, <3>4
    <2> QED  BY <2>6, <2>7
  <1>9. CASE SeatTick
    <2>1. seatClock' = seatClock + 1 /\ ~published.changed
          /\ UNCHANGED <<seat, signals, bus, follower, published, grace, unknownAt>>
      BY <1>9 DEF SeatTick, Due
    <2>2. SeatTypes'
      BY <2>1 DEF SeatTypes
    <2>3. GateInv'
      BY <2>1 DEF GateInv, IsUnknown
    <2>4. FollowerInv'
      BY <2>1 DEF FollowerInv, SeatIsCurrent, UndisturbedReads, FirstRead, SecondRead,
                  ReadSeat, ReadSession, IsUnknown, TrueState
    <2> QED  BY <2>2, <2>3, <2>4
  <1> QED  BY <1>1, <1>2, <1>3, <1>4, <1>5, <1>6, <1>7, <1>8, <1>9 DEF SeatNext

(* A step of something else keeps it.                                        *)
LEMMA SeatUntouched == SeatInv /\ UNCHANGED seatVars => SeatInv'
  <1> SUFFICES ASSUME SeatInv, UNCHANGED seatVars PROVE SeatInv'  OBVIOUS
  <1> USE DEF seatVars, SeatInv
  <1>1. GateInv'
    BY GateUntouched
  <1>2. SeatTypes'
    BY DEF SeatTypes
  <1>3. FollowerInv'
    BY DEF FollowerInv, SeatIsCurrent, UndisturbedReads, FirstRead, SecondRead,
           ReadSeat, ReadSession, IsUnknown, TrueState
  <1> QED  BY <1>1, <1>2, <1>3

(* Between two of its wakings the gate is what GateFollowsSeat says.         *)
LEMMA GateIsRight == SeatInv => GateFollowsSeat
  <1> SUFFICES ASSUME SeatTypes, GateInv, ~Due PROVE GateFollowsSeat
    BY DEF SeatInv, GateFollowsSeat
  <1>1. CASE IsUnknown(published.state)
    <2>1. grace.since # <<>> /\ grace.held
      BY <1>1 DEF GateInv, Due
    <2>2. CASE IsUnknown(grace.state)
      BY <1>1, <2>2, UnknownIsDenied DEF GateFollowsSeat, GateInv
    <2>3. CASE ~IsUnknown(grace.state)
      <3>1. seatClock < grace.since[1] + SEAT_UNKNOWN_GRACE
        BY <2>1, <2>3, SeatAssumption DEF Due, deadline, SeatTypes
      <3> QED  BY <1>1, <2>1, <3>1, SeatAssumption DEF GateFollowsSeat, GateInv, SeatTypes
    <2> QED  BY <2>2, <2>3
  <1>2. CASE ~IsUnknown(published.state)
    BY <1>2 DEF GateFollowsSeat, GateInv, Due
  <1> QED  BY <1>1, <1>2

(* The gate and the monitor, for any sessions, greeters and grace: in        *)
(* whatever order logind changes, signals come, reads fail and the clock     *)
(* runs, the monitor rests only on the seat's state, and the gate follows    *)
(* what it published within the grace (linux/seat.rs, watch_seat).           *)
THEOREM SeatDecidesAlways == MCSpec => []SeatDecides
  <1>1. MCInit => SeatHolds
    BY SeatStarts DEF MCInit, SeatHolds
  <1>2. SeatHolds /\ [MCNext]_plumbingVars => SeatHolds'
    BY OnePartRuns, SeatStep, SeatUntouched DEF SeatHolds
  <1>3. SeatHolds => SeatDecides
    BY GateIsRight DEF SeatHolds, SeatDecides, SeatInv, FollowerInv
  <1> QED  BY <1>1, <1>2, <1>3, PTL DEF MCSpec, plumbingVars

-----------------------------------------------------------------------------
(* The window is open on a fresh install only, and once.                     *)
WindowInv ==
  /\ phase = "Open" => peers = {} /\ file = "open"
  /\ phase \in {"Eligible", "Open"} \/ file = "eligible" => auto = {}

(* The inductive invariant of the arrangement: at most one key was ever let  *)
(* in by the window, and whoever said hello during the window's life is      *)
(* remembered, or the table turned one away; a join that is under way goes   *)
(* to the only stranger that did.                                            *)
ArrangeInv ==
  /\ WindowInv
  /\ nb \in [Keys -> {"unknown", "fresh", "stale"}]
  /\ auto = {} \/ \E k \in Keys : auto = {k}
  /\ met \subseteq known \/ turned
  /\ task.what = "join" => task.key \in Keys /\ met \subseteq {task.key}

(* It holds in the behaviours that run that part.                            *)
ArrangeHolds == part = "Arranging" => ArrangeInv

(* A fresh install starts in it.                                             *)
LEMMA ArrangeStarts == ArrangeInit => ArrangeInv
  BY DEF ArrangeInit, ArrangeInv, WindowInv, NoTask

(* Closing the window loses neither.                                         *)
LEMMA ClosingIsSafe ==
  ASSUME WindowInv, CloseWindow \/ UNCHANGED <<phase, file>>, UNCHANGED <<peers, auto>>
  PROVE  WindowInv'
  BY DEF WindowInv, CloseWindow, Save

(* A computer is trusted: an open window is closed by it.                    *)
LEMMA TrustCloses ==
  ASSUME WindowInv, NEW k, NEW over, Trust(k, over)
  PROVE  /\ phase' # "Open" /\ phase' # "Eligible"
         /\ phase = "Open" => file' # "eligible"
         /\ file' = "eligible" => file = "eligible"
  BY DEF WindowInv, Trust, placed, CloseWindow, Save

(* A hello leaves its sender known, or the table turned it away.             *)
LEMMA HelloIsRemembered ==
  ASSUME met \subseteq known \/ turned, NEW k \in Keys, hello(k), Met(k), nb \in [Keys -> {"unknown", "fresh", "stale"}]
  PROVE  met' \subseteq known' \/ turned'
  BY DEF hello, Met, known

(* Every step of hellos, records, the window and its task keeps it.          *)
LEMMA ArrangeStep == ASSUME ArrangeInv, ArrangeNext PROVE ArrangeInv'
  <1> USE DEF ArrangeInv
  <1>1. CASE \E r \in Records : instance_seen(r) \/ instance_gone(r) \/ say_hello(r)
    <2>1. UNCHANGED <<nb, peers, phase, file, task, met, auto>> /\ (turned' = turned \/ turned' = TRUE)
      BY <1>1 DEF instance_seen, instance_gone, say_hello
    <2> QED  BY <2>1 DEF WindowInv, known
  <1>2. CASE \E k \in Keys : answer_hello(k) \/ \E r \in Records : HelloBack(r, k)
    <2>1. PICK k \in Keys : hello(k) /\ Met(k) /\ UNCHANGED <<peers, phase, file, task, auto>>
      BY <1>2 DEF answer_hello, HelloBack
    <2>2. met' \subseteq known' \/ turned'
      BY <2>1, HelloIsRemembered
    <2>3. nb' \in [Keys -> {"unknown", "fresh", "stale"}]
      BY <2>1 DEF hello
    <2>4. task.what = "join" => met' = met
      BY <2>1 DEF Met, NoTask
    <2> QED  BY <2>1, <2>2, <2>3, <2>4 DEF WindowInv
  <1>3. CASE \E k \in Keys : expire(k)
    <2>1. PICK k \in Keys : expire(k)
      BY <1>3
    <2>2. UNCHANGED <<turned, peers, phase, file, task, auto>> /\ met' \subseteq met
      BY <2>1 DEF expire
    <2>3. nb' \in [Keys -> {"unknown", "fresh", "stale"}]
      BY <2>1 DEF expire
    <2>4. met' \subseteq known' \/ turned'
      BY <2>1, <2>2 DEF expire, known
    <2> QED  BY <2>2, <2>3, <2>4 DEF WindowInv
  <1>4. CASE open
    <2>1. /\ phase = "Eligible" /\ met' = {} /\ UNCHANGED <<nb, peers, task, auto>>
          /\ phase' = "Open" => peers = {} /\ file' = "open"
      BY <1>4 DEF open, CloseWindow
    <2> QED  BY <2>1 DEF WindowInv
  <1>5. CASE LookAround
    <2>1. UNCHANGED <<nb, turned, peers, met, auto>> /\ (CloseWindow \/ UNCHANGED <<phase, file>>)
      BY <1>5 DEF LookAround
    <2>2. WindowInv'
      BY <2>1, ClosingIsSafe
    <2>3. task'.what = "join" => task'.key \in Keys /\ met \subseteq {task'.key}
      <3>1. SUFFICES ASSUME task'.what = "join" PROVE task'.key \in Keys /\ met \subseteq {task'.key}
        OBVIOUS
      <3>2. phase = "Open" /\ ~rival /\ Candidate # NoKey /\ task' = [what |-> "join", key |-> Candidate]
        BY <1>5, <3>1 DEF LookAround, NoTask
      <3>3. untrusted = {Candidate}
        BY <3>2 DEF Candidate
      <3>4. known \ {} = {Candidate} /\ ~turned
        BY <3>2, <3>3 DEF WindowInv, untrusted, rival
      <3> QED  BY <3>2, <3>4 DEF known
    <2> QED  BY <2>1, <2>2, <2>3 DEF known
  <1>6. CASE join
    <2>1. task' = NoTask /\ task.what = "join" /\ UNCHANGED <<nb, turned, met>>
      BY <1>6 DEF join
    <2>2. CASE join_allowed(task.key) /\ Trust(task.key, {}) /\ auto' = auto \cup {task.key}
      <3>1. auto = {}
        BY <2>2 DEF WindowInv, join_allowed
      <3>2. phase' \notin {"Open", "Eligible"} /\ file' # "eligible"
        BY <2>2, TrustCloses DEF join_allowed
      <3>3. auto' = {task.key} /\ task.key \in Keys
        BY <2>1, <2>2, <3>1
      <3> QED  BY <2>1, <3>2, <3>3 DEF WindowInv, known, NoTask
    <2>3. CASE (CloseWindow \/ UNCHANGED <<phase, file>>) /\ UNCHANGED <<peers, auto>>
      BY <2>1, <2>3, ClosingIsSafe DEF known, NoTask
    <2> QED  BY <1>6, <2>2, <2>3 DEF join, not_added
  <1>7. CASE introduce \/ \E k \in Keys : place(k)
    <2>1. UNCHANGED <<nb, turned, met, auto>> /\ (task' = NoTask \/ task' = task)
      BY <1>7 DEF introduce, place
    <2>2. CASE \E k, over : Trust(k, over)
      <3>1. WindowInv'
        BY <2>1, <2>2, TrustCloses DEF WindowInv
      <3> QED  BY <2>1, <3>1 DEF known, NoTask
    <2>3. CASE UNCHANGED <<phase, file, peers>>
      BY <2>1, <2>3 DEF WindowInv, known, NoTask
    <2> QED  BY <1>7, <2>2, <2>3 DEF introduce, place
  <1>8. CASE \E k \in Keys : forget(k) \/ PeerPlaces(k)
    <2>1. UNCHANGED <<nb, turned, phase, file, task, met, auto>> /\ peers' \subseteq peers
      BY <1>8 DEF forget, PeerPlaces
    <2> QED  BY <2>1 DEF WindowInv, known
  <1>9. CASE Restart
    <2>1. /\ phase' = load(file) /\ file' \in {file, "closed"} /\ met' = {} /\ task' = NoTask
          /\ nb' = [k \in Keys |-> "unknown"] /\ UNCHANGED <<peers, auto>>
      BY <1>9 DEF Restart, Save
    <2>2. phase' # "Open" /\ (phase' = "Eligible" => file = "eligible")
      BY <2>1 DEF load
    <2> QED  BY <2>1, <2>2 DEF WindowInv, NoTask
  <1> QED  BY <1>1, <1>2, <1>3, <1>4, <1>5, <1>6, <1>7, <1>8, <1>9 DEF ArrangeNext

(* A step of something else keeps it.                                        *)
LEMMA ArrangeUntouched == ArrangeInv /\ UNCHANGED arrangeVars => ArrangeInv'
  BY DEF ArrangeInv, WindowInv, arrangeVars, known

(* For any computers, records and size of the table, and wherever saves fail  *)
(* and the program restarts, the pairing window takes one computer in the     *)
(* life of an install, and only one that was alone (pairing_window.rs,       *)
(* daemon/arrange.rs).                                                       *)
THEOREM WindowIsForOneAlways == MCSpec => []WindowIsForOne
  <1>1. MCInit => ArrangeHolds
    BY ArrangeStarts DEF MCInit, ArrangeHolds
  <1>2. ArrangeHolds /\ [MCNext]_plumbingVars => ArrangeHolds'
    BY OnePartRuns, ArrangeStep, ArrangeUntouched DEF ArrangeHolds
  <1>3. ArrangeInv => WindowTakesOne /\ LoneStrangerJoins
    <2>1. ArrangeInv => Cardinality(auto) <= 1
      BY FS_EmptySet, FS_Singleton DEF ArrangeInv
    <2> QED  BY <2>1 DEF ArrangeInv, WindowTakesOne, LoneStrangerJoins
  <1>4. ArrangeHolds => WindowIsForOne
    BY <1>3 DEF ArrangeHolds, WindowIsForOne
  <1> QED  BY <1>1, <1>2, <1>4, PTL DEF MCSpec, plumbingVars

-----------------------------------------------------------------------------
gone == {u \in Users : awdlPhase[u] = "gone"}

(* What the variables of the lease range over. Every time the last user let   *)
(* go, one more user was gone for good, so there is a restore for each.      *)
LeaseTypes ==
  /\ awdlPhase \in [Users -> {"new", "wants", "gone"}]
  /\ downs \in [Users -> {"no", "waiting", "requests", "done", "gaveup"}]
  /\ restores \in [Emptyings -> {"no", "lingers", "waiting", "releases", "done"}]
  /\ lease \in Users \cup {Free} /\ lapsed \in BOOLEAN /\ lapses \in Nat
  /\ helper \in [of : Users \cup {Free}, open : BOOLEAN]
  /\ emptied \in Nat /\ emptied <= Cardinality(gone)
  /\ \A e \in Emptyings : e > emptied => restores[e] = "no"

(* Whoever talks with the helper has the lock, and has taken the lease out    *)
(* of the shared place first.                                                *)
LockInv ==
  /\ \A u \in Users : downs[u] = "requests" => locked = <<"down", u>> /\ lease = Free /\ ~helper.open
  /\ \A e \in Emptyings : restores[e] = "releases" => locked = <<"restore", e>> /\ lease = Free

(* An open pipe belongs to the lease that is kept, or to one going back. A    *)
(* lease that is kept or asked for when nobody wants AWDL down has a restore *)
(* of the last user still to come.                                           *)
BackInv ==
  /\ helper.open => \/ lease # Free /\ ~lapsed /\ helper = Grant(lease)
                    \/ \E e \in Emptyings : restores[e] = "releases"
  /\ wanting = {} /\ (lease # Free \/ (\E u \in Users : downs[u] = "requests")) =>
       emptied > 0 /\ restores[emptied] \in {"lingers", "waiting"}

(* Without a lapse a lease that is kept is the helper's, and it is kept as    *)
(* long as a user whose down() came through wants it.                        *)
KeptInv ==
  lapses = 0 =>
    /\ lease # Free => helper = Grant(lease) /\ ~lapsed
    /\ \A u \in wanting : downs[u] = "done" => lease # Free

(* The inductive invariant of the lease.                                     *)
LeaseInv == LeaseTypes /\ LockInv /\ BackInv /\ KeptInv

(* It holds in the behaviours that run that part.                            *)
LeaseHolds == part = "Radio" => LeaseInv

(* Two holders of the lock are the same one, and a held lock is not free.    *)
LEMMA HoldersDiffer ==
  /\ \A u, v : <<"down", u>> = <<"down", v>> => u = v
  /\ \A e, f : <<"restore", e>> = <<"restore", f>> => e = f
  /\ \A u, e : <<"down", u>> # <<"restore", e>>
  /\ \A u : <<"down", u>> # Unheld /\ <<"restore", u>> # Unheld
  BY DEF Unheld

(* A grant is open, what is idle or closed is not.                           *)
LEMMA GrantsAreOpen ==
  /\ \A u : Grant(u).open /\ Grant(u) # Idle
  /\ ~Idle.open /\ \A h \in [of : Users \cup {Free}, open : BOOLEAN] : ~Closed(h).open
  /\ \A u \in Users : Grant(u) \in [of : Users \cup {Free}, open : BOOLEAN]
  /\ Idle \in [of : Users \cup {Free}, open : BOOLEAN]
  /\ \A h \in [of : Users \cup {Free}, open : BOOLEAN] : Closed(h) \in [of : Users \cup {Free}, open : BOOLEAN]
  BY DEF Grant, Idle, Closed

(* With the lock free nobody talks with the helper.                          *)
LEMMA UnheldIsQuiet ==
  ASSUME LockInv, locked = Unheld
  PROVE  /\ \A u \in Users : downs[u] # "requests"
         /\ \A e \in Emptyings : restores[e] # "releases"
  BY HoldersDiffer DEF LockInv

(* The one who asks is alone in talking with the helper.                     *)
LEMMA AskerIsAlone ==
  ASSUME LockInv, NEW u \in Users, downs[u] = "requests"
  PROVE  /\ \A v \in Users : downs[v] = "requests" => v = u
         /\ \A e \in Emptyings : restores[e] # "releases"
  BY HoldersDiffer DEF LockInv

(* And so is the one who gives back.                                         *)
LEMMA ReturnerIsAlone ==
  ASSUME LockInv, NEW e \in Emptyings, restores[e] = "releases"
  PROVE  /\ \A u \in Users : downs[u] # "requests"
         /\ \A f \in Emptyings : restores[f] = "releases" => f = e
  BY HoldersDiffer DEF LockInv

(* A user that lets go for the last time has a restore of its own.           *)
LEMMA GoneGrows ==
  ASSUME LeaseTypes, NEW u \in Users, awdlPhase[u] = "wants", awdlPhase' = [awdlPhase EXCEPT ![u] = "gone"]
  PROVE  /\ Cardinality(gone') = Cardinality(gone) + 1 /\ Cardinality(gone) \in Nat
         /\ emptied + 1 \in Emptyings
  <1>1. gone' = gone \cup {u} /\ u \notin gone /\ gone \subseteq Users /\ gone' \subseteq Users
    BY DEF gone, LeaseTypes
  <1>2. IsFiniteSet(gone) /\ IsFiniteSet(Users) /\ Cardinality(gone') <= Cardinality(Users)
    BY <1>1, AwdlAssumption, FS_Subset
  <1>3. Cardinality(gone') = Cardinality(gone) + 1 /\ Cardinality(gone) \in Nat /\ Cardinality(Users) \in Nat
    BY <1>1, <1>2, FS_AddElement, FS_CardinalityType
  <1> QED  BY <1>2, <1>3 DEF Emptyings, LeaseTypes

(* Nobody wants it yet.                                                      *)
LEMMA LeaseStarts == AwdlInit => LeaseInv
  <1> SUFFICES ASSUME AwdlInit PROVE LeaseInv  OBVIOUS
  <1>1. gone = {} /\ Cardinality(gone) = 0 /\ wanting = {}
    BY FS_EmptySet DEF AwdlInit, gone, wanting
  <1>2. Idle \in [of : Users \cup {Free}, open : BOOLEAN] /\ helper = Idle /\ ~helper.open
    BY GrantsAreOpen DEF AwdlInit
  <1>3. LeaseTypes
    <2>1. lapsed \in BOOLEAN /\ lapses = 0 /\ emptied = 0 /\ lease = Free
      BY DEF AwdlInit
    <2>2. awdlPhase \in [Users -> {"new", "wants", "gone"}]
      BY DEF AwdlInit
    <2>3. downs \in [Users -> {"no", "waiting", "requests", "done", "gaveup"}]
      BY DEF AwdlInit
    <2>4. /\ restores \in [Emptyings -> {"no", "lingers", "waiting", "releases", "done"}]
          /\ \A e \in Emptyings : restores[e] = "no"
      BY DEF AwdlInit
    <2> QED  BY <1>1, <1>2, <2>1, <2>2, <2>3, <2>4 DEF LeaseTypes
  <1>4. LockInv /\ BackInv /\ KeptInv
    BY <1>1, <1>2 DEF AwdlInit, LockInv, BackInv, KeptInv
  <1> QED  BY <1>3, <1>4 DEF LeaseInv

(* Every call of down(), every restore and whatever the helper does keeps it. *)
LEMMA LeaseStep == ASSUME LeaseInv, AwdlNext PROVE LeaseInv'
  <1> USE DEF LeaseInv
  <1>1. ASSUME NEW u \in Users, Want(u) PROVE LeaseInv'
    <2>1. /\ awdlPhase' = [awdlPhase EXCEPT ![u] = "wants"] /\ downs' = [downs EXCEPT ![u] = "waiting"]
          /\ awdlPhase[u] = "new" /\ UNCHANGED <<emptied, restores, locked, lease, lapsed, helper, lapses>>
      BY <1>1 DEF Want
    <2>2. gone' = gone /\ wanting' = wanting \cup {u}
      BY <2>1 DEF gone, wanting, LeaseTypes
    <2>3. LeaseTypes'
      BY <2>1, <2>2 DEF LeaseTypes
    <2> QED  BY <2>1, <2>2, <2>3 DEF LeaseTypes, LockInv, BackInv, KeptInv
  <1>2. ASSUME NEW u \in Users, Drop(u) PROVE LeaseInv'
    <2>1. /\ awdlPhase' = [awdlPhase EXCEPT ![u] = "gone"] /\ awdlPhase[u] = "wants"
          /\ UNCHANGED <<downs, locked, lease, lapsed, helper, lapses>>
      BY <1>2 DEF Drop
    <2>2. Cardinality(gone') = Cardinality(gone) + 1 /\ Cardinality(gone) \in Nat /\ emptied + 1 \in Emptyings
      BY <2>1, GoneGrows
    <2>3. wanting' = wanting \ {u}
      BY <2>1 DEF wanting, LeaseTypes
    <2>4. CASE wanting = {u}
      <3>1. emptied' = emptied + 1 /\ restores' = [restores EXCEPT ![emptied + 1] = "lingers"]
        BY <1>2, <2>4 DEF Drop
      <3>2. restores[emptied + 1] = "no"
        BY <2>2 DEF LeaseTypes
      <3>3. \A e \in Emptyings : restores'[e] = IF e = emptied + 1 THEN "lingers" ELSE restores[e]
        BY <3>1 DEF LeaseTypes
      <3>4. LeaseTypes'
        BY <2>1, <2>2, <3>1, <3>3 DEF LeaseTypes, Emptyings
      <3>5. LockInv' /\ KeptInv'
        BY <2>1, <2>3, <2>4, <3>3 DEF LockInv, KeptInv
      <3>6. BackInv'
        BY <2>1, <2>2, <3>1, <3>2, <3>3 DEF BackInv, LeaseTypes
      <3> QED  BY <3>4, <3>5, <3>6
    <2>5. CASE wanting # {u}
      <3>1. UNCHANGED <<emptied, restores>>
        BY <1>2, <2>5 DEF Drop
      <3>2. wanting' # {}
        BY <2>1, <2>3, <2>5 DEF wanting
      <3>3. LeaseTypes'
        BY <2>1, <2>2, <3>1 DEF LeaseTypes
      <3>4. LockInv' /\ BackInv' /\ KeptInv'
        BY <2>1, <2>3, <3>1, <3>2 DEF LockInv, BackInv, KeptInv
      <3> QED  BY <3>3, <3>4
    <2> QED  BY <2>4, <2>5
  <1>3. ASSUME NEW u \in Users, HasNothingToDo(u) PROVE LeaseInv'
    <2>1. /\ downs[u] = "waiting" /\ locked = Unheld /\ downs' = [downs EXCEPT ![u] = "done"]
          /\ wanting = {} \/ (lease # Free /\ ~lapsed)
          /\ UNCHANGED <<awdlPhase, emptied, restores, locked, lease, lapsed, helper, lapses>>
      BY <1>3 DEF HasNothingToDo, StillWanted
    <2>2. gone' = gone /\ wanting' = wanting
      BY <2>1 DEF gone, wanting
    <2>3. LeaseTypes'
      BY <2>1, <2>2 DEF LeaseTypes
    <2>4. LockInv' /\ BackInv' /\ KeptInv'
      BY <2>1, <2>2 DEF LeaseTypes, LockInv, BackInv, KeptInv
    <2> QED  BY <2>3, <2>4
  <1>4. ASSUME NEW u \in Users, Requests(u) PROVE LeaseInv'
    <2>1. /\ downs[u] = "waiting" /\ locked = Unheld /\ wanting # {} /\ (lease = Free \/ lapsed)
          /\ downs' = [downs EXCEPT ![u] = "requests"] /\ locked' = <<"down", u>>
          /\ lease' = Free /\ lapsed' = FALSE
          /\ UNCHANGED <<awdlPhase, emptied, restores, helper, lapses>>
      BY <1>4 DEF Requests, StillWanted
    <2>2. gone' = gone /\ wanting' = wanting
      BY <2>1 DEF gone, wanting
    <2>3. LeaseTypes'
      BY <2>1, <2>2 DEF LeaseTypes
    <2>4. /\ \A v \in Users : downs[v] # "requests"
          /\ \A e \in Emptyings : restores[e] # "releases"
      BY <2>1, UnheldIsQuiet
    <2>5. ~helper.open
      BY <2>1, <2>4 DEF BackInv
    <2>6. LockInv' /\ BackInv'
      BY <2>1, <2>2, <2>4, <2>5 DEF LockInv, BackInv, LeaseTypes
    <2>7. KeptInv'
      BY <2>1, <2>2 DEF KeptInv, LeaseTypes
    <2> QED  BY <2>3, <2>6, <2>7
  <1>5. ASSUME NEW u \in Users, Granted(u) PROVE LeaseInv'
    <2>1. /\ downs[u] = "requests" /\ helper = Idle /\ helper' = Grant(u) /\ lease' = u /\ lapsed' = FALSE
          /\ downs' = [downs EXCEPT ![u] = "done"] /\ locked' = Unheld
          /\ UNCHANGED <<awdlPhase, emptied, restores, lapses>>
      BY <1>5 DEF Granted
    <2>2. gone' = gone /\ wanting' = wanting
      BY <2>1 DEF gone, wanting
    <2>3. LeaseTypes'
      BY <2>1, <2>2, GrantsAreOpen DEF LeaseTypes
    <2>4. /\ \A v \in Users : downs[v] = "requests" => v = u
          /\ \A e \in Emptyings : restores[e] # "releases"
      BY <2>1, AskerIsAlone
    <2>5. \A v \in Users : downs'[v] # "requests"
      BY <2>1, <2>4 DEF LeaseTypes
    <2>6. u # Free
      BY AwdlAssumption
    <2>7. LockInv' /\ BackInv' /\ KeptInv'
      BY <2>1, <2>2, <2>4, <2>5, <2>6 DEF LockInv, BackInv, KeptInv
    <2> QED  BY <2>3, <2>7
  <1>6. ASSUME NEW u \in Users, Refused(u) \/ RunsOutOfTime(u) PROVE LeaseInv'
    <2>1. /\ downs[u] \in {"waiting", "requests"} /\ downs' = [downs EXCEPT ![u] = "gaveup"]
          /\ locked' = IF downs[u] = "requests" THEN Unheld ELSE locked
          /\ \/ helper' = helper
             \/ downs[u] = "requests" /\ helper = Idle /\ helper' = Closed(Grant(u))
          /\ UNCHANGED <<awdlPhase, emptied, restores, lease, lapsed, lapses>>
      BY <1>6 DEF Refused, RunsOutOfTime
    <2>2. gone' = gone /\ wanting' = wanting
      BY <2>1 DEF gone, wanting
    <2>3. helper' \in [of : Users \cup {Free}, open : BOOLEAN] /\ (helper' = helper \/ ~helper'.open)
      BY <2>1, GrantsAreOpen DEF LeaseTypes
    <2>4. LeaseTypes'
      BY <2>1, <2>2, <2>3 DEF LeaseTypes
    <2>5. CASE downs[u] = "requests"
      <3>1. /\ \A v \in Users : downs[v] = "requests" => v = u
            /\ \A e \in Emptyings : restores[e] # "releases"
        BY <2>5, AskerIsAlone
      <3>2. lease = Free /\ ~helper.open /\ ~helper'.open
        BY <2>3, <2>5 DEF LockInv
      <3>3. \A v \in Users : downs'[v] # "requests" /\ (downs'[v] = "done" => downs[v] = "done")
        BY <2>1, <3>1 DEF LeaseTypes
      <3> QED  BY <2>1, <2>2, <2>4, <3>1, <3>2, <3>3 DEF LockInv, BackInv, KeptInv
    <2>6. CASE downs[u] # "requests"
      <3>1. helper' = helper /\ locked' = locked
        BY <2>1, <2>6
      <3>2. \A v \in Users : /\ downs'[v] = "requests" => downs[v] = "requests"
                             /\ downs'[v] = "done" => downs[v] = "done"
        BY <2>1 DEF LeaseTypes
      <3> QED  BY <2>1, <2>2, <2>4, <3>1, <3>2 DEF LockInv, BackInv, KeptInv
    <2> QED  BY <2>5, <2>6
  <1>7. ASSUME NEW e \in Emptyings, Lingered(e) PROVE LeaseInv'
    <2>1. /\ restores[e] = "lingers" /\ restores' = [restores EXCEPT ![e] = "waiting"]
          /\ UNCHANGED <<awdlPhase, downs, emptied, locked, lease, lapsed, helper, lapses>>
      BY <1>7 DEF Lingered
    <2>2. gone' = gone /\ wanting' = wanting
      BY <2>1 DEF gone, wanting
    <2>3. \A f \in Emptyings : restores'[f] = IF f = e THEN "waiting" ELSE restores[f]
      BY <2>1 DEF LeaseTypes
    <2>4. LeaseTypes' /\ \A f \in Emptyings : restores'[f] = "releases" <=> restores[f] = "releases"
      BY <2>1, <2>2, <2>3 DEF LeaseTypes
    <2>5. LockInv' /\ KeptInv'
      BY <2>1, <2>2, <2>4 DEF LockInv, KeptInv
    <2>6. BackInv'
      <3>1. restores[emptied] \in {"lingers", "waiting"} => restores'[emptied] \in {"lingers", "waiting"}
        BY <2>1 DEF LeaseTypes
      <3> QED  BY <2>1, <2>2, <2>4, <3>1 DEF BackInv
    <2> QED  BY <2>4, <2>5, <2>6
  <1>8. ASSUME NEW e \in Emptyings, LeavesIt(e) PROVE LeaseInv'
    <2>1. /\ restores[e] = "waiting" /\ restores' = [restores EXCEPT ![e] = "done"] /\ locked = Unheld
          /\ wanting # {} \/ emptied # e \/ lease = Free
          /\ UNCHANGED <<awdlPhase, downs, emptied, locked, lease, lapsed, helper, lapses>>
      BY <1>8 DEF LeavesIt, KeepsDown
    <2>2. gone' = gone /\ wanting' = wanting
      BY <2>1 DEF gone, wanting
    <2>3. \A f \in Emptyings : restores'[f] = IF f = e THEN "done" ELSE restores[f]
      BY <2>1 DEF LeaseTypes
    <2>4. LeaseTypes' /\ \A f \in Emptyings : restores'[f] = "releases" <=> restores[f] = "releases"
      BY <2>1, <2>2, <2>3 DEF LeaseTypes
    <2>5. LockInv' /\ KeptInv'
      BY <2>1, <2>2, <2>4 DEF LockInv, KeptInv
    <2>6. \A u \in Users : downs[u] # "requests"
      BY <2>1, UnheldIsQuiet
    <2>7. BackInv'
      <3>1. emptied # e => restores'[emptied] = restores[emptied]
        BY <2>1 DEF LeaseTypes
      <3> QED  BY <2>1, <2>2, <2>4, <2>6, <3>1 DEF BackInv
    <2> QED  BY <2>4, <2>5, <2>7
  <1>9. ASSUME NEW e \in Emptyings, GivesBack(e) PROVE LeaseInv'
    <2>1. /\ restores[e] = "waiting" /\ restores' = [restores EXCEPT ![e] = "releases"] /\ locked = Unheld
          /\ wanting = {} /\ locked' = <<"restore", e>> /\ lease' = Free /\ lapsed' = FALSE
          /\ UNCHANGED <<awdlPhase, downs, emptied, helper, lapses>>
      BY <1>9 DEF GivesBack, KeepsDown
    <2>2. gone' = gone /\ wanting' = wanting
      BY <2>1 DEF gone, wanting
    <2>3. \A f \in Emptyings : restores'[f] = IF f = e THEN "releases" ELSE restores[f]
      BY <2>1 DEF LeaseTypes
    <2>4. LeaseTypes'
      BY <2>1, <2>2, <2>3 DEF LeaseTypes
    <2>5. /\ \A u \in Users : downs[u] # "requests"
          /\ \A f \in Emptyings : restores[f] # "releases"
      BY <2>1, UnheldIsQuiet
    <2> QED  BY <2>1, <2>2, <2>3, <2>4, <2>5 DEF LockInv, BackInv, KeptInv
  <1>10. ASSUME NEW e \in Emptyings, HelperReleased(e) PROVE LeaseInv'
    <2>1. /\ restores[e] = "releases" /\ helper' \in {Idle, Closed(helper)}
          /\ restores' = [restores EXCEPT ![e] = "done"] /\ locked' = Unheld
          /\ UNCHANGED <<awdlPhase, downs, emptied, lease, lapsed, lapses>>
      BY <1>10 DEF HelperReleased
    <2>2. gone' = gone /\ wanting' = wanting
      BY <2>1 DEF gone, wanting
    <2>3. \A f \in Emptyings : restores'[f] = IF f = e THEN "done" ELSE restores[f]
      BY <2>1 DEF LeaseTypes
    <2>4. helper' \in [of : Users \cup {Free}, open : BOOLEAN] /\ ~helper'.open
      BY <2>1, GrantsAreOpen DEF LeaseTypes
    <2>5. LeaseTypes'
      BY <2>1, <2>2, <2>3, <2>4 DEF LeaseTypes
    <2>6. /\ \A u \in Users : downs[u] # "requests"
          /\ \A f \in Emptyings : restores[f] = "releases" => f = e
          /\ lease = Free
      BY <2>1, ReturnerIsAlone DEF LockInv
    <2>7. \A f \in Emptyings : restores'[f] # "releases"
      BY <2>3, <2>6
    <2> QED  BY <2>1, <2>2, <2>4, <2>5, <2>6, <2>7 DEF LockInv, BackInv, KeptInv
  <1>11. CASE SeesTheEnd
    <2>1. /\ ~helper.open /\ helper' = Idle
          /\ UNCHANGED <<awdlPhase, downs, emptied, restores, locked, lease, lapsed, lapses>>
      BY <1>11 DEF SeesTheEnd
    <2>2. gone' = gone /\ wanting' = wanting /\ ~helper'.open
      BY <2>1, GrantsAreOpen DEF gone, wanting
    <2>3. LeaseTypes'
      BY <2>1, <2>2, GrantsAreOpen DEF LeaseTypes
    <2> QED  BY <2>1, <2>2, <2>3, GrantsAreOpen DEF LockInv, BackInv, KeptInv
  <1>12. CASE Expires
    <2>1. /\ helper.open /\ helper' = Idle /\ lapses' = lapses + 1
          /\ UNCHANGED <<awdlPhase, downs, emptied, restores, locked, lease, lapsed>>
      BY <1>12 DEF Expires
    <2>2. gone' = gone /\ wanting' = wanting /\ ~helper'.open /\ lapses' # 0
      BY <2>1, GrantsAreOpen DEF gone, wanting, LeaseTypes
    <2>3. LeaseTypes'
      BY <2>1, <2>2, GrantsAreOpen DEF LeaseTypes
    <2> QED  BY <2>1, <2>2, <2>3 DEF LockInv, BackInv, KeptInv
  <1>13. CASE RenewalFails
    <2>1. /\ lease # Free /\ ~lapsed /\ lapsed' = TRUE
          /\ \/ helper = Idle /\ UNCHANGED <<helper, lapses>>
             \/ helper.open /\ helper' = Closed(helper) /\ lapses' = lapses + 1
          /\ UNCHANGED <<awdlPhase, downs, emptied, restores, locked, lease>>
      BY <1>13 DEF RenewalFails
    <2>2. gone' = gone /\ wanting' = wanting
      BY <2>1 DEF gone, wanting
    <2>3. /\ helper' \in [of : Users \cup {Free}, open : BOOLEAN] /\ ~helper'.open
          /\ lapses' \in Nat
      BY <2>1, GrantsAreOpen DEF LeaseTypes
    <2>4. LeaseTypes'
      BY <2>1, <2>2, <2>3 DEF LeaseTypes
    <2>5. lapses' # 0
      BY <2>1, GrantsAreOpen DEF KeptInv, LeaseTypes
    <2> QED  BY <2>1, <2>2, <2>3, <2>4, <2>5 DEF LockInv, BackInv, KeptInv
  <1> QED  BY <1>1, <1>2, <1>3, <1>4, <1>5, <1>6, <1>7, <1>8, <1>9, <1>10, <1>11, <1>12, <1>13 DEF AwdlNext

(* A step of something else keeps it.                                        *)
LEMMA LeaseUntouched == LeaseInv /\ UNCHANGED awdlVars => LeaseInv'
  <1> SUFFICES ASSUME LeaseInv, UNCHANGED awdlVars PROVE LeaseInv'  OBVIOUS
  <1>1. gone' = gone /\ wanting' = wanting
    BY DEF gone, wanting, awdlVars
  <1> QED  BY <1>1 DEF LeaseInv, LeaseTypes, LockInv, BackInv, KeptInv, awdlVars

(* For any number of users, failures and lapses, and however requests,       *)
(* limits, waits and releases cross: AWDL comes back when nobody wants it    *)
(* down, stays down for whoever does, and the app never asks for a second    *)
(* lease while it keeps one open (macos/awdl.rs).                            *)
THEOREM RadioComesBackAlways == MCSpec => []RadioComesBack
  <1>1. MCInit => LeaseHolds
    BY LeaseStarts DEF MCInit, LeaseHolds
  <1>2. LeaseHolds /\ [MCNext]_plumbingVars => LeaseHolds'
    BY OnePartRuns, LeaseStep, LeaseUntouched DEF LeaseHolds
  <1>3. LeaseInv => AwdlComesBack
    <2> SUFFICES ASSUME LeaseInv, wanting = {}, \A u \in Users : downs[u] \notin {"waiting", "requests"},
                        \A e \in Emptyings : restores[e] \in {"no", "done"}
                 PROVE  lease = Free /\ ~helper.open
      BY DEF AwdlComesBack
    <2>1. Cardinality(gone) <= Cardinality(Users) /\ Cardinality(Users) \in Nat
      BY AwdlAssumption, FS_Subset, FS_CardinalityType DEF gone
    <2>2. Cardinality(gone) \in Nat
      <3>1. IsFiniteSet(gone)
        BY AwdlAssumption, FS_Subset DEF gone
      <3> QED  BY <3>1, FS_CardinalityType
    <2>3. emptied > 0 => emptied \in Emptyings
      BY <2>1, <2>2 DEF LeaseInv, LeaseTypes, Emptyings
    <2> QED  BY <2>3 DEF LeaseInv, BackInv
  <1>4. LeaseInv => WantedStaysDown /\ AsksForOne
    BY DEF LeaseInv, KeptInv, LockInv, WantedStaysDown, AsksForOne
  <1>5. LeaseHolds => RadioComesBack
    BY <1>3, <1>4 DEF LeaseHolds, RadioComesBack
  <1> QED  BY <1>1, <1>2, <1>5, PTL DEF MCSpec, plumbingVars

-----------------------------------------------------------------------------
(* Links.  What a task that keeps a session up may look like.                *)
LinkViews == [kind : {"session", "dial"}, id : Nat, at : SUBSET Places]
LinkTaskSet ==
  [at : {"top", "dialing", "dialed", "check", "parked", "ended"}, record : Nat, seen : LinkViews,
   timer : BOOLEAN, after : {"top", "session"}, failed : BOOLEAN,
   status : {"none", "connecting", "unreachable"}, retries : Nat, stopped : BOOLEAN, news : BOOLEAN]

LinkTypes ==
  /\ linkSession \in Nat /\ linkIds \in Nat /\ places \in SUBSET Places
  /\ linkRecord \in Nat /\ linkTasks \in Seq(LinkTaskSet)
  /\ linkNow # 0 => linkNow \in DOMAIN linkTasks

(* What a task shows fits what it waits for: only a task that waits to dial   *)
(* again shows a failure, and one that dials has somewhere to.               *)
ShowsWhy(k) ==
  /\ k.at \in {"check", "parked"} =>
       /\ k.seen.kind = "session" \/ k.seen.at = {} \/ k.after = "session" => k.status = "none"
       /\ k.status # "connecting"
       /\ k.status = "unreachable" => k.timer
  /\ k.at = "dialing" => k.seen.kind = "dial" /\ k.seen.at # {}

(* A task that sleeps and has read the news sleeps on the present view.       *)
SleepsOn(k, v) == k.at = "parked" /\ ~k.news => k.seen = v

LinksInv ==
  /\ LinkTypes /\ OneLinkEach
  /\ \A t \in DOMAIN linkTasks : ShowsWhy(linkTasks[t]) /\ SleepsOn(linkTasks[t], view)

LinksHold == part = "AutoLinks" => LinksInv

LEMMA ViewsAreViews == LinkTypes => view \in LinkViews
  BY DEF LinkTypes, view, SessionView, DialView, LinkViews

(* A task that takes a step of its own, while nothing it looks at changes.    *)
LEMMA LinkTaskSteps ==
  ASSUME LinksInv, NEW t \in DOMAIN linkTasks, NEW k \in LinkTaskSet,
         linkTasks' = [linkTasks EXCEPT ![t] = k],
         k.record = linkTasks[t].record, k.stopped = linkTasks[t].stopped,
         ShowsWhy(k), SleepsOn(k, view),
         UNCHANGED <<linkSession, linkIds, places, linkRecord, linkNow>>
  PROVE  LinksInv'
  <1>1. view' = view
    BY DEF view, SessionView, DialView
  <1>2. linkTasks \in Seq(LinkTaskSet)
    BY DEF LinksInv, LinkTypes
  <1>3. linkTasks' \in Seq(LinkTaskSet) /\ DOMAIN linkTasks' = DOMAIN linkTasks
    BY <1>2, ExceptSeq
  <1>4. \A u \in DOMAIN linkTasks : linkTasks'[u] = IF u = t THEN k ELSE linkTasks[u]
    BY <1>2
  <1>5. LinkTypes'
    BY <1>3 DEF LinksInv, LinkTypes
  <1>6. OneLinkEach'
    BY <1>3, <1>4 DEF LinksInv, OneLinkEach, Tasks
  <1>7. \A u \in DOMAIN linkTasks' : ShowsWhy(linkTasks'[u]) /\ SleepsOn(linkTasks'[u], view')
    BY <1>1, <1>3, <1>4 DEF LinksInv
  <1> QED  BY <1>5, <1>6, <1>7 DEF LinksInv

(* News reach every task.                                                    *)
LEMMA LinkNewsSpread ==
  ASSUME LinksInv, linkTasks' = Told(linkTasks), LinkTypes',
         UNCHANGED <<linkRecord, linkNow>>
  PROVE  LinksInv'
  <1>1. linkTasks \in Seq(LinkTaskSet)
    BY DEF LinksInv, LinkTypes
  <1>2. DOMAIN linkTasks' = DOMAIN linkTasks
    BY DEF Told
  <1>3. \A u \in DOMAIN linkTasks : linkTasks'[u] = [linkTasks[u] EXCEPT !.news = TRUE]
    BY DEF Told
  <1>4. \A u \in DOMAIN linkTasks :
          /\ linkTasks'[u].news /\ linkTasks'[u].at = linkTasks[u].at
          /\ linkTasks'[u].seen = linkTasks[u].seen /\ linkTasks'[u].after = linkTasks[u].after
          /\ linkTasks'[u].status = linkTasks[u].status /\ linkTasks'[u].timer = linkTasks[u].timer
          /\ linkTasks'[u].record = linkTasks[u].record /\ linkTasks'[u].stopped = linkTasks[u].stopped
    <2> TAKE u \in DOMAIN linkTasks
    <2>1. linkTasks[u] \in LinkTaskSet
      BY <1>1
    <2> QED  BY <2>1, <1>3 DEF LinkTaskSet
  <1>5. OneLinkEach'
    BY <1>2, <1>4 DEF LinksInv, OneLinkEach, Tasks, LinkTypes
  <1>6. \A u \in DOMAIN linkTasks' : ShowsWhy(linkTasks'[u]) /\ SleepsOn(linkTasks'[u], view')
    BY <1>2, <1>4 DEF LinksInv, ShowsWhy, SleepsOn
  <1> QED  BY <1>5, <1>6 DEF LinksInv

(* Told tasks are tasks.                                                      *)
LEMMA ToldAreTasks ==
  ASSUME NEW tasks \in Seq(LinkTaskSet) PROVE Told(tasks) \in Seq(LinkTaskSet) /\ DOMAIN Told(tasks) = DOMAIN tasks
  <1>1. \A t \in 1 .. Len(tasks) : [tasks[t] EXCEPT !.news = TRUE] \in LinkTaskSet
    <2> TAKE t \in 1 .. Len(tasks)
    <2>1. tasks[t] \in LinkTaskSet
      OBVIOUS
    <2> QED  BY <2>1 DEF LinkTaskSet
  <1>2. Told(tasks) = [t \in 1 .. Len(tasks) |-> [tasks[t] EXCEPT !.news = TRUE]]
    BY DEF Told
  <1>3. Len(tasks) \in Nat
    OBVIOUS
  <1>4. \A n \in Nat : \A f \in [1 .. n -> LinkTaskSet] : f \in Seq(LinkTaskSet)
    BY SeqDef
  <1> QED  BY <1>1, <1>2, <1>3, <1>4

LEMMA LinksStart == LinksInit => LinksInv
  <1> SUFFICES ASSUME LinksInit PROVE LinksInv  OBVIOUS
  <1>1. linkTasks = <<>> /\ linkNow = 0 /\ linkRecord = 0 /\ linkSession = 0 /\ linkIds = 0 /\ places = {}
    BY DEF LinksInit
  <1>2. DOMAIN linkTasks = {} /\ linkTasks \in Seq(LinkTaskSet)
    BY <1>1
  <1> QED  BY <1>1, <1>2 DEF LinksInv, LinkTypes, OneLinkEach, Tasks

(* Every step of a task.                                                     *)
LEMMA TopsOfLoop ==
  ASSUME LinksInv, NEW t \in DOMAIN linkTasks, Top(t) PROVE LinksInv'
  <1> DEFINE k == Topped(linkTasks[t])
  <1>1. linkTasks[t] \in LinkTaskSet /\ view \in LinkViews
    BY ViewsAreViews DEF LinksInv, LinkTypes
  <1>2. linkTasks' = [linkTasks EXCEPT ![t] = k] /\ UNCHANGED <<linkSession, linkIds, places, linkRecord, linkNow>>
    BY DEF Top
  <1>3. view.kind = "session" \/ view.kind = "dial"
    BY <1>1 DEF LinkViews
  <1>4. view.kind = "dial" /\ view # DialView({}) => view.at # {}
    BY DEF view, DialView, SessionView
  <1>5. DialView({}).kind = "dial" /\ DialView({}).at = {}
    BY DEF DialView
  <1>6. k \in LinkTaskSet /\ k.record = linkTasks[t].record /\ k.stopped = linkTasks[t].stopped
        /\ ShowsWhy(k) /\ k.at # "parked"
    <2>1. CASE view.kind = "session"
      <3>1. k = [StartWait(linkTasks[t], view, FALSE, "session") EXCEPT !.status = "none"]
        BY <2>1, <1>5 DEF Topped
      <3> QED  BY <3>1, <1>1 DEF StartWait, LinkTaskSet, ShowsWhy
    <2>2. CASE view.kind # "session" /\ view = DialView({})
      <3>1. k = [StartWait(linkTasks[t], view, FALSE, "top") EXCEPT !.status = "none"]
        BY <2>2 DEF Topped
      <3> QED  BY <3>1, <1>1 DEF StartWait, LinkTaskSet, ShowsWhy
    <2>3. CASE view.kind # "session" /\ view # DialView({})
      <3>1. k = [linkTasks[t] EXCEPT !.at = "dialing", !.seen = view,
                   !.status = IF linkTasks[t].status = "unreachable" THEN @ ELSE "connecting"]
        BY <2>3 DEF Topped
      <3> QED  BY <2>3, <3>1, <1>1, <1>3, <1>4 DEF LinkTaskSet, ShowsWhy
    <2> QED  BY <2>1, <2>2, <2>3
  <1>7. SleepsOn(k, view)
    BY <1>6 DEF SleepsOn
  <1> HIDE DEF k
  <1> QED  BY <1>2, <1>6, <1>7, LinkTaskSteps

LEMMA DialsLand ==
  ASSUME LinksInv, NEW t \in DOMAIN linkTasks, DialLands(t) PROVE LinksInv'
  <1>1. linkTasks \in Seq(LinkTaskSet) /\ linkTasks[t] \in LinkTaskSet
    BY DEF LinksInv, LinkTypes
  <1>2. linkSession \in Nat /\ linkIds \in Nat
    BY DEF LinksInv, LinkTypes
  <1>3. CASE /\ linkTasks' = [linkTasks EXCEPT ![t].at = "dialed", ![t].seen = SessionView(linkSession)]
             /\ UNCHANGED <<linkSession, linkIds, places, linkRecord, linkNow>>
    <2> DEFINE k == [linkTasks[t] EXCEPT !.at = "dialed", !.seen = SessionView(linkSession)]
    <2>1. linkTasks' = [linkTasks EXCEPT ![t] = k]
      BY <1>3, <1>1
    <2>2. k \in LinkTaskSet /\ k.record = linkTasks[t].record /\ k.stopped = linkTasks[t].stopped /\ k.at = "dialed"
      BY <1>1, <1>2 DEF LinkTaskSet, LinkViews, SessionView
    <2>3. ShowsWhy(k) /\ SleepsOn(k, view)
      BY <2>2 DEF ShowsWhy, SleepsOn
    <2> HIDE DEF k
    <2> QED  BY <1>3, <2>1, <2>2, <2>3, LinkTaskSteps
  <1>4. CASE /\ linkIds' = linkIds + 1 /\ linkSession' = linkIds + 1
             /\ linkTasks' = [Told(linkTasks) EXCEPT ![t].at = "dialed", ![t].seen = SessionView(linkIds + 1)]
             /\ UNCHANGED <<places, linkRecord, linkNow>>
    <2> DEFINE told == Told(linkTasks)
               k == [told[t] EXCEPT !.at = "dialed", !.seen = SessionView(linkIds + 1)]
    <2>1. told \in Seq(LinkTaskSet) /\ DOMAIN told = DOMAIN linkTasks
      BY <1>1, ToldAreTasks
    <2>2. \A u \in DOMAIN linkTasks : told[u] = [linkTasks[u] EXCEPT !.news = TRUE]
      BY DEF Told
    <2>3. linkTasks' = [told EXCEPT ![t] = k]
      BY <1>4, <2>1
    <2>4. told[t] \in LinkTaskSet
      BY <2>1
    <2>5. k \in LinkTaskSet /\ k.at = "dialed" /\ k.record = told[t].record /\ k.stopped = told[t].stopped
      <3>1. SessionView(linkIds + 1) \in LinkViews
        BY <1>2 DEF LinkViews, SessionView
      <3> QED  BY <2>4, <3>1 DEF LinkTaskSet
    <2>6. linkTasks' \in Seq(LinkTaskSet) /\ DOMAIN linkTasks' = DOMAIN linkTasks
          /\ \A u \in DOMAIN linkTasks : linkTasks'[u] = IF u = t THEN k ELSE told[u]
      <3> HIDE DEF k, told
      <3> QED  BY <2>1, <2>3, <2>5, ExceptSeq
    <2>7. \A u \in DOMAIN linkTasks :
          /\ told[u].news /\ told[u].at = linkTasks[u].at
          /\ told[u].seen = linkTasks[u].seen /\ told[u].after = linkTasks[u].after
          /\ told[u].status = linkTasks[u].status /\ told[u].timer = linkTasks[u].timer
          /\ told[u].record = linkTasks[u].record /\ told[u].stopped = linkTasks[u].stopped
      <3> TAKE u \in DOMAIN linkTasks
      <3>1. linkTasks[u] \in LinkTaskSet
        BY <1>1
      <3> QED  BY <3>1, <2>2 DEF LinkTaskSet
    <2> HIDE DEF k, told
    <2>8. LinkTypes'
      BY <1>2, <1>4, <2>6 DEF LinksInv, LinkTypes
    <2>9. OneLinkEach'
      <3>1. \A u \in DOMAIN linkTasks :
              linkTasks'[u].record = linkTasks[u].record /\ linkTasks'[u].stopped = linkTasks[u].stopped
        BY <2>5, <2>6, <2>7
      <3> QED  BY <1>4, <2>6, <3>1 DEF LinksInv, LinkTypes, OneLinkEach, Tasks
    <2>10. \A u \in DOMAIN linkTasks' : ShowsWhy(linkTasks'[u]) /\ SleepsOn(linkTasks'[u], view')
      BY <2>5, <2>6, <2>7 DEF LinksInv, ShowsWhy, SleepsOn
    <2> QED  BY <2>8, <2>9, <2>10 DEF LinksInv
  <1> QED  BY <1>3, <1>4 DEF DialLands

LEMMA DialsFail ==
  ASSUME LinksInv, NEW t \in DOMAIN linkTasks, DialFails(t) PROVE LinksInv'
  <1> DEFINE k == IF linkSession # 0 THEN [linkTasks[t] EXCEPT !.at = "top"]
                  ELSE [StartWait(linkTasks[t], linkTasks[t].seen, TRUE, "top")
                          EXCEPT !.failed = TRUE, !.status = "unreachable"]
  <1>1. linkTasks[t] \in LinkTaskSet /\ linkTasks[t].at = "dialing" /\ ShowsWhy(linkTasks[t])
    BY DEF LinksInv, LinkTypes, DialFails
  <1>2. linkTasks' = [linkTasks EXCEPT ![t] = k] /\ UNCHANGED <<linkSession, linkIds, places, linkRecord, linkNow>>
    BY DEF DialFails
  <1>3. linkTasks[t].seen \in LinkViews /\ linkTasks[t].seen.kind = "dial" /\ linkTasks[t].seen.at # {}
    BY <1>1 DEF LinkTaskSet, ShowsWhy
  <1>4. k \in LinkTaskSet /\ k.record = linkTasks[t].record /\ k.stopped = linkTasks[t].stopped /\ k.at # "parked"
    BY <1>1 DEF LinkTaskSet, StartWait
  <1>5. ShowsWhy(k)
    BY <1>1, <1>3 DEF LinkTaskSet, StartWait, ShowsWhy
  <1>6. SleepsOn(k, view)
    BY <1>4 DEF SleepsOn
  <1> HIDE DEF k
  <1> QED  BY <1>2, <1>4, <1>5, <1>6, LinkTaskSteps

LEMMA DialsOpen ==
  ASSUME LinksInv, NEW t \in DOMAIN linkTasks, Opened(t) PROVE LinksInv'
  <1> DEFINE k == [StartWait(linkTasks[t], linkTasks[t].seen, FALSE, "session") EXCEPT !.status = "none"]
  <1>1. linkTasks[t] \in LinkTaskSet
    BY DEF LinksInv, LinkTypes
  <1>2. linkTasks' = [linkTasks EXCEPT ![t] = k] /\ UNCHANGED <<linkSession, linkIds, places, linkRecord, linkNow>>
    BY DEF Opened
  <1>3. k \in LinkTaskSet /\ k.record = linkTasks[t].record /\ k.stopped = linkTasks[t].stopped
        /\ k.at = "check" /\ k.status = "none"
    BY <1>1 DEF LinkTaskSet, StartWait
  <1>4. ShowsWhy(k) /\ SleepsOn(k, view)
    BY <1>3 DEF ShowsWhy, SleepsOn
  <1> HIDE DEF k
  <1> QED  BY <1>2, <1>3, <1>4, LinkTaskSteps

(* After a wait the task goes on from the top or waits to dial again.        *)
LEMMA PassedIsATask ==
  ASSUME LinkTypes, NEW k \in LinkTaskSet, k.at \in {"check", "parked"}, ShowsWhy(k), NEW stable \in BOOLEAN
  PROVE  /\ Passed(k, stable) \in LinkTaskSet /\ Passed(k, stable).record = k.record
         /\ Passed(k, stable).stopped = k.stopped /\ ShowsWhy(Passed(k, stable))
         /\ Passed(k, stable).at # "parked"
  <1>1. view \in LinkViews
    BY ViewsAreViews
  <1>2. CASE k.after = "top"
    BY <1>2 DEF Passed, LinkTaskSet, ShowsWhy
  <1>3. CASE k.after # "top" /\ ~stable /\ view.kind = "dial"
    <2>1. Passed(k, stable) = [StartWait(k, view, TRUE, "top") EXCEPT !.failed = TRUE]
      BY <1>3 DEF Passed
    <2>2. k.status = "none"
      BY <1>3 DEF LinkTaskSet, ShowsWhy
    <2> QED  BY <2>1, <2>2, <1>1 DEF StartWait, LinkTaskSet, ShowsWhy
  <1>4. CASE k.after # "top" /\ ~(~stable /\ view.kind = "dial")
    <2>1. Passed(k, stable) = [k EXCEPT !.at = "top", !.failed = ~stable]
      BY <1>4 DEF Passed
    <2> QED  BY <2>1 DEF LinkTaskSet, ShowsWhy
  <1> QED  BY <1>2, <1>3, <1>4

LEMMA Checks ==
  ASSUME LinksInv, NEW t \in DOMAIN linkTasks, Check(t) PROVE LinksInv'
  <1>1. linkTasks[t] \in LinkTaskSet /\ linkTasks[t].at = "check" /\ ShowsWhy(linkTasks[t]) /\ LinkTypes
    BY DEF LinksInv, LinkTypes, Check
  <1>2. UNCHANGED <<linkSession, linkIds, places, linkRecord, linkNow>>
    BY DEF Check
  <1>3. PICK stable \in BOOLEAN :
          linkTasks' = [linkTasks EXCEPT ![t] =
             IF view # linkTasks[t].seen THEN Passed(linkTasks[t], stable)
             ELSE [linkTasks[t] EXCEPT !.at = "parked"]]
    BY DEF Check
  <1> DEFINE k == IF view # linkTasks[t].seen THEN Passed(linkTasks[t], stable)
                  ELSE [linkTasks[t] EXCEPT !.at = "parked"]
  <1>4. k \in LinkTaskSet /\ k.record = linkTasks[t].record /\ k.stopped = linkTasks[t].stopped
        /\ ShowsWhy(k) /\ SleepsOn(k, view)
    <2>1. CASE view # linkTasks[t].seen
      <3>1. k = Passed(linkTasks[t], stable)
        BY <2>1
      <3> QED  BY <3>1, <1>1, PassedIsATask DEF SleepsOn
    <2>2. CASE view = linkTasks[t].seen
      <3>1. k = [linkTasks[t] EXCEPT !.at = "parked"]
        BY <2>2
      <3> QED  BY <2>2, <3>1, <1>1 DEF LinkTaskSet, ShowsWhy, SleepsOn
    <2> QED  BY <2>1, <2>2
  <1>5. linkTasks' = [linkTasks EXCEPT ![t] = k]
    BY <1>3
  <1> HIDE DEF k
  <1> QED  BY <1>2, <1>4, <1>5, LinkTaskSteps

LEMMA Wakes ==
  ASSUME LinksInv, NEW t \in DOMAIN linkTasks, Wake(t) PROVE LinksInv'
  <1>1. linkTasks[t] \in LinkTaskSet /\ linkTasks[t].at = "parked" /\ ShowsWhy(linkTasks[t]) /\ LinkTypes
    BY DEF LinksInv, LinkTypes, Wake
  <1>2. UNCHANGED <<linkSession, linkIds, places, linkRecord, linkNow>>
    BY DEF Wake
  <1> DEFINE old == linkTasks[t]
             fewer == [old EXCEPT !.retries = old.retries - 1]
  <1>3. \E stable \in BOOLEAN :
          \/ linkTasks' = [linkTasks EXCEPT ![t] = Passed(old, stable)]
          \/ /\ old.retries > 0
             /\ \/ linkTasks' = [linkTasks EXCEPT ![t] = [fewer EXCEPT !.at = "check"]]
                \/ linkTasks' = [linkTasks EXCEPT ![t] = Passed(fewer, stable)]
          \/ linkTasks' = [linkTasks EXCEPT ![t] = [old EXCEPT !.at = "ended"]]
          \/ linkTasks' = [linkTasks EXCEPT ![t] = [old EXCEPT !.news = FALSE, !.at = "check"]]
    <2>1. [old EXCEPT !.retries = old.retries - 1, !.at = "check"] = [fewer EXCEPT !.at = "check"]
      BY <1>1 DEF LinkTaskSet
    <2>2. PICK stable \in BOOLEAN :
            \/ linkTasks' = [linkTasks EXCEPT ![t] = Passed(@, stable)]
            \/ TakesRetry(linkTasks[t]) /\ linkTasks' = [linkTasks EXCEPT ![t] = AfterRetry(@, stable)]
            \/ linkTasks' = [linkTasks EXCEPT ![t].at = "ended"]
            \/ linkTasks' = [linkTasks EXCEPT ![t].news = FALSE, ![t].at = "check"]
      BY Zenon DEF Wake
    <2>4. CASE TakesRetry(linkTasks[t]) /\ linkTasks' = [linkTasks EXCEPT ![t] = AfterRetry(@, stable)]
      <3>1. AfterRetry(old, stable) \in {[old EXCEPT !.retries = old.retries - 1, !.at = "check"], Passed(fewer, stable)}
        BY DEF AfterRetry
      <3>2. old.retries > 0
        BY <2>4 DEF TakesRetry
      <3>3. linkTasks' = [linkTasks EXCEPT ![t] = AfterRetry(old, stable)]
        BY <2>4
      <3> HIDE DEF old, fewer
      <3> QED  BY <2>1, <3>1, <3>2, <3>3
    <2>3. /\ [linkTasks EXCEPT ![t].at = "ended"] = [linkTasks EXCEPT ![t] = [old EXCEPT !.at = "ended"]]
          /\ [linkTasks EXCEPT ![t].news = FALSE, ![t].at = "check"]
               = [linkTasks EXCEPT ![t] = [old EXCEPT !.news = FALSE, !.at = "check"]]
      BY <1>1 DEF LinksInv, LinkTypes
    <2> QED  BY <2>2, <2>3, <2>4
  <1>4. old.retries > 0 => fewer \in LinkTaskSet /\ fewer.at = "parked" /\ ShowsWhy(fewer)
                            /\ fewer.record = old.record /\ fewer.stopped = old.stopped
    BY <1>1 DEF LinkTaskSet, ShowsWhy
  <1>5. ASSUME NEW k \in LinkTaskSet, k.record = old.record, k.stopped = old.stopped, ShowsWhy(k), k.at # "parked",
               linkTasks' = [linkTasks EXCEPT ![t] = k]
        PROVE  LinksInv'
    <2>1. SleepsOn(k, view)
      BY <1>5 DEF SleepsOn
    <2> QED  BY <1>2, <1>5, <2>1, LinkTaskSteps
  <1>6. PICK stable \in BOOLEAN :
          \/ linkTasks' = [linkTasks EXCEPT ![t] = Passed(old, stable)]
          \/ /\ old.retries > 0
             /\ \/ linkTasks' = [linkTasks EXCEPT ![t] = [fewer EXCEPT !.at = "check"]]
                \/ linkTasks' = [linkTasks EXCEPT ![t] = Passed(fewer, stable)]
          \/ linkTasks' = [linkTasks EXCEPT ![t] = [old EXCEPT !.at = "ended"]]
          \/ linkTasks' = [linkTasks EXCEPT ![t] = [old EXCEPT !.news = FALSE, !.at = "check"]]
    BY <1>3
  <1> HIDE DEF fewer
  <1>7. CASE linkTasks' = [linkTasks EXCEPT ![t] = Passed(old, stable)]
    BY <1>1, <1>5, <1>7, PassedIsATask
  <1>8. CASE old.retries > 0 /\ linkTasks' = [linkTasks EXCEPT ![t] = [fewer EXCEPT !.at = "check"]]
    <2> DEFINE k == [fewer EXCEPT !.at = "check"]
    <2>1. fewer \in LinkTaskSet /\ ShowsWhy(fewer) /\ fewer.at = "parked"
          /\ fewer.record = old.record /\ fewer.stopped = old.stopped
      BY <1>4, <1>8
    <2>2. k \in LinkTaskSet /\ k.record = old.record /\ k.stopped = old.stopped /\ ShowsWhy(k) /\ k.at # "parked"
      BY <2>1 DEF LinkTaskSet, ShowsWhy
    <2> HIDE DEF k
    <2>3. linkTasks' = [linkTasks EXCEPT ![t] = k]
      BY <1>8 DEF k
    <2> QED  BY <1>5, <2>2, <2>3
  <1>9. CASE old.retries > 0 /\ linkTasks' = [linkTasks EXCEPT ![t] = Passed(fewer, stable)]
    BY <1>1, <1>4, <1>5, <1>9, PassedIsATask
  <1>10. CASE linkTasks' = [linkTasks EXCEPT ![t] = [old EXCEPT !.at = "ended"]]
    <2> DEFINE k == [old EXCEPT !.at = "ended"]
    <2>1. k \in LinkTaskSet /\ k.record = old.record /\ k.stopped = old.stopped /\ ShowsWhy(k) /\ k.at # "parked"
      BY <1>1 DEF LinkTaskSet, ShowsWhy
    <2> HIDE DEF k
    <2>2. linkTasks' = [linkTasks EXCEPT ![t] = k]
      BY <1>10 DEF k
    <2> QED  BY <1>5, <2>1, <2>2
  <1>11. CASE linkTasks' = [linkTasks EXCEPT ![t] = [old EXCEPT !.news = FALSE, !.at = "check"]]
    <2> DEFINE k == [old EXCEPT !.news = FALSE, !.at = "check"]
    <2>1. k \in LinkTaskSet /\ k.record = old.record /\ k.stopped = old.stopped /\ ShowsWhy(k) /\ k.at # "parked"
      BY <1>1 DEF LinkTaskSet, ShowsWhy
    <2> HIDE DEF k
    <2>2. linkTasks' = [linkTasks EXCEPT ![t] = k]
      BY <1>11 DEF k
    <2> QED  BY <1>5, <2>1, <2>2
  <1> QED  BY <1>6, <1>7, <1>8, <1>9, <1>10, <1>11

(* A link that is dropped is told to stop, and a new one is not.             *)
LEMMA Configures ==
  ASSUME LinksInv, Configure PROVE LinksInv'
  <1>1. linkTasks \in Seq(LinkTaskSet) /\ Len(linkTasks) \in Nat /\ DOMAIN linkTasks = 1 .. Len(linkTasks)
    BY DEF LinksInv, LinkTypes
  <1>2. PICK record \in LinkRecords \cup {0} :
          linkRecord' = record /\ linkTasks' = sync_links(record).tasks /\ linkNow' = sync_links(record).now
    BY DEF Configure
  <1>3. record \in Nat /\ 0 \notin LinkRecords
    BY LinksAssumption
  <1>4. UNCHANGED <<linkSession, linkIds, places>> /\ view' = view
    BY DEF Configure, view, SessionView, DialView
  <1>5. linkNow # 0 => linkNow \in DOMAIN linkTasks
    BY DEF LinksInv, LinkTypes
  <1>6. Cardinality(Tasks) = Len(linkTasks)
    BY <1>1, FS_Interval DEF Tasks
  <1> DEFINE dropped == IF linkNow = 0 \/ SameRecord(record) THEN linkTasks
                        ELSE [linkTasks EXCEPT ![linkNow].stopped = TRUE]
  <1>7. /\ dropped \in Seq(LinkTaskSet) /\ DOMAIN dropped = DOMAIN linkTasks /\ Len(dropped) = Len(linkTasks)
        /\ \A u \in DOMAIN linkTasks :
             dropped[u] = IF ~SameRecord(record) /\ u = linkNow THEN [linkTasks[u] EXCEPT !.stopped = TRUE]
                          ELSE linkTasks[u]
    <2>1. CASE linkNow = 0 \/ SameRecord(record)
      <3>1. dropped = linkTasks
        BY <2>1
      <3> QED  BY <2>1, <3>1, <1>1
    <2>2. CASE linkNow # 0 /\ ~SameRecord(record)
      <3> DEFINE k == [linkTasks[linkNow] EXCEPT !.stopped = TRUE]
      <3>1. linkTasks[linkNow] \in LinkTaskSet /\ linkNow \in 1 .. Len(linkTasks)
        BY <1>1, <1>5, <2>2
      <3>2. k \in LinkTaskSet
        BY <3>1 DEF LinkTaskSet
      <3>3. dropped = [linkTasks EXCEPT ![linkNow] = k]
        BY <2>2, <3>1
      <3>4. k = [linkTasks[linkNow] EXCEPT !.stopped = TRUE]
        OBVIOUS
      <3> HIDE DEF k, dropped
      <3>5. /\ dropped \in Seq(LinkTaskSet) /\ Len(dropped) = Len(linkTasks)
            /\ \A u \in 1 .. Len(linkTasks) : dropped[u] = IF u = linkNow THEN k ELSE linkTasks[u]
        BY <1>1, <3>1, <3>2, <3>3, ExceptSeq
      <3>6. ~SameRecord(record)
        BY <2>2
      <3>7. \A u \in DOMAIN linkTasks : u # linkNow => dropped[u] = linkTasks[u]
        BY <1>1, <3>5
      <3>8. dropped[linkNow] = [linkTasks[linkNow] EXCEPT !.stopped = TRUE]
        BY <3>1, <3>4, <3>5
      <3>9. dropped \in Seq(LinkTaskSet) /\ DOMAIN dropped = DOMAIN linkTasks /\ Len(dropped) = Len(linkTasks)
        BY <1>1, <3>5
      <3>10. \A u \in DOMAIN linkTasks :
               dropped[u] = IF ~SameRecord(record) /\ u = linkNow THEN [linkTasks[u] EXCEPT !.stopped = TRUE]
                            ELSE linkTasks[u]
        <4> TAKE u \in DOMAIN linkTasks
        <4>1. CASE u = linkNow
          BY <4>1, <3>6, <3>8
        <4>2. CASE u # linkNow
          BY <4>2, <3>7
        <4> QED  BY <4>1, <4>2
      <3> QED  BY <3>9, <3>10
    <2> QED  BY <2>1, <2>2
  <1>8. \A u \in DOMAIN linkTasks :
          /\ dropped[u].record = linkTasks[u].record /\ ShowsWhy(dropped[u]) /\ SleepsOn(dropped[u], view)
          /\ dropped[u].stopped = (linkTasks[u].stopped \/ (~SameRecord(record) /\ u = linkNow))
    <2> TAKE u \in DOMAIN linkTasks
    <2>1. linkTasks[u] \in LinkTaskSet /\ ShowsWhy(linkTasks[u]) /\ SleepsOn(linkTasks[u], view)
      BY <1>1 DEF LinksInv
    <2> HIDE DEF dropped
    <2> QED  BY <2>1, <1>7 DEF LinkTaskSet, ShowsWhy, SleepsOn
  <1>9. CASE SameRecord(record)
    <2>1. linkTasks' = linkTasks /\ linkNow' = linkNow
      <3>1. record # 0
        BY <1>3, <1>9 DEF SameRecord, LinksInv, OneLinkEach
      <3> QED  BY <1>2, <1>9, <3>1 DEF sync_links
    <2>2. linkNow # 0 /\ linkRecord' = linkRecord
      BY <1>2, <1>9 DEF SameRecord, LinksInv, OneLinkEach
    <2> QED  BY <2>1, <2>2, <1>4 DEF LinksInv, LinkTypes, OneLinkEach, Tasks
  <1>10. CASE ~SameRecord(record) /\ record = 0
    <2>1. linkTasks' = dropped /\ linkNow' = 0
      BY <1>2, <1>10 DEF sync_links
    <2> HIDE DEF dropped
    <2>2. LinkTypes'
      BY <2>1, <1>2, <1>3, <1>4, <1>7 DEF LinksInv, LinkTypes
    <2>3. OneLinkEach'
      BY <2>1, <1>2, <1>7, <1>8, <1>10 DEF LinksInv, OneLinkEach, Tasks
    <2>4. \A u \in DOMAIN linkTasks' : ShowsWhy(linkTasks'[u]) /\ SleepsOn(linkTasks'[u], view')
      BY <2>1, <1>4, <1>7, <1>8
    <2> QED  BY <2>2, <2>3, <2>4 DEF LinksInv
  <1>11. CASE ~SameRecord(record) /\ record # 0
    <2> DEFINE k == NewTask(record)
    <2>1. linkTasks' = Append(dropped, k) /\ linkNow' = Len(linkTasks) + 1
      BY <1>2, <1>6, <1>11 DEF sync_links
    <2>2. k \in LinkTaskSet /\ k.at = "top" /\ k.record = record /\ ~k.stopped
      BY <1>3 DEF NewTask, DialView, LinkTaskSet, LinkViews
    <2> HIDE DEF dropped, k
    <2>3. /\ linkTasks' \in Seq(LinkTaskSet) /\ DOMAIN linkTasks' = 1 .. (Len(linkTasks) + 1)
          /\ \A u \in DOMAIN linkTasks : linkTasks'[u] = dropped[u]
          /\ linkTasks'[Len(linkTasks) + 1] = k
      BY <2>1, <2>2, <1>1, <1>7, AppendProperties
    <2>4. DOMAIN linkTasks' = DOMAIN linkTasks \cup {Len(linkTasks) + 1} /\ Len(linkTasks) + 1 \notin DOMAIN linkTasks
      BY <2>3, <1>1
    <2>5. LinkTypes'
      BY <2>1, <2>3, <2>4, <1>1, <1>2, <1>3, <1>4 DEF LinksInv, LinkTypes
    <2>6. OneLinkEach'
      <3>1. \A u \in DOMAIN linkTasks : linkTasks'[u].stopped
        BY <2>3, <1>8, <1>11 DEF LinksInv, OneLinkEach, Tasks
      <3> QED  BY <3>1, <2>1, <2>2, <2>3, <2>4, <1>1, <1>2, <1>11 DEF OneLinkEach, Tasks
    <2>7. ShowsWhy(k) /\ SleepsOn(k, view)
      BY <2>2 DEF ShowsWhy, SleepsOn
    <2>8. \A u \in DOMAIN linkTasks' : ShowsWhy(linkTasks'[u]) /\ SleepsOn(linkTasks'[u], view')
      BY <2>3, <2>4, <2>7, <1>4, <1>8
    <2> QED  BY <2>5, <2>6, <2>8 DEF LinksInv
  <1> QED  BY <1>9, <1>10, <1>11

LEMMA LinksStep == ASSUME LinksInv, LinksNext PROVE LinksInv'
  <1>1. linkTasks \in Seq(LinkTaskSet)
    BY DEF LinksInv, LinkTypes
  <1>2. CASE \E t \in Tasks : Top(t) \/ DialLands(t) \/ DialFails(t) \/ Opened(t) \/ Check(t) \/ Wake(t)
    BY <1>2, TopsOfLoop, DialsLand, DialsFail, DialsOpen, Checks, Wakes DEF Tasks
  <1>3. CASE PeerDials \/ SessionEnds \/ Moved
    <2>1. linkTasks' = Told(linkTasks) /\ UNCHANGED <<linkRecord, linkNow>>
      BY <1>3 DEF PeerDials, SessionEnds, Moved
    <2>2. linkTasks' \in Seq(LinkTaskSet) /\ DOMAIN linkTasks' = DOMAIN linkTasks
      BY <1>1, <2>1, ToldAreTasks
    <2>3. linkSession' \in Nat /\ linkIds' \in Nat /\ places' \in SUBSET Places
      BY <1>3 DEF PeerDials, SessionEnds, Moved, LinksInv, LinkTypes
    <2>4. LinkTypes'
      BY <2>1, <2>2, <2>3 DEF LinksInv, LinkTypes
    <2> QED  BY <2>1, <2>4, LinkNewsSpread
  <1>4. CASE retry_links
    <2> DEFINE k == [linkTasks[linkNow] EXCEPT !.retries = linkTasks[linkNow].retries + 1]
    <2>1. linkNow \in DOMAIN linkTasks /\ linkTasks[linkNow] \in LinkTaskSet
      BY <1>1, <1>4 DEF retry_links, LinksInv, LinkTypes
    <2>2. linkTasks' = [linkTasks EXCEPT ![linkNow] = k] /\ UNCHANGED <<linkSession, linkIds, places, linkRecord, linkNow>>
      BY <1>4, <2>1 DEF retry_links
    <2>3. ShowsWhy(linkTasks[linkNow]) /\ SleepsOn(linkTasks[linkNow], view)
      BY <2>1 DEF LinksInv
    <2>4. k \in LinkTaskSet /\ k.record = linkTasks[linkNow].record /\ k.stopped = linkTasks[linkNow].stopped
          /\ ShowsWhy(k) /\ SleepsOn(k, view)
      BY <2>1, <2>3 DEF LinkTaskSet, ShowsWhy, SleepsOn
    <2> HIDE DEF k
    <2> QED  BY <2>1, <2>2, <2>4, LinkTaskSteps
  <1>5. CASE Configure
    BY <1>5, Configures
  <1> QED  BY <1>2, <1>3, <1>4, <1>5 DEF LinksNext

LEMMA LinksUntouched == LinksInv /\ UNCHANGED linksVars => LinksInv'
  <1> SUFFICES ASSUME LinksInv, UNCHANGED linksVars PROVE LinksInv'  OBVIOUS
  <1>1. view' = view
    BY DEF linksVars, view, SessionView, DialView
  <1> QED  BY <1>1 DEF LinksInv, LinkTypes, OneLinkEach, Tasks, linksVars

(* What the settings window reads and what a task sleeps on, from it.         *)
LEMMA LinksAreRight == LinksInv => NotParkedOnNews /\ StatusIsTrue /\ OneLinkEach
  <1> SUFFICES ASSUME LinksInv PROVE NotParkedOnNews /\ StatusIsTrue /\ OneLinkEach  OBVIOUS
  <1>1. NotParkedOnNews
    BY DEF LinksInv, SleepsOn, NotParkedOnNews, Tasks
  <1>2. StatusIsTrue
    <2> SUFFICES ASSUME linkNow # 0, linkTasks[linkNow].at = "parked", ~linkTasks[linkNow].news
                 PROVE  /\ linkSession # 0 \/ places = {} => linkTasks[linkNow].status = "none"
                        /\ linkTasks[linkNow].status # "connecting"
                        /\ linkTasks[linkNow].status = "unreachable" => linkSession = 0 /\ linkTasks[linkNow].timer
      BY DEF StatusIsTrue
    <2>1. linkNow \in DOMAIN linkTasks
      BY DEF LinksInv, LinkTypes
    <2>2. ShowsWhy(linkTasks[linkNow]) /\ linkTasks[linkNow].seen = view
      BY <2>1 DEF LinksInv, SleepsOn
    <2>3. (linkSession # 0 => view.kind = "session") /\ (linkSession = 0 => view.kind = "dial" /\ view.at = places)
      BY DEF view, SessionView, DialView
    <2> QED  BY <2>2, <2>3 DEF ShowsWhy
  <1> QED  BY <1>1, <1>2 DEF LinksInv

-----------------------------------------------------------------------------
(* The Mac app's browser and advertiser.                                      *)
BrowserThreads == [at : {"setup", "browsing", "ended"}, told : BOOLEAN]
Snapshots ==
  [status : {"paused", "starting", "browsing", "failed"}, records : SUBSET NearHosts, turned : BOOLEAN]
BrowserStates == [threads : Seq(BrowserThreads), snaps : Seq(Snapshots), shared : Nat, stopper : Nat]

Lives(k) == k.at # "ended" /\ ~k.told

(* A thread that was not told shows what it is at, and shows records only     *)
(* while it browses.                                                         *)
ShowsItself(k, snap) ==
  /\ k.at = "setup" => snap.status = "starting" /\ snap.records = {}
  /\ k.at = "browsing" => snap.status = "browsing"
  /\ k.at = "ended" => snap.status = "failed" /\ snap.records = {}

(* Whatever lives is what the app reads, would stop and means to have (on).   *)
BrowserFine(b, on) ==
  /\ b \in BrowserStates /\ Len(b.snaps) = Len(b.threads)
  /\ b.shared # 0 => b.shared \in DOMAIN b.threads /\ ~b.threads[b.shared].told
  /\ \A t \in DOMAIN b.threads :
       /\ Lives(b.threads[t]) => t = b.shared /\ t = b.stopper /\ on
       /\ ~b.threads[t].told => ShowsItself(b.threads[t], b.snaps[t])

(* Only the advertiser the app has is up, for the port the Mac listens on.    *)
Advertisers == [port : Ports, state : {"up", "told", "down"}]
AdsFine(list, mine, on, port) ==
  /\ list \in Seq(Advertisers) /\ mine \in Nat /\ (mine # 0 => mine \in DOMAIN list)
  /\ \A a \in DOMAIN list : list[a].state = "up" => a = mine /\ on /\ list[a].port = port

NearbyInv ==
  /\ BrowserFine(Browser, looking) /\ AdsFine(ads, advertiser, looking, listening)
  /\ looking \in BOOLEAN /\ listening \in Ports \cup {0}

NearbyHolds == part = "Listing" => NearbyInv

LEMMA NearbyStarts == NearbyInit => NearbyInv
  <1> SUFFICES ASSUME NearbyInit PROVE NearbyInv  OBVIOUS
  <1>1. Browser = [threads |-> <<>>, snaps |-> <<>>, shared |-> 0, stopper |-> 0]
    BY DEF Browser, NearbyInit
  <1>2. BrowserFine(Browser, looking)
    <2>1. <<>> \in Seq(BrowserThreads) /\ <<>> \in Seq(Snapshots) /\ DOMAIN <<>> = {}
      OBVIOUS
    <2> QED  BY <1>1, <2>1 DEF BrowserFine, BrowserStates
  <1>3. AdsFine(ads, advertiser, looking, listening)
    BY DEF NearbyInit, AdsFine
  <1> QED  BY <1>2, <1>3 DEF NearbyInv, NearbyInit

(* A stopped browser runs nothing and shows nothing.                          *)
LEMMA StopsTheBrowser ==
  ASSUME NEW b, NEW on, BrowserFine(b, on)
  PROVE  /\ BrowserFine(StopBrowser(b), FALSE) /\ StopBrowser(b).shared = 0
         /\ Len(StopBrowser(b).threads) = Len(b.threads)
         /\ \A t \in DOMAIN StopBrowser(b).threads : ~Lives(StopBrowser(b).threads[t])
  <1> DEFINE ts == [t \in DOMAIN b.threads |->
                      IF t = b.stopper THEN [b.threads[t] EXCEPT !.told = TRUE] ELSE b.threads[t]]
             c == [b EXCEPT !.threads = ts, !.stopper = 0, !.shared = 0]
  <1>1. b \in BrowserStates /\ b.threads \in Seq(BrowserThreads) /\ Len(b.threads) \in Nat
        /\ DOMAIN b.threads = 1 .. Len(b.threads)
    BY DEF BrowserFine, BrowserStates
  <1>2. \A t \in 1 .. Len(b.threads) : ts[t] \in BrowserThreads
    <2> TAKE t \in 1 .. Len(b.threads)
    <2>1. b.threads[t] \in BrowserThreads
      BY <1>1
    <2> QED  BY <2>1, <1>1 DEF BrowserThreads
  <1>3. \A t \in 1 .. Len(b.threads) :
          /\ ts[t].at = b.threads[t].at
          /\ ts[t].told = (b.threads[t].told \/ t = b.stopper)
    <2> TAKE t \in 1 .. Len(b.threads)
    <2>1. b.threads[t] \in BrowserThreads
      BY <1>1
    <2> QED  BY <2>1, <1>1 DEF BrowserThreads
  <1>4. DOMAIN ts = 1 .. Len(b.threads)
    BY <1>1
  <1>5. ts \in [1 .. Len(b.threads) -> BrowserThreads]
    BY <1>2, <1>4
  <1>6. StopBrowser(b) = c
    BY DEF StopBrowser
  <1> HIDE DEF ts, c
  <1>7. ts \in Seq(BrowserThreads) /\ Len(ts) = Len(b.threads)
    BY <1>1, <1>4, <1>5
  <1>8. c.threads = ts /\ c.snaps = b.snaps /\ c.shared = 0 /\ c.stopper = 0 /\ c \in BrowserStates
    BY <1>1, <1>7 DEF BrowserStates, c
  <1>9. \A t \in 1 .. Len(b.threads) : ~Lives(ts[t])
    BY <1>1, <1>3 DEF BrowserFine, Lives
  <1>10. \A t \in 1 .. Len(b.threads) : ~ts[t].told => ShowsItself(ts[t], b.snaps[t])
    <2> SUFFICES ASSUME NEW t \in 1 .. Len(b.threads), ~ts[t].told PROVE ShowsItself(ts[t], b.snaps[t])
      OBVIOUS
    <2>1. ts[t].at = b.threads[t].at /\ ~b.threads[t].told
      BY <1>3
    <2>2. ShowsItself(b.threads[t], b.snaps[t])
      BY <1>1, <2>1 DEF BrowserFine
    <2> QED  BY <2>1, <2>2 DEF ShowsItself
  <1>11. Len(b.snaps) = Len(b.threads)
    BY DEF BrowserFine
  <1>12. BrowserFine(c, FALSE)
    BY <1>4, <1>7, <1>8, <1>9, <1>10, <1>11 DEF BrowserFine
  <1> QED  BY <1>4, <1>6, <1>7, <1>8, <1>9, <1>12

(* A started browser is one that runs already, or a new thread after the old  *)
(* one was told.                                                             *)
LEMMA StartsTheBrowser ==
  ASSUME NEW b, NEW on, BrowserFine(b, on), NEW spawns \in BOOLEAN
  PROVE  BrowserFine(StartBrowser(b, spawns), TRUE)
  <1>1. CASE b.shared # 0 /\ b.snaps[b.shared].status \in {"starting", "browsing"}
    <2>1. StartBrowser(b, spawns) = b
      BY <1>1 DEF StartBrowser
    <2> QED  BY <2>1 DEF BrowserFine
  <1>2. CASE ~(b.shared # 0 /\ b.snaps[b.shared].status \in {"starting", "browsing"})
    <2> DEFINE stopped == StopBrowser(b)
               n == Len(b.threads)
               k == [at |-> IF spawns THEN "setup" ELSE "ended", told |-> FALSE]
               snap == [Paused EXCEPT !.status = IF spawns THEN "starting" ELSE "failed"]
               c == [threads |-> Append(stopped.threads, k), snaps |-> Append(b.snaps, snap),
                     shared |-> n + 1, stopper |-> IF spawns THEN n + 1 ELSE 0]
    <2>1. StartBrowser(b, spawns) = c
      BY <1>2 DEF StartBrowser
    <2>2. /\ BrowserFine(stopped, FALSE) /\ stopped.threads \in Seq(BrowserThreads)
          /\ Len(stopped.threads) = n /\ n \in Nat /\ DOMAIN stopped.threads = 1 .. n
          /\ \A t \in 1 .. n : ~Lives(stopped.threads[t])
      BY StopsTheBrowser DEF BrowserFine, BrowserStates
    <2>3. b.snaps \in Seq(Snapshots) /\ Len(b.snaps) = n
      BY DEF BrowserFine, BrowserStates
    <2>4. stopped.snaps = b.snaps
      BY DEF StopBrowser, BrowserFine, BrowserStates
    <2>5. k \in BrowserThreads /\ snap \in Snapshots /\ ~k.told /\ ShowsItself(k, snap) /\ (Lives(k) => spawns)
      BY DEF BrowserThreads, Snapshots, Paused, ShowsItself, Lives
    <2> HIDE DEF k, snap, stopped, n
    <2>6. /\ Append(stopped.threads, k) \in Seq(BrowserThreads) /\ Len(Append(stopped.threads, k)) = n + 1
          /\ \A t \in 1 .. n : Append(stopped.threads, k)[t] = stopped.threads[t]
          /\ Append(stopped.threads, k)[n + 1] = k
      BY <2>2, <2>5, AppendProperties
    <2>7. /\ Append(b.snaps, snap) \in Seq(Snapshots) /\ Len(Append(b.snaps, snap)) = n + 1
          /\ \A t \in 1 .. n : Append(b.snaps, snap)[t] = b.snaps[t]
          /\ Append(b.snaps, snap)[n + 1] = snap
      BY <2>2, <2>3, <2>5, AppendProperties
    <2> DEFINE ts == Append(stopped.threads, k)
               ss == Append(b.snaps, snap)
    <2>8. c.threads = ts /\ c.snaps = ss /\ c.shared = n + 1 /\ c.stopper = IF spawns THEN n + 1 ELSE 0
      OBVIOUS
    <2>9. c \in BrowserStates
      BY <2>2, <2>6, <2>7 DEF BrowserStates
    <2> HIDE DEF c, ts, ss
    <2>10. DOMAIN ts = 1 .. (n + 1) /\ n + 1 # 0 /\ \A t \in 1 .. (n + 1) : t \in 1 .. n \/ t = n + 1
      BY <2>2, <2>6 DEF ts
    <2>11. \A t \in 1 .. n : ~Lives(ts[t]) /\ (~ts[t].told => ShowsItself(ts[t], ss[t]))
      BY <2>2, <2>4, <2>6, <2>7 DEF BrowserFine, ts, ss
    <2>12. ts[n + 1] = k /\ ss[n + 1] = snap /\ Len(ss) = n + 1 /\ Len(ts) = n + 1
      BY <2>6, <2>7 DEF ts, ss
    <2>13. BrowserFine(c, TRUE)
      BY <2>5, <2>8, <2>9, <2>10, <2>11, <2>12 DEF BrowserFine
    <2> QED  BY <2>1, <2>13
  <1> QED  BY <1>1, <1>2

(* Telling an advertiser takes it down, and changes no port.                  *)
LEMMA TellsAdvertiser ==
  ASSUME NEW list \in Seq(Advertisers), NEW n
  PROVE  /\ Tell(list, n) \in Seq(Advertisers) /\ Len(Tell(list, n)) = Len(list)
         /\ DOMAIN Tell(list, n) = DOMAIN list
         /\ \A a \in DOMAIN list : Tell(list, n)[a].state = "up" <=> (list[a].state = "up" /\ a # n)
  <1> DEFINE told == Tell(list, n)
  <1>1. Len(list) \in Nat /\ DOMAIN list = 1 .. Len(list) /\ DOMAIN told = 1 .. Len(list)
    BY DEF Tell
  <1>2. \A a \in 1 .. Len(list) : told[a] \in Advertisers /\ (told[a].state = "up" <=> (list[a].state = "up" /\ a # n))
    <2> TAKE a \in 1 .. Len(list)
    <2>3. list[a] \in Advertisers
      BY <1>1
    <2>1. list[a].state \in {"up", "told", "down"}
      BY <2>3 DEF Advertisers
    <2>2. told[a] = IF a = n /\ list[a].state = "up" THEN [list[a] EXCEPT !.state = "told"] ELSE list[a]
      BY <1>1 DEF Tell
    <2>4. CASE a = n /\ list[a].state = "up"
      BY <2>2, <2>3, <2>4 DEF Advertisers
    <2>5. CASE ~(a = n /\ list[a].state = "up")
      BY <2>2, <2>3, <2>5
    <2> QED  BY <2>4, <2>5
  <1>3. told = [a \in 1 .. Len(list) |-> told[a]]
    BY <1>1 DEF Tell
  <1> HIDE DEF told
  <1>4. told \in [1 .. Len(list) -> Advertisers]
    BY <1>1, <1>2, <1>3
  <1>5. told \in Seq(Advertisers) /\ Len(told) = Len(list)
    BY <1>1, <1>4
  <1> QED  BY <1>1, <1>2, <1>5 DEF told

(* A new advertiser, after the old one was told.                              *)
LEMMA AdvertisesAnew ==
  ASSUME NEW list \in Seq(Advertisers), NEW mine, NEW on, NEW was, NEW port \in Ports, NEW registers \in BOOLEAN,
         AdsFine(list, mine, on, was)
  PROVE  AdsFine(Append(Tell(list, mine), Registered(port, registers)), Len(list) + 1, TRUE, port)
  <1> DEFINE told == Tell(list, mine)
             k == Registered(port, registers)
  <1>1. /\ told \in Seq(Advertisers) /\ Len(told) = Len(list) /\ DOMAIN told = DOMAIN list
        /\ \A a \in DOMAIN list : told[a].state # "up"
    BY TellsAdvertiser DEF AdsFine
  <1>2. k \in Advertisers /\ k.port = port
    BY DEF Registered, Advertisers
  <1>3. Len(list) \in Nat /\ DOMAIN list = 1 .. Len(list)
    OBVIOUS
  <1> HIDE DEF told, k
  <1>4. /\ Append(told, k) \in Seq(Advertisers) /\ DOMAIN Append(told, k) = 1 .. (Len(list) + 1)
        /\ \A a \in 1 .. Len(list) : Append(told, k)[a] = told[a]
        /\ Append(told, k)[Len(list) + 1] = k
    BY <1>1, <1>2, <1>3, AppendProperties
  <1>5. \A a \in 1 .. (Len(list) + 1) : a \in 1 .. Len(list) \/ a = Len(list) + 1
    BY <1>3
  <1> QED  BY <1>1, <1>2, <1>3, <1>4, <1>5 DEF AdsFine, told, k

LEMMA NobodyAdvertises ==
  ASSUME NEW list \in Seq(Advertisers), NEW mine, NEW on, NEW was, NEW anyOn, NEW port, AdsFine(list, mine, on, was)
  PROVE  AdsFine(Tell(list, mine), 0, anyOn, port)
  BY TellsAdvertiser DEF AdsFine

LEMMA AdvertiserFollows ==
  ASSUME AdsFine(ads, advertiser, looking, listening), NEW on \in BOOLEAN, NEW port \in Ports \cup {0},
         NEW registers \in BOOLEAN, sync_advertiser(IF on THEN port ELSE 0, registers)
  PROVE  AdsFine(ads', advertiser', on, port)
  <1> DEFINE wanted == IF on THEN port ELSE 0
             now_ == IF advertiser = 0 THEN 0 ELSE ads[advertiser].port
  <1>1. ads \in Seq(Advertisers) /\ Len(ads) \in Nat /\ DOMAIN ads = 1 .. Len(ads)
        /\ (advertiser # 0 => advertiser \in DOMAIN ads)
    BY DEF AdsFine
  <1>2. advertiser # 0 => ads[advertiser].port \in Ports /\ ads[advertiser].port # 0
    <2>1. 0 \notin Ports
      BY NearbyAssumption
    <2>2. advertiser # 0 => ads[advertiser] \in Advertisers
      BY <1>1
    <2> QED  BY <2>1, <2>2 DEF Advertisers
  <1>3. CASE now_ = wanted
    <2>1. ads' = ads /\ advertiser' = advertiser
      BY <1>3 DEF sync_advertiser
    <2>2. advertiser # 0 => on /\ ads[advertiser].port = port
      BY <1>2, <1>3
    <2> QED  BY <2>1, <2>2, <1>1 DEF AdsFine
  <1>4. CASE now_ # wanted /\ wanted = 0
    <2>1. ads' = Tell(ads, advertiser) /\ advertiser' = 0
      BY <1>4 DEF sync_advertiser
    <2> QED  BY <1>1, <2>1, NobodyAdvertises
  <1>5. CASE now_ # wanted /\ wanted # 0
    <2>1. ads' = Append(Tell(ads, advertiser), Registered(port, registers)) /\ advertiser' = Len(ads) + 1 /\ on
          /\ port \in Ports
      BY <1>5 DEF sync_advertiser
    <2>2. AdsFine(ads', advertiser', TRUE, port)
      BY <1>1, <2>1, AdvertisesAnew
    <2> QED  BY <2>1, <2>2
  <1> QED  BY <1>3, <1>4, <1>5

LEMMA SyncsDiscovery ==
  ASSUME NearbyInv, NEW b, NEW was, BrowserFine(b, was), NEW on \in BOOLEAN, NEW port \in Ports \cup {0},
         SyncDiscovery(b, on, port)
  PROVE  BrowserFine(Browser', on) /\ AdsFine(ads', advertiser', on, port)
  <1>1. PICK works \in BOOLEAN :
          /\ SetBrowser(IF on THEN StartBrowser(b, works) ELSE StopBrowser(b))
          /\ sync_advertiser(IF on THEN port ELSE 0, works)
    BY DEF SyncDiscovery
  <1> DEFINE c == IF on THEN StartBrowser(b, works) ELSE StopBrowser(b)
  <1>2. BrowserFine(c, on)
    <2>1. CASE on
      BY <2>1, StartsTheBrowser
    <2>2. CASE ~on
      BY <2>2, StopsTheBrowser
    <2> QED  BY <2>1, <2>2
  <1>3. Browser' = c
    <2>1. SetBrowser(c)
      BY <1>1
    <2>2. c \in BrowserStates
      BY <1>2 DEF BrowserFine
    <2> HIDE DEF c
    <2> QED  BY <2>1, <2>2 DEF SetBrowser, Browser, BrowserStates
  <1>4. AdsFine(ads', advertiser', on, port)
    BY <1>1, AdvertiserFollows DEF NearbyInv
  <1> HIDE DEF c
  <1> QED  BY <1>2, <1>3, <1>4

(* A browser thread takes a step.                                            *)
LEMMA BrowserThreadSteps ==
  ASSUME NearbyInv, NEW t \in DOMAIN browsers, NEW where \in {"setup", "browsing", "ended"},
         NEW snap \in Snapshots, Set(t, where, snap),
         ~browsers[t].told => ShowsItself([browsers[t] EXCEPT !.at = where], snap),
         browsers[t].at # "ended"
  PROVE  NearbyInv'
  <1> DEFINE k == [browsers[t] EXCEPT !.at = where]
  <1>1. /\ browsers \in Seq(BrowserThreads) /\ snaps \in Seq(Snapshots) /\ Len(snaps) = Len(browsers)
        /\ shared \in Nat /\ stopper \in Nat /\ Len(browsers) \in Nat
        /\ DOMAIN browsers = 1 .. Len(browsers) /\ browsers[t] \in BrowserThreads
    <2>1. Browser \in BrowserStates /\ Len(snaps) = Len(browsers)
      BY DEF NearbyInv, BrowserFine, Browser
    <2>2. browsers \in Seq(BrowserThreads) /\ snaps \in Seq(Snapshots) /\ shared \in Nat /\ stopper \in Nat
      BY <2>1 DEF Browser, BrowserStates
    <2> QED  BY <2>1, <2>2
  <1>2. browsers' = [browsers EXCEPT ![t] = k] /\ snaps' = [snaps EXCEPT ![t] = snap]
        /\ UNCHANGED <<shared, stopper, ads, advertiser, looking, listening>>
    BY <1>1 DEF Set
  <1>3. k \in BrowserThreads /\ k.at = where /\ k.told = browsers[t].told
    BY <1>1 DEF BrowserThreads
  <1> HIDE DEF k
  <1>4. /\ browsers' \in Seq(BrowserThreads) /\ Len(browsers') = Len(browsers)
        /\ \A u \in 1 .. Len(browsers) : browsers'[u] = IF u = t THEN k ELSE browsers[u]
    BY <1>1, <1>2, <1>3, ExceptSeq
  <1>5. /\ snaps' \in Seq(Snapshots) /\ Len(snaps') = Len(browsers)
        /\ \A u \in 1 .. Len(browsers) : snaps'[u] = IF u = t THEN snap ELSE snaps[u]
    BY <1>1, <1>2, ExceptSeq
  <1>6. /\ shared # 0 => shared \in DOMAIN browsers /\ ~browsers[shared].told
        /\ \A u \in DOMAIN browsers :
             /\ Lives(browsers[u]) => u = shared /\ u = stopper /\ looking
             /\ ~browsers[u].told => ShowsItself(browsers[u], snaps[u])
    BY DEF NearbyInv, BrowserFine, Browser
  <1>7. Lives(k) => Lives(browsers[t])
    BY <1>3 DEF Lives
  <1>8. ~k.told => ShowsItself(k, snap)
    BY <1>3 DEF k
  <1>9. Browser' \in BrowserStates
    BY <1>1, <1>2, <1>4, <1>5 DEF Browser, BrowserStates
  <1>10. DOMAIN browsers' = DOMAIN browsers
    BY <1>1, <1>4
  <1>11. \A u \in DOMAIN browsers :
             /\ Lives(browsers'[u]) => u = shared /\ u = stopper /\ looking
             /\ ~browsers'[u].told => ShowsItself(browsers'[u], snaps'[u])
    BY <1>1, <1>4, <1>5, <1>6, <1>7, <1>8
  <1>12. shared # 0 => shared \in DOMAIN browsers /\ ~browsers'[shared].told
    BY <1>1, <1>3, <1>4, <1>6
  <1>13. BrowserFine(Browser', looking')
    BY <1>2, <1>4, <1>5, <1>9, <1>10, <1>11, <1>12 DEF BrowserFine, Browser
  <1> QED  BY <1>2, <1>13 DEF NearbyInv

LEMMA SnapshotsOfThreads ==
  ASSUME NearbyInv, NEW t \in DOMAIN browsers
  PROVE  /\ browsers[t] \in BrowserThreads /\ snaps[t] \in Snapshots /\ snaps[t].records \in SUBSET NearHosts
         /\ ~browsers[t].told => ShowsItself(browsers[t], snaps[t])
         /\ Failed(snaps[t]) \in Snapshots
         /\ Failed(snaps[t]).status = "failed" /\ Failed(snaps[t]).records = {}
  <1>1. Browser \in BrowserStates /\ Len(snaps) = Len(browsers)
    BY DEF NearbyInv, BrowserFine, Browser
  <1>2. browsers \in Seq(BrowserThreads) /\ snaps \in Seq(Snapshots)
    BY <1>1 DEF Browser, BrowserStates
  <1>3. browsers[t] \in BrowserThreads /\ snaps[t] \in Snapshots
    BY <1>1, <1>2
  <1>4. ~browsers[t].told => ShowsItself(browsers[t], snaps[t])
    BY DEF NearbyInv, BrowserFine, Browser
  <1> QED  BY <1>3, <1>4 DEF Failed, Snapshots

LEMMA InsertsRecord ==
  ASSUME NEW snap \in Snapshots, NEW host \in NearHosts
  PROVE  Inserted(snap, host) \in Snapshots /\ Inserted(snap, host).status = snap.status
  BY DEF Inserted, Snapshots

LEMMA BrowserThreadsStep ==
  ASSUME NearbyInv, NEW t \in DOMAIN browsers, SetUp(t) \/ Browses(t) \/ BrowsesLate(t)
  PROVE  NearbyInv'
  <1>1. /\ browsers[t] \in BrowserThreads /\ snaps[t] \in Snapshots /\ snaps[t].records \in SUBSET NearHosts
        /\ ~browsers[t].told => ShowsItself(browsers[t], snaps[t])
        /\ Failed(snaps[t]) \in Snapshots
        /\ Failed(snaps[t]).status = "failed" /\ Failed(snaps[t]).records = {}
    BY SnapshotsOfThreads
  <1>2. CASE SetUp(t)
    <2>1. browsers[t].at = "setup"
      BY <1>2 DEF SetUp
    <2>2. CASE browsers[t].told /\ Set(t, "ended", snaps[t])
      BY <1>1, <2>1, <2>2, BrowserThreadSteps
    <2>3. CASE ~browsers[t].told /\ Set(t, "ended", Failed(snaps[t]))
      <3>1. ShowsItself([browsers[t] EXCEPT !.at = "ended"], Failed(snaps[t]))
        BY <1>1 DEF ShowsItself, BrowserThreads
      <3> QED  BY <1>1, <2>1, <2>3, <3>1, BrowserThreadSteps
    <2>4. CASE ~browsers[t].told /\ Set(t, "browsing", [snaps[t] EXCEPT !.status = "browsing"])
      <3>1. [snaps[t] EXCEPT !.status = "browsing"] \in Snapshots
        BY <1>1 DEF Snapshots
      <3>2. ShowsItself([browsers[t] EXCEPT !.at = "browsing"], [snaps[t] EXCEPT !.status = "browsing"])
        BY <1>1 DEF ShowsItself, BrowserThreads, Snapshots
      <3> QED  BY <2>1, <2>4, <3>1, <3>2, BrowserThreadSteps
    <2> QED  BY <1>2, <2>2, <2>3, <2>4 DEF SetUp
  <1>3. CASE Browses(t)
    <2>1. browsers[t].at = "browsing" /\ ~browsers[t].told /\ snaps[t].status = "browsing"
      BY <1>1, <1>3 DEF Browses, ShowsItself
    <2>2. CASE \E host \in NearHosts : Set(t, "browsing", Inserted(snaps[t], host))
      <3>1. PICK host \in NearHosts : Set(t, "browsing", Inserted(snaps[t], host))
        BY <2>2
      <3>2. Inserted(snaps[t], host) \in Snapshots /\ Inserted(snaps[t], host).status = "browsing"
        BY <1>1, <2>1, InsertsRecord
      <3>3. ShowsItself([browsers[t] EXCEPT !.at = "browsing"], Inserted(snaps[t], host))
        BY <1>1, <3>2 DEF ShowsItself, BrowserThreads
      <3> QED  BY <2>1, <3>1, <3>2, <3>3, BrowserThreadSteps
    <2>3. CASE \E host \in snaps[t].records : Set(t, "browsing", [snaps[t] EXCEPT !.records = @ \ {host}])
      <3>1. PICK host \in snaps[t].records : Set(t, "browsing", [snaps[t] EXCEPT !.records = @ \ {host}])
        BY <2>3
      <3> DEFINE snap == [snaps[t] EXCEPT !.records = @ \ {host}]
      <3>2. snap \in Snapshots /\ snap.status = "browsing"
        BY <1>1, <2>1 DEF Snapshots
      <3>3. ShowsItself([browsers[t] EXCEPT !.at = "browsing"], snap)
        BY <1>1, <3>2 DEF ShowsItself, BrowserThreads
      <3> HIDE DEF snap
      <3>4. Set(t, "browsing", snap)
        BY <3>1 DEF snap
      <3> QED  BY <2>1, <3>2, <3>3, <3>4, BrowserThreadSteps
    <2>4. CASE Set(t, "ended", Failed(snaps[t]))
      <3>1. ShowsItself([browsers[t] EXCEPT !.at = "ended"], Failed(snaps[t]))
        BY <1>1 DEF ShowsItself, BrowserThreads
      <3> QED  BY <1>1, <2>1, <2>4, <3>1, BrowserThreadSteps
    <2> QED  BY <1>3, <2>2, <2>3, <2>4 DEF Browses
  <1>4. CASE BrowsesLate(t)
    <2>1. browsers[t].at = "browsing" /\ browsers[t].told
      BY <1>4 DEF BrowsesLate
    <2>2. CASE Set(t, "ended", snaps[t])
      BY <1>1, <2>1, <2>2, BrowserThreadSteps
    <2>3. CASE \E host \in NearHosts : Set(t, "ended", Inserted(snaps[t], host))
      BY <1>1, <2>1, <2>3, InsertsRecord, BrowserThreadSteps
    <2> QED  BY <1>4, <2>2, <2>3 DEF BrowsesLate
  <1> QED  BY <1>2, <1>3, <1>4

LEMMA NearbyStep == ASSUME NearbyInv, NearbyNext PROVE NearbyInv'
  <1>1. BrowserFine(Browser, looking) /\ AdsFine(ads, advertiser, looking, listening)
        /\ looking \in BOOLEAN /\ listening \in Ports \cup {0}
    BY DEF NearbyInv
  <1>2. CASE SettingsChange
    <2>1. looking' \in BOOLEAN /\ listening' \in Ports \cup {0} /\ SyncDiscovery(Browser, looking', listening')
      BY <1>2 DEF SettingsChange
    <2> QED  BY <1>1, <2>1, SyncsDiscovery DEF NearbyInv
  <1>3. CASE check_local_network
    <2>1. looking /\ UNCHANGED <<looking, listening>>
      BY <1>3 DEF check_local_network
    <2>2. CASE SyncDiscovery(StopBrowser(Browser), TRUE, listening)
      <3>1. BrowserFine(StopBrowser(Browser), FALSE)
        BY <1>1, StopsTheBrowser
      <3>2. BrowserFine(Browser', TRUE) /\ AdsFine(ads', advertiser', TRUE, listening)
        BY <1>1, <2>2, <3>1, SyncsDiscovery
      <3>3. looking = TRUE
        BY <1>1, <2>1
      <3> QED  BY <1>1, <2>1, <3>2, <3>3 DEF NearbyInv
    <2>3. CASE UNCHANGED <<browsers, snaps, shared, stopper, ads, advertiser>>
      BY <1>1, <2>1, <2>3 DEF NearbyInv, Browser
    <2> QED  BY <1>3, <2>2, <2>3 DEF check_local_network
  <1>4. CASE Maintain
    <2>1. SyncDiscovery(Browser, looking, listening) /\ UNCHANGED <<looking, listening>>
      BY <1>4 DEF Maintain
    <2> QED  BY <1>1, <2>1, SyncsDiscovery DEF NearbyInv
  <1>5. CASE RetryAdvertiser
    <2>1. PICK registers \in BOOLEAN :
            IF ~looking \/ listening = 0 THEN ads' = Tell(ads, advertiser) /\ advertiser' = 0
            ELSE /\ ads' = Append(Tell(ads, advertiser), Registered(listening, registers))
                 /\ advertiser' = Len(Tell(ads, advertiser)) + 1
      BY <1>5 DEF RetryAdvertiser
    <2>2. UNCHANGED <<browsers, snaps, shared, stopper, looking, listening>>
      BY <1>5 DEF RetryAdvertiser
    <2>3. ads \in Seq(Advertisers) /\ Len(Tell(ads, advertiser)) = Len(ads)
      BY <1>1, TellsAdvertiser DEF AdsFine
    <2>4. AdsFine(ads', advertiser', looking, listening)
      <3>1. CASE ~looking \/ listening = 0
        BY <1>1, <2>1, <2>3, <3>1, NobodyAdvertises
      <3>2. CASE looking /\ listening # 0
        <4>1. listening \in Ports /\ looking = TRUE
          BY <1>1, <3>2
        <4>2. AdsFine(Append(Tell(ads, advertiser), Registered(listening, registers)), Len(ads) + 1, TRUE, listening)
          BY <1>1, <2>3, <4>1, AdvertisesAnew
        <4> QED  BY <2>1, <2>3, <3>2, <4>1, <4>2
      <3> QED  BY <3>1, <3>2, <1>1
    <2> QED  BY <1>1, <2>2, <2>4 DEF NearbyInv, Browser
  <1>6. CASE tick_neighbors
    BY <1>1, <1>6 DEF tick_neighbors, NearbyInv, Browser
  <1>7. CASE \E t \in DOMAIN browsers : SetUp(t) \/ Browses(t) \/ BrowsesLate(t)
    BY <1>7, BrowserThreadsStep
  <1>8. CASE \E a \in DOMAIN ads : AdvertiserEnds(a)
    <2>1. PICK a \in DOMAIN ads : AdvertiserEnds(a)
      BY <1>8
    <2> DEFINE k == [ads[a] EXCEPT !.state = "down"]
    <2>2. ads \in Seq(Advertisers) /\ Len(ads) \in Nat /\ DOMAIN ads = 1 .. Len(ads)
      BY <1>1 DEF AdsFine
    <2>3. ads[a] \in Advertisers
      BY <2>1, <2>2
    <2>4. k \in Advertisers /\ k.state = "down"
      BY <2>3 DEF Advertisers
    <2>5. ads' = [ads EXCEPT ![a] = k] /\ UNCHANGED <<browsers, snaps, shared, stopper, advertiser, looking, listening>>
      BY <2>1, <2>2 DEF AdvertiserEnds
    <2> HIDE DEF k
    <2>6. /\ ads' \in Seq(Advertisers) /\ DOMAIN ads' = DOMAIN ads
          /\ \A u \in DOMAIN ads : ads'[u] = IF u = a THEN k ELSE ads[u]
      BY <2>1, <2>2, <2>4, <2>5, ExceptSeq
    <2>7. AdsFine(ads', advertiser', looking', listening')
      BY <1>1, <2>4, <2>5, <2>6 DEF AdsFine
    <2> QED  BY <1>1, <2>5, <2>7 DEF NearbyInv, Browser
  <1> QED  BY <1>2, <1>3, <1>4, <1>5, <1>6, <1>7, <1>8 DEF NearbyNext

LEMMA NearbyUntouched == NearbyInv /\ UNCHANGED nearbyVars => NearbyInv'
  <1> SUFFICES ASSUME NearbyInv, UNCHANGED nearbyVars PROVE NearbyInv'  OBVIOUS
  <1>1. Browser' = Browser
    BY DEF Browser, nearbyVars
  <1> QED  BY <1>1 DEF NearbyInv, nearbyVars

(* What the window shows, and what is advertised, from it.                    *)
LEMMA NearbyIsRight == NearbyInv => OneBrowser /\ AdvertisedIsListening
  <1> SUFFICES ASSUME NearbyInv PROVE OneBrowser /\ AdvertisedIsListening  OBVIOUS
  <1> DEFINE live == {t \in DOMAIN browsers : browsers[t].at # "ended" /\ ~browsers[t].told}
  <1>1. /\ shared # 0 => shared \in DOMAIN browsers /\ ~browsers[shared].told
        /\ \A t \in DOMAIN browsers :
             /\ Lives(browsers[t]) => t = shared /\ t = stopper /\ looking
             /\ ~browsers[t].told => ShowsItself(browsers[t], snaps[t])
        /\ \A t \in DOMAIN browsers : t # 0 /\ browsers[t].at \in {"setup", "browsing", "ended"}
    <2>1. Browser \in BrowserStates
      BY DEF NearbyInv, BrowserFine
    <2>2. browsers \in Seq(BrowserThreads)
      BY <2>1 DEF Browser, BrowserStates
    <2>3. \A t \in DOMAIN browsers : t # 0 /\ browsers[t] \in BrowserThreads
      BY <2>2
    <2>4. \A t \in DOMAIN browsers : browsers[t].at \in {"setup", "browsing", "ended"}
      BY <2>3 DEF BrowserThreads
    <2>5. BrowserFine(Browser, looking)
      BY DEF NearbyInv
    <2>6. Browser.threads = browsers /\ Browser.snaps = snaps /\ Browser.shared = shared /\ Browser.stopper = stopper
      BY DEF Browser
    <2> QED  BY <2>3, <2>4, <2>5, <2>6 DEF BrowserFine
  <1>2. live \subseteq {shared} /\ (live # {} => looking)
    BY <1>1 DEF Lives
  <1>3. shared = 0 => live = {}
    BY <1>1 DEF Lives
  <1>4. is_running <=> live # {}
    <2>1. CASE shared = 0
      BY <2>1, <1>3 DEF is_running, snapshot, Paused
    <2>2. CASE shared # 0
      <3>1. snapshot = snaps[shared] /\ ShowsItself(browsers[shared], snaps[shared]) /\ shared \in DOMAIN browsers
        BY <1>1, <2>2 DEF snapshot
      <3>2. live # {} <=> browsers[shared].at # "ended"
        BY <1>1, <1>2, <2>2, <3>1
      <3> QED  BY <1>1, <3>1, <3>2 DEF is_running, ShowsItself
    <2> QED  BY <2>1, <2>2
  <1>5. snapshot.records # {} => snapshot.status = "browsing"
    <2>1. CASE shared = 0
      BY <2>1 DEF snapshot, Paused
    <2>2. CASE shared # 0
      BY <1>1, <2>2 DEF snapshot, ShowsItself
    <2> QED  BY <2>1, <2>2
  <1>6. OneBrowser
    BY <1>2, <1>4, <1>5 DEF OneBrowser
  <1>7. AdvertisedIsListening
    BY DEF NearbyInv, AdsFine, AdvertisedIsListening
  <1> QED  BY <1>6, <1>7

-----------------------------------------------------------------------------
(* Discovery.  What may be announced, and the events of it.                   *)
AddressLists == HostAddresses \cup {select_advertisable_addresses(mine) : mine \in HereAddresses}
Announcements == [addresses : AddressLists, txt : ZflowTxt \cup OtherTxt]
EventIds == {Own(n) : n \in Nat} \cup {Of(h) : h \in Hosts}
FoundEvents ==
  {e \in [what : {"resolved", "removed", "stopped"}, id : EventIds, record : Announcements \cup {NoRecord}] :
     e.what = "resolved" => e.record \in Announcements}

DiscoveryTypes ==
  /\ discovery \in Nat /\ made \in Nat /\ announced \subseteq Nat /\ found \in Seq(FoundEvents)
  /\ present \in [Hosts -> Announcements \cup {NoRecord}] /\ here \in HereAddresses
  /\ DOMAIN instances \subseteq records
  /\ discovery = 0 => instances = <<>> /\ heard = <<>> /\ found = <<>>

(* Where the present browser heard of it, a record is listed as it says.      *)
ListedAsHeard(id) ==
  IF id = ownRecord \/ Reachable(id) = {} THEN id \notin DOMAIN instances
  ELSE \/ id \notin DOMAIN instances /\ fullOnce
       \/ /\ id \in DOMAIN instances
          /\ instances[id].addresses = Reachable(id)
          /\ instances[id].compatible = (heard[id].record.txt[1] = <<"v", "this">>)

DiscoveryInv ==
  /\ DiscoveryTypes
  /\ \A id \in DOMAIN instances : id # ownRecord /\ id \in DOMAIN heard
  /\ \A id \in DOMAIN heard : ListedAsHeard(id)

DiscoveryHolds == part = "Browsing" => DiscoveryInv

LEMMA NothingIsKnown == DOMAIN <<>> = {}
  OBVIOUS

(* Taking everything out leaves nothing.                                      *)
LEMMA WithoutAll == ASSUME NEW f, NEW keys, DOMAIN f \subseteq keys PROVE Without(f, keys) = <<>>
  <1>1. Without(f, keys) = [k \in {} |-> f[k]]
    BY DEF Without
  <1>2. [k \in {} |-> f[k]] = <<>>
    OBVIOUS
  <1> QED  BY <1>1, <1>2

LEMMA WithoutOne ==
  ASSUME NEW f, NEW key
  PROVE  /\ DOMAIN Without(f, {key}) = DOMAIN f \ {key}
         /\ \A k \in DOMAIN f \ {key} : Without(f, {key})[k] = f[k]
  BY DEF Without

LEMMA AnnouncementsAreTold ==
  ASSUME RecordsAreUsable, NEW r \in Announcements
  PROVE  /\ Parses(r) <=> r.txt \in ZflowTxt
         /\ Listing(r).addresses = usable(r.addresses)
         /\ r.txt \in ZflowTxt => Listing(r).compatible = (r.txt[1] = <<"v", "this">>)
  <1>1. r.addresses \in AddressLists /\ r.txt \in ZflowTxt \cup OtherTxt
    BY DEF Announcements
  <1>2. usable(r.addresses) # {}
    BY <1>1 DEF AddressLists, RecordsAreUsable
  <1>3. Parses(r) <=> r.txt \in ZflowTxt
    BY <1>1, <1>2 DEF Parses, RecordsAreUsable
  <1>4. Listing(r).addresses = usable(r.addresses) /\ Listing(r).compatible = parse_txt(r.txt).compatible
    BY DEF Listing
  <1> QED  BY <1>3, <1>4 DEF RecordsAreUsable

LEMMA DiscoveryBegins == DiscoveryInit => DiscoveryInv
  <1> SUFFICES ASSUME DiscoveryInit PROVE DiscoveryInv  OBVIOUS
  <1>1. <<>> \in Seq(FoundEvents) /\ DOMAIN <<>> = {}
    OBVIOUS
  <1>2. present \in [Hosts -> Announcements \cup {NoRecord}]
    BY DEF DiscoveryInit
  <1> QED  BY <1>1, <1>2 DEF DiscoveryInit, DiscoveryInv, DiscoveryTypes

LEMMA DiscoveriesStart ==
  ASSUME DiscoveryInv, DiscoveryStarts PROVE DiscoveryInv'
  <1>1. discovery = 0 /\ made \in Nat /\ made' = made + 1 /\ instances = <<>> /\ heard = <<>> /\ found = <<>>
        /\ announced \subseteq Nat
    BY DEF DiscoveryInv, DiscoveryTypes, DiscoveryStarts
  <1>2. UNCHANGED <<present, found, here, records, heard>>
    BY DEF DiscoveryStarts
  <1>3. discovery' \in Nat /\ announced' \subseteq Nat
    <2>1. discovery' \in {0, made + 1} /\ announced' \in {announced, announced \cup {made + 1}}
      BY DEF DiscoveryStarts
    <2>2. made + 1 \in Nat
      BY <1>1
    <2> QED  BY <1>1, <2>1, <2>2
  <1>4. instances' = <<>>
    <2>1. \A k : Without(<<>>, {k}) = <<>>
      BY NothingIsKnown, WithoutAll
    <2> QED  BY <1>1, <2>1 DEF DiscoveryStarts, OwnRecordIs
  <1>5. DOMAIN instances' = {} /\ DOMAIN heard' = {}
    BY <1>1, <1>2, <1>4, NothingIsKnown
  <1>6. DiscoveryTypes'
    BY <1>1, <1>2, <1>3, <1>4, <1>5 DEF DiscoveryInv, DiscoveryTypes
  <1> QED  BY <1>5, <1>6 DEF DiscoveryInv

LEMMA DiscoveriesStop ==
  ASSUME DiscoveryInv, StopsAndForgets PROVE DiscoveryInv'
  <1>1. DOMAIN instances \subseteq records
    BY DEF DiscoveryInv, DiscoveryTypes
  <1>2. instances' = <<>> /\ heard' = <<>> /\ found' = <<>> /\ discovery' = 0
    BY <1>1, WithoutAll DEF StopsAndForgets
  <1>3. announced' \subseteq Nat /\ UNCHANGED <<made, present, here>>
    BY DEF StopsAndForgets, DiscoveryInv, DiscoveryTypes
  <1>4. DOMAIN instances' = {} /\ DOMAIN heard' = {} /\ <<>> \in Seq(FoundEvents)
    BY <1>2, NothingIsKnown
  <1>5. DiscoveryTypes'
    BY <1>2, <1>3, <1>4 DEF DiscoveryInv, DiscoveryTypes
  <1> QED  BY <1>4, <1>5 DEF DiscoveryInv

(* The first event goes, and is one that may be found.                        *)
LEMMA FirstFound ==
  ASSUME DiscoveryInv, found # <<>>
  PROVE  /\ Head(found) \in FoundEvents /\ Tail(found) \in Seq(FoundEvents)
  BY HeadTailProperties DEF DiscoveryInv, DiscoveryTypes

LEMMA RecordsResolve ==
  ASSUME RecordsAreUsable, DiscoveryInv, discovery # 0, found # <<>>, DiscoveryEvent,
         Head(found).what = "resolved"
  PROVE  DiscoveryInv'
  <1>0. PICK id, r : id = Head(found).id /\ r = Head(found).record
    OBVIOUS
  <1> DEFINE candidate == Listing(r)
             elsewhere == remote_addresses(candidate.addresses, here)
  <1>1. r \in Announcements /\ Tail(found) \in Seq(FoundEvents)
    BY <1>0, FirstFound DEF FoundEvents
  <1>2. /\ found' = Tail(found)
        /\ UNCHANGED <<discovery, made, announced, present, here, ownRecord>>
        /\ IF ~Parses(r) THEN UNCHANGED <<instances, records, fullOnce>>
           ELSE IF elsewhere = {}
                THEN instances' = Without(instances, {id}) /\ records' = records \ {id} /\ UNCHANGED fullOnce
                ELSE InstanceSeen(id, [candidate EXCEPT !.addresses = elsewhere]) /\ records' = records \cup {id}
        /\ heard' = IF r.txt \in ZflowTxt THEN With(heard, id, [record |-> r, here |-> here]) ELSE heard
    BY <1>0 DEF DiscoveryEvent
  <1>3. /\ Parses(r) <=> r.txt \in ZflowTxt
        /\ candidate.addresses = usable(r.addresses)
        /\ r.txt \in ZflowTxt => candidate.compatible = (r.txt[1] = <<"v", "this">>)
    BY <1>1, AnnouncementsAreTold
  <1>4. DOMAIN candidate = {"addresses", "compatible", "name"}
    BY DEF Listing
  <1> DEFINE kept == [candidate EXCEPT !.addresses = elsewhere]
             note == [record |-> r, here |-> here]
  <1>5. kept.addresses = elsewhere /\ kept.compatible = candidate.compatible
    BY <1>4
  <1>6. note.record = r /\ note.here = here
    OBVIOUS
  <1>7. elsewhere = remote_addresses(usable(r.addresses), here)
    BY <1>3
  <1> HIDE DEF candidate, elsewhere, kept, note
  <1>8. CASE ~Parses(r)
    <2>1. UNCHANGED <<instances, records, fullOnce, heard, here, ownRecord, discovery, made, announced, present>>
      BY <1>2, <1>3, <1>8
    <2>2. DiscoveryTypes'
      BY <1>1, <1>2, <2>1 DEF DiscoveryInv, DiscoveryTypes
    <2>3. \A k : ListedAsHeard(k)' <=> ListedAsHeard(k)
      BY <2>1 DEF ListedAsHeard, Reachable
    <2> QED  BY <2>1, <2>2, <2>3 DEF DiscoveryInv
  <1>9. CASE Parses(r)
    <2>1. heard' = With(heard, id, note)
      BY <1>2, <1>3, <1>9 DEF note
    <2>2. /\ DOMAIN heard' = DOMAIN heard \cup {id} /\ heard'[id] = note
          /\ \A k \in DOMAIN heard \ {id} : heard'[k] = heard[k]
      BY <2>1 DEF With
    <2>3. Reachable(id)' = elsewhere
      BY <2>2, <1>6, <1>7 DEF Reachable
    <2>4. \A k \in DOMAIN heard \ {id} : Reachable(k)' = Reachable(k)
      BY <2>2 DEF Reachable
    <2>5. /\ DOMAIN instances' \ {id} = DOMAIN instances \ {id}
          /\ \A k \in DOMAIN instances \ {id} : instances'[k] = instances[k]
          /\ fullOnce => fullOnce'
          /\ DOMAIN instances' \subseteq records'
          /\ id \in DOMAIN instances' => id # ownRecord
          /\ IF id = ownRecord \/ elsewhere = {} THEN id \notin DOMAIN instances'
             ELSE \/ id \notin DOMAIN instances' /\ fullOnce'
                  \/ id \in DOMAIN instances' /\ instances'[id] = kept
      <3>1. CASE elsewhere = {}
        <4>1. instances' = Without(instances, {id}) /\ records' = records \ {id} /\ fullOnce' = fullOnce
          BY <1>2, <1>9, <3>1
        <4>2. /\ DOMAIN instances' = DOMAIN instances \ {id}
              /\ \A k \in DOMAIN instances \ {id} : instances'[k] = instances[k]
          BY <4>1 DEF Without
        <4>3. DOMAIN instances \subseteq records
          BY DEF DiscoveryInv, DiscoveryTypes
        <4> QED  BY <3>1, <4>1, <4>2, <4>3
      <3>2. CASE elsewhere # {}
        <4>1. InstanceSeen(id, kept) /\ records' = records \cup {id}
          BY <1>2, <1>9, <3>2 DEF kept
        <4>2. CASE id = ownRecord
          <5>1. UNCHANGED <<instances, fullOnce>>
            BY <4>1, <4>2 DEF InstanceSeen
          <5> QED  BY <4>1, <4>2, <5>1 DEF DiscoveryInv, DiscoveryTypes
        <4>3. CASE id # ownRecord /\ (id \in DOMAIN instances \/ Cardinality(DOMAIN instances) < MAX_INSTANCES)
          <5>1. instances' = With(instances, id, kept) /\ fullOnce' = fullOnce
            BY <4>1, <4>3 DEF InstanceSeen
          <5>2. /\ DOMAIN instances' = DOMAIN instances \cup {id} /\ instances'[id] = kept
                /\ \A k \in DOMAIN instances \ {id} : instances'[k] = instances[k]
            BY <5>1 DEF With
          <5>3. DOMAIN instances \subseteq records
            BY DEF DiscoveryInv, DiscoveryTypes
          <5> QED  BY <3>2, <4>1, <4>3, <5>1, <5>2, <5>3
        <4>4. CASE id # ownRecord /\ ~(id \in DOMAIN instances \/ Cardinality(DOMAIN instances) < MAX_INSTANCES)
          <5>1. fullOnce' = TRUE /\ instances' = instances
            BY <4>1, <4>4 DEF InstanceSeen
          <5> QED  BY <3>2, <4>1, <4>4, <5>1 DEF DiscoveryInv, DiscoveryTypes
        <4> QED  BY <4>2, <4>3, <4>4
      <3> QED  BY <3>1, <3>2
    <2>6. UNCHANGED <<discovery, made, announced, present, here, ownRecord>> /\ found' = Tail(found)
      BY <1>2
    <2>7. DiscoveryTypes'
      BY <1>1, <2>5, <2>6 DEF DiscoveryInv, DiscoveryTypes
    <2>8. \A k \in DOMAIN instances' : k # ownRecord' /\ k \in DOMAIN heard'
      BY <2>2, <2>5, <2>6 DEF DiscoveryInv
    <2>9. ListedAsHeard(id)'
      <3>1. r.txt \in ZflowTxt
        BY <1>3, <1>9
      <3>2. id \in DOMAIN instances' /\ instances'[id] = kept =>
              instances'[id].addresses = Reachable(id)'
              /\ instances'[id].compatible = (heard'[id].record.txt[1] = <<"v", "this">>)
        BY <1>3, <1>5, <1>6, <2>2, <2>3, <3>1
      <3> QED  BY <2>3, <2>5, <2>6, <3>2 DEF ListedAsHeard
    <2>10. \A k \in DOMAIN heard \ {id} : ListedAsHeard(k)'
      <3> TAKE k \in DOMAIN heard \ {id}
      <3>1. ListedAsHeard(k)
        BY DEF DiscoveryInv
      <3>2. /\ k \in DOMAIN instances' <=> k \in DOMAIN instances
            /\ k \in DOMAIN instances => instances'[k] = instances[k]
            /\ heard'[k] = heard[k] /\ Reachable(k)' = Reachable(k) /\ ownRecord' = ownRecord
            /\ fullOnce => fullOnce'
        BY <2>2, <2>4, <2>5, <2>6
      <3> QED  BY <3>1, <3>2 DEF ListedAsHeard
    <2>11. \A k \in DOMAIN heard' : ListedAsHeard(k)'
      BY <2>2, <2>9, <2>10
    <2> QED  BY <2>7, <2>8, <2>11 DEF DiscoveryInv
  <1> QED  BY <1>8, <1>9

LEMMA RecordsGo ==
  ASSUME DiscoveryInv, discovery # 0, found # <<>>, DiscoveryEvent, Head(found).what = "removed"
  PROVE  DiscoveryInv'
  <1> DEFINE id == Head(found).id
  <1>1. Tail(found) \in Seq(FoundEvents)
    BY FirstFound
  <1>2. /\ found' = Tail(found) /\ instances' = Without(instances, {id}) /\ records' = records \ {id}
        /\ heard' = Without(heard, {id})
        /\ UNCHANGED <<discovery, made, announced, present, here, ownRecord, fullOnce>>
    BY DEF DiscoveryEvent
  <1> HIDE DEF id
  <1>3. /\ DOMAIN instances' = DOMAIN instances \ {id} /\ DOMAIN heard' = DOMAIN heard \ {id}
        /\ \A k \in DOMAIN instances \ {id} : instances'[k] = instances[k]
        /\ \A k \in DOMAIN heard \ {id} : heard'[k] = heard[k]
    BY <1>2, WithoutOne
  <1>4. DiscoveryTypes'
    BY <1>1, <1>2, <1>3 DEF DiscoveryInv, DiscoveryTypes
  <1>5. \A k \in DOMAIN heard' : ListedAsHeard(k)'
    <2> TAKE k \in DOMAIN heard'
    <2>1. ListedAsHeard(k) /\ heard'[k] = heard[k] /\ k # id
      BY <1>3 DEF DiscoveryInv
    <2>2. Reachable(k)' = Reachable(k)
      BY <2>1 DEF Reachable
    <2>3. (k \in DOMAIN instances' <=> k \in DOMAIN instances) /\ (k \in DOMAIN instances => instances'[k] = instances[k])
      BY <1>3, <2>1
    <2> QED  BY <1>2, <2>1, <2>2, <2>3 DEF ListedAsHeard
  <1> QED  BY <1>2, <1>3, <1>4, <1>5 DEF DiscoveryInv

(* The network moves: the browser, if there is one, hears of something.       *)
LEMMA NetworkIsHeard ==
  ASSUME DiscoveryInv, NEW events \in Seq(FoundEvents), NetworkMoves(events),
         present' \in [Hosts -> Announcements \cup {NoRecord}], here' \in HereAddresses
  PROVE  DiscoveryInv'
  <1>1. UNCHANGED <<discovery, made, announced, instances, records, ownRecord, fullOnce, heard>>
        /\ found' = IF discovery # 0 THEN found \o events ELSE found
    BY DEF NetworkMoves
  <1>2. found \in Seq(FoundEvents) /\ found \o events \in Seq(FoundEvents)
    BY ConcatProperties DEF DiscoveryInv, DiscoveryTypes
  <1>3. DiscoveryTypes'
    BY <1>1, <1>2 DEF DiscoveryInv, DiscoveryTypes
  <1>4. \A k : ListedAsHeard(k)' <=> ListedAsHeard(k)
    BY <1>1 DEF ListedAsHeard, Reachable
  <1> QED  BY <1>1, <1>3, <1>4 DEF DiscoveryInv

LEMMA OneEvent ==
  ASSUME NEW id \in EventIds, NEW what \in {"resolved", "removed", "stopped"},
         NEW r \in Announcements \cup {NoRecord}, what = "resolved" => r \in Announcements
  PROVE  <<[what |-> what, id |-> id, record |-> r]>> \in Seq(FoundEvents)
  <1>1. [what |-> what, id |-> id, record |-> r] \in FoundEvents
    BY DEF FoundEvents
  <1> QED  BY <1>1

LEMMA DiscoveryStep == ASSUME RecordsAreUsable, DiscoveryInv, DiscoveryNext PROVE DiscoveryInv'
  <1>1. CASE DiscoveryStarts
    BY <1>1, DiscoveriesStart
  <1>2. CASE DiscoveryFails
    BY <1>2, DiscoveriesStop DEF DiscoveryFails
  <1>3. CASE DiscoveryEvent
    <2>1. discovery # 0 /\ found # <<>>
      BY <1>3 DEF DiscoveryEvent
    <2>2. \/ Head(found).what = "stopped" /\ StopsAndForgets
          \/ Head(found).what = "resolved" \/ Head(found).what = "removed"
      BY <1>3 DEF DiscoveryEvent
    <2> QED  BY <1>3, <2>1, <2>2, DiscoveriesStop, RecordsResolve, RecordsGo
  <1>4. /\ present \in [Hosts -> Announcements \cup {NoRecord}] /\ here \in HereAddresses
        /\ announced \subseteq Nat /\ None \in EventIds
        /\ \A h \in Hosts : Of(h) \in EventIds
        /\ \A n \in Nat : Own(n) \in EventIds
    <2>1. None = Own(0)
      BY DEF None, Own
    <2> QED  BY <2>1 DEF DiscoveryInv, DiscoveryTypes, EventIds
  <1>5. CASE HostAnnounces
    <2>1. PICK h \in Hosts, addresses \in HostAddresses, txt \in ZflowTxt \cup OtherTxt :
            LET record == [addresses |-> addresses, txt |-> txt]
            IN /\ NetworkMoves(<<ResolvedEvent(Of(h), record)>>)
               /\ present' = [present EXCEPT ![h] = record] /\ UNCHANGED here
      BY <1>5 DEF HostAnnounces
    <2> DEFINE record == [addresses |-> addresses, txt |-> txt]
    <2>2. record \in Announcements
      BY DEF Announcements, AddressLists
    <2>3. NetworkMoves(<<ResolvedEvent(Of(h), record)>>) /\ present' = [present EXCEPT ![h] = record] /\ here' = here
      BY <2>1
    <2> HIDE DEF record
    <2>4. <<ResolvedEvent(Of(h), record)>> \in Seq(FoundEvents)
      BY <1>4, <2>2, OneEvent DEF ResolvedEvent
    <2>5. present' \in [Hosts -> Announcements \cup {NoRecord}]
      BY <1>4, <2>2, <2>3
    <2> QED  BY <1>4, <2>3, <2>4, <2>5, NetworkIsHeard
  <1>6. CASE HostLeaves
    <2>1. PICK h \in Hosts :
            /\ present' = [present EXCEPT ![h] = NoRecord] /\ UNCHANGED here
            /\ NetworkMoves(<<[what |-> "removed", id |-> Of(h), record |-> NoRecord]>>)
      BY <1>6 DEF HostLeaves
    <2>2. <<[what |-> "removed", id |-> Of(h), record |-> NoRecord]>> \in Seq(FoundEvents)
      BY <1>4, OneEvent
    <2>3. present' \in [Hosts -> Announcements \cup {NoRecord}]
      BY <1>4, <2>1
    <2> QED  BY <1>4, <2>1, <2>2, <2>3, NetworkIsHeard
  <1>7. CASE BrowserResolves
    <2>1. UNCHANGED <<present, here>>
      BY <1>7 DEF BrowserResolves
    <2>2. CASE \E h \in Hosts : present[h] # NoRecord /\ NetworkMoves(<<ResolvedEvent(Of(h), present[h])>>)
      <3>1. PICK h \in Hosts : present[h] # NoRecord /\ NetworkMoves(<<ResolvedEvent(Of(h), present[h])>>)
        BY <2>2
      <3>2. present[h] \in Announcements
        BY <1>4, <3>1
      <3>3. <<ResolvedEvent(Of(h), present[h])>> \in Seq(FoundEvents)
        BY <1>4, <3>2, OneEvent DEF ResolvedEvent
      <3> QED  BY <1>4, <2>1, <3>1, <3>3, NetworkIsHeard
    <2>3. CASE \E n \in announced, mine \in HereAddresses :
                 NetworkMoves(<<ResolvedEvent(Own(n), [addresses |-> select_advertisable_addresses(mine),
                                                       txt |-> build_service_info])>>)
      <3>1. PICK n \in announced, mine \in HereAddresses :
                 NetworkMoves(<<ResolvedEvent(Own(n), [addresses |-> select_advertisable_addresses(mine),
                                                       txt |-> build_service_info])>>)
        BY <2>3
      <3> DEFINE record == [addresses |-> select_advertisable_addresses(mine), txt |-> build_service_info]
      <3>2. record \in Announcements
        BY DEF Announcements, AddressLists, RecordsAreUsable
      <3>3. NetworkMoves(<<ResolvedEvent(Own(n), record)>>)
        BY <3>1
      <3> HIDE DEF record
      <3>4. <<ResolvedEvent(Own(n), record)>> \in Seq(FoundEvents)
        BY <1>4, <3>2, OneEvent DEF ResolvedEvent
      <3> QED  BY <1>4, <2>1, <3>3, <3>4, NetworkIsHeard
    <2> QED  BY <1>7, <2>2, <2>3 DEF BrowserResolves
  <1>8. CASE BrowserStops
    <2>1. NetworkMoves(<<[what |-> "stopped", id |-> None, record |-> NoRecord]>>) /\ UNCHANGED <<present, here>>
      BY <1>8 DEF BrowserStops
    <2>2. <<[what |-> "stopped", id |-> None, record |-> NoRecord]>> \in Seq(FoundEvents)
      BY <1>4, OneEvent
    <2> QED  BY <1>4, <2>1, <2>2, NetworkIsHeard
  <1>9. CASE InterfacesChange
    <2>1. NetworkMoves(<<>>) /\ here' \in HereAddresses /\ UNCHANGED present
      BY <1>9 DEF InterfacesChange
    <2>2. <<>> \in Seq(FoundEvents)
      OBVIOUS
    <2> QED  BY <1>4, <2>1, <2>2, NetworkIsHeard
  <1> QED  BY <1>1, <1>2, <1>3, <1>5, <1>6, <1>7, <1>8, <1>9 DEF DiscoveryNext

LEMMA DiscoveryUntouched == DiscoveryInv /\ UNCHANGED discoveryVars => DiscoveryInv'
  <1> SUFFICES ASSUME DiscoveryInv, UNCHANGED discoveryVars PROVE DiscoveryInv'  OBVIOUS
  <1>1. \A k : ListedAsHeard(k)' <=> ListedAsHeard(k)
    BY DEF ListedAsHeard, Reachable, discoveryVars
  <1> QED  BY <1>1 DEF DiscoveryInv, DiscoveryTypes, discoveryVars

(* What the table lists, from it.                                             *)
LEMMA DiscoveryIsRight == DiscoveryInv => ListedIsThere
  BY DEF DiscoveryInv, DiscoveryTypes, ListedIsThere, ListedAsHeard

(* For any network and any order of settings, threads, news and sessions:     *)
(* what is listed is where it says, nothing is shown of a browser that was    *)
(* stopped, the Mac is advertised on the port it listens on, and every        *)
(* trusted computer has the one link that acts on news (discovery.rs,         *)
(* app/nearby.rs, daemon/links.rs). Of the records on the network it takes    *)
(* what RecordsAssumption says.                                              *)
THEOREM ComputersAreFoundAlways == MCSpec => []ComputersAreFound
  <1> DEFINE Inv == LinksHold /\ NearbyHolds /\ DiscoveryHolds
  <1>1. MCInit => Inv
    BY LinksStart, NearbyStarts, DiscoveryBegins DEF MCInit, LinksHold, NearbyHolds, DiscoveryHolds
  <1>2. Inv /\ [MCNext]_plumbingVars => Inv'
    <2> SUFFICES ASSUME Inv, [MCNext]_plumbingVars PROVE Inv'  OBVIOUS
    <2>1. LinksHold'
      BY OnePartRuns, LinksStep, LinksUntouched DEF LinksHold
    <2>2. NearbyHolds'
      BY OnePartRuns, NearbyStep, NearbyUntouched DEF NearbyHolds
    <2>3. DiscoveryHolds'
      BY OnePartRuns, DiscoveryStep, DiscoveryUntouched, RecordsAssumption DEF DiscoveryHolds
    <2> QED  BY <2>1, <2>2, <2>3
  <1>3. Inv => ComputersAreFound
    BY LinksAreRight, NearbyIsRight, DiscoveryIsRight
    DEF LinksHold, NearbyHolds, DiscoveryHolds, ComputersAreFound
  <1> QED  BY <1>1, <1>2, <1>3, PTL DEF MCSpec, plumbingVars

-----------------------------------------------------------------------------
(* The wire.  What two computers of these configurations agree on, and what   *)
(* either may send the other then.                                           *)
Between(c, d) == select_negotiation(Offer(c), Offer(d))
Needs(c, d) == {"Pointer"} \cup ({"Touch"} \cap Between(c, d).capabilities)

WireMessages ==
  [family : {"offer"}, value : {Offer(c) : c \in SessionConfigs}]
    \cup [family : {"selected"}, value : {Between(c, d) : c, d \in SessionConfigs}]
    \cup [family : {"control"}, value : {"Pointer", "Touch"}]
WireReads == [half : {"length"}] \cup [half : {"payload"}, message : WireMessages]

(* The messages a computer has taken, of which the first two are the offer    *)
(* and the selection, and how many of these two its peer has sent.            *)
Consumed(stage) == IF stage = "selected" THEN 1 ELSE IF stage = "ready" THEN 2 ELSE 0
Sent(stage) == IF stage = "offered" THEN 1 ELSE IF stage \in {"selected", "ready"} THEN 2 ELSE 0

(* The message of number a from a computer of configuration d to one of c.    *)
Expected(c, d, a, m) ==
  /\ a = 1 => m = [family |-> "offer", value |-> Offer(d)]
  /\ a = 2 => m = [family |-> "selected", value |-> Between(c, d)]
  /\ a > 2 => m.family = "control" /\ m.value \in Needs(c, d)

(* What waits on a stream: whole frames, the first one perhaps without its    *)
(* length, whose messages go on from those taken and end with those sent.     *)
Ahead(read) == IF read THEN 1 ELSE 0
Fits(s, read, stage, from, c, d) ==
  \E n \in 0 .. (Len(s) + 1) :
    /\ Len(s) + Ahead(read) = 2 * n
    /\ from = "ready" => Consumed(stage) + n >= 2
    /\ from # "ready" => Consumed(stage) + n = Sent(from)
    /\ \A k \in 1 .. n :
         /\ s[2 * k - Ahead(read)].half = "payload"
         /\ Expected(c, d, Consumed(stage) + k, s[2 * k - Ahead(read)].message)
         /\ 2 * k - Ahead(read) > 1 => s[2 * k - 1 - Ahead(read)].half = "length"

Stages == {"none", "start", "offered", "selected", "ready", "closed"}
Schemas == {<<>>} \cup {<<Between(c, d)>> : c, d \in SessionConfigs}
EndStates == [config : SessionConfigs, stage : Stages, schema : Schemas]

WireTypes ==
  /\ conn \in [phase : {"none", "handshake", "open", "closed"}, code : {"none", "not_trusted", "app", "critical"}]
  /\ ends \in [Ends -> EndStates]
  /\ stream \in [Ends -> Seq(WireReads)] /\ reader \in [Ends -> BOOLEAN] /\ sends \in Nat
  /\ slots \in [Ends -> [{"motion", "probe"} -> {<<>>, <<"Pointer">>, <<"Touch">>}]]
  /\ pump \in [Ends -> [at : {"look", "sending", "empty", "waiting", "ended"}, permit : BOOLEAN]]
  /\ air \in [Ends -> SUBSET [class : {"motion", "probe"}, need : {"Pointer", "Touch"}]]

(* The pump: what is there when it finds nothing leaves it a permit.          *)
PumpLooks(p, waiting) == p.at = "waiting" \/ (p.at = "empty" /\ ~p.permit) => waiting = NoPending

(* One end of an open connection, and the other one: what they selected, what *)
(* waits to be read, and what waits to be sent or is on its way.              *)
StageFits(e, f) ==
  /\ ends[e].stage \in {"start", "offered", "selected", "ready"}
  /\ ends[e].stage \in {"selected", "ready"} => ends[e].schema = <<Between(ends[e].config, ends[f].config)>>
StreamFits(e, f) ==
  Fits(stream[e], reader[e], ends[e].stage, ends[f].stage, ends[e].config, ends[f].config)
DatagramsFit(e, f) ==
  /\ \A class \in {"motion", "probe"} :
       slots[e][class] # <<>> => slots[e][class][1] \in Needs(ends[e].config, ends[f].config)
  /\ \A g \in air[e] : g.need \in Needs(ends[e].config, ends[f].config)
EndFits(e, f) == StageFits(e, f) /\ StreamFits(e, f) /\ DatagramsFit(e, f)

WireInv ==
  /\ WireTypes
  /\ conn.phase = "open" => \A e \in Ends : EndFits(e, Peer(e))
  /\ conn.phase # "open" =>
       \A e \in Ends : stream[e] = <<>> /\ ~reader[e] /\ slots[e] = NoPending /\ air[e] = {}
                       /\ pump[e].at \in {"look", "ended"}
  /\ conn.phase = "closed" => \A e \in Ends : pump[e].at = "ended"
  /\ \A e \in Ends : PumpLooks(pump[e], slots[e])

WireHolds == part = "Wire" => WireInv

LEMMA TwoEnds ==
  /\ Ends = {"dialer", "listener"} /\ Peer("dialer") = "listener" /\ Peer("listener") = "dialer"
  BY DEF Ends, Peer

(* Both computers select the same session, and it is within both offers.      *)
LEMMA SelectionsAgree == ASSUME NEW c, NEW d, ValidConfig(c), ValidConfig(d) PROVE Between(c, d) = Between(d, c)
  <1>1. /\ c.lease \in Int /\ d.lease \in Int /\ c.checkpoint \in Int /\ d.checkpoint \in Int
    BY TransportAssumption DEF ValidConfig
  <1>2. \A i, j \in Int : Least(i, j) = Least(j, i)
    BY DEF Least
  <1>3. Offer(c).contacts \in Int /\ Offer(d).contacts \in Int
    BY TransportAssumption DEF Offer
  <1>4. Offer(c).lease = c.lease /\ Offer(d).lease = d.lease
        /\ Offer(c).checkpoint = c.checkpoint /\ Offer(d).checkpoint = d.checkpoint
    BY DEF Offer
  <1>5. Offer(c).capabilities \cap Offer(d).capabilities = Offer(d).capabilities \cap Offer(c).capabilities
    OBVIOUS
  <1> QED  BY <1>1, <1>2, <1>3, <1>4, <1>5 DEF Between, select_negotiation

LEMMA SelectionIsValid ==
  ASSUME NEW c, NEW d, ValidConfig(c), ValidConfig(d)
  PROVE  validate_for(Between(c, d), Offer(c)) /\ validate_for(Between(c, d), Offer(d))
  <1> DEFINE basic == {"Keyboard", "ConsumerControls", "Pointer", "Scroll"}
             touch(x) == IF x.touch THEN {"Touch"} ELSE {}
             s == Between(c, d)
  <1>1. \A x : /\ Offer(x).capabilities = basic \cup touch(x) /\ Offer(x).required = {"Keyboard", "Pointer", "Scroll"}
               /\ Offer(x).contacts = (IF x.touch THEN MAX_CONTACTS ELSE 0)
               /\ Offer(x).lease = x.lease /\ Offer(x).checkpoint = x.checkpoint
    BY DEF Offer
  <1>2. /\ s.capabilities = Offer(c).capabilities \cap Offer(d).capabilities
        /\ s.contacts = (IF "Touch" \in s.capabilities THEN Least(Offer(c).contacts, Offer(d).contacts) ELSE 0)
        /\ s.lease = Least(c.lease, d.lease) /\ s.checkpoint = Least(c.checkpoint, d.checkpoint)
    BY <1>1 DEF Between, select_negotiation
  <1>3. /\ MAX_CONTACTS \in Nat \ {0} /\ MAX_RECEIVER_LEASE_MS \in Nat /\ MAX_CHECKPOINT_BOUND_MS \in Nat
        /\ c.lease \in 1 .. MAX_RECEIVER_LEASE_MS /\ d.lease \in 1 .. MAX_RECEIVER_LEASE_MS
        /\ c.checkpoint \in 1 .. MAX_CHECKPOINT_BOUND_MS /\ d.checkpoint \in 1 .. MAX_CHECKPOINT_BOUND_MS
    BY TransportAssumption DEF ValidConfig
  <1>4. "Touch" \in s.capabilities <=> c.touch /\ d.touch
    BY <1>1, <1>2
  <1>5. s.contacts = IF c.touch /\ d.touch THEN MAX_CONTACTS ELSE 0
    BY <1>1, <1>2, <1>3, <1>4 DEF Least
  <1>6. s.capabilities \subseteq Offer(c).capabilities /\ s.capabilities \subseteq Offer(d).capabilities
    BY <1>2
  <1>7. Offer(c).required \subseteq s.capabilities /\ Offer(d).required \subseteq s.capabilities
    BY <1>1, <1>2
  <1>8. s.contacts <= Offer(c).contacts /\ s.contacts <= Offer(d).contacts
        /\ (("Touch" \in s.capabilities) = (s.contacts # 0))
    BY <1>1, <1>3, <1>4, <1>5
  <1>9. /\ s.lease \in 1 .. Least(MAX_RECEIVER_LEASE_MS, Offer(c).lease)
        /\ s.lease \in 1 .. Least(MAX_RECEIVER_LEASE_MS, Offer(d).lease)
        /\ s.checkpoint \in 1 .. Least(MAX_CHECKPOINT_BOUND_MS, Offer(c).checkpoint)
        /\ s.checkpoint \in 1 .. Least(MAX_CHECKPOINT_BOUND_MS, Offer(d).checkpoint)
    BY <1>1, <1>2, <1>3 DEF Least
  <1> HIDE DEF s
  <1>10. validate_for(s, Offer(c)) /\ validate_for(s, Offer(d))
    BY <1>6, <1>7, <1>8, <1>9 DEF validate_for
  <1> QED  BY <1>10 DEF s

LEMMA NeedsAgree ==
  ASSUME NEW c \in SessionConfigs, NEW d \in SessionConfigs
  PROVE  /\ Between(c, d) = Between(d, c) /\ Needs(c, d) = Needs(d, c) /\ Needs(c, d) \subseteq Between(c, d).capabilities
         /\ Needs(c, d) \subseteq {"Pointer", "Touch"}
         /\ validate_for(Between(c, d), Offer(c)) /\ validate_for(Between(c, d), Offer(d))
  <1>1. ValidConfig(c) /\ ValidConfig(d)
    BY TransportAssumption
  <1>2. "Pointer" \in Between(c, d).capabilities
    BY DEF Between, select_negotiation, Offer
  <1> QED  BY <1>1, <1>2, SelectionsAgree, SelectionIsValid DEF Needs

(* The stream: nothing yet; a length is read; a payload is; a frame is        *)
(* written; and computers go on without one.                                  *)
LEMMA NothingFits == ASSUME NEW c, NEW d PROVE Fits(<<>>, FALSE, "start", "start", c, d)
  <1>1. Len(<<>>) = 0
    OBVIOUS
  <1> QED  BY <1>1 DEF Fits, Ahead, Consumed, Sent

LEMMA LengthIsRead ==
  ASSUME NEW s \in Seq(WireReads), NEW stage, NEW from, NEW c, NEW d, s # <<>>,
         Fits(s, FALSE, stage, from, c, d)
  PROVE  /\ Head(s).half = "length"
         /\ Fits(Tail(s), TRUE, stage, from, c, d)
  <1>1. /\ Len(s) \in Nat \ {0} /\ Len(Tail(s)) = Len(s) - 1
        /\ \A i \in 1 .. (Len(s) - 1) : Tail(s)[i] = s[i + 1]
        /\ Head(s) = s[1]
    OBVIOUS
  <1>2. Consumed(stage) \in Nat /\ Sent(from) \in Nat
    BY DEF Consumed, Sent
  <1>3. PICK n \in 0 .. (Len(s) + 1) :
          /\ Len(s) + 0 = 2 * n
          /\ from = "ready" => Consumed(stage) + n >= 2
          /\ from # "ready" => Consumed(stage) + n = Sent(from)
          /\ \A k \in 1 .. n :
               /\ s[2 * k - 0].half = "payload"
               /\ Expected(c, d, Consumed(stage) + k, s[2 * k - 0].message)
               /\ 2 * k - 0 > 1 => s[2 * k - 1 - 0].half = "length"
    BY DEF Fits, Ahead
  <1>10. \A k \in 1 .. n : 2 * k - 0 = 2 * k /\ 2 * k - 1 - 0 = 2 * k - 1
    OBVIOUS
  <1>11. \A k \in 1 .. n :
               /\ s[2 * k].half = "payload"
               /\ Expected(c, d, Consumed(stage) + k, s[2 * k].message)
               /\ 2 * k > 1 => s[2 * k - 1].half = "length"
    BY <1>3, <1>10
  <1>4. n \in Nat /\ n >= 1 /\ Len(s) = 2 * n
    <2>1. ASSUME NEW h \in Nat \ {0}, NEW i \in 0 .. (h + 1), h + 0 = 2 * i
          PROVE  i \in Nat /\ i >= 1 /\ h = 2 * i
      BY <2>1
    <2> QED  BY <1>1, <1>3, <2>1
  <1>5. Head(s).half = "length"
    BY <1>1, <1>4, <1>11
  <1> DEFINE t == Tail(s)
  <1>6. \A k \in 1 .. n : t[2 * k - 1] = s[2 * k] /\ (2 * k - 1 > 1 => t[2 * k - 2] = s[2 * k - 1])
    BY <1>1, <1>3, <1>4
  <1>7. n \in 0 .. (Len(t) + 1) /\ Len(t) + 1 = 2 * n
    BY <1>1, <1>3, <1>4
  <1> HIDE DEF t
  <1>8. \A k \in 1 .. n :
               /\ t[2 * k - 1].half = "payload"
               /\ Expected(c, d, Consumed(stage) + k, t[2 * k - 1].message)
               /\ 2 * k - 1 > 1 => t[2 * k - 1 - 1].half = "length"
    <2>1. \A k \in 1 .. n : 2 * k - 1 - 1 = 2 * k - 2 /\ 2 * k > 1
      BY <1>4
    <2> QED  BY <1>6, <1>11, <2>1
  <1>9. Fits(t, TRUE, stage, from, c, d)
    BY <1>3, <1>7, <1>8 DEF Fits, Ahead
  <1> QED  BY <1>5, <1>9 DEF t

LEMMA PayloadIsRead ==
  ASSUME NEW s \in Seq(WireReads), NEW stage, NEW from, NEW c, NEW d,
         Fits(s, TRUE, stage, from, c, d)
  PROVE  /\ s # <<>> /\ Head(s).half = "payload" /\ Expected(c, d, Consumed(stage) + 1, Head(s).message)
         /\ \A later : Consumed(later) = Consumed(stage) + 1 \/ (stage = "ready" /\ later = "ready") =>
              Fits(Tail(s), FALSE, later, from, c, d)
  <1>1. Consumed(stage) \in 0 .. 2 /\ Sent(from) \in 0 .. 2 /\ Len(s) \in Nat
    BY DEF Consumed, Sent
  <1>2. PICK n \in 0 .. (Len(s) + 1) :
          /\ Len(s) + 1 = 2 * n
          /\ from = "ready" => Consumed(stage) + n >= 2
          /\ from # "ready" => Consumed(stage) + n = Sent(from)
          /\ \A k \in 1 .. n :
               /\ s[2 * k - 1].half = "payload"
               /\ Expected(c, d, Consumed(stage) + k, s[2 * k - 1].message)
               /\ 2 * k - 1 > 1 => s[2 * k - 1 - 1].half = "length"
    BY DEF Fits, Ahead
  <1>3. n \in Nat /\ n >= 1 /\ s # <<>>
    BY <1>1, <1>2
  <1>4. /\ Len(Tail(s)) = Len(s) - 1 /\ Head(s) = s[1]
        /\ \A i \in 1 .. (Len(s) - 1) : Tail(s)[i] = s[i + 1]
    BY <1>3
  <1>5. Head(s).half = "payload" /\ Expected(c, d, Consumed(stage) + 1, Head(s).message)
    BY <1>2, <1>3, <1>4
  <1>6. ASSUME NEW later, Consumed(later) = Consumed(stage) + 1 \/ (stage = "ready" /\ later = "ready")
        PROVE  Fits(Tail(s), FALSE, later, from, c, d)
    <2> DEFINE t == Tail(s)
               m == n - 1
    <2>1. m \in 0 .. (Len(t) + 1) /\ Len(t) + 0 = 2 * m
      <3>1. Len(t) = Len(s) - 1
        BY <1>4
      <3>2. ASSUME NEW h \in Nat, h = Len(s), NEW l, l = h - 1
            PROVE  n - 1 \in 0 .. (l + 1) /\ l + 0 = 2 * (n - 1)
        BY <1>2, <1>3, <3>2
      <3> HIDE DEF t
      <3> QED  BY <1>1, <3>1, <3>2
    <2>2. \A k \in 1 .. m : /\ k + 1 \in 1 .. n /\ t[2 * k] = s[2 * (k + 1) - 1]
                            /\ t[2 * k - 1] = s[2 * (k + 1) - 1 - 1] /\ 2 * (k + 1) - 1 > 1
      BY <1>1, <1>2, <1>3, <1>4
    <2>3. stage = "ready" /\ later = "ready" => Consumed(stage) = 2 /\ Consumed(later) = 2 /\ from = "ready"
      <3>1. stage = "ready" => Consumed(stage) = 2
        BY DEF Consumed
      <3>2. stage = "ready" /\ from # "ready" => FALSE
        BY <1>1, <1>2, <1>3, <3>1
      <3> QED  BY <3>1, <3>2
    <2>4. (from = "ready" => Consumed(later) + m >= 2) /\ (from # "ready" => Consumed(later) + m = Sent(from))
      BY <1>1, <1>2, <1>3, <1>6, <2>3
    <2> HIDE DEF t, m
    <2>5. \A k \in 1 .. m :
               /\ t[2 * k - 0].half = "payload"
               /\ Expected(c, d, Consumed(later) + k, t[2 * k - 0].message)
               /\ 2 * k - 0 > 1 => t[2 * k - 1 - 0].half = "length"
      <3> TAKE k \in 1 .. m
      <3>1. k \in Nat /\ k >= 1 /\ 2 * k - 0 = 2 * k /\ 2 * k - 1 - 0 = 2 * k - 1
        BY <2>1
      <3>2. k + 1 \in 1 .. n /\ t[2 * k] = s[2 * (k + 1) - 1] /\ t[2 * k - 1] = s[2 * (k + 1) - 1 - 1] /\ 2 * (k + 1) - 1 > 1
        BY <2>2
      <3>3. /\ s[2 * (k + 1) - 1].half = "payload"
            /\ Expected(c, d, Consumed(stage) + (k + 1), s[2 * (k + 1) - 1].message)
            /\ s[2 * (k + 1) - 1 - 1].half = "length"
        BY <1>2, <3>2
      <3>4. Expected(c, d, Consumed(later) + k, t[2 * k].message)
        <4>1. CASE Consumed(later) = Consumed(stage) + 1
          <5>1. Consumed(later) + k = Consumed(stage) + (k + 1)
            BY <1>1, <3>1, <4>1
          <5> QED  BY <3>2, <3>3, <5>1
        <4>2. CASE stage = "ready" /\ later = "ready"
          <5>1. Consumed(later) + k > 2 /\ Consumed(stage) + (k + 1) > 2 /\ Consumed(later) + k \in Nat
            BY <2>3, <3>1, <4>2
          <5> QED  BY <3>2, <3>3, <5>1 DEF Expected
        <4> QED  BY <1>6, <4>1, <4>2
      <3> QED  BY <3>1, <3>2, <3>3, <3>4
    <2>6. Fits(t, FALSE, later, from, c, d)
      BY <2>1, <2>4, <2>5 DEF Fits, Ahead
    <2> QED  BY <2>6 DEF t
  <1> QED  BY <1>3, <1>5, <1>6

LEMMA FrameIsWritten ==
  ASSUME NEW s \in Seq(WireReads), NEW read \in BOOLEAN, NEW stage, NEW from, NEW to, NEW c, NEW d,
         NEW m \in WireMessages, Fits(s, read, stage, from, c, d),
         \/ from # "ready" /\ to # "ready" /\ Sent(to) = Sent(from) + 1 /\ Expected(c, d, Sent(to), m)
         \/ from = "ready" /\ to = "ready" /\ m.family = "control" /\ m.value \in Needs(c, d)
  PROVE  s \o Frame(m) \in Seq(WireReads) /\ Fits(s \o Frame(m), read, stage, to, c, d)
  <1> DEFINE f == Frame(m)
             t == s \o f
             x == Ahead(read)
  <1>1. f = <<[half |-> "length"], [half |-> "payload", message |-> m]>>
    BY DEF Frame
  <1>2. f \in Seq(WireReads) /\ Len(f) = 2 /\ f[1].half = "length" /\ f[2].half = "payload" /\ f[2].message = m
    <2>1. [half |-> "length"] \in WireReads /\ [half |-> "payload", message |-> m] \in WireReads
      BY DEF WireReads
    <2> QED  BY <1>1, <2>1
  <1> HIDE DEF f
  <1>3. /\ t \in Seq(WireReads) /\ Len(t) = Len(s) + 2 /\ Len(s) \in Nat
        /\ \A i \in 1 .. Len(s) : t[i] = s[i]
        /\ t[Len(s) + 1] = f[1] /\ t[Len(s) + 2] = f[2]
    <2>1. t \in Seq(WireReads)
      BY <1>2, ConcatProperties
    <2>2. Len(t) = Len(s) + 2 /\ Len(s) \in Nat
      <3>1. Len(t) = Len(s) + Len(f)
        BY <1>2, ConcatProperties
      <3>2. Len(s) \in Nat
        BY LenProperties
      <3> HIDE DEF t
      <3> QED  BY <1>2, <3>1, <3>2
    <2>3. \A i \in 1 .. Len(s) : t[i] = s[i]
      BY <1>2
    <2>4. t[Len(s) + 1] = f[1] /\ t[Len(s) + 2] = f[2]
      <3>1. \A i \in (Len(s) + 1) .. (Len(s) + Len(f)) : t[i] = f[i - Len(s)]
        BY <1>2, ConcatProperties
      <3>2. ASSUME NEW h \in Nat, h = Len(s)
            PROVE  /\ h + 1 \in (h + 1) .. (h + 2) /\ h + 2 \in (h + 1) .. (h + 2)
                   /\ (h + 1) - h = 1 /\ (h + 2) - h = 2
        OBVIOUS
      <3> HIDE DEF t
      <3> QED  BY <1>2, <2>2, <3>1, <3>2
    <2> QED  BY <2>1, <2>2, <2>3, <2>4
  <1>4. Consumed(stage) \in 0 .. 2 /\ Sent(from) \in 0 .. 2 /\ Sent(to) \in 0 .. 2 /\ x \in 0 .. 1
    BY DEF Consumed, Sent, Ahead
  <1>5. PICK n \in 0 .. (Len(s) + 1) :
          /\ Len(s) + x = 2 * n
          /\ from = "ready" => Consumed(stage) + n >= 2
          /\ from # "ready" => Consumed(stage) + n = Sent(from)
          /\ \A k \in 1 .. n :
               /\ s[2 * k - x].half = "payload"
               /\ Expected(c, d, Consumed(stage) + k, s[2 * k - x].message)
               /\ 2 * k - x > 1 => s[2 * k - 1 - x].half = "length"
    BY DEF Fits
  <1> HIDE DEF t, x
  <1>6. n + 1 \in 0 .. (Len(t) + 1) /\ Len(t) + x = 2 * (n + 1) /\ n \in Nat
    BY <1>3, <1>4, <1>5
  <1>7. /\ to = "ready" => Consumed(stage) + (n + 1) >= 2
        /\ to # "ready" => Consumed(stage) + (n + 1) = Sent(to)
    BY <1>4, <1>5, <1>6
  <1>8. \A k \in 1 .. (n + 1) :
               /\ t[2 * k - x].half = "payload"
               /\ Expected(c, d, Consumed(stage) + k, t[2 * k - x].message)
               /\ 2 * k - x > 1 => t[2 * k - 1 - x].half = "length"
    <2> TAKE k \in 1 .. (n + 1)
    <2>1. CASE k \in 1 .. n
      <3>1. 2 * k - x \in 1 .. Len(s) /\ (2 * k - x > 1 => 2 * k - 1 - x \in 1 .. Len(s))
        <4>1. ASSUME NEW h \in Nat, h = Len(s)
              PROVE  2 * k - x \in 1 .. h /\ (2 * k - x > 1 => 2 * k - 1 - x \in 1 .. h)
          <5>1. h + x = 2 * n /\ n \in Nat /\ k \in Nat /\ k >= 1 /\ k <= n /\ (x = 0 \/ x = 1)
            BY <1>4, <1>5, <2>1, <4>1
          <5> QED  BY <5>1
        <4> QED  BY <1>3, <4>1
      <3> QED  BY <1>3, <1>5, <2>1, <3>1
    <2>2. CASE k = n + 1
      <3>1. 2 * k - x = Len(s) + 2 /\ 2 * k - 1 - x = Len(s) + 1
        BY <1>3, <1>4, <1>5, <1>6, <2>2
      <3>2. Expected(c, d, Consumed(stage) + (n + 1), m)
        <4>1. CASE from # "ready"
          <5>1. Consumed(stage) + (n + 1) = Sent(to)
            BY <1>4, <1>5, <1>6, <4>1
          <5> QED  BY <4>1, <5>1
        <4>2. CASE from = "ready"
          <5>1. Consumed(stage) + (n + 1) > 2 /\ Consumed(stage) + (n + 1) \in Nat
            BY <1>4, <1>5, <1>6, <4>2
          <5> QED  BY <4>2, <5>1 DEF Expected
        <4> QED  BY <4>1, <4>2
      <3> QED  BY <1>2, <1>3, <2>2, <3>1, <3>2
    <2> QED  BY <1>6, <2>1, <2>2
  <1>9. Fits(t, read, stage, to, c, d)
    BY <1>6, <1>7, <1>8 DEF Fits, x
  <1> QED  BY <1>3, <1>9 DEF t, f

(* A computer that offers has not taken anything, and one that is ready has   *)
(* sent both its messages before.                                            *)
LEMMA StagesFit ==
  ASSUME NEW s, NEW read, NEW c, NEW d
  PROVE  /\ \A from : Fits(s, read, "start", from, c, d) => Fits(s, read, "offered", from, c, d)
         /\ \A stage : Fits(s, read, stage, "selected", c, d) => Fits(s, read, stage, "ready", c, d)
  <1>1. Consumed("start") = Consumed("offered") /\ Sent("selected") = 2
    BY DEF Consumed, Sent
  <1>2. \A from : Fits(s, read, "start", from, c, d) => Fits(s, read, "offered", from, c, d)
    BY <1>1 DEF Fits
  <1>3. ASSUME NEW stage, Fits(s, read, stage, "selected", c, d) PROVE Fits(s, read, stage, "ready", c, d)
    <2>1. PICK n \in 0 .. (Len(s) + 1) :
            /\ Len(s) + Ahead(read) = 2 * n
            /\ Consumed(stage) + n = Sent("selected")
            /\ \A k \in 1 .. n :
                 /\ s[2 * k - Ahead(read)].half = "payload"
                 /\ Expected(c, d, Consumed(stage) + k, s[2 * k - Ahead(read)].message)
                 /\ 2 * k - Ahead(read) > 1 => s[2 * k - 1 - Ahead(read)].half = "length"
      BY <1>3 DEF Fits
    <2>2. Consumed(stage) + n >= 2
      BY <1>1, <2>1
    <2> QED  BY <2>1, <2>2 DEF Fits
  <1> QED  BY <1>2, <1>3

LEMMA TheOtherEnd == ASSUME NEW e \in Ends PROVE Peer(e) \in Ends /\ Peer(e) # e /\ Peer(Peer(e)) = e /\ Ends = {e, Peer(e)}
  BY TwoEnds

LEMMA StageIsSet ==
  ASSUME NEW state \in EndStates, NEW stage \in Stages
  PROVE  LET later == [state EXCEPT !.stage = stage] IN
         later \in EndStates /\ later.config = state.config /\ later.stage = stage /\ later.schema = state.schema
  BY DEF EndStates

LEMMA WireStarts == TransportInit => WireInv
  <1> SUFFICES ASSUME TransportInit PROVE WireInv  OBVIOUS
  <1>1. PICK config \in [Ends -> SessionConfigs] :
          ends = [e \in Ends |-> [config |-> config[e], stage |-> "none", schema |-> <<>>]]
    <2>1. ends \in [Ends -> {[config |-> c, stage |-> "none", schema |-> <<>>] : c \in SessionConfigs}]
      BY DEF TransportInit
    <2>2. \A e \in Ends : \E c \in SessionConfigs : ends[e] = [config |-> c, stage |-> "none", schema |-> <<>>]
      BY <2>1
    <2> DEFINE config == [e \in Ends |-> ends[e].config]
    <2>5. \A e \in Ends : ends[e].config \in SessionConfigs
      <3> TAKE e \in Ends
      <3>1. PICK c \in SessionConfigs : ends[e] = [config |-> c, stage |-> "none", schema |-> <<>>]
        BY <2>2
      <3> QED  BY <3>1
    <2>3. config \in [Ends -> SessionConfigs]
      BY <2>5
    <2>4. ends = [e \in Ends |-> [config |-> config[e], stage |-> "none", schema |-> <<>>]]
      BY <2>1, <2>2
    <2> QED  BY <2>3, <2>4
  <1>2. <<>> \in Seq(WireReads)
    OBVIOUS
  <1>4. \A c \in SessionConfigs : [config |-> c, stage |-> "none", schema |-> <<>>] \in EndStates
    BY DEF EndStates, Stages, Schemas
  <1>3. WireTypes
    BY <1>1, <1>2, <1>4 DEF WireTypes, TransportInit, NoPending, NewPump
  <1> QED  BY <1>3 DEF WireInv, TransportInit, NoPending, NewPump, PumpLooks

(* A connection that closes takes with it what was on its way.                *)
LEMMA ClosingIsFine ==
  ASSUME WireInv, NEW code \in {"not_trusted", "app", "critical"}, Close(code)
  PROVE  WireInv'
  <1>1. /\ conn' = [phase |-> "closed", code |-> code]
        /\ ends' = [e \in Ends |-> [ends[e] EXCEPT !.stage = "closed"]]
        /\ stream' = [e \in Ends |-> <<>>] /\ reader' = [e \in Ends |-> FALSE]
        /\ slots' = [e \in Ends |-> NoPending]
        /\ pump' = [e \in Ends |-> [NewPump EXCEPT !.at = "ended"]]
        /\ air' = [e \in Ends |-> {}] /\ sends' = sends
    BY DEF Close
  <1>10. /\ [NewPump EXCEPT !.at = "ended"] \in [at : {"look", "sending", "empty", "waiting", "ended"}, permit : BOOLEAN]
         /\ [NewPump EXCEPT !.at = "ended"].at = "ended"
    BY DEF NewPump
  <1>2. <<>> \in Seq(WireReads)
    OBVIOUS
  <1>3. conn' \in [phase : {"none", "handshake", "open", "closed"}, code : {"none", "not_trusted", "app", "critical"}]
    BY <1>1
  <1>4. ends' \in [Ends -> EndStates]
    <2>1. "closed" \in Stages /\ \A e \in Ends : ends[e] \in EndStates
      BY DEF WireInv, WireTypes, Stages
    <2>2. \A e \in Ends : [ends[e] EXCEPT !.stage = "closed"] \in EndStates
      BY <2>1, StageIsSet
    <2> QED  BY <1>1, <2>2
  <1>5. /\ stream' \in [Ends -> Seq(WireReads)] /\ reader' \in [Ends -> BOOLEAN] /\ sends' \in Nat
        /\ slots' \in [Ends -> [{"motion", "probe"} -> {<<>>, <<"Pointer">>, <<"Touch">>}]]
    BY <1>1, <1>2 DEF WireInv, WireTypes, NoPending
  <1>6. /\ pump' \in [Ends -> [at : {"look", "sending", "empty", "waiting", "ended"}, permit : BOOLEAN]]
        /\ air' \in [Ends -> SUBSET [class : {"motion", "probe"}, need : {"Pointer", "Touch"}]]
    BY <1>1, <1>10
  <1>7. WireTypes'
    BY <1>3, <1>4, <1>5, <1>6 DEF WireTypes
  <1>8. \A e \in Ends : /\ stream'[e] = <<>> /\ ~reader'[e] /\ slots'[e] = NoPending /\ air'[e] = {}
                        /\ pump'[e].at = "ended"
    BY <1>1, <1>10
  <1>9. conn'.phase = "closed"
    BY <1>1
  <1> QED  BY <1>7, <1>8, <1>9 DEF WireInv, PumpLooks

(* Before it is open: the handshake, and the allowlist.                       *)
LEMMA HandshakeIsFine == ASSUME WireInv, connect_input \/ set_server_config PROVE WireInv'
  <1>1. /\ conn.phase \in {"none", "handshake"} /\ conn'.phase \in {"none", "handshake"} /\ conn'.code = conn.code
        /\ conn' \in [phase : {"none", "handshake", "open", "closed"}, code : {"none", "not_trusted", "app", "critical"}]
        /\ UNCHANGED <<ends, links_>>
    BY DEF connect_input, set_server_config, WireInv, WireTypes
  <1>2. WireTypes'
    BY <1>1 DEF WireInv, WireTypes, links_
  <1> QED  BY <1>1, <1>2 DEF WireInv, links_

LEMMA AcceptIsFine == ASSUME WireInv, accept PROVE WireInv'
  <1>1. CASE ~allowed /\ Close("not_trusted")
    BY <1>1, ClosingIsFine
  <1>2. CASE /\ conn' = [conn EXCEPT !.phase = "open"]
             /\ ends' = [e \in Ends |-> [ends[e] EXCEPT !.stage = "start"]] /\ UNCHANGED links_
    <2>1. conn.phase = "handshake" /\ conn'.phase = "open"
          /\ conn' \in [phase : {"none", "handshake", "open", "closed"}, code : {"none", "not_trusted", "app", "critical"}]
      BY <1>2 DEF accept, WireInv, WireTypes
    <2>2. ends' \in [Ends -> EndStates]
      <3>1. "start" \in Stages /\ \A e \in Ends : ends[e] \in EndStates
        BY DEF WireInv, WireTypes, Stages
      <3>2. \A e \in Ends : [ends[e] EXCEPT !.stage = "start"] \in EndStates
        BY <3>1, StageIsSet
      <3> QED  BY <1>2, <3>2
    <2>3. WireTypes'
      BY <1>2, <2>1, <2>2 DEF WireInv, WireTypes, links_
    <2>4. \A e \in Ends : /\ stream'[e] = <<>> /\ reader'[e] = FALSE /\ slots'[e] = NoPending /\ air'[e] = {}
                          /\ ends'[e].stage = "start"
      <3>1. \A e \in Ends : ends[e] \in EndStates /\ "start" \in Stages
        BY DEF WireInv, WireTypes, Stages
      <3>2. \A e \in Ends : ends'[e].stage = "start"
        BY <1>2, <3>1, StageIsSet
      <3> QED  BY <1>2, <2>1, <3>2 DEF WireInv, WireTypes, links_
    <2>5. ASSUME NEW e \in Ends PROVE EndFits(e, Peer(e))'
      <3>1. Peer(e) \in Ends
        BY TheOtherEnd
      <3>2. Fits(<<>>, FALSE, "start", "start", ends'[e].config, ends'[Peer(e)].config)
        BY NothingFits
      <3>3. StreamFits(e, Peer(e))'
        BY <2>4, <3>1, <3>2 DEF StreamFits
      <3>4. StageFits(e, Peer(e))'
        BY <2>4 DEF StageFits
      <3>5. DatagramsFit(e, Peer(e))'
        BY <2>4 DEF DatagramsFit, NoPending
      <3> QED  BY <3>3, <3>4, <3>5 DEF EndFits
    <2>6. \A e \in Ends : PumpLooks(pump[e], slots[e])'
      BY <1>2 DEF WireInv, links_
    <2> QED  BY <2>1, <2>3, <2>5, <2>6 DEF WireInv
  <1> QED  BY <1>1, <1>2 DEF accept

(* While it is open, one end moves: what it and its peer have then.           *)
LEMMA AnEndMoves ==
  ASSUME NEW e \in Ends, WireTypes', conn'.phase = "open", EndFits(e, Peer(e))', EndFits(Peer(e), e)',
         \A x \in Ends : PumpLooks(pump[x], slots[x])'
  PROVE  WireInv'
  <1>1. Ends = {e, Peer(e)} /\ Peer(Peer(e)) = e
    BY TheOtherEnd
  <1>2. \A x \in Ends : EndFits(x, Peer(x))'
    <2> TAKE x \in Ends
    <2>1. CASE x = e
      BY <2>1
    <2>2. CASE x = Peer(e)
      <3>1. Peer(x) = e
        BY <1>1, <2>2
      <3> QED  BY <2>2, <3>1
    <2> QED  BY <1>1, <2>1, <2>2
  <1> QED  BY <1>2 DEF WireInv

(* What both computers of an open connection are.                             *)
LEMMA BothFit ==
  ASSUME WireInv, NEW e \in Ends, Open
  PROVE  LET f == Peer(e) IN
         /\ EndFits(e, f) /\ EndFits(f, e) /\ f \in Ends /\ f # e /\ Ends = {e, f}
         /\ ends[e].config \in SessionConfigs /\ ends[f].config \in SessionConfigs
         /\ stream[e] \in Seq(WireReads) /\ stream[f] \in Seq(WireReads)
         /\ reader[e] \in BOOLEAN /\ reader[f] \in BOOLEAN
         /\ \A x \in Ends : PumpLooks(pump[x], slots[x])
  <1>1. Peer(e) \in Ends /\ Peer(e) # e /\ Peer(Peer(e)) = e /\ Ends = {e, Peer(e)}
    BY TheOtherEnd
  <1>2. EndFits(e, Peer(e)) /\ EndFits(Peer(e), Peer(Peer(e)))
    BY <1>1 DEF WireInv, Open
  <1>3. \A x \in Ends : ends[x] \in EndStates /\ stream[x] \in Seq(WireReads) /\ reader[x] \in BOOLEAN
    BY DEF WireInv, WireTypes
  <1>4. \A x \in Ends : ends[x].config \in SessionConfigs
    BY <1>3 DEF EndStates
  <1>5. \A x \in Ends : PumpLooks(pump[x], slots[x])
    BY DEF WireInv
  <1> QED  BY <1>1, <1>2, <1>3, <1>4, <1>5

(* A computer sends its offer.                                                *)
LEMMA OfferIsFine == ASSUME WireInv, NEW e \in Ends, send_negotiation_offer(e) PROVE WireInv'
  <1> DEFINE f == Peer(e)
             c == ends[e].config
             d == ends[f].config
             m == [family |-> "offer", value |-> Offer(c)]
  <1>1. /\ EndFits(e, f) /\ EndFits(f, e) /\ f \in Ends /\ f # e /\ Ends = {e, f}
        /\ c \in SessionConfigs /\ d \in SessionConfigs
        /\ stream[e] \in Seq(WireReads) /\ stream[f] \in Seq(WireReads) /\ reader[f] \in BOOLEAN
        /\ \A x \in Ends : PumpLooks(pump[x], slots[x])
    BY BothFit DEF send_negotiation_offer
  <1>2. /\ conn'.phase = "open" /\ ends[e].stage = "start" /\ ends' = [ends EXCEPT ![e].stage = "offered"]
        /\ stream' = [stream EXCEPT ![f] = stream[f] \o Frame(m)]
        /\ UNCHANGED <<conn, reader, slots, pump, air, sends>>
    BY DEF send_negotiation_offer, Written, Open
  <1>3. m \in WireMessages
    BY <1>1 DEF WireMessages
  <1>4. /\ ends[e] \in EndStates /\ ends[f] \in EndStates /\ "offered" \in Stages /\ ends \in [Ends -> EndStates]
    BY <1>1 DEF WireInv, WireTypes, Stages
  <1>5. /\ ends' \in [Ends -> EndStates] /\ ends'[e].config = c /\ ends'[e].stage = "offered" /\ ends'[f] = ends[f]
    BY <1>1, <1>2, <1>4, StageIsSet
  <1> HIDE DEF f, c, d, m
  <1>6. Fits(stream[f], reader[f], ends[f].stage, "start", d, c)
    BY <1>1, <1>2 DEF EndFits, StreamFits, c, d
  <1>7. Expected(d, c, Sent("offered"), m) /\ Sent("offered") = Sent("start") + 1
    BY DEF Expected, Sent, m
  <1>8. stream[f] \o Frame(m) \in Seq(WireReads) /\ Fits(stream[f] \o Frame(m), reader[f], ends[f].stage, "offered", d, c)
    BY <1>1, <1>3, <1>6, <1>7, FrameIsWritten
  <1>9. Fits(stream[e], reader[e], "offered", ends[f].stage, c, d)
    BY <1>1, <1>2, StagesFit DEF EndFits, StreamFits, c, d
  <1>10. stream \in [Ends -> Seq(WireReads)]
    BY DEF WireInv, WireTypes
  <1>11. stream' \in [Ends -> Seq(WireReads)] /\ stream'[e] = stream[e] /\ stream'[f] = stream[f] \o Frame(m)
    BY <1>1, <1>2, <1>8, <1>10
  <1>12. WireTypes'
    BY <1>2, <1>5, <1>11 DEF WireInv, WireTypes
  <1>13. StreamFits(e, f)' /\ StreamFits(f, e)'
    BY <1>2, <1>5, <1>8, <1>9, <1>11 DEF StreamFits, c, d
  <1>14. StageFits(e, f)' /\ StageFits(f, e)'
    BY <1>1, <1>2, <1>5 DEF EndFits, StageFits, c
  <1>15. DatagramsFit(e, f)' /\ DatagramsFit(f, e)'
    BY <1>1, <1>2, <1>5 DEF EndFits, DatagramsFit, c
  <1>16. \A x \in Ends : PumpLooks(pump[x], slots[x])'
    BY <1>1, <1>2
  <1> QED  BY <1>2, <1>12, <1>13, <1>14, <1>15, <1>16, AnEndMoves DEF EndFits, f

(* What a computer that is ready may send, both agreed on.                    *)
LEMMA SendableIsNeeded ==
  ASSUME WireInv, NEW e \in Ends, Open, ends[e].stage = "ready"
  PROVE  Sendable(e) = Needs(ends[e].config, ends[Peer(e)].config)
         /\ Sendable(e) = Needs(ends[Peer(e)].config, ends[e].config)
         /\ Sendable(e) \subseteq {"Pointer", "Touch"}
         /\ Sendable(e) \subseteq ends[e].schema[1].capabilities
  <1>1. EndFits(e, Peer(e)) /\ ends[e].config \in SessionConfigs /\ ends[Peer(e)].config \in SessionConfigs
    BY BothFit
  <1>2. ends[e].schema = <<Between(ends[e].config, ends[Peer(e)].config)>>
    BY <1>1 DEF EndFits, StageFits
  <1>3. ends[e].schema[1] = Between(ends[e].config, ends[Peer(e)].config)
    BY <1>2
  <1>4. Sendable(e) = Needs(ends[e].config, ends[Peer(e)].config)
    BY <1>3 DEF Sendable, Needs
  <1> QED  BY <1>1, <1>3, <1>4, NeedsAgree

LEMMA ControlIsFine == ASSUME WireInv, NEW e \in Ends, send_control(e) PROVE WireInv'
  <1> DEFINE f == Peer(e)
             c == ends[e].config
             d == ends[f].config
  <1>1. PICK need \in Sendable(e) : Written(e, [family |-> "control", value |-> need])
    BY DEF send_control
  <1> DEFINE m == [family |-> "control", value |-> need]
  <1>2. Open /\ ends[e].stage = "ready"
    BY DEF send_control, MaySend
  <1>3. /\ EndFits(e, f) /\ EndFits(f, e) /\ f \in Ends /\ f # e /\ Ends = {e, f}
        /\ c \in SessionConfigs /\ d \in SessionConfigs
        /\ stream[e] \in Seq(WireReads) /\ stream[f] \in Seq(WireReads) /\ reader[f] \in BOOLEAN
        /\ \A x \in Ends : PumpLooks(pump[x], slots[x])
    BY <1>2, BothFit
  <1>4. need \in Needs(d, c) /\ need \in {"Pointer", "Touch"}
    BY <1>1, <1>2, SendableIsNeeded
  <1>5. m \in WireMessages
    BY <1>4 DEF WireMessages
  <1>6. /\ stream' = [stream EXCEPT ![f] = stream[f] \o Frame(m)]
        /\ UNCHANGED <<conn, ends, slots, pump, air>> /\ sends' = sends + 1
        /\ reader' = [reader EXCEPT ![e] = reader[e]]
    BY <1>1 DEF send_control, Written, cancelled
  <1> HIDE DEF f, c, d
  <1>7. Fits(stream[f], reader[f], ends[f].stage, "ready", d, c)
    BY <1>2, <1>3 DEF EndFits, StreamFits, c, d
  <1>8. m.family = "control" /\ m.value \in Needs(d, c)
    BY <1>4
  <1> HIDE DEF m
  <1>9. stream[f] \o Frame(m) \in Seq(WireReads) /\ Fits(stream[f] \o Frame(m), reader[f], ends[f].stage, "ready", d, c)
    BY <1>3, <1>5, <1>7, <1>8, FrameIsWritten
  <1>10. stream \in [Ends -> Seq(WireReads)] /\ reader \in [Ends -> BOOLEAN] /\ sends \in Nat
    BY DEF WireInv, WireTypes
  <1>11. stream' \in [Ends -> Seq(WireReads)] /\ stream'[e] = stream[e] /\ stream'[f] = stream[f] \o Frame(m)
         /\ reader' = reader /\ sends' \in Nat
    BY <1>3, <1>6, <1>9, <1>10
  <1>12. WireTypes'
    BY <1>6, <1>11 DEF WireInv, WireTypes
  <1>13. StreamFits(e, f)' /\ StreamFits(f, e)'
    BY <1>2, <1>3, <1>6, <1>9, <1>11 DEF EndFits, StreamFits, c, d
  <1>14. StageFits(e, f)' /\ StageFits(f, e)' /\ DatagramsFit(e, f)' /\ DatagramsFit(f, e)'
    BY <1>3, <1>6 DEF EndFits, StageFits, DatagramsFit
  <1>15. \A x \in Ends : PumpLooks(pump[x], slots[x])'
    BY <1>3, <1>6
  <1>16. conn'.phase = "open"
    BY <1>2, <1>6 DEF Open
  <1> QED  BY <1>12, <1>13, <1>14, <1>15, <1>16, AnEndMoves DEF EndFits, f

(* The datagrams: queued, taken, sent, and lost on the way. A step that       *)
(* leaves the stages, the streams and the readers alone moves only them.      *)
LEMMA OnlyDatagramsMove ==
  ASSUME WireInv, Open, UNCHANGED <<conn, ends, stream, reader>>, sends' \in Nat,
         slots' \in [Ends -> [{"motion", "probe"} -> {<<>>, <<"Pointer">>, <<"Touch">>}]],
         pump' \in [Ends -> [at : {"look", "sending", "empty", "waiting", "ended"}, permit : BOOLEAN]],
         air' \in [Ends -> SUBSET [class : {"motion", "probe"}, need : {"Pointer", "Touch"}]],
         \A x \in Ends : DatagramsFit(x, Peer(x))' /\ PumpLooks(pump[x], slots[x])'
  PROVE  WireInv'
  <1>1. WireTypes'
    BY DEF WireInv, WireTypes
  <1>2. \A x \in Ends : EndFits(x, Peer(x))
    BY DEF WireInv, Open
  <1>3. \A x \in Ends : EndFits(x, Peer(x))'
    BY <1>2 DEF EndFits, StageFits, StreamFits
  <1>4. conn'.phase = "open"
    BY DEF Open
  <1> QED  BY <1>1, <1>3, <1>4 DEF WireInv

LEMMA QueueIsFine ==
  ASSUME WireInv, NEW e \in Ends, NEW class \in {"motion", "probe"}, enqueue(e, class) PROVE WireInv'
  <1>1. PICK need \in Sendable(e) : slots' = [slots EXCEPT ![e][class] = <<need>>]
    BY DEF enqueue
  <1>2. Open /\ ends[e].stage = "ready"
    BY DEF enqueue, MaySend
  <1>3. need \in Needs(ends[e].config, ends[Peer(e)].config) /\ need \in {"Pointer", "Touch"}
    BY <1>1, <1>2, SendableIsNeeded
  <1>4. /\ slots \in [Ends -> [{"motion", "probe"} -> {<<>>, <<"Pointer">>, <<"Touch">>}]]
        /\ pump \in [Ends -> [at : {"look", "sending", "empty", "waiting", "ended"}, permit : BOOLEAN]]
        /\ air \in [Ends -> SUBSET [class : {"motion", "probe"}, need : {"Pointer", "Touch"}]]
        /\ reader \in [Ends -> BOOLEAN] /\ sends \in Nat
    BY DEF WireInv, WireTypes
  <1>5. /\ pump' = [pump EXCEPT ![e] = notify_one(pump[e])] /\ reader' = [reader EXCEPT ![e] = reader[e]]
        /\ sends' = sends + 1 /\ UNCHANGED <<conn, ends, stream, air>>
    BY DEF enqueue, cancelled
  <1>6. /\ notify_one(pump[e]) \in [at : {"look", "sending", "empty", "waiting", "ended"}, permit : BOOLEAN]
        /\ notify_one(pump[e]).at # "waiting"
        /\ notify_one(pump[e]).at = "empty" => notify_one(pump[e]).permit
    <2>1. pump[e] \in [at : {"look", "sending", "empty", "waiting", "ended"}, permit : BOOLEAN]
      BY <1>4
    <2> QED  BY <2>1 DEF notify_one
  <1>7. slots' \in [Ends -> [{"motion", "probe"} -> {<<>>, <<"Pointer">>, <<"Touch">>}]]
    <2>1. <<need>> \in {<<>>, <<"Pointer">>, <<"Touch">>}
      BY <1>3
    <2>2. [slots[e] EXCEPT ![class] = <<need>>] \in [{"motion", "probe"} -> {<<>>, <<"Pointer">>, <<"Touch">>}]
      BY <1>4, <2>1
    <2> QED  BY <1>1, <1>4, <2>2
  <1>8. pump' \in [Ends -> [at : {"look", "sending", "empty", "waiting", "ended"}, permit : BOOLEAN]]
    BY <1>4, <1>5, <1>6
  <1>9. ASSUME NEW x \in Ends PROVE DatagramsFit(x, Peer(x))' /\ PumpLooks(pump[x], slots[x])'
    <2>1. DatagramsFit(x, Peer(x)) /\ PumpLooks(pump[x], slots[x])
      BY <1>2 DEF WireInv, Open, EndFits
    <2>2. CASE x = e
      <3>1. PumpLooks(pump[x], slots[x])'
        BY <1>4, <1>5, <1>6, <2>2 DEF PumpLooks
      <3>2. /\ slots'[x][class] = <<need>>
            /\ \A other \in {"motion", "probe"} : other # class => slots'[x][other] = slots[x][other]
        BY <1>1, <1>4, <2>2
      <3>3. <<need>>[1] = need
        OBVIOUS
      <3>4. DatagramsFit(x, Peer(x))'
        BY <1>3, <1>5, <2>1, <2>2, <3>2, <3>3 DEF DatagramsFit
      <3> QED  BY <3>1, <3>4
    <2>3. CASE x # e
      <3>1. slots'[x] = slots[x] /\ pump'[x] = pump[x]
        BY <1>1, <1>4, <1>5, <2>3
      <3> QED  BY <1>5, <2>1, <3>1 DEF DatagramsFit, PumpLooks
    <2> QED  BY <2>2, <2>3
  <1>10. UNCHANGED reader /\ sends' \in Nat /\ air' \in [Ends -> SUBSET [class : {"motion", "probe"}, need : {"Pointer", "Touch"}]]
    BY <1>4, <1>5
  <1> QED  BY <1>2, <1>5, <1>7, <1>8, <1>9, <1>10, OnlyDatagramsMove

LEMMA TakeIsFine == ASSUME WireInv, NEW e \in Ends, take(e) PROVE WireInv'
  <1> DEFINE f == Peer(e)
  <1>1. PICK class \in {"motion", "probe"} :
          /\ pump[e].at = "look" /\ slots[e][class] # <<>>
          /\ slots' = [slots EXCEPT ![e][class] = <<>>]
          /\ pump' = [pump EXCEPT ![e].at = "sending"]
          /\ air' = [air EXCEPT ![f] = @ \cup {[class |-> class, need |-> slots[e][class][1]]}]
          /\ UNCHANGED <<conn, ends, stream, reader, sends>>
    <2>1. (IF slots[e].motion # <<>> THEN "motion" ELSE "probe") \in {"motion", "probe"}
      OBVIOUS
    <2> QED  BY <2>1 DEF take
  <1>2. /\ slots \in [Ends -> [{"motion", "probe"} -> {<<>>, <<"Pointer">>, <<"Touch">>}]]
        /\ pump \in [Ends -> [at : {"look", "sending", "empty", "waiting", "ended"}, permit : BOOLEAN]]
        /\ air \in [Ends -> SUBSET [class : {"motion", "probe"}, need : {"Pointer", "Touch"}]]
        /\ sends \in Nat
    BY DEF WireInv, WireTypes
  <1>3. Open
    <2>1. NoPending[class] = <<>>
      BY DEF NoPending
    <2>2. conn.phase # "open" => slots[e] = NoPending
      BY DEF WireInv
    <2> QED  BY <1>1, <2>1, <2>2 DEF Open
  <1>4. /\ EndFits(e, f) /\ EndFits(f, e) /\ f \in Ends /\ f # e /\ Ends = {e, f} /\ Peer(f) = e
        /\ ends[e].config \in SessionConfigs /\ ends[f].config \in SessionConfigs
        /\ \A x \in Ends : PumpLooks(pump[x], slots[x])
    BY <1>3, BothFit, TheOtherEnd
  <1> HIDE DEF f
  <1> DEFINE need == slots[e][class][1]
             g == [class |-> class, need |-> need]
  <1>5. need \in {"Pointer", "Touch"}
    <2>1. slots[e][class] \in {<<"Pointer">>, <<"Touch">>}
      BY <1>1, <1>2
    <2> QED  BY <2>1
  <1>6. need \in Needs(ends[f].config, ends[e].config)
    <2>1. need \in Needs(ends[e].config, ends[f].config)
      BY <1>1, <1>4 DEF EndFits, DatagramsFit
    <2> QED  BY <1>4, <2>1, NeedsAgree
  <1>7. slots' \in [Ends -> [{"motion", "probe"} -> {<<>>, <<"Pointer">>, <<"Touch">>}]]
    <2>1. [slots[e] EXCEPT ![class] = <<>>] \in [{"motion", "probe"} -> {<<>>, <<"Pointer">>, <<"Touch">>}]
      BY <1>2
    <2> QED  BY <1>1, <1>2, <2>1
  <1>8. pump' \in [Ends -> [at : {"look", "sending", "empty", "waiting", "ended"}, permit : BOOLEAN]]
    <2>1. [pump[e] EXCEPT !.at = "sending"] \in [at : {"look", "sending", "empty", "waiting", "ended"}, permit : BOOLEAN]
      BY <1>2
    <2> QED  BY <1>1, <1>2, <2>1
  <1>9. g \in [class : {"motion", "probe"}, need : {"Pointer", "Touch"}] /\ g.need = need
    BY <1>5
  <1>10. air' = [air EXCEPT ![f] = @ \cup {g}]
    BY <1>1
  <1> HIDE DEF g, need
  <1>11. air' \in [Ends -> SUBSET [class : {"motion", "probe"}, need : {"Pointer", "Touch"}]]
         /\ air'[f] = air[f] \cup {g} /\ air'[e] = air[e]
    BY <1>2, <1>4, <1>9, <1>10
  <1>12. /\ slots'[f] = slots[f] /\ slots'[e][class] = <<>> /\ pump'[f] = pump[f] /\ pump'[e].at = "sending"
         /\ \A other \in {"motion", "probe"} : other # class => slots'[e][other] = slots[e][other]
    BY <1>1, <1>2, <1>4
  <1>13. DatagramsFit(e, f)' /\ DatagramsFit(f, e)'
    BY <1>1, <1>4, <1>6, <1>9, <1>11, <1>12 DEF EndFits, DatagramsFit
  <1>14. PumpLooks(pump[e], slots[e])' /\ PumpLooks(pump[f], slots[f])'
    BY <1>4, <1>12 DEF PumpLooks
  <1>15. \A x \in Ends : DatagramsFit(x, Peer(x))' /\ PumpLooks(pump[x], slots[x])'
    BY <1>4, <1>13, <1>14 DEF f
  <1> QED  BY <1>1, <1>2, <1>3, <1>7, <1>8, <1>11, <1>15, OnlyDatagramsMove

LEMMA PumpIsFine == ASSUME WireInv, NEW e \in Ends, pumped(e) PROVE WireInv'
  <1> DEFINE Pumps == [at : {"look", "sending", "empty", "waiting", "ended"}, permit : BOOLEAN]
  <1>1. PICK p \in Pumps : /\ pump' = [pump EXCEPT ![e] = p]
                           /\ \/ p.at = "look"
                              \/ p.at = "empty" /\ slots[e] = NoPending
                              \/ p.at = "waiting" /\ pump[e].at = "empty" /\ ~pump[e].permit
    <2>0. pump \in [Ends -> Pumps] /\ pump[e] \in Pumps
      BY DEF WireInv, WireTypes
    <2>1. CASE pump[e].at = "sending" /\ pump' = [pump EXCEPT ![e].at = "look"]
      <3> DEFINE p == [pump[e] EXCEPT !.at = "look"]
      <3>1. p \in Pumps /\ p.at = "look"
        BY <2>0
      <3>2. pump' = [pump EXCEPT ![e] = p]
        BY <2>1
      <3> QED  BY <3>1, <3>2
    <2>2. CASE pump[e].at = "look" /\ slots[e] = NoPending /\ pump' = [pump EXCEPT ![e].at = "empty"]
      <3> DEFINE p == [pump[e] EXCEPT !.at = "empty"]
      <3>1. p \in Pumps /\ p.at = "empty"
        BY <2>0
      <3>2. pump' = [pump EXCEPT ![e] = p]
        BY <2>2
      <3> QED  BY <2>2, <3>1, <3>2
    <2>3. CASE /\ pump[e].at = "empty"
               /\ pump' = [pump EXCEPT ![e] = IF @.permit THEN NewPump ELSE [@ EXCEPT !.at = "waiting"]]
      <3>1. CASE pump[e].permit
        <4>1. NewPump \in Pumps /\ NewPump.at = "look"
          BY DEF NewPump
        <4>2. pump' = [pump EXCEPT ![e] = NewPump]
          BY <2>3, <3>1
        <4> QED  BY <4>1, <4>2
      <3>2. CASE ~pump[e].permit
        <4> DEFINE p == [pump[e] EXCEPT !.at = "waiting"]
        <4>1. p \in Pumps /\ p.at = "waiting"
          BY <2>0
        <4>2. pump' = [pump EXCEPT ![e] = p]
          BY <2>3, <3>2
        <4> QED  BY <2>3, <3>2, <4>1, <4>2
      <3> QED  BY <3>1, <3>2
    <2> QED  BY <2>1, <2>2, <2>3 DEF pumped
  <1>2. Open /\ UNCHANGED <<conn, ends, stream, reader, slots, air, sends>>
    BY DEF pumped
  <1>3. /\ slots \in [Ends -> [{"motion", "probe"} -> {<<>>, <<"Pointer">>, <<"Touch">>}]] /\ sends \in Nat
        /\ air \in [Ends -> SUBSET [class : {"motion", "probe"}, need : {"Pointer", "Touch"}]] /\ pump \in [Ends -> Pumps]
    BY DEF WireInv, WireTypes
  <1>4. ASSUME NEW x \in Ends PROVE DatagramsFit(x, Peer(x))' /\ PumpLooks(pump[x], slots[x])'
    <2>1. DatagramsFit(x, Peer(x)) /\ PumpLooks(pump[x], slots[x])
      BY <1>2 DEF WireInv, Open, EndFits
    <2>2. DatagramsFit(x, Peer(x))'
      BY <1>2, <2>1 DEF DatagramsFit
    <2>3. CASE x = e
      <3>1. pump'[x] = p /\ slots'[x] = slots[e]
        BY <1>1, <1>2, <1>3, <2>3
      <3> QED  BY <1>1, <2>1, <2>2, <2>3, <3>1 DEF PumpLooks
    <2>4. CASE x # e
      <3>1. pump'[x] = pump[x] /\ slots'[x] = slots[x]
        BY <1>1, <1>2, <1>3, <2>4
      <3> QED  BY <2>1, <2>2, <3>1 DEF PumpLooks
    <2> QED  BY <2>3, <2>4
  <1>5. pump' \in [Ends -> Pumps]
    BY <1>1, <1>3
  <1> QED  BY <1>2, <1>3, <1>4, <1>5, OnlyDatagramsMove

(* A datagram is taken, or lost: no schema leaves out what was sent.          *)
LEMMA ArrivalIsFine ==
  ASSUME WireInv, NEW e \in Ends, NEW g \in air[e], receive_datagram(e, g) \/ lost(e, g) PROVE WireInv'
  <1>1. Open
    BY DEF WireInv, Open
  <1>2. /\ slots \in [Ends -> [{"motion", "probe"} -> {<<>>, <<"Pointer">>, <<"Touch">>}]] /\ sends \in Nat
        /\ air \in [Ends -> SUBSET [class : {"motion", "probe"}, need : {"Pointer", "Touch"}]]
        /\ pump \in [Ends -> [at : {"look", "sending", "empty", "waiting", "ended"}, permit : BOOLEAN]]
        /\ reader \in [Ends -> BOOLEAN]
    BY DEF WireInv, WireTypes
  <1>3. ends[e].stage = "ready" => g.need \in ends[e].schema[1].capabilities
    <2>1. /\ EndFits(e, Peer(e)) /\ ends[e].config \in SessionConfigs /\ ends[Peer(e)].config \in SessionConfigs
      BY <1>1, BothFit
    <2>2. g.need \in Needs(ends[e].config, ends[Peer(e)].config)
      BY <2>1 DEF EndFits, DatagramsFit
    <2>3. ends[e].stage = "ready" => Sendable(e) = Needs(ends[e].config, ends[Peer(e)].config)
                                     /\ Sendable(e) \subseteq ends[e].schema[1].capabilities
      BY <1>1, SendableIsNeeded
    <2> QED  BY <2>2, <2>3
  <1>4. /\ air' = [air EXCEPT ![e] = air[e] \ {g}] /\ UNCHANGED <<conn, ends, stream, reader, slots, pump, sends>>
    BY <1>2, <1>3 DEF receive_datagram, lost, cancelled
  <1>5. air' \in [Ends -> SUBSET [class : {"motion", "probe"}, need : {"Pointer", "Touch"}]]
        /\ \A x \in Ends : air'[x] \subseteq air[x]
    BY <1>2, <1>4
  <1>6. ASSUME NEW x \in Ends PROVE DatagramsFit(x, Peer(x))' /\ PumpLooks(pump[x], slots[x])'
    <2>1. DatagramsFit(x, Peer(x)) /\ PumpLooks(pump[x], slots[x])
      BY <1>1 DEF WireInv, Open, EndFits
    <2>2. air'[x] \subseteq air[x]
      BY <1>5
    <2> QED  BY <1>4, <2>1, <2>2 DEF DatagramsFit
  <1> QED  BY <1>1, <1>2, <1>4, <1>5, <1>6, OnlyDatagramsMove

(* The critical stream. A length is read before its payload.                  *)
LEMMA LengthIsFine ==
  ASSUME WireInv, NEW e \in Ends, Open, stream[e] # <<>>, reader[e] = FALSE,
         reader' = [reader EXCEPT ![e] = TRUE], stream' = [stream EXCEPT ![e] = Tail(@)],
         UNCHANGED <<conn, ends, slots, pump, air, sends>>
  PROVE  WireInv'
  <1> DEFINE f == Peer(e)
  <1>1. /\ EndFits(e, f) /\ EndFits(f, e) /\ f \in Ends /\ f # e /\ Ends = {e, f}
        /\ stream[e] \in Seq(WireReads) /\ \A x \in Ends : PumpLooks(pump[x], slots[x])
    BY BothFit
  <1> HIDE DEF f
  <1>2. Tail(stream[e]) \in Seq(WireReads)
    BY <1>1
  <1>3. Fits(stream[e], FALSE, ends[e].stage, ends[f].stage, ends[e].config, ends[f].config)
    BY <1>1 DEF EndFits, StreamFits
  <1>4. Fits(Tail(stream[e]), TRUE, ends[e].stage, ends[f].stage, ends[e].config, ends[f].config)
    BY <1>1, <1>3, LengthIsRead
  <1>5. stream \in [Ends -> Seq(WireReads)] /\ reader \in [Ends -> BOOLEAN]
    BY DEF WireInv, WireTypes
  <1>6. /\ stream' \in [Ends -> Seq(WireReads)] /\ reader' \in [Ends -> BOOLEAN]
        /\ stream'[e] = Tail(stream[e]) /\ reader'[e] = TRUE /\ stream'[f] = stream[f] /\ reader'[f] = reader[f]
    BY <1>1, <1>2, <1>5
  <1>7. WireTypes'
    BY <1>6 DEF WireInv, WireTypes
  <1>8. StreamFits(e, f)' /\ StreamFits(f, e)'
    BY <1>1, <1>4, <1>6 DEF EndFits, StreamFits
  <1>9. StageFits(e, f)' /\ StageFits(f, e)' /\ DatagramsFit(e, f)' /\ DatagramsFit(f, e)'
    BY <1>1 DEF EndFits, StageFits, DatagramsFit
  <1>10. conn'.phase = "open" /\ \A x \in Ends : PumpLooks(pump[x], slots[x])'
    BY <1>1 DEF Open
  <1> QED  BY <1>7, <1>8, <1>9, <1>10, AnEndMoves DEF EndFits, f

(* The message of a payload is the one that is due, so a computer handles it  *)
(* and goes on: to the stage, schema and streams that follow from it.         *)
GoesOn(e, c, d, rest) ==
  /\ UNCHANGED <<conn, slots, pump, air, sends>> /\ reader' = [reader EXCEPT ![e] = FALSE]
  /\ ends[e].stage = "offered" =>
       /\ ends' = [ends EXCEPT ![e].stage = "selected", ![e].schema = <<Between(c, d)>>]
       /\ stream' = [stream EXCEPT ![e] = rest,
                                   ![Peer(e)] = @ \o Frame([family |-> "selected", value |-> Between(c, d)])]
  /\ ends[e].stage = "selected" =>
       ends' = [ends EXCEPT ![e].stage = "ready"] /\ stream' = [stream EXCEPT ![e] = rest]
  /\ ends[e].stage = "ready" => ends' = ends /\ stream' = [stream EXCEPT ![e] = rest]

LEMMA DueIsHandled ==
  ASSUME NEW c \in SessionConfigs, NEW d \in SessionConfigs, NEW e \in Ends, NEW m, NEW rest,
         ends[e].config = c, ends[e].stage \in {"offered", "selected", "ready"},
         ends[e].stage \in {"selected", "ready"} => ends[e].schema = <<Between(c, d)>>,
         Expected(c, d, Consumed(ends[e].stage) + 1, m), Handled(e, m, rest)
  PROVE  GoesOn(e, c, d, rest)
  <1>1. CASE ends[e].stage = "offered"
    <2>1. m = [family |-> "offer", value |-> Offer(d)]
      <3>1. Consumed(ends[e].stage) + 1 = 1
        BY <1>1 DEF Consumed
      <3> QED  BY <3>1 DEF Expected
    <2>2. select_negotiation(Offer(ends[e].config), m.value) = Between(c, d)
      BY <2>1 DEF Between
    <2>3. validate_for(Between(c, d), Offer(c)) /\ validate_for(Between(c, d), Offer(d))
      BY NeedsAgree
    <2>4. m.family = "offer" /\ m.value = Offer(d)
      BY <2>1
    <2> QED  BY <1>1, <2>2, <2>3, <2>4 DEF Handled, GoesOn
  <1>2. CASE ends[e].stage = "selected"
    <2>1. m = [family |-> "selected", value |-> Between(c, d)]
      <3>1. Consumed(ends[e].stage) + 1 = 2
        BY <1>2 DEF Consumed
      <3> QED  BY <3>1 DEF Expected
    <2>2. m.family = "selected" /\ m.value = ends[e].schema[1]
      BY <1>2, <2>1
    <2> QED  BY <1>2, <2>2 DEF Handled, GoesOn
  <1>3. CASE ends[e].stage = "ready"
    <2>1. m.family = "control" /\ m.value \in Needs(c, d)
      <3>1. Consumed(ends[e].stage) + 1 = 3
        BY <1>3 DEF Consumed
      <3> QED  BY <3>1 DEF Expected
    <2>2. ends[e].schema[1] = Between(c, d)
      BY <1>3
    <2>3. m.value \in ends[e].schema[1].capabilities
      BY <2>1, <2>2, NeedsAgree
    <2> QED  BY <1>3, <2>1, <2>3 DEF Handled, GoesOn
  <1> QED  BY <1>1, <1>2, <1>3

LEMMA PayloadIsFine ==
  ASSUME WireInv, NEW e \in Ends, Open, stream[e] # <<>>, reader[e],
         ends[e].stage \in {"offered", "selected", "ready"},
         Handled(e, Head(stream[e]).message, Tail(stream[e]))
  PROVE  WireInv'
  <1> DEFINE f == Peer(e)
             c == ends[e].config
             d == ends[f].config
             m == Head(stream[e]).message
             rest == Tail(stream[e])
             over == IF ends[e].stage = "offered" THEN "selected" ELSE "ready"
             named == [family |-> "selected", value |-> Between(c, d)]
  <1>1. /\ EndFits(e, f) /\ EndFits(f, e) /\ f \in Ends /\ f # e /\ Ends = {e, f}
        /\ c \in SessionConfigs /\ d \in SessionConfigs /\ reader[f] \in BOOLEAN
        /\ stream[e] \in Seq(WireReads) /\ stream[f] \in Seq(WireReads)
        /\ \A x \in Ends : PumpLooks(pump[x], slots[x])
    BY BothFit
  <1>2. /\ stream \in [Ends -> Seq(WireReads)] /\ reader \in [Ends -> BOOLEAN] /\ ends \in [Ends -> EndStates]
        /\ rest \in Seq(WireReads)
    BY <1>1 DEF WireInv, WireTypes
  <1>3. /\ Fits(stream[e], TRUE, ends[e].stage, ends[f].stage, c, d)
        /\ Fits(stream[f], reader[f], ends[f].stage, ends[e].stage, d, c)
        /\ ends[e].stage \in {"selected", "ready"} => ends[e].schema = <<Between(c, d)>>
    BY <1>1 DEF EndFits, StreamFits, StageFits
  <1>4. /\ Expected(c, d, Consumed(ends[e].stage) + 1, m)
        /\ \A later : Consumed(later) = Consumed(ends[e].stage) + 1 \/ (ends[e].stage = "ready" /\ later = "ready") =>
             Fits(rest, FALSE, later, ends[f].stage, c, d)
    BY <1>1, <1>3, PayloadIsRead
  <1>5. Fits(rest, FALSE, over, ends[f].stage, c, d)
    <2>1. Consumed(over) = Consumed(ends[e].stage) + 1 \/ (ends[e].stage = "ready" /\ over = "ready")
      BY DEF Consumed
    <2> QED  BY <1>4, <2>1
  <1>15. Handled(e, m, rest) /\ ends[e].config = c /\ Expected(c, d, Consumed(ends[e].stage) + 1, m)
    BY <1>4
  <1> HIDE DEF c, d, m, rest
  <1>16. GoesOn(e, c, d, rest)
    BY <1>1, <1>3, <1>15, DueIsHandled
  <1>6. /\ UNCHANGED <<conn, slots, pump, air, sends>> /\ reader' = [reader EXCEPT ![e] = FALSE]
        /\ ends[e].stage = "offered" =>
             /\ ends' = [ends EXCEPT ![e].stage = "selected", ![e].schema = <<Between(c, d)>>]
             /\ stream' = [stream EXCEPT ![e] = rest, ![f] = @ \o Frame(named)]
        /\ ends[e].stage = "selected" =>
             ends' = [ends EXCEPT ![e].stage = "ready"] /\ stream' = [stream EXCEPT ![e] = rest]
        /\ ends[e].stage = "ready" => ends' = ends /\ stream' = [stream EXCEPT ![e] = rest]
    BY <1>16 DEF GoesOn
  <1> HIDE DEF f
  <1>7. reader' \in [Ends -> BOOLEAN] /\ reader'[e] = FALSE /\ reader'[f] = reader[f]
    BY <1>1, <1>2, <1>6
  <1>8. /\ ends' \in [Ends -> EndStates] /\ ends'[f] = ends[f]
        /\ ends'[e].config = c /\ ends'[e].stage = over /\ ends'[e].schema = <<Between(c, d)>>
    <2>0. ends[e] \in EndStates /\ "selected" \in Stages /\ "ready" \in Stages /\ <<Between(c, d)>> \in Schemas
          /\ ends[e].config = c
      BY <1>1, <1>2 DEF Stages, Schemas, c
    <2>1. CASE ends[e].stage = "offered"
      <3> DEFINE then == [ends[e] EXCEPT !.stage = "selected", !.schema = <<Between(c, d)>>]
      <3>1. then \in EndStates /\ then.config = c /\ then.stage = "selected" /\ then.schema = <<Between(c, d)>>
        BY <2>0 DEF EndStates
      <3>2. ends' = [ends EXCEPT ![e] = then]
        BY <1>6, <2>1
      <3> HIDE DEF then
      <3> QED  BY <1>1, <1>2, <2>1, <3>1, <3>2
    <2>2. CASE ends[e].stage = "selected"
      <3>1. ends' = [ends EXCEPT ![e] = [ends[e] EXCEPT !.stage = "ready"]]
        BY <1>6, <2>2
      <3>2. [ends[e] EXCEPT !.stage = "ready"] \in EndStates /\ [ends[e] EXCEPT !.stage = "ready"].config = c
            /\ [ends[e] EXCEPT !.stage = "ready"].stage = "ready"
            /\ [ends[e] EXCEPT !.stage = "ready"].schema = <<Between(c, d)>>
        BY <1>3, <2>0, <2>2, StageIsSet
      <3> QED  BY <1>1, <1>2, <2>2, <3>1, <3>2
    <2>3. CASE ends[e].stage = "ready"
      BY <1>2, <1>3, <1>6, <2>0, <2>3
    <2> QED  BY <2>1, <2>2, <2>3
  <1>9. /\ stream' \in [Ends -> Seq(WireReads)] /\ stream'[e] = rest
        /\ Fits(stream'[f], reader[f], ends[f].stage, over, d, c)
    <2>1. CASE ends[e].stage = "offered"
      <3>1. named \in WireMessages
        BY <1>1 DEF WireMessages
      <3>2. Expected(d, c, Sent("selected"), named) /\ Sent("selected") = Sent("offered") + 1
        <4>1. Between(c, d) = Between(d, c)
          BY <1>1, NeedsAgree
        <4> QED  BY <4>1 DEF Expected, Sent
      <3> HIDE DEF named
      <3>3. stream[f] \o Frame(named) \in Seq(WireReads)
            /\ Fits(stream[f] \o Frame(named), reader[f], ends[f].stage, "selected", d, c)
        BY <1>1, <1>3, <2>1, <3>1, <3>2, FrameIsWritten
      <3>4. stream' = [stream EXCEPT ![e] = rest, ![f] = stream[f] \o Frame(named)]
        BY <1>1, <1>2, <1>6, <2>1
      <3>5. stream' \in [Ends -> Seq(WireReads)] /\ stream'[e] = rest /\ stream'[f] = stream[f] \o Frame(named)
        BY <1>1, <1>2, <3>3, <3>4
      <3> QED  BY <2>1, <3>3, <3>5
    <2>2. CASE ends[e].stage = "selected"
      <3>1. Fits(stream[f], reader[f], ends[f].stage, "ready", d, c)
        BY <1>3, <2>2, StagesFit
      <3>2. stream' \in [Ends -> Seq(WireReads)] /\ stream'[e] = rest /\ stream'[f] = stream[f]
        BY <1>1, <1>2, <1>6, <2>2
      <3> QED  BY <2>2, <3>1, <3>2
    <2>3. CASE ends[e].stage = "ready"
      <3>1. stream' \in [Ends -> Seq(WireReads)] /\ stream'[e] = rest /\ stream'[f] = stream[f]
        BY <1>1, <1>2, <1>6, <2>3
      <3> QED  BY <1>3, <2>3, <3>1
    <2> QED  BY <2>1, <2>2, <2>3
  <1>10. WireTypes'
    BY <1>6, <1>7, <1>8, <1>9 DEF WireInv, WireTypes
  <1>11. StreamFits(e, f)' /\ StreamFits(f, e)'
    BY <1>5, <1>7, <1>8, <1>9 DEF StreamFits, d
  <1>12. StageFits(e, f)' /\ StageFits(f, e)'
    BY <1>1, <1>8 DEF EndFits, StageFits, c, d
  <1>13. DatagramsFit(e, f)' /\ DatagramsFit(f, e)'
    BY <1>1, <1>6, <1>8 DEF EndFits, DatagramsFit, c
  <1>14. conn'.phase = "open" /\ \A x \in Ends : PumpLooks(pump[x], slots[x])'
    BY <1>1, <1>6 DEF Open
  <1> QED  BY <1>10, <1>11, <1>12, <1>13, <1>14, AnEndMoves DEF EndFits, f

(* A read is a length when one is due and a payload when one is.              *)
LEMMA ReceiveIsFine == ASSUME WireInv, NEW e \in Ends, receive_control(e) PROVE WireInv'
  <1>1. Open /\ stream[e] # <<>> /\ ends[e].stage \in {"offered", "selected", "ready"}
    BY DEF receive_control
  <1>2. stream[e] \in Seq(WireReads) /\ reader[e] \in BOOLEAN
        /\ Fits(stream[e], reader[e], ends[e].stage, ends[Peer(e)].stage, ends[e].config, ends[Peer(e)].config)
    BY <1>1, BothFit DEF EndFits, StreamFits
  <1>3. CASE reader[e] = FALSE
    <2>3. Fits(stream[e], FALSE, ends[e].stage, ends[Peer(e)].stage, ends[e].config, ends[Peer(e)].config)
      BY <1>2, <1>3
    <2>1. Head(stream[e]).half = "length"
      BY <1>1, <1>2, <2>3, LengthIsRead
    <2>2. reader' = [reader EXCEPT ![e] = TRUE] /\ stream' = [stream EXCEPT ![e] = Tail(@)]
          /\ UNCHANGED <<conn, ends, slots, pump, air, sends>>
      BY <1>3, <2>1 DEF receive_control
    <2> QED  BY <1>1, <1>3, <2>2, LengthIsFine
  <1>4. CASE reader[e] = TRUE
    <2>3. Fits(stream[e], TRUE, ends[e].stage, ends[Peer(e)].stage, ends[e].config, ends[Peer(e)].config)
      BY <1>2, <1>4
    <2>1. Head(stream[e]).half = "payload"
      BY <1>2, <2>3, PayloadIsRead
    <2>2. Handled(e, Head(stream[e]).message, Tail(stream[e]))
      BY <1>4, <2>1 DEF receive_control
    <2> QED  BY <1>1, <1>4, <2>2, PayloadIsFine
  <1> QED  BY <1>2, <1>3, <1>4

LEMMA WireStep == ASSUME WireInv, TransportNext PROVE WireInv'
  <1>1. CASE connect_input \/ set_server_config \/ accept
    BY <1>1, HandshakeIsFine, AcceptIsFine
  <1>2. CASE closed
    BY <1>2, ClosingIsFine DEF closed
  <1>3. ASSUME NEW e \in Ends, send_negotiation_offer(e) \/ send_control(e) \/ receive_control(e) PROVE WireInv'
    BY <1>3, OfferIsFine, ControlIsFine, ReceiveIsFine
  <1>4. ASSUME NEW e \in Ends, control_write_timeout(e) PROVE WireInv'
    BY <1>4, ClosingIsFine DEF control_write_timeout
  <1>5. ASSUME NEW e \in Ends, enqueue(e, "motion") \/ enqueue(e, "probe") \/ take(e) \/ pumped(e) PROVE WireInv'
    BY <1>5, QueueIsFine, TakeIsFine, PumpIsFine
  <1>6. ASSUME NEW e \in Ends, NEW g \in air[e], receive_datagram(e, g) \/ lost(e, g) PROVE WireInv'
    BY <1>6, ArrivalIsFine
  <1> QED  BY <1>1, <1>2, <1>3, <1>4, <1>5, <1>6 DEF TransportNext

LEMMA WireUntouched == WireInv /\ UNCHANGED transportVars => WireInv'
  BY DEF WireInv, WireTypes, transportVars, EndFits, StageFits, StreamFits, DatagramsFit

(* For any configurations, and however messages and datagrams are sent, lost  *)
(* and cut short by other work, two computers that follow the protocol never  *)
(* refuse each other's messages, and no datagram waits for a pump that sleeps *)
(* (session/negotiate.rs, transport/connection.rs).                           *)
THEOREM WireServesBothAlways == MCSpec => []WireServesBoth
  <1>1. MCInit => WireHolds
    BY WireStarts DEF MCInit, WireHolds
  <1>2. WireHolds /\ [MCNext]_plumbingVars => WireHolds'
    BY OnePartRuns, WireStep, WireUntouched DEF WireHolds
  <1>3. WireInv => NeverRefused /\ NothingStranded
    BY DEF WireInv, WireTypes, NeverRefused, NothingStranded, PumpLooks
  <1>4. WireHolds => WireServesBoth
    BY <1>3 DEF WireHolds, WireServesBoth
  <1> QED  BY <1>1, <1>2, <1>4, PTL DEF MCSpec, plumbingVars

-----------------------------------------------------------------------------
(* The virtual devices. What a remap's fields range over.                     *)
Remaps ==
  [mode : KeyboardModes, terminal : BOOLEAN, busy : BOOLEAN, physical : SUBSET Usages,
   deferred : SUBSET Usages, owners : [Usages -> SUBSET Usages], bound : SUBSET Usages]

(* The touchpad: every contact that is down has a slot of its own, in which   *)
(* the kernel has it and nothing else; the second report of a replacement     *)
(* keeps the contacts that are down, and there are slots for all it has.      *)
TouchInv ==
  /\ contacts \in [Fingers -> Slots \cup {0}] /\ kernel_slots \in [Slots -> Fingers \cup {0}]
  /\ SlotsMatchContacts
  /\ \A touch \in landing :
       touch \subseteq Fingers /\ contacts_down \subseteq touch /\ Cardinality(touch) <= MAX_TOUCHPAD_CONTACTS

KeysInv ==
  /\ remap \in Remaps /\ KernelHoldsPeersKeys
  /\ pointer \in BOOLEAN /\ peerHolds \in [open : BOOLEAN, keys : SUBSET Usages]

KernelInv == KeysInv /\ TouchInv

KernelHolds == part = "Kernel" => KernelInv

-----------------------------------------------------------------------------
(* In a finite set of numbers there is one with any number of smaller ones.   *)
LEMMA RankedElement ==
  ASSUME NEW S \in SUBSET Nat, IsFiniteSet(S), NEW n \in 0 .. (Cardinality(S) - 1)
  PROVE  \E s \in S : Cardinality({u \in S : u < s}) = n
  <1> DEFINE below(s) == {u \in S : u < s}
             rank == [s \in S |-> Cardinality(below(s))]
             T == 0 .. (Cardinality(S) - 1)
  <1>1. Cardinality(S) \in Nat
    BY FS_CardinalityType
  <1>2. IsFiniteSet(T) /\ Cardinality(T) = Cardinality(S)
    BY <1>1, FS_Interval
  <1>3. \A s \in S : /\ IsFiniteSet(below(s)) /\ Cardinality(below(s)) \in Nat /\ Cardinality(below(s)) < Cardinality(S)
    <2> TAKE s \in S
    <2>1. below(s) \in SUBSET S /\ s \notin below(s)
      OBVIOUS
    <2>2. IsFiniteSet(below(s)) /\ Cardinality(below(s)) <= Cardinality(S)
          /\ (Cardinality(S) = Cardinality(below(s)) => S = below(s))
      BY <2>1, FS_Subset
    <2>3. Cardinality(below(s)) \in Nat
      BY <2>2, FS_CardinalityType
    <2> QED  BY <1>1, <2>1, <2>2, <2>3
  <1>4. \A s, t \in S : s < t => Cardinality(below(s)) < Cardinality(below(t))
    <2> SUFFICES ASSUME NEW s \in S, NEW t \in S, s < t PROVE Cardinality(below(s)) < Cardinality(below(t))
      OBVIOUS
    <2>1. below(s) \in SUBSET below(t) /\ s \in below(t) /\ s \notin below(s)
      <3>1. s \in Nat /\ t \in Nat /\ ~(s < s)
        OBVIOUS
      <3>2. \A u \in S : u < s => u < t
        BY <3>1
      <3> QED  BY <3>1, <3>2
    <2>2. /\ Cardinality(below(s)) <= Cardinality(below(t))
          /\ Cardinality(below(t)) = Cardinality(below(s)) => below(t) = below(s)
      BY <1>3, <2>1, FS_Subset
    <2>3. Cardinality(below(s)) # Cardinality(below(t))
      BY <2>1, <2>2
    <2> HIDE DEF below
    <2> QED  BY <1>3, <2>2, <2>3
  <1>5. rank \in [S -> T]
    <2>1. \A s \in S : Cardinality(below(s)) \in T
      <3> HIDE DEF below
      <3> QED  BY <1>1, <1>3
    <2> QED  BY <2>1
  <1>6. \A s, t \in S : rank[s] = rank[t] => s = t
    <2> SUFFICES ASSUME NEW s \in S, NEW t \in S, s # t PROVE rank[s] # rank[t]
      OBVIOUS
    <2>1. s < t \/ t < s
      OBVIOUS
    <2>2. rank[s] = Cardinality(below(s)) /\ rank[t] = Cardinality(below(t))
      OBVIOUS
    <2> HIDE DEF below, rank
    <2> QED  BY <1>3, <1>4, <2>1, <2>2
  <1>7. rank \in Injection(S, T)
    BY <1>5, <1>6 DEF Injection, IsInjective
  <1>8. rank \in Surjection(S, T)
    BY <1>2, <1>7, FS_Injection
  <1>9. \E s \in S : rank[s] = n
    BY <1>8 DEF Surjection
  <1> QED  BY <1>9

(* Contacts that need a slot get one each that is unused, if there are        *)
(* enough, and the others keep theirs.                                        *)
LEMMA SlotsAreAssigned ==
  ASSUME NEW prev \in [Fingers -> Slots \cup {0}], NEW touch \in SUBSET Fingers, NEW unused \in SUBSET Slots,
         \A f, g \in Fingers : prev[f] = prev[g] /\ prev[f] # 0 => f = g,
         \A f \in Fingers : prev[f] \notin unused,
         Cardinality({f \in touch : prev[f] = 0}) <= Cardinality(unused)
  PROVE  LET after == Assign(prev, touch, unused) IN
         /\ after \in [Fingers -> Slots \cup {0}]
         /\ \A f \in Fingers : after[f] = 0 <=> f \notin touch
         /\ \A f \in touch : prev[f] # 0 => after[f] = prev[f]
         /\ \A f \in touch : prev[f] = 0 => after[f] \in unused
         /\ \A f, g \in Fingers : after[f] = after[g] /\ after[f] # 0 => f = g
  <1> DEFINE new == {f \in touch : prev[f] = 0}
             before(f) == {g \in new : g < f}
             slot(f) == CHOOSE s \in unused : Cardinality({u \in unused : u < s}) = Cardinality(before(f))
             later == Assign(prev, touch, unused)
  <1>1. /\ Fingers \subseteq Nat /\ IsFiniteSet(Fingers) /\ MAX_TOUCHPAD_CONTACTS \in Nat
        /\ Slots \subseteq Nat \ {0} /\ IsFiniteSet(Slots)
    BY VirtualAssumption, FS_Interval DEF Slots
  <1>2. IsFiniteSet(new) /\ IsFiniteSet(unused) /\ Cardinality(new) \in Nat /\ Cardinality(unused) \in Nat
    <2>1. new \in SUBSET Fingers
      OBVIOUS
    <2> QED  BY <1>1, <2>1, FS_Subset, FS_CardinalityType
  <1>3. ASSUME NEW f \in new
        PROVE  /\ IsFiniteSet(before(f)) /\ Cardinality(before(f)) \in 0 .. (Cardinality(unused) - 1)
               /\ slot(f) \in unused /\ Cardinality({u \in unused : u < slot(f)}) = Cardinality(before(f))
    <2>1. before(f) \in SUBSET new /\ f \notin before(f)
      BY <1>1
    <2>2. /\ IsFiniteSet(before(f)) /\ Cardinality(before(f)) <= Cardinality(new)
          /\ Cardinality(new) = Cardinality(before(f)) => new = before(f)
      BY <1>2, <2>1, FS_Subset
    <2>3. Cardinality(before(f)) \in Nat
      BY <2>2, FS_CardinalityType
    <2>4. Cardinality(before(f)) # Cardinality(new)
      BY <2>1, <2>2
    <2>5. Cardinality(new) <= Cardinality(unused)
      OBVIOUS
    <2>6. Cardinality(before(f)) \in 0 .. (Cardinality(unused) - 1)
      <3> HIDE DEF before, new
      <3> QED  BY <1>2, <2>2, <2>3, <2>4, <2>5
    <2>7. \E s \in unused : Cardinality({u \in unused : u < s}) = Cardinality(before(f))
      <3>1. unused \in SUBSET Nat
        BY <1>1
      <3> HIDE DEF before, new
      <3> QED  BY <1>2, <2>6, <3>1, RankedElement
    <2> QED  BY <2>2, <2>6, <2>7
  <1>4. ASSUME NEW f \in new, NEW g \in new, f # g PROVE slot(f) # slot(g)
    <2>1. ASSUME NEW a \in new, NEW b \in new, a < b PROVE Cardinality(before(a)) # Cardinality(before(b))
      <3>3. a \in Nat /\ b \in Nat /\ ~(a < a) /\ \A u \in new : u \in Nat
        BY <1>1
      <3>4. \A u \in new : u < a => u < b
        BY <2>1, <3>3
      <3>1. before(a) \in SUBSET before(b) /\ a \in before(b) /\ a \notin before(a)
        BY <2>1, <3>3, <3>4
      <3>2. Cardinality(before(b)) = Cardinality(before(a)) => before(b) = before(a)
        BY <1>3, <3>1, FS_Subset
      <3> QED  BY <3>1, <3>2
    <2>2. f < g \/ g < f
      BY <1>1, <1>4
    <2>3. Cardinality(before(f)) # Cardinality(before(g))
      <3> HIDE DEF before, new
      <3> QED  BY <2>1, <2>2
    <2> HIDE DEF slot, before, new
    <2> QED  BY <1>3, <2>3
  <1>5. later = [f \in Fingers |-> IF f \notin touch THEN 0 ELSE IF f \in new THEN slot(f) ELSE prev[f]]
    BY DEF Assign
  <1> HIDE DEF slot, later
  <1>6. /\ \A f \in Fingers \ touch : later[f] = 0
        /\ \A f \in touch : prev[f] = 0 => later[f] = slot(f) /\ later[f] \in unused
        /\ \A f \in touch : prev[f] # 0 => later[f] = prev[f]
    BY <1>3, <1>5
  <1>7. \A f \in Fingers : (later[f] = 0 <=> f \notin touch) /\ later[f] \in Slots \cup {0}
    BY <1>1, <1>6
  <1>8. later \in [Fingers -> Slots \cup {0}]
    BY <1>5, <1>7
  <1>9. ASSUME NEW f \in Fingers, NEW g \in Fingers, later[f] = later[g], later[f] # 0 PROVE f = g
    <2>1. f \in touch /\ g \in touch
      BY <1>7, <1>9
    <2>2. CASE prev[f] = 0 /\ prev[g] = 0
      BY <1>4, <1>6, <1>9, <2>1, <2>2
    <2>3. CASE prev[f] # 0 /\ prev[g] # 0
      BY <1>6, <1>9, <2>1, <2>3
    <2>4. CASE prev[f] = 0 /\ prev[g] # 0
      BY <1>6, <1>9, <2>1, <2>4
    <2>5. CASE prev[f] # 0 /\ prev[g] = 0
      BY <1>6, <1>9, <2>1, <2>5
    <2> QED  BY <2>2, <2>3, <2>4, <2>5
  <1>10. /\ later \in [Fingers -> Slots \cup {0}]
         /\ \A f \in Fingers : later[f] = 0 <=> f \notin touch
         /\ \A f \in touch : prev[f] # 0 => later[f] = prev[f]
         /\ \A f \in touch : prev[f] = 0 => later[f] \in unused
         /\ \A f, g \in Fingers : later[f] = later[g] /\ later[f] # 0 => f = g
    BY <1>6, <1>7, <1>8, <1>9
  <1> QED  BY <1>10 DEF later

(* Contacts that are down have one slot each, so as many are unused as the    *)
(* kernel has more slots than there are contacts.                             *)
LEMMA UnusedSlots ==
  ASSUME NEW prev \in [Fingers -> Slots \cup {0}]
  PROVE  LET down == {f \in Fingers : prev[f] # 0} IN
         Cardinality(Slots \ {prev[f] : f \in Fingers}) >= MAX_TOUCHPAD_CONTACTS - Cardinality(down)
         /\ Cardinality(down) \in Nat /\ Cardinality(Slots \ {prev[f] : f \in Fingers}) \in Nat
  <1> DEFINE down == {f \in Fingers : prev[f] # 0}
             used == {prev[f] : f \in down}
             unused == Slots \ {prev[f] : f \in Fingers}
             of == [f \in down |-> prev[f]]
  <1>1. IsFiniteSet(Fingers) /\ MAX_TOUCHPAD_CONTACTS \in Nat /\ 0 \notin Slots
    BY VirtualAssumption DEF Slots
  <1>2. IsFiniteSet(Slots) /\ Cardinality(Slots) = MAX_TOUCHPAD_CONTACTS
    BY <1>1, FS_Interval DEF Slots
  <1>3. IsFiniteSet(down) /\ Cardinality(down) \in Nat
    <2>1. down \in SUBSET Fingers
      OBVIOUS
    <2> QED  BY <1>1, <2>1, FS_Subset, FS_CardinalityType
  <1>4. of \in Surjection(down, used)
    <2>1. of \in [down -> used]
      OBVIOUS
    <2>2. \A s \in used : \E f \in down : of[f] = s
      OBVIOUS
    <2> QED  BY <2>1, <2>2 DEF Surjection
  <1>5. IsFiniteSet(used) /\ Cardinality(used) <= Cardinality(down) /\ Cardinality(used) \in Nat
    BY <1>3, <1>4, FS_Surjection, FS_CardinalityType
  <1>6. IsFiniteSet(unused) /\ Cardinality(unused) \in Nat
    <2>1. unused \in SUBSET Slots
      OBVIOUS
    <2> QED  BY <1>2, <2>1, FS_Subset, FS_CardinalityType
  <1>7. unused \cup used = Slots /\ unused \cap used = {}
    <2>1. used \subseteq Slots
      OBVIOUS
    <2>2. \A s \in Slots : s \notin unused => s \in used
      <3> SUFFICES ASSUME NEW s \in Slots, s \notin unused PROVE s \in used
        OBVIOUS
      <3>1. PICK f \in Fingers : prev[f] = s
        OBVIOUS
      <3>2. f \in down
        BY <1>1, <3>1
      <3> QED  BY <3>1, <3>2
    <2>3. unused \cap used = {}
      OBVIOUS
    <2> QED  BY <2>1, <2>2, <2>3
  <1>8. MAX_TOUCHPAD_CONTACTS = Cardinality(unused) + Cardinality(used)
    <2>1. Cardinality(unused \cup used) = Cardinality(unused) + Cardinality(used) - Cardinality(unused \cap used)
      BY <1>5, <1>6, FS_Union
    <2>2. Cardinality(unused \cap used) = 0
      BY <1>7, FS_EmptySet
    <2>3. Cardinality(Slots) = Cardinality(unused) + Cardinality(used) - 0
      BY <1>7, <2>1, <2>2
    <2>4. ASSUME NEW a \in Nat, NEW b \in Nat, NEW m, m = a + b - 0 PROVE m = a + b
      BY <2>4
    <2> HIDE DEF used, unused
    <2> QED  BY <1>2, <1>5, <1>6, <2>3, <2>4
  <1> HIDE DEF used, unused, down
  <1>9. Cardinality(unused) >= MAX_TOUCHPAD_CONTACTS - Cardinality(down)
    BY <1>1, <1>3, <1>5, <1>6, <1>8
  <1> QED  BY <1>3, <1>6, <1>9 DEF unused, down

(* A report lifts, then lands: the kernel has what is down, and no slot goes  *)
(* from one contact to another in it.                                         *)
LEMMA ReportIsWritten ==
  ASSUME contacts \in [Fingers -> Slots \cup {0}], kernel_slots \in [Slots -> Fingers \cup {0}],
         SlotsMatchContacts, NEW touch \in SUBSET Fingers, touch_report(touch),
         Cardinality(touch \ contacts_down) <= MAX_TOUCHPAD_CONTACTS - Cardinality(contacts_down)
  PROVE  /\ contacts' \in [Fingers -> Slots \cup {0}] /\ kernel_slots' \in [Slots -> Fingers \cup {0}]
         /\ SlotsMatchContacts' /\ contacts_down' = touch /\ SlotLiftsFirst
  <1> DEFINE unused == Slots \ {contacts[f] : f \in Fingers}
  <1>1. /\ 0 \notin Slots /\ 0 \notin Fingers /\ Fingers \subseteq Nat /\ Slots \subseteq Nat
        /\ MAX_TOUCHPAD_CONTACTS \in Nat /\ IsFiniteSet(Fingers)
    BY VirtualAssumption DEF Slots
  <1>2. \A f, g \in Fingers : contacts[f] = contacts[g] /\ contacts[f] # 0 => f = g
    <2> SUFFICES ASSUME NEW f \in Fingers, NEW g \in Fingers, contacts[f] = contacts[g], contacts[f] # 0 PROVE f = g
      OBVIOUS
    <2>1. contacts[f] \in Slots
      OBVIOUS
    <2>2. kernel_slots[contacts[f]] = f /\ kernel_slots[contacts[f]] = g
      BY <2>1 DEF SlotsMatchContacts
    <2> QED  BY <2>2
  <1>3. Cardinality({f \in touch : contacts[f] = 0}) <= Cardinality(unused)
    <2>1. {f \in touch : contacts[f] = 0} = touch \ contacts_down
      BY DEF contacts_down
    <2>2. /\ Cardinality(unused) >= MAX_TOUCHPAD_CONTACTS - Cardinality(contacts_down)
          /\ Cardinality(contacts_down) \in Nat /\ Cardinality(unused) \in Nat
      BY UnusedSlots DEF contacts_down
    <2>3. Cardinality(touch \ contacts_down) \in Nat
      <3>1. touch \ contacts_down \in SUBSET Fingers
        OBVIOUS
      <3> QED  BY <1>1, <3>1, FS_Subset, FS_CardinalityType
    <2>4. ASSUME NEW n \in Nat, NEW u \in Nat, NEW d \in Nat, NEW m \in Nat, n <= m - d, u >= m - d PROVE n <= u
      BY <2>4
    <2>5. Cardinality(touch \ contacts_down) <= Cardinality(unused)
      <3> HIDE DEF unused
      <3> QED  BY <1>1, <2>2, <2>3, <2>4
    <2> HIDE DEF unused
    <2> QED  BY <2>1, <2>5
  <1>4. contacts' = Assign(contacts, touch, unused)
    BY DEF touch_report, plan_touchpad_report
  <1>5. unused \in SUBSET Slots /\ \A f \in Fingers : contacts[f] \notin unused
    OBVIOUS
  <1> HIDE DEF unused
  <1>6. /\ contacts' \in [Fingers -> Slots \cup {0}]
        /\ \A f \in Fingers : contacts'[f] = 0 <=> f \notin touch
        /\ \A f \in touch : contacts[f] # 0 => contacts'[f] = contacts[f]
        /\ \A f \in touch : contacts[f] = 0 => contacts'[f] \in unused
        /\ \A f, g \in Fingers : contacts'[f] = contacts'[g] /\ contacts'[f] # 0 => f = g
    BY <1>2, <1>3, <1>4, <1>5, SlotsAreAssigned
  <1> DEFINE lands(f, s) == contacts'[f] = s /\ contacts[f] = 0
             lifts(f, s) == contacts[f] = s /\ contacts'[f] = 0
  <1>7. kernel_slots' =
          [s \in Slots |-> IF \E f \in Fingers : lands(f, s) THEN CHOOSE f \in Fingers : lands(f, s)
                           ELSE IF \E f \in Fingers : lifts(f, s) THEN 0 ELSE kernel_slots[s]]
    BY DEF touch_report, written_report
  <1> HIDE DEF lands, lifts
  <1>8. ASSUME NEW s \in Slots
        PROVE  \/ \E f \in Fingers : lands(f, s) /\ kernel_slots'[s] = f
               \/ /\ \A f \in Fingers : ~lands(f, s)
                  /\ \E f \in Fingers : lifts(f, s)
                  /\ kernel_slots'[s] = 0
               \/ /\ \A f \in Fingers : ~lands(f, s) /\ ~lifts(f, s)
                  /\ kernel_slots'[s] = kernel_slots[s]
    BY <1>7
  <1> USE DEF lands, lifts
  <1>9. ASSUME NEW s \in Slots
        PROVE  /\ kernel_slots'[s] \in Fingers \cup {0}
               /\ kernel_slots[s] # 0 => kernel_slots'[s] \in {0, kernel_slots[s]}
               /\ \A f \in Fingers : kernel_slots'[s] = f <=> contacts'[f] = s
    <2>0. s # 0
      BY <1>1
    <2>1. CASE \E f \in Fingers : lands(f, s) /\ kernel_slots'[s] = f
      <3>1. PICK h \in Fingers : lands(h, s) /\ kernel_slots'[s] = h
        BY <2>1
      <3>2. h \in touch /\ s \in unused
        BY <1>6, <2>0, <3>1
      <3>3. kernel_slots[s] = 0
        BY <1>5, <3>2 DEF SlotsMatchContacts
      <3>4. \A f \in Fingers : kernel_slots'[s] = f <=> contacts'[f] = s
        BY <1>6, <2>0, <3>1
      <3> QED  BY <3>1, <3>3, <3>4
    <2>2. CASE /\ \A f \in Fingers : ~lands(f, s)
               /\ \E f \in Fingers : lifts(f, s)
               /\ kernel_slots'[s] = 0
      <3>1. PICK g \in Fingers : lifts(g, s)
        BY <2>2
      <3>2. ASSUME NEW f \in Fingers, contacts'[f] = s PROVE FALSE
        <4>1. f \in touch /\ contacts[f] # 0
          BY <1>6, <2>0, <2>2, <3>2
        <4>2. contacts[f] = s
          BY <1>6, <3>2, <4>1
        <4>3. f = g
          BY <1>2, <2>0, <3>1, <4>2
        <4> QED  BY <2>0, <3>1, <3>2, <4>3
      <3> QED  BY <1>1, <2>2, <3>2
    <2>3. CASE /\ \A f \in Fingers : ~lands(f, s) /\ ~lifts(f, s)
               /\ kernel_slots'[s] = kernel_slots[s]
      <3>1. ASSUME NEW f \in Fingers PROVE contacts[f] = s <=> contacts'[f] = s
        BY <1>6, <2>0, <2>3
      <3>2. \A f \in Fingers : kernel_slots[s] = f <=> contacts[f] = s
        BY DEF SlotsMatchContacts
      <3> QED  BY <2>3, <3>1, <3>2
    <2> QED  BY <1>8, <2>1, <2>2, <2>3
  <1>10. kernel_slots' \in [Slots -> Fingers \cup {0}]
    BY <1>7, <1>9
  <1>11. SlotsMatchContacts' /\ SlotLiftsFirst
    BY <1>9 DEF SlotsMatchContacts, SlotLiftsFirst
  <1>12. contacts_down' = touch
    BY <1>6 DEF contacts_down
  <1> QED  BY <1>6, <1>10, <1>11, <1>12

-----------------------------------------------------------------------------
(* The keyboard. A remap is in order, and stays so as keys go down and up.    *)
SoundRemap(m) == m \in Remaps /\ RemapInv(m)

LEMMA FieldsOfRemap ==
  ASSUME NEW m \in Remaps
  PROVE  /\ m.mode \in KeyboardModes /\ m.terminal \in BOOLEAN /\ m.busy \in BOOLEAN
         /\ m.physical \subseteq Usages /\ m.deferred \subseteq Usages /\ m.bound \subseteq Usages
         /\ m.owners \in [Usages -> SUBSET Usages]
         /\ m = [mode |-> m.mode, terminal |-> m.terminal, busy |-> m.busy, physical |-> m.physical,
                 deferred |-> m.deferred, owners |-> m.owners, bound |-> m.bound]
  BY DEF Remaps

(* A remap whose owners, bound keys and held-back keys are new.               *)
Changed(m, n) == n.mode = m.mode /\ n.terminal = m.terminal /\ n.physical = m.physical

RemapWith(m, deferred, owners, bound, busy) ==
  [m EXCEPT !.deferred = deferred, !.owners = owners, !.bound = bound, !.busy = busy]

(* What the new ones must be, and what the remap then is.                     *)
Fitting(m, deferred, owners, bound, busy) ==
  /\ m \in Remaps /\ deferred \in SUBSET Usages /\ owners \in [Usages -> SUBSET Usages]
  /\ bound \in SUBSET Usages /\ busy \in BOOLEAN
  /\ deferred \subseteq m.physical \cap Modifiers /\ \A u \in Usages : owners[u] \subseteq m.physical
  /\ bound \subseteq {u \in Usages : owners[u] # {}}

Refilled(m, n, deferred, owners, bound, busy) ==
  /\ SoundRemap(n) /\ Changed(m, n) /\ n.deferred = deferred /\ n.owners = owners /\ n.bound = bound
  /\ n.busy = busy

LEMMA OrderIsKept ==
  ASSUME NEW m, NEW deferred, NEW owners, NEW bound, NEW busy, Fitting(m, deferred, owners, bound, busy)
  PROVE  Refilled(m, RemapWith(m, deferred, owners, bound, busy), deferred, owners, bound, busy)
  <1> DEFINE n == RemapWith(m, deferred, owners, bound, busy)
  <1>0. /\ m \in Remaps /\ deferred \in SUBSET Usages /\ owners \in [Usages -> SUBSET Usages]
        /\ bound \in SUBSET Usages /\ busy \in BOOLEAN
        /\ deferred \subseteq m.physical \cap Modifiers /\ \A u \in Usages : owners[u] \subseteq m.physical
        /\ bound \subseteq {u \in Usages : owners[u] # {}}
    BY DEF Fitting
  <1>1. /\ n.mode = m.mode /\ n.terminal = m.terminal /\ n.busy = busy /\ n.physical = m.physical
        /\ n.deferred = deferred /\ n.owners = owners /\ n.bound = bound
    BY <1>0 DEF Remaps, RemapWith
  <1>2. n \in Remaps
    BY <1>0 DEF Remaps, RemapWith
  <1> HIDE DEF n
  <1>3. RemapInv(n)
    BY <1>0, <1>1 DEF RemapInv, injected
  <1>4. Refilled(m, n, deferred, owners, bound, busy)
    BY <1>1, <1>2, <1>3 DEF SoundRemap, Changed, Refilled
  <1> QED  BY <1>4 DEF n

(* Held modifiers press what they stand for: nothing more is released.        *)
LEMMA DefaultsAreOwned ==
  ASSUME NEW m, SoundRemap(m), NEW hs \in SUBSET m.physical
  PROVE  LET n == own_defaults(m, hs) IN
         /\ SoundRemap(n) /\ Changed(m, n) /\ n.deferred = m.deferred /\ n.bound = m.bound /\ n.busy = m.busy
         /\ injected(m) \subseteq injected(n)
  <1> DEFINE n == own_defaults(m, hs)
             owners == [u \in Usages |-> m.owners[u] \cup {h \in hs : default_output(m.mode, h) = u}]
  <1>1. /\ m \in Remaps /\ m.physical \subseteq Usages /\ m.deferred \subseteq Usages /\ m.bound \subseteq Usages
        /\ m.owners \in [Usages -> SUBSET Usages] /\ m.busy \in BOOLEAN
        /\ m.deferred \subseteq m.physical \cap Modifiers /\ \A u \in Usages : m.owners[u] \subseteq m.physical
        /\ m.bound \subseteq {u \in Usages : m.owners[u] # {}}
    BY FieldsOfRemap DEF SoundRemap, RemapInv, injected
  <1>2. owners \in [Usages -> SUBSET Usages] /\ \A u \in Usages : owners[u] \subseteq m.physical
    <2>1. \A u \in Usages : m.owners[u] \cup {h \in hs : default_output(m.mode, h) = u} \in SUBSET m.physical
      BY <1>1
    <2> QED  BY <1>1, <2>1
  <1>3. \A u \in Usages : m.owners[u] \subseteq owners[u]
    OBVIOUS
  <1>4. n = RemapWith(m, m.deferred, owners, m.bound, m.busy)
    <2>1. n = [m EXCEPT !.owners = owners]
      BY DEF own_defaults
    <2> QED  BY <1>1, <2>1 DEF Remaps, RemapWith
  <1> HIDE DEF n, owners
  <1>5. m.bound \subseteq {u \in Usages : owners[u] # {}}
    BY <1>1, <1>3
  <1>6. SoundRemap(n) /\ Changed(m, n) /\ n.deferred = m.deferred /\ n.owners = owners /\ n.bound = m.bound /\ n.busy = m.busy
    <2>1. Fitting(m, m.deferred, owners, m.bound, m.busy)
      BY <1>1, <1>2, <1>4, <1>5 DEF Fitting
    <2>2. Refilled(m, RemapWith(m, m.deferred, owners, m.bound, m.busy), m.deferred, owners, m.bound, m.busy)
      BY <2>1, OrderIsKept
    <2>3. Refilled(m, n, m.deferred, owners, m.bound, m.busy)
      BY <1>4, <2>2
    <2> QED  BY <2>3 DEF Refilled
  <1>7. injected(m) \subseteq injected(n)
    BY <1>3, <1>6 DEF injected
  <1> QED  BY <1>6, <1>7 DEF n

LEMMA KeyIsOwned ==
  ASSUME NEW m, SoundRemap(m), NEW goes, NEW by \in m.physical
  PROVE  LET n == own(m, goes, by) IN
         /\ SoundRemap(n) /\ Changed(m, n) /\ n.deferred = m.deferred /\ n.bound = m.bound
  <1> DEFINE n == own(m, goes, by)
             owners == [m.owners EXCEPT ![goes] = @ \cup {by}]
  <1>1. /\ m \in Remaps /\ m.physical \subseteq Usages /\ m.deferred \subseteq Usages /\ m.bound \subseteq Usages
        /\ m.owners \in [Usages -> SUBSET Usages] /\ m.busy \in BOOLEAN
        /\ m.deferred \subseteq m.physical \cap Modifiers /\ \A u \in Usages : m.owners[u] \subseteq m.physical
        /\ m.bound \subseteq {u \in Usages : m.owners[u] # {}}
    BY FieldsOfRemap DEF SoundRemap, RemapInv, injected
  <1>2. \A u \in Usages : owners[u] = IF u = goes THEN m.owners[u] \cup {by} ELSE m.owners[u]
    BY <1>1
  <1>3. owners \in [Usages -> SUBSET Usages] /\ \A u \in Usages : owners[u] \subseteq m.physical
    <2>1. \A u \in Usages : owners[u] \in SUBSET m.physical
      BY <1>1, <1>2
    <2>2. DOMAIN owners = Usages /\ owners = [u \in Usages |-> owners[u]]
      BY <1>1
    <2> HIDE DEF owners
    <2> QED  BY <1>1, <2>1, <2>2
  <1>4. n = RemapWith(m, m.deferred, owners, m.bound, m.busy)
    <2>1. n = [m EXCEPT !.owners = owners]
      BY DEF own
    <2> QED  BY <1>1, <2>1 DEF Remaps, RemapWith
  <1> HIDE DEF n, owners
  <1>5. m.bound \subseteq {u \in Usages : owners[u] # {}}
    BY <1>1, <1>2
  <1>6. SoundRemap(n) /\ Changed(m, n) /\ n.deferred = m.deferred /\ n.bound = m.bound
    <2>1. Fitting(m, m.deferred, owners, m.bound, m.busy)
      BY <1>1, <1>3, <1>5 DEF Fitting
    <2>2. Refilled(m, RemapWith(m, m.deferred, owners, m.bound, m.busy), m.deferred, owners, m.bound, m.busy)
      BY <2>1, OrderIsKept
    <2>3. Refilled(m, n, m.deferred, owners, m.bound, m.busy)
      BY <1>4, <2>2
    <2> QED  BY <2>3 DEF Refilled
  <1> QED  BY <1>6 DEF n

(* Rules press modifiers for keys that are down.                              *)
LEMMA ModifiersAreSet ==
  ASSUME NEW m, SoundRemap(m), m.bound = {}, NEW consumed, NEW mods, NEW key_mods, NEW key \in m.physical
  PROVE  LET n == set_modifiers(m, consumed, mods, key_mods, key) IN
         SoundRemap(n) /\ Changed(m, n) /\ n.bound = {}
  <1> DEFINE n == set_modifiers(m, consumed, mods, key_mods, key)
             held == m.physical \cap Modifiers
             wanted(u) == {h \in held : IF Class[h] \in consumed THEN u \in mods
                                        ELSE u = default_output(m.mode, h)}
                          \cup (IF u \in key_mods THEN {key} ELSE {})
             owners == [u \in Usages |-> IF u \in Modifiers THEN wanted(u) ELSE m.owners[u]]
  <1>1. /\ m \in Remaps /\ m.physical \subseteq Usages /\ m.owners \in [Usages -> SUBSET Usages] /\ m.busy \in BOOLEAN
        /\ \A u \in Usages : m.owners[u] \subseteq m.physical
    BY FieldsOfRemap DEF SoundRemap, RemapInv
  <1>2. \A u \in Usages : wanted(u) \in SUBSET m.physical
    OBVIOUS
  <1>3. owners \in [Usages -> SUBSET Usages] /\ \A u \in Usages : owners[u] \subseteq m.physical
    <2> HIDE DEF wanted
    <2> QED  BY <1>1, <1>2
  <1>4. n = RemapWith(m, {}, owners, {}, m.busy)
    <2>1. n = [m EXCEPT !.deferred = {}, !.owners = owners]
      BY DEF set_modifiers
    <2> HIDE DEF n, owners
    <2> QED  BY <1>1, <2>1 DEF Remaps, RemapWith
  <1> HIDE DEF n, owners, held, wanted
  <1>5. SoundRemap(n) /\ Changed(m, n) /\ n.bound = {}
    <2>1. Fitting(m, {}, owners, {}, m.busy)
      BY <1>1, <1>3 DEF Fitting
    <2>2. Refilled(m, RemapWith(m, {}, owners, {}, m.busy), {}, owners, {}, m.busy)
      BY <2>1, OrderIsKept
    <2>3. Refilled(m, n, {}, owners, {}, m.busy)
      BY <1>4, <2>2
    <2> QED  BY <2>3 DEF Refilled
  <1> QED  BY <1>5 DEF n

(* A physical key goes down: its modifier, the rule for it, or the key.       *)
LEMMA ModifierIsPressed ==
  ASSUME NEW m, SoundRemap(m), NEW u \in m.physical, u \in Modifiers
  PROVE  SoundRemap(press_modifier(m, u)) /\ Changed(m, press_modifier(m, u))
  <1>1. CASE press_modifier(m, u) = own_defaults(m, {u})
    <2>1. {u} \in SUBSET m.physical
      OBVIOUS
    <2> QED  BY <1>1, <2>1, DefaultsAreOwned
  <1>2. CASE press_modifier(m, u) = [m EXCEPT !.deferred = @ \cup {u}]
    <2> DEFINE n == press_modifier(m, u)
               deferred == m.deferred \cup {u}
    <2>1. /\ m \in Remaps /\ m.physical \subseteq Usages /\ m.deferred \subseteq Usages /\ m.bound \subseteq Usages
          /\ m.owners \in [Usages -> SUBSET Usages] /\ m.busy \in BOOLEAN
          /\ m.deferred \subseteq m.physical \cap Modifiers /\ \A v \in Usages : m.owners[v] \subseteq m.physical
          /\ m.bound \subseteq {v \in Usages : m.owners[v] # {}}
      BY FieldsOfRemap DEF SoundRemap, RemapInv, injected
    <2>2. deferred \in SUBSET Usages /\ deferred \subseteq m.physical \cap Modifiers
      BY <2>1
    <2>3. n = RemapWith(m, deferred, m.owners, m.bound, m.busy)
      BY <1>2, <2>1 DEF Remaps, RemapWith
    <2> HIDE DEF n, deferred
    <2>4. SoundRemap(n) /\ Changed(m, n)
      <3>1. Fitting(m, deferred, m.owners, m.bound, m.busy)
        BY <2>1, <2>2 DEF Fitting
      <3>2. Refilled(m, RemapWith(m, deferred, m.owners, m.bound, m.busy), deferred, m.owners, m.bound, m.busy)
        BY <3>1, OrderIsKept
      <3>3. Refilled(m, n, deferred, m.owners, m.bound, m.busy)
        BY <2>3, <3>2
      <3> QED  BY <3>3 DEF Refilled
    <2> QED  BY <2>4 DEF n
  <1> QED  BY <1>1, <1>2 DEF press_modifier

LEMMA KeyIsPressed ==
  ASSUME NEW m, SoundRemap(m), NEW key \in m.physical
  PROVE  SoundRemap(press_key(m, key)) /\ Changed(m, press_key(m, key))
  <1>1. CASE m.bound # {}
    <2> DEFINE idle == {h \in m.physical \cap Modifiers : ~owns_any(m, h)}
               mid == own_defaults(m, idle)
               opened == [mid EXCEPT !.deferred = {}]
    <2>1. idle \in SUBSET m.physical
      OBVIOUS
    <2>2. SoundRemap(mid) /\ Changed(m, mid)
      BY <2>1, DefaultsAreOwned
    <2>3. press_key(m, key) = own(opened, key, key)
      BY <1>1 DEF press_key
    <2> HIDE DEF mid
    <2>4. /\ mid \in Remaps /\ mid.physical \subseteq Usages /\ mid.bound \subseteq Usages
          /\ mid.owners \in [Usages -> SUBSET Usages] /\ mid.busy \in BOOLEAN
          /\ \A v \in Usages : mid.owners[v] \subseteq mid.physical
          /\ mid.bound \subseteq {v \in Usages : mid.owners[v] # {}}
      BY <2>2, FieldsOfRemap DEF SoundRemap, RemapInv, injected
    <2>5. opened = RemapWith(mid, {}, mid.owners, mid.bound, mid.busy)
      BY <2>4 DEF Remaps, RemapWith
    <2> HIDE DEF opened
    <2>6. SoundRemap(opened) /\ Changed(mid, opened)
      <3>1. Fitting(mid, {}, mid.owners, mid.bound, mid.busy)
        BY <2>4 DEF Fitting
      <3>2. Refilled(mid, RemapWith(mid, {}, mid.owners, mid.bound, mid.busy), {}, mid.owners, mid.bound, mid.busy)
        BY <3>1, OrderIsKept
      <3>3. Refilled(mid, opened, {}, mid.owners, mid.bound, mid.busy)
        BY <2>5, <3>2
      <3> QED  BY <3>3 DEF Refilled
    <2>7. key \in opened.physical
      BY <2>2, <2>6 DEF Changed
    <2>8. SoundRemap(own(opened, key, key)) /\ Changed(opened, own(opened, key, key))
      BY <2>6, <2>7, KeyIsOwned
    <2> QED  BY <2>2, <2>3, <2>6, <2>8 DEF Changed
  <1>2. CASE m.bound = {}
    <2> DEFINE r == lookup(m, key)
               set == set_modifiers(m, r.held, r.mods, r.key_mods, key)
               goes == IF r.out = Same THEN key ELSE r.out
               pressed == own(set, goes, key)
               holds == [pressed EXCEPT !.bound = r.mods \cap injected(pressed)]
    <2>1. SoundRemap(set) /\ Changed(m, set) /\ set.bound = {}
      BY <1>2, ModifiersAreSet
    <2>2. press_key(m, key) \in {m, set, pressed, holds}
      BY <1>2 DEF press_key, press_key_Ruled
    <2> HIDE DEF set, r, goes
    <2>3. key \in set.physical
      BY <2>1 DEF Changed
    <2>4. SoundRemap(pressed) /\ Changed(set, pressed)
      BY <2>1, <2>3, KeyIsOwned
    <2> HIDE DEF pressed
    <2> DEFINE bound == r.mods \cap injected(pressed)
    <2>5. /\ pressed \in Remaps /\ pressed.deferred \subseteq Usages
          /\ pressed.owners \in [Usages -> SUBSET Usages] /\ pressed.busy \in BOOLEAN
          /\ pressed.deferred \subseteq pressed.physical \cap Modifiers
          /\ \A v \in Usages : pressed.owners[v] \subseteq pressed.physical
          /\ bound \subseteq {v \in Usages : pressed.owners[v] # {}} /\ bound \in SUBSET Usages
      BY <2>4, FieldsOfRemap DEF SoundRemap, RemapInv, injected
    <2>6. holds = RemapWith(pressed, pressed.deferred, pressed.owners, bound, pressed.busy)
      BY <2>5 DEF Remaps, RemapWith
    <2> HIDE DEF holds, bound
    <2>7. SoundRemap(holds) /\ Changed(pressed, holds)
      <3>1. Fitting(pressed, pressed.deferred, pressed.owners, bound, pressed.busy)
        BY <2>5 DEF Fitting
      <3>2. Refilled(pressed, RemapWith(pressed, pressed.deferred, pressed.owners, bound, pressed.busy), pressed.deferred, pressed.owners, bound, pressed.busy)
        BY <3>1, OrderIsKept
      <3>3. Refilled(pressed, holds, pressed.deferred, pressed.owners, bound, pressed.busy)
        BY <2>6, <3>2
      <3> QED  BY <3>3 DEF Refilled
    <2> QED  BY <2>1, <2>2, <2>4, <2>7 DEF Changed
  <1> QED  BY <1>1, <1>2

(* Edges of the peer's keys and its pointer: what is physical follows them.   *)
LEMMA KeyGoesUp ==
  ASSUME NEW m, SoundRemap(m), NEW key \in Usages
  PROVE  LET n == release([m EXCEPT !.physical = @ \ {key}], key) IN
         SoundRemap(n) /\ n.physical = m.physical \ {key}
  <1> DEFINE up == [m EXCEPT !.physical = @ \ {key}]
             owners == [u \in Usages |-> m.owners[u] \ {key}]
             after == [up EXCEPT !.deferred = @ \ {key}, !.owners = [u \in Usages |-> @[u] \ {key}]]
             freed == injected(up) \ injected(after)
             n == release(up, key)
  <1>1. /\ m \in Remaps /\ m.physical \subseteq Usages /\ m.deferred \subseteq Usages /\ m.bound \subseteq Usages
        /\ m.owners \in [Usages -> SUBSET Usages]
        /\ m.deferred \subseteq m.physical \cap Modifiers /\ \A u \in Usages : m.owners[u] \subseteq m.physical
        /\ m.bound \subseteq {u \in Usages : m.owners[u] # {}}
    BY FieldsOfRemap DEF SoundRemap, RemapInv, injected
  <1>2. /\ up \in Remaps /\ up.physical = m.physical \ {key} /\ up.deferred = m.deferred /\ up.bound = m.bound
        /\ up.owners = m.owners
    BY <1>1 DEF Remaps
  <1> HIDE DEF up
  <1>3. owners \in [Usages -> SUBSET Usages] /\ \A u \in Usages : owners[u] = m.owners[u] \ {key}
    BY <1>1
  <1>4. /\ after \in Remaps /\ after.physical = up.physical /\ after.deferred = m.deferred \ {key}
        /\ after.bound = m.bound /\ after.owners = owners
    <2>1. after = [up EXCEPT !.deferred = m.deferred \ {key}, !.owners = owners]
      BY <1>2 DEF Remaps
    <2>2. m.deferred \ {key} \in SUBSET Usages
      BY <1>1
    <2> HIDE DEF after, owners
    <2> QED  BY <1>2, <1>3, <2>1, <2>2 DEF Remaps
  <1>5. n = [after EXCEPT !.bound = IF freed \cap after.bound = {} THEN after.bound ELSE {}]
    <2>1. n = [after EXCEPT !.bound = IF freed \cap @ = {} THEN @ ELSE {}]
      BY DEF release
    <2> HIDE DEF n, after, freed
    <2> QED  BY <1>4, <2>1 DEF Remaps
  <1> HIDE DEF n, after, owners, freed
  <1>6. /\ n \in Remaps /\ n.physical = m.physical \ {key} /\ n.deferred = m.deferred \ {key} /\ n.owners = owners
        /\ n.bound = IF freed \cap m.bound = {} THEN m.bound ELSE {}
    BY <1>1, <1>2, <1>4, <1>5 DEF Remaps
  <1>7. m.bound \subseteq injected(up) /\ injected(n) = injected(after)
    BY <1>1, <1>2, <1>4, <1>6 DEF injected
  <1>8. n.bound \subseteq injected(n)
    BY <1>6, <1>7 DEF freed
  <1>9. n.deferred \subseteq n.physical \cap Modifiers /\ \A u \in Usages : n.owners[u] \subseteq n.physical
    BY <1>1, <1>3, <1>6
  <1>10. SoundRemap(n) /\ n.physical = m.physical \ {key}
    BY <1>6, <1>8, <1>9 DEF SoundRemap, RemapInv
  <1> QED  BY <1>10 DEF n, up

LEMMA KeyGoesDown ==
  ASSUME NEW m, SoundRemap(m), NEW key \in Usages
  PROVE  LET down == [m EXCEPT !.physical = @ \cup {key}] IN
         SoundRemap(down) /\ down.physical = m.physical \cup {key}
  <1> DEFINE down == [m EXCEPT !.physical = @ \cup {key}]
  <1>1. /\ m \in Remaps /\ m.physical \subseteq Usages
        /\ m.deferred \subseteq m.physical \cap Modifiers /\ \A u \in Usages : m.owners[u] \subseteq m.physical
        /\ m.bound \subseteq injected(m)
    BY FieldsOfRemap DEF SoundRemap, RemapInv
  <1>2. /\ down \in Remaps /\ down.physical = m.physical \cup {key} /\ down.deferred = m.deferred
        /\ down.bound = m.bound /\ down.owners = m.owners
    BY <1>1 DEF Remaps
  <1> HIDE DEF down
  <1>3. RemapInv(down)
    BY <1>1, <1>2 DEF RemapInv, injected
  <1>4. SoundRemap(down) /\ down.physical = m.physical \cup {key}
    BY <1>2, <1>3 DEF SoundRemap
  <1> QED  BY <1>4 DEF down

LEMMA KeyIsRemapped ==
  ASSUME NEW m, SoundRemap(m), NEW key \in Usages, NEW pressed \in BOOLEAN
  PROVE  LET n == remap_key(m, key, pressed) IN
         SoundRemap(n) /\ n.physical = IF pressed THEN m.physical \cup {key} ELSE m.physical \ {key}
  <1> DEFINE n == remap_key(m, key, pressed)
             down == [m EXCEPT !.physical = @ \cup {key}]
  <1>1. CASE (key \in m.physical) = pressed
    <2>1. n = m
      BY <1>1 DEF remap_key
    <2>2. pressed => m.physical = m.physical \cup {key}
      BY <1>1
    <2>3. ~pressed => m.physical = m.physical \ {key}
      BY <1>1
    <2> HIDE DEF n
    <2>4. SoundRemap(n) /\ n.physical = IF pressed THEN m.physical \cup {key} ELSE m.physical \ {key}
      BY <2>1, <2>2, <2>3
    <2> QED  BY <2>4 DEF n
  <1>2. CASE (key \in m.physical) # pressed /\ pressed
    <2>1. SoundRemap(down) /\ down.physical = m.physical \cup {key}
      BY KeyGoesDown
    <2>2. n = IF key \in Modifiers THEN press_modifier(down, key) ELSE press_key(down, key)
      BY <1>2 DEF remap_key
    <2> HIDE DEF down, n
    <2>3. SoundRemap(n) /\ Changed(down, n)
      <3>1. key \in down.physical
        BY <2>1
      <3>2. CASE key \in Modifiers
        <4>1. n = press_modifier(down, key)
          BY <2>2, <3>2
        <4>2. SoundRemap(press_modifier(down, key)) /\ Changed(down, press_modifier(down, key))
          BY <2>1, <3>1, <3>2, ModifierIsPressed
        <4> QED  BY <4>1, <4>2
      <3>3. CASE key \notin Modifiers
        <4>1. n = press_key(down, key)
          BY <2>2, <3>3
        <4>2. SoundRemap(press_key(down, key)) /\ Changed(down, press_key(down, key))
          BY <2>1, <3>1, KeyIsPressed
        <4> QED  BY <4>1, <4>2
      <3> QED  BY <3>2, <3>3
    <2>4. SoundRemap(n) /\ n.physical = m.physical \cup {key}
      BY <2>1, <2>3 DEF Changed
    <2> QED  BY <1>2, <2>4 DEF n
  <1>3. CASE (key \in m.physical) # pressed /\ ~pressed
    <2>1. n = release([m EXCEPT !.physical = @ \ {key}], key)
      BY <1>3 DEF remap_key
    <2> HIDE DEF n
    <2>2. SoundRemap(n) /\ n.physical = m.physical \ {key}
      BY <2>1, KeyGoesUp
    <2> QED  BY <1>3, <2>2 DEF n
  <1> QED  BY <1>1, <1>2, <1>3

LEMMA PointerIsRemapped ==
  ASSUME NEW m, SoundRemap(m), NEW pressed \in BOOLEAN, NEW busy \in BOOLEAN
  PROVE  SoundRemap(remap_pointer(m, pressed, busy)) /\ remap_pointer(m, pressed, busy).physical = m.physical
  <1> DEFINE n == remap_pointer(m, pressed, busy)
             mid == IF pressed THEN own_defaults(m, m.deferred) ELSE m
             held == IF pressed THEN {} ELSE mid.deferred
  <1>1. SoundRemap(mid) /\ Changed(m, mid)
    <2>1. m.deferred \in SUBSET m.physical
      BY DEF SoundRemap, RemapInv
    <2>2. SoundRemap(own_defaults(m, m.deferred)) /\ Changed(m, own_defaults(m, m.deferred))
      BY <2>1, DefaultsAreOwned
    <2>3. Changed(m, m)
      BY DEF Changed
    <2> QED  BY <2>2, <2>3
  <1>2. n = [mid EXCEPT !.deferred = held, !.busy = busy]
    <2>1. mid \in Remaps
      BY <1>1 DEF SoundRemap
    <2>2. CASE pressed
      BY <2>2 DEF remap_pointer
    <2>3. CASE ~pressed
      <3>1. n = [mid EXCEPT !.busy = busy] /\ held = mid.deferred
        BY <2>3 DEF remap_pointer
      <3> HIDE DEF n, mid, held
      <3> QED  BY <2>1, <3>1 DEF Remaps
    <2> QED  BY <2>2, <2>3
  <1> HIDE DEF mid, n
  <1>3. /\ mid \in Remaps /\ mid.physical \subseteq Usages /\ mid.deferred \subseteq Usages /\ mid.bound \subseteq Usages
        /\ mid.owners \in [Usages -> SUBSET Usages]
        /\ mid.deferred \subseteq mid.physical \cap Modifiers /\ \A u \in Usages : mid.owners[u] \subseteq mid.physical
        /\ mid.bound \subseteq {u \in Usages : mid.owners[u] # {}}
    BY <1>1, FieldsOfRemap DEF SoundRemap, RemapInv, injected
  <1>4. held \subseteq mid.deferred
    OBVIOUS
  <1> HIDE DEF held
  <1>5. n = RemapWith(mid, held, mid.owners, mid.bound, busy)
    BY <1>2, <1>3 DEF Remaps, RemapWith
  <1>6. SoundRemap(n) /\ Changed(mid, n)
    <2>1. Fitting(mid, held, mid.owners, mid.bound, busy)
      BY <1>3, <1>4 DEF Fitting
    <2>2. Refilled(mid, RemapWith(mid, held, mid.owners, mid.bound, busy), held, mid.owners, mid.bound, busy)
      BY <2>1, OrderIsKept
    <2>3. Refilled(mid, n, held, mid.owners, mid.bound, busy)
      BY <1>5, <2>2
    <2> QED  BY <2>3 DEF Refilled
  <1>7. SoundRemap(n) /\ n.physical = m.physical
    BY <1>1, <1>6 DEF Changed
  <1> QED  BY <1>7 DEF n

(* A remap that starts anew holds nothing.                                    *)
LEMMA RemapStartsEmpty ==
  ASSUME NEW m \in Remaps, NEW mode \in KeyboardModes, NEW n \in {KeyRemap(mode), reset(m, mode)}
  PROVE  SoundRemap(n) /\ n.physical = {} /\ injected(n) = {}
  <1>1. /\ n.mode = mode /\ n.terminal \in BOOLEAN /\ n.busy = FALSE /\ n.physical = {} /\ n.deferred = {}
        /\ n.owners = [u \in Usages |-> {}] /\ n.bound = {} /\ n \in Remaps
    <2>1. /\ m.terminal \in BOOLEAN /\ [u \in Usages |-> {}] \in [Usages -> SUBSET Usages]
          /\ {} \in SUBSET Usages
      BY FieldsOfRemap
    <2>2. n = [mode |-> mode, terminal |-> n.terminal, busy |-> FALSE, physical |-> {}, deferred |-> {},
               owners |-> [u \in Usages |-> {}], bound |-> {}]
          /\ n.terminal \in BOOLEAN
      <3>1. CASE n = KeyRemap(mode)
        BY <3>1 DEF KeyRemap
      <3>2. CASE n = reset(m, mode)
        BY <2>1, <3>2 DEF KeyRemap, reset
      <3> QED  BY <3>1, <3>2
    <2> DEFINE terminal == n.terminal
               owners == [u \in Usages |-> {}]
    <2>3. n = [mode |-> mode, terminal |-> terminal, busy |-> FALSE, physical |-> {}, deferred |-> {},
               owners |-> owners, bound |-> {}]
          /\ terminal \in BOOLEAN /\ owners \in [Usages -> SUBSET Usages]
      BY <2>1, <2>2
    <2> HIDE DEF terminal, owners
    <2>4. n.owners = owners /\ n \in Remaps
      BY <2>1, <2>3 DEF Remaps
    <2> QED  BY <2>2, <2>4 DEF owners
  <1>2. injected(n) = {}
    BY <1>1 DEF injected
  <1>3. RemapInv(n)
    BY <1>1, <1>2 DEF RemapInv
  <1> QED  BY <1>1, <1>2, <1>3 DEF SoundRemap

-----------------------------------------------------------------------------
(* Each action on the virtual devices, first on the keyboard, then on touch.  *)
LEMMA NothingIsTyped ==
  KeysInv /\ UNCHANGED <<remap, keyboard, peerHolds>> /\ pointer' \in BOOLEAN => KeysInv'
  BY DEF KeysInv, KernelHoldsPeersKeys, RemapInv, injected

LEMMA RemapIsInjected ==
  ASSUME KeysInv, NEW m, SoundRemap(m), Inject(m), NEW keys \in SUBSET Usages, m.physical \subseteq keys,
         peerHolds' \in [open : BOOLEAN, keys : SUBSET Usages], peerHolds'.keys = keys, pointer' \in BOOLEAN
  PROVE  KeysInv'
  BY DEF KeysInv, KernelHoldsPeersKeys, Inject, SoundRemap, RemapInv, injected

LEMMA SoundInKeys ==
  KeysInv => /\ SoundRemap(remap) /\ remap \in Remaps /\ remap.mode \in KeyboardModes
             /\ remap.physical \subseteq peerHolds.keys /\ keyboard = injected(remap)
             /\ peerHolds.keys \in SUBSET Usages /\ pointer \in BOOLEAN
             /\ peerHolds \in [open : BOOLEAN, keys : SUBSET Usages]
  BY FieldsOfRemap DEF KeysInv, KernelHoldsPeersKeys, SoundRemap

LEMMA KeysOfPeer ==
  ASSUME KeysInv, NEW u \in PeerKeys, NEW pressed \in BOOLEAN, set_key(u, pressed) PROVE KeysInv'
  <1> DEFINE m == remap_key(remap, u, pressed)
             keys == IF pressed THEN peerHolds.keys \cup {u} ELSE peerHolds.keys \ {u}
  <1>1. u \in Usages
    BY VirtualAssumption
  <1>2. SoundRemap(m) /\ m.physical = IF pressed THEN remap.physical \cup {u} ELSE remap.physical \ {u}
    BY <1>1, SoundInKeys, KeyIsRemapped
  <1>3. Inject(m) /\ peerHolds' = [peerHolds EXCEPT !.keys = keys] /\ pointer' = pointer
    BY SoundInKeys DEF set_key
  <1> HIDE DEF m
  <1>4. m.physical \subseteq keys
    BY <1>2, SoundInKeys
  <1>5. keys \in SUBSET Usages
    BY <1>1, SoundInKeys
  <1> HIDE DEF keys
  <1>6. peerHolds' \in [open : BOOLEAN, keys : SUBSET Usages] /\ peerHolds'.keys = keys /\ pointer' \in BOOLEAN
    BY <1>3, <1>5, SoundInKeys
  <1> QED  BY <1>2, <1>3, <1>4, <1>5, <1>6, RemapIsInjected

LEMMA KeysUnderPointer ==
  ASSUME KeysInv, NEW pressed \in BOOLEAN, NEW busy \in BOOLEAN, Inject(remap_pointer(remap, pressed, busy)),
         UNCHANGED peerHolds, pointer' \in BOOLEAN
  PROVE  KeysInv'
  <1> DEFINE m == remap_pointer(remap, pressed, busy)
  <1>1. SoundRemap(m) /\ m.physical = remap.physical
    BY SoundInKeys, PointerIsRemapped
  <1>2. Inject(m)
    OBVIOUS
  <1> HIDE DEF m
  <1>3. m.physical \subseteq peerHolds.keys /\ peerHolds.keys \in SUBSET Usages
    BY <1>1, SoundInKeys
  <1>4. peerHolds' \in [open : BOOLEAN, keys : SUBSET Usages] /\ peerHolds'.keys = peerHolds.keys
    BY SoundInKeys
  <1> QED  BY <1>1, <1>2, <1>3, <1>4, RemapIsInjected

LEMMA KeysStartAnew ==
  ASSUME KeysInv, NEW mode \in KeyboardModes, remap' \in {KeyRemap(mode), reset(remap, mode)}, keyboard' = {},
         peerHolds' \in [open : BOOLEAN, keys : SUBSET Usages], pointer' \in BOOLEAN
  PROVE  KeysInv'
  <1>1. SoundRemap(remap') /\ remap'.physical = {} /\ injected(remap') = {}
    BY SoundInKeys, RemapStartsEmpty
  <1>2. Inject(remap')
    BY <1>1 DEF Inject
  <1>3. peerHolds'.keys \in SUBSET Usages
    OBVIOUS
  <1> QED  BY <1>1, <1>2, <1>3, RemapIsInjected

LEMMA TerminalIsSet ==
  ASSUME KeysInv, set_terminal PROVE KeysInv'
  <1> DEFINE m == [remap EXCEPT !.terminal = ~@]
  <1>1. /\ remap \in Remaps /\ RemapInv(remap)
        /\ remap' = m /\ keyboard' = keyboard /\ peerHolds' = peerHolds /\ pointer' = pointer
    BY SoundInKeys DEF set_terminal, SoundRemap
  <1>2. /\ m \in Remaps /\ m.physical = remap.physical /\ m.deferred = remap.deferred /\ m.owners = remap.owners
        /\ m.bound = remap.bound
    BY <1>1 DEF Remaps
  <1> HIDE DEF m
  <1>3. SoundRemap(m) /\ injected(m) = injected(remap)
    BY <1>1, <1>2 DEF SoundRemap, RemapInv, injected
  <1>4. Inject(m)
    BY <1>1, <1>3, SoundInKeys DEF Inject
  <1>5. m.physical \subseteq peerHolds.keys
    BY <1>2, SoundInKeys
  <1> QED  BY <1>1, <1>3, <1>4, <1>5, SoundInKeys, RemapIsInjected

LEMMA NoTouchReported ==
  ASSUME TouchInv, UNCHANGED <<contacts, kernel_slots, landing>> PROVE TouchInv' /\ SlotLiftsFirst
  BY DEF TouchInv, SlotsMatchContacts, SlotLiftsFirst, contacts_down

LEMMA TouchIsReleased ==
  ASSUME Released PROVE TouchInv' /\ SlotLiftsFirst
  <1>1. 0 \notin Slots /\ 0 \notin Fingers
    BY VirtualAssumption DEF Slots
  <1> QED  BY <1>1 DEF Released, NoTouch, NoSlots, TouchInv, SlotsMatchContacts, SlotLiftsFirst

(* Every contact that is down is in a slot, so they are no more than those.   *)
LEMMA ContactsFitSlots ==
  TouchInv => /\ Cardinality(contacts_down) <= MAX_TOUCHPAD_CONTACTS
              /\ IsFiniteSet(contacts_down) /\ Cardinality(contacts_down) \in Nat
  <1> SUFFICES ASSUME TouchInv
               PROVE  /\ Cardinality(contacts_down) <= MAX_TOUCHPAD_CONTACTS
                      /\ IsFiniteSet(contacts_down) /\ Cardinality(contacts_down) \in Nat
    OBVIOUS
  <1> DEFINE used == {contacts[f] : f \in contacts_down}
             back == [s \in used |-> kernel_slots[s]]
  <1>1. MAX_TOUCHPAD_CONTACTS \in Nat /\ 0 \notin Slots
    BY VirtualAssumption DEF Slots
  <1>2. IsFiniteSet(Slots) /\ Cardinality(Slots) = MAX_TOUCHPAD_CONTACTS
    BY <1>1, FS_Interval DEF Slots
  <1>3. \A f \in contacts_down : f \in Fingers /\ contacts[f] \in Slots /\ kernel_slots[contacts[f]] = f
    <2> SUFFICES ASSUME NEW f \in contacts_down
                 PROVE  f \in Fingers /\ contacts[f] \in Slots /\ kernel_slots[contacts[f]] = f
      OBVIOUS
    <2>1. f \in Fingers /\ contacts[f] # 0
      BY DEF contacts_down
    <2>2. contacts[f] \in Slots
      BY <2>1 DEF TouchInv
    <2> QED  BY <2>1, <2>2 DEF TouchInv, SlotsMatchContacts
  <1>4. used \in SUBSET Slots
    BY <1>3
  <1>5. IsFiniteSet(used) /\ Cardinality(used) <= MAX_TOUCHPAD_CONTACTS /\ Cardinality(used) \in Nat
    BY <1>2, <1>4, FS_Subset, FS_CardinalityType
  <1>6. back \in Surjection(used, contacts_down)
    <2>1. \A s \in used : kernel_slots[s] \in contacts_down
      BY <1>3
    <2>2. back \in [used -> contacts_down]
      BY <2>1
    <2>3. \A f \in contacts_down : \E s \in used : back[s] = f
      BY <1>3
    <2> QED  BY <2>2, <2>3 DEF Surjection
  <1>7. IsFiniteSet(contacts_down) /\ Cardinality(contacts_down) <= Cardinality(used)
    BY <1>5, <1>6, FS_Surjection
  <1>8. Cardinality(contacts_down) \in Nat
    BY <1>7, FS_CardinalityType
  <1> HIDE DEF used
  <1> QED  BY <1>1, <1>5, <1>7, <1>8

LEMMA ReplacedTouch ==
  ASSUME TouchInv, landing = {}, NEW touch \in SUBSET Fingers,
         Cardinality(touch) <= MAX_TOUCHPAD_CONTACTS, replace_touch(touch)
  PROVE  TouchInv' /\ SlotLiftsFirst
  <1>1. /\ contacts \in [Fingers -> Slots \cup {0}] /\ kernel_slots \in [Slots -> Fingers \cup {0}]
        /\ SlotsMatchContacts
    BY DEF TouchInv
  <1>2. CASE contact_fits(touch)
    <2>1. touch_report(touch) /\ landing' = {}
      BY <1>2 DEF replace_touch
    <2>2. Cardinality(touch \ contacts_down) <= MAX_TOUCHPAD_CONTACTS - Cardinality(contacts_down)
      BY <1>2 DEF contact_fits
    <2>3. /\ contacts' \in [Fingers -> Slots \cup {0}] /\ kernel_slots' \in [Slots -> Fingers \cup {0}]
          /\ SlotsMatchContacts' /\ SlotLiftsFirst
      BY <1>1, <2>1, <2>2, ReportIsWritten
    <2> QED  BY <2>1, <2>3 DEF TouchInv
  <1>3. CASE ~contact_fits(touch)
    <2> DEFINE kept == touch \cap contacts_down
    <2>1. touch_report(kept) /\ landing' = {touch}
      BY <1>3 DEF replace_touch
    <2>2. kept \ contacts_down = {} /\ kept \in SUBSET Fingers
      OBVIOUS
    <2>3. Cardinality(kept \ contacts_down) = 0
      BY <2>2, FS_EmptySet
    <2>4. Cardinality(kept \ contacts_down) <= MAX_TOUCHPAD_CONTACTS - Cardinality(contacts_down)
      <3>1. /\ MAX_TOUCHPAD_CONTACTS \in Nat /\ Cardinality(contacts_down) \in Nat
            /\ Cardinality(contacts_down) <= MAX_TOUCHPAD_CONTACTS
        BY VirtualAssumption, ContactsFitSlots
      <3>2. ASSUME NEW n, n = 0, NEW d \in Nat, NEW most \in Nat, d <= most PROVE n <= most - d
        BY <3>2
      <3> HIDE DEF kept
      <3> QED  BY <2>3, <3>1, <3>2
    <2> HIDE DEF kept
    <2>5. /\ contacts' \in [Fingers -> Slots \cup {0}] /\ kernel_slots' \in [Slots -> Fingers \cup {0}]
          /\ SlotsMatchContacts' /\ contacts_down' = kept /\ SlotLiftsFirst
      BY <1>1, <2>1, <2>2, <2>4, ReportIsWritten
    <2>6. kept \subseteq touch
      BY DEF kept
    <2> QED  BY <2>1, <2>5, <2>6 DEF TouchInv
  <1> QED  BY <1>2, <1>3

LEMMA LandedTouch ==
  ASSUME TouchInv, LandTouch PROVE TouchInv' /\ SlotLiftsFirst
  <1>1. PICK touch \in landing : touch_report(touch)
    BY DEF LandTouch
  <1>2. /\ contacts \in [Fingers -> Slots \cup {0}] /\ kernel_slots \in [Slots -> Fingers \cup {0}]
        /\ SlotsMatchContacts /\ landing' = {}
        /\ touch \in SUBSET Fingers /\ contacts_down \subseteq touch /\ Cardinality(touch) <= MAX_TOUCHPAD_CONTACTS
    BY DEF TouchInv, LandTouch
  <1>3. /\ IsFiniteSet(touch) /\ Cardinality(touch) \in Nat /\ MAX_TOUCHPAD_CONTACTS \in Nat
        /\ IsFiniteSet(contacts_down) /\ Cardinality(contacts_down) \in Nat
    BY <1>2, VirtualAssumption, ContactsFitSlots, FS_Subset, FS_CardinalityType
  <1>4. Cardinality(touch \ contacts_down) = Cardinality(touch) - Cardinality(contacts_down)
    <2>1. touch \cap contacts_down = contacts_down
      BY <1>2
    <2>2. Cardinality(touch \ contacts_down) = Cardinality(touch) - Cardinality(touch \cap contacts_down)
      BY <1>3, FS_Difference
    <2> QED  BY <2>1, <2>2
  <1>5. Cardinality(touch \ contacts_down) <= MAX_TOUCHPAD_CONTACTS - Cardinality(contacts_down)
    <2>1. ASSUME NEW n, NEW c \in Nat, NEW d \in Nat, NEW most \in Nat, n = c - d, c <= most PROVE n <= most - d
      BY <2>1
    <2> QED  BY <1>2, <1>3, <1>4, <2>1
  <1>6. /\ contacts' \in [Fingers -> Slots \cup {0}] /\ kernel_slots' \in [Slots -> Fingers \cup {0}]
        /\ SlotsMatchContacts' /\ SlotLiftsFirst
    BY <1>1, <1>2, <1>5, ReportIsWritten
  <1> QED  BY <1>2, <1>6 DEF TouchInv

-----------------------------------------------------------------------------
(* Keys and touch at once. *)
LEMMA KernelStep ==
  ASSUME KernelInv, VirtualNext PROVE KernelInv' /\ SlotLiftsFirst
  <1>1. KeysInv /\ TouchInv
    BY DEF KernelInv
  <1>2. /\ SoundRemap(remap) /\ remap.mode \in KeyboardModes /\ pointer \in BOOLEAN
        /\ peerHolds \in [open : BOOLEAN, keys : SUBSET Usages]
        /\ [open |-> TRUE, keys |-> {}] \in [open : BOOLEAN, keys : SUBSET Usages]
        /\ Nobody_holds \in [open : BOOLEAN, keys : SUBSET Usages]
    BY <1>1, SoundInKeys DEF Nobody_holds
  <1>3. ASSUME NEW u \in PeerKeys, NEW pressed \in BOOLEAN, set_key(u, pressed) PROVE KernelInv' /\ SlotLiftsFirst
    <2>1. KeysInv'
      BY <1>1, <1>3, KeysOfPeer
    <2> QED  BY <1>1, <1>3, <2>1, NoTouchReported DEF KernelInv, set_key
  <1>4. ASSUME NEW pressed \in BOOLEAN, set_button(pressed) PROVE KernelInv' /\ SlotLiftsFirst
    <2>1. KeysInv'
      <3>1. (pressed \/ contacts_down # {}) \in BOOLEAN
        OBVIOUS
      <3>2. Inject(remap_pointer(remap, pressed, pressed \/ contacts_down # {})) /\ pointer' = pressed
            /\ UNCHANGED peerHolds
        BY <1>4 DEF set_button
      <3> QED  BY <1>1, <3>1, <3>2, KeysUnderPointer
    <2> QED  BY <1>1, <1>4, <2>1, NoTouchReported DEF KernelInv, set_button
  <1>5. CASE scroll
    <2>1. KeysInv'
      <3>1. (pointer \/ contacts_down # {}) \in BOOLEAN
        OBVIOUS
      <3>2. Inject(remap_pointer(remap, TRUE, pointer \/ contacts_down # {})) /\ UNCHANGED <<pointer, peerHolds>>
        BY <1>5 DEF scroll
      <3> QED  BY <1>1, <1>2, <3>1, <3>2, KeysUnderPointer
    <2> QED  BY <1>1, <1>5, <2>1, NoTouchReported DEF KernelInv, scroll
  <1>6. ASSUME NEW touch \in SUBSET Fingers, TouchReplaced(touch) PROVE KernelInv' /\ SlotLiftsFirst
    <2>1. KeysInv'
      <3>1. (touch # {} \/ pointer) \in BOOLEAN /\ (touch # {}) \in BOOLEAN
        OBVIOUS
      <3>2. Inject(remap_pointer(remap, touch # {}, touch # {} \/ pointer)) /\ UNCHANGED <<pointer, peerHolds>>
        BY <1>6 DEF TouchReplaced
      <3> QED  BY <1>1, <1>2, <3>1, <3>2, KeysUnderPointer
    <2>2. \/ landing = {} /\ Cardinality(touch) <= MAX_TOUCHPAD_CONTACTS /\ replace_touch(touch)
          \/ UNCHANGED <<contacts, kernel_slots, landing>>
      BY <1>6 DEF TouchReplaced, ready
    <2>3. TouchInv' /\ SlotLiftsFirst
      BY <1>1, <2>2, ReplacedTouch, NoTouchReported
    <2> QED  BY <2>1, <2>3 DEF KernelInv
  <1>7. ASSUME NEW mode \in KeyboardModes, begin(mode) PROVE KernelInv' /\ SlotLiftsFirst
    <2>1. KeysInv'
      <3>1. remap' = reset(remap, mode) /\ keyboard' = {} /\ peerHolds' = [open |-> TRUE, keys |-> {}]
            /\ pointer' = pointer
        BY <1>7 DEF begin
      <3> QED  BY <1>1, <1>2, <3>1, KeysStartAnew
    <2> QED  BY <1>1, <1>7, <2>1, NoTouchReported DEF KernelInv, begin
  <1>8. CASE LandTouch
    BY <1>1, <1>2, <1>8, LandedTouch, NothingIsTyped DEF KernelInv, LandTouch
  <1>9. CASE ActivationClosed \/ release_receiver_state \/ reload
    <2>1. release_all /\ peerHolds' \in {peerHolds, Nobody_holds}
      BY <1>9 DEF ActivationClosed, release_receiver_state, reload
    <2>2. Released /\ remap' = reset(remap, remap.mode) /\ keyboard' = {} /\ pointer' = FALSE
      BY <2>1 DEF release_all, Released
    <2>3. KeysInv'
      BY <1>1, <1>2, <2>1, <2>2, KeysStartAnew
    <2> QED  BY <2>2, <2>3, TouchIsReleased DEF KernelInv
  <1>10. CASE set_terminal
    BY <1>1, <1>10, TerminalIsSet, NoTouchReported DEF KernelInv, set_terminal
  <1>11. CASE EmitFails
    <2>1. Released /\ remap' = KeyRemap("Standard") /\ peerHolds' = Nobody_holds /\ keyboard' = {} /\ pointer' = FALSE
      BY <1>11 DEF EmitFails, Released
    <2>2. "Standard" \in KeyboardModes
      BY DEF KeyboardModes
    <2>3. KeysInv'
      BY <1>1, <1>2, <2>1, <2>2, KeysStartAnew
    <2> QED  BY <2>1, <2>3, TouchIsReleased DEF KernelInv
  <1>12. CASE Restarted
    BY <1>1, <1>2, <1>12, NothingIsTyped, NoTouchReported DEF KernelInv, Restarted
  <1> QED  BY <1>3, <1>4, <1>5, <1>6, <1>7, <1>8, <1>9, <1>10, <1>11, <1>12 DEF VirtualNext

LEMMA KernelUntouched == KernelInv /\ UNCHANGED virtualVars => KernelInv' /\ SlotLiftsFirst
  <1> SUFFICES ASSUME KernelInv, UNCHANGED virtualVars PROVE KernelInv' /\ SlotLiftsFirst
    OBVIOUS
  <1>1. KeysInv /\ TouchInv /\ pointer \in BOOLEAN
    BY DEF KernelInv, KeysInv
  <1>2. UNCHANGED <<remap, keyboard, peerHolds, pointer, contacts, kernel_slots, landing>>
    BY DEF virtualVars
  <1> QED  BY <1>1, <1>2, NothingIsTyped, NoTouchReported DEF KernelInv

LEMMA KernelStarts == VirtualInit => KernelInv
  <1> SUFFICES ASSUME VirtualInit PROVE KernelInv
    OBVIOUS
  <1>1. "Standard" \in KeyboardModes /\ 0 \notin Slots /\ 0 \notin Fingers
    BY VirtualAssumption DEF KeyboardModes, Slots
  <1> DEFINE fresh == KeyRemap("Standard")
  <1>2. SoundRemap(fresh) /\ fresh.physical = {} /\ injected(fresh) = {}
    <2>1. fresh \in Remaps
      BY <1>1 DEF KeyRemap, Remaps
    <2> QED  BY <1>1, <2>1, RemapStartsEmpty
  <1>3. remap = fresh /\ keyboard = {} /\ pointer = FALSE /\ peerHolds = Nobody_holds
    BY DEF VirtualInit
  <1> HIDE DEF fresh
  <1>4. KeysInv
    BY <1>2, <1>3 DEF KeysInv, KernelHoldsPeersKeys, SoundRemap, Nobody_holds
  <1>5. TouchInv
    BY <1>1 DEF VirtualInit, NoTouch, NoSlots, TouchInv, SlotsMatchContacts
  <1> QED  BY <1>4, <1>5 DEF KernelInv

(* For any keys and fingers and any number of kernel slots: nothing is down   *)
(* on the devices that the peer does not hold, whatever the remap and a       *)
(* release behind its back made of it, every slot holds the contact that      *)
(* thinks it does, and no slot goes from one contact to another within a      *)
(* report (core/keymap.rs, linux/uinput.rs).                                  *)
THEOREM DevicesHoldPeersInputAlways == MCSpec => DevicesHoldPeersInput
  <1> DEFINE Lifts == part = "Kernel" =>
                        KernelHoldsPeersKeys' /\ SlotsMatchContacts' /\ SlotLiftsFirst
  <1>1. MCInit => KernelHolds
    BY KernelStarts DEF MCInit, KernelHolds
  <1>2. KernelHolds /\ [MCNext]_plumbingVars => KernelHolds' /\ Lifts
    <2> SUFFICES ASSUME KernelHolds, [MCNext]_plumbingVars PROVE KernelHolds' /\ Lifts
      OBVIOUS
    <2>1. part' = part /\ (part = "Kernel" => VirtualNext \/ UNCHANGED virtualVars)
      BY OnePartRuns
    <2>2. part = "Kernel" => KernelInv' /\ SlotLiftsFirst
      BY <2>1, KernelStep, KernelUntouched DEF KernelHolds
    <2>3. KernelInv' => KernelHoldsPeersKeys' /\ SlotsMatchContacts'
      BY DEF KernelInv, KeysInv, TouchInv
    <2> QED  BY <2>1, <2>2, <2>3 DEF KernelHolds
  <1>3. KernelHolds => (part = "Kernel" => KernelHoldsPeersKeys /\ SlotsMatchContacts)
    BY DEF KernelHolds, KernelInv, KeysInv, TouchInv
  <1>4. Lifts => [part = "Kernel" => KernelHoldsPeersKeys' /\ SlotsMatchContacts' /\ SlotLiftsFirst]_virtualVars
    OBVIOUS
  <1> HIDE DEF Lifts
  <1> QED  BY <1>1, <1>2, <1>3, <1>4, PTL DEF MCSpec, plumbingVars, DevicesHoldPeersInput

-----------------------------------------------------------------------------
(* The pad. Button changes follow the switch one by one from where the last   *)
(* report left it; a target that posts no contacts holds the button of the    *)
(* press and no other; and what rounding left over of a gesture is what its   *)
(* counts lack.                                                              *)
PadButtons == {"left", "right", "middle"}
PadFingers == [id : Nat, x : Int]
Gestures == [kind : {"Still", "Pointer", "Scroll"}, travel : Int, started : BOOLEAN, remainder : -3 .. 3]

PadTypes ==
  /\ pad \in [slots : [PadSlots -> [id : Nat, x : Int, palm : BOOLEAN]], pressed : BOOLEAN, extra : Int]
  /\ out \in [held : SUBSET PadButtons, contacts : SUBSET PadFingers, counts : Int, exact : Int]
  /\ nextContact \in Nat /\ takes \in BOOLEAN
  /\ pointer_.fingers \in SUBSET PadFingers /\ pointer_.gesture \in Gestures
  /\ pointer_.pressed \in PadButtons \cup {"none"}

PadFollowed ==
  \/ buttons = <<>> /\ (pointer_.pressed # "none") = pad.pressed
  \/ buttons = <<pad.pressed>> /\ (pointer_.pressed # "none") = ~pad.pressed
  \/ buttons = <<~pad.pressed, pad.pressed>> /\ (pointer_.pressed # "none") = pad.pressed

PadHeld ==
  out.held = IF pointer_.pressed = "none" THEN {} ELSE IF takes THEN {"left"} ELSE {pointer_.pressed}

PadCounted ==
  IF takes THEN out.counts = 0 /\ out.exact = 0
  ELSE /\ out.exact - 4 * out.counts \in -3 .. 3
       /\ pointer_.gesture.kind # "Still" => pointer_.gesture.remainder = out.exact - 4 * out.counts

PadInv == PadTypes /\ PadFollowed /\ PadHeld /\ PadCounted

PadHolds == part = "Pad" => PadInv

(* Presses are taken one by one. *)
LEMMA PressesInOrder ==
  /\ Pressed[0] = [held |-> out.held, pressed |-> pointer_.pressed]
  /\ Pressed[1] = Press(Pressed[0], buttons[1])
  /\ Pressed[2] = Press(Pressed[1], buttons[2])
  <1> DEFINE p0 == [held |-> out.held, pressed |-> pointer_.pressed]
             p1 == Press(p0, buttons[1])
             p2 == Press(p1, buttons[2])
             p3 == Press(p2, buttons[3])
             taken == [i \in 0 .. 3 |-> IF i = 0 THEN p0 ELSE IF i = 1 THEN p1 ELSE IF i = 2 THEN p2 ELSE p3]
             Steps(f) == f = [i \in 0 .. 3 |-> IF i = 0 THEN p0 ELSE Press(f[i - 1], buttons[i])]
  <1>1. taken[0] = p0 /\ taken[1] = p1 /\ taken[2] = p2 /\ taken[3] = p3
    <2> HIDE DEF p0, p1, p2, p3
    <2> QED  OBVIOUS
  <1>2. Steps(taken)
    <2>1. \A i \in 0 .. 3 : taken[i] = IF i = 0 THEN p0 ELSE Press(taken[i - 1], buttons[i])
      <3>1. \A i \in 0 .. 3 : i = 0 \/ (i = 1 /\ i - 1 = 0) \/ (i = 2 /\ i - 1 = 1) \/ (i = 3 /\ i - 1 = 2)
        OBVIOUS
      <3>2. p1 = Press(p0, buttons[1]) /\ p2 = Press(p1, buttons[2]) /\ p3 = Press(p2, buttons[3])
        OBVIOUS
      <3> HIDE DEF p0, p1, p2, p3, taken
      <3> QED  BY <1>1, <3>1, <3>2
    <2>2. DOMAIN taken = 0 .. 3 /\ taken = [i \in 0 .. 3 |-> taken[i]]
      OBVIOUS
    <2> HIDE DEF taken, p0
    <2> QED  BY <2>1, <2>2
  <1>3. Pressed = CHOOSE f : Steps(f)
    BY DEF Pressed
  <1> HIDE DEF Steps
  <1>4. Steps(Pressed)
    BY <1>2, <1>3
  <1> HIDE DEF p0
  <1>5. Pressed[0] = p0 /\ Pressed[1] = Press(Pressed[0], buttons[1]) /\ Pressed[2] = Press(Pressed[1], buttons[2])
    BY <1>4 DEF Steps
  <1> QED  BY <1>5 DEF p0

-----------------------------------------------------------------------------
(* A press and a release of the same button.                                  *)
LEMMA OnePress ==
  ASSUME NEW was, NEW down \in BOOLEAN, was.pressed \in PadButtons \cup {"none"}, (was.pressed = "none") = down,
         was.held \in SUBSET PadButtons
  PROVE  /\ Press(was, down).pressed \in PadButtons \cup {"none"} /\ (Press(was, down).pressed # "none") = down
         /\ Press(was, down).held \in SUBSET PadButtons
         /\ was.held = {was.pressed} \ {"none"} => Press(was, down).held = {Press(was, down).pressed} \ {"none"}
  <1> DEFINE button == Clicked(finger_count, was.pressed, down)
  <1>1. button \in PadButtons /\ (~down => button = was.pressed)
    <2>1. clickfinger(finger_count) \in PadButtons
      BY DEF clickfinger, PadButtons
    <2> QED  BY <2>1 DEF Clicked
  <1>2. "none" \notin PadButtons
    BY DEF PadButtons
  <1>3. Press(was, down) = IF down THEN [held |-> was.held \cup {button}, pressed |-> button]
                          ELSE [held |-> was.held \ {button}, pressed |-> "none"]
    BY DEF Press
  <1> HIDE DEF button
  <1>4. CASE down
    <2>1. Press(was, down).held = was.held \cup {button} /\ Press(was, down).pressed = button
      BY <1>3, <1>4
    <2> QED  BY <1>1, <1>2, <1>4, <2>1
  <1>5. CASE ~down
    <2>1. Press(was, down).held = was.held \ {button} /\ Press(was, down).pressed = "none"
      BY <1>3, <1>5
    <2> QED  BY <1>1, <1>2, <1>5, <2>1
  <1> QED  BY <1>4, <1>5

LEMMA PressesFollow ==
  ASSUME PadInv
  PROVE  LET last == Pressed[Len(buttons)] IN
         /\ last.pressed \in PadButtons \cup {"none"} /\ (last.pressed # "none") = pad.pressed
         /\ last.held \in SUBSET PadButtons /\ (~takes => last.held = {last.pressed} \ {"none"})
         /\ buttons = <<>> => last.pressed = pointer_.pressed
  <1>1. /\ pad.pressed \in BOOLEAN /\ out.held \in SUBSET PadButtons
        /\ pointer_.pressed \in PadButtons \cup {"none"} /\ takes \in BOOLEAN
    BY DEF PadInv, PadTypes
  <1>2. Pressed[0].held = out.held /\ Pressed[0].pressed = pointer_.pressed
    BY PressesInOrder
  <1>3. ~takes => Pressed[0].held = {Pressed[0].pressed} \ {"none"}
    BY <1>1, <1>2 DEF PadInv, PadHeld, PadButtons
  <1>4. CASE buttons = <<>>
    <2>1. Len(buttons) = 0 /\ (pointer_.pressed # "none") = pad.pressed
      BY <1>4 DEF PadInv, PadFollowed
    <2> QED  BY <1>1, <1>2, <1>3, <2>1
  <1>5. CASE buttons = <<pad.pressed>>
    <2>1. Len(buttons) = 1 /\ buttons[1] = pad.pressed /\ buttons # <<>>
          /\ (pointer_.pressed # "none") = ~pad.pressed
      BY <1>5 DEF PadInv, PadFollowed
    <2>2. Pressed[1] = Press(Pressed[0], pad.pressed) /\ (Pressed[0].pressed = "none") = pad.pressed
      BY <1>1, <1>2, <2>1, PressesInOrder
    <2> QED  BY <1>1, <1>2, <1>3, <2>1, <2>2, OnePress
  <1>6. CASE buttons = <<~pad.pressed, pad.pressed>>
    <2>1. /\ Len(buttons) = 2 /\ buttons[1] = ~pad.pressed /\ buttons[2] = pad.pressed /\ buttons # <<>>
          /\ (pointer_.pressed # "none") = pad.pressed
      BY <1>6 DEF PadInv, PadFollowed
    <2> DEFINE flip == ~pad.pressed
    <2>2. flip \in BOOLEAN /\ buttons[1] = flip /\ (pointer_.pressed = "none") = flip
      BY <1>1, <2>1
    <2>3. Pressed[1] = Press(Pressed[0], flip) /\ (Pressed[0].pressed = "none") = flip
      BY <1>2, <2>2, PressesInOrder
    <2>6. (~flip) = pad.pressed
      BY <1>1
    <2> HIDE DEF flip
    <2>4. /\ Pressed[1].pressed \in PadButtons \cup {"none"} /\ (Pressed[1].pressed # "none") = flip
          /\ Pressed[1].held \in SUBSET PadButtons
          /\ ~takes => Pressed[1].held = {Pressed[1].pressed} \ {"none"}
      BY <1>1, <1>2, <1>3, <2>2, <2>3, OnePress
    <2>5. Pressed[2] = Press(Pressed[1], pad.pressed) /\ (Pressed[1].pressed = "none") = pad.pressed
      BY <1>1, <2>1, <2>2, <2>4, <2>6, PressesInOrder
    <2> QED  BY <1>1, <2>1, <2>4, <2>5, OnePress
  <1> QED  BY <1>4, <1>5, <1>6 DEF PadInv, PadFollowed

(* One or two fingers, as the set of them.                                    *)
LEMMA OneOrTwo ==
  ASSUME NEW S, IsFiniteSet(S), Cardinality(S) \in {1, 2}
  PROVE  \E a, b \in S : S = {a, b} /\ (Cardinality(S) = 2 => a # b)
  <1>1. CASE Cardinality(S) = 1
    <2>1. PICK a : S = {a}
      BY <1>1, FS_Singleton
    <2> QED  BY <1>1, <2>1
  <1>2. CASE Cardinality(S) = 2
    <2>1. S # {}
      BY <1>2, FS_EmptySet
    <2>2. PICK a \in S : TRUE
      BY <2>1
    <2>3. IsFiniteSet(S \ {a}) /\ Cardinality(S \ {a}) = 1
      BY <1>2, <2>2, FS_RemoveElement
    <2>4. PICK b : S \ {a} = {b}
      BY <2>3, FS_Singleton
    <2>5. b \in S /\ b # a /\ S = {a, b}
      BY <2>2, <2>4
    <2> QED  BY <2>2, <2>5
  <1> QED  BY <1>1, <1>2

LEMMA FingersOnPad ==
  PadTypes => fingers \in SUBSET PadFingers /\ IsFiniteSet(fingers)
  <1> SUFFICES ASSUME PadTypes PROVE fingers \in SUBSET PadFingers /\ IsFiniteSet(fingers)
    OBVIOUS
  <1> DEFINE touching == {t \in Active : ~pad.slots[t].palm}
             spot == [s \in touching |-> [id |-> pad.slots[s].id, x |-> pad.slots[s].x]]
  <1>1. touching \in SUBSET PadSlots
    BY DEF Active
  <1>2. IsFiniteSet(touching)
    BY <1>1, TouchpadAssumption, FS_Subset
  <1>3. \A s \in touching : [id |-> pad.slots[s].id, x |-> pad.slots[s].x] \in PadFingers
    <2>1. \A s \in PadSlots : pad.slots[s].id \in Nat /\ pad.slots[s].x \in Int
      BY DEF PadTypes
    <2> QED  BY <1>1, <2>1 DEF PadFingers
  <1>4. fingers = {spot[s] : s \in touching}
    BY DEF fingers
  <1>5. spot \in Surjection(touching, fingers)
    <2> HIDE DEF touching
    <2>1. DOMAIN spot = touching /\ spot = [s \in touching |-> spot[s]]
      OBVIOUS
    <2> HIDE DEF spot
    <2>2. spot \in [touching -> fingers] /\ \A f \in fingers : \E s \in touching : spot[s] = f
      BY <1>4, <2>1
    <2> QED  BY <2>2 DEF Surjection
  <1>6. IsFiniteSet(fingers)
    BY <1>2, <1>5, FS_Surjection
  <1> QED  BY <1>3, <1>4, <1>6

(* A gesture travels by whole numbers: everything that moves was there.       *)
LEMMA TravelIsWhole ==
  ASSUME PadTypes, Ids(fingers) = Ids(pointer_.fingers), NEW p, Kind(p) # "Still", NEW by,
         by = Travel(Kind(p))
  PROVE  by \in Int
  <1>1. ASSUME NEW f \in fingers PROVE Move(f) \in Int
    <2>1. f.id \in Ids(pointer_.fingers) /\ f.x \in Int
      BY FingersOnPad DEF Ids, PadFingers
    <2>2. \E g \in pointer_.fingers : g.id = f.id
      BY <2>1 DEF Ids
    <2>3. \A g \in pointer_.fingers : g.x \in Int
      BY DEF PadTypes, PadFingers
    <2> QED  BY <2>1, <2>2, <2>3 DEF Move
  <1>2. /\ Cardinality(fingers) \in {1, 2}
        /\ Kind(p) = "Pointer" \/ (Kind(p) = "Scroll" /\ Cardinality(fingers) = 2)
    BY DEF Kind
  <1>3. PICK a, b \in fingers : fingers = {a, b} /\ (Cardinality(fingers) = 2 => a # b)
    BY <1>2, FingersOnPad, OneOrTwo
  <1>4. CASE Kind(p) = "Pointer"
    <2> DEFINE Furthest(f) == \A g \in fingers : Dist(Move(f), 0) >= Dist(Move(g), 0)
    <2>1. \A f \in fingers : Dist(Move(f), 0) \in Int
      BY <1>1 DEF Dist
    <2>2. Furthest(a) \/ Furthest(b)
      <3>1. Dist(Move(a), 0) >= Dist(Move(b), 0) \/ Dist(Move(b), 0) >= Dist(Move(a), 0)
        BY <2>1
      <3>2. Dist(Move(a), 0) >= Dist(Move(a), 0) /\ Dist(Move(b), 0) >= Dist(Move(b), 0)
        BY <2>1
      <3>3. \A g \in fingers : g = a \/ g = b
        BY <1>3
      <3> QED  BY <3>1, <3>2, <3>3
    <2> HIDE DEF Furthest
    <2>3. (CHOOSE f \in fingers : Furthest(f)) \in fingers
      BY <2>2
    <2>4. by = 2 * Move(CHOOSE f \in fingers : Furthest(f))
      BY <1>4 DEF Travel, Furthest
    <2> DEFINE far == CHOOSE f \in fingers : Furthest(f)
    <2>5. Move(far) \in Int
      BY <1>1, <2>3
    <2>6. by = 2 * Move(far)
      BY <2>4
    <2> HIDE DEF far
    <2> QED  BY <2>5, <2>6
  <1>5. CASE Kind(p) = "Scroll" /\ Cardinality(fingers) = 2
    <2> DEFINE f == CHOOSE f \in fingers : TRUE
               g == CHOOSE g \in fingers : g # f
    <2>1. f \in fingers
      OBVIOUS
    <2> HIDE DEF f
    <2>2. g \in fingers
      BY <1>3, <1>5, <2>1
    <2>3. by = Move(f) + Move(g)
      BY <1>5 DEF Travel, f
    <2> HIDE DEF g
    <2> QED  BY <1>1, <2>1, <2>2, <2>3
  <1> QED  BY <1>2, <1>4, <1>5

(* Rounding leaves less than a count.                                         *)
LEMMA TruncLeavesLittle ==
  ASSUME NEW q \in Int PROVE Trunc(q) \in Int /\ q - 4 * Trunc(q) \in -3 .. 3
  BY DEF Trunc

LEMMA WholeIsExact ==
  ASSUME NEW g \in Gestures, NEW amount \in Int
  PROVE  LET w == whole(g, amount) IN
         /\ w.gesture \in Gestures /\ w.gesture.kind = g.kind /\ w.counts \in Int
         /\ w.gesture.remainder = g.remainder + amount - 4 * w.counts
         /\ DOMAIN w = {"gesture", "counts"}
  <1> DEFINE total == g.remainder + amount
             left == total - 4 * Trunc(total)
             w == whole(g, amount)
  <1>1. total \in Int
    BY DEF Gestures
  <1>2. w = [gesture |-> [g EXCEPT !.remainder = left], counts |-> Trunc(total)]
    BY DEF whole
  <1> HIDE DEF total, w
  <1>3. Trunc(total) \in Int /\ left \in -3 .. 3
    BY <1>1, TruncLeavesLittle
  <1> HIDE DEF left
  <1>4. w.gesture = [g EXCEPT !.remainder = left] /\ w.counts = Trunc(total) /\ DOMAIN w = {"gesture", "counts"}
    BY <1>2
  <1>5. w.gesture \in Gestures /\ w.gesture.kind = g.kind /\ w.gesture.remainder = left
    BY <1>3, <1>4 DEF Gestures
  <1>6. left = g.remainder + amount - 4 * w.counts
    BY <1>4, <1>1, <1>3 DEF left, total, Gestures
  <1> QED  BY <1>3, <1>4, <1>5, <1>6 DEF w

(* A report starts a gesture over, or waits, or counts on by what it moved.   *)
Moves(g, m) ==
  /\ m.gesture \in Gestures /\ m.counts \in Int /\ m.exact \in Int
  /\ \/ m.fresh = TRUE /\ m.gesture.remainder = 0
     \/ m.fresh = FALSE /\ m.gesture.kind = "Still" /\ m.counts = 0 /\ m.exact = 0
     \/ m.fresh = FALSE /\ g.kind # "Still" /\ m.gesture.remainder = g.remainder + m.exact - 4 * m.counts

LEMMA MotionIsCounted ==
  ASSUME PadTypes, NEW g \in Gestures, NEW p
  PROVE  Moves(g, motion(g, p))
  <1> DEFINE kind == Kind(p)
             same == finger_count = pointer_.count /\ Ids(fingers) = Ids(pointer_.fingers)
             by == Travel(kind)
             travelled == IF g.started THEN g.travel ELSE g.travel + by
             distance == 2 * (IF kind = "Pointer" THEN MOTION_START ELSE SCROLL_START)
             going == [g EXCEPT !.travel = travelled, !.started = @ \/ Dist(travelled, 0) >= distance]
             m == motion(g, p)
  <1>1. CASE kind # g.kind \/ ~same
    <2>1. m = [gesture |-> NewGesture(kind), counts |-> 0, exact |-> 0, fresh |-> TRUE]
      BY <1>1 DEF motion
    <2>2. kind \in {"Still", "Pointer", "Scroll"}
      BY DEF Kind
    <2>3. NewGesture(kind) \in Gestures /\ NewGesture(kind).remainder = 0
      BY <2>2 DEF NewGesture, Gestures
    <2> HIDE DEF m, kind
    <2>4. Moves(g, m)
      BY <2>1, <2>3 DEF Moves
    <2> QED  BY <2>4 DEF m
  <1>2. CASE kind = g.kind /\ same /\ kind = "Still"
    <2>1. m = [gesture |-> g, counts |-> 0, exact |-> 0, fresh |-> FALSE]
      BY <1>2 DEF motion
    <2> HIDE DEF m
    <2>2. m.gesture = g /\ m.counts = 0 /\ m.exact = 0 /\ m.fresh = FALSE /\ g.kind = "Still"
      BY <1>2, <2>1
    <2> HIDE DEF kind, same
    <2>3. Moves(g, m)
      BY <2>2 DEF Moves
    <2> QED  BY <2>3 DEF m
  <1>3. CASE kind = g.kind /\ same /\ kind # "Still"
    <2>1. by \in Int
      BY <1>3, TravelIsWhole
    <2>2. m = IF ~going.started THEN [gesture |-> going, counts |-> 0, exact |-> 0, fresh |-> FALSE]
              ELSE [gesture |-> whole(going, by * GainHalves).gesture,
                    counts |-> whole(going, by * GainHalves).counts,
                    exact |-> by * GainHalves, fresh |-> FALSE]
      BY <1>3 DEF motion
    <2> HIDE DEF m, by
    <2>3. travelled \in Int
      BY <2>1 DEF Gestures
    <2> HIDE DEF travelled
    <2>4. (g.started \/ Dist(travelled, 0) >= distance) \in BOOLEAN
      OBVIOUS
    <2> DEFINE started == g.started \/ Dist(travelled, 0) >= distance
    <2>5. going = [g EXCEPT !.travel = travelled, !.started = started] /\ started \in BOOLEAN
      BY <2>4 DEF Gestures
    <2> HIDE DEF going, started
    <2>6. going \in Gestures /\ going.kind = g.kind /\ going.remainder = g.remainder
      BY <2>3, <2>5 DEF Gestures
    <2>7. CASE ~going.started
      <3>1. m.gesture = going /\ m.counts = 0 /\ m.exact = 0 /\ m.fresh = FALSE
        BY <2>2, <2>7
      <3>2. g.kind # "Still" /\ g.remainder \in Int
        BY <1>3 DEF Gestures
      <3>3. m.gesture.remainder = g.remainder + m.exact - 4 * m.counts
        BY <2>6, <3>1, <3>2
      <3>4. Moves(g, m)
        BY <2>6, <3>1, <3>2, <3>3 DEF Moves
      <3> QED  BY <3>4 DEF m
    <2>8. CASE going.started
      <3> DEFINE amount == by * GainHalves
                 w == whole(going, amount)
      <3>1. amount \in Int
        BY <2>1, TouchpadAssumption
      <3>2. m = [gesture |-> w.gesture, counts |-> w.counts, exact |-> amount, fresh |-> FALSE]
        BY <2>2, <2>8
      <3> HIDE DEF amount
      <3>3. /\ w.gesture \in Gestures /\ w.gesture.kind = going.kind /\ w.counts \in Int
            /\ w.gesture.remainder = going.remainder + amount - 4 * w.counts
            /\ DOMAIN w = {"gesture", "counts"}
        BY <2>6, <3>1, WholeIsExact
      <3> HIDE DEF w
      <3>4. m.gesture = w.gesture /\ m.counts = w.counts /\ m.exact = amount /\ m.fresh = FALSE
        BY <3>2
      <3>5. g.kind # "Still"
        BY <1>3
      <3>6. m.gesture.remainder = g.remainder + m.exact - 4 * m.counts
        BY <2>6, <3>3, <3>4
      <3>7. Moves(g, m)
        BY <3>1, <3>3, <3>4, <3>5, <3>6 DEF Moves
      <3> QED  BY <3>7 DEF m
    <2> QED  BY <2>7, <2>8
  <1> QED  BY <1>1, <1>2, <1>3

-----------------------------------------------------------------------------
(* The kernel's events leave everything alone but the pad and its buttons.    *)
LEMMA EventIsFine ==
  ASSUME PadInv,
         pad' \in [slots : [PadSlots -> [id : Nat, x : Int, palm : BOOLEAN]], pressed : BOOLEAN, extra : Int],
         pad'.pressed = pad.pressed, nextContact' \in Nat, UNCHANGED <<buttons, pointer_, takes, out>>
  PROVE  PadInv'
  BY DEF PadInv, PadTypes, PadFollowed, PadHeld, PadCounted

LEMMA SlotIsFine ==
  ASSUME PadInv, NEW s \in PadSlots, NEW slot \in [id : Nat, x : Int, palm : BOOLEAN],
         pad' = [pad EXCEPT !.slots[s] = slot], nextContact' \in Nat, UNCHANGED <<buttons, pointer_, takes, out>>
  PROVE  PadInv'
  <1> DEFINE Slot == [id : Nat, x : Int, palm : BOOLEAN]
             filled == [pad.slots EXCEPT ![s] = slot]
  <1>1. /\ pad.slots \in [PadSlots -> Slot] /\ pad.pressed \in BOOLEAN /\ pad.extra \in Int
        /\ pad = [slots |-> pad.slots, pressed |-> pad.pressed, extra |-> pad.extra]
    BY DEF PadInv, PadTypes
  <1>2. filled \in [PadSlots -> Slot]
    BY <1>1
  <1>3. pad' = [slots |-> filled, pressed |-> pad.pressed, extra |-> pad.extra]
    BY <1>1
  <1> HIDE DEF filled
  <1>4. pad' \in [slots : [PadSlots -> Slot], pressed : BOOLEAN, extra : Int] /\ pad'.pressed = pad.pressed
    BY <1>1, <1>2, <1>3
  <1> QED  BY <1>4, EventIsFine

LEMMA FingerIsFine ==
  ASSUME PadInv, NEW s \in PadSlots,
         Lift(s) \/ TurnPalm(s) \/ \E x \in PadSpots : Land(s, x) \/ Slide(s, x)
  PROVE  PadInv'
  <1> DEFINE Slot == [id : Nat, x : Int, palm : BOOLEAN]
  <1>1. pad.slots \in [PadSlots -> Slot] /\ pad.slots[s] \in Slot /\ nextContact \in Nat /\ PadSpots \subseteq Int
        /\ pad = [slots |-> pad.slots, pressed |-> pad.pressed, extra |-> pad.extra]
    BY TouchpadAssumption DEF PadInv, PadTypes
  <1>2. UNCHANGED <<buttons, pointer_, takes, out>> /\ nextContact' \in Nat
    BY <1>1 DEF Land, Lift, Slide, TurnPalm, Event
  <1>3. ASSUME NEW x \in PadSpots, Land(s, x) PROVE PadInv'
    <2>1. pad' = [pad EXCEPT !.slots[s] = [id |-> nextContact, x |-> x, palm |-> FALSE]]
      BY <1>3 DEF Land
    <2>2. [id |-> nextContact, x |-> x, palm |-> FALSE] \in Slot
      BY <1>1
    <2> QED  BY <1>2, <2>1, <2>2, SlotIsFine
  <1>4. CASE Lift(s)
    <2>1. pad' = [pad EXCEPT !.slots[s] = NoContact] /\ NoContact \in Slot
      BY <1>4 DEF Lift, NoContact
    <2> QED  BY <1>2, <2>1, SlotIsFine
  <1>5. ASSUME NEW x \in PadSpots, Slide(s, x) PROVE PadInv'
    <2>1. [pad.slots[s] EXCEPT !.x = x] \in Slot
      BY <1>1
    <2>2. pad' = [pad EXCEPT !.slots[s] = [pad.slots[s] EXCEPT !.x = x]]
      BY <1>1, <1>5 DEF Slide
    <2> QED  BY <1>2, <2>1, <2>2, SlotIsFine
  <1>6. CASE TurnPalm(s)
    <2>1. [pad.slots[s] EXCEPT !.palm = TRUE] \in Slot
      BY <1>1
    <2>2. pad' = [pad EXCEPT !.slots[s] = [pad.slots[s] EXCEPT !.palm = TRUE]]
      BY <1>1, <1>6 DEF TurnPalm
    <2> QED  BY <1>2, <2>1, <2>2, SlotIsFine
  <1> QED  BY <1>3, <1>4, <1>5, <1>6

LEMMA ToolIsFine ==
  ASSUME PadInv, ToolCount PROVE PadInv'
  <1> DEFINE Placed == [PadSlots -> [id : Nat, x : Int, palm : BOOLEAN]]
  <1>1. /\ pad.slots \in Placed /\ pad.pressed \in BOOLEAN /\ pad.extra \in Int /\ nextContact \in Nat
        /\ pad = [slots |-> pad.slots, pressed |-> pad.pressed, extra |-> pad.extra]
    BY DEF PadInv, PadTypes
  <1>2. pad' = [slots |-> pad.slots, pressed |-> pad.pressed, extra |-> 1 - pad.extra]
        /\ UNCHANGED <<buttons, pointer_, takes, out, nextContact>>
    BY <1>1 DEF ToolCount, Event
  <1>3. pad' \in [slots : Placed, pressed : BOOLEAN, extra : Int] /\ pad'.pressed = pad.pressed
    BY <1>1, <1>2
  <1> QED  BY <1>1, <1>2, <1>3, EventIsFine

LEMMA AppendToOne ==
  ASSUME NEW T, NEW one \in T, NEW other \in T PROVE Append(<<one>>, other) = <<one, other>>
  <1>1. <<one>> \in Seq(T) /\ Len(<<one>>) = 1 /\ <<one>>[1] = one
    OBVIOUS
  <1>2. /\ Append(<<one>>, other) \in Seq(T) /\ Len(Append(<<one>>, other)) = 2
        /\ Append(<<one>>, other)[1] = one /\ Append(<<one>>, other)[2] = other
    BY <1>1, AppendProperties
  <1> DEFINE longer == Append(<<one>>, other)
             pair == <<one, other>>
  <1>3. pair \in Seq(T) /\ Len(pair) = 2 /\ pair[1] = one /\ pair[2] = other
    OBVIOUS
  <1>4. \A i \in 1 .. 2 : i = 1 \/ i = 2
    OBVIOUS
  <1>5. longer \in Seq(T) /\ Len(longer) = 2 /\ \A i \in 1 .. 2 : longer[i] = pair[i]
    BY <1>2, <1>3, <1>4
  <1> HIDE DEF longer, pair
  <1>6. longer = pair
    BY <1>3, <1>5, SeqEqual
  <1> QED  BY <1>6 DEF longer, pair

LEMMA SwitchIsFine ==
  ASSUME PadInv, Len(buttons) < 2, Switch PROVE PadInv'
  <1> DEFINE flip == ~pad.pressed
  <1>1. /\ pad.slots \in [PadSlots -> [id : Nat, x : Int, palm : BOOLEAN]] /\ pad.pressed \in BOOLEAN
        /\ pad.extra \in Int
        /\ pad = [slots |-> pad.slots, pressed |-> pad.pressed, extra |-> pad.extra]
    BY DEF PadInv, PadTypes
  <1>2. /\ pad' = [slots |-> pad.slots, pressed |-> flip, extra |-> pad.extra]
        /\ buttons' = Append(buttons, flip) /\ UNCHANGED <<pointer_, takes, out, nextContact>>
    BY <1>1 DEF Switch, Event
  <1>3. flip \in BOOLEAN /\ (~flip) = pad.pressed
    BY <1>1
  <1>4. ~(buttons = <<~pad.pressed, pad.pressed>>)
    OBVIOUS
  <1> HIDE DEF flip
  <1>5. pad'.pressed = flip
    BY <1>2
  <1>6. PadTypes'
    BY <1>1, <1>2, <1>3 DEF PadInv, PadTypes
  <1>7. PadFollowed'
    <2> DEFINE down == pointer_.pressed # "none"
    <2>1. \/ buttons = <<>> /\ down = pad.pressed
          \/ buttons = <<pad.pressed>> /\ down = ~pad.pressed
      BY <1>4 DEF PadInv, PadFollowed
    <2>2. (pointer_.pressed # "none") = down /\ (pointer_'.pressed # "none") = down
      BY <1>2
    <2> HIDE DEF down
    <2>3. CASE buttons = <<>> /\ down = pad.pressed
      <3>1. buttons' = <<flip>> /\ down = ~flip
        BY <1>2, <1>3, <2>3
      <3> QED  BY <1>5, <2>2, <3>1 DEF PadFollowed
    <2>4. CASE buttons = <<pad.pressed>> /\ down = ~pad.pressed
      <3> DEFINE was == pad.pressed
      <3>1. buttons = <<was>> /\ was = ~flip
        BY <1>3, <2>4
      <3> HIDE DEF was
      <3>6. was \in BOOLEAN
        BY <1>1 DEF was
      <3>2. Append(buttons, flip) = <<was, flip>>
        <4>1. buttons = <<was>>
          BY <3>1
        <4> QED  BY <1>3, <3>6, <4>1, AppendToOne, Zenon
      <3>3. buttons' = <<~flip, flip>>
        BY <1>2, <3>1, <3>2
      <3>4. down = flip
        BY <1>1, <1>3, <2>4
      <3> QED  BY <1>5, <2>2, <3>3, <3>4 DEF PadFollowed
    <2> QED  BY <2>1, <2>3, <2>4
  <1> QED  BY <1>2, <1>6, <1>7 DEF PadInv, PadHeld, PadCounted

LEMMA ReportIsFine ==
  ASSUME PadInv, NEW dt, Report(dt) PROVE PadInv'
  <1> DEFINE last == Pressed[Len(buttons)]
             changed == buttons # <<>>
             from == IF changed THEN NewGesture("Still") ELSE pointer_.gesture
             m == motion(from, last.pressed)
  <1>1. /\ last.pressed \in PadButtons \cup {"none"} /\ (last.pressed # "none") = pad.pressed
        /\ last.held \in SUBSET PadButtons /\ (~takes => last.held = {last.pressed} \ {"none"})
        /\ buttons = <<>> => last.pressed = pointer_.pressed
    BY PressesFollow
  <1>2. from \in Gestures /\ (from.kind # "Still" => from = pointer_.gesture)
    <2>1. NewGesture("Still") \in Gestures /\ NewGesture("Still").kind = "Still"
      BY DEF NewGesture, Gestures
    <2>2. pointer_.gesture \in Gestures
      BY DEF PadInv, PadTypes
    <2> QED  BY <2>1, <2>2
  <1>3. Moves(from, m)
    <2> HIDE DEF from, last
    <2> QED  BY <1>2, MotionIsCounted DEF PadInv
  <1>4. /\ pointer_'.fingers = fingers /\ pointer_'.gesture = m.gesture /\ pointer_'.pressed = last.pressed
        /\ buttons' = <<>> /\ UNCHANGED <<pad, takes, nextContact>>
    BY DEF Report
  <1> DEFINE touching == {[id |-> pad.slots[s].id, x |-> pad.slots[s].x] : s \in Active}
             whose == IF changed THEN (IF pad.pressed THEN {"left"} ELSE {}) ELSE out.held
             counts == IF m.fresh THEN 0 ELSE out.counts + m.counts
             exact == IF m.fresh THEN 0 ELSE out.exact + m.exact
  <1>5. out' = IF takes THEN [out EXCEPT !.contacts = touching, !.held = whose]
               ELSE [out EXCEPT !.held = last.held, !.counts = counts, !.exact = exact]
    <2>1. /\ out.held \in SUBSET PadButtons /\ out.counts \in Int /\ out.exact \in Int
          /\ out = [held |-> out.held, contacts |-> out.contacts, counts |-> out.counts, exact |-> out.exact]
      BY DEF PadInv, PadTypes
    <2>2. CASE takes
      <3>1. out' = [out EXCEPT !.contacts = touching,
                               !.held = IF changed THEN (IF pad.pressed THEN {"left"} ELSE {}) ELSE @]
        BY <2>2 DEF Report
      <3> HIDE DEF touching, changed
      <3> QED  BY <2>1, <2>2, <3>1
    <2>3. CASE ~takes
      <3>1. out' = [out EXCEPT !.held = last.held,
                               !.counts = IF m.fresh THEN 0 ELSE @ + m.counts,
                               !.exact = IF m.fresh THEN 0 ELSE @ + m.exact]
        BY <2>3 DEF Report
      <3> HIDE DEF m, last
      <3> QED  BY <2>1, <2>3, <3>1
    <2> QED  BY <2>2, <2>3 DEF PadInv, PadTypes
  <1>6. /\ out.held \in SUBSET PadButtons /\ out.counts \in Int /\ out.exact \in Int
        /\ out.contacts \in SUBSET PadFingers /\ takes \in BOOLEAN
        /\ out = [held |-> out.held, contacts |-> out.contacts, counts |-> out.counts, exact |-> out.exact]
    BY DEF PadInv, PadTypes
  <1>7. touching \in SUBSET PadFingers
    <2>1. \A s \in PadSlots : pad.slots[s].id \in Nat /\ pad.slots[s].x \in Int
      BY DEF PadInv, PadTypes
    <2>2. Active \subseteq PadSlots
      BY DEF Active
    <2> QED  BY <2>1, <2>2 DEF PadFingers
  <1>8. whose \in SUBSET PadButtons
    BY <1>6 DEF PadButtons
  <1> HIDE DEF m, last, from, touching
  <1>9. counts \in Int /\ exact \in Int
    BY <1>3, <1>6 DEF Moves
  <1> HIDE DEF whose, counts, exact
  <1>10. /\ out'.held = IF takes THEN whose ELSE last.held
         /\ out'.counts = IF takes THEN out.counts ELSE counts
         /\ out'.exact = IF takes THEN out.exact ELSE exact
         /\ out' \in [held : SUBSET PadButtons, contacts : SUBSET PadFingers, counts : Int, exact : Int]
    <2>1. CASE takes
      <3>1. out' = [held |-> whose, contacts |-> touching, counts |-> out.counts, exact |-> out.exact]
        BY <1>5, <1>6, <2>1
      <3> QED  BY <1>6, <1>7, <1>8, <2>1, <3>1
    <2>2. CASE ~takes
      <3>1. out' = [held |-> last.held, contacts |-> out.contacts, counts |-> counts, exact |-> exact]
        BY <1>5, <1>6, <2>2
      <3> QED  BY <1>1, <1>6, <1>9, <2>2, <3>1
    <2> QED  BY <1>6, <2>1, <2>2
  <1>11. PadTypes'
    <2>1. fingers \in SUBSET PadFingers
      BY FingersOnPad DEF PadInv
    <2>2. m.gesture \in Gestures
      BY <1>3 DEF Moves
    <2> QED  BY <1>1, <1>4, <1>10, <2>1, <2>2 DEF PadInv, PadTypes
  <1>12. PadFollowed'
    BY <1>1, <1>4 DEF PadFollowed
  <1>13. PadHeld'
    <2>1. CASE takes
      <3>1. out'.held = whose /\ takes' = takes /\ pointer_'.pressed = last.pressed
        BY <1>4, <1>10, <2>1
      <3>2. CASE changed
        <4>1. whose = IF pad.pressed THEN {"left"} ELSE {}
          BY <3>2 DEF whose
        <4> QED  BY <1>1, <2>1, <3>1, <4>1 DEF PadHeld
      <3>3. CASE ~changed
        <4>1. whose = out.held /\ last.pressed = pointer_.pressed
          BY <1>1, <3>3 DEF whose
        <4> QED  BY <2>1, <3>1, <4>1 DEF PadInv, PadHeld
      <3> QED  BY <3>2, <3>3
    <2>2. CASE ~takes
      <3>1. out'.held = {last.pressed} \ {"none"} /\ takes' = takes /\ pointer_'.pressed = last.pressed
        BY <1>1, <1>4, <1>10, <2>2
      <3> QED  BY <2>2, <3>1 DEF PadHeld
    <2> QED  BY <1>6, <2>1, <2>2
  <1>14. PadCounted'
    <2>1. CASE takes
      BY <1>4, <1>10, <2>1 DEF PadInv, PadCounted
    <2>2. CASE ~takes
      <3>0. /\ out'.counts = counts /\ out'.exact = exact /\ takes' = takes /\ pointer_'.gesture = m.gesture
            /\ m.gesture.remainder \in -3 .. 3
        BY <1>3, <1>4, <1>10, <2>2 DEF Moves, Gestures
      <3>1. CASE m.fresh = TRUE /\ m.gesture.remainder = 0
        <4>1. counts = 0 /\ exact = 0
          BY <3>1 DEF counts, exact
        <4> QED  BY <2>2, <3>0, <3>1, <4>1 DEF PadCounted
      <3>2. CASE m.fresh = FALSE /\ m.gesture.kind = "Still" /\ m.counts = 0 /\ m.exact = 0
        <4>1. counts = out.counts /\ exact = out.exact
          BY <1>6, <3>2 DEF counts, exact
        <4> QED  BY <2>2, <3>0, <3>2, <4>1 DEF PadInv, PadCounted
      <3>3. CASE /\ m.fresh = FALSE /\ from.kind # "Still"
                 /\ m.gesture.remainder = from.remainder + m.exact - 4 * m.counts
        <4>1. counts = out.counts + m.counts /\ exact = out.exact + m.exact
          BY <3>3 DEF counts, exact
        <4>2. from.remainder = out.exact - 4 * out.counts
          BY <1>2, <2>2, <3>3 DEF PadInv, PadCounted
        <4>3. m.counts \in Int /\ m.exact \in Int
          BY <1>3 DEF Moves
        <4>4. m.gesture.remainder = exact - 4 * counts
          BY <1>6, <3>3, <4>1, <4>2, <4>3
        <4> QED  BY <2>2, <3>0, <4>4 DEF PadCounted
      <3> QED  BY <1>3, <3>1, <3>2, <3>3 DEF Moves
    <2> QED  BY <1>6, <2>1, <2>2
  <1> QED  BY <1>11, <1>12, <1>13, <1>14 DEF PadInv

LEMMA PadStep ==
  ASSUME PadInv, TouchpadNext PROVE PadInv'
  <1>1. CASE \E s \in PadSlots : Lift(s) \/ TurnPalm(s) \/ \E x \in PadSpots : Land(s, x) \/ Slide(s, x)
    BY <1>1, FingerIsFine
  <1>2. CASE ToolCount
    BY <1>2, ToolIsFine
  <1>3. CASE Len(buttons) < 2 /\ Switch
    BY <1>3, SwitchIsFine
  <1>4. CASE \E dt \in {0, TAP_TIME} : Report(dt)
    BY <1>4, ReportIsFine
  <1> QED  BY <1>1, <1>2, <1>3, <1>4 DEF TouchpadNext

LEMMA PadUntouched == PadInv /\ UNCHANGED touchpadVars => PadInv'
  BY DEF PadInv, PadTypes, PadFollowed, PadHeld, PadCounted, touchpadVars

LEMMA PadStarts == TouchpadInit => PadInv
  <1> SUFFICES ASSUME TouchpadInit PROVE PadInv
    OBVIOUS
  <1>1. takes \in BOOLEAN
    BY TouchpadAssumption DEF TouchpadInit
  <1>2. PadTypes
    BY <1>1 DEF TouchpadInit, PadTypes, NoContact, NewGesture, Gestures, PadFingers
  <1>3. /\ pointer_.pressed = "none" /\ pointer_.gesture.kind = "Still" /\ buttons = <<>>
        /\ pad.pressed = FALSE /\ out.held = {} /\ out.counts = 0 /\ out.exact = 0
    BY DEF TouchpadInit, NewGesture
  <1>4. PadFollowed
    BY <1>3 DEF PadFollowed
  <1>5. PadHeld /\ PadCounted
    BY <1>3 DEF PadHeld, PadCounted
  <1> QED  BY <1>2, <1>4, <1>5 DEF PadInv

(* For any pad, whatever fingers do while it is pressed, and whatever its     *)
(* gain and thresholds: a button the pad no longer presses is up at the       *)
(* target, and a gesture's counts are its travel to less than one count       *)
(* (linux/touchpad.rs).                                                      *)
THEOREM GesturesComeOutWholeAlways == MCSpec => []GesturesComeOutWhole
  <1>1. MCInit => PadHolds
    BY PadStarts DEF MCInit, PadHolds
  <1>2. PadHolds /\ [MCNext]_plumbingVars => PadHolds'
    BY OnePartRuns, PadStep, PadUntouched DEF PadHolds
  <1>3. PadInv => ClicksAreReleased
    BY DEF PadInv, PadTypes, PadFollowed, PadHeld, ClicksAreReleased
  <1>4. PadInv => RoundingLosesNothing
    <2> SUFFICES ASSUME PadInv PROVE RoundingLosesNothing
      OBVIOUS
    <2>1. out.counts \in Int /\ out.exact \in Int /\ out.exact - 4 * out.counts \in -3 .. 3
      BY DEF PadInv, PadTypes, PadCounted
    <2> QED  BY <2>1 DEF RoundingLosesNothing, Dist
  <1>5. PadHolds => GesturesComeOutWhole
    BY <1>3, <1>4 DEF PadHolds, GesturesComeOutWhole
  <1> QED  BY <1>1, <1>2, <1>5, PTL DEF MCSpec, plumbingVars

-----------------------------------------------------------------------------
(* The clipboard. The tasks a clip of one computer for another goes through   *)
(* are of its pair; while switches stay on, sessions last and the pointer is   *)
(* slow, a pair has one of them, or a clip on its way, or neither, and then    *)
(* both ends remember the same.                                              *)
Outcomes == Clips \cup {NoClip, TooLarge, NotAllowed, Unchanged}
ClipJobs ==
  [do : {"read", "decide", "send", "keep", "write"}, peer : Sharers, clip : Outcomes]
  \cup [do : {"note"}, peer : Nat, clip : Outcomes]

Live(job) == job.do \in {"read", "decide", "send", "keep"}
Said(job) == [do |-> job.do, clip |-> job.clip]
LiveAt(tasks, p) == {i \in DOMAIN tasks : Live(tasks[i]) /\ tasks[i].peer = p}
AheadFor(tasks, p) == {Said(tasks[i]) : i \in LiveAt(tasks, p)}
OneEach(tasks) == \A i, j \in DOMAIN tasks :
  Live(tasks[i]) /\ Live(tasks[j]) /\ tasks[i].peer = tasks[j].peer => i = j
JobsIn(tasks) == {tasks[i] : i \in DOMAIN tasks}

ClipTypes ==
  /\ board \in [Sharers -> Outcomes] /\ changes \in [Sharers -> Nat]
  /\ written \in [Sharers -> [count : Nat, clip : Outcomes]]
  /\ share \in [Sharers -> BOOLEAN]
  /\ echo \in [Sharers -> [Sharers -> Outcomes]] /\ sending \in [Sharers -> [Sharers -> Outcomes]]
  /\ jobs \in [Sharers -> Seq(ClipJobs)]
  /\ at \in Sharers /\ clipsLost \in BOOLEAN /\ rushed \in BOOLEAN /\ switches \in Nat

(* A note that is still to be taken is of this content, or of an older one.   *)
Noted(c) ==
  /\ written[c].count <= changes[c]
  /\ written[c].count = changes[c] /\ changes[c] > 0 => board[c] = written[c].clip
  /\ \A job \in JobsIn(jobs[c]) :
       job.do = "note" => job.peer \in Nat /\ job.peer <= changes[c] /\ (job.peer = changes[c] => board[c] = job.clip)

(* A pair c, p: ours and theirs are the tasks for each other, outgoing and  *)
(* comes the clips on their way, mine and yours what each remembers.         *)
PairIs(ours, theirs, outgoing, comes, mine, yours) ==
  /\ ours # {} => theirs = {} /\ outgoing = NoClip /\ comes = NoClip
  /\ outgoing # NoClip => comes = NoClip /\ mine = outgoing /\ yours # outgoing
  /\ \A said \in ours :
       /\ said.do \in {"send", "keep"} => said.clip # NoClip
       /\ said.do = "send" => mine = said.clip /\ yours # said.clip
       /\ said.do = "keep" => yours = said.clip /\ mine # said.clip
  /\ outgoing = NoClip /\ comes = NoClip /\ (\A said \in ours \cup theirs : said.do \in {"read", "decide"}) =>
       mine = yours

PairOk(c, p) ==
  PairIs(AheadFor(jobs[c], p), AheadFor(jobs[p], c), sending[c][p], sending[p][c], echo[c][p], echo[p][c])

Steady == ~clipsLost /\ ~rushed /\ switches = 0

(* Nothing is for a computer itself. *)
NotOwn == \A c \in Sharers : AheadFor(jobs[c], c) = {} /\ sending[c][c] = NoClip

Paired ==
  /\ NotOwn /\ \A c \in Sharers : share[c] /\ OneEach(jobs[c])
  /\ \A c, p \in Sharers : c # p => PairOk(c, p)

ClipInv == ClipTypes /\ (\A c \in MacSharers : Noted(c)) /\ (Steady => Paired)

ClipsHold == part = "Clips" => ClipInv

-----------------------------------------------------------------------------
(* What one task less, one changed and one more make of a computer's tasks.   *)
LEMMA TaskIsRemoved ==
  ASSUME NEW T, NEW s \in Seq(T), NEW i \in 1 .. Len(s)
  PROVE  /\ RemoveAt(s, i) \in Seq(T) /\ Len(RemoveAt(s, i)) = Len(s) - 1
         /\ \A j \in 1 .. (Len(s) - 1) : RemoveAt(s, i)[j] = s[IF j < i THEN j ELSE j + 1]
  <1> DEFINE first == SubSeq(s, 1, i - 1)
             rest == SubSeq(s, i + 1, Len(s))
             n == Len(s)
  <1>1. n \in Nat /\ i \in 1 .. n /\ \A j \in 1 .. n : s[j] \in T
    OBVIOUS
  <1> HIDE DEF n
  <1>2. first \in Seq(T) /\ Len(first) = i - 1 /\ \A j \in 1 .. (i - 1) : first[j] = s[j]
    <2>1. 1 \in Int /\ i - 1 \in Int /\ \A j \in 1 .. (i - 1) : s[j] \in T
      BY <1>1
    <2>2. /\ first \in Seq(T) /\ Len(first) = IF 1 <= i - 1 THEN (i - 1) - 1 + 1 ELSE 0
          /\ \A j \in 1 .. (i - 1) - 1 + 1 : first[j] = s[1 + j - 1]
      BY <2>1, SubSeqProperties
    <2> HIDE DEF first
    <2> QED  BY <1>1, <2>2
  <1>3. rest \in Seq(T) /\ Len(rest) = n - i /\ \A j \in 1 .. (n - i) : rest[j] = s[i + j]
    <2>1. i + 1 \in Int /\ n \in Int /\ \A j \in (i + 1) .. n : s[j] \in T
      BY <1>1
    <2>2. /\ SubSeq(s, i + 1, n) \in Seq(T)
          /\ Len(SubSeq(s, i + 1, n)) = IF i + 1 <= n THEN n - (i + 1) + 1 ELSE 0
          /\ \A j \in 1 .. n - (i + 1) + 1 : SubSeq(s, i + 1, n)[j] = s[i + 1 + j - 1]
      BY <2>1, SubSeqProperties
    <2>3. rest = SubSeq(s, i + 1, n)
      BY DEF n
    <2> HIDE DEF rest
    <2> QED  BY <1>1, <2>2, <2>3
  <1>4. RemoveAt(s, i) = first \o rest
    BY DEF RemoveAt
  <1> HIDE DEF first, rest
  <1>5. /\ first \o rest \in Seq(T) /\ Len(first \o rest) = Len(first) + Len(rest)
        /\ \A j \in 1 .. Len(first) + Len(rest) :
             (first \o rest)[j] = IF j <= Len(first) THEN first[j] ELSE rest[j - Len(first)]
    BY <1>2, <1>3, ConcatProperties
  <1> DEFINE t == first \o rest
  <1> HIDE DEF t
  <1>6. t \in Seq(T) /\ Len(t) = n - 1
    BY <1>1, <1>2, <1>3, <1>5 DEF t
  <1>7. \A j \in 1 .. (n - 1) : t[j] = s[IF j < i THEN j ELSE j + 1]
    <2> TAKE j \in 1 .. (n - 1)
    <2>1. t[j] = IF j <= i - 1 THEN first[j] ELSE rest[j - (i - 1)]
      BY <1>1, <1>2, <1>3, <1>5 DEF t
    <2>2. CASE j < i
      <3>1. j \in 1 .. (i - 1)
        BY <1>1, <2>2
      <3> QED  BY <1>1, <1>2, <2>1, <2>2, <3>1
    <2>3. CASE ~(j < i)
      <3>1. j - (i - 1) \in 1 .. (n - i) /\ i + (j - (i - 1)) = j + 1
        BY <1>1, <2>3
      <3> QED  BY <1>1, <1>3, <2>1, <2>3, <3>1
    <2> QED  BY <2>2, <2>3
  <1> QED  BY <1>4, <1>6, <1>7 DEF t, n

(* The tasks that are live for a peer are those of its indices.               *)
LEMMA AheadIs ==
  ASSUME NEW s, NEW p
  PROVE  \A said : said \in AheadFor(s, p) <=> \E i \in DOMAIN s : Live(s[i]) /\ s[i].peer = p /\ said = Said(s[i])
  BY DEF AheadFor, LiveAt

LEMMA AfterRemoval ==
  ASSUME NEW s \in Seq(ClipJobs), NEW i \in DOMAIN s
  PROVE  LET t == RemoveAt(s, i) IN
         /\ t \in Seq(ClipJobs) /\ JobsIn(t) \subseteq JobsIn(s)
         /\ OneEach(s) => /\ OneEach(t)
                          /\ \A p : AheadFor(t, p) = IF Live(s[i]) /\ p = s[i].peer THEN {} ELSE AheadFor(s, p)
  <1> DEFINE t == RemoveAt(s, i)
             from(j) == IF j < i THEN j ELSE j + 1
             to(j) == IF j < i THEN j ELSE j - 1
  <1>1. i \in 1 .. Len(s) /\ Len(s) \in Nat /\ DOMAIN s = 1 .. Len(s)
    OBVIOUS
  <1>2. /\ t \in Seq(ClipJobs) /\ Len(t) = Len(s) - 1
        /\ \A j \in 1 .. (Len(s) - 1) : t[j] = s[from(j)]
    BY <1>1, TaskIsRemoved
  <1> HIDE DEF t
  <1>3. DOMAIN t = 1 .. (Len(s) - 1)
    BY <1>2
  <1>4. /\ \A j \in DOMAIN t : from(j) \in DOMAIN s /\ from(j) # i /\ t[j] = s[from(j)]
        /\ \A j \in DOMAIN s : j # i => to(j) \in DOMAIN t /\ from(to(j)) = j
        /\ \A j, k \in DOMAIN t : from(j) = from(k) => j = k
    BY <1>1, <1>2, <1>3
  <1> HIDE DEF from, to
  <1>5. JobsIn(t) \subseteq JobsIn(s)
    BY <1>4 DEF JobsIn
  <1>6. ASSUME OneEach(s) PROVE OneEach(t)
    BY <1>4, <1>6 DEF OneEach
  <1>7. ASSUME OneEach(s), NEW p
        PROVE  AheadFor(t, p) = IF Live(s[i]) /\ p = s[i].peer THEN {} ELSE AheadFor(s, p)
    <2>1. ASSUME NEW said \in AheadFor(t, p)
          PROVE  said \in AheadFor(s, p) /\ ~(Live(s[i]) /\ p = s[i].peer)
      <3>1. PICK j \in DOMAIN t : Live(t[j]) /\ t[j].peer = p /\ said = Said(t[j])
        BY AheadIs
      <3>2. from(j) \in DOMAIN s /\ from(j) # i /\ t[j] = s[from(j)]
        BY <1>4
      <3>3. ~(Live(s[i]) /\ p = s[i].peer)
        BY <1>7, <3>1, <3>2 DEF OneEach
      <3> QED  BY <3>1, <3>2, <3>3, AheadIs
    <2>2. ASSUME NEW said \in AheadFor(s, p), ~(Live(s[i]) /\ p = s[i].peer)
          PROVE  said \in AheadFor(t, p)
      <3>1. PICK j \in DOMAIN s : Live(s[j]) /\ s[j].peer = p /\ said = Said(s[j])
        BY AheadIs
      <3>2. j # i
        BY <2>2, <3>1
      <3>3. to(j) \in DOMAIN t /\ t[to(j)] = s[j]
        BY <1>4, <3>2
      <3> QED  BY <3>1, <3>3, AheadIs
    <2> QED  BY <2>1, <2>2
  <1> QED  BY <1>2, <1>5, <1>6, <1>7 DEF t

(* A task goes on for its peer, or is no longer live.                         *)
TaskGoesOn(s, i, job, t) ==
  /\ t \in Seq(ClipJobs) /\ JobsIn(t) \subseteq JobsIn(s) \cup {job}
  /\ OneEach(s) => /\ OneEach(t)
                   /\ \A p : AheadFor(t, p) = IF Live(s[i]) /\ p = s[i].peer
                                           THEN (IF Live(job) THEN {Said(job)} ELSE {}) ELSE AheadFor(s, p)

LEMMA AfterChange ==
  ASSUME NEW s \in Seq(ClipJobs), NEW i \in DOMAIN s, NEW job \in ClipJobs,
         Live(job) => Live(s[i]) /\ job.peer = s[i].peer
  PROVE  TaskGoesOn(s, i, job, [s EXCEPT ![i] = job])
  <1> DEFINE t == [s EXCEPT ![i] = job]
  <1>1. t \in Seq(ClipJobs) /\ DOMAIN t = DOMAIN s /\ t[i] = job /\ \A j \in DOMAIN s : j # i => t[j] = s[j]
    <2>1. i \in 1 .. Len(s)
      OBVIOUS
    <2>2. t \in Seq(ClipJobs)
      BY <2>1, ExceptSeq
    <2> QED  BY <2>2
  <1> HIDE DEF t
  <1>2. JobsIn(t) \subseteq JobsIn(s) \cup {job}
    BY <1>1 DEF JobsIn
  <1>3. ASSUME OneEach(s) PROVE OneEach(t)
    BY <1>1, <1>3 DEF OneEach
  <1>4. ASSUME OneEach(s), NEW p, ~(Live(s[i]) /\ p = s[i].peer) PROVE AheadFor(t, p) = AheadFor(s, p)
    <2>1. \A j \in DOMAIN s : Live(t[j]) /\ t[j].peer = p <=> Live(s[j]) /\ s[j].peer = p
      BY <1>1, <1>4
    <2>2. \A j \in DOMAIN s : Live(s[j]) /\ s[j].peer = p => t[j] = s[j]
      BY <1>1, <1>4
    <2>3. \A said : said \in AheadFor(t, p) <=> said \in AheadFor(s, p)
      BY <1>1, <2>1, <2>2, AheadIs
    <2> QED  BY <2>3
  <1>5. ASSUME OneEach(s), NEW p, Live(s[i]), p = s[i].peer
        PROVE  AheadFor(t, p) = IF Live(job) THEN {Said(job)} ELSE {}
    <2>1. \A j \in DOMAIN s : Live(t[j]) /\ t[j].peer = p => j = i
      BY <1>1, <1>5 DEF OneEach
    <2>2. \A said : said \in AheadFor(t, p) <=> Live(job) /\ said = Said(job)
      BY <1>1, <1>5, <2>1, AheadIs
    <2> QED  BY <2>2
  <1>6. ASSUME OneEach(s), NEW p
        PROVE  AheadFor(t, p) = IF Live(s[i]) /\ p = s[i].peer
                             THEN (IF Live(job) THEN {Said(job)} ELSE {}) ELSE AheadFor(s, p)
    BY <1>4, <1>5, <1>6
  <1>7. TaskGoesOn(s, i, job, t)
    BY <1>1, <1>2, <1>3, <1>6 DEF TaskGoesOn
  <1> QED  BY <1>7 DEF t

LEMMA AfterAppend ==
  ASSUME NEW s \in Seq(ClipJobs), NEW job \in ClipJobs
  PROVE  LET t == Append(s, job) IN
         /\ t \in Seq(ClipJobs) /\ JobsIn(t) \subseteq JobsIn(s) \cup {job}
         /\ \A p : ~(Live(job) /\ p = job.peer) => AheadFor(t, p) = AheadFor(s, p)
         /\ OneEach(s) /\ (Live(job) => AheadFor(s, job.peer) = {}) =>
              OneEach(t) /\ (Live(job) => AheadFor(t, job.peer) = {Said(job)})
  <1> DEFINE t == Append(s, job)
             i == Len(s) + 1
  <1>1. /\ t \in Seq(ClipJobs) /\ DOMAIN t = DOMAIN s \cup {i} /\ i \notin DOMAIN s
        /\ t[i] = job /\ \A j \in DOMAIN s : t[j] = s[j]
    BY AppendProperties
  <1> HIDE DEF t, i
  <1>2. JobsIn(t) \subseteq JobsIn(s) \cup {job}
    BY <1>1 DEF JobsIn
  <1>3. ASSUME NEW p PROVE \A said : said \in AheadFor(t, p) <=>
                     (said \in AheadFor(s, p) \/ (Live(job) /\ p = job.peer /\ said = Said(job)))
    BY <1>1, AheadIs
  <1>4. ASSUME NEW p, ~(Live(job) /\ p = job.peer) PROVE AheadFor(t, p) = AheadFor(s, p)
    <2>1. \A said : said \in AheadFor(t, p) <=> said \in AheadFor(s, p)
      BY <1>3, <1>4
    <2> HIDE DEF t
    <2> QED  BY <2>1
  <1>5. ASSUME Live(job), AheadFor(s, job.peer) = {} PROVE AheadFor(t, job.peer) = {Said(job)}
    BY <1>3, <1>5
  <1>6. ASSUME Live(job), AheadFor(s, job.peer) = {} PROVE \A j \in DOMAIN s : ~(Live(s[j]) /\ s[j].peer = job.peer)
    <2> SUFFICES ASSUME NEW j \in DOMAIN s, Live(s[j]), s[j].peer = job.peer PROVE FALSE
      OBVIOUS
    <2>1. Said(s[j]) \in AheadFor(s, job.peer)
      BY AheadIs
    <2> QED  BY <1>6, <2>1
  <1>7. ASSUME OneEach(s), Live(job) => AheadFor(s, job.peer) = {} PROVE OneEach(t)
    BY <1>1, <1>6, <1>7 DEF OneEach
  <1> QED  BY <1>1, <1>2, <1>4, <1>5, <1>7 DEF t

-----------------------------------------------------------------------------
(* What holds of the tasks, from their types and from the pairs.              *)
LEMMA ClipFields ==
  ASSUME ClipTypes, NEW c \in Sharers
  PROVE  /\ jobs[c] \in Seq(ClipJobs) /\ sending[c] \in [Sharers -> Outcomes] /\ echo[c] \in [Sharers -> Outcomes]
         /\ board[c] \in Outcomes /\ changes[c] \in Nat /\ share[c] \in BOOLEAN
         /\ written[c].count \in Nat /\ written[c].clip \in Outcomes
  BY DEF ClipTypes

LEMMA JobFields ==
  ASSUME NEW job \in ClipJobs
  PROVE  /\ job.clip \in Outcomes /\ (job.do # "note" => job.peer \in Sharers) /\ (job.do = "note" => job.peer \in Nat)
         /\ job = [do |-> job.do, peer |-> job.peer, clip |-> job.clip]
         /\ Live(job) => job.do # "note"
         /\ ~Live(job) <=> job.do \in {"write", "note"}
  BY DEF ClipJobs, Live

LEMMA OneAhead ==
  ASSUME NEW s, OneEach(s), NEW i \in DOMAIN s, Live(s[i])
  PROVE  AheadFor(s, s[i].peer) = {Said(s[i])}
  <1>1. \A said \in AheadFor(s, s[i].peer) : said = Said(s[i])
    BY AheadIs DEF OneEach
  <1>2. Said(s[i]) \in AheadFor(s, s[i].peer)
    BY AheadIs
  <1> QED  BY <1>1, <1>2

(* What a live task of c for p says of the two.                              *)
OfPair(c, i, p) ==
  /\ p \in Sharers /\ p # c
  /\ AheadFor(jobs[c], p) = {Said(jobs[c][i])} /\ AheadFor(jobs[p], c) = {}
  /\ sending[c][p] = NoClip /\ sending[p][c] = NoClip
  /\ jobs[c][i].do \in {"read", "decide"} => echo[c][p] = echo[p][c]
  /\ jobs[c][i].do \in {"send", "keep"} => jobs[c][i].clip # NoClip
  /\ jobs[c][i].do = "send" => echo[c][p] = jobs[c][i].clip /\ echo[p][c] # jobs[c][i].clip
  /\ jobs[c][i].do = "keep" => echo[p][c] = jobs[c][i].clip /\ echo[c][p] # jobs[c][i].clip

LEMMA TaskOfPair ==
  ASSUME ClipTypes, Paired, NEW c \in Sharers, NEW i \in DOMAIN jobs[c], Live(jobs[c][i])
  PROVE  OfPair(c, i, jobs[c][i].peer)
  <1> DEFINE job == jobs[c][i]
             p == job.peer
  <1>1. job \in ClipJobs /\ p \in Sharers
    BY ClipFields, JobFields DEF Live
  <1>2. AheadFor(jobs[c], p) = {Said(job)}
    BY OneAhead DEF Paired
  <1>3. p # c
    <2>1. AheadFor(jobs[c], c) = {}
      BY DEF Paired, NotOwn
    <2> QED  BY <1>2, <2>1
  <1>4. PairIs(AheadFor(jobs[c], p), AheadFor(jobs[p], c), sending[c][p], sending[p][c], echo[c][p], echo[p][c])
    BY <1>1, <1>3 DEF Paired, PairOk
  <1>5. Said(job).do = job.do /\ Said(job).clip = job.clip
    BY DEF Said
  <1> HIDE DEF p
  <1>6. p = jobs[c][i].peer /\ job = jobs[c][i]
    BY DEF p
  <1> HIDE DEF job
  <1>7. /\ AheadFor(jobs[p], c) = {} /\ sending[c][p] = NoClip /\ sending[p][c] = NoClip
        /\ job.do \in {"read", "decide"} => echo[c][p] = echo[p][c]
        /\ job.do \in {"send", "keep"} => job.clip # NoClip
        /\ job.do = "send" => echo[c][p] = job.clip /\ echo[p][c] # job.clip
        /\ job.do = "keep" => echo[p][c] = job.clip /\ echo[c][p] # job.clip
    BY <1>2, <1>4, <1>5 DEF PairIs
  <1>8. OfPair(c, i, p)
    BY <1>1, <1>2, <1>3, <1>6, <1>7 DEF OfPair
  <1> QED  BY <1>6, <1>8

(* Both ends of a pair at once, and the pairs that a step leaves alone.       *)
Both(ours, theirs, outgoing, comes, mine, yours) ==
  PairIs(ours, theirs, outgoing, comes, mine, yours) /\ PairIs(theirs, ours, comes, outgoing, yours, mine)

LEMMA PairsKept ==
  ASSUME Paired, NEW c \in Sharers, NEW p \in Sharers, c # p,
         \A d \in Sharers : share'[d] /\ OneEach(jobs'[d]),
         \A d, q \in Sharers : ~(d = c /\ q = p) /\ ~(d = p /\ q = c) =>
           AheadFor(jobs'[d], q) = AheadFor(jobs[d], q) /\ sending'[d][q] = sending[d][q] /\ echo'[d][q] = echo[d][q],
         Both(AheadFor(jobs'[c], p), AheadFor(jobs'[p], c), sending'[c][p], sending'[p][c], echo'[c][p], echo'[p][c])
  PROVE  Paired'
  <1>1. NotOwn'
    BY DEF Paired, NotOwn
  <1>2. ASSUME NEW d \in Sharers, NEW q \in Sharers, d # q PROVE PairOk(d, q)'
    <2>1. CASE d = c /\ q = p
      BY <2>1 DEF Both, PairOk
    <2>2. CASE d = p /\ q = c
      BY <2>2 DEF Both, PairOk
    <2>3. CASE ~(d = c /\ q = p) /\ ~(d = p /\ q = c)
      <3>1. PairOk(d, q)
        BY <1>2 DEF Paired
      <3>2. /\ AheadFor(jobs'[d], q) = AheadFor(jobs[d], q) /\ sending'[d][q] = sending[d][q] /\ echo'[d][q] = echo[d][q]
            /\ AheadFor(jobs'[q], d) = AheadFor(jobs[q], d) /\ sending'[q][d] = sending[q][d] /\ echo'[q][d] = echo[q][d]
        BY <2>3
      <3> QED  BY <3>1, <3>2 DEF PairOk
    <2> QED  BY <2>1, <2>2, <2>3
  <1> QED  BY <1>1, <1>2 DEF Paired

(* A step of one computer's tasks that only changes what is not live.         *)
LEMMA PairsUntouched ==
  ASSUME Paired, \A d \in Sharers : share'[d] /\ OneEach(jobs'[d]), UNCHANGED <<sending, echo>>,
         \A d, q \in Sharers : AheadFor(jobs'[d], q) = AheadFor(jobs[d], q)
  PROVE  Paired'
  BY DEF Paired, NotOwn, PairOk

LEMMA NotesStay ==
  ASSUME NEW c \in Sharers, Noted(c), UNCHANGED <<board, changes, written>>,
         \A job \in JobsIn(jobs'[c]) : job.do = "note" => job \in JobsIn(jobs[c])
  PROVE  Noted(c)'
  BY DEF Noted

(* A step of the tasks of c, that leaves the rest of their types alone.       *)
LEMMA TasksOfOne ==
  ASSUME ClipTypes, NEW c \in Sharers, NEW t \in Seq(ClipJobs), jobs' = [jobs EXCEPT ![c] = t]
  PROVE  /\ jobs' \in [Sharers -> Seq(ClipJobs)] /\ jobs'[c] = t /\ \A d \in Sharers : d # c => jobs'[d] = jobs[d]
  BY DEF ClipTypes

-----------------------------------------------------------------------------
(* The tasks of c become t: more says what may be new among them, and ours     *)
(* what is left to do for the peer of its task i.                            *)
Turns(c, i, t, more, ours) ==
  /\ jobs' = [jobs EXCEPT ![c] = t] /\ t \in Seq(ClipJobs) /\ jobs' \in [Sharers -> Seq(ClipJobs)]
  /\ \A d \in Sharers : JobsIn(jobs'[d]) \subseteq JobsIn(jobs[d]) \cup (IF d = c THEN more ELSE {})
  /\ OneEach(jobs[c]) =>
       /\ OneEach(t)
       /\ \A q : AheadFor(t, q) = IF Live(jobs[c][i]) /\ q = jobs[c][i].peer THEN ours ELSE AheadFor(jobs[c], q)

(* What c remembers of other computers than p and sends them, and the others.  *)
Elsewhere(c, p) ==
  \A d, q \in Sharers : ~(d = c /\ q = p) => sending'[d][q] = sending[d][q] /\ echo'[d][q] = echo[d][q]

(* A task of a pair goes on: it may leave another task, a clip on its way and  *)
(* something to remember, all of its own pair.                               *)
LEMMA LiveStep ==
  ASSUME ClipTypes, Paired, NEW c \in Sharers, NEW i \in DOMAIN jobs[c], Live(jobs[c][i]),
         NEW t, NEW more, NEW ours, Turns(c, i, t, more, ours), share' = share,
         NEW p, p = jobs[c][i].peer, Elsewhere(c, p),
         Both(ours, {}, sending'[c][p], NoClip, echo'[c][p], echo[p][c])
  PROVE  Paired'
  <1>1. /\ p \in Sharers /\ p # c /\ AheadFor(jobs[p], c) = {} /\ sending[p][c] = NoClip
    <2>1. OfPair(c, i, jobs[c][i].peer)
      BY TaskOfPair
    <2>2. OfPair(c, i, p)
      BY <2>1
    <2> QED  BY <2>2 DEF OfPair
  <1>2. jobs'[c] = t /\ \A d \in Sharers : d # c => jobs'[d] = jobs[d]
    <2>1. jobs' = [jobs EXCEPT ![c] = t] /\ t \in Seq(ClipJobs)
      BY DEF Turns
    <2> QED  BY <2>1, TasksOfOne
  <1>3. OneEach(t) /\ \A q : AheadFor(t, q) = IF q = p THEN ours ELSE AheadFor(jobs[c], q)
    <2>1. OneEach(jobs[c])
      BY DEF Paired
    <2> QED  BY <2>1 DEF Turns
  <1>4. \A d \in Sharers : share'[d] /\ OneEach(jobs'[d])
    BY <1>2, <1>3 DEF Paired
  <1>5. \A d, q \in Sharers : ~(d = c /\ q = p) /\ ~(d = p /\ q = c) =>
          AheadFor(jobs'[d], q) = AheadFor(jobs[d], q) /\ sending'[d][q] = sending[d][q] /\ echo'[d][q] = echo[d][q]
    BY <1>2, <1>3 DEF Elsewhere
  <1>6. /\ AheadFor(jobs'[c], p) = ours /\ AheadFor(jobs'[p], c) = {} /\ sending'[p][c] = NoClip /\ echo'[p][c] = echo[p][c]
    BY <1>1, <1>2, <1>3 DEF Elsewhere
  <1>7. Both(AheadFor(jobs'[c], p), AheadFor(jobs'[p], c), sending'[c][p], sending'[p][c], echo'[c][p], echo'[p][c])
    BY <1>6
  <1> QED  BY <1>1, <1>4, <1>5, <1>7, PairsKept

(* What a pair may come to. *)
LEMMA PairEnds ==
  ASSUME NEW same PROVE Both({}, {}, NoClip, NoClip, same, same)
  BY DEF Both, PairIs

LEMMA PairAsks ==
  ASSUME NEW same, NEW said, said.do \in {"read", "decide"} PROVE Both({said}, {}, NoClip, NoClip, same, same)
  BY DEF Both, PairIs

LEMMA PairSends ==
  ASSUME NEW clip, clip # NoClip, NEW yours, yours # clip, NEW said, said.do = "send", said.clip = clip
  PROVE  Both({said}, {}, NoClip, NoClip, clip, yours)
  BY DEF Both, PairIs

LEMMA PairCarries ==
  ASSUME NEW clip, clip # NoClip, NEW yours, yours # clip PROVE Both({}, {}, clip, NoClip, clip, yours)
  BY DEF Both, PairIs

LEMMA PairKeeps ==
  ASSUME NEW clip, clip # NoClip, NEW mine, mine # clip, NEW said, said.do = "keep", said.clip = clip
  PROVE  Both({said}, {}, NoClip, NoClip, mine, clip)
  BY DEF Both, PairIs

-----------------------------------------------------------------------------
(* The tasks, one by one. *)
LEMMA TaskGoes ==
  ASSUME ClipTypes, NEW c \in Sharers, NEW i \in DOMAIN jobs[c], jobs' = WithoutClip(jobs, c, i)
  PROVE  \E t : Turns(c, i, t, {}, {})
  <1> DEFINE t == RemoveAt(jobs[c], i)
  <1>1. jobs[c] \in Seq(ClipJobs)
    BY ClipFields
  <1>2. /\ t \in Seq(ClipJobs) /\ JobsIn(t) \subseteq JobsIn(jobs[c])
        /\ OneEach(jobs[c]) =>
              /\ OneEach(t)
              /\ \A q : AheadFor(t, q) = IF Live(jobs[c][i]) /\ q = jobs[c][i].peer THEN {} ELSE AheadFor(jobs[c], q)
    BY <1>1, AfterRemoval
  <1>3. jobs' = [jobs EXCEPT ![c] = t]
    BY DEF WithoutClip
  <1> HIDE DEF t
  <1>4. jobs' \in [Sharers -> Seq(ClipJobs)] /\ jobs'[c] = t /\ \A d \in Sharers : d # c => jobs'[d] = jobs[d]
    BY <1>2, <1>3, TasksOfOne
  <1>5. \A d \in Sharers : JobsIn(jobs'[d]) \subseteq JobsIn(jobs[d])
    BY <1>2, <1>4
  <1>6. Turns(c, i, t, {}, {})
    BY <1>2, <1>3, <1>4, <1>5 DEF Turns
  <1> QED  BY <1>6

LEMMA TaskTurns ==
  ASSUME ClipTypes, NEW c \in Sharers, NEW i \in DOMAIN jobs[c], NEW job \in ClipJobs,
         Live(job) => Live(jobs[c][i]) /\ job.peer = jobs[c][i].peer,
         jobs' = [jobs EXCEPT ![c][i] = job]
  PROVE  \E t : Turns(c, i, t, {job}, IF Live(job) THEN {Said(job)} ELSE {})
  <1> DEFINE t == [jobs[c] EXCEPT ![i] = job]
             ours == IF Live(job) THEN {Said(job)} ELSE {}
  <1>1. TaskGoesOn(jobs[c], i, job, t)
    <2>1. jobs[c] \in Seq(ClipJobs)
      BY ClipFields
    <2> QED  BY <2>1, AfterChange
  <1>3. jobs' = [jobs EXCEPT ![c] = t]
    BY DEF ClipTypes
  <1> HIDE DEF t
  <1>2. /\ t \in Seq(ClipJobs) /\ JobsIn(t) \subseteq JobsIn(jobs[c]) \cup {job}
        /\ OneEach(jobs[c]) =>
              /\ OneEach(t)
              /\ \A q : AheadFor(t, q) = IF Live(jobs[c][i]) /\ q = jobs[c][i].peer THEN ours ELSE AheadFor(jobs[c], q)
    BY <1>1 DEF TaskGoesOn
  <1> HIDE DEF ours
  <1>4. jobs' \in [Sharers -> Seq(ClipJobs)] /\ jobs'[c] = t /\ \A d \in Sharers : d # c => jobs'[d] = jobs[d]
    BY <1>2, <1>3, TasksOfOne
  <1>5. \A d \in Sharers : JobsIn(jobs'[d]) \subseteq JobsIn(jobs[d]) \cup (IF d = c THEN {job} ELSE {})
    BY <1>2, <1>4
  <1>6. Turns(c, i, t, {job}, ours)
    BY <1>2, <1>3, <1>4, <1>5 DEF Turns
  <1> QED  BY <1>6 DEF ours

(* What Becomes makes of a task, and the type of the tasks.                   *)
LEMMA BecomesIs ==
  ASSUME ClipTypes, NEW c \in Sharers, NEW i \in DOMAIN jobs[c], NEW do, NEW clip
  PROVE  Becomes(jobs, c, i, do, clip) =
           [jobs EXCEPT ![c][i] = [do |-> do, peer |-> jobs[c][i].peer, clip |-> clip]]
  BY DEF Becomes, Job, ClipTypes

(* What a step keeps when it leaves the clipboards alone, and takes no note.   *)
LEMMA ClipRest ==
  ASSUME ClipInv, UNCHANGED <<board, changes, written, share, at, clipsLost, rushed, switches>>,
         jobs' \in [Sharers -> Seq(ClipJobs)],
         echo' \in [Sharers -> [Sharers -> Outcomes]], sending' \in [Sharers -> [Sharers -> Outcomes]],
         \A c \in Sharers : \A job \in JobsIn(jobs'[c]) : job.do = "note" => job \in JobsIn(jobs[c]),
         Steady /\ Paired => Paired'
  PROVE  ClipInv'
  <1>1. ClipTypes'
    BY DEF ClipInv, ClipTypes
  <1>2. \A c \in MacSharers : Noted(c)'
    <2> TAKE c \in MacSharers
    <2>1. c \in Sharers /\ Noted(c)
      BY DEF Sharers, ClipInv
    <2> QED  BY <2>1, NotesStay
  <1>3. Steady' => Paired'
    BY DEF ClipInv, Steady
  <1> QED  BY <1>1, <1>2, <1>3 DEF ClipInv

-----------------------------------------------------------------------------
(* What goes into the table of what is remembered, or on its way.             *)
LEMMA TableAt ==
  ASSUME NEW f \in [Sharers -> [Sharers -> Outcomes]], NEW c \in Sharers, NEW p \in Sharers, NEW clip \in Outcomes
  PROVE  LET g == [f EXCEPT ![c][p] = clip] IN
         /\ g \in [Sharers -> [Sharers -> Outcomes]] /\ g[c][p] = clip
         /\ \A d, q \in Sharers : ~(d = c /\ q = p) => g[d][q] = f[d][q]
  OBVIOUS

LEMMA NoNewTask == \A job \in {} : job.do # "note"
  OBVIOUS

(* A live task, whatever it does for its pair.                                *)
LEMMA LiveTask ==
  ASSUME ClipInv, NEW c \in Sharers, NEW i \in DOMAIN jobs[c], Live(jobs[c][i]),
         NEW t, NEW more, NEW ours, Turns(c, i, t, more, ours), \A job \in more : job.do # "note",
         UNCHANGED <<board, changes, written, share, at, clipsLost, rushed, switches>>,
         echo' \in [Sharers -> [Sharers -> Outcomes]], sending' \in [Sharers -> [Sharers -> Outcomes]],
         NEW p, p = jobs[c][i].peer, Elsewhere(c, p),
         Paired /\ OfPair(c, i, p) => Both(ours, {}, sending'[c][p], NoClip, echo'[c][p], echo[p][c])
  PROVE  ClipInv'
  <1>1. ClipTypes /\ share' = share
    BY DEF ClipInv
  <1>2. jobs' \in [Sharers -> Seq(ClipJobs)]
    BY DEF Turns
  <1>3. \A d \in Sharers : \A job \in JobsIn(jobs'[d]) : job.do = "note" => job \in JobsIn(jobs[d])
    BY DEF Turns
  <1>4. ASSUME Steady, Paired PROVE Paired'
    <2>1. OfPair(c, i, jobs[c][i].peer)
      BY <1>1, <1>4, TaskOfPair
    <2>2. Both(ours, {}, sending'[c][p], NoClip, echo'[c][p], echo[p][c])
      BY <1>4, <2>1
    <2> QED  BY <1>1, <1>4, <2>2, LiveStep
  <1> QED  BY <1>2, <1>3, <1>4, ClipRest

LEMMA ReadIsFine ==
  ASSUME ClipInv, NEW c \in Sharers, NEW i \in DOMAIN jobs[c], Reads(c, i) PROVE ClipInv'
  <1> DEFINE old == jobs[c][i]
             p == old.peer
  <1>1. ClipTypes /\ old.do = "read" /\ Live(old) /\ old \in ClipJobs
    BY ClipFields DEF ClipInv, Reads, Live
  <1>2. UNCHANGED <<board, changes, written, share, at, clipsLost, rushed, switches>>
    BY DEF Reads
  <1>3. /\ echo' \in [Sharers -> [Sharers -> Outcomes]] /\ sending' \in [Sharers -> [Sharers -> Outcomes]]
        /\ Elsewhere(c, p)
    BY <1>1 DEF ClipTypes, Elsewhere, Reads
  <1>4. OfPair(c, i, p) => sending'[c][p] = NoClip /\ echo'[c][p] = echo[p][c]
    BY <1>1 DEF OfPair, Reads
  <1>5. \/ jobs' = WithoutClip(jobs, c, i)
        \/ \E contents \in Outcomes : jobs' = Becomes(jobs, c, i, "decide", contents)
    <2>1. Contents(c) \subseteq Outcomes
      BY <1>1, ClipFields DEF Contents, Outcomes
    <2> QED  BY <2>1 DEF Reads
  <1>6. p \in Sharers /\ p = jobs[c][i].peer
    BY <1>1, JobFields
  <1> HIDE DEF p
  <1>7. CASE jobs' = WithoutClip(jobs, c, i)
    <2>1. PICK t : Turns(c, i, t, {}, {})
      BY <1>1, <1>7, TaskGoes
    <2>2. OfPair(c, i, p) => Both({}, {}, sending'[c][p], NoClip, echo'[c][p], echo[p][c])
      BY <1>4, PairEnds
    <2> QED  BY <1>1, <1>2, <1>3, <1>6, <2>1, <2>2, NoNewTask, LiveTask
  <1>8. ASSUME NEW contents \in Outcomes, jobs' = Becomes(jobs, c, i, "decide", contents) PROVE ClipInv'
    <2> DEFINE job == [do |-> "decide", peer |-> p, clip |-> contents]
    <2>1. /\ job \in ClipJobs /\ Live(job) /\ Said(job).do = "decide" /\ job.do = "decide"
          /\ job.peer = jobs[c][i].peer
      BY <1>6 DEF ClipJobs, Live, Said
    <2>2. jobs' = [jobs EXCEPT ![c][i] = job]
      BY <1>1, <1>6, <1>8, BecomesIs
    <2> HIDE DEF job
    <2>3. PICK t : Turns(c, i, t, {job}, {Said(job)})
      BY <1>1, <2>1, <2>2, TaskTurns
    <2>4. OfPair(c, i, p) => Both({Said(job)}, {}, sending'[c][p], NoClip, echo'[c][p], echo[p][c])
      BY <1>4, <2>1, PairAsks
    <2>5. \A j \in {job} : j.do # "note"
      BY <2>1
    <2> QED  BY <1>1, <1>2, <1>3, <1>6, <2>3, <2>4, <2>5, LiveTask
  <1> QED  BY <1>5, <1>7, <1>8

LEMMA DecisionIsFine ==
  ASSUME ClipInv, NEW c \in Sharers, NEW i \in DOMAIN jobs[c], Decides(c, i) PROVE ClipInv'
  <1> DEFINE old == jobs[c][i]
             p == old.peer
             clip == Meant(c, old.clip)
  <1>1. ClipTypes /\ old.do = "decide" /\ Live(old) /\ old \in ClipJobs
    BY ClipFields DEF ClipInv, Decides, Live
  <1>2. UNCHANGED <<board, changes, written, share, at, clipsLost, rushed, switches>>
    BY DEF Decides
  <1>3. p \in Sharers /\ p = jobs[c][i].peer
    BY <1>1, JobFields
  <1>4. OfPair(c, i, p) => sending[c][p] = NoClip /\ echo[c][p] = echo[p][c]
    BY <1>1 DEF OfPair
  <1>5. \/ /\ IsClip(clip) /\ should_send(c, p, clip) /\ echo' = [echo EXCEPT ![c][p] = clip]
           /\ \/ sending' = [sending EXCEPT ![c][p] = clip] /\ jobs' = WithoutClip(jobs, c, i)
              \/ sending' = sending /\ jobs' = Becomes(jobs, c, i, "send", clip)
        \/ UNCHANGED <<echo, sending>> /\ jobs' = WithoutClip(jobs, c, i)
    BY DEF Decides
  <1> HIDE DEF p, clip
  <1>6. CASE UNCHANGED <<echo, sending>> /\ jobs' = WithoutClip(jobs, c, i)
    <2>1. PICK t : Turns(c, i, t, {}, {})
      BY <1>1, <1>6, TaskGoes
    <2>2. OfPair(c, i, p) => Both({}, {}, sending'[c][p], NoClip, echo'[c][p], echo[p][c])
      <3>1. OfPair(c, i, p) => sending'[c][p] = NoClip /\ echo'[c][p] = echo[p][c]
        BY <1>4, <1>6
      <3> QED  BY <3>1, PairEnds
    <2>3. /\ echo' \in [Sharers -> [Sharers -> Outcomes]] /\ sending' \in [Sharers -> [Sharers -> Outcomes]]
          /\ Elsewhere(c, p)
      BY <1>1, <1>6 DEF ClipTypes, Elsewhere
    <2> QED  BY <1>1, <1>2, <1>3, <2>1, <2>2, <2>3, NoNewTask, LiveTask
  <1>7. ASSUME IsClip(clip), should_send(c, p, clip), echo' = [echo EXCEPT ![c][p] = clip],
               \/ sending' = [sending EXCEPT ![c][p] = clip] /\ jobs' = WithoutClip(jobs, c, i)
               \/ sending' = sending /\ jobs' = Becomes(jobs, c, i, "send", clip)
        PROVE  ClipInv'
    <2>1. clip \in Outcomes /\ clip # NoClip /\ echo[c][p] # clip
      BY <1>7, ClipsAssumption DEF IsClip, should_send, Outcomes
    <2>2. /\ echo' \in [Sharers -> [Sharers -> Outcomes]] /\ echo'[c][p] = clip
          /\ \A d, q \in Sharers : ~(d = c /\ q = p) => echo'[d][q] = echo[d][q]
      BY <1>1, <1>3, <1>7, <2>1, TableAt DEF ClipTypes
    <2>3. CASE sending' = [sending EXCEPT ![c][p] = clip] /\ jobs' = WithoutClip(jobs, c, i)
      <3>1. PICK t : Turns(c, i, t, {}, {})
        BY <1>1, <2>3, TaskGoes
      <3>2. /\ sending' \in [Sharers -> [Sharers -> Outcomes]] /\ sending'[c][p] = clip
            /\ \A d, q \in Sharers : ~(d = c /\ q = p) => sending'[d][q] = sending[d][q]
        BY <1>1, <1>3, <2>1, <2>3, TableAt DEF ClipTypes
      <3>3. OfPair(c, i, p) => Both({}, {}, sending'[c][p], NoClip, echo'[c][p], echo[p][c])
        BY <1>4, <2>1, <2>2, <3>2, PairCarries
      <3>4. Elsewhere(c, p)
        BY <2>2, <3>2 DEF Elsewhere
      <3> QED  BY <1>1, <1>2, <1>3, <2>2, <3>1, <3>2, <3>3, <3>4, NoNewTask, LiveTask
    <2>4. CASE sending' = sending /\ jobs' = Becomes(jobs, c, i, "send", clip)
      <3> DEFINE job == [do |-> "send", peer |-> p, clip |-> clip]
      <3>1. /\ job \in ClipJobs /\ Live(job) /\ Said(job).do = "send" /\ Said(job).clip = clip /\ job.do = "send"
            /\ job.peer = jobs[c][i].peer
        BY <1>3, <2>1 DEF ClipJobs, Live, Said
      <3>2. jobs' = [jobs EXCEPT ![c][i] = job]
        BY <1>1, <1>3, <2>4, BecomesIs
      <3> HIDE DEF job
      <3>3. PICK t : Turns(c, i, t, {job}, {Said(job)})
        BY <1>1, <3>1, <3>2, TaskTurns
      <3>4. OfPair(c, i, p) => Both({Said(job)}, {}, sending'[c][p], NoClip, echo'[c][p], echo[p][c])
        <4>1. OfPair(c, i, p) => sending'[c][p] = NoClip /\ echo'[c][p] = clip /\ echo[p][c] # clip
          BY <1>4, <2>1, <2>2, <2>4
        <4> QED  BY <2>1, <3>1, <4>1, PairSends
      <3>5. \A j \in {job} : j.do # "note"
        BY <3>1
      <3>6. Elsewhere(c, p) /\ sending' \in [Sharers -> [Sharers -> Outcomes]]
        BY <1>1, <2>2, <2>4 DEF Elsewhere, ClipTypes
      <3> QED  BY <1>1, <1>2, <1>3, <2>2, <3>3, <3>4, <3>5, <3>6, LiveTask
    <2> QED  BY <1>7, <2>3, <2>4
  <1> QED  BY <1>5, <1>6, <1>7

LEMMA SendIsFine ==
  ASSUME ClipInv, NEW c \in Sharers, NEW i \in DOMAIN jobs[c], Sends(c, i) PROVE ClipInv'
  <1> DEFINE old == jobs[c][i]
             p == old.peer
             clip == old.clip
  <1>1. ClipTypes /\ old.do = "send" /\ Live(old) /\ old \in ClipJobs
    BY ClipFields DEF ClipInv, Sends, Live
  <1>2. /\ UNCHANGED <<board, changes, written, share, at, clipsLost, rushed, switches>> /\ echo' = echo
        /\ sending' = [sending EXCEPT ![c][p] = clip] /\ jobs' = WithoutClip(jobs, c, i)
    BY DEF Sends
  <1>3. p \in Sharers /\ p = jobs[c][i].peer /\ clip \in Outcomes
    BY <1>1, JobFields
  <1>4. OfPair(c, i, p) => clip # NoClip /\ echo[c][p] = clip /\ echo[p][c] # clip
    BY <1>1 DEF OfPair
  <1> HIDE DEF p, clip
  <1>5. PICK t : Turns(c, i, t, {}, {})
    BY <1>1, <1>2, TaskGoes
  <1>6. /\ sending' \in [Sharers -> [Sharers -> Outcomes]] /\ sending'[c][p] = clip
        /\ \A d, q \in Sharers : ~(d = c /\ q = p) => sending'[d][q] = sending[d][q]
    BY <1>1, <1>2, <1>3, TableAt DEF ClipTypes
  <1>7. OfPair(c, i, p) => Both({}, {}, sending'[c][p], NoClip, echo'[c][p], echo[p][c])
    <2>1. OfPair(c, i, p) => echo'[c][p] = clip
      BY <1>2, <1>4
    <2> QED  BY <1>4, <1>6, <2>1, PairCarries
  <1>8. Elsewhere(c, p) /\ echo' \in [Sharers -> [Sharers -> Outcomes]]
    BY <1>1, <1>2, <1>6 DEF Elsewhere, ClipTypes
  <1> QED  BY <1>1, <1>2, <1>3, <1>5, <1>6, <1>7, <1>8, NoNewTask, LiveTask

LEMMA KeepIsFine ==
  ASSUME ClipInv, NEW c \in Sharers, NEW i \in DOMAIN jobs[c], Keeps(c, i) PROVE ClipInv'
  <1> DEFINE old == jobs[c][i]
             p == old.peer
             clip == old.clip
  <1>1. ClipTypes /\ old.do = "keep" /\ Live(old) /\ old \in ClipJobs
    BY ClipFields DEF ClipInv, Keeps, Live
  <1>2. UNCHANGED <<board, changes, written, share, at, clipsLost, rushed, switches>> /\ sending' = sending
    BY DEF Keeps
  <1>3. p \in Sharers /\ p = jobs[c][i].peer /\ clip \in Outcomes
    BY <1>1, JobFields
  <1>4. OfPair(c, i, p) => sending[c][p] = NoClip /\ echo[p][c] = clip
    BY <1>1 DEF OfPair
  <1>5. \/ echo' = [echo EXCEPT ![c][p] = clip] /\ jobs' = Becomes(jobs, c, i, "write", clip)
        \/ ~share[c] /\ echo' = echo /\ jobs' = WithoutClip(jobs, c, i)
    BY DEF Keeps, Remembers
  <1> HIDE DEF p, clip
  <1>6. CASE ~share[c] /\ echo' = echo /\ jobs' = WithoutClip(jobs, c, i)
    <2>1. PICK t : Turns(c, i, t, {}, {})
      BY <1>1, <1>6, TaskGoes
    <2>2. ~Paired
      BY <1>6 DEF Paired
    <2>3. /\ Elsewhere(c, p) /\ echo' \in [Sharers -> [Sharers -> Outcomes]]
          /\ sending' \in [Sharers -> [Sharers -> Outcomes]]
      BY <1>1, <1>2, <1>6 DEF Elsewhere, ClipTypes
    <2> QED  BY <1>1, <1>2, <1>3, <2>1, <2>2, <2>3, NoNewTask, LiveTask
  <1>7. CASE echo' = [echo EXCEPT ![c][p] = clip] /\ jobs' = Becomes(jobs, c, i, "write", clip)
    <2> DEFINE job == [do |-> "write", peer |-> p, clip |-> clip]
    <2>1. job \in ClipJobs /\ ~Live(job) /\ job.do = "write"
      BY <1>3 DEF ClipJobs, Live
    <2>2. jobs' = [jobs EXCEPT ![c][i] = job]
      BY <1>1, <1>3, <1>7, BecomesIs
    <2> HIDE DEF job
    <2>3. PICK t : Turns(c, i, t, {job}, {})
      BY <1>1, <2>1, <2>2, TaskTurns
    <2>4. /\ echo' \in [Sharers -> [Sharers -> Outcomes]] /\ echo'[c][p] = clip
          /\ \A d, q \in Sharers : ~(d = c /\ q = p) => echo'[d][q] = echo[d][q]
      BY <1>1, <1>3, <1>7, TableAt DEF ClipTypes
    <2>5. OfPair(c, i, p) => Both({}, {}, sending'[c][p], NoClip, echo'[c][p], echo[p][c])
      <3>1. OfPair(c, i, p) => sending'[c][p] = NoClip /\ echo'[c][p] = echo[p][c]
        BY <1>2, <1>4, <2>4
      <3> QED  BY <3>1, PairEnds
    <2>6. \A j \in {job} : j.do # "note"
      BY <2>1
    <2>7. Elsewhere(c, p) /\ sending' \in [Sharers -> [Sharers -> Outcomes]]
      BY <1>1, <1>2, <2>4 DEF Elsewhere, ClipTypes
    <2> QED  BY <1>1, <1>2, <1>3, <2>3, <2>4, <2>5, <2>6, <2>7, LiveTask
  <1> QED  BY <1>5, <1>6, <1>7

-----------------------------------------------------------------------------
(* A task that is not live goes, or turns into another that is not: nothing    *)
(* of any pair changes.                                                      *)
LEMMA QuietTurn ==
  ASSUME ClipTypes, Paired, NEW c \in Sharers, NEW i \in DOMAIN jobs[c], ~Live(jobs[c][i]),
         NEW t, NEW more, Turns(c, i, t, more, {}), UNCHANGED <<share, echo, sending>>
  PROVE  Paired'
  <1>1. OneEach(jobs[c]) /\ t \in Seq(ClipJobs) /\ jobs' = [jobs EXCEPT ![c] = t]
    BY DEF Paired, Turns
  <1>2. OneEach(t) /\ \A q : AheadFor(t, q) = AheadFor(jobs[c], q)
    BY <1>1 DEF Turns
  <1>3. jobs'[c] = t /\ \A d \in Sharers : d # c => jobs'[d] = jobs[d]
    BY <1>1, TasksOfOne
  <1>4. \A d \in Sharers : share'[d] /\ OneEach(jobs'[d])
    BY <1>2, <1>3 DEF Paired
  <1>5. \A d, q \in Sharers : AheadFor(jobs'[d], q) = AheadFor(jobs[d], q)
    BY <1>2, <1>3
  <1> QED  BY <1>4, <1>5, PairsUntouched

LEMMA FailureIsFine ==
  ASSUME ClipInv, NEW c \in Sharers, NEW i \in DOMAIN jobs[c], Fails(c, i) PROVE ClipInv'
  <1>1. ClipTypes /\ jobs[c][i] \in ClipJobs /\ jobs[c][i].do \in {"read", "write"}
    BY ClipFields DEF ClipInv, Fails
  <1>2. UNCHANGED <<board, changes, written, share, at, clipsLost, rushed, switches>>
    BY DEF Fails
  <1>3. /\ echo' \in [Sharers -> [Sharers -> Outcomes]] /\ sending' \in [Sharers -> [Sharers -> Outcomes]]
        /\ \A p : Elsewhere(c, p)
    BY <1>1 DEF ClipTypes, Elsewhere, Fails
  <1>4. PICK t : Turns(c, i, t, {}, {})
    BY <1>1, TaskGoes DEF Fails
  <1>5. CASE jobs[c][i].do = "read"
    <2>1. Live(jobs[c][i])
      BY <1>5 DEF Live
    <2> DEFINE p == jobs[c][i].peer
    <2>2. p = jobs[c][i].peer
      OBVIOUS
    <2>3. OfPair(c, i, p) => sending'[c][p] = NoClip /\ echo'[c][p] = echo[p][c]
      BY <1>5 DEF OfPair, Fails
    <2> HIDE DEF p
    <2>4. OfPair(c, i, p) => Both({}, {}, sending'[c][p], NoClip, echo'[c][p], echo[p][c])
      BY <2>3, PairEnds
    <2>5. Elsewhere(c, p)
      BY <1>3
    <2> QED  BY <1>2, <1>3, <1>4, <2>1, <2>2, <2>4, <2>5, NoNewTask, LiveTask
  <1>6. CASE jobs[c][i].do = "write"
    <2>1. ~Live(jobs[c][i])
      BY <1>6 DEF Live
    <2>2. UNCHANGED <<share, echo, sending>>
      BY DEF Fails
    <2>3. Paired => Paired'
      BY <1>1, <1>4, <2>1, <2>2, QuietTurn
    <2>4. /\ jobs' \in [Sharers -> Seq(ClipJobs)]
          /\ \A d \in Sharers : \A job \in JobsIn(jobs'[d]) : job.do = "note" => job \in JobsIn(jobs[d])
      BY <1>4 DEF Turns
    <2> QED  BY <1>2, <1>3, <2>3, <2>4, ClipRest
  <1> QED  BY <1>1, <1>5, <1>6

(* A write leaves a newer content than any note there is; on a Mac it leaves   *)
(* a note of its own.                                                        *)
LEMMA WriteIsFine ==
  ASSUME ClipInv, NEW c \in Sharers, NEW i \in DOMAIN jobs[c], Writes(c, i) PROVE ClipInv'
  <1> DEFINE clip == jobs[c][i].clip
             note == [do |-> "note", peer |-> changes[c] + 1, clip |-> clip]
  <1>1. ClipTypes /\ jobs[c][i] \in ClipJobs /\ ~Live(jobs[c][i]) /\ clip \in Outcomes /\ changes[c] \in Nat
    BY ClipFields, JobFields DEF ClipInv, Writes, Live
  <1>2. /\ UNCHANGED <<written, share, at, clipsLost, rushed, switches>> /\ UNCHANGED <<share, echo, sending>>
        /\ board' = [board EXCEPT ![c] = clip] /\ changes' = [changes EXCEPT ![c] = @ + 1]
    BY DEF Writes
  <1>3. \E t, more : Turns(c, i, t, more, {}) /\ \A job \in more : job = note
    <2>1. CASE c \in MacSharers
      <3>1. jobs' = [jobs EXCEPT ![c][i] = note]
        BY <1>1, <2>1 DEF Writes, Job, ClipTypes
      <3>2. note \in ClipJobs /\ ~Live(note)
        BY <1>1 DEF ClipJobs, Live
      <3> HIDE DEF note
      <3>3. \E t : Turns(c, i, t, {note}, {})
        BY <1>1, <3>1, <3>2, TaskTurns
      <3>4. \A job \in {note} : job = note
        OBVIOUS
      <3> QED  BY <3>3, <3>4
    <2>2. CASE c \notin MacSharers
      <3>1. jobs' = WithoutClip(jobs, c, i)
        BY <2>2 DEF Writes
      <3>2. \E t : Turns(c, i, t, {}, {})
        BY <1>1, <3>1, TaskGoes
      <3> HIDE DEF note
      <3>3. \A job \in {} : job = note
        OBVIOUS
      <3> QED  BY <3>2, <3>3
    <2> QED  BY <2>1, <2>2
  <1>4. PICK t, more : Turns(c, i, t, more, {}) /\ \A job \in more : job = note
    BY <1>3
  <1>5. /\ jobs' \in [Sharers -> Seq(ClipJobs)] /\ \A d \in Sharers : d # c => JobsIn(jobs'[d]) \subseteq JobsIn(jobs[d])
        /\ \A job \in JobsIn(jobs'[c]) : job \in JobsIn(jobs[c]) \/ job = note
    BY <1>4 DEF Turns
  <1>6. note.peer = changes[c] + 1 /\ note.clip = clip
    OBVIOUS
  <1>7. Paired => Paired'
    BY <1>1, <1>2, <1>4, QuietTurn
  <1> HIDE DEF clip, note
  <1>8. /\ board' \in [Sharers -> Outcomes] /\ changes' \in [Sharers -> Nat]
        /\ board'[c] = clip /\ changes'[c] = changes[c] + 1
        /\ \A d \in Sharers : d # c => board'[d] = board[d] /\ changes'[d] = changes[d]
    BY <1>1, <1>2 DEF ClipTypes
  <1>9. ClipTypes'
    BY <1>1, <1>2, <1>5, <1>8 DEF ClipTypes
  <1>10. ASSUME NEW d \in MacSharers PROVE Noted(d)'
    <2>1. d \in Sharers /\ Noted(d) /\ written' = written
      BY <1>2 DEF Sharers, ClipInv
    <2>2. CASE d = c
      <3>1. written[c].count \in Nat
        BY <1>1, <2>1, ClipFields
      <3>2. /\ written'[c].count <= changes'[c] /\ ~(written'[c].count = changes'[c])
        BY <1>1, <1>8, <2>1, <2>2, <3>1 DEF Noted
      <3>3. ASSUME NEW job \in JobsIn(jobs'[c]), job.do = "note"
            PROVE  job.peer \in Nat /\ job.peer <= changes'[c] /\ (job.peer = changes'[c] => board'[c] = job.clip)
        <4>1. CASE job = note
          BY <1>1, <1>6, <1>8, <4>1
        <4>2. CASE job \in JobsIn(jobs[c])
          <5>1. job.peer \in Nat /\ job.peer <= changes[c]
            BY <2>1, <2>2, <3>3, <4>2 DEF Noted
          <5>2. job.peer <= changes'[c] /\ job.peer # changes'[c]
            BY <1>1, <1>8, <5>1
          <5> QED  BY <5>1, <5>2
        <4> QED  BY <1>5, <4>1, <4>2
      <3> QED  BY <2>2, <3>2, <3>3 DEF Noted
    <2>3. CASE d # c
      <3>1. JobsIn(jobs'[d]) \subseteq JobsIn(jobs[d]) /\ board'[d] = board[d] /\ changes'[d] = changes[d]
        BY <1>5, <1>8, <2>1, <2>3
      <3> QED  BY <2>1, <3>1 DEF Noted
    <2> QED  BY <2>2, <2>3
  <1> QED  BY <1>2, <1>7, <1>9, <1>10 DEF ClipInv, Steady

LEMMA NoteIsFine ==
  ASSUME ClipInv, NEW c \in Sharers, NEW i \in DOMAIN jobs[c], Notes(c, i) PROVE ClipInv'
  <1> DEFINE old == jobs[c][i]
  <1>1. ClipTypes /\ old \in ClipJobs /\ old.do = "note" /\ ~Live(old) /\ old.clip \in Outcomes /\ old.peer \in Nat
    BY ClipFields, JobFields DEF ClipInv, Notes, Live
  <1>2. old \in JobsIn(jobs[c])
    BY DEF JobsIn
  <1>3. /\ UNCHANGED <<board, changes, share, at, clipsLost, rushed, switches>> /\ UNCHANGED <<share, echo, sending>>
        /\ written' = [written EXCEPT ![c] = [count |-> old.peer, clip |-> old.clip]]
    BY DEF Notes, CountsAtWrite
  <1>4. PICK t : Turns(c, i, t, {}, {})
    BY <1>1, TaskGoes DEF Notes
  <1>5. jobs' \in [Sharers -> Seq(ClipJobs)] /\ \A d \in Sharers : JobsIn(jobs'[d]) \subseteq JobsIn(jobs[d])
    BY <1>4 DEF Turns
  <1>6. Paired => Paired'
    BY <1>1, <1>3, <1>4, QuietTurn
  <1> HIDE DEF old
  <1>7. /\ written' \in [Sharers -> [count : Nat, clip : Outcomes]]
        /\ written'[c].count = old.peer /\ written'[c].clip = old.clip
        /\ \A d \in Sharers : d # c => written'[d] = written[d]
    BY <1>1, <1>3 DEF ClipTypes
  <1>8. ClipTypes'
    BY <1>1, <1>3, <1>5, <1>7 DEF ClipTypes
  <1>9. ASSUME NEW d \in MacSharers PROVE Noted(d)'
    <2>1. d \in Sharers /\ Noted(d) /\ board' = board /\ changes' = changes
      BY <1>3 DEF Sharers, ClipInv
    <2>2. \A job \in JobsIn(jobs'[d]) :
            job.do = "note" => job.peer \in Nat /\ job.peer <= changes[d] /\ (job.peer = changes[d] => board[d] = job.clip)
      BY <1>5, <2>1 DEF Noted
    <2>3. CASE d = c
      <3>1. old.peer <= changes[c] /\ (old.peer = changes[c] => board[c] = old.clip)
        BY <1>1, <1>2, <2>1, <2>3 DEF Noted
      <3> QED  BY <1>7, <2>1, <2>2, <2>3, <3>1 DEF Noted
    <2>4. CASE d # c
      BY <1>7, <2>1, <2>2, <2>4 DEF Noted
    <2> QED  BY <2>3, <2>4
  <1> QED  BY <1>3, <1>6, <1>8, <1>9 DEF ClipInv, Steady

(* A person's copy is newer than any note.                                   *)
LEMMA CopyIsFine ==
  ASSUME ClipInv, NEW c \in Sharers, NEW clip \in Clips \cup {TooLarge}, Copy(c, clip) PROVE ClipInv'
  <1>1. ClipTypes /\ clip \in Outcomes /\ changes[c] \in Nat
    BY ClipFields DEF ClipInv, Outcomes
  <1>2. /\ UNCHANGED <<written, share, at, clipsLost, rushed, switches>> /\ UNCHANGED <<jobs, echo, sending>>
        /\ board' = [board EXCEPT ![c] = clip] /\ changes' = [changes EXCEPT ![c] = @ + 1]
    BY DEF Copy
  <1>3. /\ board' \in [Sharers -> Outcomes] /\ changes' \in [Sharers -> Nat]
        /\ board'[c] = clip /\ changes'[c] = changes[c] + 1
        /\ \A d \in Sharers : d # c => board'[d] = board[d] /\ changes'[d] = changes[d]
    BY <1>1, <1>2 DEF ClipTypes
  <1>4. ClipTypes'
    BY <1>1, <1>2, <1>3 DEF ClipTypes
  <1>5. ASSUME NEW d \in MacSharers PROVE Noted(d)'
    <2>1. d \in Sharers /\ Noted(d) /\ written' = written /\ jobs' = jobs
      BY <1>2 DEF Sharers, ClipInv
    <2>2. CASE d = c
      <3>1. written[c].count \in Nat /\ written[c].count <= changes[c]
        BY <1>1, <2>1, <2>2, ClipFields DEF Noted
      <3>2. written'[c].count <= changes'[c] /\ ~(written'[c].count = changes'[c])
        BY <1>1, <1>3, <2>1, <3>1
      <3>3. ASSUME NEW job \in JobsIn(jobs[c]), job.do = "note"
            PROVE  job.peer \in Nat /\ job.peer <= changes'[c] /\ ~(job.peer = changes'[c])
        <4>1. job.peer \in Nat /\ job.peer <= changes[c]
          BY <2>1, <2>2, <3>3 DEF Noted
        <4> QED  BY <1>1, <1>3, <4>1
      <3> QED  BY <2>1, <2>2, <3>2, <3>3 DEF Noted
    <2>3. CASE d # c
      BY <1>3, <2>1, <2>3 DEF Noted
    <2> QED  BY <2>2, <2>3
  <1>6. Paired => Paired'
    BY <1>2 DEF Paired, NotOwn, PairOk
  <1> QED  BY <1>2, <1>4, <1>5, <1>6 DEF ClipInv, Steady

(* What the switch and a lost clip do is outside what the pairs are held to.   *)
LEMMA ShareSwitchIsFine ==
  ASSUME ClipInv, NEW c \in Sharers, set_share(c) PROVE ClipInv'
  <1>1. ClipTypes /\ switches \in Nat /\ switches' = switches + 1
    BY DEF ClipInv, ClipTypes, set_share
  <1>2. ClipTypes'
    BY <1>1 DEF ClipTypes, set_share
  <1>3. \A d \in MacSharers : Noted(d)'
    BY DEF ClipInv, Noted, set_share
  <1>4. ~Steady'
    BY <1>1 DEF Steady
  <1> QED  BY <1>2, <1>3, <1>4 DEF ClipInv

LEMMA LossIsFine ==
  ASSUME ClipInv, NEW c \in Sharers, NEW p \in Sharers, Loses(c, p) PROVE ClipInv'
  <1>1. ClipTypes
    BY DEF ClipInv
  <1>2. NoClip \in Outcomes
    BY DEF Outcomes
  <1>3. sending' \in [Sharers -> [Sharers -> Outcomes]]
    BY <1>1, <1>2, TableAt DEF ClipTypes, Loses
  <1>4. ClipTypes'
    BY <1>1, <1>3 DEF ClipTypes, Loses
  <1>5. \A d \in MacSharers : Noted(d)'
    BY DEF ClipInv, Noted, Loses
  <1>6. ~Steady'
    BY DEF Steady, Loses
  <1> QED  BY <1>4, <1>5, <1>6 DEF ClipInv

-----------------------------------------------------------------------------
(* One more task of a computer. *)
Added(js, k, c, job) ==
  /\ k \in [Sharers -> Seq(ClipJobs)]
  /\ \A d \in Sharers : JobsIn(k[d]) \subseteq JobsIn(js[d]) \cup {job}
  /\ \A d \in Sharers : \A q : ~(d = c /\ Live(job) /\ q = job.peer) => AheadFor(k[d], q) = AheadFor(js[d], q)
  /\ OneEach(js[c]) /\ (Live(job) => AheadFor(js[c], job.peer) = {}) =>
       OneEach(k[c]) /\ (Live(job) => AheadFor(k[c], job.peer) = {} \/ AheadFor(k[c], job.peer) = {Said(job)})
  /\ c \notin WindowsSharers /\ Live(job) /\ OneEach(js[c]) /\ AheadFor(js[c], job.peer) = {} =>
       AheadFor(k[c], job.peer) = {Said(job)}
  /\ \A d \in Sharers : d # c => k[d] = js[d]

LEMMA AddsIs ==
  ASSUME NEW js \in [Sharers -> Seq(ClipJobs)], NEW c \in Sharers, NEW job \in ClipJobs
  PROVE  Added(js, Adds(js, c, job), c, job)
  <1> DEFINE t == Append(js[c], job)
             k == [js EXCEPT ![c] = t]
  <1>1. js[c] \in Seq(ClipJobs)
    OBVIOUS
  <1>2. /\ t \in Seq(ClipJobs) /\ JobsIn(t) \subseteq JobsIn(js[c]) \cup {job}
        /\ \A p : ~(Live(job) /\ p = job.peer) => AheadFor(t, p) = AheadFor(js[c], p)
        /\ OneEach(js[c]) /\ (Live(job) => AheadFor(js[c], job.peer) = {}) =>
              OneEach(t) /\ (Live(job) => AheadFor(t, job.peer) = {Said(job)})
    BY <1>1, AfterAppend
  <1>3. Adds(js, c, job) = IF HasRoom(js, c) THEN k ELSE js
    BY DEF Adds
  <1> HIDE DEF t
  <1>4. k \in [Sharers -> Seq(ClipJobs)] /\ k[c] = t /\ \A d \in Sharers : d # c => k[d] = js[d]
    BY <1>2
  <1> HIDE DEF k
  <1>5. Added(js, k, c, job)
    BY <1>2, <1>4 DEF Added
  <1>6. CASE HasRoom(js, c)
    <2>1. Adds(js, c, job) = k
      BY <1>3, <1>6
    <2> QED  BY <1>5, <2>1
  <1>7. CASE ~HasRoom(js, c)
    <2>1. Adds(js, c, job) = js
      BY <1>3, <1>7
    <2>2. c \in WindowsSharers
      BY <1>7 DEF HasRoom
    <2>3. Added(js, js, c, job)
      BY <2>2 DEF Added
    <2> QED  BY <2>1, <2>3
  <1> QED  BY <1>6, <1>7

(* Only reads, each of a pair of its own.                                     *)
Asked(js, pairs) ==
  \A d \in Sharers :
    /\ OneEach(js[d])
    /\ \A q : AheadFor(js[d], q) # {} => <<d, q>> \in pairs
    /\ \A q : \A said \in AheadFor(js[d], q) : said.do = "read"

Shared(js, k, c, p) ==
  /\ k \in [Sharers -> Seq(ClipJobs)]
  /\ \A d \in Sharers : \A job \in JobsIn(k[d]) : job.do = "note" => job \in JobsIn(js[d])
  /\ \A pairs : Asked(js, pairs) /\ <<c, p>> \notin pairs => Asked(k, pairs \cup {<<c, p>>})

LEMMA SharesIs ==
  ASSUME NEW js \in [Sharers -> Seq(ClipJobs)], NEW c \in Sharers, NEW p \in Sharers
  PROVE  Shared(js, Shares(js, c, p), c, p)
  <1> DEFINE job == Job("read", p, NoClip)
             k == Adds(js, c, job)
  <1>1. job \in ClipJobs /\ Live(job) /\ job.peer = p /\ job.do = "read" /\ Said(job).do = "read"
    BY DEF ClipJobs, Job, Outcomes, Live, Said
  <1>2. Shares(js, c, p) = k \/ Shares(js, c, p) = js
    BY DEF Shares
  <1> HIDE DEF job
  <1>3. Added(js, k, c, job)
    BY <1>1, AddsIs
  <1> HIDE DEF k
  <1>4. Shared(js, k, c, p)
    <2>1. k \in [Sharers -> Seq(ClipJobs)]
      BY <1>3 DEF Added
    <2>2. \A d \in Sharers : \A j \in JobsIn(k[d]) : j.do = "note" => j \in JobsIn(js[d])
      BY <1>1, <1>3 DEF Added
    <2>3. ASSUME NEW pairs, Asked(js, pairs), <<c, p>> \notin pairs PROVE Asked(k, pairs \cup {<<c, p>>})
      <3>1. OneEach(js[c]) /\ AheadFor(js[c], p) = {}
        BY <2>3 DEF Asked
      <3>2. OneEach(k[c]) /\ (AheadFor(k[c], p) = {} \/ AheadFor(k[c], p) = {Said(job)})
        BY <1>1, <1>3, <3>1 DEF Added
      <3>3. \A d \in Sharers : \A q : ~(d = c /\ q = p) => AheadFor(k[d], q) = AheadFor(js[d], q)
        BY <1>1, <1>3 DEF Added
      <3>4. \A d \in Sharers : d # c => k[d] = js[d]
        BY <1>3 DEF Added
      <3> SUFFICES ASSUME NEW d \in Sharers
                   PROVE  /\ OneEach(k[d])
                          /\ \A q : AheadFor(k[d], q) # {} => <<d, q>> \in pairs \cup {<<c, p>>}
                          /\ \A q : \A said \in AheadFor(k[d], q) : said.do = "read"
        BY DEF Asked
      <3>5. OneEach(k[d])
        BY <2>3, <3>2, <3>4 DEF Asked
      <3>6. ASSUME NEW q
            PROVE  /\ AheadFor(k[d], q) # {} => <<d, q>> \in pairs \cup {<<c, p>>}
                   /\ \A said \in AheadFor(k[d], q) : said.do = "read"
        <4>1. CASE d = c /\ q = p
          BY <1>1, <3>2, <4>1
        <4>2. CASE ~(d = c /\ q = p)
          BY <2>3, <3>3, <4>2 DEF Asked
        <4> QED  BY <4>1, <4>2
      <3> QED  BY <3>5, <3>6
    <2> QED  BY <2>1, <2>2, <2>3 DEF Shared
  <1>5. Shared(js, js, c, p)
    BY DEF Shared, Asked
  <1> QED  BY <1>2, <1>4, <1>5

(* A move of the pointer. When nothing was under way, every pair agreed, and   *)
(* the move starts one task for each pair it shares with.                     *)
LEMMA MoveIsFine ==
  ASSUME ClipInv, jobs' \in [Sharers -> Seq(ClipJobs)], at' \in Sharers,
         \A d \in Sharers : \A job \in JobsIn(jobs'[d]) : job.do = "note" => job \in JobsIn(jobs[d]),
         UNCHANGED <<board, changes, written, share, echo, sending, clipsLost, switches>>,
         rushed' = (rushed \/ ~Settled),
         NEW pairs, \A d, q : <<d, q>> \in pairs => d # q /\ <<q, d>> \notin pairs,
         Settled => Asked(jobs', pairs)
  PROVE  ClipInv'
  <1>1. ClipTypes /\ rushed' \in BOOLEAN
    BY DEF ClipInv, ClipTypes, Settled
  <1>2. ClipTypes'
    BY <1>1 DEF ClipTypes
  <1>3. \A c \in MacSharers : Noted(c)'
    <2> TAKE c \in MacSharers
    <2>1. c \in Sharers /\ Noted(c)
      BY DEF Sharers, ClipInv
    <2> QED  BY <2>1, NotesStay
  <1>4. ASSUME Steady' PROVE Paired'
    <2>1. Steady /\ Settled /\ Paired
      BY <1>1, <1>4 DEF Steady, ClipInv, ClipTypes
    <2>2. Asked(jobs', pairs)
      BY <2>1
    <2>3. \A c \in Sharers : share'[c] /\ OneEach(jobs'[c])
      BY <2>1, <2>2 DEF Paired, Asked
    <2>4. \A c, p \in Sharers : sending'[c][p] = NoClip
      BY <2>1 DEF Settled
    <2>5. \A c \in Sharers : AheadFor(jobs'[c], c) = {}
      BY <2>2 DEF Asked
    <2>6. NotOwn'
      BY <2>4, <2>5 DEF NotOwn
    <2>7. ASSUME NEW c \in Sharers, NEW p \in Sharers, c # p PROVE PairOk(c, p)'
      <3>1. echo'[c][p] = echo'[p][c]
        <4>1. PairOk(c, p) /\ jobs[c] = <<>> /\ jobs[p] = <<>> /\ sending[c][p] = NoClip /\ sending[p][c] = NoClip
          BY <2>1, <2>7 DEF Paired, Settled
        <4>2. \A q : AheadFor(<<>>, q) = {}
          BY DEF AheadFor, LiveAt
        <4>3. PairIs({}, {}, NoClip, NoClip, echo[c][p], echo[p][c])
          BY <4>1, <4>2 DEF PairOk
        <4>4. echo[c][p] = echo[p][c]
          BY <4>3 DEF PairIs
        <4> QED  BY <4>4
      <3>2. AheadFor(jobs'[c], p) # {} => AheadFor(jobs'[p], c) = {}
        BY <2>2 DEF Asked
      <3>3. \A said \in AheadFor(jobs'[c], p) : said.do = "read"
        BY <2>2 DEF Asked
      <3>4. sending'[c][p] = NoClip /\ sending'[p][c] = NoClip
        BY <2>4
      <3>5. PairIs(AheadFor(jobs'[c], p), AheadFor(jobs'[p], c), sending'[c][p], sending'[p][c], echo'[c][p], echo'[p][c])
        BY <3>1, <3>2, <3>3, <3>4 DEF PairIs
      <3> QED  BY <3>5 DEF PairOk
    <2> QED  BY <2>3, <2>6, <2>7 DEF Paired
  <1> QED  BY <1>2, <1>3, <1>4 DEF ClipInv

LEMMA NothingAsked == Settled => Asked(jobs, {})
  <1>1. \A q : AheadFor(<<>>, q) = {}
    BY DEF AheadFor, LiveAt
  <1>2. OneEach(<<>>)
    BY DEF OneEach
  <1> QED  BY <1>1, <1>2 DEF Settled, Asked

LEMMA WalkIsFine ==
  ASSUME ClipInv, NEW c \in Sharers, NEW p \in Sharers, c # p, NEW to \in Sharers,
         jobs' = Shares(jobs, c, p), Walks(to)
  PROVE  ClipInv'
  <1>1. Shared(jobs, Shares(jobs, c, p), c, p)
    BY SharesIs DEF ClipInv, ClipTypes
  <1>2. Shared(jobs, jobs', c, p)
    BY <1>1
  <1> DEFINE pairs == {} \cup {<<c, p>>}
  <1>3. \A d, q : <<d, q>> \in pairs => d # q /\ <<q, d>> \notin pairs
    OBVIOUS
  <1>4. Settled => Asked(jobs', pairs)
    BY <1>2, NothingAsked DEF Shared
  <1> HIDE DEF pairs
  <1> QED  BY <1>2, <1>3, <1>4, MoveIsFine DEF Shared, Walks

LEMMA HopIsFine ==
  ASSUME ClipInv, NEW q \in Sharers, Hop(q) PROVE ClipInv'
  <1>1. ClipTypes /\ at \in Sharers /\ at # Source /\ q # Source /\ q # at /\ Source \in Sharers
    BY ClipboardAssumption DEF ClipInv, ClipTypes, Hop
  <1> DEFINE first == Shares(jobs, Source, q)
             before == {} \cup {<<Source, q>>}
             pairs == before \cup {<<at, Source>>}
  <1>2. Shared(jobs, first, Source, q)
    BY <1>1, SharesIs DEF ClipTypes
  <1>3. jobs' = Shares(first, at, Source)
    BY DEF Hop
  <1> HIDE DEF first
  <1>4. Shared(first, jobs', at, Source)
    BY <1>1, <1>2, <1>3, SharesIs DEF Shared
  <1>5. \A d, e : <<d, e>> \in pairs => d # e /\ <<e, d>> \notin pairs
    BY <1>1
  <1>6. <<Source, q>> \notin {} /\ <<at, Source>> \notin before
    BY <1>1
  <1> HIDE DEF before
  <1>7. Settled => Asked(first, before)
    BY <1>2, <1>6, NothingAsked DEF Shared, before
  <1>8. Settled => Asked(jobs', pairs)
    BY <1>4, <1>6, <1>7 DEF Shared
  <1>9. \A d \in Sharers : \A job \in JobsIn(jobs'[d]) : job.do = "note" => job \in JobsIn(jobs[d])
    BY <1>2, <1>4 DEF Shared
  <1>10. jobs' \in [Sharers -> Seq(ClipJobs)] /\ Walks(q)
    BY <1>4 DEF Shared, Hop
  <1> HIDE DEF pairs
  <1> QED  BY <1>5, <1>8, <1>9, <1>10, MoveIsFine DEF Walks

-----------------------------------------------------------------------------
(* A clip that arrives was the only thing under way between the two: it is     *)
(* remembered at once, or is now a task that will.                           *)
LEMMA WhatComes ==
  ASSUME ClipTypes, Paired, NEW c \in Sharers, NEW p \in Sharers, sending[p][c] # NoClip
  PROVE  /\ c # p /\ AheadFor(jobs[c], p) = {} /\ AheadFor(jobs[p], c) = {} /\ sending[c][p] = NoClip
         /\ echo[p][c] = sending[p][c] /\ echo[c][p] # sending[p][c]
  <1>1. c # p
    BY DEF Paired, NotOwn
  <1>2. /\ PairIs(AheadFor(jobs[p], c), AheadFor(jobs[c], p), sending[p][c], sending[c][p], echo[p][c], echo[c][p])
        /\ PairIs(AheadFor(jobs[c], p), AheadFor(jobs[p], c), sending[c][p], sending[p][c], echo[c][p], echo[p][c])
    BY <1>1 DEF Paired, PairOk
  <1> QED  BY <1>1, <1>2 DEF PairIs

LEMMA ClipArrivalIsFine ==
  ASSUME ClipInv, NEW c \in Sharers, NEW p \in Sharers, Arrives(p, c) PROVE ClipInv'
  <1> DEFINE clip == sending[p][c]
  <1>1. ClipTypes /\ clip \in Outcomes /\ clip # NoClip /\ sending[p][c] = clip /\ NoClip \in Outcomes
    BY DEF ClipInv, ClipTypes, Arrives, Outcomes
  <1>2. /\ UNCHANGED <<board, changes, written, share, at, clipsLost, rushed, switches>>
        /\ sending' = [sending EXCEPT ![p][c] = NoClip]
    BY DEF Arrives
  <1>3. \/ c \in LinuxSharers /\ jobs' = Adds(jobs, c, Job("keep", p, clip)) /\ echo' = echo
        \/ jobs' = Adds(jobs, c, Job("write", p, clip)) /\ echo' = [echo EXCEPT ![c][p] = clip]
        \/ ~share[c] /\ jobs' = jobs /\ echo' = echo
    BY DEF Arrives, Remembers
  <1> HIDE DEF clip
  <1>4. /\ sending' \in [Sharers -> [Sharers -> Outcomes]] /\ sending'[p][c] = NoClip
        /\ \A d, q \in Sharers : ~(d = p /\ q = c) => sending'[d][q] = sending[d][q]
    BY <1>1, <1>2, TableAt DEF ClipTypes
  <1>5. CASE ~share[c] /\ jobs' = jobs /\ echo' = echo
    <2>1. ~Paired
      BY <1>5 DEF Paired
    <2> QED  BY <1>1, <1>2, <1>4, <1>5, <2>1, ClipRest DEF ClipTypes
  <1>6. ASSUME NEW job \in ClipJobs, job.do \in {"keep", "write"}, job.peer = p, job.clip = clip,
               jobs' = Adds(jobs, c, job), echo' \in [Sharers -> [Sharers -> Outcomes]],
               \A d, q \in Sharers : ~(d = c /\ q = p) => echo'[d][q] = echo[d][q],
               \/ job.do = "keep" /\ c \notin WindowsSharers /\ echo'[c][p] = echo[c][p]
               \/ job.do = "write" /\ echo'[c][p] = clip
        PROVE  ClipInv'
    <2>1. Added(jobs, Adds(jobs, c, job), c, job)
      BY <1>1, <1>6, AddsIs DEF ClipTypes
    <2>2. Added(jobs, jobs', c, job)
      BY <1>6, <2>1
    <2>3. \A d \in Sharers : \A j \in JobsIn(jobs'[d]) : j.do = "note" => j \in JobsIn(jobs[d])
      BY <1>6, <2>2 DEF Added
    <2>4. ASSUME Steady, Paired PROVE Paired'
      <3>1. /\ c # p /\ AheadFor(jobs[c], p) = {} /\ AheadFor(jobs[p], c) = {} /\ sending[c][p] = NoClip
            /\ echo[p][c] = clip /\ echo[c][p] # clip
        <4>1. sending[p][c] # NoClip
          BY <1>1
        <4>2. /\ c # p /\ AheadFor(jobs[c], p) = {} /\ AheadFor(jobs[p], c) = {} /\ sending[c][p] = NoClip
              /\ echo[p][c] = sending[p][c] /\ echo[c][p] # sending[p][c]
          BY <1>1, <2>4, <4>1, WhatComes
        <4> QED  BY <1>1, <4>2
      <3>2. /\ OneEach(jobs'[c]) /\ \A d \in Sharers : d # c => jobs'[d] = jobs[d]
        BY <1>6, <2>2, <2>4, <3>1 DEF Added, Paired
      <3>3. \A d \in Sharers : share'[d] /\ OneEach(jobs'[d])
        BY <1>2, <2>4, <3>2 DEF Paired
      <3>4. \A d, q \in Sharers : ~(d = c /\ q = p) => AheadFor(jobs'[d], q) = AheadFor(jobs[d], q)
        BY <1>6, <2>2 DEF Added
      <3>5. AheadFor(jobs'[p], c) = {}
        BY <3>1, <3>2
      <3>6. sending'[c][p] = NoClip /\ sending'[p][c] = NoClip /\ echo'[p][c] = clip
        BY <1>4, <1>6, <3>1
      <3>7. Both(AheadFor(jobs'[c], p), {}, NoClip, NoClip, echo'[c][p], clip)
        <4>1. CASE job.do = "keep" /\ c \notin WindowsSharers /\ echo'[c][p] = echo[c][p]
          <5>1. Live(job) /\ Said(job).do = "keep" /\ Said(job).clip = clip
            BY <1>6, <4>1 DEF Live, Said
          <5>2. OneEach(jobs[c])
            BY <2>4 DEF Paired
          <5>3. AheadFor(jobs'[c], p) = {Said(job)}
            BY <1>6, <2>2, <3>1, <4>1, <5>1, <5>2 DEF Added
          <5> QED  BY <1>1, <3>1, <4>1, <5>1, <5>3, PairKeeps
        <4>2. CASE job.do = "write" /\ echo'[c][p] = clip
          <5>1. ~Live(job)
            BY <4>2 DEF Live
          <5>2. AheadFor(jobs'[c], p) = {}
            BY <2>2, <3>1, <5>1 DEF Added
          <5> QED  BY <4>2, <5>2, PairEnds
        <4> QED  BY <1>6, <4>1, <4>2
      <3>8. Both(AheadFor(jobs'[c], p), AheadFor(jobs'[p], c), sending'[c][p], sending'[p][c], echo'[c][p], echo'[p][c])
        BY <3>5, <3>6, <3>7
      <3>9. \A d, q \in Sharers : ~(d = c /\ q = p) /\ ~(d = p /\ q = c) =>
              AheadFor(jobs'[d], q) = AheadFor(jobs[d], q) /\ sending'[d][q] = sending[d][q] /\ echo'[d][q] = echo[d][q]
        BY <1>4, <1>6, <3>4
      <3> QED  BY <2>4, <3>1, <3>3, <3>8, <3>9, PairsKept
    <2>5. jobs' \in [Sharers -> Seq(ClipJobs)]
      BY <2>2 DEF Added
    <2> QED  BY <1>2, <1>4, <1>6, <2>3, <2>4, <2>5, ClipRest
  <1>7. CASE c \in LinuxSharers /\ jobs' = Adds(jobs, c, Job("keep", p, clip)) /\ echo' = echo
    <2> DEFINE job == Job("keep", p, clip)
    <2>1. job \in ClipJobs /\ job.do = "keep" /\ job.peer = p /\ job.clip = clip
      BY <1>1 DEF Job, ClipJobs
    <2>2. c \notin WindowsSharers
      BY <1>7, ClipboardAssumption
    <2>3. jobs' = Adds(jobs, c, job)
      BY <1>7
    <2>4. /\ echo' \in [Sharers -> [Sharers -> Outcomes]] /\ echo'[c][p] = echo[c][p]
          /\ \A d, q \in Sharers : ~(d = c /\ q = p) => echo'[d][q] = echo[d][q]
      BY <1>1, <1>7 DEF ClipTypes
    <2> HIDE DEF job
    <2> QED  BY <1>6, <2>1, <2>2, <2>3, <2>4
  <1>8. CASE jobs' = Adds(jobs, c, Job("write", p, clip)) /\ echo' = [echo EXCEPT ![c][p] = clip]
    <2> DEFINE job == Job("write", p, clip)
    <2>1. job \in ClipJobs /\ job.do = "write" /\ job.peer = p /\ job.clip = clip
      BY <1>1 DEF Job, ClipJobs
    <2>2. jobs' = Adds(jobs, c, job)
      BY <1>8
    <2>3. /\ echo' \in [Sharers -> [Sharers -> Outcomes]] /\ echo'[c][p] = clip
          /\ \A d, q \in Sharers : ~(d = c /\ q = p) => echo'[d][q] = echo[d][q]
      BY <1>1, <1>8, TableAt DEF ClipTypes
    <2> HIDE DEF job
    <2> QED  BY <1>6, <2>1, <2>2, <2>3
  <1> QED  BY <1>3, <1>5, <1>7, <1>8

LEMMA ClipStep ==
  ASSUME ClipInv, ClipboardNext PROVE ClipInv'
  <1>1. ClipTypes /\ at \in Sharers /\ Source \in Sharers
    BY ClipboardAssumption DEF ClipInv, ClipTypes
  <1>2. ASSUME NEW p \in Sharers, Enter(p) PROVE ClipInv'
    <2>1. Source # p /\ jobs' = Shares(jobs, Source, p) /\ Walks(p)
      BY <1>2 DEF Enter
    <2> QED  BY <1>1, <2>1, WalkIsFine
  <1>3. CASE Return
    <2>1. at # Source /\ jobs' = Shares(jobs, at, Source) /\ Walks(Source)
      BY <1>3 DEF Return
    <2> QED  BY <1>1, <2>1, WalkIsFine
  <1>4. ASSUME NEW p \in Sharers, Hop(p) PROVE ClipInv'
    BY <1>4, HopIsFine
  <1>5. ASSUME NEW c \in Sharers, NEW i \in 1 .. Len(jobs[c]),
               \/ Reads(c, i) \/ Decides(c, i) \/ Sends(c, i) \/ Keeps(c, i) \/ Writes(c, i) \/ Notes(c, i)
               \/ Fails(c, i)
        PROVE  ClipInv'
    <2>1. i \in DOMAIN jobs[c]
      BY <1>5 DEF Reads, Decides, Sends, Keeps, Writes, Notes, Fails, MayRun
    <2> QED  BY <1>5, <2>1, ReadIsFine, DecisionIsFine, SendIsFine, KeepIsFine, WriteIsFine, NoteIsFine, FailureIsFine
  <1>6. ASSUME NEW c \in Sharers, NEW p \in Sharers, Arrives(p, c) \/ Loses(c, p) PROVE ClipInv'
    BY <1>6, ClipArrivalIsFine, LossIsFine
  <1>7. ASSUME NEW c \in Sharers, NEW clip \in Clips \cup {TooLarge}, Copy(c, clip) PROVE ClipInv'
    BY <1>7, CopyIsFine
  <1>8. ASSUME NEW c \in Sharers, set_share(c) PROVE ClipInv'
    BY <1>8, ShareSwitchIsFine
  <1> QED  BY <1>2, <1>3, <1>4, <1>5, <1>6, <1>7, <1>8 DEF ClipboardNext

LEMMA ClipUntouched == ClipInv /\ UNCHANGED clipboardVars => ClipInv'
  BY DEF ClipInv, ClipTypes, Noted, Steady, Paired, NotOwn, PairOk, clipboardVars

LEMMA ClipStarts == ClipboardInit => ClipInv
  <1> SUFFICES ASSUME ClipboardInit PROVE ClipInv
    OBVIOUS
  <1>1. NoClip \in Outcomes /\ <<>> \in Seq(ClipJobs)
    BY DEF Outcomes
  <1>2. ClipTypes
    BY <1>1, ClipboardAssumption DEF ClipboardInit, ClipTypes
  <1>3. \A c \in Sharers : jobs[c] = <<>> /\ JobsIn(<<>>) = {}
    BY DEF ClipboardInit, JobsIn
  <1>4. \A c \in MacSharers : Noted(c)
    <2> TAKE c \in MacSharers
    <2>1. c \in Sharers
      BY DEF Sharers
    <2>2. written[c].count = 0 /\ changes[c] = 0
      BY <2>1 DEF ClipboardInit
    <2> QED  BY <1>3, <2>1, <2>2 DEF Noted
  <1>5. OneEach(<<>>) /\ \A q : AheadFor(<<>>, q) = {}
    BY DEF OneEach, AheadFor, LiveAt
  <1>6. \A c, p \in Sharers : sending[c][p] = NoClip /\ echo[c][p] = NoClip
    BY DEF ClipboardInit
  <1>7. NotOwn /\ \A c \in Sharers : share[c] /\ OneEach(jobs[c])
    BY <1>3, <1>5, <1>6 DEF NotOwn, ClipboardInit
  <1>8. \A c, p \in Sharers : PairOk(c, p)
    <2>1. PairIs({}, {}, NoClip, NoClip, NoClip, NoClip)
      BY DEF PairIs
    <2> QED  BY <1>3, <1>5, <1>6, <2>1 DEF PairOk
  <1> QED  BY <1>2, <1>4, <1>7, <1>8 DEF ClipInv, Paired

(* For any number of computers of each kind, any clips and any length of the   *)
(* Windows queue: a clip never goes back to where it came from and never goes  *)
(* twice while switches stay on, sessions last and the pointer is slow, and a  *)
(* Mac that finds its pasteboard unchanged holds the clip it wrote             *)
(* (clipboard.rs Echo, macos/clipboard.rs State.written).                     *)
THEOREM ClipsDoNotBounceAlways == MCSpec => []ClipsDoNotBounce
  <1>1. MCInit => ClipsHold
    BY ClipStarts DEF MCInit, ClipsHold
  <1>2. ClipsHold /\ [MCNext]_plumbingVars => ClipsHold'
    BY OnePartRuns, ClipStep, ClipUntouched DEF ClipsHold
  <1>3. ClipInv => NeverBounces
    <2> SUFFICES ASSUME ClipInv, Steady, NEW c \in Sharers, NEW p \in Sharers
                 PROVE  /\ sending[c][p] # NoClip => echo[p][c] # sending[c][p]
                        /\ Settled => echo[c][p] = echo[p][c]
      BY DEF NeverBounces, Steady
    <2>1. ClipTypes /\ Paired
      BY DEF ClipInv
    <2>2. sending[c][p] # NoClip => echo[p][c] # sending[c][p]
      BY <2>1, WhatComes
    <2>3. ASSUME Settled PROVE echo[c][p] = echo[p][c]
      <3>1. CASE c = p
        BY <3>1
      <3>2. CASE c # p
        <4>1. PairOk(c, p) /\ jobs[c] = <<>> /\ jobs[p] = <<>> /\ sending[c][p] = NoClip /\ sending[p][c] = NoClip
          BY <2>1, <2>3, <3>2 DEF Paired, Settled
        <4>2. \A q : AheadFor(<<>>, q) = {}
          BY DEF AheadFor, LiveAt
        <4>3. PairIs({}, {}, NoClip, NoClip, echo[c][p], echo[p][c])
          BY <4>1, <4>2 DEF PairOk
        <4> QED  BY <4>3 DEF PairIs
      <3> QED  BY <3>1, <3>2
    <2> QED  BY <2>2, <2>3
  <1>4. ClipInv => OwnWriteIsKnown
    BY DEF ClipInv, Noted, OwnWriteIsKnown
  <1>5. ClipsHold => ClipsDoNotBounce
    BY <1>3, <1>4 DEF ClipsHold, ClipsDoNotBounce
  <1> QED  BY <1>1, <1>2, <1>5, PTL DEF MCSpec, plumbingVars
=============================================================================
