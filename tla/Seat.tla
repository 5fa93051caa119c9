-------------------------------- MODULE Seat --------------------------------
(***************************************************************************)
(* The seat monitor: the four reads of logind that one inspection makes     *)
(* (linux/seat.rs), the follower that repeats it on logind's signals, and   *)
(* the grace with which the daemon's gate rides out a short Unknown         *)
(* (watch_seat of daemon.rs).                                               *)
(***************************************************************************)
EXTENDS Integers, Sequences

CONSTANTS
  UserSessions, Greeters,   \* logind sessions of each class
  SEAT_UNKNOWN_GRACE,       \* ticks a definite state rides out an Unknown
  MaxSeatChanges,           \* bound: changes logind makes
  MaxSeatFaults,            \* bound: failed reads and lost subscriptions
  MaxSeatTime               \* bound: ticks of the clock

ASSUME SeatAssumption ==
  /\ UserSessions \cap Greeters = {} /\ 0 \notin UserSessions \cup Greeters
  /\ SEAT_UNKNOWN_GRACE \in Nat \ {0}
  /\ {MaxSeatChanges, MaxSeatFaults, MaxSeatTime} \subseteq Nat

VARIABLES
  seat,       \* logind's truth: the active session (0: none) and the locked ones
  signals,    \* logind signals queued for the follower
  bus,        \* the follower's subscription: "none", "up" or "lost"
  follower,   \* where the follower is, and what its inspection has read
  published,  \* the watch: its value, and whether watch_seat has yet to read it
  grace,      \* SeatGrace and Shared.seat_gate
  seatClock, unknownAt,  \* the time, and when the watch last turned Unknown
  seatChanges, seatFaults

seatVars == <<seat, signals, bus, follower, published, grace, seatClock, unknownAt, seatChanges, seatFaults>>

Unknown(reason) == [kind |-> "Unknown", reason |-> reason]
Definite(kind) == [kind |-> kind, reason |-> "none"]
IsUnknown(state) == state.kind = "Unknown"

(* classify_session and the gate it gives: a locked user, a greeter and a    *)
(* foreground without a session need the pre-login permission.               *)
TrueState(s) ==
  IF s.active \in UserSessions /\ s.active \notin s.locked
  THEN Definite("Unlocked") ELSE Definite("Restricted")

injection_gate(state) ==
  CASE state.kind = "Unlocked" -> "Normal" [] state.kind = "Restricted" -> "PreLogin" [] OTHER -> "Denied"

At_(at) == [at |-> at, read |-> <<>>]

(* SeatGrace::new, of a watch that starts Unknown.                           *)
SeatInit ==
  /\ seat = [active |-> 0, locked |-> {}] /\ signals = 0 /\ bus = "none"
  /\ follower = At_("subscribe")
  /\ published = [state |-> Unknown("not queried"), changed |-> FALSE]
  /\ grace = [state |-> Unknown("not queried"), since |-> <<0>>, gate |-> "Denied", held |-> TRUE]
  /\ seatClock = 0 /\ unknownAt = 0 /\ seatChanges = 0 /\ seatFaults = 0

-----------------------------------------------------------------------------
(* logind: another session comes to the foreground, or one locks or unlocks, *)
(* with a signal.                                                            *)
SeatChange ==
  /\ seatChanges < MaxSeatChanges /\ seatChanges' = seatChanges + 1
  /\ \/ \E s \in (UserSessions \cup Greeters \cup {0}) \ {seat.active} : seat' = [seat EXCEPT !.active = s]
     \/ \E s \in UserSessions :
          seat' = [seat EXCEPT !.locked = IF s \in @ THEN @ \ {s} ELSE @ \cup {s}]
  /\ signals' = IF bus = "up" THEN signals + 1 ELSE signals
  /\ UNCHANGED <<bus, follower, published, grace, seatClock, unknownAt, seatFaults>>

LoseBus ==
  /\ bus = "up" /\ seatFaults < MaxSeatFaults /\ seatFaults' = seatFaults + 1 /\ bus' = "lost"
  /\ UNCHANGED <<seat, signals, follower, published, grace, seatClock, unknownAt, seatChanges>>

-----------------------------------------------------------------------------
(* send_if_modified: watchers wake only for another value.                   *)
publish(state) ==
  /\ published' = IF published.state = state THEN published ELSE [state |-> state, changed |-> TRUE]
  /\ unknownAt' = IF IsUnknown(state) /\ ~IsUnknown(published.state) THEN seatClock ELSE unknownAt

(* watch_primary_seat: subscribe, then follow.                               *)
subscribe ==
  /\ follower.at = "subscribe" /\ bus' = "up" /\ signals' = 0 /\ follower' = At_("inspect")
  /\ UNCHANGED <<seat, published, grace, seatClock, unknownAt, seatChanges, seatFaults>>

subscription_ended ==
  /\ bus = "lost" /\ signals = 0 /\ follower.at \in {"wait", "debounce"}
  /\ publish(Unknown("subscription")) /\ bus' = "none" /\ follower' = At_("subscribe")
  /\ UNCHANGED <<seat, signals, grace, seatClock, seatChanges, seatFaults>>

(* inspect_seat reads the seat, its active session, the seat again and the   *)
(* session again; with no active session only the two reads of the seat.     *)
ReadSeat == [of |-> "seat", active |-> seat.active]
ReadSession(s) == [of |-> "session", Active |-> seat.active = s, LockedHint |-> s \in seat.locked]

NextRead(read) ==
  IF Len(read) \in {0, 2} \/ read[1].active = 0 THEN ReadSeat ELSE ReadSession(read[1].active)

(* The first session properties are classified only when the second reads    *)
(* agree with them.                                                          *)
classify_session(s, properties) ==
  CASE ~properties.Active -> Unknown("inactive")
    [] s \in Greeters \/ properties.LockedHint -> Definite("Restricted")
    [] OTHER -> Definite("Unlocked")

inspect_seat(read) ==
  CASE Len(read) = 2 /\ read[1].active = 0 ->
         <<IF read[2].active = 0 THEN Definite("Restricted") ELSE Unknown("changed")>>
    [] Len(read) = 3 /\ read[3] # read[1] -> <<Unknown("changed")>>
    [] Len(read) = 4 ->
         <<IF read[4] = read[2] THEN classify_session(read[1].active, read[2]) ELSE Unknown("changed")>>
    [] OTHER -> <<>>

show ==
  /\ follower.at = "inspect" /\ inspect_seat(follower.read) = <<>>
  /\ follower' = [follower EXCEPT !.read = Append(@, NextRead(@))]
  /\ UNCHANGED <<seat, signals, bus, published, grace, seatClock, unknownAt, seatChanges, seatFaults>>

(* The answer of the blocking query comes back to the follower.              *)
inspected_Drains ==
  /\ follower.at = "inspect" /\ inspect_seat(follower.read) # <<>>
  /\ publish(inspect_seat(follower.read)[1]) /\ follower' = At_("wait") /\ signals' = 0
  /\ UNCHANGED <<seat, bus, grace, seatClock, seatChanges, seatFaults>>

inspected ==
  /\ follower.at = "inspect" /\ inspect_seat(follower.read) # <<>>
  /\ publish(inspect_seat(follower.read)[1]) /\ follower' = At_("wait")
  /\ UNCHANGED <<seat, signals, bus, grace, seatClock, seatChanges, seatFaults>>

(* unknown_query: the bus is slow or gone.                                   *)
unknown_query ==
  /\ follower.at = "inspect" /\ seatFaults < MaxSeatFaults /\ seatFaults' = seatFaults + 1
  /\ publish(Unknown("query")) /\ follower' = At_("wait")
  /\ UNCHANGED <<seat, signals, bus, grace, seatClock, seatChanges>>

(* follow_seat waits for a signal, or for its retry delay after an Unknown;  *)
(* it then lets the burst of signals pass and inspects again.                *)
WakeUp ==
  /\ follower.at = "wait"
  /\ \/ signals > 0 /\ signals' = signals - 1
     \/ IsUnknown(published.state) /\ UNCHANGED signals
  /\ follower' = At_("debounce")
  /\ UNCHANGED <<seat, bus, published, grace, seatClock, unknownAt, seatChanges, seatFaults>>

Debounced ==
  /\ follower.at = "debounce" /\ bus # "lost" /\ signals' = 0 /\ follower' = At_("inspect")
  /\ UNCHANGED <<seat, bus, published, grace, seatClock, unknownAt, seatChanges, seatFaults>>

-----------------------------------------------------------------------------
(* SeatGrace::observe: a definite state at once, an Unknown only when the    *)
(* grace has run out since the first one.                                    *)
observe_Restarts(g, next) ==
  IF ~IsUnknown(next) THEN [g EXCEPT !.state = next, !.since = <<>>]
  ELSE LET since == IF g.since = <<>> \/ published.changed THEN seatClock ELSE g.since[1] IN
       [g EXCEPT !.since = <<since>>,
                 !.state = IF IsUnknown(@) \/ seatClock - since >= SEAT_UNKNOWN_GRACE THEN next ELSE @]

observe(g, next) ==
  IF ~IsUnknown(next) THEN [g EXCEPT !.state = next, !.since = <<>>]
  ELSE LET since == IF g.since = <<>> THEN seatClock ELSE g.since[1] IN
       [g EXCEPT !.since = <<since>>,
                 !.state = IF IsUnknown(@) \/ seatClock - since >= SEAT_UNKNOWN_GRACE THEN next ELSE @]

deadline(g) == ~IsUnknown(g.state) /\ g.since # <<>> /\ seatClock >= g.since[1] + SEAT_UNKNOWN_GRACE

(* watch_seat wakes for another value or for the deadline, observes, and     *)
(* updates the gate.                                                         *)
Due == published.changed \/ deadline(grace)

watch_seat ==
  /\ Due
  /\ LET g == observe(grace, published.state) IN
     grace' = [g EXCEPT !.gate = injection_gate(g.state), !.held = g.since # <<>>]
  /\ published' = [published EXCEPT !.changed = FALSE]
  /\ UNCHANGED <<seat, signals, bus, follower, seatClock, unknownAt, seatChanges, seatFaults>>

(* Time passes; the daemon's tasks run before their timers are late.         *)
SeatTick ==
  /\ seatClock < MaxSeatTime /\ ~Due /\ seatClock' = seatClock + 1
  /\ UNCHANGED <<seat, signals, bus, follower, published, grace, unknownAt, seatChanges, seatFaults>>

SeatNext ==
  \/ SeatChange \/ LoseBus \/ subscribe \/ subscription_ended \/ show \/ inspected \/ unknown_query
  \/ WakeUp \/ Debounced \/ watch_seat \/ SeatTick

-----------------------------------------------------------------------------
(* The monitor never rests on a stale answer: once it waits with every       *)
(* signal taken, a definite state it published is the seat's, however        *)
(* logind changed between the reads of an inspection or during the pause.    *)
SeatIsCurrent ==
  follower.at = "wait" /\ bus = "up" /\ signals = 0 =>
    IsUnknown(published.state) \/ published.state = TrueState(seat)

(* The gate follows the watch: a definite answer decides it at once, and an  *)
(* Unknown is ridden out only with input held, and never longer than the     *)
(* grace from when the watch turned Unknown, whatever reasons follow.        *)
GateFollowsSeat ==
  ~Due => IF IsUnknown(published.state)
          THEN \/ grace.gate = "Denied"
               \/ grace.held /\ seatClock - unknownAt < SEAT_UNKNOWN_GRACE
          ELSE grace.gate = injection_gate(published.state) /\ ~grace.held
=============================================================================
