------------------------------ MODULE Touchpad ------------------------------
(***************************************************************************)
(* A captured touchpad: the multitouch slots and the key and wheel frame    *)
(* the kernel's events accumulate into (linux/touch.rs, linux/mapping.rs),  *)
(* and the gestures that turn it into a plain pointer for a target that     *)
(* posts no raw contacts (linux/touchpad.rs), report by report (map_events, *)
(* for_target).                                                             *)
(*                                                                         *)
(* Abstractions.  Travel is along one axis, in millimetres; the gain is one *)
(* fraction, so the speed ramp and the scroll's axis lock are left out.     *)
(***************************************************************************)
EXTENDS Integers, FiniteSets, Sequences

CONSTANTS
  PadSlots,            \* the pad's multitouch slots
  PadSpots,            \* positions a finger may have, in mm
  PadModes,            \* what the target takes: TRUE for raw contacts
  MOTION_START, SCROLL_START, TAP_TRAVEL, TAP_TIME, CLICK_SPREAD,
  GainHalves,          \* counts per millimetre, in halves
  MaxPadEvents         \* bound: kernel events

ASSUME TouchpadAssumption ==
  /\ IsFiniteSet(PadSlots) /\ PadSpots \subseteq Int /\ PadModes \subseteq BOOLEAN
  /\ {MaxPadEvents, TAP_TIME} \subseteq Nat
  /\ {MOTION_START, SCROLL_START, TAP_TRAVEL, CLICK_SPREAD, GainHalves} \subseteq Nat \ {0}

VARIABLES
  pad,       \* TouchAccumulator: the slots; the pad's switch, and the fingers the kernel counts
  buttons,   \* button changes since the last SYN_REPORT
  pointer_,  \* TouchpadPointer
  takes,     \* the target takes raw contacts
  out,       \* what the target was sent: buttons held, contacts, motion of this gesture
  padEvents, nextContact

touchpadVars == <<pad, buttons, pointer_, takes, out, padEvents, nextContact>>

NoContact == [id |-> 0, x |-> 0, palm |-> FALSE]
NewGesture(kind) == [kind |-> kind, travel |-> 0, started |-> FALSE, remainder |-> 0]

TouchpadInit ==
  /\ pad = [slots |-> [s \in PadSlots |-> NoContact], pressed |-> FALSE, extra |-> 0]
  /\ buttons = <<>> /\ takes \in PadModes /\ padEvents = 0 /\ nextContact = 1
  /\ pointer_ = [fingers |-> {}, count |-> 0, gesture |-> NewGesture("Still"), tap |-> <<>>, pressed |-> "none"]
  /\ out = [held |-> {}, contacts |-> {}, counts |-> 0, exact |-> 0]

-----------------------------------------------------------------------------
(* Kernel events: TouchAccumulator::push and FrameAccumulator::push.  The    *)
(* kernel may count fingers it has no slot for, with its tool keys.          *)
Event ==
  /\ padEvents < MaxPadEvents /\ padEvents' = padEvents + 1 /\ UNCHANGED <<pointer_, takes, out>>

Land(s, x) ==
  /\ Event /\ pad.slots[s].id = 0 /\ nextContact' = nextContact + 1
  /\ pad' = [pad EXCEPT !.slots[s] = [id |-> nextContact, x |-> x, palm |-> FALSE]] /\ UNCHANGED buttons

Lift(s) ==
  /\ Event /\ pad.slots[s].id # 0 /\ pad' = [pad EXCEPT !.slots[s] = NoContact]
  /\ UNCHANGED <<buttons, nextContact>>

Slide(s, x) ==
  /\ Event /\ pad.slots[s].id # 0 /\ pad.slots[s].x # x /\ pad' = [pad EXCEPT !.slots[s].x = x]
  /\ UNCHANGED <<buttons, nextContact>>

TurnPalm(s) ==
  /\ Event /\ pad.slots[s].id # 0 /\ ~pad.slots[s].palm /\ pad' = [pad EXCEPT !.slots[s].palm = TRUE]
  /\ UNCHANGED <<buttons, nextContact>>

ToolCount ==
  /\ Event /\ pad' = [pad EXCEPT !.extra = 1 - @] /\ UNCHANGED <<buttons, nextContact>>

Switch ==
  /\ Event /\ pad' = [pad EXCEPT !.pressed = ~@] /\ buttons' = Append(buttons, ~pad.pressed)
  /\ UNCHANGED nextContact

-----------------------------------------------------------------------------
(* fingers and finger_count: palms are left out of both.                     *)
Active == {s \in PadSlots : pad.slots[s].id # 0}
fingers == {[id |-> pad.slots[s].id, x |-> pad.slots[s].x] : s \in {t \in Active : ~pad.slots[t].palm}}

finger_count ==
  LET seen == Cardinality(fingers)
      tools == Cardinality(Active) + pad.extra
      palms == Cardinality(Active) - seen IN
  IF tools - palms > seen THEN tools - palms ELSE seen

Dist(a, b) == IF a > b THEN a - b ELSE b - a

clickfinger(count) ==
  CASE count <= 1 -> "left"
    [] count = 2 /\ Cardinality(fingers) = 2 /\ (\E f, g \in fingers : Dist(f.x, g.x) > CLICK_SPREAD) -> "left"
    [] count = 2 -> "right"
    [] OTHER -> "middle"

(* TouchpadPointer::buttons: a press becomes the button of its fingers, and  *)
(* its release that same button.                                             *)
Clicked_Released(count, state, down) == clickfinger(count)

Clicked(count, state, down) == IF down \/ state = "none" THEN clickfinger(count) ELSE state

Press(at, down) ==
  LET button == Clicked(finger_count, at.pressed, down) IN
  IF down THEN [held |-> at.held \cup {button}, pressed |-> button]
          ELSE [held |-> at.held \ {button}, pressed |-> "none"]

Pressed[i \in 0 .. 3] ==
  IF i = 0 THEN [held |-> out.held, pressed |-> pointer_.pressed] ELSE Press(Pressed[i - 1], buttons[i])

(* TouchpadPointer::tap, when no press cancels it: the tap still possible.   *)
(* One that ends in time is a press and a release at once.                   *)
tap(before, pressed) ==
  LET begins == pressed = "none" /\ pointer_.count = 0 /\ finger_count > 0
      old == IF begins THEN <<[age |-> 0, most |-> 0, origins |-> {}]>> ELSE before IN
  IF old = <<>> THEN <<>>
  ELSE LET origin(f) == {o \in old[1].origins : o.id = f.id}
           moved == \E f \in fingers : \E o \in origin(f) : Dist(f.x, o.x) > TAP_TRAVEL IN
       IF moved \/ old[1].age > TAP_TIME \/ finger_count = 0 THEN <<>>
       ELSE <<[age |-> old[1].age, most |-> IF finger_count > old[1].most THEN finger_count ELSE old[1].most,
               origins |-> old[1].origins \cup {f \in fingers : origin(f) = {}}]>>

(* TouchpadPointer::motion: what the fingers do, in quarters of a count (two  *)
(* halves of a millimetre).  Other fingers start over from where they are.   *)
Kind(pressed) ==
  CASE finger_count = 1 /\ Cardinality(fingers) = 1 -> "Pointer"
    [] finger_count = 2 /\ Cardinality(fingers) = 2 -> IF pressed # "none" THEN "Pointer" ELSE "Scroll"
    [] OTHER -> "Still"

Ids(set) == {f.id : f \in set}
Move(f) == f.x - (CHOOSE g \in pointer_.fingers : g.id = f.id).x

Travel(kind) ==
  IF kind = "Pointer"
  THEN LET f == CHOOSE f \in fingers : \A g \in fingers : Dist(Move(f), 0) >= Dist(Move(g), 0) IN 2 * Move(f)
  ELSE LET f == CHOOSE f \in fingers : TRUE
           g == CHOOSE g \in fingers : g # f IN Move(f) + Move(g)

Trunc(quarters) == IF quarters < 0 THEN -((-quarters) \div 4) ELSE quarters \div 4

(* Gesture::starts and Gesture::whole: rounding keeps what it left over.     *)
whole_Forgets(g, amount) == [gesture |-> [g EXCEPT !.remainder = 0], counts |-> Trunc(g.remainder + amount)]

whole(g, amount) ==
  LET total == g.remainder + amount IN
  [gesture |-> [g EXCEPT !.remainder = total - 4 * Trunc(total)], counts |-> Trunc(total)]

motion(gesture, pressed) ==
  LET kind == Kind(pressed)
      same == finger_count = pointer_.count /\ Ids(fingers) = Ids(pointer_.fingers) IN
  IF kind # gesture.kind \/ ~same THEN [gesture |-> NewGesture(kind), counts |-> 0, exact |-> 0, fresh |-> TRUE]
  ELSE IF kind = "Still" THEN [gesture |-> gesture, counts |-> 0, exact |-> 0, fresh |-> FALSE]
  ELSE LET by == Travel(kind)
           travelled == IF gesture.started THEN gesture.travel ELSE gesture.travel + by
           distance == 2 * (IF kind = "Pointer" THEN MOTION_START ELSE SCROLL_START)
           going == [gesture EXCEPT !.travel = travelled, !.started = @ \/ Dist(travelled, 0) >= distance] IN
       IF ~going.started THEN [gesture |-> going, counts |-> 0, exact |-> 0, fresh |-> FALSE]
       ELSE LET w == whole(going, by * GainHalves)
            IN [gesture |-> w.gesture, counts |-> w.counts, exact |-> by * GainHalves, fresh |-> FALSE]

-----------------------------------------------------------------------------
(* SYN_REPORT: TouchpadPointer::report, and for_target at the session.       *)
Report(dt) ==
  LET pressed == Pressed[Len(buttons)]
      changed == buttons # <<>>
      aged == IF changed \/ pointer_.tap = <<>> THEN <<>> ELSE <<[pointer_.tap[1] EXCEPT !.age = @ + dt]>>
      moved == motion(IF changed THEN NewGesture("Still") ELSE pointer_.gesture, pressed.pressed) IN
  /\ pointer_' = [fingers |-> fingers, count |-> finger_count, gesture |-> moved.gesture,
                  tap |-> tap(aged, pressed.pressed), pressed |-> pressed.pressed]
  /\ buttons' = <<>> /\ UNCHANGED <<pad, takes, padEvents, nextContact>>
  /\ out' = IF takes
            THEN [out EXCEPT !.contacts = {[id |-> pad.slots[s].id, x |-> pad.slots[s].x] : s \in Active},
                             !.held = IF changed THEN (IF pad.pressed THEN {"left"} ELSE {}) ELSE @]
            ELSE [out EXCEPT !.held = pressed.held,
                             !.counts = IF moved.fresh THEN 0 ELSE @ + moved.counts,
                             !.exact = IF moved.fresh THEN 0 ELSE @ + moved.exact]

TouchpadNext ==
  \/ \E s \in PadSlots : Lift(s) \/ TurnPalm(s) \/ \E x \in PadSpots : Land(s, x) \/ Slide(s, x)
  \/ ToolCount \/ (Len(buttons) < 2 /\ Switch) \/ \E dt \in {0, TAP_TIME} : Report(dt)

-----------------------------------------------------------------------------
(* Fingers come and go while the pad is pressed, and a press is a left,      *)
(* right or middle click by how many there were: the target never keeps a    *)
(* button the pad no longer presses.                                         *)
ClicksAreReleased == buttons = <<>> /\ ~pad.pressed => out.held = {}

(* Reports carry whole counts of a fraction of the travel: over a gesture    *)
(* the target moved by its exact travel, to less than one count, however     *)
(* many reports it took.                                                     *)
RoundingLosesNothing == Dist(4 * out.counts, out.exact) < 4
=============================================================================
