---------------------------- MODULE VirtualInput ----------------------------
(***************************************************************************)
(* The uinput devices of linux/uinput.rs, as apply_receiver_effect of       *)
(* runtime/linux.rs drives them: a keyboard behind a KeyRemap, a pointer    *)
(* and a touchpad whose contacts get kernel slots.  A failed write stops     *)
(* the input thread, which closes the devices; other input they cannot     *)
(* represent rejects the peer that sent it.                                 *)
(***************************************************************************)
EXTENDS Keymap, FiniteSets

CONSTANTS
  PeerKeys,               \* the keys the peer has
  Fingers,                \* contact ids, numbered from 1
  MAX_TOUCHPAD_CONTACTS   \* kernel slots

ASSUME VirtualAssumption ==
  /\ PeerKeys \subseteq Usages /\ Fingers \subseteq Nat \ {0} /\ IsFiniteSet(Fingers)
  /\ MAX_TOUCHPAD_CONTACTS \in Nat

VARIABLES
  remap,     \* VirtualKeyboard.remap
  keyboard,  \* keys down at the kernel, which VirtualKeyboard.held follows
  pointer,   \* whether a button is down at the kernel
  contacts,  \* TouchpadState.contacts: the slot of each contact, 0 for none
  kernel_slots, \* the kernel's slots: the contact in each, 0 for none
  landing,   \* {} or {touch}: the second report of a replacement, to be written
  touchpad,  \* experimental_touchpad
  alive,     \* the input thread and its devices
  peerHolds  \* keys the peer's activation holds, and whether one is open

virtualVars == <<remap, keyboard, pointer, contacts, kernel_slots, landing, touchpad, alive, peerHolds>>

Slots == 1..MAX_TOUCHPAD_CONTACTS
NoTouch == [f \in Fingers |-> 0]
NoSlots == [s \in Slots |-> 0]
Nobody_holds == [open |-> FALSE, keys |-> {}]

VirtualInit ==
  /\ remap = KeyRemap("Standard") /\ keyboard = {} /\ pointer = FALSE
  /\ contacts = NoTouch /\ kernel_slots = NoSlots /\ landing = {}
  /\ touchpad \in BOOLEAN /\ alive = TRUE /\ peerHolds = Nobody_holds

-----------------------------------------------------------------------------
contacts_down == {f \in Fingers : contacts[f] # 0}

(* Contacts of touch that are down keep their slot, the others take the      *)
(* lowest slots of unused.                                                   *)
Assign(prev, touch, unused) ==
  LET new == {f \in touch : prev[f] = 0}
      slot(f) == CHOOSE s \in unused :
                   Cardinality({u \in unused : u < s}) = Cardinality({g \in new : g < f})
  IN [f \in Fingers |-> IF f \notin touch THEN 0 ELSE IF f \in new THEN slot(f) ELSE prev[f]]

plan_touchpad_report_Reuses(prev, touch) == Assign(prev, touch, Slots \ {prev[f] : f \in touch})

(* A slot is unused only if no contact had it before this report.            *)
plan_touchpad_report(prev, touch) == Assign(prev, touch, Slots \ {prev[f] : f \in Fingers})

(* The report's events: slots of lifted contacts first, then new ones.       *)
written_report(prev, next) ==
  [s \in Slots |-> IF \E f \in Fingers : next[f] = s /\ prev[f] = 0
                   THEN CHOOSE f \in Fingers : next[f] = s /\ prev[f] = 0
                   ELSE IF \E f \in Fingers : prev[f] = s /\ next[f] = 0 THEN 0 ELSE kernel_slots[s]]

touch_report(touch) ==
  /\ contacts' = plan_touchpad_report(contacts, touch)
  /\ kernel_slots' = written_report(contacts, contacts')

(* plan_touchpad_events: when the new contacts do not fit next to the old    *)
(* ones, the old ones are lifted in a report of their own.                   *)
contact_fits(touch) == Cardinality(touch \ contacts_down) <= MAX_TOUCHPAD_CONTACTS - Cardinality(contacts_down)

replace_touch(touch) ==
  IF contact_fits(touch) THEN touch_report(touch) /\ UNCHANGED landing
  ELSE touch_report(touch \cap contacts_down) /\ landing' = {touch}

LandTouch ==
  /\ \E touch \in landing : touch_report(touch)
  /\ landing' = {}
  /\ UNCHANGED <<remap, keyboard, pointer, touchpad, alive, peerHolds>>

-----------------------------------------------------------------------------
ready == alive /\ landing = {}

(* What the keyboard's new remap holds is what is written. *)
Inject(m) == remap' = m /\ keyboard' = injected(m)

(* A physical edge, or a release of a press this side never saw.             *)
set_key(u, pressed) ==
  /\ ready /\ peerHolds.open
  /\ Inject(remap_key(remap, u, pressed))
  /\ peerHolds' = [peerHolds EXCEPT !.keys = IF pressed THEN @ \cup {u} ELSE @ \ {u}]
  /\ UNCHANGED <<pointer, contacts, kernel_slots, landing, touchpad, alive>>

set_button(pressed) ==
  /\ ready /\ peerHolds.open
  /\ Inject(remap_pointer(remap, pressed, pressed \/ contacts_down # {}))
  /\ pointer' = pressed
  /\ UNCHANGED <<contacts, kernel_slots, landing, touchpad, alive, peerHolds>>

scroll ==
  /\ ready /\ peerHolds.open
  /\ Inject(remap_pointer(remap, TRUE, pointer \/ contacts_down # {}))
  /\ UNCHANGED <<pointer, contacts, kernel_slots, landing, touchpad, alive, peerHolds>>

TouchReplaced(touch) ==
  /\ ready /\ peerHolds.open
  /\ Inject(remap_pointer(remap, touch # {}, touch # {} \/ pointer))
  /\ \/ touchpad /\ Cardinality(touch) <= MAX_TOUCHPAD_CONTACTS /\ replace_touch(touch)
     \/ ~touchpad /\ touch = {} /\ UNCHANGED <<contacts, kernel_slots, landing>>
  /\ UNCHANGED <<pointer, touchpad, alive, peerHolds>>

Released ==
  /\ keyboard' = {} /\ pointer' = FALSE /\ contacts' = NoTouch /\ kernel_slots' = NoSlots
  /\ landing' = {}

begin(mode) ==
  /\ ready /\ ~peerHolds.open
  /\ remap' = reset(remap, mode) /\ keyboard' = {}
  /\ peerHolds' = [open |-> TRUE, keys |-> {}]
  /\ UNCHANGED <<pointer, contacts, kernel_slots, landing, touchpad, alive>>

release_all_KeepsRemap == Released /\ UNCHANGED remap

(* VirtualInput::release_all. *)
release_all == Released /\ remap' = reset(remap, remap.mode)

(* ActivationClosed, also what follows input that was rejected: too many     *)
(* contacts, or touch while the touchpad is off.                             *)
ActivationClosed ==
  /\ ready /\ peerHolds.open
  /\ release_all /\ peerHolds' = Nobody_holds
  /\ UNCHANGED <<touchpad, alive>>

(* release_receiver_state: a source device was removed, while a peer's       *)
(* activation goes on.                                                       *)
release_receiver_state ==
  /\ ready /\ release_all
  /\ UNCHANGED <<touchpad, alive, peerHolds>>

(* reload with the touchpad switched: new devices in the mode of the old.    *)
reload ==
  /\ ready /\ release_all
  /\ touchpad' = ~touchpad /\ UNCHANGED <<alive, peerHolds>>

set_terminal ==
  /\ ready /\ remap' = [remap EXCEPT !.terminal = ~@]
  /\ UNCHANGED <<keyboard, pointer, contacts, kernel_slots, landing, touchpad, alive, peerHolds>>

(* A write fails, in the middle of anything: the thread stops, its devices   *)
(* close, and the watchdog starts the daemon again.                          *)
EmitFails ==
  /\ alive /\ alive' = FALSE /\ Released
  /\ remap' = KeyRemap("Standard") /\ peerHolds' = Nobody_holds
  /\ UNCHANGED touchpad
Restarted ==
  /\ ~alive /\ alive' = TRUE
  /\ UNCHANGED <<remap, keyboard, pointer, contacts, kernel_slots, landing, touchpad, peerHolds>>

VirtualNext ==
  \/ \E u \in PeerKeys, pressed \in BOOLEAN : set_key(u, pressed)
  \/ \E pressed \in BOOLEAN : set_button(pressed)
  \/ \E touch \in SUBSET Fingers : TouchReplaced(touch)
  \/ \E mode \in KeyboardModes : begin(mode)
  \/ LandTouch \/ scroll \/ ActivationClosed \/ release_receiver_state \/ reload
  \/ set_terminal \/ EmitFails \/ Restarted

-----------------------------------------------------------------------------
(* Nothing is down at the kernel that the peer does not hold, whatever the   *)
(* remap made of its keys and whatever was released behind its back, and the *)
(* remap stays in order (KeyRemap, VirtualKeyboard).                         *)
KernelHoldsPeersKeys ==
  /\ RemapInv(remap)
  /\ remap.physical \subseteq peerHolds.keys
  /\ keyboard = injected(remap)

(* The kernel's slots hold exactly the contacts that are down, one each.     *)
SlotsMatchContacts ==
  \A f \in Fingers, s \in Slots : kernel_slots[s] = f <=> contacts[f] = s

(* A slot is empty for a report before another contact takes it, so a finger *)
(* that lifts and one that lands never look like one (plan_touchpad_events). *)
SlotLiftsFirst == \A s \in Slots : kernel_slots[s] # 0 => kernel_slots'[s] \in {0, kernel_slots[s]}
=============================================================================
