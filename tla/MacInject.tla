------------------------------ MODULE MacInject ------------------------------
(***************************************************************************)
(* InjectorCore and the injector thread of macos/inject.rs: what a peer     *)
(* types, through the front application's choice of Ctrl and Cmd and the    *)
(* KeyRemap, to the keys macOS sees down.  Each action is one effect of a   *)
(* batch, one command or one tick.                                          *)
(***************************************************************************)
EXTENDS Keymap, FiniteSets

CONSTANT MacKeys   \* the keys the peer has

ASSUME MacInjectAssumption == MacKeys \subseteq Usages

VARIABLES
  macMode,     \* keyboard: the activation's mode
  macRemap,    \* remap
  chosen,      \* <<physical, usage>> of each held Ctrl or Cmd key
  usages,      \* keys: the usages down
  codes,       \* how many usages hold each keycode
  media,       \* media keys down
  repeat,      \* {} or {the code that repeats}
  macButton,   \* buttons: whether the one button is down
  macDown,     \* what macOS sees down: codes, media keys and "button"
  terminal,    \* whether the front application is a terminal
  macPeer      \* the peer's activation: whether it is open, and the keys it holds

macInjectVars ==
  <<macMode, macRemap, chosen, usages, codes, media, repeat, macButton, macDown, terminal, macPeer>>

MediaKeys == {"MUTE"}
Swapped == [LCTRL |-> "LGUI", LGUI |-> "LCTRL", RCTRL |-> "RGUI", RGUI |-> "RCTRL"]

(* hid_to_mac_keycode: PrintScreen and F13 share a code. *)
Code(u) == IF u = "PRINT_SCREEN" THEN "F13" ELSE u
NoCodes == [c \in Usages |-> 0]
NoPeer == [open |-> FALSE, keys |-> {}]

MacInjectInit ==
  /\ macMode = "Standard" /\ macRemap = KeyRemap("Standard") /\ chosen = {}
  /\ usages = {} /\ codes = NoCodes /\ media = {} /\ repeat = {}
  /\ macButton = FALSE /\ macDown = {} /\ terminal = FALSE /\ macPeer = NoPeer

-----------------------------------------------------------------------------
(* The native side lets go of whatever a failed post left down, so nothing   *)
(* is down afterwards even when posts fail.                                  *)
LetGo(mode) ==
  /\ macRemap' = reset(macRemap, mode) /\ chosen' = {} /\ usages' = {} /\ codes' = NoCodes
  /\ media' = {} /\ repeat' = {} /\ macButton' = FALSE /\ macDown' = {}

mac_release_all == LetGo(macRemap.mode)

mac_begin(mode) ==
  /\ ~macPeer.open
  /\ LetGo(IF mode = "Mac" THEN "Standard" ELSE mode)
  /\ macMode' = mode /\ macPeer' = [open |-> TRUE, keys |-> {}]
  /\ UNCHANGED terminal

(* ActivationClosed, and a batch that failed: a post did, or the Mac is      *)
(* locked.  Either way the activation is over.                               *)
mac_close ==
  /\ macPeer.open /\ mac_release_all /\ macPeer' = NoPeer
  /\ UNCHANGED <<macMode, terminal>>

(* A ReleaseAll command, or a tick that failed, while the peer types on.     *)
mac_released ==
  /\ macPeer.open /\ mac_release_all
  /\ UNCHANGED <<macMode, terminal, macPeer>>

-----------------------------------------------------------------------------
choose_AtRelease(physical, pressed) ==
  IF macMode # "Mac" \/ physical \notin DOMAIN Swapped \/ terminal THEN physical
  ELSE Swapped[physical]

(* The usage a Ctrl or Cmd key stands for: the front application's at the    *)
(* press, what the press became at the release.                              *)
choose(physical, pressed) ==
  LET earlier == {c \in chosen : c[1] = physical}
  IN IF macMode # "Mac" \/ physical \notin DOMAIN Swapped THEN physical
     ELSE IF earlier # {} THEN (CHOOSE c \in earlier : TRUE)[2]
     ELSE IF ~pressed \/ terminal THEN physical
     ELSE Swapped[physical]

(* The edges between two remaps, as press, release and output post them: the *)
(* newest plain key repeats, and a code stays down while a usage holds it.   *)
Post(m, pressed, released) ==
  LET holds(c) == codes[c] + Cardinality({u \in pressed \ MediaKeys : Code(u) = c})
                           - Cardinality({u \in released \ MediaKeys : Code(u) = c})
      new == {c \in Usages : codes[c] = 0 /\ codes'[c] > 0}
      gone == {c \in Usages : codes[c] > 0 /\ codes'[c] = 0}
  IN /\ macRemap' = m
     /\ usages' = (usages \cup (pressed \ MediaKeys)) \ released
     /\ codes' = [c \in Usages |-> holds(c)]
     /\ media' = (media \cup (pressed \cap MediaKeys)) \ released
     /\ repeat' = IF new \subseteq Modifiers THEN repeat \ gone ELSE new \ Modifiers
     /\ macDown' = (macDown \ (gone \cup MediaKeys)) \cup new \cup media'

mac_key(u, pressed) ==
  LET c == choose(u, pressed) IN
  /\ macPeer.open
  /\ \E m \in {remap_key(macRemap, c, pressed)} :
       Post(m, injected(m) \ (injected(macRemap) \cup usages \cup media),
               (injected(macRemap) \ injected(m)) \cap (usages \cup media))
  /\ chosen' = IF macMode # "Mac" \/ u \notin DOMAIN Swapped THEN chosen
               ELSE IF pressed THEN chosen \cup {<<u, c>>}
               ELSE {ch \in chosen : ch[1] # u}
  /\ macPeer' = [macPeer EXCEPT !.keys = IF pressed THEN @ \cup {u} ELSE @ \ {u}]
  /\ UNCHANGED <<macMode, macButton, terminal>>

(* A press or a release of the button, or a scroll: no mode of a Mac holds   *)
(* keys back, so the remap posts nothing.                                    *)
mac_button(pressed) ==
  /\ macPeer.open
  /\ macRemap' = remap_pointer(macRemap, pressed, pressed) /\ macButton' = pressed
  /\ macDown' = IF pressed THEN macDown \cup {"button"} ELSE macDown \ {"button"}
  /\ UNCHANGED <<macMode, chosen, usages, codes, media, repeat, terminal, macPeer>>

mac_scroll ==
  /\ macPeer.open /\ macRemap' = remap_pointer(macRemap, TRUE, macButton)
  /\ UNCHANGED <<macMode, chosen, usages, codes, media, repeat, macButton, macDown, terminal, macPeer>>

(* The repeat of a key: macOS sees the code down, whoever else let go of it. *)
mac_tick ==
  /\ repeat # {} /\ macDown' = macDown \cup repeat
  /\ UNCHANGED <<macMode, macRemap, chosen, usages, codes, media, repeat, macButton, terminal, macPeer>>

frontmost ==
  /\ terminal' = ~terminal
  /\ UNCHANGED <<macMode, macRemap, chosen, usages, codes, media, repeat, macButton, macDown, macPeer>>

MacInjectNext ==
  \/ \E mode \in KeyboardModes : mac_begin(mode)
  \/ \E u \in MacKeys, pressed \in BOOLEAN : mac_key(u, pressed)
  \/ \E pressed \in BOOLEAN : mac_button(pressed)
  \/ mac_close \/ mac_released \/ mac_scroll \/ mac_tick \/ frontmost

-----------------------------------------------------------------------------
(* macOS sees down exactly what the remap injects, which only keys the peer  *)
(* still holds keep down, however the front application changed between a    *)
(* press and its release; and only a key that is down repeats, so nothing    *)
(* types on after the last release (choose, press, release, tick).           *)
MacHoldsPeersKeys ==
  /\ RemapInv(macRemap)
  /\ \A p \in macRemap.physical : \E u \in macPeer.keys :
       p = u \/ (u \in DOMAIN Swapped /\ p = Swapped[u])
  /\ macDown = {Code(u) : u \in injected(macRemap)} \cup (IF macButton THEN {"button"} ELSE {})
  /\ repeat \subseteq macDown
=============================================================================
