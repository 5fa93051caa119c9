------------------------------- MODULE Keymap -------------------------------
(***************************************************************************)
(* KeyRemap of core/keymap.rs: physical key edges of a peer in, the keys to *)
(* hold down on this computer out.  A remap is a record; `owners` gives     *)
(* each injected key the physical keys that keep it down, so the edges to   *)
(* inject are the difference of `injected` before and after (a Tap, which   *)
(* presses and releases at once, leaves no trace in it).                    *)
(***************************************************************************)
EXTENDS Naturals

Class == [LCTRL |-> "CTRL", RCTRL |-> "CTRL", LSHIFT |-> "SHIFT", RSHIFT |-> "SHIFT",
          LALT |-> "OPT", RALT |-> "OPT", LGUI |-> "CMD", RGUI |-> "CMD"]
Modifiers == DOMAIN Class
Usages == Modifiers \cup
  {"A", "B", "C", "N3", "TAB", "SPACE", "LEFT", "HOME", "PAGE_UP", "PRINT_SCREEN", "F13", "MUTE"}
KeyboardModes == {"Standard", "PcPositions", "Mac"}

(* What a held modifier injects when no rule consumes it. *)
default_output(mode, u) ==
  CASE mode = "PcPositions" /\ u = "LALT" -> "LGUI"
    [] mode = "PcPositions" /\ u = "LGUI" -> "LALT"
    [] mode = "PcPositions" /\ u = "RALT" -> "RGUI"
    [] mode = "PcPositions" /\ u = "RGUI" -> "RALT"
    [] mode = "Mac" /\ u = "LGUI" -> "LCTRL"
    [] mode = "Mac" /\ u = "RGUI" -> "RCTRL"
    [] OTHER -> u

rule(context, held, keys, action, mods, key_mods, out) ==
  [context |-> context, held |-> held, keys |-> keys, action |-> action,
   mods |-> mods, key_mods |-> key_mods, out |-> out]
ANY_KEY == Usages
Same == "Same"

(* The table, one row for those that differ only in their key; the first row *)
(* that matches wins.                                                        *)
RULES ==
  << rule("Any",      {"CMD", "SHIFT"}, {"N3"},  "Press", {"LSHIFT"}, {}, "PRINT_SCREEN"),
     rule("Terminal", {"CMD"}, {"C"},            "Press", {"LCTRL"}, {"LSHIFT"}, Same),
     rule("Terminal", {"CMD"}, {"N3"},           "Press", {"LALT"}, {}, Same),
     rule("Terminal", {"OPT"}, {"LEFT"},         "Press", {"LALT"}, {}, "B"),
     rule("Any",      {"CMD"}, {"TAB"},          "Hold",  {"LALT"}, {}, Same),
     rule("Any",      {"CMD"}, {"SPACE"},        "Tap",   {}, {}, "LGUI"),
     rule("Any",      {"CMD"}, {"LEFT"},         "Press", {}, {}, "HOME"),
     rule("Any",      {"CTRL", "CMD"}, ANY_KEY,  "Block", {}, {}, Same),
     rule("Any",      {"CTRL", "CMD", "OPT"}, ANY_KEY, "Block", {}, {}, Same),
     rule("Any",      {"CMD", "OPT"}, {"LEFT"},  "Press", {"LCTRL"}, {}, "PAGE_UP"),
     rule("Any",      {"CTRL"}, {"LEFT"},        "Press", {"LGUI"}, {}, "PAGE_UP"),
     rule("Gui",      {"OPT"}, {"LEFT"},         "Press", {"LCTRL"}, {}, Same),
     rule("Gui",      {"CTRL"}, {"A"},           "Press", {}, {}, "HOME"),
     rule("Terminal", {"CMD"}, ANY_KEY,          "Block", {}, {}, Same),
     rule("Terminal", {"CMD", "OPT"}, ANY_KEY,   "Block", {}, {}, Same) >>

matches(r, terminal, held, key) ==
  /\ r.context = "Any" \/ (r.context = "Terminal") = terminal
  /\ held \ {"SHIFT"} = r.held \ {"SHIFT"}
  /\ "SHIFT" \in r.held => "SHIFT" \in held
  /\ key \in r.keys

-----------------------------------------------------------------------------
KeyRemap(mode) ==
  [mode |-> mode, terminal |-> FALSE, busy |-> FALSE, physical |-> {}, deferred |-> {},
   owners |-> [u \in Usages |-> {}], bound |-> {}]

(* The terminal bit describes the desktop and survives. *)
reset(m, mode) == [KeyRemap(mode) EXCEPT !.terminal = m.terminal]

injected(m) == {u \in Usages : m.owners[u] # {}}
owns_any(m, key) == \E u \in Usages : key \in m.owners[u]
own(m, out, by) == [m EXCEPT !.owners[out] = @ \cup {by}]

(* Each of the modifiers hs presses what it stands for. *)
own_defaults(m, hs) ==
  [m EXCEPT !.owners = [u \in Usages |-> @[u] \cup {h \in hs : default_output(m.mode, h) = u}]]

(* The injected modifiers become mods, owned by the held modifiers of the    *)
(* consumed classes, key_mods, owned by key, and every other held modifier's *)
(* own output.                                                               *)
set_modifiers(m, consumed, mods, key_mods, key) ==
  LET held == m.physical \cap Modifiers
      wanted(u) == {h \in held : IF Class[h] \in consumed THEN u \in mods
                                 ELSE u = default_output(m.mode, h)}
                   \cup (IF u \in key_mods THEN {key} ELSE {})
  IN [m EXCEPT !.deferred = {},
               !.owners = [u \in Usages |-> IF u \in Modifiers THEN wanted(u) ELSE @[u]]]

(* With another key or a button already down, Option goes out at once.       *)
press_modifier(m, u) ==
  IF m.mode = "Mac" /\ Class[u] = "OPT" /\ ~m.busy /\ m.physical \subseteq Modifiers
  THEN [m EXCEPT !.deferred = @ \cup {u}]
  ELSE own_defaults(m, {u})

lookup(m, key) ==
  LET held == {Class[h] : h \in m.physical \cap Modifiers}
      hits == {i \in DOMAIN RULES : matches(RULES[i], m.terminal, held, key)}
  IN IF m.mode # "Mac" \/ hits = {} THEN rule("Any", {}, {}, "Press", {}, {}, Same)
     ELSE RULES[CHOOSE i \in hits : \A j \in hits : i <= j]

press_key_Ruled(m, key) ==
  LET r == lookup(m, key)
      set == set_modifiers(m, r.held, r.mods, r.key_mods, key)
      pressed == own(set, IF r.out = Same THEN key ELSE r.out, key)
  IN CASE r.action = "Block" -> m
       [] r.action = "Tap" -> set
       [] r.action = "Hold" -> [pressed EXCEPT !.bound = r.mods \cap injected(pressed)]
       [] OTHER -> pressed

(* While the app switcher is open its modifier stays and keys skip the rules. *)
press_key(m, key) ==
  IF m.bound # {}
  THEN LET idle == {h \in m.physical \cap Modifiers : ~owns_any(m, h)}
       IN own([own_defaults(m, idle) EXCEPT !.deferred = {}], key, key)
  ELSE press_key_Ruled(m, key)

release(m, key) ==
  LET after == [m EXCEPT !.deferred = @ \ {key}, !.owners = [u \in Usages |-> @[u] \ {key}]]
      freed == injected(m) \ injected(after)
  IN [after EXCEPT !.bound = IF freed \cap @ = {} THEN @ ELSE {}]

(* KeyRemap::key. *)
remap_key(m, key, pressed) ==
  IF (key \in m.physical) = pressed THEN m
  ELSE IF pressed
       THEN LET down == [m EXCEPT !.physical = @ \cup {key}]
            IN IF key \in Modifiers THEN press_modifier(down, key) ELSE press_key(down, key)
       ELSE release([m EXCEPT !.physical = @ \ {key}], key)

(* KeyRemap::pointer and pointer_released: a press lets held-back Option     *)
(* keys go out first, a release presses nothing.                             *)
remap_pointer(m, pressed, busy) ==
  IF pressed THEN [own_defaults(m, m.deferred) EXCEPT !.deferred = {}, !.busy = busy]
  ELSE [m EXCEPT !.busy = busy]

-----------------------------------------------------------------------------
(* What keeps a key down is a key the peer holds, so nothing is left down    *)
(* once every physical key is up; and the modifiers of an open app switcher  *)
(* stay down as long as it counts as open (KeyRemap: "a physical release     *)
(* only ever releases, and once every physical key is up nothing it injected *)
(* is left down").                                                           *)
RemapInv(m) ==
  /\ m.deferred \subseteq m.physical \cap Modifiers
  /\ \A u \in Usages : m.owners[u] \subseteq m.physical
  /\ m.bound \subseteq injected(m)
=============================================================================
