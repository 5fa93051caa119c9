----------------------------- MODULE LensInput -----------------------------
(***************************************************************************)
(* The input of a lens: from the person looking through it (lens/viewer.rs) *)
(* over the client's loop (lens/client.rs) and the player of lens/host.rs   *)
(* into the viewed computer's remote desktop session (lens/mutter.rs).      *)
(* Moves collapse to the newest on both computers; a click, a key and a     *)
(* copy keep their place among them.                                        *)
(***************************************************************************)
EXTENDS Keymap, Sequences, SequencesExt

CONSTANTS
  Spots,        \* pointer positions
  LensKeys,     \* keys the person presses
  LensMode,     \* the keyboard mode of the viewing peer
  MaxLensInputs \* bound: inputs on their way

ASSUME LensInputAssumption ==
  /\ Spots # {} /\ LensKeys \subseteq Usages /\ LensMode \in KeyboardModes /\ MaxLensInputs \in Nat

VARIABLES
  viewer,  \* Viewer and the person: the state shown, pointer, keys and button down
  inputs,  \* Input on its way to the client's loop
  moving,  \* LensMessages on their way to the player
  player,  \* play: its KeyRemap and buttons, and whether it waits for a copy
  desk,    \* Desk: what it records as held
  mutter,  \* the session: keys and buttons down, the pointer, the last click
  reply    \* the answer to a copy on its way back

lensInputVars == <<viewer, inputs, moving, player, desk, mutter, reply>>

NoViewer(state) == [state |-> state, at |-> CHOOSE p \in Spots : TRUE, keys |-> {}, button |-> FALSE]
NoPlayer == [up |-> FALSE, remap |-> KeyRemap(LensMode), buttons |-> FALSE, copying |-> FALSE]
Idle == [open |-> FALSE, down |-> {}, button |-> FALSE, at |-> CHOOSE p \in Spots : TRUE, click |-> <<>>]

LensInputInit ==
  /\ viewer = NoViewer("Closed") /\ inputs = <<>> /\ moving = <<>> /\ player = NoPlayer
  /\ desk = {} /\ mutter = Idle /\ reply = <<>>

-----------------------------------------------------------------------------
(* client::start and Viewer::opening: input may be sent while the stream     *)
(* opens.  The viewed computer starts its session meanwhile.                 *)
opening ==
  /\ viewer.state \in {"Closed", "Failed"} /\ ~player.up
  /\ viewer' = NoViewer("Opening") /\ inputs' = <<>> /\ moving' = <<>> /\ reply' = <<>>
  /\ UNCHANGED <<player, desk, mutter>>

(* Desk::start, and Ready.                                                   *)
start ==
  /\ viewer.state = "Opening" /\ ~player.up
  /\ viewer' = [viewer EXCEPT !.state = "Open"]
  /\ player' = [NoPlayer EXCEPT !.up = TRUE] /\ desk' = {} /\ mutter' = [Idle EXCEPT !.open = TRUE]
  /\ UNCHANGED <<inputs, moving, reply>>

(* Viewer::send.                                                             *)
send(input) == inputs' = Append(inputs, input)

Press ==
  /\ viewer.state \in {"Opening", "Open"} /\ Len(inputs) + Len(moving) < MaxLensInputs
  /\ \/ \E p \in Spots \ {viewer.at} : viewer' = [viewer EXCEPT !.at = p] /\ send([kind |-> "Move", at |-> p])
     \/ /\ viewer' = [viewer EXCEPT !.button = ~@]
        /\ send([kind |-> "Button", pressed |-> ~viewer.button, made |-> viewer.at])
     \/ \E k \in LensKeys :
          /\ viewer' = [viewer EXCEPT !.keys = IF k \in @ THEN @ \ {k} ELSE @ \cup {k}]
          /\ send([kind |-> "Key", usage |-> k, pressed |-> k \notin viewer.keys])
     \/ \E kind \in {"Scroll", "Copy"} : viewer' = viewer /\ send([kind |-> kind])
  /\ UNCHANGED <<moving, player, desk, mutter, reply>>

(* The moves at the front collapse to the newest; what follows them keeps    *)
(* its place, and goes in the same turn.  The player collapses again.        *)
Moves(q) == CHOOSE n \in 0 .. Len(q) :
  (\A i \in 1 .. n : q[i].kind = "Move") /\ (n < Len(q) => q[n + 1].kind # "Move")

batch_Newest(q) ==
  LET moves == SelectSeq(q, LAMBDA m : m.kind = "Move") IN
  IF moves = <<>> THEN [first |-> <<Head(q)>>, rest |-> Tail(q)]
  ELSE [first |-> <<Last(moves)>>, rest |-> SelectSeq(q, LAMBDA m : m.kind # "Move")]

batch(q) ==
  LET n == Moves(q) IN
  IF n = 0 THEN [first |-> <<Head(q)>>, rest |-> Tail(q)]
  ELSE IF n = Len(q) THEN [first |-> <<q[n]>>, rest |-> <<>>]
  ELSE [first |-> <<q[n], q[n + 1]>>, rest |-> SubSeq(q, n + 2, Len(q))]

(* client::serve, once the stream is open.                                   *)
serve ==
  /\ viewer.state = "Open" /\ inputs # <<>>
  /\ \E b \in {batch(inputs)} : moving' = moving \o b.first /\ inputs' = b.rest
  /\ UNCHANGED <<viewer, player, desk, mutter, reply>>

-----------------------------------------------------------------------------
(* One action of the player, on [player, desk, mutter].  keys presses and    *)
(* releases what the remap injects, Desk::key records it.                    *)
Keys(st, remap) ==
  [st EXCEPT !.player.remap = remap,
             !.desk = (@ \ injected(st.player.remap)) \cup injected(remap),
             !.mutter.down = (@ \ injected(st.player.remap)) \cup injected(remap)]

(* copy: Ctrl+C, with Shift in a terminal, leaving alone what is held.  The  *)
(* keys it pressed go up again, in the other order.                          *)
shortcut_Presses(held, terminal) == {"LCTRL", "C"} \cup (IF terminal THEN {"LSHIFT"} ELSE {})

shortcut(held, terminal) ==
  {"C"} \cup (({"LCTRL"} \cup (IF terminal THEN {"LSHIFT"} ELSE {})) \ held)

play_one(st, m) ==
  LET pointed == Keys(st, remap_pointer(st.player.remap, m.pressed, m.pressed))
      scrolled == Keys(st, remap_pointer(st.player.remap, TRUE, st.player.buttons))
  IN
  CASE m.kind = "Move" -> [st EXCEPT !.mutter.at = m.at]
    [] m.kind = "Button" ->
         [pointed EXCEPT !.player.buttons = m.pressed, !.mutter.button = m.pressed,
                         !.mutter.click = <<m.made, st.mutter.at>>]
    [] m.kind = "Scroll" -> scrolled
    [] m.kind = "Key" -> Keys(st, remap_key(st.player.remap, m.usage, m.pressed))

Play_Copy(st, terminal) ==
  LET keys == shortcut(injected(st.player.remap), terminal) IN
  [st EXCEPT !.player.copying = TRUE, !.desk = @ \ keys, !.mutter.down = @ \ keys]

Playing == [player |-> player, desk |-> desk, mutter |-> mutter]
Becomes(st) == player' = st.player /\ desk' = st.desk /\ mutter' = st.mutter

(* A Mutter call that fails, answered or not, ends the run: what the desk    *)
(* holds is released and the session stopped, which lets go of the rest.     *)
play ==
  /\ player.up /\ ~player.copying /\ moving # <<>>
  /\ \E b \in {batch(moving)}, terminal \in BOOLEAN :
       LET focused == [Playing EXCEPT !.player.remap.terminal = terminal]
           keyed == IF Last(b.first).kind = "Key" /\ Last(b.first).pressed THEN focused ELSE Playing
           moved == IF Len(b.first) = 2 THEN play_one(keyed, b.first[1]) ELSE keyed
       IN  /\ moving' = b.rest
           /\ Becomes(IF Last(b.first).kind = "Copy" THEN Play_Copy(moved, terminal)
                      ELSE play_one(moved, Last(b.first)))
  /\ UNCHANGED <<viewer, inputs, reply>>

(* read_selection: the text the focused app copied, or what went wrong.      *)
copy ==
  /\ player.copying /\ player' = [player EXCEPT !.copying = FALSE]
  /\ \E r \in {"Copied", "Refused"} : reply' = <<r>>
  /\ UNCHANGED <<viewer, inputs, moving, desk, mutter>>

(* receive_frames: a copy refused ends the lens too.                         *)
receive_frames ==
  /\ reply # <<>> /\ reply' = <<>>
  /\ viewer' = IF reply = <<"Refused">> /\ viewer.state = "Open" THEN NoViewer("Failed") ELSE viewer
  /\ inputs' = IF reply = <<"Refused">> THEN <<>> ELSE inputs
  /\ UNCHANGED <<moving, player, desk, mutter>>

(* Viewer::finish: the person closes the lens, or the stream fails.          *)
finish ==
  /\ viewer.state \in {"Opening", "Open"} /\ inputs' = <<>>
  /\ \E state \in {"Closed", "Failed"} : viewer' = NoViewer(state)
  /\ UNCHANGED <<moving, player, desk, mutter, reply>>

(* host::serve ends, with the stream or with a call Mutter did not take:     *)
(* Desk::release and Desk::stop.                                             *)
stop ==
  /\ player.up /\ player' = NoPlayer /\ desk' = {} /\ mutter' = Idle
  /\ moving' = <<>> /\ reply' = <<>>
  /\ viewer' = (IF viewer.state = "Open" THEN NoViewer("Failed") ELSE viewer)
  /\ inputs' = (IF viewer.state = "Open" THEN <<>> ELSE inputs)

LensInputNext ==
  \/ opening \/ start \/ Press \/ serve \/ play \/ copy \/ receive_frames \/ finish \/ stop

-----------------------------------------------------------------------------
(* A click lands where the person made it, however many moves collapsed      *)
(* before and after it on either computer (client.rs: "Only the newest       *)
(* position matters; anything else keeps its order").                        *)
ClicksLandWhereMade == mutter.click # <<>> => mutter.click[1] = mutter.click[2]

(* The modifiers down on the viewed desktop are those the player's remap     *)
(* holds for the person, a copy shortcut pressed in between included, and    *)
(* the desk can release each.                                                *)
CopyLeavesModifiers ==
  player.up => /\ mutter.down \cap Modifiers = injected(player.remap) \cap Modifiers
               /\ mutter.down \subseteq desk
=============================================================================
