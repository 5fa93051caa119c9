-------------------------------- MODULE Lens --------------------------------
(***************************************************************************)
(* A computer's screen shown through a lens on another: the damage that     *)
(* lens/capture.rs keeps, the encoder of lens/tiles.rs with the loop of     *)
(* lens/host.rs that drives it, and the decoder of lens/client.rs.  A tile  *)
(* shows one of two pictures; a preview is a picture that is not exact.     *)
(* The pacer's window and the clock are left to chance.                     *)
(***************************************************************************)
EXTENDS Naturals, Sequences, FiniteSets
LOCAL INSTANCE SequencesExt

CONSTANTS
  TileCount,    \* tiles of the desktop
  SCAN,         \* background tiles compared per round
  Windows,      \* what the pacer may leave to spend; a preview costs 1, an exact tile 2
  MaxPaints     \* bound: frames recorded of the viewed screen

ASSUME LensAssumption ==
  /\ TileCount \in Nat \ {0} /\ SCAN \in Nat \ {0}
  /\ Windows \subseteq Nat /\ MaxPaints \in Nat

VARIABLES
  desktop,     \* the picture on each tile of the viewed screen
  paints,      \* frames Mutter recorded of it
  frames,      \* Frames: whether the next frame replaces the whole picture
  screen,      \* Screen: the held frame, its damage, and whether the encoder saw it
  encoder,     \* Encoder: what it knows of each tile, and the background scan
  view,        \* the tiles under the lens; all of them before the first move
  said,        \* the last step sent a frame that says exact
  decoder      \* Decoder: what the viewer shows on each tile once the frames sent arrive

lensVars == <<desktop, paints, frames, screen, encoder, view, said, decoder>>

TileIds == 0 .. (TileCount - 1)
Whole == [all |-> TRUE, tiles |-> {}]
Part(ids) == [all |-> FALSE, tiles |-> ids]
Unseen == [picture |-> 0, level |-> 0]

(* level 0: the viewer has nothing; 1: exact; 2: a preview.  current says    *)
(* that the tile was checked at this generation, recent that it was compared *)
(* too short a while ago to look again far from the lens.                    *)
NewTiles ==
  [id \in TileIds |-> [level |-> 0, picture |-> 0, stale |-> FALSE, current |-> FALSE, recent |-> FALSE]]
NewEncoder == [tiles |-> NewTiles, clean |-> 0, cursor |-> 0, deferred |-> FALSE]

LensInit ==
  /\ desktop = [id \in TileIds |-> 0] /\ paints = 0 /\ frames = [whole |-> TRUE]
  /\ screen = [held |-> <<>>, damage |-> Whole, fresh |-> FALSE]
  /\ encoder = NewEncoder /\ view = [known |-> FALSE, tiles |-> TileIds] /\ said = FALSE
  /\ decoder = [id \in TileIds |-> Unseen]

-----------------------------------------------------------------------------
(* The tiles the viewed screen changes for its next recorded frame.          *)
Painted(ids) ==
  /\ paints < MaxPaints /\ paints' = paints + 1
  /\ desktop' = [id \in TileIds |-> IF id \in ids THEN 1 - desktop[id] ELSE desktop[id]]

add_damage_Newest(damage) == damage

(* add_damage: what changed since the last take, or everything.              *)
add_damage(damage) ==
  IF damage.all \/ screen.damage.all THEN Whole ELSE Part(screen.damage.tiles \cup damage.tiles)

(* Frames::receive and Screen::hold: the newest frame, its damage told apart *)
(* from the frame before it.                                                 *)
receive(ids) ==
  /\ Painted(ids)
  /\ screen' = [held |-> <<desktop'>>, fresh |-> TRUE,
                damage |-> add_damage(IF frames.whole THEN Whole ELSE Part(ids))]
  /\ frames' = [whole |-> FALSE] /\ said' = FALSE
  /\ UNCHANGED <<encoder, view, decoder>>

Lost_Partial == [whole |-> FALSE]

(* A buffer that is not mapped or does not fit loses its damage.             *)
Lost == [whole |-> TRUE]

inspect(ids) ==
  /\ Painted(ids) /\ frames' = Lost /\ said' = FALSE
  /\ UNCHANGED <<screen, encoder, view, decoder>>

(* param_changed: a new format; the held buffer goes back to the stream, and *)
(* a new size starts the encoder and the decoder over with the next frame.   *)
param_changed ==
  /\ frames' = [whole |-> TRUE] /\ screen' = [screen EXCEPT !.held = <<>>] /\ said' = FALSE
  /\ UNCHANGED <<desktop, paints, encoder, view, decoder>>

-----------------------------------------------------------------------------
changed_Damaged(e, damage) ==
  [e EXCEPT !.clean = 0,
            !.tiles = [id \in TileIds |->
               [e.tiles[id] EXCEPT !.current = ~damage.all /\ id \notin damage.tiles]]]

(* Encoder::changed: only a tile known current stays current through a new   *)
(* capture, and only outside the damage.                                     *)
changed(e, damage) ==
  [e EXCEPT !.clean = 0,
            !.tiles = [id \in TileIds |->
               [e.tiles[id] EXCEPT !.current = @ /\ ~damage.all /\ id \notin damage.tiles]]]

(* need: the tile compared with the capture, unless it was of late.          *)
compare(t, picture, often) ==
  IF t.level = 0 \/ t.current \/ (t.recent /\ ~often) THEN t
  ELSE [t EXCEPT !.current = TRUE, !.recent = TRUE, !.stale = t.picture # picture]

need(t) ==
  CASE t.level = 0 -> "missing"
    [] t.level # 0 /\ t.stale -> "stale"
    [] t.level = 2 /\ ~t.stale -> "refine"
    [] OTHER -> "current"

put(picture, level) == [level |-> level, picture |-> picture, stale |-> FALSE, current |-> TRUE, recent |-> TRUE]

(* The lens: every hole is filled, at worst as a preview; changes go out as  *)
(* previews where they all fit; whatever budget is left makes tiles exact.   *)
LensLevels(tiles, lens, budget) ==
  LET work(n) == {id \in lens : need(tiles[id]) = n}
      all == {id \in lens : need(tiles[id]) # "current"}
      after == IF budget >= Cardinality(work("missing")) THEN budget - Cardinality(work("missing")) ELSE 0
      stale == Cardinality(work("stale")) <= after
      previewed == work("missing") \cup (IF stale THEN work("stale") ELSE {})
      left == IF stale THEN after - Cardinality(work("stale")) ELSE after
      cost(ids) == Cardinality(ids \cap previewed) + 2 * Cardinality(ids \ previewed)
      levels(exact) == [id \in exact \cup previewed |-> IF id \in exact THEN 1 ELSE 2]
  IN  IF 2 * Cardinality(all) <= budget
        THEN {[levels |-> levels(all), exact |-> TRUE, left |-> budget - 2 * Cardinality(all)]}
        ELSE {[levels |-> levels(exact), exact |-> FALSE, left |-> left - cost(exact)] :
                exact \in {ids \in SUBSET all : ids # all /\ cost(ids) <= left}}

(* One visit of the background scan: stop, or the next tile.                 *)
scan_Visit(st, picked, pictures) ==
  LET id == st.e.cursor
      seen == compare(st.e.tiles[id], pictures[id], FALSE)
      next == (id + 1) % TileCount
  IN  IF st.stop \/ st.e.clean >= TileCount THEN [st EXCEPT !.stop = TRUE]
      ELSE IF id \in picked \cup st.sent
        THEN [st EXCEPT !.e.cursor = next,
                        !.e.clean = IF st.e.tiles[id].level > 1 THEN 0 ELSE @ + 1]
      ELSE IF need(seen) = "current"
        THEN [st EXCEPT !.e.tiles[id] = seen, !.e.cursor = next, !.e.clean = @ + 1,
                        !.e.deferred = @ \/ ~seen.current]
      ELSE IF st.fill < 2
        THEN [st EXCEPT !.e.tiles[id] = seen, !.e.deferred = @ \/ ~seen.current, !.stop = TRUE]
      ELSE [st EXCEPT !.e.tiles[id] = put(pictures[id], 1), !.e.cursor = next, !.e.clean = @ + 1,
                      !.e.deferred = @ \/ ~seen.current, !.fill = @ - 2, !.sent = @ \cup {id}]

scan(e, fill, picked, pictures) ==
  FoldLeft(LAMBDA st, n : scan_Visit(st, picked, pictures),
           [e |-> e, fill |-> fill, sent |-> {}, stop |-> FALSE], [n \in 1..SCAN |-> n])

(* At most n of the ids.                                                     *)
Prefix(ids, n) ==
  CHOOSE some \in SUBSET ids : Cardinality(some) = IF Cardinality(ids) < n THEN Cardinality(ids) ELSE n

(* Encoder::encode.  The ring around the lens takes what the fill allows of  *)
(* the tiles near it, here any.                                              *)
encode(e, pictures, lens, budget, fill) ==
  LET ring == {id \in TileIds : \E l \in lens : id \in (l - 1) .. (l + 1)}
      often == [e EXCEPT !.tiles = [id \in TileIds |->
                  IF id \in lens THEN compare(e.tiles[id], pictures[id], TRUE) ELSE e.tiles[id]]]
      sent(en, levels) == [en EXCEPT !.tiles = [id \in TileIds |->
                  IF id \in DOMAIN levels THEN put(pictures[id], levels[id]) ELSE en.tiles[id]]]
  IN  {LET first == sent(often, choice.levels)
           spare == IF ~view.known THEN 0 ELSE IF fill < choice.left THEN fill ELSE choice.left
           near == [first EXCEPT !.tiles = [id \in TileIds |->
                     IF id \in ring \ DOMAIN choice.levels
                     THEN compare(first.tiles[id], pictures[id], FALSE) ELSE first.tiles[id]]]
           wanted == {id \in ring \ DOMAIN choice.levels : need(near.tiles[id]) # "current"}
           taken == Prefix(wanted, spare \div 2)
           ringed == IF spare = 0 THEN first ELSE sent(near, [id \in taken |-> 1])
           rest == scan(ringed, spare - 2 * Cardinality(taken), DOMAIN choice.levels \cup taken, pictures)
           done == IF ~view.known THEN first ELSE rest.e
           tiles == DOMAIN choice.levels \cup (IF ~view.known THEN {} ELSE taken \cup rest.sent)
       IN  [encoder |-> done,
            packet |-> [id \in tiles |-> [picture |-> pictures[id], level |-> done.tiles[id].level]],
            exact |-> choice.exact]
         : choice \in LensLevels(often.tiles, lens, budget)}

(* Decoder::apply: the tiles of a frame over what the viewer shows.          *)
apply(shown, packet) ==
  [id \in TileIds |-> IF id \in DOMAIN packet THEN packet[id] ELSE shown[id]]

(* One turn of the encoder thread: it takes the damage of a new frame, and   *)
(* spends the window on the newest frame and view.  A tile that waits for    *)
(* its next refresh is looked at again once that is due.                     *)
Encode ==
  LET taken == IF screen.fresh THEN changed(encoder, screen.damage) ELSE encoder
      lens == view.tiles
  IN  /\ screen.held # <<>> \/ screen.fresh
      /\ screen' = [screen EXCEPT !.fresh = FALSE, !.damage = IF screen.fresh THEN Part({}) ELSE @]
      /\ \/ screen.held = <<>> /\ encoder' = taken /\ said' = FALSE /\ UNCHANGED decoder
         \/ /\ screen.held # <<>>
            /\ \E window \in Windows : \E due \in {taken.deferred, FALSE} :
                 LET begun == IF due THEN [taken EXCEPT !.deferred = FALSE, !.clean = 0] ELSE taken IN
                 \E r \in encode(begun, screen.held[1], lens, window, window \div 2) :
                   /\ encoder' = r.encoder
                   /\ said' = r.exact /\ decoder' = apply(decoder, r.packet)
      /\ UNCHANGED <<desktop, paints, frames, view>>

(* Time passes: the tile may be compared again far from the lens too.        *)
Age(id) ==
  /\ encoder.tiles[id].recent /\ encoder' = [encoder EXCEPT !.tiles[id].recent = FALSE] /\ said' = FALSE
  /\ UNCHANGED <<desktop, paints, frames, screen, view, decoder>>

(* A new size: Ready starts the decoder over, ahead of the frames made for   *)
(* it.                                                                       *)
Resize ==
  /\ screen.held = <<>> /\ said' = FALSE
  /\ encoder' = NewEncoder /\ decoder' = [id \in TileIds |-> Unseen]
  /\ UNCHANGED <<desktop, paints, frames, screen, view>>

Move(tiles) ==
  /\ view' = [known |-> TRUE, tiles |-> tiles] /\ view' # view /\ said' = FALSE
  /\ UNCHANGED <<desktop, paints, frames, screen, encoder, decoder>>

LensNext ==
  \/ \E ids \in SUBSET TileIds : receive(ids) \/ inspect(ids)
  \/ \E id \in TileIds : Age(id)
  \/ param_changed \/ Encode \/ Resize
  \/ \E tiles \in SUBSET TileIds \ {{}} : Move(tiles)

-----------------------------------------------------------------------------
(* A frame that says exact leaves the lens as the viewed screen was when it  *)
(* was made, whatever was painted, lost or skipped before.                   *)
ExactIsExact ==
  said => \A id \in view.tiles : decoder[id] = [picture |-> screen.held[1][id], level |-> 1]

(* Once the scan has been round and nothing waits for its refresh, the       *)
(* viewer will show the whole of the last recorded frame, exact to the last  *)
(* tile, with no further frame needed.                                       *)
SettledIsSharp ==
  screen.held # <<>> /\ ~screen.fresh /\ encoder.clean = TileCount /\ ~encoder.deferred
    => \A id \in TileIds : decoder[id] = [picture |-> screen.held[1][id], level |-> 1]
=============================================================================
