------------------------------- MODULE Tiles -------------------------------
(***************************************************************************)
(* What a shared layout shows: rectangles that touch where the pointer      *)
(* crosses.  SharedLayout of desktop.rs, with_geometry of                   *)
(* desktop/monitors.rs, the moves of app/layout_model.rs and with_tile_moved *)
(* of daemon.rs.  Versions are SharedLayout's; a result of None leaves the  *)
(* tiles as they are.                                                       *)
(***************************************************************************)
EXTENDS Integers, Sequences, FiniteSets, TLC
LOCAL INSTANCE SequencesExt
LOCAL INSTANCE FiniteSetsExt

CONSTANTS
  TileKeys,           \* key fingerprints, numbered as they are ordered
  Paired,             \* the keys each computer paired
  Geometries,         \* the desktops each computer may report
  PEER_TILE_SIZE,     \* <<width, height>> of a computer not heard from
  MAX_SHARED_TILES,
  MAX_COORDINATE,
  Drags,              \* coordinates a tile may be dragged to
  Tolerances,         \* how far a drag reaches for an edge
  MaxTileEdits        \* bound: edits over a run

ASSUME TilesAssumption ==
  /\ TileKeys \subseteq Nat /\ Paired \in [TileKeys -> SUBSET TileKeys]
  /\ MAX_SHARED_TILES \in Nat /\ MAX_COORDINATE \in Nat /\ MaxTileEdits \in Nat
  /\ Drags \subseteq Int /\ Tolerances \subseteq Nat

VARIABLES
  tiles,      \* the tiles of the layout, in order
  tileEdits   \* how many edits there were

tileVars == <<tiles, tileEdits>>

Right(t) == t.x + t.w
Bottom(t) == t.y + t.h
At(t, p) == [t EXCEPT !.x = p[1], !.y = p[2]]
Moved(t, d) == At(t, <<t.x + d[1], t.y + d[2]>>)
on_canvas(t) == {t.x, t.y} \subseteq -MAX_COORDINATE .. MAX_COORDINATE

overlaps(a, b) == a.x < Right(b) /\ Right(a) > b.x /\ a.y < Bottom(b) /\ Bottom(a) > b.y

(* The side of a that b shares part of.                                      *)
touching(a, b) ==
  LET beside == a.y < Bottom(b) /\ Bottom(a) > b.y
      stacked == a.x < Right(b) /\ Right(a) > b.x
  IN  CASE beside /\ Right(a) = b.x -> "right"
        [] beside /\ Right(b) = a.x -> "left"
        [] stacked /\ Bottom(a) = b.y -> "bottom"
        [] stacked /\ Bottom(b) = a.y -> "top"
        [] OTHER -> "none"

(* Right of, left of, below and above a tile, for one of the given size.     *)
beside_spots(a, size) ==
  << <<Right(a), a.y>>, <<a.x - size[1], a.y>>, <<a.x, Bottom(a)>>, <<a.x, a.y - size[2]>> >>

past_all(ts) == IF ts = <<>> THEN 0 ELSE Max({Right(ts[i]) : i \in DOMAIN ts})

NewTile(key, id, size) ==
  [key |-> key, id |-> id, active |-> TRUE, x |-> 0, y |-> 0, w |-> size[1], h |-> size[2]]

(* The first spot for tile among ts, beside the anchor or past everything.   *)
(* Anchor and result are sequences of at most one.                           *)
free_spot(ts, anchor, tile) ==
  LET near == IF anchor = <<>> THEN <<>> ELSE beside_spots(anchor[1], <<tile.w, tile.h>>)
      past == <<past_all(ts), IF anchor = <<>> THEN 0 ELSE anchor[1].y>>
      free(p) == on_canvas(At(tile, p)) /\ \A i \in DOMAIN ts : ~overlaps(At(tile, p), ts[i])
      spots == SelectSeq(Append(near, past), free)
  IN  IF spots = <<>> THEN <<>> ELSE <<At(tile, spots[1])>>

FirstOf(ts, Test(_)) == LET found == SelectSeq(ts, Test) IN IF found = <<>> THEN <<>> ELSE <<found[1]>>

-----------------------------------------------------------------------------
(* with_display_size: the ways to give tile i its new size.                  *)

(* How far a tile slides to stay against the side of old it is past.         *)
slide(old, new, other) ==
  << IF other.x >= Right(old) THEN Right(new) - Right(old)
       ELSE IF Right(other) <= old.x THEN new.x - old.x ELSE 0,
     IF other.y >= Bottom(old) THEN Bottom(new) - Bottom(old)
       ELSE IF Bottom(other) <= old.y THEN new.y - old.y ELSE 0 >>

(* Only the tiles in the way slide, one after the other.                     *)
pushed(ts, i, new) ==
  LET hit(st) == {j \in DOMAIN ts \ st.moved : \E k \in st.moved : overlaps(st.tiles[k], st.tiles[j])}
      push(st) == IF hit(st) = {} THEN st
                  ELSE LET j == Min(hit(st)) IN
                       [tiles |-> [st.tiles EXCEPT ![j] = Moved(@, slide(ts[i], new, ts[j]))],
                        moved |-> st.moved \cup {j}]
  IN  FoldLeft(LAMBDA st, t : push(st), [tiles |-> [ts EXCEPT ![i] = new], moved |-> {i}], ts).tiles

slid(ts, i, new) ==
  [j \in DOMAIN ts |-> IF j = i THEN new ELSE Moved(ts[j], slide(ts[i], new, ts[j]))]

corners(old, w, h) ==
  LET xs == <<old.x, Right(old) - w>> ys == <<old.y, Bottom(old) - h>>
  IN  << <<xs[1], ys[1]>>, <<xs[2], ys[1]>>, <<xs[1], ys[2]>>, <<xs[2], ys[2]>> >>

(* Where the tile itself may go: beside any other, or past all of them.      *)
placed(ts, i, size) ==
  LET rest == RemoveAt(ts, i)
  IN  FlattenSeq([j \in DOMAIN rest |-> beside_spots(rest[j], size)])
        \o << <<past_all(rest), ts[i].y>> >>

score_FewestMoves(ts, i, next) ==
  << -Cardinality({j \in DOMAIN ts \ {i} : next[j] # ts[j]}), 0, 0, 0, 0 >>

(* Contacts kept on the same side, on any side, whether it touches anything, *)
(* the contacts of the others, and the fewest tiles moved, in that order.    *)
score(ts, i, next) ==
  LET N == DOMAIN ts
      pairs == {p \in N \X N : p[1] < p[2] /\ touching(ts[p[1]], ts[p[2]]) # "none"}
      own == {p \in pairs : i \in {p[1], p[2]}}
      now(p) == touching(next[p[1]], next[p[2]])
      same(ps) == Cardinality({p \in ps : now(p) = touching(ts[p[1]], ts[p[2]])})
      touches == own # {} /\ \E j \in N \ {i} : touching(next[i], next[j]) # "none"
      kept == /\ next[i].x = ts[i].x \/ Right(next[i]) = Right(ts[i])
              /\ next[i].y = ts[i].y \/ Bottom(next[i]) = Bottom(ts[i])
      moves == Cardinality({j \in N \ {i} : <<next[j].x, next[j].y>> # <<ts[j].x, ts[j].y>>})
                 + (IF kept THEN 0 ELSE 1)
  IN  << same(own), Cardinality({p \in own : now(p) # "none"}), IF touches THEN 1 ELSE 0,
         same(pairs \ own), -moves >>

better(a, b) == \E n \in 1..5 : a[n] > b[n] /\ \A m \in 1..(n - 1) : a[m] = b[m]

(* The first of the best, among those that put no two tiles in one place     *)
(* that were not there before; <<>> when there is none.                      *)
resized(ts, i, w, h) ==
  LET new(p) == At([ts[i] EXCEPT !.w = w, !.h = h], p)
      at == corners(ts[i], w, h)
      spots == placed(ts, i, <<w, h>>)
      ways == [n \in 1..4 |-> pushed(ts, i, new(at[n]))] \o [n \in 1..4 |-> slid(ts, i, new(at[n]))]
                \o [n \in DOMAIN spots |-> [ts EXCEPT ![i] = new(spots[n])]]
      apart(next) ==
        \A j, k \in DOMAIN ts : j < k =>
          (next[j] = ts[j] /\ next[k] = ts[k]) \/ ~overlaps(next[j], next[k])
      fine == SelectSeq(ways, LAMBDA next : apart(next) /\ \A j \in DOMAIN ts : on_canvas(next[j]))
      scores == [n \in DOMAIN fine |-> score(ts, i, fine[n])]
      best == {n \in DOMAIN fine : \A m \in DOMAIN fine : ~better(scores[m], scores[n])}
  IN  IF fine = <<>> THEN <<>> ELSE fine[Min(best)]

with_display_size(ts, key, id, size) ==
  LET here == {i \in DOMAIN ts : ts[i].key = key /\ ts[i].id = id} IN
  IF here = {}
    THEN LET spot == IF Len(ts) >= MAX_SHARED_TILES THEN <<>>
                     ELSE free_spot(ts, FirstOf(ts, LAMBDA t : TRUE), NewTile(key, 0, size))
         IN  ts \o spot
    ELSE LET i == Min(here) next == resized(ts, i, size[1], size[2])
         IN  IF <<ts[i].w, ts[i].h>> = size \/ next = <<>> THEN ts ELSE next

-----------------------------------------------------------------------------
(* with_geometry: a computer writes its own displays into the layout.        *)

Round(n, d) == (2 * n + d) \div (2 * d)

(* The tile of the whole desktop becomes one per display, scaled into it.    *)
split(ts, key, g) ==
  LET here == {i \in DOMAIN ts : ts[i].key = key /\ ts[i].id = 0}
      old == ts[Min(here)]
      x(v) == Round(v * old.w, g.size[1])
      y(v) == Round(v * old.h, g.size[2])
      part(d) == [key |-> key, id |-> d.id, active |-> TRUE, x |-> old.x + x(d.x), y |-> old.y + y(d.y),
                  w |-> Max({1, x(d.x + d.w) - x(d.x)}), h |-> Max({1, y(d.y + d.h) - y(d.y)})]
  IN  IF here = {} THEN ts
      ELSE RemoveAt(ts, Min(here)) \o [n \in DOMAIN g.displays |-> part(g.displays[n])]

(* One display: found, it gives way when its spot was taken and then takes   *)
(* its size; new, it goes beside a tile of its computer.                     *)
reconcile(ts, key, d) ==
  LET here == {i \in DOMAIN ts : ts[i].key = key /\ ts[i].id = d.id}
      i == Min(here)
      rest == RemoveAt(ts, i)
      taken == \E j \in DOMAIN ts \ {i} : overlaps(ts[i], ts[j])
      own == FirstOf(ts, LAMBDA t : t.key = key)
      first == FirstOf(ts, LAMBDA t : TRUE)
      again == free_spot(rest, FirstOf(rest, LAMBDA t : TRUE), ts[i])
  IN  IF here = {}
        THEN LET spot == free_spot(ts, IF own = <<>> THEN first ELSE own, NewTile(key, d.id, d.desk))
             IN  [ok |-> spot # <<>>, tiles |-> ts \o spot]
        ELSE [ok |-> ~taken \/ again # <<>>,
              tiles |-> with_display_size(IF taken THEN rest \o again ELSE ts, key, d.id, d.desk)]

Before(a, b) == a.key < b.key \/ (a.key = b.key /\ a.id < b.id)

with_geometry(ts, key, g) ==
  LET ids == {g.displays[n].id : n \in DOMAIN g.displays}
      marked == [i \in DOMAIN ts |-> IF ts[i].key = key /\ ts[i].id # 0
                                     THEN [ts[i] EXCEPT !.active = ts[i].id \in ids] ELSE ts[i]]
      live == split(SelectSeq(marked, LAMBDA t : t.active), key, g)
      done == FoldLeft(LAMBDA st, d : IF st.ok THEN reconcile(st.tiles, key, d) ELSE st,
                       [ok |-> TRUE, tiles |-> live], g.displays)
      next == done.tiles \o SelectSeq(marked, LAMBDA t : ~t.active)
  IN  IF g.displays = <<>> THEN with_display_size(ts, key, 0, g.size)
      ELSE IF ~done.ok \/ Len(next) > MAX_SHARED_TILES
              \/ SortSeq(next, Before) = SortSeq(ts, Before) THEN ts
      ELSE SortSeq(next, Before)

(* with_tiles_for: a tile beside own's for each key that lacks one.          *)
with_tiles_for(ts, own, keys) ==
  FoldLeft(LAMBDA st, key :
             IF (\E i \in DOMAIN st : st[i].key = key) \/ Len(st) >= MAX_SHARED_TILES THEN st
             ELSE st \o free_spot(st, FirstOf(st, LAMBDA t : t.key = own), NewTile(key, 0, PEER_TILE_SIZE)),
           ts, SetToSortSeq(keys \ {own}, <))

(* with_key_replaced.                                                        *)
with_key_replaced(ts, old, new) ==
  IF \E i \in DOMAIN ts : ts[i].key = new THEN ts
  ELSE [i \in DOMAIN ts |-> IF ts[i].key = old THEN [ts[i] EXCEPT !.key = new] ELSE ts[i]]

-----------------------------------------------------------------------------
(* A drag.  Towards zero, as the code divides.                               *)
Half(n) == IF n >= 0 THEN n \div 2 ELSE -((-n) \div 2)
Abs(n) == IF n >= 0 THEN n ELSE -n

(* snap: the moves that bring an active member against the nearest edge.     *)
fits(view, members, d) ==
  \A m \in members :
    /\ on_canvas(Moved(view[m], d))
    /\ view[m].active => \A o \in DOMAIN view \ members : view[o].active => ~overlaps(Moved(view[m], d), view[o])

(* Against one side of other: lined up with its start, end or middle where   *)
(* that is near and fits, else as dragged.                                   *)
SideMoves(view, members, m, o, d, tolerance) ==
  LET a == view[m] b == view[o]
      near(e) == Abs(e[1] - d[1]) <= tolerance /\ Abs(e[2] - d[2]) <= tolerance
      lines(start, end, size) == {start, end - size, start + Half(end - start - size)}
      side(upright, across, start, end, size, dragged) ==
        LET move(along) == IF upright THEN <<across - a.x, along - a.y>> ELSE <<along - a.x, across - a.y>>
            good(along) == /\ along < end /\ along + size > start
                           /\ near(move(along)) /\ fits(view, members, move(along))
            lined == {l \in lines(start, end, size) : Abs(l - dragged) <= tolerance /\ good(l)}
        IN  {move(l) : l \in IF lined # {}
               THEN {l \in lined : \A k \in lined : Abs(l - dragged) <= Abs(k - dragged)}
               ELSE {l \in {dragged} : good(l)}}
  IN  side(TRUE, b.x - a.w, b.y, Bottom(b), a.h, a.y + d[2])
        \cup side(TRUE, Right(b), b.y, Bottom(b), a.h, a.y + d[2])
        \cup side(FALSE, b.y - a.h, b.x, Right(b), a.w, a.x + d[1])
        \cup side(FALSE, Bottom(b), b.x, Right(b), a.w, a.x + d[1])

(* The moves snap may answer with: the nearest, or the drag itself.          *)
snap(view, members, d, tolerance) ==
  LET active == {m \in DOMAIN view : view[m].active}
      reach == UNION {SideMoves(view, members, m, o, d, tolerance) :
                        m \in members \cap active, o \in active \ members}
      far(e) == (e[1] - d[1]) * (e[1] - d[1]) + (e[2] - d[2]) * (e[2] - d[2])
  IN  IF members \cap active = {} THEN {}
      ELSE IF reach # {} THEN {e \in reach : \A f \in reach : far(e) <= far(f)}
      ELSE {e \in {d} : fits(view, members, e)}

with_others_from_All(moved, previous, known) ==
  moved \o SelectSeq(previous, LAMBDA t : t.key \notin known)

(* with_others_from: the tiles the editor could not show, unless now covered. *)
with_others_from(moved, previous, known) ==
  FoldLeft(LAMBDA st, t : IF t.key \in known \/ Len(st) >= MAX_SHARED_TILES
                               \/ \E i \in DOMAIN st : overlaps(t, st[i]) THEN st ELSE Append(st, t),
           moved, previous)

-----------------------------------------------------------------------------
(* Layout::from_shared, and the crossings of what a computer can show.       *)
from_shared(own) == SelectSeq(tiles, LAMBDA t : t.key \in {own} \cup Paired[own])

Facing == [left |-> "right", right |-> "left", top |-> "bottom", bottom |-> "top"]

transitions(own) ==
  LET view == from_shared(own)
      active == {i \in DOMAIN view : view[i].active}
      valid == \A i, j \in active : i # j => ~overlaps(view[i], view[j])
      ways == {p \in active \X active :
                 view[p[1]].key # view[p[2]].key /\ touching(view[p[1]], view[p[2]]) # "none"}
      way(a, b) ==
        LET edge == touching(a, b) upright == edge \in {"left", "right"} IN
        [from |-> <<a.key, a.id>>, to |-> <<b.key, b.id>>, edge |-> edge,
         start |-> IF upright THEN Max({a.y, b.y}) ELSE Max({a.x, b.x}),
         end |-> IF upright THEN Min({Bottom(a), Bottom(b)}) ELSE Min({Right(a), Right(b)})]
  IN  IF ~valid THEN {} ELSE {way(view[p[1]], view[p[2]]) : p \in ways}

-----------------------------------------------------------------------------
Edited(ts) == tileEdits < MaxTileEdits /\ tileEdits' = tileEdits + 1 /\ ts # tiles /\ tiles' = ts

(* initial_layout: this computer, then each paired one to its right.         *)
initial_layout(own, size) ==
  FoldLeft(LAMBDA st, key : Append(st, [NewTile(key, 0, PEER_TILE_SIZE) EXCEPT !.x = past_all(st)]),
           <<NewTile(own, 0, size)>>, SetToSortSeq(Paired[own] \ {own}, <))

TilesInit ==
  /\ \E own \in TileKeys : \E g \in Geometries[own] :
       tiles = with_geometry(initial_layout(own, g.size), own, g)
  /\ tileEdits = 0

fit_own_tile(own, g) == Edited(with_geometry(tiles, own, g))
place_new_peers(own) == Edited(with_tiles_for(tiles, own, Paired[own]))
move_reinstalled_tiles(old, new) == old # new /\ Edited(with_key_replaced(tiles, old, new))

(* with_tile_moved: what own can show moves, with the whole computer or      *)
(* alone.                                                                    *)
with_tile_moved(own, at, tolerance, computer) ==
  LET known == {own} \cup Paired[own]
      view == from_shared(own)
  IN  tileEdits < MaxTileEdits /\ \E i \in DOMAIN view :
        LET members == {j \in DOMAIN view : j = i \/ (computer /\ view[j].key = view[i].key)} IN
        \E d \in snap(view, members, <<at[1] - view[i].x, at[2] - view[i].y>>, tolerance) :
          Edited(with_others_from([j \in DOMAIN view |-> IF j \in members THEN Moved(view[j], d) ELSE view[j]],
                                  tiles, known))

TilesNext ==
  \E own \in TileKeys :
    \/ \E g \in Geometries[own] : fit_own_tile(own, g)
    \/ place_new_peers(own)
    \/ \E new \in TileKeys : move_reinstalled_tiles(own, new)
    \/ \E x, y \in Drags : \E tolerance \in Tolerances : \E computer \in BOOLEAN :
         with_tile_moved(own, <<x, y>>, tolerance, computer)

-----------------------------------------------------------------------------
(* The two computers at a crossing both have it, at the same place of the    *)
(* same edge, though each shows only the computers it paired: the pointer    *)
(* that goes over finds its way back.  A view in which screens overlap has   *)
(* no crossings, so no edit may cover a screen its editor cannot see.        *)
WaysAgree ==
  \A own, peer \in TileKeys :
    own \in Paired[peer] /\ peer \in Paired[own] =>
      {w \in transitions(own) : w.from[1] = own /\ w.to[1] = peer}
        = {[from |-> w.to, to |-> w.from, edge |-> Facing[w.edge], start |-> w.start, end |-> w.end] :
             w \in {v \in transitions(peer) : v.from[1] = peer /\ v.to[1] = own}}

OnlyTile(ts, key) == CHOOSE i \in DOMAIN ts : ts[i].key = key
HasOne(ts, key) == Cardinality({i \in DOMAIN ts : ts[i].key = key}) = 1
Touches(ts, i) == \E j \in DOMAIN ts \ {i} : ts[j].active /\ touching(ts[i], ts[j]) # "none"

(* A computer of one screen that takes a new size keeps a way across: a tile *)
(* that touched another still touches one.                                   *)
ResizeKeepsContact ==
  \A key \in TileKeys :
    HasOne(tiles, key) /\ HasOne(tiles', key) =>
      LET i == OnlyTile(tiles, key) j == OnlyTile(tiles', key) IN
      <<tiles[i].w, tiles[i].h>> # <<tiles'[j].w, tiles'[j].h>> /\ Touches(tiles, i)
        => Touches(tiles', j)
=============================================================================
