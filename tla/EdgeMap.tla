------------------------------- MODULE EdgeMap -------------------------------
(***************************************************************************)
(* Where a pointer that leaves a screen comes out. The computer whose input  *)
(* it is finds the crossing in the arranged, lists the ways off the other      *)
(* computer's screens and routes every one of them, home or on to a third    *)
(* computer (app/handoff.rs, ReturnMapping of desktop.rs). The computer that *)
(* is entered places the pointer and watches the exits it was given          *)
(* (macos/handoff_server.rs, windows/desktop.rs). Positions cross the wire   *)
(* as fractions of an edge, and each side rounds to its own pixels.          *)
(*                                                                         *)
(* A screen is a rectangle of the arranged's plane, with the bounds its        *)
(* desktop gives it in pixels and the displays behind them.                  *)
(***************************************************************************)
EXTENDS Integers, Sequences, FiniteSets, SequencesExt, FiniteSetsExt

CONSTANTS
  Layouts,        \* the arrangements to walk, each a sequence of screens
  MacPeers,       \* the peers that are Macs; the others run Windows
  FRACTION_MAX,   \* fractions go from 0 to this
  DEAD_CORNER,    \* pixels at a corner that do not cross
  MAX_EXITS,      \* most exits in one Prepare
  MaxTransits     \* bound: crossings, hops and returns

ASSUME EdgeMapAssumption ==
  {FRACTION_MAX, MAX_EXITS} \subseteq Nat \ {0} /\ {DEAD_CORNER, MaxTransits} \subseteq Nat

VARIABLES
  arranged,   \* Handoff.layout
  reachable,  \* the peers input can go to now
  handoff,    \* the crossing: a Handoff, or NoHandoff at home
  watched,    \* the exits the other computer was given
  transit,    \* the last move from screen to screen
  refused,    \* requests and reports that were turned down
  transits

edgeMapVars == <<arranged, reachable, handoff, watched, transit, refused, transits>>

-----------------------------------------------------------------------------
(* Rectangles and edges. A point of an edge is told by its place along it.   *)
Edges == {"left", "right", "top", "bottom"}
opposite(e) == [left |-> "right", right |-> "left", top |-> "bottom", bottom |-> "top"][e]
Upright(e) == e \in {"left", "right"}
LowOf(r, e) == IF Upright(e) THEN r.y ELSE r.x
SpanOf(r, e) == IF Upright(e) THEN r.h ELSE r.w
side(r, e) ==
  CASE e = "left" -> r.x [] e = "right" -> r.x + r.w [] e = "top" -> r.y [] e = "bottom" -> r.y + r.h
Holds(r, p) == p.x \in r.x..(r.x + r.w - 1) /\ p.y \in r.y..(r.y + r.h - 1)

Clamped(v, low, high) == IF v < low THEN low ELSE IF v > high THEN high ELSE v
Rounded(n, d) == (2 * n + d) \div (2 * d)
Ceiling(n, d) == (n + d - 1) \div d
Nearest(S, v) == CHOOSE s \in S : \A t \in S : (IF s > v THEN s - v ELSE v - s) <= (IF t > v THEN t - v ELSE v - t)

(* The point `inset` pixels in from the edge of `r`, at `along`.             *)
InFrom(r, e, along, inset) ==
  CASE e = "left" -> [x |-> r.x + inset, y |-> along]
    [] e = "right" -> [x |-> r.x + r.w - 1 - inset, y |-> along]
    [] e = "top" -> [x |-> along, y |-> r.y + inset]
    [] e = "bottom" -> [x |-> along, y |-> r.y + r.h - 1 - inset]
Inset(r, e) ==
  LET across == IF Upright(e) THEN r.w ELSE r.h IN IF (across - 1) \div 2 < 3 THEN (across - 1) \div 2 ELSE 3

-----------------------------------------------------------------------------
(* Layout::transitions: where a screen touches one of another computer.      *)
Ours == "here"
touches(a, b, e) == side(a.plane, e) = side(b.plane, opposite(e))
TouchedEdge(a, b) ==
  CASE touches(a, b, "right") -> {"right"} [] touches(a, b, "left") -> {"left"}
    [] touches(a, b, "bottom") -> {"bottom"} [] touches(a, b, "top") -> {"top"} [] OTHER -> {}
Overlap(a, b, e) ==
  [lo |-> Max({LowOf(a.plane, e), LowOf(b.plane, e)}),
   hi |-> Min({LowOf(a.plane, e) + SpanOf(a.plane, e), LowOf(b.plane, e) + SpanOf(b.plane, e)})]

transitions ==
  {t \in {[source |-> s, target |-> u, edge |-> e,
           lo |-> Overlap(arranged[s], arranged[u], e).lo, hi |-> Overlap(arranged[s], arranged[u], e).hi] :
            s \in DOMAIN arranged, u \in DOMAIN arranged, e \in Edges} :
     /\ arranged[t.source].peer # arranged[t.target].peer
     /\ t.edge \in TouchedEdge(arranged[t.source], arranged[t.target])
     /\ t.lo < t.hi}
Before(t, u) == t.source < u.source \/ (t.source = u.source /\ t.target < u.target)
FirstOf(ts) == CHOOSE t \in ts : \A u \in ts : u = t \/ Before(t, u)

(* A place of the plane, `n` over `d`, as a fraction of a screen's edge.     *)
AsFraction(n, d, k, e) ==
  Clamped(Rounded(FRACTION_MAX * (n - LowOf(arranged[k].plane, e) * d), d * SpanOf(arranged[k].plane, e)),
          0, FRACTION_MAX)
StartOf(t, k) == AsFraction(t.lo, 1, k, t.edge)
EndOf(t, k) == AsFraction(t.hi, 1, k, t.edge)

-----------------------------------------------------------------------------
(* ReturnMapping: a screen here, its edge, the screen across it, and the     *)
(* stretch of the plane they share.                                          *)
Mapping(local, edge, remote, lo, hi) ==
  [local |-> local, edge |-> edge, remote |-> remote, lo |-> lo, hi |-> hi]

(* ReturnMapping::fraction: from a pixel here to a fraction there.           *)
fraction(m, along) ==
  LET here == arranged[m.local]
      span == SpanOf(here.px, m.edge)
      plane == LowOf(here.plane, m.edge) * span
                 + (along - LowOf(here.px, m.edge)) * SpanOf(here.plane, m.edge)
  IN  AsFraction(Clamped(plane, m.lo * span, m.hi * span), span, m.remote, m.edge)

Takes(m, position) ==
  position \in AsFraction(m.lo, 1, m.remote, m.edge)..AsFraction(m.hi, 1, m.remote, m.edge)

(* edge_point and the display nearest to it, along an edge of the bounds.    *)
edge_point(k, e, n, d) ==
  LET b == arranged[k].px
  IN  LowOf(b, e) + Clamped(Rounded(n * SpanOf(b, e), d), 0, SpanOf(b, e) - 1)
Behind(k, e) == {r \in arranged[k].displays : Holds(r, InFrom(arranged[k].px, e, LowOf(r, e), Inset(arranged[k].px, e)))}
Pulled(k, e, along) ==
  Nearest({Clamped(along, LowOf(r, e), LowOf(r, e) + SpanOf(r, e) - 1) : r \in Behind(k, e)}, along)

(* ReturnMapping::position: from a fraction there to a pixel here.           *)
(* Mutant: as if the two screens' edges were one.                            *)
position_Own(m, f) ==
  Pulled(m.local, m.edge,
         edge_point(m.local, m.edge, f * SpanOf(arranged[m.local].px, m.edge),
                    FRACTION_MAX * SpanOf(arranged[m.local].px, m.edge)))
position(m, f) ==
  LET here == arranged[m.local]
      there == arranged[m.remote]
      plane == Clamped(LowOf(there.plane, m.edge) * FRACTION_MAX + f * SpanOf(there.plane, m.edge),
                       m.lo * FRACTION_MAX, m.hi * FRACTION_MAX)
  IN  Pulled(m.local, m.edge,
             edge_point(m.local, m.edge, plane - LowOf(here.plane, m.edge) * FRACTION_MAX,
                        FRACTION_MAX * SpanOf(here.plane, m.edge)))

-----------------------------------------------------------------------------
(* routes: every way off the peer's screens, the ways home first.            *)
Route(t) == [source |-> t.source, target |-> t.target, edge |-> t.edge, lo |-> t.lo, hi |-> t.hi,
             start |-> StartOf(t, t.source), end |-> EndOf(t, t.source)]
Home(r) == arranged[r.target].peer = Ours
RouteBefore(r, q) == (Home(r) /\ ~Home(q)) \/ (Home(r) = Home(q) /\ Before(r, q))
routes(peer) ==
  LET all == {r \in {Route(t) : t \in {t \in transitions : arranged[t.source].peer = peer}} : r.start < r.end}
  IN  [n \in 1..Min({MAX_EXITS, Cardinality(all)}) |->
         CHOOSE r \in all : Cardinality({q \in all : RouteBefore(q, r)}) = n - 1]

keep_routes(rs) == SelectSeq(rs, LAMBDA r : Home(r) \/ arranged[r.target].peer \in reachable)

(* entering: the crossing onto a screen, at a fraction of the edge it is     *)
(* entered by. A hop keeps where the first crossing left this computer.      *)
entering(t, f, mapping, origin) ==
  [peer |-> arranged[t.target].peer, screen |-> t.target, edge |-> opposite(t.edge),
   start |-> StartOf(t, t.target), end |-> EndOf(t, t.target), position |-> f,
   mapping |-> mapping, origin |-> origin,
   routes |-> keep_routes(routes(arranged[t.target].peer))]

NoHandoff == [peer |-> Ours]

-----------------------------------------------------------------------------
(* The computer that is entered. ArmedEdge::new rounds the range inward.     *)
Segments(k, e, start, end) ==
  LET b == arranged[k].px
      first == LowOf(b, e) + Ceiling(start * SpanOf(b, e), FRACTION_MAX)
      last == LowOf(b, e) + (end * SpanOf(b, e)) \div FRACTION_MAX
  IN  {s \in {[start |-> Max({LowOf(r, e), first}), end |-> Min({LowOf(r, e) + SpanOf(r, e), last})] :
                r \in {r \in arranged[k].displays : side(r, e) = side(b, e)}} : s.end > s.start}

(* ArmedEdge::entry and entry of windows/desktop.rs, which maps the range    *)
(* onto itself: the pixel the pointer is placed at, or none.                 *)
MacEntry(h) ==
  LET b == arranged[h.screen].px
      wanted == LowOf(b, h.edge) + (h.position * SpanOf(b, h.edge)) \div FRACTION_MAX
      along == {Clamped(wanted, s.start, s.end - 1) : s \in Segments(h.screen, h.edge, h.start, h.end)}
  IN  IF along = {} THEN {} ELSE {Nearest(along, wanted)}
WindowsEntry(h) ==
  IF Behind(h.screen, h.edge) = {} THEN {}
  ELSE {Pulled(h.screen, h.edge, edge_point(h.screen, h.edge, h.position, FRACTION_MAX))}
entry(h) == IF h.peer \in MacPeers THEN MacEntry(h) ELSE WindowsEntry(h)

(* DesktopRequest::validate.                                                 *)
Valid(h) ==
  /\ h.start < h.end /\ h.end <= FRACTION_MAX /\ h.position \in h.start..h.end
  /\ Len(h.routes) <= MAX_EXITS
  /\ \A k \in DOMAIN h.routes : h.routes[k].start < h.routes[k].end /\ h.routes[k].end <= FRACTION_MAX

Ranged(f, x) == f \in x.start..x.end

(* at_edge: what is reported of a pointer on the outermost pixels of an      *)
(* exit's edge, if the exit's range holds it.                                *)
Reported(x, along) ==
  LET b == arranged[x.source].px
      f == Rounded((along - LowOf(b, x.edge)) * FRACTION_MAX, SpanOf(b, x.edge))
  IN  IF arranged[x.source].peer \in MacPeers
      THEN IF \E s \in Segments(x.source, x.edge, x.start, x.end) : along \in s.start..(s.end - 1)
           THEN {Clamped(f, x.start, x.end)} ELSE {}
      ELSE IF Ranged(f, x) THEN {f} ELSE {}

-----------------------------------------------------------------------------
EdgeMapInit ==
  /\ arranged \in Layouts /\ reachable \in SUBSET {arranged[k].peer : k \in DOMAIN arranged} \ {{}}
  /\ Ours \in reachable
  /\ handoff = NoHandoff /\ watched = <<>>
  /\ transit = [how |-> "none"] /\ refused = {} /\ transits = 0

Transits(how, k, e, along, u, by, v) ==
  transit' = [how |-> how, from |-> k, edge |-> e, at |-> along, to |-> u, by |-> by, lands |-> v,
              left |-> IF how = "cross" THEN [screen |-> k, edge |-> e, at |-> along] ELSE transit.left]

(* Handoff::prepare lists the exits the source routes, in its order.         *)
Listed(h) == h.routes

(* A Prepare, where the other computer takes it.                             *)
Prepare(h, how, k, e, along) ==
  IF ~Valid(h)
  THEN refused' = refused \cup {"prepare"} /\ UNCHANGED <<handoff, watched, transit>>
  ELSE IF entry(h) = {}
       THEN refused' = refused \cup {"no display"} /\ UNCHANGED <<handoff, watched, transit>>
       ELSE /\ handoff' = h /\ watched' = Listed(h) /\ UNCHANGED refused
            /\ \E v \in entry(h) : Transits(how, k, e, along, h.screen, h.edge, v)

(* reaching and handoff_at: a pointer that comes to an edge here, clear of   *)
(* the corners, where the arranged puts another computer.                      *)
Reaches(t, along) ==
  LET a == arranged[t.source]
      offset == along - LowOf(a.px, t.edge)
      span == SpanOf(a.px, t.edge)
      place == LowOf(a.plane, t.edge) * span + offset * SpanOf(a.plane, t.edge)
  IN  /\ a.peer = Ours
      /\ offset >= DEAD_CORNER /\ offset < span - DEAD_CORNER
      /\ place >= t.lo * span /\ place < t.hi * span

Cross(ts, k, e, along) ==
  /\ handoff = NoHandoff /\ transits < MaxTransits
  /\ arranged[k].peer = Ours
  /\ LET found == {t \in ts : t.source = k /\ t.edge = e /\ Reaches(t, along)}
     IN  /\ found # {}
         /\ LET t == FirstOf(found)
                m == Mapping(k, e, t.target, t.lo, t.hi)
                f == fraction(m, along)
            IN  /\ arranged[t.target].peer \in reachable
                /\ Prepare(entering(t, f, m, f), "cross", k, e, along)
  /\ transits' = transits + 1
  /\ UNCHANGED <<arranged, reachable>>

(* Handoff::next, for a report of the exit `x` of those it was given.        *)
ComesHome(how, k, e, along, m, f) ==
  IF Takes(m, f)
  THEN /\ handoff' = NoHandoff /\ watched' = <<>> /\ UNCHANGED refused
       /\ Transits(how, k, e, along, m.local, m.edge, position(m, f))
  ELSE refused' = refused \cup {"position"} /\ UNCHANGED <<handoff, watched, transit>>

next(x, f, k, e, along) ==
  LET r == handoff.routes[x]
      m == Mapping(r.target, opposite(r.edge), r.source, r.lo, r.hi)
      place == Clamped(LowOf(arranged[r.source].plane, r.edge) * FRACTION_MAX
                         + f * SpanOf(arranged[r.source].plane, r.edge),
                       r.lo * FRACTION_MAX, r.hi * FRACTION_MAX)
  IN  IF x \notin DOMAIN handoff.routes \/ f \notin r.start..r.end
      THEN refused' = refused \cup {"exit"} /\ UNCHANGED <<handoff, watched, transit>>
      ELSE IF Home(r)
           THEN ComesHome("home", k, e, along, m, f)
           ELSE IF arranged[r.target].peer \in reachable
                THEN Prepare(entering(r, AsFraction(place, FRACTION_MAX, r.target, r.edge),
                                      handoff.mapping, handoff.origin), "hop", k, e, along)
                ELSE UNCHANGED <<handoff, watched, transit, refused>>

(* The pointer reaches an exit's edge of the computer it is on. Where two    *)
(* exits meet, the first one is reported. A peer that went away keeps it.    *)
Leave(x, along) ==
  /\ handoff # NoHandoff /\ transits < MaxTransits /\ x \in DOMAIN watched
  /\ \A y \in 1..(x - 1) :
       watched[y].source = watched[x].source /\ watched[y].edge = watched[x].edge
         => Reported(watched[y], along) = {}
  /\ \E f \in Reported(watched[x], along) : next(x, f, watched[x].source, watched[x].edge, along)
  /\ transits' = transits + 1
  /\ UNCHANGED <<arranged, reachable>>

(* The crossing ends by itself: Handoff::home.                               *)
Finish ==
  /\ handoff # NoHandoff /\ transits < MaxTransits
  /\ ComesHome("end", handoff.screen, handoff.edge, transit.lands, handoff.mapping, handoff.origin)
  /\ transits' = transits + 1
  /\ UNCHANGED <<arranged, reachable>>

GoesAway(p) ==
  /\ p \in reachable \ {Ours} /\ reachable' = reachable \ {p}
  /\ UNCHANGED <<arranged, handoff, watched, transit, refused, transits>>

Pixels(k, e) == LowOf(arranged[k].px, e)..(LowOf(arranged[k].px, e) + SpanOf(arranged[k].px, e) - 1)

EdgeMapNext ==
  \/ \E ts \in {transitions} : \E t \in ts : \E along \in Pixels(t.source, t.edge) :
       Cross(ts, t.source, t.edge, along)
  \/ \E x \in DOMAIN watched : \E along \in Pixels(watched[x].source, watched[x].edge) : Leave(x, along)
  \/ Finish
  \/ \E p \in reachable : GoesAway(p)

-----------------------------------------------------------------------------
EdgeMapTypeOK ==
  /\ arranged \in Layouts /\ Ours \in reachable /\ reachable \subseteq {arranged[k].peer : k \in DOMAIN arranged}
  /\ handoff.peer = Ours \/ (handoff.screen \in DOMAIN arranged /\ handoff.position \in 0..FRACTION_MAX)
  /\ Len(watched) <= MAX_EXITS
  /\ refused \subseteq {"prepare", "no display", "position", "exit"} /\ transits \in 0..MaxTransits

(* The place of the plane a pixel of an edge stands at, over the pixels of   *)
(* that edge, and how much of the plane a pixel covers.                      *)
PlaceOf(k, e, along) ==
  [n |-> LowOf(arranged[k].plane, e) * SpanOf(arranged[k].px, e)
           + (along - LowOf(arranged[k].px, e)) * SpanOf(arranged[k].plane, e),
   d |-> SpanOf(arranged[k].px, e)]
Whole(k) == Cardinality(arranged[k].displays) = 1

(* Apart by no more than a pixel on either side and a step of a fraction.    *)
Beside(k, e, along, u, v) ==
  LET a == PlaceOf(k, e, along)
      b == PlaceOf(u, e, v)
      apart == a.n * b.d - b.n * a.d
      slack == SpanOf(arranged[k].plane, e) * b.d + SpanOf(arranged[u].plane, e) * a.d
                 + (a.d * b.d * SpanOf(arranged[u].plane, e)) \div FRACTION_MAX + 1
  IN  apart \in -slack..slack

(* A pointer that leaves a screen comes out where the arranged shows the       *)
(* screen it touches there, on the way out, on every hop and on the way      *)
(* home, whatever the two screens' sizes and however the arranged is split.    *)
LandsAcross ==
  transit.how \in {"cross", "hop", "home"} /\ Whole(transit.to) =>
    /\ transit.edge \in TouchedEdge(arranged[transit.from], arranged[transit.to])
    /\ Beside(transit.from, transit.edge, transit.at, transit.to, transit.lands)

(* A crossing that ends without a way home puts the pointer back where it    *)
(* left this computer, however many computers it went through.               *)
EndsWhereItLeft ==
  transit.how = "end" /\ Whole(transit.to) =>
    /\ transit.to = transit.left.screen
    /\ Beside(transit.to, transit.left.edge, transit.left.at, transit.to, transit.lands)

(* It always comes out on a display.                                         *)
LandsOnScreen ==
  transit.how # "none" =>
    \E r \in arranged[transit.to].displays :
      transit.lands \in LowOf(r, transit.by)..(LowOf(r, transit.by) + SpanOf(r, transit.by) - 1)

(* No computer turns down what the other one's geometry made: a Prepare is   *)
(* valid, and every exit that is reported is one the source knows, at a      *)
(* position it takes.                                                        *)
NothingIsRefused == refused \subseteq {"no display"}
=============================================================================
