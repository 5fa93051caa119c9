------------------------- MODULE SharedLayoutProofs -------------------------
(***************************************************************************)
(* Proof that computers which share their layout come to keep layouts of one *)
(* name: whatever is kept is on its way to every connected computer or known *)
(* there, and what bears a name no editor has forgotten is one layout.       *)
(***************************************************************************)
EXTENDS PlumbingProofs

-----------------------------------------------------------------------------
AllLayouts == [version : Nat, editor : Nat, shows : Nat]
LayoutTasks == [layout : AllLayouts, from : Computers \cup {0}]

(* What is on its way in a queue.                                            *)
Elements(s) == {s[i] : i \in 1..Len(s)}

at_least(l, m) == l.version > m.version \/ (l.version = m.version /\ l.editor >= m.editor)

(* What the variables of the shared layout range over.                       *)
LayoutTypes ==
  /\ layout \in [Computers -> AllLayouts] /\ stored \in [Computers -> AllLayouts]
  /\ computed \in [Computers -> SUBSET LayoutTasks] /\ unsaved \in [Computers -> SUBSET LayoutTasks]
  /\ carried \in [Computers -> [Computers -> Seq(AllLayouts)]]
  /\ edits \in Nat /\ breaks \in Nat

(* No computer keeps, saves or is about to save an older layout than the one  *)
(* it started with, and so forgets that one when it restarts unsaved.        *)
Lasting(c, l) == at_least(l, FirstLayout(c, 0))

FirstInv ==
  \A c \in Computers :
    /\ Lasting(c, layout[c]) /\ (stored[c] = NoLayout \/ Lasting(c, stored[c]))
    /\ \A t \in unsaved[c] : Lasting(c, t.layout)

(* A layout that some computer keeps, saved, is about to save or to keep for  *)
(* another, or that a session carries; what a computer computed itself is    *)
(* nobody's before it is kept.                                               *)
Present(l) ==
  \E c \in Computers :
    \/ l = layout[c] \/ l = stored[c]
    \/ \E t \in unsaved[c] : l = t.layout
    \/ \E t \in computed[c] : t.from # c /\ l = t.layout
    \/ \E d \in Computers : l \in Elements(carried[c][d])

Named(l) ==
  /\ l.editor = 0 => l = NoLayout
  /\ l.editor # 0 => l.editor \in Computers /\ (NameOf(l) \in twice \/ at_least(layout[l.editor], l))

(* Version and editor name one layout in the whole system, and the editor of  *)
(* a layout keeps one that is no older, but for the names given twice.       *)
NamesInv ==
  /\ \A l \in AllLayouts : Present(l) => Named(l)
  /\ \A l, m \in AllLayouts :
       Present(l) /\ Present(m) /\ NameOf(l) = NameOf(m) => l = m \/ NameOf(l) \in twice

(* Nothing on its way from c to d is newer than what c keeps, and their       *)
(* session lasts.                                                            *)
SentBy(c, d, l) == {c, d} \in linked /\ at_least(layout[c], l)

(* A task keeps what its computer edited, or what a session brought; Windows  *)
(* has none.                                                                 *)
Brought(c, t) ==
  /\ c \in Linux \cup Macs
  /\ \/ t.from = c /\ t.layout.editor = c
     \/ t.from # c /\ t.from = 0
     \/ t.from # c /\ t.from \in Computers /\ SentBy(t.from, c, t.layout)

NoNewerInv ==
  /\ \A c \in Computers : {c, c} \notin linked
  /\ owed \subseteq LinkedPairs
  /\ \A c, d \in Computers : \A l \in Elements(carried[c][d]) : SentBy(c, d, l)
  /\ \A c \in Computers : \A t \in computed[c] : Brought(c, t)

(* What c keeps is owed to d, withheld from it, owed to it once saved, on its *)
(* way to it or about to be kept there, or d keeps one as new.               *)
Withheld(c, d) == <<c, d>> \in untold
Unsent(c, d) == c \in Linux /\ \E t \in unsaved[c] : t.from # d

Conveyed(c, d) ==
  \/ <<c, d>> \in owed \/ Withheld(c, d) \/ Unsent(c, d)
  \/ at_least(layout[d], layout[c])
  \/ \E l \in Elements(carried[c][d]) : at_least(l, layout[c])
  \/ \E t \in computed[d] : at_least(t.layout, layout[c])

FlowInv == \A c, d \in Computers : {c, d} \in linked => Conveyed(c, d)

(* The inductive invariant of the shared layout.                             *)
LayoutInv == LayoutTypes /\ FirstInv /\ NamesInv /\ NoNewerInv /\ FlowInv

(* It holds in the behaviours that run that part.                            *)
LayoutHolds == part = "Layouts" => LayoutInv

(* Computers are numbered from one; zero names nobody.                       *)
LEMMA ComputersAreNumbered == Computers \subseteq Nat /\ 0 \notin Computers
  BY SharedLayoutAssumption DEF Computers

(* What an empty queue, a longer one and its tail carry.                     *)
LEMMA ElementsOfNone == Elements(<<>>) = {}
  BY DEF Elements

LEMMA ElementsOfAppend ==
  ASSUME NEW S, NEW s \in Seq(S), NEW e \in S
  PROVE  Append(s, e) \in Seq(S) /\ Elements(Append(s, e)) = Elements(s) \cup {e}
  <1> DEFINE t == Append(s, e)
  <1>1. /\ t \in Seq(S) /\ Len(t) = Len(s) + 1 /\ Len(s) \in Nat
        /\ \A i \in 1..Len(s) : t[i] = s[i]
        /\ t[Len(s) + 1] = e
    BY AppendProperties, LenProperties
  <1>2. ASSUME NEW x \in Elements(t) PROVE x \in Elements(s) \cup {e}
    <2>1. PICK i \in 1..(Len(s) + 1) : x = t[i]
      BY <1>1, <1>2 DEF Elements
    <2> QED  BY <1>1, <2>1 DEF Elements
  <1>3. ASSUME NEW x \in Elements(s) \cup {e} PROVE x \in Elements(t)
    <2>1. CASE x = e
      BY <1>1, <2>1 DEF Elements
    <2>2. CASE x \in Elements(s)
      BY <1>1, <2>2 DEF Elements
    <2> QED  BY <1>3, <2>1, <2>2
  <1> QED  BY <1>1, <1>2, <1>3

LEMMA ElementsOfTail ==
  ASSUME NEW S, NEW s \in Seq(S), s # <<>>
  PROVE  Tail(s) \in Seq(S) /\ Head(s) \in S /\ Elements(s) = {Head(s)} \cup Elements(Tail(s))
  <1>1. /\ Head(s) \in S /\ Tail(s) \in Seq(S) /\ Len(Tail(s)) = Len(s) - 1 /\ Head(s) = s[1]
        /\ Len(s) \in Nat /\ Len(s) >= 1 /\ \A i \in 1..Len(Tail(s)) : Tail(s)[i] = s[i + 1]
    BY HeadTailProperties, EmptySeq, LenProperties
  <1>2. ASSUME NEW x \in Elements(s) PROVE x \in {Head(s)} \cup Elements(Tail(s))
    <2>1. PICK i \in 1..Len(s) : x = s[i]
      BY <1>2 DEF Elements
    <2>2. CASE i # 1
      <3>1. i - 1 \in 1..Len(Tail(s)) /\ x = Tail(s)[i - 1]
        BY <1>1, <2>1, <2>2
      <3> QED  BY <3>1 DEF Elements
    <2> QED  BY <1>1, <2>1, <2>2
  <1>3. ASSUME NEW x \in {Head(s)} \cup Elements(Tail(s)) PROVE x \in Elements(s)
    <2>1. CASE x = Head(s)
      BY <1>1, <2>1 DEF Elements
    <2>2. CASE x \in Elements(Tail(s))
      <3>1. PICK i \in 1..Len(Tail(s)) : x = Tail(s)[i]
        BY <2>2 DEF Elements
      <3>2. i + 1 \in 1..Len(s) /\ x = s[i + 1]
        BY <1>1, <3>1
      <3> QED  BY <3>2 DEF Elements
    <2> QED  BY <1>3, <2>1, <2>2
  <1> QED  BY <1>1, <1>2, <1>3

(* A layout that is not newer is no newer than the one it is compared with,   *)
(* and being as new is transitive.                                           *)
LEMMA LayoutsAreOrdered ==
  /\ \A l, m \in AllLayouts : is_newer_than(l, m) => at_least(l, m)
  /\ \A l, m \in AllLayouts : ~is_newer_than(l, m) => at_least(m, l)
  /\ \A l \in AllLayouts : at_least(l, l) /\ at_least(l, NoLayout)
  /\ \A l, m, n \in AllLayouts : at_least(l, m) /\ at_least(m, n) => at_least(l, n)
  BY DEF AllLayouts, is_newer_than, at_least, NoLayout

(* What a computer starts with is a layout.                                  *)
LEMMA FirstIsLayout ==
  /\ NoLayout \in AllLayouts
  /\ \A c \in Computers : \A n \in Nat : FirstLayout(c, n) \in AllLayouts
  /\ \A c \in Computers : \A n \in Nat : Lasting(c, FirstLayout(c, n))
  BY ComputersAreNumbered DEF NoLayout, FirstLayout, AllLayouts, Lasting, at_least

(* A step after which every computer keeps a layout no older than before.    *)
LayoutsGrow ==
  (\A x \in Computers : at_least(layout'[x], layout[x])) /\ twice \subseteq twice'

(* What a step saves was to be saved or is as new as what is kept, and what   *)
(* it leaves to be saved was there or is as new.                             *)
SavesLast ==
  \A x \in Computers :
    /\ \/ stored'[x] = stored[x] \/ at_least(stored'[x], layout[x])
       \/ \E t \in unsaved[x] : stored'[x] = t.layout
    /\ \A t \in unsaved'[x] : t \in unsaved[x] \/ at_least(t.layout, layout[x])

LEMMA FirstStays ==
  ASSUME LayoutTypes, LayoutTypes', FirstInv, LayoutsGrow, SavesLast
  PROVE  FirstInv'
  <1> SUFFICES ASSUME NEW c \in Computers
               PROVE  /\ Lasting(c, layout'[c]) /\ (stored'[c] = NoLayout \/ Lasting(c, stored'[c]))
                      /\ \A t \in unsaved'[c] : Lasting(c, t.layout)
    BY DEF FirstInv, Lasting, FirstLayout, NoLayout
  <1>1. /\ layout[c] \in AllLayouts /\ layout'[c] \in AllLayouts /\ stored'[c] \in AllLayouts
        /\ FirstLayout(c, 0) \in AllLayouts
        /\ \A t \in unsaved'[c] : t.layout \in AllLayouts
    BY FirstIsLayout DEF LayoutTypes, LayoutTasks
  <1>2. \A l \in AllLayouts : at_least(l, layout[c]) => Lasting(c, l)
    <2>1. at_least(layout[c], FirstLayout(c, 0))
      BY DEF FirstInv, Lasting
    <2> QED  BY <1>1, <2>1, LayoutsAreOrdered DEF Lasting
  <1>3. Lasting(c, layout'[c])
    BY <1>1, <1>2 DEF LayoutsGrow
  <1>4. stored'[c] = NoLayout \/ Lasting(c, stored'[c])
    BY <1>1, <1>2 DEF SavesLast, FirstInv
  <1>5. \A t \in unsaved'[c] : Lasting(c, t.layout)
    BY <1>1, <1>2 DEF SavesLast, FirstInv
  <1> QED  BY <1>3, <1>4, <1>5

(* A layout joins the system: it was there already, or its editor made it    *)
(* newer than the one it kept, or its name is one that may be given twice.   *)
Joins(l) ==
  /\ \A m \in AllLayouts : Present(m)' => Present(m) \/ m = l
  /\ \/ Present(l)
     \/ l.editor \in Computers /\ NameOf(l) \in twice'
     \/ l.editor \in Computers /\ layout'[l.editor] = l /\ is_newer_than(l, layout[l.editor])

LEMMA NamesStay ==
  ASSUME LayoutTypes, LayoutTypes', NamesInv, LayoutsGrow, NEW l \in AllLayouts, Joins(l)
  PROVE  NamesInv'
  <1> HIDE DEF Present
  <1>1. ASSUME NEW m \in AllLayouts, Present(m) PROVE Named(m)'
    <2>1. ASSUME m.editor # 0 PROVE m.editor \in Computers /\ (NameOf(m) \in twice' \/ at_least(layout'[m.editor], m))
      <3>1. m.editor \in Computers /\ (NameOf(m) \in twice \/ at_least(layout[m.editor], m))
        BY <1>1, <2>1 DEF NamesInv, Named
      <3>2. CASE NameOf(m) \in twice
        BY <3>1, <3>2 DEF LayoutsGrow
      <3>3. CASE at_least(layout[m.editor], m)
        <4>1. layout[m.editor] \in AllLayouts /\ layout'[m.editor] \in AllLayouts
          BY <3>1 DEF LayoutTypes
        <4>2. at_least(layout'[m.editor], layout[m.editor])
          BY <3>1 DEF LayoutsGrow
        <4> QED  BY <3>1, <3>3, <4>1, <4>2, LayoutsAreOrdered
      <3> QED  BY <3>1, <3>2, <3>3
    <2>2. m.editor = 0 => m = NoLayout
      BY <1>1 DEF NamesInv, Named
    <2> QED  BY <2>1, <2>2 DEF Named, NoLayout, NameOf
  <1>2. Named(l)'
    <2>1. CASE Present(l)
      BY <1>1, <2>1
    <2>2. CASE l.editor \in Computers /\ NameOf(l) \in twice'
      BY <2>2, ComputersAreNumbered DEF Named, NameOf
    <2>3. CASE l.editor \in Computers /\ layout'[l.editor] = l
      <3>1. at_least(layout'[l.editor], l)
        BY <2>3, LayoutsAreOrdered
      <3> QED  BY <2>3, <3>1, ComputersAreNumbered DEF Named, NameOf
    <2> QED  BY <2>1, <2>2, <2>3 DEF Joins
  <1>3. \A m \in AllLayouts : Present(m)' => Named(m)'
    BY <1>1, <1>2 DEF Joins
  <1>4. ASSUME NEW m \in AllLayouts, Present(m), NameOf(m) = NameOf(l), m # l PROVE NameOf(l) \in twice'
    <2>1. CASE Present(l)
      BY <1>4, <2>1 DEF NamesInv, LayoutsGrow
    <2>2. CASE l.editor \in Computers /\ layout'[l.editor] = l /\ is_newer_than(l, layout[l.editor])
      <3>1. m.version = l.version /\ m.editor = l.editor /\ l.editor # 0
        BY <1>4, <2>2, ComputersAreNumbered DEF NameOf
      <3>2. NameOf(m) \in twice \/ at_least(layout[l.editor], m)
        BY <1>4, <3>1 DEF NamesInv, Named
      <3>3. ~at_least(layout[l.editor], m)
        BY <2>2, <3>1 DEF is_newer_than, at_least, LayoutTypes, AllLayouts
      <3> QED  BY <1>4, <3>2, <3>3 DEF LayoutsGrow
    <2> QED  BY <2>1, <2>2 DEF Joins
  <1>5. ASSUME NEW m \in AllLayouts, NEW n \in AllLayouts, Present(m)', Present(n)', NameOf(m) = NameOf(n), m # n
        PROVE  NameOf(m) \in twice'
    <2>1. (Present(m) \/ m = l) /\ (Present(n) \/ n = l)
      BY <1>5 DEF Joins
    <2>2. CASE Present(m) /\ Present(n)
      BY <1>5, <2>2 DEF NamesInv, LayoutsGrow
    <2> QED  BY <1>4, <1>5, <2>1, <2>2
  <1> QED  BY <1>3, <1>5 DEF NamesInv, NameOf

(* What a step sends and computes: nothing is newer than what its sender      *)
(* keeps then.                                                               *)
SendsOwn ==
  /\ linked \subseteq linked' /\ \A x \in Computers : {x, x} \notin linked'
  /\ \A x, y \in Computers : <<x, y>> \in owed' => {x, y} \in linked'
  /\ owed' \subseteq Computers \X Computers
  /\ \A x, y \in Computers : \A l \in Elements(carried'[x][y]) : l \in Elements(carried[x][y]) \/ SentBy(x, y, l)'
  /\ \A x \in Computers : \A t \in computed'[x] : t \in computed[x] \/ Brought(x, t)'

LEMMA BackStays ==
  ASSUME LayoutTypes, LayoutTypes', NoNewerInv, LayoutsGrow, SendsOwn
  PROVE  NoNewerInv'
  <1> HIDE DEF Elements
  <1>1. ASSUME NEW x \in Computers, NEW y \in Computers, NEW l \in AllLayouts, SentBy(x, y, l)
        PROVE  SentBy(x, y, l)'
    <2>1. layout[x] \in AllLayouts /\ layout'[x] \in AllLayouts
      BY DEF LayoutTypes
    <2>2. at_least(layout'[x], l)
      BY <1>1, <2>1, LayoutsAreOrdered DEF SentBy, LayoutsGrow
    <2> QED  BY <1>1, <2>2 DEF SentBy, SendsOwn, at_least
  <1>2. ASSUME NEW x \in Computers, NEW y \in Computers, NEW l \in Elements(carried'[x][y])
        PROVE  SentBy(x, y, l)'
    <2>1. CASE l \in Elements(carried[x][y])
      <3>1. carried[x][y] \in Seq(AllLayouts)
        BY DEF LayoutTypes
      <3>2. l \in AllLayouts
        BY <2>1, <3>1 DEF Elements
      <3> QED  BY <1>1, <2>1, <3>2 DEF NoNewerInv
    <2> QED  BY <1>2, <2>1 DEF SendsOwn
  <1>3. ASSUME NEW x \in Computers, NEW t \in computed'[x] PROVE Brought(x, t)'
    <2>1. CASE t \in computed[x]
      <3>1. Brought(x, t) /\ t.layout \in AllLayouts
        BY <2>1 DEF NoNewerInv, LayoutTypes, LayoutTasks
      <3>2. t.from # x /\ t.from \in Computers /\ SentBy(t.from, x, t.layout) => SentBy(t.from, x, t.layout)'
        BY <1>1, <3>1
      <3> QED  BY <3>1, <3>2 DEF Brought, SentBy
    <2> QED  BY <1>3, <2>1 DEF SendsOwn
  <1>4. owed' \subseteq LinkedPairs'
    BY DEF SendsOwn, LinkedPairs
  <1> QED  BY <1>2, <1>3, <1>4 DEF NoNewerInv, SendsOwn

(* Between two computers of which the first keeps its layout, nothing that    *)
(* brings it is dropped but for something that does.                         *)
Passes(c, d) ==
  /\ <<c, d>> \in owed => <<c, d>> \in owed' \/ layout[c] \in Elements(carried'[c][d]) \/ layout[c] = NoLayout
  /\ Withheld(c, d) => Withheld(c, d)' \/ <<c, d>> \in owed'
  /\ Unsent(c, d) => Unsent(c, d)' \/ <<c, d>> \in owed'
  /\ \A l \in Elements(carried[c][d]) :
       \/ l \in Elements(carried'[c][d]) \/ at_least(layout'[d], l)
       \/ \E t \in computed'[d] : t.layout = l
  /\ \A t \in computed[d] : at_least(layout'[d], t.layout) \/ \E u \in computed'[d] : u.layout = t.layout

LEMMA ConveyedStays ==
  ASSUME LayoutTypes, LayoutTypes', NEW c \in Computers, NEW d \in Computers,
         layout'[c] = layout[c], at_least(layout'[d], layout[d]), Conveyed(c, d), Passes(c, d)
  PROVE  Conveyed(c, d)'
  <1> HIDE DEF Elements
  <1> DEFINE l == layout[c]
  <1>1. l \in AllLayouts /\ layout[d] \in AllLayouts /\ layout'[d] \in AllLayouts
    BY DEF LayoutTypes
  <1>2. \/ <<c, d>> \in owed' \/ Withheld(c, d)' \/ Unsent(c, d)'
        \/ at_least(layout'[d], layout'[c])
        \/ \E m \in Elements(carried'[c][d]) : at_least(m, layout'[c])
        \/ \E t \in computed'[d] : at_least(t.layout, layout'[c])
    <2>1. CASE <<c, d>> \in owed \/ Withheld(c, d) \/ Unsent(c, d)
      <3>1. at_least(l, l) /\ (l = NoLayout => at_least(layout'[d], l))
        BY <1>1, LayoutsAreOrdered
      <3> QED  BY <2>1, <3>1 DEF Passes
    <2>2. CASE at_least(layout[d], l)
      <3>1. at_least(layout'[d], l)
        BY <1>1, <2>2, LayoutsAreOrdered
      <3> QED  BY <3>1
    <2>3. CASE \E m \in Elements(carried[c][d]) : at_least(m, l)
      <3>1. PICK m \in Elements(carried[c][d]) : at_least(m, l)
        BY <2>3
      <3>2. carried[c][d] \in Seq(AllLayouts)
        BY DEF LayoutTypes
      <3>3. m \in AllLayouts
        BY <3>1, <3>2 DEF Elements
      <3>4. at_least(layout'[d], m) => at_least(layout'[d], l)
        BY <1>1, <3>1, <3>3, LayoutsAreOrdered
      <3> QED  BY <3>1, <3>4 DEF Passes
    <2>4. CASE \E t \in computed[d] : at_least(t.layout, l)
      <3>1. PICK t \in computed[d] : at_least(t.layout, l)
        BY <2>4
      <3>2. t.layout \in AllLayouts
        BY <3>1 DEF LayoutTypes, LayoutTasks
      <3>3. at_least(layout'[d], t.layout) => at_least(layout'[d], l)
        BY <1>1, <3>1, <3>2, LayoutsAreOrdered
      <3> QED  BY <3>1, <3>3 DEF Passes
    <2> QED  BY <2>1, <2>2, <2>3, <2>4 DEF Conveyed
  <1> QED  BY <1>2 DEF Conveyed

(* What a step of one computer's leaves of the layouts kept, or of all.      *)
LEMMA LayoutsKept ==
  ASSUME LayoutTypes, layout' = layout, twice \subseteq twice'
  PROVE  LayoutsGrow
  <1>1. \A x \in Computers : layout[x] \in AllLayouts
    BY DEF LayoutTypes
  <1> QED  BY <1>1, LayoutsAreOrdered DEF LayoutsGrow

LEMMA OneLayoutGrows ==
  ASSUME LayoutTypes, NEW c \in Computers, NEW l \in AllLayouts, is_newer_than(l, layout[c]),
         layout' = [layout EXCEPT ![c] = l], twice \subseteq twice'
  PROVE  LayoutsGrow
  <1>1. /\ \A x \in Computers : layout[x] \in AllLayouts /\ layout'[x] = IF x = c THEN l ELSE layout[x]
    BY DEF LayoutTypes
  <1>2. at_least(l, layout[c])
    BY <1>1, LayoutsAreOrdered
  <1>3. ASSUME NEW x \in Computers PROVE at_least(layout'[x], layout[x])
    BY <1>1, <1>2, LayoutsAreOrdered
  <1> QED  BY <1>3 DEF LayoutsGrow

(* The parts of the invariant that a step keeps without ending a session.    *)
LEMMA LayoutInvStays ==
  ASSUME LayoutInv, LayoutTypes', LayoutsGrow, SavesLast, SendsOwn, NEW l \in AllLayouts, Joins(l),
         \A x, y \in Computers : {x, y} \in linked' => Conveyed(x, y)'
  PROVE  LayoutInv'
  <1>1. FirstInv' /\ NamesInv' /\ NoNewerInv'
    BY FirstStays, NamesStay, BackStays DEF LayoutInv
  <1>2. FlowInv'
    BY DEF FlowInv
  <1> QED  BY <1>1, <1>2 DEF LayoutInv

(* Each computer starts with nothing, or with a layout of its own.           *)
LEMMA LayoutStarts == LayoutInit => LayoutInv
  <1> SUFFICES ASSUME LayoutInit PROVE LayoutInv  OBVIOUS
  <1> HIDE DEF Elements
  <1>1. /\ \A c \in Computers :
             /\ layout[c] = FirstLayout(c, 0) /\ stored[c] = NoLayout /\ computed[c] = {} /\ unsaved[c] = {}
             /\ \A d \in Computers : carried[c][d] = <<>> /\ Elements(carried[c][d]) = {}
        /\ linked = {} /\ owed = {}
    BY ElementsOfNone DEF LayoutInit
  <1>2. LayoutTypes
    <2>1. /\ <<>> \in Seq(AllLayouts) /\ NoLayout \in AllLayouts
          /\ \A c \in Computers : FirstLayout(c, 0) \in AllLayouts
      BY FirstIsLayout
    <2> QED  BY <2>1 DEF LayoutInit, LayoutTypes
  <1>3. FirstInv
    BY <1>1, FirstIsLayout DEF FirstInv
  <1>4. \A l \in AllLayouts : Present(l) => l = NoLayout \/ \E c \in Computers : l = FirstLayout(c, 0)
    BY <1>1 DEF Present
  <1>5. NamesInv
    <2>1. ASSUME NEW c \in Computers, NEW l \in AllLayouts, l = FirstLayout(c, 0)
          PROVE  l = NoLayout \/ (l.version = 1 /\ l.editor = c /\ l = layout[c] /\ l.shows = 0)
      BY <1>1, <2>1 DEF FirstLayout
    <2>2. ASSUME NEW l \in AllLayouts, Present(l) PROVE Named(l)
      <3>1. l = NoLayout \/ \E c \in Computers : l.version = 1 /\ l.editor = c /\ l = layout[c]
        BY <1>4, <2>1, <2>2
      <3> QED  BY <2>2, <3>1, ComputersAreNumbered, LayoutsAreOrdered DEF Named, NoLayout
    <2>3. ASSUME NEW l \in AllLayouts, NEW m \in AllLayouts, Present(l), Present(m), NameOf(l) = NameOf(m)
          PROVE  l = m
      <3>1. /\ l = NoLayout \/ \E c \in Computers : l.version = 1 /\ l.editor = c /\ l.shows = 0
            /\ m = NoLayout \/ \E c \in Computers : m.version = 1 /\ m.editor = c /\ m.shows = 0
        BY <1>4, <2>1, <2>3
      <3> QED  BY <2>3, <3>1, ComputersAreNumbered DEF NameOf, NoLayout, AllLayouts
    <2> QED  BY <2>2, <2>3 DEF NamesInv
  <1>6. NoNewerInv /\ FlowInv
    BY <1>1 DEF NoNewerInv, FlowInv
  <1> QED  BY <1>2, <1>3, <1>5, <1>6 DEF LayoutInv

(* What is present after a step that leaves what sessions carry.             *)
LEMMA AdoptJoins ==
  ASSUME LayoutInv, NEW c \in Computers, NEW t \in LayoutTasks, adopt(c, t), stored' = stored,
         \A x, y \in Computers : Elements(carried'[x][y]) \subseteq Elements(carried[x][y]),
         \A x \in Computers : computed'[x] \subseteq computed[x]
  PROVE  \A m \in AllLayouts : Present(m)' => Present(m) \/ m = t.layout
  <1> HIDE DEF Elements
  <1>1. \A x \in Computers : /\ layout'[x] = layout[x] \/ layout'[x] = t.layout
                             /\ \A u \in unsaved'[x] : u \in unsaved[x] \/ u = t
    BY DEF adopt, LayoutInv, LayoutTypes
  <1> QED  BY <1>1 DEF Present

(* A computer adopts a layout it computed, or one that a session brought.    *)
LEMMA Adopting ==
  ASSUME LayoutInv, LayoutTypes', NEW c \in Linux \cup Macs, NEW t \in LayoutTasks, Brought(c, t),
         t.from # c => t \in computed[c], is_newer_than(t.layout, layout[c]), adopt(c, t),
         UNCHANGED <<stored, linked, carried, twice, untold>>,
         \A x \in Computers : computed'[x] \subseteq computed[x],
         \A x \in Computers : \A u \in computed[x] : u \in computed'[x] \/ (x = c /\ u = t)
  PROVE  LayoutInv'
  <1> HIDE DEF Elements
  <1> DEFINE l == t.layout
  <1>0. /\ c \in Computers /\ l \in AllLayouts /\ t.from \in Computers \cup {0}
        /\ LayoutTypes /\ NoNewerInv /\ FlowInv
    BY DEF Computers, LayoutTasks, LayoutInv
  <1>1. /\ layout' = [layout EXCEPT ![c] = l] /\ layout'[c] = l /\ unsaved'[c] = unsaved[c] \cup {t}
        /\ \A x \in Computers : x # c => layout'[x] = layout[x] /\ unsaved'[x] = unsaved[x]
        /\ owed' = IF c \in Macs THEN owed \cup others(c, t.from) ELSE owed
    BY <1>0 DEF adopt, LayoutTypes
  <1>2. LayoutsGrow
    BY <1>0, <1>1, OneLayoutGrows
  <1>3. SavesLast
    <2>1. at_least(l, layout[c])
      BY <1>0, LayoutsAreOrdered DEF LayoutTypes
    <2>2. ASSUME NEW x \in Computers, NEW u \in unsaved'[x] PROVE u \in unsaved[x] \/ at_least(u.layout, layout[x])
      BY <1>1, <2>1, <2>2
    <2> QED  BY <2>2 DEF SavesLast
  <1>4. SendsOwn
    <2>1. owed' \subseteq LinkedPairs
      BY <1>0, <1>1 DEF NoNewerInv, others
    <2>2. \A x \in Computers : {x, x} \notin linked'
      BY <1>0 DEF NoNewerInv
    <2> QED  BY <2>1, <2>2 DEF SendsOwn, LinkedPairs
  <1>5. Joins(l)
    <2>1. \A m \in AllLayouts : Present(m)' => Present(m) \/ m = l
      BY <1>0, AdoptJoins
    <2>2. CASE t.from # c
      BY <1>0, <2>1, <2>2 DEF Joins, Present
    <2>3. CASE t.from = c
      <3>1. l.editor = c
        BY <2>3 DEF Brought
      <3> QED  BY <1>0, <1>1, <2>1, <3>1 DEF Joins
    <2> QED  BY <2>2, <2>3
  <1>6. ASSUME NEW x \in Computers, NEW y \in Computers, {x, y} \in linked' PROVE Conveyed(x, y)'
    <2>1. Conveyed(x, y) /\ x # y
      BY <1>0, <1>6 DEF FlowInv, NoNewerInv
    <2>2. CASE x = c
      <3>1. CASE t.from = y
        <4>1. at_least(layout[y], l)
          BY <1>0, <2>1, <2>2, <3>1, ComputersAreNumbered DEF Brought, SentBy
        <4>2. at_least(layout'[y], layout'[x])
          BY <1>1, <2>1, <2>2, <4>1
        <4> QED  BY <4>2 DEF Conveyed
      <3>2. CASE t.from # y /\ c \in Macs
        <4>1. <<x, y>> \in owed'
          BY <1>1, <1>6, <2>2, <3>2 DEF others, LinkedPairs
        <4> QED  BY <4>1 DEF Conveyed
      <3>3. CASE t.from # y /\ c \in Linux
        <4>1. Unsent(x, y)'
          BY <1>1, <2>2, <3>3 DEF Unsent
        <4> QED  BY <4>1 DEF Conveyed
      <3> QED  BY <3>1, <3>2, <3>3
    <2>3. CASE x # c
      <3>1. layout'[x] = layout[x] /\ at_least(layout'[y], layout[y])
        BY <1>1, <1>2, <2>3 DEF LayoutsGrow
      <3>2. Passes(x, y)
        <4>1. owed \subseteq owed' /\ Unsent(x, y)' = Unsent(x, y) /\ Withheld(x, y)' = Withheld(x, y)
          BY <1>1, <2>3 DEF Unsent, Withheld
        <4>2. ASSUME NEW u \in computed[y] PROVE at_least(layout'[y], u.layout) \/ u \in computed'[y]
          BY <1>0, <1>1, LayoutsAreOrdered
        <4> QED  BY <4>1, <4>2 DEF Passes
      <3> QED  BY <1>0, <2>1, <3>1, <3>2, ConveyedStays
    <2> QED  BY <2>2, <2>3
  <1> QED  BY <1>0, <1>2, <1>3, <1>4, <1>5, <1>6, LayoutInvStays

(* A step after which everybody keeps the layout it kept.                    *)
LEMMA KeepingNothing ==
  ASSUME LayoutInv, LayoutTypes', NEW c \in Computers, layout' = layout, twice \subseteq twice',
         SavesLast, SendsOwn, \A m \in AllLayouts : Present(m)' => Present(m),
         \A x, y \in Computers : {x, y} \in linked' => <<x, y>> \in owed' \/ ({x, y} \in linked /\ Passes(x, y))
  PROVE  LayoutInv'
  <1>1. LayoutTypes /\ FlowInv /\ LayoutsGrow /\ layout[c] \in AllLayouts
    BY LayoutsKept DEF LayoutInv, LayoutTypes
  <1>2. Joins(layout[c])
    BY DEF Joins, Present
  <1>3. ASSUME NEW x \in Computers, NEW y \in Computers, {x, y} \in linked' PROVE Conveyed(x, y)'
    <2>1. CASE <<x, y>> \in owed'
      BY <2>1 DEF Conveyed
    <2>2. CASE {x, y} \in linked /\ Passes(x, y)
      <3>1. Conveyed(x, y)
        BY <1>1, <2>2 DEF FlowInv
      <3>2. layout'[x] = layout[x] /\ at_least(layout'[y], layout[y])
        BY <1>1 DEF LayoutsGrow
      <3> QED  BY <1>1, <2>2, <3>1, <3>2, ConveyedStays
    <2> QED  BY <1>3, <2>1, <2>2
  <1> QED  BY <1>1, <1>2, <1>3, LayoutInvStays

(* Nothing is saved or left to be saved.                                     *)
LEMMA SavingNothing == stored' = stored /\ unsaved' = unsaved => SavesLast
  BY DEF SavesLast

(* A step that sends nothing and computes what Brought allows.               *)
LEMMA SendingNothing ==
  ASSUME LayoutInv, linked' = linked, owed' \subseteq LinkedPairs, carried' = carried,
         \A x \in Computers : \A t \in computed'[x] : t \in computed[x] \/ Brought(x, t)'
  PROVE  SendsOwn
  BY DEF SendsOwn, LinkedPairs, LayoutInv, NoNewerInv

(* An edit on Linux is computed, and kept later.                             *)
LEMMA Computing ==
  ASSUME LayoutInv, NEW c \in Computers, move_tile(c) \/ layout_or_initial(c)
  PROVE  LayoutInv'
  <1>0. LayoutTypes /\ NoNewerInv
    BY DEF LayoutInv
  <1>1. PICK l \in AllLayouts : l.editor = c /\ computed' = [computed EXCEPT ![c] = @ \cup {Task(l, c)}]
    <2>1. c \in Nat /\ edits + 1 \in Nat /\ layout[c].version + 1 \in Nat
      BY <1>0, ComputersAreNumbered DEF LayoutTypes, AllLayouts
    <2>2. CASE move_tile(c)
      <3>1. next_version(c, c) \in AllLayouts /\ next_version(c, c).editor = c
        BY <2>1 DEF next_version, AllLayouts
      <3> QED  BY <2>2, <3>1 DEF move_tile
    <2>3. CASE layout_or_initial(c)
      <3>1. PICK v \in {0, 1} :
              computed' = [computed EXCEPT ![c] = @ \cup {Task([version |-> v, editor |-> c, shows |-> edits + 1], c)}]
        BY <2>3 DEF layout_or_initial
      <3>2. [version |-> v, editor |-> c, shows |-> edits + 1] \in AllLayouts
        BY <2>1 DEF AllLayouts
      <3> QED  BY <3>1, <3>2
    <2> QED  BY <2>2, <2>3
  <1>2. UNCHANGED <<layout, stored, unsaved, linked, owed, carried, twice, untold, breaks>> /\ edits' = edits + 1
    BY DEF move_tile, layout_or_initial
  <1>3. LayoutTypes' /\ \A x \in Computers : \A t \in computed'[x] : t \in computed[x] \/ (x = c /\ t = Task(l, c))
    <2>1. Task(l, c) \in LayoutTasks
      BY DEF Task, LayoutTasks
    <2> QED  BY <1>0, <1>1, <1>2, <2>1 DEF LayoutTypes
  <1>4. SendsOwn
    <2>1. Brought(c, Task(l, c))'
      BY <1>1 DEF Brought, Task, move_tile, layout_or_initial
    <2>2. owed' \subseteq LinkedPairs
      BY <1>0, <1>2 DEF NoNewerInv
    <2> QED  BY <1>2, <1>3, <2>1, <2>2, SendingNothing
  <1>5. \A m \in AllLayouts : Present(m)' => Present(m)
    <2> HIDE DEF Elements
    <2> QED  BY <1>2, <1>3 DEF Present, Task
  <1>6. \A x, y \in Computers : Passes(x, y)
    <2> HIDE DEF Elements
    <2>1. \A y \in Computers : computed[y] \subseteq computed'[y]
      BY <1>0, <1>1 DEF LayoutTypes
    <2> QED  BY <1>2, <2>1 DEF Passes, Withheld, Unsent
  <1> QED  BY <1>2, <1>3, <1>4, <1>5, <1>6, KeepingNothing, SavingNothing

(* A task drops its layout, no newer than the one kept meanwhile.            *)
LEMMA Dropping ==
  ASSUME LayoutInv, NEW c \in Computers, NEW t \in computed[c], ~is_newer_than(t.layout, layout[c]),
         computed' = [computed EXCEPT ![c] = @ \ {t}],
         UNCHANGED <<layout, stored, unsaved, linked, owed, carried, twice, untold, edits, breaks>>
  PROVE  LayoutInv'
  <1>0. LayoutTypes /\ NoNewerInv
    BY DEF LayoutInv
  <1>1. LayoutTypes' /\ \A x \in Computers : computed'[x] = IF x = c THEN computed[x] \ {t} ELSE computed[x]
    BY <1>0 DEF LayoutTypes
  <1>2. SendsOwn
    BY <1>0, <1>1, SendingNothing DEF NoNewerInv
  <1>3. \A m \in AllLayouts : Present(m)' => Present(m)
    <2> HIDE DEF Elements
    <2> QED  BY <1>1 DEF Present
  <1>4. \A x, y \in Computers : Passes(x, y)
    <2> HIDE DEF Elements
    <2>1. at_least(layout'[c], t.layout)
      BY <1>0, LayoutsAreOrdered DEF LayoutTypes, LayoutTasks
    <2> QED  BY <1>1, <2>1 DEF Passes, Withheld, Unsent
  <1> QED  BY <1>1, <1>2, <1>3, <1>4, KeepingNothing, SavingNothing

(* A save is done or has failed; Linux owes it now.                          *)
LEMMA Saving ==
  ASSUME LayoutInv, NEW c \in Computers, NEW t \in unsaved[c], save_layout(c, t)
  PROVE  LayoutInv'
  <1>0. LayoutTypes /\ NoNewerInv /\ t \in LayoutTasks
    BY DEF LayoutInv, LayoutTypes
  <1>1. /\ unsaved' = [unsaved EXCEPT ![c] = @ \ {t}]
        /\ stored' = [stored EXCEPT ![c] = t.layout] \/ stored' = stored
        /\ owed' = IF c \in Linux THEN owed \cup others(c, t.from) ELSE owed
        /\ UNCHANGED <<layout, computed, linked, carried, twice, untold, edits>>
        /\ breaks' = breaks \/ breaks' = breaks + 1
    BY DEF save_layout, Trouble
  <1>2. /\ LayoutTypes'
        /\ \A x \in Computers : /\ unsaved'[x] = IF x = c THEN unsaved[x] \ {t} ELSE unsaved[x]
                                /\ stored'[x] = stored[x] \/ (x = c /\ stored'[x] = t.layout)
    <2>1. t.layout \in AllLayouts
      BY <1>0 DEF LayoutTasks
    <2>2. /\ unsaved' \in [Computers -> SUBSET LayoutTasks]
          /\ \A x \in Computers : unsaved'[x] = IF x = c THEN unsaved[x] \ {t} ELSE unsaved[x]
      BY <1>0, <1>1 DEF LayoutTypes
    <2>3. /\ stored' \in [Computers -> AllLayouts]
          /\ \A x \in Computers : stored'[x] = stored[x] \/ (x = c /\ stored'[x] = t.layout)
      BY <1>0, <1>1, <2>1 DEF LayoutTypes
    <2>4. computed' = computed /\ carried' = carried /\ layout' = layout /\ edits' \in Nat /\ breaks' \in Nat
      BY <1>0, <1>1 DEF LayoutTypes
    <2>5. LayoutTypes'
      BY <1>0, <2>2, <2>3, <2>4 DEF LayoutTypes
    <2> QED  BY <2>2, <2>3, <2>5
  <1>3. SavesLast
    BY <1>2 DEF SavesLast
  <1>4. SendsOwn
    <2>1. owed' \subseteq LinkedPairs
      BY <1>0, <1>1 DEF NoNewerInv, others
    <2> QED  BY <1>1, <2>1, SendingNothing
  <1>5. \A m \in AllLayouts : Present(m)' => Present(m)
    <2> HIDE DEF Elements
    <2> SUFFICES ASSUME NEW m \in AllLayouts, NEW x \in Computers,
                        \/ m = layout[x] \/ m = stored'[x]
                        \/ \E u \in unsaved'[x] : m = u.layout
                        \/ \E u \in computed[x] : u.from # x /\ m = u.layout
                        \/ \E y \in Computers : m \in Elements(carried[x][y])
                 PROVE  Present(m)
      BY <1>1 DEF Present
    <2>1. unsaved'[x] \subseteq unsaved[x] /\ (stored'[x] = stored[x] \/ \E u \in unsaved[x] : stored'[x] = u.layout)
      BY <1>2
    <2> QED  BY <2>1 DEF Present
  <1>6. ASSUME NEW x \in Computers, NEW y \in Computers, {x, y} \in linked' PROVE Passes(x, y)
    <2> HIDE DEF Elements
    <2>1. Unsent(x, y) => Unsent(x, y)' \/ <<x, y>> \in owed'
      BY <1>1, <1>2, <1>6 DEF Unsent, others, LinkedPairs
    <2> QED  BY <1>1, <2>1 DEF Passes, Withheld
  <1> QED  BY <1>1, <1>2, <1>3, <1>4, <1>5, <1>6, KeepingNothing

(* A session starts with both layouts owed.                                  *)
LEMMA Connecting ==
  ASSUME LayoutInv, NEW c \in Computers, NEW d \in Computers \ {c}, Connect(c, d)
  PROVE  LayoutInv'
  <1>0. LayoutTypes /\ NoNewerInv
    BY DEF LayoutInv
  <1>1. /\ linked' = linked \cup {{c, d}} /\ owed' = owed \cup {<<c, d>>, <<d, c>>} /\ edits' = edits + 1
        /\ UNCHANGED <<layout, stored, computed, unsaved, carried, twice, untold, breaks>>
    BY DEF Connect
  <1>2. LayoutTypes'
    BY <1>0, <1>1 DEF LayoutTypes
  <1>3. SendsOwn
    <2>1. \A x \in Computers : {x, x} \notin linked'
      BY <1>0, <1>1 DEF NoNewerInv
    <2>2. owed' \subseteq Computers \X Computers
      <3>1. owed \subseteq LinkedPairs
        BY <1>0 DEF NoNewerInv
      <3>2. LinkedPairs \subseteq Computers \X Computers
        BY DEF LinkedPairs
      <3> QED  BY <1>1, <3>1, <3>2
    <2>3. ASSUME NEW x \in Computers, NEW y \in Computers, <<x, y>> \in owed' PROVE {x, y} \in linked'
      <3>1. CASE <<x, y>> \in owed
        BY <1>0, <1>1, <3>1 DEF NoNewerInv, LinkedPairs
      <3>2. CASE <<x, y>> = <<c, d>> \/ <<x, y>> = <<d, c>>
        BY <1>1, <3>2
      <3> QED  BY <1>1, <2>3, <3>1, <3>2
    <2> HIDE DEF Elements
    <2> QED  BY <1>1, <2>1, <2>2, <2>3 DEF SendsOwn
  <1>4. \A m \in AllLayouts : Present(m)' => Present(m)
    <2> HIDE DEF Elements
    <2> QED  BY <1>1 DEF Present
  <1>5. ASSUME NEW x \in Computers, NEW y \in Computers, {x, y} \in linked'
        PROVE  <<x, y>> \in owed' \/ ({x, y} \in linked /\ Passes(x, y))
    <2> HIDE DEF Elements
    <2>1. {x, y} \in linked \/ <<x, y>> \in owed'
      BY <1>1, <1>5
    <2>2. Passes(x, y)
      BY <1>1 DEF Passes, Withheld, Unsent
    <2> QED  BY <2>1, <2>2
  <1> QED  BY <1>1, <1>2, <1>3, <1>4, <1>5, KeepingNothing, SavingNothing

(* Windows keeps a newer layout, and owes it to everyone or tells nobody.     *)
LEMMA WindowsKeeping ==
  ASSUME LayoutInv, NEW c \in Computers, NEW l \in AllLayouts, is_newer_than(l, layout[c]),
         WindowsKeeps(c, l), UNCHANGED <<computed, unsaved, linked>>, twice \subseteq twice', edits' \in Nat,
         carried' \in [Computers -> [Computers -> Seq(AllLayouts)]],
         \A x, y \in Computers : Elements(carried'[x][y]) \subseteq Elements(carried[x][y]),
         \A x, y \in Computers : \A m \in Elements(carried[x][y]) :
            m \in Elements(carried'[x][y]) \/ (y = c /\ m = l),
         Present(l) \/ (l.editor \in Computers /\ NameOf(l) \in twice') \/ l.editor = c
  PROVE  LayoutInv'
  <1> HIDE DEF Elements
  <1>0. LayoutTypes /\ NoNewerInv /\ FlowInv
    BY DEF LayoutInv
  <1>1. /\ layout' = [layout EXCEPT ![c] = l] /\ layout'[c] = l
        /\ \A x \in Computers : x # c => layout'[x] = layout[x]
        /\ \/ /\ stored' = [stored EXCEPT ![c] = l] /\ owed' = owed \cup others(c, c)
              /\ untold' = {cd \in untold : cd[1] # c}
           \/ stored' = stored /\ owed' = owed /\ untold' = untold \cup others(c, c)
        /\ breaks' = breaks \/ breaks' = breaks + 1
    BY <1>0 DEF WindowsKeeps, LayoutTypes, Trouble
  <1>2. LayoutTypes' /\ \A x \in Computers : stored'[x] = stored[x] \/ (x = c /\ stored'[x] = l)
    <2>1. layout' \in [Computers -> AllLayouts] /\ stored' \in [Computers -> AllLayouts]
      <3>1. layout \in [Computers -> AllLayouts] /\ stored \in [Computers -> AllLayouts]
        BY <1>0 DEF LayoutTypes
      <3>2. layout' = [layout EXCEPT ![c] = l] /\ (stored' = [stored EXCEPT ![c] = l] \/ stored' = stored)
        BY <1>1
      <3> QED  BY <3>1, <3>2
    <2>2. breaks' \in Nat
      BY <1>0, <1>1 DEF LayoutTypes
    <2>3. LayoutTypes'
      BY <1>0, <2>1, <2>2 DEF LayoutTypes
    <2> QED  BY <1>0, <1>1, <2>3 DEF LayoutTypes
  <1>3. LayoutsGrow
    BY <1>0, <1>1, OneLayoutGrows
  <1>4. SavesLast
    <2>1. at_least(l, layout[c])
      BY <1>0, LayoutsAreOrdered DEF LayoutTypes
    <2> QED  BY <1>2, <2>1 DEF SavesLast
  <1>5. SendsOwn
    <2>1. owed' \subseteq LinkedPairs
      BY <1>0, <1>1 DEF NoNewerInv, others
    <2>2. LinkedPairs \subseteq Computers \X Computers
      BY DEF LinkedPairs
    <2>3. \A x, y \in Computers : <<x, y>> \in owed' => {x, y} \in linked'
      BY <2>1 DEF LinkedPairs
    <2>4. \A x \in Computers : {x, x} \notin linked'
      BY <1>0 DEF NoNewerInv
    <2> QED  BY <2>1, <2>2, <2>3, <2>4 DEF SendsOwn
  <1>6. Joins(l)
    <2>1. ASSUME NEW m \in AllLayouts, NEW x \in Computers,
                 \/ m = layout'[x] \/ m = stored'[x]
                 \/ \E u \in unsaved[x] : m = u.layout
                 \/ \E u \in computed[x] : u.from # x /\ m = u.layout
                 \/ \E y \in Computers : m \in Elements(carried'[x][y])
          PROVE  Present(m) \/ m = l
      <3>1. layout'[x] = layout[x] \/ layout'[x] = l
        BY <1>1
      <3> QED  BY <1>2, <2>1, <3>1 DEF Present
    <2>2. \A m \in AllLayouts : Present(m)' => Present(m) \/ m = l
      BY <2>1 DEF Present
    <2> QED  BY <1>1, <2>2 DEF Joins
  <1>7. ASSUME NEW x \in Computers, NEW y \in Computers, {x, y} \in linked' PROVE Conveyed(x, y)'
    <2>1. Conveyed(x, y) /\ x # y
      BY <1>0, <1>7 DEF FlowInv, NoNewerInv
    <2>2. CASE x = c
      <3>1. <<x, y>> \in others(c, c)
        BY <1>7, <2>1, <2>2 DEF others, LinkedPairs
      <3>2. <<x, y>> \in owed' \/ Withheld(x, y)'
        BY <1>1, <3>1 DEF Withheld
      <3> QED  BY <3>2 DEF Conveyed
    <2>3. CASE x # c
      <3>1. layout'[x] = layout[x] /\ at_least(layout'[y], layout[y])
        BY <1>1, <1>3, <2>3 DEF LayoutsGrow
      <3>2. Passes(x, y)
        <4>1. owed \subseteq owed' /\ Unsent(x, y)' = Unsent(x, y)
          BY <1>1 DEF Unsent
        <4>2. Withheld(x, y) => Withheld(x, y)'
          BY <1>1, <2>3 DEF Withheld
        <4>3. at_least(layout'[c], l)
          BY <1>1, LayoutsAreOrdered
        <4> QED  BY <4>1, <4>2, <4>3 DEF Passes
      <3> QED  BY <1>0, <1>2, <2>1, <3>1, <3>2, ConveyedStays
    <2> QED  BY <2>2, <2>3
  <1> QED  BY <1>2, <1>3, <1>4, <1>5, <1>6, <1>7, LayoutInvStays

(* A layout of the next version is newer than the one kept.                  *)
LEMMA NextIsNewer ==
  ASSUME LayoutTypes, NEW c \in Computers, NEW d \in Computers
  PROVE  /\ next_version(c, d) \in AllLayouts /\ next_version(c, d).editor = d
         /\ is_newer_than(next_version(c, d), layout[c])
  <1>1. layout[c].version \in Nat /\ edits \in Nat /\ d \in Nat
    BY ComputersAreNumbered DEF LayoutTypes, AllLayouts
  <1>2. next_version(c, d) \in AllLayouts /\ next_version(c, d).editor = d
    BY <1>1 DEF next_version, AllLayouts
  <1>3. is_newer_than(next_version(c, d), layout[c])
    BY <1>1 DEF next_version, is_newer_than
  <1> QED  BY <1>2, <1>3

(* A layout that arrives leaves its queue.                                   *)
LEMMA TakeCarries ==
  ASSUME LayoutTypes, NEW c \in Computers, NEW d \in Computers, Take(c, d)
  PROVE  /\ carried' \in [Computers -> [Computers -> Seq(AllLayouts)]]
         /\ Head(carried[d][c]) \in AllLayouts /\ Head(carried[d][c]) \in Elements(carried[d][c])
         /\ \A x, y \in Computers : Elements(carried'[x][y]) \subseteq Elements(carried[x][y])
         /\ \A x, y \in Computers : \A m \in Elements(carried[x][y]) :
              m \in Elements(carried'[x][y]) \/ (y = c /\ m = Head(carried[d][c]))
  <1>1. carried[d][c] \in Seq(AllLayouts) /\ carried[d][c] # <<>>
    BY DEF LayoutTypes, Take
  <1>2. /\ Tail(carried[d][c]) \in Seq(AllLayouts) /\ Head(carried[d][c]) \in AllLayouts
        /\ Elements(carried[d][c]) = {Head(carried[d][c])} \cup Elements(Tail(carried[d][c]))
    BY <1>1, ElementsOfTail
  <1>3. /\ carried' \in [Computers -> [Computers -> Seq(AllLayouts)]]
        /\ \A x, y \in Computers : carried'[x][y] = IF x = d /\ y = c THEN Tail(carried[d][c]) ELSE carried[x][y]
    BY <1>2 DEF LayoutTypes, Take
  <1> QED  BY <1>2, <1>3

(* Windows edits its own tile or a computer's that connected.                *)
LEMMA WindowsEditing ==
  ASSUME LayoutInv, NEW c \in Computers, arrange(c) \/ \E d \in Computers : FitPeerTile(c, d)
  PROVE  LayoutInv'
  <1> HIDE DEF Elements
  <1>0. LayoutTypes
    BY DEF LayoutInv
  <1>1. /\ UNCHANGED <<computed, unsaved, linked, carried>> /\ edits' \in Nat
        /\ carried' \in [Computers -> [Computers -> Seq(AllLayouts)]]
    <2>1. UNCHANGED <<computed, unsaved, linked, carried>> /\ edits' = edits + 1
      BY DEF arrange, FitPeerTile
    <2> QED  BY <1>0, <2>1 DEF LayoutTypes
  <1>2. CASE arrange(c)
    <2> DEFINE l == next_version(c, c)
    <2>1. l \in AllLayouts /\ l.editor = c /\ is_newer_than(l, layout[c])
      BY <1>0, NextIsNewer
    <2>2. WindowsKeeps(c, l) /\ twice \subseteq twice'
      BY <1>2 DEF arrange
    <2> HIDE DEF l
    <2> QED  BY <1>1, <2>1, <2>2, WindowsKeeping
  <1>3. CASE \E d \in Computers : FitPeerTile(c, d)
    <2>1. PICK d \in Computers : FitPeerTile(c, d)
      BY <1>3
    <2> DEFINE l == next_version(c, d)
    <2>2. l \in AllLayouts /\ l.editor = d /\ is_newer_than(l, layout[c])
      BY <1>0, NextIsNewer
    <2>3. WindowsKeeps(c, l) /\ twice \subseteq twice' /\ NameOf(l) \in twice'
      BY <2>1 DEF FitPeerTile
    <2> HIDE DEF l
    <2> QED  BY <1>1, <2>2, <2>3, WindowsKeeping
  <1> QED  BY <1>2, <1>3

(* A layout that arrives is to be kept later, or is not newer.               *)
LEMMA Merging ==
  ASSUME LayoutInv, NEW c \in Computers, NEW d \in Computers \ {c}, Take(c, d),
         UNCHANGED <<layout, stored, unsaved, linked, twice, untold, edits, breaks>>,
         owed' = owed \/ owed' = owed \cup {<<c, d>>},
         \/ /\ computed' = [computed EXCEPT ![c] = @ \cup {Task(Head(carried[d][c]), d)}]
            /\ c \in Linux \cup Macs
         \/ computed' = computed /\ ~is_newer_than(Head(carried[d][c]), layout[c])
  PROVE  LayoutInv'
  <1> HIDE DEF Elements
  <1>0. LayoutTypes /\ NoNewerInv
    BY DEF LayoutInv
  <1>10. PICK l \in AllLayouts : l = Head(carried[d][c])
    BY <1>0, TakeCarries
  <1>1. /\ carried' \in [Computers -> [Computers -> Seq(AllLayouts)]]
        /\ l \in AllLayouts /\ l \in Elements(carried[d][c])
        /\ \A x, y \in Computers : Elements(carried'[x][y]) \subseteq Elements(carried[x][y])
        /\ \A x, y \in Computers : \A m \in Elements(carried[x][y]) :
             m \in Elements(carried'[x][y]) \/ (y = c /\ m = l)
    BY <1>0, <1>10, TakeCarries
  <1>2. SentBy(d, c, l)
    BY <1>0, <1>1 DEF NoNewerInv
  <1>3. \/ computed' = [computed EXCEPT ![c] = @ \cup {Task(l, d)}] /\ c \in Linux \cup Macs
        \/ computed' = computed /\ ~is_newer_than(l, layout[c])
    BY <1>10
  <1>4. /\ computed' \in [Computers -> SUBSET LayoutTasks]
        /\ \A x \in Computers : /\ computed[x] \subseteq computed'[x]
                                /\ \A t \in computed'[x] :
                                     \/ t \in computed[x]
                                     \/ x = c /\ t = Task(l, d) /\ c \in Linux \cup Macs
        /\ Task(l, d) \in computed'[c] \/ at_least(layout[c], l)
    <2>1. Task(l, d) \in LayoutTasks
      BY <1>1 DEF Task, LayoutTasks
    <2>2. CASE computed' = [computed EXCEPT ![c] = @ \cup {Task(l, d)}] /\ c \in Linux \cup Macs
      BY <1>0, <2>1, <2>2 DEF LayoutTypes
    <2>3. CASE computed' = computed /\ ~is_newer_than(l, layout[c])
      BY <1>0, <1>1, <2>3, LayoutsAreOrdered DEF LayoutTypes
    <2> QED  BY <1>3, <2>2, <2>3
  <1>5. LayoutTypes'
    BY <1>0, <1>1, <1>4 DEF LayoutTypes
  <1>6. SendsOwn
    <2>1. ASSUME NEW x \in Computers, NEW y \in Computers, <<x, y>> \in owed' PROVE {x, y} \in linked'
      <3>1. CASE <<x, y>> \in owed
        BY <1>0, <3>1 DEF NoNewerInv, LinkedPairs
      <3>2. CASE x = c /\ y = d
        BY <1>2, <3>2 DEF SentBy
      <3> QED  BY <2>1, <3>1, <3>2
    <2>2. owed' \subseteq Computers \X Computers
      <3>1. LinkedPairs \subseteq Computers \X Computers
        BY DEF LinkedPairs
      <3> QED  BY <1>0, <3>1 DEF NoNewerInv
    <2>3. c \in Linux \cup Macs => Brought(c, Task(l, d))'
      <3>1. SentBy(d, c, l)'
        BY <1>2 DEF SentBy, at_least
      <3> QED  BY <3>1 DEF Brought, Task
    <2>4. \A x \in Computers : {x, x} \notin linked'
      BY <1>0 DEF NoNewerInv
    <2> QED  BY <1>1, <1>4, <2>1, <2>2, <2>3, <2>4 DEF SendsOwn
  <1>7. \A m \in AllLayouts : Present(m)' => Present(m)
    <2>1. ASSUME NEW m \in AllLayouts, NEW x \in Computers,
                 \/ m = layout[x] \/ m = stored[x]
                 \/ \E u \in unsaved[x] : m = u.layout
                 \/ \E u \in computed'[x] : u.from # x /\ m = u.layout
                 \/ \E y \in Computers : m \in Elements(carried'[x][y])
          PROVE  Present(m)
      <3>1. CASE \E u \in computed'[x] : u.from # x /\ m = u.layout
        <4>1. PICK u \in computed'[x] : u.from # x /\ m = u.layout
          BY <3>1
        <4>2. CASE u \in computed[x]
          BY <4>1, <4>2 DEF Present
        <4>3. CASE u = Task(l, d)
          BY <1>1, <4>1, <4>3 DEF Present, Task
        <4> QED  BY <1>4, <4>1, <4>2, <4>3
      <3>2. CASE \E y \in Computers : m \in Elements(carried'[x][y])
        BY <1>1, <3>2 DEF Present
      <3> QED  BY <2>1, <3>1, <3>2 DEF Present
    <2> QED  BY <2>1 DEF Present
  <1>8. \A x, y \in Computers : Passes(x, y)
    <2>1. owed \subseteq owed' /\ \A x, y \in Computers : Withheld(x, y)' = Withheld(x, y) /\ Unsent(x, y)' = Unsent(x, y)
      BY DEF Withheld, Unsent
    <2>2. at_least(layout'[c], l) \/ \E t \in computed'[c] : t.layout = l
      BY <1>4 DEF Task
    <2> QED  BY <1>1, <1>4, <2>1, <2>2 DEF Passes
  <1> QED  BY <1>5, <1>6, <1>7, <1>8, KeepingNothing, SavingNothing

(* A layout that arrives is to be kept, or answered, or kept by Windows.     *)
LEMMA Taking ==
  ASSUME LayoutInv, NEW c \in Computers, NEW d \in Computers \ {c}, merge_layout(c, d) \/ WindowsLayout(c, d)
  PROVE  LayoutInv'
  <1> HIDE DEF Elements
  <1>0. LayoutTypes
    BY DEF LayoutInv
  <1>1. CASE is_newer_than(Head(carried[d][c]), layout[c]) /\ WindowsLayout(c, d)
    <2> DEFINE l == Head(carried[d][c])
    <2>1. /\ Take(c, d) /\ UNCHANGED <<computed, unsaved, linked>> /\ twice \subseteq twice' /\ edits' \in Nat
          /\ WindowsKeeps(c, l) /\ is_newer_than(l, layout[c])
      BY <1>0, <1>1 DEF WindowsLayout, LayoutTypes
    <2>2. /\ carried' \in [Computers -> [Computers -> Seq(AllLayouts)]]
          /\ l \in AllLayouts /\ l \in Elements(carried[d][c])
          /\ \A x, y \in Computers : Elements(carried'[x][y]) \subseteq Elements(carried[x][y])
          /\ \A x, y \in Computers : \A m \in Elements(carried[x][y]) :
               m \in Elements(carried'[x][y]) \/ (y = c /\ m = l)
      BY <1>0, <2>1, TakeCarries
    <2>3. Present(l)
      BY <2>2 DEF Present
    <2> HIDE DEF l
    <2> QED  BY <2>1, <2>2, <2>3, WindowsKeeping
  <1>2. CASE ~(is_newer_than(Head(carried[d][c]), layout[c]) /\ WindowsLayout(c, d))
    <2>1. /\ Take(c, d) /\ UNCHANGED <<layout, stored, unsaved, linked, twice, untold, edits, breaks>>
          /\ owed' = owed \/ owed' = owed \cup {<<c, d>>}
          /\ \/ computed' = [computed EXCEPT ![c] = @ \cup {Task(Head(carried[d][c]), d)}] /\ c \in Linux \cup Macs
             \/ computed' = computed /\ ~is_newer_than(Head(carried[d][c]), layout[c])
      BY <1>2 DEF merge_layout, WindowsLayout, Computers
    <2> QED  BY <2>1, Merging
  <1> QED  BY <1>1, <1>2

(* The layout kept is on its way.                                            *)
LEMMA Offering ==
  ASSUME LayoutInv, NEW c \in Computers, NEW d \in Computers, offer_layout(c, d)
  PROVE  LayoutInv'
  <1> HIDE DEF Elements
  <1>0. LayoutTypes /\ NoNewerInv /\ layout[c] \in AllLayouts
    BY DEF LayoutInv, LayoutTypes
  <1>1. /\ <<c, d>> \in owed /\ owed' = owed \ {<<c, d>>}
        /\ UNCHANGED <<layout, stored, computed, unsaved, linked, twice, untold, edits, breaks>>
        /\ \/ layout[c] = NoLayout /\ carried' = carried
           \/ carried' = [carried EXCEPT ![c][d] = Append(@, layout[c])]
    BY DEF offer_layout
  <1>2. /\ carried' \in [Computers -> [Computers -> Seq(AllLayouts)]]
        /\ \A x, y \in Computers :
             /\ Elements(carried[x][y]) \subseteq Elements(carried'[x][y])
             /\ \A m \in Elements(carried'[x][y]) :
                  m \in Elements(carried[x][y]) \/ (x = c /\ y = d /\ m = layout[c])
        /\ layout[c] = NoLayout \/ layout[c] \in Elements(carried'[c][d])
    <2>1. CASE carried' = carried /\ layout[c] = NoLayout
      BY <1>0, <2>1 DEF LayoutTypes
    <2>2. CASE carried' = [carried EXCEPT ![c][d] = Append(@, layout[c])]
      <3>1. /\ Append(carried[c][d], layout[c]) \in Seq(AllLayouts)
            /\ Elements(Append(carried[c][d], layout[c])) = Elements(carried[c][d]) \cup {layout[c]}
        <4>1. carried[c][d] \in Seq(AllLayouts)
          BY <1>0 DEF LayoutTypes
        <4> QED  BY <1>0, <4>1, ElementsOfAppend
      <3>2. /\ carried' \in [Computers -> [Computers -> Seq(AllLayouts)]]
            /\ \A x, y \in Computers :
                 carried'[x][y] = IF x = c /\ y = d THEN Append(carried[c][d], layout[c]) ELSE carried[x][y]
        BY <1>0, <2>2, <3>1 DEF LayoutTypes
      <3> QED  BY <3>1, <3>2
    <2> QED  BY <1>1, <2>1, <2>2
  <1>3. LayoutTypes'
    BY <1>0, <1>1, <1>2 DEF LayoutTypes
  <1>4. SendsOwn
    <2>1. \A x, y \in Computers : <<x, y>> \in owed' => {x, y} \in linked'
      BY <1>0, <1>1 DEF NoNewerInv, LinkedPairs
    <2>2. owed' \subseteq Computers \X Computers
      <3>1. LinkedPairs \subseteq Computers \X Computers
        BY DEF LinkedPairs
      <3> QED  BY <1>0, <1>1, <3>1 DEF NoNewerInv
    <2>3. SentBy(c, d, layout[c])'
      <3>1. {c, d} \in linked
        BY <1>0, <1>1 DEF NoNewerInv, LinkedPairs
      <3>2. at_least(layout[c], layout[c])
        BY <1>0, LayoutsAreOrdered
      <3> QED  BY <1>1, <3>1, <3>2 DEF SentBy
    <2>4. \A x \in Computers : {x, x} \notin linked'
      BY <1>0, <1>1 DEF NoNewerInv
    <2>5. \A x, y \in Computers : \A m \in Elements(carried'[x][y]) : m \in Elements(carried[x][y]) \/ SentBy(x, y, m)'
      BY <1>1, <1>2, <2>3
    <2> QED  BY <1>1, <2>1, <2>2, <2>4, <2>5 DEF SendsOwn
  <1>5. \A m \in AllLayouts : Present(m)' => Present(m)
    <2>1. ASSUME NEW m \in AllLayouts, NEW x \in Computers,
                 \/ m = layout[x] \/ m = stored[x]
                 \/ \E u \in unsaved[x] : m = u.layout
                 \/ \E u \in computed[x] : u.from # x /\ m = u.layout
                 \/ \E y \in Computers : m \in Elements(carried'[x][y])
          PROVE  Present(m)
      BY <1>2, <2>1 DEF Present
    <2> QED  BY <1>1, <2>1 DEF Present
  <1>6. \A x, y \in Computers : Passes(x, y)
    <2>1. \A x, y \in Computers : Withheld(x, y)' = Withheld(x, y) /\ Unsent(x, y)' = Unsent(x, y)
      BY <1>1 DEF Withheld, Unsent
    <2> QED  BY <1>1, <1>2, <2>1 DEF Passes
  <1> QED  BY <1>1, <1>3, <1>4, <1>5, <1>6, KeepingNothing, SavingNothing

(* A task whose session is gone keeps its layout.                            *)
LeftAs(x, g, t, u) == u.layout = t.layout /\ u.from = IF {x, t.from} \in g THEN 0 ELSE t.from

(* After sessions end, every task was one, and every one is left.            *)
TasksWere(tasks, g, x, after) == \A u \in after : \E t \in tasks[x] : LeftAs(x, g, t, u)
TasksAreLeft(tasks, g, x, after) == \A t \in tasks[x] : \E u \in after : LeftAs(x, g, t, u)

LEMMA OrphansStay ==
  ASSUME NEW tasks \in [Computers -> SUBSET LayoutTasks], NEW g, NEW x \in Computers
  PROVE  /\ Orphaned(tasks, g)[x] \subseteq LayoutTasks
         /\ TasksWere(tasks, g, x, Orphaned(tasks, g)[x])
         /\ TasksAreLeft(tasks, g, x, Orphaned(tasks, g)[x])
  <1> DEFINE Left(t) == Task(t.layout, IF {x, t.from} \in g THEN 0 ELSE t.from)
  <1>1. Orphaned(tasks, g)[x] = {Left(t) : t \in tasks[x]}
    BY DEF Orphaned
  <1>2. ASSUME NEW t \in tasks[x] PROVE Left(t) \in LayoutTasks /\ LeftAs(x, g, t, Left(t))
    <2>1. t.layout \in AllLayouts /\ t.from \in Computers \cup {0}
      BY DEF LayoutTasks
    <2>2. (IF {x, t.from} \in g THEN 0 ELSE t.from) \in Computers \cup {0}
      BY <2>1
    <2> QED  BY <2>1, <2>2 DEF Task, LayoutTasks, LeftAs
  <1> HIDE DEF Left
  <1> QED  BY <1>1, <1>2 DEF TasksWere, TasksAreLeft

(* Sessions end; the computers of those that last keep their layouts.         *)
LEMMA Parting ==
  ASSUME LayoutInv, LayoutTypes', NEW g, Unlinked(g),
         \A x \in Computers : TasksWere(computed, g, x, computed'[x]),
         \A x, y \in Computers : {x, y} \in linked \ g =>
           /\ layout'[x] = layout[x]
           /\ TasksAreLeft(computed, g, x, computed'[x]) /\ TasksAreLeft(unsaved, g, x, unsaved'[x])
  PROVE  NoNewerInv' /\ FlowInv'
  <1> HIDE DEF Elements
  <1>0. LayoutTypes /\ NoNewerInv /\ FlowInv
    BY DEF LayoutInv
  <1>1. /\ linked' = linked \ g
        /\ owed' = {cd \in owed : {cd[1], cd[2]} \notin g} /\ untold' = {cd \in untold : {cd[1], cd[2]} \notin g}
        /\ \A x, y \in Computers : carried'[x][y] = IF {x, y} \in g THEN <<>> ELSE carried[x][y]
    BY DEF Unlinked
  <1>2. ASSUME NEW x \in Computers, NEW y \in Computers, NEW l, SentBy(x, y, l), {x, y} \notin g
        PROVE  SentBy(x, y, l)'
    BY <1>1, <1>2 DEF SentBy, at_least
  <1>3. NoNewerInv'
    <2>1. owed' \subseteq LinkedPairs'
      BY <1>0, <1>1 DEF NoNewerInv, LinkedPairs
    <2>2. ASSUME NEW x \in Computers, NEW y \in Computers, NEW l \in Elements(carried'[x][y]) PROVE SentBy(x, y, l)'
      <3>1. {x, y} \notin g /\ l \in Elements(carried[x][y])
        BY <1>1, <2>2, ElementsOfNone
      <3> QED  BY <1>0, <1>2, <3>1 DEF NoNewerInv
    <2>3. ASSUME NEW x \in Computers, NEW u \in computed'[x] PROVE Brought(x, u)'
      <3>1. PICK t \in computed[x] : LeftAs(x, g, t, u)
        BY DEF TasksWere
      <3>2. Brought(x, t) /\ {x, x} \notin linked /\ x # 0
        BY <1>0, ComputersAreNumbered DEF NoNewerInv
      <3>3. CASE t.from = x /\ t.layout.editor = x
        BY <3>1, <3>2, <3>3 DEF Brought, LeftAs
      <3>4. CASE t.from # x /\ (t.from = 0 \/ {x, t.from} \in g)
        BY <3>1, <3>2, <3>4 DEF Brought, LeftAs
      <3>5. CASE t.from # x /\ t.from \in Computers /\ SentBy(t.from, x, t.layout) /\ {x, t.from} \notin g
        <4>1. u.from = t.from /\ SentBy(u.from, x, u.layout)'
          BY <1>2, <3>1, <3>5 DEF LeftAs
        <4> QED  BY <3>2, <3>5, <4>1 DEF Brought
      <3> QED  BY <3>2, <3>3, <3>4, <3>5 DEF Brought
    <2>4. \A x \in Computers : {x, x} \notin linked'
      BY <1>0, <1>1 DEF NoNewerInv
    <2> QED  BY <2>1, <2>2, <2>3, <2>4 DEF NoNewerInv
  <1>4. ASSUME NEW x \in Computers, NEW y \in Computers, {x, y} \in linked' PROVE Conveyed(x, y)'
    <2>1. {x, y} \in linked /\ {x, y} \notin g /\ {y, x} \in linked \ g /\ x # y /\ Conveyed(x, y)
      BY <1>0, <1>1, <1>4 DEF FlowInv, NoNewerInv
    <2>2. /\ layout'[x] = layout[x] /\ layout'[y] = layout[y] /\ layout[y] \in AllLayouts
          /\ TasksAreLeft(unsaved, g, x, unsaved'[x]) /\ TasksAreLeft(computed, g, y, computed'[y])
      BY <1>0, <2>1 DEF LayoutTypes
    <2>3. Passes(x, y)
      <3>1. <<x, y>> \in owed => <<x, y>> \in owed'
        BY <1>1, <2>1
      <3>2. Withheld(x, y) => Withheld(x, y)'
        BY <1>1, <2>1 DEF Withheld
      <3>3. ASSUME Unsent(x, y) PROVE Unsent(x, y)'
        <4>1. PICK t \in unsaved[x] : t.from # y
          BY <3>3 DEF Unsent
        <4>2. PICK u \in unsaved'[x] : LeftAs(x, g, t, u)
          BY <2>2 DEF TasksAreLeft
        <4>3. u.from # y
          BY <4>1, <4>2, ComputersAreNumbered DEF LeftAs
        <4> QED  BY <3>3, <4>3 DEF Unsent
      <3>4. \A t \in computed[y] : \E u \in computed'[y] : u.layout = t.layout
        BY <2>2 DEF TasksAreLeft, LeftAs
      <3>5. carried'[x][y] = carried[x][y]
        BY <1>1, <2>1
      <3> QED  BY <3>1, <3>2, <3>3, <3>4, <3>5 DEF Passes
    <2>4. at_least(layout'[y], layout[y])
      BY <2>2, LayoutsAreOrdered
    <2> QED  BY <1>0, <2>1, <2>2, <2>3, <2>4, ConveyedStays
  <1> QED  BY <1>3, <1>4 DEF FlowInv

(* What an end of sessions leaves in the types.                              *)
LEMMA PartingTypes ==
  ASSUME LayoutTypes, NEW g, Unlinked(g), edits' = edits,
         layout' \in [Computers -> AllLayouts], stored' = stored,
         computed' \in [Computers -> SUBSET LayoutTasks], unsaved' \in [Computers -> SUBSET LayoutTasks]
  PROVE  LayoutTypes'
  <1>1. carried' \in [Computers -> [Computers -> Seq(AllLayouts)]]
    BY DEF Unlinked, LayoutTypes
  <1>2. breaks' \in Nat
    BY DEF Unlinked, Trouble, LayoutTypes
  <1> QED  BY <1>1, <1>2 DEF LayoutTypes

(* A session is lost with what it carried.                                   *)
LEMMA Disconnecting ==
  ASSUME LayoutInv, NEW c \in Computers, NEW d \in Computers, Disconnect(c, d)
  PROVE  LayoutInv'
  <1> HIDE DEF Elements
  <1> DEFINE g == {{c, d}}
  <1>0. LayoutTypes
    BY DEF LayoutInv
  <1>1. /\ Unlinked(g) /\ computed' = Orphaned(computed, g) /\ unsaved' = Orphaned(unsaved, g)
        /\ UNCHANGED <<layout, stored, twice, edits>>
    BY DEF Disconnect
  <1> HIDE DEF g
  <1>2. \A x \in Computers : TasksWere(computed, g, x, computed'[x]) /\ TasksAreLeft(computed, g, x, computed'[x])
    BY <1>0, <1>1, OrphansStay DEF LayoutTypes
  <1>3. \A x \in Computers : TasksWere(unsaved, g, x, unsaved'[x]) /\ TasksAreLeft(unsaved, g, x, unsaved'[x])
    BY <1>0, <1>1, OrphansStay DEF LayoutTypes
  <1>4. LayoutTypes'
    <2>1. \A x \in Computers : computed'[x] \subseteq LayoutTasks /\ unsaved'[x] \subseteq LayoutTasks
      BY <1>0, <1>1, OrphansStay DEF LayoutTypes
    <2>2. computed' \in [Computers -> SUBSET LayoutTasks] /\ unsaved' \in [Computers -> SUBSET LayoutTasks]
      BY <1>1, <2>1 DEF Orphaned
    <2> QED  BY <1>0, <1>1, <2>2, PartingTypes DEF LayoutTypes
  <1>5. NoNewerInv' /\ FlowInv'
    BY <1>1, <1>2, <1>3, <1>4, Parting
  <1>6. FirstInv'
    BY <1>1, <1>3 DEF LayoutInv, FirstInv, TasksWere, LeftAs
  <1>7. NamesInv'
    <2>1. LayoutsGrow /\ layout[c] \in AllLayouts
      BY <1>0, <1>1, LayoutsKept DEF LayoutTypes
    <2>2. ASSUME NEW m \in AllLayouts, Present(m)' PROVE Present(m)
      <3>1. PICK x \in Computers :
              \/ m = layout[x] \/ m = stored[x]
              \/ \E u \in unsaved'[x] : m = u.layout
              \/ \E u \in computed'[x] : u.from # x /\ m = u.layout
              \/ \E y \in Computers : m \in Elements(carried'[x][y])
        BY <1>1, <2>2 DEF Present
      <3>2. CASE \E u \in unsaved'[x] : m = u.layout
        <4>1. PICK u \in unsaved'[x] : m = u.layout
          BY <3>2
        <4>2. PICK t \in unsaved[x] : m = t.layout
          BY <1>3, <4>1 DEF TasksWere, LeftAs
        <4> QED  BY <4>2 DEF Present
      <3>3. CASE \E u \in computed'[x] : u.from # x /\ m = u.layout
        <4>1. PICK u \in computed'[x] : u.from # x /\ m = u.layout
          BY <3>3
        <4>2. PICK t \in computed[x] : LeftAs(x, g, t, u)
          BY <1>2 DEF TasksWere
        <4>3. t.from # x
          <5>1. {x, x} \notin linked /\ {c, d} \in linked
            BY DEF LayoutInv, NoNewerInv, Disconnect
          <5> QED  BY <4>1, <4>2, <5>1 DEF g, LeftAs
        <4> QED  BY <4>1, <4>2, <4>3 DEF Present, LeftAs
      <3>4. CASE \E y \in Computers : m \in Elements(carried'[x][y])
        <4>1. PICK y \in Computers : m \in Elements(carried'[x][y])
          BY <3>4
        <4>2. m \in Elements(carried[x][y])
          BY <1>1, <4>1, ElementsOfNone DEF Unlinked
        <4> QED  BY <4>2 DEF Present
      <3> QED  BY <3>1, <3>2, <3>3, <3>4 DEF Present
    <2>3. Joins(layout[c])
      BY <2>2 DEF Joins, Present
    <2> QED  BY <1>0, <1>4, <2>1, <2>3, NamesStay DEF LayoutInv
  <1> QED  BY <1>4, <1>5, <1>6, <1>7 DEF LayoutInv

(* A computer restarts with the layout it saved; what it kept since then, and *)
(* named itself, it forgets.                                                 *)
LEMMA Forgetting ==
  ASSUME LayoutInv, NEW c \in Computers, NEW l \in AllLayouts,
         l = IF stored[c] = NoLayout THEN FirstLayout(c, edits) ELSE stored[c]
  PROVE  /\ Lasting(c, l)
         /\ \A m \in AllLayouts :
              m.editor = c /\ at_least(layout[c], m) => at_least(l, m) \/ NameOf(m) \in Forgotten(c)
         /\ \/ Present(l)
            \/ /\ l.editor = c
               /\ \A m \in AllLayouts :
                    at_least(layout[c], m) /\ NameOf(m) = NameOf(l) => NameOf(m) \in Forgotten(c)
  <1> HIDE DEF Elements
  <1>0. layout[c] \in AllLayouts /\ stored[c] \in AllLayouts /\ edits \in Nat /\ c \in Nat /\ c # 0
    BY ComputersAreNumbered DEF LayoutInv, LayoutTypes
  <1>1. Lasting(c, l)
    BY <1>0, FirstIsLayout DEF LayoutInv, FirstInv
  <1>2. ASSUME NEW m \in AllLayouts, NEW n \in Nat, n = m.editor, n = c, at_least(layout[c], m),
               is_newer_than(m, stored[c])
        PROVE  NameOf(m) \in Forgotten(c)
    <2>1. ~is_newer_than(m, layout[c]) /\ m.version \in 0 .. layout[c].version
      BY <1>0, <1>2 DEF is_newer_than, at_least, AllLayouts
    <2> DEFINE k == [version |-> m.version, editor |-> c]
    <2>2. is_newer_than(k, stored[c]) /\ ~is_newer_than(k, layout[c])
      BY <1>2, <2>1 DEF is_newer_than
    <2> QED  BY <1>2, <2>1, <2>2 DEF NameOf, Forgotten
  <1>3. ASSUME NEW m \in AllLayouts, m.editor = c, at_least(layout[c], m), ~at_least(l, m)
        PROVE  NameOf(m) \in Forgotten(c)
    <2>1. is_newer_than(m, l) /\ at_least(l, NoLayout)
      BY <1>3, LayoutsAreOrdered
    <2>2. is_newer_than(m, stored[c])
      BY <2>1, <1>0 DEF is_newer_than, at_least, NoLayout, AllLayouts
    <2> QED  BY <1>0, <1>2, <1>3, <2>2
  <1>4. CASE stored[c] # NoLayout \/ c \notin Windows
    BY <1>1, <1>3, <1>4 DEF Present, FirstLayout
  <1>5. CASE stored[c] = NoLayout /\ c \in Windows
    <2>1. l.version = 1 /\ l.editor = c
      BY <1>5 DEF FirstLayout
    <2>2. ASSUME NEW m \in AllLayouts, at_least(layout[c], m), NameOf(m) = NameOf(l) PROVE NameOf(m) \in Forgotten(c)
      <3>1. m.version = 1 /\ m.editor = c
        BY <2>1, <2>2 DEF NameOf
      <3>2. is_newer_than(m, stored[c])
        BY <1>5, <3>1 DEF is_newer_than, NoLayout
      <3> QED  BY <1>0, <1>2, <2>2, <3>1, <3>2
    <2> QED  BY <1>1, <1>3, <2>1, <2>2
  <1> QED  BY <1>4, <1>5

LEMMA Restarting ==
  ASSUME LayoutInv, NEW c \in Computers, restore_layout(c)
  PROVE  LayoutInv'
  <1> HIDE DEF Elements
  <1> DEFINE g == {p \in linked : c \in p}
  <1>0. LayoutTypes /\ NamesInv
    BY DEF LayoutInv
  <1>1. PICK l \in AllLayouts : l = IF stored[c] = NoLayout THEN FirstLayout(c, edits) ELSE stored[c]
    BY <1>0, FirstIsLayout DEF LayoutTypes
  <1>2. /\ Unlinked(g) /\ stored' = stored /\ edits' = edits /\ twice' = twice \cup Forgotten(c)
        /\ layout' = [layout EXCEPT ![c] = l]
        /\ computed' = [Orphaned(computed, g) EXCEPT ![c] = {}]
        /\ unsaved' = [Orphaned(unsaved, g) EXCEPT ![c] = {}]
    BY <1>1 DEF restore_layout
  <1>3. /\ \A x, y \in Computers : {x, y} \in linked \ g => x # c
        /\ \A x \in Computers : {x, x} \notin g
    BY DEF LayoutInv, NoNewerInv
  <1> HIDE DEF g
  <1>4. \A x \in Computers :
          /\ layout'[x] = IF x = c THEN l ELSE layout[x]
          /\ computed'[x] = IF x = c THEN {} ELSE Orphaned(computed, g)[x]
          /\ unsaved'[x] = IF x = c THEN {} ELSE Orphaned(unsaved, g)[x]
    BY <1>0, <1>2 DEF LayoutTypes, Orphaned
  <1>5. \A x \in Computers :
          /\ TasksWere(computed, g, x, computed'[x]) /\ (x # c => TasksAreLeft(computed, g, x, computed'[x]))
          /\ TasksWere(unsaved, g, x, unsaved'[x]) /\ (x # c => TasksAreLeft(unsaved, g, x, unsaved'[x]))
          /\ computed'[x] \subseteq LayoutTasks /\ unsaved'[x] \subseteq LayoutTasks
    <2>1. computed \in [Computers -> SUBSET LayoutTasks] /\ unsaved \in [Computers -> SUBSET LayoutTasks]
      BY <1>0 DEF LayoutTypes
    <2>2. TasksWere(computed, g, c, {}) /\ TasksWere(unsaved, g, c, {})
      BY DEF TasksWere
    <2> QED  BY <1>4, <2>1, <2>2, OrphansStay
  <1>6. LayoutTypes'
    <2>1. computed' \in [Computers -> SUBSET LayoutTasks] /\ unsaved' \in [Computers -> SUBSET LayoutTasks]
      BY <1>2, <1>5 DEF Orphaned
    <2>2. layout' \in [Computers -> AllLayouts]
      BY <1>0, <1>2 DEF LayoutTypes
    <2> QED  BY <1>0, <1>2, <2>1, <2>2, PartingTypes
  <1>7. NoNewerInv' /\ FlowInv'
    <2>1. ASSUME NEW x \in Computers, NEW y \in Computers, {x, y} \in linked \ g
          PROVE  /\ layout'[x] = layout[x]
                 /\ TasksAreLeft(computed, g, x, computed'[x]) /\ TasksAreLeft(unsaved, g, x, unsaved'[x])
      BY <1>3, <1>4, <1>5, <2>1
    <2>2. \A x \in Computers : TasksWere(computed, g, x, computed'[x])
      BY <1>5
    <2> QED  BY <1>2, <1>6, <2>1, <2>2, Parting
  <1>8. FirstInv'
    <2>1. \A x \in Computers : \A u \in unsaved'[x] : \E t \in unsaved[x] : u.layout = t.layout
      BY <1>5 DEF TasksWere, LeftAs
    <2>2. Lasting(c, l)
      BY <1>1, Forgetting
    <2> QED  BY <1>2, <1>4, <2>1, <2>2 DEF LayoutInv, FirstInv
  <1>9. ASSUME NEW m \in AllLayouts, Present(m)' PROVE Present(m) \/ m = l
    <2>1. PICK x \in Computers :
            \/ m = layout'[x] \/ m = stored[x]
            \/ \E u \in unsaved'[x] : m = u.layout
            \/ \E u \in computed'[x] : u.from # x /\ m = u.layout
            \/ \E y \in Computers : m \in Elements(carried'[x][y])
      BY <1>2, <1>9 DEF Present
    <2>2. CASE m = layout'[x] \/ m = stored[x]
      BY <1>4, <2>2 DEF Present
    <2>3. CASE \E u \in unsaved'[x] : m = u.layout
      <3>1. PICK u \in unsaved'[x] : m = u.layout
        BY <2>3
      <3>2. PICK t \in unsaved[x] : m = t.layout
        BY <1>5, <3>1 DEF TasksWere, LeftAs
      <3> QED  BY <3>2 DEF Present
    <2>4. CASE \E u \in computed'[x] : u.from # x /\ m = u.layout
      <3>1. PICK u \in computed'[x] : u.from # x /\ m = u.layout
        BY <2>4
      <3>2. PICK t \in computed[x] : LeftAs(x, g, t, u)
        BY <1>5 DEF TasksWere
      <3>3. t.from # x /\ m = t.layout
        BY <1>3, <3>1, <3>2 DEF LeftAs
      <3> QED  BY <3>3 DEF Present
    <2>5. CASE \E y \in Computers : m \in Elements(carried'[x][y])
      <3>1. PICK y \in Computers : m \in Elements(carried'[x][y])
        BY <2>5
      <3>2. m \in Elements(carried[x][y])
        BY <1>2, <3>1, ElementsOfNone DEF Unlinked
      <3> QED  BY <3>2 DEF Present
    <2> QED  BY <2>1, <2>2, <2>3, <2>4, <2>5
  <1>10. NamesInv'
    <2>1. /\ \A m \in AllLayouts :
               m.editor = c /\ at_least(layout[c], m) => at_least(l, m) \/ NameOf(m) \in Forgotten(c)
          /\ \/ Present(l)
             \/ /\ l.editor = c
                /\ \A m \in AllLayouts :
                     at_least(layout[c], m) /\ NameOf(m) = NameOf(l) => NameOf(m) \in Forgotten(c)
      BY <1>1, Forgetting
    <2>2. ASSUME NEW m \in AllLayouts, Present(m) PROVE Named(m)'
      <3>1. Named(m)
        BY <1>0, <2>2 DEF NamesInv
      <3>2. ASSUME m.editor # 0
            PROVE  m.editor \in Computers /\ (NameOf(m) \in twice' \/ at_least(layout'[m.editor], m))
        <4>1. m.editor \in Computers /\ (NameOf(m) \in twice \/ at_least(layout[m.editor], m))
          BY <3>1, <3>2 DEF Named
        <4> QED  BY <1>2, <1>4, <2>1, <4>1
      <3>3. m.editor = 0 => m = NoLayout
        BY <3>1 DEF Named
      <3> QED  BY <3>2, <3>3 DEF Named, NoLayout, NameOf
    <2>3. Named(l)'
      <3>1. CASE Present(l)
        BY <2>2, <3>1
      <3>2. CASE l.editor = c
        <4>1. layout'[c] = l /\ at_least(l, l) /\ c # 0
          BY <1>4, ComputersAreNumbered, LayoutsAreOrdered
        <4>2. at_least(layout'[l.editor], l)
          BY <3>2, <4>1
        <4> QED  BY <3>2, <4>1, <4>2 DEF Named, NameOf
      <3> QED  BY <2>1, <3>1, <3>2
    <2>4. \A m \in AllLayouts : Present(m)' => Named(m)'
      BY <1>9, <2>2, <2>3
    <2>5. ASSUME NEW m \in AllLayouts, Present(m), NameOf(m) = NameOf(l), m # l PROVE NameOf(l) \in twice'
      <3>1. CASE Present(l)
        BY <1>0, <1>2, <2>5, <3>1 DEF NamesInv
      <3>2. CASE /\ l.editor = c
                 /\ \A n \in AllLayouts :
                      at_least(layout[c], n) /\ NameOf(n) = NameOf(l) => NameOf(n) \in Forgotten(c)
        <4>1. m.editor = c /\ c # 0
          BY <2>5, <3>2, ComputersAreNumbered DEF NameOf
        <4>2. NameOf(m) \in twice \/ at_least(layout[c], m)
          BY <1>0, <2>5, <4>1 DEF NamesInv, Named
        <4> QED  BY <1>2, <2>5, <3>2, <4>2
      <3> QED  BY <2>1, <3>1, <3>2
    <2>6. ASSUME NEW m \in AllLayouts, NEW n \in AllLayouts, Present(m)', Present(n)', NameOf(m) = NameOf(n), m # n
          PROVE  NameOf(m) \in twice'
      <3>1. CASE Present(m) /\ Present(n)
        BY <1>0, <1>2, <2>6, <3>1 DEF NamesInv
      <3> QED  BY <1>9, <2>5, <2>6, <3>1
    <2> QED  BY <2>4, <2>6 DEF NamesInv, NameOf
  <1> QED  BY <1>6, <1>7, <1>8, <1>10 DEF LayoutInv

(* A Mac keeps its edit at once.                                             *)
LEMMA Rearranging ==
  ASSUME LayoutInv, NEW c \in Computers, rearrange(c)
  PROVE  LayoutInv'
  <1>0. LayoutTypes
    BY DEF LayoutInv
  <1>1. next_version(c, c) \in AllLayouts /\ next_version(c, c).editor = c /\ is_newer_than(next_version(c, c), layout[c])
    BY <1>0, NextIsNewer
  <1>2. PICK t \in LayoutTasks : t.layout = next_version(c, c) /\ t.from = c /\ adopt(c, t)
    <2>1. Task(next_version(c, c), c) \in LayoutTasks
      BY <1>1 DEF Task, LayoutTasks
    <2> QED  BY <2>1 DEF rearrange, Task
  <1>3. /\ Brought(c, t) /\ is_newer_than(t.layout, layout[c]) /\ c \in Macs /\ edits' = edits + 1
        /\ UNCHANGED <<stored, computed, linked, carried, twice, untold, breaks>>
    BY <1>1, <1>2 DEF Brought, rearrange
  <1>4. LayoutTypes'
    BY <1>0, <1>2, <1>3 DEF LayoutTypes, adopt, LayoutTasks
  <1>5. /\ \A x \in Computers : computed'[x] \subseteq computed[x]
        /\ \A x \in Computers : \A u \in computed[x] : u \in computed'[x] \/ (x = c /\ u = t)
    BY <1>3
  <1> QED  BY <1>2, <1>3, <1>4, <1>5, Adopting

(* A task, or a Mac's app, keeps what it has if that is newer.               *)
LEMMA Keeping ==
  ASSUME LayoutInv, NEW c \in Linux \cup Macs, NEW t \in computed[c], keep_layout(c, t)
  PROVE  LayoutInv'
  <1>0. c \in Computers /\ LayoutTypes /\ NoNewerInv
    BY DEF LayoutInv, Computers
  <1>1. /\ computed' = [computed EXCEPT ![c] = @ \ {t}] /\ t \in LayoutTasks /\ Brought(c, t)
        /\ UNCHANGED <<stored, linked, carried, twice, untold, edits, breaks>>
    BY <1>0 DEF keep_layout, LayoutTypes, NoNewerInv
  <1>2. CASE is_newer_than(t.layout, layout[c]) /\ adopt(c, t)
    <2>1. LayoutTypes'
      <3>1. layout' \in [Computers -> AllLayouts] /\ unsaved' \in [Computers -> SUBSET LayoutTasks]
        BY <1>0, <1>1, <1>2 DEF LayoutTypes, adopt, LayoutTasks
      <3>2. computed' \in [Computers -> SUBSET LayoutTasks]
        BY <1>0, <1>1 DEF LayoutTypes
      <3> QED  BY <1>0, <1>1, <3>1, <3>2 DEF LayoutTypes
    <2>2. /\ \A x \in Computers : computed'[x] \subseteq computed[x]
          /\ \A x \in Computers : \A u \in computed[x] : u \in computed'[x] \/ (x = c /\ u = t)
      BY <1>0, <1>1 DEF LayoutTypes
    <2> QED  BY <1>1, <1>2, <2>1, <2>2, Adopting
  <1>3. CASE ~is_newer_than(t.layout, layout[c])
    <2>1. UNCHANGED <<layout, unsaved, owed>>
      BY <1>3 DEF keep_layout
    <2> QED  BY <1>0, <1>1, <1>3, <2>1, Dropping
  <1> QED  BY <1>2, <1>3 DEF keep_layout

(* A step of the shared layout keeps its invariant.                          *)
LEMMA LayoutStep == LayoutInv /\ LayoutNext => LayoutInv'
  <1> SUFFICES ASSUME LayoutInv, LayoutNext PROVE LayoutInv'  OBVIOUS
  <1>1. PICK c \in Computers :
          \/ move_tile(c) \/ layout_or_initial(c) \/ rearrange(c) \/ arrange(c) \/ restore_layout(c)
          \/ \E t \in computed[c] : keep_layout(c, t)
          \/ \E t \in unsaved[c] : save_layout(c, t)
          \/ \E d \in Computers \ {c} :
               \/ offer_layout(c, d) \/ merge_layout(c, d) \/ WindowsLayout(c, d) \/ FitPeerTile(c, d)
               \/ Connect(c, d) \/ Disconnect(c, d)
    BY DEF LayoutNext
  <1>2. CASE move_tile(c) \/ layout_or_initial(c)
    BY <1>2, Computing
  <1>3. CASE rearrange(c)
    BY <1>3, Rearranging
  <1>4. CASE arrange(c) \/ \E d \in Computers : FitPeerTile(c, d)
    BY <1>4, WindowsEditing
  <1>5. CASE restore_layout(c)
    BY <1>5, Restarting
  <1>6. ASSUME NEW t \in computed[c], keep_layout(c, t) PROVE LayoutInv'
    <2>1. c \in Linux \cup Macs
      BY DEF LayoutInv, NoNewerInv, Brought
    <2> QED  BY <1>6, <2>1, Keeping
  <1>7. ASSUME NEW t \in unsaved[c], save_layout(c, t) PROVE LayoutInv'
    BY <1>7, Saving
  <1>8. ASSUME NEW d \in Computers \ {c}, offer_layout(c, d) PROVE LayoutInv'
    BY <1>8, Offering
  <1>9. ASSUME NEW d \in Computers \ {c}, merge_layout(c, d) \/ WindowsLayout(c, d) PROVE LayoutInv'
    BY <1>9, Taking
  <1>10. ASSUME NEW d \in Computers \ {c}, Connect(c, d) PROVE LayoutInv'
    BY <1>10, Connecting
  <1>11. ASSUME NEW d \in Computers \ {c}, Disconnect(c, d) PROVE LayoutInv'
    BY <1>11, Disconnecting
  <1> QED  BY <1>1, <1>2, <1>3, <1>4, <1>5, <1>6, <1>7, <1>8, <1>9, <1>10, <1>11

(* A step of something else keeps it.                                        *)
LEMMA LayoutUntouched == LayoutInv /\ UNCHANGED layoutVars => LayoutInv'
  <1> SUFFICES ASSUME LayoutInv, UNCHANGED layoutVars PROVE LayoutInv'  OBVIOUS
  <1> HIDE DEF Elements
  <1> USE DEF LayoutInv, layoutVars
  <1>1. LayoutTypes'
    BY DEF LayoutTypes
  <1>2. FirstInv'
    BY DEF FirstInv
  <1>3. NamesInv'
    BY DEF NamesInv, Present, Named
  <1>4. NoNewerInv'
    BY DEF NoNewerInv, Brought, SentBy, LinkedPairs
  <1>5. FlowInv'
    BY DEF FlowInv, Conveyed, Withheld, Unsent
  <1> QED  BY <1>1, <1>2, <1>3, <1>4, <1>5

(* Once nothing is on its way, each of two connected computers keeps a layout *)
(* as new as the other's, and so one of the same name.                       *)
LEMMA QuietMeansAgreed == LayoutInv => VersionNamesLayout /\ ConnectedAgree
  <1> SUFFICES ASSUME LayoutInv PROVE VersionNamesLayout /\ ConnectedAgree  OBVIOUS
  <1> HIDE DEF Elements
  <1> USE DEF LayoutInv
  <1>0. \A c \in Computers : layout[c] \in AllLayouts /\ Present(layout[c])
    BY DEF LayoutTypes, Present
  <1>1. VersionNamesLayout
    BY <1>0 DEF VersionNamesLayout, NamesInv
  <1>2. ASSUME Settles, NEW c \in Computers, NEW d \in Computers, {c, d} \in linked, <<c, d>> \notin untold
        PROVE  at_least(layout[d], layout[c])
    <2>1. Elements(carried[c][d]) = {} /\ owed = {} /\ unsaved[c] = {} /\ computed[d] = {}
      BY <1>2, ElementsOfNone DEF Settles
    <2>2. Conveyed(c, d)
      BY <1>2 DEF FlowInv
    <2> QED  BY <1>2, <2>1, <2>2 DEF Conveyed, Withheld, Unsent
  <1>3. ASSUME Settles, NEW c \in Computers, NEW d \in Computers, {c, d} \in linked,
               <<c, d>> \notin untold, <<d, c>> \notin untold
        PROVE  NameOf(layout[c]) = NameOf(layout[d])
    <2>1. {d, c} \in linked
      BY <1>3
    <2>2. at_least(layout[d], layout[c]) /\ at_least(layout[c], layout[d])
      BY <1>2, <1>3, <2>1
    <2> QED  BY <1>0, <2>2 DEF AllLayouts, at_least, NameOf
  <1>4. ConnectedAgree
    BY <1>3 DEF ConnectedAgree
  <1> QED  BY <1>1, <1>4

(* For any computers, pairs and edits: however layouts are edited at both    *)
(* ends, computed, kept, saved and sent late, not saved at all, or lost with  *)
(* a session or a restart, connected computers keep layouts of one name once *)
(* nothing is on its way, and a name is one layout's; but for what Windows   *)
(* could not save, and for the names it gave in another's stead or a restart *)
(* forgot (daemon.rs, macos/link.rs, windows/engine.rs).                     *)
THEOREM LayoutConvergesAlways == MCSpec => []LayoutConverges
  <1>1. MCInit => LayoutHolds
    BY LayoutStarts DEF MCInit, LayoutHolds
  <1>2. LayoutHolds /\ [MCNext]_plumbingVars => LayoutHolds'
    BY OnePartRuns, LayoutStep, LayoutUntouched DEF LayoutHolds
  <1>3. LayoutHolds => LayoutConverges
    BY QuietMeansAgreed DEF LayoutHolds, LayoutConverges
  <1> QED  BY <1>1, <1>2, <1>3, PTL DEF MCSpec, plumbingVars
=============================================================================
