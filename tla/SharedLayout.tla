---------------------------- MODULE SharedLayout ----------------------------
(***************************************************************************)
(* The arrangement that paired computers keep in common: merge_layout,      *)
(* keep_layout and the edits of daemon.rs, LayoutRoute of macos/link.rs     *)
(* with take_layout of app/native.rs, and the layout messages of            *)
(* windows/engine.rs.  A layout is its version, its editor and what it      *)
(* shows, a number that every edit draws afresh.  What a Mac's app was sent  *)
(* is a set and not a queue.                                                *)
(***************************************************************************)
EXTENDS Naturals, Sequences, FiniteSets

CONSTANTS
  Linux, Macs, Windows,  \* the computers, by the program they run; numbered, as keys are ordered
  Pairs,                 \* the pairs that may connect
  MaxEdits,              \* bound: edits, and sessions that start, over a run
  MaxBreaks              \* bound: sessions lost, saves that fail and restarts over a run

ASSUME SharedLayoutAssumption ==
  /\ Linux \cup Macs \cup Windows \subseteq Nat \ {0}
  /\ Pairs \subseteq {{c, d} : c, d \in Linux \cup Macs \cup Windows}
  /\ MaxEdits \in Nat /\ MaxBreaks \in Nat

VARIABLES
  layout,    \* the layout each computer keeps
  stored,    \* the layout each computer saved
  computed,  \* what Linux tasks, or a Mac's app, are about to keep
  unsaved,   \* what they keep and have not saved yet
  linked,    \* pairs with a session
  owed,      \* pairs <<c, d>>: c is about to send d the layout it keeps then
  carried,   \* layouts on their way from c to d
  twice,     \* names that may be given to two layouts
  untold,    \* pairs <<c, d>>: c, a Windows computer, did not send d what it failed to save
  edits,     \* how many edits, and sessions started, there were
  breaks     \* how many sessions were lost, saves failed, and restarts

layoutVars == <<layout, stored, computed, unsaved, linked, owed, carried, twice, untold, edits, breaks>>

Computers == Linux \cup Macs \cup Windows
LinkedPairs == {cd \in Computers \X Computers : {cd[1], cd[2]} \in linked}

NoLayout == [version |-> 0, editor |-> 0, shows |-> 0]

(* What a computer starts with that saved none: Windows has one at once.     *)
FirstLayout(c, shows) == IF c \in Windows THEN [version |-> 1, editor |-> c, shows |-> shows] ELSE NoLayout

LayoutInit ==
  /\ layout = [c \in Computers |-> FirstLayout(c, 0)] /\ stored = [c \in Computers |-> NoLayout]
  /\ computed = [c \in Computers |-> {}] /\ unsaved = [c \in Computers |-> {}]
  /\ linked = {} /\ owed = {} /\ twice = {} /\ untold = {}
  /\ carried = [c \in Computers |-> [d \in Computers |-> <<>>]]
  /\ edits = 0 /\ breaks = 0

is_newer_than(l, m) ==
  l.version > m.version \/ (l.version = m.version /\ l.editor > m.editor)

next_version(c, editor) == [version |-> layout[c].version + 1, editor |-> editor, shows |-> edits + 1]

(* A task's layout, and whose session it came by: a computer's own for its   *)
(* edits, 0 for a session that is gone.                                      *)
Task(l, from) == [layout |-> l, from |-> from]

-----------------------------------------------------------------------------
others_Nobody(c, from) == {}

(* Every session but the one a layout came from.                             *)
others(c, from) == {cd \in LinkedPairs : cd[1] = c /\ cd[2] # from}

(* keep_layout up to the save: Linux sets the layout and leaves the lock, a  *)
(* Mac shares it with its links.                                             *)
adopt(c, t) ==
  /\ layout' = [layout EXCEPT ![c] = t.layout]
  /\ unsaved' = [unsaved EXCEPT ![c] = @ \cup {t}]
  /\ owed' = IF c \in Macs THEN owed \cup others(c, t.from) ELSE owed

(* A Mac's app has one thread, which saves before it does anything else.     *)
AppIsFree(c) == c \in Macs => unsaved[c] = {}

(* Another task may have kept a newer one first.                             *)
keep_layout(c, t) ==
  /\ t \in computed[c] /\ AppIsFree(c) /\ computed' = [computed EXCEPT ![c] = @ \ {t}]
  /\ IF is_newer_than(t.layout, layout[c]) THEN adopt(c, t) ELSE UNCHANGED <<layout, unsaved, owed>>
  /\ UNCHANGED <<stored, linked, carried, twice, untold, edits, breaks>>

Trouble == breaks < MaxBreaks /\ breaks' = breaks + 1

(* A save that fails is warned of. Tasks on Linux save in any order, and     *)
(* only then send to the sessions there are.                                 *)
save_layout(c, t) ==
  /\ t \in unsaved[c] /\ unsaved' = [unsaved EXCEPT ![c] = @ \ {t}]
  /\ \/ stored' = [stored EXCEPT ![c] = t.layout] /\ UNCHANGED breaks
     \/ UNCHANGED stored /\ Trouble
  /\ owed' = IF c \in Linux THEN owed \cup others(c, t.from) ELSE owed
  /\ UNCHANGED <<layout, computed, linked, carried, twice, untold, edits>>

(* move_tile, place_new_peers, fit_own_tile and move_reinstalled_tiles read  *)
(* the layout, compute the next version and keep it later.                   *)
move_tile(c) ==
  /\ edits < MaxEdits /\ edits' = edits + 1 /\ c \in Linux /\ layout[c] # NoLayout
  /\ computed' = [computed EXCEPT ![c] = @ \cup {Task(next_version(c, c), c)}]
  /\ UNCHANGED <<layout, stored, unsaved, linked, owed, carried, twice, untold, breaks>>

(* layout_or_initial: version 0, or 1 once this computer's displays are in.  *)
layout_or_initial(c) ==
  /\ c \in Linux /\ layout[c] = NoLayout /\ edits < MaxEdits /\ edits' = edits + 1
  /\ \E v \in {0, 1} : computed' =
       [computed EXCEPT ![c] = @ \cup {Task([version |-> v, editor |-> c, shows |-> edits + 1], c)}]
  /\ UNCHANGED <<layout, stored, unsaved, linked, owed, carried, twice, untold, breaks>>

(* A Mac's app computes and keeps it at once.                                *)
rearrange(c) ==
  /\ edits < MaxEdits /\ edits' = edits + 1
  /\ c \in Macs /\ AppIsFree(c) /\ adopt(c, Task(next_version(c, c), c))
  /\ UNCHANGED <<stored, computed, linked, carried, twice, untold, breaks>>

(* save_layout of the Windows engine: it sends nothing if the save fails.    *)
WindowsKeeps(c, l) ==
  /\ layout' = [layout EXCEPT ![c] = l]
  /\ \/ /\ stored' = [stored EXCEPT ![c] = l] /\ owed' = owed \cup others(c, c)
        /\ untold' = {cd \in untold : cd[1] # c} /\ UNCHANGED breaks
     \/ UNCHANGED <<stored, owed>> /\ untold' = untold \cup others(c, c) /\ Trouble

arrange(c) ==
  /\ edits < MaxEdits /\ edits' = edits + 1
  /\ c \in Windows /\ WindowsKeeps(c, next_version(c, c))
  /\ UNCHANGED <<computed, unsaved, linked, carried, twice>>

NameOf(l) == <<l.version, l.editor>>

(* Windows writes the size of a computer that just connected, as an edit of  *)
(* that computer: with_geometry names its key as the editor.                 *)
FitPeerTile(c, d) ==
  /\ edits < MaxEdits /\ edits' = edits + 1
  /\ c \in Windows /\ <<c, d>> \in LinkedPairs /\ WindowsKeeps(c, next_version(c, d))
  /\ twice' = twice \cup {NameOf(next_version(c, d))}
  /\ UNCHANGED <<computed, unsaved, linked, carried>>

-----------------------------------------------------------------------------
(* offer_layout, LayoutRoute::offer and send_layout.                         *)
offer_layout(c, d) ==
  /\ <<c, d>> \in owed /\ owed' = owed \ {<<c, d>>}
  /\ carried' = IF layout[c] = NoLayout THEN carried
                ELSE [carried EXCEPT ![c][d] = Append(@, layout[c])]
  /\ UNCHANGED <<layout, stored, computed, unsaved, linked, twice, untold, edits, breaks>>

Take(c, d) == carried[d][c] # <<>> /\ carried' = [carried EXCEPT ![d][c] = Tail(@)]

(* merge_layout and LayoutRoute::take: a newer layout is to be kept; a peer  *)
(* with an older one gets this one back.                                     *)
merge_layout(c, d) ==
  LET l == Head(carried[d][c]) IN
  /\ c \notin Windows /\ Take(c, d)
  /\ IF is_newer_than(l, layout[c])
     THEN computed' = [computed EXCEPT ![c] = @ \cup {Task(l, d)}] /\ UNCHANGED owed
     ELSE /\ owed' = IF is_newer_than(layout[c], l) THEN owed \cup {<<c, d>>} ELSE owed
          /\ UNCHANGED computed
  /\ UNCHANGED <<layout, stored, unsaved, linked, twice, untold, edits, breaks>>

(* Windows sends what it adopts to everyone, and nothing back.               *)
WindowsLayout(c, d) ==
  LET l == Head(carried[d][c]) IN
  /\ c \in Windows /\ Take(c, d)
  /\ IF is_newer_than(l, layout[c]) THEN WindowsKeeps(c, l)
     ELSE UNCHANGED <<layout, stored, owed, untold, breaks>>
  /\ UNCHANGED <<computed, unsaved, linked, twice, edits>>

(* A session starts: each side sends the layout it keeps.                    *)
Connect(c, d) ==
  /\ edits < MaxEdits /\ edits' = edits + 1
  /\ {c, d} \in Pairs \ linked /\ linked' = linked \cup {{c, d}}
  /\ owed' = owed \cup {<<c, d>>, <<d, c>>}
  /\ UNCHANGED <<layout, stored, computed, unsaved, carried, twice, untold, breaks>>

Unlinked(gone) ==
  /\ linked' = linked \ gone /\ Trouble
  /\ owed' = {cd \in owed : {cd[1], cd[2]} \notin gone}
  /\ untold' = {cd \in untold : {cd[1], cd[2]} \notin gone}
  /\ carried' = [c \in Computers |-> [d \in Computers |-> IF {c, d} \in gone THEN <<>> ELSE carried[c][d]]]

(* A layout's session is left out by its number: a new one is not it.        *)
Orphaned(tasks, gone) ==
  [c \in Computers |-> {Task(t.layout, IF {c, t.from} \in gone THEN 0 ELSE t.from) : t \in tasks[c]}]

Disconnect(c, d) ==
  /\ {c, d} \in linked /\ Unlinked({{c, d}})
  /\ computed' = Orphaned(computed, {{c, d}}) /\ unsaved' = Orphaned(unsaved, {{c, d}})
  /\ UNCHANGED <<layout, stored, twice, edits>>

(* Names of its own layouts, newer than the one it saved, which a restarted  *)
(* computer gives again.                                                     *)
Forgotten(c) ==
  {n \in (0 .. layout[c].version) \X {c} :
     LET l == [version |-> n[1], editor |-> n[2]] IN
     is_newer_than(l, stored[c]) /\ ~is_newer_than(l, layout[c])}

(* restore_layout, after the program ended anywhere.                         *)
restore_layout(c) ==
  LET gone == {p \in linked : c \in p} IN
  /\ Unlinked(gone)
  /\ layout' = [layout EXCEPT ![c] = IF stored[c] = NoLayout THEN FirstLayout(c, edits) ELSE stored[c]]
  /\ computed' = [Orphaned(computed, gone) EXCEPT ![c] = {}]
  /\ unsaved' = [Orphaned(unsaved, gone) EXCEPT ![c] = {}]
  /\ twice' = twice \cup Forgotten(c)
  /\ UNCHANGED <<stored, edits>>

LayoutNext ==
  \E c \in Computers :
    \/ move_tile(c) \/ layout_or_initial(c) \/ rearrange(c) \/ arrange(c) \/ restore_layout(c)
    \/ \E t \in computed[c] : keep_layout(c, t)
    \/ \E t \in unsaved[c] : save_layout(c, t)
    \/ \E d \in Computers \ {c} :
         \/ offer_layout(c, d) \/ merge_layout(c, d) \/ WindowsLayout(c, d) \/ FitPeerTile(c, d)
         \/ Connect(c, d) \/ Disconnect(c, d)

-----------------------------------------------------------------------------
(* Version and editor name one layout, unless the name was given in another  *)
(* computer's stead or forgotten in a restart: is_newer_than answers no both *)
(* ways for two layouts that share their name, and computers that keep       *)
(* different ones stay apart.                                                *)
VersionNamesLayout ==
  \A c, d \in Computers :
    NameOf(layout[c]) = NameOf(layout[d]) /\ NameOf(layout[c]) \notin twice => layout[c] = layout[d]

(* Once nothing is on its way, connected computers keep layouts of one name, *)
(* whatever was edited, lost, saved late or not at all, or restarted         *)
(* meanwhile; but for what a Windows computer could not save and so did not  *)
(* send.                                                                     *)
Settles ==
  /\ owed = {}
  /\ \A c \in Computers :
       computed[c] = {} /\ unsaved[c] = {} /\ \A d \in Computers : carried[c][d] = <<>>

ConnectedAgree ==
  Settles =>
    \A c, d \in Computers :
      {c, d} \in linked /\ <<c, d>> \notin untold /\ <<d, c>> \notin untold
        => NameOf(layout[c]) = NameOf(layout[d])
=============================================================================
