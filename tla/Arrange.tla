------------------------------ MODULE Arrange ------------------------------
(***************************************************************************)
(* How one computer comes to trust others: the records and hellos it sees   *)
(* (neighbors.rs), the pairing window of a fresh install                    *)
(* (pairing_window.rs), the once-a-second tick that joins a lone stranger   *)
(* or one a peer placed (daemon/arrange.rs), the person who places, forgets *)
(* and replaces computers (hello.rs, forgotten.rs), and a restart at any    *)
(* point between two saves.                                                 *)
(***************************************************************************)
EXTENDS Naturals, FiniteSets

CONSTANTS
  Keys, Name,     \* the other computers' keys, and the name each gives
  Records,        \* mDNS records and added addresses
  MAX_NEIGHBORS,  \* room in the table of neighbours
  MaxMoves        \* bound: what people do, and restarts

ASSUME ArrangeAssumption == MAX_NEIGHBORS \in Nat /\ MaxMoves \in Nat

VARIABLES
  recs,      \* Neighbors.instances: the key a record proved and its asking
  nb,        \* Neighbors.neighbors: keys a hello proved, fresh or not
  turned,    \* Neighbors.turned_away
  peers,     \* config.peers, saved
  forgotten, \* Forgotten.keys, saved
  tiles,     \* keys with a tile in the layout peers keep
  phase,     \* PairingWindow.phase
  file,      \* the pairing-window file
  holding,   \* PairingWindow.holding, and whether HOLD_OFF has passed
  task,      \* look_around waiting for config_mutation
  met,       \* untrusted keys whose hello the open window has yet to forget
  auto,      \* keys the window took by itself, over every restart
  moves      \* moves so far

arrangeVars == <<recs, nb, turned, peers, forgotten, tiles, phase, file, holding, task, met, auto, moves>>

NoKey == "none"
Absent == [key |-> NoKey, ask |-> "absent"]
Nothing == [key |-> NoKey, ripe |-> FALSE]
NoTask == [what |-> "none", key |-> NoKey]

(* A fresh install: setup called mark_eligible. *)
ArrangeInit ==
  /\ recs = [r \in Records |-> Absent] /\ nb = [k \in Keys |-> "unknown"] /\ turned = FALSE
  /\ peers = {} /\ forgotten = {} /\ tiles = {}
  /\ phase = "Eligible" /\ file = "eligible" /\ holding = Nothing /\ task = NoTask
  /\ met = {} /\ auto = {} /\ moves = 0

-----------------------------------------------------------------------------
(* Neighbors. *)

known == {k \in Keys : nb[k] # "unknown"}
mapped == {recs[r].key : r \in Records} \ {NoKey}
answered(k) == k \in mapped
untrusted == known \ peers
(* What closes the window: more than one stranger, or one turned away. *)
rival == Cardinality(untrusted) > 1 \/ turned
duplicate_name(k) == \E o \in (untrusted \cup peers) \ {k} : Name[o] = Name[k]

(* instance_seen and add_address: a new record, or one whose addresses       *)
(* changed, is due a hello; a full table turns it away.                      *)
instance_seen(r) ==
  /\ \/ recs' = [recs EXCEPT ![r].ask = "due"] /\ UNCHANGED turned
     \/ recs[r].ask = "absent" /\ turned' = TRUE /\ UNCHANGED recs
  /\ UNCHANGED <<nb, peers, forgotten, tiles, phase, file, holding, task, met, auto, moves>>

instance_gone(r) ==
  /\ recs' = [recs EXCEPT ![r] = Absent]
  /\ UNCHANGED <<nb, turned, peers, forgotten, tiles, phase, file, holding, task, met, auto, moves>>

(* take_due_hellos and keep_fresh; no_answer asks again later. *)
say_hello(r) ==
  /\ \/ recs[r].ask = "due" /\ recs' = [recs EXCEPT ![r].ask = "asked"]
     \/ recs[r].ask = "asked" /\ recs' = [recs EXCEPT ![r].ask = "due"]
     \/ recs[r].ask = "answered" /\ phase = "Open" /\ recs' = [recs EXCEPT ![r].ask = "due"]
  /\ UNCHANGED <<nb, turned, peers, forgotten, tiles, phase, file, holding, task, met, auto, moves>>

hello_Unnoted(k) ==
  /\ nb' = IF k \in known \/ Cardinality(known) < MAX_NEIGHBORS THEN [nb EXCEPT ![k] = "fresh"] ELSE nb
  /\ UNCHANGED turned

(* A hello proved key k: it becomes a neighbour if there is room, and a full *)
(* table is remembered for good.                                             *)
hello(k) ==
  LET room == k \in known \/ Cardinality(known) < MAX_NEIGHBORS IN
  /\ nb' = IF room THEN [nb EXCEPT ![k] = "fresh"] ELSE nb
  /\ turned' = (turned \/ ~room)

Met(k) == met' = IF phase = "Open" /\ task = NoTask /\ k \notin peers THEN met \cup {k} ELSE met

(* The hello a record was asked for came back, or one arrived by itself.     *)
HelloBack(r, k) ==
  /\ recs[r].ask = "asked"
  /\ recs' = [recs EXCEPT ![r] = [key |-> k, ask |-> "answered"]]
  /\ hello(k) /\ Met(k)
  /\ UNCHANGED <<peers, forgotten, tiles, phase, file, holding, task, auto, moves>>

answer_hello(k) ==
  /\ hello(k) /\ Met(k)
  /\ UNCHANGED <<recs, peers, forgotten, tiles, phase, file, holding, task, auto, moves>>

(* FRESH_HELLO passes, then NEIGHBOR_TTL, which expire applies to a key no   *)
(* record leads to.  That is many ticks, each of which closes a window with  *)
(* a rival.                                                                  *)
expire(k) ==
  /\ \/ nb[k] = "fresh" /\ nb' = [nb EXCEPT ![k] = "stale"] /\ UNCHANGED met
     \/ /\ nb[k] = "stale" /\ ~answered(k) /\ (phase = "Open" => ~rival)
        /\ nb' = [nb EXCEPT ![k] = "unknown"] /\ met' = met \ {k}
  /\ UNCHANGED <<recs, turned, peers, forgotten, tiles, phase, file, holding, task, auto, moves>>

-----------------------------------------------------------------------------
(* PairingWindow. *)

(* A save may fail: the file then keeps what it said. *)
Save(text) == file' \in {text, file}

CloseWindow == phase' = "Closed" /\ holding' = Nothing /\ Save("closed")

(* A person is at this computer.  The file says open before the window is.   *)
open ==
  /\ phase = "Eligible" /\ moves < MaxMoves /\ moves' = moves + 1
  /\ \/ peers # {} /\ CloseWindow
     \/ peers = {} /\ file' = "open" /\ phase' = "Open" /\ UNCHANGED holding
     \/ peers = {} /\ phase' = "Never" /\ UNCHANGED <<file, holding>>
  /\ met' = {}
  /\ UNCHANGED <<recs, nb, turned, peers, forgotten, tiles, task, auto>>

placed == IF phase \in {"Eligible", "Open"} THEN CloseWindow ELSE UNCHANGED <<phase, file, holding>>

not_added == IF phase = "Open" THEN CloseWindow ELSE UNCHANGED <<phase, file, holding>>

Candidate ==
  LET unidentified == \E r \in Records : recs[r].ask # "absent" /\ recs[r].key = NoKey IN
  IF \E k \in untrusted : untrusted = {k} /\ ~unidentified /\ answered(k) /\ nb[k] = "fresh" /\ ~duplicate_name(k)
  THEN CHOOSE k \in untrusted : TRUE ELSE NoKey

(* look_around: the window's tick, then join or introduce.  HOLD_OFF passes  *)
(* between ticks that find the same candidate.                               *)
LookAround ==
  /\ task = NoTask
  /\ \/ /\ phase = "Open" /\ CloseWindow  \* OPEN_FOR is over
        /\ UNCHANGED task
     \/ /\ phase = "Open" /\ rival /\ CloseWindow /\ UNCHANGED task
     \/ /\ phase = "Open" /\ ~rival /\ holding.key # Candidate
        /\ holding' = [key |-> Candidate, ripe |-> FALSE] /\ UNCHANGED <<phase, file, task>>
     \/ /\ phase = "Open" /\ ~rival /\ holding.key = Candidate /\ Candidate # NoKey
        /\ holding' = [holding EXCEPT !.ripe = TRUE] /\ UNCHANGED <<phase, file>>
        /\ task' = IF holding.ripe THEN [what |-> "join", key |-> Candidate] ELSE NoTask
     \/ /\ phase # "Open" /\ UNCHANGED <<phase, file, holding>>
        /\ \E k \in untrusted : /\ answered(k) /\ k \notin forgotten /\ k \in tiles
                                /\ task' = [what |-> "introduce", key |-> k]
  /\ UNCHANGED <<recs, nb, turned, peers, forgotten, tiles, met, auto, moves>>

-----------------------------------------------------------------------------
(* Trust, under config_mutation. *)

(* The saved configuration, or an error that leaves it as it was. *)
Trust(k, over) ==
  /\ k \in known /\ k \notin peers
  /\ peers' = (peers \ over) \cup {k}
  /\ forgotten' \in {forgotten \ {k}, forgotten}
  /\ tiles' = (tiles \ over) \cup {k}
  /\ placed

(* A person may have placed a computer while this waited. *)
join_allowed(k) == phase = "Open"

join ==
  /\ task.what = "join" /\ task' = NoTask
  /\ \/ /\ join_allowed(task.key) /\ Trust(task.key, {})
        /\ auto' = auto \cup {task.key}
     \/ /\ join_allowed(task.key) /\ not_added /\ UNCHANGED <<peers, forgotten, tiles, auto>>
     \/ /\ ~join_allowed(task.key) /\ UNCHANGED <<phase, file, holding, peers, forgotten, tiles, auto>>
  /\ UNCHANGED <<recs, nb, turned, met, moves>>

introduce ==
  /\ task.what = "introduce" /\ task' = NoTask
  /\ \/ Trust(task.key, {})
     \/ UNCHANGED <<phase, file, holding, peers, forgotten, tiles>>
  /\ UNCHANGED <<recs, nb, turned, met, auto, moves>>

(* A person drops k's tile on the board, or on the tile of a namesake, which *)
(* replaces that computer's key.                                             *)
place(k) ==
  /\ moves < MaxMoves /\ moves' = moves + 1
  /\ \/ Trust(k, {})
     \/ \E old \in peers : Name[old] = Name[k] /\ Trust(k, {old})
  /\ UNCHANGED <<recs, nb, turned, task, met, auto>>

(* RevokePeer: remembered as forgotten, then saved without it; the second    *)
(* save may fail.                                                            *)
forget(k) ==
  /\ k \in peers /\ moves < MaxMoves /\ moves' = moves + 1
  /\ forgotten' = forgotten \cup {k}
  /\ \/ peers' = peers \ {k} /\ tiles' = tiles \ {k}
     \/ UNCHANGED <<peers, tiles>>
  /\ UNCHANGED <<recs, nb, turned, phase, file, holding, task, met, auto>>

(* A peer's layout arrives with a tile for k. *)
PeerPlaces(k) ==
  /\ peers \ {k} # {} /\ k \notin tiles
  /\ tiles' = tiles \cup {k}
  /\ UNCHANGED <<recs, nb, turned, peers, forgotten, phase, file, holding, task, met, auto, moves>>

load_Reopens(text) == IF text = "eligible" THEN "Eligible" ELSE IF text = "open" THEN "Open" ELSE "Closed"

(* A window still open when the program stopped comes back closed. *)
load(text) == IF text = "eligible" THEN "Eligible" ELSE "Closed"

Restart ==
  /\ moves < MaxMoves /\ moves' = moves + 1
  /\ phase' = load(file) /\ (IF file = "open" THEN Save("closed") ELSE UNCHANGED file)
  /\ recs' = [r \in Records |-> Absent] /\ nb' = [k \in Keys |-> "unknown"] /\ turned' = FALSE
  /\ holding' = Nothing /\ task' = NoTask /\ met' = {}
  /\ UNCHANGED <<peers, forgotten, tiles, auto>>

ArrangeNext ==
  \/ \E r \in Records : instance_seen(r) \/ instance_gone(r) \/ say_hello(r)
  \/ \E r \in Records, k \in Keys : HelloBack(r, k)
  \/ \E k \in Keys : answer_hello(k) \/ expire(k) \/ place(k) \/ forget(k) \/ PeerPlaces(k)
  \/ open \/ LookAround \/ join \/ introduce \/ Restart

-----------------------------------------------------------------------------
(* The window takes at most one computer in the life of an install, however  *)
(* saves fail and whenever the program stops (pairing_window.rs: "the window *)
(* opens at most once per install", "closes for good on the first            *)
(* acceptance").                                                             *)
WindowTakesOne == Cardinality(auto) <= 1

(* The window only ever settles on a computer when no other unknown one has  *)
(* said hello to it, one turned away for want of room included (tick).       *)
LoneStrangerJoins == task.what = "join" => \A k \in met : k = task.key \/ k \in peers
=============================================================================
