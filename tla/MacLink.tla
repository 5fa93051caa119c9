------------------------------- MODULE MacLink -------------------------------
(***************************************************************************)
(* The links of a Mac (macos/link.rs) and the crossing that runs on them    *)
(* (cross, remote, capture and forward of macos/mod.rs).  Each link is a    *)
(* task that dials, waits or serves one session and takes commands; a       *)
(* crossing is a command that carries the guard of this Mac's input, and,   *)
(* when it moved on from another computer, the capture and a desktop that   *)
(* was prepared on a session of the next link.                              *)
(***************************************************************************)
EXTENDS Naturals, Sequences, FiniteSets

CONSTANTS
  LinkPeers,         \* peers that may connect
  DialWins,          \* those of them whose dial gives way to this Mac's
  MaxLinkSessions,   \* bound: sessions opened and nudges given over a run
  MaxNudges          \* bound: links closed and retries asked for over a run

ASSUME MacLinkAssumption == DialWins \subseteq LinkPeers /\ MaxLinkSessions \in Nat /\ MaxNudges \in Nat

VARIABLES
  link,      \* each link: pc, sess, theirs, young, ready, and open: commands can be sent
  cmds,      \* each link's commands
  live,      \* sessions neither lost nor told to close
  opened,    \* how many sessions were opened
  nudges,    \* how many links were closed and retries asked for
  guard,     \* outbound: a crossing holds this Mac's input
  captured,  \* the event tap runs
  crossing,  \* the crossing that runs: stage, its link, and the session of the next one
  desks,     \* sessions whose peer has its desktop prepared for this Mac
  finishing  \* sessions that a spawned Finish is on its way to

macLinkVars == <<link, cmds, live, opened, nudges, guard, captured, crossing, desks, finishing>>

Off == [pc |-> "off", sess |-> 0, theirs |-> 0, young |-> FALSE, ready |-> FALSE, open |-> FALSE]
NoCrossing == [stage |-> "none", at |-> {}, next |-> {}, on |-> 0]

MacLinkInit ==
  /\ link = [p \in LinkPeers |-> Off] /\ cmds = [p \in LinkPeers |-> <<>>]
  /\ live = {} /\ opened = 0 /\ nudges = 0 /\ guard = FALSE /\ captured = FALSE
  /\ crossing = NoCrossing /\ desks = {} /\ finishing = {}

Edge == [kind |-> "edge", on |-> 0]
Hop(s) == [kind |-> "hop", on |-> s]
Inbound(s) == [kind |-> "inbound", on |-> s]
Retry == [kind |-> "retry", on |-> 0]

(* Hops: the session of a ready link, which a crossing can move on to.       *)
door(p) == IF link[p].ready THEN link[p].sess ELSE 0

(* Sessions close, and their peers let go of the desktop prepared on them.   *)
Closed(gone) == live' = live \ gone /\ desks' = desks \ gone

-----------------------------------------------------------------------------
(* sync_links. Dropping a link's sender stops it after its commands.         *)
sync_links(p) ==
  /\ \/ link[p].pc = "off" /\ link' = [link EXCEPT ![p] = [Off EXCEPT !.pc = "dial", !.open = TRUE]]
        /\ UNCHANGED nudges
     \/ link[p].open /\ link' = [link EXCEPT ![p].open = FALSE]
        /\ nudges < MaxNudges /\ nudges' = nudges + 1
  /\ UNCHANGED <<cmds, live, opened, guard, captured, crossing, desks, finishing>>

retry(p) ==
  /\ link[p].open /\ nudges < MaxNudges /\ nudges' = nudges + 1
  /\ cmds' = [cmds EXCEPT ![p] = Append(@, Retry)]
  /\ UNCHANGED <<link, live, opened, guard, captured, crossing, desks, finishing>>

(* open_inbound: the peer opened a session, which its link is to take.       *)
open_inbound(p) ==
  /\ opened + nudges < MaxLinkSessions /\ link[p].open /\ opened' = opened + 1
  /\ live' = live \cup {opened + 1}
  /\ cmds' = [cmds EXCEPT ![p] = Append(@, Inbound(opened + 1))]
  /\ UNCHANGED <<nudges, link, guard, captured, crossing, desks, finishing>>

Lost(s) ==
  /\ s \in live /\ Closed({s})
  /\ UNCHANGED <<nudges, link, cmds, opened, guard, captured, crossing, finishing>>

(* Links::cross: the edge of a ready link, unless a crossing runs.           *)
cross_edge(p) ==
  /\ link[p].open /\ link[p].ready /\ ~guard /\ guard' = TRUE
  /\ cmds' = [cmds EXCEPT ![p] = Append(@, Edge)]
  /\ UNCHANGED <<nudges, link, live, opened, captured, crossing, desks, finishing>>

-----------------------------------------------------------------------------
Serving(p, s, young) == [link[p] EXCEPT !.pc = "serve", !.sess = s, !.theirs = 0, !.young = young,
                                        !.ready = FALSE]
Idle(p, pc) == [link[p] EXCEPT !.pc = pc, !.sess = 0, !.theirs = 0, !.ready = FALSE]

(* A dial ends, and keep_one picks between its session and the peer's.       *)
keep_one(p) ==
  LET ours == opened + 1  theirs == link[p].theirs IN
  /\ link[p].pc = "dial"
  /\ \/ /\ opened + nudges < MaxLinkSessions /\ opened' = ours
        /\ IF theirs = 0 \/ p \in DialWins
           THEN /\ live' = (live \cup {ours}) \ {theirs} /\ desks' = desks \ {theirs}
                /\ link' = [link EXCEPT ![p] = Serving(p, ours, TRUE)]
           ELSE link' = [link EXCEPT ![p] = Serving(p, theirs, FALSE)] /\ UNCHANGED <<live, desks>>
     \/ /\ link' = [link EXCEPT ![p] = IF theirs = 0 THEN Idle(p, "wait") ELSE Serving(p, theirs, FALSE)]
        /\ UNCHANGED <<opened, live, desks>>
  /\ UNCHANGED <<nudges, cmds, guard, captured, crossing, finishing>>

wait_ends(p) ==
  /\ link[p].pc = "wait" /\ link' = [link EXCEPT ![p].pc = "dial"]
  /\ UNCHANGED <<nudges, cmds, live, opened, guard, captured, crossing, desks, finishing>>

(* The dial grew older than the window in which a peer's counts as           *)
(* simultaneous.                                                             *)
DialAges(p) ==
  /\ link[p].young /\ link' = [link EXCEPT ![p].young = FALSE]
  /\ UNCHANGED <<nudges, cmds, live, opened, guard, captured, crossing, desks, finishing>>

(* The answer to the link's own question about the peer's desktop.           *)
show(p, ready) ==
  /\ link[p].pc = "serve" /\ link[p].sess \in live /\ link[p].ready # ready
  /\ link' = [link EXCEPT ![p].ready = ready]
  /\ UNCHANGED <<nudges, cmds, live, opened, guard, captured, crossing, desks, finishing>>

(* The session's Closed event. *)
serve_lost(p) ==
  /\ link[p].pc = "serve" /\ link[p].sess \notin live
  /\ link' = [link EXCEPT ![p] = Idle(p, "wait")]
  /\ UNCHANGED <<nudges, cmds, live, opened, guard, captured, crossing, desks, finishing>>

(* No sender is left and the commands are drained: the task ends.            *)
stopped(p) ==
  /\ ~link[p].open /\ link[p].pc \in {"dial", "wait", "serve"} /\ cmds[p] = <<>>
  /\ Closed({link[p].sess, link[p].theirs})
  /\ link' = [link EXCEPT ![p] = Off]
  /\ UNCHANGED <<nudges, cmds, opened, guard, captured, crossing, finishing>>

-----------------------------------------------------------------------------
give_back_Forgotten(c) == UNCHANGED finishing /\ captured' = FALSE

(* Arrival::give_back: the Mac gets its input, and the prepared desktop a    *)
(* Finish of its own.                                                        *)
give_back(c) ==
  IF c.kind = "hop" THEN captured' = FALSE /\ finishing' = finishing \cup {c.on}
  ELSE UNCHANGED <<captured, finishing>>

(* refuse, for a crossing. *)
refuse(c) == give_back(c) /\ guard' = FALSE

prepared_here_Assumed(p, c) == TRUE
(* prepared_on: a desktop prepared on a session the link replaced would poll *)
(* into nothing.                                                             *)
prepared_here(p, c) == c.kind = "hop" => c.on = link[p].sess

older_Kept(p) == {}
(* The newest of the peer's sessions waits for the dial to end.              *)
older(p) == {link[p].theirs}

TakeInbound(p, c) ==
  /\ c.kind = "inbound"
  /\ \/ /\ link[p].pc = "dial"
        /\ link' = [link EXCEPT ![p].theirs = c.on] /\ Closed(older(p))
     \/ /\ link[p].pc = "wait"
        /\ link' = [link EXCEPT ![p] = Serving(p, c.on, FALSE)] /\ UNCHANGED <<live, desks>>
     \/ /\ link[p].pc = "serve"
        /\ IF link[p].young /\ p \in DialWins
           THEN UNCHANGED link /\ Closed({c.on})
           ELSE link' = [link EXCEPT ![p] = Serving(p, c.on, FALSE)] /\ Closed({link[p].sess})
  /\ UNCHANGED <<guard, captured, crossing, finishing>>

TakeRetry(p, c) ==
  /\ c.kind = "retry"
  /\ link' = [link EXCEPT ![p].ready = FALSE, ![p].pc = IF @ = "wait" THEN "dial" ELSE @]
  /\ UNCHANGED <<live, desks, guard, captured, crossing, finishing>>

TakeCrossing(p, c) ==
  /\ c.kind \in {"edge", "hop"}
  /\ IF link[p].pc = "serve" /\ link[p].ready /\ prepared_here(p, c)
     THEN /\ link' = [link EXCEPT ![p].pc = "cross"]
          /\ crossing' = [stage |-> IF c.kind = "edge" THEN "prepare" ELSE "forward",
                          at |-> {p}, next |-> {}, on |-> c.on]
          /\ UNCHANGED <<guard, captured, finishing>>
     ELSE refuse(c) /\ UNCHANGED <<link, crossing>>
  /\ UNCHANGED <<live, desks>>

(* The link's next command, wherever the task stands. *)
TakeCommand(p) ==
  /\ link[p].pc \in {"dial", "wait", "serve"} /\ cmds[p] # <<>>
  /\ cmds' = [cmds EXCEPT ![p] = Tail(@)]
  /\ LET c == Head(cmds[p]) IN TakeInbound(p, c) \/ TakeRetry(p, c) \/ TakeCrossing(p, c)
  /\ UNCHANGED <<opened, nudges>>

-----------------------------------------------------------------------------
Here(p, stage) == crossing.at = {p} /\ crossing.stage = stage
Stage(stage) == crossing' = [crossing EXCEPT !.stage = stage]

(* The crossing is over: the guard goes, and the link serves on, asking      *)
(* about the peer's desktop again when it failed.                            *)
EndCrossing(p) ==
  /\ crossing' = NoCrossing /\ guard' = FALSE
  /\ \E failed \in BOOLEAN : link' = [link EXCEPT ![p].pc = "serve", ![p].ready = @ /\ ~failed]

(* cross, from an edge: the peer is busy or the Mac's desktop unreadable,    *)
(* and nothing was prepared; or the desktop is, and the capture starts or    *)
(* does not; or Prepare failed some other way, and Finish follows anyway.    *)
Prepared(p) ==
  /\ Here(p, "prepare")
  /\ \/ EndCrossing(p) /\ UNCHANGED <<desks, captured>>
     \/ /\ desks' = desks \cup ({link[p].sess} \cap live)
        /\ \/ Stage("forward") /\ captured' = TRUE /\ link[p].sess \in live
           \/ Stage("finish") /\ UNCHANGED captured
        /\ UNCHANGED <<link, guard>>
  /\ UNCHANGED <<nudges, cmds, live, opened, finishing>>

(* A hop whose new link already heard its session close gives back.          *)
HopStarts(p) ==
  /\ Here(p, "forward") /\ crossing.on # 0 /\ link[p].sess \notin live
  /\ give_back(Hop(crossing.on)) /\ EndCrossing(p)
  /\ UNCHANGED <<nudges, cmds, live, opened, desks>>

(* forward ends: the pointer came home, a stop, the session or the capture   *)
(* ended.  Input is back before the peer is told.                            *)
ForwardEnds(p) ==
  /\ Here(p, "forward") /\ captured' = FALSE /\ Stage("finish")
  /\ UNCHANGED <<nudges, link, cmds, live, opened, guard, desks, finishing>>

(* The pointer left toward another ready computer: prepare_hop on its door.  *)
HopAsked(p, q) ==
  /\ Here(p, "forward") /\ p # q /\ door(q) # 0
  /\ crossing' = [crossing EXCEPT !.stage = "hop", !.next = {q}, !.on = door(q)]
  /\ UNCHANGED <<nudges, link, cmds, live, opened, guard, captured, desks, finishing>>

HopPrepared(p) ==
  /\ Here(p, "hop")
  /\ \/ crossing.on \in live /\ desks' = desks \cup {crossing.on} /\ Stage("moving")
     \/ crossing' = [crossing EXCEPT !.stage = "forward", !.next = {}, !.on = 0] /\ UNCHANGED desks
  /\ UNCHANGED <<nudges, link, cmds, live, opened, guard, captured, finishing>>

(* Leave and Finish on this computer, then the crossing ends here or the     *)
(* next link gets it; a link that went away refuses it.                      *)
Finish(p) ==
  /\ \/ /\ Here(p, "finish")
        /\ EndCrossing(p) /\ UNCHANGED <<cmds, captured, finishing>>
     \/ /\ Here(p, "moving")
        /\ crossing' = NoCrossing /\ link' = [link EXCEPT ![p].pc = "serve"]
        /\ LET q == CHOOSE x \in crossing.next : TRUE IN
           IF door(q) # 0 /\ link[q].open
           THEN cmds' = [cmds EXCEPT ![q] = Append(@, Hop(crossing.on))]
                /\ UNCHANGED <<guard, captured, finishing>>
           ELSE refuse(Hop(crossing.on)) /\ UNCHANGED cmds
  /\ desks' = desks \ {link[p].sess}
  /\ UNCHANGED <<nudges, live, opened>>

Finished(s) ==
  /\ s \in finishing /\ finishing' = finishing \ {s} /\ desks' = desks \ {s}
  /\ UNCHANGED <<nudges, link, cmds, live, opened, guard, captured, crossing>>

MacLinkNext ==
  \/ \E p \in LinkPeers :
       \/ sync_links(p) \/ retry(p) \/ open_inbound(p) \/ cross_edge(p) \/ keep_one(p)
       \/ wait_ends(p) \/ DialAges(p) \/ serve_lost(p) \/ stopped(p) \/ TakeCommand(p)
       \/ Prepared(p) \/ HopStarts(p) \/ ForwardEnds(p) \/ HopPrepared(p) \/ Finish(p)
       \/ \E ready \in BOOLEAN : show(p, ready)
       \/ \E q \in LinkPeers : HopAsked(p, q)
  \/ \E s \in live : Lost(s)
  \/ \E s \in finishing : Finished(s)

-----------------------------------------------------------------------------
Queued(kind) ==
  UNION {{cmds[p][i].on : i \in {j \in 1..Len(cmds[p]) : cmds[p][j].kind = kind}} : p \in LinkPeers}

(* Every open session is served, waits for its link, or was told to close:   *)
(* the peer would refuse a session it thinks is a second one (keep_one,      *)
(* opening, serve).                                                          *)
NoOrphanSession ==
  live \subseteq {link[p].sess : p \in LinkPeers} \cup {link[p].theirs : p \in LinkPeers}
                 \cup Queued("inbound")

(* A desktop that a peer holds for this Mac is that of the crossing, or of   *)
(* the one it moves on with, or its Finish is on the way: none stays         *)
(* reserved when a crossing ends, is refused, or meets a link that           *)
(* reconnected; the crossing runs on the session it prepared, and the Mac's  *)
(* input is captured only while the crossing's guard keeps peers out (cross, *)
(* hand_on, refuse, prepared_on).                                            *)
DesktopsAreLetGo ==
  /\ desks \subseteq {link[p].sess : p \in crossing.at} \cup {crossing.on} \cup Queued("hop") \cup finishing
  /\ \A p \in crossing.at : crossing.stage = "forward" /\ crossing.on # 0 => crossing.on = link[p].sess
  /\ captured => guard
=============================================================================
