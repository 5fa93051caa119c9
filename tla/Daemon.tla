------------------------------- MODULE Daemon -------------------------------
(***************************************************************************)
(* The Linux daemon (src/src/daemon.rs): its session map, the policy that   *)
(* admits sessions and input, the activation it forwards its own input to,  *)
(* and the peer that controls it.  One main loop handles session and        *)
(* runtime events; dials, accepted connections, hops, configuration changes *)
(* and the seat watch are tasks of their own, serialized only by the policy *)
(* mutex.  Each session's actor (session.rs) and the input thread           *)
(* (RuntimePort) run beside them and talk to the loop through queues.       *)
(***************************************************************************)
EXTENDS SequencesExt, RuntimePort

CONSTANTS
  Peers,        \* configured computers
  Wins,         \* the peers over whom this computer wins a simultaneous dial
  Asks,         \* bound: how often each kind of request is made
  Capacity      \* room in the runtime's command queue

(* Requests of users, peers and the desktop. *)
Kinds == {"session", "enter", "policy", "seat", "activate", "local", "hop"}

ASSUME DaemonAssumption ==
  /\ Wins \subseteq Peers
  /\ Asks \in [Kinds -> Nat]
  /\ Capacity \in Nat \ {0}

VARIABLES
  perm,      \* Config.peers[p].permissions
  sharing,   \* Config.daemon.sharing
  gate,      \* Shared.seat_gate: "open", "held" or "denied"
  sess,      \* every session started: its task, actor and queue
  sessions,  \* Shared.sessions: the current session of a peer, 0 for none
  active,    \* Shared.active_outbound
  owner,     \* Shared.inbound_owner's session, 0 for none
  injected,  \* sessions whose keys the virtual devices hold
  evs,       \* SessionEvent queue of the main loop
  wait,      \* who holds the policy mutex across an await, and for what
  peer,      \* LinuxRuntimeStatus.selected_peer
  acts,      \* next_activation
  cmds,      \* RuntimeCommand queue
  rtEvs,     \* RuntimeEvent queue
  frame,     \* a captured frame waits for the loop
  asks       \* requests still to be made, by kind

policyVars == <<perm, sharing, gate>>
mapVars == <<sessions, active, owner, injected>>
rtVars == <<phase, waiting, captured, peer>>
queues == <<cmds, rtEvs, frame>>
vars == <<policyVars, sess, mapVars, evs, wait, rtVars, acts, queues, asks>>

Perms == {"connect", "send", "receive"}
Ids == 1..Len(sess)
NoPeer == "none"
None == [id |-> 0, act |-> 0]
Free == [who |-> "none", id |-> 0, act |-> 0, next |-> 0, receipt |-> "none"]

-----------------------------------------------------------------------------
(* Policy. *)

require_outbound_permission(p) == sharing /\ {"connect", "receive"} \subseteq perm[p]

peer_name_for_spki(p) == sharing /\ "connect" \in perm[p]

receiver_authorized(p) == sharing /\ {"connect", "send"} \subseteq perm[p] /\ gate # "denied"

(* Admission::Inject, Hold and Refuse. *)
admit(p) == IF ~receiver_authorized(p) THEN "Refuse"
            ELSE IF gate = "held" THEN "Hold" ELSE "Inject"

permissions_reduced_OnlyConnect(old, new) == "connect" \in old \ new

permissions_reduced(old, new) == ~(old \subseteq new)

(* A request is made: one fewer to come. *)
Ask(kind) == asks[kind] > 0 /\ asks' = [asks EXCEPT ![kind] = @ - 1]

PolicyFree == wait.who = "none"

-----------------------------------------------------------------------------
(* Sessions and their actors.  SessionHandle::close only closes the          *)
(* transport; the actor notices it later and runs its single exit path.      *)

Current(i) == sessions[sess[i].peer] = i

close(f, is) == [j \in DOMAIN f |-> [f[j] EXCEPT !.lost = @ \/ j \in is]]

is_closed(i) == sess[i].actor = "over"

NewSession(p, dir, task) ==
  [peer |-> p, dir |-> dir, task |-> task, actor |-> "none", stale |-> FALSE,
   fresh |-> FALSE, lost |-> FALSE, out |-> 0, inb |-> FALSE, queue |-> <<>>]

(* This computer's own finished dial, while it is younger than a connection  *)
(* attempt, wins over the peer's simultaneous one.                           *)
keeps_own_dial(p) ==
  /\ sessions[p] # 0 /\ p \in Wins
  /\ sess[sessions[p]].dir = "out" /\ sess[sessions[p]].fresh

(* What a session's outbound activation will be once its queue is drained.   *)
FinalOut(i) ==
  IF sess[i].queue = <<>> THEN sess[i].out
  ELSE IF Last(sess[i].queue).op = "begin" THEN Last(sess[i].queue).act ELSE 0

-----------------------------------------------------------------------------
Init ==
  /\ perm = [p \in Peers |-> Perms] /\ sharing = TRUE /\ gate = "open"
  /\ sess = <<>> /\ sessions = [p \in Peers |-> 0]
  /\ active = None /\ owner = 0 /\ injected = {}
  /\ evs = <<>> /\ wait = Free
  /\ PortInit /\ peer = NoPeer
  /\ acts = 0
  /\ cmds = <<>> /\ rtEvs = <<>> /\ frame = FALSE /\ asks = Asks

-----------------------------------------------------------------------------
(* Dialing and accepting.  policy_generation is read first and compared      *)
(* under the mutex: `stale` says that a configuration change came between.   *)

(* connect, up to the negotiation that start_session waits for. *)
Dial(p) ==
  /\ Ask("session")
  /\ require_outbound_permission(p) /\ sessions[p] = 0
  /\ sess' = Append(sess, [NewSession(p, "out", "setup") EXCEPT !.actor = "run"])
  /\ UNCHANGED <<policyVars, mapVars, evs, wait, rtVars, acts, queues>>

(* accept_connection, up to retire_session. *)
AcceptConnection(p) ==
  /\ Ask("session")
  /\ peer_name_for_spki(p) /\ ~keeps_own_dial(p)
  /\ sess' = Append(sess, NewSession(p, "in", "retire"))
  /\ UNCHANGED <<policyVars, mapVars, evs, wait, rtVars, acts, queues>>

(* retire_session closes the current session until its Closed event has run; *)
(* then the new connection negotiates.                                       *)
retire_session(i) ==
  LET old == sessions[sess[i].peer] IN
  /\ sess[i].task = "retire"
  /\ \/ old = 0 /\ sess' = [sess EXCEPT ![i].task = "setup", ![i].actor = "run"]
     \/ old # 0 /\ ~sess[old].lost /\ sess' = close(sess, {old})
  /\ UNCHANGED <<policyVars, mapVars, evs, wait, rtVars, acts, queues, asks>>

(* start_session returns: the actor reported Ready, or it failed or ran out  *)
(* of time and its handle is closed.                                         *)
Negotiated(i) ==
  /\ sess[i].task = "setup"
  /\ \/ sess' = [sess EXCEPT ![i].task = "ready"]
     \/ sess' = [sess EXCEPT ![i].task = "done", ![i].lost = TRUE]
  /\ UNCHANGED <<policyVars, mapVars, evs, wait, rtVars, acts, queues, asks>>

Insert(i) == sessions' = [sessions EXCEPT ![sess[i].peer] = i]

(* connect, under the policy mutex. *)
RegisterDial(i) ==
  LET p == sess[i].peer  old == sessions[p] IN
  /\ sess[i].task = "ready" /\ sess[i].dir = "out" /\ PolicyFree
  /\ LET done == [sess EXCEPT ![i].task = "done"] IN
     \/ /\ sess[i].stale \/ ~require_outbound_permission(p)
        /\ sess' = close(done, {i}) /\ UNCHANGED sessions
     \/ /\ ~sess[i].stale /\ require_outbound_permission(p)
        /\ old # 0 /\ (sess[old].dir = "out" \/ p \notin Wins)
        /\ sess' = close(done, {i}) /\ UNCHANGED sessions
     \/ /\ ~sess[i].stale /\ require_outbound_permission(p)
        /\ old # 0 => sess[old].dir = "in" /\ p \in Wins
        /\ sess' = close([done EXCEPT ![i].fresh = TRUE], {old} \ {0})
        /\ Insert(i)
  /\ UNCHANGED <<policyVars, active, owner, injected, evs, wait, rtVars, acts, queues, asks>>

MayInsert_AtOnce(p) == TRUE

(* A session is registered only once the one before it is out of the map. *)
MayInsert(p) == sessions[p] = 0

(* accept_connection, under the policy mutex: an ended session is not        *)
(* inserted, and another current session is closed and waited for.           *)
RegisterAccepted(i) ==
  LET p == sess[i].peer  old == sessions[p] IN
  /\ sess[i].task = "ready" /\ sess[i].dir = "in" /\ PolicyFree
  /\ LET done == [sess EXCEPT ![i].task = "done"] IN
     \/ /\ sess[i].stale \/ ~peer_name_for_spki(p)
        /\ sess' = close(done, {i}) /\ UNCHANGED sessions
     \/ /\ ~sess[i].stale /\ peer_name_for_spki(p)
        /\ \/ is_closed(i) /\ sess' = done /\ UNCHANGED sessions
           \/ ~is_closed(i) /\ MayInsert(p) /\ sess' = done /\ Insert(i)
           \/ ~is_closed(i) /\ keeps_own_dial(p) /\ sess' = close(done, {i}) /\ UNCHANGED sessions
           \/ /\ ~is_closed(i) /\ old # 0 /\ ~keeps_own_dial(p) /\ ~sess[old].lost
              /\ sess' = close(sess, {old}) /\ UNCHANGED sessions
  /\ UNCHANGED <<policyVars, active, owner, injected, evs, wait, rtVars, acts, queues, asks>>

(* CONNECT_TIMEOUT around accept_connection: the dropped handle is the       *)
(* actor's only command sender, which ends the actor.                        *)
AcceptTimesOut(i) ==
  /\ sess[i].dir = "in" /\ sess[i].task \in {"retire", "setup", "ready"}
  /\ sess' = [sess EXCEPT ![i].task = "done", ![i].lost = TRUE]
  /\ UNCHANGED <<policyVars, mapVars, evs, wait, rtVars, acts, queues, asks>>

(* A dial is simultaneous only for CONNECT_TIMEOUT. *)
DialAges(i) ==
  /\ sess[i].fresh
  /\ sess' = [sess EXCEPT ![i].fresh = FALSE]
  /\ UNCHANGED <<policyVars, mapVars, evs, wait, rtVars, acts, queues, asks>>

-----------------------------------------------------------------------------
(* The session actor.  While it waits for the loop's answer to receiver      *)
(* effects it takes no command ("asking"); its exit path reports an open     *)
(* outbound activation, releases what its peer holds ("cleanup") and only    *)
(* then sends Closed.                                                        *)

Emit(i, kind) == evs' = Append(evs, [id |-> i, kind |-> kind])

(* The peer enters this computer, presses a key here, or leaves it. *)
PeerInput(i) ==
  /\ sess[i].actor = "run" /\ sess[i].task # "setup" /\ ~sess[i].lost
  /\ \/ ~sess[i].inb /\ Ask("enter") /\ Emit(i, "enter")
     \/ sess[i].inb /\ Emit(i, "press") /\ UNCHANGED asks
     \/ sess[i].inb /\ Emit(i, "leave") /\ UNCHANGED asks
  /\ sess' = [sess EXCEPT ![i].actor = "asking"]
  /\ UNCHANGED <<policyVars, mapVars, wait, rtVars, acts, queues>>

ConnectionLost(i) ==
  /\ sess[i].actor \in {"run", "asking"} /\ ~sess[i].lost
  /\ sess' = [sess EXCEPT ![i].lost = TRUE]
  /\ UNCHANGED <<policyVars, mapVars, evs, wait, rtVars, acts, queues, asks>>

(* The sender's lease ran out without acknowledgements: SenderTick::ExitRemote. *)
LeaseEnds(i) ==
  /\ sess[i].actor = "run" /\ sess[i].out # 0
  /\ sess' = [sess EXCEPT ![i].out = 0]
  /\ Emit(i, "ended")
  /\ UNCHANGED <<policyVars, mapVars, wait, rtVars, acts, queues, asks>>

(* The receipt of EndOutbound reaches the task that still waits for it. *)
Receipt(cmd, result) ==
  IF wait.who # "none" /\ wait.act = cmd.act /\ cmd.op = "end"
  THEN [wait EXCEPT !.receipt = result] ELSE wait

(* The exit path of run_session, with the events before it. *)
Exit(i, before, w) ==
  LET ended == [sess EXCEPT ![i].out = 0, ![i].lost = TRUE]
      ev(k) == [id |-> i, kind |-> k] IN
  /\ evs' = evs \o before \o <<ev(IF sess[i].inb THEN "release" ELSE "closed")>>
  /\ sess' = IF sess[i].inb THEN [ended EXCEPT ![i].actor = "cleanup"]
             ELSE [ended EXCEPT ![i].actor = "over", ![i].queue = <<>>]
  /\ wait' = w

(* The loop stops: on Close, which forgets the sender, or on a lost          *)
(* transport, which reports OutboundEnded.                                   *)
ActorStops(i) ==
  /\ sess[i].actor = "run" /\ sess[i].lost
  /\ \/ Exit(i, <<>>, wait)
     \/ sess[i].out # 0 /\ Exit(i, <<[id |-> i, kind |-> "ended"]>>, wait)
  /\ UNCHANGED <<policyVars, mapVars, rtVars, acts, queues, asks>>

BeginOutbound(i) ==
  /\ sess[i].actor = "run" /\ sess[i].queue # <<>> /\ Head(sess[i].queue).op = "begin"
  /\ \/ /\ sess[i].out = 0 /\ ~sess[i].lost
        /\ sess' = [sess EXCEPT ![i].out = Head(sess[i].queue).act, ![i].queue = Tail(@)]
        /\ UNCHANGED <<evs, wait>>
     \/ /\ sess[i].out # 0 \/ sess[i].lost  \* already open, or Enter cannot be sent
        /\ Exit(i, IF sess[i].out # 0 THEN <<[id |-> i, kind |-> "ended"]>> ELSE <<>>, wait)
  /\ UNCHANGED <<policyVars, mapVars, rtVars, acts, queues, asks>>

EndOutbound(i) ==
  /\ sess[i].actor = "run" /\ sess[i].queue # <<>> /\ Head(sess[i].queue).op = "end"
  /\ LET cmd == Head(sess[i].queue) IN
     \/ /\ sess[i].out = 0 \/ ~sess[i].lost
        /\ sess' = [sess EXCEPT ![i].out = 0, ![i].queue = Tail(@)]
        /\ Emit(i, "ended") /\ wait' = Receipt(cmd, "ok")
     \/ /\ sess[i].out # 0 /\ sess[i].lost  \* Leave cannot be sent
        /\ Exit(i, <<>>, Receipt(cmd, "failed"))
  /\ UNCHANGED <<policyVars, mapVars, rtVars, acts, queues, asks>>

-----------------------------------------------------------------------------
(* The main loop: session events. *)

LoopFree == wait.who \in {"none", "hop"}
NextEv(kinds) == LoopFree /\ evs # <<>> /\ Head(evs).kind \in kinds

(* send_critical waits for room in the command queue, send gives up. *)
SendRt(cmd) == Len(cmds) < Capacity /\ cmds' = Append(cmds, cmd)
ReleaseRuntime_Forgotten == UNCHANGED cmds

(* RuntimeCommand::Release { transport_live: false } *)
ReleaseRuntime == SendRt([op |-> "release", live |-> FALSE])

(* The actor hears whether its effects were applied; a refusal ends it.      *)
Applied(f, i, open) == [f EXCEPT ![i].actor = "run", ![i].inb = open]
Refused(f, i) == [f EXCEPT ![i].actor = "run", ![i].lost = TRUE]

claim_inbound_Shared(i) == phase = "Idle"

(* claim_inbound: nobody else controls this computer, and it is not sending. *)
claim_inbound(i) == phase = "Idle" /\ owner \in {0, i}

(* route_receiver_effects for effects that open an activation. *)
RouteEnter(allowed) ==
  /\ NextEv({"enter"}) /\ PolicyFree
  /\ LET i == Head(evs).id  p == sess[i].peer IN
     \/ /\ ~Current(i)
        /\ sess' = Refused(sess, i) /\ UNCHANGED owner
     \/ /\ Current(i) /\ (admit(p) = "Refuse" \/ ~allowed \/ ~claim_inbound(i))
        /\ sess' = Refused(sess, i) /\ UNCHANGED owner
     \/ /\ Current(i) /\ admit(p) # "Refuse" /\ allowed /\ claim_inbound(i)
        /\ owner' = i
        /\ sess' = Applied(sess, i, TRUE)
  /\ evs' = Tail(evs)
  /\ UNCHANGED <<policyVars, sessions, active, injected, wait, rtVars, acts, queues, asks>>

(* The same for input of an open activation: dropped while the seat is       *)
(* uncertain, and the end of the session once it is refused.                 *)
RoutePress ==
  /\ NextEv({"press"}) /\ PolicyFree
  /\ LET i == Head(evs).id  p == sess[i].peer IN
     \/ /\ ~Current(i) \/ admit(p) = "Refuse"
        /\ sess' = Refused(sess, i) /\ UNCHANGED injected
     \/ /\ Current(i) /\ admit(p) # "Refuse"
        /\ injected' = IF admit(p) = "Inject" THEN injected \cup {i} ELSE injected
        /\ sess' = Applied(sess, i, TRUE)
  /\ evs' = Tail(evs)
  /\ UNCHANGED <<policyVars, sessions, active, owner, wait, rtVars, acts, queues, asks>>

(* The activation's close and the releases that come with it. *)
RouteLeave ==
  /\ NextEv({"leave"}) /\ PolicyFree
  /\ LET i == Head(evs).id IN
     \/ ~Current(i) /\ sess' = Refused(sess, i) /\ UNCHANGED <<owner, injected>>
     \/ /\ Current(i)
        /\ owner' = IF owner = i THEN 0 ELSE owner
        /\ injected' = injected \ {i}
        /\ sess' = Applied(sess, i, FALSE)
  /\ evs' = Tail(evs)
  /\ UNCHANGED <<policyVars, sessions, active, wait, rtVars, acts, queues, asks>>

(* The exit path's synthetic releases: delivered to the backend only while   *)
(* the session is current.  Its answer lets the actor send Closed.           *)
RouteRelease ==
  /\ NextEv({"release"}) /\ PolicyFree
  /\ LET i == Head(evs).id IN
     /\ \/ ~Current(i) /\ UNCHANGED <<owner, injected>>
        \/ /\ Current(i)
           /\ owner' = IF owner = i THEN 0 ELSE owner
           /\ injected' = injected \ {i}
     /\ sess' = [sess EXCEPT ![i].actor = "over", ![i].inb = FALSE, ![i].queue = <<>>]
     /\ evs' = Append(Tail(evs), [id |-> i, kind |-> "closed"])
  /\ UNCHANGED <<policyVars, sessions, active, wait, rtVars, acts, queues, asks>>

(* SessionEventKind::OutboundEnded, handled without the policy mutex. *)
OutboundEnded ==
  /\ NextEv({"ended"})
  /\ LET i == Head(evs).id IN
     \/ active.id # i /\ UNCHANGED <<sess, active, cmds>>
     \/ /\ active.id = i
        /\ active' = None
        /\ sess' = IF Current(i) THEN close(sess, {i}) ELSE sess
        /\ ReleaseRuntime
  /\ evs' = Tail(evs)
  /\ UNCHANGED <<policyVars, sessions, owner, injected, wait, rtVars, acts, rtEvs, frame, asks>>

(* SessionEventKind::Closed, handled without the policy mutex. *)
SessionClosed ==
  /\ NextEv({"closed"})
  /\ LET i == Head(evs).id  p == sess[i].peer IN
     /\ sessions' = IF Current(i) THEN [sessions EXCEPT ![p] = 0] ELSE sessions
     /\ \/ active.id # i /\ UNCHANGED <<active, cmds>>
        \/ active.id = i /\ active' = None /\ ReleaseRuntime
     /\ owner' = IF owner = i THEN 0 ELSE owner
  /\ evs' = Tail(evs)
  /\ UNCHANGED <<policyVars, sess, injected, wait, rtVars, acts, rtEvs, frame, asks>>

-----------------------------------------------------------------------------
(* The main loop: runtime events and captured frames. *)

NextRt(op) == LoopFree /\ rtEvs # <<>> /\ Head(rtEvs).op = op

Begin(i) == [sess EXCEPT ![i].queue = Append(@, [op |-> "begin", act |-> acts + 1])]

MayBegin_Controlled(p) == require_outbound_permission(p) /\ sessions[p] # 0

(* begin_outbound's conditions, read again after the grab.                   *)
MayBegin(p) == require_outbound_permission(p) /\ sessions[p] # 0 /\ owner = 0

(* OwnershipChanged to Remote: begin_outbound, or give the input back. *)
RuntimeRemote ==
  /\ NextRt("remote") /\ PolicyFree
  /\ LET p == Head(rtEvs).peer  i == sessions[p]
     IN \/ /\ MayBegin(p) /\ ~is_closed(i)
           /\ acts' = acts + 1
           /\ sess' = Begin(i)
           /\ active' = [id |-> i, act |-> acts + 1]
           /\ UNCHANGED cmds
        \/ /\ MayBegin(p) => is_closed(i)
           /\ ReleaseRuntime
           /\ UNCHANGED <<sess, active, acts>>
  /\ rtEvs' = Tail(rtEvs)
  /\ UNCHANGED <<policyVars, sessions, owner, injected, evs, wait, rtVars, frame, asks>>

(* OwnershipChanged to Idle. *)
RuntimeIdle ==
  /\ NextRt("idle")
  /\ active' = None
  /\ rtEvs' = Tail(rtEvs)
  /\ UNCHANGED <<policyVars, sess, sessions, owner, injected, evs, wait, rtVars, acts, cmds, frame, asks>>

(* TerminalRequested (finish_runtime_terminal) and ActivationClosed: the     *)
(* loop takes the policy mutex, takes the active activation and waits up to  *)
(* TERMINAL_SEND_TIMEOUT for its session to send Leave.                      *)
EndActive(who) ==
  LET i == active.id
      current == i # 0 /\ Current(i) /\ ~is_closed(i)
  IN /\ NextRt(who) /\ PolicyFree
     /\ wait' = [who |-> who, id |-> i, act |-> active.act, next |-> 0,
                 receipt |-> IF current THEN "none" ELSE "failed"]
     /\ active' = None
     /\ sess' = IF current
                THEN [sess EXCEPT ![i].queue = Append(@, [op |-> "end", act |-> active.act])]
                ELSE sess
     /\ rtEvs' = Tail(rtEvs)
     /\ UNCHANGED <<policyVars, sessions, owner, injected, evs, rtVars, acts, cmds, frame, asks>>

RuntimeTerminal == EndActive("terminal")
RuntimeClosed == EndActive("closed")

CloseIfCurrent(i) == IF i # 0 /\ Current(i) THEN close(sess, {i}) ELSE sess

Answer_OnlyLive(live) ==
  IF wait.who = "terminal" /\ live THEN SendRt([op |-> "sent", live |-> live]) ELSE UNCHANGED cmds

(* A terminal is answered whatever became of its Leave. *)
Answer(live) ==
  IF wait.who = "terminal" THEN SendRt([op |-> "sent", live |-> live]) ELSE UNCHANGED cmds

(* The receipt came, or the timeout did: then the session is closed, and a   *)
(* terminal is answered either way.                                          *)
EndFinishes ==
  /\ wait.who \in {"terminal", "closed"}
  /\ LET live == wait.receipt = "ok" IN
     /\ sess' = IF live THEN sess ELSE CloseIfCurrent(wait.id)
     /\ Answer(live)
  /\ wait' = Free
  /\ UNCHANGED <<policyVars, mapVars, evs, rtVars, acts, rtEvs, frame, asks>>

(* route_capture's conditions. *)
Forwards ==
  /\ active.id # 0 /\ Current(active.id) /\ ~is_closed(active.id)
  /\ require_outbound_permission(sess[active.id].peer)

(* A captured frame, after every queued runtime event: it goes to the active *)
(* session or gives the input back.                                          *)
ForwardCapture ==
  /\ LoopFree /\ frame /\ rtEvs = <<>> /\ PolicyFree
  /\ frame' = FALSE
  /\ IF Forwards THEN UNCHANGED cmds ELSE ReleaseRuntime
  /\ UNCHANGED <<policyVars, sess, mapVars, evs, wait, rtVars, acts, rtEvs, asks>>

-----------------------------------------------------------------------------
(* Tasks that ask the runtime for something. *)

(* activate: its first look at the phase may be long past when it sends. *)
Activate(p) ==
  /\ PolicyFree /\ Ask("activate")
  /\ require_outbound_permission(p) /\ sessions[p] # 0 /\ owner = 0
  /\ SendRt([op |-> "activate", peer |-> p])
  /\ UNCHANGED <<policyVars, sess, mapVars, evs, wait, rtVars, acts, rtEvs, frame>>

(* Request::Local. *)
LocalRelease ==
  /\ Ask("local")
  /\ SendRt([op |-> "release", live |-> TRUE])
  /\ UNCHANGED <<policyVars, sess, mapVars, evs, wait, rtVars, acts, rtEvs, frame>>

HopLeaves_NoLeave(left) == sess

(* The computer a hop leaves gets its Leave before the next gets its Enter.  *)
HopLeaves(left) ==
  IF Current(left) /\ ~is_closed(left)
  THEN [sess EXCEPT ![left].queue = Append(@, [op |-> "end", act |-> active.act])]
  ELSE sess

(* switch_outbound, up to the wait for the Leave of the computer it leaves. *)
SwitchOutbound(p) ==
  LET left == active.id
      current == Current(left) /\ ~is_closed(left)
  IN /\ PolicyFree /\ Ask("hop")
     /\ require_outbound_permission(p) /\ phase = "Remote" /\ sessions[p] # 0
     /\ left # 0 /\ sess[left].peer # p
     /\ wait' = [who |-> "hop", id |-> left, act |-> active.act, next |-> sessions[p],
                 receipt |-> IF current THEN "none"
                             ELSE IF Current(left) THEN "failed" ELSE "ok"]
     /\ active' = None
     /\ acts' = acts + 1
     /\ sess' = HopLeaves(left)
     /\ UNCHANGED <<policyVars, sessions, owner, injected, evs, rtVars, queues>>

(* The rest of it: Enter at the next computer, which keeps the activation    *)
(* number allocated above, or give the input back.                           *)
SwitchFinishes ==
  LET f == IF wait.receipt = "ok" THEN sess ELSE close(sess, {wait.id})
      next == wait.next
  IN /\ wait.who = "hop"
     /\ \/ /\ ~is_closed(next)
           /\ sess' = [f EXCEPT ![next].queue = Append(@, [op |-> "begin", act |-> acts])]
           /\ active' = [id |-> next, act |-> acts]
           /\ UNCHANGED cmds
        \/ is_closed(next) /\ sess' = f /\ ReleaseRuntime /\ UNCHANGED active
     /\ wait' = Free
     /\ UNCHANGED <<policyVars, sessions, owner, injected, evs, rtVars, acts, rtEvs, frame, asks>>

-----------------------------------------------------------------------------
(* Policy changes, under the mutex. *)

(* apply_config_locked: every session under negotiation is out of date, and  *)
(* a session whose permissions shrank, or any when sharing changed, closes.  *)
ApplyConfig(newPerm, newSharing) ==
  /\ PolicyFree /\ Ask("policy")
  /\ <<newPerm, newSharing>> # <<perm, sharing>>
  /\ perm' = newPerm /\ sharing' = newSharing
  /\ LET gone == {i \in Ids : /\ Current(i)
                              /\ \/ newSharing # sharing
                                 \/ permissions_reduced(perm[sess[i].peer], newPerm[sess[i].peer])
                                 \/ "connect" \notin newPerm[sess[i].peer]}
     IN sess' = [i \in Ids |-> [close(sess, gone)[i] EXCEPT !.stale = @ \/ sess[i].task # "done"]]
  /\ UNCHANGED <<gate, mapVars, evs, wait, rtVars, acts, queues>>

(* update_seat_gate: the session that controls this computer ends once the   *)
(* seat no longer authorizes it.                                             *)
UpdateSeatGate(newGate) ==
  /\ PolicyFree /\ Ask("seat") /\ newGate # gate
  /\ gate' = newGate
  /\ sess' = IF owner # 0 /\ Current(owner)
                /\ ~(sharing /\ {"connect", "send"} \subseteq perm[sess[owner].peer] /\ newGate # "denied")
             THEN close(sess, {owner}) ELSE sess
  /\ UNCHANGED <<perm, sharing, mapVars, evs, wait, rtVars, acts, queues>>

-----------------------------------------------------------------------------
(* The input thread, seen through RuntimePort. *)

rtRest == <<policyVars, sess, mapVars, evs, wait, acts, asks>>
RtEmit(evts) == rtEvs' = rtEvs \o evts
Ev(op) == [op |-> op]

(* Arming, then the grab: Remote is announced before any frame it covers. *)
RtGrab ==
  /\ Grab /\ RtEmit(<<[op |-> "remote", peer |-> peer]>>)
  /\ UNCHANGED <<rtRest, peer, cmds, frame>>

RtGrabFails ==
  /\ phase = "Arming" /\ GiveBack /\ peer' = NoPeer /\ RtEmit(<<Ev("idle")>>)
  /\ UNCHANGED <<rtRest, cmds, frame>>

(* The escape chord, or a live release. *)
RtEscape ==
  /\ AskTerminal /\ RtEmit(<<Ev("terminal")>>)
  /\ UNCHANGED <<rtRest, peer, cmds, frame>>

(* A removed device, a capture fault, backpressure: force_source_release. *)
ForceRelease == GiveBack /\ peer' = NoPeer /\ RtEmit(<<Ev("closed"), Ev("idle")>>)

RtFault ==
  /\ phase # "Idle" /\ ForceRelease
  /\ UNCHANGED <<rtRest, cmds, frame>>

(* The boundary after the terminal was answered. *)
RtUngrab ==
  /\ phase = "Releasing" /\ ~waiting /\ ForceRelease
  /\ UNCHANGED <<rtRest, cmds, frame>>

RtCapture ==
  /\ phase = "Remote" /\ ~frame /\ frame' = TRUE
  /\ UNCHANGED <<rtRest, rtVars, cmds, rtEvs>>

(* handle_command. *)
RtCommand ==
  /\ cmds # <<>>
  /\ LET cmd == Head(cmds) IN
     \/ /\ cmd.op = "activate" /\ Arm
        /\ peer' = cmd.peer /\ UNCHANGED rtEvs
     \/ cmd.op = "activate" /\ UNCHANGED <<rtVars, rtEvs>>  \* busy, or devices missing
     \/ /\ cmd.op = "release" /\ cmd.live
        /\ \/ phase = "Idle" /\ RtEmit(<<Ev("idle")>>) /\ UNCHANGED rtVars
           \/ phase = "Arming" /\ ForceRelease
           \/ AskTerminal /\ RtEmit(<<Ev("terminal")>>) /\ UNCHANGED peer
           \/ phase = "Releasing" /\ UNCHANGED <<rtVars, rtEvs>>
     \/ /\ cmd.op \in {"release", "sent"} /\ ~cmd.live
        /\ (phase = "Idle" /\ UNCHANGED <<rtVars, rtEvs>>) \/ ForceRelease
     \/ /\ cmd.op = "sent" /\ cmd.live
        /\ (ConfirmTerminal /\ UNCHANGED peer) \/ (~waiting /\ UNCHANGED rtVars)
        /\ UNCHANGED rtEvs
  /\ cmds' = Tail(cmds)
  /\ UNCHANGED <<rtRest, frame>>

-----------------------------------------------------------------------------
SetPermissions ==
  \E p \in Peers, s \in {{}, {"connect"}, Perms \ {"send"}, Perms \ {"receive"}, Perms} :
     ApplyConfig([perm EXCEPT ![p] = s], sharing)
SetSharing == ApplyConfig(perm, ~sharing)
SeatChanges == \E g \in {"open", "held", "denied"} : UpdateSeatGate(g)

Tasks == \E i \in Ids :
  retire_session(i) \/ Negotiated(i) \/ RegisterDial(i) \/ RegisterAccepted(i)
    \/ AcceptTimesOut(i) \/ DialAges(i)
Actors == \E i \in Ids : ActorStops(i) \/ BeginOutbound(i) \/ EndOutbound(i)
Network == \E i \in Ids : PeerInput(i) \/ ConnectionLost(i) \/ LeaseEnds(i)
Requests == \E p \in Peers : Dial(p) \/ AcceptConnection(p) \/ Activate(p) \/ SwitchOutbound(p)
SessionEvents ==
  \/ \E allowed \in BOOLEAN : RouteEnter(allowed)
  \/ RoutePress \/ RouteLeave \/ RouteRelease \/ OutboundEnded \/ SessionClosed
RuntimeEvents == RuntimeRemote \/ RuntimeIdle \/ RuntimeTerminal \/ RuntimeClosed
Loop == SessionEvents \/ RuntimeEvents \/ ForwardCapture
Runtime == RtGrab \/ RtGrabFails \/ RtEscape \/ RtFault \/ RtUngrab \/ RtCapture \/ RtCommand

Next ==
  \/ Tasks \/ Actors \/ Network \/ Requests \/ Loop \/ Runtime
  \/ EndFinishes \/ SwitchFinishes
  \/ LocalRelease \/ SetPermissions \/ SetSharing \/ SeatChanges

Spec == Init /\ [][Next]_vars

(* The loop's select! serves every ready source, the input thread drains its *)
(* commands and reaches a frame boundary, and the waits of the loop and of a *)
(* hop are bounded by TERMINAL_SEND_TIMEOUT.  Nothing is assumed of actors,  *)
(* peers or the network.                                                     *)
Fairness ==
  /\ WF_vars(SessionEvents) /\ WF_vars(RuntimeEvents) /\ WF_vars(ForwardCapture)
  /\ WF_vars(EndFinishes) /\ WF_vars(SwitchFinishes)
  /\ WF_vars(RtCommand) /\ WF_vars(RtUngrab)

-----------------------------------------------------------------------------
TypeOK ==
  /\ perm \in [Peers -> SUBSET Perms] /\ sharing \in BOOLEAN /\ gate \in {"open", "held", "denied"}
  /\ sess \in Seq([peer : Peers, dir : {"in", "out"}, task : {"retire", "setup", "ready", "done"},
                   actor : {"none", "run", "asking", "cleanup", "over"},
                   stale : BOOLEAN, fresh : BOOLEAN, lost : BOOLEAN, out : Nat, inb : BOOLEAN,
                   queue : Seq([op : {"begin", "end"}, act : Nat])])
  /\ sessions \in [Peers -> 0..Len(sess)] /\ owner \in 0..Len(sess) /\ injected \subseteq Ids
  /\ active \in [id : 0..Len(sess), act : Nat]
  /\ phase \in {"Idle", "Arming", "Remote", "Releasing"} /\ {waiting, captured, frame} \subseteq BOOLEAN
  /\ peer \in Peers \cup {NoPeer} /\ acts \in Nat /\ asks \in [Kinds -> Nat]

(* A computer gets this one's input only while it is the active one: after a *)
(* hop, a release or a lost session no other session is left with an open    *)
(* activation that nothing will end (begin_outbound, switch_outbound,        *)
(* end_outbound across their awaits).                                        *)
OneActivation ==
  \A i \in Ids : FinalOut(i) # 0 /\ ~sess[i].lost => active = [id |-> i, act |-> FinalOut(i)]

(* Two computers never hold keys on this one at once, however their sessions *)
(* end and start (claim_inbound, route_receiver_effects).                    *)
OneController == \A i, j \in injected : i = j

(* No session ends while keys its peer pressed are still down: its release   *)
(* reaches the backend before its Closed event (route_receiver_effects,      *)
(* retire_session).                                                          *)
HeldIsReleased == \A i \in injected : sess[i].actor # "over"

(* A registered session that is not being closed is one the configuration    *)
(* allows now, whatever changed while it negotiated, and holds keys only if  *)
(* its peer may control this seat (connect, accept_connection,               *)
(* apply_config_locked, update_seat_gate).                                   *)
SessionsAreAuthorized ==
  \A p \in Peers : sessions[p] # 0 /\ ~sess[sessions[p]].lost =>
     /\ peer_name_for_spki(p)
     /\ sess[sessions[p]].dir = "out" => "receive" \in perm[p]
     /\ sessions[p] \in injected => receiver_authorized(p)

(* A session that ended and whose Closed event was handled is not in the map *)
(* (connect, accept_connection): nothing would remove it.                    *)
NoDeadSession ==
  \A p \in Peers : sessions[p] # 0 /\ is_closed(sessions[p]) =>
     Contains(evs, [id |-> sessions[p], kind |-> "closed"])

Quiet == evs = <<>> /\ rtEvs = <<>> /\ cmds = <<>> /\ PolicyFree /\ ~frame

(* Once every queue is drained, captured devices have a computer to send to, *)
(* and no activation is left open for devices that were given back           *)
(* (handle_runtime_event and handle_session_event on every order of release, *)
(* hop and lost session).                                                    *)
InputGoesSomewhere ==
  Quiet => /\ phase = "Idle" => active.id = 0
           /\ phase = "Remote" => active.id # 0

(* A computer that another one controls does not send its own input: no      *)
(* captured frame goes out while a peer owns this computer (begin_outbound,  *)
(* claim_inbound, route_capture).                                            *)
NoSendWhileControlled ==
  [][ForwardCapture /\ Forwards => owner = 0]_vars

(* A session lives only as long as the configuration and the seat allow it,   *)
(* one controls this computer at a time, and nothing its peer held outlives it. *)
SessionsFollowPolicy == HeldIsReleased /\ SessionsAreAuthorized /\ OneController

(* A release that waits for the daemon is always answered, and the devices   *)
(* go back, though the answer waits for the policy mutex, for a hop and for  *)
(* a session that may never take its End (finish_runtime_terminal).          *)
ReleaseIsAnswered == phase = "Releasing" ~> phase = "Idle"

(* Devices captured for a computer that is gone, or that may not be sent to, *)
(* are not kept: an activation begins or the input comes back.               *)
InputComesBack == phase = "Remote" /\ active.id = 0 ~> phase # "Remote" \/ active.id # 0
=============================================================================
