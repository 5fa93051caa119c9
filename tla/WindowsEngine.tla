---------------------------- MODULE WindowsEngine ----------------------------
(***************************************************************************)
(* The Windows engine (windows/engine.rs), its injector (windows/input.rs)  *)
(* and its desktop lease (windows/desktop.rs).  One loop owns the state and *)
(* takes commands, captured input, session events, ticks and the answers of *)
(* tasks it spawned; an answer may arrive after what it was for is over.    *)
(* Times (backoff, hold-off, expiry) are left to chance: a timer may have   *)
(* run out whenever it is looked at.                                        *)
(***************************************************************************)
EXTENDS Naturals, Sequences

CONSTANTS
  WinPeers,        \* computers that may be paired with this one
  WinDialWins,     \* those of them whose dial gives way to ours
  MaxWinSessions,  \* bound: sessions opened over a run
  MaxTokens,       \* bound: crossings started over a run
  MaxTurns         \* bound: changes of the configuration and of the desktop over a run

ASSUME WindowsAssumption ==
  WinDialWins \subseteq WinPeers /\ MaxWinSessions \in Nat /\ MaxTokens \in Nat /\ MaxTurns \in Nat

VARIABLES
  wconfig,    \* sharing and the paired peers
  wos,        \* the desktop: available, and whether it refuses what this process posts
  wof,        \* each session opened so far: its peer and which side dialed
  walive,     \* sessions neither lost nor told to close
  wacts,      \* sessions with an activation of the peer open
  wlinks,     \* links: each peer's session, or 0
  wdialing,   \* connecting
  wnet,       \* spawned tasks, and the network messages they have sent
  winbound,   \* the session that owns the injector, or 0
  wlease,     \* the desktop lease: its session (0: none), exit and resting
  wout,       \* outbound: session (0: none), token and polling
  warming,    \* arming: session (0: none) and token
  wremote,    \* input::is_remote: input is held back from Windows
  wkeys,      \* the injector holds a key down
  wreleasing, \* the injector could not release it yet
  wtok,       \* tokens handed out
  wturns,     \* changes of the configuration and of the desktop so far
  wdesks      \* prepared desktops of the peers: session and token

world == <<wconfig, wos, wturns>>
session_vars == <<wof, walive, wacts, wlinks, wdialing>>
owner_vars == <<winbound, wlease, wout, warming, wremote>>
injector_vars == <<wkeys, wreleasing>>
windowsVars == <<world, session_vars, wnet, owner_vars, injector_vars, wtok, wdesks>>

NoWinLease == [s |-> 0, exit |-> "no", resting |-> FALSE]
NoOut == [s |-> 0, t |-> 0, polling |-> FALSE]
NotArming == [s |-> 0, t |-> 0]

WindowsInit ==
  /\ wconfig = [sharing |-> TRUE, peers |-> WinPeers]
  /\ wos = [available |-> TRUE, blocked |-> FALSE]
  /\ wof = <<>> /\ walive = {} /\ wacts = {}
  /\ wlinks = [p \in WinPeers |-> 0] /\ wdialing = {} /\ wnet = {}
  /\ winbound = 0 /\ wlease = NoWinLease /\ wout = NoOut /\ warming = NotArming
  /\ wremote = FALSE /\ wkeys = FALSE /\ wreleasing = FALSE
  /\ wtok = 0 /\ wturns = 0 /\ wdesks = {}

peer_of(s) == wof[s].p
current(s) == s # 0 /\ wlinks[peer_of(s)] = s
Task(kind, s, t) == [kind |-> kind, s |-> s, t |-> t]

Turn == wturns < MaxTurns /\ wturns' = wturns + 1

(* Closing sessions: their peers let go of the desktops prepared on them.    *)
Close(gone) == walive' = walive \ gone /\ wdesks' = {d \in wdesks : d[1] \notin gone}

-----------------------------------------------------------------------------
(* Injector::release posts the releases; what Windows refuses stays held and *)
(* is tried again by apply, ready and tick.                                  *)
win_release_Once ==
  /\ wreleasing' = FALSE /\ wkeys' = (wkeys /\ wos.blocked)

win_release ==
  IF wos.blocked THEN wreleasing' = wkeys /\ UNCHANGED wkeys
  ELSE wkeys' = FALSE /\ wreleasing' = FALSE

retry_release == IF wreleasing THEN win_release ELSE UNCHANGED injector_vars

(* Injector::ready: a release that still pends refuses the crossing.         *)
injector_ready == ~wos.blocked

(* Injector::apply of a press: refused while a release pends or when Windows *)
(* refuses the event, and then everything held is released.                  *)
apply_works == ~wos.blocked
apply_press == IF apply_works THEN wkeys' = TRUE /\ wreleasing' = FALSE ELSE win_release

(* Engine::local, with the sessions that the caller closes as well.          *)
incoming == IF winbound # 0 THEN winbound ELSE wlease.s
in_use(p) == \E s \in {winbound, wlease.s, wout.s, warming.s} \ {0} : peer_of(s) = p

local(shut, net) ==
  /\ wremote' = FALSE
  /\ Close(shut \cup IF current(incoming) THEN {incoming} ELSE {})
  /\ warming' = NotArming /\ wout' = NoOut /\ winbound' = 0 /\ wlease' = NoWinLease
  /\ wnet' = net \cup IF wout.s = 0 THEN {}
                      ELSE {Task("end", s, wout.t) : s \in {wlinks[peer_of(wout.s)]} \ {0}}
  /\ win_release

-----------------------------------------------------------------------------
(* Sessions.  session_allowed: sharing is on and the peer still paired.      *)
session_allowed(p) == wconfig.sharing /\ p \in wconfig.peers

(* tick dials every paired peer that has no link and is not being dialed.    *)
dial(p) ==
  /\ wos.available /\ session_allowed(p) /\ wlinks[p] = 0 /\ p \notin wdialing
  /\ wdialing' = wdialing \cup {p} /\ retry_release
  /\ UNCHANGED <<world, wof, walive, wacts, wlinks, wnet, owner_vars, wtok, wdesks>>

(* start_session succeeded, for our dial or for an accepted connection.      *)
open(p, dialed) ==
  /\ Len(wof) < MaxWinSessions
  /\ IF dialed THEN p \in wdialing /\ ~\E m \in wnet : m.kind = "opened" /\ peer_of(m.s) = p
                    /\ wof[m.s].dialed
     ELSE session_allowed(p)
  /\ LET s == Len(wof) + 1 IN
     /\ wof' = Append(wof, [p |-> p, dialed |-> dialed])
     /\ walive' = walive \cup {s} /\ wnet' = wnet \cup {Task("opened", s, 0)}
  /\ UNCHANGED <<world, wacts, wlinks, wdialing, owner_vars, injector_vars, wtok, wdesks>>

(* Network::Failed.                                                          *)
failed(p) ==
  /\ p \in wdialing /\ wdialing' = wdialing \ {p}
  /\ ~\E m \in wnet : m.kind = "opened" /\ peer_of(m.s) = p /\ wof[m.s].dialed
  /\ UNCHANGED <<world, wof, walive, wacts, wlinks, wnet, owner_vars, injector_vars, wtok, wdesks>>

(* Network::Opened.  Of two sessions with one peer, the one whose dial wins  *)
(* stays; whatever used the replaced session comes back first.               *)
keeps_old(p, s) ==
  LET old == wlinks[p]
      prefer == p \in WinDialWins IN
  old \in walive /\ (wof[old].dialed = prefer \/ wof[s].dialed # prefer)

returns_first_Forgotten(p, shut, net) ==
  Close(shut) /\ wnet' = net /\ UNCHANGED <<owner_vars, injector_vars>>

returns_first(p, shut, net) ==
  IF in_use(p) THEN local(shut, net) ELSE Close(shut) /\ wnet' = net /\ UNCHANGED <<owner_vars, injector_vars>>

Opened(m) ==
  LET s == m.s
      p == peer_of(m.s)
      net == wnet \ {m} IN
  /\ m.kind = "opened" /\ wdialing' = wdialing \ {p}
  /\ \/ /\ ~session_allowed(p) \/ keeps_old(p, s)
        /\ Close({s}) /\ wnet' = net
        /\ UNCHANGED <<wlinks, owner_vars, injector_vars>>
     \/ /\ session_allowed(p) /\ ~keeps_old(p, s)
        /\ returns_first(p, {wlinks[p]}, net)
        /\ wlinks' = [wlinks EXCEPT ![p] = s]
  /\ UNCHANGED <<world, wof, wacts, wtok>>

(* The connection fails; the session ends and will say so.                   *)
WinLost(s) ==
  /\ s \in walive /\ Close({s})
  /\ UNCHANGED <<world, wof, wacts, wlinks, wdialing, wnet, owner_vars, injector_vars, wtok>>

(* SessionEventKind::Closed, after the last effects; that of a replaced      *)
(* session changes nothing.                                                  *)
Closed(s) ==
  LET p == peer_of(s) IN
  /\ current(s) /\ s \notin walive \cup wacts
  /\ wlinks' = [wlinks EXCEPT ![p] = 0]
  /\ IF wlease.s = s \/ \E u \in {winbound, wout.s, warming.s} \ {0} : peer_of(u) = p
     THEN local({}, wnet) ELSE UNCHANGED <<wnet, owner_vars, injector_vars, walive, wdesks>>
  /\ UNCHANGED <<world, wof, wacts, wdialing, wtok>>

-----------------------------------------------------------------------------
(* ReceiverEffects of session s.  A refusal ends the session.                *)
Speaks(s) == Task("opened", s, 0) \notin wnet
idle == wout.s = 0 /\ warming.s = 0

allowed_WhileArming(s, opens) ==
  /\ wconfig.sharing /\ wos.available /\ peer_of(s) \in wconfig.peers
  /\ IF winbound = 0 THEN opens ELSE winbound = s
  /\ wlease.s \in {0, s}

allowed(s, opens) ==
  /\ wconfig.sharing /\ wos.available /\ idle /\ peer_of(s) \in wconfig.peers
  /\ IF winbound = 0 THEN opens ELSE winbound = s
  /\ wlease.s \in {0, s}

not_allowed(s) ==
  /\ Close({s})
  /\ IF winbound = s /\ current(s) THEN win_release /\ winbound' = 0 ELSE UNCHANGED <<injector_vars, winbound>>

EffectsVars == <<world, wof, wlinks, wdialing, wnet, wlease, wout, warming, wremote, wtok>>

EffectsOpen(s) ==
  /\ Speaks(s) /\ s \in walive \ wacts
  /\ \/ /\ current(s) /\ allowed(s, TRUE)
        /\ win_release /\ winbound' = s /\ wacts' = wacts \cup {s}
        /\ UNCHANGED <<walive, wdesks>>
     \/ /\ ~current(s) \/ ~allowed(s, TRUE) \/ wlease.s = s    \* the lease may have expired
        /\ not_allowed(s) /\ UNCHANGED wacts
  /\ UNCHANGED EffectsVars

EffectsPress(s) ==
  /\ Speaks(s) /\ s \in walive \cap wacts
  /\ \/ /\ current(s) /\ allowed(s, FALSE) /\ apply_press
        /\ IF apply_works THEN UNCHANGED <<walive, wdesks>> ELSE Close({s})
        /\ UNCHANGED winbound
     \/ /\ ~current(s) \/ ~allowed(s, FALSE) \/ wlease.s = s
        /\ not_allowed(s)
  /\ UNCHANGED <<EffectsVars, wacts>>

(* The activation closes: by the peer, or because its session ends.          *)
EffectsClose(s) ==
  /\ Speaks(s) /\ s \in wacts /\ wacts' = wacts \ {s}
  /\ \E bare \in BOOLEAN :     \* nothing but ActivationClosed
       \/ /\ current(s) /\ allowed(s, bare)
          /\ win_release /\ winbound' = 0 /\ UNCHANGED <<walive, wdesks>>
       \/ /\ ~current(s) \/ ~allowed(s, bare) \/ wlease.s = s
          /\ not_allowed(s)
  /\ UNCHANGED EffectsVars

-----------------------------------------------------------------------------
(* Desktop requests of session s.                                            *)
admits(s) ==
  /\ current(s) /\ wconfig.sharing /\ wos.available /\ peer_of(s) \in wconfig.peers
  /\ idle /\ winbound \in {0, s} /\ wlease.s \in {0, s}

(* Prepare: the pointer enters, possibly on another exit's last pixels.      *)
Prepare(s) ==
  /\ Speaks(s) /\ s \in walive /\ admits(s) /\ wlease.s = 0 /\ injector_ready
  /\ \E resting \in BOOLEAN : wlease' = [s |-> s, exit |-> "no", resting |-> resting]
  /\ retry_release
  /\ UNCHANGED <<world, session_vars, wnet, winbound, wout, warming, wremote, wtok, wdesks>>

(* Lease::sample, with the pointer on an exit or not.                        *)
sample(l, on) ==
  IF l.exit # "no" THEN l
  ELSE [l EXCEPT !.resting = @ /\ on, !.exit = IF on /\ ~l.resting THEN "hit" ELSE "no"]

(* Poll after an exit was delivered: the pointer stays.                      *)
WinPoll(s) ==
  /\ Speaks(s) /\ s \in walive /\ admits(s) /\ wlease.s = s
  /\ \E on \in BOOLEAN :
       LET l == sample(IF wlease.exit = "told" THEN [wlease EXCEPT !.exit = "no", !.resting = TRUE] ELSE wlease, on)
       IN wlease' = IF l.exit = "no" THEN l ELSE [l EXCEPT !.exit = "told"]
  /\ UNCHANGED <<world, session_vars, wnet, winbound, wout, warming, wremote, injector_vars, wtok, wdesks>>

WinFinish(s) ==
  /\ Speaks(s) /\ s \in walive /\ admits(s) /\ wlease.s = s
  /\ win_release /\ winbound' = 0 /\ wlease' = NoWinLease
  /\ UNCHANGED <<world, session_vars, wnet, wout, warming, wremote, wtok, wdesks>>

-----------------------------------------------------------------------------
(* Crossings out.  arm asks the peer to prepare its desktop.                 *)
arm_works(p) ==
  /\ wconfig.sharing /\ wos.available /\ winbound = 0 /\ wlease.s = 0 /\ idle
  /\ wlinks[p] # 0 /\ p \in wconfig.peers /\ ~wos.blocked

(* At a tick, when the pointer crossed an edge or pending_activation waits   *)
(* for the keys to be up, or when the hook reports an edge.                  *)
arm(p) ==
  /\ arm_works(p) /\ wtok < MaxTokens /\ wtok' = wtok + 1
  /\ warming' = [s |-> wlinks[p], t |-> wtok + 1]
  /\ wnet' = wnet \cup {Task("prepare", wlinks[p], wtok + 1)}
  /\ retry_release
  /\ UNCHANGED <<world, session_vars, winbound, wlease, wout, wremote, wdesks>>

(* The spawned request ends: its answer is a network message.  A request     *)
(* that gets no answer closes the session.                                   *)
WinAnswered(m) ==
  /\ m.kind \in {"prepare", "poll"}
  /\ \E kind \in IF m.kind = "prepare" THEN {"prepared", "unavailable", "odd", "error"}
                 ELSE {"active", "exited", "over"} :
       /\ kind \in {"error", "over"} \/ m.s \in walive
       /\ wnet' = (wnet \ {m}) \cup {Task(kind, m.s, m.t)}
       /\ \/ kind \in {"error", "over"} /\ Close({m.s})
          \/ kind = "prepared" /\ wdesks' = wdesks \cup {<<m.s, m.t>>} /\ UNCHANGED walive
          \/ kind \notin {"error", "prepared"} /\ UNCHANGED <<walive, wdesks>>
  /\ UNCHANGED <<world, wof, wacts, wlinks, wdialing, owner_vars, injector_vars, wtok>>

(* The Finish that local and finish spawn; a failed one closes the session.  *)
Finished(m) ==
  /\ m.kind = "end" /\ wnet' = wnet \ {m}
  /\ \/ wdesks' = wdesks \ {<<m.s, m.t>>} /\ UNCHANGED walive
     \/ Close({m.s})
  /\ UNCHANGED <<world, wof, wacts, wlinks, wdialing, owner_vars, injector_vars, wtok>>

(* Network::Prepared.                                                        *)
win_finish(m) == IF current(m.s) THEN {Task("end", m.s, m.t)} ELSE {}
cancelled_Kept(m) == {}
cancelled(m) == IF m.kind = "prepared" THEN win_finish(m) ELSE {}

(* The checks before the grab: geometry, cursor, clean, sharing, unblocked   *)
(* and begin_outbound; each may fail.                                        *)
may_begin(s) == wconfig.sharing /\ wos.available /\ ~wos.blocked

Prepared(m) ==
  LET armed == warming = [s |-> m.s, t |-> m.t]
      net == wnet \ {m} IN
  /\ m.kind \in {"prepared", "unavailable", "odd", "error"}
  /\ \/ /\ ~current(m.s) /\ wnet' = net
        /\ UNCHANGED <<owner_vars, walive, wdesks, injector_vars>>
     \/ /\ current(m.s) /\ ~armed /\ wnet' = net \cup cancelled(m)
        /\ UNCHANGED <<owner_vars, walive, wdesks, injector_vars>>
     \/ /\ current(m.s) /\ armed /\ m.kind # "prepared" /\ warming' = NotArming /\ wnet' = net
        /\ IF m.kind = "odd" THEN Close({m.s}) ELSE UNCHANGED <<walive, wdesks>>
        /\ UNCHANGED <<winbound, wlease, wout, wremote, injector_vars>>
     \/ /\ current(m.s) /\ armed /\ m.kind = "prepared"           \* a check failed
        /\ warming' = NotArming /\ wnet' = net \cup win_finish(m)
        /\ UNCHANGED <<winbound, wlease, wout, wremote, walive, wdesks, injector_vars>>
     \/ /\ current(m.s) /\ armed /\ m.kind = "prepared" /\ may_begin(m.s)
        /\ wout' = [s |-> m.s, t |-> m.t, polling |-> FALSE] /\ warming' = NotArming
        /\ wremote' = TRUE /\ wnet' = net
        /\ UNCHANGED <<winbound, wlease, walive, wdesks, injector_vars>>
     \/ /\ current(m.s) /\ armed /\ m.kind = "prepared" /\ may_begin(m.s)    \* the grab failed
        /\ wremote' = FALSE /\ warming' = NotArming /\ wnet' = net \cup win_finish(m)
        /\ win_release /\ UNCHANGED <<winbound, wlease, wout, walive, wdesks>>
  /\ UNCHANGED <<world, wof, wacts, wlinks, wdialing, wtok>>

(* tick: poll the desktop that has the input.  The link is looked up by its  *)
(* peer, which must be there.                                                *)
PollOut ==
  /\ wos.available /\ wout.s # 0 /\ wremote /\ ~wout.polling
  /\ wout' = [wout EXCEPT !.polling = TRUE]
  /\ wnet' = wnet \cup {Task("poll", wlinks[peer_of(wout.s)], wout.t)}
  /\ retry_release
  /\ UNCHANGED <<world, session_vars, winbound, wlease, warming, wremote, wtok, wdesks>>

(* Network::Polled: matched by its session.                                  *)
WinPolled(m) ==
  LET net == wnet \ {m} IN
  /\ m.kind \in {"active", "exited", "over"}
  /\ \/ wout.s # m.s /\ wnet' = net /\ UNCHANGED <<owner_vars, walive, wdesks, injector_vars>>
     \/ /\ wout.s = m.s /\ m.kind = "active" /\ wnet' = net
        /\ wout' = [wout EXCEPT !.polling = FALSE]
        /\ UNCHANGED <<winbound, wlease, warming, wremote, walive, wdesks, injector_vars>>
     \/ wout.s = m.s /\ m.kind # "active" /\ local({}, net)
  /\ UNCHANGED <<world, wof, wacts, wlinks, wdialing, wtok>>

(* Input comes back: Local, Stalled, Escape, Activate pressed again, a frame *)
(* the session does not take, OutboundEnded, a new geometry.                 *)
ComeBack ==
  /\ local({}, wnet)
  /\ UNCHANGED <<world, wof, wacts, wlinks, wdialing, wtok>>

Escape ==
  /\ Turn /\ wconfig.sharing /\ local({}, wnet) /\ wconfig' = [wconfig EXCEPT !.sharing = FALSE]
  /\ UNCHANGED <<wos, wof, wacts, wlinks, wdialing, wtok>>

-----------------------------------------------------------------------------
(* Commands.  A configuration that cannot be saved is the saved one again.   *)
Forget(p) ==
  /\ Turn /\ p \in wconfig.peers /\ local({wlinks[p]}, wnet)
  /\ wlinks' = [wlinks EXCEPT ![p] = 0]
  /\ wconfig' \in {wconfig, [wconfig EXCEPT !.peers = @ \ {p}]}
  /\ UNCHANGED <<wos, wof, wacts, wdialing, wtok>>

Trust(p) ==
  /\ Turn /\ p \notin wconfig.peers /\ wconfig' = [wconfig EXCEPT !.peers = @ \cup {p}]
  /\ UNCHANGED <<wos, session_vars, wnet, owner_vars, injector_vars, wtok, wdesks>>

Sharing(enabled) ==
  /\ Turn
  /\ IF enabled THEN UNCHANGED <<wlinks, wnet, owner_vars, injector_vars, walive, wdesks>>
     ELSE local({wlinks[p] : p \in WinPeers}, wnet) /\ wlinks' = [p \in WinPeers |-> 0]
  /\ wconfig' \in {wconfig, [wconfig EXCEPT !.sharing = enabled]}
  /\ UNCHANGED <<wos, wof, wacts, wdialing, wtok>>

(* tick on a locked desktop, after a watchdog gave the input back, and with  *)
(* a lease that expired.                                                     *)
TickLocked ==
  /\ ~wos.available
  /\ IF \E s \in {winbound, wlease.s, wout.s, warming.s} : s # 0 THEN local({}, wnet)
     ELSE win_release /\ UNCHANGED <<wnet, owner_vars, walive, wdesks>>
  /\ UNCHANGED <<world, wof, wacts, wlinks, wdialing, wtok>>

TickLease ==
  /\ wos.available /\ wlease.s # 0
  /\ \/ local({wlinks[peer_of(wlease.s)]}, wnet)
     \/ /\ \E on \in BOOLEAN : wlease' = sample(wlease, on)
        /\ retry_release /\ UNCHANGED <<wnet, winbound, wout, warming, wremote, walive, wdesks>>
  /\ UNCHANGED <<world, wof, wacts, wlinks, wdialing, wtok>>

Tick ==
  /\ wos.available /\ wreleasing /\ retry_release
  /\ UNCHANGED <<world, session_vars, wnet, owner_vars, wtok, wdesks>>

(* The watchdog of the hooks gives the input back by itself.                 *)
Watchdog ==
  /\ wremote /\ wremote' = FALSE
  /\ UNCHANGED <<world, session_vars, wnet, winbound, wlease, wout, warming, injector_vars, wtok, wdesks>>

(* The desktop locks and unlocks; a privileged window takes and loses focus. *)
Desktop ==
  /\ Turn
  /\ \/ wos' = [wos EXCEPT !.available = ~@]
     \/ wos' = [wos EXCEPT !.blocked = ~@]
  /\ UNCHANGED <<wconfig, session_vars, wnet, owner_vars, injector_vars, wtok, wdesks>>

WindowsNext ==
  \/ ComeBack \/ Escape \/ PollOut \/ TickLocked \/ TickLease \/ Tick \/ Watchdog \/ Desktop
  \/ \E b \in BOOLEAN : Sharing(b)
  \/ \E p \in WinPeers :
       \/ dial(p) \/ failed(p) \/ arm(p) \/ Forget(p) \/ Trust(p)
       \/ \E dialed \in BOOLEAN : open(p, dialed)
  \/ \E s \in 1..Len(wof) :
       \/ WinLost(s) \/ Closed(s) \/ EffectsOpen(s) \/ EffectsPress(s) \/ EffectsClose(s)
       \/ Prepare(s) \/ WinPoll(s) \/ WinFinish(s)
  \/ \E m \in wnet : Opened(m) \/ WinAnswered(m) \/ Finished(m) \/ Prepared(m) \/ WinPolled(m)

-----------------------------------------------------------------------------
(* Windows never both sends and receives, and holds its own input back only  *)
(* while it sends: whatever the order of answers, losses and commands.       *)
WindowsOneOwner ==
  /\ idle \/ (winbound = 0 /\ wlease.s = 0)
  /\ wout.s = 0 \/ warming.s = 0
  /\ wremote => wout.s # 0

(* What uses a session uses the current one of its peer, and a linked peer   *)
(* is paired: tick and the handlers of Prepared index both maps by the peer, *)
(* and a missing entry would stop the engine with the input held back.       *)
UsersAreLinked ==
  /\ \A s \in {winbound, wlease.s, wout.s, warming.s} \ {0} : current(s)
  /\ \A p \in WinPeers : wlinks[p] # 0 => p \in wconfig.peers

(* A key is down in Windows only while the peer that owns the injector is    *)
(* there, or while the injector still has to release it.                     *)
WindowsKeyIsOwned == wkeys => winbound # 0 \/ wreleasing

(* A desktop that a peer prepared for this computer is in use, is about to   *)
(* be, or is being given back, however the crossing was cancelled.           *)
PreparedIsGivenBack ==
  \A d \in wdesks :
    \/ wout.s = d[1] /\ wout.t = d[2]
    \/ Task("prepared", d[1], d[2]) \in wnet
    \/ Task("end", d[1], d[2]) \in wnet
    \/ d[1] \notin walive
=============================================================================
