----------------------------- MODULE MacReceive -----------------------------
(***************************************************************************)
(* A Mac that a peer controls: Ownership, Receiving and Inbound of          *)
(* macos/receive.rs with the HandoffServer of macos/handoff_server.rs.  The *)
(* link tasks, the tasks that answer desktop requests, the watchers and the *)
(* application thread share the policy, the ownership, the lease and the    *)
(* injector's queue, each behind a lock of its own that nobody holds for    *)
(* long, so every step that takes one is an action.                         *)
(***************************************************************************)
EXTENDS Naturals, Sequences, FiniteSets

CONSTANTS
  Controllers,   \* peers with a link to this Mac
  MaxSessions,   \* bound: sessions over a run
  MaxPrepares,   \* bound: handoffs asked for over a run
  MaxChanges     \* bound: changes of the policy and of the screen lock over a run

ASSUME MacReceiveAssumption == MaxSessions \in Nat /\ MaxPrepares \in Nat /\ MaxChanges \in Nat

VARIABLES
  policy,     \* peers whose record and Accessibility let them control this Mac
  revoking,   \* set_peers holds the policy lock, with revoke still to run
  macLocked,  \* the screen is locked
  ownership,  \* State: outbound, inbound and lease, each <<peer, session>> or <<>>
  current,    \* Sessions: each peer's session id, 0 for none
  inbound,    \* each link's Inbound
  queue,      \* commands on their way to the injector
  heldBy,     \* the session whose input is down on this Mac, 0 for none
  deskLease,  \* HandoffServer.lease, {} or {a lease}
  requests,   \* tasks that answer a Prepare: session, token and step
  enders,     \* a lease was taken, and its release_all and close follow
  sessionIds, tokens, changes   \* counted so far

macReceiveVars == <<policy, revoking, macLocked, ownership, current, inbound, queue, heldBy,
                    deskLease, requests, enders, sessionIds, tokens, changes>>

NoInbound == [id |-> 0, pc |-> "gone", claim |-> FALSE, open |-> FALSE, batch |-> "none",
              reply |-> "none", closing |-> FALSE]

MacReceiveInit ==
  /\ policy = Controllers /\ revoking = FALSE /\ macLocked = FALSE
  /\ ownership = [outbound |-> FALSE, inbound |-> <<>>, lease |-> <<>>]
  /\ current = [p \in Controllers |-> 0] /\ inbound = [p \in Controllers |-> NoInbound]
  /\ queue = <<>> /\ heldBy = 0 /\ deskLease = {} /\ requests = {} /\ enders = {}
  /\ sessionIds = 0 /\ tokens = 0 /\ changes = 0

Who(p) == <<p, inbound[p].id>>
At(p, pc) == inbound[p].pc = pc
Release == [kind |-> "release", id |-> 0]

(* Injector::release_all.  A second one right behind the first changes       *)
(* nothing and is left out.                                                  *)
PushRelease == IF queue # <<>> /\ queue[Len(queue)] = Release THEN queue ELSE Append(queue, Release)

(* admit, as a new activation or a desktop request asks (fresh) or a batch.  *)
Admitted(p, fresh) == p \in policy /\ ~(fresh /\ macLocked)

(* State::check. *)
check(who) ==
  /\ ~ownership.outbound
  /\ ownership.inbound \in {<<>>, who} /\ ownership.lease \in {<<>>, who}

controller == IF ownership.inbound # <<>> THEN ownership.inbound ELSE ownership.lease

(* Sessions::close: asks the peer's session to end. *)
CloseSession(p) ==
  inbound' = IF current[p] = 0 THEN inbound ELSE [inbound EXCEPT ![p].closing = TRUE]

-----------------------------------------------------------------------------
(* A crossing to a peer, from the edge until input is back.                  *)
begin_outbound ==
  /\ ~ownership.outbound /\ ownership.inbound = <<>> /\ ownership.lease = <<>>
  /\ ownership' = [ownership EXCEPT !.outbound = TRUE]
  /\ UNCHANGED <<policy, revoking, macLocked, current, inbound, queue, heldBy, deskLease,
                 requests, enders, sessionIds, tokens, changes>>

end_outbound ==
  /\ ownership.outbound /\ ownership' = [ownership EXCEPT !.outbound = FALSE]
  /\ UNCHANGED <<policy, revoking, macLocked, current, inbound, queue, heldBy, deskLease,
                 requests, enders, sessionIds, tokens, changes>>

(* set_peers and set_accessibility: the policy changes, then revoke looks    *)
(* for a controller it no longer admits, all under the policy lock.          *)
set_peers(allowed) ==
  /\ ~revoking /\ policy # allowed /\ changes < MaxChanges
  /\ policy' = allowed /\ revoking' = TRUE /\ changes' = changes + 1
  /\ UNCHANGED <<macLocked, ownership, current, inbound, queue, heldBy, deskLease,
                 requests, enders, sessionIds, tokens>>

revoke ==
  /\ revoking /\ revoking' = FALSE
  /\ IF controller # <<>> /\ controller[1] \notin policy THEN CloseSession(controller[1])
     ELSE UNCHANGED inbound
  /\ UNCHANGED <<policy, macLocked, ownership, current, queue, heldBy, deskLease,
                 requests, enders, sessionIds, tokens, changes>>

Locks ==
  /\ changes < MaxChanges /\ changes' = changes + 1 /\ macLocked' = ~macLocked
  /\ UNCHANGED <<policy, revoking, ownership, current, inbound, queue, heldBy, deskLease,
                 requests, enders, sessionIds, tokens>>

watch_lock ==
  /\ macLocked /\ controller # <<>> /\ ~inbound[controller[1]].closing
  /\ queue' = PushRelease /\ CloseSession(controller[1])
  /\ UNCHANGED <<policy, revoking, macLocked, ownership, current, heldBy, deskLease,
                 requests, enders, sessionIds, tokens, changes>>

-----------------------------------------------------------------------------
(* Receiving::inbound: a link's new session. *)
StartInbound(p) ==
  /\ At(p, "gone") /\ sessionIds < MaxSessions
  /\ sessionIds' = sessionIds + 1
  /\ current' = [current EXCEPT ![p] = sessionIds + 1]
  /\ inbound' = [inbound EXCEPT ![p] = [NoInbound EXCEPT !.id = sessionIds + 1, !.pc = "idle"]]
  /\ UNCHANGED <<policy, revoking, macLocked, ownership, queue, heldBy, deskLease,
                 requests, enders, tokens, changes>>

release_Forgotten(p, then) ==
  /\ UNCHANGED queue
  /\ ownership' = IF inbound[p].claim THEN [ownership EXCEPT !.inbound = <<>>] ELSE ownership
  /\ inbound' = [inbound EXCEPT ![p] = [then EXCEPT !.claim = FALSE]]

(* Inbound::release: the injector is told before the claim goes.             *)
release_claim(p, then) ==
  /\ queue' = IF inbound[p].claim THEN PushRelease ELSE queue
  /\ ownership' = IF inbound[p].claim THEN [ownership EXCEPT !.inbound = <<>>] ELSE ownership
  /\ inbound' = [inbound EXCEPT ![p] = [then EXCEPT !.claim = FALSE]]

(* A refused batch lets go and answers with an error, which ends the session.*)
RefuseBatch(p) ==
  release_claim(p, [inbound[p] EXCEPT !.pc = "ended", !.open = FALSE, !.closing = TRUE])

SendBatch(p) ==
  /\ queue' = Append(queue, [kind |-> inbound[p].batch, id |-> inbound[p].id])
  /\ inbound' = [inbound EXCEPT ![p].pc = "sent"]
  /\ UNCHANGED ownership

(* Inbound::effects of a batch that opens an activation: admission, then     *)
(* the claim, then admission again, each under another lock.                 *)
Opens(p) ==
  /\ At(p, "idle") /\ ~inbound[p].open /\ ~revoking
  /\ \/ /\ ~Admitted(p, TRUE) /\ RefuseBatch(p)
     \/ /\ Admitted(p, TRUE)
        /\ inbound' = [inbound EXCEPT ![p].pc = "admitted", ![p].batch = "open", ![p].open = TRUE]
        /\ UNCHANGED <<queue, ownership>>
  /\ UNCHANGED <<policy, revoking, macLocked, current, heldBy, deskLease, requests, enders,
                 sessionIds, tokens, changes>>

claim_for(p) ==
  /\ At(p, "admitted")
  /\ \/ /\ ~check(Who(p)) /\ RefuseBatch(p)
     \/ /\ check(Who(p)) /\ ownership' = [ownership EXCEPT !.inbound = Who(p)]
        /\ inbound' = [inbound EXCEPT ![p].pc = "claimed", ![p].claim = TRUE]
        /\ UNCHANGED queue
  /\ UNCHANGED <<policy, revoking, macLocked, current, heldBy, deskLease, requests, enders,
                 sessionIds, tokens, changes>>

Recheck_Skipped(p) == TRUE
(* The second look, at the policy alone. *)
Recheck(p) == Admitted(p, FALSE)

take_control(p) ==
  /\ At(p, "claimed") /\ ~revoking
  /\ IF Recheck(p) THEN SendBatch(p) ELSE RefuseBatch(p)
  /\ UNCHANGED <<policy, revoking, macLocked, current, heldBy, deskLease, requests, enders,
                 sessionIds, tokens, changes>>

(* A batch of the open activation: input needs admission, a close is a       *)
(* safety release and always goes through.                                   *)
Effects(p, batch) ==
  /\ At(p, "idle") /\ inbound[p].open /\ ~revoking
  /\ \/ /\ batch = "press" /\ ~Admitted(p, FALSE) /\ RefuseBatch(p)
     \/ /\ batch = "close" \/ Admitted(p, FALSE)
        /\ queue' = Append(queue, [kind |-> batch, id |-> inbound[p].id])
        /\ inbound' = [inbound EXCEPT ![p].pc = "sent", ![p].batch = batch]
        /\ UNCHANGED ownership
  /\ UNCHANGED <<policy, revoking, macLocked, current, heldBy, deskLease, requests, enders,
                 sessionIds, tokens, changes>>

(* The injector's answer: a close that was applied already let go, and only  *)
(* the claim is left to drop.                                                *)
Answered(p) ==
  /\ At(p, "sent") /\ inbound[p].reply # "none"
  /\ LET b == [inbound[p] EXCEPT !.pc = "idle", !.reply = "none", !.open = @ /\ inbound[p].batch # "close"]
     IN CASE inbound[p].reply = "failed" ->
               RefuseBatch(p)
          [] inbound[p].reply = "ok" /\ b.batch = "close" /\ b.claim ->
               /\ ownership' = [ownership EXCEPT !.inbound = <<>>]
               /\ inbound' = [inbound EXCEPT ![p] = [b EXCEPT !.claim = FALSE]]
               /\ UNCHANGED queue
          [] OTHER -> inbound' = [inbound EXCEPT ![p] = b] /\ UNCHANGED <<queue, ownership>>
  /\ UNCHANGED <<policy, revoking, macLocked, current, heldBy, deskLease, requests, enders,
                 sessionIds, tokens, changes>>

(* The link drops its Inbound: its session closed or was lost, or the link   *)
(* itself is stopped while a batch waits.  The claim goes first, then the    *)
(* session, then the handoff.                                                *)
DropInbound(p) ==
  /\ \/ /\ inbound[p].pc \in {"idle", "sent", "ended"}
        /\ release_claim(p, [inbound[p] EXCEPT !.pc = "dropped", !.open = FALSE, !.reply = "none"])
        /\ UNCHANGED current
     \/ /\ At(p, "dropped")
        /\ current' = [current EXCEPT ![p] = 0]
        /\ inbound' = [inbound EXCEPT ![p].pc = "removed"]
        /\ UNCHANGED <<queue, ownership>>
  /\ UNCHANGED <<policy, revoking, macLocked, heldBy, deskLease, requests, enders,
                 sessionIds, tokens, changes>>

-----------------------------------------------------------------------------
(* The injector thread: an activation opens with nothing down, and a batch   *)
(* that fails lets go of everything.                                         *)
InjectorTakes ==
  /\ queue # <<>> /\ queue' = Tail(queue)
  /\ LET c == Head(queue)
         answer(r) == [p \in Controllers |-> IF inbound[p].id = c.id /\ At(p, "sent")
                                             THEN [inbound[p] EXCEPT !.reply = r] ELSE inbound[p]]
     IN \/ heldBy' = (IF c.kind = "press" THEN c.id ELSE 0) /\ inbound' = answer("ok")
        \/ c.kind # "release" /\ heldBy' = 0 /\ inbound' = answer("failed")
  /\ UNCHANGED <<policy, revoking, macLocked, ownership, current, deskLease, requests, enders,
                 sessionIds, tokens, changes>>

-----------------------------------------------------------------------------
(* A desktop request is answered on a task of its own, which can outlive its *)
(* session.                                                                  *)
LeaseOf(id, token) == {l \in deskLease : l.id = id /\ l.token = token}

(* Taking the lease drops its guard. *)
TakeLease(ls) ==
  /\ deskLease' = deskLease \ ls
  /\ ownership' = IF ls = {} THEN ownership ELSE [ownership EXCEPT !.lease = <<>>]

AskPrepare(p) ==
  /\ inbound[p].pc \in {"idle", "sent"} /\ tokens < MaxPrepares /\ ~revoking
  /\ tokens' = tokens + 1
  /\ requests' = IF Admitted(p, TRUE)
                 THEN requests \cup {[p |-> p, id |-> inbound[p].id, token |-> tokens + 1, pc |-> "asked"]}
                 ELSE requests
  /\ UNCHANGED <<policy, revoking, macLocked, ownership, current, inbound, queue, heldBy,
                 deskLease, enders, sessionIds, changes>>

is_current_Assumed(r) == TRUE
is_current(r) == current[r.p] = r.id

(* prepare, under the lease lock: the session is still there, and the lease  *)
(* free.                                                                     *)
prepare(r) ==
  /\ r.pc = "asked" /\ r \in requests
  /\ IF is_current(r) /\ check(<<r.p, r.id>>) /\ ownership.lease = <<>>
     THEN /\ deskLease' = {[p |-> r.p, id |-> r.id, token |-> r.token, exited |-> FALSE,
                            delivered |-> FALSE]}
          /\ ownership' = [ownership EXCEPT !.lease = <<r.p, r.id>>]
          /\ requests' = (requests \ {r}) \cup {[r EXCEPT !.pc = "entering"]}
     ELSE requests' = requests \ {r} /\ UNCHANGED <<deskLease, ownership>>
  /\ UNCHANGED <<policy, revoking, macLocked, current, inbound, queue, heldBy, enders,
                 sessionIds, tokens, changes>>

(* The cursor reached its entry or the lease is gone, or it did not in time. *)
Entered(r) ==
  /\ r.pc = "entering" /\ r \in requests /\ requests' = requests \ {r}
  /\ \/ UNCHANGED <<deskLease, ownership>>
     \/ TakeLease(LeaseOf(r.id, r.token))
  /\ UNCHANGED <<policy, revoking, macLocked, current, inbound, queue, heldBy, enders,
                 sessionIds, tokens, changes>>

(* poll, its renewal and its answer: asking again after an exit was answered *)
(* keeps the pointer here.                                                   *)
PollLease(l) ==
  /\ Admitted(l.p, TRUE) /\ ~revoking /\ check(<<l.p, l.id>>)
  /\ \/ l.delivered /\ deskLease' = {[l EXCEPT !.exited = FALSE, !.delivered = FALSE]}
     \/ l.exited /\ ~l.delivered /\ deskLease' = {[l EXCEPT !.delivered = TRUE]}
  /\ UNCHANGED <<policy, revoking, macLocked, ownership, current, inbound, queue, heldBy,
                 requests, enders, sessionIds, tokens, changes>>

(* moved and sample: the pointer leaves through an exit, and the peer's      *)
(* moves are dropped until it has answered.                                  *)
Pointer(l) ==
  /\ ~l.exited /\ deskLease' = {[l EXCEPT !.exited = TRUE]}
  /\ UNCHANGED <<policy, revoking, macLocked, ownership, current, inbound, queue, heldBy,
                 requests, enders, sessionIds, tokens, changes>>

(* finish takes the lease; expire_at, after two seconds without a Poll or on *)
(* new displays, also closes the session.  What follows is a second step.    *)
EndLease(l, close) ==
  /\ close \/ (Admitted(l.p, TRUE) /\ ~revoking /\ check(<<l.p, l.id>>))
  /\ TakeLease({l}) /\ enders' = enders \cup {[p |-> l.p, id |-> l.id, close |-> close]}
  /\ UNCHANGED <<policy, revoking, macLocked, current, inbound, queue, heldBy, requests,
                 sessionIds, tokens, changes>>

LeaseEnded(e) ==
  /\ e \in enders /\ enders' = enders \ {e} /\ queue' = PushRelease
  /\ IF e.close /\ current[e.p] = e.id THEN CloseSession(e.p) ELSE UNCHANGED inbound
  /\ UNCHANGED <<policy, revoking, macLocked, ownership, current, heldBy, deskLease, requests,
                 sessionIds, tokens, changes>>

(* closed, the last step of a dropped Inbound. *)
handoff_closed(p) ==
  LET ls == {l \in deskLease : l.p = p /\ l.id = inbound[p].id} IN
  /\ At(p, "removed") /\ TakeLease(ls)
  /\ queue' = IF ls = {} THEN queue ELSE PushRelease
  /\ inbound' = [inbound EXCEPT ![p] = NoInbound]
  /\ UNCHANGED <<policy, revoking, macLocked, current, heldBy, requests, enders, sessionIds, tokens, changes>>

-----------------------------------------------------------------------------
MacReceiveNext ==
  \/ begin_outbound \/ end_outbound \/ revoke \/ Locks \/ watch_lock \/ InjectorTakes
  \/ \E allowed \in SUBSET Controllers : set_peers(allowed)
  \/ \E p \in Controllers :
       \/ StartInbound(p) \/ Opens(p) \/ claim_for(p) \/ take_control(p) \/ Answered(p)
       \/ DropInbound(p) \/ handoff_closed(p) \/ AskPrepare(p)
       \/ \E batch \in {"press", "close"} : Effects(p, batch)
  \/ \E r \in requests : prepare(r) \/ Entered(r)
  \/ \E l \in deskLease : PollLease(l) \/ Pointer(l) \/ \E close \in BOOLEAN : EndLease(l, close)
  \/ \E e \in enders : LeaseEnded(e)

-----------------------------------------------------------------------------
(* A peer that the policy no longer admits does not stay in control: its     *)
(* session is told to close, unless the revocation or the second look at the *)
(* policy that follows its claim is still to come (revoke, Inbound::effects).*)
RevokedLosesControl ==
  \A p \in Controllers \ policy :
    inbound[p].claim => inbound[p].closing \/ revoking \/ inbound[p].pc \in {"claimed", "dropped"}

(* What a session holds down belongs to the session that has control, or a   *)
(* release is on its way ahead of anybody else's input; so nothing of a peer *)
(* is left down on a Mac that sends its own input (Inbound::release).        *)
HeldByController ==
  heldBy # 0 =>
    \/ ownership.inbound # <<>> /\ ownership.inbound[2] = heldBy
    \/ \E i \in DOMAIN queue :
         /\ queue[i] \in {Release, [kind |-> "close", id |-> heldBy]}
         /\ \A j \in 1..i : queue[j].kind # "press" \/ queue[j].id = heldBy

(* The desktop is reserved for the session whose handoff it is, and that     *)
(* session is still there or about to end it: a lease that outlived its      *)
(* session would keep every crossing out (prepare, closed).                  *)
LeaseHasSession ==
  /\ {<<l.p, l.id>> : l \in deskLease} = {ownership.lease} \ {<<>>}
  /\ \A l \in deskLease : inbound[l.p].id = l.id
=============================================================================
