---------------------------- MODULE InputSession ----------------------------
(***************************************************************************)
(* One direction of an input session: the session actor of the computer    *)
(* that captures input (the source), the QUIC connection, the session      *)
(* actor of the computer that is controlled (the sink) and its injection   *)
(* backend.  session.rs and session/receive.rs drive the engines of        *)
(* Sender, Receiver and Playout.                                           *)
(*                                                                         *)
(* The source's handlers only send, so each is one step.  The sink's       *)
(* handlers await the backend in the middle, so the sink has a program     *)
(* counter: "select" is the select! loop, "poll" and "drain" are           *)
(* poll_playout and drain_pending_controls, "emit" waits for the backend's *)
(* receipt, "cleanup" is the release after the loop ended.                 *)
(*                                                                         *)
(* Control and acks are reliable ordered streams.  Motion is a set of      *)
(* datagrams: any frame ever sent may arrive at any time, any number of    *)
(* times, or never.  Clock mapping and jitter decide only when a queued    *)
(* frame or an anchored control is mature; both are left open.             *)
(***************************************************************************)
EXTENDS Sender, Receiver, Playout

CONSTANTS Devices,       \* captured input devices
          Supported,     \* members the backend can inject (backend_supports)
          Deltas,        \* pointer motion of one captured frame
          MaxQueue,      \* maximum_queued_frames: frames and deferred controls
          RejectClosing, \* whether the runtime may refuse a batch that closes
          MaxActs, MaxControl, MaxMotion, MaxTime  \* bounds of the instance

ASSUME SessionAssumption ==
  /\ Supported \subseteq Members
  /\ Deltas \subseteq Int
  /\ MaxQueue \in Nat \ {0}
  /\ RejectClosing \in BOOLEAN
  /\ {MaxActs, MaxControl, MaxMotion, MaxTime} \subseteq Nat

VARIABLES
  now,        \* the clock, in ticks
  sender,     \* the source's Sender, NoSender when None
  merger,     \* CaptureMerger.held_by_device
  nextAct,    \* the last activation id allocated
  srcEnd,     \* why the source's actor ended, "running" before
  control,    \* reliable controls in flight, source to sink
  acks,       \* snapshot acknowledgements in flight, sink to source
  motion,     \* every motion datagram sent
  connected,  \* the QUIC connection
  pc, resume, \* where the sink's actor is, and where it goes once emitted
  at,         \* the time the running handler of the sink read
  receiver, pending, playout,
  batch,      \* the effects the sink waits to see applied
  sinkEnd,    \* why the sink's loop ended, "running" before
  backend,    \* what the sink's computer sees held, and the pointer's travel
  mirror,     \* history: `after` of the last control applied
  shown,      \* history: the last control whose effects the backend applied
  closedBy    \* history: why the last activation closed, "none" while open

source == <<sender, merger, nextAct, srcEnd>>
network == <<control, acks, motion, connected>>
sink == <<pc, resume, at, receiver, pending, playout, batch, sinkEnd>>
history == <<mirror, shown, closedBy>>
vars == <<now, source, network, sink, backend, history>>

SrcEnds == {"running", "closed", "overflow", "limit", "invalid", "lost"}
SinkEnds == {"running", "closed", "limit", "invalid", "rejected", "lost"}

Init ==
  /\ now = 0
  /\ sender = NoSender /\ merger = [d \in Devices |-> {}]
  /\ nextAct = 0 /\ srcEnd = "running"
  /\ control = <<>> /\ acks = <<>> /\ motion = {} /\ connected = TRUE
  /\ pc = "select" /\ resume = "select" /\ at = 0
  /\ receiver = NewReceiver /\ pending = <<>> /\ playout = NoPlayout
  /\ batch = NoEffects /\ sinkEnd = "running"
  /\ backend = [held |-> Neutral, pos |-> 0]
  /\ mirror = [held |-> Neutral, totals |-> 0]
  /\ shown = [act |-> 0, ctl |-> 0]
  /\ closedBy = "none"

-----------------------------------------------------------------------------
(* The source's actor *)

SourceRuns == srcEnd = "running" /\ connected

(* The loop ended: outbound cleanup, and the caller closes the transport. *)
SourceEnds(why) ==
  /\ srcEnd' = why
  /\ connected' = FALSE
  /\ sender' = NoSender
  /\ merger' = [d \in Devices |-> {}]

(* SessionCommand::BeginOutbound *)
BeginOutbound ==
  /\ SourceRuns /\ sender.act = 0
  /\ nextAct < MaxActs
  /\ nextAct' = nextAct + 1
  /\ LET s == NewSender(nextAct + 1, now)
     IN  /\ sender' = Sent(s)
         /\ control' = Append(control, EnterMessage(s))
  /\ merger' = [d \in Devices |-> {}]
  /\ UNCHANGED <<now, srcEnd, acks, motion, connected, sink, backend, history>>

(* CaptureMerger::merge for one transition: the union of all devices *)
(* Mutant: only what every device holds counts as held. *)
HeldByAny_All(m, member) == \A d \in Devices : member \in m[d]

HeldByAny(m, member) == \E d \in Devices : member \in m[d]

Merge(m, device, member, pressed) ==
  IF member = NoMember THEN m
  ELSE [m EXCEPT ![device] = IF pressed THEN @ \cup {member} ELSE @ \ {member}]

(* send_capture.  A captured frame has a motion, a touch snapshot ("none"   *)
(* when the frame has no snapshot) and at most one transition.  Each part  *)
(* maps [s, ctl, mot]: the sender, the controls and the frames sent so far.*)
SendControl(x, s, message) ==
  [s |-> Sent(s), ctl |-> Append(x.ctl, message), mot |-> x.mot]

SendMotion(x, delta, touch) ==
  LET s == CaptureMotion(x.s, delta, touch, now)
  IN  [s |-> s, ctl |-> x.ctl, mot |-> x.mot \cup {FrameOf(s, touch)}]

MaybeMotion(x, delta) == IF delta = 0 THEN x ELSE SendMotion(x, delta, NoTouch)

SendTouchAndMotion(x, delta, touch) ==
  LET begun == SendControl(x, TouchBegin(x.s, touch), TouchBeginMessage(x.s, touch))
      moved == MaybeMotion(x, delta)
  IN  IF touch = "none" THEN MaybeMotion(x, delta)
      ELSE IF x.s.held.touch = NoTouch /\ touch # NoTouch THEN MaybeMotion(begun, delta)
      ELSE IF x.s.held.touch # NoTouch /\ touch = NoTouch
        THEN SendControl(moved, TouchEnd(moved.s), TouchEndMessage(moved.s))
      ELSE IF touch # NoTouch THEN SendMotion(x, delta, touch)
      ELSE MaybeMotion(x, delta)

SendTransition(x, member, pressed) ==
  SendControl(x, Transition(x.s, member, pressed), TransitionMessage(x.s, member, pressed))

(* SessionCommand::Capture.  An overflow closes the sender; only a touch    *)
(* that began in the same frame has been sent by then.                     *)
Capture ==
  /\ SourceRuns /\ sender.act # 0
  /\ \E device \in Devices, delta \in Deltas, touch \in TouchStates \cup {"none"},
        member \in Members \cup {NoMember}, pressed \in BOOLEAN :
       LET merged == Merge(merger, device, member, pressed)
           changed == HeldByAny(merger, member) # HeldByAny(merged, member)
           start == [s |-> sender, ctl |-> control, mot |-> motion]
           moved == SendTouchAndMotion(start, delta, touch)
           done == IF changed THEN SendTransition(moved, member, pressed) ELSE moved
           overflow == ~Fits(sender.totals + delta)
           invalid == changed /\ ~TransitionAllowed(moved.s, member, pressed)
           begins == sender.held.touch = NoTouch /\ touch \in Touches
       IN  /\ ~overflow => done.s.ctl <= MaxControl /\ done.s.mot <= MaxMotion
           /\ IF overflow
                THEN /\ control' = IF begins
                                     THEN Append(control, TouchBeginMessage(sender, touch))
                                     ELSE control
                     /\ SourceEnds("overflow")
                     /\ UNCHANGED motion
              ELSE IF invalid
                THEN /\ control' = moved.ctl /\ motion' = moved.mot
                     /\ SourceEnds("invalid")
                ELSE /\ sender' = done.s /\ control' = done.ctl /\ motion' = done.mot
                     /\ merger' = merged
                     /\ UNCHANGED <<srcEnd, connected>>
  /\ UNCHANGED <<now, nextAct, acks, sink, backend, history>>

(* SessionCommand::EndOutbound *)
EndOutbound ==
  /\ SourceRuns /\ sender.act # 0
  /\ control' = Append(control, LeaveMessage(sender, "LocalRelease"))
  /\ sender' = NoSender
  /\ merger' = [d \in Devices |-> {}]
  /\ UNCHANGED <<now, nextAct, srcEnd, acks, motion, connected, sink, backend, history>>

(* The sender half of the timer branch: Sender::tick *)
SourceTick ==
  /\ SourceRuns /\ sender.act # 0
  /\ \/ /\ AckTimedOut(sender, now)
        /\ control' = Append(control, TimeoutCloseMessage(sender))
        /\ sender' = NoSender
        /\ UNCHANGED <<merger, srcEnd, connected>>
     \/ /\ ~AckTimedOut(sender, now) /\ SnapshotDue(sender, now)
        /\ SnapshotAllowed(sender)
        /\ sender.ctl < MaxControl
        /\ control' = Append(control, SnapshotMessage(sender))
        /\ sender' = Sent(Snapshot(sender, now))
        /\ UNCHANGED <<merger, srcEnd, connected>>
     \/ /\ ~AckTimedOut(sender, now) /\ SnapshotDue(sender, now)
        /\ ~SnapshotAllowed(sender)
        /\ SourceEnds("limit")
        /\ UNCHANGED control
  /\ UNCHANGED <<now, nextAct, acks, motion, sink, backend, history>>

(* A SnapshotAck from the control stream *)
ReceiveAck ==
  /\ srcEnd = "running" /\ acks # <<>>
  /\ acks' = Tail(acks)
  /\ LET ack == Head(acks)
     IN  \/ /\ ack.act # sender.act
            /\ UNCHANGED <<sender, merger, srcEnd, connected>>
         \/ /\ ack.act = sender.act /\ KnownAck(sender, ack.seq)
            /\ sender' = Acknowledge(sender, ack.seq)
            /\ UNCHANGED <<merger, srcEnd, connected>>
         \/ /\ ack.act = sender.act /\ ~KnownAck(sender, ack.seq)
            /\ SourceEnds("invalid")
  /\ UNCHANGED <<now, nextAct, control, motion, sink, backend, history>>

(* SessionCommand::Close: no SessionClose is sent *)
SourceClose ==
  /\ SourceRuns
  /\ SourceEnds("closed")
  /\ UNCHANGED <<now, nextAct, control, acks, motion, sink, backend, history>>

SourceLost ==
  /\ srcEnd = "running" /\ ~connected
  /\ SourceEnds("lost")
  /\ UNCHANGED <<now, nextAct, control, acks, motion, sink, backend, history>>

-----------------------------------------------------------------------------
(* The environment *)

NetworkLoss ==
  /\ connected
  /\ connected' = FALSE
  /\ UNCHANGED <<now, source, control, acks, motion, sink, backend, history>>

Advance ==
  /\ now < MaxTime
  /\ now' = now + 1
  /\ UNCHANGED <<source, network, sink, backend, history>>

-----------------------------------------------------------------------------
(* The sink's actor *)

(* A handler returned to the select! loop. *)
Idle == pc' = "select" /\ at' = 0

(* A handler failed: the loop ends with whatever the engines hold now. *)
Bail(why) ==
  /\ pc' = "cleanup" /\ at' = 0
  /\ sinkEnd' = IF sinkEnd = "running" THEN why ELSE sinkEnd
  /\ batch' = NoEffects /\ resume' = "select"

(* backend_supports: what the backend is asked to hold *)
Visible(h) ==
  [keys |-> h.keys \cap Supported, buttons |-> h.buttons \cap Supported, touch |-> h.touch]

NeedsBackend(e) ==
  Visible(e.from) # Visible(e.to) \/ e.delta # 0 \/ e.opened # 0 \/ e.closed # 0

SendAck(e, act) == IF e.ack = 0 THEN acks ELSE Append(acks, [act |-> act, seq |-> e.ack])

Reached(r) == IF r.act = 0 THEN shown ELSE [act |-> r.act, ctl |-> r.ctl]

(* Mutant: the peer is answered before the backend has applied the batch. *)
Emit_AcksFirst(e, next) ==
  /\ acks' = SendAck(e, receiver'.act)
  /\ IF NeedsBackend(e)
       THEN /\ pc' = "emit" /\ resume' = next /\ batch' = [e EXCEPT !.ack = 0]
            /\ UNCHANGED <<shown, at>>
       ELSE /\ shown' = Reached(receiver')
            /\ pc' = next
            /\ at' = IF next \in {"select", "down"} THEN 0 ELSE at
            /\ UNCHANGED <<resume, batch>>

(* emit: hand the batch over and wait, or answer at once if it is empty. *)
Emit(e, next) ==
  IF NeedsBackend(e)
    THEN /\ pc' = "emit" /\ resume' = next /\ batch' = e
         /\ UNCHANGED <<acks, shown, at>>
    ELSE /\ acks' = SendAck(e, receiver'.act)
         /\ shown' = Reached(receiver')
         /\ pc' = next
         /\ at' = IF next \in {"select", "down"} THEN 0 ELSE at
         /\ UNCHANGED <<resume, batch>>

Records(e) ==
  closedBy' = IF e.opened # 0 THEN "none" ELSE IF e.closed # 0 THEN e.reason ELSE closedBy

(* pending.retain: what is not of activation `act`, in the same order *)
Retain(queue, act) ==
  LET kept == {i \in DOMAIN queue : queue[i].act # act}
      Nth(n) == CHOOSE i \in kept : Cardinality({j \in kept : j <= i}) = n
  IN  [n \in 1 .. Cardinality(kept) |-> queue[Nth(n)]]

(* discard_pending_context, when the activation closed or changed *)
Discard(queue, before, after) ==
  IF before # 0 /\ after # before THEN Retain(queue, before) ELSE queue

(* receive_control: enqueue_pending_control, then drain *)
RecvControl ==
  /\ pc = "select" /\ control # <<>>
  /\ control' = Tail(control)
  /\ IF Len(pending) >= MaxQueue
       THEN /\ Bail("limit")
            /\ UNCHANGED pending
       ELSE /\ pending' = Append(pending, Head(control))
            /\ pc' = "drain" /\ at' = now
            /\ UNCHANGED <<sinkEnd, batch, resume>>
  /\ UNCHANGED <<now, source, acks, motion, connected, receiver, playout, backend, history>>

(* receive_motion: a datagram for another activation is stale *)
RecvMotion ==
  /\ pc = "select"
  /\ \E f \in motion :
       /\ f.act = playout.act /\ f.seq > playout.seq /\ f \notin playout.queue
       /\ IF Cardinality(playout.queue) = MaxQueue
            THEN /\ Bail("limit")
                 /\ UNCHANGED playout
            ELSE /\ playout' = IngestFrame(playout, f)
                 /\ UNCHANGED <<pc, at, sinkEnd, batch, resume>>
  /\ UNCHANGED <<now, source, network, receiver, pending, backend, history>>

(* Mutant: the timer is not armed for the lease. *)
TickDue_NoLease == Eligible(playout) # {} \/ playout.inj # playout.target \/ pending # <<>>

(* session_deadline: what the timer branch may be armed for *)
TickDue ==
  \/ LeaseLapsed(receiver, now)
  \/ Eligible(playout) # {}
  \/ playout.inj # playout.target
  \/ pending # <<>>

(* tick, its first part: expire the lease *)
InboundTick ==
  /\ pc = "select" /\ TickDue
  /\ LET o == ExpireLease(receiver, now)
     IN  /\ receiver' = o.r
         /\ pending' = Discard(pending, receiver.act, o.r.act)
         /\ Records(o.e)
         /\ IF NeedsBackend(o.e)
              THEN pc' = "emit" /\ resume' = "poll" /\ batch' = o.e
              ELSE pc' = "poll" /\ UNCHANGED <<resume, batch>>
  /\ at' = now
  /\ UNCHANGED <<now, source, network, playout, sinkEnd, backend, mirror, shown>>

(* poll_playout.  `target` is the newest mature frame, if there is one. *)
PollFails(p, start, touch) ==
  \/ ~Fits(p.target - p.inj)
  \/ HasStep(p, touch) /\ (~Fits(start - p.inj) \/ ~Fits(p.target - start))

PlayFails(p) ==
  /\ Bail("invalid")
  /\ playout' = p
  /\ UNCHANGED <<receiver, acks, shown, closedBy>>

PlayStep(p, start, touch) ==
  IF PollFails(p, start, touch) THEN PlayFails(p)
  ELSE IF ~HasStep(p, touch)
    THEN /\ playout' = p
         /\ pc' = "drain"
         /\ UNCHANGED <<at, receiver, resume, batch, sinkEnd, acks, shown, closedBy>>
  ELSE \E out \in Steps(p, start, touch) :
         LET o == ReceivePlayoutStep(receiver, p.act, out.step, at)
         IN  IF ~Fits(out.p.inj) THEN PlayFails(p)
             ELSE /\ playout' = out.p
                  /\ receiver' = o.r
                  /\ Records(o.e)
                  /\ Emit(o.e, "drain")
                  /\ UNCHANGED sinkEnd

PollPlayout ==
  /\ pc = "poll"
  /\ \/ PlayStep(playout, playout.target, NoTouch)
     \/ \E f \in Eligible(playout) :
          PlayStep(Select(playout, f), OwnSampleStart(playout, f), f.touch)
  /\ UNCHANGED <<now, source, control, motion, connected, pending, backend, mirror>>

(* pending_control_is_ready: only an anchor of the open activation waits for *)
(* its captured time; the head may then be left for a later tick.            *)
MayDefer(m) == HasAnchor(m) /\ receiver.act # 0 /\ m.act = receiver.act

DrainEnds ==
  /\ pc = "drain"
  /\ pending # <<>> => MayDefer(Head(pending))
  /\ Idle
  /\ UNCHANGED <<now, source, network, resume, receiver, pending, playout, batch,
                 sinkEnd, backend, history>>

(* What apply_control does to playout before it emits *)
FollowControl(p, m, e) ==
  LET active == IF e.opened # 0 THEN NewPlayout(e.opened) ELSE p
      marked == AdvanceWatermark(active, m.seq)
  IN  IF active.act = 0 THEN active
      ELSE IF HasAnchor(m) THEN Rebase(marked, m.anchor) ELSE marked

FollowFails(p, m, e) ==
  /\ e.opened = 0 /\ p.act # 0
  /\ m.seq < p.mark \/ (HasAnchor(m) /\ ~RebaseAllowed(p, m.anchor))

(* drain_pending_controls: apply_control on the head.  An error or a fatal  *)
(* rejection drops the effects the receiver already produced.              *)
ApplyControl ==
  /\ pc = "drain" /\ pending # <<>>
  /\ LET m == Head(pending)
         o == ReceiveControl(receiver, m, at)
         accepted == o.e.rejected = "none"
     IN  /\ receiver' = o.r
         /\ pending' = Discard(Tail(pending), receiver.act, o.r.act)
         /\ Records(o.e)
         /\ mirror' = IF accepted THEN m.after ELSE mirror
         /\ playout' = IF accepted /\ ~FollowFails(playout, m, o.e)
                         THEN FollowControl(playout, m, o.e) ELSE playout
         /\ IF o.e.rejected \in Fatal \/ (accepted /\ FollowFails(playout, m, o.e))
              THEN Bail("invalid") /\ UNCHANGED <<acks, shown>>
              ELSE Emit(o.e, "drain") /\ UNCHANGED sinkEnd
  /\ UNCHANGED <<now, source, control, motion, connected, backend>>

(* Mutant: members the backend cannot inject are handed to it. *)
Applied_Unfiltered(b, e) ==
  [held |-> IF e.closed # 0 /\ e.opened = 0 THEN Neutral ELSE e.to,
   pos |-> IF e.opened # 0 THEN 0 ELSE b.pos + e.delta]

(* The daemon and the injection runtime applied the batch: the held state   *)
(* follows it and ActivationClosed releases everything.  Then emit answers  *)
(* the peer and the handler goes on.                                        *)
Applied(b, e) ==
  [held |-> IF e.closed # 0 /\ e.opened = 0 THEN Neutral ELSE Visible(e.to),
   pos |-> IF e.opened # 0 THEN 0 ELSE b.pos + e.delta]

BackendApplies ==
  /\ pc = "emit"
  /\ backend' = Applied(backend, batch)
  /\ shown' = Reached(receiver)
  /\ batch' = NoEffects /\ resume' = "select"
  /\ IF batch.ack # 0 /\ ~connected
       THEN /\ pc' = "cleanup" /\ at' = 0 /\ sinkEnd' = "lost"
            /\ UNCHANGED acks
       ELSE /\ acks' = SendAck(batch, receiver.act)
            /\ pc' = resume
            /\ at' = IF resume \in {"select", "down"} THEN 0 ELSE at
            /\ UNCHANGED sinkEnd
  /\ UNCHANGED <<now, source, control, motion, connected, receiver, pending, playout,
                 mirror, closedBy>>

(* The runtime's queue was full or it refused an effect part-way: motion    *)
(* comes first in a batch, so the rest may be applied in part.  A batch of  *)
(* synthetic releases only waits for queue space and is never refused.     *)
Refusable(e) == e.closed = 0 \/ e.opened # 0 \/ (RejectClosing /\ ~e.safe)

BackendRejects ==
  /\ pc = "emit" /\ Refusable(batch)
  /\ \/ UNCHANGED backend
     \/ \E keys \in SUBSET (backend.held.keys \cup Visible(batch.to).keys) :
          /\ backend.held.keys \cap batch.to.keys \subseteq keys
          /\ backend' = [held |-> [backend.held EXCEPT !.keys = keys],
                         pos |-> backend.pos + batch.delta]
  /\ Bail("rejected")
  /\ UNCHANGED <<now, source, network, receiver, pending, playout, history>>

(* SessionCommand::Close, and a connection found lost *)
SinkClose ==
  /\ pc = "select" /\ connected
  /\ connected' = FALSE
  /\ Bail("closed")
  /\ UNCHANGED <<now, source, control, acks, motion, receiver, pending, playout,
                 backend, history>>

SinkLost ==
  /\ pc = "select" /\ ~connected
  /\ Bail("lost")
  /\ UNCHANGED <<now, source, network, receiver, pending, playout, backend, history>>

(* Inbound::close: release what the engine still holds *)
Cleanup ==
  /\ pc = "cleanup"
  /\ LET o == ConnectionLost(receiver)
     IN  /\ receiver' = o.r
         /\ Records(o.e)
         /\ Emit(o.e, "down")
  /\ connected' = FALSE
  /\ UNCHANGED <<now, source, control, motion, pending, playout, sinkEnd, backend, mirror>>

(* Both actors have returned. *)
Finished == srcEnd # "running" /\ pc = "down" /\ UNCHANGED vars

-----------------------------------------------------------------------------
SourceNext ==
  BeginOutbound \/ Capture \/ EndOutbound \/ SourceTick \/ ReceiveAck
    \/ SourceClose \/ SourceLost

SinkNext ==
  RecvControl \/ RecvMotion \/ InboundTick \/ PollPlayout \/ DrainEnds
    \/ ApplyControl \/ BackendApplies \/ BackendRejects \/ SinkClose
    \/ SinkLost \/ Cleanup

Next == SourceNext \/ SinkNext \/ NetworkLoss \/ Advance \/ Finished

Spec == Init /\ [][Next]_vars

(***************************************************************************)
(* The timer of the operating system runs, both actors keep running, and   *)
(* select! polls its ready branches in random order, so a branch that is   *)
(* ready again and again (the lost connection, the due tick) is taken.     *)
(* Nothing is assumed of the network: no message need ever arrive.         *)
(***************************************************************************)
Fairness ==
  /\ WF_vars(Advance)
  /\ WF_vars(SourceTick)
  /\ WF_vars(SourceLost)
  /\ WF_vars(PollPlayout \/ DrainEnds \/ ApplyControl \/ BackendApplies \/ Cleanup)
  /\ SF_vars(InboundTick)
  /\ SF_vars(SinkLost)

FairSpec == Spec /\ Fairness

-----------------------------------------------------------------------------
(* Properties *)

Rejections == Fatal \cup {"none", "ClosedActivation", "NoOpenActivation", "StaleActivation",
                         "DuplicateControl", "DuplicateOrReorderedMotion"}

Effects == [from: HeldState, to: HeldState, delta: Int, opened: Nat, closed: Nat,
            reason: CloseReasons \cup {"none"}, ack: Nat,
            rejected: Rejections, safe: BOOLEAN]

(* Every variable keeps its type; cumulative totals stay within their width. *)
TypeOK ==
  /\ now \in Nat
  /\ sender \in SenderState
  /\ merger \in [Devices -> SUBSET Members]
  /\ nextAct \in Nat /\ srcEnd \in SrcEnds
  /\ control \in Seq(ControlMessage)
  /\ acks \in Seq([act: Nat, seq: Nat])
  /\ motion \subseteq MotionFrame
  /\ connected \in BOOLEAN
  /\ pc \in {"select", "poll", "drain", "emit", "cleanup", "down"}
  /\ resume \in {"select", "poll", "drain", "down"}
  /\ at \in Nat
  /\ receiver \in ReceiverState
  /\ pending \in Seq(ControlMessage)
  /\ playout \in PlayoutState
  /\ batch \in Effects
  /\ sinkEnd \in SinkEnds
  /\ backend \in [held: HeldState, pos: Int]
  /\ mirror \in History
  /\ shown \in [act: Nat, ctl: Nat]
  /\ closedBy \in CloseReasons \cup {"none"}

Settled == pc \notin {"emit", "cleanup"}

(* A source that runs this code is never found in violation of the protocol: *)
(* whatever datagrams are lost, duplicated or reordered and however late     *)
(* anchored controls are applied, the sink meets no control gap, no invalid  *)
(* transition, no anchor or rebase that moves backwards and no touch without *)
(* its begin, and the source meets no unknown acknowledgement.               *)
NeverDesynchronised ==
  /\ sinkEnd # "invalid"
  /\ srcEnd # "invalid"
  /\ closedBy # "ProtocolViolation"

(* What the receiver holds is what the sender held right after it produced   *)
(* the last control the receiver applied.  Contacts may lag within a touch,  *)
(* because their updates travel in motion frames, but not across its ends.   *)
HeldMatchesPrefix ==
  receiver.act # 0 =>
    /\ receiver.held.keys = mirror.held.keys
    /\ receiver.held.buttons = mirror.held.buttons
    /\ (receiver.held.touch = NoTouch) = (mirror.held.touch = NoTouch)

(* The sender holds a key or button exactly while some device holds it. *)
HeldIsUnion ==
  sender.act # 0 =>
    sender.held.keys \cup sender.held.buttons = UNION {merger[d] : d \in Devices}

(* The peer sees one held set, the union over the devices, and the receiver  *)
(* holds what the controls it applied say (session.rs CaptureMerger,         *)
(* core/receiver.rs).                                                        *)
MergesDevices == HeldIsUnion /\ HeldMatchesPrefix

(* Between handlers the injection backend holds exactly what the receiver    *)
(* holds, so nothing stays down once the activation is closed or the session *)
(* is over, also after the runtime refused a batch part-way.                 *)
NoStuckInput ==
  Settled => backend.held = Visible(receiver.held)

(* The three ledgers of motion agree while an activation is open: what       *)
(* playout thinks it injected, what the receiver counts, and how far the     *)
(* pointer really travelled.  The receiver never runs ahead of playout.      *)
BaselinesAgree ==
  (Settled /\ receiver.act # 0) =>
    /\ playout.act = receiver.act
    /\ playout.inj = receiver.totals
    /\ backend.pos = receiver.totals
    /\ receiver.inj <= playout.seq

(* When the source leaves in order, the pointer has travelled exactly as far *)
(* as it was moved, whatever datagrams were lost on the way.                 *)
ExactAtLeave ==
  (Settled /\ closedBy = "LocalRelease") => backend.pos = mirror.totals

(* Of motion nothing is lost: the engines count from the same totals and the *)
(* pointer stops where the sender's stopped.                                 *)
MotionIsExact == BaselinesAgree /\ ExactAtLeave

(* A button goes down or up where the pointer was when it was captured: the  *)
(* motion its anchor adds is injected first, and none of the later motion.   *)
PlacesButtons ==
  (pc = "emit" /\ batch.closed = 0 /\ backend'.held.buttons # backend.held.buttons)
    => backend'.pos = mirror.totals
ButtonsArePlaced == [][PlacesButtons]_vars

(* An acknowledgement on its way to the source, or already counted there,    *)
(* means the backend has applied that snapshot and everything before it.     *)
AckedMeansApplied ==
  LET Reaches(act, seq) == shown.act > act \/ (shown.act = act /\ shown.ctl >= seq)
  IN  /\ \A i \in DOMAIN acks : Reaches(acks[i].act, acks[i].seq)
      /\ sender.acked # 0 => Reaches(sender.act, sender.acked)

(* Held input always has a running lease, also when its touch came from a    *)
(* playout step, which does not renew it.                                    *)
HeldIsLeased ==
  ~IsNeutral(receiver.held) => receiver.lease \in 0 .. now + HeldLease

(* A sink that lost its connection ends up with nothing held. *)
LossReleases ==
  ~connected ~> (pc = "down" /\ IsNeutral(backend.held))

(* A lease that is not renewed is acted on, whatever else keeps the sink busy *)
(* and even if the source stays connected and silent.                         *)
LeaseFires ==
  \A d \in 0 .. MaxTime : (receiver.lease = d) ~> (receiver.lease # d)

(* A snapshot nobody acknowledges ends the activation at the source.  *)
SnapshotResolves ==
  \A seq \in 1 .. MaxControl :
    (\E p \in sender.pending : p.seq = seq /\ p.deadline <= MaxTime)
      ~> ~(\E p \in sender.pending : p.seq = seq /\ p.deadline <= MaxTime)
=============================================================================
