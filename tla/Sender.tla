------------------------------- MODULE Sender -------------------------------
(***************************************************************************)
(* core/sender.rs: the sending engine of one activation.  The Rust type is *)
(* a pure state machine whose methods return the message to send, and so   *)
(* is this module: an operator maps a sender state to the next one, and    *)
(* companion operators give the message or the frame.  The session actor   *)
(* that owns the clock and the channels is in InputSession.                *)
(*                                                                         *)
(* act = 0 stands for the session's `sender: Option<Sender>` being None; a *)
(* sender that exists is remote until the call that closes it, so `remote` *)
(* and `started` need no field of their own.                               *)
(***************************************************************************)
EXTENDS InputTypes

CONSTANTS CheckpointInterval,  \* SenderConfig.checkpoint_interval
          Lease,               \* SenderConfig.receiver_lease
          MaxPendingSnapshots  \* MAX_PENDING_SNAPSHOTS

ASSUME SenderAssumption ==
  /\ CheckpointInterval \in Nat \ {0}
  /\ Lease \in Nat \ {0}
  /\ MaxPendingSnapshots \in Nat \ {0}

PendingSnapshot == [seq: Nat, deadline: Nat]

SenderState == [act: Nat, held: HeldState, totals: Total, ctl: Nat, mot: Nat,
                snapAt: Nat, dirty: Nat \cup {NoTime},
                pending: SUBSET PendingSnapshot, acked: Nat]

NoSender == [act |-> 0, held |-> Neutral, totals |-> 0, ctl |-> 0, mot |-> 0,
             snapAt |-> 0, dirty |-> NoTime, pending |-> {}, acked |-> 0]

-----------------------------------------------------------------------------
(* The message the next control sequence carries.  `s` is the state the    *)
(* call leaves behind, apart from the sequence it takes.                   *)
Message(s, kind, member, held, reason, anchor) ==
  [act |-> s.act, seq |-> s.ctl + 1, kind |-> kind, member |-> member,
   held |-> held, reason |-> reason, anchor |-> anchor,
   after |-> [held |-> s.held, totals |-> s.totals]]

Sent(s) == [s EXCEPT !.ctl = @ + 1]

AnchorOf(s, kind) ==
  [through |-> s.mot, totals |-> s.totals, touch |-> s.held.touch, kind |-> kind]

(* enter *)
NewSender(act, now) == [NoSender EXCEPT !.act = act, !.snapAt = now]

EnterMessage(s) == Message(s, "Enter", NoMember, Neutral, "none", NoAnchor)

(* capture_motion, when the totals do not overflow *)
CaptureMotion(s, delta, touch, now) ==
  [s EXCEPT !.totals = @ + delta,
            !.mot = @ + 1,
            !.held.touch = IF touch = NoTouch THEN @ ELSE touch,
            !.dirty = IF @ = NoTime /\ (delta # 0 \/ touch # NoTouch) THEN now ELSE @]

(* Mutant: a frame that names no control watermark. *)
FrameOf_NoWatermark(s, touch) ==
  [act |-> s.act, seq |-> s.mot, mark |-> 0, totals |-> s.totals, touch |-> touch]

FrameOf(s, touch) ==
  [act |-> s.act, seq |-> s.mot, mark |-> s.ctl, totals |-> s.totals, touch |-> touch]

(* key_down, key_up, button_down and button_up.  The anchor of a button is  *)
(* taken before the press is recorded; keys carry none.                    *)
Transition(s, member, pressed) ==
  [s EXCEPT !.held = IF pressed THEN Press(@, member) ELSE Release(@, member)]

(* Mutant: buttons sent without an anchor, like keys. *)
TransitionMessage_NoAnchor(s, member, pressed) ==
  Message(Transition(s, member, pressed),
          IF pressed THEN "Press" ELSE "Release", member, Neutral, "none", NoAnchor)

TransitionMessage(s, member, pressed) ==
  Message(Transition(s, member, pressed),
          IF pressed THEN "Press" ELSE "Release", member, Neutral, "none",
          IF member \in Buttons THEN AnchorOf(s, "Checkpoint") ELSE NoAnchor)

(* They fail with InvalidTransition when the member is already in that state. *)
TransitionAllowed(s, member, pressed) == pressed # Holds(s.held, member)

(* touch_begin and touch_end.  The anchor of an end still shows the touch   *)
(* it ends.                                                                *)
TouchBegin(s, touch) == [s EXCEPT !.held.touch = touch]

TouchBeginMessage(s, touch) ==
  Message(TouchBegin(s, touch), "TouchBegin", NoMember,
          [Neutral EXCEPT !.touch = touch], "none", NoAnchor)

(* Mutant: the contacts are not cleared. *)
TouchEnd_KeepsTouch(s) == s

TouchEnd(s) == [s EXCEPT !.held.touch = NoTouch]

TouchEndMessage(s) ==
  Message(TouchEnd(s), "TouchEnd", NoMember, Neutral, "none", AnchorOf(s, "Checkpoint"))

(* snapshot *)
SnapshotMessage(s) ==
  Message(s, "StateSnapshot", NoMember, s.held, "none", AnchorOf(s, "Checkpoint"))

Snapshot(s, now) ==
  [s EXCEPT !.pending = @ \cup {[seq |-> s.ctl + 1, deadline |-> now + Lease]},
            !.snapAt = now,
            !.dirty = NoTime]

SnapshotAllowed(s) == Cardinality(s.pending) < MaxPendingSnapshots

(* one_third_rounded_down: a renewal falls strictly within the lease *)
Renewal == IF (Lease - 1) \div 3 > 0 THEN (Lease - 1) \div 3 ELSE 1

(* tick *)
(* Mutant: nobody watches the acknowledgement deadline. *)
AckTimedOut_Never(s, now) == FALSE

AckTimedOut(s, now) == \E p \in s.pending : p.deadline <= now

SnapshotDue(s, now) ==
  \/ s.snapAt + CheckpointInterval <= now
  \/ s.dirty # NoTime /\ s.dirty + CheckpointInterval <= now
  \/ ~IsNeutral(s.held) /\ s.snapAt + Renewal <= now

TimeoutCloseMessage(s) ==
  Message(s, "SessionClose", NoMember, Neutral, "LeaseExpired", NoAnchor)

(* acknowledge_snapshot *)
KnownAck(s, seq) == (\E p \in s.pending : p.seq = seq) \/ s.acked >= seq

Acknowledge(s, seq) ==
  IF \E p \in s.pending : p.seq = seq
    THEN [s EXCEPT !.acked = seq, !.pending = {p \in @ : p.seq > seq}]
    ELSE s

(* leave *)
(* Mutant: leaving without the terminal anchor. *)
LeaveMessage_NoAnchor(s, reason) ==
  Message(s, "SessionClose", NoMember, Neutral, reason, NoAnchor)

LeaveMessage(s, reason) ==
  Message(s, "SessionClose", NoMember, Neutral, reason, AnchorOf(s, "Terminal"))
=============================================================================
