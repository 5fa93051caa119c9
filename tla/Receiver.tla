------------------------------ MODULE Receiver ------------------------------
(***************************************************************************)
(* core/receiver.rs: the receiving engine of one connection.  Like the     *)
(* Rust type it is a pure state machine: an operator maps a receiver and   *)
(* an input to [r |-> next receiver, e |-> effects].                       *)
(*                                                                         *)
(* One call's Vec<ReceiverEffect> is kept as its net content.  Held input   *)
(* goes from e.from to e.to (each key, button and touch effect is one      *)
(* difference between the two), the pointer moves by e.delta, e.closed and *)
(* e.opened name the activations closed and opened (0: none), e.reason is  *)
(* why one closed, e.ack is the snapshot to acknowledge (0: none) and      *)
(* e.rejected the rejection.  e.safe is what the daemon's                  *)
(* is_safety_release asks of a closing batch: nothing but synthetic        *)
(* releases.                                                               *)
(*                                                                         *)
(* act = 0 stands for `activation: None`, highest = 0 for no activation yet.*)
(***************************************************************************)
EXTENDS InputTypes

CONSTANT HeldLease   \* ReceiverConfig.held_state_lease

ASSUME ReceiverAssumption == HeldLease \in Nat \ {0}

ReceiverState == [highest: Nat, act: Nat, ctl: Nat, held: HeldState, inj: Nat,
                  totals: Total, lease: Nat \cup {NoTime}]

NewReceiver == [highest |-> 0, act |-> 0, ctl |-> 0, held |-> Neutral, inj |-> 0,
                totals |-> 0, lease |-> NoTime]

NoEffects == [from |-> Neutral, to |-> Neutral, delta |-> 0, opened |-> 0,
              closed |-> 0, reason |-> "none", ack |-> 0, rejected |-> "none",
              safe |-> TRUE]

-----------------------------------------------------------------------------
(* close_activation: everything held is released in the same batch. *)
CloseActivation(o, reason) ==
  IF o.r.act = 0 THEN o
  ELSE [r |-> [NewReceiver EXCEPT !.highest = o.r.highest],
        e |-> [o.e EXCEPT !.to = Neutral, !.closed = o.r.act, !.reason = reason]]

(* A call starts with no effect.  reconcile_held and release_all emit one     *)
(* effect for each difference between e.from and e.to.                        *)
Start(r) == [r |-> r, e |-> [NoEffects EXCEPT !.from = r.held, !.to = r.held]]

Reject(o, why) == [o EXCEPT !.e.rejected = why]

(* expire_lease *)
LeaseLapsed(r, now) == r.lease # NoTime /\ r.lease <= now

ExpireLease(r, now) ==
  IF LeaseLapsed(r, now) THEN CloseActivation(Start(r), "LeaseExpired") ELSE Start(r)

(* refresh_lease *)
(* Mutant: a lease is renewed but never first armed. *)
RefreshLease_NeverArms(r, now) ==
  [r EXCEPT !.lease = IF IsNeutral(r.held) \/ @ = NoTime THEN NoTime ELSE now + HeldLease]

RefreshLease(r, now) ==
  [r EXCEPT !.lease = IF IsNeutral(r.held) THEN NoTime ELSE now + HeldLease]

(* is_closed *)
IsClosed(r, act) == act <= r.highest /\ r.act # act

(* receive_enter.  A superseded activation is released in the same batch. *)
ReceiveEnter(o, m) ==
  IF IsClosed(o.r, m.act) THEN Reject(o, "ClosedActivation")
  ELSE IF m.act <= o.r.highest THEN Reject(o, "StaleActivation")
  ELSE IF m.seq # 1 THEN Reject(o, "ControlGap")
  ELSE LET c == CloseActivation(o, "Superseded")
       IN  [r |-> [NewReceiver EXCEPT !.highest = m.act, !.act = m.act, !.ctl = 1],
            e |-> [c.e EXCEPT !.opened = m.act, !.safe = FALSE]]

(* validate_transition *)
ValidTransition(r, m) ==
  /\ m.kind = "Press" => ~Holds(r.held, m.member)
  /\ m.kind = "Release" => Holds(r.held, m.member)
  /\ m.kind = "TouchBegin" => r.held.touch = NoTouch /\ m.held.touch # NoTouch
  /\ m.kind = "TouchEnd" => r.held.touch # NoTouch
  /\ m.kind = "StateSnapshot" => m.anchor.touch = m.held.touch
  /\ HasAnchor(m) =>
       m.anchor.kind = IF m.kind = "SessionClose" THEN "Terminal" ELSE "Checkpoint"

(* The rejections of receive_control, in the order the code tests them *)
Rejection(r, m) ==
  IF IsClosed(r, m.act) THEN "ClosedActivation"
  ELSE IF r.act = 0 THEN "NoOpenActivation"
  ELSE IF r.act # m.act THEN "StaleActivation"
  ELSE IF m.seq <= r.ctl THEN "DuplicateControl"
  ELSE IF m.seq # r.ctl + 1 THEN "ControlGap"
  ELSE IF ~ValidTransition(r, m) THEN "InvalidTransition"
  ELSE IF HasAnchor(m) /\ m.anchor.through < r.inj THEN "AnchorMovedBackwards"
  ELSE "none"

(* apply_anchor *)
ApplyAnchor(r, a) ==
  [r EXCEPT !.inj = a.through, !.totals = a.totals, !.held.touch = a.touch]

(* Mutant: a release is injected but stays in the held state. *)
ApplyPayload_KeepsReleased(r, m, now) ==
  RefreshLease([r EXCEPT !.held = IF m.kind = "Press" THEN Press(@, m.member) ELSE @,
                         !.ctl = m.seq], now)

(* The payload match of receive_control, with the sequence and lease update *)
ApplyPayload(r, m, now) ==
  LET held == CASE m.kind = "Press"         -> Press(r.held, m.member)
                [] m.kind = "Release"       -> Release(r.held, m.member)
                [] m.kind = "TouchBegin"    -> [r.held EXCEPT !.touch = m.held.touch]
                [] m.kind = "TouchEnd"      -> [r.held EXCEPT !.touch = NoTouch]
                [] m.kind = "StateSnapshot" -> m.held
                [] OTHER                    -> r.held
  IN  RefreshLease([r EXCEPT !.held = held, !.ctl = m.seq], now)

(* receive_control *)
ReceiveControl(r, m, now) ==
  LET o == ExpireLease(r, now)
      why == Rejection(o.r, m)
      delta == IF HasAnchor(m) THEN m.anchor.totals - o.r.totals ELSE 0
      anchored == IF HasAnchor(m) THEN ApplyAnchor(o.r, m.anchor) ELSE o.r
      applied == ApplyPayload(anchored, m, now)
      e == [o.e EXCEPT !.to = applied.held, !.delta = delta,
                       !.ack = IF m.kind = "StateSnapshot" THEN m.seq ELSE 0,
                       !.safe = /\ delta = 0
                                /\ anchored.held.touch \in {NoTouch, o.r.held.touch}]
  IN  IF m.kind = "Enter" THEN ReceiveEnter(o, m)
      ELSE IF why # "none" THEN Reject(o, why)
      ELSE IF ~Fits(delta) THEN CloseActivation(o, "MotionOverflow")
      ELSE IF m.kind = "SessionClose"
        THEN CloseActivation([r |-> applied, e |-> e], m.reason)
      ELSE [r |-> applied, e |-> e]

(* receive_playout_step.  A step reports how far playout has injected; it   *)
(* never renews the lease.                                                 *)
ReceivePlayoutStep(r, act, step, now) ==
  LET o == ExpireLease(r, now)
      touched == IF step.touch = NoTouch THEN o.r.held ELSE [o.r.held EXCEPT !.touch = step.touch]
  IN  IF IsClosed(o.r, act) THEN Reject(o, "ClosedActivation")
      ELSE IF o.r.act = 0 THEN Reject(o, "NoOpenActivation")
      ELSE IF o.r.act # act THEN Reject(o, "StaleActivation")
      ELSE IF step.through <= o.r.inj THEN Reject(o, "DuplicateOrReorderedMotion")
      ELSE IF step.touch # NoTouch /\ o.r.held.touch = NoTouch
        THEN CloseActivation(o, "ProtocolViolation")
      ELSE IF ~Fits(o.r.totals + step.delta) THEN CloseActivation(o, "MotionOverflow")
      ELSE [r |-> [o.r EXCEPT !.totals = @ + step.delta, !.held = touched,
                              !.inj = IF step.reached THEN step.through ELSE @],
            e |-> [o.e EXCEPT !.to = touched, !.delta = step.delta, !.safe = FALSE]]

(* connection_lost *)
(* Mutant: the connection's end releases nothing. *)
ConnectionLost_KeepsHeld(r) == Start(r)

ConnectionLost(r) == CloseActivation(Start(r), "LeaseExpired")

(* The rejections emit() treats as fatal for the whole session *)
Fatal == {"ControlGap", "InvalidTransition", "AnchorMovedBackwards"}
=============================================================================
