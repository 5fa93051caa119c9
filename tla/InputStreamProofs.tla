-------------------------- MODULE InputStreamProofs --------------------------
(***************************************************************************)
(* Proof that the two ends of an input session never disagree: what is in   *)
(* flight always continues what the receiver applied, whatever datagrams    *)
(* are lost, duplicated or reordered; and that of the motion nothing is      *)
(* lost: the sink's three ledgers (playout, receiver, backend) stay level,   *)
(* buttons go down where they were pressed, the pointer ends where the       *)
(* source left it, and what is acknowledged has been applied.                *)
(***************************************************************************)
EXTENDS InputSessionProofs

-----------------------------------------------------------------------------
(* The controls and the motion in flight *)

(* The held states agree on keys and buttons, and on whether there is a touch: *)
(* its contacts travel in motion frames and may differ.                       *)
Same(g, h) ==
  /\ g.keys = h.keys /\ g.buttons = h.buttons
  /\ g.touch = NoTouch <=> h.touch = NoTouch

(* The message is one a sender may send next when it holds h. *)
Follows(h, n) ==
  /\ n.kind # "Enter"
  /\ n.kind = "Press" => ~Holds(h, n.member) /\ Same(n.after.held, Press(h, n.member))
  /\ n.kind = "Release" => Holds(h, n.member) /\ Same(n.after.held, Release(h, n.member))
  /\ n.kind = "TouchBegin" =>
       h.touch = NoTouch /\ Same(n.after.held, [h EXCEPT !.touch = n.held.touch])
  /\ n.kind = "TouchEnd" =>
       h.touch # NoTouch /\ Same(n.after.held, [h EXCEPT !.touch = NoTouch])
  /\ n.kind \in {"StateSnapshot", "SessionClose"} => Same(n.after.held, h)
  /\ HasAnchor(n) => (n.anchor.touch = NoTouch <=> h.touch = NoTouch)

(* What the receiver has not applied yet, and the activations it still may. *)
Ahead(r, m) == m.act > r.act \/ (m.act = r.act /\ m.seq > r.ctl)
Live(r, act) == act = r.act \/ act > r.highest

(* The controls under way, S, of the sender s to the receiver r: activations    *)
(* never go back, sequences grow, and what the receiver applied is behind it.   *)
Order(S, s, r, last) ==
  /\ s.act \in {0, last} /\ r.act \in {0, r.highest} /\ r.highest <= last
  /\ \A m \in S : m.act <= last /\ (m.act = s.act => m.seq <= s.ctl)
  /\ \A m, n \in S : m.act = n.act /\ m.seq = n.seq => m = n
  /\ r.act # 0 =>
       /\ r.ctl > 0 /\ \A m \in S : Ahead(r, m)
       /\ r.act = s.act => r.ctl <= s.ctl

(* Each control follows from the one before it, the sender's state from its     *)
(* last, and the receiver's, with h its last control's, from the last applied.  *)
Chain(S, s, r, h) ==
  /\ \A m, n \in S : m.act = n.act /\ n.seq = m.seq + 1 => Follows(m.after.held, n)
  /\ \A m \in S : m.act = s.act /\ m.seq = s.ctl => Same(m.after.held, s.held)
  /\ r.act # 0 =>
       /\ Same(r.held, h)
       /\ \A n \in S : n.act = r.act /\ n.seq = r.ctl + 1 => Follows(h, n)
       /\ r.act = s.act /\ r.ctl = s.ctl => Same(h, s.held)

(* Nothing of an activation that is still live is missing. *)
Known(S, r, act, seq) ==
  (\E m \in S : m.act = act /\ m.seq = seq) \/ (r.act = act /\ r.ctl = seq)

Gapless(S, s, r) ==
  /\ \A n \in S : Live(r, n.act) /\ n.seq > 1 => Known(S, r, n.act, n.seq - 1)
  /\ s.act # 0 /\ Live(r, s.act) => Known(S, r, s.act, s.ctl)

(* Motion frames, mot, are numbered along with the controls: an anchor reaches  *)
(* past every frame sent before it, and never behind an earlier anchor.         *)
Motions(S, mot, s, p, last) ==
  /\ \A f \in mot :
       /\ f.act \in 1 .. last /\ f.mark > 0
       /\ f.act = s.act => f.seq <= s.mot /\ f.mark <= s.ctl
  /\ \A m \in S : HasAnchor(m) =>
       /\ m.act = s.act => m.anchor.through <= s.mot
       /\ \A f \in mot : f.act = m.act /\ f.mark < m.seq => f.seq <= m.anchor.through
       /\ \A n \in S : HasAnchor(n) /\ n.act = m.act /\ m.seq < n.seq
                         => m.anchor.through <= n.anchor.through
  /\ \A f \in p.queue : f \in mot /\ f.act = p.act /\ f.seq > p.seq

(* What playout has played is behind every anchor still to come. *)
Played(S, s, r, p) ==
  r.act # 0 =>
    /\ p.act = r.act /\ p.mark = r.ctl /\ r.inj <= p.seq
    /\ \A m \in S : HasAnchor(m) /\ m.act = r.act => p.seq <= m.anchor.through
    /\ r.act = s.act => p.seq <= s.mot

(* A frame that shows contacts was sent during a touch, and the receiver that   *)
(* may still play it holds that touch.                                         *)
Touching(S, mot) ==
  \A f \in mot, m \in S :
    f.touch # NoTouch /\ m.act = f.act /\ m.seq = f.mark => m.after.held.touch # NoTouch

Touched(mot, r, p, h) ==
  r.act # 0 =>
    \A f \in mot : f.act = r.act /\ f.mark <= r.ctl /\ f.seq > p.seq /\ f.touch # NoTouch
                     => h.touch # NoTouch

(* All of it, for the controls q queued at the sink and ctl in flight. *)
Flow(q, ctl, mot, s, r, p, h, last, runs) ==
  LET S == In(q) \cup In(ctl)
  IN  /\ Sorted(q) /\ Sorted(ctl) /\ AllBefore(In(q), In(ctl))
      /\ Order(S, s, r, last)
      /\ Chain(S, s, r, h)
      /\ Motions(S, mot, s, p, last)
      /\ Touching(S, mot)
      /\ runs => Gapless(S, s, r) /\ Played(S, s, r, p) /\ Touched(mot, r, p, h)

StreamInv ==
  Flow(pending, control, motion, sender, receiver, playout, mirror.held, nextAct,
       sinkEnd = "running")


-----------------------------------------------------------------------------
(* Held states that agree *)

LEMMA SameFacts ==
  ASSUME NEW f, NEW g, NEW h
  PROVE  /\ Same(g, g)
         /\ Same(g, h) => Same(h, g)
         /\ Same(f, g) /\ Same(g, h) => Same(f, h)
BY DEF Same

(* What a transition does is the same to held states that agree. *)
LEMMA SameTransitions ==
  ASSUME NEW g \in HeldState, NEW h \in HeldState, NEW m, NEW t, Same(g, h)
  PROVE  /\ Holds(g, m) <=> Holds(h, m)
         /\ Same(Press(g, m), Press(h, m))
         /\ Same(Release(g, m), Release(h, m))
         /\ Same([g EXCEPT !.touch = t], [h EXCEPT !.touch = t])
BY DEF Same, Holds, Press, Release, HeldState

LEMMA FollowsSame ==
  ASSUME NEW g \in HeldState, NEW h \in HeldState, NEW n, Same(g, h), Follows(g, n)
  PROVE  Follows(h, n)
<1> DEFINE a == n.after.held
<1>1. /\ Holds(g, n.member) <=> Holds(h, n.member)
      /\ Same(Press(g, n.member), Press(h, n.member))
      /\ Same(Release(g, n.member), Release(h, n.member))
  BY SameTransitions
<1>2. ASSUME NEW t
      PROVE  Same([g EXCEPT !.touch = t], [h EXCEPT !.touch = t])
  BY SameTransitions
<1>3. g.touch = NoTouch <=> h.touch = NoTouch
  BY DEF Same
<1>4. /\ n.kind # "Enter"
      /\ n.kind = "Press" => ~Holds(g, n.member) /\ Same(a, Press(g, n.member))
      /\ n.kind = "Release" => Holds(g, n.member) /\ Same(a, Release(g, n.member))
      /\ n.kind = "TouchBegin" =>
           g.touch = NoTouch /\ Same(a, [g EXCEPT !.touch = n.held.touch])
      /\ n.kind = "TouchEnd" =>
           g.touch # NoTouch /\ Same(a, [g EXCEPT !.touch = NoTouch])
      /\ n.kind \in {"StateSnapshot", "SessionClose"} => Same(a, g)
      /\ HasAnchor(n) => (n.anchor.touch = NoTouch <=> g.touch = NoTouch)
  BY DEF Follows
<1> HIDE DEF a
<1>5. n.kind = "Press" => Same(a, Press(h, n.member))
  BY <1>1, <1>4, SameFacts
<1>6. n.kind = "Release" => Same(a, Release(h, n.member))
  BY <1>1, <1>4, SameFacts
<1>7. n.kind = "TouchBegin" => Same(a, [h EXCEPT !.touch = n.held.touch])
  BY <1>2, <1>4, SameFacts
<1>8. n.kind = "TouchEnd" => Same(a, [h EXCEPT !.touch = NoTouch])
  BY <1>2, <1>4, SameFacts
<1>9. n.kind \in {"StateSnapshot", "SessionClose"} => Same(a, h)
  BY <1>4, SameFacts
<1> QED BY <1>1, <1>3, <1>4, <1>5, <1>6, <1>7, <1>8, <1>9 DEF a, Follows

(* Only TouchBegin and TouchEnd change whether there is a touch. *)
LEMMA FollowsTouch ==
  ASSUME NEW h \in HeldState, NEW n \in Sendable, Follows(h, n)
  PROVE  /\ n.kind = "TouchBegin" => n.after.held.touch # NoTouch
         /\ n.kind = "TouchEnd" => n.after.held.touch = NoTouch
         /\ n.kind \notin {"TouchBegin", "TouchEnd"} =>
              (n.after.held.touch = NoTouch <=> h.touch = NoTouch)
<1>1. /\ [h EXCEPT !.touch = n.held.touch].touch = n.held.touch
      /\ [h EXCEPT !.touch = NoTouch].touch = NoTouch
      /\ Press(h, n.member).touch = h.touch /\ Release(h, n.member).touch = h.touch
  BY DEF HeldState, Press, Release
<1>2. n.kind \in ControlKinds /\ (n.kind = "TouchBegin" => n.held.touch # NoTouch)
  BY DEF Sendable, ControlMessage
<1> QED BY <1>1, <1>2 DEF Follows, Same, ControlKinds

-----------------------------------------------------------------------------
(* What a sender sends *)

(* A control that s sends, and the sender s1 it leaves. *)
Posts(s, s1, m) ==
  /\ m \in Sendable /\ m.act = s.act /\ m.seq = s.ctl + 1
  /\ Follows(s.held, m)
  /\ HasAnchor(m) => m.anchor.through = s.mot
  /\ s1.act = s.act /\ s1.ctl = s.ctl + 1 /\ s1.mot = s.mot
  /\ s1.held = m.after.held

(* A motion frame that s sends. *)
Shows(s, s1, f) ==
  /\ f \in MotionFrame /\ f.act = s.act /\ f.seq = s.mot + 1 /\ f.mark = s.ctl
  /\ f.touch # NoTouch => s.held.touch # NoTouch
  /\ s1.act = s.act /\ s1.ctl = s.ctl /\ s1.mot = s.mot + 1
  /\ Same(s.held, s1.held)

LEMMA SentFields ==
  ASSUME NEW s \in SenderState
  PROVE  /\ Sent(s).act = s.act /\ Sent(s).ctl = s.ctl + 1 /\ Sent(s).mot = s.mot
         /\ Sent(s).held = s.held /\ Sent(s).totals = s.totals /\ Sent(s).pending = s.pending
         /\ Sent(s).acked = s.acked
BY DEF Sent, SenderState

LEMMA PostTransition ==
  ASSUME NEW s \in SenderState, s.act > 0, s.ctl > 0, NEW m \in Members, NEW b \in BOOLEAN,
         TransitionAllowed(s, m, b)
  PROVE  Posts(s, Sent(Transition(s, m, b)), TransitionMessage(s, m, b))
<1> DEFINE u == Transition(s, m, b)
           w == TransitionMessage(s, m, b)
           a == IF m \in Buttons THEN AnchorOf(s, "Checkpoint") ELSE NoAnchor
<1>1. /\ u \in SenderState /\ u.act = s.act /\ u.ctl = s.ctl /\ u.mot = s.mot
      /\ u.held = IF b THEN Press(s.held, m) ELSE Release(s.held, m)
  BY SenderTypes DEF Transition, SenderState
<1>2. w = Message(u, IF b THEN "Press" ELSE "Release", m, Neutral, "none", a)
  BY DEF TransitionMessage
<1>3. a.kind # "Absent" => a.through = s.mot /\ a.touch = s.held.touch
  BY AnchorOfFields DEF NoAnchor
<1> HIDE DEF u, a
<1>4. /\ w.act = s.act /\ w.seq = s.ctl + 1 /\ w.kind = (IF b THEN "Press" ELSE "Release")
      /\ w.member = m /\ w.anchor = a /\ w.after.held = u.held
  BY <1>1, <1>2 DEF Message
<1>5. w \in Sendable
  BY SendableMessages
<1> HIDE DEF w
<1>6. Follows(s.held, w)
  <2>1. HasAnchor(w) => w.anchor.touch = s.held.touch
    BY <1>3, <1>4 DEF HasAnchor
  <2>2. b # Holds(s.held, m)
    BY DEF TransitionAllowed
  <2>3. CASE b = TRUE
    <3>1. ~Holds(s.held, m) /\ w.kind = "Press" /\ Same(u.held, Press(s.held, m))
      BY <1>1, <1>4, <2>2, <2>3, SameFacts
    <3> QED BY <1>4, <2>1, <3>1 DEF Follows
  <2>4. CASE b = FALSE
    <3>1. Holds(s.held, m) /\ w.kind = "Release" /\ Same(u.held, Release(s.held, m))
      BY <1>1, <1>4, <2>2, <2>4, SameFacts DEF Holds
    <3> QED BY <1>4, <2>1, <3>1 DEF Follows
  <2> QED BY <2>3, <2>4
<1> QED BY <1>1, <1>3, <1>4, <1>5, <1>6, SentFields DEF Posts, HasAnchor, u, w

LEMMA PostTouchBegin ==
  ASSUME NEW s \in SenderState, s.act > 0, s.ctl > 0, NEW t \in Touches, s.held.touch = NoTouch
  PROVE  Posts(s, Sent(TouchBegin(s, t)), TouchBeginMessage(s, t))
<1> DEFINE u == TouchBegin(s, t)
           w == TouchBeginMessage(s, t)
           k == [Neutral EXCEPT !.touch = t]
<1>1. /\ u \in SenderState /\ u.act = s.act /\ u.ctl = s.ctl /\ u.mot = s.mot
      /\ u.held = [s.held EXCEPT !.touch = t]
      /\ k.touch = t /\ NoAnchor.kind = "Absent"
  BY SenderTypes DEF TouchBegin, SenderState, TouchStates, Neutral, NoAnchor
<1>2. w = Message(u, "TouchBegin", NoMember, k, "none", NoAnchor)
  BY DEF TouchBeginMessage
<1> HIDE DEF u, k
<1>3. /\ w.act = s.act /\ w.seq = s.ctl + 1 /\ w.kind = "TouchBegin"
      /\ ~HasAnchor(w) /\ w.after.held = u.held /\ w.held.touch = t
  BY <1>1, <1>2 DEF Message, HasAnchor
<1>4. w \in Sendable
  BY SendableMessages
<1> HIDE DEF w
<1>5. Follows(s.held, w)
  BY <1>1, <1>3, SameFacts DEF Follows
<1> QED BY <1>1, <1>3, <1>4, <1>5, SentFields DEF Posts, u, w

LEMMA PostTouchEnd ==
  ASSUME NEW s \in SenderState, s.act > 0, s.ctl > 0, s.held.touch # NoTouch
  PROVE  Posts(s, Sent(TouchEnd(s)), TouchEndMessage(s))
<1> DEFINE u == TouchEnd(s)
           w == TouchEndMessage(s)
           a == AnchorOf(s, "Checkpoint")
<1>1. /\ u \in SenderState /\ u.act = s.act /\ u.ctl = s.ctl /\ u.mot = s.mot
      /\ u.held = [s.held EXCEPT !.touch = NoTouch]
  BY SenderTypes DEF TouchEnd, SenderState
<1>2. w = Message(u, "TouchEnd", NoMember, Neutral, "none", a)
  BY DEF TouchEndMessage
<1>3. a.through = s.mot /\ a.touch = s.held.touch
  BY AnchorOfFields
<1> HIDE DEF u, a
<1>4. /\ w.act = s.act /\ w.seq = s.ctl + 1 /\ w.kind = "TouchEnd"
      /\ w.anchor = a /\ w.after.held = u.held
  BY <1>1, <1>2 DEF Message
<1>5. w \in Sendable
  BY SendableMessages
<1> HIDE DEF w
<1>6. Follows(s.held, w)
  BY <1>1, <1>3, <1>4, SameFacts DEF Follows
<1> QED BY <1>1, <1>3, <1>4, <1>5, <1>6, SentFields DEF Posts, u, w

LEMMA PostSnapshot ==
  ASSUME NEW s \in SenderState, s.act > 0, s.ctl > 0, NEW t \in Nat
  PROVE  Posts(s, Sent(Snapshot(s, t)), SnapshotMessage(s))
<1> DEFINE u == Snapshot(s, t)
           w == SnapshotMessage(s)
           a == AnchorOf(s, "Checkpoint")
<1>1. /\ u \in SenderState /\ u.act = s.act /\ u.ctl = s.ctl /\ u.mot = s.mot
      /\ u.held = s.held
  BY SenderTypes DEF Snapshot, SenderState
<1>2. a.through = s.mot /\ a.touch = s.held.touch
  BY AnchorOfFields
<1>3. w = Message(s, "StateSnapshot", NoMember, s.held, "none", a)
  BY DEF SnapshotMessage
<1> HIDE DEF u, a
<1>4. /\ w.act = s.act /\ w.seq = s.ctl + 1 /\ w.kind = "StateSnapshot"
      /\ w.anchor = a /\ w.after.held = s.held
  BY <1>3 DEF Message
<1>5. w \in Sendable
  BY SendableMessages
<1> HIDE DEF w
<1>6. Follows(s.held, w)
  BY <1>2, <1>4, SameFacts DEF Follows
<1> QED BY <1>1, <1>2, <1>4, <1>5, <1>6, SentFields DEF Posts, u, w

LEMMA PostClose ==
  ASSUME NEW s \in SenderState, s.act > 0, s.ctl > 0
  PROVE  /\ Posts(s, Sent(s), TimeoutCloseMessage(s))
         /\ Posts(s, Sent(s), LeaveMessage(s, "LocalRelease"))
<1>1. ASSUME NEW w \in Sendable, w.act = s.act, w.seq = s.ctl + 1, w.kind = "SessionClose",
             w.after.held = s.held,
             HasAnchor(w) => w.anchor.through = s.mot /\ w.anchor.touch = s.held.touch
      PROVE  Posts(s, Sent(s), w)
  <2>1. Follows(s.held, w)
    BY <1>1, SameFacts DEF Follows
  <2> QED BY <1>1, <2>1, SentFields DEF Posts
<1>2. Posts(s, Sent(s), TimeoutCloseMessage(s))
  <2> DEFINE w == TimeoutCloseMessage(s)
  <2>1. w \in Sendable
    BY SendableMessages
  <2>2. /\ w.act = s.act /\ w.seq = s.ctl + 1 /\ w.kind = "SessionClose" /\ w.after.held = s.held
        /\ ~HasAnchor(w)
    BY DEF TimeoutCloseMessage, Message, HasAnchor, NoAnchor
  <2> HIDE DEF w
  <2>3. Posts(s, Sent(s), w)
    BY <1>1, <2>1, <2>2
  <2> QED BY <2>3 DEF w
<1>3. Posts(s, Sent(s), LeaveMessage(s, "LocalRelease"))
  <2> DEFINE w == LeaveMessage(s, "LocalRelease")
  <2>1. w \in Sendable
    BY SendableMessages
  <2>2. /\ w.act = s.act /\ w.seq = s.ctl + 1 /\ w.kind = "SessionClose" /\ w.after.held = s.held
        /\ w.anchor.through = s.mot /\ w.anchor.touch = s.held.touch
    BY AnchorOfFields DEF LeaveMessage, Message
  <2> HIDE DEF w
  <2>3. Posts(s, Sent(s), w)
    BY <1>1, <2>1, <2>2
  <2> QED BY <2>3 DEF w
<1> QED BY <1>2, <1>3

LEMMA ShowMotion ==
  ASSUME NEW s \in SenderState, s.act > 0, s.ctl > 0, NEW d \in Int, NEW t \in TouchStates,
         t # NoTouch => s.held.touch # NoTouch, Fits(s.totals + d), now \in Nat
  PROVE  Shows(s, CaptureMotion(s, d, t, now), FrameOf(CaptureMotion(s, d, t, now), t))
<1> DEFINE u == CaptureMotion(s, d, t, now)
           f == FrameOf(u, t)
<1>1. /\ u.act = s.act /\ u.ctl = s.ctl /\ u.mot = s.mot + 1
      /\ u.held = [s.held EXCEPT !.touch = IF t = NoTouch THEN s.held.touch ELSE t]
  BY DEF CaptureMotion, SenderState
<1>2. u \in SenderState
  BY SenderTypes
<1> HIDE DEF u
<1>3. /\ f \in MotionFrame /\ f.act = u.act /\ f.seq = u.mot /\ f.mark = u.ctl /\ f.touch = t
  BY <1>2, FrameType DEF FrameOf
<1>4. Same(s.held, u.held)
  BY <1>1 DEF Same, SenderState, HeldState
<1> HIDE DEF f
<1> QED BY <1>1, <1>3, <1>4 DEF Shows, u, f

-----------------------------------------------------------------------------
(* A control that is sent *)

LEMMA SendableFields ==
  ASSUME NEW m \in Sendable
  PROVE  /\ m.act \in Nat /\ m.seq \in Nat /\ m.act > 0 /\ m.seq > 0
         /\ m.after.held \in HeldState
         /\ HasAnchor(m) => m.anchor \in Anchor /\ m.anchor.through \in Nat
                              /\ m.anchor.totals \in Total /\ m.anchor.touch \in TouchStates
<1>1. m \in ControlMessage /\ m.act > 0 /\ m.seq > 0
  BY DEF Sendable
<1>2. m.act \in Nat /\ m.seq \in Nat /\ m.after.held \in HeldState
  BY <1>1 DEF ControlMessage, History
<1>3. HasAnchor(m) => m.anchor \in Anchor
  BY <1>1, AnchorFields
<1> QED BY <1>1, <1>2, <1>3 DEF Anchor

LEMMA SenderFields ==
  ASSUME NEW s \in SenderState
  PROVE  /\ s.act \in Nat /\ s.ctl \in Nat /\ s.mot \in Nat /\ s.held \in HeldState
         /\ s.totals \in Total
BY DEF SenderState

LEMMA ReceiverFields ==
  ASSUME NEW r \in ReceiverState
  PROVE  /\ r.act \in Nat /\ r.ctl \in Nat /\ r.highest \in Nat /\ r.inj \in Nat
         /\ r.held \in HeldState /\ r.totals \in Total
BY DEF ReceiverState

LEMMA FrameFields ==
  ASSUME NEW f \in MotionFrame
  PROVE  /\ f.act \in Nat /\ f.seq \in Nat /\ f.mark \in Nat /\ f.totals \in Total
         /\ f.touch \in TouchStates
BY DEF MotionFrame

LEMMA OrderPost ==
  ASSUME NEW S \in SUBSET Sendable, NEW s \in SenderState, NEW s1, NEW r \in ReceiverState,
         NEW last \in Nat, NEW m, s.act > 0, Posts(s, s1, m), Order(S, s, r, last)
  PROVE  Order(S \cup {m}, s1, r, last) /\ AllBefore(S, {m})
<1>1. /\ m.act = s.act /\ m.seq = s.ctl + 1 /\ s1.act = s.act /\ s1.ctl = s.ctl + 1
      /\ s.act = last /\ s.ctl \in Nat
  BY SenderFields DEF Posts, Order
<1>2. \A n \in S : n.act \in Nat /\ n.seq \in Nat /\ n.act <= last
                     /\ (n.act = last => n.seq <= s.ctl)
  BY <1>1, SendableFields DEF Order
<1>3. r.act \in Nat /\ r.ctl \in Nat /\ r.highest \in Nat /\ r.act <= last
  BY ReceiverFields DEF Order
<1>4. AllBefore(S, {m})
  BY <1>1, <1>2 DEF AllBefore, Before
<1>5. \A n \in S : ~(n.act = m.act /\ n.seq = m.seq)
  BY <1>1, <1>2
<1>6. \A k, n \in S \cup {m} : k.act = n.act /\ k.seq = n.seq => k = n
  BY <1>5 DEF Order
<1>7. \A n \in S \cup {m} : n.act <= last /\ (n.act = s1.act => n.seq <= s1.ctl)
  BY <1>1, <1>2
<1>8. r.act # 0 => Ahead(r, m) /\ (r.act = s1.act => r.ctl <= s1.ctl)
  BY <1>1, <1>3 DEF Ahead, Order
<1> QED BY <1>1, <1>4, <1>6, <1>7, <1>8 DEF Order

LEMMA ChainPost ==
  ASSUME NEW S \in SUBSET Sendable, NEW s \in SenderState, NEW s1, NEW r \in ReceiverState,
         NEW h \in HeldState, NEW last \in Nat, NEW m, s.act > 0, Posts(s, s1, m),
         Order(S, s, r, last), Chain(S, s, r, h)
  PROVE  Chain(S \cup {m}, s1, r, h)
<1>1. /\ m.act = s.act /\ m.seq = s.ctl + 1 /\ s1.act = s.act /\ s1.ctl = s.ctl + 1
      /\ s1.held = m.after.held /\ s.act = last /\ s.ctl \in Nat /\ s.held \in HeldState
      /\ Follows(s.held, m)
  BY SenderFields DEF Posts, Order
<1>2. \A n \in S : /\ n.act \in Nat /\ n.seq \in Nat /\ n.after.held \in HeldState
                   /\ n.act = m.act => n.seq <= s.ctl
  BY <1>1, SendableFields DEF Order
<1>3. ASSUME NEW k \in S, k.act = m.act, m.seq = k.seq + 1
      PROVE  Follows(k.after.held, m)
  <2>1. k.seq = s.ctl
    BY <1>1, <1>2, <1>3
  <2>2. Same(k.after.held, s.held)
    BY <1>1, <1>3, <2>1 DEF Chain
  <2> QED BY <1>1, <1>2, <2>2, FollowsSame, SameFacts
<1>4. \A k, n \in S \cup {m} : k.act = n.act /\ n.seq = k.seq + 1 => Follows(k.after.held, n)
  <2>1. \A n \in S : ~(n.act = m.act /\ n.seq = m.seq + 1)
    BY <1>1, <1>2
  <2>2. m.seq # m.seq + 1
    BY <1>1
  <2> QED BY <1>3, <2>1, <2>2 DEF Chain
<1>5. \A n \in S \cup {m} : n.act = s1.act /\ n.seq = s1.ctl => Same(n.after.held, s1.held)
  BY <1>1, <1>2, SameFacts
<1>6. ASSUME r.act # 0
      PROVE  /\ \A n \in S \cup {m} : n.act = r.act /\ n.seq = r.ctl + 1 => Follows(h, n)
             /\ ~(r.act = s1.act /\ r.ctl = s1.ctl)
  <2>1. r.ctl \in Nat /\ (r.act = s.act => r.ctl <= s.ctl)
    BY <1>6, ReceiverFields DEF Order
  <2>2. m.act = r.act /\ m.seq = r.ctl + 1 => Follows(h, m)
    <3>1. m.act = r.act /\ m.seq = r.ctl + 1 => Same(h, s.held)
      BY <1>1, <1>6, <2>1 DEF Chain
    <3> QED BY <1>1, <3>1, FollowsSame, SameFacts
  <2> QED BY <1>1, <1>6, <2>1, <2>2 DEF Chain
<1> QED BY <1>4, <1>5, <1>6 DEF Chain

LEMMA GaplessPost ==
  ASSUME NEW S, NEW s \in SenderState, NEW s1, NEW r, NEW m, s.act > 0, Posts(s, s1, m),
         Gapless(S, s, r)
  PROVE  Gapless(S \cup {m}, s1, r)
<1>1. /\ m.act = s.act /\ m.seq - 1 = s.ctl /\ s1.act = m.act /\ s1.ctl = m.seq
  BY SenderFields DEF Posts
<1>2. \A a, n : Known(S, r, a, n) => Known(S \cup {m}, r, a, n)
  BY DEF Known
<1>3. Known(S \cup {m}, r, s1.act, s1.ctl)
  BY <1>1 DEF Known
<1>4. Live(r, m.act) => Known(S \cup {m}, r, m.act, m.seq - 1)
  BY <1>1, <1>2 DEF Gapless
<1> QED BY <1>1, <1>2, <1>3, <1>4 DEF Gapless

LEMMA MotionsPost ==
  ASSUME NEW S \in SUBSET Sendable, NEW mot \in SUBSET MotionFrame, NEW s \in SenderState, NEW s1,
         NEW r, NEW p, NEW last \in Nat, NEW m, s.act > 0, Posts(s, s1, m),
         Order(S, s, r, last), Motions(S, mot, s, p, last)
  PROVE  Motions(S \cup {m}, mot, s1, p, last)
<1>1. /\ m.act = s.act /\ m.seq = s.ctl + 1 /\ s1.act = s.act /\ s1.ctl = s.ctl + 1
      /\ s1.mot = s.mot /\ s.ctl \in Nat /\ s.mot \in Nat
      /\ HasAnchor(m) => m.anchor.through = s.mot
  BY SenderFields DEF Posts
<1>2. \A n \in S : n.seq \in Nat /\ (n.act = s.act => n.seq <= s.ctl)
  BY SendableFields DEF Order
<1>3. \A f \in mot : /\ f.act \in 1 .. last /\ f.mark > 0 /\ f.mark \in Nat
                     /\ f.act = s.act => f.seq <= s.mot /\ f.mark <= s.ctl
  BY FrameFields DEF Motions
<1>4. \A f \in mot : f.act = s1.act => f.seq <= s1.mot /\ f.mark <= s1.ctl
  BY <1>1, <1>3
<1>5. HasAnchor(m) =>
        /\ m.act = s1.act => m.anchor.through <= s1.mot
        /\ \A f \in mot : f.act = m.act /\ f.mark < m.seq => f.seq <= m.anchor.through
        /\ \A n \in S \cup {m} : HasAnchor(n) /\ n.act = m.act /\ m.seq < n.seq
                                   => m.anchor.through <= n.anchor.through
  BY <1>1, <1>2, <1>3
<1>6. \A k \in S : HasAnchor(k) =>
        /\ k.act = s1.act => k.anchor.through <= s1.mot
        /\ HasAnchor(m) /\ m.act = k.act => k.anchor.through <= m.anchor.through
  BY <1>1 DEF Motions
<1> QED BY <1>3, <1>4, <1>5, <1>6 DEF Motions

LEMMA PlayedPost ==
  ASSUME NEW S, NEW s \in SenderState, NEW s1, NEW r, NEW p, NEW m, s.act > 0, Posts(s, s1, m),
         Played(S, s, r, p)
  PROVE  Played(S \cup {m}, s1, r, p)
BY DEF Posts, Played

LEMMA TouchingPost ==
  ASSUME NEW S, NEW mot \in SUBSET MotionFrame, NEW s \in SenderState, NEW s1, NEW p, NEW last,
         NEW m, s.act > 0, Posts(s, s1, m), Motions(S, mot, s, p, last), Touching(S, mot)
  PROVE  Touching(S \cup {m}, mot)
<1>1. m.act = s.act /\ m.seq = s.ctl + 1 /\ s.ctl \in Nat
  BY SenderFields DEF Posts
<1>2. \A f \in mot : ~(f.act = m.act /\ f.mark = m.seq)
  BY <1>1, FrameFields DEF Motions
<1> QED BY <1>2 DEF Touching

LEMMA FlowPost ==
  ASSUME NEW q \in Seq(Sendable), NEW ctl \in Seq(Sendable), NEW mot \in SUBSET MotionFrame,
         NEW s \in SenderState, NEW s1, NEW r \in ReceiverState, NEW p, NEW h \in HeldState,
         NEW last \in Nat, NEW runs, NEW m, s.act > 0, Posts(s, s1, m),
         Flow(q, ctl, mot, s, r, p, h, last, runs)
  PROVE  Flow(q, Append(ctl, m), mot, s1, r, p, h, last, runs)
<1> DEFINE S == In(q) \cup In(ctl)
<1>1. S \in SUBSET Sendable /\ m \in Sendable
  BY InType DEF Posts
<1>2. In(q) \cup In(Append(ctl, m)) = S \cup {m} /\ In(Append(ctl, m)) = In(ctl) \cup {m}
  BY <1>1, InAppend
<1>3. /\ Sorted(q) /\ Sorted(ctl) /\ AllBefore(In(q), In(ctl)) /\ Order(S, s, r, last)
      /\ Chain(S, s, r, h) /\ Motions(S, mot, s, p, last) /\ Touching(S, mot)
      /\ runs => Gapless(S, s, r) /\ Played(S, s, r, p) /\ Touched(mot, r, p, h)
  BY DEF Flow
<1> HIDE DEF S
<1>4. Order(S \cup {m}, s1, r, last) /\ AllBefore(S, {m})
  BY <1>1, <1>3, OrderPost
<1>5. Sorted(Append(ctl, m)) /\ AllBefore(In(q), In(ctl) \cup {m})
  <2>1. AllBefore(In(ctl), {m}) /\ AllBefore(In(q), {m})
    BY <1>4 DEF AllBefore, S
  <2> QED BY <1>1, <1>3, <2>1, SortedAppend DEF AllBefore
<1>6. Chain(S \cup {m}, s1, r, h)
  BY <1>1, <1>3, ChainPost
<1>7. Motions(S \cup {m}, mot, s1, p, last)
  BY <1>1, <1>3, MotionsPost
<1>8. Touching(S \cup {m}, mot)
  BY <1>3, TouchingPost
<1>9. runs => Gapless(S \cup {m}, s1, r) /\ Played(S \cup {m}, s1, r, p)
  BY <1>3, GaplessPost, PlayedPost
<1> QED BY <1>2, <1>3, <1>4, <1>5, <1>6, <1>7, <1>8, <1>9 DEF Flow

-----------------------------------------------------------------------------
(* A frame that is sent, an activation that begins or ends *)

LEMMA MotionsShow ==
  ASSUME NEW S \in SUBSET Sendable, NEW mot \in SUBSET MotionFrame, NEW s \in SenderState, NEW s1,
         NEW r, NEW p, NEW last \in Nat, NEW f, s.act > 0, s.ctl > 0, Shows(s, s1, f),
         Order(S, s, r, last), Motions(S, mot, s, p, last)
  PROVE  Motions(S, mot \cup {f}, s1, p, last)
<1>1. /\ f.act = s.act /\ f.seq = s.mot + 1 /\ f.mark = s.ctl /\ s1.act = s.act
      /\ s1.ctl = s.ctl /\ s1.mot = s.mot + 1 /\ s.ctl \in Nat /\ s.mot \in Nat
      /\ s.act = last /\ f.act \in 1 .. last
  BY SenderFields DEF Shows, Order
<1>2. \A n \in S : /\ n.seq \in Nat /\ (n.act = s.act => n.seq <= s.ctl)
                   /\ HasAnchor(n) => n.anchor.through \in Nat
  BY SendableFields DEF Order
<1>3. \A g \in mot : g.seq \in Nat
  BY FrameFields
<1>4. \A g \in mot \cup {f} :
        /\ g.act \in 1 .. last /\ g.mark > 0
        /\ g.act = s1.act => g.seq <= s1.mot /\ g.mark <= s1.ctl
  BY <1>1, <1>3 DEF Motions
<1>5. \A m \in S : HasAnchor(m) =>
        /\ m.act = s1.act => m.anchor.through <= s1.mot
        /\ f.act = m.act /\ f.mark < m.seq => f.seq <= m.anchor.through
  BY <1>1, <1>2 DEF Motions
<1> QED BY <1>4, <1>5 DEF Motions

LEMMA ContactsShow ==
  ASSUME NEW S \in SUBSET Sendable, NEW mot \in SUBSET MotionFrame, NEW s \in SenderState, NEW s1,
         NEW r \in ReceiverState, NEW p, NEW h, NEW last, NEW f, s.act > 0, Shows(s, s1, f),
         Order(S, s, r, last), Chain(S, s, r, h)
  PROVE  /\ Touching(S, mot) => Touching(S, mot \cup {f})
         /\ Touched(mot, r, p, h) => Touched(mot \cup {f}, r, p, h)
<1>1. /\ f.act = s.act /\ f.mark = s.ctl /\ (f.touch # NoTouch => s.held.touch # NoTouch)
      /\ s.ctl \in Nat /\ r.ctl \in Nat
  BY SenderFields, ReceiverFields DEF Shows
<1>2. \A m \in S : f.touch # NoTouch /\ m.act = f.act /\ m.seq = f.mark
                     => m.after.held.touch # NoTouch
  BY <1>1 DEF Chain, Same
<1>3. r.act # 0 /\ f.act = r.act /\ f.mark <= r.ctl /\ f.touch # NoTouch => h.touch # NoTouch
  BY <1>1 DEF Order, Chain, Same
<1> QED BY <1>2, <1>3 DEF Touching, Touched

LEMMA FlowShow ==
  ASSUME NEW q \in Seq(Sendable), NEW ctl \in Seq(Sendable), NEW mot \in SUBSET MotionFrame,
         NEW s \in SenderState, NEW s1, NEW r \in ReceiverState, NEW p \in PlayoutState,
         NEW h \in HeldState, NEW last \in Nat, NEW runs, NEW f, s.act > 0, s.ctl > 0,
         Shows(s, s1, f), Flow(q, ctl, mot, s, r, p, h, last, runs)
  PROVE  Flow(q, ctl, mot \cup {f}, s1, r, p, h, last, runs)
<1> DEFINE S == In(q) \cup In(ctl)
<1>1. S \in SUBSET Sendable
  BY InType
<1>2. /\ Sorted(q) /\ Sorted(ctl) /\ AllBefore(In(q), In(ctl)) /\ Order(S, s, r, last)
      /\ Chain(S, s, r, h) /\ Motions(S, mot, s, p, last) /\ Touching(S, mot)
      /\ runs => Gapless(S, s, r) /\ Played(S, s, r, p) /\ Touched(mot, r, p, h)
  BY DEF Flow
<1>3. /\ s1.act = s.act /\ s1.ctl = s.ctl /\ s1.mot = s.mot + 1 /\ Same(s.held, s1.held)
      /\ s.mot \in Nat /\ p.seq \in Nat
  BY SenderFields, PlayoutFields DEF Shows
<1> HIDE DEF S
<1>4. Order(S, s1, r, last) /\ (Gapless(S, s, r) => Gapless(S, s1, r))
  BY <1>2, <1>3 DEF Order, Gapless
<1>5. Chain(S, s1, r, h)
  BY <1>2, <1>3, SameFacts DEF Chain
<1>6. Motions(S, mot \cup {f}, s1, p, last)
  BY <1>1, <1>2, MotionsShow
<1>7. Played(S, s, r, p) => Played(S, s1, r, p)
  BY <1>3 DEF Played
<1>8. Touching(S, mot \cup {f}) /\ (Touched(mot, r, p, h) => Touched(mot \cup {f}, r, p, h))
  BY <1>1, <1>2, ContactsShow
<1> QED BY <1>2, <1>4, <1>5, <1>6, <1>7, <1>8 DEF Flow, S

(* The source's activation ends: nothing more is said of its sender. *)
LEMMA FlowQuit ==
  ASSUME NEW q \in Seq(Sendable), NEW ctl \in Seq(Sendable), NEW mot \in SUBSET MotionFrame,
         NEW s, NEW s1, NEW r \in ReceiverState, NEW p, NEW h, NEW last, NEW runs,
         s1.act = 0, Flow(q, ctl, mot, s, r, p, h, last, runs)
  PROVE  Flow(q, ctl, mot, s1, r, p, h, last, runs)
<1> DEFINE S == In(q) \cup In(ctl)
<1>1. \A m \in S : m.act # 0
  BY InType, SendableFields
<1>2. /\ Sorted(q) /\ Sorted(ctl) /\ AllBefore(In(q), In(ctl)) /\ Order(S, s, r, last)
      /\ Chain(S, s, r, h) /\ Motions(S, mot, s, p, last) /\ Touching(S, mot)
      /\ runs => Gapless(S, s, r) /\ Played(S, s, r, p) /\ Touched(mot, r, p, h)
  BY DEF Flow
<1> HIDE DEF S
<1>3. Order(S, s1, r, last) /\ Chain(S, s1, r, h)
  BY <1>1, <1>2 DEF Order, Chain
<1>4. Motions(S, mot, s1, p, last)
  <2>1. \A f \in mot : f.act \in 1 .. last /\ f.act # 0
    BY <1>2 DEF Motions
  <2> QED BY <1>1, <1>2, <2>1 DEF Motions
<1>5. /\ Gapless(S, s, r) => Gapless(S, s1, r)
      /\ Played(S, s, r, p) => Played(S, s1, r, p)
  BY DEF Gapless, Played
<1> QED BY <1>2, <1>3, <1>4, <1>5 DEF Flow, S

(* A sender that only counts acknowledgements or the time is the same sender. *)
LEMMA FlowSameSender ==
  ASSUME NEW q, NEW ctl, NEW mot, NEW s, NEW s1, NEW r, NEW p, NEW h, NEW last, NEW runs,
         s1.act = s.act, s1.ctl = s.ctl, s1.mot = s.mot, s1.held = s.held,
         Flow(q, ctl, mot, s, r, p, h, last, runs)
  PROVE  Flow(q, ctl, mot, s1, r, p, h, last, runs)
<1> DEFINE S == In(q) \cup In(ctl)
<1> HIDE DEF S
<1>1. /\ Order(S, s, r, last) => Order(S, s1, r, last)
      /\ Chain(S, s, r, h) => Chain(S, s1, r, h)
      /\ Motions(S, mot, s, p, last) => Motions(S, mot, s1, p, last)
      /\ Gapless(S, s, r) => Gapless(S, s1, r)
      /\ Played(S, s, r, p) => Played(S, s1, r, p)
  BY DEF Order, Chain, Motions, Gapless, Played
<1> QED BY <1>1 DEF Flow, S

(* The next activation begins with its Enter. *)
LEMMA FlowBegin ==
  ASSUME NEW q \in Seq(Sendable), NEW ctl \in Seq(Sendable), NEW mot \in SUBSET MotionFrame,
         NEW s, NEW s1, NEW r \in ReceiverState, NEW p \in PlayoutState, NEW h,
         NEW last \in Nat, NEW runs, NEW m \in Sendable,
         m.act = last + 1, m.seq = 1, m.after.held = Neutral, ~HasAnchor(m),
         s1.act = last + 1, s1.ctl = 1, s1.mot = 0, s1.held = Neutral,
         Flow(q, ctl, mot, s, r, p, h, last, runs)
  PROVE  Flow(q, Append(ctl, m), mot, s1, r, p, h, last + 1, runs)
<1> DEFINE S == In(q) \cup In(ctl)
<1>1. S \in SUBSET Sendable
  BY InType
<1>2. In(q) \cup In(Append(ctl, m)) = S \cup {m} /\ In(Append(ctl, m)) = In(ctl) \cup {m}
  BY <1>1, InAppend
<1>3. /\ Sorted(q) /\ Sorted(ctl) /\ AllBefore(In(q), In(ctl)) /\ Order(S, s, r, last)
      /\ Chain(S, s, r, h) /\ Motions(S, mot, s, p, last) /\ Touching(S, mot)
      /\ runs => Gapless(S, s, r) /\ Played(S, s, r, p) /\ Touched(mot, r, p, h)
  BY DEF Flow
<1> HIDE DEF S
<1>4. \A n \in S : n.act \in Nat /\ n.seq \in Nat /\ n.act <= last /\ n.act < m.act /\ n.act # m.act
  BY <1>1, <1>3, SendableFields DEF Order
<1>5. /\ r.act \in Nat /\ r.ctl \in Nat /\ r.highest \in Nat /\ r.act <= last /\ r.highest <= last
      /\ r.act < m.act /\ r.act # s1.act
  BY <1>3, ReceiverFields DEF Order
<1>6. AllBefore(S, {m})
  BY <1>4 DEF AllBefore, Before
<1>7. Sorted(Append(ctl, m)) /\ AllBefore(In(q), In(ctl) \cup {m})
  <2>1. AllBefore(In(ctl), {m}) /\ AllBefore(In(q), {m})
    BY <1>6 DEF AllBefore, S
  <2> QED BY <1>3, <2>1, SortedAppend DEF AllBefore
<1>8. Order(S \cup {m}, s1, r, last + 1)
  <2>1. \A n \in S \cup {m} : n.act <= last + 1 /\ (n.act = s1.act => n.seq <= s1.ctl)
    BY <1>4
  <2>2. \A k, n \in S \cup {m} : k.act = n.act /\ k.seq = n.seq => k = n
    BY <1>3, <1>4 DEF Order
  <2>3. r.act # 0 => \A n \in S \cup {m} : Ahead(r, n)
    BY <1>3, <1>5 DEF Order, Ahead
  <2>4. s1.act \in {0, last + 1} /\ r.act \in {0, r.highest} /\ r.highest <= last + 1
    BY <1>3, <1>5 DEF Order
  <2>5. r.act # 0 => r.ctl > 0
    BY <1>3 DEF Order
  <2> QED BY <1>5, <2>1, <2>2, <2>3, <2>4, <2>5 DEF Order
<1>9. Chain(S \cup {m}, s1, r, h)
  <2>1. \A k, n \in S \cup {m} : k.act = n.act /\ n.seq = k.seq + 1 => Follows(k.after.held, n)
    <3>1. m.seq # m.seq + 1
      OBVIOUS
    <3> QED BY <1>3, <1>4, <3>1 DEF Chain
  <2>2. \A n \in S \cup {m} : n.act = s1.act => Same(n.after.held, s1.held)
    BY <1>4, SameFacts
  <2> QED BY <1>3, <1>5, <2>1, <2>2 DEF Chain
<1>10. Motions(S \cup {m}, mot, s1, p, last + 1)
  <2>1. \A f \in mot : f.act \in 1 .. last + 1 /\ f.act # s1.act /\ f.mark > 0
    BY <1>3, FrameFields DEF Motions
  <2> QED BY <1>3, <1>4, <2>1 DEF Motions
<1>11. Touching(S \cup {m}, mot)
  <2>1. \A f \in mot : f.act # m.act
    BY <1>3, FrameFields DEF Motions
  <2> QED BY <1>3, <2>1 DEF Touching
<1>12. Gapless(S, s, r) => Gapless(S \cup {m}, s1, r)
  <2>1. \A a, n : Known(S, r, a, n) => Known(S \cup {m}, r, a, n)
    BY DEF Known
  <2>2. Known(S \cup {m}, r, s1.act, s1.ctl)
    BY DEF Known
  <2>3. \A n \in S \cup {m} : n.seq > 1 => n \in S
    OBVIOUS
  <2> QED BY <2>1, <2>2, <2>3 DEF Gapless
<1>13. Played(S, s, r, p) => Played(S \cup {m}, s1, r, p)
  BY <1>5 DEF Played
<1> QED BY <1>2, <1>3, <1>7, <1>8, <1>9, <1>10, <1>11, <1>12, <1>13 DEF Flow

-----------------------------------------------------------------------------
(* The source's steps *)

LEMMA MirrorFields ==
  ASSUME TypeInv
  PROVE  mirror.held \in HeldState
BY DEF TypeInv, TypeOK, History

LEMMA FlowSends ==
  ASSUME TypeInv, NEW x \in Outbox, NEW y, Sends(x, y) \/ Turns(x, y), NEW runs,
         Flow(pending, x.ctl, x.mot, x.s, receiver, playout, mirror.held, nextAct, runs)
  PROVE  Flow(pending, y.ctl, y.mot, y.s, receiver, playout, mirror.held, nextAct, runs)
<1>0. /\ pending \in Seq(Sendable) /\ x.ctl \in Seq(Sendable) /\ x.mot \in SUBSET MotionFrame
      /\ x.s \in SenderState /\ receiver \in ReceiverState /\ playout \in PlayoutState
      /\ mirror.held \in HeldState /\ nextAct \in Nat /\ now \in Nat
      /\ x.s.act > 0 /\ x.s.ctl > 0
  BY TypeFacts, MirrorFields, OutboxFields
<1>1. ASSUME NEW s \in SenderState, NEW m, Posts(x.s, Sent(s), m), y = SendControl(x, s, m)
      PROVE  Flow(pending, y.ctl, y.mot, y.s, receiver, playout, mirror.held, nextAct, runs)
  <2>1. y.s = Sent(s) /\ y.ctl = Append(x.ctl, m) /\ y.mot = x.mot
    BY <1>1 DEF SendControl
  <2>2. Flow(pending, Append(x.ctl, m), x.mot, Sent(s), receiver, playout, mirror.held, nextAct,
             runs)
    BY <1>0, <1>1, FlowPost
  <2> QED BY <2>1, <2>2
<1>2. CASE y = x
  BY <1>2
<1>3. CASE Begins(x, y)
  <2>1. PICK t \in Touches : y = SendControl(x, TouchBegin(x.s, t), TouchBeginMessage(x.s, t))
    BY <1>3 DEF Begins
  <2>2. Posts(x.s, Sent(TouchBegin(x.s, t)), TouchBeginMessage(x.s, t))
    BY <1>0, <1>3, PostTouchBegin DEF Begins
  <2>3. TouchBegin(x.s, t) \in SenderState
    BY <1>0, SenderTypes DEF TouchStates
  <2> QED BY <1>1, <2>1, <2>2, <2>3
<1>4. CASE Moves(x, y)
  <2>1. PICK d \in Int, t \in TouchStates :
          /\ t # NoTouch => x.s.held.touch # NoTouch
          /\ Fits(x.s.totals + d) /\ y = SendMotion(x, d, t)
    BY <1>4 DEF Moves
  <2> DEFINE s == CaptureMotion(x.s, d, t, now)
             f == FrameOf(s, t)
  <2>2. y.s = s /\ y.ctl = x.ctl /\ y.mot = x.mot \cup {f}
    BY <2>1 DEF SendMotion
  <2>3. Shows(x.s, s, f)
    BY <1>0, <2>1, ShowMotion
  <2> HIDE DEF s, f
  <2>4. Flow(pending, x.ctl, x.mot \cup {f}, s, receiver, playout, mirror.held, nextAct, runs)
    BY <1>0, <2>3, FlowShow
  <2> QED BY <2>2, <2>4
<1>5. CASE Ends(x, y)
  <2>1. y = SendControl(x, TouchEnd(x.s), TouchEndMessage(x.s))
    BY <1>5 DEF Ends
  <2>2. Posts(x.s, Sent(TouchEnd(x.s)), TouchEndMessage(x.s))
    BY <1>0, <1>5, PostTouchEnd DEF Ends
  <2>3. TouchEnd(x.s) \in SenderState
    BY <1>0, SenderTypes
  <2> QED BY <1>1, <2>1, <2>2, <2>3
<1>6. CASE Turns(x, y)
  <2>1. PICK m \in Members, b \in BOOLEAN :
          /\ TransitionAllowed(x.s, m, b)
          /\ y = SendControl(x, Transition(x.s, m, b), TransitionMessage(x.s, m, b))
    BY <1>6 DEF Turns, SendTransition
  <2>2. Posts(x.s, Sent(Transition(x.s, m, b)), TransitionMessage(x.s, m, b))
    BY <1>0, <2>1, PostTransition
  <2>3. Transition(x.s, m, b) \in SenderState
    BY <1>0, SenderTypes
  <2> QED BY <1>1, <2>1, <2>2, <2>3
<1> QED BY <1>2, <1>3, <1>4, <1>5, <1>6 DEF Sends

(* What the source's steps leave alone. *)
SinkStays == UNCHANGED <<pending, receiver, playout, mirror, sinkEnd>>

LEMMA SourceLeaves ==
  ASSUME SourceNext \/ NetworkLoss \/ Advance
  PROVE  /\ SinkStays /\ batch' = batch /\ backend' = backend /\ pc' = pc
         /\ UNCHANGED <<shown, closedBy>>
BY DEF SourceNext, BeginOutbound, Capture, EndOutbound, SourceTick, ReceiveAck, SourceClose,
       SourceLost, NetworkLoss, Advance, sink, history, SinkStays

LEMMA StreamFrom ==
  ASSUME SinkStays,
         Flow(pending, control', motion', sender', receiver, playout, mirror.held, nextAct',
              sinkEnd = "running")
  PROVE  StreamInv'
BY DEF SinkStays, StreamInv

LEMMA StreamCapture ==
  ASSUME TypeInv, StreamInv, Capture
  PROVE  StreamInv'
<1> USE TypeFacts, MirrorFields
<1>1. PICK device \in Devices, delta \in Deltas, touch \in TouchStates \cup {"none"},
           member \in Members \cup {NoMember}, pressed \in BOOLEAN :
             CaptureOf(device, delta, touch, member, pressed)
  BY CaptureInputs
<1> DEFINE changed == HeldByAny(merger, member)
                        # HeldByAny(Merge(merger, device, member, pressed), member)
           start == [s |-> sender, ctl |-> control, mot |-> motion]
           moved == SendTouchAndMotion(start, delta, touch)
           done == IF changed THEN SendTransition(moved, member, pressed) ELSE moved
           overflow == ~Fits(sender.totals + delta)
           invalid == changed /\ ~TransitionAllowed(moved.s, member, pressed)
           begins == sender.held.touch = NoTouch /\ touch \in Touches
           Flows(ctl, mot, s) == Flow(pending, ctl, mot, s, receiver, playout, mirror.held,
                                      nextAct, sinkEnd = "running")
<1>2. sender.act # 0 /\ nextAct' = nextAct /\ SinkStays
  BY <1>1, SourceLeaves DEF CaptureOf, SourceNext, sink, history, SinkStays
<1>3. start \in Outbox /\ start.s = sender /\ start.ctl = control /\ start.mot = motion
  BY <1>2, StartOutbox
<1>4. Flows(start.ctl, start.mot, start.s)
  BY <1>3 DEF StreamInv
<1>5. ~overflow => moved \in Outbox /\ Flows(moved.ctl, moved.mot, moved.s)
  <2>1. ~overflow => \E y : Sends(start, y) /\ Sends(y, moved)
    BY <1>3, FrameSends
  <2> HIDE DEF start, moved
  <2> QED BY <1>3, <1>4, <2>1, SendsOutbox, FlowSends
<1>6. changed => member \in Members
  BY DEF Merge
<1>7. ~overflow /\ ~invalid => Flows(done.ctl, done.mot, done.s)
  <2>1. changed /\ ~invalid => Turns(moved, SendTransition(moved, member, pressed))
    BY <1>6 DEF Turns
  <2> HIDE DEF moved, changed, invalid
  <2> QED BY <1>5, <2>1, FlowSends
<1>8. CASE overflow
  <2>1. /\ control' = IF begins THEN Append(control, TouchBeginMessage(sender, touch)) ELSE control
        /\ sender'.act = 0 /\ motion' = motion
    BY <1>1, <1>8 DEF CaptureOf, SourceEnds, NoSender
  <2>2. CASE begins
    <3>1. Posts(sender, Sent(TouchBegin(sender, touch)), TouchBeginMessage(sender, touch))
      BY <1>2, <2>2, PostTouchBegin
    <3>2. Flows(Append(control, TouchBeginMessage(sender, touch)), motion,
                Sent(TouchBegin(sender, touch)))
      BY <1>2, <1>3, <1>4, <3>1, FlowPost
    <3>3. Append(control, TouchBeginMessage(sender, touch)) \in Seq(Sendable)
      BY <3>1, AppendProperties DEF Posts
    <3>4. Flows(control', motion', sender')
      BY <2>1, <2>2, <3>2, <3>3, FlowQuit
    <3> QED BY <1>2, <3>4, StreamFrom
  <2>3. CASE ~begins
    <3>1. Flows(control', motion', sender')
      BY <1>3, <1>4, <2>1, <2>3, FlowQuit
    <3> QED BY <1>2, <3>1, StreamFrom
  <2> QED BY <2>2, <2>3
<1>9. CASE ~overflow /\ invalid
  <2>1. control' = moved.ctl /\ motion' = moved.mot /\ sender'.act = 0
    BY <1>1, <1>9 DEF CaptureOf, SourceEnds, NoSender
  <2> HIDE DEF moved
  <2>2. moved.ctl \in Seq(Sendable) /\ moved.mot \in SUBSET MotionFrame
    BY <1>5, <1>9, OutboxFields
  <2>3. Flows(control', motion', sender')
    BY <1>5, <1>9, <2>1, <2>2, FlowQuit
  <2> QED BY <1>2, <2>3, StreamFrom
<1>10. CASE ~overflow /\ ~invalid
  <2>1. sender' = done.s /\ control' = done.ctl /\ motion' = done.mot
    BY <1>1, <1>10 DEF CaptureOf
  <2> HIDE DEF done
  <2> QED BY <1>2, <1>7, <1>10, <2>1, StreamFrom
<1> QED BY <1>8, <1>9, <1>10

LEMMA StreamBegin ==
  ASSUME TypeInv, StreamInv, BeginOutbound
  PROVE  StreamInv'
<1> USE TypeFacts, MirrorFields
<1> DEFINE s == NewSender(nextAct + 1, now)
           m == EnterMessage(s)
<1>1. /\ sender' = Sent(s) /\ control' = Append(control, m) /\ nextAct' = nextAct + 1
      /\ motion' = motion /\ SinkStays
  BY SourceLeaves DEF BeginOutbound, SourceNext
<1>2. /\ s.act = nextAct + 1 /\ s.ctl = 0 /\ s.mot = 0 /\ s.held = Neutral /\ s \in SenderState
  <2>1. s.act = nextAct + 1 /\ s.ctl = 0 /\ s.mot = 0 /\ s.held = Neutral
    BY DEF NewSender, NoSender
  <2>2. nextAct + 1 \in Nat
    OBVIOUS
  <2> QED BY <2>1, <2>2, SenderTypes
<1> HIDE DEF s
<1>3. m.act = s.act /\ m.seq = s.ctl + 1 /\ m.after.held = s.held /\ ~HasAnchor(m)
  BY DEF EnterMessage, Message, HasAnchor, NoAnchor
<1>4. m \in Sendable
  BY <1>2, SendableMessages
<1> HIDE DEF m
<1>5. Sent(s).act = nextAct + 1 /\ Sent(s).ctl = 1 /\ Sent(s).mot = 0 /\ Sent(s).held = Neutral
  BY <1>2, SentFields
<1>6. Flow(pending, Append(control, m), motion, Sent(s), receiver, playout, mirror.held,
           nextAct + 1, sinkEnd = "running")
  BY <1>2, <1>3, <1>4, <1>5, FlowBegin DEF StreamInv
<1> QED BY <1>1, <1>6, StreamFrom

(* A last control, and the sender is gone. *)
LEMMA StreamLeaves ==
  ASSUME TypeInv, StreamInv, SinkStays, nextAct' = nextAct, motion' = motion, sender.act # 0,
         sender'.act = 0, NEW m, Posts(sender, Sent(sender), m), control' = Append(control, m)
  PROVE  StreamInv'
<1> USE TypeFacts, MirrorFields
<1>1. Flow(pending, Append(control, m), motion, Sent(sender), receiver, playout, mirror.held,
           nextAct, sinkEnd = "running")
  BY FlowPost DEF StreamInv
<1>2. Append(control, m) \in Seq(Sendable)
  BY AppendProperties DEF Posts
<1>3. Flow(pending, control', motion', sender', receiver, playout, mirror.held, nextAct',
           sinkEnd = "running")
  BY <1>1, <1>2, FlowQuit
<1> QED BY <1>3, StreamFrom

LEMMA StreamQuits ==
  ASSUME TypeInv, StreamInv, SinkStays, UNCHANGED <<nextAct, motion, control>>, sender'.act = 0
  PROVE  StreamInv'
<1>1. Flow(pending, control', motion', sender', receiver, playout, mirror.held, nextAct',
           sinkEnd = "running")
  BY TypeFacts, FlowQuit DEF StreamInv
<1> QED BY <1>1, StreamFrom

LEMMA StreamSource ==
  ASSUME TypeInv, StreamInv, SourceNext \/ NetworkLoss \/ Advance
  PROVE  StreamInv'
<1> USE TypeFacts, MirrorFields
<1>1. SinkStays
  BY SourceLeaves
<1>2. \A why : SourceEnds(why) => sender'.act = 0
  BY DEF SourceEnds, NoSender
<1>3. CASE NetworkLoss \/ Advance
  <2>1. UNCHANGED <<sender, control, motion, nextAct>>
    BY <1>3 DEF NetworkLoss, Advance, source, network
  <2> QED BY <1>1, <2>1 DEF SinkStays, StreamInv
<1>4. CASE EndOutbound
  <2>1. /\ sender.act # 0 /\ control' = Append(control, LeaveMessage(sender, "LocalRelease"))
        /\ sender'.act = 0 /\ UNCHANGED <<nextAct, motion>>
    BY <1>4 DEF EndOutbound, NoSender
  <2> QED BY <1>1, <2>1, PostClose, StreamLeaves
<1>5. CASE SourceTick
  <2>1. sender.act # 0 /\ UNCHANGED <<nextAct, motion>>
    BY <1>5 DEF SourceTick
  <2>2. CASE control' = Append(control, TimeoutCloseMessage(sender)) /\ sender' = NoSender
    BY <1>1, <2>1, <2>2, PostClose, StreamLeaves DEF NoSender
  <2>3. CASE /\ control' = Append(control, SnapshotMessage(sender))
             /\ sender' = Sent(Snapshot(sender, now))
    <3>1. Posts(sender, Sent(Snapshot(sender, now)), SnapshotMessage(sender))
      BY <2>1, PostSnapshot
    <3>2. Flow(pending, control', motion', sender', receiver, playout, mirror.held, nextAct',
               sinkEnd = "running")
      BY <2>1, <2>3, <3>1, FlowPost DEF StreamInv
    <3> QED BY <1>1, <3>2, StreamFrom
  <2>4. CASE SourceEnds("limit") /\ UNCHANGED control
    BY <1>1, <1>2, <2>1, <2>4, StreamQuits
  <2> QED BY <1>5, <2>2, <2>3, <2>4 DEF SourceTick
<1>6. CASE ReceiveAck
  <2>1. UNCHANGED <<nextAct, motion, control>>
    BY <1>6 DEF ReceiveAck
  <2>2. CASE SourceEnds("invalid")
    BY <1>1, <1>2, <2>1, <2>2, StreamQuits
  <2>3. CASE sender' = sender \/ sender' = Acknowledge(sender, Head(acks).seq)
    <3>1. /\ sender'.act = sender.act /\ sender'.ctl = sender.ctl /\ sender'.mot = sender.mot
          /\ sender'.held = sender.held
      BY <2>3 DEF Acknowledge, SenderState
    <3>2. Flow(pending, control', motion', sender', receiver, playout, mirror.held, nextAct',
               sinkEnd = "running")
      BY <2>1, <3>1, FlowSameSender DEF StreamInv
    <3> QED BY <1>1, <3>2, StreamFrom
  <2> QED BY <1>6, <2>2, <2>3 DEF ReceiveAck
<1>7. CASE SourceClose \/ SourceLost
  <2>1. sender'.act = 0 /\ UNCHANGED <<nextAct, motion, control>>
    BY <1>2, <1>7 DEF SourceClose, SourceLost
  <2> QED BY <1>1, <2>1, StreamQuits
<1> QED BY <1>3, <1>4, <1>5, <1>6, <1>7, StreamBegin, StreamCapture DEF SourceNext

-----------------------------------------------------------------------------
(* What the sink drops *)

(* The receiver closed its activation. *)
Shut(r, r1) == r1.act = 0 /\ r1.highest = r.highest

(* Controls are dropped, and the receiver may have closed: as long as the sink  *)
(* runs, only what is not live any more may go.                                *)
LEMMA FlowDrop ==
  ASSUME NEW q \in Seq(Sendable), NEW ctl \in Seq(Sendable), NEW q1, NEW ctl1,
         NEW mot \in SUBSET MotionFrame, NEW s \in SenderState, NEW r \in ReceiverState, NEW r1,
         NEW p, NEW h, NEW last \in Nat, NEW runs, NEW runs1,
         r1 = r \/ Shut(r, r1),
         In(q1) \subseteq In(q), In(ctl1) \subseteq In(ctl), Sorted(q1), Sorted(ctl1),
         runs1 => /\ runs
                  /\ \A n \in In(q) \cup In(ctl) : Live(r1, n.act) => n \in In(q1) \cup In(ctl1),
         Flow(q, ctl, mot, s, r, p, h, last, runs)
  PROVE  Flow(q1, ctl1, mot, s, r1, p, h, last, runs1)
<1> DEFINE S == In(q) \cup In(ctl)
           S1 == In(q1) \cup In(ctl1)
<1>1. /\ S1 \subseteq S /\ AllBefore(In(q1), In(ctl1))
      /\ runs1 => runs /\ \A n \in S : Live(r1, n.act) => n \in S1
  BY DEF Flow, AllBefore
<1>2. /\ Order(S, s, r, last) /\ Chain(S, s, r, h) /\ Motions(S, mot, s, p, last)
      /\ Touching(S, mot)
      /\ runs => Gapless(S, s, r) /\ Played(S, s, r, p) /\ Touched(mot, r, p, h)
  BY DEF Flow
<1>3. \A n \in S : n.act \in Nat /\ n.act > 0
  BY InType, SendableFields
<1>4. r.act \in Nat /\ r.highest \in Nat /\ r.act <= r.highest /\ s.act \in Nat
  BY <1>2, ReceiverFields, SenderFields DEF Order
<1> HIDE DEF S, S1
<1>5. Order(S1, s, r1, last) /\ Chain(S1, s, r1, h)
  BY <1>1, <1>2 DEF Order, Chain, Shut
<1>6. Motions(S1, mot, s, p, last) /\ Touching(S1, mot)
  BY <1>1, <1>2 DEF Motions, Touching
<1>7. runs1 => Played(S1, s, r1, p) /\ Touched(mot, r1, p, h)
  BY <1>1, <1>2 DEF Played, Touched, Shut
<1>8. ASSUME runs1
      PROVE  Gapless(S1, s, r1)
  <2>1. ASSUME NEW a \in Nat, a > 0, Live(r1, a), NEW n, Live(r, a) => Known(S, r, a, n)
        PROVE  Known(S1, r1, a, n)
    <3>1. CASE r1 = r
      BY <1>1, <1>8, <2>1, <3>1 DEF Known
    <3>2. CASE Shut(r, r1)
      <4>1. a > r.highest /\ Live(r, a)
        BY <2>1, <3>2 DEF Live, Shut
      <4>2. PICK m \in S : m.act = a /\ m.seq = n
        BY <1>4, <2>1, <4>1 DEF Known
      <4>3. m \in S1
        BY <1>1, <1>8, <2>1, <4>2
      <4> QED BY <4>2, <4>3 DEF Known
    <3> QED BY <3>1, <3>2
  <2>2. \A n \in S1 : Live(r1, n.act) /\ n.seq > 1 => Known(S1, r1, n.act, n.seq - 1)
    BY <1>1, <1>2, <1>3, <1>8, <2>1 DEF Gapless
  <2>3. s.act # 0 /\ Live(r1, s.act) => Known(S1, r1, s.act, s.ctl)
    BY <1>1, <1>2, <1>4, <1>8, <2>1 DEF Gapless
  <2> QED BY <2>2, <2>3 DEF Gapless
<1> QED BY <1>1, <1>5, <1>6, <1>7, <1>8 DEF Flow, S1

(* discard_pending_context *)
LEMMA FlowDiscard ==
  ASSUME NEW q \in Seq(Sendable), NEW ctl \in Seq(Sendable), NEW mot \in SUBSET MotionFrame,
         NEW s \in SenderState, NEW r \in ReceiverState, NEW p, NEW h, NEW last \in Nat,
         NEW runs, NEW before \in Nat, before <= r.highest, r.act # before => before < r.highest \/ r.act = 0,
         Flow(q, ctl, mot, s, r, p, h, last, runs)
  PROVE  Flow(Discard(q, before, r.act), ctl, mot, s, r, p, h, last, runs)
<1>1. CASE ~(before # 0 /\ r.act # before)
  BY <1>1 DEF Discard
<1>2. CASE before # 0 /\ r.act # before
  <2> DEFINE q1 == Retain(q, before)
  <2>1. /\ Discard(q, before, r.act) = q1
        /\ In(q1) = {n \in In(q) : n.act # before} /\ (Sorted(q) => Sorted(q1))
    BY <1>2, RetainKeeps DEF Discard
  <2> HIDE DEF q1
  <2>2. \A n \in In(q) \cup In(ctl) : Live(r, n.act) => n \in In(q1) \cup In(ctl)
    BY <1>2, <2>1, ReceiverFields DEF Live
  <2>3. /\ In(q1) \subseteq In(q) /\ Sorted(q1) /\ Sorted(ctl) /\ In(ctl) \subseteq In(ctl)
        /\ r = r \/ Shut(r, r)
    BY <2>1 DEF Flow
  <2>4. Flow(q1, ctl, mot, s, r, p, h, last, runs)
    BY <2>2, <2>3, FlowDrop
  <2> QED BY <2>1, <2>4
<1> QED BY <1>1, <1>2

(* A control reaches the sink's queue. *)
LEMMA FlowRecv ==
  ASSUME NEW q \in Seq(Sendable), NEW ctl \in Seq(Sendable), ctl # <<>>, NEW mot, NEW s, NEW r,
         NEW p, NEW h, NEW last, NEW runs, Flow(q, ctl, mot, s, r, p, h, last, runs)
  PROVE  Flow(Append(q, Head(ctl)), Tail(ctl), mot, s, r, p, h, last, runs)
<1> DEFINE c == Head(ctl)
           q1 == Append(q, c)
           ctl1 == Tail(ctl)
<1>1. In(ctl) = {c} \cup In(ctl1) /\ c \in Sendable /\ ctl1 \in Seq(Sendable)
  BY InTail
<1>2. In(q1) = In(q) \cup {c}
  BY <1>1, InAppend
<1>3. Sorted(q) /\ Sorted(ctl) /\ AllBefore(In(q), In(ctl))
  BY DEF Flow
<1>4. Sorted(ctl1) /\ AllBefore({c}, In(ctl1))
  BY <1>3, SortedTail
<1> HIDE DEF c, ctl1
<1>5. Sorted(q1) /\ AllBefore(In(q) \cup {c}, In(ctl1))
  <2>1. AllBefore(In(q), {c})
    BY <1>1, <1>3 DEF AllBefore
  <2> QED BY <1>1, <1>3, <1>4, <2>1, SortedAppend DEF AllBefore
<1> HIDE DEF q1
<1>6. In(q1) \cup In(ctl1) = In(q) \cup In(ctl)
  BY <1>1, <1>2
<1>7. Flow(q1, ctl1, mot, s, r, p, h, last, runs)
  BY <1>2, <1>4, <1>5, <1>6 DEF Flow
<1> QED BY <1>7 DEF q1, ctl1, c

(* While no activation is open, playout and the last control do not matter. *)
LEMMA FlowClosed ==
  ASSUME NEW q, NEW ctl, NEW mot, NEW s, NEW r, NEW p, NEW p1, NEW h, NEW h1, NEW last,
         NEW runs, NEW runs1, r.act = 0, runs1 => runs,
         \A f \in p1.queue : f \in mot /\ f.act = p1.act /\ f.seq > p1.seq,
         Flow(q, ctl, mot, s, r, p, h, last, runs)
  PROVE  Flow(q, ctl, mot, s, r, p1, h1, last, runs1)
BY DEF Flow, Chain, Motions, Played, Touched

-----------------------------------------------------------------------------
(* What playout plays *)

(* Playout may move on, up to what the anchors to come allow. *)
LEMMA FlowPlay ==
  ASSUME NEW q, NEW ctl, NEW mot \in SUBSET MotionFrame, NEW s, NEW r, NEW p \in PlayoutState,
         NEW p1 \in PlayoutState, NEW h, NEW last, NEW runs, NEW runs1,
         p1.act = p.act, p1.mark = p.mark, p1.seq >= p.seq,
         \A f \in p1.queue : f \in mot /\ f.act = p1.act /\ f.seq > p1.seq,
         runs1 => runs, r.inj \in Nat,
         runs1 /\ r.act # 0 /\ p.act = r.act /\ p.mark = r.ctl =>
           /\ \A m \in In(q) \cup In(ctl) : HasAnchor(m) /\ m.act = r.act => p1.seq <= m.anchor.through
           /\ r.act = s.act => p1.seq <= s.mot,
         Flow(q, ctl, mot, s, r, p, h, last, runs)
  PROVE  Flow(q, ctl, mot, s, r, p1, h, last, runs1)
<1> DEFINE S == In(q) \cup In(ctl)
<1>1. /\ Sorted(q) /\ Sorted(ctl) /\ AllBefore(In(q), In(ctl)) /\ Order(S, s, r, last)
      /\ Chain(S, s, r, h) /\ Motions(S, mot, s, p, last) /\ Touching(S, mot)
      /\ runs => Gapless(S, s, r) /\ Played(S, s, r, p) /\ Touched(mot, r, p, h)
  BY DEF Flow
<1>2. p.seq \in Nat /\ p1.seq \in Nat
  BY PlayoutFields
<1>3. runs1 /\ r.act # 0 /\ p.act = r.act /\ p.mark = r.ctl =>
        /\ \A m \in S : HasAnchor(m) /\ m.act = r.act => p1.seq <= m.anchor.through
        /\ r.act = s.act => p1.seq <= s.mot
  OBVIOUS
<1> HIDE DEF S
<1>4. Motions(S, mot, s, p1, last)
  BY <1>1 DEF Motions
<1>5. runs1 => Played(S, s, r, p1)
  BY <1>1, <1>2, <1>3 DEF Played
<1>6. Touched(mot, r, p, h) => Touched(mot, r, p1, h)
  <2>1. \A f \in mot : f.seq \in Nat /\ (f.seq > p1.seq => f.seq > p.seq)
    BY <1>2, FrameFields
  <2> QED BY <2>1 DEF Touched
<1> QED BY <1>1, <1>4, <1>5, <1>6 DEF Flow, S

(* A selected frame was sent before every anchor to come. *)
LEMMA FlowSelect ==
  ASSUME NEW q \in Seq(Sendable), NEW ctl \in Seq(Sendable), NEW mot \in SUBSET MotionFrame,
         NEW s, NEW r \in ReceiverState, NEW p \in PlayoutState, NEW h, NEW last, NEW runs,
         NEW f \in Eligible(p), Flow(q, ctl, mot, s, r, p, h, last, runs)
  PROVE  Flow(q, ctl, mot, s, r, Select(p, f), h, last, runs)
<1> DEFINE S == In(q) \cup In(ctl)
           p1 == Select(p, f)
<1>1. p1 \in PlayoutState /\ f \in MotionFrame
  BY PlayoutTypes
<1>2. /\ p1.act = p.act /\ p1.mark = p.mark /\ p1.seq = f.seq
      /\ p1.queue = {g \in p.queue : g.seq > f.seq}
  BY DEF Select, PlayoutState
<1>3. Order(S, s, r, last) /\ Motions(S, mot, s, p, last)
  BY DEF Flow
<1>4. f \in p.queue /\ f.mark <= p.mark
  BY DEF Eligible
<1>5. f \in mot /\ f.act = p.act /\ f.seq > p.seq /\ f.seq \in Nat /\ p.seq \in Nat
  BY <1>1, <1>3, <1>4, FrameFields, PlayoutFields DEF Motions
<1>6. \A g \in p1.queue : g \in mot /\ g.act = p1.act /\ g.seq > p1.seq
  BY <1>2, <1>3 DEF Motions
<1>7. r.act # 0 /\ p.act = r.act /\ p.mark = r.ctl =>
        /\ \A m \in S : HasAnchor(m) /\ m.act = r.act => f.seq <= m.anchor.through
        /\ r.act = s.act => f.seq <= s.mot
  <2>1. ASSUME NEW m \in S, HasAnchor(m), r.act # 0, m.act = r.act, p.act = r.act, p.mark = r.ctl
        PROVE  f.seq <= m.anchor.through
    <3>1. m.seq > r.ctl /\ m.seq \in Nat /\ r.ctl \in Nat /\ f.mark \in Nat
      BY <1>1, <1>3, <2>1, InType, SendableFields, ReceiverFields, FrameFields DEF Order, Ahead
    <3>2. f.mark < m.seq
      BY <1>4, <2>1, <3>1
    <3> QED BY <1>3, <1>5, <2>1, <3>2 DEF Motions
  <2> QED BY <1>3, <1>5, <2>1 DEF Motions
<1> HIDE DEF p1, S
<1>8. p1.seq >= p.seq
  BY <1>2, <1>5
<1>9. r.inj \in Nat
  BY ReceiverFields
<1>10. runs /\ r.act # 0 /\ p.act = r.act /\ p.mark = r.ctl =>
         /\ \A m \in In(q) \cup In(ctl) : HasAnchor(m) /\ m.act = r.act => p1.seq <= m.anchor.through
         /\ r.act = s.act => p1.seq <= s.mot
  BY <1>2, <1>7 DEF S
<1>11. Flow(q, ctl, mot, s, r, p1, h, last, runs)
  BY <1>1, <1>2, <1>6, <1>8, <1>9, <1>10, FlowPlay
<1> QED BY <1>11 DEF p1

(* A step of playout that the receiver took. *)
LEMMA FlowMoved ==
  ASSUME NEW q, NEW ctl, NEW mot, NEW s, NEW r, NEW r1, NEW p, NEW h, NEW last, NEW runs,
         r1.act = r.act, r1.ctl = r.ctl, r1.highest = r.highest, Same(r1.held, r.held),
         r1.inj \in {r.inj, p.seq}, p.seq \in Nat,
         Flow(q, ctl, mot, s, r, p, h, last, runs)
  PROVE  Flow(q, ctl, mot, s, r1, p, h, last, runs)
<1> DEFINE S == In(q) \cup In(ctl)
<1> HIDE DEF S
<1>1. Order(S, s, r, last) => Order(S, s, r1, last)
  BY DEF Order, Ahead
<1>2. Chain(S, s, r, h) => Chain(S, s, r1, h)
  BY SameFacts DEF Chain
<1>3. Gapless(S, s, r) => Gapless(S, s, r1)
  BY DEF Gapless, Live, Known
<1>4. Played(S, s, r, p) => Played(S, s, r1, p)
  BY DEF Played
<1>5. Touched(mot, r, p, h) => Touched(mot, r1, p, h)
  BY DEF Touched
<1> QED BY <1>1, <1>2, <1>3, <1>4, <1>5 DEF Flow, S

-----------------------------------------------------------------------------
(* The control at the head of the sink's queue *)

(* It is of an activation that is over, it begins a new one, or it is the next  *)
(* of the one that is open: nothing else ever gets there.                       *)
IsFirst(r, m) == m.act > r.highest /\ m.kind = "Enter" /\ m.seq = 1

IsNext(r, m, p, h) ==
  /\ r.act # 0 /\ m.act = r.act /\ m.seq = r.ctl + 1
  /\ Same(r.held, h) /\ Follows(h, m)
  /\ p.act = r.act /\ p.mark = r.ctl /\ r.inj <= p.seq
  /\ HasAnchor(m) => p.seq <= m.anchor.through

LEMMA HeadFits ==
  ASSUME NEW q \in Seq(Sendable), q # <<>>, NEW ctl \in Seq(Sendable), NEW mot, NEW s,
         NEW r \in ReceiverState, NEW x, x = r \/ Shut(r, x), NEW p, NEW h, NEW last,
         Flow(q, ctl, mot, s, r, p, h, last, TRUE)
  PROVE  \/ IsClosed(x, Head(q).act)
         \/ IsFirst(x, Head(q))
         \/ x = r /\ IsNext(r, Head(q), p, h)
<1> DEFINE S == In(q) \cup In(ctl)
           m == Head(q)
<1>1. /\ Sorted(q) /\ AllBefore(In(q), In(ctl)) /\ Order(S, s, r, last)
      /\ Chain(S, s, r, h) /\ Gapless(S, s, r) /\ Played(S, s, r, p)
  BY DEF Flow
<1>2. m \in Sendable /\ m \in S /\ In(q) = {m} \cup In(Tail(q))
  BY InTail
<1>3. \A n \in S : n \in Sendable /\ (n = m \/ Before(m, n))
  <2>1. In(q) \subseteq Sendable /\ In(ctl) \subseteq Sendable
    BY InType
  <2>2. AllBefore({m}, In(Tail(q)))
    BY <1>1, SortedTail
  <2> QED BY <1>1, <1>2, <2>1, <2>2 DEF AllBefore
<1> HIDE DEF S, m
<1>4. /\ m.act \in Nat /\ m.seq \in Nat /\ m.act > 0 /\ m.seq > 0
      /\ \A n \in S : n.act \in Nat /\ n.seq \in Nat
  BY <1>2, <1>3, SendableFields
<1>5. r.act \in Nat /\ r.ctl \in Nat /\ r.highest \in Nat /\ r.act <= r.highest
  BY <1>1, ReceiverFields DEF Order
<1>6. m.seq > 1 /\ Live(r, m.act) => r.act = m.act /\ r.ctl = m.seq - 1
  <2> SUFFICES ASSUME m.seq > 1, Live(r, m.act) PROVE r.act = m.act /\ r.ctl = m.seq - 1
    OBVIOUS
  <2>1. Known(S, r, m.act, m.seq - 1)
    BY <1>1, <1>2 DEF Gapless
  <2>2. \A n \in S : ~(n.act = m.act /\ n.seq = m.seq - 1)
    BY <1>3, <1>4 DEF Before
  <2> QED BY <2>1, <2>2 DEF Known
<1>7. CASE m.act > x.highest
  <2>1. m.act > r.highest
    BY <1>7 DEF Shut
  <2>2. m.seq = 1
    BY <1>4, <1>5, <1>6, <2>1 DEF Live
  <2>3. m.kind = "Enter"
    BY <1>2, <2>2 DEF Sendable
  <2> QED BY <1>7, <2>2, <2>3 DEF IsFirst, m
<1>8. CASE ~(m.act > x.highest) /\ x.act # m.act
  BY <1>4, <1>5, <1>8 DEF IsClosed, Shut, m
<1>9. CASE ~(m.act > x.highest) /\ x.act = m.act
  <2>1. x = r /\ r.act = m.act /\ r.act # 0
    BY <1>4, <1>9 DEF Shut
  <2>2. m.seq > r.ctl /\ r.ctl > 0
    BY <1>1, <1>2, <1>4, <1>5, <2>1 DEF Order, Ahead
  <2>3. m.seq = r.ctl + 1
    BY <1>4, <1>5, <1>6, <2>1, <2>2 DEF Live
  <2>4. Same(r.held, h) /\ Follows(h, m)
    BY <1>1, <1>2, <2>1, <2>3 DEF Chain
  <2>5. /\ p.act = r.act /\ p.mark = r.ctl /\ r.inj <= p.seq
        /\ HasAnchor(m) => p.seq <= m.anchor.through
    BY <1>1, <1>2, <2>1 DEF Played
  <2> QED BY <2>1, <2>3, <2>4, <2>5 DEF IsNext, m
<1> QED BY <1>7, <1>8, <1>9

(* A control that is not live any more is taken off the queue. *)
LEMMA FlowPop ==
  ASSUME NEW q \in Seq(Sendable), q # <<>>, NEW ctl \in Seq(Sendable),
         NEW mot \in SUBSET MotionFrame, NEW s \in SenderState, NEW r \in ReceiverState, NEW r1,
         NEW p, NEW h, NEW last \in Nat, NEW runs, r1 = r \/ Shut(r, r1),
         ~Live(r1, Head(q).act), Flow(q, ctl, mot, s, r, p, h, last, runs)
  PROVE  Flow(Tail(q), ctl, mot, s, r1, p, h, last, runs)
<1> DEFINE m == Head(q)
           q1 == Tail(q)
<1>1. In(q) = {m} \cup In(q1) /\ Sorted(q1) /\ Sorted(ctl)
  BY InTail, SortedTail DEF Flow
<1>2. ~Live(r1, m.act)
  OBVIOUS
<1> HIDE DEF m, q1
<1>3. /\ In(q1) \subseteq In(q) /\ In(ctl) \subseteq In(ctl)
      /\ \A n \in In(q) \cup In(ctl) : Live(r1, n.act) => n \in In(q1) \cup In(ctl)
  BY <1>1, <1>2
<1>4. Flow(q1, ctl, mot, s, r1, p, h, last, runs)
  BY <1>1, <1>3, FlowDrop
<1> QED BY <1>4 DEF q1

(* A control m is taken off the queue and applied. *)
LEMMA FlowApplied ==
  ASSUME NEW q \in Seq(Sendable), q # <<>>, NEW ctl \in Seq(Sendable),
         NEW mot \in SUBSET MotionFrame, NEW s \in SenderState, NEW r \in ReceiverState,
         NEW r1 \in ReceiverState, NEW p, NEW p1, NEW h, NEW last \in Nat, NEW runs1,
         NEW m, m = Head(q), m.act >= r.highest, r.act = m.act => m.seq = r.ctl + 1,
         r1.act = m.act, r1.highest = m.act, r1.ctl = m.seq, Same(r1.held, m.after.held),
         \A f \in p1.queue : f \in mot /\ f.act = p1.act /\ f.seq > p1.seq,
         runs1 =>
           /\ p1.act = m.act /\ p1.mark = m.seq /\ r1.inj <= p1.seq
           /\ \A n \in In(Tail(q)) \cup In(ctl) : HasAnchor(n) /\ n.act = m.act /\ n.seq > m.seq
                                                   => p1.seq <= n.anchor.through
           /\ m.act = s.act => p1.seq <= s.mot
           /\ \A f \in mot : f.act = m.act /\ f.mark < m.seq /\ f.seq > p1.seq /\ f.touch # NoTouch
                               => m.after.held.touch # NoTouch,
         r.act # m.act => m.act > r.highest,
         Flow(q, ctl, mot, s, r, p, h, last, TRUE)
  PROVE  Flow(Tail(q), ctl, mot, s, r1, p1, m.after.held, last, runs1)
<1> DEFINE S == In(q) \cup In(ctl)
           q1 == Tail(q)
           S1 == In(q1) \cup In(ctl)
<1>1. /\ Sorted(q) /\ Sorted(ctl) /\ AllBefore(In(q), In(ctl)) /\ Order(S, s, r, last)
      /\ Chain(S, s, r, h) /\ Motions(S, mot, s, p, last) /\ Touching(S, mot)
      /\ Gapless(S, s, r)
  BY DEF Flow
<1>2. /\ m \in Sendable /\ m \in S /\ In(q) = {m} \cup In(q1) /\ S1 \subseteq S
      /\ S = {m} \cup S1
  BY InTail
<1>3. Sorted(q1) /\ AllBefore(In(q1), In(ctl)) /\ \A n \in S1 : Before(m, n) /\ n \in Sendable
  <2>1. In(q) \subseteq Sendable /\ In(ctl) \subseteq Sendable
    BY InType
  <2>2. Sorted(q1) /\ AllBefore({m}, In(q1))
    BY <1>1, SortedTail
  <2> QED BY <1>1, <1>2, <2>1, <2>2 DEF AllBefore
<1>4. runs1 =>
        /\ p1.act = m.act /\ p1.mark = m.seq /\ r1.inj <= p1.seq
        /\ \A n \in S1 : HasAnchor(n) /\ n.act = m.act /\ n.seq > m.seq
                           => p1.seq <= n.anchor.through
        /\ m.act = s.act => p1.seq <= s.mot
        /\ \A f \in mot : f.act = m.act /\ f.mark < m.seq /\ f.seq > p1.seq /\ f.touch # NoTouch
                            => m.after.held.touch # NoTouch
  OBVIOUS
<1> HIDE DEF S, q1, S1
<1>5. /\ m.act \in Nat /\ m.seq \in Nat /\ m.act > 0 /\ m.seq > 0
      /\ \A n \in S1 : n.act \in Nat /\ n.seq \in Nat /\ n.act >= m.act /\ n # m
                         /\ (n.act = m.act => n.seq > m.seq)
  BY <1>2, <1>3, SendableFields DEF Before
<1>6. r.act \in Nat /\ r.ctl \in Nat /\ r.highest \in Nat /\ r.act <= r.highest
  BY <1>1, ReceiverFields DEF Order
<1>7. Order(S1, s, r1, last)
  <2>1. m.act <= last /\ (m.act = s.act => m.seq <= s.ctl)
    BY <1>1, <1>2 DEF Order
  <2>2. \A n \in S1 : Ahead(r1, n)
    BY <1>5 DEF Ahead
  <2> QED BY <1>1, <1>2, <1>5, <2>1, <2>2 DEF Order
<1>8. Chain(S1, s, r1, m.after.held)
  BY <1>1, <1>2 DEF Chain
<1>9. Motions(S1, mot, s, p1, last) /\ Touching(S1, mot)
  BY <1>1, <1>2 DEF Motions, Touching
<1>10. Gapless(S1, s, r1)
  <2>1. ASSUME NEW a \in Nat, NEW n, Live(r1, a), Known(S, r, a, n),
               ~(r.act = m.act /\ a = m.act /\ n = r.ctl)
        PROVE  Known(S1, r1, a, n)
    <3>1. CASE \E k \in S : k.act = a /\ k.seq = n
      BY <1>2, <3>1 DEF Known
    <3>2. CASE r.act = a /\ r.ctl = n
      BY <1>5, <1>6, <2>1, <3>2 DEF Live
    <3> QED BY <2>1, <3>1, <3>2 DEF Known
  <2>2. \A a \in Nat : Live(r1, a) => Live(r, a)
    BY <1>5, <1>6 DEF Live
  <2>3. ASSUME NEW n \in S1, Live(r1, n.act), n.seq > 1
        PROVE  Known(S1, r1, n.act, n.seq - 1)
    <3>1. Known(S, r, n.act, n.seq - 1)
      BY <1>1, <1>2, <1>5, <2>2, <2>3 DEF Gapless
    <3>2. ~(r.act = m.act /\ n.act = m.act /\ n.seq - 1 = r.ctl)
      BY <1>5, <1>6
    <3> QED BY <1>5, <2>1, <2>3, <3>1, <3>2
  <2>4. ASSUME s.act # 0, Live(r1, s.act)
        PROVE  Known(S1, r1, s.act, s.ctl)
    <3>1. s.act \in Nat /\ s.ctl \in Nat
      BY SenderFields
    <3>2. Known(S, r, s.act, s.ctl)
      BY <1>1, <2>2, <2>4, <3>1 DEF Gapless
    <3>3. ~(r.act = m.act /\ s.act = m.act /\ s.ctl = r.ctl)
      BY <1>1, <1>2, <1>5, <1>6, <3>1 DEF Order
    <3> QED BY <2>1, <2>4, <3>1, <3>2, <3>3
  <2> QED BY <2>3, <2>4 DEF Gapless
<1>11. runs1 => Played(S1, s, r1, p1)
  BY <1>4, <1>5 DEF Played
<1>12. runs1 => Touched(mot, r1, p1, m.after.held)
  <2> SUFFICES ASSUME runs1, NEW f \in mot, f.act = m.act, f.mark <= m.seq, f.seq > p1.seq,
                      f.touch # NoTouch
               PROVE  m.after.held.touch # NoTouch
    BY DEF Touched
  <2>1. f.mark \in Nat
    BY FrameFields
  <2>2. CASE f.mark = m.seq
    BY <1>1, <1>2, <2>2 DEF Touching
  <2>3. CASE f.mark < m.seq
    BY <1>4, <2>3
  <2> QED BY <1>5, <2>1, <2>2, <2>3
<1> QED BY <1>1, <1>3, <1>7, <1>8, <1>9, <1>10, <1>11, <1>12 DEF Flow, S1, q1

(* The next control of the open activation. *)
LEMMA FlowNext ==
  ASSUME NEW q \in Seq(Sendable), q # <<>>, NEW ctl \in Seq(Sendable),
         NEW mot \in SUBSET MotionFrame, NEW s \in SenderState, NEW r \in ReceiverState,
         NEW r1 \in ReceiverState, NEW p \in PlayoutState, NEW p1, NEW h \in HeldState,
         NEW last \in Nat, NEW runs1, NEW m, m = Head(q), IsNext(r, m, p, h),
         r1.act = m.act, r1.highest = r.highest, r1.ctl = m.seq, Same(r1.held, m.after.held),
         r1.inj = IF HasAnchor(m) THEN m.anchor.through ELSE r.inj,
         \A f \in p1.queue : f \in mot /\ f.act = p1.act /\ f.seq > p1.seq,
         runs1 => /\ p1.act = p.act /\ p1.mark = m.seq
                  /\ p1.seq = IF HasAnchor(m) THEN m.anchor.through ELSE p.seq,
         Flow(q, ctl, mot, s, r, p, h, last, TRUE)
  PROVE  Flow(Tail(q), ctl, mot, s, r1, p1, m.after.held, last, runs1)
<1> DEFINE S == In(q) \cup In(ctl)
           q1 == Tail(q)
           S1 == In(q1) \cup In(ctl)
<1>1. /\ Order(S, s, r, last) /\ Motions(S, mot, s, p, last)
      /\ Played(S, s, r, p) /\ Touched(mot, r, p, h)
  BY DEF Flow
<1>2. m \in Sendable /\ m \in S /\ S1 \subseteq S
  BY InTail
<1> HIDE DEF S, q1, S1
<1>3. /\ r.act # 0 /\ m.act = r.act /\ m.seq = r.ctl + 1 /\ Follows(h, m)
      /\ p.act = r.act /\ r.inj <= p.seq
  BY DEF IsNext
<1>4. /\ r.act \in Nat /\ r.ctl \in Nat /\ r.highest \in Nat /\ r.inj \in Nat
      /\ p.seq \in Nat /\ m.act \in Nat /\ m.seq \in Nat
      /\ HasAnchor(m) => m.anchor.through \in Nat
  BY <1>2, ReceiverFields, PlayoutFields, SendableFields
<1>5. r.highest = m.act
  BY <1>1, <1>3, <1>4 DEF Order
<1>6. runs1 =>
        /\ p1.act = m.act /\ p1.mark = m.seq /\ r1.inj <= p1.seq
        /\ m.act = s.act => p1.seq <= s.mot
  <2>1. m.act = s.act => p.seq <= s.mot
    BY <1>1, <1>3 DEF Played
  <2>2. m.act = s.act /\ HasAnchor(m) => m.anchor.through <= s.mot
    BY <1>1, <1>2 DEF Motions
  <2>3. HasAnchor(m) => m.anchor.through >= m.anchor.through
    BY <1>4
  <2> QED BY <1>3, <2>1, <2>2, <2>3
<1>7. runs1 => \A n \in S1 : HasAnchor(n) /\ n.act = m.act /\ n.seq > m.seq
                               => p1.seq <= n.anchor.through
  <2> SUFFICES ASSUME runs1, NEW n \in S1, HasAnchor(n), n.act = m.act, n.seq > m.seq
               PROVE  p1.seq <= n.anchor.through
    OBVIOUS
  <2>0. n \in S /\ n.seq \in Nat
    <3>1. In(q) \subseteq Sendable /\ In(ctl) \subseteq Sendable
      BY InType
    <3> QED BY <1>2, <3>1, SendableFields DEF S
  <2>1. CASE HasAnchor(m)
    <3>1. m.seq < n.seq
      BY <1>4, <2>0
    <3> QED BY <1>1, <1>2, <2>0, <2>1, <3>1 DEF Motions
  <2>2. CASE ~HasAnchor(m)
    BY <1>1, <1>3, <2>0, <2>2 DEF Played
  <2> QED BY <2>1, <2>2
<1>8. runs1 => \A f \in mot : f.act = m.act /\ f.mark < m.seq /\ f.seq > p1.seq /\ f.touch # NoTouch
                                => m.after.held.touch # NoTouch
  <2> SUFFICES ASSUME runs1, NEW f \in mot, f.act = m.act, f.mark < m.seq, f.seq > p1.seq,
                      f.touch # NoTouch
               PROVE  m.after.held.touch # NoTouch
    OBVIOUS
  <2>0. f.mark \in Nat /\ f.seq \in Nat
    BY FrameFields
  <2>1. CASE HasAnchor(m)
    <3>1. f.seq <= m.anchor.through /\ p1.seq = m.anchor.through
      BY <1>1, <1>2, <2>1 DEF Motions
    <3> QED BY <1>4, <2>0, <2>1, <3>1
  <2>2. CASE ~HasAnchor(m)
    <3>1. f.mark <= r.ctl /\ f.seq > p.seq
      BY <1>3, <1>4, <2>0, <2>2
    <3>2. h.touch # NoTouch
      BY <1>1, <1>3, <3>1 DEF Touched
    <3>3. m.kind # "TouchEnd"
      BY <1>2, <2>2 DEF Sendable
    <3> QED BY <1>2, <1>3, <3>2, <3>3, FollowsTouch
  <2> QED BY <2>1, <2>2
<1>9. /\ m.act >= r.highest /\ (r.act = m.act => m.seq = r.ctl + 1) /\ r1.highest = m.act
      /\ r.act # m.act => m.act > r.highest
  BY <1>3, <1>4, <1>5
<1>10. runs1 =>
         /\ p1.act = m.act /\ p1.mark = m.seq /\ r1.inj <= p1.seq
         /\ \A n \in In(Tail(q)) \cup In(ctl) : HasAnchor(n) /\ n.act = m.act /\ n.seq > m.seq
                                                 => p1.seq <= n.anchor.through
         /\ m.act = s.act => p1.seq <= s.mot
         /\ \A f \in mot : f.act = m.act /\ f.mark < m.seq /\ f.seq > p1.seq /\ f.touch # NoTouch
                             => m.after.held.touch # NoTouch
  BY <1>6, <1>7, <1>8 DEF S1, q1
<1> QED BY <1>9, <1>10, FlowApplied

(* The first control of a later activation. *)
LEMMA FlowFirst ==
  ASSUME NEW q \in Seq(Sendable), q # <<>>, NEW ctl \in Seq(Sendable),
         NEW mot \in SUBSET MotionFrame, NEW s \in SenderState, NEW r \in ReceiverState,
         NEW r1 \in ReceiverState, NEW p, NEW p1, NEW h, NEW last \in Nat,
         NEW m, m = Head(q), IsFirst(r, m),
         r1.act = m.act, r1.highest = m.act, r1.ctl = 1, r1.held = Neutral, r1.inj = 0,
         p1.queue = {}, p1.act = m.act, p1.mark = 1, p1.seq = 0,
         Flow(q, ctl, mot, s, r, p, h, last, TRUE)
  PROVE  Flow(Tail(q), ctl, mot, s, r1, p1, m.after.held, last, TRUE)
<1>1. /\ \A f \in mot : f.mark > 0 /\ f.mark \in Nat
      /\ Order(In(q) \cup In(ctl), s, r, last)
  BY FrameFields DEF Flow, Motions
<1>2. m \in Sendable /\ m.seq = 1 /\ m.act > r.highest /\ m.kind = "Enter"
  BY InTail DEF IsFirst
<1>3. m.act \in Nat /\ r.act \in Nat /\ r.highest \in Nat /\ r.act <= r.highest /\ s.mot \in Nat
  BY <1>1, <1>2, SendableFields, ReceiverFields, SenderFields DEF Order
<1>4. Same(r1.held, m.after.held)
  BY <1>2, SameFacts DEF Sendable
<1>5. /\ m.act >= r.highest /\ r.act # m.act
      /\ r1.ctl = m.seq /\ p1.mark = m.seq /\ r1.inj <= p1.seq /\ p1.seq <= s.mot
  BY <1>2, <1>3
<1>6. \A n \in In(Tail(q)) \cup In(ctl) : HasAnchor(n) => p1.seq <= n.anchor.through
  <2>1. In(Tail(q)) \subseteq Sendable /\ In(ctl) \subseteq Sendable
    BY InTail, InType
  <2> QED BY <2>1, SendableFields
<1>7. \A f \in mot : ~(f.mark < m.seq)
  BY <1>1, <1>2
<1> QED BY <1>2, <1>4, <1>5, <1>6, <1>7, FlowApplied

-----------------------------------------------------------------------------
(* What the receiver does with a control *)

LEMMA Expires ==
  ASSUME NEW r \in ReceiverState, NEW t \in Nat
  PROVE  LET o == ExpireLease(r, t)
         IN  /\ o \in Outcome
             /\ o.r = r \/ Shut(r, o.r)
             /\ o.e.ack = 0 /\ o.e.opened = 0 /\ o.e.rejected = "none"
             /\ o.e.reason \in {"none", "LeaseExpired"}
<1> DEFINE c == CloseActivation(Start(r), "LeaseExpired")
<1>1. /\ Start(r).r = r /\ Start(r).e.ack = 0 /\ Start(r).e.opened = 0
      /\ Start(r).e.rejected = "none" /\ Start(r).e.reason = "none"
      /\ Start(r).e \in Effects
  BY StartType, OutcomeFields DEF Start, NoEffects
<1>2. /\ c.r = r \/ Shut(r, c.r)
      /\ c.e.ack = 0 /\ c.e.opened = 0 /\ c.e.rejected = "none"
      /\ c.e.reason \in {"none", "LeaseExpired"}
  BY <1>1 DEF CloseActivation, NewReceiver, Shut, Effects
<1> HIDE DEF c
<1>3. ExpireLease(r, t) \in {c, Start(r)}
  BY DEF ExpireLease, c
<1>4. ExpireLease(r, t) \in Outcome
  BY ExpireType
<1> QED BY <1>1, <1>2, <1>3, <1>4

(* What a rejection or a close keep of the outcome they are given. *)
LEMMA Rejects ==
  ASSUME NEW o \in Outcome, NEW why
  PROVE  /\ Reject(o, why).r = o.r /\ Reject(o, why).e.rejected = why
         /\ Reject(o, why).e.ack = o.e.ack /\ Reject(o, why).e.opened = o.e.opened
         /\ Reject(o, why).e.reason = o.e.reason
BY DEF Reject, Outcome, Effects

LEMMA Closes ==
  ASSUME NEW o \in Outcome, NEW why
  PROVE  LET c == CloseActivation(o, why)
         IN  /\ c.r.act = 0 /\ (o.r.act # 0 => Shut(o.r, c.r)) /\ (o.r.act = 0 => c = o)
             /\ c.e.ack = o.e.ack /\ c.e.opened = o.e.opened
             /\ c.e.rejected = o.e.rejected
             /\ c.e.reason \in {o.e.reason, why}
BY DEF CloseActivation, Outcome, Effects, NewReceiver, Shut, ReceiverState

(* Nothing of it is acknowledged, and a peer is never found in violation. *)
Calm(e) ==
  /\ e.ack = 0
  /\ e.reason \in {"none", "LeaseExpired", "Superseded", "LocalRelease", "MotionOverflow"}

LEMMA ControlStale ==
  ASSUME NEW r \in ReceiverState, NEW m \in Sendable, NEW t \in Nat,
         IsClosed(ExpireLease(r, t).r, m.act)
  PROVE  LET o == ReceiveControl(r, m, t)
         IN  /\ o.r = ExpireLease(r, t).r /\ o.e.rejected = "ClosedActivation"
             /\ o.e.opened = 0 /\ Calm(o.e)
<1> DEFINE x == ExpireLease(r, t)
<1>1. ReceiveControl(r, m, t) = Reject(x, "ClosedActivation")
  BY DEF ReceiveControl, ReceiveEnter, Rejection
<1>2. /\ x \in Outcome /\ x.e.ack = 0 /\ x.e.opened = 0
      /\ x.e.reason \in {"none", "LeaseExpired"}
  BY Expires
<1> HIDE DEF x
<1>3. LET o == Reject(x, "ClosedActivation")
      IN  /\ o.r = x.r /\ o.e.rejected = "ClosedActivation" /\ o.e.opened = 0 /\ Calm(o.e)
  BY <1>2, Rejects DEF Calm
<1> QED BY <1>1, <1>3 DEF x

LEMMA ControlFirst ==
  ASSUME NEW r \in ReceiverState, NEW m \in Sendable, NEW t \in Nat,
         IsFirst(ExpireLease(r, t).r, m)
  PROVE  LET o == ReceiveControl(r, m, t)
         IN  /\ o.r.act = m.act /\ o.r.highest = m.act /\ o.r.ctl = 1 /\ o.r.held = Neutral
             /\ o.r.inj = 0
             /\ o.e.rejected = "none" /\ o.e.opened = m.act /\ Calm(o.e)
<1> DEFINE x == ExpireLease(r, t)
           c == CloseActivation(x, "Superseded")
           new == [NewReceiver EXCEPT !.highest = m.act, !.act = m.act, !.ctl = 1]
           e == [c.e EXCEPT !.opened = m.act, !.safe = FALSE]
<1>1. /\ x \in Outcome /\ x.e.ack = 0 /\ x.e.opened = 0 /\ x.e.rejected = "none"
      /\ x.e.reason \in {"none", "LeaseExpired"}
  BY Expires
<1>2. m.act > x.r.highest /\ m.kind = "Enter" /\ m.seq = 1
  BY DEF IsFirst
<1>3. m.act \in Nat /\ x.r.highest \in Nat
  BY <1>1, SendableFields, OutcomeFields, ReceiverFields
<1>4. ReceiveControl(r, m, t) = [r |-> new, e |-> e]
  <2>1. ReceiveControl(r, m, t) = ReceiveEnter(x, m)
    BY <1>2 DEF ReceiveControl
  <2>2. ~IsClosed(x.r, m.act) /\ ~(m.act <= x.r.highest)
    BY <1>2, <1>3 DEF IsClosed
  <2> QED BY <1>2, <2>1, <2>2 DEF ReceiveEnter
<1>5. /\ c.e.ack = 0 /\ c.e.rejected = "none" /\ c.e.reason \in {"none", "LeaseExpired", "Superseded"}
      /\ c \in Outcome
  <2> HIDE DEF x
  <2> QED BY <1>1, Closes, CloseType DEF CloseReasons
<1>6. /\ new.act = m.act /\ new.highest = m.act /\ new.ctl = 1 /\ new.held = Neutral
      /\ new.inj = 0
  BY DEF NewReceiver
<1>7. e.ack = c.e.ack /\ e.rejected = c.e.rejected /\ e.reason = c.e.reason /\ e.opened = m.act
  <2> HIDE DEF c
  <2> QED BY <1>5, OutcomeFields DEF Effects
<1> HIDE DEF new, e, c
<1> QED BY <1>4, <1>5, <1>6, <1>7 DEF Calm

(* The receiver's state after the anchor and the payload of a control that     *)
(* follows what it holds.                                                     *)
LEMMA AppliesFollowing ==
  ASSUME NEW r \in ReceiverState, NEW m \in Sendable, NEW t \in Nat, NEW h \in HeldState,
         Same(r.held, h), Follows(h, m)
  PROVE  LET a == IF HasAnchor(m) THEN ApplyAnchor(r, m.anchor) ELSE r
             u == ApplyPayload(a, m, t)
         IN  /\ a \in ReceiverState /\ u \in ReceiverState
             /\ u.act = r.act /\ u.highest = r.highest /\ u.ctl = m.seq
             /\ u.inj = IF HasAnchor(m) THEN m.anchor.through ELSE r.inj
             /\ Same(u.held, m.after.held)
<1> DEFINE a == IF HasAnchor(m) THEN ApplyAnchor(r, m.anchor) ELSE r
           held == CASE m.kind = "Press"         -> Press(a.held, m.member)
                     [] m.kind = "Release"       -> Release(a.held, m.member)
                     [] m.kind = "TouchBegin"    -> [a.held EXCEPT !.touch = m.held.touch]
                     [] m.kind = "TouchEnd"      -> [a.held EXCEPT !.touch = NoTouch]
                     [] m.kind = "StateSnapshot" -> m.held
                     [] OTHER                    -> a.held
           u == ApplyPayload(a, m, t)
           b == ApplyAnchor(r, m.anchor)
<1>1. /\ m \in ControlMessage /\ m.kind \in ControlKinds
      /\ m.kind \in {"Press", "Release"} => m.member \in Members
      /\ HasAnchor(m) => m.anchor \in Anchor /\ m.anchor.touch \in TouchStates
      /\ m.held \in HeldState /\ m.after.held \in HeldState
  BY SendableFields DEF Sendable, ControlMessage
<1>2. /\ b.act = r.act /\ b.highest = r.highest /\ b.inj = m.anchor.through
      /\ b.held = [r.held EXCEPT !.touch = m.anchor.touch]
  BY DEF ApplyAnchor, ReceiverState
<1>3. HasAnchor(m) => b \in ReceiverState
  BY <1>1, ApplyAnchorType
<1>4. HasAnchor(m) => Same(b.held, h)
  <2>1. HasAnchor(m) => (m.anchor.touch = NoTouch <=> h.touch = NoTouch)
    BY DEF Follows
  <2>2. /\ b.held.keys = r.held.keys /\ b.held.buttons = r.held.buttons
        /\ b.held.touch = m.anchor.touch
    BY <1>2, ReceiverFields DEF HeldState
  <2> HIDE DEF b
  <2> QED BY <2>1, <2>2 DEF Same
<1> HIDE DEF b
<1>5. /\ a \in ReceiverState /\ a.act = r.act /\ a.highest = r.highest
      /\ a.inj = IF HasAnchor(m) THEN m.anchor.through ELSE r.inj
      /\ Same(a.held, h)
  BY <1>2, <1>3, <1>4 DEF b
<1> HIDE DEF a
<1>6. a.held \in HeldState
  BY <1>5, ReceiverFields
<1>7. Same(held, m.after.held)
  <2>1. /\ Same(Press(a.held, m.member), Press(h, m.member))
        /\ Same(Release(a.held, m.member), Release(h, m.member))
    BY <1>5, <1>6, SameTransitions
  <2>2. ASSUME NEW k
        PROVE  Same([a.held EXCEPT !.touch = k], [h EXCEPT !.touch = k])
    BY <1>5, <1>6, SameTransitions
  <2>3. /\ m.kind # "Enter"
        /\ m.kind = "Press" => Same(m.after.held, Press(h, m.member))
        /\ m.kind = "Release" => Same(m.after.held, Release(h, m.member))
        /\ m.kind = "TouchBegin" => Same(m.after.held, [h EXCEPT !.touch = m.held.touch])
        /\ m.kind = "TouchEnd" => Same(m.after.held, [h EXCEPT !.touch = NoTouch])
        /\ m.kind = "SessionClose" => Same(m.after.held, h)
    BY DEF Follows
  <2>4. m.kind = "StateSnapshot" => m.held = m.after.held
    BY DEF Sendable
  <2>5. CASE m.kind = "Press"
    BY <2>1, <2>3, <2>5, SameFacts
  <2>6. CASE m.kind = "Release"
    BY <2>1, <2>3, <2>6, SameFacts
  <2>7. CASE m.kind = "TouchBegin"
    BY <2>2, <2>3, <2>7, SameFacts
  <2>8. CASE m.kind = "TouchEnd"
    BY <2>2, <2>3, <2>8, SameFacts
  <2>9. CASE m.kind = "StateSnapshot"
    BY <2>4, <2>9, SameFacts
  <2>10. CASE m.kind = "SessionClose"
    BY <1>5, <2>3, <2>10, SameFacts
  <2> QED BY <1>1, <2>3, <2>5, <2>6, <2>7, <2>8, <2>9, <2>10 DEF ControlKinds
<1>8. u = RefreshLease([a EXCEPT !.held = held, !.ctl = m.seq], t)
  BY DEF ApplyPayload
<1> HIDE DEF held
<1>9. /\ u.act = a.act /\ u.highest = a.highest /\ u.inj = a.inj /\ u.ctl = m.seq
      /\ u.held = held
  <2> HIDE DEF u
  <2> QED BY <1>5, <1>8 DEF RefreshLease, ReceiverState
<1>10. u \in ReceiverState
  BY <1>1, <1>5, PayloadType
<1> HIDE DEF u
<1> QED BY <1>5, <1>7, <1>9, <1>10 DEF a, u

LEMMA ControlNext ==
  ASSUME NEW r \in ReceiverState, NEW m \in Sendable, NEW t \in Nat, NEW p, NEW h \in HeldState,
         ExpireLease(r, t).r = r, IsNext(r, m, p, h), NEW pseq \in Nat, p.seq = pseq
  PROVE  LET o == ReceiveControl(r, m, t)
         IN  /\ o.e.rejected = "none" /\ o.e.opened = 0
             /\ \/ Shut(r, o.r) /\ Calm(o.e)
                \/ /\ o.r.act = r.act /\ o.r.highest = r.highest /\ o.r.ctl = m.seq
                   /\ o.r.inj = IF HasAnchor(m) THEN m.anchor.through ELSE r.inj
                   /\ Same(o.r.held, m.after.held)
                   /\ o.e.ack # 0 => m.kind = "StateSnapshot" /\ o.e.ack = m.seq
                   /\ o.e.reason \in {"none", "LeaseExpired"}
<1> DEFINE x == ExpireLease(r, t)
           why == Rejection(x.r, m)
           delta == IF HasAnchor(m) THEN m.anchor.totals - x.r.totals ELSE 0
           anchored == IF HasAnchor(m) THEN ApplyAnchor(x.r, m.anchor) ELSE x.r
           u == ApplyPayload(anchored, m, t)
           safe == delta = 0 /\ anchored.held.touch \in {NoTouch, x.r.held.touch}
           e == [x.e EXCEPT !.to = u.held, !.delta = delta,
                            !.ack = IF m.kind = "StateSnapshot" THEN m.seq ELSE 0,
                            !.safe = safe]
           last == [r |-> u, e |-> e]
<1>1. /\ x \in Outcome /\ x.r = r /\ x.e.ack = 0 /\ x.e.opened = 0 /\ x.e.rejected = "none"
      /\ x.e.reason \in {"none", "LeaseExpired"}
  BY Expires
<1>2. /\ r.act # 0 /\ m.act = r.act /\ m.seq = r.ctl + 1 /\ Same(r.held, h) /\ Follows(h, m)
      /\ r.inj <= p.seq /\ (HasAnchor(m) => p.seq <= m.anchor.through)
  BY DEF IsNext
<1>3. m.kind # "Enter"
  BY <1>2 DEF Follows
<1>4. why = "none"
  <2>1. ~IsClosed(r, m.act) /\ r.act # 0 /\ r.act = m.act
    BY <1>2 DEF IsClosed
  <2>2. ~(m.seq <= r.ctl) /\ m.seq = r.ctl + 1
    BY <1>2, ReceiverFields
  <2>3. ~(HasAnchor(m) /\ m.anchor.through < r.inj)
    BY <1>2, ReceiverFields, SendableFields
  <2>4. ValidTransition(r, m)
    <3>1. r.held \in HeldState
      BY ReceiverFields
    <3>2. Holds(r.held, m.member) <=> Holds(h, m.member)
      BY <1>2, <3>1, SameTransitions
    <3>3. r.held.touch = NoTouch <=> h.touch = NoTouch
      BY <1>2 DEF Same
    <3>4. /\ m.kind = "Press" => ~Holds(h, m.member)
          /\ m.kind = "Release" => Holds(h, m.member)
          /\ m.kind = "TouchBegin" => h.touch = NoTouch
          /\ m.kind = "TouchEnd" => h.touch # NoTouch
      BY <1>2 DEF Follows
    <3>5. /\ m.kind = "TouchBegin" => m.held.touch # NoTouch
          /\ m.kind = "StateSnapshot" => m.anchor.touch = m.held.touch
          /\ HasAnchor(m) =>
               m.anchor.kind = IF m.kind = "SessionClose" THEN "Terminal" ELSE "Checkpoint"
      BY DEF Sendable
    <3> QED BY <3>2, <3>3, <3>4, <3>5 DEF ValidTransition
  <2>5. Rejection(r, m) = "none"
    BY <2>1, <2>2, <2>3, <2>4 DEF Rejection
  <2> HIDE DEF x
  <2> QED BY <1>1, <2>5
<1>5. \/ ReceiveControl(r, m, t) = CloseActivation(x, "MotionOverflow")
      \/ m.kind = "SessionClose" /\ ReceiveControl(r, m, t) = CloseActivation(last, m.reason)
      \/ ReceiveControl(r, m, t) = last
  <2>1. \/ m.kind = "Enter"
        \/ why # "none"
        \/ ReceiveControl(r, m, t) = CloseActivation(x, "MotionOverflow")
        \/ m.kind = "SessionClose" /\ ReceiveControl(r, m, t) = CloseActivation(last, m.reason)
        \/ ReceiveControl(r, m, t) = last
    BY DEF ReceiveControl
  <2> HIDE DEF why, x, last
  <2> QED BY <1>3, <1>4, <2>1
<1>6. /\ anchored \in ReceiverState /\ u \in ReceiverState
      /\ u.act = r.act /\ u.highest = r.highest /\ u.ctl = m.seq
      /\ u.inj = IF HasAnchor(m) THEN m.anchor.through ELSE r.inj
      /\ Same(u.held, m.after.held)
  <2> HIDE DEF x
  <2>1. anchored = IF HasAnchor(m) THEN ApplyAnchor(r, m.anchor) ELSE r
    BY <1>1
  <2> HIDE DEF anchored
  <2> QED BY <1>2, <2>1, AppliesFollowing
<1>7. delta \in Int
  <2>1. r.totals \in Int /\ (HasAnchor(m) => m.anchor.totals \in Int)
    BY ReceiverFields, SendableFields, MembersAssumption DEF Total
  <2> HIDE DEF x
  <2> QED BY <1>1, <2>1
<1>8. /\ m.seq \in Nat /\ m.act \in Nat /\ safe \in BOOLEAN /\ u.held \in HeldState
      /\ x.e \in Effects
  <2> HIDE DEF x, u
  <2> QED BY <1>1, <1>6, SendableFields, ReceiverFields, OutcomeFields
<1> HIDE DEF x, u, delta, safe
<1>9. /\ e \in Effects /\ e.rejected = "none" /\ e.opened = 0
      /\ e.ack = IF m.kind = "StateSnapshot" THEN m.seq ELSE 0
      /\ e.reason \in {"none", "LeaseExpired"}
  BY <1>1, <1>7, <1>8 DEF Effects
<1> HIDE DEF e
<1>10. last \in Outcome /\ last.r = u /\ last.e = e
  BY <1>6, <1>9 DEF Outcome
<1> HIDE DEF last
<1>11. CASE ReceiveControl(r, m, t) = CloseActivation(x, "MotionOverflow")
  <2> DEFINE c == CloseActivation(x, "MotionOverflow")
  <2>1. /\ Shut(r, c.r) /\ c.e.ack = 0 /\ c.e.opened = 0 /\ c.e.rejected = "none"
        /\ c.e.reason \in {"none", "LeaseExpired", "MotionOverflow"}
    BY <1>1, <1>2, Closes
  <2> HIDE DEF c
  <2>2. ReceiveControl(r, m, t) = c
    BY <1>11 DEF c
  <2> QED BY <2>1, <2>2 DEF Calm
<1>12. CASE m.kind = "SessionClose" /\ ReceiveControl(r, m, t) = CloseActivation(last, m.reason)
  <2> DEFINE c == CloseActivation(last, m.reason)
  <2>1. m.reason \in {"LocalRelease", "LeaseExpired"}
    BY <1>12 DEF Sendable
  <2>2. /\ Shut(u, c.r) /\ c.e.ack = 0 /\ c.e.opened = 0 /\ c.e.rejected = "none"
        /\ c.e.reason \in {"none", "LeaseExpired", m.reason}
    BY <1>2, <1>6, <1>9, <1>10, <1>12, Closes
  <2> HIDE DEF c
  <2>3. Shut(r, c.r)
    BY <1>6, <2>2 DEF Shut
  <2>4. ReceiveControl(r, m, t) = c
    BY <1>12 DEF c
  <2> QED BY <2>1, <2>2, <2>3, <2>4 DEF Calm
<1>13. CASE ReceiveControl(r, m, t) = last
  BY <1>6, <1>9, <1>10, <1>13
<1> QED BY <1>5, <1>11, <1>12, <1>13

(* A playout step leaves the receiver where it was, closes it, or moves it up   *)
(* to what playout has played.                                                *)
LEMMA PlayedResult ==
  ASSUME NEW r \in ReceiverState, NEW act \in Nat, NEW step \in Step, NEW t \in Nat
  PROVE  LET o == ReceivePlayoutStep(r, act, step, t)
         IN  /\ o.e.ack = 0 /\ o.e.opened = 0
             /\ \/ o.r = r
                \/ Shut(r, o.r)
                \/ /\ o.r.act = r.act /\ o.r.ctl = r.ctl /\ o.r.highest = r.highest
                   /\ Same(o.r.held, r.held) /\ o.r.inj \in {r.inj, step.through}
             /\ o.e.reason = "ProtocolViolation" =>
                  /\ r.act # 0 /\ act = r.act /\ step.touch # NoTouch /\ r.inj < step.through
                  /\ r.held.touch = NoTouch
<1> DEFINE x == ExpireLease(r, t)
           touched == IF step.touch = NoTouch THEN x.r.held
                      ELSE [x.r.held EXCEPT !.touch = step.touch]
           u == [x.r EXCEPT !.totals = @ + step.delta, !.held = touched,
                            !.inj = IF step.reached THEN step.through ELSE @]
           e == [x.e EXCEPT !.to = touched, !.delta = step.delta, !.safe = FALSE]
           o == ReceivePlayoutStep(r, act, step, t)
<1>1. /\ x \in Outcome /\ x.r \in ReceiverState /\ x.e \in Effects
      /\ x.r = r \/ Shut(r, x.r)
      /\ x.e.ack = 0 /\ x.e.opened = 0
      /\ x.e.reason \in {"none", "LeaseExpired"}
  BY Expires, OutcomeFields
<1>2. step.through \in Nat
  BY DEF Step
<1>3. \/ \E why \in {"ClosedActivation", "NoOpenActivation", "StaleActivation",
                      "DuplicateOrReorderedMotion"} : o = Reject(x, why)
      \/ /\ o = CloseActivation(x, "ProtocolViolation")
         /\ x.r.act # 0 /\ x.r.act = act /\ ~(step.through <= x.r.inj)
         /\ step.touch # NoTouch /\ x.r.held.touch = NoTouch
      \/ o = CloseActivation(x, "MotionOverflow") /\ x.r.act # 0
      \/ /\ o = [r |-> u, e |-> e] /\ x.r.act # 0
         /\ step.touch # NoTouch => x.r.held.touch # NoTouch
  BY DEF ReceivePlayoutStep
<1>4. x.r.act # 0 => x.r = r
  BY <1>1 DEF Shut
<1>5. r.inj \in Nat
  BY ReceiverFields
<1> HIDE DEF x, o
<1>6. CASE \E why \in {"ClosedActivation", "NoOpenActivation", "StaleActivation",
                       "DuplicateOrReorderedMotion"} : o = Reject(x, why)
  BY <1>1, <1>6, Rejects DEF o
<1>7. CASE /\ o = CloseActivation(x, "ProtocolViolation")
           /\ x.r.act # 0 /\ x.r.act = act /\ ~(step.through <= x.r.inj)
           /\ step.touch # NoTouch /\ x.r.held.touch = NoTouch
  <2>1. x.r = r /\ r.inj < step.through
    BY <1>2, <1>4, <1>5, <1>7
  <2>2. Shut(r, o.r) /\ o.e.ack = 0 /\ o.e.opened = 0
    BY <1>1, <1>7, <2>1, Closes
  <2> QED BY <1>7, <2>1, <2>2 DEF o
<1>8. CASE o = CloseActivation(x, "MotionOverflow") /\ x.r.act # 0
  <2>1. /\ Shut(r, o.r) /\ o.e.ack = 0 /\ o.e.opened = 0
        /\ o.e.reason \in {"none", "LeaseExpired", "MotionOverflow"}
    BY <1>1, <1>4, <1>8, Closes
  <2> QED BY <2>1 DEF o
<1>9. CASE /\ o = [r |-> u, e |-> e] /\ x.r.act # 0
           /\ step.touch # NoTouch => x.r.held.touch # NoTouch
  <2>1. o.r = u /\ o.e = e
    BY <1>9
  <2>2. touched = IF step.touch = NoTouch THEN r.held ELSE [r.held EXCEPT !.touch = step.touch]
    BY <1>4, <1>9
  <2>3. Same(touched, r.held)
    <3>1. r.held \in HeldState
      BY ReceiverFields
    <3>2. step.touch # NoTouch => r.held.touch # NoTouch
      BY <1>4, <1>9
    <3> HIDE DEF touched
    <3> QED BY <2>2, <3>1, <3>2 DEF Same, HeldState
  <2> HIDE DEF touched
  <2>4. u.act = r.act /\ u.ctl = r.ctl /\ u.highest = r.highest /\ u.held = touched
        /\ u.inj \in {r.inj, step.through}
    BY <1>4, <1>9 DEF ReceiverState
  <2>5. e.ack = 0 /\ e.opened = 0 /\ e.reason = x.e.reason
    BY <1>1 DEF Effects
  <2> QED BY <1>1, <2>1, <2>3, <2>4, <2>5 DEF o
<1> QED BY <1>3, <1>6, <1>7, <1>8, <1>9

-----------------------------------------------------------------------------
(* The sink's steps *)

(* A loop that ended is in its cleanup, which acknowledges nothing. *)
PhaseInv ==
  /\ sinkEnd # "running" => pc \in {"cleanup", "down"} \/ (pc = "emit" /\ resume = "down")
  /\ pc # "emit" => batch.ack = 0
  /\ pc = "emit" /\ resume = "down" => batch.ack = 0

Peaceful == closedBy # "ProtocolViolation"

LEMMA PhaseNext ==
  ASSUME TypeInv, PhaseInv, [Next]_vars
  PROVE  PhaseInv'
<1>1. NoEffects.ack = 0
  BY DEF NoEffects
<1>2. CASE SourceNext \/ NetworkLoss \/ Advance
  <2>1. UNCHANGED <<sinkEnd, pc, resume, batch>>
    BY <1>2 DEF SourceNext, BeginOutbound, Capture, EndOutbound, SourceTick, ReceiveAck,
                SourceClose, SourceLost, NetworkLoss, Advance, sink
  <2> QED BY <2>1 DEF PhaseInv
<1>3. CASE UNCHANGED vars \/ Finished
  BY <1>3 DEF PhaseInv, Finished, vars, sink
<1>4. CASE RecvControl
  BY <1>1, <1>4 DEF RecvControl, Bail, PhaseInv
<1>5. CASE RecvMotion
  BY <1>1, <1>5 DEF RecvMotion, Bail, PhaseInv
<1>6. CASE InboundTick
  BY <1>6 DEF InboundTick, PhaseInv
<1>7. CASE PollPlayout
  <2>1. pc = "poll"
    BY <1>7 DEF PollPlayout
  <2>2. PICK p, start, touch : PlayStep(p, start, touch)
    BY <1>7 DEF PollPlayout
  <2>3. \/ Bail("invalid")
        \/ pc' = "drain" /\ UNCHANGED <<batch, sinkEnd>>
        \/ \E e : Emit(e, "drain") /\ UNCHANGED sinkEnd
    BY <2>2 DEF PlayStep, PlayFails
  <2> QED BY <1>1, <2>1, <2>3 DEF Bail, Emit, PhaseInv
<1>8. CASE DrainEnds
  BY <1>8 DEF DrainEnds, Idle, PhaseInv
<1>9. CASE ApplyControl
  <2>1. pc = "drain"
    BY <1>9 DEF ApplyControl
  <2>2. \/ Bail("invalid")
        \/ \E e : Emit(e, "drain") /\ UNCHANGED sinkEnd
    BY <1>9 DEF ApplyControl
  <2> QED BY <1>1, <2>1, <2>2 DEF Bail, Emit, PhaseInv
<1>10. CASE BackendApplies
  BY <1>1, <1>10 DEF BackendApplies, PhaseInv
<1>11. CASE BackendRejects \/ SinkClose \/ SinkLost
  BY <1>1, <1>11 DEF BackendRejects, SinkClose, SinkLost, Bail, PhaseInv
<1>12. CASE Cleanup
  <2>1. PICK o : o = ConnectionLost(receiver) /\ Emit(o.e, "down") /\ pc = "cleanup"
    BY <1>12 DEF Cleanup
  <2>2. o.e.ack = 0
    <3>1. receiver \in ReceiverState /\ Start(receiver) \in Outcome
      BY TypeFacts, StartType
    <3>2. Start(receiver).e.ack = 0
      BY DEF Start, NoEffects
    <3> QED BY <2>1, <3>1, <3>2, Closes DEF ConnectionLost
  <2>3. batch.ack = 0
    BY <2>1 DEF PhaseInv
  <2> QED BY <2>1, <2>2, <2>3 DEF Emit, PhaseInv
<1> QED BY <1>2, <1>3, <1>4, <1>5, <1>6, <1>7, <1>8, <1>9, <1>10, <1>11, <1>12
        DEF Next, SinkNext

LEMMA StreamFacts ==
  ASSUME TypeInv
  PROVE  /\ pending \in Seq(Sendable) /\ control \in Seq(Sendable)
         /\ motion \in SUBSET MotionFrame /\ sender \in SenderState
         /\ receiver \in ReceiverState /\ playout \in PlayoutState
         /\ mirror.held \in HeldState /\ nextAct \in Nat /\ at \in Nat /\ now \in Nat
         /\ receiver.act \in Nat /\ receiver.highest \in Nat /\ playout.act \in Nat
BY TypeFacts, MirrorFields, ReceiverFields, PlayoutFields


LEMMA StreamTick ==
  ASSUME TypeInv, StreamInv, Peaceful, InboundTick
  PROVE  StreamInv' /\ Peaceful'
<1> DEFINE o == ExpireLease(receiver, now)
<1>1. /\ pending \in Seq(Sendable) /\ control \in Seq(Sendable)
      /\ motion \in SUBSET MotionFrame /\ sender \in SenderState
      /\ receiver \in ReceiverState /\ now \in Nat /\ nextAct \in Nat
      /\ receiver.act \in Nat /\ receiver.highest \in Nat
  BY StreamFacts
<1>2. /\ o.r \in ReceiverState /\ (o.r = receiver \/ Shut(receiver, o.r))
      /\ o.e.opened = 0 /\ o.e.reason \in {"none", "LeaseExpired"}
  BY <1>1, Expires, OutcomeFields
<1>3. /\ receiver' = o.r /\ pending' = Discard(pending, receiver.act, o.r.act)
      /\ Records(o.e)
      /\ UNCHANGED <<control, motion, sender, nextAct, playout, sinkEnd, mirror>>
  BY DEF InboundTick, source, network
<1> HIDE DEF o
<1>4. Peaceful'
  BY <1>2, <1>3 DEF Records, Peaceful
<1>5. Flow(pending, control, motion, sender, receiver, playout, mirror.held, nextAct,
           sinkEnd = "running")
  BY DEF StreamInv
<1>6. Sorted(pending) /\ Sorted(control) /\ receiver.act \in {0, receiver.highest}
  BY <1>5 DEF Flow, Order
<1>7. Flow(pending, control, motion, sender, o.r, playout, mirror.held, nextAct,
           sinkEnd = "running")
  BY <1>1, <1>2, <1>5, <1>6, FlowDrop
<1>8. /\ receiver.act <= o.r.highest
      /\ o.r.act # receiver.act => receiver.act < o.r.highest \/ o.r.act = 0
  BY <1>1, <1>2, <1>6 DEF Shut
<1>9. Flow(Discard(pending, receiver.act, o.r.act), control, motion, sender, o.r, playout,
           mirror.held, nextAct, sinkEnd = "running")
  BY <1>1, <1>2, <1>7, <1>8, FlowDiscard
<1> QED BY <1>3, <1>4, <1>9 DEF StreamInv

LEMMA StreamRecvControl ==
  ASSUME TypeInv, StreamInv, PhaseInv, RecvControl
  PROVE  StreamInv' /\ (sinkEnd' = "invalid" => sinkEnd = "invalid")
<1>1. /\ pending \in Seq(Sendable) /\ control \in Seq(Sendable) /\ control # <<>>
      /\ motion \in SUBSET MotionFrame /\ sender \in SenderState
      /\ receiver \in ReceiverState /\ nextAct \in Nat /\ Tail(control) \in Seq(Sendable)
  BY StreamFacts DEF RecvControl
<1>2. /\ control' = Tail(control)
      /\ UNCHANGED <<motion, sender, nextAct, receiver, playout, mirror>>
      /\ sinkEnd = "running"
      /\ \/ pending' = Append(pending, Head(control)) /\ UNCHANGED sinkEnd
         \/ pending' = pending /\ sinkEnd' = "limit"
  BY DEF RecvControl, PhaseInv, Bail, source, history
<1>3. Flow(pending, control, motion, sender, receiver, playout, mirror.held, nextAct, TRUE)
  BY <1>2 DEF StreamInv
<1>4. CASE pending' = Append(pending, Head(control)) /\ UNCHANGED sinkEnd
  <2>1. Flow(Append(pending, Head(control)), Tail(control), motion, sender, receiver, playout,
             mirror.held, nextAct, TRUE)
    BY <1>1, <1>3, FlowRecv
  <2> QED BY <1>2, <1>4, <2>1 DEF StreamInv
<1>5. CASE pending' = pending /\ sinkEnd' = "limit"
  <2>1. /\ Sorted(pending) /\ Sorted(Tail(control))
        /\ In(Tail(control)) \subseteq In(control)
    BY <1>1, <1>3, SortedTail, InTail DEF Flow
  <2>2. Flow(pending, Tail(control), motion, sender, receiver, playout, mirror.held, nextAct,
             FALSE)
    BY <1>1, <1>3, <2>1, FlowDrop
  <2> QED BY <1>2, <1>5, <2>2 DEF StreamInv
<1> QED BY <1>2, <1>4, <1>5

LEMMA StreamRecvMotion ==
  ASSUME TypeInv, StreamInv, PhaseInv, RecvMotion
  PROVE  StreamInv' /\ (sinkEnd' = "invalid" => sinkEnd = "invalid")
<1>1. /\ motion \in SUBSET MotionFrame /\ playout \in PlayoutState /\ playout.seq \in Nat
      /\ receiver \in ReceiverState /\ receiver.inj \in Nat
  BY StreamFacts, PlayoutFields, ReceiverFields
<1>2. /\ UNCHANGED <<motion, control, sender, nextAct, receiver, pending, mirror>>
      /\ sinkEnd = "running"
      /\ \/ playout' = playout /\ sinkEnd' = "limit"
         \/ /\ sinkEnd' = sinkEnd
            /\ \E f \in motion : /\ f.act = playout.act /\ f.seq > playout.seq
                                 /\ playout' = IngestFrame(playout, f)
  BY DEF RecvMotion, PhaseInv, Bail, source, network, history
<1>3. Flow(pending, control, motion, sender, receiver, playout, mirror.held, nextAct, TRUE)
  BY <1>2 DEF StreamInv
<1>4. CASE playout' = playout /\ sinkEnd' = "limit"
  <2>1. Flow(pending, control, motion, sender, receiver, playout, mirror.held, nextAct, FALSE)
    BY <1>3 DEF Flow
  <2> QED BY <1>2, <1>4, <2>1 DEF StreamInv
<1>5. CASE /\ sinkEnd' = sinkEnd
           /\ \E f \in motion : /\ f.act = playout.act /\ f.seq > playout.seq
                                /\ playout' = IngestFrame(playout, f)
  <2>1. PICK f \in motion : /\ f.act = playout.act /\ f.seq > playout.seq
                            /\ playout' = IngestFrame(playout, f)
    BY <1>5
  <2> DEFINE p1 == IngestFrame(playout, f)
  <2>2. f \in MotionFrame /\ f.seq \in Nat
    BY <1>1, FrameFields
  <2>3. p1 \in PlayoutState
    BY <1>1, <2>2, PlayoutTypes
  <2>4. /\ p1.act = playout.act /\ p1.mark = playout.mark /\ p1.seq = playout.seq
        /\ p1.queue \subseteq playout.queue \cup {f}
    BY <1>1, <2>1, <2>2 DEF IngestFrame, PlayoutState
  <2>5. \A g \in playout.queue : g \in motion /\ g.act = playout.act /\ g.seq > playout.seq
    BY <1>3 DEF Flow, Motions
  <2> HIDE DEF p1
  <2>6. \A g \in p1.queue : g \in motion /\ g.act = p1.act /\ g.seq > p1.seq
    BY <2>1, <2>4, <2>5
  <2>7. receiver.act # 0 /\ playout.act = receiver.act /\ playout.mark = receiver.ctl =>
          /\ \A m \in In(pending) \cup In(control) :
               HasAnchor(m) /\ m.act = receiver.act => p1.seq <= m.anchor.through
          /\ receiver.act = sender.act => p1.seq <= sender.mot
    BY <1>3, <2>4 DEF Flow, Played
  <2>8. p1.seq >= playout.seq
    BY <1>1, <2>4
  <2>9. Flow(pending, control, motion, sender, receiver, p1, mirror.held, nextAct, TRUE)
    BY <1>1, <1>3, <2>3, <2>4, <2>6, <2>7, <2>8, FlowPlay
  <2> QED BY <1>2, <1>5, <2>1, <2>9 DEF StreamInv, p1
<1> QED BY <1>2, <1>4, <1>5

(* The steps that leave the engines and the stream alone. *)
LEMMA StreamQuiet ==
  ASSUME StreamInv, Peaceful,
         DrainEnds \/ BackendApplies \/ BackendRejects \/ SinkClose \/ SinkLost
           \/ Finished \/ UNCHANGED vars
  PROVE  /\ StreamInv' /\ Peaceful'
         /\ sinkEnd' = "invalid" => sinkEnd = "invalid"
<1>1. /\ UNCHANGED <<pending, control, motion, sender, receiver, playout, mirror, nextAct>>
      /\ UNCHANGED closedBy
      /\ sinkEnd' = sinkEnd \/ sinkEnd' \notin {"running", "invalid"}
      /\ sinkEnd' = "running" => sinkEnd = "running"
  BY DEF DrainEnds, Idle, BackendApplies, BackendRejects, SinkClose, SinkLost, Finished, vars,
         source, network, sink, history, Bail
<1>2. Flow(pending, control, motion, sender, receiver, playout, mirror.held, nextAct,
           sinkEnd' = "running")
  BY <1>1 DEF StreamInv, Flow
<1> QED BY <1>1, <1>2 DEF StreamInv, Peaceful

LEMMA StreamCleanup ==
  ASSUME TypeInv, StreamInv, Peaceful, Cleanup
  PROVE  StreamInv' /\ Peaceful' /\ sinkEnd' = sinkEnd
<1> DEFINE o == ConnectionLost(receiver)
<1>1. /\ pending \in Seq(Sendable) /\ control \in Seq(Sendable)
      /\ motion \in SUBSET MotionFrame /\ sender \in SenderState
      /\ receiver \in ReceiverState /\ nextAct \in Nat
  BY StreamFacts
<1>2. Start(receiver) \in Outcome /\ Start(receiver).r = receiver
  BY <1>1, StartType DEF Start
<1>3. /\ o.r = receiver \/ Shut(receiver, o.r)
      /\ o.e.reason \in {"none", "LeaseExpired"} /\ o.e.opened = 0
  <2>1. Start(receiver).e.reason = "none" /\ Start(receiver).e.opened = 0
    BY DEF Start, NoEffects
  <2> QED BY <1>2, <2>1, Closes DEF ConnectionLost
<1>4. /\ receiver' = o.r /\ Records(o.e)
      /\ UNCHANGED <<pending, control, motion, sender, nextAct, playout, sinkEnd, mirror>>
  BY DEF Cleanup, source
<1> HIDE DEF o
<1>5. Flow(pending, control, motion, sender, receiver, playout, mirror.held, nextAct,
           sinkEnd = "running")
  BY DEF StreamInv
<1>6. Sorted(pending) /\ Sorted(control)
  BY <1>5 DEF Flow
<1>7. Flow(pending, control, motion, sender, o.r, playout, mirror.held, nextAct,
           sinkEnd = "running")
  BY <1>1, <1>3, <1>5, <1>6, FlowDrop
<1> QED BY <1>3, <1>4, <1>7 DEF StreamInv, Records, Peaceful

(* Playing what playout selected: the receiver follows, or is closed. *)
PlayOverflows(p, start, touch) ==
  PollFails(p, start, touch) \/ \E out \in Steps(p, start, touch) : ~Fits(out.p.inj)

LEMMA StreamPlay ==
  ASSUME TypeInv, Peaceful, sinkEnd = "running",
         UNCHANGED <<pending, control, motion, sender, nextAct, mirror>>,
         NEW p \in PlayoutState, NEW start \in Total, NEW touch \in TouchStates,
         PlayStep(p, start, touch),
         Flow(pending, control, motion, sender, receiver, p, mirror.held, nextAct, TRUE),
         touch # NoTouch /\ receiver.act # 0 /\ p.act = receiver.act => receiver.held.touch # NoTouch
  PROVE  /\ StreamInv' /\ Peaceful'
         /\ sinkEnd' = "invalid" => PlayOverflows(p, start, touch)
<1>1. /\ pending \in Seq(Sendable) /\ control \in Seq(Sendable)
      /\ motion \in SUBSET MotionFrame /\ sender \in SenderState
      /\ receiver \in ReceiverState /\ nextAct \in Nat /\ mirror.held \in HeldState
      /\ receiver.act \in Nat /\ at \in Nat /\ p.act \in Nat /\ p.seq \in Nat
      /\ receiver.inj \in Nat
  BY StreamFacts, PlayoutFields, ReceiverFields
<1>2. \/ /\ PlayOverflows(p, start, touch) /\ sinkEnd' = "invalid"
         /\ playout' = p /\ UNCHANGED <<receiver, closedBy>>
      \/ playout' = p /\ UNCHANGED <<receiver, closedBy, sinkEnd>>
      \/ \E out \in Steps(p, start, touch) :
           LET o == ReceivePlayoutStep(receiver, p.act, out.step, at)
           IN  /\ Fits(out.p.inj) /\ playout' = out.p /\ receiver' = o.r /\ Records(o.e)
               /\ UNCHANGED sinkEnd
  BY DEF PlayStep, PlayFails, Bail, PlayOverflows
<1>3. CASE /\ PlayOverflows(p, start, touch) /\ sinkEnd' = "invalid"
           /\ playout' = p /\ UNCHANGED <<receiver, closedBy>>
  <2>1. Flow(pending, control, motion, sender, receiver, p, mirror.held, nextAct, FALSE)
    BY DEF Flow
  <2> QED BY <1>3, <2>1 DEF StreamInv, Peaceful
<1>4. CASE playout' = p /\ UNCHANGED <<receiver, closedBy, sinkEnd>>
  BY <1>4 DEF StreamInv, Peaceful
<1>5. CASE \E out \in Steps(p, start, touch) :
             LET o == ReceivePlayoutStep(receiver, p.act, out.step, at)
             IN  /\ Fits(out.p.inj) /\ playout' = out.p /\ receiver' = o.r /\ Records(o.e)
                 /\ UNCHANGED sinkEnd
  <2>1. PICK out \in Steps(p, start, touch) :
             LET o == ReceivePlayoutStep(receiver, p.act, out.step, at)
             IN  /\ Fits(out.p.inj) /\ playout' = out.p /\ receiver' = o.r /\ Records(o.e)
                 /\ UNCHANGED sinkEnd
    BY <1>5
  <2> DEFINE u == out.p
             step == out.step
             o == ReceivePlayoutStep(receiver, p.act, step, at)
  <2>2. /\ step \in Step /\ u \in PlayoutState
        /\ step.through = p.seq /\ step.touch = touch
        /\ \E inj : u = [p EXCEPT !.inj = inj]
    <3>1. PICK b \in Limited(start - p.inj) :
               /\ out.p = [p EXCEPT !.inj = p.inj + b + (p.target - start)]
               /\ out.step.through = p.seq /\ out.step.touch = touch
      BY StepsType
    <3>2. out.step \in Step /\ (Fits(out.p.inj) => out.p \in PlayoutState)
      BY StepsType
    <3>3. Fits(out.p.inj)
      BY <2>1
    <3> QED BY <3>1, <3>2, <3>3
  <2> HIDE DEF step, u
  <2>3. u.act = p.act /\ u.mark = p.mark /\ u.seq = p.seq /\ u.queue = p.queue
    BY <2>2 DEF PlayoutState
  <2>4. /\ o.e.opened = 0
        /\ \/ o.r = receiver
           \/ Shut(receiver, o.r)
           \/ /\ o.r.act = receiver.act /\ o.r.ctl = receiver.ctl
              /\ o.r.highest = receiver.highest
              /\ Same(o.r.held, receiver.held) /\ o.r.inj \in {receiver.inj, step.through}
        /\ o.e.reason = "ProtocolViolation" =>
             /\ receiver.act # 0 /\ p.act = receiver.act /\ step.touch # NoTouch
             /\ receiver.held.touch = NoTouch
    <3>1. receiver \in ReceiverState /\ p.act \in Nat /\ step \in Step /\ at \in Nat
      BY <1>1, <2>2
    <3> QED BY <3>1, PlayedResult
  <2>5. /\ playout' = u /\ receiver' = o.r /\ Records(o.e) /\ sinkEnd' = sinkEnd
    BY <2>1 DEF step, u
  <2> HIDE DEF o
  <2>6. Peaceful'
    BY <2>2, <2>4, <2>5 DEF Records, Peaceful
  <2>7. Flow(pending, control, motion, sender, receiver, u, mirror.held, nextAct, TRUE)
    <3>1. /\ \A f \in u.queue : f \in motion /\ f.act = u.act /\ f.seq > u.seq
          /\ receiver.act # 0 /\ p.act = receiver.act /\ p.mark = receiver.ctl =>
               /\ \A m \in In(pending) \cup In(control) :
                    HasAnchor(m) /\ m.act = receiver.act => u.seq <= m.anchor.through
               /\ receiver.act = sender.act => u.seq <= sender.mot
          /\ u.seq >= p.seq
      BY <1>1, <2>3 DEF Flow, Played, Motions
    <3> QED BY <1>1, <2>2, <2>3, <3>1, FlowPlay
  <2>8. Flow(pending, control, motion, sender, o.r, u, mirror.held, nextAct, TRUE)
    <3>1. CASE o.r = receiver
      BY <2>7, <3>1
    <3>2. CASE Shut(receiver, o.r)
      <4>1. Sorted(pending) /\ Sorted(control)
        BY <2>7 DEF Flow
      <4> QED BY <1>1, <2>7, <3>2, <4>1, FlowDrop
    <3>3. CASE /\ o.r.act = receiver.act /\ o.r.ctl = receiver.ctl
               /\ o.r.highest = receiver.highest
               /\ Same(o.r.held, receiver.held) /\ o.r.inj \in {receiver.inj, step.through}
      <4>1. o.r.inj \in {receiver.inj, u.seq} /\ u.seq \in Nat
        BY <1>1, <2>2, <2>3, <3>3
      <4> QED BY <2>7, <3>3, <4>1, FlowMoved
    <3> QED BY <2>4, <3>1, <3>2, <3>3
  <2> QED BY <2>5, <2>6, <2>8 DEF StreamInv
<1> QED BY <1>2, <1>3, <1>4, <1>5

LEMMA StreamPoll ==
  ASSUME TypeInv, StreamInv, PhaseInv, Peaceful, PollPlayout
  PROVE  /\ StreamInv' /\ Peaceful'
         /\ sinkEnd' = "invalid" =>
              \/ PlayOverflows(playout, playout.target, NoTouch)
              \/ \E f \in Eligible(playout) :
                   PlayOverflows(Select(playout, f), OwnSampleStart(playout, f), f.touch)
<1>1. /\ pending \in Seq(Sendable) /\ control \in Seq(Sendable)
      /\ motion \in SUBSET MotionFrame /\ sender \in SenderState
      /\ receiver \in ReceiverState /\ nextAct \in Nat /\ playout \in PlayoutState
      /\ playout.target \in Total /\ playout.queue \subseteq MotionFrame
      /\ NoTouch \in TouchStates /\ playout.mark \in Nat /\ playout.seq \in Nat
  BY StreamFacts, PlayoutFields DEF TouchStates
<1>2. /\ sinkEnd = "running"
      /\ UNCHANGED <<pending, control, motion, sender, nextAct, mirror>>
      /\ \/ PlayStep(playout, playout.target, NoTouch)
         \/ \E f \in Eligible(playout) :
              PlayStep(Select(playout, f), OwnSampleStart(playout, f), f.touch)
  BY DEF PollPlayout, PhaseInv, source
<1>3. Flow(pending, control, motion, sender, receiver, playout, mirror.held, nextAct, TRUE)
  BY <1>2 DEF StreamInv
<1>4. CASE PlayStep(playout, playout.target, NoTouch)
  BY <1>1, <1>2, <1>3, <1>4, StreamPlay
<1>5. CASE \E f \in Eligible(playout) :
             PlayStep(Select(playout, f), OwnSampleStart(playout, f), f.touch)
  <2>1. PICK f \in Eligible(playout) :
             PlayStep(Select(playout, f), OwnSampleStart(playout, f), f.touch)
    BY <1>5
  <2> DEFINE p == Select(playout, f)
             start == OwnSampleStart(playout, f)
  <2>2. f \in MotionFrame /\ p \in PlayoutState /\ start \in Total
    BY <1>1, PlayoutTypes
  <2>3. f.touch \in TouchStates
    BY <2>2, FrameFields
  <2>4. Flow(pending, control, motion, sender, receiver, p, mirror.held, nextAct, TRUE)
    BY <1>1, <1>3, FlowSelect
  <2>5. f.touch # NoTouch /\ receiver.act # 0 => receiver.held.touch # NoTouch
    <3>1. f \in playout.queue /\ f.mark <= playout.mark
      BY DEF Eligible
    <3>2. f \in motion /\ f.act = playout.act /\ f.seq > playout.seq
      BY <1>3, <3>1 DEF Flow, Motions
    <3>3. receiver.act # 0 => /\ playout.act = receiver.act /\ playout.mark = receiver.ctl
                              /\ Same(receiver.held, mirror.held)
      BY <1>3 DEF Flow, Played, Chain
    <3>4. f.touch # NoTouch /\ receiver.act # 0 => mirror.held.touch # NoTouch
      BY <1>3, <3>1, <3>2, <3>3 DEF Flow, Touched
    <3> QED BY <3>3, <3>4 DEF Same
  <2>6. PlayStep(p, start, f.touch)
    BY <2>1
  <2> HIDE DEF p, start
  <2>7. /\ StreamInv' /\ Peaceful'
        /\ sinkEnd' = "invalid" => PlayOverflows(p, start, f.touch)
    BY <1>2, <2>2, <2>3, <2>4, <2>5, <2>6, StreamPlay
  <2> QED BY <2>7 DEF p, start
<1> QED BY <1>2, <1>4, <1>5

(* What apply_control makes of playout, for a control of the open activation. *)
LEMMA FollowNext ==
  ASSUME NEW p \in PlayoutState, p.act # 0, NEW m \in Sendable, NEW e, e.opened = 0
  PROVE  LET u == FollowControl(p, m, e)
         IN  /\ u.act = p.act /\ u.mark = m.seq
             /\ u.seq = IF HasAnchor(m) THEN m.anchor.through ELSE p.seq
             /\ u.queue = IF HasAnchor(m) THEN {f \in p.queue : f.seq > m.anchor.through}
                          ELSE p.queue
<1> DEFINE k == AdvanceWatermark(p, m.seq)
<1>1. /\ k.act = p.act /\ k.mark = m.seq /\ k.seq = p.seq /\ k.queue = p.queue
      /\ k \in PlayoutState
  BY SendableFields, PlayoutTypes DEF AdvanceWatermark, PlayoutState
<1>2. FollowControl(p, m, e) = IF HasAnchor(m) THEN Rebase(k, m.anchor) ELSE k
  BY DEF FollowControl
<1> HIDE DEF k
<1>3. /\ Rebase(k, m.anchor).act = k.act /\ Rebase(k, m.anchor).mark = k.mark
      /\ Rebase(k, m.anchor).seq = m.anchor.through
      /\ Rebase(k, m.anchor).queue = {f \in k.queue : f.seq > m.anchor.through}
  BY <1>1 DEF Rebase, PlayoutState
<1> QED BY <1>1, <1>2, <1>3

(* What an applied control leaves of the sink, as one formula. *)
Applies(m, o) ==
  /\ receiver' = o.r
  /\ pending' = Discard(Tail(pending), receiver.act, o.r.act)
  /\ Records(o.e)
  /\ UNCHANGED <<control, motion, sender, nextAct>>
  /\ sinkEnd' = IF \/ o.e.rejected \in Fatal
                   \/ o.e.rejected = "none" /\ FollowFails(playout, m, o.e)
                  THEN "invalid" ELSE "running"
  /\ mirror' = IF o.e.rejected = "none" THEN m.after ELSE mirror
  /\ playout' = IF o.e.rejected = "none" /\ ~FollowFails(playout, m, o.e)
                  THEN FollowControl(playout, m, o.e) ELSE playout

LEMMA StreamStale ==
  ASSUME TypeInv, Peaceful, pending # <<>>,
         Flow(pending, control, motion, sender, receiver, playout, mirror.held, nextAct, TRUE),
         IsClosed(ExpireLease(receiver, at).r, Head(pending).act),
         Applies(Head(pending), ReceiveControl(receiver, Head(pending), at))
  PROVE  StreamInv' /\ Peaceful' /\ sinkEnd' = "running"
<1> DEFINE m == Head(pending)
           x == ExpireLease(receiver, at)
           o == ReceiveControl(receiver, m, at)
<1>1. /\ pending \in Seq(Sendable) /\ control \in Seq(Sendable)
      /\ motion \in SUBSET MotionFrame /\ sender \in SenderState
      /\ receiver \in ReceiverState /\ nextAct \in Nat /\ at \in Nat
      /\ receiver.act \in Nat /\ receiver.highest \in Nat /\ Tail(pending) \in Seq(Sendable)
      /\ m \in Sendable /\ m.act \in Nat
  BY StreamFacts, InTail, SendableFields
<1>2. /\ x.r \in ReceiverState /\ (x.r = receiver \/ Shut(receiver, x.r))
  BY <1>1, Expires, OutcomeFields
<1>3. /\ o.r = x.r /\ o.e.rejected = "ClosedActivation" /\ o.e.opened = 0 /\ Calm(o.e)
  BY <1>1, ControlStale
<1>4. /\ receiver' = o.r /\ pending' = Discard(Tail(pending), receiver.act, o.r.act)
      /\ Records(o.e) /\ UNCHANGED <<control, motion, sender, nextAct, mirror, playout>>
      /\ sinkEnd' = "running"
  BY <1>3 DEF Applies, Fatal
<1>5. IsClosed(x.r, m.act)
  OBVIOUS
<1> HIDE DEF m, x, o
<1>6. Peaceful'
  BY <1>3, <1>4 DEF Records, Peaceful, Calm
<1>7. ~Live(x.r, m.act)
  <2>1. x.r.highest \in Nat
    BY <1>2, ReceiverFields
  <2> QED BY <1>1, <1>5, <2>1 DEF IsClosed, Live
<1>8. Flow(Tail(pending), control, motion, sender, x.r, playout, mirror.held, nextAct, TRUE)
  BY <1>1, <1>2, <1>7, FlowPop DEF m
<1>9. /\ receiver.act <= x.r.highest
      /\ x.r.act # receiver.act => receiver.act < x.r.highest \/ x.r.act = 0
  BY <1>1, <1>2 DEF Shut, Flow, Order
<1>10. Flow(Discard(Tail(pending), receiver.act, x.r.act), control, motion, sender, x.r,
            playout, mirror.held, nextAct, TRUE)
  BY <1>1, <1>2, <1>8, <1>9, FlowDiscard
<1> QED BY <1>3, <1>4, <1>6, <1>10 DEF StreamInv

LEMMA StreamFirst ==
  ASSUME TypeInv, Peaceful, pending # <<>>,
         Flow(pending, control, motion, sender, receiver, playout, mirror.held, nextAct, TRUE),
         IsFirst(ExpireLease(receiver, at).r, Head(pending)),
         Applies(Head(pending), ReceiveControl(receiver, Head(pending), at))
  PROVE  StreamInv' /\ Peaceful' /\ sinkEnd' = "running"
<1> DEFINE m == Head(pending)
           x == ExpireLease(receiver, at)
           o == ReceiveControl(receiver, m, at)
           p1 == FollowControl(playout, m, o.e)
<1>1. /\ pending \in Seq(Sendable) /\ control \in Seq(Sendable)
      /\ motion \in SUBSET MotionFrame /\ sender \in SenderState
      /\ receiver \in ReceiverState /\ nextAct \in Nat /\ at \in Nat
      /\ receiver.act \in Nat /\ receiver.highest \in Nat /\ Tail(pending) \in Seq(Sendable)
      /\ m \in Sendable /\ m.act \in Nat /\ m.act > 0
  BY StreamFacts, InTail, SendableFields
<1>2. x.r = receiver \/ Shut(receiver, x.r)
  BY <1>1, Expires
<1>3. /\ o.r.act = m.act /\ o.r.highest = m.act /\ o.r.ctl = 1 /\ o.r.held = Neutral
      /\ o.r.inj = 0
      /\ o.e.rejected = "none" /\ o.e.opened = m.act /\ Calm(o.e)
  BY <1>1, ControlFirst
<1>4. o.r \in ReceiverState
  BY <1>1, ControlType, OutcomeFields
<1>5. IsFirst(receiver, m) /\ m.act > receiver.highest /\ m.seq = 1
  BY <1>2 DEF IsFirst, Shut
<1>6. ~HasAnchor(m)
  BY <1>1, <1>5 DEF Sendable, IsFirst
<1>7. ~FollowFails(playout, m, o.e)
  BY <1>1, <1>3 DEF FollowFails
<1>8. /\ receiver' = o.r /\ pending' = Discard(Tail(pending), receiver.act, o.r.act)
      /\ Records(o.e) /\ UNCHANGED <<control, motion, sender, nextAct>>
      /\ sinkEnd' = "running" /\ mirror' = m.after /\ playout' = p1
  BY <1>3, <1>7 DEF Applies, Fatal
<1>9. p1.act = m.act /\ p1.mark = 1 /\ p1.seq = 0 /\ p1.queue = {}
  <2>1. ~HasAnchor(m) /\ o.e.opened = m.act /\ m.act # 0 /\ m.seq = 1
    BY <1>1, <1>3, <1>5, <1>6
  <2> HIDE DEF m, o
  <2>2. p1 = AdvanceWatermark(NewPlayout(m.act), m.seq)
    BY <2>1 DEF FollowControl, NewPlayout, NoPlayout, AdvanceWatermark
  <2> HIDE DEF p1
  <2> QED BY <2>1, <2>2 DEF AdvanceWatermark, NewPlayout, NoPlayout
<1> HIDE DEF x, o, p1
<1>10. Peaceful'
  BY <1>1, <1>3, <1>8 DEF Records, Peaceful
<1>11. Flow(Tail(pending), control, motion, sender, o.r, p1, m.after.held, nextAct, TRUE)
  BY <1>1, <1>3, <1>4, <1>5, <1>9, FlowFirst
<1> HIDE DEF m
<1>12. receiver.act <= receiver.highest
  BY <1>1 DEF Flow, Order
<1>13. receiver.act <= o.r.highest /\ receiver.act < o.r.highest
  BY <1>1, <1>3, <1>5, <1>12
<1>14. Flow(Discard(Tail(pending), receiver.act, o.r.act), control, motion, sender, o.r,
            p1, m.after.held, nextAct, TRUE)
  BY <1>1, <1>4, <1>11, <1>13, FlowDiscard
<1> QED BY <1>8, <1>10, <1>14 DEF StreamInv

LEMMA StreamNextControl ==
  ASSUME TypeInv, Peaceful, pending # <<>>,
         Flow(pending, control, motion, sender, receiver, playout, mirror.held, nextAct, TRUE),
         ExpireLease(receiver, at).r = receiver,
         IsNext(receiver, Head(pending), playout, mirror.held),
         Applies(Head(pending), ReceiveControl(receiver, Head(pending), at))
  PROVE  /\ StreamInv' /\ Peaceful'
         /\ sinkEnd' = "invalid" =>
              /\ HasAnchor(Head(pending))
              /\ ~Fits(Head(pending).anchor.totals - playout.inj)
<1> DEFINE m == Head(pending)
           o == ReceiveControl(receiver, m, at)
           fails == FollowFails(playout, m, o.e)
           p1 == FollowControl(playout, m, o.e)
           u == IF fails THEN playout ELSE p1
           runs == sinkEnd' = "running"
<1>1. /\ pending \in Seq(Sendable) /\ control \in Seq(Sendable)
      /\ motion \in SUBSET MotionFrame /\ sender \in SenderState
      /\ receiver \in ReceiverState /\ nextAct \in Nat /\ at \in Nat
      /\ receiver.act \in Nat /\ receiver.highest \in Nat /\ Tail(pending) \in Seq(Sendable)
      /\ m \in Sendable /\ m.act \in Nat /\ m.seq \in Nat /\ m.act > 0
      /\ playout \in PlayoutState /\ playout.seq \in Nat /\ playout.mark \in Nat
      /\ mirror.held \in HeldState /\ receiver.ctl \in Nat
      /\ HasAnchor(m) => m.anchor.through \in Nat
  BY StreamFacts, InTail, SendableFields, PlayoutFields, ReceiverFields
<1>2. /\ receiver.act # 0 /\ m.act = receiver.act /\ m.seq = receiver.ctl + 1
      /\ playout.act = receiver.act /\ playout.mark = receiver.ctl
      /\ HasAnchor(m) => playout.seq <= m.anchor.through
  BY DEF IsNext
<1>3. /\ o.e.rejected = "none" /\ o.e.opened = 0
      /\ \/ Shut(receiver, o.r) /\ Calm(o.e)
         \/ /\ o.r.act = receiver.act /\ o.r.highest = receiver.highest /\ o.r.ctl = m.seq
            /\ o.r.inj = IF HasAnchor(m) THEN m.anchor.through ELSE receiver.inj
            /\ Same(o.r.held, m.after.held)
            /\ o.e.reason \in {"none", "LeaseExpired"}
  BY <1>1, ControlNext
<1>4. o.r \in ReceiverState
  BY <1>1, ControlType, OutcomeFields
<1>5. /\ receiver' = o.r /\ pending' = Discard(Tail(pending), receiver.act, o.r.act)
      /\ Records(o.e) /\ UNCHANGED <<control, motion, sender, nextAct>>
      /\ sinkEnd' = (IF fails THEN "invalid" ELSE "running")
      /\ mirror' = m.after /\ playout' = u
  BY <1>3 DEF Applies, Fatal
<1>6. fails => HasAnchor(m) /\ ~Fits(m.anchor.totals - playout.inj)
  BY <1>1, <1>2 DEF FollowFails, RebaseAllowed
<1>7. /\ p1.act = playout.act /\ p1.mark = m.seq
      /\ p1.seq = IF HasAnchor(m) THEN m.anchor.through ELSE playout.seq
      /\ p1.queue = IF HasAnchor(m) THEN {f \in playout.queue : f.seq > m.anchor.through}
                    ELSE playout.queue
  BY <1>1, <1>2, <1>3, FollowNext
<1>8. \A f \in playout.queue : f \in motion /\ f.act = playout.act /\ f.seq > playout.seq
  BY DEF Flow, Motions
<1>9. IsNext(receiver, m, playout, mirror.held)
  OBVIOUS
<1> HIDE DEF o, fails, p1, m
<1>10. \A f \in u.queue : f \in motion /\ f.act = u.act /\ f.seq > u.seq
  BY <1>7, <1>8
<1>11. runs => /\ u.act = playout.act /\ u.mark = m.seq
               /\ u.seq = IF HasAnchor(m) THEN m.anchor.through ELSE playout.seq
  BY <1>5, <1>7
<1> HIDE DEF u
<1>12. Peaceful'
  BY <1>3, <1>5 DEF Records, Peaceful, Calm
<1>13. CASE Shut(receiver, o.r)
  <2>1. receiver.act <= receiver.highest
    BY <1>1 DEF Flow, Order
  <2>2. ~Live(o.r, m.act)
    BY <1>1, <1>2, <1>13, <2>1 DEF Shut, Live
  <2>3. Flow(Tail(pending), control, motion, sender, o.r, playout, mirror.held, nextAct, TRUE)
    BY <1>1, <1>13, <2>2, FlowPop DEF m
  <2>4. receiver.act <= o.r.highest /\ o.r.act = 0
    BY <1>13, <2>1 DEF Shut
  <2>5. Flow(Discard(Tail(pending), receiver.act, o.r.act), control, motion, sender, o.r,
             playout, mirror.held, nextAct, TRUE)
    BY <1>1, <1>4, <2>3, <2>4, FlowDiscard
  <2>6. Flow(Discard(Tail(pending), receiver.act, o.r.act), control, motion, sender, o.r,
             u, m.after.held, nextAct, runs)
    <3>1. Flow(Discard(Tail(pending), receiver.act, o.r.act), control, motion, sender, o.r,
               u, m.after.held, nextAct, TRUE)
      BY <1>10, <2>4, <2>5, FlowClosed
    <3> HIDE DEF runs
    <3> QED BY <3>1 DEF Flow
  <2> QED BY <1>5, <1>6, <1>12, <2>6 DEF StreamInv, m
<1>14. CASE /\ o.r.act = receiver.act /\ o.r.highest = receiver.highest /\ o.r.ctl = m.seq
            /\ o.r.inj = IF HasAnchor(m) THEN m.anchor.through ELSE receiver.inj
            /\ Same(o.r.held, m.after.held)
  <2>1. pending' = Tail(pending)
    BY <1>5, <1>14 DEF Discard
  <2>2. o.r.act = m.act
    BY <1>2, <1>14
  <2>3. m = Head(pending)
    BY DEF m
  <2>4. Flow(Tail(pending), control, motion, sender, o.r, u, m.after.held, nextAct, runs)
    BY <1>1, <1>4, <1>9, <1>10, <1>11, <1>14, <2>2, <2>3, FlowNext
  <2> QED BY <1>5, <1>6, <1>12, <2>1, <2>4 DEF StreamInv, m
<1> QED BY <1>3, <1>13, <1>14

LEMMA StreamApply ==
  ASSUME TypeInv, StreamInv, PhaseInv, Peaceful, ApplyControl
  PROVE  /\ StreamInv' /\ Peaceful'
         /\ sinkEnd' = "invalid" =>
              /\ HasAnchor(Head(pending))
              /\ ~Fits(Head(pending).anchor.totals - playout.inj)
<1> DEFINE m == Head(pending)
           x == ExpireLease(receiver, at)
<1>1. pending # <<>> /\ sinkEnd = "running"
  BY DEF ApplyControl, PhaseInv
<1>2. Applies(m, ReceiveControl(receiver, m, at))
  BY <1>1 DEF ApplyControl, Applies, Bail, source
<1>3. Flow(pending, control, motion, sender, receiver, playout, mirror.held, nextAct, TRUE)
  BY <1>1 DEF StreamInv
<1>4. /\ pending \in Seq(Sendable) /\ control \in Seq(Sendable) /\ receiver \in ReceiverState
      /\ at \in Nat
  BY StreamFacts
<1>5. x.r = receiver \/ Shut(receiver, x.r)
  BY <1>4, Expires
<1>6. \/ IsClosed(x.r, m.act)
      \/ IsFirst(x.r, m)
      \/ x.r = receiver /\ IsNext(receiver, m, playout, mirror.held)
  <2> HIDE DEF x, m
  <2>1. \/ IsClosed(x.r, Head(pending).act)
        \/ IsFirst(x.r, Head(pending))
        \/ x.r = receiver /\ IsNext(receiver, Head(pending), playout, mirror.held)
    BY <1>1, <1>3, <1>4, <1>5, HeadFits
  <2> QED BY <2>1 DEF m
<1>7. CASE IsClosed(x.r, m.act)
  BY <1>1, <1>2, <1>3, <1>7, StreamStale
<1>8. CASE IsFirst(x.r, m)
  BY <1>1, <1>2, <1>3, <1>8, StreamFirst
<1>9. CASE x.r = receiver /\ IsNext(receiver, m, playout, mirror.held)
  BY <1>1, <1>2, <1>3, <1>9, StreamNextControl
<1> QED BY <1>6, <1>7, <1>8, <1>9

LEMMA StreamInit == Init => StreamInv /\ PhaseInv /\ Peaceful
<1> SUFFICES ASSUME Init PROVE StreamInv /\ PhaseInv /\ Peaceful
  OBVIOUS
<1>1. /\ In(pending) = {} /\ In(control) = {} /\ motion = {} /\ playout.queue = {}
      /\ sender.act = 0 /\ receiver.act = 0 /\ receiver.highest = 0 /\ nextAct = 0
      /\ Sorted(pending) /\ Sorted(control)
  BY DEF Init, In, Sorted, NoSender, NewReceiver, NoPlayout
<1>2. AllBefore(In(pending), In(control))
  BY <1>1 DEF AllBefore
<1>3. Order(In(pending) \cup In(control), sender, receiver, nextAct)
  BY <1>1 DEF Order
<1>4. Chain(In(pending) \cup In(control), sender, receiver, mirror.held)
  BY <1>1 DEF Chain
<1>5. /\ Motions(In(pending) \cup In(control), motion, sender, playout, nextAct)
      /\ Touching(In(pending) \cup In(control), motion)
  BY <1>1 DEF Motions, Touching
<1>6. /\ Gapless(In(pending) \cup In(control), sender, receiver)
      /\ Played(In(pending) \cup In(control), sender, receiver, playout)
      /\ Touched(motion, receiver, playout, mirror.held)
  BY <1>1 DEF Gapless, Played, Touched
<1>7. StreamInv
  BY <1>1, <1>2, <1>3, <1>4, <1>5, <1>6 DEF StreamInv, Flow
<1>8. PhaseInv /\ Peaceful
  BY DEF Init, PhaseInv, Peaceful, NoEffects
<1> QED BY <1>7, <1>8

LEMMA StreamNext ==
  ASSUME TypeInv, StreamInv, PhaseInv, Peaceful, [Next]_vars
  PROVE  StreamInv' /\ Peaceful'
<1>1. CASE SourceNext \/ NetworkLoss \/ Advance
  BY <1>1, StreamSource, SourceLeaves DEF Peaceful
<1>2. CASE RecvControl \/ RecvMotion
  <2>1. closedBy' = closedBy
    BY <1>2 DEF RecvControl, RecvMotion, history
  <2> QED BY <1>2, <2>1, StreamRecvControl, StreamRecvMotion DEF Peaceful
<1> QED BY <1>1, <1>2, StreamTick, StreamPoll, StreamApply, StreamQuiet, StreamCleanup
        DEF Next, SinkNext

(* What the receiver holds is a state the sender was in: the one right after    *)
(* the last control applied.  No loss, delay or reordering of motion datagrams, *)
(* no expired lease and no overflow makes the two ends hold different keys.     *)
THEOREM HeldIsPrefix == Spec => []HeldMatchesPrefix
<1>1. StreamInv => HeldMatchesPrefix
  BY DEF StreamInv, Flow, Chain, Same, HeldMatchesPrefix
<1> QED BY <1>1, TypeInit, TypeNext, StreamInit, StreamNext, PhaseNext, PTL DEF Spec

-----------------------------------------------------------------------------
(* What the devices hold *)

(* A part of a captured frame changes no key or button, no acknowledgement, and *)
(* sends no snapshot; a transition changes only its member.                     *)
Grows(x, y) ==
  /\ y.s.act = x.s.act /\ y.s.ctl >= x.s.ctl
  /\ y.s.pending = x.s.pending /\ y.s.acked = x.s.acked
  /\ \A m \in In(y.ctl) : m \in In(x.ctl) \/ m.kind # "StateSnapshot"

SameKeys(s, s1) == s1.held.keys = s.held.keys /\ s1.held.buttons = s.held.buttons

LEMMA GrowsOn ==
  ASSUME NEW x, NEW y, NEW z, x.s.ctl \in Nat, y.s.ctl \in Nat, z.s.ctl \in Nat,
         Grows(x, y), Grows(y, z)
  PROVE  Grows(x, z)
<1>1. z.s.ctl >= x.s.ctl
  BY DEF Grows
<1>2. /\ z.s.act = x.s.act /\ z.s.pending = x.s.pending /\ z.s.acked = x.s.acked
      /\ \A m \in In(z.ctl) : m \in In(x.ctl) \/ m.kind # "StateSnapshot"
  BY DEF Grows
<1> QED BY <1>1, <1>2 DEF Grows

LEMMA ControlGrows ==
  ASSUME NEW x \in Outbox, NEW s \in SenderState, NEW m \in Sendable,
         s.act = x.s.act, s.ctl = x.s.ctl, s.pending = x.s.pending, s.acked = x.s.acked,
         m.kind # "StateSnapshot"
  PROVE  Grows(x, SendControl(x, s, m)) /\ SendControl(x, s, m).s.held = s.held
<1>1. /\ Sent(s).act = s.act /\ Sent(s).ctl = s.ctl + 1 /\ Sent(s).pending = s.pending
      /\ Sent(s).acked = s.acked /\ Sent(s).held = s.held
  BY SentFields
<1>2. x.s.ctl \in Nat /\ x.ctl \in Seq(Sendable)
  BY OutboxFields
<1>3. In(Append(x.ctl, m)) = In(x.ctl) \cup {m}
  BY <1>2, InAppend
<1> DEFINE y == SendControl(x, s, m)
<1>4. y.s = Sent(s) /\ y.ctl = Append(x.ctl, m)
  BY DEF SendControl
<1> HIDE DEF y
<1>5. Grows(x, y) /\ y.s.held = s.held
  BY <1>1, <1>2, <1>3, <1>4 DEF Grows
<1> QED BY <1>5 DEF y

LEMMA SendsGrow ==
  ASSUME NEW x \in Outbox, NEW y
  PROVE  /\ Sends(x, y) => Grows(x, y) /\ SameKeys(x.s, y.s)
         /\ Turns(x, y) => Grows(x, y)
<1>0. x.s \in SenderState /\ x.s.act > 0 /\ x.s.ctl > 0 /\ x.s.held \in HeldState /\ x.s.ctl \in Nat
  BY OutboxFields
<1>1. CASE y = x
  BY <1>0, <1>1 DEF Grows, SameKeys, Turns
<1>2. ASSUME Begins(x, y)
      PROVE  Grows(x, y) /\ SameKeys(x.s, y.s)
  <2>1. PICK t \in Touches : y = SendControl(x, TouchBegin(x.s, t), TouchBeginMessage(x.s, t))
    BY <1>2 DEF Begins
  <2>2. TouchBegin(x.s, t) \in SenderState /\ TouchBeginMessage(x.s, t) \in Sendable
    BY <1>0, SenderTypes, SendableMessages DEF TouchStates
  <2>3. /\ TouchBegin(x.s, t).act = x.s.act /\ TouchBegin(x.s, t).ctl = x.s.ctl
        /\ TouchBegin(x.s, t).pending = x.s.pending /\ TouchBegin(x.s, t).acked = x.s.acked
        /\ SameKeys(x.s, TouchBegin(x.s, t))
    BY <1>0 DEF TouchBegin, SenderState, HeldState, SameKeys
  <2>4. TouchBeginMessage(x.s, t).kind # "StateSnapshot"
    BY DEF TouchBeginMessage, Message
  <2> QED BY <2>1, <2>2, <2>3, <2>4, ControlGrows DEF SameKeys
<1>3. ASSUME Ends(x, y)
      PROVE  Grows(x, y) /\ SameKeys(x.s, y.s)
  <2>1. y = SendControl(x, TouchEnd(x.s), TouchEndMessage(x.s))
    BY <1>3 DEF Ends
  <2>2. TouchEnd(x.s) \in SenderState /\ TouchEndMessage(x.s) \in Sendable
    BY <1>0, SenderTypes, SendableMessages
  <2>3. /\ TouchEnd(x.s).act = x.s.act /\ TouchEnd(x.s).ctl = x.s.ctl
        /\ TouchEnd(x.s).pending = x.s.pending /\ TouchEnd(x.s).acked = x.s.acked
        /\ SameKeys(x.s, TouchEnd(x.s))
    BY <1>0 DEF TouchEnd, SenderState, HeldState, SameKeys
  <2>4. TouchEndMessage(x.s).kind # "StateSnapshot"
    BY DEF TouchEndMessage, Message
  <2> QED BY <2>1, <2>2, <2>3, <2>4, ControlGrows DEF SameKeys
<1>4. ASSUME Moves(x, y)
      PROVE  Grows(x, y) /\ SameKeys(x.s, y.s)
  <2>1. PICK d \in Int, t \in TouchStates : y = SendMotion(x, d, t)
    BY <1>4 DEF Moves
  <2>2. y.s = CaptureMotion(x.s, d, t, now) /\ y.ctl = x.ctl
    BY <2>1 DEF SendMotion
  <2>3. /\ y.s.act = x.s.act /\ y.s.ctl = x.s.ctl
        /\ y.s.pending = x.s.pending /\ y.s.acked = x.s.acked
        /\ SameKeys(x.s, y.s)
    BY <1>0, <2>2 DEF CaptureMotion, SenderState, HeldState, SameKeys
  <2> QED BY <1>0, <2>2, <2>3 DEF Grows
<1>5. ASSUME Turns(x, y)
      PROVE  Grows(x, y)
  <2>1. PICK m \in Members, b \in BOOLEAN :
          y = SendControl(x, Transition(x.s, m, b), TransitionMessage(x.s, m, b))
    BY <1>5 DEF Turns, SendTransition
  <2>2. Transition(x.s, m, b) \in SenderState /\ TransitionMessage(x.s, m, b) \in Sendable
    BY <1>0, SenderTypes, SendableMessages
  <2>3. /\ Transition(x.s, m, b).act = x.s.act /\ Transition(x.s, m, b).ctl = x.s.ctl
        /\ Transition(x.s, m, b).pending = x.s.pending
        /\ Transition(x.s, m, b).acked = x.s.acked
    BY <1>0 DEF Transition, SenderState
  <2>4. TransitionMessage(x.s, m, b).kind # "StateSnapshot"
    BY DEF TransitionMessage, Message
  <2> QED BY <2>1, <2>2, <2>3, <2>4, ControlGrows
<1> QED BY <1>1, <1>2, <1>3, <1>4, <1>5 DEF Sends

LEMMA TransitionHolds ==
  ASSUME NEW s \in SenderState, NEW m \in Members, NEW b \in BOOLEAN, NEW k
  PROVE  /\ Sent(Transition(s, m, b)).held = Transition(s, m, b).held
         /\ Holds(Transition(s, m, b).held, k) <=> (k = m /\ b) \/ (k # m /\ Holds(s.held, k))
<1>1. Transition(s, m, b) \in SenderState
  BY SenderTypes
<1>2. Sent(Transition(s, m, b)).held = Transition(s, m, b).held
  BY <1>1, SentFields
<1>3. /\ s.held \in HeldState
      /\ Transition(s, m, b).held = IF b THEN Press(s.held, m) ELSE Release(s.held, m)
  BY DEF Transition, SenderState
<1>4. /\ Holds(Press(s.held, m), k) <=> k = m \/ Holds(s.held, k)
      /\ Holds(Release(s.held, m), k) <=> k # m /\ Holds(s.held, k)
  BY <1>3 DEF Holds, Press, Release, HeldState, Members
<1> QED BY <1>2, <1>3, <1>4

(* The sender holds what some device holds. *)
UnionInv ==
  sender.act # 0 => \A k : Holds(sender.held, k) <=> HeldByAny(merger, k)

LEMMA MergeHolds ==
  ASSUME NEW mg \in [Devices -> SUBSET Members], NEW d \in Devices,
         NEW m \in Members \cup {NoMember}, NEW b \in BOOLEAN, NEW k
  PROVE  LET mg1 == Merge(mg, d, m, b)
         IN  /\ k # m => (HeldByAny(mg1, k) <=> HeldByAny(mg, k))
             /\ m = NoMember => mg1 = mg
             /\ m # NoMember /\ b => HeldByAny(mg1, m)
             /\ m # NoMember /\ ~b /\ HeldByAny(mg1, m) => HeldByAny(mg, m)
BY DEF Merge, HeldByAny

(* With the union, a transition that changes it is one the sender allows. *)
LEMMA CaptureResult ==
  ASSUME TypeInv, UnionInv, Capture
  PROVE  /\ UnionInv'
         /\ \/ /\ sender' = NoSender /\ srcEnd' = "overflow"
               /\ \A m \in In(control') : m \in In(control) \/ m.kind # "StateSnapshot"
            \/ /\ UNCHANGED srcEnd
               /\ Grows([s |-> sender, ctl |-> control], [s |-> sender', ctl |-> control'])
<1> USE TypeFacts
<1>1. PICK device \in Devices, delta \in Deltas, touch \in TouchStates \cup {"none"},
           member \in Members \cup {NoMember}, pressed \in BOOLEAN :
             CaptureOf(device, delta, touch, member, pressed)
  BY CaptureInputs
<1> DEFINE merged == Merge(merger, device, member, pressed)
           changed == HeldByAny(merger, member) # HeldByAny(merged, member)
           start == [s |-> sender, ctl |-> control, mot |-> motion]
           moved == SendTouchAndMotion(start, delta, touch)
           turned == SendTransition(moved, member, pressed)
           done == IF changed THEN turned ELSE moved
           overflow == ~Fits(sender.totals + delta)
           invalid == changed /\ ~TransitionAllowed(moved.s, member, pressed)
           begins == sender.held.touch = NoTouch /\ touch \in Touches
<1>2. sender.act # 0
  BY <1>1 DEF CaptureOf
<1>3. start \in Outbox /\ start.s = sender /\ start.ctl = control
  BY <1>2, StartOutbox
<1>4. CASE overflow
  <2>1. /\ control' = IF begins THEN Append(control, TouchBeginMessage(sender, touch)) ELSE control
        /\ SourceEnds("overflow")
    BY <1>1, <1>4 DEF CaptureOf
  <2>2. begins => In(Append(control, TouchBeginMessage(sender, touch)))
                    = In(control) \cup {TouchBeginMessage(sender, touch)}
    <3>1. begins => TouchBeginMessage(sender, touch) \in Sendable
      BY <1>2, SendableMessages
    <3> QED BY <3>1, InAppend
  <2>3. TouchBeginMessage(sender, touch).kind # "StateSnapshot"
    BY DEF TouchBeginMessage, Message
  <2>4. sender' = NoSender /\ srcEnd' = "overflow" /\ sender'.act = 0
    BY <2>1 DEF SourceEnds, NoSender
  <2> QED BY <2>1, <2>2, <2>3, <2>4 DEF UnionInv
<1>5. CASE ~overflow
  <2>1. PICK y : Sends(start, y) /\ Sends(y, moved)
    BY <1>3, <1>5, FrameSends
  <2> HIDE DEF start, moved
  <2>2. y \in Outbox /\ moved \in Outbox
    BY <1>3, <2>1, SendsOutbox
  <2>3. Grows(start, y) /\ Grows(y, moved) /\ SameKeys(sender, moved.s)
    BY <1>3, <2>1, <2>2, SendsGrow DEF SameKeys
  <2>4. /\ start.s.ctl \in Nat /\ y.s.ctl \in Nat /\ moved.s.ctl \in Nat
        /\ moved.s \in SenderState /\ moved.s.act # 0
    BY <1>3, <2>2, OutboxFields
  <2>5. Grows(start, moved)
    BY <2>3, <2>4, GrowsOn
  <2>6. \A k : Holds(moved.s.held, k) <=> HeldByAny(merger, k)
    BY <1>2, <2>3 DEF SameKeys, Holds, UnionInv
  <2>7. \A k : k # member => (HeldByAny(merged, k) <=> HeldByAny(merger, k))
    BY MergeHolds
  <2>8. /\ changed => member \in Members
        /\ changed => (pressed <=> HeldByAny(merged, member))
        /\ changed => (pressed <=> ~HeldByAny(merger, member))
    <3>1. /\ member = NoMember => merged = merger
          /\ member # NoMember /\ pressed => HeldByAny(merged, member)
          /\ member # NoMember /\ ~pressed /\ HeldByAny(merged, member) => HeldByAny(merger, member)
      BY MergeHolds
    <3>2. HeldByAny(merged, member) \in BOOLEAN /\ HeldByAny(merger, member) \in BOOLEAN
      BY DEF HeldByAny
    <3> HIDE DEF merged
    <3> QED BY <3>1, <3>2
  <2>9. changed => TransitionAllowed(moved.s, member, pressed)
    <3>1. (Holds(moved.s.held, member) <=> HeldByAny(merger, member))
            /\ Holds(moved.s.held, member) \in BOOLEAN
      BY <2>6 DEF Holds
    <3> HIDE DEF changed
    <3> QED BY <2>8, <3>1 DEF TransitionAllowed
  <2>10. /\ sender' = done.s /\ control' = done.ctl /\ merger' = merged /\ UNCHANGED srcEnd
    BY <1>1, <1>5, <2>9 DEF CaptureOf, moved, start
  <2>11. Grows(start, done)
    <3>1. changed => Turns(moved, turned)
      BY <2>8, <2>9 DEF Turns
    <3>2. changed => Grows(moved, turned) /\ turned \in Outbox
      BY <2>2, <3>1, SendsGrow, SendsOutbox
    <3>3. changed => turned.s.ctl \in Nat
      BY <3>2, OutboxFields
    <3> HIDE DEF changed, turned
    <3>4. changed => Grows(start, turned)
      BY <2>4, <2>5, <3>2, <3>3, GrowsOn
    <3> QED BY <2>5, <3>4
  <2>12. \A k : Holds(done.s.held, k) <=> HeldByAny(merged, k)
    <3>1. CASE changed
      <4>1. turned.s = Sent(Transition(moved.s, member, pressed))
        BY DEF SendTransition, SendControl
      <4>2. member \in Members /\ (pressed <=> HeldByAny(merged, member))
        BY <2>8, <3>1
      <4>4. done = turned
        BY <3>1
      <4> HIDE DEF done, turned, merged
      <4>3. ASSUME NEW k
            PROVE  /\ turned.s.held = Transition(moved.s, member, pressed).held
                   /\ Holds(Transition(moved.s, member, pressed).held, k)
                        <=> (k = member /\ pressed) \/ (k # member /\ Holds(moved.s.held, k))
        <5>1. moved.s \in SenderState /\ member \in Members /\ pressed \in BOOLEAN
          BY <2>4, <4>2
        <5>2. /\ Sent(Transition(moved.s, member, pressed)).held
                   = Transition(moved.s, member, pressed).held
              /\ Holds(Transition(moved.s, member, pressed).held, k)
                   <=> (k = member /\ pressed) \/ (k # member /\ Holds(moved.s.held, k))
          BY ONLY <5>1, TransitionHolds, Zenon
        <5> QED BY <4>1, <5>2
      <4> QED BY <2>6, <2>7, <4>2, <4>3, <4>4
    <3>2. CASE ~changed
      <4>1. done = moved /\ (HeldByAny(merged, member) <=> HeldByAny(merger, member))
        BY <3>2
      <4> HIDE DEF done, merged
      <4> QED BY <2>6, <2>7, <4>1
    <3> QED BY <3>1, <3>2
  <2> HIDE DEF done, merged
  <2>13. UnionInv'
    BY <2>10, <2>12 DEF UnionInv, Holds, HeldByAny
  <2>14. Grows([s |-> sender, ctl |-> control], [s |-> sender', ctl |-> control'])
    BY <1>3, <2>10, <2>11 DEF Grows
  <2> QED BY <2>10, <2>13, <2>14
<1> QED BY <1>4, <1>5

LEMMA UnionNext ==
  ASSUME TypeInv, UnionInv, [Next]_vars
  PROVE  UnionInv'
<1>1. CASE Capture
  BY <1>1, CaptureResult
<1>2. CASE BeginOutbound
  <2> DEFINE s == NewSender(nextAct + 1, now)
  <2>1. s.held = Neutral /\ s \in SenderState
    <3>1. s.held = Neutral
      BY DEF NewSender, NoSender
    <3>2. nextAct + 1 \in Nat /\ now \in Nat /\ sender \in SenderState
      BY TypeFacts
    <3> QED BY <3>1, <3>2, SenderTypes
  <2>2. sender' = Sent(s) /\ merger' = [d \in Devices |-> {}]
    BY <1>2 DEF BeginOutbound
  <2> HIDE DEF s
  <2>3. sender'.held = Neutral
    BY <2>1, <2>2, SentFields
  <2> QED BY <2>2, <2>3 DEF UnionInv, Holds, HeldByAny, Neutral
<1>3. CASE EndOutbound \/ SourceClose \/ SourceLost
  <2>1. sender'.act = 0
    BY <1>3 DEF EndOutbound, SourceClose, SourceLost, SourceEnds, NoSender
  <2> QED BY <2>1 DEF UnionInv
<1>4. CASE SourceTick
  <2>1. \/ sender'.act = 0
        \/ sender' = Sent(Snapshot(sender, now)) /\ merger' = merger
    BY <1>4 DEF SourceTick, SourceEnds, NoSender
  <2>2. /\ sender \in SenderState /\ now \in Nat
        /\ sender' = Sent(Snapshot(sender, now)) =>
             sender'.act = sender.act /\ sender'.held = sender.held
    BY TypeFacts DEF Sent, Snapshot, SenderState
  <2> QED BY <2>1, <2>2 DEF UnionInv, Holds, HeldByAny
<1>5. CASE ReceiveAck
  <2>1. \/ sender'.act = 0
        \/ /\ sender' = sender \/ sender' = Acknowledge(sender, Head(acks).seq)
           /\ merger' = merger
    BY <1>5 DEF ReceiveAck, SourceEnds, NoSender
  <2>2. /\ sender \in SenderState
        /\ Acknowledge(sender, Head(acks).seq).act = sender.act
        /\ Acknowledge(sender, Head(acks).seq).held = sender.held
    BY TypeFacts DEF Acknowledge, SenderState
  <2> QED BY <2>1, <2>2 DEF UnionInv, Holds, HeldByAny
<1>6. CASE SinkNext \/ NetworkLoss \/ Advance \/ Finished \/ UNCHANGED vars
  <2>1. UNCHANGED <<sender, merger>>
    BY <1>6 DEF SinkNext, RecvControl, RecvMotion, InboundTick, PollPlayout, DrainEnds,
         ApplyControl, BackendApplies, BackendRejects, SinkClose, SinkLost, Cleanup,
         NetworkLoss, Advance, Finished, vars, source
  <2> QED BY <2>1 DEF UnionInv, HeldByAny
<1> QED BY <1>1, <1>2, <1>3, <1>4, <1>5, <1>6 DEF Next, SourceNext

LEMMA UnionInit == Init => UnionInv
BY DEF Init, UnionInv, NoSender

(* Every key or button that some device holds is held at the sender, once, and  *)
(* nothing else is: two devices that hold the same key and release it in any    *)
(* order leave no key down and release none early.                              *)
THEOREM SenderHoldsUnion == Spec => []HeldIsUnion
<1>1. TypeInv /\ UnionInv => HeldIsUnion
  <2> SUFFICES ASSUME TypeInv, UnionInv, sender.act # 0
               PROVE  sender.held.keys \cup sender.held.buttons = UNION {merger[d] : d \in Devices}
    BY DEF HeldIsUnion
  <2> QED BY DEF UnionInv, Holds, HeldByAny
<1> QED BY <1>1, TypeInit, TypeNext, UnionInit, UnionNext, PTL DEF Spec

(* The peer sees one held set, whatever devices press and release its keys.     *)
THEOREM DevicesMerged == Spec => []MergesDevices
<1>1. HeldIsUnion /\ HeldMatchesPrefix => MergesDevices
  BY DEF MergesDevices
<1> QED BY <1>1, HeldIsPrefix, SenderHoldsUnion, PTL

-----------------------------------------------------------------------------
(* Acknowledgements *)

(* If it is about the sender's activation, the sender knows of that snapshot. *)
Recorded(s, act, seq) == act = s.act => KnownAck(s, seq)

Bounded(s) ==
  /\ s.acked <= s.ctl
  /\ \A q \in s.pending : s.acked < q.seq /\ q.seq <= s.ctl

(* Snapshots under way, acknowledgements under way, and the one that waits for  *)
(* the backend are all recorded at the source, so none ends it as invalid.      *)
AckInv ==
  /\ srcEnd # "invalid"
  /\ Bounded(sender)
  /\ \A m \in In(pending) \cup In(control) :
       m.kind = "StateSnapshot" => Recorded(sender, m.act, m.seq)
  /\ \A a \in In(acks) : a.act \in 1 .. nextAct /\ Recorded(sender, a.act, a.seq)
  /\ batch.ack # 0 => receiver.act # 0 /\ Recorded(sender, receiver.act, batch.ack)

LEMMA AckTypes ==
  ASSUME TypeInv
  PROVE  /\ \A m \in In(pending) \cup In(control) :
              m.act \in Nat /\ m.act > 0 /\ m.act # 0 /\ m.seq \in Nat
         /\ \A a \in In(acks) : a.act \in Nat /\ a.seq \in Nat
         /\ batch.ack \in Nat
<1>1. In(pending) \subseteq Sendable /\ In(control) \subseteq Sendable
  BY TypeFacts, InType
<1>2. In(acks) \subseteq [act: Nat, seq: Nat]
  BY TypeFacts, InType
<1>3. batch.ack \in Nat
  BY TypeFacts DEF Effects
<1>4. \A m \in Sendable : m.act \in Nat /\ m.act > 0 /\ m.act # 0 /\ m.seq \in Nat
  BY SendableFields
<1> QED BY <1>1, <1>2, <1>3, <1>4

(* A step of the source: it forgets no snapshot of an activation it still has. *)
LEMMA AckKeeps ==
  ASSUME TypeInv, TypeInv', AckInv, SinkStays, batch' = batch, nextAct' = nextAct,
         In(acks') \subseteq In(acks), srcEnd' # "invalid", Bounded(sender'),
         \/ sender'.act = 0
         \/ /\ sender'.act = sender.act
            /\ \A n \in Nat : KnownAck(sender, n) => KnownAck(sender', n),
         \A m \in In(control') : m.kind = "StateSnapshot" =>
           m \in In(control) \/ Recorded(sender', m.act, m.seq)
  PROVE  AckInv'
<1>1. /\ pending' = pending /\ receiver' = receiver
  BY DEF SinkStays
<1>2. \A act, n \in Nat : act # 0 /\ Recorded(sender, act, n) => Recorded(sender', act, n)
  BY DEF Recorded
<1>3. \A m \in In(pending) \cup In(control) : m.act \in Nat /\ m.act # 0 /\ m.seq \in Nat
  BY AckTypes
<1>4. /\ \A a \in In(acks) : a.act \in Nat /\ a.seq \in Nat
      /\ batch.ack \in Nat /\ receiver.act \in Nat /\ nextAct \in Nat
  BY AckTypes, TypeFacts
<1>5. \A m \in In(pending') \cup In(control') :
        m.kind = "StateSnapshot" => Recorded(sender', m.act, m.seq)
  BY <1>1, <1>2, <1>3 DEF AckInv
<1>6. \A a \in In(acks') : a.act \in 1 .. nextAct /\ Recorded(sender', a.act, a.seq)
  <2> SUFFICES ASSUME NEW a \in In(acks')
               PROVE  a.act \in 1 .. nextAct /\ Recorded(sender', a.act, a.seq)
    OBVIOUS
  <2>1. a.act \in 1 .. nextAct /\ Recorded(sender, a.act, a.seq)
    BY DEF AckInv
  <2>2. a.act # 0 /\ a.act \in Nat /\ a.seq \in Nat
    BY <1>4, <2>1
  <2> QED BY <1>2, <2>1, <2>2
<1>7. batch.ack # 0 => receiver.act # 0 /\ Recorded(sender', receiver.act, batch.ack)
  BY <1>2, <1>4 DEF AckInv
<1> QED BY <1>1, <1>5, <1>6, <1>7 DEF AckInv, In

LEMMA NoSenderBounded == Bounded(NoSender) /\ NoSender.act = 0
BY DEF Bounded, NoSender

LEMMA AckSource ==
  ASSUME TypeInv, TypeInv', StreamInv, UnionInv, AckInv, SourceNext \/ NetworkLoss \/ Advance
  PROVE  AckInv'
<1> USE NoSenderBounded
<1>1. SinkStays /\ batch' = batch
  BY SourceLeaves
<1>2. sender \in SenderState /\ now \in Nat /\ nextAct \in Nat /\ control \in Seq(Sendable)
      /\ sender.ctl \in Nat /\ sender.acked \in Nat /\ \A q \in sender.pending : q.seq \in Nat
  BY TypeFacts DEF SenderState, PendingSnapshot
<1>3. CASE Capture
  <2>1. acks' = acks /\ nextAct' = nextAct
    BY <1>3 DEF Capture
  <2>2. CASE /\ sender' = NoSender /\ srcEnd' = "overflow"
             /\ \A m \in In(control') : m \in In(control) \/ m.kind # "StateSnapshot"
    BY <1>1, <2>1, <2>2, AckKeeps
  <2>3. CASE /\ UNCHANGED srcEnd
             /\ Grows([s |-> sender, ctl |-> control], [s |-> sender', ctl |-> control'])
    <3>1. /\ sender'.act = sender.act /\ sender'.ctl >= sender.ctl
          /\ sender'.pending = sender.pending /\ sender'.acked = sender.acked
          /\ \A m \in In(control') : m \in In(control) \/ m.kind # "StateSnapshot"
      BY <2>3 DEF Grows
    <3>2. \A n : KnownAck(sender, n) => KnownAck(sender', n)
      BY <3>1 DEF KnownAck
    <3>3. sender'.ctl \in Nat
      BY DEF TypeInv, TypeOK, SenderState
    <3>4. Bounded(sender')
      BY <1>2, <3>1, <3>3 DEF Bounded, AckInv
    <3>5. srcEnd' # "invalid"
      BY <2>3 DEF AckInv
    <3> QED BY <1>1, <2>1, <3>1, <3>2, <3>4, <3>5, AckKeeps
  <2> QED BY <1>3, <2>2, <2>3, CaptureResult
<1>4. CASE BeginOutbound
  <2> DEFINE s == NewSender(nextAct + 1, now)
             m == EnterMessage(s)
  <2>1. /\ sender' = Sent(s) /\ control' = Append(control, m) /\ nextAct' = nextAct + 1
        /\ acks' = acks /\ srcEnd' = srcEnd
    BY <1>4 DEF BeginOutbound
  <2>2. s.act = nextAct + 1 /\ s.ctl = 0 /\ s.acked = 0 /\ s.pending = {} /\ s.held = Neutral
    BY DEF NewSender, NoSender
  <2>3. s \in SenderState
    <3>1. nextAct + 1 \in Nat
      BY <1>2
    <3> QED BY <1>2, <3>1, SenderTypes
  <2>4. m.kind = "Enter"
    BY DEF EnterMessage, Message
  <2>5. m \in Sendable
    BY <1>2, <2>2, <2>3, SendableMessages
  <2> HIDE DEF s, m
  <2>6. sender'.act = nextAct + 1 /\ sender'.ctl = 1 /\ sender'.acked = 0 /\ sender'.pending = {}
    BY <2>1, <2>2, <2>3, SentFields
  <2>7. In(control') = In(control) \cup {m}
    BY <1>2, <2>1, <2>5, InAppend
  <2>8. Bounded(sender')
    BY <2>6 DEF Bounded
  <2>9. \A k \in In(pending) \cup In(control) : k.act <= nextAct
    BY DEF StreamInv, Flow, Order
  <2>10. receiver.act <= nextAct
    BY <1>2, TypeFacts, ReceiverFields DEF StreamInv, Flow, Order
  <2>11. \A act \in Nat : act <= nextAct => act # sender'.act
    BY <1>2, <2>6
  <2>12. \A k \in In(pending') \cup In(control') :
           k.kind = "StateSnapshot" => Recorded(sender', k.act, k.seq)
    BY <1>1, <2>4, <2>7, <2>9, <2>11, AckTypes DEF Recorded, SinkStays
  <2>13. \A a \in In(acks) : a.act \in 1 .. nextAct + 1 /\ Recorded(sender', a.act, a.seq)
    <3> SUFFICES ASSUME NEW a \in In(acks)
                 PROVE  a.act \in 1 .. nextAct + 1 /\ Recorded(sender', a.act, a.seq)
      OBVIOUS
    <3>1. a.act \in 1 .. nextAct /\ a.act \in Nat
      BY AckTypes DEF AckInv
    <3> QED BY <1>2, <2>11, <3>1 DEF Recorded
  <2>14. batch.ack # 0 => receiver.act # 0 /\ Recorded(sender', receiver.act, batch.ack)
    BY <2>10, <2>11, TypeFacts DEF AckInv, Recorded
  <2> QED BY <1>1, <2>1, <2>8, <2>12, <2>13, <2>14 DEF AckInv, In, SinkStays
<1>5. CASE EndOutbound
  <2> DEFINE m == LeaveMessage(sender, "LocalRelease")
  <2>1. /\ acks' = acks /\ nextAct' = nextAct /\ srcEnd' = srcEnd /\ sender' = NoSender
        /\ control' = Append(control, m) /\ sender.act # 0
    BY <1>5 DEF EndOutbound
  <2>2. m.kind # "StateSnapshot"
    BY DEF LeaveMessage, Message
  <2>3. m \in Sendable
    BY <2>1, TypeFacts, SendableMessages
  <2> HIDE DEF m
  <2>4. In(control') = In(control) \cup {m}
    BY <1>2, <2>1, <2>3, InAppend
  <2>5. srcEnd' # "invalid"
    BY <2>1 DEF AckInv
  <2> QED BY <1>1, <2>1, <2>2, <2>4, <2>5, AckKeeps
<1>6. CASE SourceTick
  <2>1. acks' = acks /\ nextAct' = nextAct /\ sender.act # 0
    BY <1>6 DEF SourceTick
  <2>2. CASE /\ control' = Append(control, TimeoutCloseMessage(sender)) /\ sender' = NoSender
             /\ UNCHANGED srcEnd
    <3> DEFINE m == TimeoutCloseMessage(sender)
    <3>1. m.kind # "StateSnapshot"
      BY DEF TimeoutCloseMessage, Message
    <3>2. m \in Sendable
      BY <2>1, TypeFacts, SendableMessages
    <3>3. control' = Append(control, m) /\ srcEnd' # "invalid"
      BY <2>2 DEF AckInv
    <3> HIDE DEF m
    <3>4. In(control') = In(control) \cup {m}
      BY <1>2, <3>2, <3>3, InAppend
    <3> QED BY <1>1, <2>1, <2>2, <3>1, <3>3, <3>4, AckKeeps
  <2>3. CASE /\ control' = Append(control, SnapshotMessage(sender))
             /\ sender' = Sent(Snapshot(sender, now))
             /\ UNCHANGED srcEnd
    <3> DEFINE m == SnapshotMessage(sender)
    <3>1. m.act = sender.act /\ m.seq = sender.ctl + 1
      BY DEF SnapshotMessage, Message
    <3>2. m \in Sendable
      BY <2>1, TypeFacts, SendableMessages
    <3>3. control' = Append(control, m) /\ srcEnd' # "invalid"
      BY <2>3 DEF AckInv
    <3> HIDE DEF m
    <3>4. In(control') = In(control) \cup {m}
      BY <1>2, <3>2, <3>3, InAppend
    <3>5. /\ sender'.act = sender.act /\ sender'.acked = sender.acked
          /\ sender'.ctl = sender.ctl + 1
          /\ sender'.pending = sender.pending
               \cup {[seq |-> sender.ctl + 1, deadline |-> now + Lease]}
      BY <1>2, <2>3 DEF Sent, Snapshot, SenderState
    <3>6. \A n : KnownAck(sender, n) => KnownAck(sender', n)
      BY <3>5 DEF KnownAck
    <3>7. KnownAck(sender', sender.ctl + 1)
      <4> DEFINE q == [seq |-> sender.ctl + 1, deadline |-> now + Lease]
      <4>1. q \in sender'.pending /\ q.seq = sender.ctl + 1
        BY <3>5
      <4> HIDE DEF q
      <4> QED BY <4>1 DEF KnownAck
    <3>8. Bounded(sender')
      <4>1. Bounded(sender)
        BY DEF AckInv
      <4>2. sender'.acked <= sender'.ctl
        BY <1>2, <3>5, <4>1 DEF Bounded
      <4>3. ASSUME NEW q \in sender'.pending
            PROVE  sender'.acked < q.seq /\ q.seq <= sender'.ctl
        <5>1. CASE q \in sender.pending
          BY <1>2, <3>5, <4>1, <5>1 DEF Bounded
        <5>2. CASE q = [seq |-> sender.ctl + 1, deadline |-> now + Lease]
          BY <1>2, <3>5, <4>1, <5>2 DEF Bounded
        <5> QED BY <3>5, <5>1, <5>2
      <4> QED BY <4>2, <4>3 DEF Bounded
    <3>9. Recorded(sender', m.act, m.seq)
      BY <3>1, <3>7 DEF Recorded
    <3> QED BY <1>1, <2>1, <3>3, <3>4, <3>5, <3>6, <3>8, <3>9, AckKeeps
  <2>4. CASE sender' = NoSender /\ srcEnd' = "limit" /\ UNCHANGED control
    BY <1>1, <2>1, <2>4, AckKeeps
  <2> QED BY <1>6, <2>2, <2>3, <2>4 DEF SourceTick, SourceEnds
<1>7. CASE ReceiveAck
  <2> DEFINE a == Head(acks)
             Ack == [act: Nat, seq: Nat]
  <2>1. /\ acks # <<>> /\ acks' = Tail(acks) /\ nextAct' = nextAct /\ control' = control
    BY <1>7 DEF ReceiveAck
  <2>2. acks \in Seq(Ack)
    BY TypeFacts
  <2> HIDE DEF Ack
  <2>3. In(acks) = {a} \cup In(acks') /\ a \in Ack
    BY <2>1, <2>2, InTail
  <2>4. Recorded(sender, a.act, a.seq) /\ a.seq \in Nat
    BY <2>3 DEF AckInv, Ack
  <2>5. \/ sender' = sender /\ srcEnd' = srcEnd
        \/ sender' = Acknowledge(sender, a.seq) /\ srcEnd' = srcEnd
    BY <1>7, <2>4 DEF ReceiveAck, Recorded
  <2> HIDE DEF a
  <2>6. /\ sender'.act = sender.act
        /\ Bounded(sender')
        /\ \A n \in Nat : KnownAck(sender, n) => KnownAck(sender', n)
    <3>1. Bounded(sender)
      BY DEF AckInv
    <3>2. CASE sender' = sender
      BY <3>1, <3>2
    <3>3. CASE sender' = Acknowledge(sender, a.seq) /\ \E p \in sender.pending : p.seq = a.seq
      <4>1. /\ sender'.act = sender.act /\ sender'.ctl = sender.ctl
            /\ sender'.acked = a.seq
            /\ sender'.pending = {p \in sender.pending : p.seq > a.seq}
        BY <1>2, <3>3 DEF Acknowledge, SenderState
      <4>2. sender.acked < a.seq /\ a.seq <= sender.ctl
        BY <3>1, <3>3 DEF Bounded
      <4>3. Bounded(sender')
        BY <1>2, <2>4, <3>1, <4>1, <4>2 DEF Bounded
      <4>4. ASSUME NEW n \in Nat, KnownAck(sender, n)
            PROVE  KnownAck(sender', n)
        BY <1>2, <2>4, <4>1, <4>2, <4>4 DEF KnownAck
      <4> QED BY <4>1, <4>3, <4>4
    <3>4. CASE sender' = Acknowledge(sender, a.seq) /\ ~\E p \in sender.pending : p.seq = a.seq
      BY <3>1, <3>4 DEF Acknowledge
    <3> QED BY <2>5, <3>2, <3>3, <3>4
  <2>7. srcEnd' # "invalid" /\ In(acks') \subseteq In(acks)
    BY <2>3, <2>5 DEF AckInv
  <2> QED BY <1>1, <2>1, <2>6, <2>7, AckKeeps
<1>8. CASE SourceClose \/ SourceLost
  <2>1. /\ UNCHANGED <<acks, nextAct, control>> /\ sender' = NoSender
        /\ srcEnd' # "invalid"
    BY <1>8 DEF SourceClose, SourceLost, SourceEnds
  <2> QED BY <1>1, <2>1, AckKeeps
<1>9. CASE NetworkLoss \/ Advance
  <2>1. UNCHANGED <<acks, nextAct, control, sender, srcEnd>>
    BY <1>9 DEF NetworkLoss, Advance, source, network
  <2> QED BY <1>1, <2>1 DEF AckInv, SinkStays
<1> QED BY <1>3, <1>4, <1>5, <1>6, <1>7, <1>8, <1>9 DEF SourceNext

(* A step of the sink: it acknowledges only what the source has recorded. *)
LEMMA AckSink ==
  ASSUME AckInv, UNCHANGED <<sender, nextAct, srcEnd>>,
         In(pending') \cup In(control') \subseteq In(pending) \cup In(control),
         \A a \in In(acks') : a \in In(acks)
                                \/ (a.act \in 1 .. nextAct /\ Recorded(sender, a.act, a.seq)),
         batch'.ack # 0 => receiver'.act # 0 /\ Recorded(sender, receiver'.act, batch'.ack)
  PROVE  AckInv'
<1>1. \A m \in In(pending') \cup In(control') :
        m.kind = "StateSnapshot" => Recorded(sender', m.act, m.seq)
  BY DEF AckInv
<1>2. \A a \in In(acks') : a.act \in 1 .. nextAct' /\ Recorded(sender', a.act, a.seq)
  BY DEF AckInv
<1> QED BY <1>1, <1>2 DEF AckInv, In

LEMMA SendAckIn ==
  ASSUME acks \in Seq([act: Nat, seq: Nat]), NEW e \in Effects, NEW act \in Nat
  PROVE  \A a \in In(SendAck(e, act)) :
           a \in In(acks) \/ (e.ack # 0 /\ a.act = act /\ a.seq = e.ack)
<1> DEFINE Ack == [act: Nat, seq: Nat]
           k == [act |-> act, seq |-> e.ack]
<1>1. acks \in Seq(Ack) /\ k \in Ack /\ k.act = act /\ k.seq = e.ack
  BY DEF Effects
<1> HIDE DEF Ack
<1>2. In(Append(acks, k)) = In(acks) \cup {k}
  BY <1>1, InAppend
<1>3. SendAck(e, act) = IF e.ack = 0 THEN acks ELSE Append(acks, k)
  BY DEF SendAck
<1> HIDE DEF k
<1> QED BY <1>1, <1>2, <1>3

LEMMA EmitAcks ==
  ASSUME TypeInv, batch.ack = 0, NEW e \in Effects, NEW next, Emit(e, next),
         receiver'.act \in Nat, nextAct \in Nat,
         e.ack # 0 => receiver'.act \in 1 .. nextAct /\ Recorded(sender, receiver'.act, e.ack)
  PROVE  /\ \A a \in In(acks') : a \in In(acks)
                                   \/ (a.act \in 1 .. nextAct /\ Recorded(sender, a.act, a.seq))
         /\ batch'.ack # 0 => receiver'.act # 0 /\ Recorded(sender, receiver'.act, batch'.ack)
<1>1. acks \in Seq([act: Nat, seq: Nat])
  BY TypeFacts
<1>2. CASE NeedsBackend(e)
  <2>1. batch' = e /\ acks' = acks
    BY <1>2 DEF Emit
  <2> QED BY <2>1
<1>3. CASE ~NeedsBackend(e)
  <2>1. batch' = batch /\ acks' = SendAck(e, receiver'.act)
    BY <1>3 DEF Emit
  <2>2. \A a \in In(acks') : a \in In(acks) \/ (e.ack # 0 /\ a.act = receiver'.act /\ a.seq = e.ack)
    BY <1>1, <2>1, SendAckIn
  <2> QED BY <2>1, <2>2
<1> QED BY <1>2, <1>3

LEMMA DiscardIn ==
  ASSUME NEW q \in Seq(Sendable), NEW a, NEW b
  PROVE  In(Discard(q, a, b)) \subseteq In(q)
BY RetainKeeps DEF Discard

(* Only an applied snapshot is acknowledged, and under its own sequence. *)
LEMMA ApplyAcks ==
  ASSUME TypeInv, StreamInv, PhaseInv, pc = "drain", pending # <<>>
  PROVE  LET m == Head(pending)
             o == ReceiveControl(receiver, m, at)
         IN  o.e.ack # 0 => /\ m.kind = "StateSnapshot" /\ o.e.ack = m.seq
                            /\ o.r.act = m.act
<1> DEFINE m == Head(pending)
           x == ExpireLease(receiver, at)
           o == ReceiveControl(receiver, m, at)
<1>1. /\ pending \in Seq(Sendable) /\ control \in Seq(Sendable) /\ receiver \in ReceiverState
      /\ at \in Nat /\ mirror.held \in HeldState /\ m \in Sendable /\ playout.seq \in Nat
  BY StreamFacts, InTail, PlayoutFields
<1>2. Flow(pending, control, motion, sender, receiver, playout, mirror.held, nextAct, TRUE)
  BY DEF StreamInv, PhaseInv
<1>3. x.r = receiver \/ Shut(receiver, x.r)
  BY <1>1, Expires
<1>4. \/ IsClosed(x.r, m.act)
      \/ IsFirst(x.r, m)
      \/ x.r = receiver /\ IsNext(receiver, m, playout, mirror.held)
  <2> HIDE DEF x, m
  <2>1. \/ IsClosed(x.r, Head(pending).act)
        \/ IsFirst(x.r, Head(pending))
        \/ x.r = receiver /\ IsNext(receiver, Head(pending), playout, mirror.held)
    BY <1>1, <1>2, <1>3, HeadFits
  <2> QED BY <2>1 DEF m
<1>5. CASE IsClosed(x.r, m.act)
  BY <1>1, <1>5, ControlStale DEF Calm
<1>6. CASE IsFirst(x.r, m)
  BY <1>1, <1>6, ControlFirst DEF Calm
<1>7. CASE x.r = receiver /\ IsNext(receiver, m, playout, mirror.held)
  <2>1. /\ m.act = receiver.act
        /\ \/ Shut(receiver, o.r) /\ Calm(o.e)
           \/ /\ o.r.act = receiver.act
              /\ o.e.ack # 0 => m.kind = "StateSnapshot" /\ o.e.ack = m.seq
    BY <1>1, <1>7, ControlNext DEF IsNext
  <2> QED BY <2>1 DEF Calm
<1> QED BY <1>4, <1>5, <1>6, <1>7

LEMMA AckNextSink ==
  ASSUME TypeInv, TypeInv', StreamInv, PhaseInv, AckInv, SinkNext \/ Finished \/ UNCHANGED vars
  PROVE  AckInv'
<1>1. /\ pending \in Seq(Sendable) /\ control \in Seq(Sendable) /\ receiver \in ReceiverState
      /\ nextAct \in Nat /\ at \in Nat /\ now \in Nat /\ playout \in PlayoutState
      /\ receiver.act \in Nat
  BY StreamFacts
<1>2. UNCHANGED <<sender, nextAct, srcEnd>>
  BY DEF SinkNext, RecvControl, RecvMotion, InboundTick, PollPlayout, DrainEnds,
         ApplyControl, BackendApplies, BackendRejects, SinkClose, SinkLost, Cleanup,
         Finished, vars, source
<1>3. NoEffects.ack = 0
  BY DEF NoEffects
<1>4. receiver.act <= nextAct
  BY <1>1, ReceiverFields DEF StreamInv, Flow, Order
<1>5. receiver'.act \in Nat
  BY DEF TypeInv, TypeOK, ReceiverState
<1>6. CASE \/ RecvMotion \/ DrainEnds \/ BackendRejects \/ SinkClose \/ SinkLost \/ Finished
           \/ UNCHANGED vars
  <2>1. /\ UNCHANGED <<pending, control, acks, receiver>>
        /\ batch' = batch \/ batch' = NoEffects
    BY <1>6 DEF RecvMotion, DrainEnds, BackendRejects, SinkClose, SinkLost, Finished, Bail, Idle,
                vars, sink, network
  <2> QED BY <1>2, <1>3, <2>1, AckSink DEF AckInv
<1>7. CASE RecvControl
  <2>1. /\ acks' = acks /\ receiver' = receiver /\ control' = Tail(control) /\ control # <<>>
        /\ batch' = batch \/ batch' = NoEffects
        /\ pending' = pending \/ pending' = Append(pending, Head(control))
    BY <1>7 DEF RecvControl, Bail
  <2>2. /\ In(control) = {Head(control)} \cup In(Tail(control)) /\ Head(control) \in Sendable
    BY <1>1, <2>1, InTail
  <2>3. In(Append(pending, Head(control))) = In(pending) \cup {Head(control)}
    BY <1>1, <2>2, InAppend
  <2>4. In(pending') \cup In(control') \subseteq In(pending) \cup In(control)
    BY <2>1, <2>2, <2>3
  <2> QED BY <1>2, <1>3, <2>1, <2>4, AckSink DEF AckInv
<1>8. CASE InboundTick
  <2> DEFINE o == ExpireLease(receiver, now)
  <2>1. o.e.ack = 0
    BY <1>1, Expires
  <2>2. /\ acks' = acks /\ control' = control /\ pc = "select"
        /\ batch' = batch \/ batch' = o.e
        /\ pending' = Discard(pending, receiver.act, o.r.act)
    BY <1>8 DEF InboundTick, network
  <2> HIDE DEF o
  <2>3. In(pending') \subseteq In(pending)
    BY <1>1, <2>2, DiscardIn
  <2>4. batch.ack = 0
    BY <2>2 DEF PhaseInv
  <2> QED BY <1>2, <2>1, <2>2, <2>3, <2>4, AckSink
<1>9. CASE PollPlayout
  <2>1. /\ pc = "poll" /\ UNCHANGED <<pending, control>>
    BY <1>9 DEF PollPlayout
  <2>2. batch.ack = 0
    BY <2>1 DEF PhaseInv
  <2>3. PICK p \in PlayoutState, start \in Total, touch \in TouchStates : PlayStep(p, start, touch)
    <3>1. CASE PlayStep(playout, playout.target, NoTouch)
      BY <1>1, <3>1, PlayoutFields DEF TouchStates
    <3>2. CASE \E f \in Eligible(playout) :
                 PlayStep(Select(playout, f), OwnSampleStart(playout, f), f.touch)
      <4>1. PICK f \in Eligible(playout) :
                 PlayStep(Select(playout, f), OwnSampleStart(playout, f), f.touch)
        BY <3>2
      <4>2. /\ f \in MotionFrame /\ Select(playout, f) \in PlayoutState
            /\ OwnSampleStart(playout, f) \in Total
        BY <1>1, PlayoutTypes
      <4>3. f.touch \in TouchStates
        BY <4>2, FrameFields
      <4> QED BY <4>1, <4>2, <4>3
    <3> QED BY <1>9, <3>1, <3>2 DEF PollPlayout
  <2>4. CASE acks' = acks /\ (batch' = batch \/ batch' = NoEffects)
    BY <1>2, <1>3, <2>1, <2>2, <2>4, AckSink
  <2>5. CASE \E out \in Steps(p, start, touch) :
               Emit(ReceivePlayoutStep(receiver, p.act, out.step, at).e, "drain")
    <3>1. PICK out \in Steps(p, start, touch) :
               Emit(ReceivePlayoutStep(receiver, p.act, out.step, at).e, "drain")
      BY <2>5
    <3> DEFINE step == out.step
               e == ReceivePlayoutStep(receiver, p.act, step, at).e
    <3>2. step \in Step /\ p.act \in Nat
      BY StepsType, PlayoutFields
    <3> HIDE DEF step
    <3>3. e \in Effects /\ e.ack = 0
      BY <1>1, <3>2, PlayoutStepType, OutcomeFields, PlayedResult
    <3>4. Emit(e, "drain")
      BY <3>1 DEF step
    <3> HIDE DEF e
    <3>5. /\ \A a \in In(acks') : a \in In(acks)
                                   \/ (a.act \in 1 .. nextAct /\ Recorded(sender, a.act, a.seq))
          /\ batch'.ack # 0 => receiver'.act # 0 /\ Recorded(sender, receiver'.act, batch'.ack)
      BY <1>1, <1>5, <2>2, <3>3, <3>4, EmitAcks
    <3> QED BY <1>2, <2>1, <3>5, AckSink
  <2> QED BY <2>3, <2>4, <2>5 DEF PlayStep, PlayFails, Bail
<1>10. CASE ApplyControl
  <2> DEFINE m == Head(pending)
             o == ReceiveControl(receiver, m, at)
             e == o.e
  <2>1. /\ pc = "drain" /\ pending # <<>> /\ receiver' = o.r /\ control' = control
        /\ pending' = Discard(Tail(pending), receiver.act, o.r.act)
        /\ \/ acks' = acks /\ batch' = NoEffects
           \/ Emit(e, "drain")
    BY <1>10 DEF ApplyControl, Bail
  <2>2. batch.ack = 0
    BY <2>1 DEF PhaseInv
  <2>3. /\ m \in Sendable /\ Tail(pending) \in Seq(Sendable)
        /\ In(pending) = {m} \cup In(Tail(pending))
    BY <1>1, <2>1, InTail
  <2>4. e.ack # 0 => m.kind = "StateSnapshot" /\ e.ack = m.seq /\ o.r.act = m.act
    BY <2>1, ApplyAcks
  <2>5. e \in Effects
    BY <1>1, <2>3, ControlType, OutcomeFields
  <2>6. m.act \in 1 .. nextAct
    <3>1. m.act \in Nat /\ m.act > 0
      BY <2>3, SendableFields
    <3>2. m.act <= nextAct
      BY <2>3 DEF StreamInv, Flow, Order
    <3> QED BY <1>1, <3>1, <3>2
  <2>7. m.kind = "StateSnapshot" => Recorded(sender, m.act, m.seq)
    BY <2>3 DEF AckInv
  <2> HIDE DEF m, o, e
  <2>8. In(pending') \subseteq In(pending)
    BY <2>1, <2>3, DiscardIn
  <2>9. e.ack # 0 => receiver'.act \in 1 .. nextAct /\ Recorded(sender, receiver'.act, e.ack)
    BY <2>1, <2>4, <2>6, <2>7
  <2>10. CASE acks' = acks /\ batch' = NoEffects
    BY <1>2, <1>3, <2>1, <2>8, <2>10, AckSink
  <2>11. CASE Emit(e, "drain")
    <3>1. /\ \A a \in In(acks') : a \in In(acks)
                                   \/ (a.act \in 1 .. nextAct /\ Recorded(sender, a.act, a.seq))
          /\ batch'.ack # 0 => receiver'.act # 0 /\ Recorded(sender, receiver'.act, batch'.ack)
      BY <1>1, <1>5, <2>2, <2>5, <2>9, <2>11, EmitAcks
    <3> QED BY <1>2, <2>1, <2>8, <3>1, AckSink
  <2> QED BY <2>1, <2>10, <2>11
<1>11. CASE BackendApplies
  <2>1. /\ UNCHANGED <<pending, control, receiver>> /\ batch' = NoEffects
        /\ acks' = acks \/ acks' = SendAck(batch, receiver.act)
    BY <1>11 DEF BackendApplies
  <2>2. acks \in Seq([act: Nat, seq: Nat]) /\ batch \in Effects
    BY TypeFacts
  <2>3. \A a \in In(acks') : a \in In(acks)
                               \/ (batch.ack # 0 /\ a.act = receiver.act /\ a.seq = batch.ack)
    BY <1>1, <2>1, <2>2, SendAckIn
  <2>4. batch.ack # 0 => receiver.act \in 1 .. nextAct /\ Recorded(sender, receiver.act, batch.ack)
    BY <1>1, <1>4 DEF AckInv
  <2>5. \A a \in In(acks') : a \in In(acks)
                               \/ (a.act \in 1 .. nextAct /\ Recorded(sender, a.act, a.seq))
    BY <2>3, <2>4
  <2> QED BY <1>2, <1>3, <2>1, <2>5, AckSink
<1>12. CASE Cleanup
  <2> DEFINE e == ConnectionLost(receiver).e
  <2>1. pc = "cleanup" /\ Emit(e, "down") /\ UNCHANGED <<pending, control>>
    BY <1>12 DEF Cleanup
  <2>2. batch.ack = 0
    BY <2>1 DEF PhaseInv
  <2>3. e \in Effects /\ e.ack = 0
    <3>1. Start(receiver) \in Outcome /\ Start(receiver).e.ack = 0
      BY <1>1, StartType DEF Start, NoEffects
    <3> QED BY <1>1, <3>1, Closes, LostType, OutcomeFields DEF ConnectionLost
  <2> HIDE DEF e
  <2>4. /\ \A a \in In(acks') : a \in In(acks)
                                 \/ (a.act \in 1 .. nextAct /\ Recorded(sender, a.act, a.seq))
        /\ batch'.ack # 0 => receiver'.act # 0 /\ Recorded(sender, receiver'.act, batch'.ack)
    BY <1>1, <1>5, <2>1, <2>2, <2>3, EmitAcks
  <2> QED BY <1>2, <2>1, <2>4, AckSink
<1> QED BY <1>6, <1>7, <1>8, <1>9, <1>10, <1>11, <1>12 DEF SinkNext

LEMMA AckInit == Init => AckInv
BY NoSenderBounded DEF Init, AckInv, In, NoEffects

LEMMA AckNext ==
  ASSUME TypeInv, TypeInv', StreamInv, PhaseInv, UnionInv, AckInv, [Next]_vars
  PROVE  AckInv'
BY AckSource, AckNextSink DEF Next

-----------------------------------------------------------------------------
(* Totals *)

(* No acknowledgement is unknown to the source, and the receiver is sent nothing *)
(* that breaks the protocol: no duplicate, gap, wrong transition or touch        *)
(* without its begin, with no assumption about the motion or the network.        *)
SourceSatisfied == srcEnd # "invalid"
NoViolation == closedBy # "ProtocolViolation"

THEOREM NeverViolated == Spec => [](SourceSatisfied /\ NoViolation)
<1>1. AckInv /\ Peaceful => SourceSatisfied /\ NoViolation
  BY DEF AckInv, Peaceful, SourceSatisfied, NoViolation
<1> QED BY <1>1, TypeInit, TypeNext, StreamInit, StreamNext, PhaseNext, UnionInit, UnionNext,
           AckInit, AckNext, PTL DEF Spec

(* The totals stay away from the ends of their range.  Playout may run past its  *)
(* target, so its own position is bounded too.                                   *)
Quarter == -(MaxTotal \div 4) .. (MaxTotal \div 4)
NoOverflow == sender.totals \in Quarter /\ playout.inj \in Quarter

TotalsInv ==
  /\ \A m \in In(pending) \cup In(control) : HasAnchor(m) => m.anchor.totals \in Quarter
  /\ \A f \in motion : f.totals \in Quarter
  /\ playout.target \in Quarter
  /\ sinkEnd # "invalid"

LEMMA Quarters ==
  /\ 0 \in Quarter
  /\ Quarter \subseteq Int
  /\ \A a, b \in Quarter : Fits(a - b)
  /\ \A a, b, c \in Quarter : \A d \in Limited(b - a) : Fits(a + d + (c - b))
<1> DEFINE q == MaxTotal \div 4
<1>1. MaxTotal \in Nat
  BY MembersAssumption
<1>2. q \in Nat /\ 4 * q <= MaxTotal
  BY <1>1
<1>3. Quarter = -q .. q
  BY DEF Quarter
<1> HIDE DEF q
<1>4. 0 \in Quarter /\ Quarter \subseteq Int
  BY <1>2, <1>3
<1>5. ASSUME NEW a \in Quarter, NEW b \in Quarter
      PROVE  Fits(a - b)
  BY <1>1, <1>2, <1>3 DEF Fits, Total
<1>6. ASSUME NEW a \in Quarter, NEW b \in Quarter, NEW c \in Quarter, NEW d \in Limited(b - a)
      PROVE  Fits(a + d + (c - b))
  <2>1. a \in Int /\ b \in Int /\ c \in Int /\ -q <= a /\ a <= q /\ -q <= b /\ b <= q
        /\ -q <= c /\ c <= q
    BY <1>2, <1>3
  <2>2. d \in Int /\ ((a <= a + d /\ a + d <= b) \/ (b <= a + d /\ a + d <= a))
    BY <2>1 DEF Limited
  <2>3. -q <= a + d /\ a + d <= q
    BY <1>2, <2>1, <2>2
  <2>4. a + d + (c - b) \in Int /\ -(3 * q) <= a + d + (c - b) /\ a + d + (c - b) <= 3 * q
    BY <1>2, <2>1, <2>2, <2>3
  <2> QED BY <1>1, <1>2, <2>4 DEF Fits, Total
<1> QED BY <1>4, <1>5, <1>6

LEMMA NoPlayOverflow ==
  ASSUME NEW p \in PlayoutState, NEW start \in Quarter, NEW touch,
         p.target \in Quarter, p.inj \in Quarter
  PROVE  ~PlayOverflows(p, start, touch)
<1>1. ~PollFails(p, start, touch)
  BY Quarters DEF PollFails
<1>2. ASSUME NEW out \in Steps(p, start, touch)
      PROVE  Fits(out.p.inj)
  <2>1. PICK d \in Limited(start - p.inj) :
             out.p = [p EXCEPT !.inj = @ + d + (p.target - start)]
    BY DEF Steps
  <2>2. out.p.inj = p.inj + d + (p.target - start)
    BY <2>1 DEF PlayoutState
  <2> QED BY <2>2, Quarters
<1> QED BY <1>1, <1>2 DEF PlayOverflows

(* What a part of a frame sends carries the totals before or after it. *)
Carries(x, y, T) ==
  /\ \A m \in In(y.ctl) : m \in In(x.ctl) \/ (HasAnchor(m) => m.anchor.totals \in T)
  /\ \A f \in y.mot : f \in x.mot \/ f.totals \in T

LEMMA SendsCarry ==
  ASSUME NEW x \in Outbox, NEW y, Sends(x, y) \/ Turns(x, y), now \in Nat
  PROVE  /\ Carries(x, y, {x.s.totals, y.s.totals})
         /\ Turns(x, y) => y.s.totals = x.s.totals
<1>0. x.s \in SenderState /\ x.s.act > 0 /\ x.s.ctl > 0 /\ x.ctl \in Seq(Sendable)
  BY OutboxFields
<1>1. ASSUME NEW s \in SenderState, NEW m \in Sendable, y = SendControl(x, s, m),
             s.totals = x.s.totals, HasAnchor(m) => m.anchor.totals = x.s.totals
      PROVE  Carries(x, y, {x.s.totals, y.s.totals}) /\ y.s.totals = x.s.totals
  <2>1. In(Append(x.ctl, m)) = In(x.ctl) \cup {m}
    BY <1>0, InAppend
  <2>2. y.s = Sent(s) /\ y.ctl = Append(x.ctl, m) /\ y.mot = x.mot
    BY <1>1 DEF SendControl
  <2>3. Sent(s).totals = s.totals
    BY SentFields
  <2> QED BY <1>1, <2>1, <2>2, <2>3 DEF Carries
<1>2. CASE y = x
  BY <1>0, <1>2 DEF Carries, Turns
<1>3. ASSUME Begins(x, y)
      PROVE  Carries(x, y, {x.s.totals, y.s.totals})
  <2>1. PICK t \in Touches : y = SendControl(x, TouchBegin(x.s, t), TouchBeginMessage(x.s, t))
    BY <1>3 DEF Begins
  <2>2. TouchBegin(x.s, t) \in SenderState /\ TouchBeginMessage(x.s, t) \in Sendable
    BY <1>0, SenderTypes, SendableMessages DEF TouchStates
  <2>3. TouchBegin(x.s, t).totals = x.s.totals /\ ~HasAnchor(TouchBeginMessage(x.s, t))
    BY <1>0 DEF TouchBegin, SenderState, TouchBeginMessage, Message, HasAnchor, NoAnchor
  <2> QED BY <1>1, <2>1, <2>2, <2>3
<1>4. ASSUME Ends(x, y)
      PROVE  Carries(x, y, {x.s.totals, y.s.totals})
  <2>1. y = SendControl(x, TouchEnd(x.s), TouchEndMessage(x.s))
    BY <1>4 DEF Ends
  <2>2. TouchEnd(x.s) \in SenderState /\ TouchEndMessage(x.s) \in Sendable
    BY <1>0, SenderTypes, SendableMessages
  <2>3. TouchEnd(x.s).totals = x.s.totals /\ TouchEndMessage(x.s).anchor.totals = x.s.totals
    BY <1>0 DEF TouchEnd, SenderState, TouchEndMessage, Message, AnchorOf
  <2> QED BY <1>1, <2>1, <2>2, <2>3
<1>5. ASSUME Moves(x, y)
      PROVE  Carries(x, y, {x.s.totals, y.s.totals})
  <2>1. PICK d \in Int, t \in TouchStates : Fits(x.s.totals + d) /\ y = SendMotion(x, d, t)
    BY <1>5 DEF Moves
  <2>2. y.ctl = x.ctl /\ y.mot = x.mot \cup {FrameOf(y.s, t)}
    BY <2>1 DEF SendMotion
  <2>3. FrameOf(y.s, t).totals = y.s.totals
    BY DEF FrameOf
  <2> QED BY <2>2, <2>3 DEF Carries
<1>6. ASSUME Turns(x, y)
      PROVE  Carries(x, y, {x.s.totals, y.s.totals}) /\ y.s.totals = x.s.totals
  <2>1. PICK m \in Members, b \in BOOLEAN :
          y = SendControl(x, Transition(x.s, m, b), TransitionMessage(x.s, m, b))
    BY <1>6 DEF Turns, SendTransition
  <2>2. Transition(x.s, m, b) \in SenderState /\ TransitionMessage(x.s, m, b) \in Sendable
    BY <1>0, SenderTypes, SendableMessages
  <2>3. /\ Transition(x.s, m, b).totals = x.s.totals
        /\ HasAnchor(TransitionMessage(x.s, m, b))
             => TransitionMessage(x.s, m, b).anchor.totals = x.s.totals
    BY <1>0 DEF Transition, SenderState, TransitionMessage, Message, AnchorOf, HasAnchor, NoAnchor
  <2> QED BY <1>1, <2>1, <2>2, <2>3
<1> QED BY <1>2, <1>3, <1>4, <1>5, <1>6 DEF Sends

LEMMA TotalsCapture ==
  ASSUME TypeInv, UnionInv, TotalsInv, NoOverflow, NoOverflow', Capture
  PROVE  /\ \A m \in In(control') : HasAnchor(m) => m.anchor.totals \in Quarter
         /\ \A f \in motion' : f.totals \in Quarter
<1> USE TypeFacts
<1>1. PICK device \in Devices, delta \in Deltas, touch \in TouchStates \cup {"none"},
           member \in Members \cup {NoMember}, pressed \in BOOLEAN :
             CaptureOf(device, delta, touch, member, pressed)
  BY CaptureInputs
<1> DEFINE merged == Merge(merger, device, member, pressed)
           changed == HeldByAny(merger, member) # HeldByAny(merged, member)
           start == [s |-> sender, ctl |-> control, mot |-> motion]
           moved == SendTouchAndMotion(start, delta, touch)
           turned == SendTransition(moved, member, pressed)
           done == IF changed THEN turned ELSE moved
           overflow == ~Fits(sender.totals + delta)
           invalid == changed /\ ~TransitionAllowed(moved.s, member, pressed)
           begins == sender.held.touch = NoTouch /\ touch \in Touches
           begin == TouchBeginMessage(sender, touch)
<1>2. sender.act # 0
  BY <1>1 DEF CaptureOf
<1>3. start \in Outbox /\ start.s = sender /\ start.ctl = control /\ start.mot = motion
  BY <1>2, StartOutbox
<1>4. /\ \A m \in In(control) : HasAnchor(m) => m.anchor.totals \in Quarter
      /\ \A f \in motion : f.totals \in Quarter
      /\ sender.totals \in Quarter
  BY DEF TotalsInv, NoOverflow
<1>5. CASE overflow
  <2>1. /\ control' = IF begins THEN Append(control, begin) ELSE control
        /\ motion' = motion
    BY <1>1, <1>5 DEF CaptureOf
  <2>2. begins => begin \in Sendable
    BY <1>2, SendableMessages
  <2>3. ~HasAnchor(begin)
    BY DEF TouchBeginMessage, Message, HasAnchor, NoAnchor
  <2> HIDE DEF begin, begins
  <2>4. begins => In(Append(control, begin)) = In(control) \cup {begin}
    BY <2>2, InAppend
  <2> QED BY <1>4, <2>1, <2>3, <2>4
<1>6. CASE ~overflow
  <2>1. PICK y : /\ Sends(start, y) /\ Sends(y, moved)
                 /\ y.s.totals \in {start.s.totals, moved.s.totals}
    BY <1>3, <1>6, FrameSends
  <2> HIDE DEF start, moved
  <2>2. y \in Outbox /\ moved \in Outbox
    BY <1>3, <2>1, SendsOutbox
  <2>3. /\ Carries(start, y, {sender.totals, moved.s.totals})
        /\ Carries(y, moved, {sender.totals, moved.s.totals})
    <3>1. /\ Carries(start, y, {start.s.totals, y.s.totals})
          /\ Carries(y, moved, {y.s.totals, moved.s.totals})
      BY <1>3, <2>1, <2>2, SendsCarry
    <3> QED BY <1>3, <2>1, <3>1 DEF Carries
  <2>4. CASE invalid
    <3>1. changed => /\ member \in Members
      BY DEF Merge
    <3>2. srcEnd' = "invalid"
      BY <1>1, <1>6, <2>4 DEF CaptureOf, SourceEnds, moved, start
    <3>3. srcEnd' = "overflow" \/ srcEnd' = srcEnd
      BY CaptureResult
    <3>4. srcEnd = "running"
      BY DEF Capture, SourceRuns
    <3> QED BY <3>2, <3>3, <3>4
  <2>5. CASE ~invalid
    <3>1. sender' = done.s /\ control' = done.ctl /\ motion' = done.mot
      BY <1>1, <1>6, <2>5 DEF CaptureOf, moved, start
    <3>2. changed => Turns(moved, turned)
      <4>1. changed => member \in Members
        BY DEF Merge
      <4> QED BY <2>5, <4>1 DEF Turns
    <3> HIDE DEF changed, turned
    <3>3. changed => /\ Carries(moved, turned, {moved.s.totals, turned.s.totals})
                     /\ turned.s.totals = moved.s.totals
      BY <2>2, <3>2, SendsCarry
    <3>4. moved.s.totals \in Quarter
      <4>1. sender'.totals \in Quarter
        BY DEF NoOverflow
      <4>2. sender'.totals = moved.s.totals
        BY <3>1, <3>3
      <4> QED BY <4>1, <4>2
    <3>5. /\ \A m \in In(moved.ctl) : HasAnchor(m) => m.anchor.totals \in Quarter
          /\ \A f \in moved.mot : f.totals \in Quarter
      BY <1>3, <1>4, <2>3, <3>4 DEF Carries
    <3>6. changed => /\ \A m \in In(turned.ctl) : HasAnchor(m) => m.anchor.totals \in Quarter
                     /\ \A f \in turned.mot : f.totals \in Quarter
      BY <3>3, <3>4, <3>5 DEF Carries
    <3> QED BY <3>1, <3>5, <3>6
  <2> QED BY <2>4, <2>5
<1> QED BY <1>5, <1>6

LEMMA TotalsSource ==
  ASSUME TypeInv, UnionInv, TotalsInv, NoOverflow, NoOverflow',
         SourceNext \/ NetworkLoss \/ Advance
  PROVE  TotalsInv'
<1>1. SinkStays
  BY SourceLeaves
<1>2. sender \in SenderState /\ now \in Nat /\ nextAct \in Nat /\ control \in Seq(Sendable)
      /\ sender.totals \in Quarter /\ (sender.act # 0 => sender.ctl > 0 /\ sender.act > 0)
  BY TypeFacts DEF NoOverflow, SenderState
<1>3. /\ \A m \in In(control') : HasAnchor(m) => m.anchor.totals \in Quarter
      /\ \A f \in motion' : f.totals \in Quarter
  <2>1. ASSUME NEW m \in Sendable, control' = Append(control, m), motion' = motion,
               HasAnchor(m) => m.anchor.totals \in Quarter
        PROVE  /\ \A k \in In(control') : HasAnchor(k) => k.anchor.totals \in Quarter
               /\ \A f \in motion' : f.totals \in Quarter
    <3>1. In(control') = In(control) \cup {m}
      BY <1>2, <2>1, InAppend
    <3> QED BY <2>1, <3>1 DEF TotalsInv
  <2>2. CASE Capture
    BY <2>2, TotalsCapture
  <2>3. CASE BeginOutbound
    <3> DEFINE s == NewSender(nextAct + 1, now)
               m == EnterMessage(s)
    <3>1. control' = Append(control, m) /\ motion' = motion
      BY <2>3 DEF BeginOutbound
    <3>2. s.ctl = 0 /\ s.act > 0 /\ s.held = Neutral /\ s \in SenderState
      <4>1. s.ctl = 0 /\ s.act = nextAct + 1 /\ s.held = Neutral
        BY DEF NewSender, NoSender
      <4>2. nextAct + 1 \in Nat /\ nextAct + 1 > 0
        BY <1>2
      <4> QED BY <1>2, <4>1, <4>2, SenderTypes
    <3>3. m \in Sendable
      BY <3>2, SendableMessages
    <3>4. ~HasAnchor(m)
      BY DEF EnterMessage, Message, HasAnchor, NoAnchor
    <3> HIDE DEF m
    <3> QED BY <2>1, <3>1, <3>3, <3>4
  <2>4. CASE EndOutbound
    <3> DEFINE m == LeaveMessage(sender, "LocalRelease")
    <3>1. control' = Append(control, m) /\ motion' = motion /\ sender.act # 0
      BY <2>4 DEF EndOutbound
    <3>2. m \in Sendable
      BY <1>2, <3>1, SendableMessages
    <3>3. m.anchor.totals = sender.totals
      BY DEF LeaveMessage, Message, AnchorOf
    <3> HIDE DEF m
    <3> QED BY <1>2, <2>1, <3>1, <3>2, <3>3
  <2>5. CASE SourceTick
    <3>1. sender.act # 0 /\ motion' = motion
      BY <2>5 DEF SourceTick
    <3>2. /\ TimeoutCloseMessage(sender) \in Sendable /\ SnapshotMessage(sender) \in Sendable
          /\ ~HasAnchor(TimeoutCloseMessage(sender))
          /\ SnapshotMessage(sender).anchor.totals = sender.totals
      BY <1>2, <3>1, SendableMessages
         DEF TimeoutCloseMessage, SnapshotMessage, Message, AnchorOf, HasAnchor, NoAnchor
    <3>3. \/ control' = Append(control, TimeoutCloseMessage(sender))
          \/ control' = Append(control, SnapshotMessage(sender))
          \/ control' = control
      BY <2>5 DEF SourceTick
    <3>4. CASE control' = Append(control, TimeoutCloseMessage(sender))
      BY <2>1, <3>1, <3>2, <3>4
    <3>5. CASE control' = Append(control, SnapshotMessage(sender))
      BY <1>2, <2>1, <3>1, <3>2, <3>5
    <3>6. CASE control' = control
      BY <3>1, <3>6 DEF TotalsInv
    <3> QED BY <3>3, <3>4, <3>5, <3>6
  <2>6. CASE ReceiveAck \/ SourceClose \/ SourceLost \/ NetworkLoss \/ Advance
    <3>1. UNCHANGED <<control, motion>>
      BY <2>6 DEF ReceiveAck, SourceClose, SourceLost, NetworkLoss, Advance, network
    <3> QED BY <3>1 DEF TotalsInv
  <2> QED BY <2>2, <2>3, <2>4, <2>5, <2>6 DEF SourceNext
<1> QED BY <1>1, <1>3 DEF TotalsInv, SinkStays, In

(* The target of playout is where it was, zero, a frame's or an anchor's. *)
LEMMA TotalsTarget ==
  ASSUME TypeInv, StreamInv, SinkNext \/ Finished \/ UNCHANGED vars
  PROVE  /\ UNCHANGED motion
         /\ In(pending') \cup In(control') \subseteq In(pending) \cup In(control)
         /\ playout'.target \in {playout.target, 0} \cup {f.totals : f \in motion}
                \cup {m.anchor.totals : m \in {k \in In(pending) : HasAnchor(k)}}
<1>1. /\ pending \in Seq(Sendable) /\ control \in Seq(Sendable)
      /\ playout \in PlayoutState /\ motion \in SUBSET MotionFrame
  BY StreamFacts
<1>2. CASE \/ DrainEnds \/ BackendApplies \/ BackendRejects \/ SinkClose \/ SinkLost \/ Finished
           \/ Cleanup \/ UNCHANGED vars
  BY <1>2 DEF DrainEnds, BackendApplies, BackendRejects, SinkClose, SinkLost, Finished, Cleanup,
              vars, sink, network
<1>3. CASE RecvControl
  <2>1. /\ control' = Tail(control) /\ control # <<>> /\ UNCHANGED <<motion, playout>>
        /\ pending' = pending \/ pending' = Append(pending, Head(control))
    BY <1>3 DEF RecvControl
  <2>2. /\ In(control) = {Head(control)} \cup In(Tail(control)) /\ Head(control) \in Sendable
    BY <1>1, <2>1, InTail
  <2>3. In(Append(pending, Head(control))) = In(pending) \cup {Head(control)}
    BY <1>1, <2>2, InAppend
  <2> QED BY <2>1, <2>2, <2>3
<1>4. CASE RecvMotion
  <2>1. /\ UNCHANGED <<control, motion, pending>>
        /\ playout' = playout \/ \E f \in motion : playout' = IngestFrame(playout, f)
    BY <1>4 DEF RecvMotion, network
  <2>2. \A f \in motion : IngestFrame(playout, f).target = playout.target
    BY <1>1 DEF IngestFrame, PlayoutState
  <2> QED BY <2>1, <2>2
<1>5. CASE InboundTick
  <2>1. /\ UNCHANGED <<control, motion, playout>>
        /\ \E act : pending' = Discard(pending, receiver.act, act)
    BY <1>5 DEF InboundTick, network
  <2> QED BY <1>1, <2>1, DiscardIn
<1>6. CASE PollPlayout
  <2>1. /\ UNCHANGED <<control, motion, pending>>
        /\ \/ PlayStep(playout, playout.target, NoTouch)
           \/ \E f \in Eligible(playout) :
                PlayStep(Select(playout, f), OwnSampleStart(playout, f), f.touch)
    BY <1>6 DEF PollPlayout
  <2>2. ASSUME NEW p \in PlayoutState, NEW start, NEW touch, PlayStep(p, start, touch)
        PROVE  playout'.target = p.target
    <3>1. playout' = p \/ \E out \in Steps(p, start, touch) : playout' = out.p
      BY <2>2 DEF PlayStep, PlayFails
    <3>2. \A out \in Steps(p, start, touch) : out.p.target = p.target
      BY DEF Steps, PlayoutState
    <3> QED BY <3>1, <3>2
  <2>3. CASE PlayStep(playout, playout.target, NoTouch)
    BY <1>1, <2>1, <2>2, <2>3
  <2>4. ASSUME NEW f \in Eligible(playout),
               PlayStep(Select(playout, f), OwnSampleStart(playout, f), f.touch)
        PROVE  playout'.target \in {g.totals : g \in motion}
    <3>1. f \in motion
      BY DEF StreamInv, Flow, Motions, Eligible
    <3>2. Select(playout, f) \in PlayoutState /\ Select(playout, f).target = f.totals
      BY <1>1, PlayoutTypes DEF Select, PlayoutState
    <3> QED BY <2>2, <2>4, <3>1, <3>2
  <2> QED BY <2>1, <2>3, <2>4
<1>7. CASE ApplyControl
  <2> DEFINE m == Head(pending)
             o == ReceiveControl(receiver, m, at)
             active == IF o.e.opened # 0 THEN NewPlayout(o.e.opened) ELSE playout
             marked == AdvanceWatermark(active, m.seq)
  <2>1. /\ UNCHANGED <<control, motion>> /\ pending # <<>>
        /\ pending' = Discard(Tail(pending), receiver.act, o.r.act)
        /\ playout' = playout \/ playout' = FollowControl(playout, m, o.e)
    BY <1>7 DEF ApplyControl
  <2>2. /\ In(pending) = {m} \cup In(Tail(pending)) /\ m \in Sendable
        /\ Tail(pending) \in Seq(Sendable)
    BY <1>1, <2>1, InTail
  <2>3. In(pending') \subseteq In(pending)
    <3> HIDE DEF o, m
    <3> QED BY <2>1, <2>2, DiscardIn
  <2>4. active \in PlayoutState /\ active.target \in {0, playout.target}
    <3>1. o.e.opened \in Nat
      <4>1. o \in Outcome
        BY <2>2, StreamFacts, ControlType
      <4> HIDE DEF o
      <4> QED BY <4>1, OutcomeFields DEF Effects
    <3> HIDE DEF o
    <3> QED BY <1>1, <3>1, PlayoutTypes DEF NewPlayout, NoPlayout
  <2>5. m.seq \in Nat
    BY <2>2, SendableFields
  <2>6. playout' = playout \/ playout' = active \/ playout' = marked
          \/ (HasAnchor(m) /\ playout' = Rebase(marked, m.anchor))
    BY <2>1 DEF FollowControl
  <2> HIDE DEF active, o, m
  <2>7. marked \in PlayoutState /\ marked.target = active.target
    BY <2>4, <2>5, PlayoutTypes DEF AdvanceWatermark, PlayoutState
  <2> HIDE DEF marked
  <2>8. Rebase(marked, m.anchor).target = m.anchor.totals
    BY <2>7 DEF Rebase, PlayoutState
  <2> QED BY <2>1, <2>2, <2>3, <2>4, <2>6, <2>7, <2>8
<1> QED BY <1>2, <1>3, <1>4, <1>5, <1>6, <1>7 DEF SinkNext

LEMMA TotalsSink ==
  ASSUME TypeInv, StreamInv, PhaseInv, Peaceful, TotalsInv, NoOverflow,
         SinkNext \/ Finished \/ UNCHANGED vars
  PROVE  TotalsInv'
<1>1. /\ playout \in PlayoutState /\ playout.inj \in Quarter /\ playout.target \in Quarter
      /\ \A f \in playout.queue : f \in motion /\ f.totals \in Quarter /\ f \in MotionFrame
      /\ pending \in Seq(Sendable)
  BY StreamFacts, PlayoutFields DEF TotalsInv, NoOverflow, StreamInv, Flow, Motions
<1>2. sinkEnd' # "invalid"
  <2>1. CASE PollPlayout
    <3>1. ~PlayOverflows(playout, playout.target, NoTouch)
      BY <1>1, NoPlayOverflow
    <3>2. ASSUME NEW f \in Eligible(playout)
          PROVE  ~PlayOverflows(Select(playout, f), OwnSampleStart(playout, f), f.touch)
      <4>1. f \in playout.queue /\ Select(playout, f) \in PlayoutState
        BY <1>1, PlayoutTypes DEF Eligible
      <4>2. Select(playout, f).target = f.totals /\ Select(playout, f).inj = playout.inj
        BY <1>1 DEF Select, PlayoutState
      <4>3. OwnSampleStart(playout, f) \in Quarter
        BY <1>1, <4>1 DEF OwnSampleStart
      <4> QED BY <1>1, <4>1, <4>2, <4>3, NoPlayOverflow
    <3> QED BY <2>1, <3>1, <3>2, StreamPoll
  <2>2. CASE ApplyControl
    <3> DEFINE m == Head(pending)
    <3>1. m \in In(pending)
      <4>1. pending # <<>>
        BY <2>2 DEF ApplyControl
      <4> QED BY <1>1, <4>1, InTail
    <3>2. HasAnchor(m) => m.anchor.totals \in Quarter
      BY <3>1 DEF TotalsInv
    <3>3. sinkEnd' = "invalid" => HasAnchor(m) /\ ~Fits(m.anchor.totals - playout.inj)
      BY <2>2, StreamApply
    <3> HIDE DEF m
    <3> QED BY <1>1, <3>2, <3>3, Quarters
  <2>3. CASE InboundTick
    BY <2>3 DEF InboundTick, TotalsInv
  <2> QED BY <2>1, <2>2, <2>3, StreamRecvControl, StreamRecvMotion, StreamQuiet, StreamCleanup
          DEF SinkNext, TotalsInv
<1>3. playout'.target \in Quarter
  BY TotalsTarget, Quarters DEF TotalsInv
<1> QED BY <1>2, <1>3, TotalsTarget DEF TotalsInv, In

LEMMA TotalsInit == Init => TotalsInv
BY Quarters DEF Init, TotalsInv, In, NoPlayout

LEMMA TotalsNext ==
  ASSUME TypeInv, StreamInv, PhaseInv, Peaceful, UnionInv, TotalsInv, NoOverflow, NoOverflow',
         [Next]_vars
  PROVE  TotalsInv'
BY TotalsSource, TotalsSink DEF Next

(* As long as the cumulative totals stay away from the ends of their width, the *)
(* two ends never disagree: no anchor or rebase is refused at the sink, no      *)
(* transition at the source, no acknowledgement is unknown and no activation    *)
(* ends for a violation of the protocol, whatever the network does to motion.   *)
THEOREM NeverApart == Spec /\ []NoOverflow => []NeverDesynchronised
<1>1. AckInv /\ Peaceful /\ TotalsInv => NeverDesynchronised
  BY DEF AckInv, Peaceful, TotalsInv, NeverDesynchronised
<1> QED BY <1>1, TypeInit, TypeNext, StreamInit, StreamNext, PhaseNext, UnionInit, UnionNext,
           AckInit, AckNext, TotalsInit, TotalsNext, PTL DEF Spec

(* Then nothing is ever stuck either, if the runtime takes every batch that     *)
(* closes an activation.                                                        *)
THEOREM NeverStuck ==
  ASSUME RejectClosing = FALSE
  PROVE  Spec /\ []NoOverflow => []NoStuckInput
<1>1. NeverDesynchronised /\ (sinkEnd # "invalid" => NoStuckInput) => NoStuckInput
  BY DEF NeverDesynchronised
<1> QED BY <1>1, NeverApart, NothingStuck, PTL

-----------------------------------------------------------------------------
(* What the receiver returns, as far as motion goes *)

(* The receiver and the backend are left alone. *)
Still(r, o) ==
  /\ o.r = r /\ o.e.from = r.held /\ o.e.to = r.held
  /\ o.e.delta = 0 /\ o.e.opened = 0 /\ o.e.closed = 0 /\ o.e.ack = 0

(* The activation is closed, and not because the source left. *)
Stopped(r, o) ==
  /\ r.act # 0 /\ Shut(r, o.r) /\ o.e.closed # 0 /\ o.e.opened = 0 /\ o.e.ack = 0
  /\ o.e.reason # "LocalRelease"

LEMMA StartStill ==
  ASSUME NEW r \in ReceiverState
  PROVE  /\ Still(r, Start(r)) /\ Start(r) \in Outcome /\ Start(r).e.reason = "none"
BY StartType DEF Still, Start, NoEffects

LEMMA RejectStill ==
  ASSUME NEW r, NEW o \in Outcome, NEW why
  PROVE  /\ Still(r, o) => Still(r, Reject(o, why))
         /\ Stopped(r, o) => Stopped(r, Reject(o, why))
BY DEF Reject, Outcome, Effects, Still, Stopped

LEMMA CloseStopped ==
  ASSUME NEW r, NEW o \in Outcome, o.r = r, r.act # 0, o.e.opened = 0, o.e.ack = 0, NEW why,
         why # "LocalRelease"
  PROVE  Stopped(r, CloseActivation(o, why))
BY DEF CloseActivation, Outcome, Effects, Stopped, Shut, NewReceiver

LEMMA ExpireStill ==
  ASSUME NEW r \in ReceiverState, NEW t
  PROVE  LET o == ExpireLease(r, t)
         IN  /\ o \in Outcome
             /\ Still(r, o) \/ Stopped(r, o)
             /\ o.r.act # 0 => o = Start(r)
<1>1. Still(r, Start(r)) /\ Start(r) \in Outcome
  BY StartStill
<1>2. CASE r.act # 0
  <2>1. Stopped(r, CloseActivation(Start(r), "LeaseExpired"))
    BY <1>1, <1>2, CloseStopped DEF Still
  <2>2. CloseActivation(Start(r), "LeaseExpired") \in Outcome
    BY <1>1, CloseType DEF CloseReasons
  <2> QED BY <1>1, <2>1, <2>2 DEF ExpireLease, Stopped, Shut
<1>3. CASE r.act = 0
  <2>1. CloseActivation(Start(r), "LeaseExpired") = Start(r)
    BY <1>1, <1>3 DEF CloseActivation, Still
  <2> QED BY <1>1, <2>1 DEF ExpireLease
<1> QED BY <1>2, <1>3

(* A playout step is played, or it has no business with the open activation. *)
LEMMA PlayedLedger ==
  ASSUME NEW r \in ReceiverState, NEW act \in Nat, NEW step \in Step, NEW t \in Nat
  PROVE  LET o == ReceivePlayoutStep(r, act, step, t)
         IN  \/ Still(r, o) /\ (r.act = 0 \/ act # r.act \/ step.through <= r.inj)
             \/ Stopped(r, o)
             \/ /\ r.act # 0 /\ o.r.act = r.act /\ r.inj < step.through
                /\ o.r.highest = r.highest /\ o.r.ctl = r.ctl
                /\ o.r.totals = r.totals + step.delta
                /\ o.r.inj = IF step.reached THEN step.through ELSE r.inj
                /\ o.e.from = r.held /\ o.e.to = o.r.held
                /\ o.r.held.buttons = r.held.buttons
                /\ o.e.delta = step.delta /\ o.e.opened = 0 /\ o.e.closed = 0 /\ o.e.ack = 0
<1> DEFINE x == ExpireLease(r, t)
           touched == IF step.touch = NoTouch THEN x.r.held
                      ELSE [x.r.held EXCEPT !.touch = step.touch]
           u == [x.r EXCEPT !.totals = @ + step.delta, !.held = touched,
                            !.inj = IF step.reached THEN step.through ELSE @]
           e == [x.e EXCEPT !.to = touched, !.delta = step.delta, !.safe = FALSE]
           last == [r |-> u, e |-> e]
           o == ReceivePlayoutStep(r, act, step, t)
<1>1. /\ x \in Outcome /\ x.e \in Effects
      /\ Still(r, x) \/ Stopped(r, x)
      /\ x.r.act # 0 => x = Start(r)
  BY ExpireStill, OutcomeFields
<1>2. x.r.act # 0 => x.r = r /\ Still(r, x)
  BY <1>1, StartStill DEF Still
<1>3. \/ o = Reject(x, "ClosedActivation") /\ x.r.act # act
      \/ o = Reject(x, "NoOpenActivation") /\ x.r.act = 0
      \/ o = Reject(x, "StaleActivation") /\ x.r.act # act
      \/ o = Reject(x, "DuplicateOrReorderedMotion") /\ step.through <= x.r.inj
      \/ o = CloseActivation(x, "ProtocolViolation") /\ x.r.act # 0
      \/ o = CloseActivation(x, "MotionOverflow") /\ x.r.act # 0
      \/ o = last /\ x.r.act # 0 /\ ~(step.through <= x.r.inj)
  BY DEF ReceivePlayoutStep, IsClosed
<1>4. /\ r.inj \in Nat /\ step.through \in Nat /\ r.held \in HeldState /\ r.totals \in Int
  BY ReceiverFields, MembersAssumption DEF Step, Total
<1>5. x.r.act # 0 =>
        /\ u.act = r.act /\ u.highest = r.highest /\ u.ctl = r.ctl
        /\ u.totals = r.totals + step.delta
        /\ u.inj = (IF step.reached THEN step.through ELSE r.inj)
        /\ u.held = touched /\ touched.buttons = r.held.buttons
  <2> SUFFICES ASSUME x.r.act # 0
      PROVE /\ u.act = r.act /\ u.highest = r.highest /\ u.ctl = r.ctl
            /\ u.totals = r.totals + step.delta
            /\ u.inj = (IF step.reached THEN step.through ELSE r.inj)
            /\ u.held = touched /\ touched.buttons = r.held.buttons
    OBVIOUS
  <2>1. x.r = r
    BY <1>2
  <2> HIDE DEF x
  <2>2. touched.buttons = r.held.buttons
    BY <1>4, <2>1 DEF HeldState
  <2> HIDE DEF touched
  <2> QED BY <2>1, <2>2 DEF ReceiverState
<1>6. /\ last.r = u /\ last.e = e
      /\ e.from = x.e.from /\ e.to = touched /\ e.delta = step.delta
      /\ e.opened = x.e.opened /\ e.closed = x.e.closed /\ e.ack = x.e.ack
  <2> HIDE DEF x, touched, u
  <2> QED BY <1>1 DEF Effects
<1> HIDE DEF x, o, u, e, last, touched
<1>7. CASE \/ o = Reject(x, "ClosedActivation") /\ x.r.act # act
           \/ o = Reject(x, "NoOpenActivation") /\ x.r.act = 0
           \/ o = Reject(x, "StaleActivation") /\ x.r.act # act
           \/ o = Reject(x, "DuplicateOrReorderedMotion") /\ step.through <= x.r.inj
  <2>1. \E why : o = Reject(x, why)
    BY <1>7
  <2>2. Still(r, x) => x.r = r
    BY DEF Still
  <2> QED BY <1>1, <1>7, <2>1, <2>2, RejectStill DEF o
<1>8. CASE \/ o = CloseActivation(x, "ProtocolViolation") /\ x.r.act # 0
           \/ o = CloseActivation(x, "MotionOverflow") /\ x.r.act # 0
  <2>1. x.r = r /\ r.act # 0 /\ x.e.opened = 0 /\ x.e.ack = 0
    BY <1>2, <1>8 DEF Still
  <2>2. Stopped(r, o)
    BY <1>1, <1>8, <2>1, CloseStopped
  <2> QED BY <2>2 DEF o
<1>9. CASE o = last /\ x.r.act # 0 /\ ~(step.through <= x.r.inj)
  <2>1. x.r = r /\ Still(r, x) /\ r.act # 0 /\ r.inj < step.through
    BY <1>2, <1>4, <1>9
  <2> QED BY <1>5, <1>6, <1>9, <2>1 DEF Still, o
<1> QED BY <1>3, <1>7, <1>8, <1>9

(* A control of an activation that is over changes nothing more than the lease. *)
LEMMA ControlStill ==
  ASSUME NEW r \in ReceiverState, NEW m \in Sendable, NEW t \in Nat,
         IsClosed(ExpireLease(r, t).r, m.act)
  PROVE  LET o == ReceiveControl(r, m, t)
         IN  /\ o.e.rejected = "ClosedActivation"
             /\ Still(r, o) \/ Stopped(r, o)
<1> DEFINE x == ExpireLease(r, t)
<1>1. ReceiveControl(r, m, t) = Reject(x, "ClosedActivation")
  BY DEF ReceiveControl, ReceiveEnter, Rejection
<1>2. x \in Outcome /\ (Still(r, x) \/ Stopped(r, x))
  BY ExpireStill
<1> HIDE DEF x
<1>3. Reject(x, "ClosedActivation").e.rejected = "ClosedActivation"
  BY <1>2, Rejects
<1> QED BY <1>1, <1>2, <1>3, RejectStill

(* An expired lease releases everything; nothing is held without an activation. *)
LEMMA ExpireReleases ==
  ASSUME NEW r \in ReceiverState, NEW t, r.act = 0 => r.held = Neutral
  PROVE  LET x == ExpireLease(r, t)
         IN  /\ x.e.from = r.held /\ x.e.rejected = "none"
             /\ x.e.closed # 0 => x.e.to = Neutral
             /\ x.r.act = 0 => x.e.closed # 0 \/ (r.held = Neutral /\ x.e.to = Neutral)
<1> DEFINE s == Start(r)
           c == CloseActivation(s, "LeaseExpired")
<1>1. /\ s.r = r /\ s.e \in Effects /\ s.e.from = r.held /\ s.e.to = r.held
      /\ s.e.closed = 0 /\ s.e.rejected = "none"
  BY StartStill, OutcomeFields DEF Still, Start, NoEffects
<1>2. ExpireLease(r, t) \in {s, c}
  BY DEF ExpireLease
<1> HIDE DEF s
<1>3. CASE r.act = 0
  <2>1. c = s
    BY <1>1, <1>3 DEF CloseActivation
  <2> QED BY <1>1, <1>2, <1>3, <2>1
<1>4. CASE r.act # 0
  <2>1. c.e = [s.e EXCEPT !.to = Neutral, !.closed = r.act, !.reason = "LeaseExpired"]
    BY <1>1, <1>4 DEF CloseActivation
  <2>2. c.e.from = r.held /\ c.e.to = Neutral /\ c.e.closed = r.act /\ c.e.rejected = "none"
    <3> HIDE DEF c
    <3> QED BY <1>1, <2>1 DEF Effects
  <2> QED BY <1>1, <1>2, <1>4, <2>2
<1> QED BY <1>3, <1>4

(* An Enter opens its activation with nothing held and no motion counted. *)
LEMMA ControlOpens ==
  ASSUME NEW r \in ReceiverState, NEW m \in Sendable, NEW t \in Nat,
         IsFirst(ExpireLease(r, t).r, m), r.act = 0 => r.held = Neutral
  PROVE  LET o == ReceiveControl(r, m, t)
         IN  /\ o.r.totals = 0 /\ o.r.inj = 0 /\ o.r.act = m.act /\ o.r.highest = m.act
             /\ o.r.ctl = 1 /\ o.r.held = Neutral
             /\ o.e.opened = m.act /\ o.e.to = Neutral /\ o.e.from = r.held
             /\ o.e.closed # 0 \/ r.held = Neutral
             /\ o.e.ack = 0 /\ o.e.rejected = "none"
<1> DEFINE x == ExpireLease(r, t)
           c == CloseActivation(x, "Superseded")
           new == [NewReceiver EXCEPT !.highest = m.act, !.act = m.act, !.ctl = 1]
           e == [c.e EXCEPT !.opened = m.act, !.safe = FALSE]
<1>1. /\ x \in Outcome /\ (Still(r, x) \/ Stopped(r, x)) /\ (x.r.act # 0 => x = Start(r))
      /\ x.r \in ReceiverState
  BY ExpireStill, OutcomeFields
<1>2. m.act > x.r.highest /\ m.kind = "Enter" /\ m.seq = 1
  BY DEF IsFirst
<1>3. m.act \in Nat /\ x.r.highest \in Nat
  BY <1>1, SendableFields, ReceiverFields
<1>4. ReceiveControl(r, m, t) = [r |-> new, e |-> e]
  <2>1. ReceiveControl(r, m, t) = ReceiveEnter(x, m)
    BY <1>2 DEF ReceiveControl
  <2>2. ~IsClosed(x.r, m.act) /\ ~(m.act <= x.r.highest)
    BY <1>2, <1>3 DEF IsClosed
  <2> QED BY <1>2, <2>1, <2>2 DEF ReceiveEnter
<1>5. /\ x.e.from = r.held
      /\ x.e.closed # 0 => x.e.to = Neutral
      /\ x.r.act = 0 => x.e.closed # 0 \/ (r.held = Neutral /\ x.e.to = Neutral)
      /\ x.e.rejected = "none"
  BY ExpireReleases
<1>6. /\ c \in Outcome /\ c.e.from = r.held /\ c.e.to = Neutral
      /\ c.e.closed # 0 \/ r.held = Neutral
      /\ c.e.ack = 0 /\ c.e.rejected = "none"
  <2> HIDE DEF x
  <2>1. c \in Outcome
    BY <1>1, CloseType DEF CloseReasons
  <2>2. x.e.ack = 0
    BY <1>1 DEF Still, Stopped
  <2>3. CASE x.r.act = 0
    <3>1. c = x
      BY <2>3 DEF CloseActivation
    <3>2. x.e.to = Neutral
      BY <1>5, <2>3
    <3> HIDE DEF c
    <3> QED BY <1>5, <2>1, <2>2, <2>3, <3>1, <3>2
  <2>4. CASE x.r.act # 0
    BY <1>1, <1>5, <2>1, <2>2, <2>4, OutcomeFields DEF CloseActivation, Effects
  <2> QED BY <2>3, <2>4
<1>7. /\ new.act = m.act /\ new.highest = m.act /\ new.ctl = 1 /\ new.held = Neutral
      /\ new.inj = 0 /\ new.totals = 0
  BY DEF NewReceiver
<1>8. /\ e.ack = c.e.ack /\ e.rejected = c.e.rejected /\ e.opened = m.act
      /\ e.to = c.e.to /\ e.from = c.e.from /\ e.closed = c.e.closed
  <2> HIDE DEF c
  <2> QED BY <1>6, OutcomeFields DEF Effects
<1> HIDE DEF new, e, c
<1> QED BY <1>4, <1>6, <1>7, <1>8

(* A control counts the motion of its anchor, and only an anchored one changes *)
(* what buttons are held.                                                      *)
LEMMA AppliesTotals ==
  ASSUME NEW r \in ReceiverState, NEW m \in Sendable, NEW t
  PROVE  LET a == IF HasAnchor(m) THEN ApplyAnchor(r, m.anchor) ELSE r
             u == ApplyPayload(a, m, t)
         IN  /\ u.totals = IF HasAnchor(m) THEN m.anchor.totals ELSE r.totals
             /\ HasAnchor(m) \/ m.kind = "Enter" \/ u.held.buttons = r.held.buttons
<1> DEFINE b == ApplyAnchor(r, m.anchor)
           a == IF HasAnchor(m) THEN b ELSE r
           held == CASE m.kind = "Press"         -> Press(a.held, m.member)
                     [] m.kind = "Release"       -> Release(a.held, m.member)
                     [] m.kind = "TouchBegin"    -> [a.held EXCEPT !.touch = m.held.touch]
                     [] m.kind = "TouchEnd"      -> [a.held EXCEPT !.touch = NoTouch]
                     [] m.kind = "StateSnapshot" -> m.held
                     [] OTHER                    -> a.held
           u == ApplyPayload(a, m, t)
<1>1. /\ m.kind \in ControlKinds
      /\ m.kind \in {"Press", "Release"} => m.member \in Members
      /\ m.kind \in {"Press", "Release"} /\ m.member \in Buttons => HasAnchor(m)
      /\ m.kind = "StateSnapshot" => HasAnchor(m)
  BY DEF Sendable, ControlMessage
<1>2. b \in [highest: Nat, act: Nat, ctl: Nat, held: {b.held}, inj: {b.inj},
             totals: {m.anchor.totals}, lease: Nat \cup {NoTime}]
  BY DEF ApplyAnchor, ReceiverState
<1> HIDE DEF b
<1>3. /\ a \in [highest: Nat, act: Nat, ctl: Nat, held: {a.held}, inj: {a.inj},
               totals: {a.totals}, lease: Nat \cup {NoTime}]
      /\ a.totals = IF HasAnchor(m) THEN m.anchor.totals ELSE r.totals
      /\ ~HasAnchor(m) => a = r
  BY <1>2 DEF ReceiverState
<1> HIDE DEF a
<1>4. ~HasAnchor(m) /\ m.kind # "Enter" => held.buttons = r.held.buttons
  <2> SUFFICES ASSUME ~HasAnchor(m), m.kind # "Enter" PROVE held.buttons = r.held.buttons
    OBVIOUS
  <2>1. a = r /\ r.held \in HeldState
    BY <1>3, ReceiverFields
  <2>2. m.kind \in {"Press", "Release"} => m.member \in Keys /\ m.member \notin Buttons
    BY <1>1, MembersAssumption DEF Members
  <2>3. m.kind = "Press" => Press(r.held, m.member).buttons = r.held.buttons
    BY <2>1, <2>2 DEF Press, HeldState
  <2>4. m.kind = "Release" => Release(r.held, m.member).buttons = r.held.buttons
    BY <2>1, <2>2 DEF Release, HeldState
  <2>5. ASSUME NEW k PROVE [r.held EXCEPT !.touch = k].buttons = r.held.buttons
    BY <2>1 DEF HeldState
  <2> QED BY <1>1, <2>1, <2>3, <2>4, <2>5 DEF ControlKinds
<1>5. u = RefreshLease([a EXCEPT !.held = held, !.ctl = m.seq], t)
  BY DEF ApplyPayload
<1> HIDE DEF held, u
<1>6. u.held = held /\ u.totals = a.totals
  BY <1>3, <1>5 DEF RefreshLease
<1> QED BY <1>3, <1>4, <1>6 DEF a, u, b

(* How far a control moves the pointer. *)
AnchorDelta(r, m) == IF HasAnchor(m) THEN m.anchor.totals - r.totals ELSE 0

(* The next control counts the motion of its anchor, and closes the activation  *)
(* if it is the source that leaves.                                             *)
LEMMA ControlFollows ==
  ASSUME NEW r \in ReceiverState, NEW m \in Sendable, NEW t \in Nat, NEW p, NEW h \in HeldState,
         ExpireLease(r, t).r = r, IsNext(r, m, p, h), NEW pseq \in Nat, p.seq = pseq
  PROVE  LET o == ReceiveControl(r, m, t)
         IN  /\ o.e.opened = 0 /\ o.e.rejected = "none"
             /\ \/ Stopped(r, o)
                \/ /\ m.kind = "SessionClose" /\ Shut(r, o.r) /\ o.e.closed # 0
                   /\ o.e.reason = m.reason /\ o.e.delta = AnchorDelta(r, m) /\ o.e.ack = 0
                \/ /\ m.kind # "SessionClose" /\ o.e.closed = 0
                   /\ o.r.act = r.act /\ o.r.highest = r.highest /\ o.r.ctl = m.seq
                   /\ o.r.totals = r.totals + AnchorDelta(r, m)
                   /\ o.r.inj = (IF HasAnchor(m) THEN m.anchor.through ELSE r.inj)
                   /\ o.e.delta = AnchorDelta(r, m)
                   /\ HasAnchor(m) \/ o.r.held.buttons = r.held.buttons
                   /\ o.e.ack # 0 => o.e.ack = m.seq
<1> DEFINE x == ExpireLease(r, t)
           why == Rejection(x.r, m)
           delta == IF HasAnchor(m) THEN m.anchor.totals - x.r.totals ELSE 0
           anchored == IF HasAnchor(m) THEN ApplyAnchor(x.r, m.anchor) ELSE x.r
           u == ApplyPayload(anchored, m, t)
           safe == delta = 0 /\ anchored.held.touch \in {NoTouch, x.r.held.touch}
           e == [x.e EXCEPT !.to = u.held, !.delta = delta,
                            !.ack = IF m.kind = "StateSnapshot" THEN m.seq ELSE 0,
                            !.safe = safe]
           last == [r |-> u, e |-> e]
           o == ReceiveControl(r, m, t)
<1>1. /\ x \in Outcome /\ x.r = r /\ Still(r, x) /\ r.act # 0 /\ m.act = r.act
      /\ m.kind # "Enter" /\ m.seq = r.ctl + 1 /\ Same(r.held, h) /\ Follows(h, m)
  <2>1. x \in Outcome /\ x.r = r /\ (x.r.act # 0 => x = Start(r))
    BY ExpireStill
  <2>2. r.act # 0 /\ m.act = r.act /\ Follows(h, m) /\ Same(r.held, h) /\ m.seq = r.ctl + 1
    BY DEF IsNext
  <2> HIDE DEF x
  <2> QED BY <2>1, <2>2, StartStill DEF Follows
<1>2. o.e.rejected = "none" /\ o.e.opened = 0
  BY ControlNext
<1>3. \/ o = Reject(x, why) /\ why # "none"
      \/ o = CloseActivation(x, "MotionOverflow")
      \/ m.kind = "SessionClose" /\ o = CloseActivation(last, m.reason)
      \/ m.kind # "SessionClose" /\ o = last
  BY <1>1 DEF ReceiveControl
<1>4. ~(o = Reject(x, why) /\ why # "none")
  <2> HIDE DEF x, why, o
  <2> QED BY <1>1, <1>2, Rejects
<1>5. /\ anchored \in ReceiverState /\ u \in ReceiverState
      /\ u.act = r.act /\ u.highest = r.highest /\ u.ctl = m.seq
      /\ u.inj = (IF HasAnchor(m) THEN m.anchor.through ELSE r.inj)
      /\ u.totals = (IF HasAnchor(m) THEN m.anchor.totals ELSE r.totals)
      /\ HasAnchor(m) \/ u.held.buttons = r.held.buttons
  <2> HIDE DEF x
  <2>1. anchored = IF HasAnchor(m) THEN ApplyAnchor(r, m.anchor) ELSE r
    BY <1>1
  <2> HIDE DEF anchored
  <2> QED BY <1>1, <2>1, AppliesFollowing, AppliesTotals
<1>6. /\ delta = AnchorDelta(r, m) /\ delta \in Int
      /\ u.totals = r.totals + AnchorDelta(r, m)
  <2>1. r.totals \in Int /\ (HasAnchor(m) => m.anchor.totals \in Int)
    BY ReceiverFields, SendableFields, MembersAssumption DEF Total
  <2>2. delta = AnchorDelta(r, m)
    <3> HIDE DEF x
    <3> QED BY <1>1 DEF AnchorDelta
  <2> HIDE DEF x, u, delta
  <2> QED BY <1>5, <2>1, <2>2 DEF AnchorDelta
<1>7. /\ m.seq \in Nat /\ m.act \in Nat /\ safe \in BOOLEAN /\ u.held \in HeldState
      /\ x.e \in Effects
  <2> HIDE DEF x, u
  <2> QED BY <1>1, <1>5, SendableFields, ReceiverFields, OutcomeFields
<1> HIDE DEF x, u, delta, safe, why, anchored
<1>8. /\ e \in Effects /\ e.opened = 0 /\ e.closed = 0 /\ e.delta = delta
      /\ e.ack = IF m.kind = "StateSnapshot" THEN m.seq ELSE 0
  BY <1>1, <1>6, <1>7 DEF Effects, Still
<1> HIDE DEF e
<1>9. last \in Outcome /\ last.r = u /\ last.e = e
  BY <1>5, <1>8 DEF Outcome
<1> HIDE DEF last
<1>10. CASE o = CloseActivation(x, "MotionOverflow")
  <2>1. x.e.opened = 0 /\ x.e.ack = 0
    BY <1>1 DEF Still
  <2>2. Stopped(r, o)
    <3> HIDE DEF o
    <3> QED BY <1>1, <1>10, <2>1, CloseStopped
  <2> QED BY <1>2, <2>2
<1>11. CASE m.kind = "SessionClose" /\ o = CloseActivation(last, m.reason)
  <2> DEFINE c == CloseActivation(last, m.reason)
  <2>1. /\ c.e.closed = r.act /\ c.e.reason = m.reason /\ c.e.delta = e.delta
        /\ c.e.ack = e.ack /\ Shut(r, c.r)
    BY <1>1, <1>5, <1>8, <1>9 DEF CloseActivation, Effects, NewReceiver, Shut
  <2>2. c.e.ack = 0
    <3> HIDE DEF c
    <3> QED BY <1>8, <1>11, <2>1
  <2> HIDE DEF c, o
  <2>3. o = c
    BY <1>11 DEF c
  <2> QED BY <1>1, <1>2, <1>6, <1>8, <1>11, <2>1, <2>2, <2>3 DEF o
<1>12. CASE m.kind # "SessionClose" /\ o = last
  <2> HIDE DEF o
  <2> QED BY <1>2, <1>5, <1>6, <1>8, <1>9, <1>12 DEF o
<1> QED BY <1>3, <1>4, <1>10, <1>11, <1>12

-----------------------------------------------------------------------------
(* The sink's handlers, one case at a time *)

(* What drain_pending_controls finds at the head of its queue. *)
LEMMA HeadCases ==
  ASSUME TypeInv, StreamInv, PhaseInv, pc = "drain", pending # <<>>
  PROVE  LET m == Head(pending)
             x == ExpireLease(receiver, at)
         IN  /\ m \in Sendable /\ at \in Nat /\ receiver \in ReceiverState
             /\ mirror.held \in HeldState /\ playout.seq \in Nat
             /\ x.r = receiver \/ Shut(receiver, x.r)
             /\ \/ IsClosed(x.r, m.act)
                \/ IsFirst(x.r, m)
                \/ x.r = receiver /\ IsNext(receiver, m, playout, mirror.held)
<1> DEFINE m == Head(pending)
           x == ExpireLease(receiver, at)
<1>1. /\ pending \in Seq(Sendable) /\ control \in Seq(Sendable) /\ receiver \in ReceiverState
      /\ at \in Nat /\ mirror.held \in HeldState /\ m \in Sendable /\ playout.seq \in Nat
  BY StreamFacts, InTail, PlayoutFields
<1>2. Flow(pending, control, motion, sender, receiver, playout, mirror.held, nextAct, TRUE)
  BY DEF StreamInv, PhaseInv
<1>3. x.r = receiver \/ Shut(receiver, x.r)
  BY <1>1, Expires
<1> HIDE DEF x, m
<1>4. \/ IsClosed(x.r, Head(pending).act)
      \/ IsFirst(x.r, Head(pending))
      \/ x.r = receiver /\ IsNext(receiver, Head(pending), playout, mirror.held)
  BY <1>1, <1>2, <1>3, HeadFits
<1> QED BY <1>1, <1>3, <1>4 DEF m, x

(* What poll_playout plays: the old target, or the newest mature sample. *)
LEMMA PollCases ==
  ASSUME TypeInv, PollPlayout
  PROVE  \E p \in PlayoutState, start \in Total, touch \in TouchStates :
           /\ PlayStep(p, start, touch)
           /\ p.act = playout.act /\ p.inj = playout.inj
           /\ (p = playout /\ touch = NoTouch) \/ \E f \in playout.queue : p.seq = f.seq
<1>1. playout \in PlayoutState
  BY TypeFacts
<1>2. CASE PlayStep(playout, playout.target, NoTouch)
  BY <1>1, <1>2, PlayoutFields DEF TouchStates
<1>3. CASE \E f \in Eligible(playout) :
             PlayStep(Select(playout, f), OwnSampleStart(playout, f), f.touch)
  <2>1. PICK f \in Eligible(playout) :
             PlayStep(Select(playout, f), OwnSampleStart(playout, f), f.touch)
    BY <1>3
  <2> DEFINE p == Select(playout, f)
             start == OwnSampleStart(playout, f)
  <2>2. f \in MotionFrame /\ p \in PlayoutState /\ start \in Total /\ f \in playout.queue
    BY <1>1, PlayoutTypes DEF Eligible
  <2>3. f.touch \in TouchStates
    BY <2>2, FrameFields
  <2>4. p.act = playout.act /\ p.inj = playout.inj /\ p.seq = f.seq
    BY <1>1 DEF Select, PlayoutState
  <2>5. PlayStep(p, start, f.touch)
    BY <2>1
  <2> HIDE DEF p, start
  <2> QED BY <2>2, <2>3, <2>4, <2>5
<1> QED BY <1>2, <1>3 DEF PollPlayout

(* What PlayStep does: it fails, finds nothing to play, or hands a step over. *)
LEMMA PlayCases ==
  ASSUME TypeInv, NEW p \in PlayoutState, NEW start \in Total, NEW touch \in TouchStates,
         PlayStep(p, start, touch)
  PROVE  \/ /\ Bail("invalid") /\ playout' = p
            /\ UNCHANGED <<receiver, acks, shown, closedBy>>
         \/ /\ ~HasStep(p, touch) /\ playout' = p /\ pc' = "drain"
            /\ UNCHANGED <<at, receiver, resume, batch, sinkEnd, acks, shown, closedBy>>
         \/ \E step \in Step, inj \in Int :
              /\ HasStep(p, touch) /\ step.through = p.seq /\ step.delta = inj - p.inj
              /\ step.reached = (inj = p.target)
              /\ playout' = [p EXCEPT !.inj = inj]
              /\ receiver' = ReceivePlayoutStep(receiver, p.act, step, at).r
              /\ Records(ReceivePlayoutStep(receiver, p.act, step, at).e)
              /\ Emit(ReceivePlayoutStep(receiver, p.act, step, at).e, "drain")
              /\ sinkEnd' = sinkEnd
<1>1. \/ PlayFails(p)
      \/ /\ ~HasStep(p, touch) /\ playout' = p /\ pc' = "drain"
         /\ UNCHANGED <<at, receiver, resume, batch, sinkEnd, acks, shown, closedBy>>
      \/ \E out \in Steps(p, start, touch) :
           LET o == ReceivePlayoutStep(receiver, p.act, out.step, at)
           IN  /\ HasStep(p, touch) /\ playout' = out.p /\ receiver' = o.r /\ Records(o.e)
               /\ Emit(o.e, "drain") /\ UNCHANGED sinkEnd
  BY DEF PlayStep
<1>2. CASE \E out \in Steps(p, start, touch) :
             LET o == ReceivePlayoutStep(receiver, p.act, out.step, at)
             IN  /\ HasStep(p, touch) /\ playout' = out.p /\ receiver' = o.r /\ Records(o.e)
                 /\ Emit(o.e, "drain") /\ UNCHANGED sinkEnd
  <2>1. PICK out \in Steps(p, start, touch) :
             LET o == ReceivePlayoutStep(receiver, p.act, out.step, at)
             IN  /\ HasStep(p, touch) /\ playout' = out.p /\ receiver' = o.r /\ Records(o.e)
                 /\ Emit(o.e, "drain") /\ UNCHANGED sinkEnd
    BY <1>2
  <2>2. PICK b \in Limited(start - p.inj) :
             LET inj == p.inj + b + (p.target - start)
             IN  /\ out.p = [p EXCEPT !.inj = inj]
                 /\ out.step.through = p.seq /\ out.step.touch = touch
                 /\ out.step.delta = b + (p.target - start)
                 /\ out.step.reached = (inj = p.target)
    BY StepsType
  <2> DEFINE inj == p.inj + b + (p.target - start)
             step == out.step
  <2>3. step \in Step /\ step.delta \in Int
    BY StepsType DEF Step
  <2>4. /\ p.inj \in Int /\ p.target \in Int /\ start \in Int
    BY PlayoutFields, MembersAssumption DEF Total
  <2>5. b \in Int
    BY <2>4 DEF Limited
  <2>6. inj \in Int /\ step.delta = inj - p.inj
    BY <2>2, <2>4, <2>5
  <2>7. /\ HasStep(p, touch) /\ step.through = p.seq /\ step.reached = (inj = p.target)
        /\ playout' = [p EXCEPT !.inj = inj]
    BY <2>1, <2>2
  <2>8. /\ receiver' = ReceivePlayoutStep(receiver, p.act, step, at).r
        /\ Records(ReceivePlayoutStep(receiver, p.act, step, at).e)
        /\ Emit(ReceivePlayoutStep(receiver, p.act, step, at).e, "drain")
        /\ sinkEnd' = sinkEnd
    BY <2>1
  <2> HIDE DEF inj, step
  <2> QED BY <2>3, <2>6, <2>7, <2>8
<1> QED BY <1>1, <1>2 DEF PlayFails

(* What the cleanup finds. *)
LEMMA LostStill ==
  ASSUME NEW r \in ReceiverState
  PROVE  LET o == ConnectionLost(r)
         IN  /\ o \in Outcome
             /\ (r.act = 0 /\ Still(r, o)) \/ Stopped(r, o)
             /\ o.e.delta = 0 /\ o.e.ack = 0 /\ o.r.act = 0
<1>1. Still(r, Start(r)) /\ Start(r) \in Outcome
  BY StartStill
<1>2. CASE r.act # 0
  <2> DEFINE s == Start(r)
             c == CloseActivation(s, "LeaseExpired")
  <2>1. Stopped(r, c) /\ c \in Outcome
    BY <1>1, <1>2, CloseStopped, CloseType DEF Still, CloseReasons
  <2>2. c.e.delta = 0
    <3> HIDE DEF s
    <3> QED BY <1>1, <1>2 DEF CloseActivation, Outcome, Effects, Still, s
  <2> QED BY <2>1, <2>2 DEF ConnectionLost, Stopped, Shut
<1>3. CASE r.act = 0
  <2>1. ConnectionLost(r) = Start(r)
    BY <1>1, <1>3 DEF ConnectionLost, CloseActivation, Still
  <2> QED BY <1>1, <1>3, <2>1 DEF Still
<1> QED BY <1>2, <1>3

-----------------------------------------------------------------------------
(* What is acknowledged *)

(* The last control shown at the backend, w, includes the one named. *)
Reaches(w, act, seq) == w.act > act \/ (w.act = act /\ w.ctl >= seq)

(* The backend was never shown more than the receiver r has applied. *)
Behind(w, r) ==
  /\ w.act <= r.highest
  /\ r.act # 0 /\ w.act = r.act => w.ctl <= r.ctl

(* A receiver only ever moves on. *)
MovesOn(r, r1) ==
  \/ r1 = r
  \/ Shut(r, r1)
  \/ r1.act = r.act /\ r1.highest = r.highest /\ r1.ctl >= r.ctl
  \/ r1.act = r1.highest /\ r1.highest > r.highest

LEMMA BehindMovesOn ==
  ASSUME NEW w \in [act: Nat, ctl: Nat], NEW r \in ReceiverState, NEW r1 \in ReceiverState,
         Behind(w, r), MovesOn(r, r1)
  PROVE  Behind(w, r1)
<1>1. /\ w.act \in Nat /\ w.ctl \in Nat /\ r.highest \in Nat /\ r1.highest \in Nat
      /\ r.ctl \in Nat /\ r1.ctl \in Nat
  BY ReceiverFields
<1> QED BY <1>1 DEF Behind, MovesOn, Shut

(* Once the backend shows what the receiver applied, all that it showed before  *)
(* is still shown, and so is whatever the receiver may acknowledge.             *)
LEMMA ReachedForward ==
  ASSUME shown \in [act: Nat, ctl: Nat], NEW r \in ReceiverState, r.act \in {0, r.highest},
         Behind(shown, r)
  PROVE  /\ Behind(Reached(r), r)
         /\ \A act, seq \in Nat : Reaches(shown, act, seq) => Reaches(Reached(r), act, seq)
         /\ r.act # 0 => \A seq \in Nat : seq <= r.ctl => Reaches(Reached(r), r.act, seq)
<1>1. /\ r.highest \in Nat /\ r.ctl \in Nat /\ r.act \in Nat
      /\ shown.act \in Nat /\ shown.ctl \in Nat
  BY ReceiverFields
<1>2. CASE r.act = 0
  BY <1>2 DEF Reached
<1>3. CASE r.act # 0
  <2>1. Reached(r).act = r.act /\ Reached(r).ctl = r.ctl
    BY <1>3 DEF Reached
  <2>2. shown.act < r.act \/ (shown.act = r.act /\ shown.ctl <= r.ctl)
    BY <1>1, <1>3 DEF Behind
  <2> QED BY <1>1, <1>3, <2>1, <2>2 DEF Behind, Reaches
<1> QED BY <1>2, <1>3

(* The batch that waits, the acknowledgements in flight and the one the source *)
(* counted all stay behind what the backend has been shown.                     *)
ShownInv ==
  /\ Behind(shown, receiver)
  /\ batch.ack # 0 => receiver.act # 0 /\ batch.ack <= receiver.ctl
  /\ \A a \in In(acks) : Reaches(shown, a.act, a.seq)
  /\ sender.acked # 0 => Reaches(shown, sender.act, sender.acked)

LEMMA ShownTypes ==
  ASSUME TypeInv
  PROVE  /\ shown \in [act: Nat, ctl: Nat] /\ receiver \in ReceiverState
         /\ batch.ack \in Nat /\ batch \in Effects /\ receiver.ctl \in Nat
         /\ sender.act \in Nat /\ sender.acked \in Nat
         /\ \A a \in In(acks) : a.act \in Nat /\ a.seq \in Nat
BY TypeFacts, AckTypes DEF SenderState

(* A step that shows nothing and acknowledges nothing new. *)
LEMMA ShownKeeps ==
  ASSUME TypeInv, TypeInv', ShownInv, In(acks') \subseteq In(acks), shown' = shown, batch'.ack = 0,
         MovesOn(receiver, receiver'),
         \/ sender'.acked = 0
         \/ sender'.act = sender.act /\ sender'.acked = sender.acked
         \/ \E a \in In(acks) : sender'.act = a.act /\ sender'.acked = a.seq
  PROVE  ShownInv'
<1>1. Behind(shown, receiver')
  BY ShownTypes, BehindMovesOn DEF ShownInv, TypeInv, TypeOK
<1>2. \A a \in In(acks') : Reaches(shown, a.act, a.seq)
  BY DEF ShownInv
<1>3. sender'.acked # 0 => Reaches(shown, sender'.act, sender'.acked)
  BY DEF ShownInv
<1> QED BY <1>1, <1>2, <1>3 DEF ShownInv, In

(* What the backend has been shown is answered. *)
LEMMA ShownAnswers ==
  ASSUME TypeInv, ShownInv, UNCHANGED <<sender, batch>> \/ (sender' = sender /\ batch' = NoEffects),
         NEW e \in Effects, NEW r \in ReceiverState, receiver' = r, MovesOn(receiver, r),
         r.act \in {0, r.highest}, e.ack # 0 => r.act # 0 /\ e.ack <= r.ctl,
         acks' = SendAck(e, r.act) \/ acks' = acks, shown' = Reached(r), batch'.ack = 0
  PROVE  ShownInv'
<1>1. /\ shown \in [act: Nat, ctl: Nat] /\ receiver \in ReceiverState
      /\ sender.act \in Nat /\ sender.acked \in Nat /\ r.act \in Nat /\ e.ack \in Nat
      /\ \A a \in In(acks) : a.act \in Nat /\ a.seq \in Nat
      /\ acks \in Seq([act: Nat, seq: Nat])
  BY ShownTypes, TypeFacts, ReceiverFields DEF Effects
<1>2. Behind(shown, r)
  BY <1>1, BehindMovesOn DEF ShownInv
<1>3. /\ Behind(Reached(r), r)
      /\ \A act, seq \in Nat : Reaches(shown, act, seq) => Reaches(Reached(r), act, seq)
      /\ r.act # 0 => \A seq \in Nat : seq <= r.ctl => Reaches(Reached(r), r.act, seq)
  BY <1>1, <1>2, ReachedForward
<1>4. \A a \in In(acks') : a \in In(acks) \/ (e.ack # 0 /\ a.act = r.act /\ a.seq = e.ack)
  BY <1>1, SendAckIn
<1>5. \A a \in In(acks') : Reaches(Reached(r), a.act, a.seq)
  BY <1>1, <1>3, <1>4 DEF ShownInv
<1>6. sender.acked # 0 => Reaches(Reached(r), sender.act, sender.acked)
  BY <1>1, <1>3 DEF ShownInv
<1> HIDE DEF Reaches, Behind
<1> QED BY <1>3, <1>5, <1>6 DEF ShownInv, In

(* A handler that emits the outcome of the receiver's call. *)
LEMMA ShownEmit ==
  ASSUME TypeInv, TypeInv', ShownInv, sender' = sender, batch.ack = 0,
         NEW e \in Effects, NEW next, Emit(e, next), MovesOn(receiver, receiver'),
         receiver'.act \in {0, receiver'.highest},
         e.ack # 0 => receiver'.act # 0 /\ e.ack <= receiver'.ctl
  PROVE  ShownInv'
<1>1. receiver' \in ReceiverState
  BY DEF TypeInv, TypeOK
<1>2. CASE NeedsBackend(e)
  <2>1. batch' = e /\ acks' = acks /\ shown' = shown
    BY <1>2 DEF Emit
  <2>2. Behind(shown, receiver')
    BY <1>1, ShownTypes, BehindMovesOn DEF ShownInv
  <2> QED BY <2>1, <2>2 DEF ShownInv, In
<1>3. CASE ~NeedsBackend(e)
  <2>1. batch' = batch /\ acks' = SendAck(e, receiver'.act) /\ shown' = Reached(receiver')
    BY <1>3 DEF Emit
  <2> QED BY <1>1, <2>1, ShownAnswers
<1> QED BY <1>2, <1>3

LEMMA ShownSource ==
  ASSUME TypeInv, TypeInv', UnionInv, AckInv, ShownInv, SourceNext \/ NetworkLoss \/ Advance
  PROVE  ShownInv'
<1>1. UNCHANGED <<receiver, shown, batch>>
  BY DEF SourceNext, BeginOutbound, Capture, EndOutbound, SourceTick, ReceiveAck, SourceClose,
         SourceLost, NetworkLoss, Advance, sink, history
<1>2. NoSender.acked = 0
  BY DEF NoSender
<1>3. sender \in SenderState /\ now \in Nat /\ nextAct \in Nat
  BY TypeFacts
<1>4. In(acks') \subseteq In(acks)
  <2>1. CASE ReceiveAck
    <3> DEFINE Ack == [act: Nat, seq: Nat]
    <3>1. acks \in Seq(Ack)
      BY TypeFacts
    <3>2. acks # <<>> /\ acks' = Tail(acks)
      BY <2>1 DEF ReceiveAck
    <3> HIDE DEF Ack
    <3> QED BY <3>1, <3>2, InTail
  <2>2. CASE ~ReceiveAck
    <3>1. acks' = acks
      BY <2>2 DEF SourceNext, BeginOutbound, Capture, EndOutbound, SourceTick, SourceClose,
         SourceLost, NetworkLoss, Advance, network
    <3> QED BY <3>1
  <2> QED BY <2>1, <2>2
<1>5. \/ sender'.acked = 0
      \/ sender'.act = sender.act /\ sender'.acked = sender.acked
      \/ \E a \in In(acks) : sender'.act = a.act /\ sender'.acked = a.seq
  <2>1. CASE Capture
    BY <1>2, <2>1, CaptureResult DEF Grows
  <2>2. CASE BeginOutbound
    <3> DEFINE s == NewSender(nextAct + 1, now)
    <3>1. s.acked = 0 /\ sender' = Sent(s)
      BY <2>2 DEF NewSender, NoSender, BeginOutbound
    <3>2. s \in SenderState
      <4>1. nextAct + 1 \in Nat
        BY <1>3
      <4> QED BY <1>3, <4>1, SenderTypes
    <3> HIDE DEF s
    <3> QED BY <3>1, <3>2, SentFields
  <2>3. CASE EndOutbound \/ SourceClose \/ SourceLost
    BY <1>2, <2>3 DEF EndOutbound, SourceClose, SourceLost, SourceEnds
  <2>4. CASE SourceTick
    <3>1. /\ Sent(Snapshot(sender, now)).act = sender.act
          /\ Sent(Snapshot(sender, now)).acked = sender.acked
      BY <1>3 DEF Sent, Snapshot, SenderState
    <3> QED BY <1>2, <2>4, <3>1 DEF SourceTick, SourceEnds
  <2>5. CASE ReceiveAck
    <3> DEFINE Ack == [act: Nat, seq: Nat]
    <3>1. acks \in Seq(Ack)
      BY TypeFacts
    <3>2. acks # <<>>
      BY <2>5 DEF ReceiveAck
    <3> HIDE DEF Ack
    <3>3. Head(acks) \in In(acks)
      BY <3>1, <3>2, InTail
    <3>4. \/ sender' = sender \/ sender' = NoSender
          \/ Head(acks).act = sender.act /\ sender' = Acknowledge(sender, Head(acks).seq)
      BY <2>5 DEF ReceiveAck, SourceEnds
    <3>5. /\ Acknowledge(sender, Head(acks).seq).act = sender.act
          /\ Acknowledge(sender, Head(acks).seq).acked \in {sender.acked, Head(acks).seq}
      BY <1>3 DEF Acknowledge, SenderState
    <3> QED BY <1>2, <3>3, <3>4, <3>5
  <2>6. CASE NetworkLoss \/ Advance
    BY <2>6 DEF NetworkLoss, Advance, source
  <2> QED BY <2>1, <2>2, <2>3, <2>4, <2>5, <2>6 DEF SourceNext
<1>6. sender'.acked # 0 => Reaches(shown, sender'.act, sender'.acked)
  BY <1>5 DEF ShownInv
<1>7. \A a \in In(acks') : Reaches(shown, a.act, a.seq)
  BY <1>4 DEF ShownInv
<1> QED BY <1>1, <1>6, <1>7 DEF ShownInv, In

LEMMA StillMovesOn ==
  ASSUME NEW r, NEW o, Still(r, o) \/ Stopped(r, o)
  PROVE  MovesOn(r, o.r) /\ o.e.ack = 0
BY DEF Still, Stopped, MovesOn

LEMMA ShownApply ==
  ASSUME TypeInv, TypeInv', StreamInv, StreamInv', PhaseInv, ShownInv, ApplyControl
  PROVE  ShownInv'
<1> DEFINE m == Head(pending)
           x == ExpireLease(receiver, at)
           o == ReceiveControl(receiver, m, at)
<1>1. /\ pc = "drain" /\ pending # <<>> /\ receiver' = o.r /\ sender' = sender
      /\ \/ Bail("invalid") /\ UNCHANGED <<acks, shown>>
         \/ Emit(o.e, "drain")
  BY DEF ApplyControl, source
<1>2. /\ m \in Sendable /\ at \in Nat /\ receiver \in ReceiverState
      /\ mirror.held \in HeldState /\ playout.seq \in Nat
      /\ x.r = receiver \/ Shut(receiver, x.r)
      /\ \/ IsClosed(x.r, m.act)
         \/ IsFirst(x.r, m)
         \/ x.r = receiver /\ IsNext(receiver, m, playout, mirror.held)
  BY <1>1, HeadCases
<1>3. batch.ack = 0
  BY <1>1 DEF PhaseInv
<1>4. o.e \in Effects
  BY <1>2, ControlType, OutcomeFields
<1>5. receiver.ctl \in Nat /\ receiver.highest \in Nat /\ m.act \in Nat /\ m.seq \in Nat
  BY <1>2, ReceiverFields, SendableFields
<1>6. /\ MovesOn(receiver, o.r)
      /\ o.e.ack # 0 => o.r.act # 0 /\ o.e.ack <= o.r.ctl
  <2>1. CASE IsClosed(x.r, m.act)
    <3>1. Still(receiver, o) \/ Stopped(receiver, o)
      BY <1>2, <2>1, ControlStill
    <3> HIDE DEF o
    <3> QED BY <3>1, StillMovesOn
  <2>2. CASE IsFirst(x.r, m)
    <3>1. /\ o.r.act = m.act /\ o.r.highest = m.act /\ o.e.ack = 0
      BY <1>2, <2>2, ControlFirst DEF Calm
    <3>2. m.act > receiver.highest
      BY <1>2, <2>2 DEF IsFirst, Shut
    <3> HIDE DEF o
    <3> QED BY <3>1, <3>2 DEF MovesOn
  <2>3. CASE x.r = receiver /\ IsNext(receiver, m, playout, mirror.held)
    <3>1. receiver.act # 0 /\ m.seq = receiver.ctl + 1
      BY <2>3 DEF IsNext
    <3>2. \/ Stopped(receiver, o)
          \/ Shut(receiver, o.r) /\ o.e.ack = 0
          \/ /\ o.r.act = receiver.act /\ o.r.highest = receiver.highest /\ o.r.ctl = m.seq
             /\ o.e.ack # 0 => o.e.ack = m.seq
      BY <1>2, <2>3, ControlFollows
    <3> HIDE DEF o, m
    <3> QED BY <1>5, <3>1, <3>2, StillMovesOn DEF MovesOn
  <2> QED BY <1>2, <2>1, <2>2, <2>3
<1>7. receiver'.act \in {0, receiver'.highest}
  BY DEF StreamInv, Flow, Order
<1> HIDE DEF o
<1>8. CASE Bail("invalid") /\ UNCHANGED <<acks, shown>>
  <2>1. batch'.ack = 0
    BY <1>8 DEF Bail, NoEffects
  <2> QED BY <1>1, <1>6, <1>8, <2>1, ShownKeeps
<1>9. CASE Emit(o.e, "drain")
  BY <1>1, <1>3, <1>4, <1>6, <1>7, <1>9, ShownEmit
<1> QED BY <1>1, <1>8, <1>9

LEMMA ShownSink ==
  ASSUME TypeInv, TypeInv', StreamInv, StreamInv', PhaseInv, ShownInv,
         SinkNext \/ Finished \/ UNCHANGED vars
  PROVE  ShownInv'
<1>1. /\ receiver \in ReceiverState /\ at \in Nat /\ now \in Nat /\ playout \in PlayoutState
      /\ batch \in Effects
  BY TypeFacts
<1>2. sender' = sender
  BY DEF SinkNext, RecvControl, RecvMotion, InboundTick, PollPlayout, DrainEnds,
         ApplyControl, BackendApplies, BackendRejects, SinkClose, SinkLost, Cleanup,
         Finished, vars, source
<1>3. NoEffects.ack = 0
  BY DEF NoEffects
<1>4. receiver'.act \in {0, receiver'.highest} /\ receiver' \in ReceiverState
  BY DEF StreamInv, Flow, Order, TypeInv, TypeOK
<1>5. MovesOn(receiver, receiver)
  BY DEF MovesOn
<1>6. CASE \/ RecvControl \/ RecvMotion \/ DrainEnds \/ BackendRejects \/ SinkClose \/ SinkLost
           \/ Finished \/ UNCHANGED vars
  <2>1. UNCHANGED <<acks, receiver, shown>> /\ (batch' = batch \/ batch' = NoEffects)
    BY <1>6 DEF RecvControl, RecvMotion, DrainEnds, BackendRejects, SinkClose, SinkLost,
                Finished, Bail, Idle, vars, sink, network, history
  <2> QED BY <1>2, <1>3, <2>1 DEF ShownInv, In, Behind
<1>7. CASE InboundTick
  <2> DEFINE o == ExpireLease(receiver, now)
  <2>1. MovesOn(receiver, o.r) /\ o.e.ack = 0
    BY <1>1, ExpireStill, StillMovesOn
  <2>2. /\ UNCHANGED <<acks, shown>> /\ receiver' = o.r /\ pc = "select"
        /\ batch' = batch \/ batch' = o.e
    BY <1>7 DEF InboundTick, network
  <2> HIDE DEF o
  <2>3. batch.ack = 0
    BY <2>2 DEF PhaseInv
  <2> QED BY <1>2, <2>1, <2>2, <2>3, ShownKeeps
<1>8. CASE PollPlayout
  <2>1. PICK p \in PlayoutState, start \in Total, touch \in TouchStates :
               PlayStep(p, start, touch)
    BY <1>8, PollCases
  <2>2. batch.ack = 0
    BY <1>8 DEF PhaseInv, PollPlayout
  <2>3. CASE UNCHANGED <<receiver, acks, shown>> /\ (batch' = NoEffects \/ batch' = batch)
    BY <1>2, <1>3, <1>5, <2>2, <2>3, ShownKeeps
  <2>4. CASE \E step \in Step :
               /\ receiver' = ReceivePlayoutStep(receiver, p.act, step, at).r
               /\ Emit(ReceivePlayoutStep(receiver, p.act, step, at).e, "drain")
    <3>1. PICK step \in Step :
               /\ receiver' = ReceivePlayoutStep(receiver, p.act, step, at).r
               /\ Emit(ReceivePlayoutStep(receiver, p.act, step, at).e, "drain")
      BY <2>4
    <3> DEFINE o == ReceivePlayoutStep(receiver, p.act, step, at)
    <3>2. p.act \in Nat
      BY PlayoutFields
    <3>3. /\ Still(receiver, o) \/ Stopped(receiver, o)
             \/ /\ o.r.act = receiver.act /\ o.r.highest = receiver.highest
                /\ o.r.ctl = receiver.ctl /\ o.e.ack = 0
      BY <1>1, <3>2, PlayedLedger
    <3>4. o.e \in Effects
      BY <1>1, <3>2, PlayoutStepType, OutcomeFields
    <3>5. receiver' = o.r /\ Emit(o.e, "drain")
      BY <3>1
    <3> HIDE DEF o
    <3>6. MovesOn(receiver, o.r) /\ o.e.ack = 0
      BY <1>1, <3>3, ReceiverFields, StillMovesOn DEF MovesOn
    <3> QED BY <1>2, <1>4, <2>2, <3>4, <3>5, <3>6, ShownEmit
  <2> QED BY <2>1, <2>3, <2>4, PlayCases DEF Bail
<1>9. CASE ApplyControl
  BY <1>9, ShownApply
<1>10. CASE BackendApplies
  <2>1. /\ UNCHANGED receiver /\ batch' = NoEffects /\ shown' = Reached(receiver)
        /\ acks' = acks \/ acks' = SendAck(batch, receiver.act)
    BY <1>10 DEF BackendApplies
  <2>2. batch.ack # 0 => receiver.act # 0 /\ batch.ack <= receiver.ctl
    BY DEF ShownInv
  <2>3. receiver.act \in {0, receiver.highest}
    BY <1>4, <2>1
  <2> QED BY <1>1, <1>2, <1>3, <1>5, <2>1, <2>2, <2>3, ShownAnswers
<1>11. CASE Cleanup
  <2> DEFINE o == ConnectionLost(receiver)
  <2>1. pc = "cleanup" /\ Emit(o.e, "down") /\ receiver' = o.r
    BY <1>11 DEF Cleanup
  <2>2. batch.ack = 0
    BY <2>1 DEF PhaseInv
  <2>3. /\ o.e \in Effects /\ MovesOn(receiver, o.r) /\ o.e.ack = 0
    BY <1>1, LostStill, StillMovesOn, OutcomeFields
  <2> HIDE DEF o
  <2> QED BY <1>2, <1>4, <2>1, <2>2, <2>3, ShownEmit
<1> QED BY <1>6, <1>7, <1>8, <1>9, <1>10, <1>11 DEF SinkNext

LEMMA ShownInit == Init => ShownInv
BY DEF Init, ShownInv, Behind, In, NoEffects, NewReceiver, NoSender

LEMMA ShownNext ==
  ASSUME TypeInv, TypeInv', StreamInv, StreamInv', PhaseInv, UnionInv, AckInv, ShownInv,
         [Next]_vars
  PROVE  ShownInv'
BY ShownSource, ShownSink DEF Next

(* A snapshot is acknowledged only once the backend has applied it and all that *)
(* came before it, also when the batch in between was refused, the activation   *)
(* was superseded or the source began another one while the answer was on its   *)
(* way.                                                                         *)
THEOREM AcknowledgedIsApplied == Spec => []AckedMeansApplied
<1>1. ShownInv => AckedMeansApplied
  BY DEF ShownInv, AckedMeansApplied, Reaches, In
<1> QED BY <1>1, TypeInit, TypeNext, StreamInit, StreamNext, PhaseNext, UnionInit, UnionNext,
           AckInit, AckNext, ShownInit, ShownNext, PTL DEF Spec

-----------------------------------------------------------------------------
(* The ledgers of motion *)

(* Playout, the receiver and the pointer have come equally far. *)
Level(pos, r, p) == r.act # 0 => pos = r.totals /\ p.inj = r.totals

(* What playout has not played out yet is not behind the receiver. *)
ToPlay(r, p, runs) == r.act # 0 /\ runs /\ p.inj # p.target => r.inj < p.seq

(* Buttons stay as they are, or change where the source changed them. *)
InPlace(e) ==
  \/ e.closed # 0
  \/ backend.held.buttons = Visible(e.to).buttons
  \/ Applied(backend, e).pos = mirror.totals

LedgerInv ==
  /\ Closed(receiver)
  /\ pc = "down" \/ (pc = "emit" /\ resume = "down") => receiver.act = 0
  /\ closedBy # "none" => receiver.act = 0
  /\ ToPlay(receiver, playout, sinkEnd = "running")
  /\ pc \in {"select", "poll", "drain"} => Agrees /\ Level(backend.pos, receiver, playout)
  /\ pc = "emit" /\ resume # "down" =>
       /\ Applied(backend, batch).held = Visible(receiver.held)
       /\ Level(Applied(backend, batch).pos, receiver, playout)
  /\ pc = "emit" => InPlace(batch)

(* The batch is handed over, or it is empty and the handler goes on. *)
Hands(e, next) ==
  \/ NeedsBackend(e) /\ pc' = "emit" /\ resume' = next /\ batch' = e
  \/ ~NeedsBackend(e) /\ pc' = next

LEMMA EmitHands ==
  ASSUME NEW e, NEW next, Emit(e, next)
  PROVE  Hands(e, next)
BY DEF Emit, Hands

LEMMA StillEmpty ==
  ASSUME NEW r, NEW o, Still(r, o)
  PROVE  ~NeedsBackend(o.e)
BY DEF Still, NeedsBackend

LEMMA LedgerHands ==
  ASSUME NEW o, Truthful(receiver, o), Agrees, UNCHANGED backend, backend.pos \in Int,
         receiver' = o.r, Records(o.e), closedBy # "none" => receiver.act = 0,
         NEW next \in {"poll", "drain"}, Hands(o.e, next),
         o.e.opened = 0 /\ o.r.act # 0 => receiver.act # 0,
         Level(Applied(backend, o.e).pos, o.r, playout'),
         ToPlay(o.r, playout', sinkEnd' = "running"),
         \/ o.e.closed # 0
         \/ o.e.to.buttons = receiver.held.buttons
         \/ Applied(backend, o.e).pos = mirror'.totals
  PROVE  LedgerInv'
<1>1. Closed(receiver')
  BY DEF Truthful
<1>2. closedBy' # "none" => receiver'.act = 0
  BY DEF Records, Truthful
<1>3. ToPlay(receiver', playout', sinkEnd' = "running")
  OBVIOUS
<1>4. Applied(backend, o.e).held = Visible(receiver'.held)
  BY AppliedAgrees
<1>5. CASE NeedsBackend(o.e) /\ pc' = "emit" /\ resume' = next /\ batch' = o.e
  <2>1. InPlace(batch)'
    BY <1>5 DEF InPlace, Agrees, Visible, Applied
  <2>2. /\ (Applied(backend, batch).held = Visible(receiver.held))'
        /\ Level(Applied(backend, batch).pos, receiver, playout)'
    BY <1>4, <1>5 DEF Level, Applied
  <2> QED BY <1>1, <1>2, <1>3, <1>5, <2>1, <2>2 DEF LedgerInv
<1>6. CASE ~NeedsBackend(o.e) /\ pc' = next
  <2>1. Agrees'
    BY <1>6 DEF NeedsBackend, Truthful, Agrees
  <2>2. Applied(backend, o.e).pos = backend.pos
    BY <1>6 DEF NeedsBackend, Applied
  <2>3. Level(backend.pos, receiver, playout)'
    BY <2>2 DEF Level
  <2> QED BY <1>1, <1>2, <1>3, <1>6, <2>1, <2>3 DEF LedgerInv
<1> QED BY <1>5, <1>6 DEF Hands

LEMMA LedgerSource ==
  ASSUME LedgerInv, SourceNext \/ NetworkLoss \/ Advance \/ Finished \/ UNCHANGED vars
  PROVE  LedgerInv'
<1>1. UNCHANGED <<sink, backend, history>>
  BY DEF SourceNext, BeginOutbound, Capture, EndOutbound, SourceTick, ReceiveAck, SourceClose,
         SourceLost, NetworkLoss, Advance, Finished, vars
<1>2. UNCHANGED <<pc, resume, receiver, playout, batch, sinkEnd, backend, mirror, closedBy>>
  BY <1>1 DEF sink, history
<1> QED BY <1>2 DEF LedgerInv, Agrees, Closed, Applied, Level, ToPlay, InPlace

(* A handler that fails leaves for the cleanup. *)
LEMMA LedgerBail ==
  ASSUME NEW why \in SinkEnds \ {"running"}, Bail(why), Closed(receiver'),
         closedBy' # "none" => receiver'.act = 0
  PROVE  LedgerInv'
BY DEF Bail, LedgerInv, ToPlay, SinkEnds

LEMMA LedgerQuiet ==
  ASSUME TypeInv, PhaseInv, LedgerInv,
         RecvControl \/ RecvMotion \/ DrainEnds \/ BackendRejects \/ SinkClose \/ SinkLost
  PROVE  LedgerInv'
<1>1. UNCHANGED <<receiver, closedBy>>
  BY DEF RecvControl, RecvMotion, DrainEnds, BackendRejects, SinkClose, SinkLost, history
<1>2. CASE \E why \in SinkEnds \ {"running"} : Bail(why)
  BY <1>1, <1>2, LedgerBail DEF LedgerInv, Closed
<1>3. CASE /\ pc \in {"select", "drain"} /\ pc' \in {"select", "drain"}
           /\ UNCHANGED <<backend, mirror, sinkEnd>>
           /\ playout' = playout \/ \E f : playout' = IngestFrame(playout, f)
  <2>1. playout'.inj = playout.inj /\ playout'.target = playout.target /\ playout'.seq = playout.seq
    BY <1>3, TypeFacts DEF IngestFrame, PlayoutState
  <2> QED BY <1>1, <1>3, <2>1 DEF LedgerInv, Closed, Agrees, Level, ToPlay
<1> QED BY <1>2, <1>3
        DEF RecvControl, RecvMotion, DrainEnds, BackendRejects, SinkClose, SinkLost, Idle,
            SinkEnds, history

LEMMA LedgerTick ==
  ASSUME TypeInv, PhaseInv, LedgerInv, InboundTick
  PROVE  LedgerInv'
<1> DEFINE o == ExpireLease(receiver, now)
<1>1. /\ pc = "select" /\ receiver' = o.r /\ Records(o.e) /\ Hands(o.e, "poll")
      /\ UNCHANGED <<playout, sinkEnd, backend, mirror>>
  BY DEF InboundTick, Hands
<1>2. receiver \in ReceiverState /\ now \in Nat /\ backend.pos \in Int
  BY TypeFacts
<1>3. /\ Closed(receiver) /\ (closedBy # "none" => receiver.act = 0)
      /\ ToPlay(receiver, playout, sinkEnd = "running")
      /\ Agrees /\ Level(backend.pos, receiver, playout)
  BY <1>1 DEF LedgerInv
<1>4. Still(receiver, o) \/ Stopped(receiver, o)
  BY <1>2, ExpireStill
<1>5. Truthful(receiver, o)
  BY <1>2, <1>3, ExpireTruthful
<1> HIDE DEF o
<1>6. CASE Still(receiver, o)
  <2>1. Applied(backend, o.e).pos = backend.pos
    BY <1>2, <1>6 DEF Still, Applied
  <2> QED BY <1>1, <1>2, <1>3, <1>5, <1>6, <2>1, LedgerHands DEF Still
<1>7. CASE Stopped(receiver, o)
  BY <1>1, <1>2, <1>3, <1>5, <1>7, LedgerHands DEF Stopped, Shut, Level, ToPlay
<1> QED BY <1>4, <1>6, <1>7

LEMMA LedgerPoll ==
  ASSUME TypeInv, StreamInv, PhaseInv, LedgerInv, PollPlayout
  PROVE  LedgerInv'
<1>1. pc = "poll" /\ sinkEnd = "running" /\ UNCHANGED <<backend, mirror>>
  BY DEF PollPlayout, PhaseInv
<1>2. /\ Closed(receiver) /\ (closedBy # "none" => receiver.act = 0)
      /\ ToPlay(receiver, playout, TRUE)
      /\ Agrees /\ Level(backend.pos, receiver, playout)
  BY <1>1 DEF LedgerInv
<1>3. PICK p \in PlayoutState, start \in Total, touch \in TouchStates :
           /\ PlayStep(p, start, touch)
           /\ p.act = playout.act /\ p.inj = playout.inj
           /\ (p = playout /\ touch = NoTouch) \/ \E f \in playout.queue : p.seq = f.seq
  BY PollCases
<1>4. /\ receiver \in ReceiverState /\ at \in Nat /\ backend.pos \in Int /\ playout.seq \in Nat
      /\ receiver.inj \in Nat /\ receiver.totals \in Int /\ p.act \in Nat /\ p.seq \in Nat
      /\ p.inj \in Int /\ \A f \in playout.queue : f.seq \in Nat
  <2>1. receiver \in ReceiverState /\ at \in Nat /\ backend.pos \in Int /\ playout \in PlayoutState
    BY TypeFacts
  <2>2. receiver.inj \in Nat /\ receiver.totals \in Int
    BY <2>1, ReceiverFields, MembersAssumption DEF Total
  <2>3. /\ playout.seq \in Nat /\ p.act \in Nat /\ p.seq \in Nat /\ p.inj \in Int
        /\ playout.queue \subseteq MotionFrame
    BY <2>1, PlayoutFields
  <2>4. \A f \in playout.queue : f.seq \in Nat
    BY <2>3, FrameFields
  <2> QED BY <2>1, <2>2, <2>3, <2>4
<1>5. /\ receiver.act # 0 => playout.act = receiver.act /\ receiver.inj <= playout.seq
      /\ \A f \in playout.queue : f.seq > playout.seq
  BY <1>1 DEF StreamInv, Flow, Played, Motions
<1>6. CASE Bail("invalid") /\ UNCHANGED <<receiver, closedBy>>
  BY <1>2, <1>6, LedgerBail DEF SinkEnds, Closed
<1>7. CASE /\ ~HasStep(p, touch) /\ playout' = p /\ pc' = "drain"
           /\ UNCHANGED <<receiver, sinkEnd, closedBy>>
  BY <1>1, <1>2, <1>3, <1>7 DEF HasStep, LedgerInv, Closed, Agrees, Level, ToPlay
<1>8. CASE \E step \in Step, inj \in Int :
              /\ HasStep(p, touch) /\ step.through = p.seq /\ step.delta = inj - p.inj
              /\ step.reached = (inj = p.target)
              /\ playout' = [p EXCEPT !.inj = inj]
              /\ receiver' = ReceivePlayoutStep(receiver, p.act, step, at).r
              /\ Records(ReceivePlayoutStep(receiver, p.act, step, at).e)
              /\ Emit(ReceivePlayoutStep(receiver, p.act, step, at).e, "drain")
              /\ sinkEnd' = sinkEnd
  <2>1. PICK step \in Step, inj \in Int :
              /\ HasStep(p, touch) /\ step.through = p.seq /\ step.delta = inj - p.inj
              /\ step.reached = (inj = p.target)
              /\ playout' = [p EXCEPT !.inj = inj]
              /\ receiver' = ReceivePlayoutStep(receiver, p.act, step, at).r
              /\ Records(ReceivePlayoutStep(receiver, p.act, step, at).e)
              /\ Emit(ReceivePlayoutStep(receiver, p.act, step, at).e, "drain")
              /\ sinkEnd' = sinkEnd
    BY <1>8
  <2> DEFINE o == ReceivePlayoutStep(receiver, p.act, step, at)
  <2>2. Truthful(receiver, o)
    BY <1>2, <1>4, PlayedTruthful
  <2>3. \/ Still(receiver, o) /\ (receiver.act = 0 \/ p.act # receiver.act
                                    \/ step.through <= receiver.inj)
        \/ Stopped(receiver, o)
        \/ /\ receiver.act # 0 /\ o.r.act = receiver.act
           /\ o.r.totals = receiver.totals + step.delta
           /\ o.r.inj = IF step.reached THEN step.through ELSE receiver.inj
           /\ o.e.to = o.r.held /\ o.r.held.buttons = receiver.held.buttons
           /\ o.e.delta = step.delta /\ o.e.opened = 0
    BY <1>4, PlayedLedger
  <2>4. /\ receiver' = o.r /\ Records(o.e) /\ Hands(o.e, "drain")
    BY <2>1, EmitHands
  <2>5. playout'.inj = inj /\ playout'.target = p.target /\ playout'.seq = p.seq
    BY <2>1 DEF PlayoutState
  <2>6. receiver.act # 0 => p.act = receiver.act /\ receiver.inj < step.through
    <3>1. CASE p = playout /\ touch = NoTouch
      <4>1. p.inj # p.target
        BY <2>1, <3>1 DEF HasStep
      <4> QED BY <1>2, <1>5, <2>1, <3>1, <4>1 DEF ToPlay
    <3>2. CASE \E f \in playout.queue : p.seq = f.seq
      <4>1. PICK f \in playout.queue : p.seq = f.seq
        BY <3>2
      <4>2. f.seq > playout.seq /\ f.seq \in Nat
        BY <1>4, <1>5
      <4> QED BY <1>3, <1>4, <1>5, <2>1, <4>1, <4>2
    <3> QED BY <1>3, <3>1, <3>2
  <2> HIDE DEF o
  <2>7. CASE Still(receiver, o) /\ receiver.act = 0
    <3>1. o.r.act = 0 /\ o.e.opened = 0 /\ o.e.to.buttons = receiver.held.buttons
      BY <2>7 DEF Still
    <3> QED BY <1>1, <1>2, <1>4, <2>2, <2>4, <3>1, LedgerHands DEF Level, ToPlay
  <2>8. CASE Stopped(receiver, o)
    BY <1>1, <1>2, <1>4, <2>2, <2>4, <2>8, LedgerHands DEF Stopped, Shut, Level, ToPlay
  <2>9. CASE /\ receiver.act # 0 /\ o.r.act = receiver.act
             /\ o.r.totals = receiver.totals + step.delta
             /\ o.r.inj = IF step.reached THEN step.through ELSE receiver.inj
             /\ o.e.to = o.r.held /\ o.r.held.buttons = receiver.held.buttons
             /\ o.e.delta = step.delta /\ o.e.opened = 0
    <3>1. backend.pos = receiver.totals /\ p.inj = receiver.totals
      BY <1>2, <1>3, <2>9 DEF Level
    <3>2. Applied(backend, o.e).pos = backend.pos + step.delta
      BY <2>9 DEF Applied
    <3>3. Level(Applied(backend, o.e).pos, o.r, playout')
      BY <1>4, <2>1, <2>5, <2>9, <3>1, <3>2 DEF Level
    <3>4. ToPlay(o.r, playout', sinkEnd' = "running")
      BY <2>1, <2>5, <2>6, <2>9 DEF ToPlay
    <3>5. o.e.to.buttons = receiver.held.buttons
      BY <2>9
    <3> QED BY <1>1, <1>2, <1>4, <2>2, <2>4, <2>9, <3>3, <3>4, <3>5, LedgerHands
  <2>10. \/ Still(receiver, o) /\ receiver.act = 0
         \/ Stopped(receiver, o)
         \/ /\ receiver.act # 0 /\ o.r.act = receiver.act
            /\ o.r.totals = receiver.totals + step.delta
            /\ o.r.inj = IF step.reached THEN step.through ELSE receiver.inj
            /\ o.e.to = o.r.held /\ o.r.held.buttons = receiver.held.buttons
            /\ o.e.delta = step.delta /\ o.e.opened = 0
    <3>1. ~(step.through <= receiver.inj) \/ ~(receiver.inj < step.through)
      BY <1>4, <2>1
    <3> QED BY <2>3, <2>6, <3>1
  <2> QED BY <2>7, <2>8, <2>9, <2>10
<1> QED BY <1>3, <1>6, <1>7, <1>8, PlayCases

(* What apply_control makes of the motion playout counts. *)
LEMMA FollowLedger ==
  ASSUME NEW p \in PlayoutState, NEW m \in Sendable, NEW e
  PROVE  LET u == FollowControl(p, m, e)
         IN  /\ e.opened # 0 /\ ~HasAnchor(m) => u.inj = 0 /\ u.target = 0
             /\ e.opened = 0 /\ p.act # 0 /\ ~HasAnchor(m) =>
                  u.inj = p.inj /\ u.target = p.target /\ u.seq = p.seq
             /\ e.opened = 0 /\ p.act # 0 /\ HasAnchor(m) =>
                  u.inj = m.anchor.totals /\ u.target = m.anchor.totals
<1> DEFINE k == AdvanceWatermark(p, m.seq)
           n == NewPlayout(e.opened)
<1>1. /\ k.act = p.act /\ k.inj = p.inj /\ k.target = p.target /\ k.seq = p.seq
      /\ Rebase(k, m.anchor).inj = m.anchor.totals /\ Rebase(k, m.anchor).target = m.anchor.totals
  BY DEF AdvanceWatermark, Rebase, PlayoutState
<1>2. /\ n.inj = 0 /\ n.target = 0 /\ n.act = e.opened
      /\ AdvanceWatermark(n, m.seq).inj = 0 /\ AdvanceWatermark(n, m.seq).target = 0
  BY DEF NewPlayout, NoPlayout, AdvanceWatermark
<1> HIDE DEF k, n
<1>3. CASE e.opened # 0 /\ ~HasAnchor(m)
  <2>1. FollowControl(p, m, e) = AdvanceWatermark(n, m.seq)
    BY <1>2, <1>3 DEF FollowControl, n
  <2> QED BY <1>2, <1>3, <2>1
<1>4. CASE e.opened = 0 /\ p.act # 0
  <2>1. FollowControl(p, m, e) = IF HasAnchor(m) THEN Rebase(k, m.anchor) ELSE k
    BY <1>4 DEF FollowControl, k
  <2> QED BY <1>1, <1>4, <2>1
<1> QED BY <1>3, <1>4

(* An outcome of the receiver's call is emitted while the ledgers are level. *)
Between ==
  /\ Closed(receiver) /\ (closedBy # "none" => receiver.act = 0)
  /\ ToPlay(receiver, playout, TRUE)
  /\ Agrees /\ Level(backend.pos, receiver, playout)
  /\ UNCHANGED backend /\ backend.pos \in Int

LEMMA LedgerStale ==
  ASSUME Between, NEW o, Still(receiver, o) \/ Stopped(receiver, o), Truthful(receiver, o),
         receiver' = o.r, Records(o.e), NEW next \in {"poll", "drain"}, Hands(o.e, next),
         playout' = playout
  PROVE  LedgerInv'
<1>1. /\ Agrees /\ UNCHANGED backend /\ backend.pos \in Int
      /\ closedBy # "none" => receiver.act = 0
      /\ ToPlay(receiver, playout, TRUE) /\ Level(backend.pos, receiver, playout)
  BY DEF Between
<1>2. CASE Still(receiver, o)
  <2>1. Applied(backend, o.e).pos = backend.pos /\ o.r = receiver /\ o.e.opened = 0
        /\ o.e.to.buttons = receiver.held.buttons
    BY <1>1, <1>2 DEF Still, Applied
  <2>2. /\ Level(Applied(backend, o.e).pos, o.r, playout')
        /\ ToPlay(o.r, playout', sinkEnd' = "running")
    BY <1>1, <2>1 DEF ToPlay
  <2> QED BY <1>1, <2>1, <2>2, LedgerHands
<1>3. CASE Stopped(receiver, o)
  <2>1. o.r.act = 0 /\ o.e.closed # 0
    BY <1>3 DEF Stopped, Shut
  <2>2. /\ Level(Applied(backend, o.e).pos, o.r, playout')
        /\ ToPlay(o.r, playout', sinkEnd' = "running")
    BY <2>1 DEF Level, ToPlay
  <2> QED BY <1>1, <2>1, <2>2, LedgerHands
<1> QED BY <1>2, <1>3

LEMMA LedgerOpens ==
  ASSUME Between, NEW o, Truthful(receiver, o), NEW m \in Sendable, m.kind = "Enter",
         o.r.act = m.act, o.r.totals = 0, o.e.opened = m.act, o.e.to = Neutral,
         o.e.closed # 0 \/ receiver.held = Neutral,
         receiver' = o.r, Records(o.e), Hands(o.e, "drain"),
         playout \in PlayoutState, playout' = FollowControl(playout, m, o.e)
  PROVE  LedgerInv'
<1>1. m.act # 0 /\ ~HasAnchor(m)
  BY SendableFields DEF Sendable
<1>2. playout'.inj = 0 /\ playout'.target = 0
  BY <1>1, FollowLedger
<1>3. Applied(backend, o.e).pos = 0
  BY <1>1 DEF Applied
<1>4. /\ Level(Applied(backend, o.e).pos, o.r, playout')
      /\ ToPlay(o.r, playout', sinkEnd' = "running")
  BY <1>2, <1>3 DEF Level, ToPlay
<1>5. o.e.closed # 0 \/ o.e.to.buttons = receiver.held.buttons
  OBVIOUS
<1> QED BY <1>1, <1>4, <1>5, LedgerHands DEF Between

LEMMA LedgerCounts ==
  ASSUME Between, NEW o, Truthful(receiver, o), NEW m \in Sendable, receiver.act # 0,
         o.e.opened = 0, o.r.act = receiver.act, receiver.totals \in Int,
         o.r.totals = receiver.totals + AnchorDelta(receiver, m),
         o.r.inj = (IF HasAnchor(m) THEN m.anchor.through ELSE receiver.inj),
         o.e.delta = AnchorDelta(receiver, m),
         HasAnchor(m) \/ o.r.held.buttons = receiver.held.buttons,
         receiver' = o.r, Records(o.e), Hands(o.e, "drain"), mirror' = m.after,
         playout \in PlayoutState, playout.act # 0, playout' = FollowControl(playout, m, o.e)
  PROVE  LedgerInv'
<1>1. /\ backend.pos = receiver.totals /\ playout.inj = receiver.totals
      /\ playout.inj # playout.target => receiver.inj < playout.seq
  BY DEF Between, Level, ToPlay
<1>2. HasAnchor(m) => /\ m.anchor.totals \in Int /\ m.anchor.totals = m.after.totals
  BY SendableFields, MembersAssumption DEF Sendable, Total
<1>3. Applied(backend, o.e).pos = backend.pos + AnchorDelta(receiver, m)
  BY DEF Applied
<1>4. HasAnchor(m) => /\ Applied(backend, o.e).pos = m.anchor.totals
                      /\ o.r.totals = m.anchor.totals
  BY <1>1, <1>2, <1>3 DEF AnchorDelta
<1>5. ~HasAnchor(m) => /\ Applied(backend, o.e).pos = receiver.totals
                       /\ o.r.totals = receiver.totals
  BY <1>1, <1>3 DEF AnchorDelta
<1>6. /\ HasAnchor(m) => playout'.inj = m.anchor.totals /\ playout'.target = m.anchor.totals
      /\ ~HasAnchor(m) => /\ playout'.inj = playout.inj /\ playout'.target = playout.target
                          /\ playout'.seq = playout.seq
  BY FollowLedger
<1>7. /\ Level(Applied(backend, o.e).pos, o.r, playout')
      /\ ToPlay(o.r, playout', sinkEnd' = "running")
  BY <1>1, <1>4, <1>5, <1>6 DEF Level, ToPlay
<1>8. \/ o.e.to.buttons = receiver.held.buttons
      \/ Applied(backend, o.e).pos = mirror'.totals
  BY <1>2, <1>4 DEF Truthful
<1> QED BY <1>7, <1>8, LedgerHands DEF Between

LEMMA LedgerApply ==
  ASSUME TypeInv, StreamInv, PhaseInv, LedgerInv, ApplyControl
  PROVE  LedgerInv'
<1> DEFINE m == Head(pending)
           x == ExpireLease(receiver, at)
           o == ReceiveControl(receiver, m, at)
           accepted == o.e.rejected = "none"
           fails == FollowFails(playout, m, o.e)
           u == FollowControl(playout, m, o.e)
<1>1. /\ pc = "drain" /\ pending # <<>> /\ sinkEnd = "running"
  BY DEF ApplyControl, PhaseInv
<1>2. /\ receiver' = o.r /\ Records(o.e) /\ UNCHANGED backend
      /\ mirror' = (IF accepted THEN m.after ELSE mirror)
      /\ playout' = (IF accepted /\ ~fails THEN u ELSE playout)
      /\ \/ Bail("invalid")
         \/ ~(accepted /\ fails) /\ Hands(o.e, "drain")
  BY EmitHands DEF ApplyControl
<1>3. /\ m \in Sendable /\ at \in Nat /\ receiver \in ReceiverState
      /\ mirror.held \in HeldState /\ playout.seq \in Nat
      /\ x.r = receiver \/ Shut(receiver, x.r)
      /\ \/ IsClosed(x.r, m.act)
         \/ IsFirst(x.r, m)
         \/ x.r = receiver /\ IsNext(receiver, m, playout, mirror.held)
  BY <1>1, HeadCases
<1>4. playout \in PlayoutState /\ backend.pos \in Int /\ receiver.totals \in Int
  BY <1>3, TypeFacts, ReceiverFields, MembersAssumption DEF Total
<1>5. Between
  BY <1>1, <1>2, <1>4 DEF LedgerInv, Between
<1>6. Truthful(receiver, o)
  BY <1>3, ControlTruthful DEF LedgerInv
<1>7. Closed(receiver')
  BY <1>2, <1>6 DEF Truthful
<1>8. CASE IsClosed(x.r, m.act)
  <2>1. o.e.rejected = "ClosedActivation" /\ (Still(receiver, o) \/ Stopped(receiver, o))
    BY <1>3, <1>8, ControlStill
  <2> HIDE DEF o, u, fails
  <2>2. playout' = playout
    BY <1>2, <2>1
  <2>3. closedBy' # "none" => receiver'.act = 0
    BY <1>2, <1>5, <2>1 DEF Records, Still, Stopped, Shut, Between
  <2>4. CASE Bail("invalid")
    BY <1>7, <2>3, <2>4, LedgerBail DEF SinkEnds
  <2> QED BY <1>2, <1>5, <1>6, <2>1, <2>2, <2>4, LedgerStale
<1>9. CASE IsFirst(x.r, m)
  <2>1. /\ o.r.totals = 0 /\ o.r.act = m.act /\ o.e.opened = m.act /\ o.e.to = Neutral
        /\ o.e.closed # 0 \/ receiver.held = Neutral
        /\ o.e.rejected = "none"
    BY <1>3, <1>5, <1>9, ControlOpens DEF Between, Closed
  <2>2. m.kind = "Enter" /\ m.act # 0
    BY <1>3, <1>9, SendableFields DEF IsFirst
  <2>3. ~fails
    BY <2>1, <2>2 DEF FollowFails
  <2> HIDE DEF o, u, fails, m
  <2>4. playout' = u
    BY <1>2, <2>1, <2>3
  <2>5. closedBy' # "none" => receiver'.act = 0
    BY <1>2, <2>1, <2>2 DEF Records
  <2>6. CASE Bail("invalid")
    BY <1>7, <2>5, <2>6, LedgerBail DEF SinkEnds
  <2> QED BY <1>2, <1>3, <1>4, <1>5, <1>6, <2>1, <2>2, <2>4, <2>6, LedgerOpens DEF u
<1>10. CASE x.r = receiver /\ IsNext(receiver, m, playout, mirror.held)
  <2>1. receiver.act # 0 /\ playout.act # 0
    BY <1>10 DEF IsNext
  <2>2. /\ o.e.opened = 0 /\ o.e.rejected = "none"
        /\ \/ o.e.closed # 0 /\ Shut(receiver, o.r)
           \/ /\ o.e.closed = 0 /\ o.r.act = receiver.act
              /\ o.r.totals = receiver.totals + AnchorDelta(receiver, m)
              /\ o.r.inj = (IF HasAnchor(m) THEN m.anchor.through ELSE receiver.inj)
              /\ o.e.delta = AnchorDelta(receiver, m)
              /\ HasAnchor(m) \/ o.r.held.buttons = receiver.held.buttons
    BY <1>3, <1>10, ControlFollows DEF Stopped
  <2> HIDE DEF o, u, fails, m
  <2>3. closedBy' # "none" => receiver'.act = 0
    BY <1>2, <1>5, <2>1, <2>2 DEF Records, Shut, Between
  <2>4. CASE Bail("invalid")
    BY <1>7, <2>3, <2>4, LedgerBail DEF SinkEnds
  <2>5. CASE ~(accepted /\ fails) /\ Hands(o.e, "drain")
    <3>1. playout' = u /\ mirror' = m.after
      BY <1>2, <2>2, <2>5
    <3>2. CASE o.e.closed # 0 /\ Shut(receiver, o.r)
      BY <1>2, <1>5, <1>6, <2>2, <2>5, <3>2, LedgerHands DEF Between, Shut, Level, ToPlay
    <3>3. CASE /\ o.e.closed = 0 /\ o.r.act = receiver.act
               /\ o.r.totals = receiver.totals + AnchorDelta(receiver, m)
               /\ o.r.inj = (IF HasAnchor(m) THEN m.anchor.through ELSE receiver.inj)
               /\ o.e.delta = AnchorDelta(receiver, m)
               /\ HasAnchor(m) \/ o.r.held.buttons = receiver.held.buttons
      <4>1. playout' = FollowControl(playout, m, o.e)
        BY <3>1 DEF u
      <4> QED BY <1>2, <1>3, <1>4, <1>5, <1>6, <2>1, <2>2, <2>5, <3>1, <3>3, <4>1, LedgerCounts
    <3> QED BY <2>2, <3>2, <3>3
  <2> QED BY <1>2, <2>4, <2>5
<1> QED BY <1>3, <1>8, <1>9, <1>10

LEMMA LedgerApplies ==
  ASSUME PhaseInv, TypeInv, LedgerInv, BackendApplies
  PROVE  LedgerInv'
<1>1. /\ pc = "emit" /\ backend' = Applied(backend, batch)
      /\ UNCHANGED <<receiver, playout, mirror, closedBy>>
      /\ \/ pc' = "cleanup" /\ sinkEnd' = "lost"
         \/ pc' = resume /\ sinkEnd' = sinkEnd
  BY DEF BackendApplies
<1>2. resume \in {"select", "poll", "drain", "down"}
  BY DEF TypeInv, TypeOK
<1>3. CASE pc' = "cleanup" /\ sinkEnd' = "lost"
  BY <1>1, <1>3 DEF LedgerInv, Closed, ToPlay
<1>4. CASE pc' = resume /\ sinkEnd' = sinkEnd
  BY <1>1, <1>2, <1>4 DEF LedgerInv, Closed, ToPlay, Level, Agrees
<1> QED BY <1>1, <1>3, <1>4

LEMMA LedgerCleanup ==
  ASSUME TypeInv, PhaseInv, LedgerInv, Cleanup
  PROVE  LedgerInv'
<1> DEFINE o == ConnectionLost(receiver)
<1>1. /\ receiver' = o.r /\ Records(o.e) /\ Hands(o.e, "down")
  BY EmitHands DEF Cleanup
<1>2. /\ receiver \in ReceiverState /\ Closed(receiver) /\ (closedBy # "none" => receiver.act = 0)
  BY TypeFacts DEF LedgerInv
<1>3. /\ (receiver.act = 0 /\ Still(receiver, o)) \/ Stopped(receiver, o)
      /\ o.r.act = 0
  BY <1>2, LostStill
<1>4. Truthful(receiver, o)
  BY <1>2, LostTruthful
<1> HIDE DEF o
<1>5. Closed(receiver') /\ receiver'.act = 0
  BY <1>1, <1>3, <1>4 DEF Truthful
<1>6. CASE pc' = "down"
  BY <1>5, <1>6 DEF LedgerInv, ToPlay
<1>7. CASE NeedsBackend(o.e) /\ pc' = "emit" /\ resume' = "down" /\ batch' = o.e
  <2>1. o.e.closed # 0
    BY <1>3, <1>7, StillEmpty DEF Stopped
  <2> QED BY <1>5, <1>7, <2>1 DEF LedgerInv, ToPlay, InPlace
<1> QED BY <1>1, <1>6, <1>7 DEF Hands

LEMMA LedgerInit == Init => LedgerInv
BY NeutralVisible DEF Init, LedgerInv, Closed, NewReceiver, Agrees, Level, ToPlay

LEMMA LedgerNext ==
  ASSUME TypeInv, StreamInv, PhaseInv, LedgerInv, [Next]_vars
  PROVE  LedgerInv'
BY LedgerSource, LedgerQuiet, LedgerTick, LedgerPoll, LedgerApply, LedgerApplies,
   LedgerCleanup DEF Next, SinkNext

(* While an activation is open and no batch waits, what playout counts as       *)
(* injected, what the receiver counts and how far the pointer has travelled are *)
(* the same, whatever was lost, limited, rebased or refused before.             *)
THEOREM LedgersAgree == Spec => []BaselinesAgree
<1>1. TypeInv /\ StreamInv /\ PhaseInv /\ LedgerInv => BaselinesAgree
  <2> SUFFICES ASSUME TypeInv, StreamInv, PhaseInv, LedgerInv, Settled, receiver.act # 0
               PROVE  /\ playout.act = receiver.act /\ playout.inj = receiver.totals
                      /\ backend.pos = receiver.totals /\ receiver.inj <= playout.seq
    BY DEF BaselinesAgree
  <2>1. pc \in {"select", "poll", "drain"}
    BY DEF TypeInv, TypeOK, Settled, LedgerInv
  <2>2. sinkEnd = "running"
    BY <2>1 DEF PhaseInv
  <2>3. playout.act = receiver.act /\ receiver.inj <= playout.seq
    BY <2>2 DEF StreamInv, Flow, Played
  <2> QED BY <2>1, <2>3 DEF LedgerInv, Level
<1> QED BY <1>1, TypeInit, TypeNext, StreamInit, StreamNext, PhaseNext, LedgerInit, LedgerNext,
           PTL DEF Spec

(* A button goes down or up only where the pointer was when it was captured.    *)
THEOREM ButtonsInPlace == Spec => ButtonsArePlaced
<1>1. TypeInv /\ LedgerInv /\ [Next]_vars => [PlacesButtons]_vars
  <2> SUFFICES ASSUME TypeInv, LedgerInv, Next, pc = "emit", batch.closed = 0,
                      backend'.held.buttons # backend.held.buttons
               PROVE  backend'.pos = mirror.totals
    BY DEF PlacesButtons
  <2>1. InPlace(batch)
    BY DEF LedgerInv
  <2>2. CASE BackendApplies
    <3>1. backend' = Applied(backend, batch)
      BY <2>2 DEF BackendApplies
    <3>2. backend'.held = Visible(batch.to)
      BY <3>1 DEF Applied
    <3> QED BY <2>1, <3>1, <3>2 DEF InPlace
  <2>3. CASE BackendRejects
    <3>1. backend.held \in HeldState
      BY TypeFacts
    <3>2. \A keys : [backend.held EXCEPT !.keys = keys].buttons = backend.held.buttons
      BY <3>1 DEF HeldState
    <3>3. \/ backend' = backend
          \/ \E keys : backend'.held = [backend.held EXCEPT !.keys = keys]
      BY <2>3 DEF BackendRejects
    <3>4. backend'.held.buttons = backend.held.buttons
      BY <3>2, <3>3
    <3> QED BY <3>4
  <2>4. CASE ~BackendApplies /\ ~BackendRejects
    <3>1. backend' = backend
      BY <2>4 DEF Next, SourceNext, BeginOutbound, Capture, EndOutbound, SourceTick, ReceiveAck,
                  SourceClose, SourceLost, NetworkLoss, Advance, Finished, SinkNext, RecvControl,
                  RecvMotion, InboundTick, PollPlayout, DrainEnds, ApplyControl, SinkClose,
                  SinkLost, Cleanup, vars
    <3> QED BY <3>1
  <2> QED BY <2>2, <2>3, <2>4
<1> QED BY <1>1, TypeInit, TypeNext, StreamInit, StreamNext, PhaseNext, LedgerInit, LedgerNext,
           PTL DEF Spec, ButtonsArePlaced

-----------------------------------------------------------------------------
(* The source leaves *)

(* Once the source's close is accepted, the pointer is where the source left it, *)
(* or will be when the batch that waits is applied.                              *)
LeaveInv ==
  closedBy = "LocalRelease" /\ sinkEnd # "invalid" =>
    (IF pc = "emit" THEN Applied(backend, batch).pos ELSE backend.pos) = mirror.totals

(* A handler that was left nothing to do, or closed for another reason. *)
LEMMA LeaveStill ==
  ASSUME LeaveInv, sinkEnd' # "invalid" => sinkEnd # "invalid", pc # "emit", UNCHANGED backend,
         NEW o, Still(receiver, o) \/ Stopped(receiver, o), NEW next, next # "emit",
         Records(o.e), Hands(o.e, next), mirror' = mirror
  PROVE  LeaveInv'
<1>1. CASE Still(receiver, o)
  <2>1. closedBy' = closedBy /\ pc' = next
    BY <1>1, StillEmpty DEF Records, Still, Hands
  <2> QED BY <2>1 DEF LeaveInv
<1>2. CASE Stopped(receiver, o)
  <2>1. closedBy' = o.e.reason /\ o.e.reason # "LocalRelease"
    BY <1>2 DEF Records, Stopped
  <2> QED BY <2>1 DEF LeaveInv
<1> QED BY <1>1, <1>2

LEMMA LeaveQuiet ==
  ASSUME TypeInv, LedgerInv, StuckInv, LeaveInv,
         \/ SourceNext \/ NetworkLoss \/ Advance \/ Finished \/ UNCHANGED vars
         \/ RecvControl \/ RecvMotion \/ DrainEnds \/ SinkClose \/ SinkLost
         \/ BackendApplies \/ BackendRejects
  PROVE  LeaveInv'
<1>1. CASE SourceNext \/ NetworkLoss \/ Advance \/ Finished \/ UNCHANGED vars
  <2>1. UNCHANGED <<sink, backend, history>>
    BY <1>1 DEF SourceNext, BeginOutbound, Capture, EndOutbound, SourceTick, ReceiveAck,
                SourceClose, SourceLost, NetworkLoss, Advance, Finished, vars
  <2> QED BY <2>1 DEF LeaveInv, Applied, sink, history
<1>2. CASE RecvControl \/ RecvMotion \/ DrainEnds \/ SinkClose \/ SinkLost
  <2>1. UNCHANGED <<backend, mirror, closedBy>> /\ pc # "emit"
    BY <1>2 DEF RecvControl, RecvMotion, DrainEnds, SinkClose, SinkLost, history
  <2>2. pc' # "emit" /\ (sinkEnd' # "invalid" => sinkEnd # "invalid")
    BY <1>2, <2>1 DEF RecvControl, RecvMotion, DrainEnds, SinkClose, SinkLost, Bail, Idle
  <2> QED BY <2>1, <2>2 DEF LeaveInv
<1>3. CASE BackendApplies
  <2>1. /\ pc = "emit" /\ backend' = Applied(backend, batch) /\ UNCHANGED <<mirror, closedBy>>
        /\ pc' \in {"cleanup", resume} /\ sinkEnd' \in {sinkEnd, "lost"}
        /\ sinkEnd' # sinkEnd => batch.ack # 0
    BY <1>3 DEF BackendApplies
  <2>2. resume # "emit"
    BY DEF TypeInv, TypeOK
  <2>3. sinkEnd = "invalid" => sinkEnd' = "invalid"
    BY <2>1 DEF StuckInv
  <2> QED BY <2>1, <2>2, <2>3 DEF LeaveInv
<1>4. CASE BackendRejects
  <2>1. pc = "emit" /\ Refusable(batch) /\ closedBy' = closedBy
    BY <1>4 DEF BackendRejects, history
  <2>2. sinkEnd = "invalid" => sinkEnd' = "invalid"
    BY <1>4 DEF BackendRejects, Bail
  <2>3. sinkEnd # "invalid" => closedBy = "none"
    BY <2>1 DEF StuckInv, LedgerInv
  <2> QED BY <2>1, <2>2, <2>3 DEF LeaveInv
<1> QED BY <1>1, <1>2, <1>3, <1>4

LEMMA LeavePoll ==
  ASSUME TypeInv, PhaseInv, LedgerInv, LeaveInv, PollPlayout
  PROVE  LeaveInv'
<1>1. pc = "poll" /\ sinkEnd = "running" /\ UNCHANGED <<backend, mirror>>
  BY DEF PollPlayout, PhaseInv
<1>2. PICK p \in PlayoutState, start \in Total, touch \in TouchStates : PlayStep(p, start, touch)
  BY PollCases
<1>3. receiver \in ReceiverState /\ at \in Nat /\ p.act \in Nat
  BY TypeFacts, PlayoutFields
<1>4. CASE Bail("invalid")
  BY <1>1, <1>4 DEF Bail, LeaveInv
<1>5. CASE pc' = "drain" /\ UNCHANGED <<closedBy, sinkEnd>>
  BY <1>1, <1>5 DEF LeaveInv
<1>6. CASE \E step \in Step :
              /\ Records(ReceivePlayoutStep(receiver, p.act, step, at).e)
              /\ Emit(ReceivePlayoutStep(receiver, p.act, step, at).e, "drain")
              /\ sinkEnd' = sinkEnd
  <2>1. PICK step \in Step :
              /\ Records(ReceivePlayoutStep(receiver, p.act, step, at).e)
              /\ Emit(ReceivePlayoutStep(receiver, p.act, step, at).e, "drain")
              /\ sinkEnd' = sinkEnd
    BY <1>6
  <2> DEFINE o == ReceivePlayoutStep(receiver, p.act, step, at)
  <2>2. \/ Still(receiver, o) \/ Stopped(receiver, o)
        \/ receiver.act # 0 /\ o.e.opened = 0 /\ o.e.closed = 0
    BY <1>3, PlayedLedger
  <2>3. Records(o.e) /\ Hands(o.e, "drain")
    BY <2>1, EmitHands
  <2> HIDE DEF o
  <2>4. CASE Still(receiver, o) \/ Stopped(receiver, o)
    BY <1>1, <2>1, <2>3, <2>4, LeaveStill
  <2>5. CASE receiver.act # 0 /\ o.e.opened = 0 /\ o.e.closed = 0
    BY <2>3, <2>5 DEF Records, LedgerInv, LeaveInv
  <2> QED BY <2>2, <2>4, <2>5
<1> QED BY <1>2, <1>4, <1>5, <1>6, PlayCases

LEMMA LeaveApply ==
  ASSUME TypeInv, StreamInv, PhaseInv, LedgerInv, LeaveInv, ApplyControl
  PROVE  LeaveInv'
<1> DEFINE m == Head(pending)
           x == ExpireLease(receiver, at)
           o == ReceiveControl(receiver, m, at)
           accepted == o.e.rejected = "none"
<1>1. /\ pc = "drain" /\ pending # <<>> /\ sinkEnd = "running"
  BY DEF ApplyControl, PhaseInv
<1>2. /\ Records(o.e) /\ UNCHANGED backend
      /\ mirror' = (IF accepted THEN m.after ELSE mirror)
      /\ \/ Bail("invalid")
         \/ Hands(o.e, "drain") /\ Emit(o.e, "drain") /\ sinkEnd' = sinkEnd
  BY EmitHands DEF ApplyControl
<1>3. /\ m \in Sendable /\ at \in Nat /\ receiver \in ReceiverState
      /\ mirror.held \in HeldState /\ playout.seq \in Nat
      /\ \/ IsClosed(x.r, m.act)
         \/ IsFirst(x.r, m)
         \/ x.r = receiver /\ IsNext(receiver, m, playout, mirror.held)
  BY <1>1, HeadCases
<1>4. /\ Closed(receiver) /\ (closedBy # "none" => receiver.act = 0)
      /\ receiver.act # 0 => backend.pos = receiver.totals
  BY <1>1 DEF LedgerInv, Level
<1>5. CASE Bail("invalid")
  BY <1>1, <1>5 DEF Bail, LeaveInv
<1>6. CASE Hands(o.e, "drain") /\ sinkEnd' = sinkEnd
  <2>1. CASE IsClosed(x.r, m.act)
    <3>1. o.e.rejected = "ClosedActivation" /\ (Still(receiver, o) \/ Stopped(receiver, o))
      BY <1>3, <2>1, ControlStill
    <3> HIDE DEF o
    <3> QED BY <1>1, <1>2, <1>6, <3>1, LeaveStill
  <2>2. CASE IsFirst(x.r, m)
    <3>1. o.e.opened = m.act /\ m.act # 0
      BY <1>3, <1>4, <2>2, ControlOpens, SendableFields DEF Closed
    <3> HIDE DEF o, m
    <3> QED BY <1>2, <3>1 DEF Records, LeaveInv
  <2>3. CASE x.r = receiver /\ IsNext(receiver, m, playout, mirror.held)
    <3>1. receiver.act # 0
      BY <2>3 DEF IsNext
    <3>2. /\ o.e.opened = 0 /\ o.e.rejected = "none"
          /\ \/ Stopped(receiver, o)
             \/ /\ m.kind = "SessionClose" /\ o.e.closed # 0
                /\ o.e.reason = m.reason /\ o.e.delta = AnchorDelta(receiver, m)
             \/ o.e.closed = 0
      BY <1>3, <2>3, ControlFollows
    <3>3. /\ m.kind = "SessionClose" /\ m.reason = "LocalRelease" =>
               HasAnchor(m) /\ m.anchor.totals = m.after.totals
          /\ HasAnchor(m) => m.anchor.totals \in Int
          /\ receiver.totals \in Int
      BY <1>3, SendableFields, ReceiverFields, MembersAssumption DEF Sendable, Total
    <3> HIDE DEF o, m
    <3>4. CASE Stopped(receiver, o)
      BY <1>2, <3>4 DEF Records, Stopped, LeaveInv
    <3>5. CASE o.e.closed = 0
      BY <1>2, <1>4, <3>1, <3>2, <3>5 DEF Records, LeaveInv
    <3>6. CASE /\ m.kind = "SessionClose" /\ o.e.closed # 0
               /\ o.e.reason = m.reason /\ o.e.delta = AnchorDelta(receiver, m)
      <4>1. closedBy' = m.reason /\ mirror' = m.after
        BY <1>2, <3>2, <3>6 DEF Records
      <4>2. pc' = "emit" /\ batch' = o.e
        BY <1>6, <3>6 DEF Hands, NeedsBackend
      <4>3. Applied(backend', batch').pos = backend.pos + AnchorDelta(receiver, m)
        BY <1>2, <3>2, <3>6, <4>2 DEF Applied
      <4>4. m.reason = "LocalRelease" => Applied(backend', batch').pos = m.after.totals
        BY <1>4, <3>1, <3>3, <3>6, <4>3 DEF AnchorDelta
      <4> QED BY <4>1, <4>2, <4>4 DEF LeaveInv
    <3> QED BY <3>2, <3>4, <3>5, <3>6
  <2> QED BY <1>3, <2>1, <2>2, <2>3
<1> QED BY <1>2, <1>5, <1>6

LEMMA LeaveNext ==
  ASSUME TypeInv, StreamInv, PhaseInv, LedgerInv, StuckInv, LeaveInv, [Next]_vars
  PROVE  LeaveInv'
<1>1. receiver \in ReceiverState /\ now \in Nat
  BY TypeFacts
<1>2. CASE InboundTick
  <2> DEFINE o == ExpireLease(receiver, now)
  <2>1. Still(receiver, o) \/ Stopped(receiver, o)
    BY <1>1, ExpireStill
  <2>2. /\ pc # "emit" /\ Records(o.e) /\ Hands(o.e, "poll")
        /\ UNCHANGED <<sinkEnd, backend, mirror>>
    BY <1>2 DEF InboundTick, Hands
  <2> HIDE DEF o
  <2> QED BY <2>1, <2>2, LeaveStill
<1>3. CASE Cleanup
  <2> DEFINE o == ConnectionLost(receiver)
  <2>1. Still(receiver, o) \/ Stopped(receiver, o)
    BY <1>1, LostStill
  <2>2. /\ pc # "emit" /\ Records(o.e) /\ Hands(o.e, "down")
        /\ UNCHANGED <<sinkEnd, backend, mirror>>
    BY <1>3, EmitHands DEF Cleanup
  <2> HIDE DEF o
  <2> QED BY <2>1, <2>2, LeaveStill
<1> QED BY <1>2, <1>3, LeaveQuiet, LeavePoll, LeaveApply DEF Next, SinkNext

(* When the source leaves in order, the pointer has travelled exactly as far as *)
(* the source moved it, also if every datagram was lost; only a sink that gave  *)
(* up because its totals overflowed is excepted.                                *)
THEOREM ExactWhenLeft ==
  ASSUME RejectClosing = FALSE
  PROVE  Spec => [](sinkEnd # "invalid" => ExactAtLeave)
<1>1. Init => StuckInv
  BY NeutralVisible DEF Init, StuckInv, Closed, NewReceiver, Agrees
<1>2. TypeInv /\ StuckInv /\ [Next]_vars => StuckInv'
  BY StuckNext
<1>3. Init => LeaveInv
  BY DEF Init, LeaveInv
<1>4. LeaveInv => (sinkEnd # "invalid" => ExactAtLeave)
  BY DEF LeaveInv, ExactAtLeave, Settled
<1> QED BY <1>1, <1>2, <1>3, <1>4, TypeInit, TypeNext, StreamInit, StreamNext, PhaseNext,
           LedgerInit, LedgerNext, LeaveNext, PTL DEF Spec

(* Of motion nothing is lost, unless the totals come near the end of their      *)
(* range.                                                                      *)
THEOREM NothingLost ==
  ASSUME RejectClosing = FALSE
  PROVE  Spec /\ []NoOverflow => []MotionIsExact
<1>1. NeverDesynchronised => sinkEnd # "invalid"
  BY DEF NeverDesynchronised
<1>2. BaselinesAgree /\ NeverDesynchronised /\ (sinkEnd # "invalid" => ExactAtLeave)
        => MotionIsExact
  BY <1>1 DEF MotionIsExact
<1> QED BY <1>2, NeverApart, LedgersAgree, ExactWhenLeft, PTL
=============================================================================
