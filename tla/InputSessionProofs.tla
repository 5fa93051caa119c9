------------------------- MODULE InputSessionProofs -------------------------
(***************************************************************************)
(* Proofs about one direction of an input session, for any set of keys,     *)
(* buttons, touches, devices and leases: first what the operators of the    *)
(* three engines return, then the types, then the leases and the input the  *)
(* backend is left with.                                                    *)
(***************************************************************************)
EXTENDS InputSession, FiniteSetTheorems, SequenceTheorems, TLAPS

-----------------------------------------------------------------------------
(* What a queue holds *)

In(q) == {q[i] : i \in DOMAIN q}

LEMMA InType ==
  ASSUME NEW S, NEW q \in Seq(S)
  PROVE  In(q) \subseteq S /\ In(<<>>) = {}
BY DEF In

LEMMA InAppend ==
  ASSUME NEW S, NEW q \in Seq(S), NEW m \in S
  PROVE  In(Append(q, m)) = In(q) \cup {m}
<1>1. /\ DOMAIN q = 1 .. Len(q) /\ Len(q) \in Nat
      /\ DOMAIN Append(q, m) = 1 .. (Len(q) + 1)
      /\ \A i \in 1 .. Len(q) : Append(q, m)[i] = q[i]
      /\ Append(q, m)[Len(q) + 1] = m
  BY AppendProperties, LenProperties
<1>2. 1 .. (Len(q) + 1) = (1 .. Len(q)) \cup {Len(q) + 1}
  BY <1>1
<1> QED BY <1>1, <1>2 DEF In

LEMMA InTail ==
  ASSUME NEW S, NEW q \in Seq(S), q # <<>>
  PROVE  /\ In(q) = {Head(q)} \cup In(Tail(q))
         /\ Head(q) \in S /\ Tail(q) \in Seq(S)
<1>1. /\ DOMAIN q = 1 .. Len(q) /\ Len(q) \in Nat \ {0} /\ Tail(q) \in Seq(S)
      /\ DOMAIN Tail(q) = 1 .. (Len(q) - 1)
      /\ \A i \in 1 .. (Len(q) - 1) : Tail(q)[i] = q[i + 1]
      /\ Head(q) = q[1] /\ Head(q) \in S
  BY HeadTailProperties, LenProperties, EmptySeq
<1>2. \A i \in 1 .. Len(q) : i = 1 \/ (i - 1 \in 1 .. (Len(q) - 1) /\ i = (i - 1) + 1)
  BY <1>1
<1>3. ASSUME NEW x \in In(q)
      PROVE  x \in {Head(q)} \cup In(Tail(q))
  <2>1. PICK i \in 1 .. Len(q) : x = q[i]
    BY <1>1, <1>3 DEF In
  <2>2. CASE i = 1
    BY <1>1, <2>1, <2>2
  <2>3. CASE i # 1
    <3>1. i - 1 \in DOMAIN Tail(q) /\ Tail(q)[i - 1] = x
      BY <1>1, <1>2, <2>1, <2>3
    <3> QED BY <3>1 DEF In
  <2> QED BY <2>2, <2>3
<1>4. In(Tail(q)) \subseteq In(q)
  <2> SUFFICES ASSUME NEW i \in 1 .. (Len(q) - 1) PROVE q[i + 1] \in In(q)
    BY <1>1 DEF In
  <2>1. i + 1 \in DOMAIN q
    BY <1>1
  <2> QED BY <2>1 DEF In
<1>5. Head(q) \in In(q)
  BY <1>1 DEF In
<1> QED BY <1>1, <1>3, <1>4, <1>5

(* A message counts before another: an earlier activation, or an earlier      *)
(* control of the same one.                                                   *)
Before(m, n) == m.act < n.act \/ (m.act = n.act /\ m.seq < n.seq)

Sorted(q) == \A i, j \in DOMAIN q : i < j => Before(q[i], q[j])

AllBefore(Q, R) == \A m \in Q, n \in R : Before(m, n)

LEMMA SortedAppend ==
  ASSUME NEW S, NEW q \in Seq(S), NEW m \in S, Sorted(q), AllBefore(In(q), {m})
  PROVE  Sorted(Append(q, m))
<1>1. /\ DOMAIN q = 1 .. Len(q) /\ Len(q) \in Nat
      /\ DOMAIN Append(q, m) = 1 .. (Len(q) + 1)
      /\ \A i \in 1 .. Len(q) : Append(q, m)[i] = q[i]
      /\ Append(q, m)[Len(q) + 1] = m
  BY AppendProperties, LenProperties
<1> SUFFICES ASSUME NEW i \in 1 .. (Len(q) + 1), NEW j \in 1 .. (Len(q) + 1), i < j
             PROVE  Before(Append(q, m)[i], Append(q, m)[j])
  BY <1>1 DEF Sorted
<1>2. i \in 1 .. Len(q) /\ Append(q, m)[i] = q[i] /\ q[i] \in In(q)
  BY <1>1 DEF In
<1>3. CASE j = Len(q) + 1
  BY <1>1, <1>2, <1>3 DEF AllBefore
<1>4. CASE j # Len(q) + 1
  <2>1. j \in 1 .. Len(q)
    BY <1>1, <1>4
  <2> QED BY <1>1, <1>2, <2>1 DEF Sorted
<1> QED BY <1>3, <1>4

LEMMA SortedTail ==
  ASSUME NEW S, NEW q \in Seq(S), q # <<>>, Sorted(q)
  PROVE  Sorted(Tail(q)) /\ AllBefore({Head(q)}, In(Tail(q)))
<1>1. /\ DOMAIN q = 1 .. Len(q) /\ Len(q) \in Nat \ {0} /\ Tail(q) \in Seq(S)
      /\ DOMAIN Tail(q) = 1 .. (Len(q) - 1)
      /\ \A i \in 1 .. (Len(q) - 1) : Tail(q)[i] = q[i + 1]
      /\ Head(q) = q[1]
  BY HeadTailProperties, LenProperties, EmptySeq
<1>2. ASSUME NEW i \in 1 .. (Len(q) - 1)
      PROVE  i + 1 \in DOMAIN q /\ 1 \in DOMAIN q /\ 1 < i + 1 /\ Tail(q)[i] = q[i + 1]
  BY <1>1
<1>3. ASSUME NEW i \in DOMAIN Tail(q), NEW j \in DOMAIN Tail(q), i < j
      PROVE  Before(Tail(q)[i], Tail(q)[j])
  <2>1. i + 1 < j + 1
    BY <1>1, <1>3
  <2> QED BY <1>1, <1>2, <2>1 DEF Sorted
<1>4. ASSUME NEW n \in In(Tail(q))
      PROVE  Before(Head(q), n)
  <2>1. PICK i \in 1 .. (Len(q) - 1) : n = Tail(q)[i]
    BY <1>1, <1>4 DEF In
  <2> QED BY <1>1, <1>2, <2>1 DEF Sorted
<1> QED BY <1>3, <1>4 DEF Sorted, AllBefore

(* The i-th kept index is the one with i kept indices up to it: the ranks of  *)
(* a finite set of positions are 1 .. its cardinality, in order.              *)
LEMMA Ranks ==
  ASSUME NEW K, NEW len \in Nat, K \subseteq 1 .. len
  PROVE  /\ Cardinality(K) \in Nat
         /\ \A n \in 1 .. Cardinality(K) :
              \E i \in K : Cardinality({j \in K : j <= i}) = n
         /\ \A i, k \in K : i < k => Cardinality({j \in K : j <= i}) < Cardinality({j \in K : j <= k})
         /\ \A i \in K : Cardinality({j \in K : j <= i}) \in 1 .. Cardinality(K)
<1> DEFINE Upto(i) == {j \in K : j <= i}
           c == Cardinality(K)
           rank == [i \in K |-> Cardinality(Upto(i))]
<1>1. IsFiniteSet(K) /\ c \in Nat
  <2>1. IsFiniteSet(1 .. len)
    BY FS_Interval
  <2>2. IsFiniteSet(K)
    BY <2>1, FS_Subset
  <2> QED BY <2>2, FS_CardinalityType
<1>2. ASSUME NEW i \in K
      PROVE  Upto(i) \in SUBSET K /\ IsFiniteSet(Upto(i)) /\ Cardinality(Upto(i)) \in 1 .. c
  <2>1. Upto(i) \in SUBSET K /\ i \in Upto(i)
    OBVIOUS
  <2>2. IsFiniteSet(Upto(i)) /\ Cardinality(Upto(i)) <= c
    BY <1>1, <2>1, FS_Subset
  <2>3. Cardinality(Upto(i)) \in Nat /\ Cardinality(Upto(i)) # 0
    BY <2>1, <2>2, FS_CardinalityType, FS_EmptySet
  <2> QED BY <1>1, <2>1, <2>2, <2>3
<1>3. ASSUME NEW i \in K, NEW k \in K, i < k
      PROVE  Cardinality(Upto(i)) < Cardinality(Upto(k))
  <2>1. Upto(i) \in SUBSET Upto(k) /\ k \in Upto(k) /\ k \notin Upto(i)
    <3>1. \A j \in K : j \in Nat
      OBVIOUS
    <3>2. k \in Upto(k) /\ ~(k \in Upto(i))
      BY <1>3, <3>1
    <3>3. \A j \in Upto(i) : j \in Upto(k)
      BY <1>3, <3>1
    <3>4. Upto(i) \subseteq Upto(k)
      BY <3>3
    <3> HIDE DEF Upto
    <3> QED BY <3>2, <3>4
  <2>2. /\ IsFiniteSet(Upto(k)) /\ Upto(i) # Upto(k)
        /\ Cardinality(Upto(i)) \in Nat /\ Cardinality(Upto(k)) \in Nat
    BY <1>2, <2>1
  <2> HIDE DEF Upto
  <2>3. /\ Cardinality(Upto(i)) <= Cardinality(Upto(k))
        /\ Cardinality(Upto(k)) = Cardinality(Upto(i)) => Upto(k) = Upto(i)
    BY <2>1, <2>2, FS_Subset
  <2> QED BY <2>2, <2>3
<1>4. ASSUME NEW n \in 1 .. c
      PROVE  \E i \in K : Cardinality(Upto(i)) = n
  <2>1. \A i \in K : i \in Nat
    OBVIOUS
  <2> HIDE DEF Upto
  <2>2. rank \in [K -> 1 .. c]
    BY <1>2
  <2>3. \A i, k \in K : rank[i] = rank[k] => i = k
    <3> SUFFICES ASSUME NEW i \in K, NEW k \in K, rank[i] = rank[k] PROVE i = k
      OBVIOUS
    <3>1. rank[i] \in Nat /\ rank[k] \in Nat /\ i \in Nat /\ k \in Nat
      BY <1>1, <2>1, <2>2
    <3>2. (i < k => rank[i] < rank[k]) /\ (k < i => rank[k] < rank[i])
      BY <1>3
    <3> QED BY <3>1, <3>2
  <2>4. rank \in Injection(K, 1 .. c)
    BY <2>2, <2>3 DEF Injection, IsInjective
  <2>5. IsFiniteSet(1 .. c) /\ Cardinality(1 .. c) = c
    BY <1>1, FS_Interval
  <2> HIDE DEF rank
  <2>6. rank \in Surjection(K, 1 .. c)
    BY <2>4, <2>5, FS_Injection
  <2>7. \E i \in K : rank[i] = n
    BY <2>6 DEF Surjection
  <2> QED BY <2>7 DEF rank
<1> QED BY <1>1, <1>2, <1>3, <1>4

LEMMA RetainKeeps ==
  ASSUME NEW S, NEW q \in Seq(S), NEW act
  PROVE  /\ Retain(q, act) \in Seq(S)
         /\ In(Retain(q, act)) = {m \in In(q) : m.act # act}
         /\ Sorted(q) => Sorted(Retain(q, act))
<1> DEFINE K == {i \in DOMAIN q : q[i].act # act}
           Rank(i) == Cardinality({j \in K : j <= i})
           Nth(n) == CHOOSE i \in K : Rank(i) = n
           c == Cardinality(K)
           kept == [n \in 1 .. c |-> q[Nth(n)]]
<1>1. /\ DOMAIN q = 1 .. Len(q) /\ Len(q) \in Nat
      /\ K \subseteq 1 .. Len(q)
      /\ \A i \in DOMAIN q : q[i] \in S
  BY LenProperties, ElementOfSeq
<1>2. Retain(q, act) = kept
  BY DEF Retain
<1>3. /\ c \in Nat
      /\ \A n \in 1 .. c : \E i \in K : Rank(i) = n
      /\ \A i, k \in K : i < k => Rank(i) < Rank(k)
      /\ \A i \in K : Rank(i) \in 1 .. c
  <2> HIDE DEF K
  <2> QED BY <1>1, Ranks
<1>4. \A i \in K : i \in Nat /\ i \in DOMAIN q /\ q[i].act # act
  BY <1>1
<1>5. \A i \in DOMAIN q : q[i].act # act => i \in K
  OBVIOUS
<1> HIDE DEF K, Rank, c
<1>6. \A n \in 1 .. c : Nth(n) \in K /\ Rank(Nth(n)) = n
  BY <1>3
<1>7. \A i \in K : Nth(Rank(i)) = i
  <2> SUFFICES ASSUME NEW i \in K PROVE Nth(Rank(i)) = i
    OBVIOUS
  <2>1. Rank(i) \in 1 .. c
    BY <1>3
  <2>2. Nth(Rank(i)) \in K /\ Rank(Nth(Rank(i))) = Rank(i)
    BY <1>6, <2>1
  <2> DEFINE k == Nth(Rank(i))
  <2>3. k \in Nat /\ i \in Nat /\ Rank(i) \in Int /\ Rank(k) = Rank(i)
    BY <1>3, <1>4, <2>1, <2>2
  <2>4. k \in K
    BY <2>2
  <2> HIDE DEF k
  <2>5. (k < i => Rank(k) < Rank(i)) /\ (i < k => Rank(i) < Rank(k))
    BY <1>3, <2>4
  <2>6. k = i
    BY <2>3, <2>5
  <2> QED BY <2>6 DEF k
<1>8. ASSUME NEW m \in 1 .. c, NEW n \in 1 .. c, m < n
      PROVE  Nth(m) < Nth(n)
  <2> DEFINE i == Nth(m)  k == Nth(n)
  <2>1. i \in K /\ k \in K /\ Rank(i) = m /\ Rank(k) = n
    BY <1>6
  <2> HIDE DEF i, k
  <2>2. i \in Nat /\ k \in Nat /\ m \in Int /\ n \in Int
    BY <1>3, <1>4, <2>1
  <2>3. ~(k < i) /\ i # k
    BY <1>3, <1>8, <2>1, <2>2
  <2>4. i < k
    BY <2>2, <2>3
  <2> QED BY <2>4 DEF i, k
<1> HIDE DEF Nth
<1>9. \A n \in 1 .. c : kept[n] = q[Nth(n)] /\ kept[n] \in S
  BY <1>1, <1>4, <1>6
<1>10. kept \in Seq(S) /\ DOMAIN kept = 1 .. c
  <2>1. kept \in [1 .. c -> S]
    BY <1>9
  <2> QED BY <1>3, <2>1, SeqDef
<1>11. In(kept) = {m \in In(q) : m.act # act}
  <2>1. ASSUME NEW n \in 1 .. c
        PROVE  kept[n] \in In(q) /\ kept[n].act # act
    BY <1>4, <1>6, <1>9 DEF In
  <2>2. ASSUME NEW m \in In(q), m.act # act
        PROVE  m \in In(kept)
    <3>1. PICK i \in DOMAIN q : m = q[i]
      BY DEF In
    <3>2. i \in K /\ Rank(i) \in 1 .. c /\ Nth(Rank(i)) = i
      BY <1>3, <1>5, <1>7, <2>2, <3>1
    <3>3. kept[Rank(i)] = m
      BY <1>9, <3>1, <3>2
    <3> HIDE DEF kept
    <3> QED BY <1>10, <3>2, <3>3 DEF In
  <2> HIDE DEF kept
  <2> QED BY <1>10, <2>1, <2>2 DEF In
<1>12. Sorted(q) => Sorted(kept)
  <2> SUFFICES ASSUME Sorted(q), NEW m \in 1 .. c, NEW n \in 1 .. c, m < n
               PROVE  Before(kept[m], kept[n])
    BY <1>10 DEF Sorted
  <2>1. Nth(m) \in DOMAIN q /\ Nth(n) \in DOMAIN q /\ Nth(m) < Nth(n)
    BY <1>4, <1>6, <1>8
  <2>2. kept[m] = q[Nth(m)] /\ kept[n] = q[Nth(n)]
    BY <1>9
  <2> HIDE DEF kept
  <2> QED BY <2>1, <2>2 DEF Sorted
<1> QED BY <1>2, <1>10, <1>11, <1>12

-----------------------------------------------------------------------------
(* What the engines' operators return *)

LEMMA NeutralHeld == Neutral \in HeldState /\ IsNeutral(Neutral)
BY DEF Neutral, HeldState, TouchStates, IsNeutral

LEMMA HeldFields ==
  ASSUME NEW h \in HeldState
  PROVE  /\ h.keys \subseteq Keys /\ h.buttons \subseteq Buttons
         /\ h.touch \in TouchStates
         /\ h = [keys |-> h.keys, buttons |-> h.buttons, touch |-> h.touch]
BY DEF HeldState

LEMMA PressReleaseHeld ==
  ASSUME NEW h \in HeldState, NEW m
  PROVE  /\ m \in Members => Press(h, m) \in HeldState
         /\ Release(h, m) \in HeldState
BY DEF HeldState, Press, Release, Members

LEMMA TouchHeld ==
  ASSUME NEW h \in HeldState, NEW t \in TouchStates
  PROVE  [h EXCEPT !.touch = t] \in HeldState
BY DEF HeldState

LEMMA VisibleHeld ==
  ASSUME NEW h \in HeldState
  PROVE  Visible(h) \in HeldState
BY DEF HeldState, Visible

LEMMA AnchorType ==
  ASSUME NEW s \in SenderState, NEW kind \in {"Checkpoint", "Terminal"}
  PROVE  AnchorOf(s, kind) \in Anchor /\ NoAnchor \notin Anchor
BY DEF SenderState, HeldState, AnchorOf, Anchor, NoAnchor

LEMMA MessageType ==
  ASSUME NEW s \in SenderState, NEW kind \in ControlKinds,
         NEW member \in Members \cup {NoMember}, NEW held \in HeldState,
         NEW reason \in CloseReasons \cup {"none"},
         NEW anchor \in Anchor \cup {NoAnchor}
  PROVE  Message(s, kind, member, held, reason, anchor) \in ControlMessage
BY DEF SenderState, Message, ControlMessage, History

LEMMA SentType ==
  ASSUME NEW s \in SenderState
  PROVE  Sent(s) \in SenderState
BY DEF SenderState, Sent

(* What CaptureMotion leaves behind, field by field. *)
Captured(s, totals, held, dirty) ==
  [s EXCEPT !.totals = totals, !.mot = s.mot + 1, !.held = held, !.dirty = dirty]

LEMMA CapturedType ==
  ASSUME NEW s \in SenderState, NEW totals \in Total, NEW held \in HeldState,
         NEW dirty \in Nat \cup {NoTime}
  PROVE  Captured(s, totals, held, dirty) \in SenderState
<1>1. [s EXCEPT !.totals = totals, !.held = held, !.dirty = dirty] \in SenderState
  BY DEF SenderState
<1>2. Captured(s, totals, held, dirty)
        = [[s EXCEPT !.totals = totals, !.held = held, !.dirty = dirty] EXCEPT !.mot = s.mot + 1]
  BY DEF SenderState, Captured
<1>3. s.mot + 1 \in Nat
  BY DEF SenderState
<1> QED BY <1>1, <1>2, <1>3 DEF SenderState

LEMMA SenderTypes ==
  ASSUME NEW s \in SenderState
  PROVE  /\ NoSender \in SenderState
         /\ \A act \in Nat, t \in Nat : NewSender(act, t) \in SenderState
         /\ \A m \in Members, b \in BOOLEAN : Transition(s, m, b) \in SenderState
         /\ \A t \in TouchStates : TouchBegin(s, t) \in SenderState
         /\ TouchEnd(s) \in SenderState
         /\ \A t \in Nat : Snapshot(s, t) \in SenderState
         /\ \A n \in Nat : Acknowledge(s, n) \in SenderState
         /\ \A d \in Int, u \in TouchStates, t \in Nat :
              Fits(s.totals + d) => CaptureMotion(s, d, u, t) \in SenderState
<1> USE SenderAssumption DEF SenderState
<1>1. 0 \in Total /\ NoTouch \in TouchStates
  BY MembersAssumption DEF Total, TouchStates
<1>2. NoSender \in SenderState
  BY <1>1, NeutralHeld DEF NoSender
<1>3. ASSUME NEW act \in Nat, NEW t \in Nat
      PROVE  NewSender(act, t) \in SenderState
  BY <1>2 DEF NewSender
<1>4. ASSUME NEW m \in Members, NEW b \in BOOLEAN
      PROVE  Transition(s, m, b) \in SenderState
  <2>1. (IF b THEN Press(s.held, m) ELSE Release(s.held, m)) \in HeldState
    BY PressReleaseHeld
  <2> QED BY <2>1 DEF Transition
<1>5. ASSUME NEW t \in TouchStates
      PROVE  TouchBegin(s, t) \in SenderState
  BY TouchHeld DEF TouchBegin
<1>6. TouchEnd(s) \in SenderState
  BY <1>1, TouchHeld DEF TouchEnd
<1>7. ASSUME NEW t \in Nat
      PROVE  Snapshot(s, t) \in SenderState
  <2>1. [seq |-> s.ctl + 1, deadline |-> t + Lease] \in PendingSnapshot
    BY DEF PendingSnapshot
  <2> QED BY <2>1 DEF Snapshot
<1>8. ASSUME NEW n \in Nat
      PROVE  Acknowledge(s, n) \in SenderState
  <2>1. {p \in s.pending : p.seq > n} \subseteq PendingSnapshot
    OBVIOUS
  <2> QED BY <2>1 DEF Acknowledge
<1>9. ASSUME NEW d \in Int, NEW u \in TouchStates, NEW t \in Nat, Fits(s.totals + d)
      PROVE  CaptureMotion(s, d, u, t) \in SenderState
  <2>1. (IF u = NoTouch THEN s.held.touch ELSE u) \in TouchStates
    BY DEF HeldState
  <2>2. (IF s.dirty = NoTime /\ (d # 0 \/ u # NoTouch) THEN t ELSE s.dirty)
          \in Nat \cup {NoTime}
    OBVIOUS
  <2> DEFINE held == [s.held EXCEPT !.touch = IF u = NoTouch THEN s.held.touch ELSE u]
             dirty == IF s.dirty = NoTime /\ (d # 0 \/ u # NoTouch) THEN t ELSE s.dirty
  <2>3. held \in HeldState /\ s.totals + d \in Total
    BY <1>9, <2>1, TouchHeld DEF Fits
  <2>4. CaptureMotion(s, d, u, t) = Captured(s, s.totals + d, held, dirty)
    BY DEF CaptureMotion, Captured
  <2>5. dirty \in Nat \cup {NoTime}
    BY <2>2 DEF dirty
  <2> HIDE DEF SenderState, held, dirty
  <2> QED BY <2>3, <2>4, <2>5, CapturedType
<1> QED BY <1>2, <1>3, <1>4, <1>5, <1>6, <1>7, <1>8, <1>9

LEMMA MessageTypes ==
  ASSUME NEW s \in SenderState
  PROVE  /\ EnterMessage(s) \in ControlMessage
         /\ \A m \in Members, b \in BOOLEAN : TransitionMessage(s, m, b) \in ControlMessage
         /\ \A t \in TouchStates : TouchBeginMessage(s, t) \in ControlMessage
         /\ TouchEndMessage(s) \in ControlMessage
         /\ SnapshotMessage(s) \in ControlMessage
         /\ TimeoutCloseMessage(s) \in ControlMessage
         /\ \A r \in CloseReasons : LeaveMessage(s, r) \in ControlMessage
<1> USE DEF ControlKinds, CloseReasons
<1>1. s.held \in HeldState
  BY DEF SenderState
<1>2. ASSUME NEW m \in Members, NEW b \in BOOLEAN
      PROVE  TransitionMessage(s, m, b) \in ControlMessage
  <2>1. (IF m \in Buttons THEN AnchorOf(s, "Checkpoint") ELSE NoAnchor)
          \in Anchor \cup {NoAnchor}
    BY AnchorType
  <2> QED BY <2>1, SenderTypes, MessageType, NeutralHeld DEF TransitionMessage
<1>3. ASSUME NEW t \in TouchStates
      PROVE  TouchBeginMessage(s, t) \in ControlMessage
  BY SenderTypes, MessageType, NeutralHeld, TouchHeld DEF TouchBeginMessage
<1>4. TouchEndMessage(s) \in ControlMessage
  BY SenderTypes, AnchorType, MessageType, NeutralHeld DEF TouchEndMessage
<1>5. EnterMessage(s) \in ControlMessage /\ TimeoutCloseMessage(s) \in ControlMessage
  BY MessageType, NeutralHeld DEF EnterMessage, TimeoutCloseMessage
<1>6. SnapshotMessage(s) \in ControlMessage
  BY <1>1, AnchorType, MessageType DEF SnapshotMessage
<1>7. ASSUME NEW r \in CloseReasons
      PROVE  LeaveMessage(s, r) \in ControlMessage
  BY AnchorType, MessageType, NeutralHeld DEF LeaveMessage
<1> QED BY <1>2, <1>3, <1>4, <1>5, <1>6, <1>7

LEMMA FrameType ==
  ASSUME NEW s \in SenderState, NEW t \in TouchStates
  PROVE  FrameOf(s, t) \in MotionFrame
BY DEF SenderState, FrameOf, MotionFrame

-----------------------------------------------------------------------------
(* The receiver *)

(* What every call of the receiver returns. *)
Outcome == [r: ReceiverState, e: Effects]

LEMMA OutcomeFields ==
  ASSUME NEW o \in Outcome
  PROVE  o.r \in ReceiverState /\ o.e \in Effects
BY DEF Outcome

LEMMA NewReceiverType ==
  /\ NewReceiver \in ReceiverState /\ NoEffects \in Effects
  /\ \A n \in Nat : [NewReceiver EXCEPT !.highest = n] \in ReceiverState
<1>1. 0 \in Total
  BY MembersAssumption DEF Total
<1>2. NewReceiver \in ReceiverState
  BY <1>1, NeutralHeld DEF NewReceiver, ReceiverState
<1>3. NoEffects \in Effects
  BY NeutralHeld DEF NoEffects, Effects, Rejections
<1>4. ASSUME NEW n \in Nat
      PROVE  [NewReceiver EXCEPT !.highest = n] \in ReceiverState
  BY <1>2 DEF ReceiverState
<1> QED BY <1>2, <1>3, <1>4

LEMMA StartType ==
  ASSUME NEW r \in ReceiverState
  PROVE  Start(r) \in Outcome
BY NewReceiverType DEF Start, Outcome, ReceiverState, Effects

LEMMA RejectType ==
  ASSUME NEW o \in Outcome, NEW why \in Rejections
  PROVE  Reject(o, why) \in Outcome
BY DEF Reject, Outcome, Effects

LEMMA CloseType ==
  ASSUME NEW o \in Outcome, NEW why \in CloseReasons \cup {"none"}
  PROVE  CloseActivation(o, why) \in Outcome
<1>1. o.r \in ReceiverState /\ o.e \in Effects
  BY DEF Outcome
<1>2. [NewReceiver EXCEPT !.highest = o.r.highest] \in ReceiverState
  BY <1>1, NewReceiverType DEF ReceiverState
<1>3. [o.e EXCEPT !.to = Neutral, !.closed = o.r.act, !.reason = why] \in Effects
  BY <1>1, NeutralHeld DEF Effects, ReceiverState
<1> QED BY <1>2, <1>3 DEF CloseActivation, Outcome

LEMMA ExpireType ==
  ASSUME NEW r \in ReceiverState, NEW t \in Nat
  PROVE  ExpireLease(r, t) \in Outcome
BY StartType, CloseType DEF ExpireLease, CloseReasons

LEMMA RefreshType ==
  ASSUME NEW r \in ReceiverState, NEW t \in Nat
  PROVE  RefreshLease(r, t) \in ReceiverState
BY ReceiverAssumption DEF RefreshLease, ReceiverState

LEMMA EnterType ==
  ASSUME NEW o \in Outcome, NEW m \in ControlMessage
  PROVE  ReceiveEnter(o, m) \in Outcome
<1>1. CloseActivation(o, "Superseded") \in Outcome
  BY CloseType DEF CloseReasons
<1>2. [NewReceiver EXCEPT !.highest = m.act, !.act = m.act, !.ctl = 1] \in ReceiverState
  BY NewReceiverType DEF ReceiverState, ControlMessage
<1>3. [CloseActivation(o, "Superseded").e EXCEPT !.opened = m.act, !.safe = FALSE] \in Effects
  BY <1>1 DEF Outcome, Effects, ControlMessage
<1>4. ReceiveEnter(o, m) \in
        {Reject(o, "ClosedActivation"), Reject(o, "StaleActivation"), Reject(o, "ControlGap"),
         [r |-> [NewReceiver EXCEPT !.highest = m.act, !.act = m.act, !.ctl = 1],
          e |-> [CloseActivation(o, "Superseded").e EXCEPT !.opened = m.act, !.safe = FALSE]]}
  BY DEF ReceiveEnter
<1> QED BY <1>2, <1>3, <1>4, RejectType DEF Outcome, Rejections, Fatal

LEMMA ApplyAnchorType ==
  ASSUME NEW r \in ReceiverState, NEW a \in Anchor
  PROVE  ApplyAnchor(r, a) \in ReceiverState
BY DEF ApplyAnchor, ReceiverState, HeldState, Anchor

LEMMA PayloadType ==
  ASSUME NEW r \in ReceiverState, NEW m \in ControlMessage, NEW t \in Nat,
         m.kind \in {"Press", "Release"} => m.member \in Members
  PROVE  ApplyPayload(r, m, t) \in ReceiverState
<1>1. r.held \in HeldState /\ m.held \in HeldState /\ m.held.touch \in TouchStates
  BY DEF ReceiverState, ControlMessage, HeldState
<1> DEFINE held == CASE m.kind = "Press"         -> Press(r.held, m.member)
                     [] m.kind = "Release"       -> Release(r.held, m.member)
                     [] m.kind = "TouchBegin"    -> [r.held EXCEPT !.touch = m.held.touch]
                     [] m.kind = "TouchEnd"      -> [r.held EXCEPT !.touch = NoTouch]
                     [] m.kind = "StateSnapshot" -> m.held
                     [] OTHER                    -> r.held
<1>2. held \in HeldState
  BY <1>1, PressReleaseHeld, TouchHeld DEF TouchStates, ControlMessage, ControlKinds
<1>3. [r EXCEPT !.held = held, !.ctl = m.seq] \in ReceiverState
  BY <1>2 DEF ReceiverState, ControlMessage
<1> QED BY <1>3, RefreshType DEF ApplyPayload

-----------------------------------------------------------------------------
(* The messages a sender makes *)

(* A control message that keeps to the protocol's shape: Enter and only Enter *)
(* is the first of its activation, a transition names its member, a snapshot   *)
(* shows the contacts of its anchor and the state it leaves behind.  An anchor *)
(* carries the totals of the moment it was taken, and neither a button nor an  *)
(* orderly leave goes without one.                                            *)
Sendable ==
  {m \in ControlMessage :
     /\ m.act > 0 /\ m.seq > 0
     /\ m.kind = "Enter" <=> m.seq = 1
     /\ m.kind \in {"Press", "Release"} => m.member \in Members
     /\ m.kind \in {"Enter", "TouchBegin"} => ~HasAnchor(m)
     /\ m.kind \in {"TouchEnd", "StateSnapshot"} => HasAnchor(m)
     /\ HasAnchor(m) =>
          m.anchor.kind = IF m.kind = "SessionClose" THEN "Terminal" ELSE "Checkpoint"
     /\ m.kind = "Enter" => m.after.held = Neutral
     /\ m.kind = "TouchBegin" => m.held.touch # NoTouch
     /\ m.kind = "StateSnapshot" => m.held = m.after.held /\ m.anchor.touch = m.held.touch
     /\ m.kind = "SessionClose" => m.reason \in {"LocalRelease", "LeaseExpired"}
     /\ m.kind = "SessionClose" /\ m.reason = "LocalRelease" => HasAnchor(m)
     /\ m.kind \in {"Press", "Release"} /\ m.member \in Buttons => HasAnchor(m)
     /\ HasAnchor(m) => m.anchor.totals = m.after.totals}

LEMMA AnchorFields ==
  ASSUME NEW m \in ControlMessage
  PROVE  /\ HasAnchor(m) <=> m.anchor \in Anchor
         /\ ~HasAnchor(m) <=> m.anchor = NoAnchor
BY DEF ControlMessage, HasAnchor, Anchor, NoAnchor

LEMMA AnchorOfFields ==
  ASSUME NEW s, NEW kind
  PROVE  LET a == AnchorOf(s, kind)
         IN  /\ a.through = s.mot /\ a.totals = s.totals /\ a.touch = s.held.touch
             /\ a.kind = kind
BY DEF AnchorOf

LEMMA SendableMessages ==
  ASSUME NEW s \in SenderState, s.act > 0
  PROVE  /\ s.ctl = 0 /\ s.held = Neutral => EnterMessage(s) \in Sendable
         /\ s.ctl > 0 =>
              /\ \A m \in Members, b \in BOOLEAN : TransitionMessage(s, m, b) \in Sendable
              /\ \A t \in Touches : TouchBeginMessage(s, t) \in Sendable
              /\ TouchEndMessage(s) \in Sendable
              /\ SnapshotMessage(s) \in Sendable
              /\ TimeoutCloseMessage(s) \in Sendable
              /\ LeaveMessage(s, "LocalRelease") \in Sendable
<1>1. s.ctl \in Nat /\ s.act \in Nat /\ s.held \in HeldState
  BY DEF SenderState
<1>2. NoAnchor.kind = "Absent"
  BY DEF NoAnchor
<1>3. ASSUME s.ctl = 0, s.held = Neutral
      PROVE  EnterMessage(s) \in Sendable
  <2> DEFINE w == EnterMessage(s)
  <2>1. /\ w \in ControlMessage /\ w.act = s.act /\ w.seq = 1 /\ w.kind = "Enter"
        /\ w.after.held = Neutral /\ ~HasAnchor(w)
    BY <1>1, <1>3, MessageTypes DEF EnterMessage, Message, HasAnchor, NoAnchor
  <2> HIDE DEF w
  <2>2. w \in Sendable
    BY <1>1, <2>1 DEF Sendable
  <2> QED BY <2>2 DEF w
<1>4. ASSUME s.ctl > 0, NEW m \in Members, NEW b \in BOOLEAN
      PROVE  TransitionMessage(s, m, b) \in Sendable
  <2> DEFINE u == Transition(s, m, b)
             w == TransitionMessage(s, m, b)
             a == IF m \in Buttons THEN AnchorOf(s, "Checkpoint") ELSE NoAnchor
  <2>1. /\ u \in SenderState /\ u.act = s.act /\ u.ctl = s.ctl /\ u.totals = s.totals
    BY SenderTypes DEF Transition, SenderState
  <2>2. w = Message(u, IF b THEN "Press" ELSE "Release", m, Neutral, "none", a)
    BY DEF TransitionMessage
  <2>3. /\ w \in ControlMessage /\ w.act = s.act /\ w.seq = s.ctl + 1
        /\ w.kind = (IF b THEN "Press" ELSE "Release") /\ w.member = m /\ w.anchor = a
        /\ w.after.totals = s.totals
    <3>1. w \in ControlMessage
      BY MessageTypes
    <3> HIDE DEF u, a, w
    <3> QED BY <2>1, <2>2, <3>1 DEF Message
  <2>4. /\ w.anchor.kind = IF m \in Buttons THEN "Checkpoint" ELSE "Absent"
        /\ m \in Buttons => w.anchor.totals = s.totals
    BY <1>2, <2>3, AnchorOfFields
  <2> HIDE DEF w
  <2>5. w \in Sendable
    BY <1>1, <1>4, <2>3, <2>4 DEF Sendable, HasAnchor
  <2> QED BY <2>5 DEF w
<1>5. ASSUME s.ctl > 0, NEW t \in Touches
      PROVE  TouchBeginMessage(s, t) \in Sendable
  <2> DEFINE u == TouchBegin(s, t)
             w == TouchBeginMessage(s, t)
  <2>1. /\ u \in SenderState /\ u.act = s.act /\ u.ctl = s.ctl
        /\ [Neutral EXCEPT !.touch = t].touch = t /\ t # NoTouch
    BY SenderTypes, MembersAssumption DEF TouchBegin, SenderState, TouchStates, Neutral
  <2>2. /\ w \in ControlMessage /\ w.act = s.act /\ w.seq = s.ctl + 1
        /\ w.kind = "TouchBegin" /\ w.held.touch # NoTouch /\ ~HasAnchor(w)
    <3>1. w = Message(u, "TouchBegin", NoMember, [Neutral EXCEPT !.touch = t], "none", NoAnchor)
      BY DEF TouchBeginMessage
    <3>2. w \in ControlMessage
      BY MessageTypes DEF TouchStates
    <3> HIDE DEF u, w
    <3> QED BY <1>2, <2>1, <3>1, <3>2 DEF Message, HasAnchor
  <2> HIDE DEF w
  <2>3. w \in Sendable
    BY <1>1, <1>5, <2>2 DEF Sendable
  <2> QED BY <2>3 DEF w
<1>6. ASSUME s.ctl > 0
      PROVE  TouchEndMessage(s) \in Sendable
  <2> DEFINE u == TouchEnd(s)
             w == TouchEndMessage(s)
  <2>1. /\ u \in SenderState /\ u.act = s.act /\ u.ctl = s.ctl /\ u.totals = s.totals
    BY SenderTypes DEF TouchEnd, SenderState
  <2>2. /\ w \in ControlMessage /\ w.act = s.act /\ w.seq = s.ctl + 1
        /\ w.kind = "TouchEnd" /\ w.anchor = AnchorOf(s, "Checkpoint")
        /\ w.after.totals = s.totals
    <3>1. w = Message(u, "TouchEnd", NoMember, Neutral, "none", AnchorOf(s, "Checkpoint"))
      BY DEF TouchEndMessage
    <3>2. w \in ControlMessage
      BY MessageTypes
    <3> HIDE DEF u, w
    <3> QED BY <2>1, <3>1, <3>2 DEF Message
  <2> HIDE DEF w
  <2>3. w \in Sendable
    BY <1>1, <1>6, <2>2, AnchorOfFields DEF Sendable, HasAnchor
  <2> QED BY <2>3 DEF w
<1>7. ASSUME s.ctl > 0
      PROVE  SnapshotMessage(s) \in Sendable
  <2> DEFINE w == SnapshotMessage(s)
  <2>1. /\ w \in ControlMessage /\ w.act = s.act /\ w.seq = s.ctl + 1
        /\ w.kind = "StateSnapshot" /\ w.anchor = AnchorOf(s, "Checkpoint")
        /\ w.held = s.held /\ w.after.held = s.held /\ w.after.totals = s.totals
    BY MessageTypes DEF SnapshotMessage, Message
  <2> HIDE DEF w
  <2>2. w \in Sendable
    BY <1>1, <1>7, <2>1, AnchorOfFields DEF Sendable, HasAnchor
  <2> QED BY <2>2 DEF w
<1>8. ASSUME s.ctl > 0
      PROVE  TimeoutCloseMessage(s) \in Sendable
  <2> DEFINE w == TimeoutCloseMessage(s)
  <2>1. /\ w \in ControlMessage /\ w.act = s.act /\ w.seq = s.ctl + 1
        /\ w.kind = "SessionClose" /\ w.reason = "LeaseExpired" /\ ~HasAnchor(w)
    BY <1>2, MessageTypes DEF TimeoutCloseMessage, Message, HasAnchor
  <2> HIDE DEF w
  <2>2. w \in Sendable
    BY <1>1, <1>8, <2>1 DEF Sendable
  <2> QED BY <2>2 DEF w
<1>9. ASSUME s.ctl > 0
      PROVE  LeaveMessage(s, "LocalRelease") \in Sendable
  <2> DEFINE w == LeaveMessage(s, "LocalRelease")
  <2>1. /\ w \in ControlMessage /\ w.act = s.act /\ w.seq = s.ctl + 1
        /\ w.kind = "SessionClose" /\ w.reason = "LocalRelease"
        /\ w.anchor = AnchorOf(s, "Terminal") /\ w.after.totals = s.totals
    BY MessageTypes DEF LeaveMessage, Message, CloseReasons
  <2> HIDE DEF w
  <2>2. w \in Sendable
    BY <1>1, <1>9, <2>1, AnchorOfFields DEF Sendable, HasAnchor
  <2> QED BY <2>2 DEF w
<1> QED BY <1>3, <1>4, <1>5, <1>6, <1>7, <1>8, <1>9

-----------------------------------------------------------------------------
(* What one captured frame sends *)

(* The sender, the controls and the frames sent, while an activation is open. *)
Outbox ==
  {x \in [s: SenderState, ctl: Seq(Sendable), mot: SUBSET MotionFrame] :
     x.s.act > 0 /\ x.s.ctl > 0}

Begins(x, y) ==
  /\ x.s.held.touch = NoTouch
  /\ \E t \in Touches : y = SendControl(x, TouchBegin(x.s, t), TouchBeginMessage(x.s, t))

Moves(x, y) ==
  \E d \in Int, t \in TouchStates :
    /\ t # NoTouch => x.s.held.touch # NoTouch
    /\ Fits(x.s.totals + d)
    /\ y = SendMotion(x, d, t)

Ends(x, y) ==
  /\ x.s.held.touch # NoTouch
  /\ y = SendControl(x, TouchEnd(x.s), TouchEndMessage(x.s))

Turns(x, y) ==
  \E m \in Members, b \in BOOLEAN :
    /\ TransitionAllowed(x.s, m, b)
    /\ y = SendTransition(x, m, b)

(* One part of a frame, or nothing. *)
Sends(x, y) == y = x \/ Begins(x, y) \/ Moves(x, y) \/ Ends(x, y)

LEMMA OutboxFields ==
  ASSUME NEW x \in Outbox
  PROVE  /\ x.s \in SenderState /\ x.ctl \in Seq(Sendable) /\ x.mot \subseteq MotionFrame
         /\ x.s.act > 0 /\ x.s.ctl > 0
         /\ x.s.act \in Nat /\ x.s.ctl \in Nat /\ x.s.mot \in Nat
         /\ x.s.held \in HeldState /\ x.s.held.touch \in TouchStates
BY DEF Outbox, SenderState, HeldState

(* A control sent from an open outbox. *)
LEMMA SendControlOutbox ==
  ASSUME NEW x \in Outbox, NEW s \in SenderState, NEW m \in Sendable,
         s.act = x.s.act, s.ctl = x.s.ctl
  PROVE  /\ SendControl(x, s, m) \in Outbox
         /\ SendControl(x, s, m).s = Sent(s)
         /\ SendControl(x, s, m).ctl = Append(x.ctl, m)
         /\ SendControl(x, s, m).mot = x.mot
<1>1. /\ SendControl(x, s, m).s = Sent(s)
      /\ SendControl(x, s, m).ctl = Append(x.ctl, m)
      /\ SendControl(x, s, m).mot = x.mot
      /\ SendControl(x, s, m) = [s |-> Sent(s), ctl |-> Append(x.ctl, m), mot |-> x.mot]
  BY DEF SendControl
<1>2. Append(x.ctl, m) \in Seq(Sendable)
  BY OutboxFields, AppendProperties
<1>3. Sent(s) \in SenderState /\ Sent(s).act > 0 /\ Sent(s).ctl > 0
  <2>1. Sent(s).act = s.act /\ Sent(s).ctl = s.ctl + 1
    BY DEF Sent, SenderState
  <2> QED BY <2>1, OutboxFields, SentType
<1> QED BY <1>1, <1>2, <1>3, OutboxFields DEF Outbox

LEMMA SendMotionOutbox ==
  ASSUME NEW x \in Outbox, NEW d \in Int, NEW t \in TouchStates, Fits(x.s.totals + d),
         now \in Nat
  PROVE  /\ SendMotion(x, d, t) \in Outbox
         /\ SendMotion(x, d, t).s = CaptureMotion(x.s, d, t, now)
         /\ SendMotion(x, d, t).ctl = x.ctl
         /\ SendMotion(x, d, t).mot = x.mot \cup {FrameOf(CaptureMotion(x.s, d, t, now), t)}
<1> DEFINE s == CaptureMotion(x.s, d, t, now)
<1>1. /\ SendMotion(x, d, t).s = s /\ SendMotion(x, d, t).ctl = x.ctl
      /\ SendMotion(x, d, t).mot = x.mot \cup {FrameOf(s, t)}
      /\ SendMotion(x, d, t) = [s |-> s, ctl |-> x.ctl, mot |-> x.mot \cup {FrameOf(s, t)}]
  BY DEF SendMotion
<1>2. s \in SenderState
  BY OutboxFields, SenderTypes
<1>3. s.act = x.s.act /\ s.ctl = x.s.ctl
  BY OutboxFields DEF CaptureMotion, SenderState
<1>4. FrameOf(s, t) \in MotionFrame
  BY <1>2, FrameType
<1> HIDE DEF s
<1>5. [s |-> s, ctl |-> x.ctl, mot |-> x.mot \cup {FrameOf(s, t)}] \in Outbox
  BY <1>2, <1>3, <1>4, OutboxFields DEF Outbox
<1> QED BY <1>1, <1>5 DEF s

LEMMA SendsOutbox ==
  ASSUME NEW x \in Outbox, NEW y, Sends(x, y) \/ Turns(x, y), now \in Nat
  PROVE  y \in Outbox
<1>1. CASE y = x
  BY <1>1
<1>2. CASE Begins(x, y)
  <2>1. PICK t \in Touches : y = SendControl(x, TouchBegin(x.s, t), TouchBeginMessage(x.s, t))
    BY <1>2 DEF Begins
  <2>2. TouchBegin(x.s, t) \in SenderState /\ TouchBeginMessage(x.s, t) \in Sendable
    BY OutboxFields, SenderTypes, SendableMessages DEF TouchStates
  <2>3. TouchBegin(x.s, t).act = x.s.act /\ TouchBegin(x.s, t).ctl = x.s.ctl
    BY OutboxFields DEF TouchBegin, SenderState
  <2> QED BY <2>1, <2>2, <2>3, SendControlOutbox
<1>3. CASE Moves(x, y)
  BY <1>3, SendMotionOutbox DEF Moves
<1>4. CASE Ends(x, y)
  <2>1. y = SendControl(x, TouchEnd(x.s), TouchEndMessage(x.s))
    BY <1>4 DEF Ends
  <2>2. TouchEnd(x.s) \in SenderState /\ TouchEndMessage(x.s) \in Sendable
    BY OutboxFields, SenderTypes, SendableMessages
  <2>3. TouchEnd(x.s).act = x.s.act /\ TouchEnd(x.s).ctl = x.s.ctl
    BY OutboxFields DEF TouchEnd, SenderState
  <2> QED BY <2>1, <2>2, <2>3, SendControlOutbox
<1>5. CASE Turns(x, y)
  <2>1. PICK m \in Members, b \in BOOLEAN :
          y = SendControl(x, Transition(x.s, m, b), TransitionMessage(x.s, m, b))
    BY <1>5 DEF Turns, SendTransition
  <2>2. Transition(x.s, m, b) \in SenderState /\ TransitionMessage(x.s, m, b) \in Sendable
    BY OutboxFields, SenderTypes, SendableMessages
  <2>3. Transition(x.s, m, b).act = x.s.act /\ Transition(x.s, m, b).ctl = x.s.ctl
    BY OutboxFields DEF Transition, SenderState
  <2> QED BY <2>1, <2>2, <2>3, SendControlOutbox
<1> QED BY <1>1, <1>2, <1>3, <1>4, <1>5 DEF Sends

(* The touch and the motion of a frame are at most two sends, and a touch that *)
(* ends is the last of them.                                                  *)
LEMMA FrameSends ==
  ASSUME NEW x \in Outbox, NEW delta \in Deltas, NEW touch \in TouchStates \cup {"none"},
         Fits(x.s.totals + delta), now \in Nat
  PROVE  LET z == SendTouchAndMotion(x, delta, touch)
         IN  \E y : /\ Sends(x, y) /\ Sends(y, z)
                    /\ y.s.totals \in {x.s.totals, z.s.totals}
<1> DEFINE begun == SendControl(x, TouchBegin(x.s, touch), TouchBeginMessage(x.s, touch))
           moved == MaybeMotion(x, delta)
<1>1. delta \in Int /\ NoTouch \in TouchStates
  BY SessionAssumption DEF TouchStates
<1>2. Sends(x, moved)
  BY <1>1 DEF MaybeMotion, Sends, Moves
<1>3. CASE touch = "none"
  BY <1>2, <1>3 DEF SendTouchAndMotion, Sends
<1>4. CASE touch # "none" /\ x.s.held.touch = NoTouch /\ touch # NoTouch
  <2>1. touch \in Touches
    BY <1>4 DEF TouchStates
  <2>2. Begins(x, begun)
    BY <1>4, <2>1 DEF Begins
  <2>3. TouchBegin(x.s, touch) \in SenderState /\ TouchBeginMessage(x.s, touch) \in Sendable
    BY <2>1, OutboxFields, SenderTypes, SendableMessages DEF TouchStates
  <2>4. /\ TouchBegin(x.s, touch).act = x.s.act /\ TouchBegin(x.s, touch).ctl = x.s.ctl
        /\ Sent(TouchBegin(x.s, touch)).totals = x.s.totals
    BY OutboxFields DEF TouchBegin, SenderState, Sent
  <2>5. begun.s.totals = x.s.totals
    BY <2>3, <2>4, SendControlOutbox
  <2>6. Sends(begun, MaybeMotion(begun, delta))
    BY <1>1, <2>5 DEF MaybeMotion, Sends, Moves
  <2>7. SendTouchAndMotion(x, delta, touch) = MaybeMotion(begun, delta)
    BY <1>4 DEF SendTouchAndMotion
  <2> HIDE DEF begun
  <2> QED BY <2>2, <2>5, <2>6, <2>7 DEF Sends
<1>5. CASE touch # "none" /\ x.s.held.touch # NoTouch /\ touch = NoTouch
  <2>1. moved.s.held.touch = x.s.held.touch
    <3>1. CASE delta = 0
      BY <3>1 DEF MaybeMotion
    <3>2. CASE delta # 0
      <4>1. moved.s = CaptureMotion(x.s, delta, NoTouch, now)
        BY <1>1, <3>2, SendMotionOutbox DEF MaybeMotion
      <4> QED BY <4>1, OutboxFields DEF CaptureMotion, SenderState, HeldState
    <3> QED BY <3>1, <3>2
  <2>2. SendTouchAndMotion(x, delta, touch)
          = SendControl(moved, TouchEnd(moved.s), TouchEndMessage(moved.s))
    BY <1>5 DEF SendTouchAndMotion
  <2>3. Ends(moved, SendTouchAndMotion(x, delta, touch))
    BY <1>5, <2>1, <2>2 DEF Ends
  <2>4. moved \in Outbox
    BY <1>2, SendsOutbox
  <2>5. SendTouchAndMotion(x, delta, touch).s.totals = moved.s.totals
    <3>1. SendTouchAndMotion(x, delta, touch).s = Sent(TouchEnd(moved.s))
      BY <2>2 DEF SendControl
    <3>2. moved.s \in SenderState
      BY <2>4, OutboxFields
    <3> HIDE DEF moved
    <3> QED BY <3>1, <3>2 DEF Sent, TouchEnd, SenderState
  <2> HIDE DEF moved
  <2> QED BY <1>2, <2>3, <2>5 DEF Sends
<1>6. CASE touch # "none" /\ x.s.held.touch # NoTouch /\ touch # NoTouch
  <2>1. SendTouchAndMotion(x, delta, touch) = SendMotion(x, delta, touch)
    BY <1>6 DEF SendTouchAndMotion
  <2>2. Moves(x, SendTouchAndMotion(x, delta, touch))
    BY <1>1, <1>6, <2>1 DEF Moves
  <2> QED BY <2>2 DEF Sends
<1>7. CASE touch # "none" /\ x.s.held.touch = NoTouch /\ touch = NoTouch
  <2>1. SendTouchAndMotion(x, delta, touch) = moved
    BY <1>7 DEF SendTouchAndMotion
  <2> QED BY <1>2, <2>1 DEF Sends
<1> QED BY <1>3, <1>4, <1>5, <1>6, <1>7

-----------------------------------------------------------------------------
(* What the receiver and playout return *)

LEMMA RejectionType ==
  ASSUME NEW r, NEW m
  PROVE  Rejection(r, m) \in Rejections
BY DEF Rejection, Rejections, Fatal

LEMMA ControlType ==
  ASSUME NEW r \in ReceiverState, NEW m \in Sendable, NEW t \in Nat
  PROVE  ReceiveControl(r, m, t) \in Outcome
<1> DEFINE o == ExpireLease(r, t)
           why == Rejection(o.r, m)
           delta == IF HasAnchor(m) THEN m.anchor.totals - o.r.totals ELSE 0
           anchored == IF HasAnchor(m) THEN ApplyAnchor(o.r, m.anchor) ELSE o.r
           applied == ApplyPayload(anchored, m, t)
           ack == IF m.kind = "StateSnapshot" THEN m.seq ELSE 0
           safe == delta = 0 /\ anchored.held.touch \in {NoTouch, o.r.held.touch}
           e == [o.e EXCEPT !.to = applied.held, !.delta = delta, !.ack = ack, !.safe = safe]
<1>1. m \in ControlMessage /\ (m.kind \in {"Press", "Release"} => m.member \in Members)
  BY DEF Sendable
<1>2. o \in Outcome /\ o.r \in ReceiverState /\ o.e \in Effects
  BY ExpireType, OutcomeFields
<1>3. anchored \in ReceiverState
  <2> HIDE DEF o
  <2> QED BY <1>1, <1>2, AnchorFields, ApplyAnchorType
<1>4. applied \in ReceiverState
  <2> HIDE DEF o, anchored
  <2> QED BY <1>1, <1>3, PayloadType
<1>5. delta \in Int
  <2>1. o.r.totals \in Int
    BY <1>2, MembersAssumption DEF ReceiverState, Total
  <2>2. HasAnchor(m) => m.anchor.totals \in Int
    BY <1>1, AnchorFields, MembersAssumption DEF Anchor, Total
  <2> HIDE DEF o
  <2> QED BY <2>1, <2>2
<1>6. ack \in Nat /\ safe \in BOOLEAN /\ applied.held \in HeldState
  BY <1>1, <1>4 DEF ControlMessage, ReceiverState
<1>7. e \in Effects
  <2> HIDE DEF o, applied, delta, ack, safe
  <2> QED BY <1>2, <1>5, <1>6 DEF Effects
<1>8. ReceiveControl(r, m, t) \in
        {ReceiveEnter(o, m), Reject(o, why), CloseActivation(o, "MotionOverflow"),
         CloseActivation([r |-> applied, e |-> e], m.reason), [r |-> applied, e |-> e]}
  BY DEF ReceiveControl
<1> HIDE DEF o, why, applied, e
<1>9. [r |-> applied, e |-> e] \in Outcome
  BY <1>4, <1>7 DEF Outcome
<1>10. m.reason \in CloseReasons \cup {"none"}
  BY <1>1 DEF ControlMessage
<1>11. why \in Rejections
  BY RejectionType DEF why
<1> QED BY <1>1, <1>2, <1>8, <1>9, <1>10, <1>11, EnterType, RejectType, CloseType DEF CloseReasons

(* What playout hands to the receiver. *)
Step == [through: Nat, delta: Int, touch: TouchStates, reached: BOOLEAN]

LEMMA PlayoutStepType ==
  ASSUME NEW r \in ReceiverState, NEW act \in Nat, NEW step \in Step, NEW t \in Nat
  PROVE  ReceivePlayoutStep(r, act, step, t) \in Outcome
<1> DEFINE o == ExpireLease(r, t)
           touched == IF step.touch = NoTouch THEN o.r.held
                      ELSE [o.r.held EXCEPT !.touch = step.touch]
           through == IF step.reached THEN step.through ELSE o.r.inj
           moved == [o.r EXCEPT !.totals = o.r.totals + step.delta, !.held = touched, !.inj = through]
           e == [o.e EXCEPT !.to = touched, !.delta = step.delta, !.safe = FALSE]
<1>1. o \in Outcome /\ o.r \in ReceiverState /\ o.e \in Effects
  BY ExpireType, OutcomeFields
<1>2. touched \in HeldState /\ through \in Nat
  <2>1. o.r.held \in HeldState /\ o.r.inj \in Nat
    BY <1>1 DEF ReceiverState
  <2> HIDE DEF o
  <2> QED BY <2>1, TouchHeld DEF Step
<1>3. e \in Effects
  <2> HIDE DEF o, touched
  <2> QED BY <1>1, <1>2 DEF Effects, Step
<1>4. Fits(o.r.totals + step.delta) => moved \in ReceiverState
  <2> HIDE DEF o, touched, through
  <2> QED BY <1>1, <1>2 DEF ReceiverState, Fits
<1>5. \/ ReceivePlayoutStep(r, act, step, t) \in
           {Reject(o, "ClosedActivation"), Reject(o, "NoOpenActivation"),
            Reject(o, "StaleActivation"), Reject(o, "DuplicateOrReorderedMotion"),
            CloseActivation(o, "ProtocolViolation"), CloseActivation(o, "MotionOverflow")}
      \/ /\ Fits(o.r.totals + step.delta)
         /\ ReceivePlayoutStep(r, act, step, t) = [r |-> moved, e |-> e]
  BY DEF ReceivePlayoutStep
<1> HIDE DEF o, moved, e
<1> QED BY <1>1, <1>3, <1>4, <1>5, RejectType, CloseType
        DEF Outcome, Rejections, Fatal, CloseReasons

LEMMA LostType ==
  ASSUME NEW r \in ReceiverState
  PROVE  ConnectionLost(r) \in Outcome
BY StartType, CloseType DEF ConnectionLost, CloseReasons

LEMMA PlayoutFields ==
  ASSUME NEW p \in PlayoutState
  PROVE  /\ p.act \in Nat /\ p.mark \in Nat /\ p.queue \subseteq MotionFrame /\ p.seq \in Nat
         /\ p.target \in Total /\ p.inj \in Total /\ p.target \in Int /\ p.inj \in Int
BY MembersAssumption DEF PlayoutState, Total

LEMMA PlayoutTypes ==
  ASSUME NEW p \in PlayoutState
  PROVE  /\ NoPlayout \in PlayoutState
         /\ \A act \in Nat : NewPlayout(act) \in PlayoutState
         /\ \A n \in Nat : AdvanceWatermark(p, n) \in PlayoutState
         /\ \A f \in MotionFrame : IngestFrame(p, f) \in PlayoutState
         /\ \A a \in Anchor : Rebase(p, a) \in PlayoutState
         /\ \A f \in Eligible(p) :
              f \in MotionFrame /\ Select(p, f) \in PlayoutState /\ OwnSampleStart(p, f) \in Total
<1>1. 0 \in Total
  BY MembersAssumption DEF Total
<1>2. NoPlayout \in PlayoutState
  BY <1>1 DEF NoPlayout, PlayoutState
<1>3. ASSUME NEW act \in Nat PROVE NewPlayout(act) \in PlayoutState
  BY <1>2 DEF NewPlayout, PlayoutState
<1>4. ASSUME NEW n \in Nat PROVE AdvanceWatermark(p, n) \in PlayoutState
  BY DEF AdvanceWatermark, PlayoutState
<1>5. ASSUME NEW f \in MotionFrame PROVE IngestFrame(p, f) \in PlayoutState
  BY DEF IngestFrame, PlayoutState
<1>6. ASSUME NEW a \in Anchor PROVE Rebase(p, a) \in PlayoutState
  <2>1. {f \in p.queue : f.seq > a.through} \subseteq MotionFrame
    BY PlayoutFields
  <2>2. a.through \in Nat /\ a.totals \in Total
    BY DEF Anchor
  <2> QED BY <2>1, <2>2 DEF Rebase, PlayoutState
<1>7. ASSUME NEW f \in Eligible(p)
      PROVE  f \in MotionFrame /\ Select(p, f) \in PlayoutState /\ OwnSampleStart(p, f) \in Total
  <2>1. f \in p.queue /\ f \in MotionFrame /\ f.seq \in Nat /\ f.totals \in Total
    BY PlayoutFields DEF Eligible, MotionFrame
  <2>2. {g \in p.queue : g.seq > f.seq} \subseteq MotionFrame
    BY PlayoutFields
  <2>3. Select(p, f) \in PlayoutState
    BY <2>1, <2>2 DEF Select, PlayoutState
  <2>4. \A g \in p.queue : g.totals \in Total
    BY PlayoutFields DEF MotionFrame
  <2>5. OwnSampleStart(p, f) \in Total
    BY <2>1, <2>4, PlayoutFields DEF OwnSampleStart
  <2> QED BY <2>1, <2>3, <2>5
<1> QED BY <1>2, <1>3, <1>4, <1>5, <1>6, <1>7

LEMMA LimitedType ==
  ASSUME NEW backlog \in Int, NEW b \in Limited(backlog)
  PROVE  /\ b \in Int
         /\ backlog >= 0 => 0 <= b /\ b <= backlog
         /\ backlog <= 0 => backlog <= b /\ b <= 0
BY DEF Limited

LEMMA StepsType ==
  ASSUME NEW p \in PlayoutState, NEW start \in Total, NEW touch \in TouchStates,
         NEW out \in Steps(p, start, touch)
  PROVE  /\ out.step \in Step
         /\ \E b \in Limited(start - p.inj) :
              LET inj == p.inj + b + (p.target - start)
              IN  /\ out.p = [p EXCEPT !.inj = inj]
                  /\ out.step.through = p.seq /\ out.step.touch = touch
                  /\ out.step.delta = b + (p.target - start)
                  /\ out.step.reached = (inj = p.target)
         /\ Fits(out.p.inj) => out.p \in PlayoutState
<1>1. PICK b \in Limited(start - p.inj) :
        out = [p |-> [p EXCEPT !.inj = p.inj + b + (p.target - start)],
               step |-> [through |-> p.seq, delta |-> b + (p.target - start), touch |-> touch,
                         reached |-> p.inj + b + (p.target - start) = p.target]]
  BY DEF Steps
<1>2. start \in Int /\ p.target \in Int /\ p.inj \in Int
  BY PlayoutFields, MembersAssumption DEF Total
<1>3. b \in Int
  BY <1>2, LimitedType
<1>4. out.step \in Step
  BY <1>1, <1>2, <1>3, PlayoutFields DEF Step
<1>5. Fits(out.p.inj) => out.p \in PlayoutState
  BY <1>1 DEF PlayoutState, Fits
<1> QED BY <1>1, <1>4, <1>5

-----------------------------------------------------------------------------
(* The types *)

(* A control in flight keeps to the protocol's shape, and an open activation   *)
(* has sent its Enter.                                                        *)
TypeInv ==
  /\ TypeOK
  /\ control \in Seq(Sendable) /\ pending \in Seq(Sendable)
  /\ sender.act # 0 => sender.ctl > 0

LEMMA SendableSeq ==
  ASSUME NEW q \in Seq(Sendable)
  PROVE  q \in Seq(ControlMessage)
<1>1. Sendable \subseteq ControlMessage
  BY DEF Sendable
<1> QED BY <1>1, SeqMonotonic

LEMMA TypeInit == Init => TypeInv
<1> SUFFICES ASSUME Init PROVE TypeInv
  OBVIOUS
<1>1. NoSender \in SenderState /\ 0 \in Total /\ NoTouch \in TouchStates
  BY NeutralHeld, MembersAssumption, SenderAssumption
     DEF NoSender, SenderState, Total, TouchStates
<1>2. merger \in [Devices -> SUBSET Members]
  BY DEF Init
<1>3. NewReceiver \in ReceiverState /\ NoEffects \in Effects
  BY NewReceiverType
<1>4. NoPlayout \in PlayoutState
  BY <1>1 DEF NoPlayout, PlayoutState
<1>5. backend \in [held: HeldState, pos: Int] /\ mirror \in History
  BY <1>1, NeutralHeld DEF Init, History
<1>6. shown \in [act: Nat, ctl: Nat]
  BY DEF Init
<1>7. /\ <<>> \in Seq(Sendable) /\ <<>> \in Seq(ControlMessage)
      /\ <<>> \in Seq([act: Nat, seq: Nat])
  BY EmptySeq
<1>8. sender.act = 0
  BY DEF Init, NoSender
<1> QED BY <1>1, <1>2, <1>3, <1>4, <1>5, <1>6, <1>7, <1>8
        DEF Init, TypeInv, TypeOK, SrcEnds, SinkEnds

(* Facts every step starts from. *)
LEMMA TypeFacts ==
  ASSUME TypeInv
  PROVE  /\ now \in Nat /\ at \in Nat /\ nextAct \in Nat
         /\ sender \in SenderState /\ sender.act \in Nat /\ sender.ctl \in Nat
         /\ sender.totals \in Total /\ sender.held \in HeldState
         /\ merger \in [Devices -> SUBSET Members]
         /\ control \in Seq(Sendable) /\ pending \in Seq(Sendable)
         /\ acks \in Seq([act: Nat, seq: Nat]) /\ motion \subseteq MotionFrame
         /\ receiver \in ReceiverState /\ receiver.act \in Nat /\ receiver.ctl \in Nat
         /\ playout \in PlayoutState
         /\ batch \in Effects
         /\ backend \in [held: HeldState, pos: Int]
         /\ mirror \in History /\ shown \in [act: Nat, ctl: Nat]
         /\ sender.act # 0 => sender.act > 0 /\ sender.ctl > 0
BY DEF TypeInv, TypeOK, SenderState, ReceiverState

LEMMA ReachedType ==
  ASSUME NEW r \in ReceiverState, shown \in [act: Nat, ctl: Nat]
  PROVE  Reached(r) \in [act: Nat, ctl: Nat]
BY DEF Reached, ReceiverState

LEMMA SendAckType ==
  ASSUME NEW e \in Effects, NEW act \in Nat, acks \in Seq([act: Nat, seq: Nat])
  PROVE  SendAck(e, act) \in Seq([act: Nat, seq: Nat])
<1>1. [act |-> act, seq |-> e.ack] \in [act: Nat, seq: Nat]
  BY DEF Effects
<1> HIDE DEF Effects
<1> QED BY <1>1, AppendProperties DEF SendAck

LEMMA EmitType ==
  ASSUME TypeInv, NEW e \in Effects, NEW next \in {"poll", "drain", "down"},
         receiver' \in ReceiverState, Emit(e, next)
  PROVE  /\ pc' \in {"poll", "drain", "emit", "down"}
         /\ resume' \in {"select", "poll", "drain", "down"}
         /\ batch' \in Effects /\ at' \in Nat
         /\ acks' \in Seq([act: Nat, seq: Nat])
         /\ shown' \in [act: Nat, ctl: Nat]
<1>1. /\ batch \in Effects /\ at \in Nat /\ acks \in Seq([act: Nat, seq: Nat])
      /\ shown \in [act: Nat, ctl: Nat] /\ resume \in {"select", "poll", "drain", "down"}
  BY DEF TypeInv, TypeOK
<1>2. receiver'.act \in Nat
  BY DEF ReceiverState
<1>3. SendAck(e, receiver'.act) \in Seq([act: Nat, seq: Nat])
  BY <1>1, <1>2, SendAckType
<1>4. Reached(receiver') \in [act: Nat, ctl: Nat]
  BY <1>1, ReachedType
<1>5. CASE NeedsBackend(e)
  BY <1>1, <1>5 DEF Emit
<1>6. CASE ~NeedsBackend(e)
  BY <1>1, <1>3, <1>4, <1>6 DEF Emit
<1> QED BY <1>5, <1>6

LEMMA RecordsType ==
  ASSUME TypeInv, NEW e \in Effects, Records(e)
  PROVE  closedBy' \in CloseReasons \cup {"none"}
BY DEF TypeInv, TypeOK, Records, Effects

LEMMA DiscardType ==
  ASSUME NEW q \in Seq(Sendable), NEW a, NEW b
  PROVE  Discard(q, a, b) \in Seq(Sendable)
BY RetainKeeps DEF Discard

(* The end of a loop, the source's or the sink's. *)
LEMMA SourceEndsType ==
  ASSUME NEW why \in SrcEnds, SourceEnds(why)
  PROVE  /\ srcEnd' \in SrcEnds /\ connected' \in BOOLEAN
         /\ sender' \in SenderState /\ sender'.act = 0
         /\ merger' \in [Devices -> SUBSET Members]
<1>1. NoSender \in SenderState /\ NoSender.act = 0
  BY NeutralHeld, MembersAssumption, SenderAssumption DEF NoSender, SenderState, Total
<1>2. [d \in Devices |-> {}] \in [Devices -> SUBSET Members]
  OBVIOUS
<1> QED BY <1>1, <1>2 DEF SourceEnds

LEMMA BailType ==
  ASSUME TypeInv, NEW why \in SinkEnds, Bail(why)
  PROVE  /\ pc' = "cleanup" /\ at' \in Nat /\ sinkEnd' \in SinkEnds
         /\ batch' \in Effects /\ resume' = "select"
BY NewReceiverType DEF Bail, TypeInv, TypeOK

-----------------------------------------------------------------------------
(* The source's steps keep the types *)

LEMMA TypeBeginOutbound ==
  ASSUME TypeInv, BeginOutbound
  PROVE  TypeInv'
<1> DEFINE s == NewSender(nextAct + 1, now)
<1> USE TypeFacts
<1>1. s \in SenderState /\ s.act > 0 /\ s.ctl = 0 /\ s.held = Neutral
  <2>1. nextAct + 1 \in Nat /\ nextAct + 1 > 0
    OBVIOUS
  <2>2. s.act = nextAct + 1 /\ s.ctl = 0 /\ s.held = Neutral
    BY DEF NewSender, NoSender
  <2>3. s \in SenderState
    BY <2>1, SenderTypes
  <2> QED BY <2>1, <2>2, <2>3
<1>2. EnterMessage(s) \in Sendable
  BY <1>1, SendableMessages
<1>3. sender' = Sent(s) /\ control' = Append(control, EnterMessage(s)) /\ nextAct' = nextAct + 1
  BY DEF BeginOutbound
<1>4. sender' \in SenderState /\ sender'.ctl > 0
  <2>1. Sent(s).ctl = s.ctl + 1
    BY <1>1 DEF Sent, SenderState
  <2> HIDE DEF s
  <2> QED BY <1>1, <1>3, <2>1, SentType
<1>5. control' \in Seq(Sendable)
  BY <1>2, <1>3, AppendProperties
<1>6. merger' \in [Devices -> SUBSET Members] /\ nextAct' \in Nat
  BY <1>3 DEF BeginOutbound
<1> QED BY <1>4, <1>5, <1>6, SendableSeq DEF BeginOutbound, TypeInv, TypeOK, sink, history

LEMMA MergeType ==
  ASSUME TypeInv, NEW device \in Devices, NEW member \in Members \cup {NoMember},
         NEW pressed \in BOOLEAN
  PROVE  Merge(merger, device, member, pressed) \in [Devices -> SUBSET Members]
<1>1. merger \in [Devices -> SUBSET Members] /\ merger[device] \subseteq Members
  BY TypeFacts
<1>2. CASE member = NoMember
  BY <1>1, <1>2 DEF Merge
<1>3. CASE member # NoMember
  <2>1. (IF pressed THEN merger[device] \cup {member} ELSE merger[device] \ {member})
          \subseteq Members
    BY <1>1, <1>3
  <2> QED BY <1>1, <1>3, <2>1 DEF Merge
<1> QED BY <1>2, <1>3

(* What a captured frame does, once its inputs are chosen. *)
CaptureOf(device, delta, touch, member, pressed) ==
  LET merged == Merge(merger, device, member, pressed)
      changed == HeldByAny(merger, member) # HeldByAny(merged, member)
      start == [s |-> sender, ctl |-> control, mot |-> motion]
      moved == SendTouchAndMotion(start, delta, touch)
      done == IF changed THEN SendTransition(moved, member, pressed) ELSE moved
      overflow == ~Fits(sender.totals + delta)
      invalid == changed /\ ~TransitionAllowed(moved.s, member, pressed)
      begins == sender.held.touch = NoTouch /\ touch \in Touches
  IN  /\ SourceRuns /\ sender.act # 0
      /\ \/ /\ overflow
            /\ control' = IF begins THEN Append(control, TouchBeginMessage(sender, touch))
                          ELSE control
            /\ SourceEnds("overflow")
            /\ UNCHANGED motion
         \/ /\ ~overflow /\ invalid
            /\ control' = moved.ctl /\ motion' = moved.mot
            /\ SourceEnds("invalid")
         \/ /\ ~overflow /\ ~invalid
            /\ sender' = done.s /\ control' = done.ctl /\ motion' = done.mot
            /\ merger' = merged
            /\ UNCHANGED <<srcEnd, connected>>
      /\ UNCHANGED <<now, nextAct, acks, sink, backend, history>>

LEMMA CaptureInputs ==
  ASSUME Capture
  PROVE  \E device \in Devices, delta \in Deltas, touch \in TouchStates \cup {"none"},
            member \in Members \cup {NoMember}, pressed \in BOOLEAN :
              CaptureOf(device, delta, touch, member, pressed)
BY DEF Capture, CaptureOf

(* What an open source starts a frame from. *)
LEMMA StartOutbox ==
  ASSUME TypeInv, sender.act # 0
  PROVE  [s |-> sender, ctl |-> control, mot |-> motion] \in Outbox
BY TypeFacts DEF Outbox

LEMMA TypeCapture ==
  ASSUME TypeInv, Capture
  PROVE  TypeInv'
<1> USE TypeFacts
<1>1. PICK device \in Devices, delta \in Deltas, touch \in TouchStates \cup {"none"},
           member \in Members \cup {NoMember}, pressed \in BOOLEAN :
             CaptureOf(device, delta, touch, member, pressed)
  BY CaptureInputs
<1> DEFINE merged == Merge(merger, device, member, pressed)
           changed == HeldByAny(merger, member) # HeldByAny(merged, member)
           start == [s |-> sender, ctl |-> control, mot |-> motion]
           moved == SendTouchAndMotion(start, delta, touch)
           done == IF changed THEN SendTransition(moved, member, pressed) ELSE moved
           overflow == ~Fits(sender.totals + delta)
           invalid == changed /\ ~TransitionAllowed(moved.s, member, pressed)
           begins == sender.held.touch = NoTouch /\ touch \in Touches
<1>2. sender.act # 0 /\ UNCHANGED <<now, nextAct, acks, sink, backend, history>>
  BY <1>1 DEF CaptureOf
<1>3. start \in Outbox /\ start.s = sender /\ start.ctl = control /\ start.mot = motion
  BY <1>2, StartOutbox
<1>4. ~overflow => moved \in Outbox
  <2>1. ~overflow => \E y : Sends(start, y) /\ Sends(y, moved)
    BY <1>3, FrameSends
  <2> HIDE DEF start, moved
  <2> QED BY <1>3, <2>1, SendsOutbox
<1>5. merged \in [Devices -> SUBSET Members]
  BY MergeType
<1>6. changed => member \in Members
  BY DEF Merge
<1>7. ~overflow /\ ~invalid => done \in Outbox
  <2>1. changed /\ ~invalid => Turns(moved, SendTransition(moved, member, pressed))
    BY <1>6 DEF Turns
  <2> HIDE DEF moved, changed, invalid
  <2> QED BY <1>4, <2>1, SendsOutbox
<1>8. CASE overflow
  <2>1. /\ control' = IF begins THEN Append(control, TouchBeginMessage(sender, touch)) ELSE control
        /\ SourceEnds("overflow") /\ UNCHANGED motion
    BY <1>1, <1>8 DEF CaptureOf
  <2>2. begins => TouchBeginMessage(sender, touch) \in Sendable
    BY <1>2, SendableMessages
  <2>3. control' \in Seq(Sendable)
    BY <2>1, <2>2, AppendProperties
  <2> QED BY <1>2, <2>1, <2>3, SourceEndsType, SendableSeq
          DEF TypeInv, TypeOK, SrcEnds, sink, history
<1>9. CASE ~overflow /\ invalid
  <2>1. control' = moved.ctl /\ motion' = moved.mot /\ SourceEnds("invalid")
    BY <1>1, <1>9 DEF CaptureOf
  <2>2. control' \in Seq(Sendable) /\ motion' \subseteq MotionFrame
    BY <1>4, <1>9, <2>1, OutboxFields
  <2> QED BY <1>2, <2>1, <2>2, SourceEndsType, SendableSeq
          DEF TypeInv, TypeOK, SrcEnds, sink, history
<1>10. CASE ~overflow /\ ~invalid
  <2>1. /\ sender' = done.s /\ control' = done.ctl /\ motion' = done.mot
        /\ merger' = merged /\ UNCHANGED <<srcEnd, connected>>
    BY <1>1, <1>10 DEF CaptureOf
  <2> HIDE DEF done, merged
  <2>2. /\ control' \in Seq(Sendable) /\ motion' \subseteq MotionFrame
        /\ sender' \in SenderState /\ sender'.ctl > 0
    BY <1>7, <1>10, <2>1, OutboxFields
  <2> QED BY <1>2, <1>5, <2>1, <2>2, SendableSeq DEF TypeInv, TypeOK, sink, history
<1> QED BY <1>8, <1>9, <1>10

LEMMA TypeEndOutbound ==
  ASSUME TypeInv, EndOutbound
  PROVE  TypeInv'
<1> USE TypeFacts
<1>1. LeaveMessage(sender, "LocalRelease") \in Sendable
  BY SendableMessages DEF EndOutbound
<1>2. control' \in Seq(Sendable)
  BY <1>1, AppendProperties DEF EndOutbound
<1>3. sender' \in SenderState /\ sender'.act = 0
  BY SenderTypes DEF EndOutbound, NoSender
<1>4. merger' \in [Devices -> SUBSET Members]
  BY DEF EndOutbound
<1> QED BY <1>2, <1>3, <1>4, SendableSeq DEF EndOutbound, TypeInv, TypeOK, sink, history

LEMMA TypeSourceTick ==
  ASSUME TypeInv, SourceTick
  PROVE  TypeInv'
<1> USE TypeFacts
<1>1. sender.act # 0 /\ UNCHANGED <<now, nextAct, acks, motion, sink, backend, history>>
  BY DEF SourceTick
<1>2. CASE AckTimedOut(sender, now)
  <2>1. /\ control' = Append(control, TimeoutCloseMessage(sender)) /\ sender' = NoSender
        /\ UNCHANGED <<merger, srcEnd, connected>>
    BY <1>2 DEF SourceTick
  <2>2. control' \in Seq(Sendable)
    BY <1>1, <2>1, SendableMessages, AppendProperties
  <2>3. sender' \in SenderState /\ sender'.act = 0
    BY <2>1, SenderTypes DEF NoSender
  <2> QED BY <1>1, <2>1, <2>2, <2>3, SendableSeq DEF TypeInv, TypeOK, sink, history
<1>3. CASE ~AckTimedOut(sender, now) /\ SnapshotAllowed(sender)
  <2>1. /\ control' = Append(control, SnapshotMessage(sender))
        /\ sender' = Sent(Snapshot(sender, now))
        /\ UNCHANGED <<merger, srcEnd, connected>>
    BY <1>3 DEF SourceTick
  <2>2. control' \in Seq(Sendable)
    BY <1>1, <2>1, SendableMessages, AppendProperties
  <2>3. Snapshot(sender, now) \in SenderState /\ Snapshot(sender, now).ctl = sender.ctl
    BY SenderTypes DEF Snapshot, SenderState
  <2>4. Sent(Snapshot(sender, now)).ctl = sender.ctl + 1
    BY <2>3 DEF Sent, SenderState
  <2>5. sender' \in SenderState /\ sender'.ctl > 0
    BY <2>1, <2>3, <2>4, SentType
  <2> QED BY <1>1, <2>1, <2>2, <2>5, SendableSeq DEF TypeInv, TypeOK, sink, history
<1>4. CASE ~AckTimedOut(sender, now) /\ ~SnapshotAllowed(sender)
  <2>1. SourceEnds("limit") /\ UNCHANGED control
    BY <1>4 DEF SourceTick
  <2> QED BY <1>1, <2>1, SourceEndsType DEF TypeInv, TypeOK, SrcEnds, sink, history
<1> QED BY <1>2, <1>3, <1>4

LEMMA TypeReceiveAck ==
  ASSUME TypeInv, ReceiveAck
  PROVE  TypeInv'
<1> USE TypeFacts
<1>1. /\ acks # <<>> /\ acks' = Tail(acks)
      /\ UNCHANGED <<now, nextAct, control, motion, sink, backend, history>>
  BY DEF ReceiveAck
<1>2. acks' \in Seq([act: Nat, seq: Nat]) /\ Head(acks).seq \in Nat
  <2> DEFINE Ack == [act: Nat, seq: Nat]
  <2>1. acks \in Seq(Ack)
    OBVIOUS
  <2> HIDE DEF Ack
  <2>2. Tail(acks) \in Seq(Ack) /\ Head(acks) \in Ack
    BY <1>1, <2>1, HeadTailProperties
  <2> QED BY <1>1, <2>2 DEF Ack
<1>3. CASE UNCHANGED <<sender, merger, srcEnd, connected>>
  BY <1>1, <1>2, <1>3 DEF TypeInv, TypeOK, sink, history
<1>4. CASE SourceEnds("invalid")
  BY <1>1, <1>2, <1>4, SourceEndsType DEF TypeInv, TypeOK, SrcEnds, sink, history
<1>5. CASE /\ sender' = Acknowledge(sender, Head(acks).seq)
           /\ UNCHANGED <<merger, srcEnd, connected>>
  <2>1. sender' \in SenderState
    BY <1>2, <1>5, SenderTypes
  <2>2. sender'.act = sender.act /\ sender'.ctl = sender.ctl
    BY <1>5 DEF Acknowledge, SenderState
  <2> QED BY <1>1, <1>2, <1>5, <2>1, <2>2 DEF TypeInv, TypeOK, sink, history
<1> QED BY <1>3, <1>4, <1>5 DEF ReceiveAck

LEMMA TypeEnvironment ==
  ASSUME TypeInv, SourceClose \/ SourceLost \/ NetworkLoss \/ Advance
  PROVE  TypeInv'
<1>1. CASE SourceClose
  BY <1>1, SourceEndsType DEF SourceClose, TypeInv, TypeOK, SrcEnds, sink, history
<1>2. CASE SourceLost
  BY <1>2, SourceEndsType DEF SourceLost, TypeInv, TypeOK, SrcEnds, sink, history
<1>3. CASE NetworkLoss
  BY <1>3 DEF NetworkLoss, TypeInv, TypeOK, source, sink, history
<1>4. CASE Advance
  BY <1>4 DEF Advance, TypeInv, TypeOK, source, network, sink, history
<1> QED BY <1>1, <1>2, <1>3, <1>4

-----------------------------------------------------------------------------
(* The sink's steps keep the types *)

LEMMA TypeRecvControl ==
  ASSUME TypeInv, RecvControl
  PROVE  TypeInv'
<1> USE TypeFacts
<1>1. /\ control # <<>> /\ control' = Tail(control)
      /\ UNCHANGED <<now, source, acks, motion, connected, receiver, playout, backend, history>>
  BY DEF RecvControl
<1>2. control' \in Seq(Sendable) /\ Head(control) \in Sendable
  BY <1>1, HeadTailProperties
<1>3. CASE Bail("limit") /\ UNCHANGED pending
  BY <1>1, <1>2, <1>3, BailType, SendableSeq
     DEF TypeInv, TypeOK, SinkEnds, source, history
<1>4. CASE /\ pending' = Append(pending, Head(control)) /\ pc' = "drain" /\ at' = now
           /\ UNCHANGED <<sinkEnd, batch, resume>>
  <2>1. pending' \in Seq(Sendable)
    BY <1>2, <1>4, AppendProperties
  <2> QED BY <1>1, <1>2, <1>4, <2>1, SendableSeq DEF TypeInv, TypeOK, source, history
<1> QED BY <1>3, <1>4 DEF RecvControl

LEMMA TypeRecvMotion ==
  ASSUME TypeInv, RecvMotion
  PROVE  TypeInv'
<1> USE TypeFacts
<1>1. UNCHANGED <<now, source, network, receiver, pending, backend, history>>
  BY DEF RecvMotion
<1>2. CASE Bail("limit") /\ UNCHANGED playout
  BY <1>1, <1>2, BailType DEF TypeInv, TypeOK, SinkEnds, source, network, history
<1>3. CASE /\ \E f \in motion : playout' = IngestFrame(playout, f)
           /\ UNCHANGED <<pc, at, sinkEnd, batch, resume>>
  <2>1. playout' \in PlayoutState
    BY <1>3, PlayoutTypes
  <2> QED BY <1>1, <1>3, <2>1 DEF TypeInv, TypeOK, source, network, history
<1> QED BY <1>2, <1>3 DEF RecvMotion

LEMMA TypeInboundTick ==
  ASSUME TypeInv, InboundTick
  PROVE  TypeInv'
<1> USE TypeFacts
<1> DEFINE o == ExpireLease(receiver, now)
<1>1. o.r \in ReceiverState /\ o.e \in Effects
  BY ExpireType, OutcomeFields
<1>2. /\ receiver' = o.r /\ pending' = Discard(pending, receiver.act, o.r.act)
      /\ Records(o.e) /\ at' = now
      /\ \/ pc' = "emit" /\ resume' = "poll" /\ batch' = o.e
         \/ pc' = "poll" /\ UNCHANGED <<resume, batch>>
      /\ UNCHANGED <<now, source, network, playout, sinkEnd, backend, mirror, shown>>
  BY DEF InboundTick
<1> HIDE DEF o
<1>3. pending' \in Seq(Sendable)
  BY <1>2, DiscardType
<1>4. closedBy' \in CloseReasons \cup {"none"}
  BY <1>1, <1>2, RecordsType
<1> QED BY <1>1, <1>2, <1>3, <1>4, SendableSeq DEF TypeInv, TypeOK, source, network

LEMMA TypePlay ==
  ASSUME TypeInv, NEW p \in PlayoutState, NEW start \in Total, NEW touch \in TouchStates,
         PlayStep(p, start, touch)
  PROVE  /\ playout' \in PlayoutState /\ receiver' \in ReceiverState
         /\ pc' \in {"poll", "drain", "emit", "down", "cleanup"}
         /\ resume' \in {"select", "poll", "drain", "down"}
         /\ batch' \in Effects /\ at' \in Nat /\ sinkEnd' \in SinkEnds
         /\ acks' \in Seq([act: Nat, seq: Nat]) /\ shown' \in [act: Nat, ctl: Nat]
         /\ closedBy' \in CloseReasons \cup {"none"}
<1>1. /\ pc \in {"select", "poll", "drain", "emit", "cleanup", "down"}
      /\ resume \in {"select", "poll", "drain", "down"} /\ sinkEnd \in SinkEnds
      /\ closedBy \in CloseReasons \cup {"none"} /\ receiver \in ReceiverState /\ batch \in Effects
      /\ acks \in Seq([act: Nat, seq: Nat]) /\ shown \in [act: Nat, ctl: Nat]
      /\ at \in Nat /\ p.act \in Nat
  BY PlayoutFields DEF TypeInv, TypeOK
<1>2. CASE PlayFails(p)
  BY <1>1, <1>2, BailType DEF PlayFails, SinkEnds
<1>3. CASE /\ playout' = p /\ pc' = "drain"
           /\ UNCHANGED <<at, receiver, resume, batch, sinkEnd, acks, shown, closedBy>>
  BY <1>1, <1>3
<1>4. ASSUME NEW out \in Steps(p, start, touch), Fits(out.p.inj),
             playout' = out.p,
             receiver' = ReceivePlayoutStep(receiver, p.act, out.step, at).r,
             Records(ReceivePlayoutStep(receiver, p.act, out.step, at).e),
             Emit(ReceivePlayoutStep(receiver, p.act, out.step, at).e, "drain"),
             UNCHANGED sinkEnd
      PROVE  /\ playout' \in PlayoutState /\ receiver' \in ReceiverState
             /\ pc' \in {"poll", "drain", "emit", "down", "cleanup"}
             /\ resume' \in {"select", "poll", "drain", "down"}
             /\ batch' \in Effects /\ at' \in Nat /\ sinkEnd' \in SinkEnds
             /\ acks' \in Seq([act: Nat, seq: Nat]) /\ shown' \in [act: Nat, ctl: Nat]
             /\ closedBy' \in CloseReasons \cup {"none"}
  <2> DEFINE o == ReceivePlayoutStep(receiver, p.act, out.step, at)
  <2>1. out.step \in Step /\ out.p \in PlayoutState
    BY <1>4, StepsType
  <2>2. o.r \in ReceiverState /\ o.e \in Effects
    BY <1>1, <2>1, PlayoutStepType, OutcomeFields
  <2>3. receiver' = o.r /\ Records(o.e) /\ Emit(o.e, "drain")
    BY <1>4
  <2> HIDE DEF o
  <2>4. /\ pc' \in {"poll", "drain", "emit", "down"}
        /\ resume' \in {"select", "poll", "drain", "down"}
        /\ batch' \in Effects /\ at' \in Nat
        /\ acks' \in Seq([act: Nat, seq: Nat]) /\ shown' \in [act: Nat, ctl: Nat]
    BY <2>2, <2>3, EmitType
  <2>5. closedBy' \in CloseReasons \cup {"none"}
    BY <2>2, <2>3, RecordsType
  <2> QED BY <1>1, <1>4, <2>1, <2>2, <2>3, <2>4, <2>5
<1>5. \/ PlayFails(p)
      \/ /\ playout' = p /\ pc' = "drain"
         /\ UNCHANGED <<at, receiver, resume, batch, sinkEnd, acks, shown, closedBy>>
      \/ \E out \in Steps(p, start, touch) :
           /\ Fits(out.p.inj)
           /\ playout' = out.p
           /\ receiver' = ReceivePlayoutStep(receiver, p.act, out.step, at).r
           /\ Records(ReceivePlayoutStep(receiver, p.act, out.step, at).e)
           /\ Emit(ReceivePlayoutStep(receiver, p.act, out.step, at).e, "drain")
           /\ UNCHANGED sinkEnd
  BY DEF PlayStep
<1> QED BY <1>2, <1>3, <1>4, <1>5

LEMMA TypePollPlayout ==
  ASSUME TypeInv, PollPlayout
  PROVE  TypeInv'
<1> USE TypeFacts
<1>1. UNCHANGED <<now, source, control, motion, connected, pending, backend, mirror>>
  BY DEF PollPlayout
<1>2. playout.target \in Total /\ NoTouch \in TouchStates
  BY PlayoutFields DEF TouchStates
<1>3. ASSUME NEW f \in Eligible(playout)
      PROVE  /\ Select(playout, f) \in PlayoutState /\ OwnSampleStart(playout, f) \in Total
             /\ f.touch \in TouchStates
  BY PlayoutTypes DEF MotionFrame
<1>4. \E p \in PlayoutState, start \in Total, touch \in TouchStates : PlayStep(p, start, touch)
  BY <1>2, <1>3 DEF PollPlayout
<1> QED BY <1>1, <1>4, TypePlay DEF TypeInv, TypeOK, source

LEMMA TypeDrainEnds ==
  ASSUME TypeInv, DrainEnds
  PROVE  TypeInv'
BY DEF DrainEnds, Idle, TypeInv, TypeOK, source, network, history

LEMMA FollowType ==
  ASSUME NEW p \in PlayoutState, NEW m \in Sendable, NEW e \in Effects
  PROVE  FollowControl(p, m, e) \in PlayoutState
<1> DEFINE active == IF e.opened # 0 THEN NewPlayout(e.opened) ELSE p
           marked == AdvanceWatermark(active, m.seq)
<1>1. e.opened \in Nat /\ m \in ControlMessage /\ m.seq \in Nat
  BY DEF Effects, Sendable, ControlMessage
<1>2. active \in PlayoutState
  BY <1>1, PlayoutTypes
<1>3. marked \in PlayoutState
  <2> HIDE DEF active
  <2> QED BY <1>1, <1>2, PlayoutTypes
<1>4. HasAnchor(m) => Rebase(marked, m.anchor) \in PlayoutState
  <2> HIDE DEF marked
  <2> QED BY <1>1, <1>3, AnchorFields, PlayoutTypes
<1> QED BY <1>2, <1>3, <1>4 DEF FollowControl

LEMMA TypeApplyControl ==
  ASSUME TypeInv, ApplyControl
  PROVE  TypeInv'
<1> USE TypeFacts
<1> DEFINE m == Head(pending)
           o == ReceiveControl(receiver, m, at)
           accepted == o.e.rejected = "none"
<1>1. /\ pending # <<>>
      /\ UNCHANGED <<now, source, control, motion, connected, backend>>
  BY DEF ApplyControl
<1>2. m \in Sendable /\ Tail(pending) \in Seq(Sendable)
  BY <1>1, HeadTailProperties
<1>3. o.r \in ReceiverState /\ o.e \in Effects
  <2> HIDE DEF m
  <2> QED BY <1>2, ControlType, OutcomeFields
<1>4. /\ receiver' = o.r
      /\ pending' = Discard(Tail(pending), receiver.act, o.r.act)
      /\ Records(o.e)
      /\ mirror' = IF accepted THEN m.after ELSE mirror
      /\ playout' \in {playout, FollowControl(playout, m, o.e)}
      /\ \/ Bail("invalid") /\ UNCHANGED <<acks, shown>>
         \/ Emit(o.e, "drain") /\ UNCHANGED sinkEnd
  BY DEF ApplyControl
<1> HIDE DEF o, m
<1>5. pending' \in Seq(Sendable)
  BY <1>2, <1>4, DiscardType
<1>6. mirror' \in History
  BY <1>2, <1>4 DEF Sendable, ControlMessage
<1>7. playout' \in PlayoutState
  BY <1>2, <1>3, <1>4, FollowType
<1>8. closedBy' \in CloseReasons \cup {"none"}
  BY <1>3, <1>4, RecordsType
<1>9. /\ receiver' \in ReceiverState /\ UNCHANGED <<now, source, control, motion, connected, backend>>
  BY <1>1, <1>3, <1>4
<1>10. CASE Bail("invalid") /\ UNCHANGED <<acks, shown>>
  BY <1>5, <1>6, <1>7, <1>8, <1>9, <1>10, BailType, SendableSeq
     DEF TypeInv, TypeOK, SinkEnds, source
<1>11. CASE Emit(o.e, "drain") /\ UNCHANGED sinkEnd
  <2>1. /\ pc' \in {"poll", "drain", "emit", "down"}
        /\ resume' \in {"select", "poll", "drain", "down"}
        /\ batch' \in Effects /\ at' \in Nat
        /\ acks' \in Seq([act: Nat, seq: Nat]) /\ shown' \in [act: Nat, ctl: Nat]
    BY <1>3, <1>9, <1>11, EmitType
  <2> QED BY <1>5, <1>6, <1>7, <1>8, <1>9, <1>11, <2>1, SendableSeq
          DEF TypeInv, TypeOK, source
<1> QED BY <1>4, <1>10, <1>11

LEMMA AppliedType ==
  ASSUME NEW b \in [held: HeldState, pos: Int], NEW e \in Effects
  PROVE  Applied(b, e) \in [held: HeldState, pos: Int]
<1>1. Visible(e.to) \in HeldState
  BY VisibleHeld DEF Effects
<1>2. (IF e.opened # 0 THEN 0 ELSE b.pos + e.delta) \in Int
  BY DEF Effects
<1> QED BY <1>1, <1>2, NeutralHeld DEF Applied

LEMMA TypeBackendApplies ==
  ASSUME TypeInv, BackendApplies
  PROVE  TypeInv'
<1> USE TypeFacts
<1>1. /\ backend' = Applied(backend, batch) /\ shown' = Reached(receiver)
      /\ batch' = NoEffects /\ resume' = "select"
      /\ UNCHANGED <<now, source, control, motion, connected, receiver, pending, playout,
                     mirror, closedBy>>
  BY DEF BackendApplies
<1>2. /\ backend' \in [held: HeldState, pos: Int] /\ shown' \in [act: Nat, ctl: Nat]
      /\ batch' \in Effects
  BY <1>1, AppliedType, ReachedType, NewReceiverType
<1>3. CASE pc' = "cleanup" /\ at' = 0 /\ sinkEnd' = "lost" /\ UNCHANGED acks
  BY <1>1, <1>2, <1>3 DEF TypeInv, TypeOK, SinkEnds, source
<1>4. CASE /\ acks' = SendAck(batch, receiver.act) /\ pc' = resume
           /\ at' = (IF resume \in {"select", "down"} THEN 0 ELSE at)
           /\ UNCHANGED sinkEnd
  <2>1. acks' \in Seq([act: Nat, seq: Nat])
    BY <1>4, SendAckType
  <2> QED BY <1>1, <1>2, <1>4, <2>1 DEF TypeInv, TypeOK, source
<1> QED BY <1>3, <1>4 DEF BackendApplies

LEMMA TypeBackendRejects ==
  ASSUME TypeInv, BackendRejects
  PROVE  TypeInv'
<1> USE TypeFacts
<1>1. /\ Bail("rejected")
      /\ UNCHANGED <<now, source, network, receiver, pending, playout, history>>
  BY DEF BackendRejects
<1>2. backend' \in [held: HeldState, pos: Int]
  <2>1. ASSUME NEW keys \in SUBSET (backend.held.keys \cup Visible(batch.to).keys)
        PROVE  [held |-> [backend.held EXCEPT !.keys = keys], pos |-> backend.pos + batch.delta]
                 \in [held: HeldState, pos: Int]
    <3>1. backend.held \in HeldState /\ Visible(batch.to) \in HeldState
      BY VisibleHeld DEF Effects
    <3>2. keys \subseteq Keys
      BY <3>1 DEF HeldState
    <3>3. [backend.held EXCEPT !.keys = keys] \in HeldState
      BY <3>1, <3>2 DEF HeldState
    <3>4. backend.pos + batch.delta \in Int
      BY DEF Effects
    <3> QED BY <3>3, <3>4
  <2>2. CASE UNCHANGED backend
    BY <2>2
  <2> QED BY <2>1, <2>2 DEF BackendRejects
<1> QED BY <1>1, <1>2, BailType DEF TypeInv, TypeOK, SinkEnds, source, network, history

LEMMA TypeSinkEnds ==
  ASSUME TypeInv, SinkClose \/ SinkLost
  PROVE  TypeInv'
<1>1. CASE SinkClose
  BY <1>1, BailType DEF SinkClose, TypeInv, TypeOK, SinkEnds, source, history
<1>2. CASE SinkLost
  BY <1>2, BailType DEF SinkLost, TypeInv, TypeOK, SinkEnds, source, network, history
<1> QED BY <1>1, <1>2

LEMMA TypeCleanup ==
  ASSUME TypeInv, Cleanup
  PROVE  TypeInv'
<1> USE TypeFacts
<1> DEFINE o == ConnectionLost(receiver)
<1>1. o.r \in ReceiverState /\ o.e \in Effects
  BY LostType, OutcomeFields
<1>2. /\ receiver' = o.r /\ Records(o.e) /\ Emit(o.e, "down") /\ connected' = FALSE
      /\ UNCHANGED <<now, source, control, motion, pending, playout, sinkEnd, backend, mirror>>
  BY DEF Cleanup
<1> HIDE DEF o
<1>3. closedBy' \in CloseReasons \cup {"none"}
  BY <1>1, <1>2, RecordsType
<1>4. /\ pc' \in {"poll", "drain", "emit", "down"}
      /\ resume' \in {"select", "poll", "drain", "down"}
      /\ batch' \in Effects /\ at' \in Nat
      /\ acks' \in Seq([act: Nat, seq: Nat]) /\ shown' \in [act: Nat, ctl: Nat]
  BY <1>1, <1>2, EmitType
<1> QED BY <1>1, <1>2, <1>3, <1>4 DEF TypeInv, TypeOK, source

LEMMA TypeNext == TypeInv /\ [Next]_vars => TypeInv'
<1> SUFFICES ASSUME TypeInv, [Next]_vars PROVE TypeInv'
  OBVIOUS
<1>1. CASE SourceNext
  BY <1>1, TypeBeginOutbound, TypeCapture, TypeEndOutbound, TypeSourceTick, TypeReceiveAck,
     TypeEnvironment DEF SourceNext
<1>2. CASE SinkNext
  BY <1>2, TypeRecvControl, TypeRecvMotion, TypeInboundTick, TypePollPlayout, TypeDrainEnds,
     TypeApplyControl, TypeBackendApplies, TypeBackendRejects, TypeSinkEnds, TypeCleanup
     DEF SinkNext
<1>3. CASE NetworkLoss \/ Advance
  BY <1>3, TypeEnvironment
<1>4. CASE UNCHANGED vars
  BY <1>4 DEF vars, TypeInv, TypeOK, source, network, sink, history
<1> QED BY <1>1, <1>2, <1>3, <1>4 DEF Next, Finished

(* Every variable of a session keeps its type: totals stay within the width   *)
(* that motion is counted in, on both ends, because every sum is checked.     *)
THEOREM SessionTypes == Spec => []TypeOK
<1>1. Spec => []TypeInv
  BY TypeInit, TypeNext, PTL DEF Spec
<1>2. TypeInv => TypeOK
  BY DEF TypeInv
<1> QED BY <1>1, <1>2, PTL

-----------------------------------------------------------------------------
(* Held input is leased *)

(* What a receiver holds at time t runs out at most a lease later. *)
Leased(r, t) == ~IsNeutral(r.held) => r.lease \in 0 .. t + HeldLease

LEMMA ClosedLeased ==
  ASSUME NEW o, NEW why, NEW t, Leased(o.r, t)
  PROVE  Leased(CloseActivation(o, why).r, t)
<1>1. CloseActivation(o, why).r = o.r
        \/ CloseActivation(o, why).r.held = Neutral
  BY DEF CloseActivation, NewReceiver
<1> QED BY <1>1, NeutralHeld DEF Leased

LEMMA ExpiredLeased ==
  ASSUME NEW r, NEW t, NEW n, Leased(r, n)
  PROVE  Leased(ExpireLease(r, t).r, n)
<1>1. Start(r).r = r
  BY DEF Start
<1> QED BY <1>1, ClosedLeased DEF ExpireLease

(* A refreshed lease runs out within the lease's length. *)
LEMMA RefreshedLeased ==
  ASSUME NEW r \in ReceiverState, NEW t \in Nat, NEW n \in Nat, t <= n
  PROVE  Leased(RefreshLease(r, t), n)
<1>1. RefreshLease(r, t).held = r.held
  BY DEF RefreshLease, ReceiverState
<1>2. ~IsNeutral(r.held) => RefreshLease(r, t).lease = t + HeldLease
  BY DEF RefreshLease, ReceiverState
<1>3. t + HeldLease \in 0 .. n + HeldLease
  BY ReceiverAssumption
<1> QED BY <1>1, <1>2, <1>3 DEF Leased

LEMMA ControlLeased ==
  ASSUME NEW r \in ReceiverState, NEW m \in Sendable, NEW t \in Nat, NEW n \in Nat, t <= n,
         Leased(r, n)
  PROVE  Leased(ReceiveControl(r, m, t).r, n)
<1> DEFINE o == ExpireLease(r, t)
           why == Rejection(o.r, m)
           delta == IF HasAnchor(m) THEN m.anchor.totals - o.r.totals ELSE 0
           anchored == IF HasAnchor(m) THEN ApplyAnchor(o.r, m.anchor) ELSE o.r
           applied == ApplyPayload(anchored, m, t)
           e == [o.e EXCEPT !.to = applied.held, !.delta = delta,
                            !.ack = IF m.kind = "StateSnapshot" THEN m.seq ELSE 0,
                            !.safe = /\ delta = 0
                                     /\ anchored.held.touch \in {NoTouch, o.r.held.touch}]
<1>1. Leased(o.r, n) /\ o.r \in ReceiverState
  BY ExpiredLeased, ExpireType, OutcomeFields
<1>2. m \in ControlMessage /\ (m.kind \in {"Press", "Release"} => m.member \in Members)
  BY DEF Sendable
<1>3. anchored \in ReceiverState
  <2> HIDE DEF o
  <2> QED BY <1>1, <1>2, AnchorFields, ApplyAnchorType
<1>4. Leased(applied, n)
  <2> DEFINE h == CASE m.kind = "Press"         -> Press(anchored.held, m.member)
                    [] m.kind = "Release"       -> Release(anchored.held, m.member)
                    [] m.kind = "TouchBegin"    -> [anchored.held EXCEPT !.touch = m.held.touch]
                    [] m.kind = "TouchEnd"      -> [anchored.held EXCEPT !.touch = NoTouch]
                    [] m.kind = "StateSnapshot" -> m.held
                    [] OTHER                    -> anchored.held
             u == [anchored EXCEPT !.held = h, !.ctl = m.seq]
  <2>1. applied = RefreshLease(u, t)
    BY DEF ApplyPayload
  <2>2. u \in ReceiverState
    <3>1. anchored.held \in HeldState /\ m.held \in HeldState /\ m.held.touch \in TouchStates
      <4> HIDE DEF anchored
      <4> QED BY <1>2, <1>3 DEF ReceiverState, ControlMessage, HeldState
    <3> HIDE DEF anchored
    <3>2. h \in HeldState
      BY <1>2, <3>1, PressReleaseHeld, TouchHeld DEF TouchStates, ControlMessage, ControlKinds
    <3> HIDE DEF h
    <3> QED BY <1>2, <1>3, <3>2 DEF ReceiverState, ControlMessage
  <2> HIDE DEF u, applied
  <2> QED BY <2>1, <2>2, RefreshedLeased
<1>5. Leased(ReceiveEnter(o, m).r, n)
  <2>1. ReceiveEnter(o, m).r = o.r \/ ReceiveEnter(o, m).r.held = Neutral
    BY DEF ReceiveEnter, Reject, NewReceiver
  <2> QED BY <1>1, <2>1, NeutralHeld DEF Leased
<1>6. Reject(o, why).r = o.r
  BY DEF Reject
<1>7. ReceiveControl(r, m, t) \in
        {ReceiveEnter(o, m), Reject(o, why), CloseActivation(o, "MotionOverflow"),
         CloseActivation([r |-> applied, e |-> e], m.reason), [r |-> applied, e |-> e]}
  BY DEF ReceiveControl
<1> DEFINE last == [r |-> applied, e |-> e]
<1>8. last.r = applied
  OBVIOUS
<1>9. ReceiveControl(r, m, t) \in
        {ReceiveEnter(o, m), Reject(o, why), CloseActivation(o, "MotionOverflow"),
         CloseActivation(last, m.reason), last}
  BY <1>7
<1> HIDE DEF o, why, applied, last
<1> QED BY <1>1, <1>4, <1>5, <1>6, <1>8, <1>9, ClosedLeased

LEMMA PlayedLeased ==
  ASSUME NEW r \in ReceiverState, NEW act, NEW step \in Step, NEW t \in Nat, NEW n, Leased(r, n)
  PROVE  Leased(ReceivePlayoutStep(r, act, step, t).r, n)
<1> DEFINE o == ExpireLease(r, t)
           touched == IF step.touch = NoTouch THEN o.r.held
                      ELSE [o.r.held EXCEPT !.touch = step.touch]
           moved == [o.r EXCEPT !.totals = o.r.totals + step.delta, !.held = touched,
                                !.inj = IF step.reached THEN step.through ELSE o.r.inj]
           e == [o.e EXCEPT !.to = touched, !.delta = step.delta, !.safe = FALSE]
<1>1. Leased(o.r, n) /\ o.r \in ReceiverState
  BY ExpiredLeased, ExpireType, OutcomeFields
<1>2. step.touch # NoTouch => o.r.held.touch # NoTouch \/
        ReceivePlayoutStep(r, act, step, t).r \in {o.r, CloseActivation(o, "ProtocolViolation").r}
  BY DEF ReceivePlayoutStep, Reject
<1>3. \/ ReceivePlayoutStep(r, act, step, t).r \in
           {o.r, CloseActivation(o, "ProtocolViolation").r, CloseActivation(o, "MotionOverflow").r}
      \/ /\ ReceivePlayoutStep(r, act, step, t).r = moved
         /\ step.touch = NoTouch \/ o.r.held.touch # NoTouch
  BY DEF ReceivePlayoutStep, Reject
<1>4. /\ moved.held = touched /\ moved.lease = o.r.lease
      /\ step.touch = NoTouch => moved.held = o.r.held
  <2> HIDE DEF o
  <2> QED BY <1>1 DEF ReceiverState
<1>5. step.touch = NoTouch \/ o.r.held.touch # NoTouch => Leased(moved, n)
  <2>1. CASE step.touch = NoTouch
    BY <1>1, <1>4, <2>1 DEF Leased
  <2>2. CASE o.r.held.touch # NoTouch
    BY <1>1, <1>4, <2>2 DEF Leased, IsNeutral
  <2> QED BY <2>1, <2>2
<1> HIDE DEF o, moved
<1> QED BY <1>1, <1>3, <1>5, ClosedLeased

(* The time a handler read is not ahead of the clock, and held input is leased. *)
LeaseInv == at <= now /\ Leased(receiver, now)

LEMMA LeaseNext ==
  ASSUME TypeInv, LeaseInv, [Next]_vars
  PROVE  LeaseInv'
<1> USE TypeFacts
<1>1. CASE UNCHANGED <<now, at, receiver>>
  BY <1>1 DEF LeaseInv, Leased
<1>2. CASE SourceNext \/ NetworkLoss
  <2>1. UNCHANGED <<now, at, receiver>>
    BY <1>2 DEF SourceNext, BeginOutbound, Capture, EndOutbound, SourceTick, ReceiveAck,
                SourceClose, SourceLost, NetworkLoss, sink
  <2> QED BY <1>1, <2>1
<1>3. CASE Advance
  <2>1. now' = now + 1 /\ UNCHANGED <<at, receiver>>
    BY <1>3 DEF Advance, sink
  <2>2. HeldLease \in Nat /\ now \in Nat /\ at \in Nat /\ at <= now /\ Leased(receiver, now)
    BY ReceiverAssumption DEF LeaseInv
  <2>3. at <= now + 1 /\ \A l \in 0 .. now + HeldLease : l \in 0 .. (now + 1) + HeldLease
    BY <2>2
  <2>4. Leased(receiver, now + 1)
    BY <2>2, <2>3 DEF Leased
  <2> QED BY <2>1, <2>3, <2>4 DEF LeaseInv, Leased
<1>4. CASE RecvControl \/ RecvMotion \/ SinkClose \/ SinkLost \/ BackendRejects \/ DrainEnds
  <2>1. UNCHANGED <<now, receiver>> /\ at' \in {0, now, at}
    BY <1>4 DEF RecvControl, RecvMotion, SinkClose, SinkLost, BackendRejects, DrainEnds,
                Bail, Idle, source
  <2> QED BY <2>1 DEF LeaseInv, Leased
<1>5. CASE InboundTick
  <2>1. now' = now /\ at' = now /\ receiver' = ExpireLease(receiver, now).r
    BY <1>5 DEF InboundTick
  <2>2. Leased(ExpireLease(receiver, now).r, now)
    BY ExpiredLeased DEF LeaseInv
  <2>3. now <= now
    OBVIOUS
  <2> QED BY <2>1, <2>2, <2>3 DEF LeaseInv, Leased
<1>6. ASSUME NEW e, NEW next, Emit(e, next)
      PROVE  at' \in {0, at}
  BY <1>6 DEF Emit
<1>7. CASE PollPlayout
  <2>1. now' = now
    BY <1>7 DEF PollPlayout
  <2>2. playout.target \in Total /\ NoTouch \in TouchStates
    BY PlayoutFields DEF TouchStates
  <2>3. \A f \in Eligible(playout) :
          /\ Select(playout, f) \in PlayoutState /\ OwnSampleStart(playout, f) \in Total
          /\ f.touch \in TouchStates
    BY PlayoutTypes DEF MotionFrame
  <2>4. PICK p \in PlayoutState, start \in Total, touch \in TouchStates : PlayStep(p, start, touch)
    BY <1>7, <2>2, <2>3 DEF PollPlayout
  <2>5. CASE receiver' = receiver /\ at' \in {0, at}
    BY <2>1, <2>5 DEF LeaseInv, Leased
  <2>6. ASSUME NEW out \in Steps(p, start, touch),
               receiver' = ReceivePlayoutStep(receiver, p.act, out.step, at).r,
               Emit(ReceivePlayoutStep(receiver, p.act, out.step, at).e, "drain")
        PROVE  LeaseInv'
    <3>1. out.step \in Step
      BY StepsType
    <3>2. Leased(ReceivePlayoutStep(receiver, p.act, out.step, at).r, now)
      BY <3>1, PlayedLeased DEF LeaseInv
    <3>3. at' \in {0, at}
      BY <1>6, <2>6
    <3> QED BY <2>1, <2>6, <3>2, <3>3 DEF LeaseInv, Leased
  <2> QED BY <2>4, <2>5, <2>6 DEF PlayStep, PlayFails, Bail
<1>8. CASE ApplyControl
  <2> DEFINE m == Head(pending)
             o == ReceiveControl(receiver, m, at)
  <2>1. /\ pending # <<>> /\ now' = now /\ receiver' = o.r
        /\ Bail("invalid") \/ Emit(o.e, "drain")
    BY <1>8 DEF ApplyControl
  <2>2. m \in Sendable
    BY <2>1, HeadTailProperties
  <2>3. Leased(o.r, now)
    <3> HIDE DEF m
    <3> QED BY <2>2, ControlLeased DEF LeaseInv
  <2> HIDE DEF o
  <2>4. at' \in {0, at}
    BY <1>6, <2>1 DEF Bail
  <2> QED BY <2>1, <2>3, <2>4 DEF LeaseInv, Leased
<1>9. CASE BackendApplies
  <2>1. UNCHANGED <<now, receiver>> /\ at' \in {0, at}
    BY <1>9 DEF BackendApplies
  <2> QED BY <2>1 DEF LeaseInv, Leased
<1>10. CASE Cleanup
  <2>1. now' = now /\ receiver' = ConnectionLost(receiver).r /\ at' \in {0, at}
    BY <1>6, <1>10 DEF Cleanup
  <2>2. Start(receiver).r = receiver
    BY DEF Start
  <2> QED BY <2>1, <2>2, ClosedLeased DEF LeaseInv, Leased, ConnectionLost
<1>11. UNCHANGED vars => UNCHANGED <<now, at, receiver>>
  BY DEF vars, sink
<1> QED BY <1>1, <1>2, <1>3, <1>4, <1>5, <1>7, <1>8, <1>9, <1>10, <1>11
        DEF Next, SinkNext, Finished

(* Whatever the sink holds has a running lease that ends at most a lease from  *)
(* now: a step of playout that shows contacts renews nothing, and needs        *)
(* nothing, because only a touch that is already held and leased may move.    *)
THEOREM HeldLeased == Spec => []HeldIsLeased
<1>1. Init => LeaseInv
  BY NeutralHeld DEF Init, LeaseInv, Leased, NewReceiver
<1>2. TypeInv /\ LeaseInv /\ [Next]_vars => LeaseInv'
  BY LeaseNext
<1>3. LeaseInv => HeldIsLeased
  BY DEF LeaseInv, Leased, HeldIsLeased
<1> QED BY <1>1, <1>2, <1>3, TypeInit, TypeNext, PTL DEF Spec

-----------------------------------------------------------------------------
(* What the backend is left with *)

(* An outcome tells the truth about the receiver it leaves: the effects lead   *)
(* from what was held to what is held, a closed activation holds nothing, and  *)
(* a receiver that stays closed asks for nothing.                             *)
Closed(r) == r.act = 0 => r.held = Neutral

Truthful(r, o) ==
  /\ o.e.from = r.held /\ o.e.to = o.r.held
  /\ Closed(o.r)
  /\ o.e.closed # 0 /\ o.e.opened = 0 => o.r.act = 0
  /\ o.e.opened # 0 => o.r.act # 0
  /\ o.e.closed = 0 /\ o.r.act = 0 => r.held = Neutral /\ o.e.delta = 0

LEMMA StartTruthful ==
  ASSUME NEW r \in ReceiverState, Closed(r)
  PROVE  /\ Truthful(r, Start(r)) /\ Start(r).r = r /\ Start(r).e.ack = 0
         /\ Start(r).e.opened = 0 /\ Start(r).e.closed = 0
BY DEF Truthful, Start, NoEffects, Closed

LEMMA RejectTruthful ==
  ASSUME NEW r, NEW o \in Outcome, NEW why, Truthful(r, o)
  PROVE  Truthful(r, Reject(o, why))
BY DEF Truthful, Reject, Outcome, Effects

LEMMA CloseTruthful ==
  ASSUME NEW r, NEW o \in Outcome, NEW why, Truthful(r, o), o.e.opened = 0
  PROVE  /\ Truthful(r, CloseActivation(o, why))
         /\ CloseActivation(o, why).r.act = 0
         /\ CloseActivation(o, why).e.opened = 0
         /\ CloseActivation(o, why).e.ack = o.e.ack
         /\ o.r.act # 0 => CloseActivation(o, why).e.closed = o.r.act
         /\ o.r.act = 0 => CloseActivation(o, why) = o
BY DEF Truthful, Closed, CloseActivation, Outcome, Effects, NewReceiver

LEMMA ExpireTruthful ==
  ASSUME NEW r \in ReceiverState, NEW t, Closed(r)
  PROVE  /\ Truthful(r, ExpireLease(r, t)) /\ ExpireLease(r, t).e.opened = 0
         /\ ExpireLease(r, t).r.act # 0 => ExpireLease(r, t) = Start(r) \/ r.act = 0
         /\ ExpireLease(r, t).e.closed # 0 => ExpireLease(r, t).r.act = 0
<1>1. Start(r) \in Outcome
  BY StartType
<1>2. /\ Truthful(r, Start(r)) /\ Start(r).e.opened = 0 /\ Start(r).e.closed = 0
  BY StartTruthful
<1>3. /\ Truthful(r, CloseActivation(Start(r), "LeaseExpired"))
      /\ CloseActivation(Start(r), "LeaseExpired").r.act = 0
      /\ CloseActivation(Start(r), "LeaseExpired").e.opened = 0
  BY <1>1, <1>2, CloseTruthful
<1> QED BY <1>1, <1>2, <1>3 DEF ExpireLease

LEMMA EnterTruthful ==
  ASSUME NEW r, NEW o \in Outcome, NEW m \in Sendable, Truthful(r, o), o.e.opened = 0
  PROVE  Truthful(r, ReceiveEnter(o, m))
<1> DEFINE c == CloseActivation(o, "Superseded")
           new == [NewReceiver EXCEPT !.highest = m.act, !.act = m.act, !.ctl = 1]
           e == [c.e EXCEPT !.opened = m.act, !.safe = FALSE]
<1>1. Truthful(r, c) /\ c \in Outcome /\ c.r.act = 0
  BY CloseTruthful, CloseType DEF CloseReasons
<1>2. m.act \in Nat /\ m.act > 0
  BY DEF Sendable, ControlMessage
<1>3. new.act = m.act /\ new.held = Neutral
  BY DEF NewReceiver
<1>4. e.from = c.e.from /\ e.to = c.e.to /\ e.opened = m.act /\ e.closed = c.e.closed
  <2>1. c.e \in Effects
    BY <1>1, OutcomeFields
  <2> HIDE DEF c
  <2> QED BY <2>1 DEF Effects
<1>5. c.e.to = Neutral /\ c.e.from = r.held
  BY <1>1 DEF Truthful, Closed
<1> DEFINE opened == [r |-> new, e |-> e]
<1>6. opened.r = new /\ opened.e = e
  OBVIOUS
<1>7. ReceiveEnter(o, m) \in
        {Reject(o, "ClosedActivation"), Reject(o, "StaleActivation"), Reject(o, "ControlGap"),
         opened}
  BY DEF ReceiveEnter
<1> HIDE DEF new, e, opened
<1>8. Truthful(r, opened)
  BY <1>2, <1>3, <1>4, <1>5, <1>6 DEF Truthful, Closed
<1> QED BY <1>7, <1>8, RejectTruthful

LEMMA ControlTruthful ==
  ASSUME NEW r \in ReceiverState, NEW m \in Sendable, NEW t \in Nat, Closed(r)
  PROVE  Truthful(r, ReceiveControl(r, m, t))
<1> DEFINE o == ExpireLease(r, t)
           why == Rejection(o.r, m)
           delta == IF HasAnchor(m) THEN m.anchor.totals - o.r.totals ELSE 0
           anchored == IF HasAnchor(m) THEN ApplyAnchor(o.r, m.anchor) ELSE o.r
           applied == ApplyPayload(anchored, m, t)
           e == [o.e EXCEPT !.to = applied.held, !.delta = delta,
                            !.ack = IF m.kind = "StateSnapshot" THEN m.seq ELSE 0,
                            !.safe = /\ delta = 0
                                     /\ anchored.held.touch \in {NoTouch, o.r.held.touch}]
           last == [r |-> applied, e |-> e]
<1>1. o \in Outcome /\ o.r \in ReceiverState /\ o.e \in Effects
  BY ExpireType, OutcomeFields
<1>2. /\ Truthful(r, o) /\ o.e.opened = 0
      /\ o.e.closed # 0 => o.r.act = 0
  BY ExpireTruthful
<1>3. m \in ControlMessage /\ m.act > 0 /\ m.act \in Nat
  BY DEF Sendable, ControlMessage
<1>4. applied.act = o.r.act
  <2>1. anchored.act = o.r.act /\ anchored \in ReceiverState
    <3> HIDE DEF o
    <3>1. o.r.act = ApplyAnchor(o.r, m.anchor).act
      BY <1>1 DEF ApplyAnchor, ReceiverState
    <3>2. HasAnchor(m) => ApplyAnchor(o.r, m.anchor) \in ReceiverState
      BY <1>1, <1>3, AnchorFields, ApplyAnchorType
    <3> QED BY <1>1, <3>1, <3>2
  <2> HIDE DEF anchored
  <2> QED BY <2>1 DEF ApplyPayload, RefreshLease, ReceiverState
<1>5. why = "none" => o.r.act # 0
  BY DEF Rejection
<1>6. /\ e.from = o.e.from /\ e.to = applied.held /\ e.opened = 0 /\ e.closed = o.e.closed
      /\ last.r = applied /\ last.e = e
  <2> HIDE DEF o, applied, delta
  <2> QED BY <1>1, <1>2 DEF Effects
<1>7. \/ ReceiveControl(r, m, t) = ReceiveEnter(o, m)
      \/ ReceiveControl(r, m, t) = Reject(o, why)
      \/ /\ why = "none"
         /\ ReceiveControl(r, m, t) \in
              {CloseActivation(o, "MotionOverflow"), CloseActivation(last, m.reason), last}
  BY DEF ReceiveControl
<1>8. why = "none" => last \in Outcome
  <2> SUFFICES ASSUME why = "none" PROVE last \in Outcome
    OBVIOUS
  <2>1. anchored \in ReceiverState
    <3> HIDE DEF o
    <3> QED BY <1>1, <1>3, AnchorFields, ApplyAnchorType
  <2>2. applied \in ReceiverState
    <3> HIDE DEF anchored
    <3> QED BY <1>3, <2>1, PayloadType DEF Sendable
  <2>3. applied.held \in HeldState
    <3> HIDE DEF applied
    <3> QED BY <2>2 DEF ReceiverState
  <2>4. delta \in Int
    <3>1. o.r.totals \in Int
      BY <1>1, MembersAssumption DEF ReceiverState, Total
    <3>2. HasAnchor(m) => m.anchor.totals \in Int
      BY <1>3, AnchorFields, MembersAssumption DEF Anchor, Total
    <3> HIDE DEF o
    <3> QED BY <3>1, <3>2
  <2>5. e \in Effects
    <3>1. (IF m.kind = "StateSnapshot" THEN m.seq ELSE 0) \in Nat
      BY <1>3 DEF ControlMessage
    <3> HIDE DEF o, applied, delta, anchored
    <3> QED BY <1>1, <2>3, <2>4, <3>1 DEF Effects
  <2> HIDE DEF applied, e
  <2> QED BY <2>2, <2>5 DEF Outcome
<1> HIDE DEF o, why, applied, e, last
<1>9. why = "none" => Truthful(r, last)
  <2> SUFFICES ASSUME why = "none" PROVE Truthful(r, last)
    OBVIOUS
  <2>1. o.r.act # 0 /\ o.e.closed = 0 /\ o.e.from = r.held
    BY <1>2, <1>5 DEF Truthful
  <2> QED BY <1>4, <1>6, <2>1 DEF Truthful, Closed
<1>10. why = "none" => last.e.opened = 0
  BY <1>6
<1> QED BY <1>1, <1>2, <1>7, <1>8, <1>9, <1>10, EnterTruthful, RejectTruthful, CloseTruthful

LEMMA PlayedTruthful ==
  ASSUME NEW r \in ReceiverState, NEW act, NEW step \in Step, NEW t \in Nat, Closed(r)
  PROVE  Truthful(r, ReceivePlayoutStep(r, act, step, t))
<1> DEFINE o == ExpireLease(r, t)
           touched == IF step.touch = NoTouch THEN o.r.held
                      ELSE [o.r.held EXCEPT !.touch = step.touch]
           moved == [o.r EXCEPT !.totals = o.r.totals + step.delta, !.held = touched,
                                !.inj = IF step.reached THEN step.through ELSE o.r.inj]
           e == [o.e EXCEPT !.to = touched, !.delta = step.delta, !.safe = FALSE]
           last == [r |-> moved, e |-> e]
<1>1. o \in Outcome /\ o.r \in ReceiverState /\ o.e \in Effects
  BY ExpireType, OutcomeFields
<1>2. /\ Truthful(r, o) /\ o.e.opened = 0
      /\ o.e.closed # 0 => o.r.act = 0
  BY ExpireTruthful
<1>3. \/ ReceivePlayoutStep(r, act, step, t) \in
           {Reject(o, "ClosedActivation"), Reject(o, "NoOpenActivation"),
            Reject(o, "StaleActivation"), Reject(o, "DuplicateOrReorderedMotion"),
            CloseActivation(o, "ProtocolViolation"), CloseActivation(o, "MotionOverflow")}
      \/ o.r.act # 0 /\ ReceivePlayoutStep(r, act, step, t) = last
  BY DEF ReceivePlayoutStep
<1>4. /\ moved.act = o.r.act /\ moved.held = touched
      /\ e.from = o.e.from /\ e.to = touched /\ e.opened = 0 /\ e.closed = o.e.closed
      /\ last.r = moved /\ last.e = e
  <2> HIDE DEF o, touched
  <2> QED BY <1>1, <1>2 DEF ReceiverState, Effects
<1> HIDE DEF o, moved, e, last, touched
<1>5. o.r.act # 0 => Truthful(r, last)
  BY <1>2, <1>4 DEF Truthful, Closed
<1> QED BY <1>1, <1>2, <1>3, <1>5, RejectTruthful, CloseTruthful

LEMMA LostTruthful ==
  ASSUME NEW r \in ReceiverState, Closed(r)
  PROVE  /\ Truthful(r, ConnectionLost(r)) /\ ConnectionLost(r).e.ack = 0
         /\ ConnectionLost(r).r.act = 0
         /\ ConnectionLost(r).e.opened = 0
         /\ r.act # 0 => ConnectionLost(r).e.closed # 0
BY StartType, StartTruthful, CloseTruthful DEF ConnectionLost

(* Between handlers the backend agrees with the receiver; while a batch waits,  *)
(* applying it will make it agree; and whatever the runtime may still refuse    *)
(* belongs to an open activation, which the cleanup closes.                     *)
Agrees == backend.held = Visible(receiver.held)

StuckInv ==
  /\ Closed(receiver)
  /\ sinkEnd # "running" => pc \in {"cleanup", "down"} \/ (pc = "emit" /\ resume = "down")
  /\ pc = "emit" /\ resume = "down" => batch.ack = 0
  /\ sinkEnd # "invalid" =>
       /\ pc \in {"select", "poll", "drain", "down"} => Agrees
       /\ pc = "emit" =>
            /\ Applied(backend, batch).held = Visible(receiver.held)
            /\ Refusable(batch) => receiver.act # 0
       /\ pc = "cleanup" /\ receiver.act = 0 => Agrees

LEMMA NeutralVisible == Visible(Neutral) = Neutral
BY DEF Visible, Neutral

LEMMA AppliedAgrees ==
  ASSUME NEW o, Truthful(receiver, o), receiver' = o.r
  PROVE  Applied(backend, o.e).held = Visible(receiver'.held)
<1>1. CASE o.e.closed # 0 /\ o.e.opened = 0
  BY <1>1, NeutralVisible DEF Applied, Truthful, Closed
<1>2. CASE ~(o.e.closed # 0 /\ o.e.opened = 0)
  BY <1>2 DEF Applied, Truthful
<1> QED BY <1>1, <1>2

LEMMA RefusableOpen ==
  ASSUME RejectClosing = FALSE, NEW o, Truthful(receiver, o), receiver' = o.r,
         NeedsBackend(o.e), Refusable(o.e)
  PROVE  receiver'.act # 0
<1>1. CASE o.e.closed = 0
  BY <1>1 DEF Truthful, Closed, NeedsBackend
<1>2. CASE o.e.opened # 0
  BY <1>2 DEF Truthful
<1> QED BY <1>1, <1>2 DEF Refusable

(* A handler that emits what the receiver's call returned keeps the agreement, *)
(* if it held before or the call closed the activation.                       *)
LEMMA EmitAgrees ==
  ASSUME RejectClosing = FALSE, NEW o, Truthful(receiver, o), receiver' = o.r,
         NEW next, Emit(o.e, next), backend' = backend,
         sinkEnd # "invalid" => Agrees \/ o.e.closed # 0
  PROVE  /\ Closed(receiver')
         /\ \/ /\ pc' = next
               /\ sinkEnd # "invalid" => Agrees'
            \/ /\ pc' = "emit" /\ resume' = next /\ batch' = o.e
               /\ Applied(backend', batch').held = Visible(receiver'.held)
               /\ Refusable(batch') => receiver'.act # 0
<1>1. Closed(receiver')
  BY DEF Truthful
<1>2. CASE NeedsBackend(o.e)
  BY <1>1, <1>2, AppliedAgrees, RefusableOpen DEF Emit
<1>3. CASE ~NeedsBackend(o.e)
  <2>1. pc' = next
    BY <1>3 DEF Emit
  <2>2. Visible(receiver.held) = Visible(receiver'.held) /\ o.e.closed = 0
    BY <1>3 DEF NeedsBackend, Truthful
  <2> QED BY <1>1, <2>1, <2>2 DEF Agrees
<1> QED BY <1>2, <1>3

LEMMA StuckSource ==
  ASSUME StuckInv, SourceNext \/ NetworkLoss \/ Advance \/ UNCHANGED vars
  PROVE  StuckInv'
<1>1. UNCHANGED <<sink, backend>>
  BY DEF SourceNext, BeginOutbound, Capture, EndOutbound, SourceTick, ReceiveAck, SourceClose,
         SourceLost, NetworkLoss, Advance, vars
<1>2. UNCHANGED <<pc, resume, receiver, batch, sinkEnd, backend>>
  BY <1>1 DEF sink
<1> QED BY <1>2 DEF StuckInv, Agrees, Closed, Applied, Refusable

LEMMA StuckRejects ==
  ASSUME TypeInv, StuckInv, BackendRejects
  PROVE  StuckInv'
<1>1. /\ pc = "emit" /\ Refusable(batch) /\ receiver' = receiver
      /\ pc' = "cleanup" /\ resume' = "select" /\ sinkEnd' # "running"
      /\ sinkEnd' # "invalid" => sinkEnd # "invalid"
  BY DEF BackendRejects, Bail
<1>2. sinkEnd # "invalid" => receiver.act # 0
  BY <1>1 DEF StuckInv
<1> QED BY <1>1, <1>2 DEF StuckInv, Closed

(* Steps that leave the loop from between two handlers, and steps that only    *)
(* move on.                                                                   *)
LEMMA StuckQuiet ==
  ASSUME StuckInv, RecvControl \/ RecvMotion \/ SinkClose \/ SinkLost \/ DrainEnds
  PROVE  StuckInv'
<1>1. UNCHANGED <<receiver, backend>> /\ pc \in {"select", "drain"} /\ sinkEnd = "running"
  BY DEF RecvControl, RecvMotion, SinkClose, SinkLost, DrainEnds, StuckInv
<1>2. \/ pc' \in {"select", "drain"} /\ UNCHANGED sinkEnd
      \/ pc' = "select" /\ UNCHANGED <<pc, sinkEnd>>
      \/ pc' = "cleanup" /\ sinkEnd' # "running" /\ sinkEnd' # "invalid"
  BY <1>1 DEF RecvControl, RecvMotion, SinkClose, SinkLost, DrainEnds, Bail, Idle
<1>3. Agrees' /\ Closed(receiver')
  BY <1>1 DEF StuckInv, Agrees
<1> QED BY <1>1, <1>2, <1>3 DEF StuckInv

LEMMA StuckTick ==
  ASSUME RejectClosing = FALSE, TypeInv, StuckInv, InboundTick
  PROVE  StuckInv'
<1> DEFINE o == ExpireLease(receiver, now)
<1>1. Truthful(receiver, o)
  BY TypeFacts, ExpireTruthful DEF StuckInv
<1>2. /\ receiver' = o.r /\ backend' = backend /\ sinkEnd' = sinkEnd /\ pc = "select"
      /\ \/ NeedsBackend(o.e) /\ pc' = "emit" /\ resume' = "poll" /\ batch' = o.e
         \/ ~NeedsBackend(o.e) /\ pc' = "poll"
  BY DEF InboundTick
<1>3. sinkEnd = "running" /\ Agrees
  BY <1>2 DEF StuckInv
<1> HIDE DEF o
<1>4. Closed(receiver')
  BY <1>1, <1>2 DEF Truthful
<1>5. CASE NeedsBackend(o.e)
  <2>1. /\ Applied(backend', batch').held = Visible(receiver'.held)
        /\ Refusable(batch') => receiver'.act # 0
    BY <1>1, <1>2, <1>5, AppliedAgrees, RefusableOpen
  <2> QED BY <1>2, <1>3, <1>4, <1>5, <2>1 DEF StuckInv
<1>6. CASE ~NeedsBackend(o.e)
  <2>1. Visible(receiver.held) = Visible(receiver'.held)
    BY <1>1, <1>2, <1>6 DEF NeedsBackend, Truthful
  <2> QED BY <1>2, <1>3, <1>4, <1>6, <2>1 DEF StuckInv, Agrees
<1> QED BY <1>5, <1>6

(* A bail on an engine's error leaves the loop as "invalid". *)
LEMMA StuckBail ==
  ASSUME sinkEnd = "running", Closed(receiver'), Bail("invalid")
  PROVE  StuckInv'
BY DEF Bail, StuckInv

LEMMA StuckPoll ==
  ASSUME RejectClosing = FALSE, TypeInv, StuckInv, PollPlayout
  PROVE  StuckInv'
<1> USE TypeFacts
<1>1. pc = "poll" /\ backend' = backend /\ sinkEnd = "running" /\ Agrees /\ Closed(receiver)
  BY DEF PollPlayout, StuckInv
<1>2. playout.target \in Total /\ NoTouch \in TouchStates
  BY PlayoutFields DEF TouchStates
<1>3. \A f \in Eligible(playout) :
        /\ Select(playout, f) \in PlayoutState /\ OwnSampleStart(playout, f) \in Total
        /\ f.touch \in TouchStates
  BY PlayoutTypes DEF MotionFrame
<1>4. PICK p \in PlayoutState, start \in Total, touch \in TouchStates : PlayStep(p, start, touch)
  BY <1>2, <1>3 DEF PollPlayout
<1>5. CASE Bail("invalid") /\ receiver' = receiver
  BY <1>1, <1>5, StuckBail
<1>6. CASE pc' = "drain" /\ UNCHANGED <<receiver, sinkEnd>>
  BY <1>1, <1>6 DEF StuckInv, Agrees
<1>7. ASSUME NEW out \in Steps(p, start, touch),
             receiver' = ReceivePlayoutStep(receiver, p.act, out.step, at).r,
             Emit(ReceivePlayoutStep(receiver, p.act, out.step, at).e, "drain"),
             UNCHANGED sinkEnd
      PROVE  StuckInv'
  <2> DEFINE o == ReceivePlayoutStep(receiver, p.act, out.step, at)
  <2>1. out.step \in Step
    BY StepsType
  <2>2. Truthful(receiver, o)
    BY <1>1, <2>1, PlayedTruthful
  <2>3. receiver' = o.r /\ Emit(o.e, "drain")
    BY <1>7
  <2> HIDE DEF o
  <2>4. /\ Closed(receiver')
        /\ \/ /\ pc' = "drain"
              /\ sinkEnd # "invalid" => Agrees'
           \/ /\ pc' = "emit" /\ resume' = "drain" /\ batch' = o.e
              /\ Applied(backend', batch').held = Visible(receiver'.held)
              /\ Refusable(batch') => receiver'.act # 0
    BY <1>1, <2>2, <2>3, EmitAgrees
  <2> QED BY <1>1, <1>7, <2>4 DEF StuckInv
<1> QED BY <1>4, <1>5, <1>6, <1>7 DEF PlayStep, PlayFails

LEMMA StuckApply ==
  ASSUME RejectClosing = FALSE, TypeInv, StuckInv, ApplyControl
  PROVE  StuckInv'
<1> USE TypeFacts
<1> DEFINE m == Head(pending)
           o == ReceiveControl(receiver, m, at)
<1>1. /\ pending # <<>> /\ receiver' = o.r /\ pc = "drain" /\ backend' = backend
      /\ Bail("invalid") \/ (Emit(o.e, "drain") /\ UNCHANGED sinkEnd)
  BY DEF ApplyControl
<1>2. m \in Sendable
  BY <1>1, HeadTailProperties
<1>3. sinkEnd = "running" /\ Agrees /\ Closed(receiver)
  BY <1>1 DEF StuckInv
<1>4. Truthful(receiver, o)
  <2> HIDE DEF m
  <2> QED BY <1>2, <1>3, ControlTruthful
<1> HIDE DEF o
<1>5. Closed(receiver')
  BY <1>1, <1>4 DEF Truthful
<1>6. CASE Bail("invalid")
  BY <1>3, <1>5, <1>6, StuckBail
<1>7. CASE Emit(o.e, "drain") /\ UNCHANGED sinkEnd
  <2>1. /\ Closed(receiver')
        /\ \/ /\ pc' = "drain"
              /\ sinkEnd # "invalid" => Agrees'
           \/ /\ pc' = "emit" /\ resume' = "drain" /\ batch' = o.e
              /\ Applied(backend', batch').held = Visible(receiver'.held)
              /\ Refusable(batch') => receiver'.act # 0
    BY <1>1, <1>3, <1>4, <1>7, EmitAgrees
  <2> QED BY <1>3, <1>7, <2>1 DEF StuckInv
<1> QED BY <1>1, <1>6, <1>7

LEMMA StuckApplies ==
  ASSUME TypeInv, StuckInv, BackendApplies
  PROVE  StuckInv'
<1>1. /\ pc = "emit" /\ backend' = Applied(backend, batch) /\ receiver' = receiver
      /\ \/ batch.ack # 0 /\ pc' = "cleanup" /\ sinkEnd' = "lost"
         \/ pc' = resume /\ UNCHANGED sinkEnd
  BY DEF BackendApplies
<1>2. sinkEnd # "invalid" => Agrees'
  BY <1>1 DEF StuckInv, Agrees
<1>3. resume \in {"select", "poll", "drain", "down"}
  BY DEF TypeInv, TypeOK
<1>4. CASE batch.ack # 0 /\ pc' = "cleanup" /\ sinkEnd' = "lost"
  <2>1. sinkEnd = "running"
    BY <1>1, <1>4 DEF StuckInv
  <2> QED BY <1>1, <1>2, <1>4, <2>1 DEF StuckInv
<1>5. CASE pc' = resume /\ UNCHANGED sinkEnd
  BY <1>1, <1>2, <1>3, <1>5 DEF StuckInv
<1> QED BY <1>1, <1>4, <1>5

LEMMA StuckCleanup ==
  ASSUME RejectClosing = FALSE, TypeInv, StuckInv, Cleanup
  PROVE  StuckInv'
<1> USE TypeFacts
<1> DEFINE o == ConnectionLost(receiver)
<1>1. /\ receiver' = o.r /\ Emit(o.e, "down") /\ pc = "cleanup"
      /\ backend' = backend /\ sinkEnd' = sinkEnd
  BY DEF Cleanup
<1>2. Closed(receiver)
  BY DEF StuckInv
<1>3. /\ Truthful(receiver, o) /\ o.e.ack = 0
      /\ receiver.act # 0 => o.e.closed # 0
  BY <1>2, LostTruthful
<1> HIDE DEF o
<1>4. sinkEnd # "invalid" => Agrees \/ o.e.closed # 0
  BY <1>1, <1>3 DEF StuckInv
<1>5. /\ Closed(receiver')
      /\ \/ /\ pc' = "down"
            /\ sinkEnd # "invalid" => Agrees'
         \/ /\ pc' = "emit" /\ resume' = "down" /\ batch' = o.e
            /\ Applied(backend', batch').held = Visible(receiver'.held)
            /\ Refusable(batch') => receiver'.act # 0
  BY <1>1, <1>3, <1>4, EmitAgrees
<1> QED BY <1>1, <1>3, <1>5 DEF StuckInv

LEMMA StuckNext ==
  ASSUME RejectClosing = FALSE, TypeInv, StuckInv, [Next]_vars
  PROVE  StuckInv'
BY StuckSource, StuckRejects, StuckQuiet, StuckTick, StuckPoll, StuckApply, StuckApplies,
   StuckCleanup DEF Next, SinkNext, Finished

(* If the runtime never refuses a batch that closes an activation, then between *)
(* handlers the backend holds what the receiver holds, and after an activation  *)
(* or a session nothing: also when a batch was refused part-way, the connection *)
(* was lost while a batch waited, or the lease ran out in the middle of a       *)
(* handler.  The sink that drops effects because its engines met an invalid     *)
(* message is the one exception.                                               *)
THEOREM NothingStuck ==
  ASSUME RejectClosing = FALSE
  PROVE  Spec => [](sinkEnd # "invalid" => NoStuckInput)
<1>1. Init => StuckInv
  BY NeutralVisible DEF Init, StuckInv, Closed, NewReceiver, Agrees
<1>2. TypeInv /\ StuckInv /\ [Next]_vars => StuckInv'
  BY StuckNext
<1>3. TypeInv /\ StuckInv => (sinkEnd # "invalid" => NoStuckInput)
  BY DEF StuckInv, Agrees, NoStuckInput, Settled, TypeInv, TypeOK
<1> QED BY <1>1, <1>2, <1>3, TypeInit, TypeNext, PTL DEF Spec
=============================================================================
