---------------------------- MODULE DaemonProofs ----------------------------
(***************************************************************************)
(* Proofs about Daemon.  First where its own input goes: RouteInv follows    *)
(* each capture of the input thread through the event queue, the activation  *)
(* the loop begins for it and the release that ends it.  Then its sessions:  *)
(* SessionInv says what the session map, the active activation, the waiting  *)
(* tasks and the queued events know of each session, and that at most one    *)
(* session is left with an open activation; ControlInv says who controls     *)
(* this computer, on top of it.                                              *)
(***************************************************************************)
EXTENDS Daemon, SequenceTheorems, TLAPS

LEMMA TailAt ==
  ASSUME NEW S, NEW s \in Seq(S), s # <<>>
  PROVE  /\ Tail(s) \in Seq(S) /\ Len(s) \in Nat /\ Len(s) > 0
         /\ Head(s) = s[1] /\ Head(s) \in S /\ 1 \in DOMAIN s
         /\ DOMAIN s = 1 .. Len(s) /\ DOMAIN Tail(s) = 1 .. Len(s) - 1
         /\ Len(Tail(s)) = Len(s) - 1
         /\ \A k \in DOMAIN Tail(s) : Tail(s)[k] = s[k + 1]
  OBVIOUS

LEMMA AppendAt ==
  ASSUME NEW S, NEW s \in Seq(S), NEW e \in S
  PROVE  /\ Append(s, e) \in Seq(S) /\ Append(s, e) # <<>>
         /\ Len(Append(s, e)) = Len(s) + 1 /\ Len(s) \in Nat
         /\ DOMAIN s = 1 .. Len(s) /\ DOMAIN Append(s, e) = 1 .. Len(s) + 1
         /\ \A k \in DOMAIN s : Append(s, e)[k] = s[k]
         /\ Append(s, e)[Len(s) + 1] = e
  OBVIOUS

LEMMA OneIsAppended ==
  ASSUME NEW S, NEW s \in Seq(S), NEW e \in S
  PROVE  s \o <<e>> = Append(s, e)
  OBVIOUS

LEMMA TwoAreAppended ==
  ASSUME NEW S, NEW s \in Seq(S), NEW d \in S, NEW e \in S
  PROVE  s \o <<d, e>> = Append(Append(s, d), e)
  OBVIOUS

-----------------------------------------------------------------------------
(* The input thread's side of the daemon *)

RtEvent == [op : {"remote"}, peer : Peers] \cup [op : {"idle", "terminal", "closed"}]
Command == [op : {"activate"}, peer : Peers] \cup [op : {"release", "sent"}, live : BOOLEAN]
Activation == [id : Nat, act : Nat]
Waiting == [who : {"none", "terminal", "closed", "hop"}, id : Nat, act : Nat, next : Nat,
            receipt : {"none", "ok", "failed"}]

(* What the queues between the loop and the input thread hold, and who waits *)
(* under the policy mutex: a hop has taken the active activation.            *)
PortInv ==
  /\ rtEvs \in Seq(RtEvent) /\ cmds \in Seq(Command)
  /\ phase \in {"Idle", "Arming", "Remote", "Releasing"}
  /\ phase # "Idle" => peer \in Peers
  /\ active \in Activation /\ wait \in Waiting /\ acts \in Nat
  /\ sessions \in [Peers -> Nat]
  /\ wait.who = "hop" => active = None /\ wait.next # 0

(* An activation is begun, or a hop is between two of them. *)
Begun == active.id # 0 \/ wait.who = "hop"

At(op, k) == rtEvs[k].op = op

(* The activation begun, if there is one, stands before the queue; the ones  *)
(* that may begin are in it.                                                 *)
OpenAt(j) == (j = 0 /\ Begun) \/ (j \in DOMAIN rtEvs /\ At("remote", j))

(* A new activation or an idle runtime comes only after the one before it    *)
(* was reported closed.                                                      *)
ClosedBetween ==
  \A j \in 0 .. Len(rtEvs), k \in DOMAIN rtEvs :
     OpenAt(j) /\ j < k /\ rtEvs[k].op \in {"remote", "idle"} =>
     \E c \in DOMAIN rtEvs : j < c /\ c < k /\ At("closed", c)

Live(p) == p \in {"Remote", "Releasing"}

(* An activation that is not reported closed still holds the devices. *)
HeldOrClosed ==
  \A j \in 0 .. Len(rtEvs) : OpenAt(j) =>
     Live(phase) \/ \E c \in DOMAIN rtEvs : j < c /\ At("closed", c)

(* While they are held nothing newer than their grab is queued. *)
GrabIsNewest == phase = "Remote" /\ rtEvs # <<>> => At("remote", Len(rtEvs))

FlowInv == ClosedBetween /\ HeldOrClosed /\ GrabIsNewest

(* Held devices with no activation wait for one to begin or for a release;   *)
(* an activation begun on a controlled computer is already reported closed.  *)
HereInv ==
  /\ phase = "Remote" /\ ~Begun =>
       (\E k \in DOMAIN rtEvs : At("remote", k)) \/ (\E k \in DOMAIN cmds : cmds[k].op = "release")
  /\ Begun /\ owner # 0 => \E c \in DOMAIN rtEvs : At("closed", c)

RouteInv == PortInv /\ FlowInv /\ HereInv

(* RouteInv holds of the inputs and the outcomes of a step that leaves the   *)
(* input thread alone.                                                       *)
Still ==
  /\ UNCHANGED <<phase, peer, rtEvs, cmds, active, acts>>
  /\ sessions' \in [Peers -> Nat]
  /\ wait' \in Waiting /\ wait'.who = wait.who /\ wait'.next = wait.next
  /\ owner' # 0 => owner # 0 \/ phase = "Idle"

LEMMA StillKeeps ==
  ASSUME RouteInv, Still
  PROVE  RouteInv'
<1>1. PortInv'
  BY DEF RouteInv, PortInv, Still
<1>2. /\ Begun' <=> Begun
      /\ \A op, k : At(op, k)' <=> At(op, k)
      /\ \A j : OpenAt(j)' <=> OpenAt(j)
  BY DEF Still, Begun, At, OpenAt
<1>3. FlowInv'
  BY <1>2 DEF RouteInv, FlowInv, ClosedBetween, HeldOrClosed, GrabIsNewest, Still
<1>4. HereInv'
  <2>1. CASE owner' # 0 => owner # 0
    BY <1>2, <2>1 DEF RouteInv, HereInv, Still
  <2>2. CASE phase = "Idle"
    <3>1. Begun => \E c \in DOMAIN rtEvs : At("closed", c)
      <4>1. Len(rtEvs) \in Nat
        BY DEF RouteInv, PortInv
      <4> QED BY <2>2, <4>1 DEF RouteInv, FlowInv, HeldOrClosed, Live, OpenAt
    <3> QED BY <1>2, <2>2, <3>1 DEF HereInv, Still
  <2> QED BY <2>1, <2>2 DEF Still
<1> QED BY <1>1, <1>3, <1>4 DEF RouteInv

-----------------------------------------------------------------------------
(* The queue of runtime events *)

(* The input thread reports one thing. *)
LEMMA FlowReports ==
  ASSUME PortInv, FlowInv, NEW e \in RtEvent, rtEvs' = Append(rtEvs, e),
         UNCHANGED <<active, wait>>,
         e.op \in {"remote", "idle"} => ~Live(phase),
         Live(phase') \/ (~Live(phase) /\ e.op # "remote"),
         phase' = "Remote" => e.op = "remote"
  PROVE  FlowInv'
<1> DEFINE n == Len(rtEvs)
<1>1. /\ n \in Nat /\ DOMAIN rtEvs = 1 .. n /\ DOMAIN rtEvs' = 1 .. n + 1 /\ Len(rtEvs') = n + 1
      /\ \A k \in 1 .. n : rtEvs'[k] = rtEvs[k]
      /\ rtEvs'[n + 1] = e
  BY AppendAt DEF PortInv
<1>2. Begun' <=> Begun
  BY DEF Begun
<1> HIDE DEF n
<1>3. \A j \in 0 .. n : OpenAt(j)' <=> OpenAt(j)
  BY <1>1, <1>2 DEF OpenAt, At
<1>4. \A j \in 0 .. n + 1, k \in 1 .. n + 1 :
        OpenAt(j)' /\ j < k /\ rtEvs'[k].op \in {"remote", "idle"} =>
        \E c \in 1 .. n + 1 : j < c /\ c < k /\ rtEvs'[c].op = "closed"
  <2> SUFFICES ASSUME NEW j \in 0 .. n + 1, NEW k \in 1 .. n + 1,
                      OpenAt(j)', j < k, rtEvs'[k].op \in {"remote", "idle"}
               PROVE  \E c \in 1 .. n + 1 : j < c /\ c < k /\ rtEvs'[c].op = "closed"
    OBVIOUS
  <2>1. j \in 0 .. n /\ OpenAt(j)
    BY <1>1, <1>3
  <2>2. CASE k = n + 1
    <3>1. PICK c \in 1 .. n : j < c /\ At("closed", c)
      BY <1>1, <2>1, <2>2 DEF FlowInv, HeldOrClosed, n
    <3> QED BY <1>1, <2>2, <3>1 DEF At
  <2>3. CASE k \in 1 .. n
    <3>1. PICK c \in 1 .. n : j < c /\ c < k /\ At("closed", c)
      BY <1>1, <2>1, <2>3 DEF FlowInv, ClosedBetween, n
    <3> QED BY <1>1, <3>1 DEF At
  <2> QED BY <1>1, <2>2, <2>3
<1>5. \A j \in 0 .. n + 1 : OpenAt(j)' =>
        Live(phase') \/ \E c \in 1 .. n + 1 : j < c /\ rtEvs'[c].op = "closed"
  <2> SUFFICES ASSUME NEW j \in 0 .. n + 1, OpenAt(j)', ~Live(phase')
               PROVE  \E c \in 1 .. n + 1 : j < c /\ rtEvs'[c].op = "closed"
    OBVIOUS
  <2>1. j \in 0 .. n /\ OpenAt(j)
    BY <1>1, <1>3 DEF OpenAt, At
  <2>2. PICK c \in 1 .. n : j < c /\ At("closed", c)
    BY <1>1, <2>1 DEF FlowInv, HeldOrClosed, n
  <2> QED BY <1>1, <2>2 DEF At
<1>6. phase' = "Remote" => rtEvs'[n + 1].op = "remote"
  BY <1>1
<1>7. ClosedBetween'
  BY <1>1, <1>4 DEF ClosedBetween, At
<1>8. HeldOrClosed'
  BY <1>1, <1>5 DEF HeldOrClosed, At
<1>9. GrabIsNewest'
  BY <1>1, <1>6 DEF GrabIsNewest, At
<1> QED BY <1>7, <1>8, <1>9 DEF FlowInv

(* It gives the devices back: Closed, then Idle. *)
LEMMA FlowCloses ==
  ASSUME PortInv, FlowInv, rtEvs' = rtEvs \o <<Ev("closed"), Ev("idle")>>,
         UNCHANGED <<active, wait>>, phase' = "Idle"
  PROVE  FlowInv' /\ rtEvs' \in Seq(RtEvent) /\ \E c \in DOMAIN rtEvs' : At("closed", c)'
<1> DEFINE n == Len(rtEvs)
<1>0. Ev("closed") \in RtEvent /\ Ev("idle") \in RtEvent
  BY DEF Ev, RtEvent
<1>1. /\ n \in Nat /\ DOMAIN rtEvs = 1 .. n /\ DOMAIN rtEvs' = 1 .. n + 2 /\ Len(rtEvs') = n + 2
      /\ \A k \in 1 .. n : rtEvs'[k] = rtEvs[k]
      /\ rtEvs'[n + 1].op = "closed" /\ rtEvs'[n + 2].op = "idle" /\ rtEvs' \in Seq(RtEvent)
  <2>1. rtEvs' = Append(Append(rtEvs, Ev("closed")), Ev("idle"))
    BY <1>0, TwoAreAppended DEF PortInv
  <2>2. /\ Append(rtEvs, Ev("closed")) \in Seq(RtEvent) /\ Len(Append(rtEvs, Ev("closed"))) = n + 1
        /\ n \in Nat /\ DOMAIN rtEvs = 1 .. n /\ DOMAIN Append(rtEvs, Ev("closed")) = 1 .. n + 1
        /\ \A k \in 1 .. n : Append(rtEvs, Ev("closed"))[k] = rtEvs[k]
        /\ Append(rtEvs, Ev("closed"))[n + 1] = Ev("closed")
    BY <1>0, AppendAt DEF PortInv
  <2> DEFINE s == Append(rtEvs, Ev("closed"))
  <2>3. /\ rtEvs' \in Seq(RtEvent) /\ Len(rtEvs') = Len(s) + 1 /\ DOMAIN rtEvs' = 1 .. Len(s) + 1
        /\ \A k \in DOMAIN s : rtEvs'[k] = s[k]
        /\ rtEvs'[Len(s) + 1] = Ev("idle")
    BY <1>0, <2>1, <2>2, AppendAt
  <2> HIDE DEF n, s
  <2>4. Ev("closed").op = "closed" /\ Ev("idle").op = "idle"
    BY DEF Ev
  <2> QED BY <2>2, <2>3, <2>4 DEF s
<1>2. Begun' <=> Begun
  BY DEF Begun
<1> HIDE DEF n
<1>3. \A j \in 0 .. n : OpenAt(j)' <=> OpenAt(j)
  BY <1>1, <1>2 DEF OpenAt, At
<1>4. \A j \in 0 .. n + 2 : OpenAt(j)' => j \in 0 .. n
  BY <1>1 DEF OpenAt, At
<1>5. \A j \in 0 .. n + 2, k \in 1 .. n + 2 :
        OpenAt(j)' /\ j < k /\ rtEvs'[k].op \in {"remote", "idle"} =>
        \E c \in 1 .. n + 2 : j < c /\ c < k /\ rtEvs'[c].op = "closed"
  <2> SUFFICES ASSUME NEW j \in 0 .. n, NEW k \in 1 .. n + 2,
                      OpenAt(j), j < k, rtEvs'[k].op \in {"remote", "idle"}
               PROVE  \E c \in 1 .. n + 2 : j < c /\ c < k /\ rtEvs'[c].op = "closed"
    BY <1>1, <1>3, <1>4
  <2>1. CASE k = n + 2
    <3>1. n + 1 \in 1 .. n + 2 /\ j < n + 1 /\ n + 1 < k /\ rtEvs'[n + 1].op = "closed"
      BY ONLY <1>1, <2>1, j \in 0 .. n
    <3> QED BY <3>1
  <2>2. CASE k \in 1 .. n
    <3>1. PICK c \in 1 .. n : j < c /\ c < k /\ At("closed", c)
      BY <1>1, <2>2 DEF FlowInv, ClosedBetween, n
    <3> QED BY <1>1, <3>1 DEF At
  <2>3. n + 1 \in 1 .. n + 2 /\ rtEvs'[n + 1].op \notin {"remote", "idle"}
    BY <1>1
  <2>4. k \in 1 .. n \/ k = n + 1 \/ k = n + 2
    BY <1>1
  <2> QED BY <2>1, <2>2, <2>3, <2>4
<1>6. \A j \in 0 .. n + 2 : OpenAt(j)' => \E c \in 1 .. n + 2 : j < c /\ rtEvs'[c].op = "closed"
  <2> TAKE j \in 0 .. n + 2
  <2> HAVE OpenAt(j)'
  <2>1. n + 1 \in 1 .. n + 2 /\ j < n + 1 /\ rtEvs'[n + 1].op = "closed"
    BY <1>1, <1>4
  <2> QED BY <2>1
<1>7. ClosedBetween'
  BY ONLY <1>1, <1>5 DEF ClosedBetween, At
<1>8. HeldOrClosed'
  BY ONLY <1>1, <1>6 DEF HeldOrClosed, At
<1>9. GrabIsNewest'
  BY DEF GrabIsNewest
<1>10. n + 1 \in DOMAIN rtEvs' /\ rtEvs'[n + 1].op = "closed"
  BY ONLY <1>1
<1>11. \E c \in DOMAIN rtEvs' : rtEvs'[c].op = "closed"
  BY <1>10
<1> QED BY <1>1, <1>7, <1>8, <1>9, <1>11 DEF FlowInv, At

(* The loop takes the next event: a Closed ends the activation, an Idle or a *)
(* Remote finds none.                                                        *)
LEMMA FlowHead ==
  ASSUME PortInv, FlowInv, rtEvs # <<>>, Head(rtEvs).op \in {"remote", "idle"}
  PROVE  ~Begun
<1>1. 1 \in DOMAIN rtEvs /\ Head(rtEvs) = rtEvs[1] /\ Len(rtEvs) \in Nat
  BY TailAt DEF PortInv
<1> QED BY <1>1 DEF FlowInv, ClosedBetween, OpenAt

LEMMA FlowTakes ==
  ASSUME PortInv, FlowInv, rtEvs # <<>>, rtEvs' = Tail(rtEvs), phase' = phase,
         Begun' => (Begun /\ Head(rtEvs).op # "closed") \/ Head(rtEvs).op = "remote"
  PROVE  /\ FlowInv'
         /\ Begun' /\ (\E c \in DOMAIN rtEvs : At("closed", c)) /\ Head(rtEvs).op # "closed" =>
              \E c \in DOMAIN rtEvs' : At("closed", c)'
         /\ phase = "Remote" /\ Head(rtEvs).op # "remote" => \E c \in DOMAIN rtEvs' : At("remote", c)'
<1> DEFINE n == Len(rtEvs) - 1
<1>1. /\ n \in Nat /\ DOMAIN rtEvs = 1 .. n + 1 /\ DOMAIN rtEvs' = 1 .. n /\ Len(rtEvs') = n
      /\ Len(rtEvs) = n + 1 /\ \A k \in 1 .. n : rtEvs'[k] = rtEvs[k + 1]
      /\ Head(rtEvs) = rtEvs[1] /\ (rtEvs' # <<>> => n # 0)
  BY TailAt DEF PortInv
<1> HIDE DEF n
(* Where an open activation stood before. *)
<1>2. \A j \in 0 .. n : OpenAt(j)' =>
        \E i \in 0 .. n + 1 : OpenAt(i) /\ i <= j + 1 /\ (i = 0 => j = 0 /\ rtEvs[1].op # "closed")
                                /\ (i # 0 => i = j + 1)
  <2> TAKE j \in 0 .. n
  <2> HAVE OpenAt(j)'
  <2>1. CASE j = 0 /\ Begun'
    <3>1. CASE Begun /\ Head(rtEvs).op # "closed"
      BY <1>1, <2>1, <3>1 DEF OpenAt
    <3>2. CASE Head(rtEvs).op = "remote"
      BY <1>1, <2>1, <3>2 DEF OpenAt, At
    <3> QED BY <2>1, <3>1, <3>2
  <2>2. CASE j \in 1 .. n /\ rtEvs'[j].op = "remote"
    BY <1>1, <2>2 DEF OpenAt, At
  <2> QED BY <1>1, <2>1, <2>2 DEF OpenAt, At
<1>3. \A j \in 0 .. n, k \in 1 .. n :
        OpenAt(j)' /\ j < k /\ rtEvs'[k].op \in {"remote", "idle"} =>
        \E c \in 1 .. n : j < c /\ c < k /\ rtEvs'[c].op = "closed"
  <2> SUFFICES ASSUME NEW j \in 0 .. n, NEW k \in 1 .. n, OpenAt(j)', j < k,
                      rtEvs'[k].op \in {"remote", "idle"}
               PROVE  \E c \in 1 .. n : j < c /\ c < k /\ rtEvs'[c].op = "closed"
    OBVIOUS
  <2>1. PICK i \in 0 .. n + 1 : OpenAt(i) /\ i <= j + 1
          /\ (i = 0 => j = 0 /\ rtEvs[1].op # "closed") /\ (i # 0 => i = j + 1)
    BY <1>2
  <2>2. PICK c \in 1 .. n + 1 : i < c /\ c < k + 1 /\ rtEvs[c].op = "closed"
    <3>1. rtEvs[k + 1].op \in {"remote", "idle"} /\ k + 1 \in 1 .. n + 1 /\ i < k + 1
      BY <1>1, <2>1
    <3> QED BY <1>1, <2>1, <3>1 DEF FlowInv, ClosedBetween, At
  <2>3. c # 1 /\ j < c - 1 /\ c - 1 < k
    BY <2>1, <2>2, <1>1
  <2>4. c - 1 \in 1 .. n /\ rtEvs'[c - 1] = rtEvs[c]
    BY <1>1, <2>2, <2>3
  <2> QED BY <2>2, <2>3, <2>4
<1>4. \A j \in 0 .. n : OpenAt(j)' =>
        Live(phase') \/ \E c \in 1 .. n : j < c /\ rtEvs'[c].op = "closed"
  <2> SUFFICES ASSUME NEW j \in 0 .. n, OpenAt(j)', ~Live(phase')
               PROVE  \E c \in 1 .. n : j < c /\ rtEvs'[c].op = "closed"
    OBVIOUS
  <2>1. PICK i \in 0 .. n + 1 : OpenAt(i) /\ i <= j + 1
          /\ (i = 0 => j = 0 /\ rtEvs[1].op # "closed") /\ (i # 0 => i = j + 1)
    BY <1>2
  <2>2. PICK c \in 1 .. n + 1 : i < c /\ rtEvs[c].op = "closed"
    BY <1>1, <2>1 DEF FlowInv, HeldOrClosed, At
  <2>3. c # 1 /\ j < c - 1
    BY <2>1, <2>2, <1>1
  <2>4. c - 1 \in 1 .. n /\ rtEvs'[c - 1] = rtEvs[c]
    BY <1>1, <2>2, <2>3
  <2> QED BY <2>2, <2>3, <2>4
<1>5. phase' = "Remote" /\ n # 0 => rtEvs'[n].op = "remote"
  <2> HAVE phase' = "Remote" /\ n # 0
  <2>1. rtEvs[n + 1].op = "remote"
    BY <1>1 DEF FlowInv, GrabIsNewest, At
  <2> QED BY <1>1, <2>1
<1>6. FlowInv'
  <2>0. DOMAIN rtEvs' = 1 .. n /\ Len(rtEvs') = n
    BY <1>1
  <2>1. ClosedBetween'
    BY ONLY <2>0, <1>3 DEF ClosedBetween, At
  <2>2. HeldOrClosed'
    BY ONLY <1>1, <1>4 DEF HeldOrClosed, At
  <2>3. GrabIsNewest'
    BY ONLY <1>1, <1>5 DEF GrabIsNewest, At
  <2> QED BY <2>1, <2>2, <2>3 DEF FlowInv
<1>7. ASSUME \E c \in 1 .. n + 1 : rtEvs[c].op = "closed", rtEvs[1].op # "closed"
      PROVE  \E c \in 1 .. n : rtEvs'[c].op = "closed"
  <2>1. PICK c \in 1 .. n + 1 : rtEvs[c].op = "closed"
    BY <1>7
  <2>2. c - 1 \in 1 .. n /\ rtEvs'[c - 1] = rtEvs[c]
    BY <1>1, <1>7, <2>1
  <2> QED BY <2>1, <2>2
<1>8. phase = "Remote" /\ rtEvs[1].op # "remote" => \E c \in 1 .. n : rtEvs'[c].op = "remote"
  <2> HAVE phase = "Remote" /\ rtEvs[1].op # "remote"
  <2>1. rtEvs[n + 1].op = "remote"
    BY <1>1 DEF FlowInv, GrabIsNewest, At
  <2>2. n # 0
    BY <2>1
  <2>3. n \in 1 .. n /\ rtEvs'[n] = rtEvs[n + 1]
    BY <1>1, <2>2
  <2> QED BY <2>1, <2>3
<1> QED BY <1>1, <1>6, <1>7, <1>8 DEF At

-----------------------------------------------------------------------------
(* The steps, by what they do to the queues *)

ReleaseQueued == \E k \in DOMAIN cmds : cmds[k].op = "release"

LEMMA Sends ==
  ASSUME PortInv, NEW cmd \in Command, SendRt(cmd)
  PROVE  /\ cmds' \in Seq(Command)
         /\ ReleaseQueued => ReleaseQueued'
         /\ cmd.op = "release" => ReleaseQueued'
<1>1. cmds' = Append(cmds, cmd) /\ cmds \in Seq(Command)
  BY DEF SendRt, PortInv
<1>2. /\ cmds' \in Seq(Command) /\ Len(cmds) \in Nat
      /\ DOMAIN cmds = 1 .. Len(cmds) /\ DOMAIN cmds' = 1 .. Len(cmds) + 1
      /\ \A k \in DOMAIN cmds : cmds'[k] = cmds[k]
      /\ cmds'[Len(cmds) + 1] = cmd
  BY <1>1, AppendAt
<1>3. Len(cmds) + 1 \in DOMAIN cmds' /\ DOMAIN cmds \subseteq DOMAIN cmds'
  BY ONLY <1>2
<1> QED BY <1>2, <1>3 DEF ReleaseQueued

LEMMA Releases ==
  ASSUME PortInv, ReleaseRuntime
  PROVE  cmds' \in Seq(Command) /\ ReleaseQueued'
<1>1. [op |-> "release", live |-> FALSE] \in Command
  BY DEF Command
<1> QED BY <1>1, Sends DEF ReleaseRuntime

(* The loop leaves the runtime's events queued. *)
LEMMA LoopKeeps ==
  ASSUME RouteInv, PortInv', UNCHANGED <<phase, rtEvs>>, Begun' => Begun,
         ReleaseQueued => ReleaseQueued', Begun => Begun' \/ ReleaseQueued',
         owner' # 0 => owner # 0
  PROVE  RouteInv'
<1>1. \A j : OpenAt(j)' => OpenAt(j)
  BY DEF OpenAt, At
<1>2. FlowInv'
  BY <1>1 DEF RouteInv, FlowInv, ClosedBetween, HeldOrClosed, GrabIsNewest, At
<1>3. HereInv'
  BY DEF RouteInv, HereInv, ReleaseQueued, At
<1> QED BY <1>2, <1>3 DEF RouteInv

(* The loop takes one of them. *)
LEMMA LoopTakes ==
  ASSUME RouteInv, PortInv', UNCHANGED <<phase, owner>>, rtEvs # <<>>, rtEvs' = Tail(rtEvs),
         Begun' => (Begun /\ Head(rtEvs).op # "closed") \/ (Head(rtEvs).op = "remote" /\ owner = 0),
         ReleaseQueued => ReleaseQueued',
         Head(rtEvs).op = "remote" => Begun' \/ ReleaseQueued'
  PROVE  RouteInv'
<1>1. /\ FlowInv'
      /\ Begun' /\ (\E c \in DOMAIN rtEvs : At("closed", c)) /\ Head(rtEvs).op # "closed" =>
           \E c \in DOMAIN rtEvs' : At("closed", c)'
      /\ phase = "Remote" /\ Head(rtEvs).op # "remote" => \E c \in DOMAIN rtEvs' : At("remote", c)'
  BY FlowTakes DEF RouteInv
<1>2. HereInv'
  <2>1. phase' = "Remote" /\ ~Begun' => (\E k \in DOMAIN rtEvs' : At("remote", k)') \/ ReleaseQueued'
    BY <1>1
  <2>2. Begun' /\ owner' # 0 => \E c \in DOMAIN rtEvs' : At("closed", c)'
    BY <1>1 DEF RouteInv, HereInv
  <2> QED BY <2>1, <2>2 DEF HereInv, ReleaseQueued
<1> QED BY <1>1, <1>2 DEF RouteInv

LEMMA PortReports ==
  ASSUME RouteInv, PortInv', NEW e \in RtEvent, rtEvs' = Append(rtEvs, e),
         UNCHANGED <<active, wait, owner>>,
         e.op \in {"remote", "idle"} => ~Live(phase),
         Live(phase') \/ (~Live(phase) /\ e.op # "remote"),
         phase' = "Remote" => e.op = "remote"
  PROVE  RouteInv'
<1>1. FlowInv'
  BY FlowReports DEF RouteInv
<1>2. /\ Len(rtEvs) + 1 \in DOMAIN rtEvs' /\ rtEvs'[Len(rtEvs) + 1] = e
      /\ \A k \in DOMAIN rtEvs : k \in DOMAIN rtEvs' /\ rtEvs'[k] = rtEvs[k]
  <2>1. rtEvs \in Seq(RtEvent)
    BY DEF RouteInv, PortInv
  <2>2. /\ Len(rtEvs) \in Nat
        /\ DOMAIN rtEvs = 1 .. Len(rtEvs) /\ DOMAIN rtEvs' = 1 .. Len(rtEvs) + 1
        /\ \A k \in DOMAIN rtEvs : rtEvs'[k] = rtEvs[k]
        /\ rtEvs'[Len(rtEvs) + 1] = e
    BY <2>1, AppendAt
  <2> QED BY ONLY <2>2
<1>3. Begun' <=> Begun
  BY DEF Begun
<1>4. HereInv'
  <2>1. phase' = "Remote" => \E k \in DOMAIN rtEvs' : rtEvs'[k].op = "remote"
    BY <1>2
  <2>2. Begun /\ owner # 0 => \E c \in DOMAIN rtEvs' : rtEvs'[c].op = "closed"
    BY <1>2 DEF RouteInv, HereInv, At
  <2> QED BY <1>3, <2>1, <2>2 DEF HereInv, At
<1> QED BY <1>1, <1>4 DEF RouteInv

LEMMA PortCloses ==
  ASSUME RouteInv, PortInv', ForceRelease, UNCHANGED <<active, wait, owner>>
  PROVE  RouteInv'
<1>1. phase' = "Idle" /\ rtEvs' = rtEvs \o <<Ev("closed"), Ev("idle")>>
  BY DEF ForceRelease, GiveBack, RtEmit
<1>2. FlowInv' /\ \E c \in DOMAIN rtEvs' : At("closed", c)'
  BY <1>1, FlowCloses DEF RouteInv
<1> QED BY <1>1, <1>2 DEF RouteInv, HereInv

LEMMA PortWaits ==
  ASSUME RouteInv, PortInv', UNCHANGED <<active, wait, owner, rtEvs>>,
         phase' = phase \/ (phase = "Idle" /\ phase' = "Arming"),
         phase = "Remote" /\ ReleaseQueued => ReleaseQueued'
  PROVE  RouteInv'
<1>1. /\ Begun' <=> Begun
      /\ \A j : OpenAt(j)' <=> OpenAt(j)
  BY DEF Begun, OpenAt, At
<1>2. FlowInv'
  BY <1>1 DEF RouteInv, FlowInv, ClosedBetween, HeldOrClosed, GrabIsNewest, At, Live
<1>3. HereInv'
  BY <1>1 DEF RouteInv, HereInv, ReleaseQueued, At
<1> QED BY <1>2, <1>3 DEF RouteInv

-----------------------------------------------------------------------------
(* Every step keeps RouteInv *)

LEMMA ReceiptFacts ==
  ASSUME wait \in Waiting, NEW cmd, NEW r \in {"ok", "failed"}
  PROVE  LET w == Receipt(cmd, r)
         IN  w \in Waiting /\ w.who = wait.who /\ w.next = wait.next
BY DEF Receipt, Waiting

LEMMA TasksStill ==
  ASSUME PortInv, Tasks
  PROVE  Still
<1>1. PICK i \in Ids : retire_session(i) \/ Negotiated(i) \/ RegisterDial(i) \/ RegisterAccepted(i)
                         \/ AcceptTimesOut(i) \/ DialAges(i)
  BY DEF Tasks
<1>2. UNCHANGED <<phase, peer, rtEvs, cmds, active, acts, wait, owner>> /\ (sessions' = sessions \/ Insert(i))
  <2>1. CASE retire_session(i)
    BY <2>1 DEF retire_session, mapVars, rtVars, queues
  <2>2. CASE Negotiated(i)
    BY <2>2 DEF Negotiated, mapVars, rtVars, queues
  <2>3. CASE RegisterDial(i)
    BY <2>3 DEF RegisterDial, mapVars, rtVars, queues
  <2>4. CASE RegisterAccepted(i)
    BY <2>4 DEF RegisterAccepted, mapVars, rtVars, queues
  <2>5. CASE AcceptTimesOut(i)
    BY <2>5 DEF AcceptTimesOut, mapVars, rtVars, queues
  <2>6. CASE DialAges(i)
    BY <2>6 DEF DialAges, mapVars, rtVars, queues
  <2> QED BY <1>1, <2>1, <2>2, <2>3, <2>4, <2>5, <2>6
<1>3. sessions' \in [Peers -> Nat]
  BY <1>2 DEF PortInv, Insert, Ids
<1> QED BY <1>2, <1>3 DEF Still, PortInv

LEMMA ActorsStill ==
  ASSUME PortInv, Actors
  PROVE  Still
<1>1. PICK i \in Ids : ActorStops(i) \/ BeginOutbound(i) \/ EndOutbound(i)
  BY DEF Actors
<1>2. UNCHANGED <<mapVars, rtVars, acts, queues>>
  BY <1>1 DEF ActorStops, BeginOutbound, EndOutbound
<1>3. \E cmd : wait' = wait \/ wait' = Receipt(cmd, "ok") \/ wait' = Receipt(cmd, "failed")
  <2>1. CASE ActorStops(i)
    BY <2>1 DEF ActorStops, Exit
  <2>2. CASE BeginOutbound(i)
    BY <2>2 DEF BeginOutbound, Exit
  <2>3. CASE EndOutbound(i)
    BY <2>3 DEF EndOutbound, Exit
  <2> QED BY <1>1, <2>1, <2>2, <2>3
<1>4. wait' \in Waiting /\ wait'.who = wait.who /\ wait'.next = wait.next
  BY <1>3, ReceiptFacts DEF PortInv
<1> QED BY <1>2, <1>4 DEF Still, PortInv, mapVars, rtVars, queues

LEMMA InputStill ==
  ASSUME PortInv, Network \/ (\E p \in Peers : Dial(p) \/ AcceptConnection(p))
                  \/ SetPermissions \/ SetSharing \/ SeatChanges
  PROVE  Still
<1>1. UNCHANGED <<mapVars, wait, rtVars, acts, queues>>
  <2>1. CASE Network
    BY <2>1 DEF Network, PeerInput, ConnectionLost, LeaseEnds
  <2>2. CASE \E p \in Peers : Dial(p) \/ AcceptConnection(p)
    BY <2>2 DEF Dial, AcceptConnection
  <2>3. CASE SetPermissions \/ SetSharing
    BY <2>3 DEF SetPermissions, SetSharing, ApplyConfig
  <2>4. CASE SeatChanges
    BY <2>4 DEF SeatChanges, UpdateSeatGate
  <2> QED BY <2>1, <2>2, <2>3, <2>4
<1> QED BY <1>1 DEF Still, PortInv, mapVars, rtVars, queues

LEMMA RoutesStill ==
  ASSUME PortInv, (\E allowed \in BOOLEAN : RouteEnter(allowed)) \/ RoutePress \/ RouteLeave \/ RouteRelease
  PROVE  Still
<1>1. UNCHANGED <<sessions, active, wait, rtVars, acts, queues>> /\ (owner' # 0 => owner # 0 \/ phase = "Idle")
  <2>1. CASE \E allowed \in BOOLEAN : RouteEnter(allowed)
    BY <2>1 DEF RouteEnter, claim_inbound
  <2>2. CASE RoutePress
    BY <2>2 DEF RoutePress
  <2>3. CASE RouteLeave
    BY <2>3 DEF RouteLeave
  <2>4. CASE RouteRelease
    BY <2>4 DEF RouteRelease
  <2> QED BY <2>1, <2>2, <2>3, <2>4
<1> QED BY <1>1 DEF Still, PortInv, rtVars, queues

(* Session events that end the active activation give the input back. *)
LEMMA EndedKeeps ==
  ASSUME RouteInv, OutboundEnded \/ SessionClosed
  PROVE  RouteInv'
<1>1. /\ UNCHANGED <<phase, peer, rtEvs, wait, acts>>
      /\ (active' = active /\ cmds' = cmds) \/ (active' = None /\ ReleaseRuntime)
      /\ owner' # 0 => owner # 0
  <2>1. CASE OutboundEnded
    BY <2>1 DEF OutboundEnded, rtVars
  <2>2. CASE SessionClosed
    BY <2>2 DEF SessionClosed, rtVars
  <2> QED BY <2>1, <2>2
<1>2. sessions' \in [Peers -> Nat]
  <2>1. CASE OutboundEnded
    BY <2>1 DEF OutboundEnded, RouteInv, PortInv
  <2>2. CASE SessionClosed
    BY <2>2 DEF SessionClosed, RouteInv, PortInv
  <2> QED BY <2>1, <2>2
<1>3. None \in Activation
  BY DEF None, Activation
<1>4. PortInv' /\ (ReleaseQueued => ReleaseQueued') /\ (Begun => Begun' \/ ReleaseQueued')
  <2>1. CASE active' = active /\ cmds' = cmds
    BY <1>1, <1>2, <2>1 DEF RouteInv, PortInv, ReleaseQueued, Begun
  <2>2. CASE active' = None /\ ReleaseRuntime
    <3>1. cmds' \in Seq(Command) /\ ReleaseQueued'
      BY <2>2, Releases DEF RouteInv
    <3> QED BY <1>1, <1>2, <1>3, <2>2, <3>1 DEF RouteInv, PortInv
  <2> QED BY <1>1, <2>1, <2>2
<1>5. Begun' => Begun
  BY <1>1 DEF Begun, None
<1> QED BY <1>1, <1>4, <1>5, LoopKeeps

LEMMA EndFinishesKeeps ==
  ASSUME RouteInv, EndFinishes
  PROVE  RouteInv'
<1>1. /\ UNCHANGED <<mapVars, phase, peer, rtEvs, acts>> /\ wait' = Free
      /\ wait.who \in {"terminal", "closed"}
      /\ cmds' = cmds \/ \E live \in BOOLEAN : SendRt([op |-> "sent", live |-> live])
  BY DEF EndFinishes, Answer, rtVars
<1>2. Free \in Waiting /\ Free.who = "none" /\ \A live \in BOOLEAN : [op |-> "sent", live |-> live] \in Command
  BY DEF Free, Waiting, Command
<1>3. cmds' \in Seq(Command) /\ (ReleaseQueued => ReleaseQueued')
  <2>1. CASE cmds' = cmds
    BY <2>1 DEF ReleaseQueued, RouteInv, PortInv
  <2>2. CASE \E live \in BOOLEAN : SendRt([op |-> "sent", live |-> live])
    BY <1>2, <2>2, Sends DEF RouteInv
  <2> QED BY <1>1, <2>1, <2>2
<1>4. PortInv'
  BY <1>1, <1>2, <1>3 DEF RouteInv, PortInv, mapVars
<1>5. Begun' <=> Begun
  BY <1>1, <1>2 DEF Begun, mapVars
<1> QED BY <1>1, <1>3, <1>4, <1>5, LoopKeeps DEF mapVars

LEMMA CommandsKeep ==
  ASSUME RouteInv, ForwardCapture \/ LocalRelease \/ \E p \in Peers : Activate(p)
  PROVE  RouteInv'
<1>1. /\ UNCHANGED <<mapVars, phase, peer, rtEvs, acts, wait>>
      /\ cmds' = cmds \/ \E cmd \in Command : SendRt(cmd)
  <2>1. CASE ForwardCapture
    <3>1. [op |-> "release", live |-> FALSE] \in Command
      BY DEF Command
    <3> QED BY <2>1, <3>1 DEF ForwardCapture, rtVars, ReleaseRuntime
  <2>2. CASE LocalRelease
    <3>1. [op |-> "release", live |-> TRUE] \in Command
      BY DEF Command
    <3> QED BY <2>2, <3>1 DEF LocalRelease, rtVars
  <2>3. CASE \E p \in Peers : Activate(p)
    <3>1. \A p \in Peers : [op |-> "activate", peer |-> p] \in Command
      BY DEF Command
    <3> QED BY <2>3, <3>1 DEF Activate, rtVars
  <2> QED BY <2>1, <2>2, <2>3
<1>2. cmds' \in Seq(Command) /\ (ReleaseQueued => ReleaseQueued')
  BY <1>1, Sends DEF ReleaseQueued, RouteInv, PortInv
<1>3. PortInv'
  BY <1>1, <1>2 DEF RouteInv, PortInv, mapVars
<1>4. Begun' <=> Begun
  BY <1>1 DEF Begun, mapVars
<1> QED BY <1>1, <1>2, <1>3, <1>4, LoopKeeps DEF mapVars

LEMMA HopKeeps ==
  ASSUME RouteInv, SwitchFinishes \/ \E p \in Peers : SwitchOutbound(p)
  PROVE  RouteInv'
<1>1. None \in Activation /\ None.id = 0 /\ Free \in Waiting /\ Free.who = "none"
  BY DEF None, Activation, Free, Waiting
<1>2. CASE \E p \in Peers : SwitchOutbound(p)
  <2>1. PICK p \in Peers : SwitchOutbound(p)
    BY <1>2
  <2>2. /\ UNCHANGED <<sessions, owner, phase, peer, cmds, rtEvs>>
        /\ active.id # 0 /\ sessions[p] # 0 /\ active' = None /\ acts' = acts + 1
        /\ \E r \in {"none", "ok", "failed"} :
             wait' = [who |-> "hop", id |-> active.id, act |-> active.act, next |-> sessions[p], receipt |-> r]
    BY <2>1 DEF SwitchOutbound, rtVars, queues
  <2>3. wait' \in Waiting /\ wait'.who = "hop" /\ wait'.next # 0
    BY <2>2 DEF Waiting, RouteInv, PortInv, Activation
  <2>4. PortInv'
    BY <1>1, <2>2, <2>3 DEF RouteInv, PortInv
  <2> QED BY <2>2, <2>3, <2>4, LoopKeeps DEF Begun, ReleaseQueued
<1>3. CASE SwitchFinishes
  <2>1. /\ UNCHANGED <<sessions, owner, phase, peer, rtEvs, acts>> /\ wait' = Free /\ wait.who = "hop"
        /\ \/ active' = [id |-> wait.next, act |-> acts] /\ cmds' = cmds
           \/ active' = active /\ ReleaseRuntime
    BY <1>3 DEF SwitchFinishes, rtVars
  <2>2. [id |-> wait.next, act |-> acts] \in Activation /\ wait.next # 0
    BY <2>1 DEF RouteInv, PortInv, Waiting, Activation
  <2>3. cmds' \in Seq(Command) /\ (ReleaseQueued => ReleaseQueued') /\ (cmds' = cmds \/ ReleaseQueued')
    BY <2>1, Releases DEF ReleaseQueued, RouteInv, PortInv
  <2>4. PortInv'
    BY <1>1, <2>1, <2>2, <2>3 DEF RouteInv, PortInv
  <2>5. Begun /\ (Begun' \/ ReleaseQueued')
    <3>1. CASE active' = [id |-> wait.next, act |-> acts]
      BY <2>1, <2>2, <3>1 DEF Begun
    <3>2. CASE ReleaseRuntime
      BY <2>1, <3>2, Releases DEF Begun, RouteInv
    <3> QED BY <2>1, <3>1, <3>2
  <2> QED BY <2>1, <2>3, <2>4, <2>5, LoopKeeps
<1> QED BY <1>2, <1>3

LEMMA RuntimeEventsKeep ==
  ASSUME RouteInv, RuntimeEvents
  PROVE  RouteInv'
<1>0. None \in Activation /\ None.id = 0
  BY DEF None, Activation
<1>1. CASE RuntimeRemote
  <2> DEFINE p == Head(rtEvs).peer
  <2>1. /\ UNCHANGED <<sessions, owner, phase, peer, wait>> /\ rtEvs' = Tail(rtEvs)
        /\ rtEvs # <<>> /\ Head(rtEvs).op = "remote" /\ PolicyFree
        /\ \/ /\ MayBegin(p) /\ acts' = acts + 1 /\ cmds' = cmds
              /\ active' = [id |-> sessions[p], act |-> acts + 1]
           \/ ReleaseRuntime /\ UNCHANGED <<active, acts>>
    BY <1>1 DEF RuntimeRemote, NextRt, rtVars
  <2>2. Head(rtEvs) \in RtEvent /\ Tail(rtEvs) \in Seq(RtEvent)
    BY <2>1, TailAt DEF RouteInv, PortInv
  <2>3. p \in Peers
    BY <2>1, <2>2 DEF RtEvent
  <2> HIDE DEF p
  <2>4. [id |-> sessions[p], act |-> acts + 1] \in Activation
    BY <2>3 DEF RouteInv, PortInv, Activation
  <2>5. ~Begun
    BY <2>1, FlowHead DEF RouteInv
  <2>6. /\ PortInv' /\ (ReleaseQueued => ReleaseQueued')
        /\ (Begun' /\ owner = 0) \/ (~Begun' /\ ReleaseQueued')
    <3>1. CASE /\ MayBegin(p) /\ acts' = acts + 1 /\ cmds' = cmds
               /\ active' = [id |-> sessions[p], act |-> acts + 1]
      BY <2>1, <2>2, <2>4, <3>1 DEF RouteInv, PortInv, PolicyFree, ReleaseQueued, Begun, MayBegin
    <3>2. CASE ReleaseRuntime /\ UNCHANGED <<active, acts>>
      <4>1. cmds' \in Seq(Command) /\ ReleaseQueued'
        BY <3>2, Releases DEF RouteInv
      <4>2. ~Begun'
        BY <2>1, <2>5, <3>2 DEF Begun
      <4> QED BY <2>1, <2>2, <3>2, <4>1, <4>2 DEF RouteInv, PortInv, PolicyFree
    <3> QED BY <2>1, <3>1, <3>2
  <2> QED BY <2>1, <2>6, LoopTakes
<1>2. CASE RuntimeIdle
  <2>1. /\ UNCHANGED <<sessions, owner, phase, peer, wait, acts, cmds>> /\ rtEvs' = Tail(rtEvs)
        /\ rtEvs # <<>> /\ Head(rtEvs).op = "idle" /\ active' = None
    BY <1>2 DEF RuntimeIdle, NextRt, rtVars
  <2>2. Tail(rtEvs) \in Seq(RtEvent)
    BY <2>1, TailAt DEF RouteInv, PortInv
  <2>3. ~Begun' /\ PortInv' /\ (ReleaseQueued => ReleaseQueued')
    <3>1. ~Begun
      BY <2>1, FlowHead DEF RouteInv
    <3> QED BY <1>0, <2>1, <2>2, <3>1 DEF RouteInv, PortInv, Begun, ReleaseQueued
  <2> QED BY <2>1, <2>3, LoopTakes
<1>3. ASSUME NEW who \in {"terminal", "closed"}, EndActive(who)
      PROVE  RouteInv'
  <2>1. /\ UNCHANGED <<sessions, owner, phase, peer, acts, cmds>> /\ rtEvs' = Tail(rtEvs)
        /\ rtEvs # <<>> /\ Head(rtEvs).op = who /\ active' = None
        /\ \E r \in {"none", "failed"} :
             wait' = [who |-> who, id |-> active.id, act |-> active.act, next |-> 0, receipt |-> r]
    BY <1>3 DEF EndActive, NextRt, rtVars
  <2>2. Tail(rtEvs) \in Seq(RtEvent)
    BY <2>1, TailAt DEF RouteInv, PortInv
  <2>3. wait' \in Waiting /\ wait'.who = who
    BY <2>1 DEF Waiting, RouteInv, PortInv, Activation
  <2>4. ~Begun' /\ PortInv' /\ (ReleaseQueued => ReleaseQueued')
    BY <1>0, <2>1, <2>2, <2>3 DEF RouteInv, PortInv, Begun, ReleaseQueued
  <2> QED BY <2>1, <2>4, LoopTakes
<1> QED BY <1>1, <1>2, <1>3 DEF RuntimeEvents, RuntimeTerminal, RuntimeClosed

LEMMA PortRefuses ==
  ASSUME PortInv, rtEvs' \in Seq(RtEvent), cmds' \in Seq(Command), UNCHANGED <<active, wait, acts, sessions>>,
         phase' \in {"Idle", "Arming", "Remote", "Releasing"}, phase' # "Idle" => peer' \in Peers
  PROVE  PortInv'
BY DEF PortInv

LEMMA RuntimeKeeps ==
  ASSUME RouteInv, RtGrab \/ RtGrabFails \/ RtEscape \/ RtFault \/ RtUngrab \/ RtCapture
  PROVE  RouteInv'
<1>1. UNCHANGED <<active, wait, acts, sessions, owner>> /\ cmds' = cmds
  BY DEF RtGrab, RtGrabFails, RtEscape, RtFault, RtUngrab, RtCapture, rtRest, mapVars
<1>2. CASE RtGrab
  <2> DEFINE e == [op |-> "remote", peer |-> peer]
  <2>1. phase = "Arming" /\ phase' = "Remote" /\ peer' = peer /\ rtEvs' = rtEvs \o <<e>>
    BY <1>2 DEF RtGrab, Grab, RtEmit
  <2>2. e \in RtEvent /\ e.op = "remote"
    BY <2>1 DEF RtEvent, RouteInv, PortInv
  <2> HIDE DEF e
  <2>3. rtEvs' = Append(rtEvs, e) /\ rtEvs' \in Seq(RtEvent)
    BY <2>1, <2>2, OneIsAppended, AppendAt DEF RouteInv, PortInv
  <2>4. PortInv'
    BY <1>1, <2>1, <2>3, PortRefuses DEF RouteInv, PortInv
  <2> QED BY <1>1, <2>1, <2>2, <2>3, <2>4, PortReports DEF Live
<1>3. CASE RtGrabFails
  <2>1. phase = "Arming" /\ phase' = "Idle" /\ rtEvs' = rtEvs \o <<Ev("idle")>>
    BY <1>3 DEF RtGrabFails, GiveBack, RtEmit
  <2>2. Ev("idle") \in RtEvent /\ Ev("idle").op = "idle"
    BY DEF RtEvent, Ev
  <2>3. rtEvs' = Append(rtEvs, Ev("idle")) /\ rtEvs' \in Seq(RtEvent)
    BY <2>1, <2>2, OneIsAppended, AppendAt DEF RouteInv, PortInv
  <2>4. PortInv'
    BY <1>1, <2>1, <2>3, PortRefuses DEF RouteInv, PortInv
  <2> QED BY <1>1, <2>1, <2>2, <2>3, <2>4, PortReports DEF Live
<1>4. CASE RtEscape
  <2>1. phase = "Remote" /\ phase' = "Releasing" /\ peer' = peer /\ rtEvs' = rtEvs \o <<Ev("terminal")>>
    BY <1>4 DEF RtEscape, AskTerminal, RtEmit
  <2>2. Ev("terminal") \in RtEvent /\ Ev("terminal").op = "terminal"
    BY DEF RtEvent, Ev
  <2>3. rtEvs' = Append(rtEvs, Ev("terminal")) /\ rtEvs' \in Seq(RtEvent)
    BY <2>1, <2>2, OneIsAppended, AppendAt DEF RouteInv, PortInv
  <2>4. PortInv'
    BY <1>1, <2>1, <2>3, PortRefuses DEF RouteInv, PortInv
  <2> QED BY <1>1, <2>1, <2>2, <2>3, <2>4, PortReports DEF Live
<1>5. CASE RtFault \/ RtUngrab
  <2>1. ForceRelease
    BY <1>5 DEF RtFault, RtUngrab
  <2>2. rtEvs' \in Seq(RtEvent) /\ phase' = "Idle"
    BY <1>1, <2>1, FlowCloses DEF ForceRelease, GiveBack, RtEmit, RouteInv
  <2>3. PortInv'
    BY <1>1, <2>2, PortRefuses DEF RouteInv, PortInv
  <2> QED BY <1>1, <2>1, <2>3, PortCloses
<1>6. CASE RtCapture
  <2>1. UNCHANGED <<phase, peer, rtEvs>>
    BY <1>6 DEF RtCapture, rtVars
  <2>2. PortInv'
    BY <1>1, <2>1, PortRefuses DEF RouteInv, PortInv
  <2> QED BY <1>1, <2>1, <2>2, PortWaits DEF ReleaseQueued
<1> QED BY <1>2, <1>3, <1>4, <1>5, <1>6

(* handle_command: a release that is taken off the queue ends the grab. *)
LEMMA CommandKeeps ==
  ASSUME RouteInv, RtCommand
  PROVE  RouteInv'
<1> DEFINE cmd == Head(cmds)
<1>1. /\ UNCHANGED <<active, wait, acts, sessions, owner>> /\ cmds' = Tail(cmds) /\ cmds # <<>>
      /\ \/ cmd.op = "activate" /\ Arm /\ peer' = cmd.peer /\ UNCHANGED rtEvs
         \/ cmd.op # "release" /\ UNCHANGED <<phase, peer, rtEvs>>
         \/ phase = "Releasing" /\ UNCHANGED <<phase, peer, rtEvs>>
         \/ phase = "Idle" /\ UNCHANGED <<phase, peer, rtEvs>>
         \/ phase = "Idle" /\ phase' = "Idle" /\ RtEmit(<<Ev("idle")>>)
         \/ ForceRelease
         \/ AskTerminal /\ RtEmit(<<Ev("terminal")>>) /\ UNCHANGED peer
  BY DEF RtCommand, rtRest, mapVars, rtVars, ConfirmTerminal
<1>2. /\ cmds' \in Seq(Command) /\ cmd \in Command
      /\ cmd.op # "release" => (ReleaseQueued => ReleaseQueued')
  <2>1. /\ Tail(cmds) \in Seq(Command) /\ Len(cmds) \in Nat /\ Head(cmds) = cmds[1] /\ cmd \in Command
        /\ DOMAIN cmds = 1 .. Len(cmds) /\ DOMAIN Tail(cmds) = 1 .. Len(cmds) - 1
        /\ \A k \in DOMAIN Tail(cmds) : Tail(cmds)[k] = cmds[k + 1]
    BY <1>1, TailAt DEF RouteInv, PortInv
  <2>2. ASSUME cmd.op # "release", NEW k \in DOMAIN cmds, cmds[k].op = "release"
        PROVE  \E m \in DOMAIN Tail(cmds) : Tail(cmds)[m].op = "release"
    <3>1. k # 1
      BY <2>1, <2>2
    <3>2. k - 1 \in DOMAIN Tail(cmds) /\ Tail(cmds)[k - 1] = cmds[k]
      BY <2>1, <3>1
    <3> QED BY <2>2, <3>2
  <2> QED BY <1>1, <2>1, <2>2 DEF ReleaseQueued
<1>3. CASE cmd.op = "activate" /\ Arm /\ peer' = cmd.peer /\ UNCHANGED rtEvs
  <2>1. phase = "Idle" /\ phase' = "Arming" /\ peer' \in Peers
    BY <1>2, <1>3 DEF Arm, Command
  <2>2. PortInv'
    BY <1>1, <1>2, <1>3, <2>1, PortRefuses DEF RouteInv, PortInv
  <2> QED BY <1>1, <1>3, <2>1, <2>2, PortWaits
<1>4. CASE cmd.op # "release" /\ UNCHANGED <<phase, peer, rtEvs>>
  <2>1. PortInv'
    BY <1>1, <1>2, <1>4, PortRefuses DEF RouteInv, PortInv
  <2> QED BY <1>1, <1>2, <1>4, <2>1, PortWaits
<1>5. CASE phase \in {"Idle", "Releasing"} /\ UNCHANGED <<phase, peer, rtEvs>>
  <2>1. PortInv'
    BY <1>1, <1>2, <1>5, PortRefuses DEF RouteInv, PortInv
  <2> QED BY <1>1, <1>5, <2>1, PortWaits
<1>6. CASE phase = "Idle" /\ phase' = "Idle" /\ RtEmit(<<Ev("idle")>>)
  <2>1. Ev("idle") \in RtEvent /\ Ev("idle").op = "idle"
    BY DEF RtEvent, Ev
  <2>2. rtEvs' = Append(rtEvs, Ev("idle")) /\ rtEvs' \in Seq(RtEvent)
    BY <1>6, <2>1, OneIsAppended, AppendAt DEF RtEmit, RouteInv, PortInv
  <2>3. PortInv'
    BY <1>1, <1>2, <1>6, <2>2, PortRefuses DEF RouteInv, PortInv
  <2> QED BY <1>1, <1>6, <2>1, <2>2, <2>3, PortReports DEF Live
<1>7. CASE ForceRelease
  <2>1. rtEvs' \in Seq(RtEvent) /\ phase' = "Idle"
    BY <1>1, <1>7, FlowCloses DEF ForceRelease, GiveBack, RtEmit, RouteInv
  <2>2. PortInv'
    BY <1>1, <1>2, <2>1, PortRefuses DEF RouteInv, PortInv
  <2> QED BY <1>1, <1>7, <2>2, PortCloses
<1>8. CASE AskTerminal /\ RtEmit(<<Ev("terminal")>>) /\ UNCHANGED peer
  <2>1. Ev("terminal") \in RtEvent /\ Ev("terminal").op = "terminal" /\ phase = "Remote" /\ phase' = "Releasing"
    BY <1>8 DEF RtEvent, Ev, AskTerminal
  <2>2. rtEvs' = Append(rtEvs, Ev("terminal")) /\ rtEvs' \in Seq(RtEvent)
    BY <1>8, <2>1, OneIsAppended, AppendAt DEF RtEmit, RouteInv, PortInv
  <2>3. PortInv'
    BY <1>1, <1>2, <1>8, <2>1, <2>2, PortRefuses DEF RouteInv, PortInv
  <2> QED BY <1>1, <2>1, <2>2, <2>3, PortReports DEF Live
<1> QED BY <1>1, <1>3, <1>4, <1>5, <1>6, <1>7, <1>8

LEMMA RouteStep ==
  ASSUME RouteInv, [Next]_vars
  PROVE  RouteInv'
<1>0. PortInv
  BY DEF RouteInv
<1>1. CASE Tasks \/ Actors \/ Network \/ (\E p \in Peers : Dial(p) \/ AcceptConnection(p))
           \/ SetPermissions \/ SetSharing \/ SeatChanges
           \/ (\E allowed \in BOOLEAN : RouteEnter(allowed)) \/ RoutePress \/ RouteLeave \/ RouteRelease
  BY <1>0, <1>1, TasksStill, ActorsStill, InputStill, RoutesStill, StillKeeps
<1>2. CASE OutboundEnded \/ SessionClosed \/ RuntimeEvents \/ ForwardCapture
  BY <1>2, EndedKeeps, RuntimeEventsKeep, CommandsKeep
<1>3. CASE EndFinishes \/ SwitchFinishes \/ LocalRelease \/ \E p \in Peers : Activate(p) \/ SwitchOutbound(p)
  BY <1>3, EndFinishesKeeps, HopKeeps, CommandsKeep
<1>4. CASE Runtime
  BY <1>4, RuntimeKeeps, CommandKeeps DEF Runtime
<1>5. CASE UNCHANGED vars
  <2>1. Still
    BY <1>0, <1>5 DEF vars, Still, PortInv, mapVars, rtVars, queues
  <2> QED BY <2>1, StillKeeps
<1> QED BY <1>1, <1>2, <1>3, <1>4, <1>5 DEF Next, Requests, Loop, SessionEvents

LEMMA RouteInit ==
  ASSUME Init
  PROVE  RouteInv
<1>1. <<>> \in Seq(RtEvent) /\ <<>> \in Seq(Command) /\ None \in Activation /\ Free \in Waiting
  BY EmptySeq DEF None, Activation, Free, Waiting
<1>2. PortInv
  BY <1>1 DEF Init, PortInit, PortInv, Free
<1>3. ~Begun /\ \A j : ~OpenAt(j)
  BY DEF Init, Begun, None, Free, OpenAt
<1> QED BY <1>2, <1>3 DEF RouteInv, FlowInv, ClosedBetween, HeldOrClosed, GrabIsNewest, HereInv, Init, PortInit

(* The routing invariant is inductive by itself.                             *)
THEOREM Routed == Spec => []RouteInv
<1> QED BY RouteInit, RouteStep, PTL DEF Spec

(* Captured input always has somewhere to go once the queues are drained     *)
(* (handle_runtime_event and handle_session_event on every order of release, *)
(* hop and lost session).                                                    *)
THEOREM InputHasAPlace == Spec => []InputGoesSomewhere
<1>1. RouteInv => InputGoesSomewhere
  <2> SUFFICES ASSUME RouteInv, Quiet
               PROVE  (phase = "Idle" => active.id = 0) /\ (phase = "Remote" => active.id # 0)
    BY DEF InputGoesSomewhere
  <2>1. DOMAIN rtEvs = {} /\ DOMAIN cmds = {} /\ Len(rtEvs) = 0 /\ wait.who = "none"
    BY DEF Quiet, PolicyFree
  <2>2. phase = "Idle" => ~Begun
    BY <2>1 DEF RouteInv, FlowInv, HeldOrClosed, OpenAt, Live
  <2>3. phase = "Remote" => Begun
    BY <2>1 DEF RouteInv, HereInv
  <2> QED BY <2>1, <2>2, <2>3 DEF Begun
<1> QED BY <1>1, Routed, PTL

(* A computer that another one controls sends none of its own input          *)
(* (begin_outbound, claim_inbound, route_capture).                           *)
THEOREM ControlledSendsNothing == Spec => NoSendWhileControlled
<1>1. RouteInv /\ [Next]_vars => [ForwardCapture /\ Forwards => owner = 0]_vars
  <2> SUFFICES ASSUME RouteInv, ForwardCapture, Forwards
               PROVE  owner = 0
    OBVIOUS
  <2>1. DOMAIN rtEvs = {} /\ Begun
    BY DEF ForwardCapture, Forwards, Begun
  <2> QED BY <2>1 DEF RouteInv, HereInv
<1> QED BY <1>1, Routed, PTL DEF Spec, NoSendWhileControlled

-----------------------------------------------------------------------------
LEMMA FunctionSeq ==
  ASSUME NEW S, NEW n \in Nat, NEW f \in [1 .. n -> S]
  PROVE  f \in Seq(S) /\ Len(f) = n /\ DOMAIN f = 1 .. n
<1>1. f \in Seq(S)
  BY SeqDef
<1>2. DOMAIN f = 1 .. n
  OBVIOUS
<1>3. Len(f) = n
  BY <1>1, <1>2, LenProperties
<1> QED BY <1>1, <1>2, <1>3

Queued == [op : {"begin", "end"}, act : Nat]
Session == [peer : Peers, dir : {"in", "out"}, task : {"retire", "setup", "ready", "done"},
            actor : {"none", "run", "asking", "cleanup", "over"},
            stale : BOOLEAN, fresh : BOOLEAN, lost : BOOLEAN, out : Nat, inb : BOOLEAN,
            queue : Seq(Queued)]

Calm(a, b) ==
  /\ b.peer = a.peer /\ b.dir = a.dir /\ b.task = a.task /\ b.actor = a.actor
  /\ b.out = a.out /\ b.inb = a.inb /\ b.queue = a.queue
  /\ a.lost => b.lost

LEMMA PutFacts ==
  ASSUME NEW f \in Seq(Session), NEW i \in DOMAIN f, NEW r \in Session
  PROVE  LET g == [f EXCEPT ![i] = r]
         IN  /\ g \in Seq(Session) /\ Len(g) = Len(f) /\ DOMAIN g = DOMAIN f
             /\ g[i] = r /\ \A j \in DOMAIN f \ {i} : g[j] = f[j]
  OBVIOUS

LEMMA LostField ==
  ASSUME NEW a \in Session, NEW l \in BOOLEAN
  PROVE  LET b == [a EXCEPT !.lost = l]
         IN  /\ b \in Session /\ b.lost = l
             /\ b.peer = a.peer /\ b.dir = a.dir /\ b.task = a.task /\ b.actor = a.actor
             /\ b.out = a.out /\ b.inb = a.inb /\ b.queue = a.queue
             /\ b.fresh = a.fresh /\ b.stale = a.stale
BY DEF Session

LEMMA CloseFacts ==
  ASSUME NEW f \in Seq(Session), NEW is
  PROVE  LET g == close(f, is)
         IN  /\ g \in Seq(Session) /\ Len(g) = Len(f) /\ DOMAIN g = DOMAIN f
             /\ \A j \in DOMAIN f : Calm(f[j], g[j]) /\ (g[j].lost <=> f[j].lost \/ j \in is)
                                     /\ g[j].fresh = f[j].fresh /\ g[j].stale = f[j].stale
<1> DEFINE g == close(f, is)
<1>0. DOMAIN f = 1 .. Len(f) /\ Len(f) \in Nat
  OBVIOUS
<1>1. \A j \in DOMAIN f : f[j] \in Session /\ g[j] = [f[j] EXCEPT !.lost = f[j].lost \/ j \in is]
  BY DEF close
<1>a. DOMAIN g = DOMAIN f
  BY DEF close
<1> HIDE DEF g
<1>2. \A j \in DOMAIN f : g[j] \in Session /\ Calm(f[j], g[j]) /\ (g[j].lost <=> f[j].lost \/ j \in is)
                                     /\ g[j].fresh = f[j].fresh /\ g[j].stale = f[j].stale
  <2> TAKE j \in DOMAIN f
  <2> DEFINE l == f[j].lost \/ j \in is
  <2>1. l \in BOOLEAN
    OBVIOUS
  <2>2. f[j] \in Session /\ g[j] = [f[j] EXCEPT !.lost = l]
    BY <1>1
  <2>3. f[j].lost \in BOOLEAN
    BY <2>2 DEF Session
  <2>4. f[j].lost => l
    OBVIOUS
  <2> HIDE DEF l
  <2>5. g[j] \in Session /\ g[j].lost = l /\ Calm(f[j], g[j])
        /\ g[j].fresh = f[j].fresh /\ g[j].stale = f[j].stale
    BY <2>1, <2>2, <2>4, LostField DEF Calm
  <2>6. g[j].lost <=> f[j].lost \/ j \in is
    BY <2>5 DEF l
  <2> QED BY <2>5, <2>6
<1>3. \A j \in 1 .. Len(f) : g[j] \in Session
  BY <1>0, <1>2
<1>5. g \in [1 .. Len(f) -> Session]
  <2>1. g = [j \in DOMAIN f |-> g[j]]
    BY <1>a DEF close, g
  <2> QED BY <2>1, <1>0, <1>3
<1>4. g \in Seq(Session) /\ Len(g) = Len(f) /\ DOMAIN g = 1 .. Len(f)
  BY <1>0, <1>5, FunctionSeq
<1> QED BY <1>0, <1>2, <1>4 DEF g

(* Session i changes; the others may only be closed. *)
Only(f, g, i) ==
  /\ g \in Seq(Session) /\ Len(g) = Len(f) /\ DOMAIN g = DOMAIN f
  /\ \A j \in DOMAIN f \ {i} : Calm(f[j], g[j])

LEMMA PutOnly ==
  ASSUME NEW f \in Seq(Session), NEW i \in DOMAIN f, NEW r \in Session
  PROVE  Only(f, [f EXCEPT ![i] = r], i)
BY PutFacts DEF Only, Calm

-----------------------------------------------------------------------------
(* One session is updated: every update a step makes keeps the other ones.   *)

LEMMA Negotiates ==
  ASSUME NEW f \in Seq(Session), NEW i \in DOMAIN f
  PROVE  Only(f, [f EXCEPT ![i].task = "setup", ![i].actor = "run"], i)
<1> DEFINE r == [f[i] EXCEPT !.task = "setup", !.actor = "run"]
<1>1. f[i] \in Session /\ <<>> \in Seq(Queued)
  BY EmptySeq
<1>2. r \in Session
  BY <1>1 DEF Session
<1>3. [f EXCEPT ![i].task = "setup", ![i].actor = "run"] = [f EXCEPT ![i] = r]
  BY <1>1
<1> HIDE DEF r
<1> QED BY <1>2, <1>3, PutOnly

LEMMA Reports ==
  ASSUME NEW f \in Seq(Session), NEW i \in DOMAIN f
  PROVE  Only(f, [f EXCEPT ![i].task = "ready"], i)
<1> DEFINE r == [f[i] EXCEPT !.task = "ready"]
<1>1. f[i] \in Session /\ <<>> \in Seq(Queued)
  BY EmptySeq
<1>2. r \in Session
  BY <1>1 DEF Session
<1>3. [f EXCEPT ![i].task = "ready"] = [f EXCEPT ![i] = r]
  BY <1>1
<1> HIDE DEF r
<1> QED BY <1>2, <1>3, PutOnly

LEMMA GivesUp ==
  ASSUME NEW f \in Seq(Session), NEW i \in DOMAIN f
  PROVE  Only(f, [f EXCEPT ![i].task = "done", ![i].lost = TRUE], i)
<1> DEFINE r == [f[i] EXCEPT !.task = "done", !.lost = TRUE]
<1>1. f[i] \in Session /\ <<>> \in Seq(Queued)
  BY EmptySeq
<1>2. r \in Session
  BY <1>1 DEF Session
<1>3. [f EXCEPT ![i].task = "done", ![i].lost = TRUE] = [f EXCEPT ![i] = r]
  BY <1>1
<1> HIDE DEF r
<1> QED BY <1>2, <1>3, PutOnly

LEMMA Registers ==
  ASSUME NEW f \in Seq(Session), NEW i \in DOMAIN f
  PROVE  Only(f, [f EXCEPT ![i].task = "done"], i)
<1> DEFINE r == [f[i] EXCEPT !.task = "done"]
<1>1. f[i] \in Session /\ <<>> \in Seq(Queued)
  BY EmptySeq
<1>2. r \in Session
  BY <1>1 DEF Session
<1>3. [f EXCEPT ![i].task = "done"] = [f EXCEPT ![i] = r]
  BY <1>1
<1> HIDE DEF r
<1> QED BY <1>2, <1>3, PutOnly

LEMMA Ages ==
  ASSUME NEW f \in Seq(Session), NEW i \in DOMAIN f, NEW l \in BOOLEAN
  PROVE  Only(f, [f EXCEPT ![i].fresh = l], i)
<1> DEFINE r == [f[i] EXCEPT !.fresh = l]
<1>1. f[i] \in Session /\ <<>> \in Seq(Queued)
  BY EmptySeq
<1>2. r \in Session
  BY <1>1 DEF Session
<1>3. [f EXCEPT ![i].fresh = l] = [f EXCEPT ![i] = r]
  BY <1>1
<1> HIDE DEF r
<1> QED BY <1>2, <1>3, PutOnly

LEMMA Asking ==
  ASSUME NEW f \in Seq(Session), NEW i \in DOMAIN f
  PROVE  Only(f, [f EXCEPT ![i].actor = "asking"], i)
<1> DEFINE r == [f[i] EXCEPT !.actor = "asking"]
<1>1. f[i] \in Session /\ <<>> \in Seq(Queued)
  BY EmptySeq
<1>2. r \in Session
  BY <1>1 DEF Session
<1>3. [f EXCEPT ![i].actor = "asking"] = [f EXCEPT ![i] = r]
  BY <1>1
<1> HIDE DEF r
<1> QED BY <1>2, <1>3, PutOnly

LEMMA Loses ==
  ASSUME NEW f \in Seq(Session), NEW i \in DOMAIN f
  PROVE  Only(f, [f EXCEPT ![i].lost = TRUE], i)
<1> DEFINE r == [f[i] EXCEPT !.lost = TRUE]
<1>1. f[i] \in Session /\ <<>> \in Seq(Queued)
  BY EmptySeq
<1>2. r \in Session
  BY <1>1 DEF Session
<1>3. [f EXCEPT ![i].lost = TRUE] = [f EXCEPT ![i] = r]
  BY <1>1
<1> HIDE DEF r
<1> QED BY <1>2, <1>3, PutOnly

LEMMA Lets ==
  ASSUME NEW f \in Seq(Session), NEW i \in DOMAIN f
  PROVE  Only(f, [f EXCEPT ![i].out = 0], i)
<1> DEFINE r == [f[i] EXCEPT !.out = 0]
<1>1. f[i] \in Session /\ <<>> \in Seq(Queued)
  BY EmptySeq
<1>2. r \in Session
  BY <1>1 DEF Session
<1>3. [f EXCEPT ![i].out = 0] = [f EXCEPT ![i] = r]
  BY <1>1
<1> HIDE DEF r
<1> QED BY <1>2, <1>3, PutOnly

LEMMA Stops ==
  ASSUME NEW f \in Seq(Session), NEW i \in DOMAIN f
  PROVE  Only(f, [f EXCEPT ![i].out = 0, ![i].lost = TRUE], i)
<1> DEFINE r == [f[i] EXCEPT !.out = 0, !.lost = TRUE]
<1>1. f[i] \in Session /\ <<>> \in Seq(Queued)
  BY EmptySeq
<1>2. r \in Session
  BY <1>1 DEF Session
<1>3. [f EXCEPT ![i].out = 0, ![i].lost = TRUE] = [f EXCEPT ![i] = r]
  BY <1>1
<1> HIDE DEF r
<1> QED BY <1>2, <1>3, PutOnly

LEMMA Cleans ==
  ASSUME NEW f \in Seq(Session), NEW i \in DOMAIN f
  PROVE  Only(f, [f EXCEPT ![i].actor = "cleanup"], i)
<1> DEFINE r == [f[i] EXCEPT !.actor = "cleanup"]
<1>1. f[i] \in Session /\ <<>> \in Seq(Queued)
  BY EmptySeq
<1>2. r \in Session
  BY <1>1 DEF Session
<1>3. [f EXCEPT ![i].actor = "cleanup"] = [f EXCEPT ![i] = r]
  BY <1>1
<1> HIDE DEF r
<1> QED BY <1>2, <1>3, PutOnly

LEMMA Ends ==
  ASSUME NEW f \in Seq(Session), NEW i \in DOMAIN f
  PROVE  Only(f, [f EXCEPT ![i].actor = "over", ![i].queue = <<>>], i)
<1> DEFINE r == [f[i] EXCEPT !.actor = "over", !.queue = <<>>]
<1>1. f[i] \in Session /\ <<>> \in Seq(Queued)
  BY EmptySeq
<1>2. r \in Session
  BY <1>1 DEF Session
<1>3. [f EXCEPT ![i].actor = "over", ![i].queue = <<>>] = [f EXCEPT ![i] = r]
  BY <1>1
<1> HIDE DEF r
<1> QED BY <1>2, <1>3, PutOnly

LEMMA Opens ==
  ASSUME NEW f \in Seq(Session), NEW i \in DOMAIN f, NEW n \in Nat, NEW q \in Seq(Queued)
  PROVE  Only(f, [f EXCEPT ![i].out = n, ![i].queue = q], i)
<1> DEFINE r == [f[i] EXCEPT !.out = n, !.queue = q]
<1>1. f[i] \in Session /\ <<>> \in Seq(Queued)
  BY EmptySeq
<1>2. r \in Session
  BY <1>1 DEF Session
<1>3. [f EXCEPT ![i].out = n, ![i].queue = q] = [f EXCEPT ![i] = r]
  BY <1>1
<1> HIDE DEF r
<1> QED BY <1>2, <1>3, PutOnly

LEMMA Answers ==
  ASSUME NEW f \in Seq(Session), NEW i \in DOMAIN f, NEW open \in BOOLEAN
  PROVE  Only(f, [f EXCEPT ![i].actor = "run", ![i].inb = open], i)
<1> DEFINE r == [f[i] EXCEPT !.actor = "run", !.inb = open]
<1>1. f[i] \in Session /\ <<>> \in Seq(Queued)
  BY EmptySeq
<1>2. r \in Session
  BY <1>1 DEF Session
<1>3. [f EXCEPT ![i].actor = "run", ![i].inb = open] = [f EXCEPT ![i] = r]
  BY <1>1
<1> HIDE DEF r
<1> QED BY <1>2, <1>3, PutOnly

LEMMA Refuses ==
  ASSUME NEW f \in Seq(Session), NEW i \in DOMAIN f
  PROVE  Only(f, [f EXCEPT ![i].actor = "run", ![i].lost = TRUE], i)
<1> DEFINE r == [f[i] EXCEPT !.actor = "run", !.lost = TRUE]
<1>1. f[i] \in Session /\ <<>> \in Seq(Queued)
  BY EmptySeq
<1>2. r \in Session
  BY <1>1 DEF Session
<1>3. [f EXCEPT ![i].actor = "run", ![i].lost = TRUE] = [f EXCEPT ![i] = r]
  BY <1>1
<1> HIDE DEF r
<1> QED BY <1>2, <1>3, PutOnly

LEMMA Concludes ==
  ASSUME NEW f \in Seq(Session), NEW i \in DOMAIN f
  PROVE  Only(f, [f EXCEPT ![i].actor = "over", ![i].inb = FALSE, ![i].queue = <<>>], i)
<1> DEFINE r == [f[i] EXCEPT !.actor = "over", !.inb = FALSE, !.queue = <<>>]
<1>1. f[i] \in Session /\ <<>> \in Seq(Queued)
  BY EmptySeq
<1>2. r \in Session
  BY <1>1 DEF Session
<1>3. [f EXCEPT ![i].actor = "over", ![i].inb = FALSE, ![i].queue = <<>>] = [f EXCEPT ![i] = r]
  BY <1>1
<1> HIDE DEF r
<1> QED BY <1>2, <1>3, PutOnly

LEMMA Queues ==
  ASSUME NEW f \in Seq(Session), NEW i \in DOMAIN f, NEW q \in Seq(Queued)
  PROVE  Only(f, [f EXCEPT ![i].queue = q], i)
<1> DEFINE r == [f[i] EXCEPT !.queue = q]
<1>1. f[i] \in Session /\ <<>> \in Seq(Queued)
  BY EmptySeq
<1>2. r \in Session
  BY <1>1 DEF Session
<1>3. [f EXCEPT ![i].queue = q] = [f EXCEPT ![i] = r]
  BY <1>1
<1> HIDE DEF r
<1> QED BY <1>2, <1>3, PutOnly

LEMMA OnlyClose ==
  ASSUME NEW f, NEW g, NEW i \in DOMAIN f, f \in Seq(Session), Only(f, g, i), NEW is
  PROVE  LET h == close(g, is)
         IN  Only(f, h, i) /\ Calm(g[i], h[i]) /\ h[i] \in Session
             /\ \A j \in DOMAIN f \cap is : h[j].lost
<1> DEFINE h == close(g, is)
<1>1. g \in Seq(Session) /\ DOMAIN g = DOMAIN f /\ Len(g) = Len(f)
  BY DEF Only
<1>2. h \in Seq(Session) /\ Len(h) = Len(g) /\ DOMAIN h = DOMAIN g
  BY <1>1, CloseFacts
<1>3. \A j \in DOMAIN g : Calm(g[j], h[j]) /\ (g[j].lost \/ j \in is => h[j].lost)
  BY <1>1, CloseFacts
<1> HIDE DEF h
<1> QED BY <1>1, <1>2, <1>3 DEF Only, Calm, h

LEMMA OnlyTwice ==
  ASSUME NEW f, NEW g, NEW h, NEW i \in DOMAIN f, Only(f, g, i), Only(g, h, i)
  PROVE  Only(f, h, i)
BY DEF Only, Calm

-----------------------------------------------------------------------------
(* The session map *)

(* What a session leaves open once its queue is drained. *)
FinalOf(r) ==
  IF r.queue = <<>> THEN r.out
  ELSE IF Last(r.queue).op = "begin" THEN Last(r.queue).act ELSE 0

(* No commands before a session is registered, and none once its actor ends. *)
Plain(r) ==
  /\ r.task # "done" => r.out = 0 /\ r.queue = <<>>
  /\ r.task = "retire" => r.actor = "none"
  /\ r.actor = "cleanup" => r.lost /\ r.out = 0
  /\ r.actor = "over" => r.lost /\ r.out = 0 /\ r.queue = <<>> /\ ~r.inb

(* A registered session is its peer's; one whose task is over is registered  *)
(* or being closed; what the loop and a waiting task hold is registered.     *)
MapInv ==
  /\ sess \in Seq(Session) /\ sessions \in [Peers -> 0 .. Len(sess)]
  /\ \A p \in Peers : sessions[p] # 0 => sess[sessions[p]].peer = p /\ sess[sessions[p]].task = "done"
  /\ \A i \in DOMAIN sess : Plain(sess[i]) /\ (sess[i].task = "done" => Current(i) \/ sess[i].lost)

HeldInv ==
  /\ active.id # 0 => active.id \in DOMAIN sess /\ sess[active.id].task = "done"
  /\ active.id = 0 => active = None
  /\ wait.who # "none" /\ wait.id # 0 => wait.id \in DOMAIN sess /\ sess[wait.id].task = "done"
  /\ wait.who = "hop" => wait.next \in DOMAIN sess /\ sess[wait.next].task = "done" /\ acts # 0

(* The actor waits for the answer to what it asked; its Closed comes last.   *)
Kind == {"enter", "press", "leave", "release", "ended", "closed"}
Event == [id : Nat, kind : Kind]

Fits(kind, r) ==
  /\ kind = "enter" => r.actor = "asking" /\ ~r.inb
  /\ kind \in {"press", "leave"} => r.actor = "asking" /\ r.inb
  /\ kind = "release" => r.actor = "cleanup" /\ r.inb
  /\ kind = "closed" => r.actor = "over"

Request == {"enter", "press", "leave", "release"}

(* Every queued event fits its session, which has asked for one thing.       *)
EventsFit(q, f) ==
  /\ \A k \in DOMAIN q : q[k].id \in DOMAIN f /\ Fits(q[k].kind, f[q[k].id])
  /\ \A k, m \in DOMAIN q :
        q[k].kind \in Request /\ q[m].kind \in Request /\ q[k].id = q[m].id => k = m

EventInv == evs \in Seq(Event) /\ EventsFit(evs, sess)

(* What one step may do to a session, besides opening an activation in it.   *)
Row(a, b) ==
  /\ b.peer = a.peer /\ b.dir = a.dir /\ (a.lost => b.lost)
  /\ (a.task = "done" => b.task = "done") /\ Plain(b)

(* A task that ends leaves nothing behind. *)
Parked(a, b) == b.task = "done" => a.task = "done" \/ b.lost

(* What is left open is closed, or stays as it was. *)
Settled(a, b) == FinalOf(b) # 0 /\ ~b.lost => FinalOf(b) = FinalOf(a)

Rows(f, g) ==
  /\ g \in Seq(Session) /\ Len(g) = Len(f) /\ DOMAIN g = DOMAIN f
  /\ \A j \in DOMAIN f : Row(f[j], g[j])

Settle(f, g) == \A j \in DOMAIN f : Settled(f[j], g[j])

Park(f, g) == \A j \in DOMAIN f : Parked(f[j], g[j])

LEMMA CalmRow ==
  ASSUME NEW a, NEW b, Calm(a, b)
  PROVE  (Plain(a) => Row(a, b)) /\ Settled(a, b) /\ Parked(a, b) /\ \A kind : Fits(kind, a) <=> Fits(kind, b)
BY DEF Calm, Plain, FinalOf, Settled, Parked, Row, Fits

LEMMA OnlyRows ==
  ASSUME NEW f, NEW g, NEW i \in DOMAIN f, Only(f, g, i), \A j \in DOMAIN f : Plain(f[j]),
         Row(f[i], g[i])
  PROVE  /\ Rows(f, g) /\ (Settled(f[i], g[i]) => Settle(f, g))
         /\ Parked(f[i], g[i]) => Park(f, g)
BY CalmRow DEF Only, Rows, Settle, Park

LEMMA CloseRows ==
  ASSUME NEW f \in Seq(Session), \A j \in DOMAIN f : Plain(f[j]), NEW is
  PROVE  /\ Rows(f, close(f, is)) /\ Settle(f, close(f, is)) /\ Park(f, close(f, is))
         /\ \A j \in DOMAIN f : Calm(f[j], close(f, is)[j])
         /\ \A j \in DOMAIN f \cap is : close(f, is)[j].lost
<1> DEFINE g == close(f, is)
<1>1. /\ g \in Seq(Session) /\ Len(g) = Len(f) /\ DOMAIN g = DOMAIN f
      /\ \A j \in DOMAIN f : Calm(f[j], g[j]) /\ (g[j].lost <=> f[j].lost \/ j \in is)
  BY CloseFacts
<1> HIDE DEF g
<1> QED BY <1>1, CalmRow DEF Rows, Settle, Park, g

LEMMA RowsTwice ==
  ASSUME NEW f, NEW g, NEW h, Rows(f, g), Rows(g, h)
  PROVE  /\ Rows(f, h) /\ (Settle(f, g) /\ Settle(g, h) => Settle(f, h))
         /\ Park(f, g) /\ Park(g, h) => Park(f, h)
BY DEF Rows, Row, Settle, Settled, Park, Parked

(* The map stays right while no session joins it. *)
LEMMA MapStays ==
  ASSUME MapInv, Rows(sess, sess'), Park(sess, sess'), sessions' = sessions
  PROVE  MapInv'
<1>1. \A j : (j \in DOMAIN sess) => (Current(j)' <=> Current(j))
  BY DEF Current, Rows, Row
<1>2. \A j \in DOMAIN sess : sess'[j].task = "done" => Current(j)' \/ sess'[j].lost
  BY <1>1 DEF MapInv, Rows, Row, Park, Parked
<1>3. \A p \in Peers : sessions[p] # 0 => sessions[p] \in DOMAIN sess
  BY DEF MapInv
<1> QED BY <1>2, <1>3 DEF MapInv, Rows, Row

(* The loop and the waiting task hold what they held, or less. *)
LEMMA HeldStays ==
  ASSUME HeldInv, Rows(sess, sess'), acts' = acts, active' = active \/ active' = None,
         \/ (wait'.who = wait.who /\ wait'.id = wait.id /\ wait'.next = wait.next)
         \/ wait' = Free
  PROVE  HeldInv'
BY DEF HeldInv, Rows, Row, None, Free

(* No activation is opened, and the active one stays. *)
LEMMA ActiveStays ==
  ASSUME OneActivation, sess \in Seq(Session), Rows(sess, sess'), Settle(sess, sess'), active' = active
  PROVE  OneActivation'
<1>1. /\ DOMAIN sess = Ids /\ DOMAIN sess' = Ids'
      /\ \A i \in DOMAIN sess : FinalOut(i) = FinalOf(sess[i])
      /\ \A i \in DOMAIN sess : FinalOut(i)' = FinalOf(sess'[i])
  BY DEF Ids, FinalOut, FinalOf, Rows
<1>2. \A i \in DOMAIN sess : sess[i].lost => sess'[i].lost
  BY DEF Rows, Row
<1>3. DOMAIN sess' = DOMAIN sess
  BY DEF Rows
<1> QED BY <1>1, <1>2, <1>3 DEF OneActivation, Settle, Settled

(* The active one is given up, and closed or told to end. *)
LEMMA ActiveEnds ==
  ASSUME OneActivation, HeldInv, sess \in Seq(Session), Rows(sess, sess'), Settle(sess, sess'), active' = None,
         active.id # 0 => FinalOf(sess'[active.id]) = 0 \/ sess'[active.id].lost
  PROVE  OneActivation'
<1>1. /\ DOMAIN sess = Ids /\ DOMAIN sess' = Ids'
      /\ \A i \in DOMAIN sess : FinalOut(i) = FinalOf(sess[i])
      /\ \A i \in DOMAIN sess : FinalOut(i)' = FinalOf(sess'[i])
  BY DEF Ids, FinalOut, FinalOf, Rows
<1>2. \A i \in DOMAIN sess : sess[i].lost => sess'[i].lost
  BY DEF Rows, Row
<1>3. DOMAIN sess' = DOMAIN sess /\ 0 \notin DOMAIN sess
  BY DEF Rows
<1>4. \A i \in DOMAIN sess : FinalOf(sess'[i]) # 0 => sess'[i].lost
  <2> TAKE i \in DOMAIN sess
  <2> HAVE FinalOf(sess'[i]) # 0
  <2> SUFFICES ASSUME ~sess'[i].lost PROVE FALSE
    OBVIOUS
  <2>1. FinalOf(sess[i]) # 0 /\ ~sess[i].lost
    BY <1>2 DEF Settle, Settled
  <2>2. active.id = i
    BY <1>1, <2>1 DEF OneActivation
  <2> QED BY <1>3, <2>2
<1> QED BY <1>1, <1>3, <1>4 DEF OneActivation

(* One is opened when there was none. *)
LEMMA ActiveBegins ==
  ASSUME OneActivation, sess \in Seq(Session), Rows(sess, sess'), active = None,
         NEW i \in DOMAIN sess, NEW n, active' = [id |-> i, act |-> n], FinalOf(sess'[i]) = n,
         \A j \in DOMAIN sess \ {i} : Settled(sess[j], sess'[j])
  PROVE  OneActivation'
<1>1. /\ DOMAIN sess = Ids /\ DOMAIN sess' = Ids'
      /\ \A j \in DOMAIN sess : FinalOut(j) = FinalOf(sess[j])
      /\ \A j \in DOMAIN sess : FinalOut(j)' = FinalOf(sess'[j])
  BY DEF Ids, FinalOut, FinalOf, Rows
<1>2. \A j \in DOMAIN sess : sess[j].lost => sess'[j].lost
  BY DEF Rows, Row
<1>3. DOMAIN sess' = DOMAIN sess /\ active.id = 0 /\ 0 \notin DOMAIN sess
  BY DEF Rows, None
<1>4. \A j \in DOMAIN sess \ {i} : FinalOf(sess'[j]) # 0 => sess'[j].lost
  <2> TAKE j \in DOMAIN sess \ {i}
  <2> HAVE FinalOf(sess'[j]) # 0
  <2> SUFFICES ASSUME ~sess'[j].lost PROVE FALSE
    OBVIOUS
  <2>1. FinalOf(sess[j]) # 0 /\ ~sess[j].lost
    BY <1>2 DEF Settled
  <2>2. active.id = j
    BY <1>1, <2>1 DEF OneActivation
  <2> QED BY <1>3, <2>2
<1>5. \A j \in DOMAIN sess : FinalOut(j)' # 0 /\ ~sess'[j].lost => j = i
  BY <1>1, <1>4
<1>6. FinalOut(i)' = n
  BY <1>1
<1> QED BY <1>1, <1>3, <1>5, <1>6 DEF OneActivation

-----------------------------------------------------------------------------
(* The queue of session events *)

Silent(q, i) == \A k \in DOMAIN q : q[k].id = i => q[k].kind = "ended"

Suits(a, b) == \A kind : Fits(kind, a) => Fits(kind, b)

(* An actor that runs has asked for nothing. *)
LEMMA RunsSilent ==
  ASSUME NEW q, NEW f, EventsFit(q, f), q \in Seq(Event), NEW i, f[i].actor \in {"none", "run"}
  PROVE  Silent(q, i)
<1>0. \A k \in DOMAIN q : q[k] \in Event
  OBVIOUS
<1>1. \A k \in DOMAIN q : q[k].kind \in Kind
  BY <1>0 DEF Event
<1> QED BY <1>1 DEF EventsFit, Fits, Silent, Kind

LEMMA EventsKeep ==
  ASSUME NEW q, NEW f, NEW g, EventsFit(q, f), q \in Seq(Event), DOMAIN f \subseteq DOMAIN g,
         \A j \in DOMAIN f : Silent(q, j) \/ Suits(f[j], g[j])
  PROVE  EventsFit(q, g)
<1>1. \A k \in DOMAIN q : Fits(q[k].kind, g[q[k].id])
  <2> TAKE k \in DOMAIN q
  <2>1. q[k].id \in DOMAIN f /\ Fits(q[k].kind, f[q[k].id])
    BY DEF EventsFit
  <2>2. Fits("ended", g[q[k].id])
    BY DEF Fits
  <2> QED BY <2>1, <2>2 DEF Silent, Suits
<1> QED BY <1>1 DEF EventsFit

LEMMA EventsTail ==
  ASSUME NEW q \in Seq(Event), NEW f, EventsFit(q, f), q # <<>>
  PROVE  /\ EventsFit(Tail(q), f) /\ Tail(q) \in Seq(Event) /\ Head(q) \in Event
         /\ Head(q).id \in DOMAIN f /\ Fits(Head(q).kind, f[Head(q).id])
         /\ Head(q).kind \in Request => Silent(Tail(q), Head(q).id)
<1>1. /\ Tail(q) \in Seq(Event) /\ Len(q) \in Nat /\ Head(q) = q[1] /\ Head(q) \in Event /\ 1 \in DOMAIN q
      /\ DOMAIN q = 1 .. Len(q) /\ DOMAIN Tail(q) = 1 .. Len(q) - 1
      /\ \A k \in DOMAIN Tail(q) : Tail(q)[k] = q[k + 1]
  BY TailAt
<1>2. \A k \in DOMAIN Tail(q) : k + 1 \in DOMAIN q /\ Tail(q)[k] = q[k + 1] /\ k \in Nat /\ k # 0
  BY <1>1
<1>3. EventsFit(Tail(q), f)
  <2>1. \A k, m \in DOMAIN Tail(q) :
          Tail(q)[k].kind \in Request /\ Tail(q)[m].kind \in Request /\ Tail(q)[k].id = Tail(q)[m].id => k = m
    <3> TAKE k, m \in DOMAIN Tail(q)
    <3> HAVE Tail(q)[k].kind \in Request /\ Tail(q)[m].kind \in Request /\ Tail(q)[k].id = Tail(q)[m].id
    <3>1. k + 1 = m + 1
      BY <1>2 DEF EventsFit
    <3> QED BY <1>2, <3>1
  <2> QED BY <1>2, <2>1 DEF EventsFit
<1>4. ASSUME Head(q).kind \in Request, NEW k \in DOMAIN Tail(q), Tail(q)[k].id = Head(q).id
      PROVE  Tail(q)[k].kind = "ended"
  <2>1. q[k + 1].kind \notin Request
    BY <1>1, <1>2, <1>4 DEF EventsFit
  <2>2. q[k + 1].kind # "closed"
    BY <1>1, <1>2, <1>4 DEF EventsFit, Fits, Request
  <2>a. q[k + 1] \in Event
    BY <1>2
  <2>3. q[k + 1].kind \in Kind
    BY <2>a DEF Event
  <2> QED BY <1>2, <2>1, <2>2, <2>3 DEF Request, Kind
<1> QED BY <1>1, <1>3, <1>4 DEF EventsFit, Silent

LEMMA EventsAdd ==
  ASSUME NEW q \in Seq(Event), NEW g, EventsFit(q, g), NEW e \in Event, e.id \in DOMAIN g,
         Fits(e.kind, g[e.id]), e.kind \in Request => Silent(q, e.id)
  PROVE  EventsFit(Append(q, e), g) /\ Append(q, e) \in Seq(Event)
<1>1. /\ Append(q, e) \in Seq(Event) /\ Len(q) \in Nat
      /\ DOMAIN q = 1 .. Len(q) /\ DOMAIN Append(q, e) = 1 .. Len(q) + 1
      /\ \A k \in DOMAIN q : Append(q, e)[k] = q[k]
      /\ Append(q, e)[Len(q) + 1] = e
  BY AppendAt
<1> DEFINE h == Append(q, e)
<1> HIDE DEF h
<1>2. \A k \in DOMAIN h : (k \in DOMAIN q /\ h[k] = q[k]) \/ (k = Len(q) + 1 /\ h[k] = e)
  BY <1>1 DEF h
<1>3. \A k \in DOMAIN h : h[k].id \in DOMAIN g /\ Fits(h[k].kind, g[h[k].id])
  BY <1>2 DEF EventsFit
<1>4. \A k, m \in DOMAIN h : h[k].kind \in Request /\ h[m].kind \in Request /\ h[k].id = h[m].id => k = m
  <2>1. "ended" \notin Request
    BY DEF Request
  <2> QED BY <1>2, <2>1 DEF EventsFit, Silent
<1> QED BY <1>1, <1>3, <1>4 DEF EventsFit, h

LEMMA EventsCalm ==
  ASSUME EventInv, evs' = evs, DOMAIN sess' = DOMAIN sess,
         \A j \in DOMAIN sess : sess[j].actor \in {"none", "run"} \/ Suits(sess[j], sess'[j])
  PROVE  EventInv'
<1>1. \A j \in DOMAIN sess : Silent(evs, j) \/ Suits(sess[j], sess'[j])
  BY RunsSilent DEF EventInv
<1> QED BY <1>1, EventsKeep DEF EventInv

LEMMA EventsOnly ==
  ASSUME EventInv, evs' = evs, NEW i \in DOMAIN sess, Only(sess, sess', i),
         sess[i].actor \in {"none", "run"} \/ Suits(sess[i], sess'[i])
  PROVE  EventInv'
<1>1. \A j \in DOMAIN sess \ {i} : Suits(sess[j], sess'[j])
  BY CalmRow DEF Only, Suits
<1> QED BY <1>1, EventsCalm DEF Only

-----------------------------------------------------------------------------
(* The tasks *)

SessionInv == MapInv /\ HeldInv /\ EventInv /\ OneActivation

LEMMA Turn ==
  ASSUME SessionInv, NEW i \in DOMAIN sess, Only(sess, sess', i), Row(sess[i], sess'[i]),
         Settled(sess[i], sess'[i]), Parked(sess[i], sess'[i]), EventInv',
         UNCHANGED <<sessions, active, acts>>,
         wait'.who = wait.who /\ wait'.id = wait.id /\ wait'.next = wait.next
  PROVE  SessionInv'
<1>1. Rows(sess, sess') /\ Settle(sess, sess') /\ Park(sess, sess')
  BY OnlyRows DEF SessionInv, MapInv
<1>2. MapInv'
  BY <1>1, MapStays DEF SessionInv
<1>3. HeldInv'
  BY <1>1, HeldStays DEF SessionInv
<1>4. OneActivation'
  BY <1>1, ActiveStays DEF SessionInv, MapInv
<1> QED BY <1>2, <1>3, <1>4 DEF SessionInv

(* A task moves its session on, gives up on it or registers it. *)
Keeps(a, b) ==
  /\ b.peer = a.peer /\ b.dir = a.dir /\ (a.lost => b.lost) /\ (a.task = "done" => b.task = "done")
  /\ b.out = a.out /\ b.queue = a.queue /\ b.inb = a.inb
  /\ b.actor = a.actor \/ (a.actor = "none" /\ b.actor = "run")
  /\ Plain(b)

LEMMA KeepsFacts ==
  ASSUME NEW a, NEW b, Keeps(a, b)
  PROVE  Row(a, b) /\ Settled(a, b) /\ (a.actor \in {"none", "run"} \/ Suits(a, b))
BY DEF Keeps, Row, Settled, FinalOf, Suits, Fits

LEMMA TaskTurn ==
  ASSUME SessionInv, NEW i \in DOMAIN sess, Only(sess, sess', i), Keeps(sess[i], sess'[i]),
         Parked(sess[i], sess'[i]), UNCHANGED <<mapVars, evs, wait, acts>>
  PROVE  SessionInv'
<1>1. Row(sess[i], sess'[i]) /\ Settled(sess[i], sess'[i])
      /\ (sess[i].actor \in {"none", "run"} \/ Suits(sess[i], sess'[i]))
  BY KeepsFacts
<1>2. EventInv'
  BY <1>1, EventsOnly DEF SessionInv
<1> QED BY <1>1, <1>2, Turn DEF mapVars

(* It takes its peer's place, whose session before it is closed. *)
LEMMA JoinTurn ==
  ASSUME SessionInv, NEW i \in DOMAIN sess, Only(sess, sess', i), Keeps(sess[i], sess'[i]),
         sess'[i].task = "done", Insert(i), UNCHANGED <<active, evs, wait, acts>>,
         sessions[sess[i].peer] # 0 => sess'[sessions[sess[i].peer]].lost
  PROVE  SessionInv'
<1> DEFINE p == sess[i].peer
<1>0. /\ sess \in Seq(Session) /\ DOMAIN sess = 1 .. Len(sess) /\ Len(sess) \in Nat /\ p \in Peers
      /\ sessions \in [Peers -> 0 .. Len(sess)]
  <2>1. sess[i] \in Session
    BY DEF SessionInv, MapInv
  <2> QED BY <2>1 DEF SessionInv, MapInv, Session
<1>1. Row(sess[i], sess'[i]) /\ Settled(sess[i], sess'[i])
      /\ (sess[i].actor \in {"none", "run"} \/ Suits(sess[i], sess'[i]))
  BY KeepsFacts
<1>2. EventInv'
  BY <1>1, EventsOnly DEF SessionInv
<1>3. Rows(sess, sess') /\ Settle(sess, sess')
  BY <1>1, OnlyRows DEF SessionInv, MapInv
<1>4. sessions' = [sessions EXCEPT ![p] = i]
  BY DEF Insert
<1> HIDE DEF p
<1>5. MapInv'
  <2>1. sess' \in Seq(Session) /\ Len(sess') = Len(sess) /\ DOMAIN sess' = DOMAIN sess
        /\ \A j \in DOMAIN sess : Row(sess[j], sess'[j])
    BY <1>3 DEF Rows
  <2>2. sessions' \in [Peers -> 0 .. Len(sess')]
    BY <1>0, <1>4, <2>1
  <2>3. \A q \in Peers : sessions'[q] # 0 => sess'[sessions'[q]].peer = q /\ sess'[sessions'[q]].task = "done"
    <3> TAKE q \in Peers
    <3> HAVE sessions'[q] # 0
    <3>1. CASE q = p
      BY <1>0, <1>4, <2>1, <3>1 DEF Row, p
    <3>2. CASE q # p
      <4>1. sessions'[q] = sessions[q] /\ sessions[q] \in DOMAIN sess
        BY <1>0, <1>4, <3>2
      <4> QED BY <2>1, <4>1 DEF SessionInv, MapInv, Row
    <3> QED BY <3>1, <3>2
  <2>4. ASSUME NEW j \in DOMAIN sess, sess'[j].task = "done"
        PROVE  sessions'[sess'[j].peer] = j \/ sess'[j].lost
    <3>0. sess'[j].peer = sess[j].peer /\ (sess[j].lost => sess'[j].lost) /\ sess[j].peer \in Peers
      <4>1. sess[j] \in Session
        BY <1>0
      <4> QED BY <2>1, <4>1 DEF Row, Session
    <3>1. CASE j = i
      BY <1>0, <1>4, <3>0, <3>1 DEF p
    <3>2. CASE j # i
      <4>1. sess[j].task = "done"
        BY <2>4, <3>2 DEF Only, Calm
      <4>2. sessions[sess[j].peer] = j \/ sess[j].lost
        BY <4>1 DEF SessionInv, MapInv, Current
      <4>3. CASE sess[j].peer = p
        BY <3>0, <4>2, <4>3, <1>0 DEF p
      <4>4. CASE sess[j].peer # p
        BY <1>0, <1>4, <3>0, <4>2, <4>4
      <4> QED BY <4>3, <4>4
    <3> QED BY <3>1, <3>2
  <2> QED BY <2>1, <2>2, <2>3, <2>4 DEF MapInv, Row, Current
<1>6. HeldInv'
  BY <1>3, HeldStays DEF SessionInv
<1>7. OneActivation'
  BY <1>3, ActiveStays DEF SessionInv, MapInv
<1> QED BY <1>2, <1>5, <1>6, <1>7 DEF SessionInv

LEMMA InvFacts ==
  ASSUME SessionInv
  PROVE  /\ sess \in Seq(Session) /\ sessions \in [Peers -> 0 .. Len(sess)]
         /\ DOMAIN sess = 1 .. Len(sess) /\ Len(sess) \in Nat /\ Ids = DOMAIN sess
         /\ \A i \in DOMAIN sess : /\ sess[i] \in Session /\ Plain(sess[i]) /\ sess[i].peer \in Peers
                                   /\ sessions[sess[i].peer] \in 0 .. Len(sess)
<1>1. \A i \in DOMAIN sess : sess[i] \in Session
  BY DEF SessionInv, MapInv
<1>2. \A i \in DOMAIN sess : sess[i].peer \in Peers
  BY <1>1 DEF Session
<1> QED BY <1>1, <1>2 DEF SessionInv, MapInv, Ids

LEMMA RetireKeeps ==
  ASSUME SessionInv, NEW i \in DOMAIN sess, retire_session(i)
  PROVE  SessionInv'
<1>0. sess \in Seq(Session) /\ sess[i] \in Session /\ Plain(sess[i])
  BY InvFacts
<1>1. UNCHANGED <<mapVars, evs, wait, acts>> /\ sess[i].task = "retire"
  BY DEF retire_session
<1> DEFINE old == sessions[sess[i].peer]
<1>2. CASE sess' = [sess EXCEPT ![i].task = "setup", ![i].actor = "run"]
  <2>1. Only(sess, sess', i)
    BY <1>0, <1>2, Negotiates
  <2>2. Keeps(sess[i], sess'[i]) /\ sess'[i].task = "setup"
    BY <1>0, <1>1, <1>2 DEF Session, Keeps, Plain
  <2> QED BY <1>1, <2>1, <2>2, TaskTurn DEF Parked
<1>3. CASE sess' = close(sess, {old})
  <2>1. Only(sess, sess', i) /\ Calm(sess[i], sess'[i])
    BY <1>0, <1>3, CloseFacts DEF Only
  <2>2. Keeps(sess[i], sess'[i]) /\ Parked(sess[i], sess'[i])
    BY <1>0, <2>1, CalmRow DEF Calm, Keeps, Row
  <2> QED BY <1>1, <2>1, <2>2, TaskTurn
<1> QED BY <1>2, <1>3 DEF retire_session

LEMMA SetupKeeps ==
  ASSUME SessionInv, NEW i \in DOMAIN sess, Negotiated(i) \/ AcceptTimesOut(i) \/ DialAges(i)
  PROVE  SessionInv'
<1>0. sess \in Seq(Session) /\ sess[i] \in Session /\ Plain(sess[i])
  BY InvFacts
<1>1. /\ UNCHANGED <<mapVars, evs, wait, acts>>
      /\ \/ sess' = [sess EXCEPT ![i].task = "ready"] /\ sess[i].task = "setup"
         \/ sess' = [sess EXCEPT ![i].task = "done", ![i].lost = TRUE]
         \/ sess' = [sess EXCEPT ![i].fresh = FALSE]
  BY DEF Negotiated, AcceptTimesOut, DialAges
<1>2. CASE sess' = [sess EXCEPT ![i].task = "ready"] /\ sess[i].task = "setup"
  <2>1. Only(sess, sess', i)
    BY <1>0, <1>2, Reports
  <2>2. Keeps(sess[i], sess'[i]) /\ Parked(sess[i], sess'[i])
    BY <1>0, <1>2 DEF Session, Keeps, Plain, Parked
  <2> QED BY <1>1, <2>1, <2>2, TaskTurn
<1>3. CASE sess' = [sess EXCEPT ![i].task = "done", ![i].lost = TRUE]
  <2>1. Only(sess, sess', i)
    BY <1>0, <1>3, GivesUp
  <2>2. Keeps(sess[i], sess'[i]) /\ Parked(sess[i], sess'[i])
    BY <1>0, <1>3 DEF Session, Keeps, Plain, Parked
  <2> QED BY <1>1, <2>1, <2>2, TaskTurn
<1>4. CASE sess' = [sess EXCEPT ![i].fresh = FALSE]
  <2>1. Only(sess, sess', i)
    BY <1>0, <1>4, Ages
  <2>2. Keeps(sess[i], sess'[i]) /\ Parked(sess[i], sess'[i])
    BY <1>0, <1>4 DEF Session, Keeps, Plain, Parked
  <2> QED BY <1>1, <2>1, <2>2, TaskTurn
<1> QED BY <1>1, <1>2, <1>3, <1>4

LEMMA DoneFacts ==
  ASSUME SessionInv, NEW i \in DOMAIN sess, sess[i].task = "ready"
  PROVE  LET done == [sess EXCEPT ![i].task = "done"]
         IN  Only(sess, done, i) /\ Keeps(sess[i], done[i]) /\ done[i].task = "done"
<1>0. sess \in Seq(Session) /\ sess[i] \in Session /\ Plain(sess[i])
  BY InvFacts
<1>1. Only(sess, [sess EXCEPT ![i].task = "done"], i)
  BY <1>0, Registers
<1>2. Keeps(sess[i], [sess EXCEPT ![i].task = "done"][i]) /\ [sess EXCEPT ![i].task = "done"][i].task = "done"
  BY <1>0 DEF Session, Keeps, Plain
<1> QED BY <1>1, <1>2

LEMMA KeepsClosed ==
  ASSUME NEW a, NEW b, NEW c, Keeps(a, b), Calm(b, c)
  PROVE  Keeps(a, c) /\ c.task = b.task
BY DEF Keeps, Calm, Plain

(* A session that is given up, or closes the one in its place. *)
LEMMA DropKeeps ==
  ASSUME SessionInv, NEW i \in DOMAIN sess, sess[i].task = "ready", UNCHANGED <<mapVars, evs, wait, acts>>,
         \/ sess' = close([sess EXCEPT ![i].task = "done"], {i})
         \/ is_closed(i) /\ sess' = [sess EXCEPT ![i].task = "done"]
         \/ \E j : sess' = close(sess, {j})
  PROVE  SessionInv'
<1>0. sess \in Seq(Session) /\ sess[i] \in Session /\ Plain(sess[i])
  BY InvFacts
<1> DEFINE done == [sess EXCEPT ![i].task = "done"]
<1>1. Only(sess, done, i) /\ Keeps(sess[i], done[i]) /\ done[i].task = "done"
  BY DoneFacts
<1> HIDE DEF done
<1>2. CASE sess' = close(done, {i})
  <2>1. Only(sess, sess', i) /\ Calm(done[i], sess'[i]) /\ sess'[i].lost
    BY <1>0, <1>1, <1>2, OnlyClose
  <2>2. Keeps(sess[i], sess'[i]) /\ Parked(sess[i], sess'[i])
    BY <1>1, <2>1, KeepsClosed DEF Parked
  <2> QED BY <2>1, <2>2, TaskTurn
<1>3. CASE is_closed(i) /\ sess' = done
  <2>1. Parked(sess[i], sess'[i])
    BY <1>0, <1>1, <1>3 DEF Parked, is_closed, Plain, Keeps
  <2> QED BY <1>1, <1>3, <2>1, TaskTurn
<1>4. CASE \E j : sess' = close(sess, {j})
  <2>1. Only(sess, sess', i) /\ Calm(sess[i], sess'[i])
    BY <1>0, <1>4, CloseFacts DEF Only
  <2>2. Keeps(sess[i], sess'[i]) /\ Parked(sess[i], sess'[i])
    BY <1>0, <2>1, CalmRow DEF Calm, Keeps, Row
  <2> QED BY <2>1, <2>2, TaskTurn
<1> QED BY <1>2, <1>3, <1>4 DEF done

LEMMA RegisterDialKeeps ==
  ASSUME SessionInv, NEW i \in DOMAIN sess, RegisterDial(i)
  PROVE  SessionInv'
<1> DEFINE old == sessions[sess[i].peer]
           done == [sess EXCEPT ![i].task = "done"]
           fresh == [done EXCEPT ![i].fresh = TRUE]
<1>0. sess \in Seq(Session) /\ sess[i] \in Session /\ old \in 0 .. Len(sess) /\ DOMAIN sess = 1 .. Len(sess)
  BY InvFacts
<1>1. /\ sess[i].task = "ready" /\ UNCHANGED <<active, owner, injected, evs, wait, acts>>
      /\ \/ sess' = close(done, {i}) /\ UNCHANGED sessions
         \/ sess' = close(fresh, {old} \ {0}) /\ Insert(i)
  BY DEF RegisterDial
<1>2. CASE sess' = close(done, {i}) /\ UNCHANGED sessions
  BY <1>1, <1>2, DropKeeps DEF mapVars
<1>3. CASE sess' = close(fresh, {old} \ {0}) /\ Insert(i)
  <2>1. Only(sess, done, i) /\ Keeps(sess[i], done[i]) /\ done[i].task = "done"
    BY <1>1, DoneFacts
  <2>2. done \in Seq(Session) /\ i \in DOMAIN done
    BY <2>1 DEF Only
  <2>3. done[i] \in Session
    BY <2>2
  <2>4. Only(done, fresh, i)
    BY <2>2, Ages
  <2>5. Calm(done[i], fresh[i])
    BY <2>2, <2>3 DEF Session, Calm
  <2> HIDE DEF done, fresh
  <2>6. Only(sess, fresh, i)
    BY <2>1, <2>4, OnlyTwice
  <2>7. Only(sess, sess', i) /\ Calm(fresh[i], sess'[i]) /\ \A j \in DOMAIN sess \cap ({old} \ {0}) : sess'[j].lost
    BY <1>0, <1>3, <2>6, OnlyClose
  <2>8. Keeps(sess[i], sess'[i]) /\ sess'[i].task = "done"
    BY <2>1, <2>5, <2>7, KeepsClosed
  <2>9. old # 0 => sess'[old].lost
    BY <1>0, <2>7
  <2> QED BY <1>1, <1>3, <2>7, <2>8, <2>9, JoinTurn
<1> QED BY <1>1, <1>2, <1>3

LEMMA RegisterAcceptedKeeps ==
  ASSUME SessionInv, NEW i \in DOMAIN sess, RegisterAccepted(i)
  PROVE  SessionInv'
<1> DEFINE old == sessions[sess[i].peer]
           done == [sess EXCEPT ![i].task = "done"]
<1>1. /\ sess[i].task = "ready" /\ UNCHANGED <<active, owner, injected, evs, wait, acts>>
      /\ \/ sess' = close(done, {i}) /\ UNCHANGED sessions
         \/ is_closed(i) /\ sess' = done /\ UNCHANGED sessions
         \/ old = 0 /\ sess' = done /\ Insert(i)
         \/ sess' = close(sess, {old}) /\ UNCHANGED sessions
  BY DEF RegisterAccepted, MayInsert
<1>2. CASE UNCHANGED sessions
  <2>1. \/ sess' = close(done, {i})
        \/ is_closed(i) /\ sess' = done
        \/ \E j : sess' = close(sess, {j})
        \/ old = 0 /\ sess' = done /\ Insert(i)
    BY <1>1
  <2>2. CASE ~(old = 0 /\ sess' = done /\ Insert(i))
    BY <1>1, <1>2, <2>1, <2>2, DropKeeps DEF mapVars
  <2>3. CASE old = 0 /\ sess' = done /\ Insert(i)
    BY <1>1, <2>3, DoneFacts, JoinTurn
  <2> QED BY <2>2, <2>3
<1>3. CASE old = 0 /\ sess' = done /\ Insert(i)
  BY <1>1, <1>3, DoneFacts, JoinTurn
<1> QED BY <1>1, <1>2, <1>3

-----------------------------------------------------------------------------
(* A new session, and what its actor does *)

LEMMA Starts ==
  ASSUME SessionInv, NEW r \in Session, sess' = Append(sess, r), Plain(r), r.task # "done",
         UNCHANGED <<mapVars, evs, wait, acts>>
  PROVE  SessionInv'
<1> DEFINE n == Len(sess)
<1>0. /\ sess \in Seq(Session) /\ DOMAIN sess = 1 .. n /\ n \in Nat
      /\ sessions \in [Peers -> 0 .. n]
      /\ \A j \in DOMAIN sess : sess[j] \in Session /\ sess[j].peer \in Peers
  BY InvFacts
<1>1. /\ sess' \in Seq(Session) /\ Len(sess') = n + 1 /\ DOMAIN sess' = 1 .. n + 1
      /\ \A j \in 1 .. n : sess'[j] = sess[j]
      /\ sess'[n + 1] = r
  BY <1>0, AppendAt
<1>2. sessions' = sessions /\ active' = active
  BY DEF mapVars
<1> HIDE DEF n
<1>3. MapInv'
  <2>1. sessions' \in [Peers -> 0 .. Len(sess')]
    BY <1>0, <1>1, <1>2
  <2>2. \A p \in Peers : sessions'[p] # 0 => sess'[sessions'[p]].peer = p /\ sess'[sessions'[p]].task = "done"
    <3> TAKE p \in Peers
    <3> HAVE sessions'[p] # 0
    <3>1. sessions[p] \in 1 .. n
      BY <1>0, <1>2
    <3> QED BY <1>1, <1>2, <3>1 DEF SessionInv, MapInv
  <2>3. \A j \in DOMAIN sess' : j \in 1 .. n \/ j = n + 1
    BY <1>0, <1>1
  <2>4. \A j \in DOMAIN sess' : Plain(sess'[j]) /\ (sess'[j].task = "done" => sessions'[sess'[j].peer] = j \/ sess'[j].lost)
    BY <1>0, <1>1, <1>2, <2>3 DEF SessionInv, MapInv, Current
  <2> QED BY <1>1, <2>1, <2>2, <2>4 DEF MapInv, Current
<1>4. HeldInv'
  BY <1>0, <1>1, <1>2 DEF SessionInv, HeldInv
<1>5. EventInv'
  <2>1. \A j \in DOMAIN sess : Suits(sess[j], sess'[j])
    BY <1>0, <1>1 DEF Suits
  <2>2. DOMAIN sess \subseteq DOMAIN sess'
    BY <1>0, <1>1
  <2> QED BY <2>1, <2>2, EventsKeep DEF SessionInv, EventInv
<1>6. OneActivation'
  <2>1. Ids = 1 .. n /\ Ids' = 1 .. n + 1
    BY <1>1 DEF Ids, n
  <2>2. \A j : FinalOut(j)' = FinalOf(sess'[j]) /\ FinalOut(j) = FinalOf(sess[j])
    BY DEF FinalOut, FinalOf
  <2>3. FinalOf(sess'[n + 1]) = 0
    BY <1>1 DEF FinalOf, Plain
  <2>4. \A j \in 1 .. n + 1 : j \in 1 .. n \/ j = n + 1
    BY <1>0
  <2> QED BY <1>1, <1>2, <2>1, <2>2, <2>3, <2>4 DEF SessionInv, OneActivation
<1> QED BY <1>3, <1>4, <1>5, <1>6 DEF SessionInv

LEMMA DialKeeps ==
  ASSUME SessionInv, NEW p \in Peers, Dial(p) \/ AcceptConnection(p)
  PROVE  SessionInv'
<1>1. UNCHANGED <<mapVars, evs, wait, acts>>
  BY DEF Dial, AcceptConnection
<1>2. <<>> \in Seq(Queued)
  BY EmptySeq
<1>3. \A dir \in {"in", "out"}, task \in {"setup", "retire"} :
        /\ NewSession(p, dir, task) \in Session
        /\ NewSession(p, dir, task).task = task /\ NewSession(p, dir, task).actor = "none"
        /\ NewSession(p, dir, task).out = 0 /\ NewSession(p, dir, task).queue = <<>>
  BY <1>2 DEF NewSession, Session
<1>4. CASE Dial(p)
  <2> DEFINE r == [NewSession(p, "out", "setup") EXCEPT !.actor = "run"]
  <2>1. r \in Session /\ r.task = "setup" /\ r.actor = "run" /\ r.out = 0 /\ r.queue = <<>>
    BY <1>2 DEF NewSession, Session
  <2>2. sess' = Append(sess, r)
    BY <1>4 DEF Dial
  <2> HIDE DEF r
  <2> QED BY <1>1, <2>1, <2>2, Starts DEF Plain
<1>5. CASE AcceptConnection(p)
  <2> DEFINE r == NewSession(p, "in", "retire")
  <2>1. r \in Session /\ r.task = "retire" /\ r.actor = "none" /\ r.out = 0 /\ r.queue = <<>>
    BY <1>3
  <2>2. sess' = Append(sess, r)
    BY <1>5 DEF AcceptConnection
  <2> HIDE DEF r
  <2> QED BY <1>1, <2>1, <2>2, Starts DEF Plain
<1> QED BY <1>4, <1>5

(* An actor that runs emits one event and changes as the event says. *)
LEMMA EmitsEvent ==
  ASSUME EventInv, NEW i \in DOMAIN sess, sess \in Seq(Session), Only(sess, sess', i),
         sess[i].actor = "run", NEW kind \in Kind, Fits(kind, sess'[i]),
         evs' = Append(evs, [id |-> i, kind |-> kind])
  PROVE  EventInv'
<1>1. Silent(evs, i)
  BY RunsSilent DEF EventInv
<1>2. \A j \in DOMAIN sess \ {i} : Suits(sess[j], sess'[j])
  BY CalmRow DEF Only, Suits
<1>3. EventsFit(evs, sess')
  BY <1>1, <1>2, EventsKeep DEF EventInv, Only
<1> DEFINE e == [id |-> i, kind |-> kind]
<1>4. e \in Event /\ e.id = i /\ e.kind = kind
  BY DEF Event
<1>5. e.id \in DOMAIN sess'
  BY <1>4 DEF Only
<1> HIDE DEF e
<1>6. EventsFit(Append(evs, e), sess') /\ Append(evs, e) \in Seq(Event)
  BY <1>1, <1>3, <1>4, <1>5, EventsAdd DEF EventInv
<1> QED BY <1>6 DEF EventInv, e

LEMMA PeerInputKeeps ==
  ASSUME SessionInv, NEW i \in DOMAIN sess, PeerInput(i)
  PROVE  SessionInv'
<1>0. sess \in Seq(Session) /\ sess[i] \in Session /\ Plain(sess[i])
  BY InvFacts
<1>1. /\ sess[i].actor = "run" /\ sess' = [sess EXCEPT ![i].actor = "asking"]
      /\ UNCHANGED <<mapVars, wait, acts>>
      /\ \/ ~sess[i].inb /\ evs' = Append(evs, [id |-> i, kind |-> "enter"])
         \/ sess[i].inb /\ evs' = Append(evs, [id |-> i, kind |-> "press"])
         \/ sess[i].inb /\ evs' = Append(evs, [id |-> i, kind |-> "leave"])
  BY DEF PeerInput, Emit
<1>2. Only(sess, sess', i)
  BY <1>0, <1>1, Asking
<1>3. /\ sess'[i].actor = "asking" /\ sess'[i].inb = sess[i].inb /\ sess'[i].peer = sess[i].peer
      /\ sess'[i].dir = sess[i].dir /\ sess'[i].lost = sess[i].lost /\ sess'[i].task = sess[i].task
      /\ sess'[i].out = sess[i].out /\ sess'[i].queue = sess[i].queue
  BY <1>0, <1>1 DEF Session
<1>4. Row(sess[i], sess'[i]) /\ Settled(sess[i], sess'[i]) /\ Parked(sess[i], sess'[i])
  BY <1>0, <1>1, <1>3 DEF Row, Settled, Parked, FinalOf, Plain
<1>5. EventInv'
  <2>1. \E kind \in Kind : Fits(kind, sess'[i]) /\ evs' = Append(evs, [id |-> i, kind |-> kind])
    BY <1>1, <1>3 DEF Fits, Kind
  <2> QED BY <1>0, <1>1, <1>2, <2>1, EmitsEvent DEF SessionInv
<1> QED BY <1>1, <1>2, <1>4, <1>5, Turn DEF mapVars

LEMMA LossKeeps ==
  ASSUME SessionInv, NEW i \in DOMAIN sess, ConnectionLost(i)
  PROVE  SessionInv'
<1>0. sess \in Seq(Session) /\ sess[i] \in Session /\ Plain(sess[i])
  BY InvFacts
<1>1. sess' = [sess EXCEPT ![i].lost = TRUE] /\ UNCHANGED <<mapVars, evs, wait, acts>>
  BY DEF ConnectionLost
<1>2. Only(sess, sess', i)
  BY <1>0, <1>1, Loses
<1>3. Keeps(sess[i], sess'[i]) /\ Parked(sess[i], sess'[i])
  BY <1>0, <1>1 DEF Session, Keeps, Plain, Parked
<1> QED BY <1>1, <1>2, <1>3, TaskTurn

LEMMA LeaseKeeps ==
  ASSUME SessionInv, NEW i \in DOMAIN sess, LeaseEnds(i)
  PROVE  SessionInv'
<1>0. sess \in Seq(Session) /\ sess[i] \in Session /\ Plain(sess[i])
  BY InvFacts
<1>1. /\ sess[i].actor = "run" /\ sess' = [sess EXCEPT ![i].out = 0]
      /\ UNCHANGED <<mapVars, wait, acts>> /\ evs' = Append(evs, [id |-> i, kind |-> "ended"])
  BY DEF LeaseEnds, Emit
<1>2. Only(sess, sess', i)
  BY <1>0, <1>1, Lets
<1>3. /\ sess'[i].actor = "run" /\ sess'[i].inb = sess[i].inb /\ sess'[i].peer = sess[i].peer
      /\ sess'[i].dir = sess[i].dir /\ sess'[i].lost = sess[i].lost /\ sess'[i].task = sess[i].task
      /\ sess'[i].out = 0 /\ sess'[i].queue = sess[i].queue
  BY <1>0, <1>1 DEF Session
<1>4. Row(sess[i], sess'[i]) /\ Settled(sess[i], sess'[i]) /\ Parked(sess[i], sess'[i])
  BY <1>0, <1>1, <1>3 DEF Row, Settled, Parked, FinalOf, Plain
<1>5. EventInv'
  BY <1>0, <1>1, <1>2, EmitsEvent DEF SessionInv, Fits, Kind
<1> QED BY <1>1, <1>2, <1>4, <1>5, Turn DEF mapVars

LEMMA LastOfTail ==
  ASSUME NEW q \in Seq(Queued), q # <<>>
  PROVE  /\ Tail(q) \in Seq(Queued) /\ Head(q) \in Queued
         /\ Tail(q) = <<>> => Last(q) = Head(q)
         /\ Tail(q) # <<>> => Last(Tail(q)) = Last(q)
<1>1. /\ Tail(q) \in Seq(Queued) /\ Len(q) \in Nat /\ Len(q) > 0 /\ Head(q) = q[1] /\ Head(q) \in Queued
      /\ DOMAIN Tail(q) = 1 .. Len(q) - 1 /\ Len(Tail(q)) = Len(q) - 1
      /\ \A k \in DOMAIN Tail(q) : Tail(q)[k] = q[k + 1]
  BY TailAt
<1>2. CASE Len(q) = 1
  <2>1. Tail(q) = <<>>
    BY <1>1, <1>2, EmptySeq
  <2> QED BY <1>1, <1>2, <2>1 DEF Last
<1>3. CASE Len(q) # 1
  <2>1. Len(q) - 1 \in DOMAIN Tail(q) /\ Len(Tail(q)) # 0
    BY <1>1, <1>3
  <2>2. Tail(q)[Len(q) - 1] = q[Len(q)]
    BY <1>1, <2>1
  <2>3. Tail(q) # <<>>
    BY <1>1, <2>1, EmptySeq
  <2> QED BY <1>1, <2>2, <2>3 DEF Last
<1> QED BY <1>2, <1>3

LEMMA LastOfAppend ==
  ASSUME NEW q \in Seq(Queued), NEW e \in Queued
  PROVE  Append(q, e) \in Seq(Queued) /\ Append(q, e) # <<>> /\ Last(Append(q, e)) = e
BY AppendAt DEF Last

(* The single exit path: the activation is closed, what its peer holds is    *)
(* released, and Closed is the last event.                                   *)
LEMMA ExitKeeps ==
  ASSUME SessionInv, NEW i \in DOMAIN sess, sess[i].actor = "run", UNCHANGED <<mapVars, acts>>,
         NEW before, before = <<>> \/ before = <<[id |-> i, kind |-> "ended"]>>,
         NEW w, w.who = wait.who /\ w.id = wait.id /\ w.next = wait.next, Exit(i, before, w)
  PROVE  SessionInv'
<1> DEFINE ended == [sess EXCEPT ![i].out = 0, ![i].lost = TRUE]
           last == [id |-> i, kind |-> IF sess[i].inb THEN "release" ELSE "closed"]
<1>0. sess \in Seq(Session) /\ sess[i] \in Session /\ Plain(sess[i]) /\ DOMAIN sess = 1 .. Len(sess)
  BY InvFacts
<1>1. /\ evs' = evs \o before \o <<last>> /\ wait' = w
      /\ sess' = IF sess[i].inb THEN [ended EXCEPT ![i].actor = "cleanup"]
                 ELSE [ended EXCEPT ![i].actor = "over", ![i].queue = <<>>]
  BY DEF Exit
<1>2. Only(sess, ended, i) /\ ended \in Seq(Session) /\ i \in DOMAIN ended /\ ended[i] \in Session
  <2>1. Only(sess, ended, i)
    BY <1>0, Stops
  <2>2. ended \in Seq(Session) /\ i \in DOMAIN ended
    BY <2>1 DEF Only
  <2>3. ended[i] \in Session
    BY <2>2
  <2> QED BY <2>1, <2>2, <2>3
<1>3. /\ ended[i].actor = "run" /\ ended[i].inb = sess[i].inb /\ ended[i].peer = sess[i].peer
      /\ ended[i].dir = sess[i].dir /\ ended[i].lost /\ ended[i].task = sess[i].task
      /\ ended[i].out = 0 /\ ended[i].queue = sess[i].queue
  BY <1>0 DEF Session
<1> HIDE DEF ended
<1>4. /\ Only(sess, sess', i) /\ sess'[i].inb = sess[i].inb /\ sess'[i].peer = sess[i].peer
      /\ sess'[i].dir = sess[i].dir /\ sess'[i].lost /\ sess'[i].task = sess[i].task /\ sess'[i].out = 0
      /\ sess[i].inb => sess'[i].actor = "cleanup" /\ sess'[i].queue = sess[i].queue
      /\ ~sess[i].inb => sess'[i].actor = "over" /\ sess'[i].queue = <<>>
  <2>1. CASE sess[i].inb
    <3>1. sess' = [ended EXCEPT ![i].actor = "cleanup"]
      BY <1>1, <2>1
    <3>2. Only(ended, sess', i)
      BY <1>2, <3>1, Cleans
    <3>3. Only(sess, sess', i)
      BY <1>2, <3>2, OnlyTwice
    <3> QED BY <1>2, <1>3, <2>1, <3>1, <3>3 DEF Session
  <2>2. CASE ~sess[i].inb
    <3>1. sess' = [ended EXCEPT ![i].actor = "over", ![i].queue = <<>>]
      BY <1>1, <2>2
    <3>2. Only(ended, sess', i)
      BY <1>2, <3>1, Ends
    <3>3. Only(sess, sess', i)
      BY <1>2, <3>2, OnlyTwice
    <3> QED BY <1>2, <1>3, <2>2, <3>1, <3>3 DEF Session
  <2> QED BY <2>1, <2>2
<1>5. Row(sess[i], sess'[i]) /\ Settled(sess[i], sess'[i]) /\ Parked(sess[i], sess'[i])
  BY <1>0, <1>4 DEF Row, Settled, Parked, Plain
<1>6. EventInv'
  <2>1. Silent(evs, i) /\ evs \in Seq(Event)
    BY RunsSilent DEF SessionInv, EventInv
  <2>2. \A j \in DOMAIN sess \ {i} : Suits(sess[j], sess'[j])
    BY <1>4, CalmRow DEF Only, Suits
  <2>3. EventsFit(evs, sess') /\ i \in DOMAIN sess'
    BY <1>4, <2>1, <2>2, EventsKeep DEF SessionInv, EventInv, Only
  <2>4. [id |-> i, kind |-> "ended"] \in Event /\ last \in Event
    BY <1>0 DEF Event, Kind
  <2> DEFINE q == evs \o before
  <2>5. q \in Seq(Event) /\ EventsFit(q, sess') /\ Silent(q, i)
    <3>1. CASE before = <<>>
      <4>1. q = evs
        BY <2>1, <3>1
      <4> QED BY <2>1, <2>3, <4>1
    <3>2. CASE before = <<[id |-> i, kind |-> "ended"]>>
      <4>1. q = Append(evs, [id |-> i, kind |-> "ended"])
        BY <2>1, <2>4, <3>2, OneIsAppended
      <4> DEFINE e == [id |-> i, kind |-> "ended"]
      <4>2. e.id = i /\ e.kind = "ended" /\ e \in Event
        BY <2>4
      <4> HIDE DEF e, q
      <4>3. EventsFit(Append(evs, e), sess') /\ Append(evs, e) \in Seq(Event)
        BY <2>1, <2>3, <4>2, EventsAdd DEF Fits, Request
      <4>4. \A k \in DOMAIN Append(evs, e) : (k \in DOMAIN evs /\ Append(evs, e)[k] = evs[k]) \/ Append(evs, e)[k] = e
        <5>1. /\ Len(evs) \in Nat
              /\ DOMAIN evs = 1 .. Len(evs) /\ DOMAIN Append(evs, e) = 1 .. Len(evs) + 1
              /\ \A k \in DOMAIN evs : Append(evs, e)[k] = evs[k]
              /\ Append(evs, e)[Len(evs) + 1] = e
          BY <2>1, <4>2, AppendAt
        <5> DEFINE h == Append(evs, e)
        <5> HIDE DEF h
        <5> QED BY <5>1 DEF h
      <4>5. Silent(Append(evs, e), i)
        BY <2>1, <4>2, <4>4 DEF Silent
      <4> QED BY <4>1, <4>3, <4>5 DEF e
    <3> QED BY <3>1, <3>2
  <2>6. last.id = i /\ Fits(last.kind, sess'[i])
    BY <1>4 DEF Fits
  <2> HIDE DEF q, last
  <2>7. EventsFit(Append(q, last), sess') /\ Append(q, last) \in Seq(Event)
    BY <2>3, <2>4, <2>5, <2>6, EventsAdd
  <2>8. evs' = Append(q, last)
    BY <1>1, <2>4, <2>5, OneIsAppended DEF q
  <2> QED BY <2>7, <2>8 DEF EventInv
<1> QED BY <1>1, <1>4, <1>5, <1>6, Turn DEF mapVars

LEMMA ReceiptSame ==
  ASSUME wait \in Waiting, NEW cmd, NEW r \in {"ok", "failed"}
  PROVE  LET w == Receipt(cmd, r)
         IN  w.who = wait.who /\ w.id = wait.id /\ w.next = wait.next
BY DEF Receipt, Waiting

LEMMA ActorsKeep ==
  ASSUME SessionInv, wait \in Waiting, NEW i \in DOMAIN sess,
         ActorStops(i) \/ BeginOutbound(i) \/ EndOutbound(i)
  PROVE  SessionInv'
<1>0. sess \in Seq(Session) /\ sess[i] \in Session /\ Plain(sess[i])
  BY InvFacts
<1>a. sess[i].queue \in Seq(Queued)
  BY <1>0 DEF Session
<1>1. CASE \E before, w : /\ sess[i].actor = "run" /\ UNCHANGED <<mapVars, acts>>
                          /\ before = <<>> \/ before = <<[id |-> i, kind |-> "ended"]>>
                          /\ w.who = wait.who /\ w.id = wait.id /\ w.next = wait.next /\ Exit(i, before, w)
  BY <1>1, ExitKeeps
<1>2. CASE ActorStops(i)
  BY <1>1, <1>2 DEF ActorStops
<1>3. CASE BeginOutbound(i)
  <2> DEFINE head == Head(sess[i].queue)
  <2>1. /\ sess[i].actor = "run" /\ sess[i].queue # <<>> /\ head.op = "begin" /\ UNCHANGED <<mapVars, acts>>
        /\ \/ /\ sess' = [sess EXCEPT ![i].out = head.act, ![i].queue = Tail(sess[i].queue)]
              /\ UNCHANGED <<evs, wait>>
           \/ Exit(i, <<[id |-> i, kind |-> "ended"]>>, wait)
           \/ Exit(i, <<>>, wait)
    BY <1>3 DEF BeginOutbound
  <2>2. CASE /\ sess' = [sess EXCEPT ![i].out = head.act, ![i].queue = Tail(sess[i].queue)]
             /\ UNCHANGED <<evs, wait>>
    <3>1. /\ Tail(sess[i].queue) \in Seq(Queued) /\ head \in Queued /\ head.act \in Nat
          /\ Tail(sess[i].queue) = <<>> => Last(sess[i].queue) = head
          /\ Tail(sess[i].queue) # <<>> => Last(Tail(sess[i].queue)) = Last(sess[i].queue)
      BY <1>a, <2>1, LastOfTail DEF Queued
    <3>2. Only(sess, sess', i)
      BY <1>0, <2>2, <3>1, Opens
    <3>3. /\ sess'[i].actor = "run" /\ sess'[i].inb = sess[i].inb /\ sess'[i].peer = sess[i].peer
          /\ sess'[i].dir = sess[i].dir /\ sess'[i].lost = sess[i].lost /\ sess'[i].task = sess[i].task
          /\ sess'[i].out = head.act /\ sess'[i].queue = Tail(sess[i].queue)
      BY <1>0, <2>1, <2>2 DEF Session
    <3> HIDE DEF head
    <3>4. Row(sess[i], sess'[i]) /\ Parked(sess[i], sess'[i])
      BY <1>0, <2>1, <3>3 DEF Row, Parked, Plain
    <3>5. Settled(sess[i], sess'[i])
      BY <2>1, <3>1, <3>3 DEF Settled, FinalOf
    <3>6. EventInv'
      BY <2>1, <2>2, <3>2, EventsOnly DEF SessionInv
    <3> QED BY <2>1, <2>2, <3>2, <3>4, <3>5, <3>6, Turn DEF mapVars
  <2>3. CASE Exit(i, <<[id |-> i, kind |-> "ended"]>>, wait) \/ Exit(i, <<>>, wait)
    BY <1>1, <2>1, <2>3
  <2> QED BY <2>1, <2>2, <2>3
<1>4. CASE EndOutbound(i)
  <2> DEFINE head == Head(sess[i].queue)
  <2>1. /\ sess[i].actor = "run" /\ sess[i].queue # <<>> /\ head.op = "end" /\ UNCHANGED <<mapVars, acts>>
        /\ \/ /\ sess' = [sess EXCEPT ![i].out = 0, ![i].queue = Tail(sess[i].queue)]
              /\ evs' = Append(evs, [id |-> i, kind |-> "ended"]) /\ wait' = Receipt(head, "ok")
           \/ Exit(i, <<>>, Receipt(head, "failed"))
    BY <1>4 DEF EndOutbound, Emit
  <2>2. CASE /\ sess' = [sess EXCEPT ![i].out = 0, ![i].queue = Tail(sess[i].queue)]
             /\ evs' = Append(evs, [id |-> i, kind |-> "ended"]) /\ wait' = Receipt(head, "ok")
    <3>1. /\ Tail(sess[i].queue) \in Seq(Queued)
          /\ Tail(sess[i].queue) = <<>> => Last(sess[i].queue) = head
          /\ Tail(sess[i].queue) # <<>> => Last(Tail(sess[i].queue)) = Last(sess[i].queue)
      BY <1>a, <2>1, LastOfTail
    <3>2. Only(sess, sess', i)
      BY <1>0, <2>2, <3>1, Opens
    <3>3. /\ sess'[i].actor = "run" /\ sess'[i].inb = sess[i].inb /\ sess'[i].peer = sess[i].peer
          /\ sess'[i].dir = sess[i].dir /\ sess'[i].lost = sess[i].lost /\ sess'[i].task = sess[i].task
          /\ sess'[i].out = 0 /\ sess'[i].queue = Tail(sess[i].queue)
      BY <1>0, <2>1, <2>2 DEF Session
    <3> HIDE DEF head
    <3>4. Row(sess[i], sess'[i]) /\ Parked(sess[i], sess'[i])
      BY <1>0, <2>1, <3>3 DEF Row, Parked, Plain
    <3>5. Settled(sess[i], sess'[i])
      BY <2>1, <3>1, <3>3 DEF Settled, FinalOf
    <3>6. EventInv'
      BY <1>0, <2>1, <2>2, <3>2, EmitsEvent DEF SessionInv, Fits, Kind
    <3>7. wait'.who = wait.who /\ wait'.id = wait.id /\ wait'.next = wait.next
      BY <2>2, ReceiptSame
    <3> QED BY <2>1, <3>2, <3>4, <3>5, <3>6, <3>7, Turn DEF mapVars
  <2>3. CASE Exit(i, <<>>, Receipt(head, "failed"))
    <3>1. Receipt(head, "failed").who = wait.who /\ Receipt(head, "failed").id = wait.id
          /\ Receipt(head, "failed").next = wait.next
      BY ReceiptSame
    <3> QED BY <1>1, <2>1, <2>3, <3>1
  <2> QED BY <2>1, <2>2, <2>3
<1> QED BY <1>2, <1>3, <1>4

-----------------------------------------------------------------------------
(* The main loop's session events *)

(* The loop takes the first event; its session may be answered. *)
LEMMA TakesEvent ==
  ASSUME EventInv, sess \in Seq(Session), evs # <<>>, evs' = Tail(evs), NEW i, i = Head(evs).id,
         Only(sess, sess', i), Head(evs).kind \in Request \/ Suits(sess[i], sess'[i])
  PROVE  EventInv'
<1>1. /\ EventsFit(Tail(evs), sess) /\ Tail(evs) \in Seq(Event) /\ i \in DOMAIN sess
      /\ Head(evs).kind \in Request => Silent(Tail(evs), i)
  BY EventsTail DEF EventInv
<1>2. \A j \in DOMAIN sess : j # i => Suits(sess[j], sess'[j])
  BY CalmRow DEF Only, Suits
<1>3. EventsFit(Tail(evs), sess')
  BY <1>1, <1>2, EventsKeep DEF Only
<1> QED BY <1>1, <1>3 DEF EventInv

LEMMA RoutesKeep ==
  ASSUME SessionInv, (\E allowed \in BOOLEAN : RouteEnter(allowed)) \/ RoutePress \/ RouteLeave
  PROVE  SessionInv'
<1> DEFINE i == Head(evs).id
<1>1. /\ evs # <<>> /\ Head(evs).kind \in {"enter", "press", "leave"} /\ evs' = Tail(evs)
      /\ UNCHANGED <<sessions, active, wait, acts>>
      /\ \/ sess' = [sess EXCEPT ![i].actor = "run", ![i].lost = TRUE]
         \/ \E open \in BOOLEAN : sess' = [sess EXCEPT ![i].actor = "run", ![i].inb = open]
  <2>1. CASE \E allowed \in BOOLEAN : RouteEnter(allowed)
    BY <2>1 DEF RouteEnter, NextEv, Refused, Applied
  <2>2. CASE RoutePress
    BY <2>2 DEF RoutePress, NextEv, Refused, Applied
  <2>3. CASE RouteLeave
    BY <2>3 DEF RouteLeave, NextEv, Refused, Applied
  <2> QED BY <2>1, <2>2, <2>3
<1>2. i \in DOMAIN sess /\ sess[i].actor = "asking"
  <2>1. i \in DOMAIN sess /\ Fits(Head(evs).kind, sess[i])
    BY <1>1, EventsTail DEF SessionInv, EventInv
  <2> QED BY <1>1, <2>1 DEF Fits
<1> HIDE DEF i
<1>0. sess \in Seq(Session) /\ sess[i] \in Session /\ Plain(sess[i])
  BY <1>2, InvFacts
<1>3. /\ Only(sess, sess', i) /\ sess'[i].actor = "run" /\ sess'[i].peer = sess[i].peer
      /\ sess'[i].dir = sess[i].dir /\ (sess[i].lost => sess'[i].lost) /\ sess'[i].task = sess[i].task
      /\ sess'[i].out = sess[i].out /\ sess'[i].queue = sess[i].queue
  <2>1. CASE sess' = [sess EXCEPT ![i].actor = "run", ![i].lost = TRUE]
    <3>1. Only(sess, sess', i)
      BY <1>0, <1>2, <2>1, Refuses
    <3> QED BY <1>0, <1>2, <2>1, <3>1 DEF Session
  <2>2. CASE \E open \in BOOLEAN : sess' = [sess EXCEPT ![i].actor = "run", ![i].inb = open]
    <3>1. PICK open \in BOOLEAN : sess' = [sess EXCEPT ![i].actor = "run", ![i].inb = open]
      BY <2>2
    <3>2. Only(sess, sess', i)
      BY <1>0, <1>2, <3>1, Answers
    <3> QED BY <1>0, <1>2, <3>1, <3>2 DEF Session
  <2> QED BY <1>1, <2>1, <2>2
<1>4. Row(sess[i], sess'[i]) /\ Settled(sess[i], sess'[i]) /\ Parked(sess[i], sess'[i])
  BY <1>0, <1>2, <1>3 DEF Row, Settled, Parked, FinalOf, Plain
<1>5. EventInv'
  <2>1. Head(evs).kind \in Request
    BY <1>1 DEF Request
  <2> QED BY <1>0, <1>1, <1>3, <2>1, TakesEvent DEF SessionInv, i
<1> QED BY <1>1, <1>2, <1>3, <1>4, <1>5, Turn

LEMMA ReleaseKeeps ==
  ASSUME SessionInv, RouteRelease
  PROVE  SessionInv'
<1> DEFINE i == Head(evs).id
<1>1. /\ evs # <<>> /\ Head(evs).kind = "release" /\ UNCHANGED <<sessions, active, wait, acts>>
      /\ sess' = [sess EXCEPT ![i].actor = "over", ![i].inb = FALSE, ![i].queue = <<>>]
      /\ evs' = Append(Tail(evs), [id |-> i, kind |-> "closed"])
  BY DEF RouteRelease, NextEv
<1>2. /\ i \in DOMAIN sess /\ Fits(Head(evs).kind, sess[i]) /\ Tail(evs) \in Seq(Event)
      /\ EventsFit(Tail(evs), sess) /\ (Head(evs).kind \in Request => Silent(Tail(evs), i))
  BY <1>1, EventsTail DEF SessionInv, EventInv
<1> HIDE DEF i
<1>0. sess \in Seq(Session) /\ sess[i] \in Session /\ Plain(sess[i]) /\ i \in Nat
  BY <1>2, InvFacts
<1>3. Only(sess, sess', i)
  BY <1>0, <1>1, <1>2, Concludes
<1>4. /\ sess'[i].actor = "over" /\ ~sess'[i].inb /\ sess'[i].queue = <<>> /\ sess'[i].peer = sess[i].peer
      /\ sess'[i].dir = sess[i].dir /\ sess'[i].lost = sess[i].lost /\ sess'[i].task = sess[i].task
      /\ sess'[i].out = sess[i].out
  BY <1>0, <1>1, <1>2 DEF Session
<1>5. sess[i].actor = "cleanup" /\ Silent(Tail(evs), i)
  BY <1>1, <1>2 DEF Fits, Request
<1>6. Row(sess[i], sess'[i]) /\ Settled(sess[i], sess'[i]) /\ Parked(sess[i], sess'[i])
  BY <1>0, <1>4, <1>5 DEF Row, Settled, Parked, FinalOf, Plain
<1>7. EventInv'
  <2>1. \A j \in DOMAIN sess \ {i} : Suits(sess[j], sess'[j])
    BY <1>3, CalmRow DEF Only, Suits
  <2>2. EventsFit(Tail(evs), sess') /\ i \in DOMAIN sess'
    BY <1>2, <1>3, <1>5, <2>1, EventsKeep DEF Only
  <2> DEFINE e == [id |-> i, kind |-> "closed"]
  <2>3. e \in Event /\ e.id = i /\ e.kind = "closed"
    BY <1>0 DEF Event, Kind
  <2>4. evs' = Append(Tail(evs), e)
    BY <1>1
  <2> HIDE DEF e
  <2>5. Fits(e.kind, sess'[i]) /\ e.kind \notin Request
    BY <1>4, <2>3 DEF Fits, Request
  <2>6. EventsFit(Append(Tail(evs), e), sess') /\ Append(Tail(evs), e) \in Seq(Event)
    BY <1>2, <2>2, <2>3, <2>5, EventsAdd
  <2> QED BY <2>4, <2>6 DEF EventInv
<1> QED BY <1>1, <1>2, <1>3, <1>6, <1>7, Turn

LEMMA OutboundEndedKeeps ==
  ASSUME SessionInv, OutboundEnded
  PROVE  SessionInv'
<1> DEFINE i == Head(evs).id
<1>1. /\ evs # <<>> /\ evs' = Tail(evs) /\ UNCHANGED <<sessions, wait, acts>>
      /\ \/ UNCHANGED <<sess, active>>
         \/ active.id = i /\ active' = None /\ sess' = IF Current(i) THEN close(sess, {i}) ELSE sess
  BY DEF OutboundEnded, NextEv
<1>2. /\ i \in DOMAIN sess /\ Tail(evs) \in Seq(Event) /\ EventsFit(Tail(evs), sess)
  BY <1>1, EventsTail DEF SessionInv, EventInv
<1> HIDE DEF i
<1>0. /\ sess \in Seq(Session) /\ sess[i] \in Session /\ Plain(sess[i]) /\ i # 0
      /\ \A j \in DOMAIN sess : Plain(sess[j])
  BY <1>2, InvFacts
<1>3. /\ Rows(sess, sess') /\ Settle(sess, sess') /\ Park(sess, sess')
      /\ \A j \in DOMAIN sess : Calm(sess[j], sess'[j])
      /\ Current(i) /\ sess' = close(sess, {i}) => sess'[i].lost
  <2>1. CASE sess' = sess
    <3>1. \A j \in DOMAIN sess : Calm(sess[j], sess'[j])
      BY <2>1 DEF Calm
    <3>2. Current(i) /\ sess' = close(sess, {i}) => sess'[i].lost
      BY <1>0, <1>2, CloseRows
    <3> QED BY <1>0, <2>1, <3>1, <3>2, CalmRow DEF Rows, Settle, Park
  <2>2. CASE sess' = close(sess, {i})
    BY <1>0, <1>2, <2>2, CloseRows
  <2> QED BY <1>1, <2>1, <2>2
<1>4. MapInv'
  BY <1>1, <1>3, MapStays DEF SessionInv
<1>5. HeldInv'
  BY <1>1, <1>3, HeldStays DEF SessionInv
<1>6. EventInv'
  <2>1. \A j \in DOMAIN sess : Suits(sess[j], sess'[j])
    BY <1>3, CalmRow DEF Suits
  <2>2. DOMAIN sess \subseteq DOMAIN sess'
    BY <1>3 DEF Rows
  <2>3. EventsFit(Tail(evs), sess')
    BY <1>2, <2>1, <2>2, EventsKeep
  <2> QED BY <1>1, <1>2, <2>3 DEF EventInv
<1>7. OneActivation'
  <2>1. CASE active' = active
    BY <1>0, <1>3, <2>1, ActiveStays DEF SessionInv
  <2>2. CASE active.id = i /\ active' = None /\ sess' = IF Current(i) THEN close(sess, {i}) ELSE sess
    <3>1. sess'[i].lost
      <4>1. sess[i].task = "done"
        BY <1>0, <2>2 DEF SessionInv, HeldInv
      <4>2. Current(i) \/ sess[i].lost
        BY <1>2, <4>1 DEF SessionInv, MapInv
      <4> QED BY <1>2, <1>3, <2>2, <4>2 DEF Rows, Row
    <3> QED BY <1>0, <1>3, <2>2, <3>1, ActiveEnds DEF SessionInv
  <2> QED BY <1>1, <2>1, <2>2
<1> QED BY <1>4, <1>5, <1>6, <1>7 DEF SessionInv

(* Closed takes the session out of the map. *)
LEMMA SessionClosedKeeps ==
  ASSUME SessionInv, SessionClosed
  PROVE  SessionInv'
<1> DEFINE i == Head(evs).id
<1>1. /\ evs # <<>> /\ evs' = Tail(evs) /\ Head(evs).kind = "closed" /\ UNCHANGED <<sess, wait, acts>>
      /\ sessions' = IF Current(i) THEN [sessions EXCEPT ![sess[i].peer] = 0] ELSE sessions
      /\ active' = active \/ (active.id = i /\ active' = None)
  BY DEF SessionClosed, NextEv
<1>2. /\ i \in DOMAIN sess /\ Tail(evs) \in Seq(Event) /\ EventsFit(Tail(evs), sess)
      /\ Fits(Head(evs).kind, sess[i])
  BY <1>1, EventsTail DEF SessionInv, EventInv
<1> HIDE DEF i
<1>0. /\ sess \in Seq(Session) /\ sess[i] \in Session /\ Plain(sess[i]) /\ i # 0
      /\ sess[i].peer \in Peers /\ sessions \in [Peers -> 0 .. Len(sess)]
      /\ \A j \in DOMAIN sess : Plain(sess[j]) /\ sess[j].peer \in Peers
      /\ DOMAIN sess = 1 .. Len(sess) /\ Len(sess) \in Nat
  BY <1>2, InvFacts
<1>3. sess[i].lost
  BY <1>0, <1>1, <1>2 DEF Fits, Plain
<1>4. /\ Rows(sess, sess') /\ Settle(sess, sess')
  BY <1>0, <1>1 DEF Rows, Row, Settle, Settled
<1>5. MapInv'
  <2>1. CASE sessions' = sessions
    BY <1>1, <2>1 DEF SessionInv, MapInv, Current
  <2>2. CASE sessions' = [sessions EXCEPT ![sess[i].peer] = 0] /\ Current(i)
    <3>1. /\ sessions' \in [Peers -> 0 .. Len(sess)]
          /\ \A p \in Peers : sessions'[p] = IF p = sess[i].peer THEN 0 ELSE sessions[p]
      BY <1>0, <2>2
    <3>2. \A p \in Peers : sessions'[p] # 0 => sess[sessions'[p]].peer = p /\ sess[sessions'[p]].task = "done"
      BY <3>1 DEF SessionInv, MapInv
    <3>3. \A j \in DOMAIN sess : sess[j].task = "done" => sessions'[sess[j].peer] = j \/ sess[j].lost
      BY <1>0, <1>3, <2>2, <3>1 DEF SessionInv, MapInv, Current
    <3> QED BY <1>0, <1>1, <3>1, <3>2, <3>3 DEF MapInv, Current
  <2> QED BY <1>1, <2>1, <2>2
<1>6. HeldInv'
  BY <1>1, <1>4, HeldStays DEF SessionInv
<1>7. EventInv'
  BY <1>1, <1>2 DEF EventInv
<1>8. OneActivation'
  <2>1. CASE active' = active
    BY <1>0, <1>4, <2>1, ActiveStays DEF SessionInv
  <2>2. CASE active.id = i /\ active' = None
    BY <1>0, <1>1, <1>3, <1>4, <2>2, ActiveEnds DEF SessionInv
  <2> QED BY <1>1, <2>1, <2>2
<1> QED BY <1>5, <1>6, <1>7, <1>8 DEF SessionInv

-----------------------------------------------------------------------------
(* Activations begin, move and end *)

(* A command joins the queue of a registered session. *)
LEMMA QueueFacts ==
  ASSUME NEW f \in Seq(Session), NEW i \in DOMAIN f, Plain(f[i]), f[i].task = "done", f[i].actor # "over",
         NEW e \in Queued, \A j \in DOMAIN f : Plain(f[j])
  PROVE  LET g == [f EXCEPT ![i].queue = Append(@, e)]
         IN  /\ Rows(f, g) /\ Park(f, g)
             /\ \A j \in DOMAIN f \ {i} : Settled(f[j], g[j])
             /\ FinalOf(g[i]) = IF e.op = "begin" THEN e.act ELSE 0
             /\ \A j \in DOMAIN f : Suits(f[j], g[j])
<1> DEFINE g == [f EXCEPT ![i].queue = Append(@, e)]
<1>0. f[i] \in Session
  OBVIOUS
<1>1. f[i] \in Session /\ f[i].queue \in Seq(Queued)
  BY <1>0 DEF Session
<1>2. /\ Append(f[i].queue, e) \in Seq(Queued) /\ Append(f[i].queue, e) # <<>>
      /\ Last(Append(f[i].queue, e)) = e
  BY <1>1, LastOfAppend
<1>3. g = [f EXCEPT ![i].queue = Append(f[i].queue, e)]
  OBVIOUS
<1>4. Only(f, g, i)
  BY <1>2, <1>3, Queues
<1>5. /\ g[i].actor = f[i].actor /\ g[i].inb = f[i].inb /\ g[i].peer = f[i].peer
      /\ g[i].dir = f[i].dir /\ g[i].lost = f[i].lost /\ g[i].task = f[i].task
      /\ g[i].out = f[i].out /\ g[i].queue = Append(f[i].queue, e)
  BY <1>1, <1>3 DEF Session
<1> HIDE DEF g
<1>6. Row(f[i], g[i]) /\ Parked(f[i], g[i]) /\ Suits(f[i], g[i])
  BY <1>5 DEF Row, Parked, Plain, Suits, Fits
<1>7. Rows(f, g) /\ Park(f, g)
  BY <1>4, <1>6, OnlyRows
<1>8. \A j \in DOMAIN f \ {i} : Settled(f[j], g[j]) /\ Suits(f[j], g[j])
  BY <1>4, CalmRow DEF Only, Suits
<1>9. FinalOf(g[i]) = IF e.op = "begin" THEN e.act ELSE 0
  BY <1>2, <1>5 DEF FinalOf
<1> QED BY <1>6, <1>7, <1>8, <1>9 DEF g

(* The loop or a task moves on, and no session's actor changes. *)
LEMMA MovesOn ==
  ASSUME SessionInv, Rows(sess, sess'), Park(sess, sess'), UNCHANGED <<sessions, evs>>,
         \A j \in DOMAIN sess : Suits(sess[j], sess'[j])
  PROVE  MapInv' /\ EventInv'
<1>1. MapInv'
  BY MapStays DEF SessionInv
<1>2. EventInv'
  BY EventsCalm DEF SessionInv, Rows
<1> QED BY <1>1, <1>2

LEMMA SameRows ==
  ASSUME SessionInv
  PROVE  /\ Rows(sess, sess) /\ Settle(sess, sess) /\ Park(sess, sess)
         /\ \A j \in DOMAIN sess : Suits(sess[j], sess[j])
<1>1. sess \in Seq(Session) /\ \A j \in DOMAIN sess : Plain(sess[j])
  BY DEF SessionInv, MapInv
<1> QED BY <1>1 DEF Rows, Row, Settle, Settled, Park, Parked, Suits

LEMMA RemoteKeeps ==
  ASSUME RouteInv, SessionInv, RuntimeRemote
  PROVE  SessionInv'
<1> DEFINE p == Head(rtEvs).peer
           i == sessions[p]
<1>1. /\ UNCHANGED <<sessions, evs, wait>> /\ rtEvs # <<>> /\ Head(rtEvs).op = "remote"
      /\ \/ /\ sessions[p] # 0 /\ ~is_closed(i) /\ acts' = acts + 1
            /\ sess' = [sess EXCEPT ![i].queue = Append(@, [op |-> "begin", act |-> acts + 1])]
            /\ active' = [id |-> i, act |-> acts + 1]
         \/ UNCHANGED <<sess, active, acts>>
  BY DEF RuntimeRemote, NextRt, MayBegin, Begin
<1>2. p \in Peers /\ acts \in Nat /\ ~Begun
  <2>1. Head(rtEvs) \in RtEvent
    BY <1>1, TailAt DEF RouteInv, PortInv
  <2> QED BY <1>1, <2>1, FlowHead DEF RtEvent, RouteInv, PortInv
<1>3. active = None /\ wait.who # "hop"
  BY <1>2 DEF Begun, SessionInv, HeldInv
<1>4. CASE UNCHANGED <<sess, active, acts>>
  BY <1>1, <1>4 DEF SessionInv, MapInv, HeldInv, EventInv, OneActivation, Current, FinalOut, Ids
<1>5. CASE /\ sessions[p] # 0 /\ ~is_closed(i) /\ acts' = acts + 1
           /\ sess' = [sess EXCEPT ![i].queue = Append(@, [op |-> "begin", act |-> acts + 1])]
           /\ active' = [id |-> i, act |-> acts + 1]
  <2>1. i \in DOMAIN sess /\ sess[i].task = "done" /\ sess[i].actor # "over" /\ sess \in Seq(Session)
        /\ \A j \in DOMAIN sess : Plain(sess[j])
    <3>1. sessions \in [Peers -> 0 .. Len(sess)] /\ DOMAIN sess = 1 .. Len(sess) /\ Len(sess) \in Nat
      BY InvFacts
    <3>2. i \in DOMAIN sess
      BY <1>2, <1>5, <3>1
    <3> QED BY <1>2, <1>5, <3>2, InvFacts DEF SessionInv, MapInv, is_closed
  <2> DEFINE e == [op |-> "begin", act |-> acts + 1]
  <2>2. e \in Queued /\ e.op = "begin" /\ e.act = acts + 1
    BY <1>2 DEF Queued
  <2>3. sess' = [sess EXCEPT ![i].queue = Append(@, e)]
    BY <1>5
  <2>a. active' = [id |-> i, act |-> acts + 1]
    BY <1>5
  <2> HIDE DEF e, i
  <2>4. /\ Rows(sess, sess') /\ Park(sess, sess')
        /\ \A j \in DOMAIN sess \ {i} : Settled(sess[j], sess'[j])
        /\ FinalOf(sess'[i]) = acts + 1
        /\ \A j \in DOMAIN sess : Suits(sess[j], sess'[j])
    BY <2>1, <2>2, <2>3, QueueFacts
  <2>5. MapInv' /\ EventInv'
    BY <1>1, <2>4, MovesOn
  <2>6. OneActivation'
    BY <1>3, <2>1, <2>4, <2>a, ActiveBegins DEF SessionInv
  <2>7. HeldInv'
    <3>1. i # 0 /\ i \in DOMAIN sess' /\ sess'[i].task = "done"
      BY <2>1, <2>4, InvFacts DEF Rows, Row
    <3>2. active'.id = i
      BY <2>a
    <3> QED BY <1>1, <1>3, <2>4, <3>1, <3>2 DEF SessionInv, HeldInv, Rows, Row
  <2> QED BY <2>5, <2>6, <2>7 DEF SessionInv
<1> QED BY <1>1, <1>4, <1>5

LEMMA IdleKeeps ==
  ASSUME RouteInv, SessionInv, RuntimeIdle
  PROVE  SessionInv'
<1>1. /\ UNCHANGED <<sess, sessions, evs, wait, acts>> /\ rtEvs # <<>> /\ Head(rtEvs).op = "idle"
      /\ active' = None
  BY DEF RuntimeIdle, NextRt
<1>2. ~Begun
  BY <1>1, FlowHead DEF RouteInv
<1>3. active' = active
  BY <1>1, <1>2 DEF Begun, SessionInv, HeldInv
<1> QED BY <1>1, <1>3 DEF SessionInv, MapInv, HeldInv, EventInv, OneActivation, Current, FinalOut, Ids

(* The active activation is taken, and its session told to end it unless it  *)
(* ended or is no longer the one registered.                                 *)
LEMMA TakesActive ==
  ASSUME SessionInv, active \in Activation, UNCHANGED <<sessions, evs>>, active' = None,
         wait'.id = active.id,
         wait'.who = "hop" => wait'.next \in DOMAIN sess /\ sess[wait'.next].task = "done" /\ acts' # 0,
         \/ /\ active.id # 0 /\ ~is_closed(active.id)
            /\ sess' = [sess EXCEPT ![active.id].queue = Append(@, [op |-> "end", act |-> active.act])]
         \/ sess' = sess /\ (active.id # 0 => ~Current(active.id) \/ is_closed(active.id))
  PROVE  SessionInv'
<1> DEFINE i == active.id
<1>0. /\ sess \in Seq(Session) /\ \A j \in DOMAIN sess : Plain(sess[j])
      /\ i # 0 => i \in DOMAIN sess /\ sess[i].task = "done"
  BY DEF SessionInv, MapInv, HeldInv
<1> HIDE DEF i
<1>1. /\ Rows(sess, sess') /\ Park(sess, sess') /\ Settle(sess, sess')
      /\ i # 0 => FinalOf(sess'[i]) = 0 \/ sess'[i].lost
      /\ \A j \in DOMAIN sess : Suits(sess[j], sess'[j])
  <2>1. CASE /\ i # 0 /\ ~is_closed(i)
             /\ sess' = [sess EXCEPT ![i].queue = Append(@, [op |-> "end", act |-> active.act])]
    <3> DEFINE e == [op |-> "end", act |-> active.act]
    <3>1. e \in Queued /\ e.op = "end"
      BY DEF Queued, Activation
    <3>2. sess' = [sess EXCEPT ![i].queue = Append(@, e)]
      BY <2>1
    <3> HIDE DEF e
    <3>3. i \in DOMAIN sess /\ Plain(sess[i]) /\ sess[i].task = "done"
      BY <1>0, <2>1
    <3>4. sess[i].actor # "over"
      BY <2>1 DEF is_closed
    <3>5. /\ Rows(sess, sess') /\ Park(sess, sess')
          /\ \A j \in DOMAIN sess \ {i} : Settled(sess[j], sess'[j])
          /\ FinalOf(sess'[i]) = IF e.op = "begin" THEN e.act ELSE 0
          /\ \A j \in DOMAIN sess : Suits(sess[j], sess'[j])
      BY <1>0, <3>1, <3>2, <3>3, <3>4, QueueFacts
    <3>6. FinalOf(sess'[i]) = 0
      BY <3>1, <3>5
    <3>7. Settle(sess, sess')
      BY <3>5, <3>6 DEF Settle, Settled
    <3> QED BY <3>5, <3>6, <3>7
  <2>2. CASE sess' = sess /\ (i # 0 => ~Current(i) \/ is_closed(i))
    <3>1. i # 0 => sess[i].lost
      BY <1>0, <2>2 DEF SessionInv, MapInv, Plain, is_closed
    <3> QED BY <2>2, <3>1, SameRows
  <2> QED BY <2>1, <2>2 DEF i
<1>2. MapInv' /\ EventInv'
  BY <1>1, MovesOn
<1>3. OneActivation'
  BY <1>0, <1>1, ActiveEnds DEF SessionInv, i
<1>4. HeldInv'
  BY <1>0, <1>1 DEF HeldInv, Rows, Row, None, i
<1> QED BY <1>2, <1>3, <1>4 DEF SessionInv

LEMMA EndActiveKeeps ==
  ASSUME RouteInv, SessionInv, NEW who \in {"terminal", "closed"}, EndActive(who)
  PROVE  SessionInv'
<1> DEFINE i == active.id
           current == i # 0 /\ Current(i) /\ ~is_closed(i)
<1>1. /\ UNCHANGED <<sessions, evs, acts>> /\ active' = None
      /\ wait'.who = who /\ wait'.id = i
      /\ sess' = IF current THEN [sess EXCEPT ![i].queue = Append(@, [op |-> "end", act |-> active.act])]
                 ELSE sess
  BY DEF EndActive
<1>2. active \in Activation
  BY DEF RouteInv, PortInv
<1> QED BY <1>1, <1>2, TakesActive

LEMMA SwitchKeeps ==
  ASSUME RouteInv, SessionInv, NEW p \in Peers, SwitchOutbound(p)
  PROVE  SessionInv'
<1> DEFINE i == active.id
<1>1. /\ UNCHANGED <<sessions, evs>> /\ active' = None /\ acts' = acts + 1 /\ sessions[p] # 0
      /\ wait'.who = "hop" /\ wait'.id = i /\ wait'.next = sessions[p] /\ i # 0
      /\ sess' = IF Current(i) /\ ~is_closed(i)
                 THEN [sess EXCEPT ![i].queue = Append(@, [op |-> "end", act |-> active.act])]
                 ELSE sess
  BY DEF SwitchOutbound, HopLeaves
<1>2. active \in Activation /\ acts \in Nat
  BY DEF RouteInv, PortInv
<1>3. acts' # 0 /\ sessions[p] \in DOMAIN sess /\ sess[sessions[p]].task = "done"
  <2>1. acts' # 0
    BY <1>1, <1>2
  <2>2. sessions \in [Peers -> 0 .. Len(sess)] /\ DOMAIN sess = 1 .. Len(sess) /\ Len(sess) \in Nat
    BY InvFacts
  <2> QED BY <1>1, <2>1, <2>2 DEF SessionInv, MapInv
<1> QED BY <1>1, <1>2, <1>3, TakesActive

LEMMA EndFinishesSession ==
  ASSUME SessionInv, EndFinishes
  PROVE  SessionInv'
<1>1. /\ UNCHANGED <<sessions, active, evs, acts>> /\ wait' = Free
      /\ sess' = sess \/ \E is : sess' = close(sess, is)
  BY DEF EndFinishes, CloseIfCurrent, mapVars
<1>2. /\ Rows(sess, sess') /\ Settle(sess, sess') /\ Park(sess, sess')
      /\ \A j \in DOMAIN sess : Suits(sess[j], sess'[j])
  <2>1. CASE sess' = sess
    BY <2>1, SameRows
  <2>2. CASE \E is : sess' = close(sess, is)
    BY <2>2, InvFacts, CloseRows, CalmRow DEF Suits
  <2> QED BY <1>1, <2>1, <2>2
<1>3. MapInv' /\ EventInv'
  BY <1>1, <1>2, MovesOn
<1>4. HeldInv'
  BY <1>1, <1>2, HeldStays DEF SessionInv
<1>5. OneActivation'
  BY <1>1, <1>2, InvFacts, ActiveStays DEF SessionInv
<1> QED BY <1>3, <1>4, <1>5 DEF SessionInv

LEMMA SwitchFinishesSession ==
  ASSUME RouteInv, SessionInv, SwitchFinishes
  PROVE  SessionInv'
<1> DEFINE next == wait.next
           f == IF wait.receipt = "ok" THEN sess ELSE close(sess, {wait.id})
<1>1. /\ UNCHANGED <<sessions, evs, acts>> /\ wait' = Free /\ wait.who = "hop"
      /\ \/ /\ ~is_closed(next) /\ active' = [id |-> next, act |-> acts]
            /\ sess' = [f EXCEPT ![next].queue = Append(@, [op |-> "begin", act |-> acts])]
         \/ sess' = f /\ UNCHANGED active
  BY DEF SwitchFinishes
<1>2. /\ active = None /\ next \in DOMAIN sess /\ sess[next].task = "done" /\ acts # 0 /\ acts \in Nat
      /\ sess \in Seq(Session) /\ \A j \in DOMAIN sess : Plain(sess[j])
  BY <1>1, InvFacts DEF RouteInv, PortInv, SessionInv, HeldInv
<1>3. /\ Rows(sess, f) /\ Settle(sess, f) /\ Park(sess, f)
      /\ \A j \in DOMAIN sess : Calm(sess[j], f[j])
  <2>1. CASE f = sess
    BY <2>1, SameRows DEF Calm
  <2>2. CASE f = close(sess, {wait.id})
    BY <1>2, <2>2, CloseRows
  <2> QED BY <2>1, <2>2
<1>4. Free.who = "none"
  BY DEF Free
<1> HIDE DEF f, next
<1>5. CASE sess' = f /\ UNCHANGED active
  <2>1. \A j \in DOMAIN sess : Suits(sess[j], sess'[j])
    BY <1>3, <1>5, CalmRow DEF Suits
  <2>2. MapInv' /\ EventInv'
    BY <1>1, <1>3, <1>5, <2>1, MovesOn
  <2>3. HeldInv'
    BY <1>1, <1>3, <1>5, HeldStays DEF SessionInv
  <2>4. OneActivation'
    BY <1>2, <1>3, <1>5, ActiveStays DEF SessionInv
  <2> QED BY <2>2, <2>3, <2>4 DEF SessionInv
<1>6. CASE /\ ~is_closed(next) /\ active' = [id |-> next, act |-> acts]
           /\ sess' = [f EXCEPT ![next].queue = Append(@, [op |-> "begin", act |-> acts])]
  <2> DEFINE e == [op |-> "begin", act |-> acts]
  <2>1. e \in Queued /\ e.op = "begin" /\ e.act = acts
    BY <1>2 DEF Queued
  <2>2. sess' = [f EXCEPT ![next].queue = Append(@, e)]
    BY <1>6
  <2>3. /\ f \in Seq(Session) /\ next \in DOMAIN f /\ f[next].task = "done" /\ f[next].actor # "over"
        /\ \A j \in DOMAIN f : Plain(f[j])
    BY <1>2, <1>3, <1>6 DEF Rows, Row, Calm, is_closed
  <2> HIDE DEF e
  <2>4. /\ Rows(f, sess') /\ Park(f, sess')
        /\ \A j \in DOMAIN f \ {next} : Settled(f[j], sess'[j])
        /\ FinalOf(sess'[next]) = acts
        /\ \A j \in DOMAIN f : Suits(f[j], sess'[j])
    BY <2>1, <2>2, <2>3, QueueFacts
  <2>5. Rows(sess, sess') /\ Park(sess, sess') /\ DOMAIN f = DOMAIN sess
    BY <1>3, <2>4, RowsTwice DEF Rows
  <2>6. \A j \in DOMAIN sess : Suits(sess[j], sess'[j])
    BY <1>3, <2>4, <2>5, CalmRow DEF Suits
  <2>7. \A j \in DOMAIN sess \ {next} : Settled(sess[j], sess'[j])
    BY <1>3, <2>4, <2>5 DEF Settle, Settled, Rows, Row
  <2>8. MapInv' /\ EventInv'
    BY <1>1, <2>5, <2>6, MovesOn
  <2>9. OneActivation'
    BY <1>2, <1>6, <2>4, <2>5, <2>7, ActiveBegins DEF SessionInv
  <2>10. HeldInv'
    <3>1. next # 0 /\ next \in DOMAIN sess' /\ sess'[next].task = "done"
      BY <1>2, <2>5, InvFacts DEF Rows, Row
    <3>2. active'.id = next
      BY <1>6
    <3> QED BY <1>1, <1>4, <3>1, <3>2 DEF HeldInv
  <2> QED BY <2>8, <2>9, <2>10 DEF SessionInv
<1> QED BY <1>1, <1>5, <1>6

-----------------------------------------------------------------------------
(* Policy changes, and the steps that leave sessions alone *)

CalmAll(f, g) ==
  /\ g \in Seq(Session) /\ Len(g) = Len(f) /\ DOMAIN g = DOMAIN f
  /\ \A j \in DOMAIN f : Calm(f[j], g[j])

LEMMA CalmKeeps ==
  ASSUME SessionInv, CalmAll(sess, sess'), UNCHANGED <<sessions, active, evs, wait, acts>>
  PROVE  SessionInv'
<1>1. /\ Rows(sess, sess') /\ Settle(sess, sess') /\ Park(sess, sess')
      /\ \A j \in DOMAIN sess : Suits(sess[j], sess'[j])
  BY CalmRow DEF CalmAll, SessionInv, MapInv, Rows, Settle, Park, Suits
<1>2. MapInv' /\ EventInv'
  BY <1>1, MovesOn
<1>3. HeldInv'
  BY <1>1, HeldStays DEF SessionInv
<1>4. OneActivation'
  BY <1>1, InvFacts, ActiveStays DEF SessionInv
<1> QED BY <1>2, <1>3, <1>4 DEF SessionInv

LEMMA StaleField ==
  ASSUME NEW a \in Session, NEW l \in BOOLEAN
  PROVE  LET b == [a EXCEPT !.stale = l]
         IN  /\ b \in Session /\ Calm(a, b) /\ b.fresh = a.fresh /\ b.lost = a.lost
BY DEF Session, Calm

(* The sessions a policy change leaves behind. *)
Outdated(f, g) == [j \in DOMAIN f |-> [g[j] EXCEPT !.stale = @ \/ f[j].task # "done"]]

LEMMA OutdatedCalm ==
  ASSUME NEW f \in Seq(Session), NEW is
  PROVE  LET h == Outdated(f, close(f, is))
         IN  CalmAll(f, h) /\ \A j \in DOMAIN f : h[j].fresh = f[j].fresh /\ (h[j].lost <=> f[j].lost \/ j \in is)
<1> DEFINE g == close(f, is)
           h == Outdated(f, g)
<1>0. DOMAIN f = 1 .. Len(f) /\ Len(f) \in Nat
  OBVIOUS
<1>1. /\ g \in Seq(Session) /\ DOMAIN g = DOMAIN f
      /\ \A j \in DOMAIN f : Calm(f[j], g[j]) /\ (g[j].lost <=> f[j].lost \/ j \in is) /\ g[j].fresh = f[j].fresh
  BY CloseFacts
<1> HIDE DEF g
<1>2. /\ DOMAIN h = DOMAIN f
      /\ \A j \in DOMAIN f : h[j] = [g[j] EXCEPT !.stale = g[j].stale \/ f[j].task # "done"]
  BY DEF Outdated
<1>a. h = [j \in DOMAIN f |-> h[j]]
  BY DEF Outdated
<1> HIDE DEF h
<1>3. \A j \in DOMAIN f : /\ h[j] \in Session /\ Calm(f[j], h[j]) /\ h[j].fresh = f[j].fresh
                          /\ (h[j].lost <=> f[j].lost \/ j \in is)
  <2> TAKE j \in DOMAIN f
  <2> DEFINE l == g[j].stale \/ f[j].task # "done"
  <2>1. g[j] \in Session
    BY <1>1
  <2>2. l \in BOOLEAN
    OBVIOUS
  <2>3. h[j] = [g[j] EXCEPT !.stale = l]
    BY <1>2
  <2> HIDE DEF l
  <2>4. h[j] \in Session /\ Calm(g[j], h[j]) /\ h[j].fresh = g[j].fresh /\ h[j].lost = g[j].lost
    BY <2>1, <2>2, <2>3, StaleField
  <2>5. Calm(f[j], h[j])
    BY <1>1, <2>4 DEF Calm
  <2> QED BY <1>1, <2>4, <2>5
<1>4. h \in [1 .. Len(f) -> Session]
  BY <1>0, <1>3, <1>a
<1>5. h \in Seq(Session) /\ Len(h) = Len(f)
  BY <1>0, <1>4, FunctionSeq
<1> QED BY <1>2, <1>3, <1>5 DEF CalmAll, h, g

LEMMA PolicyKeeps ==
  ASSUME SessionInv, SetPermissions \/ SetSharing \/ SeatChanges
  PROVE  SessionInv'
<1>0. sess \in Seq(Session) /\ Ids = DOMAIN sess
  BY InvFacts
<1>1. ASSUME NEW pm, NEW sh, ApplyConfig(pm, sh)
      PROVE  SessionInv'
  <2> DEFINE gone == {i \in Ids : /\ Current(i)
                                  /\ \/ sh # sharing
                                     \/ permissions_reduced(perm[sess[i].peer], pm[sess[i].peer])
                                     \/ "connect" \notin pm[sess[i].peer]}
  <2>1. sess' = [i \in Ids |-> [close(sess, gone)[i] EXCEPT !.stale = @ \/ sess[i].task # "done"]]
        /\ UNCHANGED <<sessions, active, evs, wait, acts>>
    BY <1>1 DEF ApplyConfig, mapVars
  <2> HIDE DEF gone
  <2>2. sess' = Outdated(sess, close(sess, gone))
    BY <1>0, <2>1 DEF Outdated
  <2> QED BY <1>0, <2>1, <2>2, OutdatedCalm, CalmKeeps
<1>2. ASSUME NEW g, UpdateSeatGate(g)
      PROVE  SessionInv'
  <2>1. (sess' = close(sess, {owner}) \/ sess' = sess) /\ UNCHANGED <<sessions, active, evs, wait, acts>>
    BY <1>2 DEF UpdateSeatGate, mapVars
  <2>2. CalmAll(sess, sess')
    <3>1. CASE sess' = close(sess, {owner})
      BY <1>0, <3>1, CloseFacts DEF CalmAll
    <3>2. CASE sess' = sess
      BY <1>0, <3>2 DEF CalmAll, Calm
    <3> QED BY <2>1, <3>1, <3>2
  <2> QED BY <2>1, <2>2, CalmKeeps
<1> QED BY <1>1, <1>2 DEF SetPermissions, SetSharing, SeatChanges

LEMMA Untouched ==
  ASSUME SessionInv, UNCHANGED <<sess, sessions, active, evs, wait, acts>>
  PROVE  SessionInv'
<1>1. CalmAll(sess, sess')
  BY InvFacts DEF CalmAll, Calm
<1> QED BY <1>1, CalmKeeps

LEMMA SessionStep ==
  ASSUME RouteInv, SessionInv, [Next]_vars
  PROVE  SessionInv'
<1>0. wait \in Waiting /\ Ids = DOMAIN sess
  BY InvFacts DEF RouteInv, PortInv
<1>1. CASE Tasks
  BY <1>0, <1>1, RetireKeeps, SetupKeeps, RegisterDialKeeps, RegisterAcceptedKeeps DEF Tasks
<1>2. CASE Actors \/ Network
  BY <1>0, <1>2, ActorsKeep, PeerInputKeeps, LossKeeps, LeaseKeeps DEF Actors, Network
<1>3. CASE \E p \in Peers : Dial(p) \/ AcceptConnection(p) \/ SwitchOutbound(p)
  BY <1>3, DialKeeps, SwitchKeeps
<1>4. CASE SessionEvents
  BY <1>4, RoutesKeep, ReleaseKeeps, OutboundEndedKeeps, SessionClosedKeeps DEF SessionEvents
<1>5. CASE RuntimeEvents
  BY <1>5, RemoteKeeps, IdleKeeps, EndActiveKeeps DEF RuntimeEvents, RuntimeTerminal, RuntimeClosed
<1>6. CASE EndFinishes \/ SwitchFinishes \/ SetPermissions \/ SetSharing \/ SeatChanges
  BY <1>6, EndFinishesSession, SwitchFinishesSession, PolicyKeeps
<1>7. CASE Runtime
  <2>1. UNCHANGED <<sess, sessions, active, evs, wait, acts>>
    BY <1>7 DEF Runtime, RtGrab, RtGrabFails, RtEscape, RtFault, RtUngrab, RtCapture, RtCommand, rtRest, mapVars
  <2> QED BY <2>1, Untouched
<1>8. CASE (\E p \in Peers : Activate(p)) \/ ForwardCapture \/ LocalRelease \/ UNCHANGED vars
  <2>1. UNCHANGED <<sess, sessions, active, evs, wait, acts>>
    BY <1>8 DEF Activate, ForwardCapture, LocalRelease, vars, mapVars
  <2> QED BY <2>1, Untouched
<1> QED BY <1>1, <1>2, <1>3, <1>4, <1>5, <1>6, <1>7, <1>8 DEF Next, Requests, Loop

LEMMA SessionInit ==
  ASSUME Init
  PROVE  SessionInv
<1>1. /\ sess = <<>> /\ Len(sess) = 0 /\ sess \in Seq(Session) /\ DOMAIN sess = {}
      /\ evs = <<>> /\ evs \in Seq(Event) /\ DOMAIN evs = {}
  BY EmptySeq DEF Init
<1>2. Ids = {} /\ sessions \in [Peers -> 0 .. 0] /\ \A p \in Peers : sessions[p] = 0
  BY <1>1 DEF Init, Ids
<1> QED BY <1>1, <1>2 DEF Init, SessionInv, MapInv, HeldInv, EventInv, EventsFit, OneActivation, None, Free

(* The sessions invariant is inductive beside the routing one, whose waiting *)
(* task and activation numbers it uses.                                      *)
THEOREM SessionsHold == Spec => [](RouteInv /\ SessionInv)
<1>1. Init => RouteInv /\ SessionInv
  BY RouteInit, SessionInit
<1>2. (RouteInv /\ SessionInv) /\ [Next]_vars => (RouteInv /\ SessionInv)'
  BY RouteStep, SessionStep
<1> QED BY <1>1, <1>2, PTL DEF Spec

(* Only the active computer is left with an open activation, across the      *)
(* awaits of begin_outbound, switch_outbound and end_outbound.               *)
THEOREM OneComputerIsActive == Spec => []OneActivation
<1>1. RouteInv /\ SessionInv => OneActivation
  BY DEF SessionInv
<1> QED BY <1>1, SessionsHold, PTL
-----------------------------------------------------------------------------
(* Who controls this computer, and who may *)

(* A session's own account of control, which only the main loop changes. *)
Stays(f, g) ==
  /\ DOMAIN g = DOMAIN f
  /\ \A j \in DOMAIN f : /\ g[j].inb = f[j].inb /\ g[j].peer = f[j].peer /\ g[j].dir = f[j].dir
                         /\ (f[j].lost => g[j].lost) /\ (f[j].task = "done" => g[j].task = "done")

StaysAt(a, b) ==
  /\ b.inb = a.inb /\ b.peer = a.peer /\ b.dir = a.dir
  /\ (a.lost => b.lost) /\ (a.task = "done" => b.task = "done")

(* A session whose peer controls this computer owns it; one whose keys the   *)
(* devices hold still controls it unless this computer's own dial took its   *)
(* place, and the policy allows every registered session.                    *)
ControlInv ==
  /\ \A i \in DOMAIN sess : sess[i].inb => owner = i
  /\ owner \in DOMAIN sess \cup {0} /\ injected \subseteq DOMAIN sess
  /\ \A i \in injected : /\ sess[i].task = "done"
                         /\ ~sess[i].lost \/ sess[i].peer \notin Wins => sess[i].inb
                         /\ sess[i].peer \notin Wins => Current(i)
  /\ SessionsAreAuthorized

LEMMA PutStays ==
  ASSUME NEW f \in Seq(Session), NEW i \in DOMAIN f, NEW g,
         \E r : g = [f EXCEPT ![i] = r] /\ StaysAt(f[i], r)
  PROVE  Stays(f, g)
<1> PICK r : g = [f EXCEPT ![i] = r] /\ StaysAt(f[i], r)
  OBVIOUS
<1> QED BY DEF Stays, StaysAt

LEMMA CalmStays ==
  ASSUME NEW f, NEW g, CalmAll(f, g)
  PROVE  Stays(f, g)
BY DEF CalmAll, Calm, Stays

LEMMA StaysTwice ==
  ASSUME NEW f, NEW g, NEW h, Stays(f, g), Stays(g, h)
  PROVE  Stays(f, h)
BY DEF Stays

LEMMA SameStays ==
  ASSUME NEW f
  PROVE  Stays(f, f)
BY DEF Stays

LEMMA CloseStays ==
  ASSUME NEW f \in Seq(Session), NEW is
  PROVE  Stays(f, close(f, is))
<1>1. /\ DOMAIN close(f, is) = DOMAIN f
      /\ \A j \in DOMAIN f : Calm(f[j], close(f, is)[j])
  BY CloseFacts
<1> QED BY <1>1 DEF Calm, Stays

(* Every update a task, an actor or the loop makes to a session on the way.  *)
LEMMA QueueStays ==
  ASSUME NEW f \in Seq(Session), NEW i \in DOMAIN f, NEW g, \E q : g = [f EXCEPT ![i].queue = q]
  PROVE  Stays(f, g)
<1> PICK q : g = [f EXCEPT ![i].queue = q]
  OBVIOUS
<1>1. f[i] \in Session
  OBVIOUS
<1>2. StaysAt(f[i], [f[i] EXCEPT !.queue = q])
  BY <1>1 DEF Session, StaysAt
<1>3. g = [f EXCEPT ![i] = [f[i] EXCEPT !.queue = q]]
  OBVIOUS
<1> QED BY <1>2, <1>3, PutStays

TaskChange(f, g, i) ==
  \/ g = [f EXCEPT ![i].task = "setup", ![i].actor = "run"] /\ f[i].task # "done"
  \/ g = [f EXCEPT ![i].task = "ready"] /\ f[i].task # "done"
  \/ g = [f EXCEPT ![i].task = "done", ![i].lost = TRUE]
  \/ g = [f EXCEPT ![i].task = "done"]
  \/ \E l \in BOOLEAN : g = [f EXCEPT ![i].fresh = l]

LEMMA TaskStays ==
  ASSUME NEW f \in Seq(Session), NEW i \in DOMAIN f, NEW g, TaskChange(f, g, i)
  PROVE  Stays(f, g)
<1>0. f[i] \in Session
  OBVIOUS
<1>1. \E r : g = [f EXCEPT ![i] = r] /\ StaysAt(f[i], r)
  <2>1. CASE g = [f EXCEPT ![i].task = "setup", ![i].actor = "run"] /\ f[i].task # "done"
    <3>1. g = [f EXCEPT ![i] = [f[i] EXCEPT !.task = "setup", !.actor = "run"]]
      BY <2>1
    <3>2. StaysAt(f[i], [f[i] EXCEPT !.task = "setup", !.actor = "run"])
      BY <1>0, <2>1 DEF Session, StaysAt
    <3> QED BY <3>1, <3>2
  <2>2. CASE g = [f EXCEPT ![i].task = "ready"] /\ f[i].task # "done"
    <3>1. g = [f EXCEPT ![i] = [f[i] EXCEPT !.task = "ready"]]
      BY <2>2
    <3>2. StaysAt(f[i], [f[i] EXCEPT !.task = "ready"])
      BY <1>0, <2>2 DEF Session, StaysAt
    <3> QED BY <3>1, <3>2
  <2>3. CASE g = [f EXCEPT ![i].task = "done", ![i].lost = TRUE]
    <3>1. g = [f EXCEPT ![i] = [f[i] EXCEPT !.task = "done", !.lost = TRUE]]
      BY <2>3
    <3>2. StaysAt(f[i], [f[i] EXCEPT !.task = "done", !.lost = TRUE])
      BY <1>0 DEF Session, StaysAt
    <3> QED BY <3>1, <3>2
  <2>4. CASE g = [f EXCEPT ![i].task = "done"]
    <3>1. g = [f EXCEPT ![i] = [f[i] EXCEPT !.task = "done"]]
      BY <2>4
    <3>2. StaysAt(f[i], [f[i] EXCEPT !.task = "done"])
      BY <1>0 DEF Session, StaysAt
    <3> QED BY <3>1, <3>2
  <2>5. CASE \E l \in BOOLEAN : g = [f EXCEPT ![i].fresh = l]
    <3> PICK l \in BOOLEAN : g = [f EXCEPT ![i].fresh = l]
      BY <2>5
    <3>1. g = [f EXCEPT ![i] = [f[i] EXCEPT !.fresh = l]]
      OBVIOUS
    <3>2. StaysAt(f[i], [f[i] EXCEPT !.fresh = l])
      BY <1>0 DEF Session, StaysAt
    <3> QED BY <3>1, <3>2
  <2> QED BY <2>1, <2>2, <2>3, <2>4, <2>5 DEF TaskChange
<1> QED BY <1>1, PutStays

ActorChange(f, g, i) ==
  \/ \E a : g = [f EXCEPT ![i].actor = a]
  \/ \E a : g = [f EXCEPT ![i].actor = a, ![i].lost = TRUE]
  \/ \E a, q : g = [f EXCEPT ![i].actor = a, ![i].queue = q]
  \/ \E n : g = [f EXCEPT ![i].out = n]
  \/ \E n, q : g = [f EXCEPT ![i].out = n, ![i].queue = q]
  \/ \E n : g = [f EXCEPT ![i].out = n, ![i].lost = TRUE]
  \/ g = [f EXCEPT ![i].lost = TRUE]

LEMMA ActorStays ==
  ASSUME NEW f \in Seq(Session), NEW i \in DOMAIN f, NEW g, ActorChange(f, g, i)
  PROVE  Stays(f, g)
<1>0. f[i] \in Session
  OBVIOUS
<1>1. \E r : g = [f EXCEPT ![i] = r] /\ StaysAt(f[i], r)
  <2>1. CASE \E a : g = [f EXCEPT ![i].actor = a]
    <3> PICK a : g = [f EXCEPT ![i].actor = a]
      BY <2>1
    <3>1. g = [f EXCEPT ![i] = [f[i] EXCEPT !.actor = a]]
      OBVIOUS
    <3>2. StaysAt(f[i], [f[i] EXCEPT !.actor = a])
      BY <1>0 DEF Session, StaysAt
    <3> QED BY <3>1, <3>2
  <2>2. CASE \E a : g = [f EXCEPT ![i].actor = a, ![i].lost = TRUE]
    <3> PICK a : g = [f EXCEPT ![i].actor = a, ![i].lost = TRUE]
      BY <2>2
    <3>1. g = [f EXCEPT ![i] = [f[i] EXCEPT !.actor = a, !.lost = TRUE]]
      OBVIOUS
    <3>2. StaysAt(f[i], [f[i] EXCEPT !.actor = a, !.lost = TRUE])
      BY <1>0 DEF Session, StaysAt
    <3> QED BY <3>1, <3>2
  <2>3. CASE \E a, q : g = [f EXCEPT ![i].actor = a, ![i].queue = q]
    <3> PICK a, q : g = [f EXCEPT ![i].actor = a, ![i].queue = q]
      BY <2>3
    <3>1. g = [f EXCEPT ![i] = [f[i] EXCEPT !.actor = a, !.queue = q]]
      OBVIOUS
    <3>2. StaysAt(f[i], [f[i] EXCEPT !.actor = a, !.queue = q])
      BY <1>0 DEF Session, StaysAt
    <3> QED BY <3>1, <3>2
  <2>4. CASE \E n : g = [f EXCEPT ![i].out = n]
    <3> PICK n : g = [f EXCEPT ![i].out = n]
      BY <2>4
    <3>1. g = [f EXCEPT ![i] = [f[i] EXCEPT !.out = n]]
      OBVIOUS
    <3>2. StaysAt(f[i], [f[i] EXCEPT !.out = n])
      BY <1>0 DEF Session, StaysAt
    <3> QED BY <3>1, <3>2
  <2>5. CASE \E n, q : g = [f EXCEPT ![i].out = n, ![i].queue = q]
    <3> PICK n, q : g = [f EXCEPT ![i].out = n, ![i].queue = q]
      BY <2>5
    <3>1. g = [f EXCEPT ![i] = [f[i] EXCEPT !.out = n, !.queue = q]]
      OBVIOUS
    <3>2. StaysAt(f[i], [f[i] EXCEPT !.out = n, !.queue = q])
      BY <1>0 DEF Session, StaysAt
    <3> QED BY <3>1, <3>2
  <2>6. CASE \E n : g = [f EXCEPT ![i].out = n, ![i].lost = TRUE]
    <3> PICK n : g = [f EXCEPT ![i].out = n, ![i].lost = TRUE]
      BY <2>6
    <3>1. g = [f EXCEPT ![i] = [f[i] EXCEPT !.out = n, !.lost = TRUE]]
      OBVIOUS
    <3>2. StaysAt(f[i], [f[i] EXCEPT !.out = n, !.lost = TRUE])
      BY <1>0 DEF Session, StaysAt
    <3> QED BY <3>1, <3>2
  <2>7. CASE g = [f EXCEPT ![i].lost = TRUE]
    <3>1. g = [f EXCEPT ![i] = [f[i] EXCEPT !.lost = TRUE]]
      BY <2>7
    <3>2. StaysAt(f[i], [f[i] EXCEPT !.lost = TRUE])
      BY <1>0 DEF Session, StaysAt
    <3> QED BY <3>1, <3>2
  <2> QED BY <2>1, <2>2, <2>3, <2>4, <2>5, <2>6, <2>7 DEF ActorChange
<1> QED BY <1>1, PutStays

LEMMA ControlStays ==
  ASSUME SessionInv, ControlInv, Stays(sess, sess'), UNCHANGED <<policyVars, sessions, owner, injected>>
  PROVE  ControlInv'
<1>1. \A j \in DOMAIN sess : /\ sess'[j].inb = sess[j].inb /\ sess'[j].peer = sess[j].peer
                             /\ sess'[j].dir = sess[j].dir /\ (sess[j].lost => sess'[j].lost)
                             /\ (sess[j].task = "done" => sess'[j].task = "done")
  BY DEF Stays
<1>2. \A p \in Peers : sessions[p] # 0 => sessions[p] \in DOMAIN sess
  BY InvFacts
<1>3. SessionsAreAuthorized'
  BY <1>1, <1>2 DEF SessionsAreAuthorized, ControlInv, peer_name_for_spki, receiver_authorized, policyVars
<1>4. injected' = injected /\ owner' = owner /\ sessions' = sessions /\ DOMAIN sess' = DOMAIN sess
  BY DEF Stays
<1>5. \A i \in injected : /\ sess'[i].task = "done"
                          /\ ~sess'[i].lost \/ sess'[i].peer \notin Wins => sess'[i].inb
                          /\ sess'[i].peer \notin Wins => sessions[sess'[i].peer] = i
  BY <1>1 DEF ControlInv, Current
<1>6. \A i \in DOMAIN sess : sess'[i].inb => owner = i
  BY <1>1 DEF ControlInv
<1> QED BY <1>3, <1>4, <1>5, <1>6 DEF ControlInv, Current

Uncontrolled == Stays(sess, sess') /\ UNCHANGED <<policyVars, sessions, owner, injected>>

LEMMA TasksUncontrolled ==
  ASSUME SessionInv, NEW i \in DOMAIN sess,
         retire_session(i) \/ Negotiated(i) \/ AcceptTimesOut(i) \/ DialAges(i)
  PROVE  Uncontrolled
<1>0. sess \in Seq(Session) /\ sess[i] \in Session
  BY InvFacts
<1>1. UNCHANGED <<policyVars, sessions, owner, injected>>
  BY DEF retire_session, Negotiated, AcceptTimesOut, DialAges, mapVars
<1>2. \/ TaskChange(sess, sess', i) \/ \E is : sess' = close(sess, is)
  BY <1>0 DEF retire_session, Negotiated, AcceptTimesOut, DialAges, TaskChange
<1> QED BY <1>0, <1>1, <1>2, TaskStays, CloseStays DEF Uncontrolled

LEMMA ActorsUncontrolled ==
  ASSUME SessionInv, NEW i \in DOMAIN sess,
         \/ ActorStops(i) \/ BeginOutbound(i) \/ EndOutbound(i)
         \/ PeerInput(i) \/ ConnectionLost(i) \/ LeaseEnds(i)
  PROVE  Uncontrolled
<1> DEFINE ended == [sess EXCEPT ![i].out = 0, ![i].lost = TRUE]
<1>0. sess \in Seq(Session) /\ sess[i] \in Session
  BY InvFacts
<1>1. UNCHANGED <<policyVars, sessions, owner, injected>>
  BY DEF ActorStops, BeginOutbound, EndOutbound, PeerInput, ConnectionLost, LeaseEnds, mapVars
<1>2. \/ sess' = [sess EXCEPT ![i].out = Head(sess[i].queue).act, ![i].queue = Tail(sess[i].queue)]
      \/ sess' = [sess EXCEPT ![i].out = 0, ![i].queue = Tail(sess[i].queue)]
      \/ sess' = [sess EXCEPT ![i].actor = "asking"]
      \/ sess' = [sess EXCEPT ![i].lost = TRUE]
      \/ sess' = [sess EXCEPT ![i].out = 0]
      \/ sess' = [ended EXCEPT ![i].actor = "cleanup"]
      \/ sess' = [ended EXCEPT ![i].actor = "over", ![i].queue = <<>>]
  BY DEF ActorStops, BeginOutbound, EndOutbound, PeerInput, ConnectionLost, LeaseEnds, Exit
<1>3. ended \in Seq(Session) /\ i \in DOMAIN ended /\ Stays(sess, ended)
  <2>1. ActorChange(sess, ended, i)
    BY DEF ActorChange
  <2>2. Only(sess, ended, i)
    BY <1>0, Stops
  <2> HIDE DEF ended
  <2> QED BY <1>0, <2>1, <2>2, ActorStays DEF Only
<1> HIDE DEF ended
<1>4. ActorChange(sess, sess', i) \/ ActorChange(ended, sess', i)
  <2>1. CASE sess' = [sess EXCEPT ![i].out = Head(sess[i].queue).act, ![i].queue = Tail(sess[i].queue)]
    BY <2>1 DEF ActorChange
  <2>2. CASE sess' = [sess EXCEPT ![i].out = 0, ![i].queue = Tail(sess[i].queue)]
    BY <2>2 DEF ActorChange
  <2>3. CASE sess' = [sess EXCEPT ![i].actor = "asking"]
    BY <2>3 DEF ActorChange
  <2>4. CASE sess' = [sess EXCEPT ![i].lost = TRUE]
    BY <2>4 DEF ActorChange
  <2>5. CASE sess' = [sess EXCEPT ![i].out = 0]
    BY <2>5 DEF ActorChange
  <2>6. CASE sess' = [ended EXCEPT ![i].actor = "cleanup"]
    BY <2>6 DEF ActorChange
  <2>7. CASE sess' = [ended EXCEPT ![i].actor = "over", ![i].queue = <<>>]
    BY <2>7 DEF ActorChange
  <2> QED BY <1>2, <2>1, <2>2, <2>3, <2>4, <2>5, <2>6, <2>7
<1>5. Stays(sess, sess') \/ Stays(ended, sess')
  BY <1>0, <1>3, <1>4, ActorStays
<1>6. Stays(sess, sess')
  BY <1>3, <1>5, StaysTwice
<1> QED BY <1>1, <1>6 DEF Uncontrolled

LEMMA LoopUncontrolled ==
  ASSUME RouteInv, SessionInv,
         \/ RuntimeEvents \/ OutboundEnded \/ EndFinishes \/ SwitchFinishes
         \/ \E p \in Peers : SwitchOutbound(p)
  PROVE  Uncontrolled
<1>0. sess \in Seq(Session) /\ sessions \in [Peers -> 0 .. Len(sess)] /\ DOMAIN sess = 1 .. Len(sess)
  BY InvFacts
<1>1. UNCHANGED <<policyVars, sessions, owner, injected>>
  BY DEF RuntimeEvents, RuntimeRemote, RuntimeIdle, RuntimeTerminal, RuntimeClosed, EndActive,
         OutboundEnded, EndFinishes, SwitchFinishes, SwitchOutbound, mapVars
<1> DEFINE Queue(f, i) == \E q : sess' = [f EXCEPT ![i].queue = q]
<1>2. CASE RuntimeRemote
  <2> DEFINE i == sessions[Head(rtEvs).peer]
  <2>1. sess' = sess \/ (i # 0 /\ Queue(sess, i))
    BY <1>2 DEF RuntimeRemote, Begin, MayBegin
  <2>2. i # 0 => i \in DOMAIN sess
    <3>1. Head(rtEvs) \in RtEvent
      BY <1>2, TailAt DEF RuntimeRemote, NextRt, RouteInv, PortInv
    <3>2. Head(rtEvs).peer \in Peers
      BY <1>2, <3>1 DEF RuntimeRemote, NextRt, RtEvent
    <3> QED BY <1>0, <3>2
  <2> HIDE DEF i
  <2>3. Stays(sess, sess')
    BY <1>0, <2>1, <2>2, QueueStays, SameStays
  <2> QED BY <1>1, <2>3 DEF Uncontrolled
<1>3. CASE RuntimeIdle
  BY <1>1, <1>3, SameStays DEF RuntimeIdle, Uncontrolled
<1>4. CASE RuntimeTerminal \/ RuntimeClosed \/ \E p \in Peers : SwitchOutbound(p)
  <2> DEFINE i == active.id
  <2>1. sess' = sess \/ (i # 0 /\ Queue(sess, i))
    BY <1>4 DEF RuntimeTerminal, RuntimeClosed, EndActive, SwitchOutbound, HopLeaves
  <2>2. i # 0 => i \in DOMAIN sess
    BY DEF SessionInv, HeldInv
  <2> HIDE DEF i
  <2>3. Stays(sess, sess')
    BY <1>0, <2>1, <2>2, QueueStays, SameStays
  <2> QED BY <1>1, <2>3 DEF Uncontrolled
<1>5. CASE OutboundEnded \/ EndFinishes
  <2>1. sess' = sess \/ \E is : sess' = close(sess, is)
    BY <1>5 DEF OutboundEnded, EndFinishes, CloseIfCurrent
  <2> QED BY <1>0, <1>1, <2>1, CloseStays, SameStays DEF Uncontrolled
<1>6. CASE SwitchFinishes
  <2> DEFINE f == IF wait.receipt = "ok" THEN sess ELSE close(sess, {wait.id})
             next == wait.next
  <2>1. (sess' = f \/ Queue(f, next)) /\ wait.who = "hop"
    BY <1>6 DEF SwitchFinishes
  <2>2. f \in Seq(Session) /\ DOMAIN f = DOMAIN sess /\ Stays(sess, f)
    BY <1>0, CloseFacts, CloseStays, SameStays
  <2>3. next \in DOMAIN f
    BY <2>1, <2>2 DEF SessionInv, HeldInv
  <2> HIDE DEF f, next
  <2>4. Stays(f, sess')
    BY <2>1, <2>2, <2>3, QueueStays, SameStays
  <2>5. Stays(sess, sess')
    BY <2>2, <2>4, StaysTwice
  <2> QED BY <1>1, <2>5 DEF Uncontrolled
<1> QED BY <1>2, <1>3, <1>4, <1>5, <1>6 DEF RuntimeEvents

(* A session that joins the map is its peer's; outside Wins, the first.      *)
LEMMA JoinControl ==
  ASSUME SessionInv, ControlInv, NEW i \in DOMAIN sess, sess[i].task = "ready", Stays(sess, sess'), Insert(i),
         UNCHANGED <<policyVars, owner, injected>>, peer_name_for_spki(sess[i].peer),
         sess[i].dir = "out" => "receive" \in perm[sess[i].peer],
         sess[i].peer \notin Wins => sessions[sess[i].peer] = 0
  PROVE  ControlInv'
<1> DEFINE p == sess[i].peer
<1>0. /\ sessions \in [Peers -> 0 .. Len(sess)] /\ DOMAIN sess = 1 .. Len(sess) /\ Len(sess) \in Nat
      /\ \A j \in DOMAIN sess : sess[j].peer \in Peers
  BY InvFacts
<1>1. /\ sessions' = [sessions EXCEPT ![p] = i] /\ p \in Peers
      /\ injected' = injected /\ owner' = owner /\ DOMAIN sess' = DOMAIN sess
      /\ perm' = perm /\ sharing' = sharing /\ gate' = gate
  BY <1>0 DEF Insert, Stays, policyVars
<1>2. \A j \in DOMAIN sess : /\ sess'[j].inb = sess[j].inb /\ sess'[j].peer = sess[j].peer
                             /\ sess'[j].dir = sess[j].dir /\ (sess[j].lost => sess'[j].lost)
                             /\ (sess[j].task = "done" => sess'[j].task = "done")
  BY DEF Stays
<1>3. i \notin injected /\ injected \subseteq DOMAIN sess
  BY DEF ControlInv
<1> HIDE DEF p
<1>4. \A q \in Peers : sessions'[q] = IF q = p THEN i ELSE sessions[q]
  BY <1>0, <1>1
<1>5. SessionsAreAuthorized'
  <2> SUFFICES ASSUME NEW q \in Peers, sessions'[q] # 0, ~sess'[sessions'[q]].lost
               PROVE  /\ peer_name_for_spki(q)'
                      /\ sess'[sessions'[q]].dir = "out" => "receive" \in perm'[q]
                      /\ sessions'[q] \in injected' => receiver_authorized(q)'
    BY DEF SessionsAreAuthorized
  <2>1. CASE q = p
    BY <1>1, <1>2, <1>3, <1>4, <2>1 DEF peer_name_for_spki, p
  <2>2. CASE q # p
    <3>1. sessions'[q] = sessions[q] /\ sessions[q] \in DOMAIN sess
      BY <1>0, <1>4, <2>2
    <3>2. ~sess[sessions[q]].lost /\ sess'[sessions[q]].dir = sess[sessions[q]].dir
      BY <1>2, <3>1
    <3>3. /\ peer_name_for_spki(q)
          /\ sess[sessions[q]].dir = "out" => "receive" \in perm[q]
          /\ sessions[q] \in injected => receiver_authorized(q)
      BY <3>1, <3>2 DEF ControlInv, SessionsAreAuthorized
    <3> QED BY <1>1, <3>1, <3>2, <3>3 DEF peer_name_for_spki, receiver_authorized
  <2> QED BY <2>1, <2>2
<1>6. \A k \in injected : /\ sess'[k].task = "done"
                          /\ ~sess'[k].lost \/ sess'[k].peer \notin Wins => sess'[k].inb
                          /\ sess'[k].peer \notin Wins => sessions'[sess'[k].peer] = k
  <2> TAKE k \in injected
  <2>1. k \in DOMAIN sess /\ k # 0 /\ sess[k].peer \in Peers
    BY <1>0, <1>3
  <2>2. /\ sess[k].task = "done" /\ (~sess[k].lost \/ sess[k].peer \notin Wins => sess[k].inb)
        /\ sess[k].peer \notin Wins => sessions[sess[k].peer] = k
    BY DEF ControlInv, Current
  <2>3. sess[k].peer \notin Wins => sess[k].peer # p
    BY <2>1, <2>2 DEF p
  <2> QED BY <1>2, <1>4, <2>1, <2>2, <2>3
<1>7. \A j \in DOMAIN sess : sess'[j].inb => owner = j
  BY <1>2 DEF ControlInv
<1> QED BY <1>1, <1>3, <1>5, <1>6, <1>7 DEF ControlInv, Current

LEMMA RegistersControl ==
  ASSUME SessionInv, ControlInv, NEW i \in DOMAIN sess, RegisterDial(i) \/ RegisterAccepted(i)
  PROVE  ControlInv'
<1> DEFINE p == sess[i].peer
           old == sessions[p]
           done == [sess EXCEPT ![i].task = "done"]
           fresh == [done EXCEPT ![i].fresh = TRUE]
<1>0. /\ sess \in Seq(Session) /\ sess[i] \in Session
      /\ sess[i].task = "ready" /\ UNCHANGED <<policyVars, owner, injected>>
      /\ \/ (\E is : sess' = close(done, is) \/ sess' = close(sess, is) \/ sess' = done) /\ UNCHANGED sessions
         \/ /\ sess' = close(fresh, {old} \ {0}) /\ Insert(i) /\ require_outbound_permission(p)
            /\ old # 0 => p \in Wins
         \/ sess[i].dir = "in" /\ old = 0 /\ sess' = done /\ Insert(i) /\ peer_name_for_spki(p)
  BY InvFacts DEF RegisterDial, RegisterAccepted, MayInsert
<1>1. done \in Seq(Session) /\ i \in DOMAIN done /\ Stays(sess, done)
  <2>1. Only(sess, done, i) /\ TaskChange(sess, done, i)
    BY <1>0, DoneFacts DEF TaskChange
  <2> HIDE DEF done
  <2> QED BY <1>0, <2>1, TaskStays DEF Only
<1>2. fresh \in Seq(Session) /\ Stays(done, fresh)
  <2>1. Only(done, fresh, i) /\ TaskChange(done, fresh, i)
    BY <1>1, Ages DEF TaskChange
  <2> HIDE DEF done, fresh
  <2> QED BY <1>1, <2>1, TaskStays DEF Only
<1> HIDE DEF done, fresh
<1>3. CASE (\E is : sess' = close(done, is) \/ sess' = close(sess, is) \/ sess' = done) /\ UNCHANGED sessions
  <2>1. Stays(sess, sess')
    <3>1. CASE \E is : sess' = close(done, is)
      BY <1>1, <3>1, CloseStays, StaysTwice
    <3>2. CASE \E is : sess' = close(sess, is)
      BY <1>0, <3>2, CloseStays
    <3> QED BY <1>1, <1>3, <3>1, <3>2
  <2> QED BY <1>0, <1>3, <2>1, ControlStays
<1>4. CASE /\ sess' = close(fresh, {old} \ {0}) /\ Insert(i) /\ require_outbound_permission(p)
           /\ old # 0 => p \in Wins
  <2>1. Stays(fresh, sess')
    BY <1>2, <1>4, CloseStays
  <2>2. Stays(sess, sess')
    BY <1>1, <1>2, <2>1, StaysTwice
  <2>3. peer_name_for_spki(p) /\ "receive" \in perm[p]
    BY <1>4 DEF require_outbound_permission, peer_name_for_spki
  <2> QED BY <1>0, <1>4, <2>2, <2>3, JoinControl
<1>5. CASE sess[i].dir = "in" /\ old = 0 /\ sess' = done /\ Insert(i) /\ peer_name_for_spki(p)
  BY <1>0, <1>1, <1>5, JoinControl
<1> QED BY <1>0, <1>3, <1>4, <1>5

(* The loop answers session i: it may begin or end its peer's control.       *)
LEMMA AnswersControl ==
  ASSUME SessionInv, ControlInv, NEW i \in DOMAIN sess, Only(sess, sess', i),
         sess'[i].peer = sess[i].peer, sess'[i].dir = sess[i].dir, sess'[i].task = sess[i].task,
         sess[i].lost => sess'[i].lost, UNCHANGED <<policyVars, sessions>>,
         injected' \subseteq injected \cup {i}, owner' \in {0, owner, i},
         sess'[i].inb => owner' = i,
         \A j \in DOMAIN sess \ {i} : sess[j].inb => owner' = j,
         i \in injected' => /\ sess[i].task = "done"
                            /\ ~sess'[i].lost \/ sess[i].peer \notin Wins => sess'[i].inb
                            /\ sess[i].peer \notin Wins => Current(i)
                            /\ Current(i) /\ ~sess'[i].lost => receiver_authorized(sess[i].peer)
  PROVE  ControlInv'
<1>0. /\ sessions \in [Peers -> 0 .. Len(sess)] /\ DOMAIN sess = 1 .. Len(sess)
      /\ \A q \in Peers : sessions[q] # 0 => sessions[q] \in DOMAIN sess /\ sess[sessions[q]].peer = q
  BY InvFacts DEF SessionInv, MapInv
<1>1. /\ sessions' = sessions /\ perm' = perm /\ sharing' = sharing /\ gate' = gate
      /\ DOMAIN sess' = DOMAIN sess /\ injected' \subseteq DOMAIN sess /\ owner' \in DOMAIN sess \cup {0}
  BY DEF policyVars, Only, ControlInv
<1>2. \A j \in DOMAIN sess \ {i} : /\ sess'[j].inb = sess[j].inb /\ sess'[j].peer = sess[j].peer
                                   /\ sess'[j].dir = sess[j].dir /\ (sess[j].lost => sess'[j].lost)
                                   /\ sess'[j].task = sess[j].task
  BY DEF Only, Calm
<1>3. \A j \in DOMAIN sess : sess'[j].inb => owner' = j
  BY <1>2
<1>4. \A k \in injected' : /\ sess'[k].task = "done"
                           /\ ~sess'[k].lost \/ sess'[k].peer \notin Wins => sess'[k].inb
                           /\ sess'[k].peer \notin Wins => sessions[sess'[k].peer] = k
  <2> TAKE k \in injected'
  <2>1. CASE k = i
    BY <2>1 DEF Current
  <2>2. CASE k # i
    <3>1. k \in injected /\ k \in DOMAIN sess
      BY <1>1, <2>2
    <3> QED BY <1>2, <2>2, <3>1 DEF ControlInv, Current
  <2> QED BY <2>1, <2>2
<1>5. SessionsAreAuthorized'
  <2> SUFFICES ASSUME NEW q \in Peers, sessions[q] # 0, ~sess'[sessions[q]].lost
               PROVE  /\ peer_name_for_spki(q)'
                      /\ sess'[sessions[q]].dir = "out" => "receive" \in perm'[q]
                      /\ sessions[q] \in injected' => receiver_authorized(q)'
    BY <1>1 DEF SessionsAreAuthorized
  <2> DEFINE s == sessions[q]
  <2>1. s \in DOMAIN sess /\ sess[s].peer = q
    BY <1>0
  <2>2. ~sess[s].lost /\ sess'[s].dir = sess[s].dir
    BY <1>2, <2>1
  <2>3. /\ peer_name_for_spki(q) /\ (sess[s].dir = "out" => "receive" \in perm[q])
        /\ s \in injected => receiver_authorized(q)
    BY <2>2 DEF ControlInv, SessionsAreAuthorized
  <2>4. s \in injected' => receiver_authorized(q)
    <3>1. CASE s = i
      BY <2>1, <3>1 DEF Current
    <3>2. CASE s # i
      BY <2>3, <3>2
    <3> QED BY <3>1, <3>2
  <2> QED BY <1>1, <2>2, <2>3, <2>4 DEF peer_name_for_spki, receiver_authorized
<1> QED BY <1>1, <1>3, <1>4, <1>5 DEF ControlInv, Current

LEMMA RoutesControl ==
  ASSUME SessionInv, ControlInv,
         (\E allowed \in BOOLEAN : RouteEnter(allowed)) \/ RoutePress \/ RouteLeave \/ RouteRelease
  PROVE  ControlInv'
<1> DEFINE i == Head(evs).id
<1>1. /\ evs # <<>> /\ UNCHANGED <<policyVars, sessions>>
      /\ \/ /\ Head(evs).kind \in Request \ {"release"} /\ UNCHANGED <<owner, injected>>
            /\ sess' = [sess EXCEPT ![i].actor = "run", ![i].lost = TRUE]
         \/ /\ Head(evs).kind = "enter" /\ owner \in {0, i} /\ owner' = i /\ injected' = injected
            /\ sess' = [sess EXCEPT ![i].actor = "run", ![i].inb = TRUE]
         \/ /\ Head(evs).kind = "press" /\ owner' = owner /\ Current(i)
            /\ injected' = injected \/ (injected' = injected \cup {i} /\ receiver_authorized(sess[i].peer))
            /\ sess' = [sess EXCEPT ![i].actor = "run", ![i].inb = TRUE]
         \/ /\ Head(evs).kind = "leave" /\ injected' = injected \ {i}
            /\ owner' = IF owner = i THEN 0 ELSE owner
            /\ sess' = [sess EXCEPT ![i].actor = "run", ![i].inb = FALSE]
         \/ /\ Head(evs).kind = "release"
            /\ sess' = [sess EXCEPT ![i].actor = "over", ![i].inb = FALSE, ![i].queue = <<>>]
            /\ \/ ~Current(i) /\ owner' = owner /\ injected' = injected
               \/ injected' = injected \ {i} /\ owner' = IF owner = i THEN 0 ELSE owner
  <2>1. CASE \E allowed \in BOOLEAN : RouteEnter(allowed)
    BY <2>1 DEF RouteEnter, NextEv, Refused, Applied, claim_inbound, Request
  <2>2. CASE RoutePress
    BY <2>2 DEF RoutePress, NextEv, Refused, Applied, admit, Request
  <2>3. CASE RouteLeave
    BY <2>3 DEF RouteLeave, NextEv, Refused, Applied, Request
  <2>4. CASE RouteRelease
    BY <2>4 DEF RouteRelease, NextEv
  <2> QED BY <2>1, <2>2, <2>3, <2>4
<1>2. i \in DOMAIN sess /\ Fits(Head(evs).kind, sess[i])
  BY <1>1, EventsTail DEF SessionInv, EventInv
<1> HIDE DEF i
<1>0. /\ sess \in Seq(Session) /\ sess[i] \in Session /\ Plain(sess[i]) /\ i # 0
      /\ DOMAIN sess = 1 .. Len(sess) /\ \A j \in DOMAIN sess : j # 0
  BY <1>2, InvFacts
<1>3. /\ i \in injected => /\ sess[i].task = "done"
                           /\ ~sess[i].lost \/ sess[i].peer \notin Wins => sess[i].inb
                           /\ sess[i].peer \notin Wins => Current(i)
                           /\ Current(i) /\ ~sess[i].lost => receiver_authorized(sess[i].peer)
      /\ sess[i].inb => owner = i
      /\ \A j \in DOMAIN sess : sess[j].inb => owner = j
  <2>1. sess[i].peer \in Peers
    BY <1>2, InvFacts
  <2> QED BY <1>0, <1>2, <2>1 DEF ControlInv, SessionsAreAuthorized, Current
<1>4. CASE /\ Head(evs).kind \in Request \ {"release"} /\ UNCHANGED <<owner, injected>>
           /\ sess' = [sess EXCEPT ![i].actor = "run", ![i].lost = TRUE]
  <2>1. ActorChange(sess, sess', i)
    BY <1>4 DEF ActorChange
  <2>2. Stays(sess, sess')
    BY <1>0, <1>2, <2>1, ActorStays
  <2> QED BY <1>1, <1>4, <2>2, ControlStays
<1>5. ASSUME NEW open \in BOOLEAN, sess' = [sess EXCEPT ![i].actor = "run", ![i].inb = open]
      PROVE  /\ Only(sess, sess', i) /\ sess'[i].inb = open /\ sess'[i].lost = sess[i].lost
             /\ sess'[i].peer = sess[i].peer /\ sess'[i].dir = sess[i].dir /\ sess'[i].task = sess[i].task
  <2>1. Only(sess, sess', i)
    BY <1>0, <1>2, <1>5, Answers
  <2> QED BY <1>0, <1>2, <1>5, <2>1 DEF Session
<1>6. CASE /\ Head(evs).kind = "enter" /\ owner \in {0, i} /\ owner' = i /\ injected' = injected
           /\ sess' = [sess EXCEPT ![i].actor = "run", ![i].inb = TRUE]
  <2>1. /\ Only(sess, sess', i) /\ sess'[i].inb /\ sess'[i].lost = sess[i].lost
        /\ sess'[i].peer = sess[i].peer /\ sess'[i].dir = sess[i].dir /\ sess'[i].task = sess[i].task
    BY <1>5, <1>6
  <2>2. \A j \in DOMAIN sess \ {i} : ~sess[j].inb
    BY <1>0, <1>3, <1>6
  <2>3. i \in injected' => /\ sess[i].task = "done"
                           /\ sess[i].peer \notin Wins => Current(i)
                           /\ Current(i) /\ ~sess'[i].lost => receiver_authorized(sess[i].peer)
    BY <1>3, <1>6, <2>1
  <2> QED BY <1>1, <1>2, <1>6, <2>1, <2>2, <2>3, AnswersControl
<1>7. CASE /\ Head(evs).kind = "press" /\ owner' = owner /\ Current(i)
           /\ injected' = injected \/ (injected' = injected \cup {i} /\ receiver_authorized(sess[i].peer))
           /\ sess' = [sess EXCEPT ![i].actor = "run", ![i].inb = TRUE]
  <2>1. /\ Only(sess, sess', i) /\ sess'[i].inb /\ sess'[i].lost = sess[i].lost
        /\ sess'[i].peer = sess[i].peer /\ sess'[i].dir = sess[i].dir /\ sess'[i].task = sess[i].task
    BY <1>5, <1>7
  <2>2. sess[i].inb
    BY <1>2, <1>7 DEF Fits
  <2>3. sess[i].task = "done"
    <3>1. sess[i].peer \in Peers
      BY <1>2, InvFacts
    <3> QED BY <1>0, <1>7, <3>1 DEF Current, SessionInv, MapInv
  <2>4. i \in injected' /\ ~sess'[i].lost => receiver_authorized(sess[i].peer)
    BY <1>3, <1>7, <2>1
  <2>5. injected' \subseteq injected \cup {i}
    BY <1>7
  <2> QED BY <1>1, <1>2, <1>3, <1>7, <2>1, <2>2, <2>3, <2>4, <2>5, AnswersControl
<1>8. ASSUME injected' = injected \ {i}, owner' = IF owner = i THEN 0 ELSE owner, ~sess'[i].inb,
             Only(sess, sess', i), sess'[i].lost = sess[i].lost, sess[i].inb,
             sess'[i].peer = sess[i].peer, sess'[i].dir = sess[i].dir, sess'[i].task = sess[i].task
      PROVE  ControlInv'
  <2>1. \A j \in DOMAIN sess \ {i} : ~sess[j].inb
    BY <1>3, <1>8
  <2> QED BY <1>1, <1>2, <1>8, <2>1, AnswersControl
<1>9. CASE /\ Head(evs).kind = "leave" /\ injected' = injected \ {i}
           /\ owner' = IF owner = i THEN 0 ELSE owner
           /\ sess' = [sess EXCEPT ![i].actor = "run", ![i].inb = FALSE]
  <2>1. sess[i].inb
    BY <1>2, <1>9 DEF Fits
  <2> QED BY <1>5, <1>8, <1>9, <2>1
<1>10. CASE /\ Head(evs).kind = "release"
            /\ sess' = [sess EXCEPT ![i].actor = "over", ![i].inb = FALSE, ![i].queue = <<>>]
            /\ \/ ~Current(i) /\ owner' = owner /\ injected' = injected
               \/ injected' = injected \ {i} /\ owner' = IF owner = i THEN 0 ELSE owner
  <2>1. Only(sess, sess', i)
    BY <1>0, <1>2, <1>10, Concludes
  <2>2. /\ ~sess'[i].inb /\ sess'[i].lost = sess[i].lost
        /\ sess'[i].peer = sess[i].peer /\ sess'[i].dir = sess[i].dir /\ sess'[i].task = sess[i].task
    BY <1>0, <1>2, <1>10, <2>1 DEF Session
  <2>3. sess[i].inb /\ sess[i].lost
    BY <1>0, <1>2, <1>10 DEF Fits, Plain
  <2>4. CASE ~Current(i) /\ owner' = owner /\ injected' = injected
    <3>1. \A j \in DOMAIN sess \ {i} : sess[j].inb => owner' = j
      BY <1>3, <2>4
    <3>2. i \in injected' => sess[i].task = "done" /\ sess[i].peer \in Wins
      BY <1>3, <2>4
    <3> QED BY <1>1, <1>2, <2>1, <2>2, <2>3, <2>4, <3>1, <3>2, AnswersControl
  <2>5. CASE injected' = injected \ {i} /\ owner' = IF owner = i THEN 0 ELSE owner
    BY <1>8, <2>1, <2>2, <2>3, <2>5
  <2> QED BY <1>10, <2>4, <2>5
<1> QED BY <1>1, <1>4, <1>6, <1>7, <1>9, <1>10

LEMMA ClosedControl ==
  ASSUME SessionInv, ControlInv, SessionClosed
  PROVE  ControlInv'
<1> DEFINE i == Head(evs).id
           p == sess[i].peer
<1>1. /\ evs # <<>> /\ Head(evs).kind = "closed" /\ UNCHANGED <<policyVars, sess, injected>>
      /\ sessions' = IF Current(i) THEN [sessions EXCEPT ![p] = 0] ELSE sessions
      /\ owner' = IF owner = i THEN 0 ELSE owner
  BY DEF SessionClosed, NextEv
<1>2. i \in DOMAIN sess /\ ~sess[i].inb
  <2>1. i \in DOMAIN sess /\ Fits(Head(evs).kind, sess[i])
    BY <1>1, EventsTail DEF SessionInv, EventInv
  <2> QED BY <1>1, <2>1, InvFacts DEF Fits, Plain
<1>3. /\ sessions \in [Peers -> 0 .. Len(sess)]
      /\ \A j \in DOMAIN sess : sess[j].peer \in Peers
  BY InvFacts
<1> HIDE DEF i
<1>4. \A q \in Peers : sessions'[q] = sessions[q] \/ (sessions'[q] = 0 /\ sessions[q] = i)
  BY <1>1, <1>2, <1>3 DEF Current
<1>5. \A j \in DOMAIN sess : sess[j].inb => owner' = j
  BY <1>1, <1>2 DEF ControlInv
<1>6. SessionsAreAuthorized'
  BY <1>1, <1>4 DEF ControlInv, SessionsAreAuthorized, policyVars, peer_name_for_spki, receiver_authorized
<1>7. \A k \in injected : sess[k].peer \notin Wins => sessions'[sess[k].peer] = k
  BY <1>2, <1>3, <1>4 DEF ControlInv, Current
<1> QED BY <1>1, <1>5, <1>6, <1>7 DEF ControlInv, Current

(* A new session controls nothing. *)
LEMMA StartsControl ==
  ASSUME SessionInv, ControlInv, NEW p \in Peers, Dial(p) \/ AcceptConnection(p)
  PROVE  ControlInv'
<1> DEFINE n == Len(sess)
<1>1. /\ UNCHANGED <<policyVars, sessions, owner, injected>>
      /\ \E r : sess' = Append(sess, r) /\ ~r.inb
  BY DEF Dial, AcceptConnection, mapVars, NewSession
<1> PICK r : sess' = Append(sess, r) /\ ~r.inb
  BY <1>1
<1>2. /\ DOMAIN sess = 1 .. n /\ n \in Nat /\ DOMAIN sess' = 1 .. n + 1
      /\ \A j \in 1 .. n : sess'[j] = sess[j]
      /\ sess'[n + 1] = r
  BY InvFacts, AppendProperties
<1>3. \A q \in Peers : sessions[q] # 0 => sessions[q] \in DOMAIN sess
  BY InvFacts
<1> HIDE DEF n
<1>4. SessionsAreAuthorized'
  BY <1>1, <1>2, <1>3 DEF ControlInv, SessionsAreAuthorized, policyVars, peer_name_for_spki, receiver_authorized
<1>5. \A j \in DOMAIN sess' : sess'[j].inb => owner = j
  <2> TAKE j \in DOMAIN sess'
  <2>1. j \in DOMAIN sess \/ j = n + 1
    BY <1>2
  <2> QED BY <1>2, <2>1 DEF ControlInv
<1>6. \A k \in injected : k \in DOMAIN sess /\ k \in DOMAIN sess' /\ sess'[k] = sess[k]
  BY <1>2 DEF ControlInv
<1> QED BY <1>1, <1>4, <1>5, <1>6 DEF ControlInv, Current

(* A policy change closes every registered session it no longer allows.      *)
LEMMA PolicyControl ==
  ASSUME SessionInv, ControlInv, SetPermissions \/ SetSharing \/ SeatChanges
  PROVE  ControlInv'
<1>0. /\ sess \in Seq(Session) /\ Ids = DOMAIN sess
      /\ \A q \in Peers : sessions[q] # 0 => sessions[q] \in DOMAIN sess /\ sess[sessions[q]].peer = q
  BY InvFacts DEF SessionInv, MapInv
<1>1. ASSUME Stays(sess, sess'), UNCHANGED <<sessions, owner, injected>>,
             \A q \in Peers : sessions[q] # 0 /\ ~sess'[sessions[q]].lost /\ ~sess[sessions[q]].lost =>
                /\ peer_name_for_spki(q)'
                /\ sess[sessions[q]].dir = "out" => "receive" \in perm'[q]
                /\ sessions[q] \in injected => receiver_authorized(q)'
      PROVE  ControlInv'
  <2>1. SessionsAreAuthorized'
    BY <1>0, <1>1 DEF SessionsAreAuthorized, Stays
  <2> QED BY <1>1, <2>1 DEF ControlInv, Current, Stays
<1>2. ASSUME NEW pm, NEW sh, ApplyConfig(pm, sh)
      PROVE  ControlInv'
  <2> DEFINE gone == {i \in Ids : /\ Current(i)
                                  /\ \/ sh # sharing
                                     \/ permissions_reduced(perm[sess[i].peer], pm[sess[i].peer])
                                     \/ "connect" \notin pm[sess[i].peer]}
  <2>1. /\ sess' = [i \in Ids |-> [close(sess, gone)[i] EXCEPT !.stale = @ \/ sess[i].task # "done"]]
        /\ UNCHANGED <<sessions, owner, injected, gate>> /\ perm' = pm /\ sharing' = sh
    BY <1>2 DEF ApplyConfig, mapVars
  <2>2. ASSUME NEW i \in DOMAIN sess, Current(i), i \notin gone
        PROVE  sh = sharing /\ perm[sess[i].peer] \subseteq pm[sess[i].peer]
    BY <1>0, <2>2 DEF permissions_reduced
  <2> HIDE DEF gone
  <2>3. sess' = Outdated(sess, close(sess, gone))
    BY <1>0, <2>1 DEF Outdated
  <2>4. /\ CalmAll(sess, sess')
        /\ \A j \in DOMAIN sess : sess'[j].lost <=> sess[j].lost \/ j \in gone
    BY <1>0, <2>3, OutdatedCalm
  <2>5. ASSUME NEW q \in Peers, sessions[q] # 0, ~sess'[sessions[q]].lost, ~sess[sessions[q]].lost
        PROVE  /\ peer_name_for_spki(q)'
               /\ sess[sessions[q]].dir = "out" => "receive" \in perm'[q]
               /\ sessions[q] \in injected => receiver_authorized(q)'
    <3> DEFINE s == sessions[q]
    <3>1. s \in DOMAIN sess /\ sess[s].peer = q /\ Current(s) /\ s \notin gone
      BY <1>0, <2>4, <2>5 DEF Current
    <3>2. sh = sharing /\ perm[q] \subseteq pm[q]
      BY <2>2, <3>1
    <3>3. /\ peer_name_for_spki(q) /\ (sess[s].dir = "out" => "receive" \in perm[q])
          /\ s \in injected => receiver_authorized(q)
      BY <2>5 DEF ControlInv, SessionsAreAuthorized
    <3> QED BY <2>1, <3>2, <3>3 DEF peer_name_for_spki, receiver_authorized
  <2> QED BY <1>1, <2>1, <2>4, <2>5, CalmStays
<1>3. ASSUME NEW g, UpdateSeatGate(g)
      PROVE  ControlInv'
  <2> DEFINE ended == /\ owner # 0 /\ Current(owner)
                      /\ ~(sharing /\ {"connect", "send"} \subseteq perm[sess[owner].peer] /\ g # "denied")
  <2>1. /\ sess' = IF ended THEN close(sess, {owner}) ELSE sess
        /\ UNCHANGED <<sessions, owner, injected, perm, sharing>> /\ gate' = g
    BY <1>3 DEF UpdateSeatGate, mapVars
  <2>2. Stays(sess, sess')
    BY <1>0, <2>1, CloseStays, SameStays
  <2>3. ended /\ owner \in DOMAIN sess => sess'[owner].lost
    BY <1>0, <2>1, CloseFacts
  <2>4. ASSUME NEW q \in Peers, sessions[q] # 0, ~sess'[sessions[q]].lost, ~sess[sessions[q]].lost
        PROVE  /\ peer_name_for_spki(q)'
               /\ sess[sessions[q]].dir = "out" => "receive" \in perm'[q]
               /\ sessions[q] \in injected => receiver_authorized(q)'
    <3> DEFINE s == sessions[q]
    <3>1. s \in DOMAIN sess /\ sess[s].peer = q /\ Current(s)
      BY <1>0, <2>4 DEF Current
    <3>2. /\ peer_name_for_spki(q) /\ (sess[s].dir = "out" => "receive" \in perm[q])
          /\ s \in injected => receiver_authorized(q) /\ owner = s
      BY <2>4, <3>1 DEF ControlInv, SessionsAreAuthorized
    <3>3. s \in injected => ~ended
      BY <2>3, <2>4, <3>1, <3>2
    <3>4. s \in injected => g # "denied" /\ sharing /\ {"connect", "send"} \subseteq perm[q]
      BY <2>4, <3>1, <3>2, <3>3
    <3> QED BY <2>1, <3>2, <3>4 DEF peer_name_for_spki, receiver_authorized
  <2> QED BY <1>1, <2>1, <2>2, <2>4
<1> QED BY <1>2, <1>3 DEF SetPermissions, SetSharing, SeatChanges

LEMMA ControlStep ==
  ASSUME RouteInv, SessionInv, ControlInv, [Next]_vars
  PROVE  ControlInv'
<1>0. Ids = DOMAIN sess
  BY InvFacts
<1>1. CASE Uncontrolled
  BY <1>1, ControlStays DEF Uncontrolled
<1>2. CASE Tasks
  BY <1>0, <1>1, <1>2, TasksUncontrolled, RegistersControl DEF Tasks
<1>3. CASE Actors \/ Network
  BY <1>0, <1>1, <1>3, ActorsUncontrolled DEF Actors, Network
<1>4. CASE \E p \in Peers : Dial(p) \/ AcceptConnection(p) \/ SwitchOutbound(p)
  BY <1>1, <1>4, StartsControl, LoopUncontrolled
<1>5. CASE SessionEvents
  BY <1>1, <1>5, RoutesControl, ClosedControl, LoopUncontrolled DEF SessionEvents
<1>6. CASE RuntimeEvents \/ EndFinishes \/ SwitchFinishes
  BY <1>1, <1>6, LoopUncontrolled
<1>7. CASE SetPermissions \/ SetSharing \/ SeatChanges
  BY <1>7, PolicyControl
<1>8. CASE Runtime
  <2>1. UNCHANGED <<policyVars, sess, sessions, owner, injected>>
    BY <1>8 DEF Runtime, RtGrab, RtGrabFails, RtEscape, RtFault, RtUngrab, RtCapture, RtCommand, rtRest, mapVars
  <2> QED BY <1>1, <2>1, SameStays DEF Uncontrolled
<1>9. CASE (\E p \in Peers : Activate(p)) \/ ForwardCapture \/ LocalRelease \/ UNCHANGED vars
  <2>1. UNCHANGED <<policyVars, sess, sessions, owner, injected>>
    BY <1>9 DEF Activate, ForwardCapture, LocalRelease, vars, mapVars
  <2> QED BY <1>1, <2>1, SameStays DEF Uncontrolled
<1> QED BY <1>2, <1>3, <1>4, <1>5, <1>6, <1>7, <1>8, <1>9 DEF Next, Requests, Loop

(* Who controls this computer, whose keys its devices hold and which         *)
(* sessions are registered stay in step (route_receiver_effects, the         *)
(* session's exit path and every task that changes the map).                 *)
THEOREM Controlled == Spec => [](SessionInv /\ ControlInv)
<1>1. Init => ControlInv
  BY DEF Init, ControlInv, SessionsAreAuthorized
<1>2. RouteInv /\ SessionInv /\ ControlInv /\ [Next]_vars => ControlInv'
  BY ControlStep
<1> QED BY <1>1, <1>2, SessionsHold, PTL DEF Spec

(* Whatever changed while a session negotiated, a registered one that is not *)
(* being closed is one the configuration and the seat allow (connect,        *)
(* accept_connection, apply_config_locked, update_seat_gate), and outside    *)
(* simultaneous dials a peer's keys are released before its session ends.    *)
THEOREM PolicyHolds ==
  Spec => [](/\ SessionsAreAuthorized
             /\ \A i \in injected : sess[i].peer \notin Wins => sess[i].actor # "over" /\ owner = i)
<1>1. SessionInv /\ ControlInv =>
        /\ SessionsAreAuthorized
        /\ \A i \in injected : sess[i].peer \notin Wins => sess[i].actor # "over" /\ owner = i
  BY DEF SessionInv, MapInv, ControlInv, Plain
<1> QED BY <1>1, Controlled, PTL

(* A computer that wins no simultaneous dial follows its policy in full: one *)
(* peer at a time controls it, and none leaves keys down behind it           *)
(* (claim_inbound, route_receiver_effects, retire_session).                  *)
THEOREM PolicyIsFollowed ==
  ASSUME Wins = {}
  PROVE  Spec => []SessionsFollowPolicy
<1>1. SessionInv /\ ControlInv => SessionsFollowPolicy
  BY DEF SessionInv, MapInv, ControlInv, Plain, SessionsFollowPolicy, HeldIsReleased, OneController
<1> QED BY <1>1, Controlled, PTL

-----------------------------------------------------------------------------
(* Types *)

RestInv ==
  /\ perm \in [Peers -> SUBSET Perms] /\ sharing \in BOOLEAN /\ gate \in {"open", "held", "denied"}
  /\ waiting \in BOOLEAN /\ captured \in BOOLEAN /\ frame \in BOOLEAN
  /\ peer \in Peers \cup {NoPeer} /\ asks \in [Kinds -> Nat]

LEMMA AsksStay ==
  ASSUME asks \in [Kinds -> Nat], NEW kind \in Kinds, Ask(kind)
  PROVE  asks' \in [Kinds -> Nat]
<1>1. asks[kind] \in Nat /\ asks[kind] > 0 /\ asks' = [asks EXCEPT ![kind] = asks[kind] - 1]
  BY DEF Ask
<1>2. asks[kind] - 1 \in Nat
  BY <1>1
<1> QED BY <1>1, <1>2

LEMMA RestStep ==
  ASSUME RouteInv, RestInv, [Next]_vars
  PROVE  RestInv'
<1> DEFINE Policy == UNCHANGED policyVars
           Port == UNCHANGED rtVars
           Asked == asks' = asks \/ \E kind \in Kinds : Ask(kind)
<1>1. Asked => asks' \in [Kinds -> Nat]
  BY AsksStay DEF RestInv
<1>2. ASSUME Policy, Port, frame' = frame, Asked
      PROVE  RestInv'
  BY <1>1, <1>2 DEF RestInv, policyVars, rtVars
<1>3. CASE Tasks
  BY <1>2, <1>3 DEF Tasks, retire_session, Negotiated, RegisterDial, RegisterAccepted, AcceptTimesOut,
                    DialAges, queues
<1>4. CASE Actors \/ Network
  BY <1>2, <1>4 DEF Actors, Network, ActorStops, BeginOutbound, EndOutbound, PeerInput, ConnectionLost,
                    LeaseEnds, Kinds, queues
<1>5. CASE Requests
  BY <1>2, <1>5 DEF Requests, Dial, AcceptConnection, Activate, SwitchOutbound, Kinds, queues
<1>6. CASE SessionEvents
  BY <1>2, <1>6 DEF SessionEvents, RouteEnter, RoutePress, RouteLeave, RouteRelease, OutboundEnded,
                    SessionClosed, queues
<1>7. CASE RuntimeEvents \/ EndFinishes \/ SwitchFinishes \/ LocalRelease
  BY <1>2, <1>7 DEF RuntimeEvents, RuntimeRemote, RuntimeIdle, RuntimeTerminal, RuntimeClosed, EndActive,
                    EndFinishes, SwitchFinishes, LocalRelease, Kinds
<1>8. CASE ForwardCapture
  BY <1>8 DEF ForwardCapture, RestInv, policyVars, rtVars
<1>9. CASE Runtime
  <2>1. UNCHANGED <<policyVars, asks>>
    BY <1>9 DEF Runtime, RtGrab, RtGrabFails, RtEscape, RtFault, RtUngrab, RtCapture, RtCommand, rtRest
  <2>2. waiting' \in BOOLEAN /\ captured' \in BOOLEAN /\ frame' \in BOOLEAN
    BY <1>9 DEF RestInv, Runtime, RtGrab, RtGrabFails, RtEscape, RtFault, RtUngrab, RtCapture, RtCommand,
                rtVars, Grab, GiveBack, AskTerminal, ForceRelease, Arm, ConfirmTerminal
  <2>3. cmds # <<>> => Head(cmds) \in Command
    BY TailAt DEF RouteInv, PortInv
  <2>4. cmds # <<>> /\ Head(cmds).op = "activate" => Head(cmds).peer \in Peers
    BY <2>3 DEF Command
  <2>5. peer' \in Peers \cup {NoPeer}
    BY <1>9, <2>4 DEF RestInv, Runtime, RtGrab, RtGrabFails, RtEscape, RtFault, RtUngrab, RtCapture, RtCommand,
                      rtVars, ForceRelease
  <2> QED BY <2>1, <2>2, <2>5 DEF RestInv, policyVars
<1>10. CASE SetPermissions \/ SetSharing \/ SeatChanges
  <2>1. Port /\ frame' = frame /\ Asked
    BY <1>10 DEF SetPermissions, SetSharing, SeatChanges, ApplyConfig, UpdateSeatGate, Kinds, queues
  <2>2. perm' \in [Peers -> SUBSET Perms]
    <3>1. CASE SetPermissions
      <4>1. PICK p \in Peers, s \in {{}, {"connect"}, Perms \ {"send"}, Perms \ {"receive"}, Perms} :
              perm' = [perm EXCEPT ![p] = s]
        BY <3>1 DEF SetPermissions, ApplyConfig
      <4>2. s \in SUBSET Perms
        BY DEF Perms
      <4> QED BY <4>1, <4>2 DEF RestInv
    <3>2. CASE SetSharing \/ SeatChanges
      BY <3>2 DEF SetSharing, SeatChanges, ApplyConfig, UpdateSeatGate, RestInv
    <3> QED BY <1>10, <3>1, <3>2
  <2>3. sharing' \in BOOLEAN /\ gate' \in {"open", "held", "denied"}
    BY <1>10 DEF SetPermissions, SetSharing, SeatChanges, ApplyConfig, UpdateSeatGate, RestInv
  <2> QED BY <1>1, <2>1, <2>2, <2>3 DEF RestInv, rtVars
<1>11. CASE UNCHANGED vars
  BY <1>2, <1>11 DEF vars, queues
<1> QED BY <1>3, <1>4, <1>5, <1>6, <1>7, <1>8, <1>9, <1>10, <1>11 DEF Next, Loop

(* Every session, queue and status the daemon keeps has its type, and every  *)
(* session it refers to exists.                                              *)
THEOREM DaemonTypes == Spec => []TypeOK
<1>1. Init => RestInv
  BY DaemonAssumption DEF Init, PortInit, RestInv
<1>2. RouteInv /\ RestInv /\ [Next]_vars => RestInv'
  BY RestStep
<1>3. RouteInv /\ SessionInv /\ ControlInv /\ RestInv => TypeOK
  <2> SUFFICES ASSUME RouteInv, SessionInv, ControlInv, RestInv
               PROVE  TypeOK
    OBVIOUS
  <2>1. sess \in Seq([peer : Peers, dir : {"in", "out"}, task : {"retire", "setup", "ready", "done"},
                      actor : {"none", "run", "asking", "cleanup", "over"},
                      stale : BOOLEAN, fresh : BOOLEAN, lost : BOOLEAN, out : Nat, inb : BOOLEAN,
                      queue : Seq([op : {"begin", "end"}, act : Nat])])
    BY InvFacts DEF Session, Queued
  <2>2. /\ sessions \in [Peers -> 0 .. Len(sess)] /\ DOMAIN sess = 1 .. Len(sess) /\ Ids = DOMAIN sess
        /\ Len(sess) \in Nat
    BY InvFacts
  <2>3. owner \in 0 .. Len(sess) /\ injected \subseteq Ids
    BY <2>2 DEF ControlInv
  <2>4. active \in [id : 0 .. Len(sess), act : Nat]
    <3>1. active \in [id : Nat, act : Nat] /\ active.id \in 0 .. Len(sess)
      BY <2>2 DEF RouteInv, PortInv, Activation, SessionInv, HeldInv
    <3> QED BY <3>1
  <2> QED BY <2>1, <2>2, <2>3, <2>4 DEF TypeOK, RestInv, RouteInv, PortInv
<1> QED BY <1>1, <1>2, <1>3, Routed, Controlled, PTL DEF Spec
=============================================================================
