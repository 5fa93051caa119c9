----------------------------- MODULE MacsProofs -----------------------------
(***************************************************************************)
(* Proofs about the parts of MCMacs: the receiving side of a Mac that peers  *)
(* control, its injector, and its links. As in PlumbingProofs every part has *)
(* an inductive invariant that holds whenever that part is the one that      *)
(* runs.                                                                     *)
(***************************************************************************)
EXTENDS MCMacs, FiniteSetTheorems, SequenceTheorems, TLAPS

(* Everything a state of MCMacs holds.                                       *)
macsVars == <<part, macLinkVars, macReceiveVars, macInjectVars, macAppVars>>

(* A behaviour runs one part, and a step is a step of it or changes nothing   *)
(* of it.                                                                    *)
LEMMA OneMacPartRuns ==
  [MCNext]_macsVars =>
    /\ part' = part
    /\ part = "Links" => MacLinkNext \/ UNCHANGED macLinkVars
    /\ part = "Control" => MacReceiveNext \/ UNCHANGED macReceiveVars
    /\ part = "Injector" => MacInjectNext \/ UNCHANGED macInjectVars
  BY DEF macsVars, MCNext, RunLinks, RunControl, RunInjector, RunApp

-----------------------------------------------------------------------------
Commands == {Release} \cup [kind : {"open", "press", "close"}, id : Nat]
Inbounds ==
  [id : Nat, pc : {"gone", "idle", "admitted", "claimed", "sent", "ended", "dropped", "removed"},
   claim : BOOLEAN, open : BOOLEAN, batch : {"none", "open", "press", "close"},
   reply : {"none", "ok", "failed"}, closing : BOOLEAN]
Leases == [p : Controllers, id : Nat \ {0}, token : Nat, exited : BOOLEAN, delivered : BOOLEAN]

(* What the variables of the receiving side range over.                      *)
ControlTypes ==
  /\ policy \subseteq Controllers /\ DOMAIN ownership = {"outbound", "inbound", "lease"}
  /\ current \in [Controllers -> Nat] /\ inbound \in [Controllers -> Inbounds]
  /\ queue \in Seq(Commands) /\ heldBy \in Nat /\ sessionIds \in Nat /\ tokens \in Nat
  /\ requests \subseteq [p : Controllers, id : Nat \ {0}, token : Nat, pc : {"asked", "entering"}]
  /\ enders \subseteq [p : Controllers, id : Nat, close : BOOLEAN]

(* One link: its session is the current one until it is dropped, the claim    *)
(* lasts as long as the activation is open, only a batch on its way waits    *)
(* for an answer, and the first batch opens.                                 *)
OneLink(p) ==
  /\ inbound[p].id <= sessionIds /\ (inbound[p].id = 0 <=> inbound[p].pc = "gone")
  /\ current[p] = IF inbound[p].pc \in {"gone", "removed"} THEN 0 ELSE inbound[p].id
  /\ inbound[p].claim <=> inbound[p].pc \in {"claimed", "sent", "idle"} /\ inbound[p].open
  /\ inbound[p].pc \in {"idle", "admitted", "claimed"} => inbound[p].reply = "none"
  /\ inbound[p].pc \in {"admitted", "claimed"} => inbound[p].open /\ inbound[p].batch = "open"

(* Sessions differ, and the ownership names the one link with a claim.       *)
LinksInv ==
  /\ \A p \in Controllers : OneLink(p)
  /\ \A p, q \in Controllers : inbound[p].id = inbound[q].id /\ inbound[p].id # 0 => p = q
  /\ \A p \in Controllers : inbound[p].claim <=> ownership.inbound = Who(p)
  /\ ownership.inbound = <<>> \/ \E p \in Controllers : ownership.inbound = Who(p)

IsCommand(i) == i \in 1..Len(queue) /\ queue[i].kind # "release"

(* A session has one command on its way at most, the batch it waits for; a    *)
(* close that was applied left nothing of its session down.                  *)
CommandsInv ==
  /\ \A i \in 1..Len(queue) : IsCommand(i) => queue[i].id # 0 /\ queue[i].id <= sessionIds
  /\ \A i \in 1..Len(queue) : \A p \in Controllers :
       IsCommand(i) /\ queue[i].id = inbound[p].id =>
         \/ inbound[p].pc \in {"dropped", "removed"}
         \/ inbound[p].pc = "sent" /\ inbound[p].reply = "none" /\ inbound[p].batch = queue[i].kind
  /\ \A i, j \in 1..Len(queue) : IsCommand(i) /\ IsCommand(j) /\ queue[i].id = queue[j].id => i = j
  /\ \A p \in Controllers :
       inbound[p].pc = "sent" /\ inbound[p].reply = "ok" /\ inbound[p].batch = "close" =>
         heldBy # inbound[p].id

(* After place k of a queue, what session x may have down there is let go of  *)
(* before anybody else presses; or x is the owner and nobody else presses.   *)
OthersPress(q, j, x) == q[j].kind = "press" /\ q[j].id # x
Covered(q, k, x) ==
  \E i \in (k + 1)..Len(q) :
    /\ q[i] \in {Release, [kind |-> "close", id |-> x]}
    /\ \A j \in (k + 1)..i : ~OthersPress(q, j, x)
Alone(q, k, x) == \A j \in (k + 1)..Len(q) : ~OthersPress(q, j, x)
Owns(x) == ownership.inbound # <<>> /\ ownership.inbound[2] = x
Safe(k, x) == Covered(queue, k, x) \/ (Owns(x) /\ Alone(queue, k, x))

(* So it is for what is down, and for every press on its way.                *)
PressesInv ==
  /\ heldBy # 0 => Safe(0, heldBy)
  /\ \A k \in 1..Len(queue) : queue[k].kind = "press" => Safe(k, queue[k].id)

(* The desktop is reserved for a session that is there.                      *)
DeskInv ==
  \/ deskLease = {} /\ ownership.lease = <<>>
  \/ \E l \in deskLease : l \in Leases /\ deskLease = {l} /\ ownership.lease = <<l.p, l.id>> /\ inbound[l.p].id = l.id

(* The inductive invariant of the receiving side.                            *)
ControlInv ==
  ControlTypes /\ LinksInv /\ RevokedLosesControl /\ CommandsInv /\ PressesInv /\ DeskInv

(* It holds in the behaviours that run that part.                            *)
ControlHolds == part = "Control" => ControlInv

(* An owner is a pair, and pairs are equal when their parts are.             *)
LEMMA PairsDiffer ==
  /\ \A a, b : <<a, b>> # <<>> /\ <<a, b>>[1] = a /\ <<a, b>>[2] = b
  /\ \A a, b, c, d : <<a, b>> = <<c, d>> <=> a = c /\ b = d
  OBVIOUS

LEMMA ReleaseIsCommand == Release \in Commands /\ Release.kind = "release"
  BY DEF Release, Commands

(* Nobody is linked, and nothing is down or reserved.                        *)
LEMMA ControlStarts == MacReceiveInit => ControlInv
  <1> SUFFICES ASSUME MacReceiveInit PROVE ControlInv  OBVIOUS
  <1>1. /\ NoInbound \in Inbounds /\ NoInbound.id = 0 /\ NoInbound.pc = "gone" /\ ~NoInbound.claim
    BY DEF NoInbound, Inbounds
  <1>2. \A p \in Controllers : inbound[p] = NoInbound /\ current[p] = 0
    BY DEF MacReceiveInit
  <1>3. queue = <<>> /\ Len(queue) = 0 /\ queue \in Seq(Commands)
    BY DEF MacReceiveInit
  <1>4. ControlTypes
    BY <1>1, <1>3 DEF MacReceiveInit, ControlTypes
  <1>5. LinksInv
    <2>1. ownership.inbound = <<>>
      BY DEF MacReceiveInit
    <2> QED  BY <1>1, <1>2, <1>4, <2>1, PairsDiffer DEF LinksInv, OneLink, Who, ControlTypes
  <1>6. RevokedLosesControl
    BY <1>1, <1>2 DEF RevokedLosesControl
  <1>7. CommandsInv /\ PressesInv
    BY <1>1, <1>2, <1>3 DEF CommandsInv, PressesInv, MacReceiveInit
  <1>8. DeskInv
    BY DEF DeskInv, MacReceiveInit
  <1> QED  BY <1>4, <1>5, <1>6, <1>7, <1>8 DEF ControlInv

-----------------------------------------------------------------------------
(* What a longer queue keeps of a shorter one.                               *)
LEMMA LongerQueue ==
  ASSUME NEW q \in Seq(Commands), NEW e \in Commands
  PROVE  /\ Append(q, e) \in Seq(Commands) /\ Len(Append(q, e)) = Len(q) + 1 /\ Len(q) \in Nat
         /\ \A i \in 1..Len(q) : Append(q, e)[i] = q[i]
         /\ Append(q, e)[Len(q) + 1] = e
  BY AppendProperties, LenProperties

(* What release_all leaves in the queue.                                     *)
LEMMA ReleaseIsLast ==
  ASSUME queue \in Seq(Commands)
  PROVE  /\ PushRelease \in Seq(Commands) /\ Len(PushRelease) \in {Len(queue), Len(queue) + 1}
         /\ Len(PushRelease) >= 1 /\ PushRelease[Len(PushRelease)] = Release /\ Len(queue) \in Nat
         /\ \A i \in 1..Len(queue) : PushRelease[i] = queue[i]
  <1>1. Len(queue) \in Nat /\ (queue # <<>> => Len(queue) >= 1)
    BY EmptySeq, LenProperties
  <1>2. CASE queue # <<>> /\ queue[Len(queue)] = Release
    BY <1>1, <1>2 DEF PushRelease
  <1>3. CASE ~(queue # <<>> /\ queue[Len(queue)] = Release)
    <2>1. PushRelease = Append(queue, Release)
      BY <1>3 DEF PushRelease
    <2> QED  BY <1>1, <2>1, LongerQueue, ReleaseIsCommand
  <1> QED  BY <1>2, <1>3

(* What stays on its way is let go of as before.                             *)
LEMMA CoveredStays ==
  ASSUME NEW q \in Seq(Commands), NEW r \in Seq(Commands), Len(r) >= Len(q),
         \A i \in 1..Len(q) : r[i] = q[i], NEW k \in Nat, NEW x, Covered(q, k, x)
  PROVE  Covered(r, k, x)
  <1>1. Len(q) \in Nat /\ Len(r) \in Nat
    BY LenProperties
  <1>2. PICK i \in (k + 1)..Len(q) : /\ q[i] \in {Release, [kind |-> "close", id |-> x]}
                                     /\ \A j \in (k + 1)..i : ~OthersPress(q, j, x)
    BY DEF Covered
  <1>3. i \in (k + 1)..Len(r) /\ r[i] = q[i] /\ \A j \in (k + 1)..i : r[j] = q[j]
    BY <1>1, <1>2
  <1> QED  BY <1>2, <1>3 DEF Covered, OthersPress

(* A release at the end covers everything before it.                         *)
LEMMA SafeRelease ==
  ASSUME ControlTypes, PressesInv, queue' = PushRelease, heldBy' = heldBy
  PROVE  PressesInv'
  <1> DEFINE n == Len(PushRelease)
  <1>1. queue \in Seq(Commands) /\ Len(queue) \in Nat
    BY LenProperties DEF ControlTypes
  <1>2. /\ PushRelease \in Seq(Commands) /\ n \in {Len(queue), Len(queue) + 1} /\ n >= 1
        /\ PushRelease[n] = Release /\ \A i \in 1..Len(queue) : PushRelease[i] = queue[i]
    BY <1>1, ReleaseIsLast
  <1>3. ASSUME NEW k \in 0..Len(queue), NEW x, Safe(k, x), k < n PROVE Covered(PushRelease, k, x)
    <2>1. CASE Covered(queue, k, x)
      BY <1>1, <1>2, <2>1, CoveredStays
    <2>2. CASE Alone(queue, k, x)
      <3>1. \A j \in (k + 1)..n : ~OthersPress(PushRelease, j, x)
        <4>1. SUFFICES ASSUME NEW j \in (k + 1)..n PROVE ~OthersPress(PushRelease, j, x)
          OBVIOUS
        <4>2. CASE j = n
          BY <1>2, <4>2, ReleaseIsCommand DEF OthersPress
        <4>3. CASE j # n
          <5>1. j \in (k + 1)..Len(queue) /\ PushRelease[j] = queue[j]
            BY <1>1, <1>2, <1>3, <4>3
          <5> QED  BY <2>2, <5>1 DEF Alone, OthersPress
        <4> QED  BY <4>2, <4>3
      <3>2. n \in (k + 1)..n
        BY <1>1, <1>2, <1>3
      <3> QED  BY <1>2, <3>1, <3>2 DEF Covered
    <2> QED  BY <1>3, <2>1, <2>2 DEF Safe
  <1>4. ASSUME heldBy # 0 PROVE Covered(PushRelease, 0, heldBy)
    BY <1>1, <1>2, <1>3, <1>4 DEF PressesInv
  <1>5. ASSUME NEW k \in 1..n, PushRelease[k].kind = "press" PROVE Covered(PushRelease, k, PushRelease[k].id)
    <2>1. k # n
      BY <1>2, <1>5, ReleaseIsCommand
    <2>2. k \in 1..Len(queue) /\ k < n /\ PushRelease[k] = queue[k]
      BY <1>1, <1>2, <2>1
    <2> QED  BY <1>3, <1>5, <2>2 DEF PressesInv
  <1> QED  BY <1>4, <1>5 DEF PressesInv, Safe

(* A command at the end presses for the owner alone.                         *)
LEMMA SafeCommand ==
  ASSUME ControlTypes, PressesInv, heldBy' = heldBy, ownership'.inbound = ownership.inbound,
         NEW e \in Commands, queue' = Append(queue, e), e.kind = "press" => Owns(e.id)
  PROVE  PressesInv'
  <1> DEFINE q == Append(queue, e)
  <1>1. queue \in Seq(Commands) /\ Len(queue) \in Nat
    BY LenProperties DEF ControlTypes
  <1>2. /\ q \in Seq(Commands) /\ Len(q) = Len(queue) + 1
        /\ \A i \in 1..Len(queue) : q[i] = queue[i]
        /\ q[Len(queue) + 1] = e
    BY <1>1, LongerQueue
  <1> HIDE DEF q
  <1>3. ASSUME NEW k \in 0..Len(queue), NEW x, Safe(k, x) PROVE Covered(q, k, x) \/ (Owns(x) /\ Alone(q, k, x))
    <2>1. CASE Covered(queue, k, x)
      BY <1>1, <1>2, <2>1, CoveredStays
    <2>2. CASE Owns(x) /\ Alone(queue, k, x)
      <3>1. SUFFICES ASSUME NEW j \in (k + 1)..Len(q) PROVE ~OthersPress(q, j, x)
        BY <2>2 DEF Alone
      <3>2. CASE j = Len(queue) + 1
        BY <1>2, <2>2, <3>2 DEF OthersPress, Owns
      <3>3. CASE j # Len(queue) + 1
        <4>1. j \in (k + 1)..Len(queue) /\ q[j] = queue[j]
          BY <1>1, <1>2, <3>3
        <4> QED  BY <2>2, <4>1 DEF Alone, OthersPress
      <3> QED  BY <3>2, <3>3
    <2> QED  BY <1>3, <2>1, <2>2 DEF Safe
  <1>4. queue' = q /\ \A x : Owns(x)' <=> Owns(x)
    BY DEF Owns, q
  <1>5. ASSUME heldBy # 0 PROVE Safe(0, heldBy)'
    <2>1. Covered(q, 0, heldBy) \/ (Owns(heldBy) /\ Alone(q, 0, heldBy))
      BY <1>1, <1>3, <1>5 DEF PressesInv
    <2> QED  BY <1>4, <2>1 DEF Safe
  <1>6. ASSUME NEW k \in 1..Len(q), q[k].kind = "press", NEW x, x = q[k].id PROVE Safe(k, x)'
    <2>1. CASE k = Len(queue) + 1
      <3>1. Owns(x) /\ Alone(q, k, x)
        BY <1>1, <1>2, <1>6, <2>1 DEF Alone
      <3> HIDE DEF Covered, Alone, Owns
      <3> QED  BY <1>4, <3>1 DEF Safe
    <2>2. CASE k # Len(queue) + 1
      <3>1. k \in 1..Len(queue) /\ q[k] = queue[k]
        BY <1>1, <1>2, <2>2
      <3>2. Covered(q, k, x) \/ (Owns(x) /\ Alone(q, k, x))
        BY <1>3, <1>6, <3>1 DEF PressesInv
      <3> HIDE DEF Covered, Alone, Owns
      <3> QED  BY <1>4, <3>2 DEF Safe
    <2> QED  BY <2>1, <2>2
  <1> QED  BY <1>4, <1>5, <1>6 DEF PressesInv

(* The ownership changes, and who loses it has nothing down or on its way.    *)
LEMMA SafeOwner ==
  ASSUME ControlTypes, PressesInv, heldBy' = heldBy, queue' = queue,
         \A x : Owns(x) => \/ Owns(x)'
                           \/ heldBy # x /\ \A k \in 1..Len(queue) : queue[k].kind = "press" => queue[k].id # x
  PROVE  PressesInv'
  BY DEF PressesInv, Safe

(* The injector takes the first command: what it presses was safe in the      *)
(* queue.                                                                    *)
LEMMA SafeTake ==
  ASSUME ControlTypes, PressesInv, queue # <<>>, queue' = Tail(queue), ownership' = ownership,
         heldBy' = 0 \/ (Head(queue).kind = "press" /\ heldBy' = Head(queue).id)
  PROVE  PressesInv'
  <1> DEFINE q == Tail(queue)
  <1>1. /\ queue \in Seq(Commands) /\ Len(queue) \in Nat /\ q \in Seq(Commands) /\ Len(q) = Len(queue) - 1
        /\ Len(queue) >= 1 /\ Head(queue) = queue[1] /\ \A i \in 1..Len(q) : q[i] = queue[i + 1]
    BY HeadTailProperties, EmptySeq, LenProperties DEF ControlTypes
  <1> HIDE DEF q
  <1>2. ASSUME NEW k \in 1..Len(queue), NEW x, Safe(k, x)
        PROVE  Covered(q, k - 1, x) \/ (Owns(x) /\ Alone(q, k - 1, x))
    <2>1. CASE Covered(queue, k, x)
      <3>1. PICK i \in (k + 1)..Len(queue) : /\ queue[i] \in {Release, [kind |-> "close", id |-> x]}
                                             /\ \A j \in (k + 1)..i : ~OthersPress(queue, j, x)
        BY <2>1 DEF Covered
      <3>2. i - 1 \in ((k - 1) + 1)..Len(q) /\ q[i - 1] = queue[i]
        BY <1>1, <3>1
      <3>3. \A j \in ((k - 1) + 1)..(i - 1) : j + 1 \in (k + 1)..i /\ q[j] = queue[j + 1]
        BY <1>1, <3>1
      <3> QED  BY <3>1, <3>2, <3>3 DEF Covered, OthersPress
    <2>2. CASE Owns(x) /\ Alone(queue, k, x)
      <3>1. \A j \in ((k - 1) + 1)..Len(q) : j + 1 \in (k + 1)..Len(queue) /\ q[j] = queue[j + 1]
        BY <1>1
      <3> QED  BY <2>2, <3>1 DEF Alone, OthersPress
    <2> QED  BY <1>2, <2>1, <2>2 DEF Safe
  <1>3. queue' = q /\ \A x : Owns(x)' <=> Owns(x)
    BY DEF Owns, q
  <1>4. ASSUME heldBy' # 0 PROVE Safe(0, heldBy)'
    <2>1. queue[1].kind = "press" /\ heldBy' = queue[1].id /\ 1 \in 1..Len(queue) /\ 1 - 1 = 0
      BY <1>1, <1>4
    <2>2. Covered(q, 0, heldBy') \/ (Owns(heldBy') /\ Alone(q, 0, heldBy'))
      BY <1>2, <2>1 DEF PressesInv
    <2> QED  BY <1>3, <2>2 DEF Safe
  <1>5. ASSUME NEW k \in 1..Len(q), q[k].kind = "press", NEW x, x = q[k].id PROVE Safe(k, x)'
    <2>1. k + 1 \in 1..Len(queue) /\ q[k] = queue[k + 1] /\ (k + 1) - 1 = k
      BY <1>1
    <2>2. Covered(q, k, x) \/ (Owns(x) /\ Alone(q, k, x))
      BY <1>2, <1>5, <2>1 DEF PressesInv
    <2> QED  BY <1>3, <2>2 DEF Safe
  <1> QED  BY <1>3, <1>4, <1>5 DEF PressesInv

-----------------------------------------------------------------------------
(* A step of link p that leaves its record b and the rest as it was.         *)
Frame(p, b) ==
  /\ inbound' = [inbound EXCEPT ![p] = b] /\ b.id = inbound[p].id /\ b.id # 0 /\ b.pc # "gone"
  /\ UNCHANGED <<policy, revoking, heldBy, sessionIds, tokens, deskLease, requests, enders>>
  /\ ownership'.lease = ownership.lease /\ DOMAIN ownership' = {"outbound", "inbound", "lease"}
  /\ current' = [current EXCEPT ![p] = IF b.pc = "removed" THEN 0 ELSE b.id]
  /\ b.claim <=> b.pc \in {"claimed", "sent", "idle"} /\ b.open
  /\ b.pc \in {"idle", "admitted", "claimed"} => b.reply = "none"
  /\ b.pc \in {"admitted", "claimed"} => b.open /\ b.batch = "open"
  /\ p \notin policy /\ b.claim => b.closing \/ revoking \/ b.pc \in {"claimed", "dropped"}

(* The claim stays, goes, or comes to a link that may have it.               *)
OwnerMoves(p, b) ==
  \/ ownership'.inbound = ownership.inbound /\ (b.claim <=> inbound[p].claim)
  \/ ownership'.inbound = <<>> /\ inbound[p].claim /\ ~b.claim
  \/ ownership'.inbound = Who(p) /\ ownership.inbound \in {<<>>, Who(p)} /\ b.claim

(* The commands of p that are on their way are the ones b waits for.         *)
CommandsFit(b) ==
  /\ \A i \in 1..Len(queue) :
       IsCommand(i) /\ queue[i].id = b.id =>
         b.pc \in {"dropped", "removed"} \/ (b.pc = "sent" /\ b.reply = "none" /\ b.batch = queue[i].kind)
  /\ b.pc = "sent" /\ b.reply = "ok" /\ b.batch = "close" => heldBy # b.id

(* What such a step keeps whatever it does to the queue.                     *)
LEMMA FrameKeeps ==
  ASSUME ControlInv, NEW p \in Controllers, NEW b \in Inbounds, Frame(p, b), OwnerMoves(p, b),
         queue' \in Seq(Commands)
  PROVE  ControlTypes' /\ LinksInv' /\ RevokedLosesControl' /\ DeskInv'
  <1> USE DEF ControlInv
  <1>1. /\ inbound' \in [Controllers -> Inbounds] /\ inbound'[p] = b /\ b.id = inbound[p].id /\ b.id # 0
        /\ \A q \in Controllers : q # p => inbound'[q] = inbound[q]
        /\ current' \in [Controllers -> Nat] /\ current'[p] = (IF b.pc = "removed" THEN 0 ELSE b.id)
        /\ \A q \in Controllers : q # p => current'[q] = current[q]
    BY DEF Frame, ControlTypes, Inbounds
  <1>2. ControlTypes'
    BY <1>1 DEF Frame, ControlTypes
  <1>3. LinksInv'
    <2>1. ASSUME NEW q \in Controllers PROVE OneLink(q)'
      <3>1. CASE q = p
        BY <1>1, <3>1 DEF OneLink, Frame, LinksInv
      <3>2. CASE q # p
        <4>1. OneLink(q) /\ inbound'[q] = inbound[q] /\ current'[q] = current[q] /\ sessionIds' = sessionIds
          BY <1>1, <3>2 DEF LinksInv, Frame
        <4> QED  BY <4>1 DEF OneLink
      <3> QED  BY <3>1, <3>2
    <2>2. \A q \in Controllers : inbound'[q].id = inbound[q].id /\ Who(q)' = Who(q)
      BY <1>1 DEF Who
    <2>3. \A q, r \in Controllers : inbound'[q].id = inbound'[r].id /\ inbound'[q].id # 0 => q = r
      BY <2>2 DEF LinksInv
    <2>4. \A q \in Controllers : Who(q) = Who(p) <=> q = p
      BY PairsDiffer DEF Who
    <2>5. \A q \in Controllers : Who(q) # <<>>
      BY PairsDiffer DEF Who
    <2>6. ASSUME NEW q \in Controllers PROVE inbound'[q].claim <=> ownership'.inbound = Who(q)
      <3>1. inbound[q].claim <=> ownership.inbound = Who(q)
        BY DEF LinksInv
      <3>2. inbound[p].claim <=> ownership.inbound = Who(p)
        BY DEF LinksInv
      <3> QED  BY <1>1, <2>4, <2>5, <3>1, <3>2 DEF OwnerMoves
    <2>7. ownership'.inbound = <<>> \/ \E q \in Controllers : ownership'.inbound = Who(q)
      BY DEF OwnerMoves, LinksInv
    <2> QED  BY <2>1, <2>2, <2>3, <2>6, <2>7 DEF LinksInv
  <1>4. RevokedLosesControl'
    BY <1>1 DEF RevokedLosesControl, Frame
  <1>5. DeskInv'
    <2>1. \A q \in Controllers : inbound'[q].id = inbound[q].id
      BY <1>1
    <2>2. \A l \in Leases : l.p \in Controllers
      BY DEF Leases
    <2> QED  BY <2>1, <2>2 DEF DeskInv, Frame
  <1> QED  BY <1>2, <1>3, <1>4, <1>5

(* The commands of the other links stay, and p's fit.                        *)
LEMMA CommandsStay ==
  ASSUME ControlInv, NEW p \in Controllers, NEW b \in Inbounds, Frame(p, b), CommandsFit(b),
         \A i \in 1..Len(queue') : \/ queue'[i].kind = "release"
                                   \/ i \in 1..Len(queue) /\ queue'[i] = queue[i]
  PROVE  CommandsInv'
  <1> USE DEF ControlInv
  <1>1. /\ inbound'[p] = b /\ b.id = inbound[p].id /\ heldBy' = heldBy /\ sessionIds' = sessionIds
        /\ \A q \in Controllers : q # p => inbound'[q] = inbound[q]
    BY DEF Frame, ControlTypes
  <1>2. \A i \in 1..Len(queue') : IsCommand(i)' => i \in 1..Len(queue) /\ IsCommand(i) /\ queue'[i] = queue[i]
    BY DEF IsCommand
  <1>3. \A i \in 1..Len(queue') : IsCommand(i)' => queue'[i].id # 0 /\ queue'[i].id <= sessionIds'
    BY <1>1, <1>2 DEF CommandsInv
  <1>4. ASSUME NEW i \in 1..Len(queue'), NEW q \in Controllers, IsCommand(i)', queue'[i].id = inbound'[q].id
        PROVE  \/ inbound'[q].pc \in {"dropped", "removed"}
               \/ inbound'[q].pc = "sent" /\ inbound'[q].reply = "none" /\ inbound'[q].batch = queue'[i].kind
    <2>1. i \in 1..Len(queue) /\ IsCommand(i) /\ queue'[i] = queue[i]
      BY <1>2, <1>4
    <2>2. CASE q = p
      BY <1>1, <1>4, <2>1, <2>2 DEF CommandsFit
    <2>3. CASE q # p
      BY <1>1, <1>4, <2>1, <2>3 DEF CommandsInv
    <2> QED  BY <2>2, <2>3
  <1>5. \A i, j \in 1..Len(queue') : IsCommand(i)' /\ IsCommand(j)' /\ queue'[i].id = queue'[j].id => i = j
    BY <1>2 DEF CommandsInv
  <1>6. \A q \in Controllers :
          inbound'[q].pc = "sent" /\ inbound'[q].reply = "ok" /\ inbound'[q].batch = "close" =>
            heldBy' # inbound'[q].id
    BY <1>1 DEF CommandsInv, CommandsFit
  <1> QED  BY <1>3, <1>4, <1>5, <1>6 DEF CommandsInv

(* A step of p that leaves the queue alone.                                  *)
LEMMA FrameQuiet ==
  ASSUME ControlInv, NEW p \in Controllers, NEW b \in Inbounds, Frame(p, b), OwnerMoves(p, b),
         queue' = queue, CommandsFit(b),
         \A x : Owns(x) => \/ Owns(x)'
                           \/ heldBy # x /\ \A k \in 1..Len(queue) : queue[k].kind = "press" => queue[k].id # x
  PROVE  ControlInv'
  <1>1. queue' \in Seq(Commands) /\ heldBy' = heldBy /\ ControlTypes /\ PressesInv
    BY DEF ControlInv, ControlTypes, Frame
  <1>2. CommandsInv'
    BY CommandsStay
  <1>3. PressesInv'
    BY <1>1, SafeOwner
  <1> QED  BY <1>1, <1>2, <1>3, FrameKeeps DEF ControlInv

(* A step of p that lets go.                                                 *)
LEMMA FrameLets ==
  ASSUME ControlInv, NEW p \in Controllers, NEW b \in Inbounds, Frame(p, b), OwnerMoves(p, b),
         queue' = PushRelease, CommandsFit(b)
  PROVE  ControlInv'
  <1>1. queue \in Seq(Commands) /\ heldBy' = heldBy /\ ControlTypes /\ PressesInv
    BY DEF ControlInv, ControlTypes, Frame
  <1>2. /\ queue' \in Seq(Commands)
        /\ \A i \in 1..Len(queue') : \/ queue'[i].kind = "release"
                                     \/ i \in 1..Len(queue) /\ queue'[i] = queue[i]
    <2>1. /\ queue' \in Seq(Commands) /\ Len(queue') \in {Len(queue), Len(queue) + 1} /\ Len(queue) \in Nat
          /\ queue'[Len(queue')] = Release /\ \A i \in 1..Len(queue) : queue'[i] = queue[i]
      BY <1>1, ReleaseIsLast
    <2> QED  BY <2>1, ReleaseIsCommand
  <1>3. CommandsInv'
    BY <1>2, CommandsStay
  <1>4. PressesInv'
    BY <1>1, SafeRelease
  <1> QED  BY <1>2, <1>3, <1>4, FrameKeeps DEF ControlInv

(* A step of p that sends its only command: a press needs the claim.         *)
LEMMA FrameSends ==
  ASSUME ControlInv, NEW p \in Controllers, NEW b \in Inbounds, Frame(p, b),
         ownership'.inbound = ownership.inbound, b.claim <=> inbound[p].claim,
         NEW e \in Commands, queue' = Append(queue, e), e.id = b.id, e.kind = b.batch, e.kind # "release",
         b.pc = "sent", b.reply = "none", e.kind = "press" => b.claim,
         \A i \in 1..Len(queue) : IsCommand(i) => queue[i].id # b.id
  PROVE  ControlInv'
  <1>1. queue \in Seq(Commands) /\ heldBy' = heldBy /\ ControlTypes /\ PressesInv /\ LinksInv /\ CommandsInv
    BY DEF ControlInv, ControlTypes, Frame
  <1>2. /\ queue' \in Seq(Commands) /\ Len(queue') = Len(queue) + 1 /\ Len(queue) \in Nat
        /\ queue'[Len(queue) + 1] = e /\ \A i \in 1..Len(queue) : queue'[i] = queue[i]
    BY <1>1, LongerQueue
  <1>3. OwnerMoves(p, b)
    BY DEF OwnerMoves
  <1>4. /\ inbound'[p] = b /\ b.id = inbound[p].id /\ b.id # 0 /\ sessionIds' = sessionIds
        /\ inbound[p].id <= sessionIds
        /\ \A q \in Controllers : q # p => inbound'[q] = inbound[q] /\ inbound[q].id # b.id
    BY <1>1 DEF Frame, ControlTypes, LinksInv, OneLink
  <1>5. \A i \in 1..Len(queue') : i = Len(queue) + 1 \/ i \in 1..Len(queue)
    BY <1>2
  <1>6. \A i \in 1..Len(queue) : IsCommand(i)' <=> IsCommand(i)
    BY <1>2 DEF IsCommand
  <1>7. CommandsInv'
    <2>1. \A i \in 1..Len(queue') : IsCommand(i)' => queue'[i].id # 0 /\ queue'[i].id <= sessionIds'
      BY <1>1, <1>2, <1>4, <1>5, <1>6 DEF CommandsInv
    <2>2. ASSUME NEW i \in 1..Len(queue'), NEW q \in Controllers, IsCommand(i)', queue'[i].id = inbound'[q].id
          PROVE  \/ inbound'[q].pc \in {"dropped", "removed"}
                 \/ inbound'[q].pc = "sent" /\ inbound'[q].reply = "none" /\ inbound'[q].batch = queue'[i].kind
      <3>1. CASE i = Len(queue) + 1
        BY <1>2, <1>4, <2>2, <3>1
      <3>2. CASE i \in 1..Len(queue)
        <4>1. q # p
          BY <1>2, <1>4, <1>6, <2>2, <3>2
        <4> QED  BY <1>1, <1>2, <1>4, <1>6, <2>2, <3>2, <4>1 DEF CommandsInv
      <3> QED  BY <1>5, <3>1, <3>2
    <2>3. \A i, j \in 1..Len(queue') : IsCommand(i)' /\ IsCommand(j)' /\ queue'[i].id = queue'[j].id => i = j
      BY <1>1, <1>2, <1>5, <1>6 DEF CommandsInv
    <2>4. \A q \in Controllers :
            inbound'[q].pc = "sent" /\ inbound'[q].reply = "ok" /\ inbound'[q].batch = "close" =>
              heldBy' # inbound'[q].id
      BY <1>1, <1>4 DEF CommandsInv
    <2> QED  BY <2>1, <2>2, <2>3, <2>4 DEF CommandsInv
  <1>8. ASSUME e.kind = "press" PROVE Owns(e.id)
    <2>1. ownership.inbound = Who(p) /\ e.id = inbound[p].id
      BY <1>1, <1>4, <1>8 DEF LinksInv
    <2>2. Who(p) # <<>> /\ Who(p)[2] = inbound[p].id
      BY PairsDiffer DEF Who
    <2> QED  BY <2>1, <2>2 DEF Owns
  <1>9. PressesInv'
    BY <1>1, <1>8, SafeCommand
  <1> QED  BY <1>2, <1>3, <1>7, <1>9, FrameKeeps DEF ControlInv

(* A link that waits for no answer has no command on its way.                *)
LEMMA NothingOnItsWay ==
  ASSUME ControlInv, NEW p \in Controllers, inbound[p].pc \notin {"dropped", "removed"},
         inbound[p].pc # "sent" \/ inbound[p].reply # "none"
  PROVE  \A i \in 1..Len(queue) : IsCommand(i) => queue[i].id # inbound[p].id
  BY DEF ControlInv, CommandsInv

(* Being told to close changes nothing else of a link.                       *)
LEMMA ClosingIsAll ==
  ASSUME NEW b \in Inbounds, NEW c \in {b, [b EXCEPT !.closing = TRUE]}
  PROVE  /\ c \in Inbounds /\ c.id = b.id /\ c.pc = b.pc /\ c.claim = b.claim /\ c.open = b.open
         /\ c.reply = b.reply /\ c.batch = b.batch
         /\ c # b => c.closing
  BY DEF Inbounds

(* Steps beside the links: sessions may be told to close, and the injector    *)
(* to let go.                                                                *)
LEMMA BesideTheLinks ==
  ASSUME ControlInv, ControlTypes', RevokedLosesControl', DeskInv',
         UNCHANGED <<current, heldBy, sessionIds>>, ownership'.inbound = ownership.inbound,
         queue' \in {queue, PushRelease},
         \A q \in Controllers : inbound'[q] \in {inbound[q], [inbound[q] EXCEPT !.closing = TRUE]}
  PROVE  ControlInv'
  <1> USE DEF ControlInv
  <1>1. ASSUME NEW q \in Controllers
        PROVE  /\ inbound'[q].id = inbound[q].id /\ inbound'[q].pc = inbound[q].pc
               /\ inbound'[q].claim = inbound[q].claim /\ inbound'[q].open = inbound[q].open
               /\ inbound'[q].reply = inbound[q].reply /\ inbound'[q].batch = inbound[q].batch
    <2>1. inbound[q] \in Inbounds
      BY DEF ControlTypes
    <2> QED  BY <2>1, ClosingIsAll
  <1>2. LinksInv'
    <2>1. \A q \in Controllers : OneLink(q)' /\ Who(q)' = Who(q)
      BY <1>1 DEF LinksInv, OneLink, Who
    <2> QED  BY <1>1, <2>1 DEF LinksInv
  <1>3. \A i \in 1..Len(queue') : \/ queue'[i].kind = "release"
                                  \/ i \in 1..Len(queue) /\ queue'[i] = queue[i]
    <2>1. CASE queue' = PushRelease
      <3>1. /\ Len(queue') \in {Len(queue), Len(queue) + 1} /\ Len(queue) \in Nat
            /\ queue'[Len(queue')] = Release /\ \A i \in 1..Len(queue) : queue'[i] = queue[i]
        BY <2>1, ReleaseIsLast DEF ControlTypes
      <3> QED  BY <3>1, ReleaseIsCommand
    <2> QED  BY <2>1
  <1>4. CommandsInv'
    <2>1. \A i \in 1..Len(queue') : IsCommand(i)' => i \in 1..Len(queue) /\ IsCommand(i) /\ queue'[i] = queue[i]
      BY <1>3 DEF IsCommand
    <2>2. \A i \in 1..Len(queue') : IsCommand(i)' => queue'[i].id # 0 /\ queue'[i].id <= sessionIds'
      BY <2>1 DEF CommandsInv
    <2>3. \A i \in 1..Len(queue') : \A q \in Controllers :
            IsCommand(i)' /\ queue'[i].id = inbound'[q].id =>
              \/ inbound'[q].pc \in {"dropped", "removed"}
              \/ inbound'[q].pc = "sent" /\ inbound'[q].reply = "none" /\ inbound'[q].batch = queue'[i].kind
      BY <1>1, <2>1 DEF CommandsInv
    <2>4. \A i, j \in 1..Len(queue') : IsCommand(i)' /\ IsCommand(j)' /\ queue'[i].id = queue'[j].id => i = j
      BY <2>1 DEF CommandsInv
    <2>5. \A q \in Controllers :
            inbound'[q].pc = "sent" /\ inbound'[q].reply = "ok" /\ inbound'[q].batch = "close" =>
              heldBy' # inbound'[q].id
      BY <1>1 DEF CommandsInv
    <2> QED  BY <2>2, <2>3, <2>4, <2>5 DEF CommandsInv
  <1>5. PressesInv'
    <2>1. CASE queue' = queue
      <3>1. \A x : Owns(x) => Owns(x)'
        BY DEF Owns
      <3> QED  BY <2>1, <3>1, SafeOwner
    <2>2. CASE queue' = PushRelease
      BY <2>2, SafeRelease
    <2> QED  BY <2>1, <2>2
  <1> QED  BY <1>2, <1>4, <1>5

(* The source, the lock, the policy, and the tasks of desktop requests.      *)
LEMMA BesideStep ==
  ASSUME ControlInv,
         \/ begin_outbound \/ end_outbound \/ Locks \/ (\E allowed \in SUBSET Controllers : set_peers(allowed))
         \/ (\E p \in Controllers : AskPrepare(p)) \/ (\E r \in requests : prepare(r) \/ Entered(r))
         \/ (\E l \in deskLease : PollLease(l) \/ Pointer(l) \/ (\E close \in BOOLEAN : EndLease(l, close)))
  PROVE  ControlInv'
  <1> USE DEF ControlInv
  <1> SUFFICES ASSUME TRUE
               PROVE  /\ ControlTypes' /\ DeskInv' /\ RevokedLosesControl'
                      /\ UNCHANGED <<current, heldBy, sessionIds, queue, inbound>>
                      /\ ownership'.inbound = ownership.inbound
    BY BesideTheLinks
  <1>0. \A l \in deskLease : l \in Leases /\ l.p \in Controllers /\ l.id \in Nat \ {0} /\ deskLease = {l}
    BY DEF DeskInv, Leases
  <1>1. CASE begin_outbound \/ end_outbound
    <2>1. /\ DOMAIN ownership' = DOMAIN ownership /\ ownership'.inbound = ownership.inbound
          /\ ownership'.lease = ownership.lease
          /\ UNCHANGED <<policy, revoking, current, inbound, queue, heldBy, deskLease, requests, enders,
                         sessionIds, tokens>>
      BY <1>1 DEF begin_outbound, end_outbound, ControlTypes
    <2> QED  BY <2>1 DEF ControlTypes, DeskInv, RevokedLosesControl
  <1>2. CASE Locks \/ \E allowed \in SUBSET Controllers : set_peers(allowed)
    <2>1. /\ UNCHANGED <<ownership, current, inbound, queue, heldBy, deskLease, requests, enders, sessionIds, tokens>>
          /\ policy' \subseteq Controllers
          /\ revoking' \/ (policy' = policy /\ revoking' = revoking)
      BY <1>2 DEF Locks, set_peers, ControlTypes
    <2> QED  BY <2>1 DEF ControlTypes, DeskInv, RevokedLosesControl
  <1>3. CASE \E p \in Controllers : AskPrepare(p)
    <2>1. PICK p \in Controllers : AskPrepare(p)
      BY <1>3
    <2>2. /\ UNCHANGED <<policy, revoking, ownership, current, inbound, queue, heldBy, deskLease, enders, sessionIds>>
          /\ tokens' = tokens + 1 /\ inbound[p].pc \in {"idle", "sent"}
      BY <2>1 DEF AskPrepare
    <2>3. inbound[p].id \in Nat \ {0}
      BY <2>2 DEF ControlTypes, Inbounds, LinksInv, OneLink
    <2>4. requests' \subseteq [p : Controllers, id : Nat \ {0}, token : Nat, pc : {"asked", "entering"}]
      <3> DEFINE asked == [p |-> p, id |-> inbound[p].id, token |-> tokens + 1, pc |-> "asked"]
      <3>1. tokens + 1 \in Nat
        BY DEF ControlTypes
      <3>2. asked \in [p : Controllers, id : Nat \ {0}, token : Nat, pc : {"asked", "entering"}]
        BY <2>3, <3>1
      <3>3. requests' \in {requests, requests \cup {asked}}
        BY <2>1 DEF AskPrepare
      <3> HIDE DEF asked
      <3> QED  BY <3>2, <3>3 DEF ControlTypes
    <2>5. ControlTypes'
      BY <2>2, <2>4 DEF ControlTypes
    <2>6. DeskInv'
      BY <2>2 DEF DeskInv
    <2>7. RevokedLosesControl'
      BY <2>2 DEF RevokedLosesControl
    <2>8. UNCHANGED <<current, heldBy, sessionIds, queue, inbound>> /\ ownership'.inbound = ownership.inbound
      BY <2>2
    <2> HIDE DEF ControlInv
    <2> QED  BY <2>5, <2>6, <2>7, <2>8
  <1>4. CASE \E r \in requests : prepare(r)
    <2>1. PICK r \in requests : prepare(r)
      BY <1>4
    <2>2. UNCHANGED <<policy, revoking, current, inbound, queue, heldBy, enders, sessionIds, tokens>>
      BY <2>1 DEF prepare
    <2>3. /\ r \in [p : Controllers, id : Nat \ {0}, token : Nat, pc : {"asked", "entering"}]
          /\ r.p \in Controllers /\ r.id \in Nat \ {0} /\ r.token \in Nat
      BY DEF ControlTypes
    <2>4. CASE requests' = requests \ {r} /\ UNCHANGED <<deskLease, ownership>>
      BY <2>2, <2>4 DEF ControlTypes, DeskInv, RevokedLosesControl
    <2>5. CASE /\ is_current(r) /\ ownership.lease = <<>>
               /\ deskLease' = {[p |-> r.p, id |-> r.id, token |-> r.token, exited |-> FALSE, delivered |-> FALSE]}
               /\ ownership' = [ownership EXCEPT !.lease = <<r.p, r.id>>]
               /\ requests' = (requests \ {r}) \cup {[r EXCEPT !.pc = "entering"]}
      <3> DEFINE l == [p |-> r.p, id |-> r.id, token |-> r.token, exited |-> FALSE, delivered |-> FALSE]
      <3>1. inbound[r.p].id = r.id
        BY <2>3, <2>5 DEF is_current, LinksInv, OneLink
      <3>2. l \in Leases /\ l.p = r.p /\ l.id = r.id
        BY <2>3 DEF Leases
      <3>3. /\ DOMAIN ownership' = DOMAIN ownership /\ ownership'.inbound = ownership.inbound
            /\ ownership'.lease = <<r.p, r.id>>
        BY <2>5 DEF ControlTypes
      <3>4. DeskInv'
        BY <2>2, <2>5, <3>1, <3>2, <3>3 DEF DeskInv
      <3>5. [r EXCEPT !.pc = "entering"] \in [p : Controllers, id : Nat \ {0}, token : Nat, pc : {"asked", "entering"}]
        BY <2>3
      <3>6. ControlTypes'
        BY <2>2, <2>5, <3>3, <3>5 DEF ControlTypes
      <3> QED  BY <2>2, <3>3, <3>4, <3>6 DEF RevokedLosesControl
    <2> QED  BY <2>1, <2>4, <2>5 DEF prepare
  <1>5. ASSUME NEW ls \in SUBSET deskLease, TakeLease(ls),
               UNCHANGED <<policy, revoking, current, inbound, queue, heldBy, sessionIds, tokens>>,
               requests' \subseteq requests,
               enders' \subseteq [p : Controllers, id : Nat, close : BOOLEAN]
        PROVE  /\ ControlTypes' /\ DeskInv' /\ RevokedLosesControl'
               /\ ownership'.inbound = ownership.inbound
    <2>1. ls = {} \/ ls = deskLease
      BY <1>0
    <2>2. /\ DOMAIN ownership' = DOMAIN ownership /\ ownership'.inbound = ownership.inbound
          /\ ownership'.lease = (IF ls = {} THEN ownership.lease ELSE <<>>)
      BY <1>5 DEF TakeLease, ControlTypes
    <2>3. DeskInv'
      BY <1>5, <2>1, <2>2 DEF DeskInv, TakeLease
    <2>4. ControlTypes' /\ RevokedLosesControl'
      BY <1>5, <2>2 DEF ControlTypes, RevokedLosesControl
    <2> QED  BY <2>2, <2>3, <2>4
  <1>6. CASE \E r \in requests : Entered(r)
    <2>1. PICK r \in requests : Entered(r)
      BY <1>6
    <2>2. /\ UNCHANGED <<policy, revoking, current, inbound, queue, heldBy, enders, sessionIds, tokens>>
          /\ requests' = requests \ {r}
      BY <2>1 DEF Entered
    <2>3. enders' \subseteq [p : Controllers, id : Nat, close : BOOLEAN]
      BY <2>2 DEF ControlTypes
    <2>4. CASE UNCHANGED <<deskLease, ownership>>
      BY <2>2, <2>4 DEF ControlTypes, DeskInv, RevokedLosesControl
    <2>5. CASE TakeLease(LeaseOf(r.id, r.token))
      BY <1>5, <2>2, <2>3, <2>5 DEF LeaseOf
    <2> QED  BY <2>1, <2>4, <2>5 DEF Entered
  <1>7. ASSUME NEW l \in deskLease, PollLease(l) \/ Pointer(l)
        PROVE  /\ ControlTypes' /\ DeskInv' /\ RevokedLosesControl'
               /\ UNCHANGED <<current, heldBy, sessionIds, queue, inbound, ownership>>
    <2>1. UNCHANGED <<policy, revoking, ownership, current, inbound, queue, heldBy, requests, enders,
                      sessionIds, tokens>>
      BY <1>7 DEF PollLease, Pointer
    <2>2. PICK m : /\ deskLease' = {m}
                   /\ m \in {[l EXCEPT !.exited = FALSE, !.delivered = FALSE], [l EXCEPT !.delivered = TRUE],
                             [l EXCEPT !.exited = TRUE]}
      BY <1>7 DEF PollLease, Pointer
    <2>3. m \in Leases /\ m.p = l.p /\ m.id = l.id
      BY <1>0, <2>2 DEF Leases
    <2>4. ownership.lease = <<l.p, l.id>> /\ inbound[l.p].id = l.id
      BY <1>0 DEF DeskInv
    <2>5. DeskInv'
      BY <2>1, <2>2, <2>3, <2>4 DEF DeskInv
    <2> QED  BY <2>1, <2>5 DEF ControlTypes, RevokedLosesControl
  <1>8. ASSUME NEW l \in deskLease, NEW close \in BOOLEAN, EndLease(l, close)
        PROVE  /\ ControlTypes' /\ DeskInv' /\ RevokedLosesControl'
               /\ UNCHANGED <<current, heldBy, sessionIds, queue, inbound>>
               /\ ownership'.inbound = ownership.inbound
    <2>1. /\ UNCHANGED <<policy, revoking, current, inbound, queue, heldBy, requests, sessionIds, tokens>>
          /\ TakeLease({l}) /\ enders' = enders \cup {[p |-> l.p, id |-> l.id, close |-> close]}
      BY <1>8 DEF EndLease
    <2>2. enders' \subseteq [p : Controllers, id : Nat, close : BOOLEAN]
      BY <1>0, <2>1 DEF ControlTypes
    <2> QED  BY <1>5, <2>1, <2>2
  <1>9. UNCHANGED <<current, heldBy, sessionIds, queue, inbound>>
    BY DEF begin_outbound, end_outbound, Locks, set_peers, AskPrepare, prepare, Entered, PollLease, Pointer, EndLease
  <1>10. ControlTypes' /\ DeskInv' /\ RevokedLosesControl' /\ ownership'.inbound = ownership.inbound
    <2>1. CASE \E l \in deskLease : PollLease(l) \/ Pointer(l) \/ \E close \in BOOLEAN : EndLease(l, close)
      BY <1>7, <1>8, <2>1
    <2>2. CASE \E r \in requests : Entered(r)
      <3>1. PICK r \in requests : Entered(r)
        BY <2>2
      <3>2. ownership'.inbound = ownership.inbound
        BY <3>1 DEF Entered, TakeLease, ControlTypes
      <3> QED  BY <1>6, <2>2, <3>2
    <2>3. CASE begin_outbound \/ end_outbound
      BY <1>1, <2>3
    <2>4. CASE Locks \/ \E allowed \in SUBSET Controllers : set_peers(allowed)
      BY <1>2, <2>4
    <2>5. CASE \E p \in Controllers : AskPrepare(p)
      BY <1>3, <2>5
    <2>6. CASE \E r \in requests : prepare(r)
      BY <1>4, <2>6
    <2> QED  BY <2>1, <2>2, <2>3, <2>4, <2>5, <2>6
  <1> QED  BY <1>9, <1>10

(* A revocation, a locked screen and an ended lease tell a session to close.  *)
LEMMA ClosingStep ==
  ASSUME ControlInv, revoke \/ watch_lock \/ \E e \in enders : LeaseEnded(e)
  PROVE  ControlInv'
  <1> USE DEF ControlInv
  <1>1. /\ UNCHANGED <<policy, ownership, current, heldBy, deskLease, requests, sessionIds, tokens>>
        /\ enders' \subseteq enders /\ queue' \in {queue, PushRelease}
        /\ inbound' = inbound \/ \E p : inbound' = [inbound EXCEPT ![p].closing = TRUE]
    BY DEF revoke, watch_lock, LeaseEnded, CloseSession
  <1>2. \A q \in Controllers : inbound'[q] \in {inbound[q], [inbound[q] EXCEPT !.closing = TRUE]}
    BY <1>1 DEF ControlTypes
  <1>3. ASSUME NEW q \in Controllers
        PROVE  /\ inbound'[q] \in Inbounds /\ inbound'[q].id = inbound[q].id /\ inbound'[q].pc = inbound[q].pc
               /\ inbound'[q].claim = inbound[q].claim /\ (inbound[q].closing => inbound'[q].closing)
    <2>1. inbound[q] \in Inbounds
      BY DEF ControlTypes
    <2> QED  BY <1>2, <2>1, ClosingIsAll
  <1>4. ControlTypes'
    <2>1. PushRelease \in Seq(Commands)
      BY ReleaseIsLast DEF ControlTypes
    <2>2. inbound' \in [Controllers -> Inbounds]
      <3>1. DOMAIN inbound' = Controllers /\ inbound' = [q \in Controllers |-> inbound'[q]]
        BY <1>1 DEF ControlTypes
      <3> QED  BY <1>3, <3>1
    <2> QED  BY <1>1, <2>1, <2>2 DEF ControlTypes
  <1>5. DeskInv'
    <2>1. \A l \in Leases : l.p \in Controllers
      BY DEF Leases
    <2> QED  BY <1>1, <1>3, <2>1 DEF DeskInv
  <1>6. RevokedLosesControl'
    <2>1. CASE revoking' = revoking
      BY <1>1, <1>3, <2>1 DEF RevokedLosesControl
    <2>2. CASE revoke
      <3>1. SUFFICES ASSUME NEW p \in Controllers \ policy, inbound'[p].claim,
                            inbound'[p].pc \notin {"claimed", "dropped"}
                     PROVE  inbound'[p].closing
        BY <1>1 DEF RevokedLosesControl
      <3>2. inbound[p].claim /\ ownership.inbound = Who(p)
        BY <1>3, <3>1 DEF LinksInv
      <3>3. controller = <<p, inbound[p].id>> /\ controller # <<>> /\ controller[1] = p
        BY <3>2, PairsDiffer DEF controller, Who
      <3>4. CloseSession(p)
        BY <2>2, <3>1, <3>3 DEF revoke
      <3>5. current[p] # 0
        BY <3>1, <3>2 DEF LinksInv, OneLink
      <3> QED  BY <3>4, <3>5 DEF CloseSession, ControlTypes, Inbounds
    <2> QED  BY <2>1, <2>2 DEF revoke, watch_lock, LeaseEnded
  <1> QED  BY <1>1, <1>2, <1>4, <1>5, <1>6, BesideTheLinks

(* A link lets go of what it claimed and serves no more: refused, or dropped. *)
LEMMA LetsGoStep ==
  ASSUME ControlInv, NEW p \in Controllers, NEW b \in Inbounds, b.id = inbound[p].id,
         b.pc \in {"ended", "dropped"}, ~b.open, ~b.claim, inbound[p].pc \notin {"gone", "removed"},
         b.pc = "ended" => \A i \in 1..Len(queue) : IsCommand(i) => queue[i].id # inbound[p].id,
         inbound' = [inbound EXCEPT ![p] = b],
         queue' = IF inbound[p].claim THEN PushRelease ELSE queue,
         ownership' = IF inbound[p].claim THEN [ownership EXCEPT !.inbound = <<>>] ELSE ownership,
         UNCHANGED <<policy, revoking, current, heldBy, deskLease, requests, enders, sessionIds, tokens>>
  PROVE  ControlInv'
  <1> USE DEF ControlInv
  <1>1. /\ inbound[p] \in Inbounds /\ inbound[p].id # 0 /\ current[p] = inbound[p].id
        /\ current \in [Controllers -> Nat]
    BY DEF ControlTypes, LinksInv, OneLink
  <1>2. /\ DOMAIN ownership' = {"outbound", "inbound", "lease"} /\ ownership'.lease = ownership.lease
        /\ ownership'.inbound = (IF inbound[p].claim THEN <<>> ELSE ownership.inbound)
    BY DEF ControlTypes
  <1>3. Frame(p, b)
    BY <1>1, <1>2 DEF Frame
  <1>4. CommandsFit(b)
    BY DEF CommandsFit
  <1>5. OwnerMoves(p, b)
    BY <1>2 DEF OwnerMoves
  <1>6. CASE inbound[p].claim
    BY <1>3, <1>4, <1>5, <1>6, FrameLets
  <1>7. CASE ~inbound[p].claim
    <2>1. \A x : Owns(x) => Owns(x)'
      BY <1>7 DEF Owns
    <2> QED  BY <1>3, <1>4, <1>5, <1>7, <2>1, FrameQuiet
  <1> QED  BY <1>6, <1>7

(* A refused batch, of a link with nothing on its way.                       *)
LEMMA RefuseStep ==
  ASSUME ControlInv, NEW p \in Controllers, RefuseBatch(p),
         \/ inbound[p].pc \in {"idle", "admitted", "claimed"}
         \/ inbound[p].pc = "sent" /\ inbound[p].reply # "none",
         UNCHANGED <<policy, revoking, current, heldBy, deskLease, requests, enders, sessionIds, tokens>>
  PROVE  ControlInv'
  <1> DEFINE b == [inbound[p] EXCEPT !.pc = "ended", !.open = FALSE, !.closing = TRUE]
             c == [b EXCEPT !.claim = FALSE]
  <1>1. inbound[p] \in Inbounds
    BY DEF ControlInv, ControlTypes
  <1>2. c \in Inbounds /\ c.id = inbound[p].id /\ c.pc = "ended" /\ ~c.open /\ ~c.claim
    BY <1>1 DEF Inbounds
  <1>3. inbound' = [inbound EXCEPT ![p] = c]
    BY DEF RefuseBatch, release_claim
  <1>4. \A i \in 1..Len(queue) : IsCommand(i) => queue[i].id # inbound[p].id
    BY NothingOnItsWay
  <1> HIDE DEF c
  <1> QED  BY <1>2, <1>3, <1>4, LetsGoStep DEF RefuseBatch, release_claim

(* A step of p that changes its record and neither its claim nor the queue.   *)
LEMMA QuietStep ==
  ASSUME ControlInv, NEW p \in Controllers, NEW b \in Inbounds, inbound' = [inbound EXCEPT ![p] = b],
         b.id = inbound[p].id, b.claim <=> inbound[p].claim,
         inbound[p].pc \notin {"gone", "removed"}, b.pc # "gone",
         b.claim <=> b.pc \in {"claimed", "sent", "idle"} /\ b.open,
         b.pc \in {"idle", "admitted", "claimed"} => b.reply = "none",
         b.pc \in {"admitted", "claimed"} => b.open /\ b.batch = "open",
         p \notin policy /\ b.claim => b.closing \/ revoking \/ b.pc \in {"claimed", "dropped"},
         b.pc \notin {"dropped", "removed"} =>
           b.pc # "sent" /\ \A i \in 1..Len(queue) : IsCommand(i) => queue[i].id # inbound[p].id,
         current' = [current EXCEPT ![p] = IF b.pc = "removed" THEN 0 ELSE b.id],
         UNCHANGED <<policy, revoking, ownership, queue, heldBy, deskLease, requests, enders, sessionIds, tokens>>
  PROVE  ControlInv'
  <1> USE DEF ControlInv
  <1>1. inbound[p].id # 0 /\ DOMAIN ownership = {"outbound", "inbound", "lease"}
    BY DEF ControlTypes, LinksInv, OneLink
  <1>2. Frame(p, b)
    BY <1>1 DEF Frame
  <1>3. CommandsFit(b)
    BY DEF CommandsFit
  <1>4. OwnerMoves(p, b)
    BY DEF OwnerMoves
  <1>5. \A x : Owns(x) => Owns(x)'
    BY DEF Owns
  <1> QED  BY <1>2, <1>3, <1>4, <1>5, FrameQuiet

(* The first batch: admission, the claim, and admission again.               *)
LEMMA OpensStep ==
  ASSUME ControlInv, NEW p \in Controllers, Opens(p)
  PROVE  ControlInv'
  <1> DEFINE b == [inbound[p] EXCEPT !.pc = "admitted", !.batch = "open", !.open = TRUE]
  <1>1. /\ inbound[p] \in Inbounds /\ OneLink(p) /\ current \in [Controllers -> Nat]
        /\ inbound[p].pc = "idle" /\ ~inbound[p].open
        /\ UNCHANGED <<policy, revoking, current, heldBy, deskLease, requests, enders, sessionIds, tokens>>
    BY DEF ControlInv, ControlTypes, LinksInv, Opens, At
  <1>2. CASE RefuseBatch(p)
    BY <1>1, <1>2, RefuseStep
  <1>3. CASE inbound' = [inbound EXCEPT ![p] = b] /\ UNCHANGED <<queue, ownership>>
    <2>1. /\ b \in Inbounds /\ b.id = inbound[p].id /\ b.pc = "admitted" /\ b.open /\ b.batch = "open"
          /\ b.reply = inbound[p].reply /\ b.claim = inbound[p].claim
      BY <1>1 DEF Inbounds
    <2>2. ~inbound[p].claim /\ inbound[p].reply = "none" /\ current[p] = inbound[p].id
      BY <1>1 DEF OneLink
    <2>3. \A i \in 1..Len(queue) : IsCommand(i) => queue[i].id # inbound[p].id
      BY <1>1, NothingOnItsWay
    <2> HIDE DEF b
    <2>4. current' = [current EXCEPT ![p] = b.id]
      BY <1>1, <2>1, <2>2
    <2> QED  BY <1>1, <1>3, <2>1, <2>2, <2>3, <2>4, QuietStep
  <1>4. RefuseBatch(p) \/ (inbound' = [inbound EXCEPT ![p] = b] /\ UNCHANGED <<queue, ownership>>)
    BY DEF Opens
  <1> QED  BY <1>2, <1>3, <1>4

LEMMA ClaimStep ==
  ASSUME ControlInv, NEW p \in Controllers, claim_for(p)
  PROVE  ControlInv'
  <1> DEFINE b == [inbound[p] EXCEPT !.pc = "claimed", !.claim = TRUE]
  <1>1. /\ inbound[p] \in Inbounds /\ OneLink(p) /\ current \in [Controllers -> Nat]
        /\ inbound[p].pc = "admitted" /\ DOMAIN ownership = {"outbound", "inbound", "lease"}
        /\ UNCHANGED <<policy, revoking, current, heldBy, deskLease, requests, enders, sessionIds, tokens>>
    BY DEF ControlInv, ControlTypes, LinksInv, claim_for, At
  <1>2. CASE RefuseBatch(p)
    BY <1>1, <1>2, RefuseStep
  <1>3. CASE /\ check(Who(p)) /\ ownership' = [ownership EXCEPT !.inbound = Who(p)]
             /\ inbound' = [inbound EXCEPT ![p] = b] /\ queue' = queue
    <2>1. /\ b \in Inbounds /\ b.id = inbound[p].id /\ b.pc = "claimed" /\ b.open = inbound[p].open
          /\ b.batch = inbound[p].batch /\ b.reply = inbound[p].reply /\ b.claim
      BY <1>1 DEF Inbounds
    <2>2. /\ inbound[p].open /\ inbound[p].batch = "open" /\ inbound[p].reply = "none"
          /\ current[p] = inbound[p].id /\ inbound[p].id # 0
      BY <1>1 DEF OneLink
    <2>3. \A i \in 1..Len(queue) : IsCommand(i) => queue[i].id # inbound[p].id
      BY <1>1, NothingOnItsWay
    <2>4. /\ ownership'.inbound = Who(p) /\ ownership'.lease = ownership.lease
          /\ DOMAIN ownership' = {"outbound", "inbound", "lease"} /\ ownership.inbound \in {<<>>, Who(p)}
      BY <1>1, <1>3 DEF check
    <2> HIDE DEF b
    <2>5. current' = [current EXCEPT ![p] = b.id]
      BY <1>1, <2>1, <2>2
    <2>6. Frame(p, b) /\ OwnerMoves(p, b) /\ CommandsFit(b)
      BY <1>1, <1>3, <2>1, <2>2, <2>3, <2>4, <2>5 DEF Frame, OwnerMoves, CommandsFit
    <2>7. \A x : Owns(x) => Owns(x)'
      BY <2>4 DEF Owns
    <2> QED  BY <1>3, <2>1, <2>6, <2>7, FrameQuiet
  <1>4. \/ RefuseBatch(p)
        \/ /\ check(Who(p)) /\ ownership' = [ownership EXCEPT !.inbound = Who(p)]
           /\ inbound' = [inbound EXCEPT ![p] = b] /\ queue' = queue
    BY <1>1 DEF claim_for, ControlInv, ControlTypes
  <1> QED  BY <1>2, <1>3, <1>4

(* A batch of a link with a claim goes to the injector.                      *)
LEMMA SendStep ==
  ASSUME ControlInv, NEW p \in Controllers, inbound[p].pc \in {"claimed", "idle"}, inbound[p].open,
         NEW batch \in {"open", "press", "close"},
         queue' = Append(queue, [kind |-> batch, id |-> inbound[p].id]),
         inbound' = [inbound EXCEPT ![p] = [inbound[p] EXCEPT !.pc = "sent", !.batch = batch]],
         p \in policy \/ inbound[p].pc = "idle", ~revoking,
         UNCHANGED <<policy, revoking, ownership, current, heldBy, deskLease, requests, enders, sessionIds, tokens>>
  PROVE  ControlInv'
  <1> DEFINE b == [inbound[p] EXCEPT !.pc = "sent", !.batch = batch]
             e == [kind |-> batch, id |-> inbound[p].id]
  <1>1. /\ inbound[p] \in Inbounds /\ OneLink(p) /\ current \in [Controllers -> Nat]
        /\ DOMAIN ownership = {"outbound", "inbound", "lease"}
    BY DEF ControlInv, ControlTypes, LinksInv
  <1>2. /\ b \in Inbounds /\ b.id = inbound[p].id /\ b.pc = "sent" /\ b.open = inbound[p].open
        /\ b.batch = batch /\ b.reply = inbound[p].reply /\ b.claim = inbound[p].claim
        /\ b.closing = inbound[p].closing
    BY <1>1 DEF Inbounds
  <1>3. /\ inbound[p].reply = "none" /\ current[p] = inbound[p].id /\ inbound[p].id # 0 /\ inbound[p].claim
    BY <1>1 DEF OneLink
  <1>4. p \notin policy => inbound[p].closing
    BY <1>3 DEF ControlInv, RevokedLosesControl
  <1>5. \A i \in 1..Len(queue) : IsCommand(i) => queue[i].id # inbound[p].id
    BY NothingOnItsWay
  <1>6. inbound' = [inbound EXCEPT ![p] = b] /\ queue' = Append(queue, e)
    OBVIOUS
  <1>7. e \in Commands /\ e.kind = batch /\ e.id = inbound[p].id
    <2>1. inbound[p].id \in Nat
      BY <1>1 DEF Inbounds
    <2> QED  BY <2>1 DEF Commands
  <1> HIDE DEF b, e
  <1>8. current' = [current EXCEPT ![p] = b.id]
    BY <1>1, <1>2, <1>3
  <1>9. Frame(p, b)
    BY <1>1, <1>2, <1>3, <1>4, <1>6, <1>8 DEF Frame
  <1>10. /\ e.id = b.id /\ e.kind = b.batch /\ e.kind # "release" /\ b.reply = "none" /\ b.claim
         /\ (b.claim <=> inbound[p].claim) /\ ownership'.inbound = ownership.inbound
         /\ \A i \in 1..Len(queue) : IsCommand(i) => queue[i].id # b.id
    BY <1>2, <1>3, <1>5, <1>7
  <1> QED  BY <1>2, <1>6, <1>7, <1>9, <1>10, FrameSends

LEMMA TakeControlStep ==
  ASSUME ControlInv, NEW p \in Controllers, take_control(p)
  PROVE  ControlInv'
  <1>1. /\ inbound \in [Controllers -> Inbounds] /\ OneLink(p) /\ inbound[p].pc = "claimed" /\ ~revoking
        /\ UNCHANGED <<policy, revoking, current, heldBy, deskLease, requests, enders, sessionIds, tokens>>
    BY DEF ControlInv, ControlTypes, LinksInv, take_control, At
  <1>2. inbound[p].open /\ inbound[p].batch = "open" /\ inbound[p] \in Inbounds
    BY <1>1 DEF OneLink
  <1>3. CASE RefuseBatch(p)
    BY <1>1, <1>3, RefuseStep
  <1>4. CASE Recheck(p) /\ SendBatch(p)
    <2>1. [inbound[p] EXCEPT !.pc = "sent", !.batch = "open"] = [inbound[p] EXCEPT !.pc = "sent"]
      BY <1>2 DEF Inbounds
    <2>2. inbound' = [inbound EXCEPT ![p] = [inbound[p] EXCEPT !.pc = "sent", !.batch = "open"]]
      BY <1>4, <2>1 DEF SendBatch
    <2>3. queue' = Append(queue, [kind |-> "open", id |-> inbound[p].id]) /\ ownership' = ownership /\ p \in policy
      BY <1>2, <1>4 DEF SendBatch, Recheck, Admitted
    <2> QED  BY <1>1, <1>2, <2>2, <2>3, SendStep
  <1> QED  BY <1>3, <1>4 DEF take_control

LEMMA EffectsStep ==
  ASSUME ControlInv, NEW p \in Controllers, NEW batch \in {"press", "close"}, Effects(p, batch)
  PROVE  ControlInv'
  <1>1. /\ inbound[p].pc = "idle" /\ ~revoking /\ inbound[p].open
        /\ UNCHANGED <<policy, revoking, current, heldBy, deskLease, requests, enders, sessionIds, tokens>>
    BY DEF Effects, At
  <1>2. CASE RefuseBatch(p)
    BY <1>1, <1>2, RefuseStep
  <1>3. CASE ~RefuseBatch(p)
    <2>1. /\ queue' = Append(queue, [kind |-> batch, id |-> inbound[p].id])
          /\ inbound' = [inbound EXCEPT ![p] = [inbound[p] EXCEPT !.pc = "sent", !.batch = batch]]
          /\ ownership' = ownership
      BY <1>3 DEF Effects, ControlInv, ControlTypes
    <2> QED  BY <1>1, <2>1, SendStep
  <1> QED  BY <1>2, <1>3

(* The answer: after an applied close nothing of the session is down or on    *)
(* its way, so its claim can go without a release.                           *)
LEMMA AnsweredStep ==
  ASSUME ControlInv, NEW p \in Controllers, Answered(p)
  PROVE  ControlInv'
  <1> DEFINE b == [inbound[p] EXCEPT !.pc = "idle", !.reply = "none", !.open = @ /\ inbound[p].batch # "close"]
             c == [b EXCEPT !.claim = FALSE]
  <1>1. /\ inbound[p] \in Inbounds /\ OneLink(p) /\ current \in [Controllers -> Nat]
        /\ DOMAIN ownership = {"outbound", "inbound", "lease"}
        /\ inbound[p].pc = "sent" /\ inbound[p].reply # "none"
        /\ UNCHANGED <<policy, revoking, current, heldBy, deskLease, requests, enders, sessionIds, tokens>>
    BY DEF ControlInv, ControlTypes, LinksInv, Answered, At
  <1>2. /\ b \in Inbounds /\ b.id = inbound[p].id /\ b.pc = "idle" /\ b.reply = "none"
        /\ (b.open <=> inbound[p].open /\ inbound[p].batch # "close") /\ b.batch = inbound[p].batch
        /\ b.claim = inbound[p].claim /\ b.closing = inbound[p].closing
    BY <1>1 DEF Inbounds
  <1>3. /\ c \in Inbounds /\ c.id = b.id /\ c.pc = "idle" /\ c.reply = "none" /\ (c.open <=> b.open) /\ ~c.claim
    BY <1>2 DEF Inbounds
  <1>4. current[p] = inbound[p].id /\ inbound[p].id # 0 /\ (inbound[p].claim <=> inbound[p].open)
    BY <1>1 DEF OneLink
  <1>5. \A i \in 1..Len(queue) : IsCommand(i) => queue[i].id # inbound[p].id
    BY <1>1, NothingOnItsWay
  <1>6. CASE RefuseBatch(p)
    BY <1>1, <1>6, RefuseStep
  <1>7. CASE /\ inbound[p].reply = "ok" /\ b.batch = "close" /\ b.claim
             /\ ownership' = [ownership EXCEPT !.inbound = <<>>]
             /\ inbound' = [inbound EXCEPT ![p] = c] /\ queue' = queue
    <2> HIDE DEF b, c
    <2>1. ownership'.inbound = <<>> /\ ownership'.lease = ownership.lease
          /\ DOMAIN ownership' = {"outbound", "inbound", "lease"}
      BY <1>1, <1>7
    <2>2. current' = [current EXCEPT ![p] = c.id]
      BY <1>1, <1>2, <1>3, <1>4
    <2>3. Frame(p, c) /\ OwnerMoves(p, c) /\ CommandsFit(c)
      BY <1>1, <1>2, <1>3, <1>4, <1>5, <1>7, <2>1, <2>2 DEF Frame, OwnerMoves, CommandsFit
    <2>4. heldBy # inbound[p].id
      BY <1>1, <1>2, <1>7 DEF ControlInv, CommandsInv
    <2>5. \A k \in 1..Len(queue) : queue[k].kind = "press" => queue[k].id # inbound[p].id
      BY <1>5 DEF IsCommand
    <2>6. \A x : Owns(x) => x = inbound[p].id
      <3>1. ownership.inbound = Who(p)
        BY <1>2, <1>7 DEF ControlInv, LinksInv
      <3>2. Who(p)[2] = inbound[p].id
        BY PairsDiffer DEF Who
      <3> QED  BY <3>1, <3>2 DEF Owns
    <2> QED  BY <1>3, <1>7, <2>3, <2>4, <2>5, <2>6, FrameQuiet
  <1>8. CASE /\ inbound[p].reply = "ok" /\ ~(b.batch = "close" /\ b.claim)
             /\ inbound' = [inbound EXCEPT ![p] = b] /\ UNCHANGED <<queue, ownership>>
    <2> HIDE DEF b, c
    <2>1. current' = [current EXCEPT ![p] = b.id]
      BY <1>1, <1>2, <1>4
    <2>2. b.claim <=> b.open
      BY <1>2, <1>4, <1>8
    <2>3. p \notin policy /\ b.claim => b.closing \/ revoking
      BY <1>1, <1>2 DEF ControlInv, RevokedLosesControl
    <2> QED  BY <1>1, <1>2, <1>5, <1>8, <2>1, <2>2, <2>3, QuietStep
  <1>9. \/ RefuseBatch(p)
        \/ /\ inbound[p].reply = "ok" /\ b.batch = "close" /\ b.claim
           /\ ownership' = [ownership EXCEPT !.inbound = <<>>]
           /\ inbound' = [inbound EXCEPT ![p] = c] /\ queue' = queue
        \/ /\ inbound[p].reply = "ok" /\ ~(b.batch = "close" /\ b.claim)
           /\ inbound' = [inbound EXCEPT ![p] = b] /\ UNCHANGED <<queue, ownership>>
    <2>1. inbound[p].reply \in {"ok", "failed"}
      BY <1>1 DEF Inbounds
    <2> HIDE DEF RefuseBatch
    <2>2. CASE inbound[p].reply = "failed"
      BY <2>2 DEF Answered
    <2>3. CASE inbound[p].reply = "ok" /\ b.batch = "close" /\ b.claim
      BY <2>3 DEF Answered
    <2>4. CASE inbound[p].reply = "ok" /\ ~(b.batch = "close" /\ b.claim)
      BY <2>4 DEF Answered
    <2> QED  BY <2>1, <2>2, <2>3, <2>4
  <1> QED  BY <1>6, <1>7, <1>8, <1>9

(* The link drops its Inbound, and then its session.                         *)
LEMMA DropStep ==
  ASSUME ControlInv, NEW p \in Controllers, DropInbound(p)
  PROVE  ControlInv'
  <1> DEFINE d == [inbound[p] EXCEPT !.pc = "dropped", !.open = FALSE, !.reply = "none"]
             c == [d EXCEPT !.claim = FALSE]
             b == [inbound[p] EXCEPT !.pc = "removed"]
  <1>1. /\ inbound[p] \in Inbounds /\ OneLink(p) /\ inbound \in [Controllers -> Inbounds]
        /\ UNCHANGED <<policy, revoking, heldBy, deskLease, requests, enders, sessionIds, tokens>>
    BY DEF ControlInv, ControlTypes, LinksInv, DropInbound
  <1>2. CASE inbound[p].pc \in {"idle", "sent", "ended"} /\ release_claim(p, d) /\ UNCHANGED current
    <2>1. c \in Inbounds /\ c.id = inbound[p].id /\ c.pc = "dropped" /\ ~c.open /\ ~c.claim
      BY <1>1 DEF Inbounds
    <2>2. inbound' = [inbound EXCEPT ![p] = c]
      BY <1>2 DEF release_claim
    <2> HIDE DEF c
    <2> QED  BY <1>1, <1>2, <2>1, <2>2, LetsGoStep DEF release_claim
  <1>3. CASE /\ inbound[p].pc = "dropped" /\ current' = [current EXCEPT ![p] = 0]
             /\ inbound' = [inbound EXCEPT ![p] = b] /\ UNCHANGED <<queue, ownership>>
    <2>1. b \in Inbounds /\ b.id = inbound[p].id /\ b.pc = "removed" /\ b.claim = inbound[p].claim
      BY <1>1 DEF Inbounds
    <2>2. ~inbound[p].claim
      BY <1>1, <1>3 DEF OneLink
    <2> HIDE DEF b
    <2> QED  BY <1>1, <1>3, <2>1, <2>2, QuietStep
  <1>4. \/ inbound[p].pc \in {"idle", "sent", "ended"} /\ release_claim(p, d) /\ UNCHANGED current
        \/ /\ inbound[p].pc = "dropped" /\ current' = [current EXCEPT ![p] = 0]
           /\ inbound' = [inbound EXCEPT ![p] = b] /\ UNCHANGED <<queue, ownership>>
    BY <1>1 DEF DropInbound, At
  <1> QED  BY <1>2, <1>3, <1>4

(* A new session of a link has an id that nothing knows yet.                 *)
LEMMA StartStep ==
  ASSUME ControlInv, NEW p \in Controllers, StartInbound(p)
  PROVE  ControlInv'
  <1> USE DEF ControlInv
  <1> DEFINE n == sessionIds + 1
             b == [NoInbound EXCEPT !.id = n, !.pc = "idle"]
  <1>1. /\ inbound[p] \in Inbounds /\ inbound[p].pc = "gone" /\ inbound[p].id = 0 /\ ~inbound[p].claim
        /\ inbound \in [Controllers -> Inbounds] /\ current \in [Controllers -> Nat]
        /\ n \in Nat /\ n # 0 /\ n > sessionIds /\ sessionIds \in Nat
    BY DEF ControlTypes, LinksInv, OneLink, StartInbound, At
  <1>2. /\ b \in Inbounds /\ b.id = n /\ b.pc = "idle" /\ ~b.open /\ b.reply = "none" /\ ~b.claim
    BY <1>1 DEF NoInbound, Inbounds
  <1>3. /\ inbound' = [inbound EXCEPT ![p] = b] /\ current' = [current EXCEPT ![p] = n] /\ sessionIds' = n
        /\ UNCHANGED <<policy, revoking, ownership, queue, heldBy, deskLease, requests, enders, tokens>>
    BY DEF StartInbound
  <1> HIDE DEF b, n
  <1>4. /\ inbound' \in [Controllers -> Inbounds] /\ inbound'[p] = b /\ current'[p] = n
        /\ current' \in [Controllers -> Nat]
        /\ \A q \in Controllers : q # p => inbound'[q] = inbound[q] /\ current'[q] = current[q]
    BY <1>1, <1>2, <1>3
  <1>5. ControlTypes'
    BY <1>1, <1>3, <1>4 DEF ControlTypes
  <1>6. \A q \in Controllers : inbound[q].id <= sessionIds /\ inbound[q].id # n
    <2>1. \A q \in Controllers : inbound[q].id <= sessionIds /\ inbound[q].id \in Nat
      BY <1>1 DEF LinksInv, OneLink, Inbounds
    <2> QED  BY <1>1, <2>1
  <1>7. LinksInv'
    <2>1. ASSUME NEW q \in Controllers PROVE OneLink(q)'
      <3>1. CASE q = p
        BY <1>1, <1>2, <1>3, <1>4, <3>1 DEF OneLink
      <3>2. CASE q # p
        <4>1. OneLink(q) /\ inbound'[q] = inbound[q] /\ current'[q] = current[q] /\ inbound[q].id \in Nat
          BY <1>1, <1>4, <3>2 DEF LinksInv, Inbounds
        <4>2. inbound[q].id <= n
          BY <1>1, <1>6, <4>1
        <4> QED  BY <1>3, <4>1, <4>2 DEF OneLink
      <3> QED  BY <3>1, <3>2
    <2>2. \A q, r \in Controllers : inbound'[q].id = inbound'[r].id /\ inbound'[q].id # 0 => q = r
      BY <1>2, <1>4, <1>6 DEF LinksInv
    <2>3. \A q \in Controllers : q # p => Who(q)' = Who(q)
      BY <1>4 DEF Who
    <2>4. ownership.inbound # Who(p)
      BY <1>1 DEF LinksInv
    <2>5. ownership.inbound # Who(p)'
      <3>1. CASE ownership.inbound = <<>>
        BY <3>1, PairsDiffer DEF Who
      <3>2. CASE \E q \in Controllers : ownership.inbound = Who(q)
        <4>1. PICK q \in Controllers : ownership.inbound = Who(q)
          BY <3>2
        <4>2. Who(q)[2] = inbound[q].id /\ Who(p)'[2] = n
          BY <1>2, <1>4, PairsDiffer DEF Who
        <4> QED  BY <1>6, <4>1, <4>2
      <3> QED  BY <3>1, <3>2 DEF LinksInv
    <2>6. \A q \in Controllers : inbound'[q].claim <=> ownership'.inbound = Who(q)'
      BY <1>2, <1>3, <1>4, <2>3, <2>5 DEF LinksInv
    <2>7. ownership'.inbound = <<>> \/ \E q \in Controllers : ownership'.inbound = Who(q)'
      BY <1>3, <2>3, <2>4 DEF LinksInv
    <2> QED  BY <2>1, <2>2, <2>6, <2>7 DEF LinksInv
  <1>8. RevokedLosesControl'
    BY <1>2, <1>3, <1>4 DEF RevokedLosesControl
  <1>9. DeskInv'
    <2>1. \A l \in Leases : l.p \in Controllers /\ l.id # 0
      BY DEF Leases
    <2> QED  BY <1>1, <1>3, <1>4, <2>1 DEF DeskInv
  <1>10. CommandsInv'
    <2>1. \A i \in 1..Len(queue) : IsCommand(i)' <=> IsCommand(i)
      BY <1>3 DEF IsCommand
    <2>2. \A i \in 1..Len(queue) : IsCommand(i) => /\ queue[i].id # 0 /\ queue[i].id \in Nat
                                                    /\ queue[i].id <= n /\ queue[i].id # n
      <3>1. \A c \in Commands : c.id \in Nat
        BY DEF Commands, Release
      <3>2. \A i \in 1..Len(queue) : queue[i] \in Commands
        BY DEF ControlTypes
      <3> QED  BY <1>1, <3>1, <3>2 DEF CommandsInv
    <2>3. \A i \in 1..Len(queue) : \A q \in Controllers :
            IsCommand(i) /\ queue[i].id = inbound'[q].id =>
              \/ inbound'[q].pc \in {"dropped", "removed"}
              \/ inbound'[q].pc = "sent" /\ inbound'[q].reply = "none" /\ inbound'[q].batch = queue[i].kind
      BY <1>2, <1>4, <2>2 DEF CommandsInv
    <2>4. \A q \in Controllers :
            inbound'[q].pc = "sent" /\ inbound'[q].reply = "ok" /\ inbound'[q].batch = "close" =>
              heldBy' # inbound'[q].id
      BY <1>2, <1>3, <1>4 DEF CommandsInv
    <2>5. \A i, j \in 1..Len(queue) : IsCommand(i) /\ IsCommand(j) /\ queue[i].id = queue[j].id => i = j
      BY DEF CommandsInv
    <2> QED  BY <1>3, <2>1, <2>2, <2>3, <2>4, <2>5 DEF CommandsInv
  <1>11. PressesInv'
    <2>1. \A x : Owns(x) => Owns(x)'
      BY <1>3 DEF Owns
    <2> QED  BY <1>3, <2>1, SafeOwner
  <1> QED  BY <1>5, <1>7, <1>8, <1>9, <1>10, <1>11

(* The handoff ends with its session: nothing of it is reserved any more.     *)
LEMMA HandoffClosedStep ==
  ASSUME ControlInv, NEW p \in Controllers, handoff_closed(p)
  PROVE  ControlInv'
  <1> USE DEF ControlInv
  <1> DEFINE ls == {l \in deskLease : l.p = p /\ l.id = inbound[p].id}
  <1>1. /\ inbound \in [Controllers -> Inbounds] /\ inbound[p].pc = "removed" /\ OneLink(p)
        /\ ~inbound[p].claim /\ current[p] = 0 /\ current \in [Controllers -> Nat]
    BY DEF ControlTypes, LinksInv, OneLink, handoff_closed, At
  <1>2. /\ inbound' = [inbound EXCEPT ![p] = NoInbound] /\ TakeLease(ls)
        /\ queue' = (IF ls = {} THEN queue ELSE PushRelease)
        /\ UNCHANGED <<policy, revoking, current, heldBy, requests, enders, sessionIds, tokens>>
    BY DEF handoff_closed
  <1>3. /\ NoInbound \in Inbounds /\ NoInbound.id = 0 /\ NoInbound.pc = "gone" /\ ~NoInbound.claim
        /\ ~NoInbound.open /\ NoInbound.reply = "none"
    BY DEF NoInbound, Inbounds
  <1>4. /\ inbound' \in [Controllers -> Inbounds] /\ inbound'[p] = NoInbound
        /\ \A q \in Controllers : q # p => inbound'[q] = inbound[q]
    BY <1>1, <1>2, <1>3
  <1>5. ls = {} \/ ls = deskLease
    BY DEF DeskInv
  <1>6. /\ DOMAIN ownership' = DOMAIN ownership /\ ownership'.inbound = ownership.inbound
        /\ ownership'.lease = (IF ls = {} THEN ownership.lease ELSE <<>>)
        /\ deskLease' = deskLease \ ls
    BY <1>2 DEF TakeLease, ControlTypes
  <1>7. DeskInv'
    <2>1. CASE ls = {}
      <3>1. \A l \in deskLease : l \in Leases => l.p # p \/ l.id # inbound[p].id
        BY <2>1
      <3>2. \A l \in Leases : l.p \in Controllers
        BY DEF Leases
      <3> HIDE DEF ls
      <3>3. deskLease' = deskLease /\ ownership'.lease = ownership.lease
        BY <1>6, <2>1
      <3>4. CASE deskLease = {} /\ ownership.lease = <<>>
        BY <3>3, <3>4 DEF DeskInv
      <3>5. CASE \E l \in deskLease : l \in Leases /\ deskLease = {l} /\ ownership.lease = <<l.p, l.id>> /\ inbound[l.p].id = l.id
        <4>1. PICK l \in deskLease : l \in Leases /\ deskLease = {l} /\ ownership.lease = <<l.p, l.id>> /\ inbound[l.p].id = l.id
          BY <3>5
        <4>2. inbound'[l.p].id = l.id
          BY <1>4, <3>1, <3>2, <4>1
        <4> QED  BY <3>3, <4>1, <4>2 DEF DeskInv
      <3> QED  BY <3>4, <3>5 DEF DeskInv
    <2>2. CASE ls # {}
      <3> HIDE DEF ls
      <3> QED  BY <1>5, <1>6, <2>2 DEF DeskInv
    <2> QED  BY <2>1, <2>2
  <1> HIDE DEF ls
  <1>8. queue \in Seq(Commands) /\ PushRelease \in Seq(Commands)
    BY ReleaseIsLast DEF ControlTypes
  <1>9. ControlTypes'
    BY <1>2, <1>4, <1>6, <1>8 DEF ControlTypes
  <1>10. LinksInv'
    <2>1. ASSUME NEW q \in Controllers PROVE OneLink(q)'
      <3>1. CASE q = p
        <4>1. 0 <= sessionIds
          BY DEF ControlTypes
        <4> QED  BY <1>1, <1>2, <1>3, <1>4, <3>1, <4>1 DEF OneLink
      <3>2. CASE q # p
        <4>1. OneLink(q) /\ inbound'[q] = inbound[q]
          BY <1>4, <3>2 DEF LinksInv
        <4> QED  BY <1>2, <4>1 DEF OneLink
      <3> QED  BY <3>1, <3>2
    <2>2. \A q, r \in Controllers : inbound'[q].id = inbound'[r].id /\ inbound'[q].id # 0 => q = r
      BY <1>3, <1>4 DEF LinksInv
    <2>3. \A q \in Controllers : q # p => Who(q)' = Who(q)
      BY <1>4 DEF Who
    <2>4. ownership.inbound # Who(p)
      BY <1>1 DEF LinksInv
    <2>5. ownership.inbound # Who(p)'
      <3>1. CASE ownership.inbound = <<>>
        BY <3>1, PairsDiffer DEF Who
      <3>2. CASE \E q \in Controllers : ownership.inbound = Who(q)
        <4>1. PICK q \in Controllers : ownership.inbound = Who(q)
          BY <3>2
        <4>2. Who(q)[1] = q /\ Who(p)'[1] = p
          BY PairsDiffer DEF Who
        <4> QED  BY <2>4, <4>1, <4>2
      <3> QED  BY <3>1, <3>2 DEF LinksInv
    <2>6. \A q \in Controllers : inbound'[q].claim <=> ownership'.inbound = Who(q)'
      BY <1>3, <1>4, <1>6, <2>3, <2>5 DEF LinksInv
    <2>7. ownership'.inbound = <<>> \/ \E q \in Controllers : ownership'.inbound = Who(q)'
      BY <1>6, <2>3, <2>4 DEF LinksInv
    <2> QED  BY <2>1, <2>2, <2>6, <2>7 DEF LinksInv
  <1>11. RevokedLosesControl'
    BY <1>2, <1>3, <1>4 DEF RevokedLosesControl
  <1>12. CommandsInv'
    <2>1. \A i \in 1..Len(queue') : IsCommand(i)' => i \in 1..Len(queue) /\ IsCommand(i) /\ queue'[i] = queue[i]
      <3>1. CASE queue' = queue
        BY <3>1 DEF IsCommand
      <3>2. CASE queue' = PushRelease
        <4>1. /\ Len(queue') \in {Len(queue), Len(queue) + 1} /\ Len(queue) \in Nat
              /\ queue'[Len(queue')] = Release /\ \A i \in 1..Len(queue) : queue'[i] = queue[i]
          BY <1>8, <3>2, ReleaseIsLast
        <4> QED  BY <4>1, ReleaseIsCommand DEF IsCommand
      <3> QED  BY <1>2, <3>1, <3>2
    <2>2. \A i \in 1..Len(queue') : IsCommand(i)' => queue'[i].id # 0 /\ queue'[i].id <= sessionIds'
      BY <1>2, <2>1 DEF CommandsInv
    <2>3. \A i \in 1..Len(queue') : \A q \in Controllers :
            IsCommand(i)' /\ queue'[i].id = inbound'[q].id =>
              \/ inbound'[q].pc \in {"dropped", "removed"}
              \/ inbound'[q].pc = "sent" /\ inbound'[q].reply = "none" /\ inbound'[q].batch = queue'[i].kind
      <3> SUFFICES ASSUME NEW i \in 1..Len(queue'), NEW q \in Controllers, IsCommand(i)', queue'[i].id = inbound'[q].id
                   PROVE  \/ inbound'[q].pc \in {"dropped", "removed"}
                          \/ inbound'[q].pc = "sent" /\ inbound'[q].reply = "none" /\ inbound'[q].batch = queue'[i].kind
        OBVIOUS
      <3>1. q # p /\ inbound'[q] = inbound[q] /\ i \in 1..Len(queue) /\ IsCommand(i) /\ queue'[i] = queue[i]
        BY <1>3, <1>4, <2>1, <2>2
      <3> QED  BY <3>1 DEF CommandsInv
    <2>4. \A q \in Controllers :
            inbound'[q].pc = "sent" /\ inbound'[q].reply = "ok" /\ inbound'[q].batch = "close" =>
              heldBy' # inbound'[q].id
      BY <1>2, <1>3, <1>4 DEF CommandsInv
    <2>5. \A i, j \in 1..Len(queue') : IsCommand(i)' /\ IsCommand(j)' /\ queue'[i].id = queue'[j].id => i = j
      BY <2>1 DEF CommandsInv
    <2> QED  BY <2>2, <2>3, <2>4, <2>5 DEF CommandsInv
  <1>13. PressesInv'
    <2>1. \A x : Owns(x) => Owns(x)'
      BY <1>6 DEF Owns
    <2>2. CASE queue' = queue
      BY <1>2, <2>1, <2>2, SafeOwner
    <2>3. CASE queue' = PushRelease
      BY <1>2, <2>3, SafeRelease
    <2> QED  BY <1>2, <2>2, <2>3
  <1> QED  BY <1>7, <1>9, <1>10, <1>11, <1>12, <1>13

(* The injector takes a command, and its session's link gets the answer.      *)
LEMMA InjectorStep ==
  ASSUME ControlInv, InjectorTakes
  PROVE  ControlInv'
  <1> USE DEF ControlInv
  <1> DEFINE c == Head(queue)
             answer(r) == [p \in Controllers |-> IF inbound[p].id = c.id /\ inbound[p].pc = "sent"
                                                 THEN [inbound[p] EXCEPT !.reply = r] ELSE inbound[p]]
  <1>1. /\ queue \in Seq(Commands) /\ queue # <<>> /\ queue' = Tail(queue)
        /\ UNCHANGED <<policy, revoking, ownership, current, deskLease, requests, enders, sessionIds, tokens>>
        /\ inbound \in [Controllers -> Inbounds]
    BY DEF InjectorTakes, ControlTypes
  <1>2. /\ Len(queue) \in Nat /\ queue' \in Seq(Commands) /\ Len(queue') = Len(queue) - 1
        /\ Len(queue) >= 1 /\ c = queue[1] /\ \A i \in 1..Len(queue') : queue'[i] = queue[i + 1]
    BY <1>1, HeadTailProperties, EmptySeq, LenProperties
  <1>3. c \in Commands /\ (c.kind = "release" => c.id = 0) /\ c.id \in Nat
    <2>1. queue[1] \in Commands
      BY <1>1, <1>2
    <2> QED  BY <1>2, <2>1 DEF Commands, Release
  <1>4. PICK r \in {"ok", "failed"} :
          /\ inbound' = answer(r)
          /\ heldBy' = IF r = "ok" /\ c.kind = "press" THEN c.id ELSE 0
    <2>1. \/ inbound' = answer("ok") /\ heldBy' = (IF c.kind = "press" THEN c.id ELSE 0)
          \/ inbound' = answer("failed") /\ heldBy' = 0
      BY DEF InjectorTakes, At
    <2> HIDE DEF c, answer
    <2> QED  BY <2>1
  <1>5. ASSUME NEW p \in Controllers
        PROVE  /\ inbound'[p] \in Inbounds /\ inbound'[p].id = inbound[p].id /\ inbound'[p].pc = inbound[p].pc
               /\ inbound'[p].claim = inbound[p].claim /\ inbound'[p].open = inbound[p].open
               /\ inbound'[p].batch = inbound[p].batch /\ inbound'[p].closing = inbound[p].closing
               /\ inbound'[p].reply = IF inbound[p].id = c.id /\ inbound[p].pc = "sent" THEN r ELSE inbound[p].reply
    <2>1. inbound[p] \in Inbounds
      BY <1>1
    <2>2. inbound'[p] = IF inbound[p].id = c.id /\ inbound[p].pc = "sent"
                        THEN [inbound[p] EXCEPT !.reply = r] ELSE inbound[p]
      BY <1>4
    <2> HIDE DEF c
    <2>3. CASE inbound[p].id = c.id /\ inbound[p].pc = "sent"
      BY <2>1, <2>2, <2>3 DEF Inbounds
    <2>4. CASE ~(inbound[p].id = c.id /\ inbound[p].pc = "sent")
      BY <2>1, <2>2, <2>4
    <2> QED  BY <2>3, <2>4
  <1>6. inbound' \in [Controllers -> Inbounds]
    BY <1>4, <1>5
  <1> HIDE DEF c, answer
  <1>7. ControlTypes'
    BY <1>1, <1>2, <1>3, <1>4, <1>6 DEF ControlTypes
  <1>8. LinksInv'
    <2>1. \A q \in Controllers : OneLink(q)' /\ Who(q)' = Who(q)
      BY <1>1, <1>5 DEF LinksInv, OneLink, Who
    <2> QED  BY <1>1, <1>5, <2>1 DEF LinksInv
  <1>9. RevokedLosesControl'
    BY <1>1, <1>5 DEF RevokedLosesControl
  <1>10. DeskInv'
    <2>1. \A l \in Leases : l.p \in Controllers
      BY DEF Leases
    <2> QED  BY <1>1, <1>5, <2>1 DEF DeskInv
  <1>11. CommandsInv'
    <2>1. \A i \in 1..Len(queue') : /\ i + 1 \in 1..Len(queue) /\ queue'[i] = queue[i + 1]
                                    /\ IsCommand(i)' => IsCommand(i + 1)
      BY <1>2 DEF IsCommand
    <2>2. \A i \in 1..Len(queue') : IsCommand(i)' => queue'[i].id # 0 /\ queue'[i].id <= sessionIds'
      BY <1>1, <2>1 DEF CommandsInv
    <2>3. ASSUME NEW i \in 1..Len(queue'), NEW q \in Controllers, IsCommand(i)', queue'[i].id = inbound'[q].id
          PROVE  \/ inbound'[q].pc \in {"dropped", "removed"}
                 \/ inbound'[q].pc = "sent" /\ inbound'[q].reply = "none" /\ inbound'[q].batch = queue'[i].kind
      <3>1. CASE inbound[q].id = c.id
        <4>1. c.kind # "release"
          BY <1>3, <1>5, <2>2, <2>3, <3>1
        <4>2. IsCommand(1) /\ 1 \in 1..Len(queue) /\ queue[1].id = queue[i + 1].id /\ i + 1 # 1
          BY <1>2, <1>5, <2>1, <2>3, <3>1, <4>1 DEF IsCommand
        <4> QED  BY <2>1, <2>3, <4>2 DEF CommandsInv
      <3>2. CASE inbound[q].id # c.id
        <4>1. queue[i + 1].id = inbound[q].id /\ IsCommand(i + 1) /\ i + 1 \in 1..Len(queue)
          BY <1>5, <2>1, <2>3
        <4> QED  BY <1>5, <2>1, <3>2, <4>1 DEF CommandsInv
      <3> QED  BY <3>1, <3>2
    <2>4. \A i, j \in 1..Len(queue') : IsCommand(i)' /\ IsCommand(j)' /\ queue'[i].id = queue'[j].id => i = j
      <3> SUFFICES ASSUME NEW i \in 1..Len(queue'), NEW j \in 1..Len(queue'), IsCommand(i)', IsCommand(j)',
                          queue'[i].id = queue'[j].id
                   PROVE  i = j
        OBVIOUS
      <3>1. i + 1 = j + 1
        BY <2>1 DEF CommandsInv
      <3> QED  BY <3>1
    <2>5. ASSUME NEW q \in Controllers, inbound'[q].pc = "sent", inbound'[q].reply = "ok",
                 inbound'[q].batch = "close"
          PROVE  heldBy' # inbound'[q].id
      <3>1. inbound[q].pc = "sent" /\ inbound[q].batch = "close" /\ inbound'[q].id = inbound[q].id
        BY <1>5, <2>5
      <3>2. inbound[q].id # 0
        BY <3>1 DEF LinksInv, OneLink
      <3>3. CASE inbound[q].id = c.id
        <4>1. IsCommand(1) /\ 1 \in 1..Len(queue) /\ queue[1].id = inbound[q].id /\ queue[1].kind = c.kind
          BY <1>2, <1>3, <3>2, <3>3 DEF IsCommand
        <4>2. c.kind = "close"
          BY <3>1, <4>1 DEF CommandsInv
        <4> QED  BY <1>4, <3>1, <3>2, <4>2
      <3>4. CASE inbound[q].id # c.id
        BY <1>4, <3>1, <3>2, <3>4
      <3> QED  BY <3>3, <3>4
    <2> QED  BY <2>2, <2>3, <2>4, <2>5 DEF CommandsInv
  <1>12. PressesInv'
    <2>1. heldBy' = 0 \/ (Head(queue).kind = "press" /\ heldBy' = Head(queue).id)
      BY <1>4 DEF c
    <2> QED  BY <1>1, <2>1, SafeTake
  <1> QED  BY <1>7, <1>8, <1>9, <1>10, <1>11, <1>12

LEMMA ControlUntouched ==
  ASSUME ControlInv, UNCHANGED macReceiveVars
  PROVE  ControlInv'
  <1> USE DEF ControlInv, macReceiveVars
  <1>1. ControlTypes'
    BY DEF ControlTypes
  <1>2. LinksInv'
    <2>1. \A q \in Controllers : OneLink(q)' /\ Who(q)' = Who(q)
      BY DEF LinksInv, OneLink, Who
    <2> QED  BY <2>1 DEF LinksInv
  <1>3. RevokedLosesControl' /\ DeskInv'
    BY DEF RevokedLosesControl, DeskInv
  <1>4. CommandsInv'
    BY DEF CommandsInv, IsCommand
  <1>5. PressesInv'
    <2>1. \A x : Owns(x) => Owns(x)'
      BY DEF Owns
    <2> QED  BY <2>1, SafeOwner
  <1> QED  BY <1>1, <1>2, <1>3, <1>4, <1>5

LEMMA ControlStep ==
  ASSUME ControlInv, MacReceiveNext
  PROVE  ControlInv'
  <1>1. CASE \/ begin_outbound \/ end_outbound \/ Locks \/ (\E allowed \in SUBSET Controllers : set_peers(allowed))
             \/ (\E p \in Controllers : AskPrepare(p)) \/ (\E r \in requests : prepare(r) \/ Entered(r))
             \/ (\E l \in deskLease : PollLease(l) \/ Pointer(l) \/ (\E close \in BOOLEAN : EndLease(l, close)))
    BY <1>1, BesideStep
  <1>2. CASE revoke \/ watch_lock \/ \E e \in enders : LeaseEnded(e)
    BY <1>2, ClosingStep
  <1>3. CASE InjectorTakes
    BY <1>3, InjectorStep
  <1>4. CASE \E p \in Controllers :
               \/ StartInbound(p) \/ Opens(p) \/ claim_for(p) \/ take_control(p) \/ Answered(p)
               \/ DropInbound(p) \/ handoff_closed(p)
               \/ \E batch \in {"press", "close"} : Effects(p, batch)
    BY <1>4, StartStep, OpensStep, ClaimStep, TakeControlStep, AnsweredStep, DropStep, HandoffClosedStep, EffectsStep
  <1> QED  BY <1>1, <1>2, <1>3, <1>4 DEF MacReceiveNext

(* What the invariant says of control (MacReceive).                          *)
LEMMA ControlIsSafe ==
  ASSUME ControlInv
  PROVE  RevokedLosesControl /\ HeldByController /\ LeaseHasSession
  <1> USE DEF ControlInv
  <1>1. HeldByController
    <2>1. SUFFICES ASSUME heldBy # 0
                   PROVE  \/ Owns(heldBy)
                          \/ \E i \in DOMAIN queue :
                               /\ queue[i] \in {Release, [kind |-> "close", id |-> heldBy]}
                               /\ \A j \in 1..i : queue[j].kind # "press" \/ queue[j].id = heldBy
      BY DEF HeldByController, Owns
    <2>2. CASE Covered(queue, 0, heldBy)
      <3>1. PICK i \in (0 + 1)..Len(queue) :
              /\ queue[i] \in {Release, [kind |-> "close", id |-> heldBy]}
              /\ \A j \in (0 + 1)..i : ~OthersPress(queue, j, heldBy)
        BY <2>2 DEF Covered
      <3>2. DOMAIN queue = 1..Len(queue) /\ 0 + 1 = 1
        BY LenProperties DEF ControlTypes
      <3> QED  BY <3>1, <3>2 DEF OthersPress
    <2> QED  BY <2>1, <2>2 DEF PressesInv, Safe
  <1>2. LeaseHasSession
    <2>1. CASE deskLease = {} /\ ownership.lease = <<>>
      BY <2>1 DEF LeaseHasSession
    <2>2. CASE \E l \in deskLease : l \in Leases /\ deskLease = {l} /\ ownership.lease = <<l.p, l.id>> /\ inbound[l.p].id = l.id
      <3>1. PICK l \in deskLease : deskLease = {l} /\ ownership.lease = <<l.p, l.id>> /\ inbound[l.p].id = l.id
        BY <2>2
      <3>2. <<l.p, l.id>> # <<>>
        BY PairsDiffer
      <3>3. {<<m.p, m.id>> : m \in deskLease} = {<<l.p, l.id>>}
        BY <3>1
      <3> QED  BY <3>1, <3>2, <3>3 DEF LeaseHasSession
    <2> QED  BY <2>1, <2>2 DEF DeskInv
  <1> QED  BY <1>1, <1>2

LEMMA ControlAlways == MCSpec => []ControlHolds
  <1>1. MCInit => ControlHolds
    BY ControlStarts DEF MCInit, ControlHolds
  <1>2. ControlHolds /\ [MCNext]_macsVars => ControlHolds'
    BY OneMacPartRuns, ControlStep, ControlUntouched DEF ControlHolds
  <1> QED  BY <1>1, <1>2, PTL DEF MCSpec, macsVars

-----------------------------------------------------------------------------
Remaps ==
  [mode : KeyboardModes, terminal : BOOLEAN, busy : BOOLEAN, physical : SUBSET Usages,
   deferred : SUBSET Usages, owners : [Usages -> SUBSET Usages], bound : SUBSET Usages]

(* From a remap whose keys in `physical` are down already to one that stays    *)
(* in order; outside the Mac mode nothing is held back.                      *)
Orderly(m, n) ==
  /\ n \in Remaps /\ RemapInv(n) /\ n.mode = m.mode /\ n.physical = m.physical
  /\ m.mode # "Mac" /\ m.deferred = {} => n.deferred = {}

(* The fields of a remap, one by one.                                        *)
LEMMA RemapFields ==
  ASSUME NEW m \in Remaps
  PROVE  /\ m.mode \in KeyboardModes /\ m.terminal \in BOOLEAN /\ m.busy \in BOOLEAN
         /\ m.physical \subseteq Usages /\ m.deferred \subseteq Usages /\ m.bound \subseteq Usages
         /\ m.owners \in [Usages -> SUBSET Usages]
  BY DEF Remaps

(* own_defaults adds owners among the held modifiers.                        *)
LEMMA DefaultsAdd ==
  ASSUME NEW m \in Remaps, NEW hs \in SUBSET m.physical
  PROVE  /\ own_defaults(m, hs) \in Remaps
         /\ own_defaults(m, hs).mode = m.mode /\ own_defaults(m, hs).terminal = m.terminal
         /\ own_defaults(m, hs).busy = m.busy /\ own_defaults(m, hs).physical = m.physical
         /\ own_defaults(m, hs).deferred = m.deferred /\ own_defaults(m, hs).bound = m.bound
         /\ \A u \in Usages : /\ m.owners[u] \subseteq own_defaults(m, hs).owners[u]
                              /\ own_defaults(m, hs).owners[u] \subseteq m.owners[u] \cup hs
  <1> DEFINE f == [u \in Usages |-> m.owners[u] \cup {h \in hs : default_output(m.mode, h) = u}]
  <1>1. /\ m.physical \subseteq Usages /\ m.deferred \subseteq Usages /\ m.bound \subseteq Usages
        /\ m.owners \in [Usages -> SUBSET Usages]
    BY RemapFields
  <1>2. f \in [Usages -> SUBSET Usages]
    <2>1. \A u \in Usages : m.owners[u] \cup {h \in hs : default_output(m.mode, h) = u} \subseteq Usages
      BY <1>1
    <2> QED  BY <2>1
  <1>3. \A u \in Usages : m.owners[u] \subseteq f[u] /\ f[u] \subseteq m.owners[u] \cup hs
    OBVIOUS
  <1>4. own_defaults(m, hs) = [m EXCEPT !.owners = f]
    BY DEF own_defaults
  <1> HIDE DEF f
  <1> QED  BY <1>1, <1>2, <1>3, <1>4 DEF Remaps

(* own adds one owner of one output.                                         *)
LEMMA OwnAdds ==
  ASSUME NEW m \in Remaps, NEW out, NEW key \in Usages
  PROVE  /\ own(m, out, key) \in Remaps
         /\ own(m, out, key).mode = m.mode /\ own(m, out, key).terminal = m.terminal
         /\ own(m, out, key).busy = m.busy /\ own(m, out, key).physical = m.physical
         /\ own(m, out, key).deferred = m.deferred /\ own(m, out, key).bound = m.bound
         /\ \A u \in Usages : /\ m.owners[u] \subseteq own(m, out, key).owners[u]
                              /\ own(m, out, key).owners[u] \subseteq m.owners[u] \cup {key}
  <1> DEFINE f == [m.owners EXCEPT ![out] = @ \cup {key}]
  <1>1. m.owners \in [Usages -> SUBSET Usages]
    BY RemapFields
  <1>2. f \in [Usages -> SUBSET Usages]
    BY <1>1
  <1>3. \A u \in Usages : m.owners[u] \subseteq f[u] /\ f[u] \subseteq m.owners[u] \cup {key}
    BY <1>1
  <1>4. own(m, out, key) = [m EXCEPT !.owners = f]
    BY DEF own
  <1> HIDE DEF f
  <1> QED  BY <1>2, <1>3, <1>4 DEF Remaps

(* set_modifiers gives every modifier owners that are held.                  *)
LEMMA ModifiersSet ==
  ASSUME NEW m \in Remaps, RemapInv(m), NEW consumed, NEW mods, NEW key_mods, NEW key \in m.physical
  PROVE  /\ set_modifiers(m, consumed, mods, key_mods, key) \in Remaps
         /\ set_modifiers(m, consumed, mods, key_mods, key).mode = m.mode
         /\ set_modifiers(m, consumed, mods, key_mods, key).physical = m.physical
         /\ set_modifiers(m, consumed, mods, key_mods, key).deferred = {}
         /\ set_modifiers(m, consumed, mods, key_mods, key).bound = m.bound
         /\ \A u \in Usages : set_modifiers(m, consumed, mods, key_mods, key).owners[u] \subseteq m.physical
  <1> DEFINE held == m.physical \cap Modifiers
             wanted(u) == {h \in held : IF Class[h] \in consumed THEN u \in mods
                                        ELSE u = default_output(m.mode, h)}
                          \cup (IF u \in key_mods THEN {key} ELSE {})
             f == [u \in Usages |-> IF u \in Modifiers THEN wanted(u) ELSE m.owners[u]]
  <1>1. m.physical \subseteq Usages /\ m.owners \in [Usages -> SUBSET Usages]
    BY RemapFields
  <1>2. \A u : wanted(u) \subseteq m.physical
    OBVIOUS
  <1>3. \A u \in Usages : f[u] \subseteq m.physical
    <2> HIDE DEF wanted
    <2> QED  BY <1>2 DEF RemapInv
  <1>4. f \in [Usages -> SUBSET Usages]
    <2> HIDE DEF wanted
    <2>1. \A u \in Usages : (IF u \in Modifiers THEN wanted(u) ELSE m.owners[u]) \subseteq Usages
      BY <1>1, <1>2
    <2> QED  BY <2>1
  <1>5. set_modifiers(m, consumed, mods, key_mods, key) = [m EXCEPT !.deferred = {}, !.owners = f]
    BY DEF set_modifiers
  <1> HIDE DEF f
  <1> QED  BY <1>3, <1>4, <1>5 DEF Remaps

LEMMA PressModifierOrderly ==
  ASSUME NEW m \in Remaps, RemapInv(m), NEW key \in m.physical \cap Modifiers
  PROVE  Orderly(m, press_modifier(m, key))
  <1>1. m.physical \subseteq Usages /\ m.deferred \subseteq Usages /\ m.bound \subseteq Usages
    BY RemapFields
  <1>2. CASE m.mode = "Mac" /\ press_modifier(m, key) = [m EXCEPT !.deferred = @ \cup {key}]
    <2> DEFINE n == [m EXCEPT !.deferred = @ \cup {key}]
    <2>1. /\ n \in Remaps /\ n.mode = m.mode /\ n.physical = m.physical /\ n.owners = m.owners /\ n.bound = m.bound
          /\ n.deferred = m.deferred \cup {key}
      BY <1>1 DEF Remaps
    <2> HIDE DEF n
    <2>2. injected(n) = injected(m)
      BY <2>1 DEF injected
    <2>3. Orderly(m, n)
      BY <1>2, <2>1, <2>2 DEF Orderly, RemapInv
    <2> QED  BY <1>2, <2>3 DEF n
  <1>3. CASE press_modifier(m, key) = own_defaults(m, {key})
    <2> DEFINE n == own_defaults(m, {key})
    <2>1. /\ n \in Remaps /\ n.mode = m.mode /\ n.physical = m.physical /\ n.bound = m.bound
          /\ n.deferred = m.deferred
          /\ \A u \in Usages : m.owners[u] \subseteq n.owners[u] /\ n.owners[u] \subseteq m.owners[u] \cup {key}
      BY DefaultsAdd
    <2> HIDE DEF n
    <2>2. injected(m) \subseteq injected(n)
      BY <2>1 DEF injected
    <2>3. Orderly(m, n)
      BY <2>1, <2>2 DEF Orderly, RemapInv
    <2> QED  BY <1>3, <2>3 DEF n
  <1> QED  BY <1>2, <1>3 DEF press_modifier

LEMMA PressKeyOrderly ==
  ASSUME NEW m \in Remaps, RemapInv(m), NEW key \in m.physical
  PROVE  Orderly(m, press_key(m, key))
  <1>1. /\ m.physical \subseteq Usages /\ m.deferred \subseteq Usages /\ m.bound \subseteq Usages /\ key \in Usages
        /\ m.owners \in [Usages -> SUBSET Usages]
    BY RemapFields
  <1>2. CASE m.bound # {}
    <2> DEFINE idle == {h \in m.physical \cap Modifiers : ~owns_any(m, h)}
               o == own_defaults(m, idle)
               d == [o EXCEPT !.deferred = {}]
               n == own(d, key, key)
    <2>1. idle \subseteq m.physical
      OBVIOUS
    <2> HIDE DEF idle
    <2>2. /\ o \in Remaps /\ o.mode = m.mode /\ o.physical = m.physical /\ o.bound = m.bound
          /\ \A u \in Usages : m.owners[u] \subseteq o.owners[u] /\ o.owners[u] \subseteq m.owners[u] \cup idle
      BY <2>1, DefaultsAdd
    <2> HIDE DEF o
    <2>3. /\ d \in Remaps /\ d.mode = o.mode /\ d.physical = o.physical /\ d.bound = o.bound
          /\ d.deferred = {} /\ d.owners = o.owners
      BY <2>2 DEF Remaps
    <2> HIDE DEF d
    <2>4. /\ n \in Remaps /\ n.mode = d.mode /\ n.physical = d.physical /\ n.bound = d.bound
          /\ n.deferred = d.deferred
          /\ \A u \in Usages : d.owners[u] \subseteq n.owners[u] /\ n.owners[u] \subseteq d.owners[u] \cup {key}
      BY <1>1, <2>3, OwnAdds
    <2>5. press_key(m, key) = n
      BY <1>2 DEF press_key, d, o, idle
    <2> HIDE DEF n
    <2>6. \A u \in Usages : m.owners[u] \subseteq n.owners[u] /\ n.owners[u] \subseteq m.physical
      BY <2>1, <2>2, <2>3, <2>4 DEF RemapInv
    <2>7. injected(m) \subseteq injected(n)
      BY <2>6 DEF injected
    <2>8. Orderly(m, n)
      BY <2>2, <2>3, <2>4, <2>6, <2>7 DEF Orderly, RemapInv
    <2> QED  BY <2>5, <2>8
  <1>3. CASE m.bound = {}
    <2> DEFINE r == lookup(m, key)
               s == set_modifiers(m, r.held, r.mods, r.key_mods, key)
               n == own(s, IF r.out = Same THEN key ELSE r.out, key)
               b == r.mods \cap injected(n)
               w == [n EXCEPT !.bound = b]
    <2>1. press_key(m, key) \in {m, s, n, w}
      BY <1>3 DEF press_key, press_key_Ruled
    <2> HIDE DEF r
    <2>2. /\ s \in Remaps /\ s.mode = m.mode /\ s.physical = m.physical /\ s.deferred = {} /\ s.bound = m.bound
          /\ \A u \in Usages : s.owners[u] \subseteq m.physical
      BY ModifiersSet
    <2> HIDE DEF s
    <2>3. /\ n \in Remaps /\ n.mode = s.mode /\ n.physical = s.physical /\ n.bound = s.bound
          /\ n.deferred = s.deferred
          /\ \A u \in Usages : n.owners[u] \subseteq s.owners[u] \cup {key}
      BY <1>1, <2>2, OwnAdds
    <2> HIDE DEF n
    <2>4. b \subseteq injected(n) /\ injected(n) \subseteq Usages
      BY DEF injected
    <2> HIDE DEF b
    <2>5. /\ w \in Remaps /\ w.mode = n.mode /\ w.physical = n.physical /\ w.bound = b
          /\ w.deferred = n.deferred /\ w.owners = n.owners
      BY <2>3, <2>4 DEF Remaps
    <2> HIDE DEF w
    <2>6. injected(w) = injected(n)
      BY <2>5 DEF injected
    <2>7. Orderly(m, m) /\ Orderly(m, s) /\ Orderly(m, n)
      BY <1>3, <2>2, <2>3 DEF Orderly, RemapInv
    <2>8. Orderly(m, w)
      BY <2>2, <2>3, <2>4, <2>5, <2>6 DEF Orderly, RemapInv
    <2> QED  BY <2>1, <2>7, <2>8
  <1> QED  BY <1>2, <1>3

(* KeyRemap::key keeps a remap in order, in every mode: each injected key is   *)
(* owned by keys that are down (core/keymap.rs).                             *)
LEMMA RemapKeyOrderly ==
  ASSUME NEW m \in Remaps, RemapInv(m), NEW key \in Usages, NEW pressed \in BOOLEAN
  PROVE  /\ remap_key(m, key, pressed) \in Remaps /\ RemapInv(remap_key(m, key, pressed))
         /\ m.mode # "Mac" => remap_key(m, key, pressed).mode # "Mac"
         /\ remap_key(m, key, pressed).physical = (IF pressed THEN m.physical \cup {key} ELSE m.physical \ {key})
         /\ m.mode # "Mac" /\ m.deferred = {} => remap_key(m, key, pressed).deferred = {}
  <1>1. /\ m.physical \subseteq Usages /\ m.deferred \subseteq Usages /\ m.bound \subseteq Usages
        /\ m.owners \in [Usages -> SUBSET Usages]
    BY RemapFields
  <1>2. CASE (key \in m.physical) = pressed
    BY <1>2 DEF remap_key
  <1>3. CASE pressed /\ key \notin m.physical
    <2> DEFINE d == [m EXCEPT !.physical = @ \cup {key}]
    <2>1. /\ d \in Remaps /\ d.mode = m.mode /\ d.physical = m.physical \cup {key} /\ d.owners = m.owners
          /\ d.bound = m.bound /\ d.deferred = m.deferred
      BY <1>1 DEF Remaps
    <2>2. remap_key(m, key, pressed) = IF key \in Modifiers THEN press_modifier(d, key) ELSE press_key(d, key)
      BY <1>3 DEF remap_key
    <2> HIDE DEF d
    <2>3. RemapInv(d)
      BY <2>1 DEF RemapInv, injected
    <2>4. Orderly(d, remap_key(m, key, pressed))
      <3>1. CASE key \in Modifiers
        BY <2>1, <2>2, <2>3, <3>1, PressModifierOrderly
      <3>2. CASE key \notin Modifiers
        BY <2>1, <2>2, <2>3, <3>2, PressKeyOrderly
      <3> QED  BY <3>1, <3>2
    <2> QED  BY <1>3, <2>1, <2>4 DEF Orderly
  <1>4. CASE ~pressed /\ key \in m.physical
    <2> DEFINE f == [u \in Usages |-> m.owners[u] \ {key}]
               d == [m EXCEPT !.physical = @ \ {key}]
               a == [d EXCEPT !.deferred = @ \ {key}, !.owners = [u \in Usages |-> @[u] \ {key}]]
               freed == injected(d) \ injected(a)
               b == IF freed \cap a.bound = {} THEN a.bound ELSE {}
               n == [a EXCEPT !.bound = b]
    <2>1. remap_key(m, key, pressed) = release(d, key)
      BY <1>4 DEF remap_key
    <2>2. /\ d \in Remaps /\ d.mode = m.mode /\ d.physical = m.physical \ {key} /\ d.owners = m.owners
          /\ d.bound = m.bound /\ d.deferred = m.deferred
      BY <1>1 DEF Remaps
    <2>3. release(d, key) = n
      BY DEF release
    <2> HIDE DEF d
    <2>4. f \in [Usages -> SUBSET Usages] /\ \A u \in Usages : f[u] = m.owners[u] \ {key}
      BY <1>1
    <2>5. a = [d EXCEPT !.deferred = m.deferred \ {key}, !.owners = f]
      BY <2>2 DEF Remaps
    <2> HIDE DEF f, a
    <2>6. /\ a \in Remaps /\ a.mode = m.mode /\ a.physical = m.physical \ {key} /\ a.owners = f
          /\ a.bound = m.bound /\ a.deferred = m.deferred \ {key}
      BY <1>1, <2>2, <2>4, <2>5 DEF Remaps
    <2>7. b \subseteq Usages /\ (b # {} => b = m.bound /\ freed \cap m.bound = {})
      BY <1>1, <2>6
    <2>8. injected(d) = injected(m)
      BY <2>2 DEF injected
    <2>9. b \subseteq injected(a)
      BY <2>7, <2>8 DEF RemapInv
    <2> HIDE DEF b, freed
    <2>10. /\ n \in Remaps /\ n.mode = m.mode /\ n.physical = m.physical \ {key} /\ n.owners = f
           /\ n.bound = b /\ n.deferred = m.deferred \ {key}
      BY <2>6, <2>7 DEF Remaps
    <2> HIDE DEF n
    <2>11. injected(n) = injected(a)
      BY <2>6, <2>10 DEF injected
    <2>12. RemapInv(n)
      BY <2>4, <2>9, <2>10, <2>11 DEF RemapInv
    <2> QED  BY <1>4, <2>1, <2>3, <2>10, <2>12
  <1> QED  BY <1>2, <1>3, <1>4

-----------------------------------------------------------------------------
(* What the variables of the injector range over: no keyboard of a Mac runs    *)
(* the remap's own Mac mode, so it holds nothing back.                       *)
InjectTypes ==
  /\ macMode \in KeyboardModes /\ macRemap \in Remaps /\ macRemap.mode # "Mac" /\ macRemap.deferred = {}
  /\ usages \subseteq Usages /\ codes \in [Usages -> Nat] /\ macButton \in BOOLEAN
  /\ macPeer \in [open : BOOLEAN, keys : SUBSET Usages]

Down(us) == {Code(u) : u \in us}
Holding(us, c) == {u \in us : Code(u) = c}
Button == IF macButton THEN {"button"} ELSE {}

(* What was posted is what the remap injects, a code is counted once for      *)
(* each usage that holds it, and only a code that is down repeats.           *)
PostsInv ==
  /\ RemapInv(macRemap)
  /\ injected(macRemap) = usages \cup media /\ usages \cap MediaKeys = {} /\ media \subseteq MediaKeys
  /\ \A c \in Usages : codes[c] = Cardinality(Holding(usages, c))
  /\ macDown = Down(usages) \cup media \cup Button
  /\ repeat \subseteq Down(usages)

(* A held Ctrl or Cmd key stands for one usage, and a key that is down in the  *)
(* remap is one the peer holds or the one that such a key stands for.        *)
ChosenInv ==
  /\ \A c \in chosen : c = <<c[1], c[2]>> /\ c[1] \in DOMAIN Swapped /\ c[2] \in {c[1], Swapped[c[1]]}
  /\ \A c, d \in chosen : c[1] = d[1] => c[2] = d[2]
  /\ chosen # {} => macMode = "Mac"
  /\ \A p \in macRemap.physical : \E u \in macPeer.keys :
       (p = u /\ ~(macMode = "Mac" /\ u \in DOMAIN Swapped)) \/ <<u, p>> \in chosen

(* The inductive invariant of the injector.                                  *)
InjectInv == InjectTypes /\ PostsInv /\ ChosenInv

(* It holds in the behaviours that run that part.                            *)
InjectHolds == part = "Injector" => InjectInv

(* The keys of the model are finitely many; F13 and PrintScreen share a code;  *)
(* the media keys and the button have none.                                  *)
LEMMA UsagesAreFinite == IsFiniteSet(Usages)
  <1>1. ASSUME NEW a, NEW b, NEW c, NEW d PROVE IsFiniteSet({a, b, c, d})
    <2>1. IsFiniteSet({a}) /\ IsFiniteSet({b}) /\ IsFiniteSet({c}) /\ IsFiniteSet({d})
      BY FS_Singleton
    <2>2. IsFiniteSet({a} \cup {b}) /\ IsFiniteSet({c} \cup {d})
      BY <2>1, FS_Union
    <2>3. IsFiniteSet(({a} \cup {b}) \cup ({c} \cup {d}))
      BY <2>2, FS_Union
    <2>4. {a, b, c, d} = ({a} \cup {b}) \cup ({c} \cup {d})
      OBVIOUS
    <2> QED  BY <2>3, <2>4
  <1>2. Modifiers = {"LCTRL", "RCTRL", "LSHIFT", "RSHIFT"} \cup {"LALT", "RALT", "LGUI", "RGUI"}
    BY DEF Modifiers, Class
  <1>3. {"A", "B", "C", "N3", "TAB", "SPACE", "LEFT", "HOME", "PAGE_UP", "PRINT_SCREEN", "F13", "MUTE"} =
          {"A", "B", "C", "N3"} \cup ({"TAB", "SPACE", "LEFT", "HOME"} \cup {"PAGE_UP", "PRINT_SCREEN", "F13", "MUTE"})
    OBVIOUS
  <1>4. IsFiniteSet(Modifiers)
    BY <1>1, <1>2, FS_Union
  <1>5. IsFiniteSet({"TAB", "SPACE", "LEFT", "HOME"} \cup {"PAGE_UP", "PRINT_SCREEN", "F13", "MUTE"})
    BY <1>1, FS_Union
  <1>6. IsFiniteSet({"A", "B", "C", "N3"} \cup
                    ({"TAB", "SPACE", "LEFT", "HOME"} \cup {"PAGE_UP", "PRINT_SCREEN", "F13", "MUTE"}))
    BY <1>1, <1>5, FS_Union
  <1>7. IsFiniteSet({"A", "B", "C", "N3", "TAB", "SPACE", "LEFT", "HOME", "PAGE_UP", "PRINT_SCREEN", "F13", "MUTE"})
    BY <1>3, <1>6
  <1> QED  BY <1>4, <1>7, FS_Union DEF Usages

LEMMA CodesOfUsages ==
  /\ MediaKeys \subseteq Usages /\ "button" \notin Usages
  /\ \A u \in Usages : Code(u) \in Usages /\ (Code(u) \in MediaKeys <=> u \in MediaKeys)
  /\ \A u \in MediaKeys : Code(u) = u
  <1>1. {"F13", "MUTE"} \subseteq Usages
    BY DEF Usages
  <1>2. "button" \notin Usages
    BY DEF Usages, Modifiers, Class
  <1>3. \A u : Code(u) = IF u = "PRINT_SCREEN" THEN "F13" ELSE u
    BY DEF Code
  <1> QED  BY <1>1, <1>2, <1>3 DEF MediaKeys

LEMMA SwappedKeys ==
  \A u \in DOMAIN Swapped : u \in Usages /\ Swapped[u] \in Usages
  <1>1. DOMAIN Swapped = {"LCTRL", "LGUI", "RCTRL", "RGUI"}
    BY DEF Swapped
  <1>2. Swapped["LCTRL"] = "LGUI" /\ Swapped["LGUI"] = "LCTRL" /\ Swapped["RCTRL"] = "RGUI" /\ Swapped["RGUI"] = "RCTRL"
    BY DEF Swapped
  <1>3. {"LCTRL", "LGUI", "RCTRL", "RGUI"} \subseteq Usages
    BY DEF Usages, Modifiers, Class
  <1> QED  BY <1>1, <1>2, <1>3

(* Some things go, and others come.                                          *)
LEMMA CountAfter ==
  ASSUME NEW S, NEW P, NEW R, IsFiniteSet(S), IsFiniteSet(P), S \cap P = {}, R \subseteq S
  PROVE  /\ Cardinality((S \cup P) \ R) = Cardinality(S) + Cardinality(P) - Cardinality(R)
         /\ Cardinality((S \cup P) \ R) \in Nat
  <1> DEFINE T == (S \cup P) \ R
  <1>1. T \cup R = S \cup P /\ T \cap R = {} /\ T \subseteq S \cup P
    OBVIOUS
  <1>2. Cardinality(S \cup P) = Cardinality(S) + Cardinality(P) - Cardinality(S \cap P) /\ IsFiniteSet(S \cup P)
    BY FS_Union
  <1>3. IsFiniteSet(R) /\ IsFiniteSet(T)
    BY <1>1, <1>2, FS_Subset
  <1> HIDE DEF T
  <1>4. Cardinality(T \cup R) = Cardinality(T) + Cardinality(R) - Cardinality(T \cap R)
    BY <1>3, FS_Union
  <1>5. PICK s, p, r, t \in Nat : /\ s = Cardinality(S) /\ p = Cardinality(P) /\ r = Cardinality(R) /\ t = Cardinality(T)
    <2>1. /\ Cardinality(S) \in Nat /\ Cardinality(P) \in Nat /\ Cardinality(R) \in Nat /\ Cardinality(T) \in Nat
      BY <1>3, FS_CardinalityType
    <2> QED  BY <2>1
  <1>6. Cardinality(S \cap P) = 0 /\ Cardinality(T \cap R) = 0
    BY <1>1, FS_EmptySet
  <1>7. s + p - 0 = t + r - 0
    BY <1>1, <1>2, <1>4, <1>5, <1>6
  <1>8. t = s + p - r
    BY <1>7
  <1> QED  BY <1>5, <1>8 DEF T

(* Nothing is down: the start, and whatever lets go of everything.            *)
AllUp ==
  /\ macRemap \in Remaps /\ macRemap.mode # "Mac" /\ macRemap.deferred = {} /\ macRemap.physical = {}
  /\ macRemap.bound = {} /\ \A u \in Usages : macRemap.owners[u] = {}
  /\ chosen = {} /\ usages = {} /\ codes = NoCodes /\ media = {} /\ repeat = {} /\ macButton = FALSE /\ macDown = {}

LEMMA UpIsFine ==
  AllUp /\ macMode \in KeyboardModes /\ macPeer \in [open : BOOLEAN, keys : SUBSET Usages] => InjectInv
  <1> SUFFICES ASSUME AllUp, macMode \in KeyboardModes, macPeer \in [open : BOOLEAN, keys : SUBSET Usages]
               PROVE  InjectInv
    OBVIOUS
  <1>1. InjectTypes
    BY DEF AllUp, InjectTypes, NoCodes
  <1>2. PostsInv
    <2>1. injected(macRemap) = {} /\ RemapInv(macRemap)
      BY DEF AllUp, injected, RemapInv
    <2>2. \A c \in Usages : codes[c] = 0 /\ Holding({}, c) = {} /\ Cardinality({}) = 0
      BY FS_EmptySet DEF AllUp, NoCodes, Holding
    <2>3. Down({}) = {} /\ Button = {}
      BY DEF Down, Button, AllUp
    <2> QED  BY <2>1, <2>2, <2>3 DEF AllUp, PostsInv
  <1>3. ChosenInv
    BY DEF AllUp, ChosenInv
  <1> QED  BY <1>1, <1>2, <1>3 DEF InjectInv

LEMMA NewRemap ==
  ASSUME NEW mode \in KeyboardModes
  PROVE  /\ KeyRemap(mode) \in Remaps /\ KeyRemap(mode).mode = mode /\ KeyRemap(mode).deferred = {}
         /\ KeyRemap(mode).physical = {} /\ KeyRemap(mode).bound = {}
         /\ \A u \in Usages : KeyRemap(mode).owners[u] = {}
  <1>1. [u \in Usages |-> {}] \in [Usages -> SUBSET Usages]
    OBVIOUS
  <1> QED  BY <1>1 DEF KeyRemap, Remaps

LEMMA InjectStarts == MacInjectInit => InjectInv
  <1> SUFFICES ASSUME MacInjectInit PROVE InjectInv  OBVIOUS
  <1>1. "Standard" \in KeyboardModes /\ "Standard" # "Mac"
    BY DEF KeyboardModes
  <1>2. AllUp
    BY <1>1, NewRemap DEF MacInjectInit, AllUp
  <1>3. macMode \in KeyboardModes /\ macPeer \in [open : BOOLEAN, keys : SUBSET Usages]
    BY <1>1 DEF MacInjectInit, NoPeer
  <1> QED  BY <1>2, <1>3, UpIsFine

(* An activation that opens or ends, a release of everything.                *)
LEMMA LetGoStep ==
  ASSUME InjectInv, NEW mode \in KeyboardModes, mode # "Mac", LetGo(mode), macMode' \in KeyboardModes,
         macPeer' \in [open : BOOLEAN, keys : SUBSET Usages]
  PROVE  InjectInv'
  <1> DEFINE k == KeyRemap(mode)
             n == [k EXCEPT !.terminal = macRemap.terminal]
  <1>1. macRemap.terminal \in BOOLEAN
    BY RemapFields DEF InjectInv, InjectTypes
  <1>2. /\ k \in Remaps /\ k.mode = mode /\ k.deferred = {} /\ k.physical = {} /\ k.bound = {}
        /\ \A u \in Usages : k.owners[u] = {}
    BY NewRemap
  <1>3. macRemap' = n
    BY DEF LetGo, reset
  <1> HIDE DEF k
  <1>4. /\ n \in Remaps /\ n.mode = mode /\ n.deferred = {} /\ n.physical = {} /\ n.bound = {}
        /\ n.owners = k.owners
    BY <1>1, <1>2 DEF Remaps
  <1> HIDE DEF n
  <1>5. AllUp'
    BY <1>2, <1>3, <1>4 DEF AllUp, LetGo, NoCodes
  <1>6. InjectTypes'
    BY <1>5 DEF AllUp, InjectTypes, NoCodes
  <1>7. PostsInv'
    <2>1. injected(macRemap)' = {} /\ RemapInv(macRemap)'
      BY <1>5 DEF AllUp, injected, RemapInv
    <2>2. \A c \in Usages : codes'[c] = 0 /\ Holding({}, c) = {} /\ Cardinality({}) = 0
      BY <1>5, FS_EmptySet DEF AllUp, NoCodes, Holding
    <2>3. Down({}) = {} /\ Button' = {}
      BY <1>5 DEF Down, Button, AllUp
    <2> QED  BY <1>5, <2>1, <2>2, <2>3 DEF AllUp, PostsInv
  <1>8. ChosenInv'
    BY <1>5 DEF AllUp, ChosenInv
  <1> QED  BY <1>6, <1>7, <1>8 DEF InjectInv

(* Post: what macOS sees down follows the remap.                             *)
LEMMA PostStep ==
  ASSUME InjectTypes, PostsInv, NEW m \in Remaps, RemapInv(m), m.mode # "Mac", m.deferred = {},
         Post(m, injected(m) \ (injected(macRemap) \cup usages \cup media),
                 (injected(macRemap) \ injected(m)) \cap (usages \cup media)),
         macButton' = macButton, macMode' = macMode, macPeer' \in [open : BOOLEAN, keys : SUBSET Usages]
  PROVE  InjectTypes' /\ PostsInv' /\ macRemap' = m
  <1> DEFINE made == injected(m) \ (injected(macRemap) \cup usages \cup media)
             freed == (injected(macRemap) \ injected(m)) \cap (usages \cup media)
             P(c) == {u \in made \ MediaKeys : Code(u) = c}
             R(c) == {u \in freed \ MediaKeys : Code(u) = c}
             new == {c \in Usages : codes[c] = 0 /\ codes'[c] > 0}
             gone == {c \in Usages : codes[c] > 0 /\ codes'[c] = 0}
  <1>1. /\ macRemap' = m /\ usages' = (usages \cup (made \ MediaKeys)) \ freed
        /\ codes' = [c \in Usages |-> codes[c] + Cardinality(P(c)) - Cardinality(R(c))]
        /\ media' = (media \cup (made \cap MediaKeys)) \ freed
        /\ repeat' = (IF new \subseteq Modifiers THEN repeat \ gone ELSE new \ Modifiers)
        /\ macDown' = (macDown \ (gone \cup MediaKeys)) \cup new \cup media'
    BY DEF Post
  <1>2. injected(m) \subseteq Usages /\ injected(macRemap) = usages \cup media
    BY DEF injected, PostsInv
  <1>3. /\ made = injected(m) \ injected(macRemap) /\ freed = injected(macRemap) \ injected(m)
    BY <1>2
  <1>4. /\ usages \cap MediaKeys = {} /\ media \subseteq MediaKeys /\ usages \subseteq Usages
        /\ \A c \in Usages : codes[c] = Cardinality(Holding(usages, c))
    BY DEF PostsInv, InjectTypes
  <1> HIDE DEF made, freed
  <1>5. /\ usages' = injected(m) \ MediaKeys /\ media' = injected(m) \cap MediaKeys
    BY <1>1, <1>2, <1>3, <1>4
  <1>6. ASSUME NEW c \in Usages
        PROVE  codes'[c] = Cardinality(Holding(usages', c)) /\ codes'[c] \in Nat
    <2> DEFINE S == Holding(usages, c)
    <2>1. IsFiniteSet(S) /\ IsFiniteSet(P(c))
      <3>1. S \subseteq Usages /\ P(c) \subseteq Usages
        BY <1>2, <1>3, <1>4 DEF Holding
      <3> QED  BY <3>1, UsagesAreFinite, FS_Subset
    <2>2. S \cap P(c) = {} /\ R(c) \subseteq S
      BY <1>2, <1>3, <1>4 DEF Holding
    <2>3. Holding(usages', c) = (S \cup P(c)) \ R(c)
      BY <1>1, <1>2, <1>3, <1>4 DEF Holding
    <2>4. codes'[c] = Cardinality(S) + Cardinality(P(c)) - Cardinality(R(c))
      BY <1>1, <1>4
    <2> HIDE DEF S, P, R
    <2>5. /\ Cardinality((S \cup P(c)) \ R(c)) = Cardinality(S) + Cardinality(P(c)) - Cardinality(R(c))
          /\ Cardinality((S \cup P(c)) \ R(c)) \in Nat
      BY <2>1, <2>2, CountAfter
    <2> QED  BY <2>3, <2>4, <2>5
  <1>7. InjectTypes'
    <2>1. codes' \in [Usages -> Nat]
      <3> HIDE DEF P, R
      <3>1. \A c \in Usages : codes[c] + Cardinality(P(c)) - Cardinality(R(c)) \in Nat
        BY <1>1, <1>6
      <3> QED  BY <1>1, <3>1
    <2> QED  BY <1>1, <1>2, <1>5, <2>1 DEF InjectTypes
  <1> HIDE DEF P, R
  <1>8. \A c \in Usages : (codes[c] > 0 <=> c \in Down(usages)) /\ (codes[c] = 0 <=> c \notin Down(usages))
    <2> SUFFICES ASSUME NEW c \in Usages
                 PROVE  (codes[c] > 0 <=> c \in Down(usages)) /\ (codes[c] = 0 <=> c \notin Down(usages))
      OBVIOUS
    <2>1. Holding(usages, c) \subseteq Usages
      BY <1>4 DEF Holding
    <2>2. IsFiniteSet(Holding(usages, c))
      BY <2>1, UsagesAreFinite, FS_Subset
    <2>3. codes[c] = 0 <=> Holding(usages, c) = {}
      BY <1>4, <2>2, FS_EmptySet
    <2>4. Holding(usages, c) = {} <=> c \notin Down(usages)
      BY DEF Holding, Down
    <2>5. codes[c] \in Nat
      BY DEF InjectTypes
    <2> QED  BY <2>3, <2>4, <2>5
  <1>9. \A c \in Usages : (codes'[c] > 0 <=> c \in Down(usages')) /\ (codes'[c] = 0 <=> c \notin Down(usages'))
    <2> SUFFICES ASSUME NEW c \in Usages
                 PROVE  (codes'[c] > 0 <=> c \in Down(usages')) /\ (codes'[c] = 0 <=> c \notin Down(usages'))
      OBVIOUS
    <2>1. Holding(usages', c) \subseteq Usages
      BY <1>2, <1>5 DEF Holding
    <2>2. IsFiniteSet(Holding(usages', c))
      BY <2>1, UsagesAreFinite, FS_Subset
    <2>3. codes'[c] = 0 <=> Holding(usages', c) = {}
      BY <1>6, <2>2, FS_EmptySet
    <2>4. Holding(usages', c) = {} <=> c \notin Down(usages')
      BY DEF Holding, Down
    <2> QED  BY <1>6, <2>3, <2>4
  <1>10. /\ Down(usages) \subseteq Usages /\ Down(usages') \subseteq Usages
         /\ Down(usages) \cap MediaKeys = {} /\ Down(usages') \cap MediaKeys = {}
    <2>1. usages' \subseteq Usages /\ usages' \cap MediaKeys = {}
      BY <1>2, <1>5
    <2> QED  BY <1>4, <2>1, CodesOfUsages DEF Down
  <1>11. new = Down(usages') \ Down(usages) /\ gone = Down(usages) \ Down(usages')
    BY <1>8, <1>9, <1>10
  <1> HIDE DEF new, gone
  <1>12. PostsInv'
    <2>1. Button' = Button /\ Button \cap (Usages \cup MediaKeys) = {}
      BY CodesOfUsages DEF Button
    <2>2. macDown = Down(usages) \cup media \cup Button
      BY DEF PostsInv
    <2>3. macDown' = Down(usages') \cup media' \cup Button'
      BY <1>1, <1>4, <1>5, <1>10, <1>11, <2>1, <2>2
    <2>4. repeat' \subseteq Down(usages')
      BY <1>1, <1>11 DEF PostsInv
    <2>5. injected(macRemap)' = usages' \cup media' /\ RemapInv(macRemap)'
      <3>1. injected(macRemap)' = injected(m)
        BY <1>1 DEF injected
      <3>2. RemapInv(macRemap)'
        BY <1>1 DEF RemapInv, injected
      <3> QED  BY <1>5, <3>1, <3>2
    <2> QED  BY <1>5, <1>6, <2>3, <2>4, <2>5 DEF PostsInv
  <1> QED  BY <1>1, <1>7, <1>12

(* The usage a key stands for is the same from its press to its release.      *)
LEMMA Choice ==
  ASSUME InjectTypes, ChosenInv, NEW u \in Usages, NEW pressed \in BOOLEAN
  PROVE  /\ choose(u, pressed) \in Usages
         /\ ~(macMode = "Mac" /\ u \in DOMAIN Swapped) => choose(u, pressed) = u
         /\ u \in DOMAIN Swapped => choose(u, pressed) \in {u, Swapped[u]}
         /\ macMode = "Mac" /\ u \in DOMAIN Swapped =>
              \A c \in chosen : c[1] = u => c[2] = choose(u, pressed)
  <1> DEFINE earlier == {c \in chosen : c[1] = u}
  <1>1. CASE macMode = "Mac" /\ u \in DOMAIN Swapped /\ earlier # {}
    <2>1. PICK e : e = (CHOOSE c \in earlier : TRUE)
      OBVIOUS
    <2>2. e \in earlier /\ choose(u, pressed) = e[2]
      BY <1>1, <2>1 DEF choose
    <2>3. e[1] = u /\ e[2] \in {u, Swapped[u]} /\ \A c \in chosen : c[1] = u => c[2] = e[2]
      BY <2>2 DEF ChosenInv
    <2> QED  BY <1>1, <2>2, <2>3, SwappedKeys
  <1>2. CASE ~(macMode = "Mac" /\ u \in DOMAIN Swapped /\ earlier # {})
    <2>1. choose(u, pressed) = u \/ (u \in DOMAIN Swapped /\ choose(u, pressed) = Swapped[u])
      BY <1>2 DEF choose
    <2>2. ~(macMode = "Mac" /\ u \in DOMAIN Swapped) => choose(u, pressed) = u
      BY DEF choose
    <2>3. macMode = "Mac" /\ u \in DOMAIN Swapped => earlier = {}
      BY <1>2
    <2> QED  BY <2>1, <2>2, <2>3, SwappedKeys
  <1> QED  BY <1>1, <1>2

(* A key edge of the peer.                                                   *)
LEMMA KeyStep ==
  ASSUME InjectInv, NEW u \in MacKeys, NEW down \in BOOLEAN, mac_key(u, down)
  PROVE  InjectInv'
  <1> USE DEF InjectInv
  <1> DEFINE c == choose(u, down)
             m == remap_key(macRemap, c, down)
             swaps == macMode = "Mac" /\ u \in DOMAIN Swapped
  <1>1. /\ macMode' = macMode /\ macButton' = macButton
        /\ Post(m, injected(m) \ (injected(macRemap) \cup usages \cup media),
                   (injected(macRemap) \ injected(m)) \cap (usages \cup media))
        /\ chosen' = (IF ~swaps THEN chosen
                      ELSE IF down THEN chosen \cup {<<u, c>>} ELSE {ch \in chosen : ch[1] # u})
        /\ macPeer' = [macPeer EXCEPT !.keys = IF down THEN @ \cup {u} ELSE @ \ {u}]
    BY DEF mac_key
  <1>2. u \in Usages
    BY MacInjectAssumption
  <1>3. /\ c \in Usages /\ (~swaps => c = u) /\ (u \in DOMAIN Swapped => c \in {u, Swapped[u]})
        /\ (swaps => \A ch \in chosen : ch[1] = u => ch[2] = c)
    BY <1>2, Choice
  <1> HIDE DEF c
  <1>4. /\ m \in Remaps /\ RemapInv(m) /\ m.mode # "Mac" /\ m.deferred = {}
        /\ m.physical = (IF down THEN macRemap.physical \cup {c} ELSE macRemap.physical \ {c})
    <2>1. macRemap \in Remaps /\ RemapInv(macRemap) /\ macRemap.mode # "Mac" /\ macRemap.deferred = {}
      BY DEF InjectTypes, PostsInv
    <2> QED  BY <1>3, <2>1, RemapKeyOrderly
  <1> HIDE DEF m
  <1>5. /\ macPeer' \in [open : BOOLEAN, keys : SUBSET Usages]
        /\ macPeer'.keys = (IF down THEN macPeer.keys \cup {u} ELSE macPeer.keys \ {u})
    BY <1>1, <1>2 DEF InjectTypes
  <1>6. InjectTypes' /\ PostsInv' /\ macRemap' = m
    BY <1>1, <1>4, <1>5, PostStep
  <1>7. /\ <<u, c>>[1] = u /\ <<u, c>>[2] = c
        /\ \A a, b : <<a, b>>[1] = a /\ <<a, b>>[2] = b
    BY PairsDiffer
  <1>8. ChosenInv'
    <2>1. \A ch \in chosen' : ch \in chosen \/ (swaps /\ down /\ ch = <<u, c>>)
      BY <1>1
    <2>2. \A ch \in chosen' : ch = <<ch[1], ch[2]>> /\ ch[1] \in DOMAIN Swapped /\ ch[2] \in {ch[1], Swapped[ch[1]]}
      BY <1>3, <1>7, <2>1 DEF ChosenInv
    <2>3. \A a, b \in chosen' : a[1] = b[1] => a[2] = b[2]
      BY <1>3, <1>7, <2>1 DEF ChosenInv
    <2>4. chosen' # {} => macMode' = "Mac"
      BY <1>1, <2>1 DEF ChosenInv
    <2>5. ASSUME NEW p \in m.physical
          PROVE  \E v \in macPeer'.keys :
                   (p = v /\ ~(macMode' = "Mac" /\ v \in DOMAIN Swapped)) \/ <<v, p>> \in chosen'
      <3>1. CASE down /\ p = c
        <4>1. u \in macPeer'.keys /\ (swaps => <<u, p>> \in chosen')
          BY <1>1, <1>5, <3>1
        <4> QED  BY <1>1, <1>3, <3>1, <4>1
      <3>2. CASE ~(down /\ p = c)
        <4>1. p \in macRemap.physical /\ (~down => p # c)
          BY <1>4, <3>2
        <4>2. PICK v \in macPeer.keys : (p = v /\ ~(macMode = "Mac" /\ v \in DOMAIN Swapped)) \/ <<v, p>> \in chosen
          BY <4>1 DEF ChosenInv
        <4>3. CASE down
          BY <1>1, <1>5, <4>2, <4>3
        <4>4. CASE ~down
          <5>1. v # u
            <6>1. CASE p = v /\ ~(macMode = "Mac" /\ v \in DOMAIN Swapped)
              BY <1>3, <4>1, <4>4, <6>1
            <6>2. CASE <<v, p>> \in chosen
              <7>1. v \in DOMAIN Swapped /\ macMode = "Mac"
                BY <1>7, <6>2 DEF ChosenInv
              <7> QED  BY <1>3, <1>7, <4>1, <4>4, <6>2, <7>1
            <6> QED  BY <4>2, <6>1, <6>2
          <5>2. v \in macPeer'.keys /\ (<<v, p>> \in chosen => <<v, p>> \in chosen')
            BY <1>1, <1>5, <1>7, <4>4, <5>1
          <5> QED  BY <1>1, <4>2, <5>2
        <4> QED  BY <4>3, <4>4
      <3> QED  BY <3>1, <3>2
    <2> QED  BY <1>6, <2>2, <2>3, <2>4, <2>5 DEF ChosenInv
  <1> QED  BY <1>6, <1>8

(* KeyRemap::pointer of a remap that holds nothing back injects nothing.      *)
LEMMA RemapPointerOrderly ==
  ASSUME NEW m \in Remaps, RemapInv(m), m.deferred = {}, NEW down \in BOOLEAN, NEW busy \in BOOLEAN
  PROVE  /\ remap_pointer(m, down, busy) \in Remaps /\ RemapInv(remap_pointer(m, down, busy))
         /\ remap_pointer(m, down, busy).mode = m.mode /\ remap_pointer(m, down, busy).physical = m.physical
         /\ remap_pointer(m, down, busy).deferred = {}
         /\ injected(remap_pointer(m, down, busy)) = injected(m)
  <1> DEFINE o == own_defaults(m, {})
             n == IF down THEN [o EXCEPT !.deferred = {}, !.busy = busy] ELSE [m EXCEPT !.busy = busy]
  <1>1. remap_pointer(m, down, busy) = n
    BY DEF remap_pointer
  <1>2. /\ o \in Remaps /\ o.mode = m.mode /\ o.physical = m.physical /\ o.bound = m.bound
        /\ \A u \in Usages : m.owners[u] \subseteq o.owners[u] /\ o.owners[u] \subseteq m.owners[u] \cup {}
    BY DefaultsAdd
  <1> HIDE DEF o
  <1>3. /\ n \in Remaps /\ n.mode = m.mode /\ n.physical = m.physical /\ n.bound = m.bound /\ n.deferred = {}
        /\ n.owners \in {o.owners, m.owners}
    <2>1. CASE down
      BY <1>2, <2>1 DEF Remaps
    <2>2. CASE ~down
      BY <2>2 DEF Remaps
    <2> QED  BY <2>1, <2>2
  <1> HIDE DEF n
  <1>4. \A u \in Usages : n.owners[u] = m.owners[u]
    BY <1>2, <1>3
  <1>5. injected(n) = injected(m)
    BY <1>4 DEF injected
  <1>6. RemapInv(n)
    BY <1>3, <1>4, <1>5 DEF RemapInv
  <1> QED  BY <1>1, <1>3, <1>5, <1>6

(* The button and the scroll wheel leave the keys of the remap as they were.  *)
LEMMA PointerStep ==
  ASSUME InjectInv, (\E down \in BOOLEAN : mac_button(down)) \/ mac_scroll
  PROVE  InjectInv'
  <1> USE DEF InjectInv
  <1>1. PICK down, busy \in BOOLEAN :
          /\ macRemap' = remap_pointer(macRemap, down, busy)
          /\ UNCHANGED <<macMode, chosen, usages, codes, media, repeat, macPeer>>
          /\ \/ macButton' = down /\ macDown' = (IF down THEN macDown \cup {"button"} ELSE macDown \ {"button"})
             \/ macButton' = macButton /\ macDown' = macDown
    <2>1. macButton \in BOOLEAN
      BY DEF InjectTypes
    <2>2. CASE mac_scroll
      BY <2>1, <2>2 DEF mac_scroll
    <2>3. CASE \E down \in BOOLEAN : mac_button(down)
      <3>1. PICK d \in BOOLEAN : mac_button(d)
        BY <2>3
      <3> QED  BY <3>1 DEF mac_button
    <2> QED  BY <2>2, <2>3
  <1>2. /\ macRemap' \in Remaps /\ RemapInv(macRemap') /\ macRemap'.mode = macRemap.mode
        /\ macRemap'.physical = macRemap.physical /\ macRemap'.deferred = {}
        /\ injected(macRemap') = injected(macRemap)
    BY <1>1, RemapPointerOrderly DEF InjectTypes, PostsInv
  <1>3. InjectTypes'
    BY <1>1, <1>2 DEF InjectTypes
  <1>4. PostsInv'
    <2>1. "button" \notin Down(usages) \cup media
      BY CodesOfUsages DEF Down, PostsInv, InjectTypes
    <2>2. macDown = Down(usages) \cup media \cup Button
      BY DEF PostsInv
    <2>3. macDown' = Down(usages') \cup media' \cup Button'
      <3>1. CASE macButton' = macButton /\ macDown' = macDown
        BY <1>1, <2>2, <3>1 DEF Button
      <3>2. CASE macButton' = down /\ macDown' = (IF down THEN macDown \cup {"button"} ELSE macDown \ {"button"})
        <4>1. Down(usages') = Down(usages) /\ media' = media
          BY <1>1
        <4> HIDE DEF Down
        <4>2. CASE down
          BY <2>1, <2>2, <3>2, <4>1, <4>2 DEF Button
        <4>3. CASE ~down
          BY <2>1, <2>2, <3>2, <4>1, <4>3 DEF Button
        <4> QED  BY <4>2, <4>3
      <3> QED  BY <1>1, <3>1, <3>2
    <2>4. /\ Down(usages') = Down(usages) /\ injected(macRemap)' = injected(macRemap') /\ RemapInv(macRemap)'
      BY <1>1, <1>2
    <2>5. \A c \in Usages : codes'[c] = Cardinality(Holding(usages', c))
      BY <1>1 DEF PostsInv
    <2> QED  BY <1>1, <1>2, <2>3, <2>4, <2>5 DEF PostsInv
  <1>5. ChosenInv'
    BY <1>1, <1>2 DEF ChosenInv
  <1> QED  BY <1>3, <1>4, <1>5

(* A repeat presses what is down, and another front application nothing.      *)
LEMMA TickStep ==
  ASSUME InjectInv, mac_tick \/ frontmost \/ UNCHANGED macInjectVars
  PROVE  InjectInv'
  <1>1. /\ UNCHANGED <<macMode, macRemap, chosen, usages, codes, media, repeat, macButton, macPeer>>
        /\ macDown' \in {macDown, macDown \cup repeat}
    BY DEF mac_tick, frontmost, macInjectVars
  <1>2. macDown' = macDown
    BY <1>1 DEF InjectInv, PostsInv
  <1>3. InjectTypes' /\ ChosenInv'
    BY <1>1 DEF InjectInv, InjectTypes, ChosenInv
  <1>4. PostsInv'
    <2>1. RemapInv(macRemap)' /\ injected(macRemap)' = injected(macRemap) /\ Button' = Button
      BY <1>1 DEF InjectInv, PostsInv, RemapInv, injected, Button
    <2> QED  BY <1>1, <1>2, <2>1 DEF InjectInv, PostsInv
  <1> QED  BY <1>3, <1>4 DEF InjectInv

LEMMA InjectStep ==
  ASSUME InjectInv, MacInjectNext
  PROVE  InjectInv'
  <1> USE DEF InjectInv
  <1>1. macRemap.mode \in KeyboardModes \ {"Mac"} /\ "Standard" \in KeyboardModes \ {"Mac"}
    BY RemapFields DEF InjectTypes, KeyboardModes
  <1>2. ASSUME NEW mode \in KeyboardModes, mac_begin(mode) PROVE InjectInv'
    <2> DEFINE k == IF mode = "Mac" THEN "Standard" ELSE mode
    <2>1. k \in KeyboardModes /\ k # "Mac"
      BY <1>1
    <2>2. LetGo(k) /\ macMode' \in KeyboardModes /\ macPeer' \in [open : BOOLEAN, keys : SUBSET Usages]
      BY <1>2 DEF mac_begin
    <2> HIDE DEF k
    <2> QED  BY <2>1, <2>2, LetGoStep DEF InjectInv
  <1>3. CASE mac_close \/ mac_released
    <2>1. LetGo(macRemap.mode) /\ macMode' \in KeyboardModes /\ macPeer' \in [open : BOOLEAN, keys : SUBSET Usages]
      <3>1. NoPeer \in [open : BOOLEAN, keys : SUBSET Usages]
        BY DEF NoPeer
      <3>2. LetGo(macRemap.mode) /\ macMode' = macMode /\ macPeer' \in {macPeer, NoPeer}
        BY <1>3 DEF mac_close, mac_released, mac_release_all
      <3> QED  BY <3>1, <3>2 DEF InjectTypes
    <2> QED  BY <1>1, <2>1, LetGoStep
  <1>4. CASE \E u \in MacKeys, down \in BOOLEAN : mac_key(u, down)
    BY <1>4, KeyStep
  <1>5. CASE (\E down \in BOOLEAN : mac_button(down)) \/ mac_scroll
    BY <1>5, PointerStep
  <1>6. CASE mac_tick \/ frontmost
    BY <1>6, TickStep
  <1> QED  BY <1>2, <1>3, <1>4, <1>5, <1>6 DEF MacInjectNext

(* What the invariant says of the keys (MacInject).                          *)
LEMMA KeysAreThePeers ==
  ASSUME InjectInv
  PROVE  MacHoldsPeersKeys
  <1> USE DEF InjectInv
  <1>1. \A p \in macRemap.physical : \E u \in macPeer.keys :
          p = u \/ (u \in DOMAIN Swapped /\ p = Swapped[u])
    <2> SUFFICES ASSUME NEW p \in macRemap.physical
                 PROVE  \E u \in macPeer.keys : p = u \/ (u \in DOMAIN Swapped /\ p = Swapped[u])
      OBVIOUS
    <2>1. PICK u \in macPeer.keys : (p = u /\ ~(macMode = "Mac" /\ u \in DOMAIN Swapped)) \/ <<u, p>> \in chosen
      BY DEF ChosenInv
    <2>2. CASE <<u, p>> \in chosen
      <3>1. <<u, p>>[1] = u /\ <<u, p>>[2] = p
        BY PairsDiffer
      <3>2. u \in DOMAIN Swapped /\ p \in {u, Swapped[u]}
        BY <2>2, <3>1 DEF ChosenInv
      <3> QED  BY <3>2
    <2> QED  BY <2>1, <2>2
  <1>2. {Code(u) : u \in injected(macRemap)} = Down(usages) \cup media
    <2>1. \A u \in media : Code(u) = u
      BY CodesOfUsages DEF PostsInv
    <2>2. injected(macRemap) = usages \cup media
      BY DEF PostsInv
    <2> QED  BY <2>1, <2>2 DEF Down
  <1> QED  BY <1>1, <1>2 DEF PostsInv, MacHoldsPeersKeys, Button

LEMMA InjectAlways == MCSpec => []InjectHolds
  <1>1. MCInit => InjectHolds
    BY InjectStarts DEF MCInit, InjectHolds
  <1>2. InjectHolds /\ [MCNext]_macsVars => InjectHolds'
    BY OneMacPartRuns, InjectStep, TickStep DEF InjectHolds
  <1> QED  BY <1>1, <1>2, PTL DEF MCSpec, macsVars

(* A Mac is controlled by one peer: one that the policy does not admit any    *)
(* more is told to close, what is down on the Mac is the controller's or let  *)
(* go of before anybody else presses, and the desktop is reserved for a       *)
(* session that is there (macos/receive.rs, macos/handoff_server.rs); and     *)
(* macOS sees down what that peer holds, through every change of the front    *)
(* application (macos/inject.rs).                                            *)
THEOREM ControlIsHeldTogetherAlways == MCSpec => []ControlIsHeldTogether
  <1>1. ControlHolds /\ InjectHolds => ControlIsHeldTogether
    BY ControlIsSafe, KeysAreThePeers DEF ControlHolds, InjectHolds, ControlIsHeldTogether
  <1> QED  BY <1>1, ControlAlways, InjectAlways, PTL

-----------------------------------------------------------------------------
LinkStates ==
  [pc : {"off", "dial", "wait", "serve", "cross"}, sess : Nat, theirs : Nat,
   young : BOOLEAN, ready : BOOLEAN, open : BOOLEAN]
LinkCommands == {c \in [kind : {"edge", "hop", "inbound", "retry"}, on : Nat] : c.kind = "edge" => c.on = 0}
Stages == {"none", "prepare", "forward", "finish", "hop", "moving"}

(* What the variables of the links range over: only a link that serves has a   *)
(* session, and only a dial keeps one of the peer's.                         *)
LinkTypes ==
  /\ link \in [LinkPeers -> LinkStates] /\ cmds \in [LinkPeers -> Seq(LinkCommands)]
  /\ live \subseteq Nat \ {0} /\ opened \in Nat
  /\ crossing \in [stage : Stages, at : SUBSET LinkPeers, next : SUBSET LinkPeers, on : Nat]
  /\ \A p \in LinkPeers : /\ link[p].pc \notin {"serve", "cross"} => link[p].sess = 0
                          /\ link[p].pc # "dial" => link[p].theirs = 0

(* Command i of link p.                                                      *)
Waits(p, i) == p \in LinkPeers /\ i \in 1..Len(cmds[p])
Awaited(s) == \E p \in LinkPeers : \E i \in 1..Len(cmds[p]) : cmds[p][i].kind = "inbound" /\ cmds[p][i].on = s
Kept(s) == (\E p \in LinkPeers : s \in {link[p].sess, link[p].theirs}) \/ Awaited(s)
Crosses(p, i) == Waits(p, i) /\ cmds[p][i].kind \in {"edge", "hop"}
HopWith(s) == \E p \in LinkPeers : \E i \in 1..Len(cmds[p]) : cmds[p][i].kind = "hop" /\ cmds[p][i].on = s
HopWaits == \E p \in LinkPeers : \E i \in 1..Len(cmds[p]) : cmds[p][i].kind = "hop"

(* The guard is in one place: in one command, or in the crossing that runs on  *)
(* a link; and the capture goes with it.                                     *)
GuardInv ==
  /\ \A p, q \in LinkPeers : \A i \in 1..Len(cmds[p]), j \in 1..Len(cmds[q]) :
       Crosses(p, i) /\ Crosses(q, j) => p = q /\ i = j
  /\ \A p \in LinkPeers : \A i \in 1..Len(cmds[p]) : Crosses(p, i) => guard /\ crossing.at = {}
  /\ crossing.at = {} \/ (guard /\ \E p \in LinkPeers : crossing.at = {p} /\ link[p].pc = "cross")
  /\ crossing.at # {} /\ crossing.stage \in {"hop", "moving"} => \E q \in LinkPeers : crossing.next = {q}
  /\ captured => \/ crossing.at # {} /\ crossing.stage \in {"forward", "hop", "moving"}
                 \/ crossing.at = {} /\ HopWaits

(* What the crossing, or the command that carries it, will let go of.         *)
Reserved(s) ==
  \/ crossing.at = {} /\ HopWith(s)
  \/ \E p \in crossing.at : \/ s = link[p].sess /\ crossing.stage # "prepare"
                            \/ s = crossing.on /\ crossing.stage = "moving"

DesksInv ==
  /\ \A s \in desks : s \in finishing \/ Reserved(s)
  /\ \A p \in crossing.at : crossing.stage = "forward" /\ crossing.on # 0 => crossing.on = link[p].sess
  /\ crossing.at # {} /\ crossing.stage = "prepare" => crossing.on = 0

(* The inductive invariant of the links.                                     *)
MacLinkInv == LinkTypes /\ (\A s \in live : Kept(s)) /\ GuardInv /\ DesksInv

(* It holds in the behaviours that run that part.                            *)
MacLinkHolds == part = "Links" => MacLinkInv

(* No link runs, and nothing waits or is captured.                           *)
LEMMA LinksStart == MacLinkInit => MacLinkInv
  <1> SUFFICES ASSUME MacLinkInit PROVE MacLinkInv  OBVIOUS
  <1>1. Off \in LinkStates /\ Off.pc = "off" /\ Off.sess = 0 /\ Off.theirs = 0
    BY DEF Off, LinkStates
  <1>2. NoCrossing \in [stage : Stages, at : SUBSET LinkPeers, next : SUBSET LinkPeers, on : Nat] /\ NoCrossing.at = {}
    BY DEF NoCrossing, Stages
  <1>3. \A p \in LinkPeers : link[p] = Off /\ cmds[p] = <<>> /\ Len(cmds[p]) = 0
    BY DEF MacLinkInit
  <1>4. LinkTypes
    <2>1. link \in [LinkPeers -> LinkStates]
      BY <1>1 DEF MacLinkInit
    <2>2. cmds \in [LinkPeers -> Seq(LinkCommands)]
      BY DEF MacLinkInit
    <2> QED  BY <1>1, <1>2, <1>3, <2>1, <2>2 DEF LinkTypes, MacLinkInit
  <1>5. GuardInv /\ DesksInv /\ live = {}
    BY <1>2, <1>3 DEF MacLinkInit, GuardInv, DesksInv
  <1> QED  BY <1>4, <1>5 DEF MacLinkInv

(* A link's commands, one longer.                                            *)
LEMMA CommandsGrow ==
  ASSUME LinkTypes, NEW p \in LinkPeers, NEW c \in LinkCommands, cmds' = [cmds EXCEPT ![p] = Append(@, c)]
  PROVE  /\ cmds' \in [LinkPeers -> Seq(LinkCommands)]
         /\ \A q \in LinkPeers : \A i \in 1..Len(cmds[q]) : i \in 1..Len(cmds'[q]) /\ cmds'[q][i] = cmds[q][i]
         /\ \A q \in LinkPeers : \A i \in 1..Len(cmds'[q]) :
              \/ i \in 1..Len(cmds[q]) /\ cmds'[q][i] = cmds[q][i]
              \/ q = p /\ i = Len(cmds[p]) + 1 /\ cmds'[q][i] = c
         /\ Len(cmds[p]) + 1 \in 1..Len(cmds'[p]) /\ cmds'[p][Len(cmds[p]) + 1] = c
  <1>1. cmds \in [LinkPeers -> Seq(LinkCommands)]
    BY DEF LinkTypes
  <1>2. cmds'[p] = Append(cmds[p], c) /\ \A q \in LinkPeers : q # p => cmds'[q] = cmds[q]
    BY <1>1
  <1>3. /\ Append(cmds[p], c) \in Seq(LinkCommands) /\ Len(Append(cmds[p], c)) = Len(cmds[p]) + 1
        /\ \A i \in 1..Len(cmds[p]) : Append(cmds[p], c)[i] = cmds[p][i]
        /\ Append(cmds[p], c)[Len(cmds[p]) + 1] = c /\ Len(cmds[p]) \in Nat
    BY <1>1, AppendProperties, LenProperties
  <1> QED  BY <1>1, <1>2, <1>3

(* The same, one shorter.                                                    *)
LEMMA CommandTaken ==
  ASSUME LinkTypes, NEW p \in LinkPeers, cmds[p] # <<>>, cmds' = [cmds EXCEPT ![p] = Tail(@)]
  PROVE  /\ cmds' \in [LinkPeers -> Seq(LinkCommands)]
         /\ 1 \in 1..Len(cmds[p]) /\ Head(cmds[p]) = cmds[p][1] /\ Head(cmds[p]) \in LinkCommands
         /\ \A i \in 1..Len(cmds'[p]) : /\ i + 1 \in 1..Len(cmds[p]) /\ i + 1 # 1 /\ i \in Nat
                                        /\ cmds'[p][i] = cmds[p][i + 1]
         /\ \A i \in 1..Len(cmds[p]) : i = 1 \/ (i - 1 \in 1..Len(cmds'[p]) /\ cmds'[p][i - 1] = cmds[p][i])
         /\ \A q \in LinkPeers : q # p => cmds'[q] = cmds[q]
  <1>1. cmds \in [LinkPeers -> Seq(LinkCommands)] /\ cmds[p] \in Seq(LinkCommands)
    BY DEF LinkTypes
  <1>2. cmds'[p] = Tail(cmds[p]) /\ \A q \in LinkPeers : q # p => cmds'[q] = cmds[q]
    BY <1>1
  <1>3. /\ Tail(cmds[p]) \in Seq(LinkCommands) /\ Len(Tail(cmds[p])) = Len(cmds[p]) - 1 /\ Len(cmds[p]) \in Nat
        /\ Len(cmds[p]) >= 1 /\ Head(cmds[p]) = cmds[p][1]
        /\ \A i \in 1..Len(Tail(cmds[p])) : Tail(cmds[p])[i] = cmds[p][i + 1]
    BY <1>1, HeadTailProperties, EmptySeq, LenProperties
  <1>4. cmds[p][1] \in LinkCommands /\ 1 \in 1..Len(cmds[p])
    BY <1>1, <1>3
  <1>5. cmds' \in [LinkPeers -> Seq(LinkCommands)]
    BY <1>1, <1>3
  <1>6. ASSUME NEW i \in 1..Len(cmds[p]), i # 1
        PROVE  i - 1 \in 1..Len(cmds'[p]) /\ cmds'[p][i - 1] = cmds[p][i]
    <2>1. i - 1 \in 1..Len(Tail(cmds[p])) /\ (i - 1) + 1 = i
      BY <1>3, <1>6
    <2> QED  BY <1>2, <1>3, <2>1
  <1>7. ASSUME NEW i \in 1..Len(cmds'[p])
        PROVE  i + 1 \in 1..Len(cmds[p]) /\ i + 1 # 1 /\ i \in Nat /\ cmds'[p][i] = cmds[p][i + 1]
    <2>1. i \in 1..Len(Tail(cmds[p]))
      BY <1>2, <1>7
    <2>2. i + 1 \in 1..Len(cmds[p]) /\ i + 1 # 1 /\ i \in Nat
      BY <1>3, <2>1
    <2>3. Tail(cmds[p])[i] = cmds[p][i + 1]
      BY <1>3, <2>1
    <2> QED  BY <1>2, <2>2, <2>3
  <1> QED  BY <1>2, <1>3, <1>4, <1>5, <1>6, <1>7

(* Every open session still has its link, or waits for it.                   *)
LEMMA NoneOrphaned ==
  ASSUME \A s \in live : Kept(s),
         \A s \in live' : s \in live \/ Kept(s)',
         \A p \in LinkPeers : \A s \in live' : s \in {link[p].sess, link[p].theirs} => Kept(s)',
         \A s \in live' : Awaited(s) => Kept(s)'
  PROVE  \A s \in live' : Kept(s)'
  BY DEF Kept

(* What a step keeps that takes no part in a crossing.                       *)
LEMMA BesideCrossings ==
  ASSUME GuardInv, DesksInv, UNCHANGED <<guard, captured, crossing, finishing>>, desks' \subseteq desks,
         \A p \in LinkPeers : link[p].pc = "cross" => link'[p].pc = "cross" /\ link'[p].sess = link[p].sess,
         \A q, r \in LinkPeers : \A i \in 1..Len(cmds'[q]), j \in 1..Len(cmds'[r]) :
           Crosses(q, i)' /\ Crosses(r, j)' => q = r /\ i = j,
         \A q \in LinkPeers : \A i \in 1..Len(cmds'[q]) :
           Crosses(q, i)' => \E r \in LinkPeers : \E j \in 1..Len(cmds[r]) : Crosses(r, j),
         HopWaits => HopWaits',
         \A s : HopWith(s) => HopWith(s)'
  PROVE  GuardInv' /\ DesksInv'
  <1>1. \A p \in crossing.at : p \in LinkPeers /\ link'[p].sess = link[p].sess
    BY DEF GuardInv
  <1>2. crossing.at = {} \/ (guard /\ \E p \in LinkPeers : crossing.at = {p} /\ link'[p].pc = "cross")
    BY DEF GuardInv
  <1> HIDE DEF Crosses, HopWaits, HopWith
  <1>3. GuardInv'
    <2>1. \A q \in LinkPeers : \A i \in 1..Len(cmds'[q]) : Crosses(q, i)' => guard /\ crossing.at = {}
      BY DEF GuardInv
    <2>2. captured => \/ crossing.at # {} /\ crossing.stage \in {"forward", "hop", "moving"}
                      \/ crossing.at = {} /\ HopWaits'
      BY DEF GuardInv
    <2>3. crossing.at # {} /\ crossing.stage \in {"hop", "moving"} => \E q \in LinkPeers : crossing.next = {q}
      BY DEF GuardInv
    <2> QED  BY <1>2, <2>1, <2>2, <2>3 DEF GuardInv
  <1>4. \A s : Reserved(s) => Reserved(s)'
    BY <1>1 DEF Reserved
  <1>5. DesksInv'
    <2>1. \A p \in crossing.at : crossing.stage = "forward" /\ crossing.on # 0 => crossing.on = link'[p].sess
      BY <1>1 DEF DesksInv
    <2> HIDE DEF Reserved
    <2>2. \A s \in desks' : s \in finishing \/ Reserved(s)'
      BY <1>4 DEF DesksInv
    <2> QED  BY <2>1, <2>2 DEF DesksInv
  <1> QED  BY <1>3, <1>5

(* The commands stay as they are.                                            *)
LEMMA BesideQuiet ==
  ASSUME GuardInv, DesksInv, UNCHANGED <<cmds, guard, captured, crossing, finishing>>, desks' \subseteq desks,
         \A p \in LinkPeers : link[p].pc = "cross" => link'[p].pc = "cross" /\ link'[p].sess = link[p].sess
  PROVE  GuardInv' /\ DesksInv'
  <1>1. /\ \A q, i : Crosses(q, i)' <=> Crosses(q, i)
        /\ HopWaits' <=> HopWaits
        /\ \A s : HopWith(s)' <=> HopWith(s)
    BY DEF Crosses, Waits, HopWaits, HopWith
  <1>2. /\ \A q, r \in LinkPeers : \A i \in 1..Len(cmds'[q]), j \in 1..Len(cmds'[r]) :
             Crosses(q, i)' /\ Crosses(r, j)' => q = r /\ i = j
        /\ \A q \in LinkPeers : \A i \in 1..Len(cmds'[q]) :
             Crosses(q, i)' => \E r \in LinkPeers : \E j \in 1..Len(cmds[r]) : Crosses(r, j)
    <2> HIDE DEF Crosses
    <2> QED  BY <1>1 DEF GuardInv
  <1> HIDE DEF Crosses, HopWaits, HopWith
  <1> QED  BY <1>1, <1>2, BesideCrossings

(* A link gets a command that is no crossing.                                *)
LEMMA BesideAppended ==
  ASSUME LinkTypes, GuardInv, DesksInv, UNCHANGED <<link, guard, captured, crossing, finishing, desks>>,
         NEW p \in LinkPeers, NEW c \in LinkCommands, cmds' = [cmds EXCEPT ![p] = Append(@, c)],
         c.kind \in {"inbound", "retry"}
  PROVE  GuardInv' /\ DesksInv'
  <1>1. /\ \A q \in LinkPeers : \A i \in 1..Len(cmds[q]) : i \in 1..Len(cmds'[q]) /\ cmds'[q][i] = cmds[q][i]
        /\ \A q \in LinkPeers : \A i \in 1..Len(cmds'[q]) :
             \/ i \in 1..Len(cmds[q]) /\ cmds'[q][i] = cmds[q][i]
             \/ q = p /\ i = Len(cmds[p]) + 1 /\ cmds'[q][i] = c
    BY CommandsGrow
  <1>2. \A q \in LinkPeers : \A i \in 1..Len(cmds'[q]) : Crosses(q, i)' => i \in 1..Len(cmds[q]) /\ Crosses(q, i)
    BY <1>1 DEF Crosses, Waits
  <1>3. HopWaits => HopWaits'
    BY <1>1 DEF HopWaits
  <1>4. \A s : HopWith(s) => HopWith(s)'
    BY <1>1 DEF HopWith
  <1>5. /\ \A q, r \in LinkPeers : \A i \in 1..Len(cmds'[q]), j \in 1..Len(cmds'[r]) :
             Crosses(q, i)' /\ Crosses(r, j)' => q = r /\ i = j
        /\ \A q \in LinkPeers : \A i \in 1..Len(cmds'[q]) :
             Crosses(q, i)' => \E r \in LinkPeers : \E j \in 1..Len(cmds[r]) : Crosses(r, j)
    <2> HIDE DEF Crosses
    <2> QED  BY <1>2 DEF GuardInv
  <1> HIDE DEF Crosses, HopWaits, HopWith
  <1> QED  BY <1>3, <1>4, <1>5, BesideCrossings

(* A link takes a command that is no crossing.                               *)
LEMMA BesideTaken ==
  ASSUME LinkTypes, GuardInv, DesksInv, UNCHANGED <<guard, captured, crossing, finishing>>, desks' \subseteq desks,
         NEW p \in LinkPeers, cmds[p] # <<>>, cmds' = [cmds EXCEPT ![p] = Tail(@)],
         Head(cmds[p]).kind \in {"inbound", "retry"},
         \A q \in LinkPeers : link[q].pc = "cross" => link'[q].pc = "cross" /\ link'[q].sess = link[q].sess
  PROVE  GuardInv' /\ DesksInv'
  <1>1. /\ 1 \in 1..Len(cmds[p]) /\ Head(cmds[p]) = cmds[p][1]
        /\ \A i \in 1..Len(cmds'[p]) : /\ i + 1 \in 1..Len(cmds[p]) /\ i + 1 # 1 /\ i \in Nat
                                       /\ cmds'[p][i] = cmds[p][i + 1]
        /\ \A i \in 1..Len(cmds[p]) : i = 1 \/ (i - 1 \in 1..Len(cmds'[p]) /\ cmds'[p][i - 1] = cmds[p][i])
        /\ \A q \in LinkPeers : q # p => cmds'[q] = cmds[q]
    BY CommandTaken
  <1>2. \A q \in LinkPeers : \A i \in 1..Len(cmds'[q]) :
          Crosses(q, i)' => IF q = p THEN i + 1 \in 1..Len(cmds[p]) /\ Crosses(p, i + 1) /\ i \in Nat
                            ELSE i \in 1..Len(cmds[q]) /\ Crosses(q, i)
    BY <1>1 DEF Crosses, Waits
  <1>3. HopWaits => HopWaits'
    <2> SUFFICES ASSUME HopWaits PROVE HopWaits'
      OBVIOUS
    <2>1. PICK q \in LinkPeers : \E i \in 1..Len(cmds[q]) : cmds[q][i].kind = "hop"
      BY DEF HopWaits
    <2>2. PICK i \in 1..Len(cmds[q]) : cmds[q][i].kind = "hop"
      BY <2>1
    <2>3. CASE q # p
      BY <1>1, <2>2, <2>3 DEF HopWaits
    <2>4. CASE q = p
      <3>1. i - 1 \in 1..Len(cmds'[p]) /\ cmds'[p][i - 1].kind = "hop"
        BY <1>1, <2>2, <2>4
      <3> QED  BY <3>1 DEF HopWaits
    <2> QED  BY <2>3, <2>4
  <1>4. \A s : HopWith(s) => HopWith(s)'
    <2> SUFFICES ASSUME NEW s, HopWith(s) PROVE HopWith(s)'
      OBVIOUS
    <2>1. PICK q \in LinkPeers : \E i \in 1..Len(cmds[q]) : cmds[q][i].kind = "hop" /\ cmds[q][i].on = s
      BY DEF HopWith
    <2> QED  BY <1>1, <2>1 DEF HopWith
  <1>5. \A q, r \in LinkPeers : \A i \in 1..Len(cmds'[q]), j \in 1..Len(cmds'[r]) :
          Crosses(q, i)' /\ Crosses(r, j)' => q = r /\ i = j
    <2> SUFFICES ASSUME NEW q \in LinkPeers, NEW r \in LinkPeers, NEW i \in 1..Len(cmds'[q]), NEW j \in 1..Len(cmds'[r]),
                        Crosses(q, i)', Crosses(r, j)'
                 PROVE  q = r /\ i = j
      OBVIOUS
    <2> HIDE DEF Crosses
    <2>1. CASE q = p /\ r = p
      <3>1. i + 1 = j + 1 /\ i \in Nat /\ j \in Nat
        BY <1>2, <2>1 DEF GuardInv
      <3> QED  BY <2>1, <3>1
    <2>2. CASE q = p /\ r # p
      BY <1>2, <2>2 DEF GuardInv
    <2>3. CASE q # p /\ r = p
      BY <1>2, <2>3 DEF GuardInv
    <2>4. CASE q # p /\ r # p
      BY <1>2, <2>4 DEF GuardInv
    <2> QED  BY <2>1, <2>2, <2>3, <2>4
  <1>6. \A q \in LinkPeers : \A i \in 1..Len(cmds'[q]) :
          Crosses(q, i)' => \E r \in LinkPeers : \E j \in 1..Len(cmds[r]) : Crosses(r, j)
    <2> HIDE DEF Crosses
    <2> QED  BY <1>2
  <1> HIDE DEF Crosses, HopWaits, HopWith
  <1> QED  BY <1>3, <1>4, <1>5, <1>6, BesideCrossings

(* One link moves on: it keeps the sessions it had that are still open.       *)
LEMMA LinkMoves ==
  ASSUME LinkTypes, \A s \in live : Kept(s), NEW p \in LinkPeers, NEW r \in LinkStates,
         link' = [link EXCEPT ![p] = r],
         r.pc \notin {"serve", "cross"} => r.sess = 0, r.pc # "dial" => r.theirs = 0,
         cmds' \in [LinkPeers -> Seq(LinkCommands)], live' \subseteq Nat \ {0}, opened' \in Nat,
         crossing' \in [stage : Stages, at : SUBSET LinkPeers, next : SUBSET LinkPeers, on : Nat],
         \A s \in live' : s \in live \/ s \in {r.sess, r.theirs},
         \A s \in live' : s \in {link[p].sess, link[p].theirs} => s \in {r.sess, r.theirs},
         \A s \in live' : Awaited(s) => Awaited(s)' \/ s \in {r.sess, r.theirs}
  PROVE  LinkTypes' /\ (\A s \in live' : Kept(s)') /\ link'[p] = r /\ \A q \in LinkPeers : q # p => link'[q] = link[q]
  <1>1. link'[p] = r /\ \A q \in LinkPeers : q # p => link'[q] = link[q]
    BY DEF LinkTypes
  <1>2. link' \in [LinkPeers -> LinkStates]
    BY DEF LinkTypes
  <1>3. \A q \in LinkPeers : /\ link'[q].pc \notin {"serve", "cross"} => link'[q].sess = 0
                             /\ link'[q].pc # "dial" => link'[q].theirs = 0
    BY <1>1 DEF LinkTypes
  <1>4. LinkTypes'
    BY <1>2, <1>3 DEF LinkTypes
  <1> HIDE DEF Awaited
  <1>5. ASSUME NEW s \in live' PROVE Kept(s)'
    <2>1. s \in {r.sess, r.theirs} => Kept(s)'
      BY <1>1 DEF Kept
    <2>2. CASE s \in live /\ Awaited(s)
      BY <1>5, <2>1, <2>2 DEF Kept
    <2>3. CASE s \in live /\ ~Awaited(s)
      <3>1. PICK q \in LinkPeers : s \in {link[q].sess, link[q].theirs}
        BY <2>3 DEF Kept
      <3> QED  BY <1>1, <1>5, <2>1, <3>1 DEF Kept
    <2> QED  BY <1>5, <2>1, <2>2, <2>3
  <1> QED  BY <1>1, <1>4, <1>5

(* No link moves.                                                            *)
LEMMA LinksStay ==
  ASSUME LinkTypes, \A s \in live : Kept(s), UNCHANGED link,
         cmds' \in [LinkPeers -> Seq(LinkCommands)], live' \subseteq Nat \ {0}, opened' \in Nat,
         crossing' \in [stage : Stages, at : SUBSET LinkPeers, next : SUBSET LinkPeers, on : Nat],
         \A s \in live' : s \in live \/ Awaited(s)',
         \A s \in live' : Awaited(s) => Awaited(s)'
  PROVE  LinkTypes' /\ \A s \in live' : Kept(s)'
  <1>1. LinkTypes'
    BY DEF LinkTypes
  <1> HIDE DEF Awaited
  <1>2. \A s \in live' : Kept(s)'
    BY DEF Kept
  <1> QED  BY <1>1, <1>2

(* A link moves on, its commands and the crossing staying as they are.         *)
LEMMA LinkMovesAlone ==
  ASSUME MacLinkInv, NEW p \in LinkPeers, NEW r \in LinkStates,
         UNCHANGED <<cmds, guard, captured, crossing, finishing>>, desks' \subseteq desks,
         link' = [link EXCEPT ![p] = r],
         r.pc \notin {"serve", "cross"} => r.sess = 0, r.pc # "dial" => r.theirs = 0,
         link[p].pc = "cross" => r.pc = "cross" /\ r.sess = link[p].sess,
         live' \subseteq Nat \ {0}, opened' \in Nat,
         \A s \in live' : s \in live \/ s \in {r.sess, r.theirs},
         \A s \in live' : s \in {link[p].sess, link[p].theirs} => s \in {r.sess, r.theirs}
  PROVE  MacLinkInv'
  <1>1. /\ cmds' \in [LinkPeers -> Seq(LinkCommands)]
        /\ crossing' \in [stage : Stages, at : SUBSET LinkPeers, next : SUBSET LinkPeers, on : Nat]
        /\ LinkTypes /\ (\A s \in live : Kept(s)) /\ GuardInv /\ DesksInv
    BY DEF MacLinkInv, LinkTypes
  <1>2. \A s : Awaited(s)' <=> Awaited(s)
    BY DEF Awaited
  <1>3. /\ LinkTypes' /\ (\A s \in live' : Kept(s)')
        /\ link'[p] = r /\ \A q \in LinkPeers : q # p => link'[q] = link[q]
    <2> HIDE DEF Awaited, Kept, LinkTypes
    <2> QED  BY <1>1, <1>2, LinkMoves
  <1>4. GuardInv' /\ DesksInv'
    BY <1>1, <1>3, BesideQuiet
  <1> QED  BY <1>3, <1>4 DEF MacLinkInv

(* A link starts, loses its sender, or its task ends with no command left.      *)
LEMMA LinkComesAndGoes ==
  ASSUME MacLinkInv, NEW p \in LinkPeers, sync_links(p) \/ stopped(p)
  PROVE  MacLinkInv'
  <1>1. link[p] \in LinkStates /\ LinkTypes /\ 0 \notin live /\ live \subseteq Nat \ {0} /\ opened \in Nat
    BY DEF MacLinkInv, LinkTypes
  <1>2. CASE sync_links(p) /\ link[p].pc = "off" /\ link' = [link EXCEPT ![p] = [Off EXCEPT !.pc = "dial", !.open = TRUE]]
    <2> DEFINE r == [Off EXCEPT !.pc = "dial", !.open = TRUE]
    <2>1. r \in LinkStates /\ r.pc = "dial" /\ r.sess = 0 /\ r.theirs = 0
      BY DEF Off, LinkStates
    <2>2. link' = [link EXCEPT ![p] = r] /\ link[p].sess = 0 /\ link[p].theirs = 0
      BY <1>1, <1>2 DEF LinkTypes
    <2>3. UNCHANGED <<cmds, live, opened, guard, captured, crossing, desks, finishing>>
      BY <1>2 DEF sync_links
    <2> HIDE DEF r
    <2> QED  BY <1>1, <1>2, <2>1, <2>2, <2>3, LinkMovesAlone
  <1>3. CASE sync_links(p) /\ link' = [link EXCEPT ![p].open = FALSE]
    <2> DEFINE r == [link[p] EXCEPT !.open = FALSE]
    <2>1. r \in LinkStates /\ r.pc = link[p].pc /\ r.sess = link[p].sess /\ r.theirs = link[p].theirs
      BY <1>1 DEF LinkStates
    <2>2. link' = [link EXCEPT ![p] = r]
      BY <1>3
    <2>3. UNCHANGED <<cmds, live, opened, guard, captured, crossing, desks, finishing>>
      BY <1>3 DEF sync_links
    <2>4. (r.pc \notin {"serve", "cross"} => r.sess = 0) /\ (r.pc # "dial" => r.theirs = 0)
      BY <1>1, <2>1 DEF LinkTypes
    <2> HIDE DEF r
    <2> QED  BY <1>1, <2>1, <2>2, <2>3, <2>4, LinkMovesAlone
  <1>4. CASE stopped(p)
    <2>1. Off \in LinkStates /\ Off.pc = "off" /\ Off.sess = 0 /\ Off.theirs = 0
      BY DEF Off, LinkStates
    <2>2. /\ link' = [link EXCEPT ![p] = Off] /\ link[p].pc # "cross" /\ opened' = opened
          /\ live' = live \ {link[p].sess, link[p].theirs} /\ desks' = desks \ {link[p].sess, link[p].theirs}
          /\ UNCHANGED <<cmds, guard, captured, crossing, finishing>>
      BY <1>4 DEF stopped, Closed
    <2> QED  BY <1>1, <2>1, <2>2, LinkMovesAlone
  <1> QED  BY <1>2, <1>3, <1>4 DEF sync_links

(* Its dial ends, and one session is kept of the two.                          *)
LEMMA KeepOneStep ==
  ASSUME MacLinkInv, NEW p \in LinkPeers, keep_one(p)
  PROVE  MacLinkInv'
  <1>1. link[p] \in LinkStates /\ LinkTypes /\ live \subseteq Nat \ {0} /\ opened \in Nat
    BY DEF MacLinkInv, LinkTypes
  <1>2. link[p].pc = "dial" /\ link[p].sess = 0 /\ UNCHANGED <<cmds, guard, captured, crossing, finishing>>
    BY <1>1 DEF keep_one, LinkTypes
  <1>3. ASSUME NEW s \in Nat, NEW young \in BOOLEAN
        PROVE  /\ Serving(p, s, young) \in LinkStates /\ Serving(p, s, young).pc = "serve"
               /\ Serving(p, s, young).sess = s /\ Serving(p, s, young).theirs = 0
    BY <1>1 DEF Serving, LinkStates
  <1>4. /\ Idle(p, "wait") \in LinkStates /\ Idle(p, "wait").pc = "wait"
        /\ Idle(p, "wait").sess = 0 /\ Idle(p, "wait").theirs = 0
    BY <1>1 DEF Idle, LinkStates
  <1>5. link[p].theirs \in Nat /\ opened + 1 \in Nat \ {0}
    BY <1>1 DEF LinkStates
  <1>6. CASE /\ link' = [link EXCEPT ![p] = Serving(p, opened + 1, TRUE)]
             /\ live' = (live \cup {opened + 1}) \ {link[p].theirs} /\ desks' = desks \ {link[p].theirs}
             /\ opened' = opened + 1
    <2> DEFINE r == Serving(p, opened + 1, TRUE)
    <2>1. r \in LinkStates /\ r.pc = "serve" /\ r.sess = opened + 1 /\ r.theirs = 0 /\ link' = [link EXCEPT ![p] = r]
      BY <1>3, <1>5, <1>6
    <2>2. desks' \subseteq desks /\ live' \subseteq Nat \ {0} /\ opened' \in Nat /\ 0 \notin live'
      BY <1>1, <1>5, <1>6
    <2>3. /\ \A s \in live' : s \in live \/ s \in {r.sess, r.theirs}
          /\ \A s \in live' : s \in {link[p].sess, link[p].theirs} => s \in {r.sess, r.theirs}
      BY <1>2, <1>6, <2>1, <2>2
    <2> HIDE DEF r
    <2> QED  BY <1>2, <2>1, <2>2, <2>3, LinkMovesAlone
  <1>7. CASE /\ link' = [link EXCEPT ![p] = Serving(p, link[p].theirs, FALSE)]
             /\ live' = live /\ desks' = desks /\ opened' \in Nat
    <2> DEFINE r == Serving(p, link[p].theirs, FALSE)
    <2>1. r \in LinkStates /\ r.pc = "serve" /\ r.sess = link[p].theirs /\ r.theirs = 0 /\ link' = [link EXCEPT ![p] = r]
      BY <1>3, <1>5, <1>7
    <2>2. 0 \notin live' /\ live' \subseteq Nat \ {0}
      BY <1>1, <1>7
    <2> HIDE DEF r
    <2> QED  BY <1>2, <1>7, <2>1, <2>2, LinkMovesAlone
  <1>8. CASE /\ link' = [link EXCEPT ![p] = Idle(p, "wait")] /\ link[p].theirs = 0
             /\ live' = live /\ desks' = desks /\ opened' \in Nat
    <2> HIDE DEF Idle
    <2> QED  BY <1>1, <1>2, <1>4, <1>5, <1>8, LinkMovesAlone
  <1> HIDE DEF Serving, Idle
  <1> QED  BY <1>1, <1>5, <1>6, <1>7, <1>8 DEF keep_one

(* The wait for the next dial ends, a dial ages, the peer's desktop shows, or  *)
(* the session turns out lost.                                               *)
LEMMA LinkWaits ==
  ASSUME MacLinkInv, NEW p \in LinkPeers,
         wait_ends(p) \/ DialAges(p) \/ serve_lost(p) \/ \E ready \in BOOLEAN : show(p, ready)
  PROVE  MacLinkInv'
  <1>1. link[p] \in LinkStates /\ LinkTypes /\ live \subseteq Nat \ {0} /\ opened \in Nat
    BY DEF MacLinkInv, LinkTypes
  <1>2. UNCHANGED <<cmds, live, opened, guard, captured, crossing, desks, finishing>>
    BY DEF wait_ends, DialAges, serve_lost, show
  <1>3. ASSUME NEW r \in LinkStates, link' = [link EXCEPT ![p] = r], r.sess = link[p].sess, r.theirs = link[p].theirs,
               r.pc = link[p].pc \/ (link[p].pc = "wait" /\ r.pc = "dial")
        PROVE  MacLinkInv'
    <2>1. (r.pc \notin {"serve", "cross"} => r.sess = 0) /\ (r.pc # "dial" => r.theirs = 0)
      BY <1>1, <1>3 DEF LinkTypes
    <2> QED  BY <1>1, <1>2, <1>3, <2>1, LinkMovesAlone
  <1>4. CASE wait_ends(p)
    <2> DEFINE r == [link[p] EXCEPT !.pc = "dial"]
    <2>1. r \in LinkStates /\ r.sess = link[p].sess /\ r.theirs = link[p].theirs /\ r.pc = "dial"
      BY <1>1 DEF LinkStates
    <2>2. link' = [link EXCEPT ![p] = r] /\ link[p].pc = "wait"
      BY <1>4 DEF wait_ends
    <2> HIDE DEF r
    <2> QED  BY <1>3, <2>1, <2>2
  <1>5. CASE DialAges(p)
    <2> DEFINE r == [link[p] EXCEPT !.young = FALSE]
    <2>1. r \in LinkStates /\ r.sess = link[p].sess /\ r.theirs = link[p].theirs /\ r.pc = link[p].pc
      BY <1>1 DEF LinkStates
    <2>2. link' = [link EXCEPT ![p] = r]
      BY <1>5 DEF DialAges
    <2> HIDE DEF r
    <2> QED  BY <1>3, <2>1, <2>2
  <1>6. ASSUME NEW ready \in BOOLEAN, show(p, ready) PROVE MacLinkInv'
    <2> DEFINE r == [link[p] EXCEPT !.ready = ready]
    <2>1. r \in LinkStates /\ r.sess = link[p].sess /\ r.theirs = link[p].theirs /\ r.pc = link[p].pc
      BY <1>1 DEF LinkStates
    <2>2. link' = [link EXCEPT ![p] = r]
      BY <1>6 DEF show
    <2> HIDE DEF r
    <2> QED  BY <1>3, <2>1, <2>2
  <1>7. CASE serve_lost(p)
    <2>1. /\ Idle(p, "wait") \in LinkStates /\ Idle(p, "wait").pc = "wait"
          /\ Idle(p, "wait").sess = 0 /\ Idle(p, "wait").theirs = 0
      BY <1>1 DEF Idle, LinkStates
    <2>2. /\ link' = [link EXCEPT ![p] = Idle(p, "wait")] /\ link[p].pc = "serve" /\ link[p].sess \notin live
          /\ link[p].theirs = 0
      BY <1>1, <1>7 DEF serve_lost, LinkTypes
    <2> HIDE DEF Idle
    <2> QED  BY <1>1, <1>2, <2>1, <2>2, LinkMovesAlone
  <1> QED  BY <1>4, <1>5, <1>6, <1>7

(* A session is lost, and with it the desktop prepared on it.                   *)
LEMMA SessionIsLost ==
  ASSUME MacLinkInv, NEW s \in live, Lost(s)
  PROVE  MacLinkInv'
  <1>1. /\ UNCHANGED <<link, cmds, opened, guard, captured, crossing, finishing>>
        /\ live' = live \ {s} /\ desks' \subseteq desks
    BY DEF Lost, Closed
  <1>2. LinkTypes /\ (\A x \in live : Kept(x)) /\ GuardInv /\ DesksInv
    BY DEF MacLinkInv
  <1>3. \A x : Awaited(x)' <=> Awaited(x)
    BY <1>1 DEF Awaited
  <1>4. LinkTypes' /\ \A x \in live' : Kept(x)'
    <2>1. /\ cmds' \in [LinkPeers -> Seq(LinkCommands)] /\ live' \subseteq Nat \ {0} /\ opened' \in Nat
          /\ crossing' \in [stage : Stages, at : SUBSET LinkPeers, next : SUBSET LinkPeers, on : Nat]
      BY <1>1, <1>2 DEF LinkTypes
    <2> HIDE DEF LinkTypes, Kept, Awaited
    <2> QED  BY <1>1, <1>2, <1>3, <2>1, LinksStay
  <1>5. GuardInv' /\ DesksInv'
    BY <1>1, <1>2, BesideQuiet
  <1> QED  BY <1>4, <1>5 DEF MacLinkInv

(* A Finish of its own arrives.                                              *)
LEMMA FinishedStep ==
  ASSUME MacLinkInv, NEW s \in finishing, Finished(s)
  PROVE  MacLinkInv'
  <1>1. /\ UNCHANGED <<link, cmds, live, opened, guard, captured, crossing>>
        /\ finishing' = finishing \ {s} /\ desks' = desks \ {s}
    BY DEF Finished
  <1>2. LinkTypes' /\ (\A x \in live' : Kept(x)')
    BY <1>1 DEF MacLinkInv, LinkTypes, Kept, Awaited
  <1>3. /\ \A q, i : Crosses(q, i)' <=> Crosses(q, i)
        /\ HopWaits' <=> HopWaits
        /\ \A x : HopWith(x)' <=> HopWith(x)
    BY <1>1 DEF Crosses, Waits, HopWaits, HopWith
  <1>4. GuardInv'
    <2> HIDE DEF Crosses, HopWaits
    <2> QED  BY <1>1, <1>3 DEF MacLinkInv, GuardInv
  <1>5. DesksInv'
    <2> HIDE DEF HopWith
    <2>1. \A x : Reserved(x)' <=> Reserved(x)
      BY <1>1, <1>3 DEF Reserved
    <2> HIDE DEF Reserved
    <2>2. \A x \in desks' : x \in finishing' \/ Reserved(x)'
      BY <1>1, <2>1 DEF MacLinkInv, DesksInv
    <2>3. \A p \in crossing'.at : crossing'.stage = "forward" /\ crossing'.on # 0 => crossing'.on = link'[p].sess
      BY <1>1 DEF MacLinkInv, DesksInv
    <2>4. crossing'.at # {} /\ crossing'.stage = "prepare" => crossing'.on = 0
      BY <1>1 DEF MacLinkInv, DesksInv
    <2> QED  BY <2>2, <2>3, <2>4 DEF DesksInv
  <1> QED  BY <1>2, <1>4, <1>5 DEF MacLinkInv

(* A link is told of a session that its peer opened, or to dial again.           *)
LEMMA LinkIsTold ==
  ASSUME MacLinkInv, NEW p \in LinkPeers, retry(p) \/ open_inbound(p)
  PROVE  MacLinkInv'
  <1>1. LinkTypes /\ (\A x \in live : Kept(x)) /\ GuardInv /\ DesksInv /\ opened \in Nat /\ live \subseteq Nat \ {0}
    BY DEF MacLinkInv, LinkTypes
  <1>2. ASSUME NEW c \in LinkCommands, cmds' = [cmds EXCEPT ![p] = Append(@, c)], c.kind \in {"inbound", "retry"},
               UNCHANGED <<link, guard, captured, crossing, finishing, desks>>,
               live' \subseteq Nat \ {0}, opened' \in Nat,
               \A s \in live' : s \in live \/ (s = c.on /\ c.kind = "inbound")
        PROVE  MacLinkInv'
    <2>1. /\ cmds' \in [LinkPeers -> Seq(LinkCommands)]
          /\ \A q \in LinkPeers : \A i \in 1..Len(cmds[q]) : i \in 1..Len(cmds'[q]) /\ cmds'[q][i] = cmds[q][i]
          /\ Len(cmds[p]) + 1 \in 1..Len(cmds'[p]) /\ cmds'[p][Len(cmds[p]) + 1] = c
      BY <1>1, <1>2, CommandsGrow
    <2>2. \A s : Awaited(s) => Awaited(s)'
      BY <2>1 DEF Awaited
    <2>3. \A s \in live' : s \in live \/ Awaited(s)'
      BY <1>2, <2>1 DEF Awaited
    <2>4. LinkTypes' /\ \A x \in live' : Kept(x)'
      <3>1. crossing' \in [stage : Stages, at : SUBSET LinkPeers, next : SUBSET LinkPeers, on : Nat]
        BY <1>1, <1>2 DEF LinkTypes
      <3> HIDE DEF LinkTypes, Kept, Awaited
      <3> QED  BY <1>1, <1>2, <2>1, <2>2, <2>3, <3>1, LinksStay
    <2>5. GuardInv' /\ DesksInv'
      BY <1>1, <1>2, BesideAppended
    <2> QED  BY <2>4, <2>5 DEF MacLinkInv
  <1>3. CASE retry(p)
    <2>1. Retry \in LinkCommands /\ Retry.kind = "retry"
      BY DEF Retry, LinkCommands
    <2>2. /\ cmds' = [cmds EXCEPT ![p] = Append(@, Retry)]
          /\ UNCHANGED <<link, live, opened, guard, captured, crossing, finishing, desks>>
      BY <1>3 DEF retry
    <2> QED  BY <1>1, <1>2, <2>1, <2>2
  <1>4. CASE open_inbound(p)
    <2>1. Inbound(opened + 1) \in LinkCommands /\ Inbound(opened + 1).kind = "inbound" /\ Inbound(opened + 1).on = opened + 1
      BY <1>1 DEF Inbound, LinkCommands
    <2>2. /\ cmds' = [cmds EXCEPT ![p] = Append(@, Inbound(opened + 1))] /\ live' = live \cup {opened + 1}
          /\ UNCHANGED <<link, guard, captured, crossing, finishing, desks>> /\ opened' = opened + 1
      BY <1>4 DEF open_inbound
    <2>3. live' \subseteq Nat \ {0} /\ opened' \in Nat
      BY <1>1, <2>2
    <2> HIDE DEF Inbound
    <2>4. \A s \in live' : s \in live \/ (s = Inbound(opened + 1).on /\ Inbound(opened + 1).kind = "inbound")
      BY <2>1, <2>2
    <2> QED  BY <1>2, <2>1, <2>2, <2>3, <2>4
  <1> QED  BY <1>3, <1>4

(* A link takes the session its peer opened, or dials again.                    *)
LEMMA LinkTakes ==
  ASSUME MacLinkInv, NEW p \in LinkPeers, cmds[p] # <<>>, cmds' = [cmds EXCEPT ![p] = Tail(@)],
         UNCHANGED opened, link[p].pc \in {"dial", "wait", "serve"},
         TakeInbound(p, Head(cmds[p])) \/ TakeRetry(p, Head(cmds[p]))
  PROVE  MacLinkInv'
  <1> DEFINE c == Head(cmds[p])
  <1>1. /\ LinkTypes /\ (\A x \in live : Kept(x)) /\ GuardInv /\ DesksInv /\ opened \in Nat /\ live \subseteq Nat \ {0}
        /\ link[p] \in LinkStates
    BY DEF MacLinkInv, LinkTypes
  <1>2. /\ cmds' \in [LinkPeers -> Seq(LinkCommands)] /\ c \in LinkCommands /\ c = cmds[p][1]
        /\ \A i \in 1..Len(cmds[p]) : i = 1 \/ (i - 1 \in 1..Len(cmds'[p]) /\ cmds'[p][i - 1] = cmds[p][i])
        /\ \A q \in LinkPeers : q # p => cmds'[q] = cmds[q]
    BY <1>1, CommandTaken
  <1>3. c.on \in Nat /\ c.kind \in {"inbound", "retry"} /\ UNCHANGED <<guard, captured, crossing, finishing>>
    BY <1>2 DEF LinkCommands, TakeInbound, TakeRetry
  <1>4. \A s : Awaited(s) => Awaited(s)' \/ (c.kind = "inbound" /\ s = c.on)
    <2> SUFFICES ASSUME NEW s, Awaited(s), ~(c.kind = "inbound" /\ s = c.on) PROVE Awaited(s)'
      OBVIOUS
    <2>1. PICK q \in LinkPeers : \E i \in 1..Len(cmds[q]) : cmds[q][i].kind = "inbound" /\ cmds[q][i].on = s
      BY DEF Awaited
    <2>2. PICK i \in 1..Len(cmds[q]) : cmds[q][i].kind = "inbound" /\ cmds[q][i].on = s
      BY <2>1
    <2>3. CASE q # p
      BY <1>2, <2>2, <2>3 DEF Awaited
    <2>4. CASE q = p
      <3>1. i # 1
        BY <1>2, <2>2, <2>4
      <3>2. i - 1 \in 1..Len(cmds'[p]) /\ cmds'[p][i - 1] = cmds[p][i]
        BY <1>2, <2>4, <3>1
      <3>3. \E j \in 1..Len(cmds'[p]) : cmds'[p][j].kind = "inbound" /\ cmds'[p][j].on = s
        BY <2>2, <2>4, <3>2
      <3> QED  BY <3>3 DEF Awaited
    <2> QED  BY <2>3, <2>4
  <1> HIDE DEF c
  <1>5. ASSUME NEW r \in LinkStates, link' = [link EXCEPT ![p] = r],
               r.pc \notin {"serve", "cross"} => r.sess = 0, r.pc # "dial" => r.theirs = 0,
               desks' \subseteq desks, live' \subseteq live,
               \A s \in live' : s \in {link[p].sess, link[p].theirs} => s \in {r.sess, r.theirs},
               c.kind = "inbound" => c.on \in {r.sess, r.theirs} \/ c.on \notin live'
        PROVE  MacLinkInv'
    <2>1. live' \subseteq Nat \ {0} /\ opened' \in Nat
      BY <1>1, <1>5
    <2>2. \A s \in live' : Awaited(s) => Awaited(s)' \/ s \in {r.sess, r.theirs}
      <3> HIDE DEF Awaited
      <3> QED  BY <1>4, <1>5
    <2>3. crossing' \in [stage : Stages, at : SUBSET LinkPeers, next : SUBSET LinkPeers, on : Nat]
      BY <1>1, <1>3 DEF LinkTypes
    <2>4. /\ LinkTypes' /\ (\A s \in live' : Kept(s)')
          /\ link'[p] = r /\ \A q \in LinkPeers : q # p => link'[q] = link[q]
      <3> HIDE DEF LinkTypes, Kept, Awaited
      <3> QED  BY <1>1, <1>2, <1>5, <2>1, <2>2, <2>3, LinkMoves
    <2>5. GuardInv' /\ DesksInv'
      BY <1>1, <1>3, <1>5, <2>4, BesideTaken DEF c
    <2> QED  BY <2>4, <2>5 DEF MacLinkInv
  <1>6. ASSUME NEW s \in Nat
        PROVE  /\ Serving(p, s, FALSE) \in LinkStates /\ Serving(p, s, FALSE).pc = "serve"
               /\ Serving(p, s, FALSE).sess = s /\ Serving(p, s, FALSE).theirs = 0
    BY <1>1 DEF Serving, LinkStates
  <1>7. CASE TakeRetry(p, c)
    <2> DEFINE r == [link[p] EXCEPT !.ready = FALSE, !.pc = IF @ = "wait" THEN "dial" ELSE @]
    <2>1. /\ r \in LinkStates /\ r.sess = link[p].sess /\ r.theirs = link[p].theirs
          /\ r.pc = IF link[p].pc = "wait" THEN "dial" ELSE link[p].pc
      BY <1>1 DEF LinkStates
    <2>2. link' = [link EXCEPT ![p] = r] /\ live' = live /\ desks' = desks /\ c.kind = "retry"
      BY <1>7 DEF TakeRetry
    <2>3. (r.pc \notin {"serve", "cross"} => r.sess = 0) /\ (r.pc # "dial" => r.theirs = 0)
      BY <1>1, <2>1 DEF LinkTypes
    <2> HIDE DEF r
    <2> QED  BY <1>5, <2>1, <2>2, <2>3
  <1>8. CASE TakeInbound(p, c) /\ link[p].pc = "dial" /\ link' = [link EXCEPT ![p].theirs = c.on] /\ Closed(older(p))
    <2> DEFINE r == [link[p] EXCEPT !.theirs = c.on]
    <2>1. r \in LinkStates /\ r.sess = link[p].sess /\ r.theirs = c.on /\ r.pc = "dial"
      BY <1>1, <1>3, <1>8 DEF LinkStates
    <2>2. /\ link' = [link EXCEPT ![p] = r] /\ live' = live \ {link[p].theirs} /\ desks' = desks \ {link[p].theirs}
          /\ link[p].sess = 0
      BY <1>1, <1>8 DEF Closed, older, LinkTypes
    <2> HIDE DEF r
    <2> QED  BY <1>5, <2>1, <2>2
  <1>9. CASE TakeInbound(p, c) /\ link' = [link EXCEPT ![p] = Serving(p, c.on, FALSE)]
             /\ link[p].theirs = 0 /\ live' = live \ {link[p].sess} /\ desks' \subseteq desks
    <2> HIDE DEF Serving
    <2> QED  BY <1>1, <1>3, <1>5, <1>6, <1>9
  <1>10. CASE TakeInbound(p, c) /\ UNCHANGED link /\ link[p].pc = "serve" /\ Closed({c.on})
    <2>1. /\ link' = [link EXCEPT ![p] = link[p]] /\ live' = live \ {c.on} /\ desks' = desks \ {c.on}
      BY <1>1, <1>10 DEF Closed, LinkTypes
    <2>2. (link[p].pc \notin {"serve", "cross"} => link[p].sess = 0) /\ (link[p].pc # "dial" => link[p].theirs = 0)
      BY <1>1 DEF LinkTypes
    <2> QED  BY <1>1, <1>5, <2>1, <2>2
  <1>11. CASE TakeInbound(p, c)
    <2>1. link[p].pc # "dial" => link[p].theirs = 0
      BY <1>1 DEF LinkTypes
    <2>2. link[p].pc = "wait" => link[p].sess = 0 /\ live \ {0} = live
      BY <1>1 DEF LinkTypes
    <2> HIDE DEF Serving, LinkTypes, older
    <2> QED  BY <1>1, <1>8, <1>9, <1>10, <1>11, <2>1, <2>2 DEF TakeInbound, Closed
  <1> QED  BY <1>7, <1>11 DEF c

-----------------------------------------------------------------------------
(* No command carries a crossing.                                            *)
NoneCrosses == \A q \in LinkPeers : \A i \in 1..Len(cmds[q]) : cmds[q][i].kind \notin {"edge", "hop"}

LEMMA WithNoCrossing ==
  ASSUME NoneCrosses
  PROVE  /\ \A q \in LinkPeers : \A i \in 1..Len(cmds[q]) : ~Crosses(q, i)
         /\ ~HopWaits /\ \A s : ~HopWith(s)
  BY DEF NoneCrosses, Crosses, HopWaits, HopWith

(* None does while a crossing runs, or while nothing guards the input.          *)
LEMMA NothingElseCrosses ==
  ASSUME GuardInv, crossing.at # {} \/ ~guard
  PROVE  NoneCrosses /\ (crossing.at = {} => ~captured)
  <1>1. NoneCrosses
    BY DEF GuardInv, NoneCrosses, Crosses, Waits
  <1>2. ~HopWaits
    BY <1>1, WithNoCrossing
  <1> HIDE DEF NoneCrosses, HopWaits
  <1> QED  BY <1>1, <1>2 DEF GuardInv

(* A crossing is over: its input is given back, and its desktops are let go.     *)
LEMMA CrossingIsOver ==
  ASSUME NoneCrosses', crossing'.at = {}, ~captured', desks' \subseteq finishing'
  PROVE  GuardInv' /\ DesksInv'
  <1>1. \A q \in LinkPeers : \A i \in 1..Len(cmds'[q]) : ~Crosses(q, i)'
    BY DEF NoneCrosses, Crosses
  <1> HIDE DEF Crosses, HopWaits, NoneCrosses
  <1>2. GuardInv'
    BY <1>1 DEF GuardInv
  <1>3. DesksInv'
    BY DEF DesksInv
  <1> QED  BY <1>2, <1>3

(* It goes on, on its link.                                                  *)
LEMMA CrossingGoesOn ==
  ASSUME NoneCrosses', NEW p \in LinkPeers, crossing'.at = {p}, link'[p].pc = "cross", guard',
         crossing'.stage \in {"hop", "moving"} => \E q \in LinkPeers : crossing'.next = {q},
         captured' => crossing'.stage \in {"forward", "hop", "moving"},
         \A s \in desks' : \/ s \in finishing'
                           \/ s = link'[p].sess /\ crossing'.stage # "prepare"
                           \/ s = crossing'.on /\ crossing'.stage = "moving",
         crossing'.stage = "forward" /\ crossing'.on # 0 => crossing'.on = link'[p].sess,
         crossing'.stage = "prepare" => crossing'.on = 0
  PROVE  GuardInv' /\ DesksInv'
  <1>1. \A q \in LinkPeers : \A i \in 1..Len(cmds'[q]) : ~Crosses(q, i)'
    BY DEF NoneCrosses, Crosses
  <1> HIDE DEF Crosses, HopWaits, NoneCrosses
  <1>2. GuardInv'
    <2>1. guard' /\ \E x \in LinkPeers : crossing'.at = {x} /\ link'[x].pc = "cross"
      OBVIOUS
    <2>2. crossing'.at # {}
      OBVIOUS
    <2> QED  BY <1>1, <2>1, <2>2 DEF GuardInv
  <1>3. DesksInv'
    <2> HIDE DEF HopWith
    <2> QED  BY DEF DesksInv, Reserved
  <1> QED  BY <1>2, <1>3

(* The one crossing that a link could take is taken.                          *)
LEMMA CrossingTaken ==
  ASSUME LinkTypes, GuardInv, NEW p \in LinkPeers, cmds[p] # <<>>, cmds' = [cmds EXCEPT ![p] = Tail(@)],
         Head(cmds[p]).kind \in {"edge", "hop"}
  PROVE  /\ NoneCrosses' /\ guard /\ crossing.at = {}
         /\ captured => Head(cmds[p]).kind = "hop"
         /\ \A s : HopWith(s) => Head(cmds[p]).kind = "hop" /\ s = Head(cmds[p]).on
         /\ \A s : Awaited(s) => Awaited(s)'
  <1>1. /\ 1 \in 1..Len(cmds[p]) /\ Head(cmds[p]) = cmds[p][1]
        /\ \A i \in 1..Len(cmds'[p]) : /\ i + 1 \in 1..Len(cmds[p]) /\ i + 1 # 1 /\ i \in Nat
                                       /\ cmds'[p][i] = cmds[p][i + 1]
        /\ \A i \in 1..Len(cmds[p]) : i = 1 \/ (i - 1 \in 1..Len(cmds'[p]) /\ cmds'[p][i - 1] = cmds[p][i])
        /\ \A q \in LinkPeers : q # p => cmds'[q] = cmds[q]
    BY CommandTaken
  <1>2. Crosses(p, 1)
    BY <1>1 DEF Crosses, Waits
  <1>3. guard /\ crossing.at = {}
    <2> HIDE DEF Crosses
    <2> QED  BY <1>1, <1>2 DEF GuardInv
  <1>4. ASSUME NEW q \in LinkPeers, NEW i \in 1..Len(cmds[q]), Crosses(q, i) PROVE q = p /\ i = 1
    <2> HIDE DEF Crosses
    <2> QED  BY <1>1, <1>2, <1>4 DEF GuardInv
  <1>5. NoneCrosses'
    <2> SUFFICES ASSUME NEW q \in LinkPeers, NEW i \in 1..Len(cmds'[q]), cmds'[q][i].kind \in {"edge", "hop"}
                 PROVE  FALSE
      BY DEF NoneCrosses
    <2>1. CASE q = p
      <3>1. i + 1 \in 1..Len(cmds[p]) /\ i + 1 # 1 /\ cmds[p][i + 1].kind \in {"edge", "hop"}
        BY <1>1, <2>1
      <3>2. Crosses(p, i + 1)
        BY <3>1 DEF Crosses, Waits
      <3> HIDE DEF Crosses
      <3> QED  BY <1>4, <3>1, <3>2
    <2>2. CASE q # p
      <3>1. i \in 1..Len(cmds[q]) /\ cmds[q][i].kind \in {"edge", "hop"}
        BY <1>1, <2>2
      <3>2. Crosses(q, i)
        BY <3>1 DEF Crosses, Waits
      <3> HIDE DEF Crosses
      <3> QED  BY <1>4, <2>2, <3>1, <3>2
    <2> QED  BY <2>1, <2>2
  <1>6. \A s : HopWith(s) => Head(cmds[p]).kind = "hop" /\ s = Head(cmds[p]).on
    <2> SUFFICES ASSUME NEW s, HopWith(s) PROVE Head(cmds[p]).kind = "hop" /\ s = Head(cmds[p]).on
      OBVIOUS
    <2>1. PICK q \in LinkPeers : \E i \in 1..Len(cmds[q]) : cmds[q][i].kind = "hop" /\ cmds[q][i].on = s
      BY DEF HopWith
    <2>2. PICK i \in 1..Len(cmds[q]) : cmds[q][i].kind = "hop" /\ cmds[q][i].on = s
      BY <2>1
    <2>3. Crosses(q, i)
      BY <2>2 DEF Crosses, Waits
    <2> HIDE DEF Crosses
    <2> QED  BY <1>1, <1>4, <2>2, <2>3
  <1>7. captured => Head(cmds[p]).kind = "hop"
    <2>1. HopWaits => Head(cmds[p]).kind = "hop"
      <3> SUFFICES ASSUME HopWaits PROVE Head(cmds[p]).kind = "hop"
        OBVIOUS
      <3>1. PICK q \in LinkPeers : \E i \in 1..Len(cmds[q]) : cmds[q][i].kind = "hop"
        BY DEF HopWaits
      <3>2. PICK i \in 1..Len(cmds[q]) : cmds[q][i].kind = "hop"
        BY <3>1
      <3>3. Crosses(q, i)
        BY <3>2 DEF Crosses, Waits
      <3> HIDE DEF Crosses
      <3> QED  BY <1>1, <1>4, <3>2, <3>3
    <2> HIDE DEF HopWaits, Crosses
    <2> QED  BY <1>3, <2>1 DEF GuardInv
  <1>8. \A s : Awaited(s) => Awaited(s)'
    <2> SUFFICES ASSUME NEW s, Awaited(s) PROVE Awaited(s)'
      OBVIOUS
    <2>1. PICK q \in LinkPeers : \E i \in 1..Len(cmds[q]) : cmds[q][i].kind = "inbound" /\ cmds[q][i].on = s
      BY DEF Awaited
    <2>2. PICK i \in 1..Len(cmds[q]) : cmds[q][i].kind = "inbound" /\ cmds[q][i].on = s
      BY <2>1
    <2>3. CASE q # p
      BY <1>1, <2>2, <2>3 DEF Awaited
    <2>4. CASE q = p
      <3>1. i # 1
        BY <1>1, <2>2, <2>4
      <3>2. i - 1 \in 1..Len(cmds'[p]) /\ cmds'[p][i - 1] = cmds[p][i]
        BY <1>1, <2>4, <3>1
      <3>3. \E j \in 1..Len(cmds'[p]) : cmds'[p][j].kind = "inbound" /\ cmds'[p][j].on = s
        BY <2>2, <2>4, <3>2
      <3> QED  BY <3>3 DEF Awaited
    <2> QED  BY <2>3, <2>4
  <1> QED  BY <1>3, <1>5, <1>6, <1>7, <1>8

(* The edge of a ready link starts a crossing, which takes the input.           *)
LEMMA CrossEdgeStep ==
  ASSUME MacLinkInv, NEW p \in LinkPeers, cross_edge(p)
  PROVE  MacLinkInv'
  <1>1. /\ LinkTypes /\ (\A x \in live : Kept(x)) /\ GuardInv /\ DesksInv /\ opened \in Nat /\ live \subseteq Nat \ {0}
        /\ crossing \in [stage : Stages, at : SUBSET LinkPeers, next : SUBSET LinkPeers, on : Nat]
    BY DEF MacLinkInv, LinkTypes
  <1>2. /\ ~guard /\ guard' /\ cmds' = [cmds EXCEPT ![p] = Append(@, Edge)]
        /\ UNCHANGED <<link, live, opened, captured, crossing, desks, finishing>>
    BY DEF cross_edge
  <1>3. Edge \in LinkCommands /\ Edge.kind = "edge"
    BY DEF Edge, LinkCommands
  <1>4. NoneCrosses /\ crossing.at = {} /\ ~captured
    BY <1>1, <1>2, NothingElseCrosses DEF GuardInv
  <1>5. /\ cmds' \in [LinkPeers -> Seq(LinkCommands)]
        /\ \A q \in LinkPeers : \A i \in 1..Len(cmds[q]) : i \in 1..Len(cmds'[q]) /\ cmds'[q][i] = cmds[q][i]
        /\ \A q \in LinkPeers : \A i \in 1..Len(cmds'[q]) :
              \/ i \in 1..Len(cmds[q]) /\ cmds'[q][i] = cmds[q][i]
              \/ q = p /\ i = Len(cmds[p]) + 1 /\ cmds'[q][i] = Edge
    BY <1>1, <1>2, <1>3, CommandsGrow
  <1>6. LinkTypes' /\ \A x \in live' : Kept(x)'
    <2>1. \A s : Awaited(s) => Awaited(s)'
      BY <1>5 DEF Awaited
    <2> HIDE DEF LinkTypes, Kept, Awaited
    <2> QED  BY <1>1, <1>2, <1>5, <2>1, LinksStay
  <1>7. GuardInv'
    <2>1. ASSUME NEW q \in LinkPeers, NEW i \in 1..Len(cmds'[q]), Crosses(q, i)'
          PROVE  q = p /\ i = Len(cmds[p]) + 1
      BY <1>4, <1>5, <2>1 DEF NoneCrosses, Crosses
    <2> HIDE DEF Crosses, HopWaits
    <2> QED  BY <1>2, <1>4, <2>1 DEF GuardInv
  <1>8. DesksInv'
    <2>1. desks \subseteq finishing
      <3>1. \A s : ~HopWith(s)
        BY <1>4, WithNoCrossing
      <3> HIDE DEF HopWith
      <3> QED  BY <1>1, <1>4, <3>1 DEF DesksInv, Reserved
    <2> HIDE DEF Reserved
    <2> QED  BY <1>2, <1>4, <2>1 DEF DesksInv
  <1> QED  BY <1>6, <1>7, <1>8 DEF MacLinkInv

(* A link takes a crossing on, or refuses it.                                 *)
LEMMA TakeCrossingStep ==
  ASSUME MacLinkInv, NEW p \in LinkPeers, cmds[p] # <<>>, cmds' = [cmds EXCEPT ![p] = Tail(@)],
         UNCHANGED opened, TakeCrossing(p, Head(cmds[p]))
  PROVE  MacLinkInv'
  <1> DEFINE c == Head(cmds[p])
  <1>1. /\ LinkTypes /\ (\A x \in live : Kept(x)) /\ GuardInv /\ DesksInv /\ opened \in Nat /\ live \subseteq Nat \ {0}
        /\ link[p] \in LinkStates
        /\ crossing \in [stage : Stages, at : SUBSET LinkPeers, next : SUBSET LinkPeers, on : Nat]
    BY DEF MacLinkInv, LinkTypes
  <1>2. cmds' \in [LinkPeers -> Seq(LinkCommands)] /\ c \in LinkCommands
    BY <1>1, CommandTaken
  <1>3. c.kind \in {"edge", "hop"} /\ c.on \in Nat /\ (c.kind = "edge" => c.on = 0) /\ UNCHANGED <<live, desks, opened>>
    BY <1>2 DEF TakeCrossing, LinkCommands
  <1>4. /\ NoneCrosses' /\ guard /\ crossing.at = {}
        /\ captured => c.kind = "hop"
        /\ \A s : HopWith(s) => c.kind = "hop" /\ s = c.on
        /\ \A s : Awaited(s) => Awaited(s)'
    BY <1>1, <1>3, CrossingTaken
  <1>5. \A s \in desks : s \in finishing \/ (c.kind = "hop" /\ s = c.on)
    <2> HIDE DEF HopWith
    <2> QED  BY <1>1, <1>4 DEF DesksInv, Reserved
  <1> HIDE DEF c
  <1>6. CASE /\ link[p].pc = "serve" /\ prepared_here(p, c) /\ link' = [link EXCEPT ![p].pc = "cross"]
             /\ crossing' = [stage |-> IF c.kind = "edge" THEN "prepare" ELSE "forward", at |-> {p}, next |-> {}, on |-> c.on]
             /\ UNCHANGED <<guard, captured, finishing>>
    <2> DEFINE r == [link[p] EXCEPT !.pc = "cross"]
    <2>1. r \in LinkStates /\ r.pc = "cross" /\ r.sess = link[p].sess /\ r.theirs = link[p].theirs /\ link[p].theirs = 0
      BY <1>1, <1>6 DEF LinkStates, LinkTypes
    <2>2. link' = [link EXCEPT ![p] = r]
      BY <1>6
    <2> HIDE DEF r
    <2>3. crossing' \in [stage : Stages, at : SUBSET LinkPeers, next : SUBSET LinkPeers, on : Nat]
      BY <1>3, <1>6 DEF Stages
    <2>4. LinkTypes' /\ (\A s \in live' : Kept(s)') /\ link'[p] = r
      <3>1. live' = live /\ live' \subseteq Nat \ {0} /\ opened' \in Nat
        BY <1>1, <1>3
      <3>2. /\ r.pc \notin {"serve", "cross"} => r.sess = 0
            /\ r.pc # "dial" => r.theirs = 0
        BY <2>1
      <3>3. /\ \A s \in live' : s \in live \/ s \in {r.sess, r.theirs}
            /\ \A s \in live' : s \in {link[p].sess, link[p].theirs} => s \in {r.sess, r.theirs}
        BY <2>1, <3>1
      <3>4. \A s \in live' : Awaited(s) => Awaited(s)' \/ s \in {r.sess, r.theirs}
        <4> HIDE DEF Awaited
        <4> QED  BY <1>4
      <3>5. LinkTypes /\ (\A s \in live : Kept(s)) /\ r \in LinkStates
        BY <1>1, <2>1
      <3> HIDE DEF LinkTypes, Kept, Awaited
      <3> QED  BY <1>2, <2>2, <2>3, <3>1, <3>2, <3>3, <3>4, <3>5, LinkMoves
    <2>5. /\ crossing'.at = {p} /\ crossing'.stage = IF c.kind = "edge" THEN "prepare" ELSE "forward"
          /\ crossing'.on = c.on
      BY <1>6
    <2>6. link'[p].pc = "cross" /\ link'[p].sess = link[p].sess /\ (c.kind = "hop" => c.on = link[p].sess)
      BY <1>6, <2>1, <2>4 DEF prepared_here
    <2>7. GuardInv' /\ DesksInv'
      <3>1. c.kind = "hop" => crossing'.stage = "forward" /\ crossing'.on = link'[p].sess
        BY <2>5, <2>6
      <3>2. c.kind = "edge" => crossing'.stage = "prepare" /\ crossing'.on = 0
        BY <1>3, <2>5
      <3>3. \A s \in desks' : s \in finishing' \/ (s = link'[p].sess /\ crossing'.stage # "prepare")
        BY <1>3, <1>5, <1>6, <3>1
      <3>4. guard' /\ (captured' => crossing'.stage = "forward")
        BY <1>4, <1>6, <3>1
      <3> HIDE DEF NoneCrosses
      <3> QED  BY <1>3, <1>4, <2>5, <2>6, <3>1, <3>2, <3>3, <3>4, CrossingGoesOn
    <2> QED  BY <2>4, <2>7 DEF MacLinkInv
  <1>7. CASE refuse(c) /\ UNCHANGED <<link, crossing>>
    <2>1. LinkTypes' /\ \A x \in live' : Kept(x)'
      <3> HIDE DEF LinkTypes, Kept, Awaited
      <3> QED  BY <1>1, <1>2, <1>3, <1>4, <1>7, LinksStay
    <2>2. ~captured' /\ desks' \subseteq finishing'
      BY <1>3, <1>4, <1>5, <1>7 DEF refuse, give_back
    <2>3. crossing'.at = {}
      BY <1>4, <1>7
    <2>4. GuardInv' /\ DesksInv'
      BY <1>4, <2>2, <2>3, CrossingIsOver
    <2> QED  BY <2>1, <2>4 DEF MacLinkInv
  <1> QED  BY <1>6, <1>7 DEF TakeCrossing, c

(* The crossing that runs, and the link it runs on.                            *)
LEMMA InCrossing ==
  ASSUME MacLinkInv, NEW p \in LinkPeers, crossing.at = {p}
  PROVE  /\ LinkTypes /\ (\A x \in live : Kept(x)) /\ GuardInv /\ DesksInv /\ opened \in Nat /\ live \subseteq Nat \ {0}
         /\ link[p] \in LinkStates /\ link[p].pc = "cross" /\ link[p].theirs = 0 /\ guard /\ NoneCrosses
         /\ cmds \in [LinkPeers -> Seq(LinkCommands)]
         /\ crossing \in [stage : Stages, at : SUBSET LinkPeers, next : SUBSET LinkPeers, on : Nat]
         /\ captured => crossing.stage \in {"forward", "hop", "moving"}
         /\ crossing.stage \in {"hop", "moving"} => \E q \in LinkPeers : crossing.next = {q}
         /\ \A s \in desks : \/ s \in finishing
                             \/ s = link[p].sess /\ crossing.stage # "prepare"
                             \/ s = crossing.on /\ crossing.stage = "moving"
         /\ crossing.stage = "forward" /\ crossing.on # 0 => crossing.on = link[p].sess
         /\ crossing.stage = "prepare" => crossing.on = 0
  <1>1. /\ LinkTypes /\ (\A x \in live : Kept(x)) /\ GuardInv /\ DesksInv /\ opened \in Nat /\ live \subseteq Nat \ {0}
        /\ link[p] \in LinkStates /\ cmds \in [LinkPeers -> Seq(LinkCommands)]
        /\ crossing \in [stage : Stages, at : SUBSET LinkPeers, next : SUBSET LinkPeers, on : Nat]
    BY DEF MacLinkInv, LinkTypes
  <1>2. NoneCrosses
    BY <1>1, NothingElseCrosses
  <1>3. link[p].pc = "cross" /\ guard
    <2>1. PICK x \in LinkPeers : crossing.at = {x} /\ link[x].pc = "cross" /\ guard
      BY <1>1 DEF GuardInv
    <2>2. x = p
      BY <2>1
    <2> QED  BY <2>1, <2>2
  <1>4. link[p].theirs = 0
    BY <1>1, <1>3 DEF LinkTypes
  <1>5. captured => crossing.stage \in {"forward", "hop", "moving"}
    BY <1>1 DEF GuardInv
  <1>6. crossing.stage \in {"hop", "moving"} => \E q \in LinkPeers : crossing.next = {q}
    BY <1>1 DEF GuardInv
  <1>7. /\ \A s \in desks : \/ s \in finishing
                            \/ s = link[p].sess /\ crossing.stage # "prepare"
                            \/ s = crossing.on /\ crossing.stage = "moving"
        /\ crossing.stage = "forward" /\ crossing.on # 0 => crossing.on = link[p].sess
        /\ crossing.stage = "prepare" => crossing.on = 0
    <2>1. crossing.at # {} /\ p \in crossing.at /\ \A x \in crossing.at : x = p
      OBVIOUS
    <2> HIDE DEF HopWith
    <2>2. ASSUME NEW s, Reserved(s)
          PROVE  (s = link[p].sess /\ crossing.stage # "prepare") \/ (s = crossing.on /\ crossing.stage = "moving")
      BY <2>1, <2>2 DEF Reserved
    <2>3. \A s \in desks : s \in finishing \/ Reserved(s)
      BY <1>1 DEF DesksInv
    <2>4. /\ crossing.stage = "forward" /\ crossing.on # 0 => crossing.on = link[p].sess
          /\ crossing.stage = "prepare" => crossing.on = 0
      BY <1>1, <2>1 DEF DesksInv
    <2> HIDE DEF Reserved
    <2> QED  BY <2>2, <2>3, <2>4
  <1> QED  BY <1>1, <1>2, <1>3, <1>4, <1>5, <1>6, <1>7

(* Its link serves on when it is over.                                       *)
LEMMA LinkServesOn ==
  ASSUME MacLinkInv, NEW p \in LinkPeers, crossing.at = {p}, NEW b \in BOOLEAN,
         link' = [link EXCEPT ![p].pc = "serve", ![p].ready = b],
         cmds' \in [LinkPeers -> Seq(LinkCommands)], UNCHANGED <<live, opened>>, crossing' = NoCrossing,
         \A s : Awaited(s) => Awaited(s)'
  PROVE  LinkTypes' /\ (\A s \in live' : Kept(s)') /\ crossing'.at = {}
  <1>1. /\ LinkTypes /\ (\A x \in live : Kept(x)) /\ opened \in Nat /\ live \subseteq Nat \ {0}
        /\ link[p] \in LinkStates /\ link[p].pc = "cross" /\ link[p].theirs = 0
    BY InCrossing
  <1> DEFINE r == [link[p] EXCEPT !.pc = "serve", !.ready = b]
  <1>2. r \in LinkStates /\ r.pc = "serve" /\ r.sess = link[p].sess /\ r.theirs = link[p].theirs
    BY <1>1 DEF LinkStates
  <1>3. link' = [link EXCEPT ![p] = r]
    BY <1>1 DEF LinkTypes
  <1>4. crossing' \in [stage : Stages, at : SUBSET LinkPeers, next : SUBSET LinkPeers, on : Nat] /\ crossing'.at = {}
    BY DEF NoCrossing, Stages
  <1> HIDE DEF r, LinkTypes, Kept, Awaited
  <1> QED  BY <1>1, <1>2, <1>3, <1>4, LinkMoves

(* The crossing's own steps leave its link where it is.                        *)
LEMMA LinkStaysInCrossing ==
  ASSUME MacLinkInv, UNCHANGED <<link, cmds, live, opened>>,
         crossing' \in [stage : Stages, at : SUBSET LinkPeers, next : SUBSET LinkPeers, on : Nat]
  PROVE  LinkTypes' /\ (\A s \in live' : Kept(s)') /\ (NoneCrosses' <=> NoneCrosses)
  <1>1. \A s : Awaited(s)' <=> Awaited(s)
    BY DEF Awaited
  <1>2. LinkTypes /\ (\A s \in live : Kept(s))
    BY DEF MacLinkInv
  <1>3. /\ cmds' \in [LinkPeers -> Seq(LinkCommands)] /\ live' \subseteq Nat \ {0} /\ opened' \in Nat
    BY <1>2 DEF LinkTypes
  <1>4. NoneCrosses' <=> NoneCrosses
    BY DEF NoneCrosses
  <1> HIDE DEF LinkTypes, Kept, Awaited, NoneCrosses
  <1> QED  BY <1>1, <1>2, <1>3, <1>4, LinksStay

(* The crossing ends, with its input given back and its desktops let go of.      *)
LEMMA EndCrossingStep ==
  ASSUME MacLinkInv, NEW p \in LinkPeers, crossing.at = {p}, EndCrossing(p), UNCHANGED <<cmds, live, opened>>,
         ~captured', desks' \subseteq finishing'
  PROVE  MacLinkInv'
  <1>1. link \in [LinkPeers -> LinkStates] /\ link[p] \in LinkStates /\ cmds' \in [LinkPeers -> Seq(LinkCommands)]
    BY DEF MacLinkInv, LinkTypes
  <1>2. crossing' = NoCrossing /\ ~guard'
    BY DEF EndCrossing
  <1>3. PICK failed \in BOOLEAN : link' = [link EXCEPT ![p].pc = "serve", ![p].ready = @ /\ ~failed]
    BY DEF EndCrossing
  <1>4. \E b \in BOOLEAN : link' = [link EXCEPT ![p].pc = "serve", ![p].ready = b]
    <2>1. link[p].ready \in BOOLEAN
      BY <1>1 DEF LinkStates
    <2>2. link' = [link EXCEPT ![p].pc = "serve", ![p].ready = link[p].ready /\ ~failed]
      BY <1>1, <1>3
    <2> QED  BY <2>1, <2>2
  <1>5. \A s : Awaited(s) => Awaited(s)'
    BY DEF Awaited
  <1>6. LinkTypes' /\ (\A s \in live' : Kept(s)') /\ crossing'.at = {}
    <2> HIDE DEF LinkTypes, Kept, Awaited
    <2> QED  BY <1>1, <1>2, <1>4, <1>5, LinkServesOn
  <1>7. NoneCrosses'
    BY InCrossing DEF NoneCrosses
  <1>8. GuardInv' /\ DesksInv'
    BY <1>6, <1>7, CrossingIsOver
  <1> QED  BY <1>6, <1>8 DEF MacLinkInv

(* A desktop is prepared, or is not, for the crossing that starts.               *)
LEMMA PreparedStep ==
  ASSUME MacLinkInv, NEW p \in LinkPeers, Prepared(p)
  PROVE  MacLinkInv'
  <1>1. crossing.at = {p} /\ crossing.stage = "prepare" /\ UNCHANGED <<cmds, live, opened, finishing>>
    BY DEF Prepared, Here
  <1>2. /\ crossing \in [stage : Stages, at : SUBSET LinkPeers, next : SUBSET LinkPeers, on : Nat]
        /\ ~captured /\ desks \subseteq finishing /\ crossing.on = 0 /\ NoneCrosses /\ guard /\ link[p].pc = "cross"
    BY <1>1, InCrossing
  <1>3. CASE EndCrossing(p) /\ UNCHANGED <<desks, captured>>
    BY <1>1, <1>2, <1>3, EndCrossingStep
  <1>4. ASSUME NEW st \in {"forward", "finish"}, Stage(st), desks' = desks \cup ({link[p].sess} \cap live),
               captured' => st = "forward", UNCHANGED <<link, guard>>
        PROVE  MacLinkInv'
    <2>1. /\ crossing' \in [stage : Stages, at : SUBSET LinkPeers, next : SUBSET LinkPeers, on : Nat]
          /\ crossing'.at = {p} /\ crossing'.stage = st /\ crossing'.on = 0
      BY <1>1, <1>2, <1>4 DEF Stage, Stages
    <2>2. LinkTypes' /\ (\A s \in live' : Kept(s)') /\ NoneCrosses'
      BY <1>1, <1>2, <1>4, <2>1, LinkStaysInCrossing
    <2>3. GuardInv' /\ DesksInv'
      <3> HIDE DEF NoneCrosses
      <3> QED  BY <1>1, <1>2, <1>4, <2>1, <2>2, CrossingGoesOn
    <2> QED  BY <2>2, <2>3 DEF MacLinkInv
  <1>5. CASE /\ desks' = desks \cup ({link[p].sess} \cap live) /\ UNCHANGED <<link, guard>>
             /\ Stage("forward") /\ captured' = TRUE
    BY <1>4, <1>5
  <1>6. CASE /\ desks' = desks \cup ({link[p].sess} \cap live) /\ UNCHANGED <<link, guard>>
             /\ Stage("finish") /\ UNCHANGED captured
    BY <1>2, <1>4, <1>6
  <1> QED  BY <1>3, <1>5, <1>6 DEF Prepared

(* The pointer is forwarded, until it comes home.                              *)
LEMMA ForwardStep ==
  ASSUME MacLinkInv, NEW p \in LinkPeers, HopStarts(p) \/ ForwardEnds(p) \/ \E q \in LinkPeers : HopAsked(p, q)
  PROVE  MacLinkInv'
  <1>1. crossing.at = {p} /\ crossing.stage = "forward" /\ UNCHANGED <<cmds, live, opened, desks>>
    BY DEF HopStarts, ForwardEnds, HopAsked, Here
  <1>2. /\ crossing \in [stage : Stages, at : SUBSET LinkPeers, next : SUBSET LinkPeers, on : Nat]
        /\ NoneCrosses /\ guard /\ link[p].pc = "cross" /\ link \in [LinkPeers -> LinkStates]
        /\ \A s \in desks : s \in finishing \/ s = link[p].sess
        /\ crossing.on # 0 => crossing.on = link[p].sess
    BY <1>1, InCrossing DEF LinkTypes
  <1>3. CASE HopStarts(p)
    <2>1. EndCrossing(p) /\ captured' = FALSE /\ finishing' = finishing \cup {crossing.on} /\ crossing.on # 0
      BY <1>3 DEF HopStarts, give_back, Hop
    <2>2. desks' \subseteq finishing'
      BY <1>1, <1>2, <2>1
    <2> QED  BY <1>1, <2>1, <2>2, EndCrossingStep
  <1>4. CASE ForwardEnds(p)
    <2>1. /\ crossing' \in [stage : Stages, at : SUBSET LinkPeers, next : SUBSET LinkPeers, on : Nat]
          /\ crossing'.at = {p} /\ crossing'.stage = "finish"
          /\ ~captured' /\ UNCHANGED <<link, guard, finishing>>
      BY <1>1, <1>2, <1>4 DEF ForwardEnds, Stage, Stages
    <2>2. LinkTypes' /\ (\A s \in live' : Kept(s)') /\ NoneCrosses'
      BY <1>1, <1>2, <2>1, LinkStaysInCrossing
    <2>3. GuardInv' /\ DesksInv'
      <3> HIDE DEF NoneCrosses
      <3> QED  BY <1>1, <1>2, <2>1, <2>2, CrossingGoesOn
    <2> QED  BY <2>2, <2>3 DEF MacLinkInv
  <1>5. ASSUME NEW q \in LinkPeers, HopAsked(p, q) PROVE MacLinkInv'
    <2>1. door(q) \in Nat
      <3>1. link[q] \in LinkStates
        BY <1>2
      <3> QED  BY <3>1 DEF door, LinkStates
    <2>2. /\ crossing' \in [stage : Stages, at : SUBSET LinkPeers, next : SUBSET LinkPeers, on : Nat]
          /\ crossing'.at = {p} /\ crossing'.stage = "hop" /\ crossing'.next = {q}
          /\ UNCHANGED <<link, guard, finishing>>
      <3> HIDE DEF door
      <3> QED  BY <1>1, <1>2, <1>5, <2>1 DEF HopAsked, Stages
    <2>3. LinkTypes' /\ (\A s \in live' : Kept(s)') /\ NoneCrosses'
      BY <1>1, <1>2, <2>2, LinkStaysInCrossing
    <2>4. GuardInv' /\ DesksInv'
      <3> HIDE DEF NoneCrosses
      <3> QED  BY <1>1, <1>2, <2>2, <2>3, CrossingGoesOn
    <2> QED  BY <2>3, <2>4 DEF MacLinkInv
  <1> QED  BY <1>3, <1>4, <1>5

(* The next computer has its desktop prepared, or the pointer stays.             *)
LEMMA HopPreparedStep ==
  ASSUME MacLinkInv, NEW p \in LinkPeers, HopPrepared(p)
  PROVE  MacLinkInv'
  <1>1. crossing.at = {p} /\ crossing.stage = "hop" /\ UNCHANGED <<link, cmds, live, opened, guard, captured, finishing>>
    BY DEF HopPrepared, Here
  <1>2. /\ crossing \in [stage : Stages, at : SUBSET LinkPeers, next : SUBSET LinkPeers, on : Nat]
        /\ NoneCrosses /\ guard /\ link[p].pc = "cross"
        /\ \A s \in desks : s \in finishing \/ s = link[p].sess
        /\ \E q \in LinkPeers : crossing.next = {q}
    BY <1>1, InCrossing
  <1>3. CASE desks' = desks \cup {crossing.on} /\ Stage("moving")
    <2>1. /\ crossing' \in [stage : Stages, at : SUBSET LinkPeers, next : SUBSET LinkPeers, on : Nat]
          /\ crossing'.at = {p} /\ crossing'.stage = "moving" /\ crossing'.on = crossing.on /\ crossing'.next = crossing.next
      BY <1>1, <1>2, <1>3 DEF Stage, Stages
    <2>2. LinkTypes' /\ (\A s \in live' : Kept(s)') /\ NoneCrosses'
      BY <1>1, <1>2, <2>1, LinkStaysInCrossing
    <2>3. GuardInv' /\ DesksInv'
      <3> HIDE DEF NoneCrosses
      <3> QED  BY <1>1, <1>2, <1>3, <2>1, <2>2, CrossingGoesOn
    <2> QED  BY <2>2, <2>3 DEF MacLinkInv
  <1>4. CASE crossing' = [crossing EXCEPT !.stage = "forward", !.next = {}, !.on = 0] /\ UNCHANGED desks
    <2>1. /\ crossing' \in [stage : Stages, at : SUBSET LinkPeers, next : SUBSET LinkPeers, on : Nat]
          /\ crossing'.at = {p} /\ crossing'.stage = "forward" /\ crossing'.on = 0
      BY <1>1, <1>2, <1>4 DEF Stages
    <2>2. LinkTypes' /\ (\A s \in live' : Kept(s)') /\ NoneCrosses'
      BY <1>1, <1>2, <2>1, LinkStaysInCrossing
    <2>3. GuardInv' /\ DesksInv'
      <3> HIDE DEF NoneCrosses
      <3> QED  BY <1>1, <1>2, <1>4, <2>1, <2>2, CrossingGoesOn
    <2> QED  BY <2>2, <2>3 DEF MacLinkInv
  <1> QED  BY <1>3, <1>4 DEF HopPrepared

(* This computer's desktop is let go of, and the crossing ends or moves on.       *)
LEMMA FinishStep ==
  ASSUME MacLinkInv, NEW p \in LinkPeers, Finish(p)
  PROVE  MacLinkInv'
  <1>1. crossing.at = {p} /\ UNCHANGED <<live, opened>> /\ desks' = desks \ {link[p].sess}
    BY DEF Finish, Here
  <1>2. /\ LinkTypes /\ GuardInv /\ crossing.on \in Nat /\ NoneCrosses /\ guard /\ link[p].pc = "cross" /\ link[p] \in LinkStates
        /\ link \in [LinkPeers -> LinkStates] /\ cmds \in [LinkPeers -> Seq(LinkCommands)]
        /\ captured => crossing.stage \in {"forward", "hop", "moving"}
        /\ crossing.stage \in {"hop", "moving"} => \E q \in LinkPeers : crossing.next = {q}
        /\ \A s \in desks' : s \in finishing \/ (s = crossing.on /\ crossing.stage = "moving")
    BY <1>1, InCrossing DEF LinkTypes
  <1>3. CASE crossing.stage = "finish" /\ EndCrossing(p) /\ UNCHANGED <<cmds, captured, finishing>>
    BY <1>1, <1>2, <1>3, EndCrossingStep
  <1>4. ASSUME crossing.stage = "moving", crossing' = NoCrossing, link' = [link EXCEPT ![p].pc = "serve"],
               cmds' \in [LinkPeers -> Seq(LinkCommands)], \A s : Awaited(s) => Awaited(s)'
        PROVE  LinkTypes' /\ (\A s \in live' : Kept(s)') /\ crossing'.at = {}
    <2>1. link[p].ready \in BOOLEAN
      BY <1>2 DEF LinkStates
    <2>2. link' = [link EXCEPT ![p].pc = "serve", ![p].ready = link[p].ready]
      <3>1. [link[p] EXCEPT !.pc = "serve"] = [link[p] EXCEPT !.pc = "serve", !.ready = link[p].ready]
        BY <1>2 DEF LinkStates
      <3> QED  BY <1>2, <1>4, <3>1
    <2> HIDE DEF LinkTypes, Kept, Awaited
    <2> QED  BY <1>1, <1>4, <2>1, <2>2, LinkServesOn
  <1>5. ASSUME NEW q \in LinkPeers, crossing.stage = "moving", crossing' = NoCrossing, link' = [link EXCEPT ![p].pc = "serve"],
               cmds' = [cmds EXCEPT ![q] = Append(@, Hop(crossing.on))], UNCHANGED <<guard, captured, finishing>>
        PROVE  MacLinkInv'
    <2>1. Hop(crossing.on) \in LinkCommands /\ Hop(crossing.on).kind = "hop" /\ Hop(crossing.on).on = crossing.on
      BY <1>2 DEF Hop, LinkCommands
    <2> HIDE DEF Hop
    <2>2. /\ cmds' \in [LinkPeers -> Seq(LinkCommands)]
          /\ \A x \in LinkPeers : \A i \in 1..Len(cmds[x]) : i \in 1..Len(cmds'[x]) /\ cmds'[x][i] = cmds[x][i]
          /\ \A x \in LinkPeers : \A i \in 1..Len(cmds'[x]) :
                \/ i \in 1..Len(cmds[x]) /\ cmds'[x][i] = cmds[x][i]
                \/ x = q /\ i = Len(cmds[q]) + 1 /\ cmds'[x][i] = Hop(crossing.on)
          /\ Len(cmds[q]) + 1 \in 1..Len(cmds'[q]) /\ cmds'[q][Len(cmds[q]) + 1] = Hop(crossing.on)
      BY <1>2, <1>5, <2>1, CommandsGrow
    <2>3. \A s : Awaited(s) => Awaited(s)'
      BY <2>2 DEF Awaited
    <2>4. LinkTypes' /\ (\A s \in live' : Kept(s)') /\ crossing'.at = {}
      BY <1>4, <1>5, <2>2, <2>3
    <2>5. ASSUME NEW x \in LinkPeers, NEW i \in 1..Len(cmds'[x]), Crosses(x, i)'
          PROVE  x = q /\ i = Len(cmds[q]) + 1
      BY <1>2, <2>2, <2>5 DEF Crosses, NoneCrosses
    <2>6. HopWaits'
      BY <2>1, <2>2 DEF HopWaits
    <2>7. ASSUME NEW s, s = crossing.on PROVE HopWith(s)'
      BY <2>1, <2>2, <2>7 DEF HopWith
    <2> HIDE DEF Crosses, HopWaits, HopWith
    <2>8. GuardInv'
      BY <1>2, <1>5, <2>4, <2>5, <2>6 DEF GuardInv
    <2>9. DesksInv'
      BY <1>2, <1>5, <2>4, <2>7 DEF DesksInv, Reserved
    <2> QED  BY <2>4, <2>8, <2>9 DEF MacLinkInv
  <1>6. CASE /\ crossing.stage = "moving" /\ crossing' = NoCrossing /\ link' = [link EXCEPT ![p].pc = "serve"]
             /\ refuse(Hop(crossing.on)) /\ UNCHANGED cmds
    <2>1. ~captured' /\ desks' \subseteq finishing'
      BY <1>2, <1>6 DEF refuse, give_back, Hop
    <2>2. \A s : Awaited(s) => Awaited(s)'
      BY <1>6 DEF Awaited
    <2>3. LinkTypes' /\ (\A s \in live' : Kept(s)') /\ crossing'.at = {}
      BY <1>2, <1>4, <1>6, <2>2
    <2>4. NoneCrosses'
      BY <1>2, <1>6 DEF NoneCrosses
    <2>5. GuardInv' /\ DesksInv'
      BY <2>1, <2>3, <2>4, CrossingIsOver
    <2> QED  BY <2>3, <2>5 DEF MacLinkInv
  <1>7. CASE crossing.stage = "moving"
    <2>1. PICK q \in LinkPeers : crossing.next = {q}
      BY <1>2, <1>7
    <2>2. (CHOOSE x \in crossing.next : TRUE) = q
      BY <2>1
    <2>3. /\ crossing' = NoCrossing /\ link' = [link EXCEPT ![p].pc = "serve"]
          /\ \/ /\ cmds' = [cmds EXCEPT ![q] = Append(@, Hop(crossing.on))]
                /\ UNCHANGED <<guard, captured, finishing>>
             \/ refuse(Hop(crossing.on)) /\ UNCHANGED cmds
      BY <1>7, <2>2 DEF Finish, Here
    <2> QED  BY <1>5, <1>6, <1>7, <2>3
  <1> QED  BY <1>3, <1>7 DEF Finish, Here

LEMMA MacLinkUntouched ==
  ASSUME MacLinkInv, UNCHANGED macLinkVars
  PROVE  MacLinkInv'
  <1>1. LinkTypes /\ (\A s \in live : Kept(s)) /\ GuardInv /\ DesksInv
    BY DEF MacLinkInv
  <1>2. UNCHANGED <<link, cmds, live, opened, guard, captured, crossing, desks, finishing>>
    BY DEF macLinkVars
  <1>3. LinkTypes'
    BY <1>1, <1>2 DEF LinkTypes
  <1>4. \A s \in live' : Kept(s)'
    BY <1>1, <1>2 DEF Kept, Awaited
  <1>5. GuardInv' /\ DesksInv'
    BY <1>1, <1>2, BesideQuiet
  <1> QED  BY <1>3, <1>4, <1>5 DEF MacLinkInv

LEMMA MacLinkStep ==
  ASSUME MacLinkInv, MacLinkNext
  PROVE  MacLinkInv'
  <1>1. CASE \E s \in live : Lost(s)
    BY <1>1, SessionIsLost
  <1>2. CASE \E s \in finishing : Finished(s)
    BY <1>2, FinishedStep
  <1>3. ASSUME NEW p \in LinkPeers, sync_links(p) \/ stopped(p) \/ keep_one(p) PROVE MacLinkInv'
    BY <1>3, LinkComesAndGoes, KeepOneStep
  <1>4. ASSUME NEW p \in LinkPeers, wait_ends(p) \/ DialAges(p) \/ serve_lost(p) \/ \E ready \in BOOLEAN : show(p, ready)
        PROVE  MacLinkInv'
    BY <1>4, LinkWaits
  <1>5. ASSUME NEW p \in LinkPeers, retry(p) \/ open_inbound(p) \/ cross_edge(p) PROVE MacLinkInv'
    BY <1>5, LinkIsTold, CrossEdgeStep
  <1>6. ASSUME NEW p \in LinkPeers, TakeCommand(p) PROVE MacLinkInv'
    <2>1. /\ link[p].pc \in {"dial", "wait", "serve"} /\ cmds[p] # <<>> /\ cmds' = [cmds EXCEPT ![p] = Tail(@)]
          /\ UNCHANGED opened
          /\ \/ TakeInbound(p, Head(cmds[p])) \/ TakeRetry(p, Head(cmds[p]))
             \/ TakeCrossing(p, Head(cmds[p]))
      BY <1>6 DEF TakeCommand
    <2> QED  BY <2>1, LinkTakes, TakeCrossingStep
  <1>7. ASSUME NEW p \in LinkPeers,
               \/ Prepared(p) \/ HopStarts(p) \/ ForwardEnds(p) \/ HopPrepared(p) \/ Finish(p)
               \/ \E q \in LinkPeers : HopAsked(p, q)
        PROVE  MacLinkInv'
    BY <1>7, PreparedStep, ForwardStep, HopPreparedStep, FinishStep
  <1> QED  BY <1>1, <1>2, <1>3, <1>4, <1>5, <1>6, <1>7 DEF MacLinkNext

(* What the invariant says of the links (MacLink).                           *)
LEMMA LinksAreTheirOwn ==
  ASSUME MacLinkInv
  PROVE  NoOrphanSession /\ DesktopsAreLetGo
  <1> USE DEF MacLinkInv
  <1>1. ASSUME NEW kind, NEW s, NEW p \in LinkPeers, NEW i \in 1..Len(cmds[p]), cmds[p][i].kind = kind, cmds[p][i].on = s
        PROVE  s \in Queued(kind)
    <2>1. s \in {cmds[p][j].on : j \in {x \in 1..Len(cmds[p]) : cmds[p][x].kind = kind}}
      BY <1>1
    <2> QED  BY <2>1 DEF Queued
  <1>2. NoOrphanSession
    <2> SUFFICES ASSUME NEW s \in live
                 PROVE  s \in {link[p].sess : p \in LinkPeers} \cup {link[p].theirs : p \in LinkPeers} \cup Queued("inbound")
      BY DEF NoOrphanSession
    <2>1. CASE \E p \in LinkPeers : s \in {link[p].sess, link[p].theirs}
      BY <2>1
    <2>2. CASE Awaited(s)
      <3>1. PICK p \in LinkPeers : \E i \in 1..Len(cmds[p]) : cmds[p][i].kind = "inbound" /\ cmds[p][i].on = s
        BY <2>2 DEF Awaited
      <3> QED  BY <1>1, <3>1
    <2> QED  BY <2>1, <2>2 DEF Kept
  <1>3. desks \subseteq {link[p].sess : p \in crossing.at} \cup {crossing.on} \cup Queued("hop") \cup finishing
    <2> SUFFICES ASSUME NEW s \in desks, s \notin finishing
                 PROVE  s \in {link[p].sess : p \in crossing.at} \cup {crossing.on} \cup Queued("hop")
      OBVIOUS
    <2>1. CASE HopWith(s)
      <3>1. PICK p \in LinkPeers : \E i \in 1..Len(cmds[p]) : cmds[p][i].kind = "hop" /\ cmds[p][i].on = s
        BY <2>1 DEF HopWith
      <3> QED  BY <1>1, <3>1
    <2>2. CASE \E p \in crossing.at : s = link[p].sess \/ s = crossing.on
      BY <2>2
    <2> HIDE DEF HopWith
    <2> QED  BY <2>1, <2>2 DEF DesksInv, Reserved
  <1>4. captured => guard
    <2>1. HopWaits => \E p \in LinkPeers : \E i \in 1..Len(cmds[p]) : Crosses(p, i)
      BY DEF HopWaits, Crosses, Waits
    <2> HIDE DEF HopWaits, Crosses
    <2> QED  BY <2>1 DEF GuardInv
  <1>5. \A p \in crossing.at : crossing.stage = "forward" /\ crossing.on # 0 => crossing.on = link[p].sess
    BY DEF DesksInv
  <1> QED  BY <1>2, <1>3, <1>4, <1>5 DEF DesktopsAreLetGo

LEMMA MacLinkAlways == MCSpec => []MacLinkHolds
  <1>1. MCInit => MacLinkHolds
    BY LinksStart DEF MCInit, MacLinkHolds
  <1>2. MacLinkHolds /\ [MCNext]_macsVars => MacLinkHolds'
    BY OneMacPartRuns, MacLinkStep, MacLinkUntouched DEF MacLinkHolds
  <1> QED  BY <1>1, <1>2, PTL DEF MCSpec, macsVars

(* A session that is open is served, or waits for its link, or was told to      *)
(* close, whatever the order in which both ends dial; a desktop that a peer     *)
(* holds for this Mac is that of the crossing, or of the one it moves on with,   *)
(* or its Finish is on the way; and the input is captured only while the        *)
(* crossing's guard keeps peers out (macos/link.rs, macos/mod.rs).              *)
THEOREM LinksKeepTheirOwnAlways == MCSpec => []LinksKeepTheirOwn
  <1>1. MacLinkHolds => LinksKeepTheirOwn
    BY LinksAreTheirOwn DEF MacLinkHolds, LinksKeepTheirOwn
  <1> QED  BY <1>1, MacLinkAlways, PTL
=============================================================================
