---------------------------- MODULE ScreensProofs ----------------------------
(***************************************************************************)
(* Proofs about two parts of MCScreens: the crossings between computers and  *)
(* the engine of Windows.  As in PlumbingProofs and MacsProofs each part has *)
(* an inductive invariant that holds whenever it is the one that runs.       *)
(***************************************************************************)
EXTENDS MCScreens, SequenceTheorems, TLAPS

(* Everything a state of MCScreens holds.                                    *)
screensVars == <<part, windowsVars, handoffVars, lensVars, lensInputVars, tileVars>>

(* A behaviour runs one part, and a step is a step of it or changes nothing   *)
(* of it.                                                                    *)
LEMMA OneScreenPartRuns ==
  [MCNext]_screensVars =>
    /\ part' = part
    /\ part = "Engine" => WindowsNext \/ UNCHANGED windowsVars
    /\ part = "Crossings" => HandoffNext \/ UNCHANGED handoffVars
  BY DEF screensVars, MCNext, RunEngine, RunCrossings, RunLenses, RunViewing, RunBoard

-----------------------------------------------------------------------------
(* Crossings.  What the variables they turn on range over.                   *)
RuntimeCommands == {"activate", "release"}
Legs == {NoLeg} \cup [to : Targets, tok : Nat]

CrossingTypes ==
  /\ step \in [Sources -> {"idle", "prepare", "look", "poll", "hop", "letgo", "finish"}]
  /\ armed \in [Sources -> BOOLEAN]
  /\ phases \in [Sources -> {"Idle", "Arming", "Remote"}]
  /\ rcmds \in [Sources -> Seq(RuntimeCommands)]
  /\ lease = [t \in Targets |-> lease[t]] /\ tokens \in Nat
  /\ leg \in [Sources -> Legs] /\ next \in [Sources -> Legs]
  /\ taker \in [Targets -> Sources \cup {Nobody}]

(* Before a crossing activates and after it is over the runtime is idle and  *)
(* is told nothing, or will be told to release last of all.                  *)
Settled(s) ==
  IF rcmds[s] = <<>> THEN phases[s] = "Idle" ELSE rcmds[s][Len(rcmds[s])] = "release"

(* In between it has the one command to activate still to come, or none; once *)
(* it was seen to arm it has none.                                           *)
UnderWay(s) ==
  /\ rcmds[s] = <<>> \/ rcmds[s] = <<"activate">>
  /\ rcmds[s] # <<>> => phases[s] = "Idle" /\ ~armed[s]

CommandsEnd ==
  \A s \in Sources :
    /\ step[s] \in {"idle", "finish"} => Settled(s)
    /\ step[s] = "prepare" => rcmds[s] = <<>> /\ phases[s] = "Idle" /\ ~armed[s]
    /\ step[s] \in {"look", "poll", "hop", "letgo"} => UnderWay(s)

(* A desktop that is leased is taken by nobody else.                         *)
LeasesExclude ==
  \A t \in Targets :
    \/ lease[t] = NoLease
    \/ lease[t].src \in Sources /\ taker[t] \in {Nobody, lease[t].src}

CrossingsInv == CrossingTypes /\ CommandsEnd /\ LeasesExclude

CrossingsHold == part = "Crossings" => CrossingsInv

LEMMA CrossingsInitHolds == HandoffInit => CrossingsInv
<1> SUFFICES ASSUME HandoffInit PROVE CrossingsInv
  OBVIOUS
<1>1. CrossingTypes
  BY DEF HandoffInit, CrossingTypes, RuntimeCommands, Legs, NoLeg
<1>2. CommandsEnd
  BY DEF HandoffInit, CommandsEnd, Settled, UnderWay
<1>3. LeasesExclude
  BY DEF HandoffInit, LeasesExclude
<1> QED
  BY <1>1, <1>2, <1>3 DEF CrossingsInv

(* What a command appended to the queue of a source makes of it.             *)
LEMMA CommandIsAppended ==
  ASSUME NEW s \in Sources, NEW cmd \in RuntimeCommands, CrossingTypes, SendRuntime(s, cmd)
  PROVE /\ rcmds' \in [Sources -> Seq(RuntimeCommands)]
        /\ rcmds'[s] = Append(rcmds[s], cmd)
        /\ rcmds'[s] # <<>> /\ rcmds'[s][Len(rcmds'[s])] = cmd
        /\ \A r \in Sources \ {s} : rcmds'[r] = rcmds[r]
<1>1. rcmds[s] \in Seq(RuntimeCommands) /\ rcmds = [r \in Sources |-> rcmds[r]]
  BY DEF CrossingTypes
<1>2. rcmds' = [rcmds EXCEPT ![s] = Append(rcmds[s], cmd)]
  BY DEF SendRuntime
<1>3. Append(rcmds[s], cmd) \in Seq(RuntimeCommands)
  BY <1>1
<1>4. rcmds'[s] = Append(rcmds[s], cmd)
  BY <1>1, <1>2
<1>5. Append(rcmds[s], cmd) # <<>> /\ Append(rcmds[s], cmd)[Len(Append(rcmds[s], cmd))] = cmd
  BY <1>1
<1>6. \A r \in Sources \ {s} : rcmds'[r] = rcmds[r]
  BY <1>1, <1>2
<1>7. rcmds' \in [Sources -> Seq(RuntimeCommands)]
  BY <1>1, <1>2, <1>3, Zenon DEF CrossingTypes
<1> QED
  BY <1>4, <1>5, <1>6, <1>7

(* A step of one source leaves what is said of the commands of the others.   *)
OneEnds(s) ==
  /\ step[s] \in {"idle", "finish"} => Settled(s)
  /\ step[s] = "prepare" => rcmds[s] = <<>> /\ phases[s] = "Idle" /\ ~armed[s]
  /\ step[s] \in {"look", "poll", "hop", "letgo"} => UnderWay(s)

LEMMA OthersEnd ==
  ASSUME NEW s \in Sources, CommandsEnd, OneEnds(s)',
         \A r \in Sources \ {s} : /\ step'[r] = step[r] /\ armed'[r] = armed[r]
                                  /\ phases'[r] = phases[r] /\ rcmds'[r] = rcmds[r]
  PROVE CommandsEnd'
  BY DEF CommandsEnd, OneEnds, Settled, UnderWay

(* The source's own steps.                                                   *)
LEMMA SourceKeepsCommands ==
  ASSUME NEW s \in Sources, CrossingsInv, SourceStep(s)
  PROVE CommandsEnd' /\ step' \in [Sources -> {"idle", "prepare", "look", "poll", "hop", "letgo", "finish"}]
        /\ armed' \in [Sources -> BOOLEAN] /\ phases' = phases
        /\ rcmds' \in [Sources -> Seq(RuntimeCommands)]
<1> USE DEF CrossingsInv
<1>t. /\ step \in [Sources -> {"idle", "prepare", "look", "poll", "hop", "letgo", "finish"}]
      /\ armed \in [Sources -> BOOLEAN] /\ rcmds \in [Sources -> Seq(RuntimeCommands)]
      /\ phases \in [Sources -> {"Idle", "Arming", "Remote"}]
  BY DEF CrossingTypes
<1>o. OneEnds(s)
  BY DEF CommandsEnd, OneEnds
<1>1. ASSUME NEW t \in Targets, Cross(s, t) PROVE OneEnds(s)' /\ UNCHANGED <<phases, rcmds>>
             /\ step' = [step EXCEPT ![s] = "prepare"] /\ armed' = [armed EXCEPT ![s] = FALSE]
  BY <1>1, <1>t DEF Cross, OneEnds
<1>2. CASE Entered(s)
  <2>1. step[s] = "prepare" /\ UNCHANGED <<armed, phases>>
    BY <1>2 DEF Entered
  <2>2. CASE SendRuntime(s, "activate") /\ step' = [step EXCEPT ![s] = "look"]
    <3>1. rcmds'[s] = Append(<<>>, "activate") /\ rcmds' \in [Sources -> Seq(RuntimeCommands)]
          /\ \A r \in Sources \ {s} : rcmds'[r] = rcmds[r]
      BY <1>o, <2>1, <2>2, CommandIsAppended DEF OneEnds, RuntimeCommands
    <3>2. step'[s] = "look"
      BY <2>2, <1>t
    <3>3. OneEnds(s)'
      BY <3>1, <3>2, <2>1, <1>o DEF OneEnds, UnderWay
    <3> QED
      BY <3>1, <3>3, <2>1, <2>2, <1>t, OthersEnd
  <2>3. CASE UNCHANGED rcmds /\ step' = [step EXCEPT ![s] = "finish"]
    <3>1. step'[s] = "finish"
      BY <2>3, <1>t
    <3>2. OneEnds(s)'
      BY <3>1, <2>3, <2>1, <1>o DEF OneEnds, Settled
    <3> QED
      BY <3>2, <2>1, <2>3, <1>t, OthersEnd
  <2> QED
    BY <1>2, <2>2, <2>3 DEF Entered
<1>3. CASE Look(s)
  <2>1. step[s] = "look" /\ UNCHANGED phases
        /\ armed' = [armed EXCEPT ![s] = armed[s] \/ phases[s] # "Idle"]
    BY <1>3 DEF Look
  <2>2. UnderWay(s)
    BY <1>o, <2>1 DEF OneEnds
  <2>3. armed' \in [Sources -> BOOLEAN] /\ (armed'[s] <=> armed[s] \/ phases[s] # "Idle")
        /\ \A r \in Sources \ {s} : armed'[r] = armed[r]
    BY <2>1, <1>t
  <2>4. CASE UNCHANGED rcmds /\ step' = [step EXCEPT ![s] = "poll"]
    <3>1. step'[s] = "poll"
      BY <2>4, <1>t
    <3>2. OneEnds(s)'
      BY <3>1, <2>4, <2>2, <2>3, <2>1 DEF OneEnds, UnderWay
    <3> QED
      BY <3>2, <2>1, <2>3, <2>4, <1>t, OthersEnd
  <2>5. CASE phases[s] = "Idle" /\ armed[s] /\ UNCHANGED rcmds /\ step' = [step EXCEPT ![s] = "finish"]
    <3>1. step'[s] = "finish"
      BY <2>5, <1>t
    <3>2. OneEnds(s)'
      BY <3>1, <2>5, <2>2, <2>1 DEF OneEnds, UnderWay, Settled
    <3> QED
      BY <3>2, <2>1, <2>3, <2>5, <1>t, OthersEnd
  <2>6. CASE release_own_input(s) /\ step' = [step EXCEPT ![s] = "finish"]
    <3>1. step'[s] = "finish"
      BY <2>6, <1>t
    <3>2. rcmds' \in [Sources -> Seq(RuntimeCommands)]
          /\ rcmds'[s] # <<>> /\ rcmds'[s][Len(rcmds'[s])] = "release"
          /\ \A r \in Sources \ {s} : rcmds'[r] = rcmds[r]
      BY <2>6, CommandIsAppended DEF release_own_input, RuntimeCommands
    <3>3. OneEnds(s)'
      BY <3>1, <3>2 DEF OneEnds, Settled
    <3> QED
      BY <3>2, <3>3, <2>1, <2>3, <2>6, <1>t, OthersEnd
  <2> QED
    BY <1>3, <2>4, <2>5, <2>6 DEF Look
<1>4. CASE Polled(s)
  <2>1. step[s] = "poll" /\ UNCHANGED <<armed, phases>>
    BY <1>4 DEF Polled
  <2>2. UnderWay(s)
    BY <1>o, <2>1 DEF OneEnds
  <2>3. ASSUME NEW to \in {"look", "hop"}, UNCHANGED rcmds, step' = [step EXCEPT ![s] = to]
        PROVE OneEnds(s)' /\ step'[s] = to
    BY <2>3, <2>1, <2>2, <1>t DEF OneEnds, UnderWay
  <2>4. CASE release_own_input(s) /\ step' = [step EXCEPT ![s] = "finish"]
    <3>1. step'[s] = "finish"
      BY <2>4, <1>t
    <3>2. rcmds' \in [Sources -> Seq(RuntimeCommands)]
          /\ rcmds'[s] # <<>> /\ rcmds'[s][Len(rcmds'[s])] = "release"
          /\ \A r \in Sources \ {s} : rcmds'[r] = rcmds[r]
      BY <2>4, CommandIsAppended DEF release_own_input, RuntimeCommands
    <3>3. OneEnds(s)'
      BY <3>1, <3>2 DEF OneEnds, Settled
    <3> QED
      BY <3>2, <3>3, <2>1, <2>4, <1>t, OthersEnd
  <2>5. CASE UNCHANGED rcmds /\ step' = [step EXCEPT ![s] = "look"]
    BY <2>3, <2>5, <2>1, <1>t, OthersEnd
  <2>6. CASE UNCHANGED rcmds /\ step' = [step EXCEPT ![s] = "hop"]
    BY <2>3, <2>6, <2>1, <1>t, OthersEnd
  <2> QED
    BY <1>4, <2>4, <2>5, <2>6 DEF Polled
<1>5. ASSUME step[s] \in {"look", "poll", "hop", "letgo"}, UNCHANGED <<armed, phases, rcmds>>,
             NEW to \in {"letgo", "look"}, step' = [step EXCEPT ![s] = to]
      PROVE CommandsEnd' /\ step' \in [Sources -> {"idle", "prepare", "look", "poll", "hop", "letgo", "finish"}]
  <2>1. step'[s] = to
    BY <1>5, <1>t
  <2>2. OneEnds(s)'
    BY <2>1, <1>5, <1>o DEF OneEnds, UnderWay
  <2> QED
    BY <2>2, <1>5, <1>t, OthersEnd
<1>6. CASE Hopped(s)
  BY <1>6, <1>5, <1>t DEF Hopped
<1>7. CASE LetGo(s)
  BY <1>7, <1>5, <1>t DEF LetGo
<1>8. CASE Crossed(s)
  <2>1. step[s] = "finish" /\ UNCHANGED <<armed, phases, rcmds>> /\ step' = [step EXCEPT ![s] = "idle"]
    BY <1>8 DEF Crossed
  <2>2. step'[s] = "idle"
    BY <2>1, <1>t
  <2>3. OneEnds(s)'
    BY <2>1, <2>2, <1>o DEF OneEnds, Settled
  <2> QED
    BY <2>1, <2>3, <1>t, OthersEnd
<1>9. ASSUME NEW t \in Targets, Cross(s, t)
      PROVE CommandsEnd' /\ step' \in [Sources -> {"idle", "prepare", "look", "poll", "hop", "letgo", "finish"}]
            /\ armed' \in [Sources -> BOOLEAN] /\ UNCHANGED <<phases, rcmds>>
  BY <1>9, <1>1, <1>t, OthersEnd
<1> QED
  BY <1>2, <1>3, <1>4, <1>6, <1>7, <1>8, <1>9, <1>t DEF SourceStep, Hopped, LetGo, Crossed

(* The input thread takes a command, or arms, grabs and comes back by itself. *)
LEMMA RuntimeKeepsCommands ==
  ASSUME NEW s \in Sources, CrossingsInv, RuntimeStep(s)
  PROVE CommandsEnd' /\ phases' \in [Sources -> {"Idle", "Arming", "Remote"}]
        /\ rcmds' \in [Sources -> Seq(RuntimeCommands)]
<1> USE DEF CrossingsInv
<1>t. /\ rcmds \in [Sources -> Seq(RuntimeCommands)] /\ rcmds[s] \in Seq(RuntimeCommands)
      /\ phases \in [Sources -> {"Idle", "Arming", "Remote"}]
  BY DEF CrossingTypes
<1>o. OneEnds(s) /\ UNCHANGED <<step, armed>>
  BY DEF CommandsEnd, OneEnds, RuntimeStep
<1>1. CASE /\ rcmds[s] # <<>> /\ rcmds' = [rcmds EXCEPT ![s] = Tail(rcmds[s])]
           /\ phases' = [phases EXCEPT ![s] = IF Head(rcmds[s]) = "release" THEN "Idle"
                                     ELSE IF phases[s] = "Idle" THEN "Arming" ELSE phases[s]]
  <2> DEFINE q == rcmds[s]
  <2>1. /\ Tail(q) \in Seq(RuntimeCommands) /\ Len(q) \in Nat \ {0} /\ Len(Tail(q)) = Len(q) - 1
        /\ Head(q) = q[1] /\ (Len(q) > 1 => Tail(q)[Len(Tail(q))] = q[Len(q)])
        /\ (Tail(q) = <<>> <=> Len(q) = 1)
    <3>1. q \in Seq(RuntimeCommands) /\ q # <<>>
      BY <1>1, <1>t
    <3> HIDE DEF q
    <3>2. Len(q) \in Nat \ {0} /\ Tail(q) \in Seq(RuntimeCommands) /\ Len(Tail(q)) = Len(q) - 1
      BY <3>1
    <3>3. Len(q) > 1 => Tail(q)[Len(Tail(q))] = q[Len(q)]
      BY <3>1, <3>2
    <3>4. Tail(q) = <<>> <=> Len(q) = 1
      BY <3>1, <3>2
    <3> QED
      BY <3>1, <3>2, <3>3, <3>4
  <2>2. /\ rcmds'[s] = Tail(q) /\ phases'[s] \in {"Idle", "Arming", "Remote"}
        /\ phases'[s] = (IF q[1] = "release" THEN "Idle" ELSE IF phases[s] = "Idle" THEN "Arming" ELSE phases[s])
        /\ rcmds' \in [Sources -> Seq(RuntimeCommands)] /\ phases' \in [Sources -> {"Idle", "Arming", "Remote"}]
        /\ \A r \in Sources \ {s} : rcmds'[r] = rcmds[r] /\ phases'[r] = phases[r]
    BY <1>1, <1>t, <2>1
  <2>3. step[s] \in {"idle", "finish"} => Settled(s)'
    <3>1. SUFFICES ASSUME Settled(s) PROVE Settled(s)'
      BY <1>o DEF OneEnds
    <3>2. q[Len(q)] = "release"
      BY <3>1, <1>1 DEF Settled
    <3>3. CASE Len(q) = 1
      BY <3>2, <3>3, <2>1, <2>2 DEF Settled
    <3>4. CASE Len(q) > 1
      <4>1. rcmds'[s] # <<>> /\ rcmds'[s][Len(rcmds'[s])] = "release"
        BY <3>2, <3>4, <2>1, <2>2
      <4> QED
        BY <4>1 DEF Settled
    <3> QED
      BY <3>3, <3>4, <2>1
  <2>4. step[s] # "prepare"
    BY <1>o, <1>1 DEF OneEnds
  <2>5. step[s] \in {"look", "poll", "hop", "letgo"} => UnderWay(s)'
    <3>1. SUFFICES ASSUME UnderWay(s) PROVE UnderWay(s)'
      BY <1>o DEF OneEnds
    <3>2. q = <<"activate">>
      BY <3>1, <1>1 DEF UnderWay
    <3>3. rcmds'[s] = <<>>
      BY <3>2, <2>2
    <3> QED
      BY <3>3 DEF UnderWay
  <2>6. OneEnds(s)'
    BY <2>3, <2>4, <2>5, <1>o DEF OneEnds
  <2> QED
    BY <2>2, <2>6, <1>o, OthersEnd
<1>2. CASE UNCHANGED rcmds /\ \E to \in {"Idle", "Remote"} :
             phases' = [phases EXCEPT ![s] = to] /\ phases[s] # "Idle"
  <2>1. rcmds'[s] = rcmds[s] /\ phases[s] # "Idle"
        /\ phases' \in [Sources -> {"Idle", "Arming", "Remote"}]
        /\ \A r \in Sources \ {s} : rcmds'[r] = rcmds[r] /\ phases'[r] = phases[r]
    BY <1>2, <1>t
  <2>2. OneEnds(s)'
    BY <2>1, <1>o DEF OneEnds, Settled, UnderWay
  <2> QED
    BY <2>1, <2>2, <1>2, <1>o, <1>t, OthersEnd
<1> QED
  BY <1>1, <1>2 DEF RuntimeStep

-----------------------------------------------------------------------------
(* The lease of one target changes alone, and the taker of one target.       *)
OneExcludes(t) ==
  \/ lease[t] = NoLease
  \/ lease[t].src \in Sources /\ taker[t] \in {Nobody, lease[t].src}

LEMMA OneLeaseChanges ==
  ASSUME NEW t \in Targets, NEW l, NEW k, CrossingTypes, LeasesExclude, k \in Sources \cup {Nobody},
         lease' = [lease EXCEPT ![t] = l], taker' = [taker EXCEPT ![t] = k],
         l = NoLease \/ (l.src \in Sources /\ k \in {Nobody, l.src})
  PROVE LeasesExclude' /\ lease' = [u \in Targets |-> lease'[u]] /\ taker' \in [Targets -> Sources \cup {Nobody}]
<1>1. lease = [u \in Targets |-> lease[u]] /\ taker \in [Targets -> Sources \cup {Nobody}]
  BY DEF CrossingTypes
<1>2. lease' = [u \in Targets |-> lease'[u]] /\ lease'[t] = l /\ \A u \in Targets \ {t} : lease'[u] = lease[u]
  BY <1>1
<1>3. /\ taker' \in [Targets -> Sources \cup {Nobody}] /\ taker'[t] = k
      /\ \A u \in Targets \ {t} : taker'[u] = taker[u]
  BY <1>1
<1>4. ASSUME NEW u \in Targets PROVE OneExcludes(u)'
  <2>1. CASE u = t
    BY <2>1, <1>2, <1>3 DEF OneExcludes
  <2>2. CASE u # t
    BY <2>2, <1>2, <1>3 DEF LeasesExclude, OneExcludes
  <2> QED
    BY <2>1, <2>2
<1>5. LeasesExclude'
  BY <1>4 DEF LeasesExclude, OneExcludes
<1> QED
  BY <1>2, <1>3, <1>5

(* What an unchanged lease or taker is as an update.                         *)
LEMMA SameLease ==
  ASSUME NEW t \in Targets, CrossingTypes
  PROVE /\ lease = [lease EXCEPT ![t] = lease[t]] /\ taker = [taker EXCEPT ![t] = taker[t]]
        /\ taker[t] \in Sources \cup {Nobody}
  BY DEF CrossingTypes

LeasesStay ==
  LeasesExclude' /\ lease' = [u \in Targets |-> lease'[u]] /\ taker' \in [Targets -> Sources \cup {Nobody}]

(* A session that ends takes its lease with it.                              *)
LEMMA ClosedSessionsExclude ==
  ASSUME NEW s \in Sources, NEW t \in Targets, CrossingsInv, CloseSession(s, t)
  PROVE LeasesStay
<1> DEFINE k == IF taker[t] = s THEN Nobody ELSE taker[t]
           l == IF lease[t].src = s THEN NoLease ELSE lease[t]
<1>1. taker' = [taker EXCEPT ![t] = k]
  BY DEF CloseSession
<1>2. lease' = [lease EXCEPT ![t] = l]
  BY SameLease DEF CloseSession, Hub_closed, CrossingsInv
<1>3. k \in Sources \cup {Nobody}
  BY SameLease DEF CrossingsInv
<1>4. l = NoLease \/ (l.src \in Sources /\ k \in {Nobody, l.src})
  BY DEF CrossingsInv, LeasesExclude
<1> HIDE DEF k, l
<1> QED
  BY <1>1, <1>2, <1>3, <1>4, OneLeaseChanges DEF CrossingsInv, LeasesStay

(* A session that is dropped with its lease: an expiry, an agent that goes.  *)
LEMMA DroppedSessionsExclude ==
  ASSUME NEW s, NEW t \in Targets, CrossingsInv, taker' = [taker EXCEPT ![t] = IF @ = s THEN Nobody ELSE @],
         lease' = [lease EXCEPT ![t] = NoLease]
  PROVE LeasesStay
<1> DEFINE k == IF taker[t] = s THEN Nobody ELSE taker[t]
<1>1. taker' = [taker EXCEPT ![t] = k]
  OBVIOUS
<1>2. k \in Sources \cup {Nobody}
  BY SameLease DEF CrossingsInv
<1> HIDE DEF k
<1> QED
  BY <1>1, <1>2, OneLeaseChanges DEF CrossingsInv, LeasesStay

LEMMA TargetsExclude ==
  ASSUME NEW t \in Targets, CrossingsInv, TargetStep(t)
  PROVE LeasesStay
<1>s. lease = [lease EXCEPT ![t] = lease[t]] /\ taker = [taker EXCEPT ![t] = taker[t]]
      /\ taker[t] \in Sources \cup {Nobody}
  BY SameLease DEF CrossingsInv
<1>n. LeasesExclude /\ lease = [u \in Targets |-> lease[u]] /\ taker \in [Targets -> Sources \cup {Nobody}]
  BY DEF CrossingsInv, CrossingTypes
<1>1. CASE BrokerJob(t)
  <2>1. UNCHANGED taker /\ (lease' = [lease EXCEPT ![t] = NoLease] \/ lease' = lease)
    BY <1>1 DEF BrokerJob
  <2>2. CASE lease' = lease
    BY <2>1, <2>2, <1>n DEF LeasesStay, LeasesExclude
  <2>3. CASE lease' = [lease EXCEPT ![t] = NoLease]
    BY <2>1, <2>3, <1>s, OneLeaseChanges DEF CrossingsInv, LeasesStay
  <2> QED
    BY <2>1, <2>2, <2>3
<1>2. CASE LeaseExpires(t)
  BY <1>2, DroppedSessionsExclude DEF LeaseExpires, DropSession
<1>3. CASE AgentGone(t)
  <2>1. lease' = [lease EXCEPT ![t] = NoLease]
    BY <1>3 DEF AgentGone
  <2>2. CASE lease[t].src \in Sources
    BY <1>3, <2>1, <2>2, DroppedSessionsExclude DEF AgentGone, DropSession
  <2>3. CASE lease[t].src \notin Sources
    <3>1. taker' = [taker EXCEPT ![t] = taker[t]]
      BY <1>3, <2>3, <1>s DEF AgentGone
    <3> QED
      BY <2>1, <3>1, <1>s, OneLeaseChanges DEF CrossingsInv, LeasesStay
  <2> QED
    BY <2>2, <2>3
<1>4. CASE ShellExpires(t)
  BY <1>4, <1>n DEF ShellExpires, LeasesStay, LeasesExclude
<1> QED
  BY <1>1, <1>2, <1>3, <1>4 DEF TargetStep

LEMMA SessionsExclude ==
  ASSUME NEW s \in Sources, NEW t \in Targets, CrossingsInv, SessionStep(s, t)
  PROVE LeasesStay
<1>s. lease = [lease EXCEPT ![t] = lease[t]] /\ taker = [taker EXCEPT ![t] = taker[t]]
      /\ taker[t] \in Sources \cup {Nobody}
  BY SameLease DEF CrossingsInv
<1>n. LeasesExclude /\ lease = [u \in Targets |-> lease[u]] /\ taker \in [Targets -> Sources \cup {Nobody}]
  BY DEF CrossingsInv, CrossingTypes
<1>1. CASE SessionLost(s, t)
  BY <1>1, ClosedSessionsExclude DEF SessionLost
<1>2. CASE Leaves(s, t)
  <2>1. lease' = [lease EXCEPT ![t] = lease[t]] /\ taker' = [taker EXCEPT ![t] = Nobody]
    BY <1>2, <1>s DEF Leaves
  <2>2. lease[t] = NoLease \/ (lease[t].src \in Sources /\ Nobody \in {Nobody, lease[t].src})
    BY DEF CrossingsInv, LeasesExclude
  <2> QED
    BY <2>1, <2>2, OneLeaseChanges DEF CrossingsInv, LeasesStay
<1>3. CASE Request(s, t)
  <2>1. UNCHANGED taker
    BY <1>3 DEF Request
  <2>2. CASE UNCHANGED lease
    BY <2>1, <2>2, <1>n DEF LeasesStay, LeasesExclude
  <2>3. CASE taker[t] \in {Nobody, s} /\ lease' = [lease EXCEPT ![t] = [src |-> s, tok |-> call[s][t].tok]]
    BY <2>1, <2>3, <1>s, OneLeaseChanges DEF CrossingsInv, LeasesStay
  <2> QED
    BY <1>3, <2>2, <2>3 DEF Request
<1> QED
  BY <1>1, <1>2, <1>3 DEF SessionStep

(* An Enter is admitted only where no lease, or its own, stands against it.  *)
LEMMA EntersExclude ==
  ASSUME NEW s \in Sources, CrossingsInv, leg[s].to \in Targets, Enters(s)
  PROVE LeasesStay
<1> DEFINE t == leg[s].to
<1>1. CASE CloseSession(s, t)
  BY <1>1, ClosedSessionsExclude
<1>2. CASE /\ taker[t] = Nobody /\ allows_session(s, t)
           /\ taker' = [taker EXCEPT ![t] = s] /\ UNCHANGED lease
  <2>1. lease' = [lease EXCEPT ![t] = lease[t]]
    BY <1>2, SameLease DEF CrossingsInv
  <2>2. lease[t] = NoLease \/ (lease[t].src \in Sources /\ s \in {Nobody, lease[t].src})
    BY <1>2, HandoffAssumption DEF CrossingsInv, LeasesExclude, allows_session, Nobody
  <2> HIDE DEF t
  <2> QED
    BY <1>2, <2>1, <2>2, OneLeaseChanges DEF CrossingsInv, LeasesStay, t
<1> QED
  BY <1>1, <1>2 DEF Enters

(* A crossing's legs lead to targets.                                        *)
LEMMA LegsStayTyped ==
  ASSUME NEW s \in Sources, CrossingTypes, SourceStep(s)
  PROVE leg' \in [Sources -> Legs] /\ next' \in [Sources -> Legs] /\ tokens' \in Nat
<1>t. leg \in [Sources -> Legs] /\ next \in [Sources -> Legs] /\ tokens \in Nat /\ NoLeg \in Legs
  BY DEF CrossingTypes, Legs
<1>1. ASSUME NEW t \in Targets, Cross(s, t) PROVE leg' \in [Sources -> Legs] /\ UNCHANGED next /\ tokens' \in Nat
  <2>1. [to |-> t, tok |-> tokens + 1] \in Legs
    BY <1>t DEF Legs
  <2> QED
    BY <1>1, <1>t, <2>1 DEF Cross
<1>2. CASE Entered(s) \/ Look(s)
  BY <1>2, <1>t DEF Entered, Look
<1>3. CASE Polled(s)
  <2>1. CASE UNCHANGED <<next, tokens>>
    BY <1>3, <2>1, <1>t DEF Polled
  <2>2. ASSUME NEW u \in Targets, next' = [next EXCEPT ![s] = [to |-> u, tok |-> tokens + 1]]
        PROVE next' \in [Sources -> Legs]
    <3>1. [to |-> u, tok |-> tokens + 1] \in Legs
      BY <1>t DEF Legs
    <3> QED
      BY <2>2, <1>t, <3>1
  <2>3. UNCHANGED leg
    BY <1>3 DEF Polled
  <2>4. UNCHANGED <<next, tokens>>
        \/ (tokens' = tokens + 1 /\ \E u \in Targets : next' = [next EXCEPT ![s] = [to |-> u, tok |-> tokens + 1]])
    BY <1>3 DEF Polled
  <2> QED
    BY <2>1, <2>2, <2>3, <2>4, <1>t
<1>4. CASE Hopped(s)
  <2>1. leg[s] \in Legs /\ next[s] \in Legs
    BY <1>t
  <2>2. UNCHANGED tokens
        /\ (UNCHANGED <<leg, next>> \/ (leg' = [leg EXCEPT ![s] = next[s]] /\ next' = [next EXCEPT ![s] = leg[s]]))
    BY <1>4 DEF Hopped
  <2> QED
    BY <2>1, <2>2, <1>t
<1>5. CASE LetGo(s)
  BY <1>5, <1>t DEF LetGo
<1>6. CASE Crossed(s)
  BY <1>6, <1>t DEF Crossed
<1> QED
  BY <1>1, <1>2, <1>3, <1>4, <1>5, <1>6, <1>t DEF SourceStep

(* The variables the invariant is about.                                     *)
commandVars == <<step, armed, phases, rcmds>>
legVars == <<leg, next, tokens>>
leaseVars == <<lease, taker>>

LEMMA CrossingsStep == CrossingsInv /\ HandoffNext => CrossingsInv'
<1> SUFFICES ASSUME CrossingsInv, HandoffNext PROVE CrossingsInv'
  OBVIOUS
<1> DEFINE Commanded == /\ CommandsEnd'
                        /\ step' \in [Sources -> {"idle", "prepare", "look", "poll", "hop", "letgo", "finish"}]
                        /\ armed' \in [Sources -> BOOLEAN]
                        /\ phases' \in [Sources -> {"Idle", "Arming", "Remote"}]
                        /\ rcmds' \in [Sources -> Seq(RuntimeCommands)]
           Legged == leg' \in [Sources -> Legs] /\ next' \in [Sources -> Legs] /\ tokens' \in Nat
<1>c. ASSUME UNCHANGED commandVars PROVE Commanded
  BY <1>c DEF commandVars, CrossingsInv, CrossingTypes, CommandsEnd, Settled, UnderWay
<1>l. ASSUME UNCHANGED legVars PROVE Legged
  BY <1>l DEF legVars, CrossingsInv, CrossingTypes
<1>e. ASSUME UNCHANGED leaseVars PROVE LeasesStay
  <2>1. /\ lease = [u \in Targets |-> lease[u]] /\ taker \in [Targets -> Sources \cup {Nobody}]
        /\ lease' = lease /\ taker' = taker
    BY <1>e DEF leaseVars, CrossingsInv, CrossingTypes
  <2>2. LeasesExclude'
    BY <2>1 DEF CrossingsInv, LeasesExclude
  <2> QED
    BY <2>1, <2>2 DEF LeasesStay
<1>1. ASSUME NEW s \in Sources, SourceStep(s) PROVE Commanded /\ Legged /\ LeasesStay
  <2>1. Commanded
    <3>1. phases \in [Sources -> {"Idle", "Arming", "Remote"}]
      BY DEF CrossingsInv, CrossingTypes
    <3> QED
      BY <1>1, <3>1, SourceKeepsCommands
  <2>2. Legged
    BY <1>1, LegsStayTyped DEF CrossingsInv
  <2>3. UNCHANGED leaseVars
    BY <1>1 DEF SourceStep, Cross, Entered, Look, Polled, Hopped, LetGo, Crossed, sourceRest, leaseVars
  <2> QED
    BY <2>1, <2>2, <2>3, <1>e
<1>2. ASSUME NEW s \in Sources, RuntimeStep(s) PROVE Commanded /\ Legged /\ LeasesStay
  <2>1. UNCHANGED <<step, armed>> /\ UNCHANGED legVars /\ UNCHANGED leaseVars
    BY <1>2 DEF RuntimeStep, sourceRest, legVars, leaseVars
  <2>2. step \in [Sources -> {"idle", "prepare", "look", "poll", "hop", "letgo", "finish"}]
        /\ armed \in [Sources -> BOOLEAN]
    BY DEF CrossingsInv, CrossingTypes
  <2>3. Commanded
    BY <1>2, <2>1, <2>2, RuntimeKeepsCommands
  <2> QED
    BY <2>1, <2>3, <1>l, <1>e
<1>3. ASSUME NEW s \in Sources, Enters(s) PROVE Commanded /\ Legged /\ LeasesStay
  <2>1. UNCHANGED commandVars /\ UNCHANGED legVars
    BY <1>3 DEF Enters, commandVars, legVars
  <2>2. leg[s] \in Legs /\ leg[s] # NoLeg
    BY <1>3 DEF CrossingsInv, CrossingTypes, Enters
  <2>3. leg[s].to \in Targets
    BY <2>2 DEF Legs
  <2> QED
    BY <1>3, <2>1, <2>3, <1>c, <1>l, EntersExclude
<1>4. ASSUME NEW t \in Targets, TargetStep(t) PROVE Commanded /\ Legged /\ LeasesStay
  <2>1. UNCHANGED commandVars /\ UNCHANGED legVars
    BY <1>4 DEF TargetStep, BrokerJob, LeaseExpires, AgentGone, ShellExpires, commandVars, legVars
  <2> QED
    BY <1>4, <2>1, <1>c, <1>l, TargetsExclude
<1>5. ASSUME NEW s \in Sources, NEW t \in Targets, SessionStep(s, t) PROVE Commanded /\ Legged /\ LeasesStay
  <2>1. UNCHANGED commandVars /\ UNCHANGED legVars
    BY <1>5 DEF SessionStep, SessionLost, Leaves, Request, commandVars, legVars
  <2> QED
    BY <1>5, <2>1, <1>c, <1>l, SessionsExclude
<1>6. Commanded /\ Legged /\ LeasesStay
  <2> HIDE DEF Commanded, Legged
  <2> QED
    BY <1>1, <1>2, <1>3, <1>4, <1>5 DEF HandoffNext
<1> QED
  BY <1>6 DEF CrossingsInv, CrossingTypes, LeasesStay

LEMMA CrossingsStutter == CrossingsInv /\ UNCHANGED handoffVars => CrossingsInv'
<1> SUFFICES ASSUME CrossingsInv, UNCHANGED handoffVars PROVE CrossingsInv'
  OBVIOUS
<1>1. CrossingTypes'
  BY DEF CrossingsInv, CrossingTypes, handoffVars
<1>2. CommandsEnd'
  BY DEF CrossingsInv, CommandsEnd, Settled, UnderWay, handoffVars
<1>3. LeasesExclude'
  BY DEF CrossingsInv, LeasesExclude, handoffVars
<1> QED
  BY <1>1, <1>2, <1>3 DEF CrossingsInv

(* In every reachable state a desktop that is prepared for one computer takes *)
(* input of no other, and a crossing that is over leaves no input armed or   *)
(* sent for it, whatever order leases expire, sessions end, polls time out   *)
(* and grabs succeed in (allows_session, release_own_input).                 *)
THEOREM CrossingsExclude == MCSpec => []CrossingsAreExclusive
<1>1. MCInit => CrossingsHold
  <2>1. MCInit /\ part = "Crossings" => HandoffInit
    BY DEF MCInit
  <2> QED
    BY <2>1, CrossingsInitHolds DEF CrossingsHold
<1>2. CrossingsHold /\ [MCNext]_screensVars => CrossingsHold'
  <2> SUFFICES ASSUME CrossingsHold, [MCNext]_screensVars, part' = "Crossings" PROVE CrossingsInv'
    BY DEF CrossingsHold
  <2>1. part = "Crossings" /\ (HandoffNext \/ UNCHANGED handoffVars)
    BY OneScreenPartRuns
  <2>2. CrossingsInv
    BY <2>1 DEF CrossingsHold
  <2> QED
    BY <2>1, <2>2, CrossingsStep, CrossingsStutter
<1>3. CrossingsHold => CrossingsAreExclusive
  <2> SUFFICES ASSUME CrossingsInv PROVE LeaseHolderControls /\ NoInputAfterCrossing
    BY DEF CrossingsHold, CrossingsAreExclusive
  <2>1. LeaseHolderControls
    BY DEF CrossingsInv, LeasesExclude, LeaseHolderControls
  <2>2. ASSUME NEW s \in Sources, step[s] = "idle", phases[s] # "Idle"
        PROVE \E i \in DOMAIN rcmds[s] : rcmds[s][i] = "release"
    <3>1. rcmds[s] # <<>> /\ rcmds[s][Len(rcmds[s])] = "release" /\ rcmds[s] \in Seq(RuntimeCommands)
      BY <2>2 DEF CrossingsInv, CrossingTypes, CommandsEnd, Settled
    <3>2. Len(rcmds[s]) \in DOMAIN rcmds[s]
      BY <3>1
    <3> QED
      BY <3>1, <3>2
  <2> QED
    BY <2>1, <2>2 DEF NoInputAfterCrossing
<1> QED
  BY <1>1, <1>2, <1>3, PTL DEF MCSpec, screensVars

-----------------------------------------------------------------------------
(* The engine of Windows.  What its variables range over.                    *)
WinSessions == 1 .. Len(wof)
TaskKinds ==
  {"opened", "prepare", "poll", "prepared", "unavailable", "odd", "error", "active", "exited", "over", "end"}
Tasks == [kind : TaskKinds, s : Nat, t : Nat]
Opening(s) == Task("opened", s, 0)

SessionTypes ==
  /\ wconfig \in [sharing : BOOLEAN, peers : SUBSET WinPeers]
  /\ wos \in [available : BOOLEAN, blocked : BOOLEAN]
  /\ wof \in Seq([p : WinPeers, dialed : BOOLEAN])
  /\ wlinks \in [WinPeers -> Nat] /\ wtok \in Nat

OwnerTypes ==
  /\ winbound \in Nat /\ wlease \in [s : Nat, exit : {"no", "hit", "told"}, resting : BOOLEAN]
  /\ wout \in [s : Nat, t : Nat, polling : BOOLEAN] /\ warming \in [s : Nat, t : Nat]
  /\ wremote \in BOOLEAN

InjectorTypes == wkeys \in BOOLEAN /\ wreleasing \in BOOLEAN

EngineTypes == SessionTypes /\ OwnerTypes /\ InjectorTypes

(* A link is a session of its peer, which is paired, and its news was heard. *)
LinkedInv ==
  \A p \in WinPeers : wlinks[p] # 0 =>
    /\ wlinks[p] \in WinSessions /\ wof[wlinks[p]].p = p
    /\ p \in wconfig.peers /\ Opening(wlinks[p]) \notin wnet

(* A session that lives is a link, or the engine has yet to hear of it.      *)
AliveInv ==
  \A s \in walive : s \in WinSessions /\ (wlinks[wof[s].p] = s \/ Opening(s) \in wnet)

(* Nothing is asked or told of a session before the engine has heard of it.  *)
NetInv ==
  \A m \in wnet :
    /\ m \in Tasks /\ m.s \in WinSessions
    /\ IF m.kind = "opened" THEN m.t = 0 ELSE Opening(m.s) \notin wnet

(* What uses a session uses a link.                                          *)
WinUser(s) == s = 0 \/ (s \in WinSessions /\ wlinks[wof[s].p] = s)
UsersInv == WinUser(winbound) /\ WinUser(wlease.s) /\ WinUser(wout.s) /\ WinUser(warming.s)

(* PreparedIsGivenBack, of desktops prepared for sessions.                   *)
DeskIsHeld(d) ==
  \/ wout.s = d[1] /\ wout.t = d[2]
  \/ Task("prepared", d[1], d[2]) \in wnet
  \/ Task("end", d[1], d[2]) \in wnet
  \/ d[1] \notin walive
WinDesksInv == \A d \in wdesks : d \in WinSessions \X Nat /\ DeskIsHeld(d)

EngineInv ==
  /\ EngineTypes /\ LinkedInv /\ AliveInv /\ NetInv /\ UsersInv /\ WindowsOneOwner
  /\ WindowsKeyIsOwned /\ WinDesksInv

EngineHolds == part = "Engine" => EngineInv

LEMMA EngineInitHolds == WindowsInit => EngineInv
<1> SUFFICES ASSUME WindowsInit PROVE EngineInv
  OBVIOUS
<1>1. EngineTypes
  <2>1. wconfig \in [sharing : BOOLEAN, peers : SUBSET WinPeers] /\ wos \in [available : BOOLEAN, blocked : BOOLEAN]
    BY DEF WindowsInit
  <2>2. wof \in Seq([p : WinPeers, dialed : BOOLEAN]) /\ wlinks \in [WinPeers -> Nat]
    BY DEF WindowsInit
  <2>3. wlease \in [s : Nat, exit : {"no", "hit", "told"}, resting : BOOLEAN]
        /\ wout \in [s : Nat, t : Nat, polling : BOOLEAN] /\ warming \in [s : Nat, t : Nat]
    BY DEF WindowsInit, NoWinLease, NoOut, NotArming
  <2> QED
    BY <2>1, <2>2, <2>3 DEF WindowsInit, EngineTypes, SessionTypes, OwnerTypes, InjectorTypes
<1>2. LinkedInv /\ AliveInv /\ NetInv /\ WinDesksInv
  BY DEF WindowsInit, LinkedInv, AliveInv, NetInv, WinDesksInv
<1>3. UsersInv /\ WindowsOneOwner /\ WindowsKeyIsOwned
  BY DEF WindowsInit, UsersInv, WinUser, WindowsOneOwner, WindowsKeyIsOwned, idle,
         NoWinLease, NoOut, NotArming
<1> QED
  BY <1>1, <1>2, <1>3 DEF EngineInv

LEMMA SessionsHavePeers ==
  ASSUME EngineTypes, NEW s \in WinSessions
  PROVE wof[s] \in [p : WinPeers, dialed : BOOLEAN] /\ wof[s].p \in WinPeers /\ peer_of(s) = wof[s].p
        /\ s \in Nat /\ s # 0
<1>1. wof \in Seq([p : WinPeers, dialed : BOOLEAN])
  BY DEF EngineTypes, SessionTypes
<1>2. wof[s] \in [p : WinPeers, dialed : BOOLEAN]
  <2> DEFINE R == [p : WinPeers, dialed : BOOLEAN]
  <2> HIDE DEF R
  <2>1. wof \in Seq(R)
    BY <1>1 DEF R
  <2>2. wof[s] \in R
    BY <2>1, ElementOfSeq DEF WinSessions
  <2> QED
    BY <2>2 DEF R
<1> QED
  BY <1>1, <1>2 DEF WinSessions, peer_of

(* Most steps neither open nor link sessions: they may close some, unpair     *)
(* nobody, and what they send is of sessions the engine has heard of.        *)
Calm ==
  /\ UNCHANGED <<wof, wlinks>> /\ walive' \subseteq walive
  /\ wconfig.peers \subseteq wconfig'.peers
  /\ \A m \in wnet' : m \in wnet \/ (/\ m \in Tasks /\ m.s \in WinSessions
                                     /\ m.kind # "opened" /\ Opening(m.s) \notin wnet)
  /\ \A m \in wnet : m.kind = "opened" => m \in wnet'

LEMMA OpeningIsOpened == \A s : Opening(s).kind = "opened" /\ Opening(s).s = s /\ Opening(s).t = 0
  BY DEF Opening, Task

LEMMA CalmKeeps ==
  ASSUME EngineInv, Calm
  PROVE LinkedInv' /\ AliveInv' /\ NetInv'
<1>1. ASSUME NEW s PROVE Opening(s)' \in wnet' <=> Opening(s) \in wnet
  BY OpeningIsOpened DEF Calm, Opening, Task
<1>2. UNCHANGED <<wof, wlinks>> /\ WinSessions' = WinSessions
  BY DEF Calm, WinSessions
<1>3. LinkedInv'
  <2> HIDE DEF Opening
  <2>1. wconfig.peers \subseteq wconfig'.peers
    BY DEF Calm
  <2> QED
    BY <1>1, <1>2, <2>1 DEF EngineInv, LinkedInv
<1>4. AliveInv'
  <2>1. walive' \subseteq walive
    BY DEF Calm
  <2> QED
    BY <1>1, <1>2, <2>1 DEF EngineInv, AliveInv
<1>5. NetInv'
  <2> SUFFICES ASSUME NEW m \in wnet'
               PROVE /\ m \in Tasks /\ m.s \in WinSessions
                     /\ IF m.kind = "opened" THEN m.t = 0 ELSE Opening(m.s)' \notin wnet'
    BY <1>2 DEF NetInv, Tasks, TaskKinds
  <2>1. CASE m \in wnet
    BY <2>1, <1>1 DEF EngineInv, NetInv
  <2>2. CASE m \in Tasks /\ m.s \in WinSessions /\ m.kind # "opened" /\ Opening(m.s) \notin wnet
    BY <2>2, <1>1
  <2> QED
    BY <2>1, <2>2 DEF Calm
<1> QED
  BY <1>3, <1>4, <1>5

(* What the injector does keeps its own promise.                             *)
LEMMA ReleaseIsKept ==
  ASSUME InjectorTypes, win_release
  PROVE InjectorTypes' /\ (wkeys' => wreleasing')
  BY DEF win_release, InjectorTypes

LEMMA RetryIsKept ==
  ASSUME InjectorTypes, retry_release, WindowsKeyIsOwned, winbound' = winbound
  PROVE InjectorTypes' /\ WindowsKeyIsOwned'
<1>1. CASE wreleasing
  BY <1>1, ReleaseIsKept DEF retry_release, WindowsKeyIsOwned
<1>2. CASE ~wreleasing
  BY <1>2 DEF retry_release, WindowsKeyIsOwned, InjectorTypes, injector_vars
<1> QED
  BY <1>1, <1>2

(* Desktops stay held through a step that drops none of what holds them.     *)
LEMMA DesksAreKept ==
  ASSUME EngineInv, wof' = wof, wdesks' \subseteq wdesks, walive' \subseteq walive,
         \A m \in wnet : m.kind \in {"prepared", "end"} => m \in wnet',
         wout.s \in walive => (wout'.s = wout.s /\ wout'.t = wout.t) \/ Task("end", wout.s, wout.t) \in wnet'
  PROVE WinDesksInv'
<1> SUFFICES ASSUME NEW d \in wdesks' PROVE d \in WinSessions \X Nat /\ DeskIsHeld(d)'
  BY DEF WinDesksInv, WinSessions
<1>1. d \in WinSessions \X Nat /\ DeskIsHeld(d)
  BY DEF EngineInv, WinDesksInv
<1>2. CASE d[1] \notin walive
  BY <1>1, <1>2 DEF DeskIsHeld
<1>3. CASE wout.s = d[1] /\ wout.t = d[2] /\ d[1] \in walive
  BY <1>1, <1>3 DEF DeskIsHeld, Task
<1>4. CASE Task("prepared", d[1], d[2]) \in wnet
  BY <1>1, <1>4 DEF DeskIsHeld, Task
<1>5. CASE Task("end", d[1], d[2]) \in wnet
  BY <1>1, <1>5 DEF DeskIsHeld, Task
<1> QED
  BY <1>1, <1>2, <1>3, <1>4, <1>5 DEF DeskIsHeld

(* Engine::local gives everything back at once.                              *)
LEMMA LocalGivesBack ==
  ASSUME EngineInv, NEW shut, NEW net, local(shut, net), wof' = wof, net \subseteq wnet,
         \A m \in wnet : m.kind \in {"prepared", "end"} => m \in net
  PROVE /\ OwnerTypes' /\ InjectorTypes'
        /\ UsersInv' /\ WindowsOneOwner' /\ WindowsKeyIsOwned' /\ WinDesksInv'
        /\ walive' \subseteq walive \ shut
        /\ \A m \in wnet' : m \in net \/ (/\ m \in Tasks /\ m.s \in WinSessions
                                         /\ m.kind # "opened" /\ Opening(m.s) \notin wnet)
        /\ net \subseteq wnet'
<1>1. /\ winbound' = 0 /\ wlease' = NoWinLease /\ wout' = NoOut /\ warming' = NotArming /\ wremote' = FALSE
      /\ win_release
  BY DEF local
<1>2. OwnerTypes'
  BY <1>1 DEF OwnerTypes, NoWinLease, NoOut, NotArming
<1>3. UsersInv' /\ WindowsOneOwner'
  BY <1>1 DEF UsersInv, WinUser, WindowsOneOwner, idle, NoWinLease, NoOut, NotArming
<1>4. InjectorTypes' /\ WindowsKeyIsOwned'
  BY <1>1, ReleaseIsKept DEF EngineInv, EngineTypes, WindowsKeyIsOwned
<1>5. walive' \subseteq walive \ shut /\ wdesks' \subseteq wdesks
  BY DEF local, Close
<1>6. wout.s # 0 => wout.s \in WinSessions /\ wlinks[wof[wout.s].p] = wout.s /\ wof[wout.s].p \in WinPeers
  BY SessionsHavePeers DEF EngineInv, UsersInv, WinUser
<1>7. wnet' = IF wout.s = 0 THEN net ELSE net \cup {Task("end", wout.s, wout.t)}
  <2>1. CASE wout.s = 0
    BY <2>1 DEF local
  <2>2. CASE wout.s # 0
    <3>1. {wlinks[peer_of(wout.s)]} \ {0} = {wout.s}
      BY <2>2, <1>6 DEF peer_of
    <3>2. wnet' = net \cup {Task("end", s, wout.t) : s \in {wlinks[peer_of(wout.s)]} \ {0}}
      BY <2>2 DEF local
    <3> QED
      BY <2>2, <3>1, <3>2
  <2> QED
    BY <2>1, <2>2
<1>8. wout.s # 0 => /\ Task("end", wout.s, wout.t) \in Tasks /\ Task("end", wout.s, wout.t).s = wout.s
                    /\ Task("end", wout.s, wout.t).kind # "opened" /\ Opening(wout.s) \notin wnet
  <2>1. wout.s \in Nat /\ wout.t \in Nat
    BY DEF EngineInv, EngineTypes, OwnerTypes
  <2>2. Task("end", wout.s, wout.t) \in Tasks /\ Task("end", wout.s, wout.t).s = wout.s
        /\ Task("end", wout.s, wout.t).kind # "opened"
    BY <2>1 DEF Task, Tasks, TaskKinds
  <2>3. wout.s # 0 => Opening(wout.s) \notin wnet
    BY <1>6 DEF EngineInv, LinkedInv
  <2> QED
    BY <2>2, <2>3
<1>9. \A m \in wnet' : m \in net \/ (/\ m \in Tasks /\ m.s \in WinSessions
                                     /\ m.kind # "opened" /\ Opening(m.s) \notin wnet)
  BY <1>6, <1>7, <1>8
<1>10. WinDesksInv'
  <2>1. wout.s \in walive => wout.s # 0
    BY DEF EngineInv, AliveInv, WinSessions
  <2>2. wout.s \in walive => Task("end", wout.s, wout.t) \in wnet'
    BY <2>1, <1>7
  <2> QED
    BY <2>2, <1>5, <1>7, DesksAreKept
<1> QED
  BY <1>2, <1>3, <1>4, <1>5, <1>7, <1>9, <1>10

LEMMA CalmStep ==
  ASSUME EngineInv, Calm, SessionTypes', OwnerTypes', InjectorTypes', UsersInv', WindowsOneOwner',
         WindowsKeyIsOwned', WinDesksInv'
  PROVE EngineInv'
  BY CalmKeeps DEF EngineInv, EngineTypes

(* A calm step that only gives everything back.                              *)
LEMMA LocalStep ==
  ASSUME EngineInv, NEW shut, NEW net, local(shut, net), net \subseteq wnet,
         \A m \in wnet : m.kind \in {"opened", "prepared", "end"} => m \in net,
         UNCHANGED <<wof, wlinks>>, wconfig.peers \subseteq wconfig'.peers, SessionTypes'
  PROVE EngineInv'
<1>1. /\ OwnerTypes' /\ InjectorTypes'
      /\ UsersInv' /\ WindowsOneOwner' /\ WindowsKeyIsOwned' /\ WinDesksInv'
      /\ walive' \subseteq walive \ shut
      /\ \A m \in wnet' : m \in net \/ (/\ m \in Tasks /\ m.s \in WinSessions
                                       /\ m.kind # "opened" /\ Opening(m.s) \notin wnet)
      /\ net \subseteq wnet'
  BY LocalGivesBack
<1>2. Calm
  BY <1>1 DEF Calm
<1> QED
  BY <1>1, <1>2, CalmStep

(* What a calm step that leaves the owners alone keeps.                      *)
LEMMA OwnersStay ==
  ASSUME EngineInv, UNCHANGED <<wof, wlinks>>, UNCHANGED owner_vars
  PROVE OwnerTypes' /\ UsersInv' /\ WindowsOneOwner'
<1>1. OwnerTypes'
  BY DEF EngineInv, EngineTypes, OwnerTypes, owner_vars
<1>2. UsersInv'
  BY DEF EngineInv, UsersInv, WinUser, WinSessions, owner_vars
<1>3. WindowsOneOwner'
  BY DEF EngineInv, WindowsOneOwner, idle, owner_vars
<1> QED
  BY <1>1, <1>2, <1>3

LEMMA WorldStays ==
  ASSUME EngineInv, UNCHANGED <<world, wof, wlinks, wtok>>
  PROVE SessionTypes' /\ wconfig'.peers = wconfig.peers
  BY DEF EngineInv, EngineTypes, SessionTypes, world

LEMMA InjectorStays ==
  ASSUME EngineInv, UNCHANGED injector_vars, winbound' = winbound
  PROVE InjectorTypes' /\ WindowsKeyIsOwned'
  BY DEF EngineInv, EngineTypes, InjectorTypes, WindowsKeyIsOwned, injector_vars

(* Steps that leave the owners, the tasks and the desktops alone.            *)
LEMMA QuietSteps ==
  ASSUME EngineInv,
         \/ \E p \in WinPeers : dial(p) \/ failed(p) \/ Trust(p)
         \/ Tick \/ Desktop \/ \E s \in WinSessions : WinLost(s)
  PROVE EngineInv'
<1>1. UNCHANGED <<wof, wlinks, wtok>> /\ UNCHANGED owner_vars /\ UNCHANGED wnet
      /\ walive' \subseteq walive /\ wdesks' \subseteq wdesks
  BY DEF dial, failed, Trust, Tick, Desktop, WinLost, session_vars, Close
<1>2. SessionTypes' /\ wconfig.peers \subseteq wconfig'.peers
  <2>1. CASE UNCHANGED world
    BY <2>1, <1>1, WorldStays
  <2>2. ASSUME NEW p \in WinPeers, Trust(p)
        PROVE SessionTypes' /\ wconfig.peers \subseteq wconfig'.peers
    <3>1. wconfig' = [wconfig EXCEPT !.peers = wconfig.peers \cup {p}] /\ wos' = wos
      BY <2>2 DEF Trust
    <3>2. wconfig \in [sharing : BOOLEAN, peers : SUBSET WinPeers]
      BY DEF EngineInv, EngineTypes, SessionTypes
    <3>3. wconfig' \in [sharing : BOOLEAN, peers : SUBSET WinPeers] /\ wconfig.peers \subseteq wconfig'.peers
      BY <3>1, <3>2
    <3> QED
      BY <3>1, <3>3, <1>1 DEF EngineInv, EngineTypes, SessionTypes
  <2>3. CASE Desktop
    <3>1. wconfig' = wconfig /\ (wos' = [wos EXCEPT !.available = ~wos.available]
                                 \/ wos' = [wos EXCEPT !.blocked = ~wos.blocked])
      BY <2>3 DEF Desktop
    <3>2. wos \in [available : BOOLEAN, blocked : BOOLEAN]
      BY DEF EngineInv, EngineTypes, SessionTypes
    <3>3. wos' \in [available : BOOLEAN, blocked : BOOLEAN]
      BY <3>1, <3>2
    <3> QED
      BY <3>1, <3>3, <1>1 DEF EngineInv, EngineTypes, SessionTypes
  <2> QED
    BY <2>1, <2>2, <2>3 DEF dial, failed, Tick, WinLost
<1>3. Calm
  BY <1>1, <1>2 DEF Calm
<1>4. OwnerTypes' /\ UsersInv' /\ WindowsOneOwner'
  BY <1>1, OwnersStay
<1>5. winbound' = winbound /\ wout' = wout
  BY <1>1 DEF owner_vars
<1>6. InjectorTypes' /\ WindowsKeyIsOwned'
  <2>1. UNCHANGED injector_vars \/ retry_release
    BY DEF dial, failed, Trust, Tick, Desktop, WinLost
  <2>2. InjectorTypes /\ WindowsKeyIsOwned
    BY DEF EngineInv, EngineTypes
  <2> QED
    BY <2>1, <2>2, <1>5, InjectorStays, RetryIsKept
<1>7. WinDesksInv'
  BY <1>1, <1>5, DesksAreKept
<1> QED
  BY <1>2, <1>3, <1>4, <1>6, <1>7, CalmStep

(* Input comes back.                                                         *)
LEMMA ComeBackSteps ==
  ASSUME EngineInv, ComeBack \/ Escape
  PROVE EngineInv'
<1>1. local({}, wnet) /\ UNCHANGED <<wof, wlinks, wtok>>
  BY DEF ComeBack, Escape
<1>2. SessionTypes' /\ wconfig.peers \subseteq wconfig'.peers
  <2>1. CASE ComeBack
    BY <2>1, WorldStays DEF ComeBack
  <2>2. CASE Escape
    <3>1. wconfig' = [wconfig EXCEPT !.sharing = FALSE] /\ wos' = wos
      BY <2>2 DEF Escape
    <3>2. wconfig \in [sharing : BOOLEAN, peers : SUBSET WinPeers]
      BY DEF EngineInv, EngineTypes, SessionTypes
    <3>3. wconfig' \in [sharing : BOOLEAN, peers : SUBSET WinPeers] /\ wconfig.peers \subseteq wconfig'.peers
      BY <3>1, <3>2
    <3> QED
      BY <3>1, <3>3, <1>1 DEF EngineInv, EngineTypes, SessionTypes
  <2> QED
    BY <2>1, <2>2
<1> QED
  BY <1>1, <1>2, LocalStep

(* The ticks.                                                                *)
LEMMA LeaseIsSampled ==
  ASSUME NEW l \in [s : Nat, exit : {"no", "hit", "told"}, resting : BOOLEAN], NEW on \in BOOLEAN
  PROVE sample(l, on) \in [s : Nat, exit : {"no", "hit", "told"}, resting : BOOLEAN] /\ sample(l, on).s = l.s
  BY DEF sample

(* A lease that its session keeps.                                           *)
LEMMA SameHolder ==
  ASSUME EngineInv, UNCHANGED <<wof, wlinks>>, UNCHANGED <<winbound, wout, warming, wremote>>,
         wlease' \in [s : Nat, exit : {"no", "hit", "told"}, resting : BOOLEAN], wlease'.s = wlease.s
  PROVE OwnerTypes' /\ UsersInv' /\ WindowsOneOwner'
<1>1. OwnerTypes'
  BY DEF EngineInv, EngineTypes, OwnerTypes
<1>2. UsersInv'
  BY DEF EngineInv, UsersInv, WinUser, WinSessions
<1>3. WindowsOneOwner'
  BY DEF EngineInv, WindowsOneOwner, idle
<1> QED
  BY <1>1, <1>2, <1>3

LEMMA TickSteps ==
  ASSUME EngineInv, TickLocked \/ TickLease
  PROVE EngineInv'
<1>1. UNCHANGED <<world, wof, wlinks, wtok>>
  BY DEF TickLocked, TickLease
<1>2. SessionTypes' /\ wconfig'.peers = wconfig.peers
  BY <1>1, WorldStays
<1>3. ASSUME NEW shut, local(shut, wnet) PROVE EngineInv'
  BY <1>1, <1>2, <1>3, LocalStep
<1>4. CASE win_release /\ UNCHANGED <<wnet, owner_vars, walive, wdesks>>
  <2>1. Calm
    BY <1>1, <1>2, <1>4 DEF Calm
  <2>2. OwnerTypes' /\ UsersInv' /\ WindowsOneOwner' /\ wout' = wout
    BY <1>1, <1>4, OwnersStay DEF owner_vars
  <2>3. InjectorTypes' /\ WindowsKeyIsOwned'
    BY <1>4, ReleaseIsKept DEF EngineInv, EngineTypes, WindowsKeyIsOwned
  <2>4. WinDesksInv'
    BY <1>1, <1>4, <2>2, DesksAreKept
  <2> QED
    BY <1>2, <2>1, <2>2, <2>3, <2>4, CalmStep
<1>5. CASE /\ \E on \in BOOLEAN : wlease' = sample(wlease, on)
           /\ retry_release /\ UNCHANGED <<wnet, winbound, wout, warming, wremote, walive, wdesks>>
  <2>1. Calm
    BY <1>1, <1>2, <1>5 DEF Calm
  <2>2. OwnerTypes' /\ UsersInv' /\ WindowsOneOwner'
    BY <1>1, <1>5, SameHolder, LeaseIsSampled DEF EngineInv, EngineTypes, OwnerTypes
  <2>3. InjectorTypes' /\ WindowsKeyIsOwned'
    BY <1>5, RetryIsKept DEF EngineInv, EngineTypes
  <2>4. WinDesksInv'
    BY <1>1, <1>5, DesksAreKept
  <2> QED
    BY <1>2, <2>1, <2>2, <2>3, <2>4, CalmStep
<1> QED
  BY <1>3, <1>4, <1>5 DEF TickLocked, TickLease

(* A step of the owner of the injector, which sends nothing.                 *)
LEMMA OwnerStep ==
  ASSUME EngineInv, UNCHANGED <<world, wof, wlinks, wnet, wtok>>, walive' \subseteq walive,
         wdesks' \subseteq wdesks, UNCHANGED <<wout, warming, wremote>>,
         winbound' = 0 \/ winbound' = winbound
           \/ (winbound' \in WinSessions /\ wlinks[wof[winbound'].p] = winbound' /\ idle),
         wlease' \in [s : Nat, exit : {"no", "hit", "told"}, resting : BOOLEAN],
         wlease'.s = 0 \/ wlease'.s = wlease.s
           \/ (wlease'.s \in WinSessions /\ wlinks[wof[wlease'.s].p] = wlease'.s /\ idle),
         InjectorTypes', WindowsKeyIsOwned'
  PROVE EngineInv'
<1>1. SessionTypes' /\ wconfig'.peers = wconfig.peers
  BY WorldStays
<1>2. Calm
  BY <1>1 DEF Calm
<1>3. OwnerTypes'
  BY DEF EngineInv, EngineTypes, OwnerTypes, WinSessions
<1>4. UsersInv'
  BY DEF EngineInv, UsersInv, WinUser, WinSessions
<1>5. WindowsOneOwner'
  BY DEF EngineInv, WindowsOneOwner, idle
<1>6. WinDesksInv'
  BY DesksAreKept
<1> QED
  BY <1>1, <1>2, <1>3, <1>4, <1>5, <1>6, CalmStep

(* The link of a session that is current.                                    *)
LEMMA CurrentIsLinked ==
  ASSUME EngineInv, NEW s \in WinSessions, current(s)
  PROVE wlinks[wof[s].p] = s /\ Opening(s) \notin wnet /\ wof[s].p \in WinPeers
<1>1. wof[s].p \in WinPeers /\ peer_of(s) = wof[s].p /\ s # 0
  BY SessionsHavePeers DEF EngineInv
<1>2. wlinks[wof[s].p] = s
  BY <1>1 DEF current
<1> QED
  BY <1>1, <1>2 DEF EngineInv, LinkedInv

LEMMA LeaseIsTyped ==
  ASSUME EngineInv
  PROVE /\ wlease \in [s : Nat, exit : {"no", "hit", "told"}, resting : BOOLEAN]
        /\ NoWinLease \in [s : Nat, exit : {"no", "hit", "told"}, resting : BOOLEAN] /\ NoWinLease.s = 0
        /\ InjectorTypes /\ WindowsKeyIsOwned
  BY DEF EngineInv, EngineTypes, OwnerTypes, NoWinLease

(* A refused batch closes its session; the injector lets go if it was its.   *)
LEMMA RefusalIsKept ==
  ASSUME EngineInv, NEW s, not_allowed(s)
  PROVE /\ walive' \subseteq walive /\ wdesks' \subseteq wdesks
        /\ winbound' = 0 \/ winbound' = winbound
        /\ InjectorTypes' /\ WindowsKeyIsOwned'
<1>1. walive' \subseteq walive /\ wdesks' \subseteq wdesks
  BY DEF not_allowed, Close
<1>2. CASE win_release /\ winbound' = 0
  BY <1>1, <1>2, ReleaseIsKept, LeaseIsTyped DEF WindowsKeyIsOwned
<1>3. CASE UNCHANGED <<injector_vars, winbound>>
  BY <1>1, <1>3, InjectorStays
<1> QED
  BY <1>2, <1>3 DEF not_allowed

LEMMA EffectsSteps ==
  ASSUME EngineInv, NEW s \in WinSessions, EffectsOpen(s) \/ EffectsPress(s) \/ EffectsClose(s)
  PROVE EngineInv'
<1>1. UNCHANGED <<world, wof, wlinks, wnet, wtok>> /\ UNCHANGED <<wout, warming, wremote>>
      /\ wlease' = wlease
  BY DEF EffectsOpen, EffectsPress, EffectsClose, EffectsVars
<1>2. CASE not_allowed(s)
  BY <1>1, <1>2, RefusalIsKept, LeaseIsTyped, OwnerStep
<1>3. CASE /\ current(s) /\ allowed(s, TRUE) /\ win_release /\ winbound' = s
           /\ UNCHANGED <<walive, wdesks>>
  <2>1. s \in WinSessions /\ wlinks[wof[s].p] = s
    BY <1>3, CurrentIsLinked
  <2>2. idle
    BY <1>3 DEF allowed
  <2>3. InjectorTypes' /\ WindowsKeyIsOwned'
    BY <1>3, ReleaseIsKept, LeaseIsTyped DEF WindowsKeyIsOwned
  <2> QED
    BY <1>1, <1>3, <2>1, <2>2, <2>3, LeaseIsTyped, OwnerStep
<1>4. CASE /\ current(s) /\ allowed(s, FALSE) /\ apply_press
           /\ IF apply_works THEN UNCHANGED <<walive, wdesks>> ELSE Close({s})
           /\ UNCHANGED winbound
  <2>1. walive' \subseteq walive /\ wdesks' \subseteq wdesks
    BY <1>4 DEF Close
  <2>2. winbound' = s /\ s # 0
    BY <1>4, SessionsHavePeers DEF allowed, EngineInv
  <2>3. InjectorTypes' /\ WindowsKeyIsOwned'
    <3>1. CASE apply_works
      BY <1>4, <3>1, <2>2 DEF apply_press, InjectorTypes, WindowsKeyIsOwned
    <3>2. CASE ~apply_works
      BY <1>4, <3>2, ReleaseIsKept, LeaseIsTyped DEF apply_press, WindowsKeyIsOwned
    <3> QED
      BY <3>1, <3>2
  <2> QED
    BY <1>1, <1>4, <2>1, <2>3, LeaseIsTyped, OwnerStep
<1>5. CASE win_release /\ winbound' = 0 /\ UNCHANGED <<walive, wdesks>>
  <2>1. InjectorTypes' /\ WindowsKeyIsOwned'
    BY <1>5, ReleaseIsKept, LeaseIsTyped DEF WindowsKeyIsOwned
  <2> QED
    BY <1>1, <1>5, <2>1, LeaseIsTyped, OwnerStep
<1> QED
  BY <1>2, <1>3, <1>4, <1>5 DEF EffectsOpen, EffectsPress, EffectsClose

LEMMA DesktopSteps ==
  ASSUME EngineInv, NEW s \in WinSessions, Prepare(s) \/ WinPoll(s) \/ WinFinish(s)
  PROVE EngineInv'
<1>1. UNCHANGED <<world, wof, wlinks, wnet, wtok>> /\ UNCHANGED <<wout, warming, wremote>>
      /\ UNCHANGED <<walive, wdesks>>
  BY DEF Prepare, WinPoll, WinFinish, session_vars
<1>2. CASE Prepare(s)
  <2>1. wlinks[wof[s].p] = s /\ idle /\ s \in Nat
    BY <1>2, CurrentIsLinked DEF Prepare, admits, WinSessions
  <2>2. PICK resting \in BOOLEAN : wlease' = [s |-> s, exit |-> "no", resting |-> resting]
    BY <1>2 DEF Prepare
  <2>3. wlease' \in [s : Nat, exit : {"no", "hit", "told"}, resting : BOOLEAN] /\ wlease'.s = s
    BY <2>1, <2>2
  <2>4. winbound' = winbound
    BY <1>2 DEF Prepare
  <2>5. InjectorTypes' /\ WindowsKeyIsOwned'
    BY <1>2, <2>4, RetryIsKept, LeaseIsTyped DEF Prepare
  <2> QED
    BY <1>1, <2>1, <2>3, <2>4, <2>5, OwnerStep
<1>3. CASE WinPoll(s)
  <2> DEFINE L == [s : Nat, exit : {"no", "hit", "told"}, resting : BOOLEAN]
             l0 == IF wlease.exit = "told" THEN [wlease EXCEPT !.exit = "no", !.resting = TRUE] ELSE wlease
  <2>1. winbound' = winbound /\ UNCHANGED injector_vars
    BY <1>3 DEF WinPoll
  <2>2. PICK on \in BOOLEAN :
          wlease' = IF sample(l0, on).exit = "no" THEN sample(l0, on) ELSE [sample(l0, on) EXCEPT !.exit = "told"]
    BY <1>3 DEF WinPoll
  <2>3. l0 \in L /\ l0.s = wlease.s
    BY LeaseIsTyped
  <2> HIDE DEF l0
  <2>4. sample(l0, on) \in L /\ sample(l0, on).s = wlease.s
    BY <2>3, LeaseIsSampled
  <2>5. wlease' \in L /\ wlease'.s = wlease.s
    BY <2>2, <2>4
  <2>6. InjectorTypes' /\ WindowsKeyIsOwned'
    BY <2>1, InjectorStays
  <2> QED
    BY <1>1, <2>1, <2>5, <2>6, OwnerStep
<1>4. CASE WinFinish(s)
  <2>1. win_release /\ winbound' = 0 /\ wlease' = NoWinLease
    BY <1>4 DEF WinFinish
  <2>2. InjectorTypes' /\ WindowsKeyIsOwned'
    BY <2>1, ReleaseIsKept, LeaseIsTyped DEF WindowsKeyIsOwned
  <2> QED
    BY <1>1, <2>1, <2>2, LeaseIsTyped, OwnerStep
<1> QED
  BY <1>2, <1>3, <1>4

(* A task about a linked session.                                            *)
LEMMA TaskIsTyped ==
  ASSUME NEW kind \in TaskKinds, NEW s \in Nat, NEW t \in Nat
  PROVE Task(kind, s, t) \in Tasks /\ Task(kind, s, t).kind = kind /\ Task(kind, s, t).s = s
        /\ Task(kind, s, t).t = t
  BY DEF Task, Tasks

LEMMA ArmStep ==
  ASSUME EngineInv, NEW p \in WinPeers, arm(p)
  PROVE EngineInv'
<1> DEFINE s == wlinks[p]
<1>1. s \in WinSessions /\ wof[s].p = p /\ Opening(s) \notin wnet /\ s \in Nat /\ s # 0 /\ wtok \in Nat
  BY DEF EngineInv, EngineTypes, SessionTypes, LinkedInv, arm, arm_works
<1>2. /\ UNCHANGED <<world, wof, wlinks, walive, wdesks>> /\ UNCHANGED <<winbound, wlease, wout, wremote>>
      /\ wtok' = wtok + 1 /\ warming' = [s |-> s, t |-> wtok + 1]
      /\ wnet' = wnet \cup {Task("prepare", s, wtok + 1)} /\ retry_release
      /\ winbound = 0 /\ wlease.s = 0 /\ wout.s = 0
  BY DEF arm, arm_works, idle, session_vars
<1>3. SessionTypes' /\ wconfig'.peers = wconfig.peers
  BY <1>1, <1>2 DEF EngineInv, EngineTypes, SessionTypes, world
<1>4. Calm
  <2>1. Task("prepare", s, wtok + 1) \in Tasks /\ Task("prepare", s, wtok + 1).kind = "prepare"
        /\ Task("prepare", s, wtok + 1).s = s
    BY <1>1, TaskIsTyped DEF TaskKinds
  <2> HIDE DEF s
  <2> QED
    BY <1>1, <1>2, <1>3, <2>1 DEF Calm
<1>5. warming' \in [s : Nat, t : Nat] /\ warming'.s = s
  BY <1>1, <1>2
<1>6. OwnerTypes'
  BY <1>2, <1>5 DEF EngineInv, EngineTypes, OwnerTypes
<1>7. UsersInv'
  BY <1>1, <1>2, <1>5 DEF EngineInv, UsersInv, WinUser, WinSessions
<1>8. WindowsOneOwner'
  BY <1>2 DEF EngineInv, WindowsOneOwner, idle
<1>9. InjectorTypes' /\ WindowsKeyIsOwned'
  BY <1>2, RetryIsKept, LeaseIsTyped
<1>10. WinDesksInv'
  BY <1>2, DesksAreKept
<1> QED
  BY <1>3, <1>4, <1>6, <1>7, <1>8, <1>9, <1>10, CalmStep

LEMMA OutStep ==
  ASSUME EngineInv, PollOut \/ Watchdog
  PROVE EngineInv'
<1>1. UNCHANGED <<world, wof, wlinks, walive, wdesks, wtok>> /\ UNCHANGED <<winbound, wlease, warming>>
  BY DEF PollOut, Watchdog, session_vars
<1>2. SessionTypes' /\ wconfig'.peers = wconfig.peers
  BY <1>1, WorldStays
<1>3. wout \in [s : Nat, t : Nat, polling : BOOLEAN] /\ wremote \in BOOLEAN
  BY DEF EngineInv, EngineTypes, OwnerTypes
<1>4. wout' \in [s : Nat, t : Nat, polling : BOOLEAN] /\ wout'.s = wout.s /\ wout'.t = wout.t
  BY <1>3 DEF PollOut, Watchdog
<1>5. wremote' \in BOOLEAN /\ (wremote' => wout.s # 0)
  BY <1>3 DEF PollOut, Watchdog, EngineInv, WindowsOneOwner
<1>6. Calm /\ wnet \subseteq wnet'
  <2>1. CASE Watchdog
    BY <2>1, <1>1, <1>2 DEF Watchdog, Calm
  <2>2. CASE PollOut
    <3>1. wout.s \in WinSessions /\ wlinks[peer_of(wout.s)] = wout.s /\ Opening(wout.s) \notin wnet
          /\ wout.s \in Nat /\ wout.t \in Nat
      <4>1. wout.s # 0
        BY <2>2 DEF PollOut
      <4>2. wout.s \in WinSessions /\ wlinks[wof[wout.s].p] = wout.s
        BY <4>1 DEF EngineInv, UsersInv, WinUser
      <4> QED
        BY <4>1, <4>2, <1>3, SessionsHavePeers DEF EngineInv, LinkedInv
    <3>2. wnet' = wnet \cup {Task("poll", wout.s, wout.t)}
      BY <2>2, <3>1 DEF PollOut
    <3>3. Task("poll", wout.s, wout.t) \in Tasks /\ Task("poll", wout.s, wout.t).kind = "poll"
          /\ Task("poll", wout.s, wout.t).s = wout.s
      BY <3>1, TaskIsTyped DEF TaskKinds
    <3> QED
      BY <1>1, <1>2, <3>1, <3>2, <3>3 DEF Calm
  <2> QED
    BY <2>1, <2>2
<1>7. OwnerTypes'
  BY <1>1, <1>4, <1>5 DEF EngineInv, EngineTypes, OwnerTypes
<1>8. UsersInv'
  BY <1>1, <1>4 DEF EngineInv, UsersInv, WinUser, WinSessions
<1>9. WindowsOneOwner'
  BY <1>1, <1>4, <1>5 DEF EngineInv, WindowsOneOwner, idle
<1>10. InjectorTypes' /\ WindowsKeyIsOwned'
  <2>1. UNCHANGED injector_vars \/ retry_release
    BY DEF PollOut, Watchdog
  <2> QED
    BY <2>1, <1>1, LeaseIsTyped, InjectorStays, RetryIsKept
<1>11. WinDesksInv'
  BY <1>1, <1>4, <1>6, DesksAreKept
<1> QED
  BY <1>2, <1>6, <1>7, <1>8, <1>9, <1>10, <1>11, CalmStep

-----------------------------------------------------------------------------
(* Answers of the tasks the engine spawned.                                  *)
LEMMA MessageIsTyped ==
  ASSUME EngineInv, NEW m \in wnet, m.kind # "opened"
  PROVE /\ m.s \in WinSessions /\ m.s \in Nat /\ m.s # 0 /\ m.t \in Nat /\ m = Task(m.kind, m.s, m.t)
        /\ wof[m.s].p \in WinPeers /\ peer_of(m.s) = wof[m.s].p
        /\ Opening(m.s) \notin wnet /\ (m.s \in walive => current(m.s))
<1>1. m \in Tasks /\ m.s \in WinSessions /\ Opening(m.s) \notin wnet
  BY DEF EngineInv, NetInv
<1>2. wof[m.s].p \in WinPeers /\ peer_of(m.s) = wof[m.s].p /\ m.s # 0
  BY <1>1, SessionsHavePeers DEF EngineInv
<1>3. m.s \in walive => current(m.s)
  BY <1>1, <1>2 DEF EngineInv, AliveInv, current
<1>4. m = Task(m.kind, m.s, m.t) /\ m.s \in Nat /\ m.t \in Nat
  BY <1>1 DEF Tasks, Task
<1> QED
  BY <1>1, <1>2, <1>3, <1>4

(* Desktops are held, or let go, message by message.                         *)
LEMMA DesksAreHeld ==
  ASSUME EngineInv, wof' = wof, walive' \subseteq walive,
         \A d \in wdesks' :
           \/ d \in WinSessions \X Nat /\ DeskIsHeld(d)'
           \/ /\ d \in wdesks /\ (wout.s = d[1] => wout'.s = wout.s /\ wout'.t = wout.t)
              /\ \A kind \in {"prepared", "end"} :
                   Task(kind, d[1], d[2]) \in wnet => Task(kind, d[1], d[2]) \in wnet'
  PROVE WinDesksInv'
<1> SUFFICES ASSUME NEW d \in wdesks' PROVE d \in WinSessions \X Nat /\ DeskIsHeld(d)'
  BY DEF WinDesksInv, WinSessions
<1>1. CASE d \in WinSessions \X Nat /\ DeskIsHeld(d)'
  BY <1>1
<1>2. CASE /\ d \in wdesks /\ (wout.s = d[1] => wout'.s = wout.s /\ wout'.t = wout.t)
           /\ \A kind \in {"prepared", "end"} :
                Task(kind, d[1], d[2]) \in wnet => Task(kind, d[1], d[2]) \in wnet'
  <2>1. d \in WinSessions \X Nat /\ DeskIsHeld(d)
    BY <1>2 DEF EngineInv, WinDesksInv
  <2>2. CASE wout.s = d[1] /\ wout.t = d[2]
    BY <2>1, <2>2, <1>2 DEF DeskIsHeld, Task
  <2>3. CASE Task("prepared", d[1], d[2]) \in wnet
    BY <2>1, <2>3, <1>2 DEF DeskIsHeld, Task
  <2>4. CASE Task("end", d[1], d[2]) \in wnet
    BY <2>1, <2>4, <1>2 DEF DeskIsHeld, Task
  <2>5. CASE d[1] \notin walive
    BY <2>1, <2>5 DEF DeskIsHeld
  <2> QED
    BY <2>1, <2>2, <2>3, <2>4, <2>5 DEF DeskIsHeld
<1> QED
  BY <1>1, <1>2

LEMMA AnsweredStep ==
  ASSUME EngineInv, NEW m \in wnet, WinAnswered(m)
  PROVE EngineInv'
<1>1. m.kind \in {"prepare", "poll"} /\ UNCHANGED <<world, wof, wlinks, wtok>>
      /\ UNCHANGED owner_vars /\ UNCHANGED injector_vars /\ winbound' = winbound /\ wout' = wout
  BY DEF WinAnswered, owner_vars
<1>2. PICK kind \in {"prepared", "unavailable", "odd", "error", "active", "exited", "over"} :
        /\ wnet' = (wnet \ {m}) \cup {Task(kind, m.s, m.t)}
        /\ \/ kind \in {"error", "over"} /\ Close({m.s})
           \/ kind = "prepared" /\ wdesks' = wdesks \cup {<<m.s, m.t>>} /\ UNCHANGED walive
           \/ kind \notin {"error", "prepared"} /\ UNCHANGED <<walive, wdesks>>
  BY DEF WinAnswered
<1>3. m.s \in WinSessions /\ m.s \in Nat /\ m.t \in Nat /\ Opening(m.s) \notin wnet
  BY <1>1, MessageIsTyped
<1>4. Task(kind, m.s, m.t) \in Tasks /\ Task(kind, m.s, m.t).kind = kind /\ Task(kind, m.s, m.t).s = m.s
  BY <1>3, TaskIsTyped DEF TaskKinds
<1>5. SessionTypes' /\ wconfig'.peers = wconfig.peers
  BY <1>1, WorldStays
<1>6. walive' \subseteq walive
  BY <1>2 DEF Close
<1>7. Calm
  BY <1>1, <1>2, <1>3, <1>4, <1>5, <1>6 DEF Calm
<1>8. OwnerTypes' /\ UsersInv' /\ WindowsOneOwner'
  BY <1>1, OwnersStay
<1>9. InjectorTypes' /\ WindowsKeyIsOwned'
  BY <1>1, InjectorStays
<1>10. WinDesksInv'
  <2> SUFFICES ASSUME NEW d \in wdesks'
               PROVE \/ d \in WinSessions \X Nat /\ DeskIsHeld(d)'
                     \/ /\ d \in wdesks /\ (wout.s = d[1] => wout'.s = wout.s /\ wout'.t = wout.t)
                        /\ \A k \in {"prepared", "end"} :
                             Task(k, d[1], d[2]) \in wnet => Task(k, d[1], d[2]) \in wnet'
    BY <1>1, <1>6, DesksAreHeld
  <2>1. ASSUME NEW k \in {"prepared", "end"}, Task(k, d[1], d[2]) \in wnet
        PROVE Task(k, d[1], d[2]) \in wnet'
    <3>1. Task(k, d[1], d[2]).kind = k
      BY DEF Task
    <3> QED
      BY <2>1, <3>1, <1>1, <1>2
  <2>2. CASE d \in wdesks
    BY <2>1, <2>2, <1>1
  <2>3. CASE d \notin wdesks
    <3>1. d = <<m.s, m.t>> /\ Task("prepared", d[1], d[2]) \in wnet'
      BY <2>3, <1>2 DEF Close
    <3> QED
      BY <3>1, <1>3 DEF DeskIsHeld, Task
  <2> QED
    BY <2>2, <2>3
<1> QED
  BY <1>5, <1>7, <1>8, <1>9, <1>10, CalmStep

LEMMA FinishedStep ==
  ASSUME EngineInv, NEW m \in wnet, Finished(m)
  PROVE EngineInv'
<1>1. m.kind = "end" /\ UNCHANGED <<world, wof, wlinks, wtok>>
      /\ UNCHANGED owner_vars /\ UNCHANGED injector_vars /\ winbound' = winbound /\ wout' = wout
      /\ wnet' = wnet \ {m}
  BY DEF Finished, owner_vars
<1>2. walive' \subseteq walive /\ \A d \in wdesks' : d \in wdesks /\ (d = <<m.s, m.t>> => d[1] \notin walive')
  BY DEF Finished, Close
<1>3. SessionTypes' /\ wconfig'.peers = wconfig.peers
  BY <1>1, WorldStays
<1>4. Calm
  BY <1>1, <1>2, <1>3 DEF Calm
<1>5. OwnerTypes' /\ UsersInv' /\ WindowsOneOwner'
  BY <1>1, OwnersStay
<1>6. InjectorTypes' /\ WindowsKeyIsOwned'
  BY <1>1, InjectorStays
<1>7. WinDesksInv'
  <2> SUFFICES ASSUME NEW d \in wdesks'
               PROVE \/ d \in WinSessions \X Nat /\ DeskIsHeld(d)'
                     \/ /\ d \in wdesks /\ (wout.s = d[1] => wout'.s = wout.s /\ wout'.t = wout.t)
                        /\ \A k \in {"prepared", "end"} :
                             Task(k, d[1], d[2]) \in wnet => Task(k, d[1], d[2]) \in wnet'
    BY <1>1, <1>2, DesksAreHeld
  <2>1. d \in wdesks /\ d \in WinSessions \X Nat
    BY <1>2 DEF EngineInv, WinDesksInv
  <2>2. CASE d = <<m.s, m.t>>
    BY <2>1, <2>2, <1>2 DEF DeskIsHeld
  <2>3. CASE d # <<m.s, m.t>>
    <3>1. ASSUME NEW k \in {"prepared", "end"}, Task(k, d[1], d[2]) \in wnet
          PROVE Task(k, d[1], d[2]) \in wnet'
      <4>1. Task(k, d[1], d[2]).s = d[1] /\ Task(k, d[1], d[2]).t = d[2]
        BY DEF Task
      <4>2. Task(k, d[1], d[2]) # m
        BY <4>1, <2>1, <2>3
      <4> QED
        BY <3>1, <4>2, <1>1
    <3> QED
      BY <3>1, <2>1, <1>1
  <2> QED
    BY <2>2, <2>3
<1> QED
  BY <1>3, <1>4, <1>5, <1>6, <1>7, CalmStep

LEMMA PolledStep ==
  ASSUME EngineInv, NEW m \in wnet, WinPolled(m)
  PROVE EngineInv'
<1>1. m.kind \in {"active", "exited", "over"} /\ UNCHANGED <<world, wof, wlinks, wtok>>
  BY DEF WinPolled
<1>2. SessionTypes' /\ wconfig'.peers = wconfig.peers
  BY <1>1, WorldStays
<1>3. CASE local({}, wnet \ {m})
  <2>1. \A n \in wnet : n.kind \in {"opened", "prepared", "end"} => n \in wnet \ {m}
    BY <1>1
  <2>2. wnet \ {m} \subseteq wnet
    OBVIOUS
  <2> QED
    BY <1>1, <1>2, <1>3, <2>1, <2>2, LocalStep
<1>4. ASSUME wnet' = wnet \ {m}, UNCHANGED <<winbound, wlease, warming, wremote, walive, wdesks, injector_vars>>,
             wout' = wout \/ wout' = [wout EXCEPT !.polling = FALSE]
      PROVE EngineInv'
  <2>1. wout' \in [s : Nat, t : Nat, polling : BOOLEAN] /\ wout'.s = wout.s /\ wout'.t = wout.t
    BY <1>4 DEF EngineInv, EngineTypes, OwnerTypes
  <2>2. Calm
    BY <1>1, <1>2, <1>4 DEF Calm
  <2>3. OwnerTypes'
    BY <1>4, <2>1 DEF EngineInv, EngineTypes, OwnerTypes
  <2>4. UsersInv'
    BY <1>1, <1>4, <2>1 DEF EngineInv, UsersInv, WinUser, WinSessions
  <2>5. WindowsOneOwner'
    BY <1>4, <2>1 DEF EngineInv, WindowsOneOwner, idle
  <2>6. InjectorTypes' /\ WindowsKeyIsOwned'
    BY <1>4, InjectorStays
  <2>7. WinDesksInv'
    BY <1>1, <1>4, <2>1, DesksAreKept
  <2> QED
    BY <1>2, <2>2, <2>3, <2>4, <2>5, <2>6, <2>7, CalmStep
<1> QED
  BY <1>3, <1>4 DEF WinPolled, owner_vars

(* The answer to a Prepare: whatever was prepared is in use or sent back.    *)
LEMMA PreparedStep ==
  ASSUME EngineInv, NEW m \in wnet, Prepared(m)
  PROVE EngineInv'
<1>1. m.kind \in {"prepared", "unavailable", "odd", "error"} /\ UNCHANGED <<world, wof, wlinks, wtok>>
  BY DEF Prepared
<1>2. SessionTypes' /\ wconfig'.peers = wconfig.peers
  BY <1>1, WorldStays
<1>3. m.s \in WinSessions /\ m.s \in Nat /\ m.s # 0 /\ m.t \in Nat /\ Opening(m.s) \notin wnet
      /\ m = Task(m.kind, m.s, m.t) /\ (m.s \in walive => current(m.s))
  BY <1>1, MessageIsTyped
<1>4. Task("end", m.s, m.t) \in Tasks /\ Task("end", m.s, m.t).kind = "end" /\ Task("end", m.s, m.t).s = m.s
  BY <1>3, TaskIsTyped DEF TaskKinds
<1>5. ASSUME walive' \subseteq walive, wnet' \in {wnet \ {m}, (wnet \ {m}) \cup {Task("end", m.s, m.t)}}
      PROVE Calm
  BY <1>1, <1>2, <1>3, <1>4, <1>5 DEF Calm
<1>6. ASSUME walive' \subseteq walive, wdesks' \subseteq wdesks, wnet \ {m} \subseteq wnet',
             wout' = wout \/ wout.s = 0,
             \/ m.kind # "prepared" \/ m.s \notin walive \/ Task("end", m.s, m.t) \in wnet'
             \/ wout'.s = m.s /\ wout'.t = m.t
      PROVE WinDesksInv'
  <2> SUFFICES ASSUME NEW d \in wdesks'
               PROVE \/ d \in WinSessions \X Nat /\ DeskIsHeld(d)'
                     \/ /\ d \in wdesks /\ (wout.s = d[1] => wout'.s = wout.s /\ wout'.t = wout.t)
                        /\ \A k \in {"prepared", "end"} :
                             Task(k, d[1], d[2]) \in wnet => Task(k, d[1], d[2]) \in wnet'
    BY <1>1, <1>6, DesksAreHeld
  <2>1. d \in wdesks /\ d \in WinSessions \X Nat
    BY <1>6 DEF EngineInv, WinDesksInv
  <2>2. CASE d[1] \notin walive
    BY <2>1, <2>2, <1>6 DEF DeskIsHeld
  <2>3. CASE m.kind = "prepared" /\ d = <<m.s, m.t>> /\ d[1] \in walive
    <3>1. Task("end", d[1], d[2]) \in wnet' \/ (wout'.s = d[1] /\ wout'.t = d[2])
      BY <2>3, <1>6, <1>3
    <3> QED
      BY <2>1, <3>1 DEF DeskIsHeld, Task
  <2>4. CASE d[1] \in walive /\ ~(m.kind = "prepared" /\ d = <<m.s, m.t>>)
    <3>1. wout' = wout \/ wout.s # d[1]
      BY <2>4, <1>6 DEF EngineInv, AliveInv, WinSessions
    <3>2. ASSUME NEW k \in {"prepared", "end"}, Task(k, d[1], d[2]) \in wnet
          PROVE Task(k, d[1], d[2]) \in wnet'
      <4>1. Task(k, d[1], d[2]).s = d[1] /\ Task(k, d[1], d[2]).t = d[2] /\ Task(k, d[1], d[2]).kind = k
        BY DEF Task
      <4>2. Task(k, d[1], d[2]) # m
        BY <4>1, <2>1, <2>4, <1>1
      <4> QED
        BY <3>2, <4>2, <1>6
    <3> QED
      BY <3>1, <3>2, <2>1
  <2> QED
    BY <2>2, <2>3, <2>4
<1>7. CASE /\ ~current(m.s) /\ wnet' = wnet \ {m}
           /\ UNCHANGED <<owner_vars, walive, wdesks, injector_vars>>
  <2>1. UNCHANGED owner_vars /\ winbound' = winbound /\ wout' = wout
    BY <1>7 DEF owner_vars
  <2>2. OwnerTypes' /\ UsersInv' /\ WindowsOneOwner' /\ InjectorTypes' /\ WindowsKeyIsOwned'
    BY <1>1, <1>7, <2>1, OwnersStay, InjectorStays
  <2>3. Calm /\ WinDesksInv'
    BY <1>3, <1>5, <1>6, <1>7, <2>1
  <2> QED
    BY <1>2, <2>2, <2>3, CalmStep
<1>8. CASE /\ current(m.s) /\ wnet' = (wnet \ {m}) \cup cancelled(m)
           /\ UNCHANGED <<owner_vars, walive, wdesks, injector_vars>>
  <2>1. UNCHANGED owner_vars /\ winbound' = winbound /\ wout' = wout
    BY <1>8 DEF owner_vars
  <2>2. OwnerTypes' /\ UsersInv' /\ WindowsOneOwner' /\ InjectorTypes' /\ WindowsKeyIsOwned'
    BY <1>1, <1>8, <2>1, OwnersStay, InjectorStays
  <2>3. cancelled(m) = IF m.kind = "prepared" THEN {Task("end", m.s, m.t)} ELSE {}
    BY <1>8 DEF cancelled, win_finish
  <2>4. Calm
    BY <1>5, <1>8, <2>3
  <2>5. WinDesksInv'
    BY <1>6, <1>8, <2>1, <2>3
  <2> QED
    BY <1>2, <2>2, <2>4, <2>5, CalmStep
<1>9. ASSUME current(m.s), warming = [s |-> m.s, t |-> m.t], warming' = NotArming,
             UNCHANGED <<winbound, wlease, wout, wremote>>
      PROVE OwnerTypes' /\ UsersInv' /\ WindowsOneOwner'
  <2>1. OwnerTypes'
    BY <1>9 DEF EngineInv, EngineTypes, OwnerTypes, NotArming
  <2>2. UsersInv'
    BY <1>1, <1>9 DEF EngineInv, UsersInv, WinUser, WinSessions, NotArming
  <2>3. WindowsOneOwner'
    BY <1>9 DEF EngineInv, WindowsOneOwner, idle, NotArming
  <2> QED
    BY <2>1, <2>2, <2>3
<1>10. CASE /\ current(m.s) /\ warming = [s |-> m.s, t |-> m.t] /\ m.kind # "prepared"
            /\ warming' = NotArming /\ wnet' = wnet \ {m}
            /\ IF m.kind = "odd" THEN Close({m.s}) ELSE UNCHANGED <<walive, wdesks>>
            /\ UNCHANGED <<winbound, wlease, wout, wremote, injector_vars>>
  <2>1. walive' \subseteq walive /\ wdesks' \subseteq wdesks
    BY <1>10 DEF Close
  <2>2. OwnerTypes' /\ UsersInv' /\ WindowsOneOwner' /\ InjectorTypes' /\ WindowsKeyIsOwned'
    BY <1>9, <1>10, InjectorStays
  <2>3. Calm /\ WinDesksInv'
    BY <1>5, <1>6, <1>10, <2>1
  <2> QED
    BY <1>2, <2>2, <2>3, CalmStep
<1>11. CASE /\ current(m.s) /\ warming = [s |-> m.s, t |-> m.t] /\ m.kind = "prepared"
            /\ warming' = NotArming /\ wnet' = (wnet \ {m}) \cup win_finish(m)
            /\ UNCHANGED <<winbound, wlease, wout, walive, wdesks>>
            /\ (wremote' = wremote /\ UNCHANGED injector_vars) \/ (wremote' = FALSE /\ win_release)
  <2>1. wnet' = (wnet \ {m}) \cup {Task("end", m.s, m.t)}
    BY <1>11 DEF win_finish
  <2>2. Calm
    BY <1>5, <1>11, <2>1
  <2>3. WinDesksInv'
    BY <1>6, <1>11, <2>1
  <2>4. InjectorTypes' /\ WindowsKeyIsOwned'
    <3>1. CASE UNCHANGED injector_vars
      BY <3>1, <1>11, InjectorStays
    <3>2. CASE win_release
      BY <3>2, ReleaseIsKept, LeaseIsTyped DEF WindowsKeyIsOwned
    <3> QED
      BY <3>1, <3>2, <1>11
  <2>5. wremote' = wremote
    <3>1. warming.s # 0
      BY <1>11, <1>3
    <3>2. wremote = FALSE
      BY <3>1 DEF EngineInv, WindowsOneOwner, EngineTypes, OwnerTypes
    <3> QED
      BY <3>2, <1>11
  <2>6. OwnerTypes' /\ UsersInv' /\ WindowsOneOwner'
    BY <1>9, <1>11, <2>5
  <2> QED
    BY <1>2, <2>2, <2>3, <2>4, <2>6, CalmStep
<1>12. CASE /\ current(m.s) /\ warming = [s |-> m.s, t |-> m.t] /\ m.kind = "prepared"
            /\ wout' = [s |-> m.s, t |-> m.t, polling |-> FALSE] /\ warming' = NotArming
            /\ wremote' = TRUE /\ wnet' = wnet \ {m}
            /\ UNCHANGED <<winbound, wlease, walive, wdesks, injector_vars>>
  <2>1. warming.s = m.s /\ wout.s = 0 /\ winbound = 0 /\ wlease.s = 0
    <3>1. warming.s = m.s
      BY <1>12
    <3> QED
      BY <3>1, <1>3 DEF EngineInv, WindowsOneOwner, idle
  <2>2. wout'.s = m.s /\ wout'.t = m.t /\ wout' \in [s : Nat, t : Nat, polling : BOOLEAN]
    BY <1>12, <1>3
  <2>3. Calm /\ WinDesksInv'
    BY <1>5, <1>6, <1>12, <2>1, <2>2
  <2>4. InjectorTypes' /\ WindowsKeyIsOwned'
    BY <1>12, InjectorStays
  <2>5. OwnerTypes'
    BY <1>12, <2>2 DEF EngineInv, EngineTypes, OwnerTypes, NotArming
  <2>6. UsersInv'
    <3>1. wlinks[wof[m.s].p] = m.s
      BY <1>12, <1>3, CurrentIsLinked
    <3> QED
      BY <1>1, <1>3, <1>12, <2>1, <2>2, <3>1 DEF UsersInv, WinUser, WinSessions, NotArming
  <2>7. WindowsOneOwner'
    BY <1>3, <1>12, <2>1, <2>2 DEF WindowsOneOwner, idle, NotArming
  <2> QED
    BY <1>2, <2>3, <2>4, <2>5, <2>6, <2>7, CalmStep
<1> QED
  BY <1>7, <1>8, <1>10, <1>11, <1>12 DEF Prepared

-----------------------------------------------------------------------------
(* Sessions open, become links and end.                                      *)
LEMMA OpenStep ==
  ASSUME EngineInv, NEW p \in WinPeers, NEW dialed \in BOOLEAN, open(p, dialed)
  PROVE EngineInv'
<1> DEFINE s == Len(wof) + 1
           e == [p |-> p, dialed |-> dialed]
<1>1. /\ wof' = Append(wof, e) /\ walive' = walive \cup {s} /\ wnet' = wnet \cup {Opening(s)}
      /\ UNCHANGED <<world, wlinks, wtok, wdesks>> /\ UNCHANGED owner_vars /\ UNCHANGED injector_vars
  BY DEF open, Opening
<1>2. wof \in Seq([p : WinPeers, dialed : BOOLEAN]) /\ e \in [p : WinPeers, dialed : BOOLEAN]
      /\ Len(wof) \in Nat
  BY DEF EngineInv, EngineTypes, SessionTypes
<1>3. /\ wof' \in Seq([p : WinPeers, dialed : BOOLEAN]) /\ WinSessions' = WinSessions \cup {s} /\ s \notin WinSessions
      /\ \A r \in WinSessions : wof'[r] = wof[r]
  <2> DEFINE R == [p : WinPeers, dialed : BOOLEAN]
  <2>1. wof \in Seq(R) /\ e \in R
    BY <1>2
  <2> HIDE DEF R, e
  <2>2. wof' \in Seq(R) /\ Len(wof') = Len(wof) + 1
        /\ \A r \in 1..Len(wof) : wof'[r] = wof[r]
    BY <1>1, <2>1, AppendProperties
  <2>3. WinSessions' = WinSessions \cup {s} /\ s \notin WinSessions
    BY <1>2, <2>2 DEF WinSessions
  <2> QED
    BY <2>2, <2>3 DEF WinSessions, R
<1> HIDE DEF e
<1>4. Opening(s) \in Tasks /\ Opening(s).kind = "opened" /\ Opening(s).s = s /\ Opening(s).t = 0
  BY <1>2, TaskIsTyped DEF Opening, TaskKinds
<1>5. ASSUME NEW r \in WinSessions PROVE Opening(r) \in wnet' <=> Opening(r) \in wnet
  <2>1. Opening(r).s = r /\ Opening(s).s = s
    BY OpeningIsOpened
  <2> QED
    BY <2>1, <1>1, <1>3
<1> HIDE DEF s
<1>6. EngineTypes'
  <2>1. SessionTypes'
    BY <1>1, <1>3 DEF EngineInv, EngineTypes, SessionTypes, world
  <2> QED
    BY <2>1, <1>1 DEF EngineInv, EngineTypes, OwnerTypes, InjectorTypes, owner_vars, injector_vars
<1>7. LinkedInv'
  <2> SUFFICES ASSUME NEW q \in WinPeers, wlinks'[q] # 0
               PROVE /\ wlinks'[q] \in WinSessions' /\ wof'[wlinks'[q]].p = q
                     /\ q \in wconfig'.peers /\ Opening(wlinks'[q]) \notin wnet'
    BY DEF LinkedInv, Opening, Task
  <2>1. wlinks' = wlinks /\ wconfig' = wconfig
    BY <1>1 DEF world
  <2>2. wlinks[q] \in WinSessions /\ wof[wlinks[q]].p = q /\ q \in wconfig.peers /\ Opening(wlinks[q]) \notin wnet
    BY <2>1 DEF EngineInv, LinkedInv
  <2>3. Opening(wlinks[q]) \notin wnet'
    BY <2>2, <1>5
  <2> QED
    BY <2>1, <2>2, <2>3, <1>3
<1>8. AliveInv'
  <2> SUFFICES ASSUME NEW r \in walive'
               PROVE r \in WinSessions' /\ (wlinks'[wof'[r].p] = r \/ Opening(r) \in wnet')
    BY DEF AliveInv, Opening, Task
  <2>1. CASE r = s
    BY <2>1, <1>1, <1>3
  <2>2. CASE r \in walive
    BY <2>2, <1>1, <1>3 DEF EngineInv, AliveInv
  <2> QED
    BY <2>1, <2>2, <1>1
<1>9. NetInv'
  <2> SUFFICES ASSUME NEW m \in wnet'
               PROVE /\ m \in Tasks /\ m.s \in WinSessions'
                     /\ IF m.kind = "opened" THEN m.t = 0 ELSE Opening(m.s) \notin wnet'
    BY DEF NetInv, Tasks, TaskKinds, Opening, Task
  <2>1. CASE m = Opening(s)
    BY <2>1, <1>3, <1>4
  <2>2. CASE m \in wnet
    BY <2>2, <1>3, <1>5 DEF EngineInv, NetInv
  <2> QED
    BY <2>1, <2>2, <1>1
<1>10. UsersInv'
  <2>1. ASSUME NEW r, WinUser(r) PROVE r = 0 \/ (r \in WinSessions' /\ wlinks'[wof'[r].p] = r)
    BY <2>1, <1>1, <1>3 DEF WinUser
  <2>2. WinUser(winbound) /\ WinUser(wlease.s) /\ WinUser(wout.s) /\ WinUser(warming.s)
    BY DEF EngineInv, UsersInv
  <2>3. winbound' = winbound /\ wlease' = wlease /\ wout' = wout /\ warming' = warming
    BY <1>1 DEF owner_vars
  <2>4. /\ winbound = 0 \/ (winbound \in WinSessions' /\ wlinks'[wof'[winbound].p] = winbound)
        /\ wlease.s = 0 \/ (wlease.s \in WinSessions' /\ wlinks'[wof'[wlease.s].p] = wlease.s)
        /\ wout.s = 0 \/ (wout.s \in WinSessions' /\ wlinks'[wof'[wout.s].p] = wout.s)
        /\ warming.s = 0 \/ (warming.s \in WinSessions' /\ wlinks'[wof'[warming.s].p] = warming.s)
    BY <2>1, <2>2
  <2> QED
    BY <2>3, <2>4 DEF UsersInv, WinUser
<1>11. WindowsOneOwner' /\ WindowsKeyIsOwned'
  BY <1>1 DEF EngineInv, WindowsOneOwner, idle, WindowsKeyIsOwned, owner_vars, injector_vars
<1>12. WinDesksInv'
  <2> SUFFICES ASSUME NEW d \in wdesks PROVE d \in WinSessions' \X Nat /\ DeskIsHeld(d)'
    BY <1>1 DEF WinDesksInv
  <2>1. d \in WinSessions \X Nat /\ DeskIsHeld(d)
    BY DEF EngineInv, WinDesksInv
  <2>2. d[1] # s
    BY <2>1, <1>3
  <2> QED
    BY <2>1, <2>2, <1>1, <1>3 DEF DeskIsHeld, Task, owner_vars
<1> QED
  BY <1>6, <1>7, <1>8, <1>9, <1>10, <1>11, <1>12 DEF EngineInv

(* Links that go take their sessions with them.                              *)
LEMMA LinksAreDropped ==
  ASSUME EngineInv, wof' = wof, walive' \subseteq walive,
         \A p \in WinPeers : wlinks'[p] = 0 \/ (wlinks'[p] = wlinks[p] /\ (wlinks[p] # 0 => p \in wconfig'.peers)),
         \A p \in WinPeers : wlinks'[p] = 0 => wlinks[p] \notin walive',
         \A m \in wnet' : m \in wnet \/ (/\ m \in Tasks /\ m.s \in WinSessions
                                         /\ m.kind # "opened" /\ Opening(m.s) \notin wnet),
         wnet \subseteq wnet'
  PROVE LinkedInv' /\ AliveInv' /\ NetInv'
<1>1. ASSUME NEW s PROVE Opening(s) \in wnet' <=> Opening(s) \in wnet
  BY OpeningIsOpened
<1>2. WinSessions' = WinSessions
  BY DEF WinSessions
<1>3. LinkedInv'
  <2> SUFFICES ASSUME NEW q \in WinPeers, wlinks'[q] # 0
               PROVE /\ wlinks'[q] \in WinSessions /\ wof[wlinks'[q]].p = q
                     /\ q \in wconfig'.peers /\ Opening(wlinks'[q]) \notin wnet'
    BY <1>2 DEF LinkedInv, Opening, Task
  <2>1. wlinks'[q] = wlinks[q] /\ wlinks[q] # 0 /\ q \in wconfig'.peers
    OBVIOUS
  <2>2. wlinks[q] \in WinSessions /\ wof[wlinks[q]].p = q /\ Opening(wlinks[q]) \notin wnet
    BY <2>1 DEF EngineInv, LinkedInv
  <2> QED
    BY <2>1, <2>2, <1>1
<1>4. AliveInv'
  <2> SUFFICES ASSUME NEW r \in walive'
               PROVE r \in WinSessions /\ (wlinks'[wof[r].p] = r \/ Opening(r) \in wnet')
    BY <1>2 DEF AliveInv, Opening, Task
  <2>1. r \in WinSessions /\ (wlinks[wof[r].p] = r \/ Opening(r) \in wnet)
    BY DEF EngineInv, AliveInv
  <2>2. wof[r].p \in WinPeers
    BY <2>1, SessionsHavePeers DEF EngineInv
  <2> QED
    BY <2>1, <2>2, <1>1
<1>5. NetInv'
  <2> SUFFICES ASSUME NEW m \in wnet'
               PROVE /\ m \in Tasks /\ m.s \in WinSessions
                     /\ IF m.kind = "opened" THEN m.t = 0 ELSE Opening(m.s) \notin wnet'
    BY <1>2 DEF NetInv, Tasks, TaskKinds, Opening, Task
  <2>1. CASE m \in wnet
    BY <2>1, <1>1 DEF EngineInv, NetInv
  <2>2. CASE m \in Tasks /\ m.s \in WinSessions /\ m.kind # "opened" /\ Opening(m.s) \notin wnet
    BY <2>2, <1>1
  <2> QED
    BY <2>1, <2>2
<1> QED
  BY <1>3, <1>4, <1>5

(* Users of links that stay.                                                 *)
LEMMA UsersKeepLinks ==
  ASSUME EngineInv, wof' = wof, UNCHANGED owner_vars, NEW p \in WinPeers,
         \A q \in WinPeers \ {p} : wlinks'[q] = wlinks[q],
         \A r \in {winbound, wlease.s, wout.s, warming.s} \ {0} : wof[r].p # p
  PROVE OwnerTypes' /\ UsersInv' /\ WindowsOneOwner'
<1>1. ASSUME NEW r \in {winbound, wlease.s, wout.s, warming.s}
      PROVE r = 0 \/ (r \in WinSessions /\ wlinks'[wof[r].p] = r)
  <2>1. WinUser(r)
    BY DEF EngineInv, UsersInv
  <2>2. r \in WinSessions => wof[r].p \in WinPeers
    BY SessionsHavePeers DEF EngineInv
  <2> QED
    BY <2>1, <2>2 DEF WinUser
<1>2. winbound' = winbound /\ wlease' = wlease /\ wout' = wout /\ warming' = warming /\ wremote' = wremote
      /\ WinSessions' = WinSessions
  BY DEF owner_vars, WinSessions
<1>3. UsersInv'
  BY <1>1, <1>2 DEF UsersInv, WinUser
<1>4. OwnerTypes' /\ WindowsOneOwner'
  BY <1>2 DEF EngineInv, EngineTypes, OwnerTypes, WindowsOneOwner, idle
<1> QED
  BY <1>3, <1>4

LEMMA WinPeersOfLinks ==
  ASSUME EngineInv, NEW p \in WinPeers, NEW s, s = wlinks[p], s # 0
  PROVE s \in WinSessions /\ wof[s].p = p /\ peer_of(s) = p /\ current(s)
  BY DEF EngineInv, LinkedInv, peer_of, current

(* Network::Opened.                                                          *)
LEMMA OpenedStep ==
  ASSUME EngineInv, NEW m \in wnet, Opened(m)
  PROVE EngineInv'
<1> DEFINE s == m.s
           p == peer_of(m.s)
<1>1. /\ m.kind = "opened" /\ UNCHANGED <<world, wof, wtok>>
  BY DEF Opened
<1>2. s \in WinSessions /\ p \in WinPeers /\ wof[s].p = p /\ s \in Nat /\ m = Opening(s)
  <2>1. m \in Tasks /\ m.s \in WinSessions /\ m.t = 0
    BY <1>1 DEF EngineInv, NetInv
  <2>2. m = Opening(s)
    BY <2>1, <1>1 DEF Tasks, Opening, Task
  <2> QED
    BY <2>1, <2>2, SessionsHavePeers DEF EngineInv
<1>3. \A n \in wnet : n.kind \in {"prepared", "end"} => n \in wnet \ {m}
  BY <1>1
<1>4. wlinks \in [WinPeers -> Nat] /\ WinSessions' = WinSessions
  BY <1>1 DEF EngineInv, EngineTypes, SessionTypes, WinSessions
<1>o. \A r : Opening(r) = m => r = s
  BY <1>2, OpeningIsOpened
<1>5. CASE /\ Close({s}) /\ wnet' = wnet \ {m}
           /\ UNCHANGED <<wlinks, owner_vars, injector_vars>>
  <2>1. walive' = walive \ {s} /\ wdesks' \subseteq wdesks /\ UNCHANGED owner_vars /\ wout' = wout
        /\ winbound' = winbound /\ wlinks' = wlinks
    BY <1>5 DEF Close, owner_vars
  <2>2. SessionTypes' /\ wconfig'.peers = wconfig.peers
    BY <1>1, <1>5, WorldStays
  <2>3. OwnerTypes' /\ UsersInv' /\ WindowsOneOwner' /\ InjectorTypes' /\ WindowsKeyIsOwned'
    BY <1>1, <1>5, <2>1, OwnersStay, InjectorStays
  <2>4. WinDesksInv'
    BY <1>1, <1>3, <1>5, <2>1, DesksAreKept
  <2>5. LinkedInv'
    BY <1>1, <1>4, <1>5, <2>1, <2>2 DEF EngineInv, LinkedInv, Opening, Task
  <2>6. AliveInv'
    <3> SUFFICES ASSUME NEW r \in walive'
                 PROVE r \in WinSessions /\ (wlinks[wof[r].p] = r \/ Opening(r) \in wnet')
      BY <1>1, <1>4, <2>1 DEF AliveInv, Opening, Task
    <3>1. r \in walive /\ r # s
      BY <2>1
    <3> QED
      BY <3>1, <1>o, <1>5 DEF EngineInv, AliveInv
  <2>7. NetInv'
    BY <1>4, <1>5 DEF EngineInv, NetInv, Tasks, TaskKinds, Opening, Task
  <2> QED
    BY <2>2, <2>3, <2>4, <2>5, <2>6, <2>7 DEF EngineInv, EngineTypes
<1>6. CASE /\ session_allowed(p) /\ returns_first(p, {wlinks[p]}, wnet \ {m})
           /\ wlinks' = [wlinks EXCEPT ![p] = s]
  <2>1. wlinks' \in [WinPeers -> Nat] /\ wlinks'[p] = s /\ \A q \in WinPeers \ {p} : wlinks'[q] = wlinks[q]
    BY <1>2, <1>4, <1>6
  <2>2. SessionTypes' /\ wconfig'.peers = wconfig.peers /\ p \in wconfig.peers
    BY <1>1, <1>6, <2>1 DEF EngineInv, EngineTypes, SessionTypes, world, session_allowed
  <2>3. /\ OwnerTypes' /\ InjectorTypes' /\ UsersInv' /\ WindowsOneOwner' /\ WindowsKeyIsOwned' /\ WinDesksInv'
        /\ walive' \subseteq walive \ {wlinks[p]}
        /\ \A n \in wnet' : n \in wnet \ {m} \/ (/\ n \in Tasks /\ n.s \in WinSessions
                                                /\ n.kind # "opened" /\ Opening(n.s) \notin wnet)
        /\ wnet \ {m} \subseteq wnet'
    <3>1. CASE in_use(p)
      <4>1. local({wlinks[p]}, wnet \ {m})
        BY <1>6, <3>1 DEF returns_first
      <4>2. wnet \ {m} \subseteq wnet /\ wof' = wof
        BY <1>1
      <4> HIDE DEF p
      <4> QED
        BY <4>1, <4>2, <1>3, LocalGivesBack
    <3>2. CASE ~in_use(p)
      <4>1. Close({wlinks[p]}) /\ wnet' = wnet \ {m} /\ UNCHANGED owner_vars /\ UNCHANGED injector_vars
        BY <1>6, <3>2 DEF returns_first
      <4>2. walive' \subseteq walive \ {wlinks[p]} /\ wdesks' \subseteq wdesks /\ wout' = wout /\ winbound' = winbound
            /\ walive' \subseteq walive
        BY <4>1 DEF Close, owner_vars
      <4>3. \A r \in {winbound, wlease.s, wout.s, warming.s} \ {0} : wof[r].p # p
        BY <3>2 DEF in_use, peer_of
      <4>4. InjectorTypes' /\ WindowsKeyIsOwned'
        BY <4>1, <4>2, InjectorStays
      <4>5. WinDesksInv'
        BY <1>1, <1>3, <4>1, <4>2, DesksAreKept
      <4>6. OwnerTypes' /\ UsersInv' /\ WindowsOneOwner'
        <5> HIDE DEF p
        <5> QED
          BY <1>1, <1>2, <2>1, <4>1, <4>3, UsersKeepLinks
      <4> QED
        BY <4>1, <4>2, <4>4, <4>5, <4>6
    <3> QED
      BY <3>1, <3>2
  <2>4. ASSUME NEW r PROVE Opening(r) \in wnet' <=> Opening(r) \in wnet /\ r # s
    <3>1. Opening(r).kind = "opened" /\ (Opening(r) = m <=> r = s)
      BY OpeningIsOpened, <1>2, <1>o
    <3> QED
      BY <2>3, <3>1
  <2>5. LinkedInv'
    <3> SUFFICES ASSUME NEW q \in WinPeers, wlinks'[q] # 0
                 PROVE /\ wlinks'[q] \in WinSessions /\ wof[wlinks'[q]].p = q
                       /\ q \in wconfig'.peers /\ Opening(wlinks'[q]) \notin wnet'
      BY <1>1, <1>4 DEF LinkedInv, Opening, Task
    <3>1. CASE q = p
      BY <3>1, <1>2, <2>1, <2>2, <2>4
    <3>2. CASE q # p
      <4>1. wlinks'[q] = wlinks[q]
        BY <3>2, <2>1
      <4>2. wlinks[q] \in WinSessions /\ wof[wlinks[q]].p = q /\ q \in wconfig.peers /\ Opening(wlinks[q]) \notin wnet
        BY <4>1 DEF EngineInv, LinkedInv
      <4> QED
        BY <4>1, <4>2, <2>2, <2>4
    <3> QED
      BY <3>1, <3>2
  <2>6. AliveInv'
    <3> SUFFICES ASSUME NEW r \in walive'
                 PROVE r \in WinSessions /\ (wlinks'[wof[r].p] = r \/ Opening(r) \in wnet')
      BY <1>1, <1>4 DEF AliveInv, Opening, Task
    <3>1. r \in walive /\ r # wlinks[p]
      BY <2>3
    <3>2. r \in WinSessions /\ (wlinks[wof[r].p] = r \/ Opening(r) \in wnet)
      BY <3>1 DEF EngineInv, AliveInv
    <3>3. wof[r].p \in WinPeers
      BY <3>2, SessionsHavePeers DEF EngineInv
    <3>4. CASE r = s
      BY <3>4, <3>2, <1>2, <2>1
    <3>5. CASE r # s /\ wof[r].p = p
      BY <3>1, <3>2, <3>5, <2>4
    <3>6. CASE r # s /\ wof[r].p # p
      BY <3>2, <3>3, <3>6, <2>1, <2>4
    <3> QED
      BY <3>4, <3>5, <3>6
  <2>7. NetInv'
    <3> SUFFICES ASSUME NEW n \in wnet'
                 PROVE /\ n \in Tasks /\ n.s \in WinSessions
                       /\ IF n.kind = "opened" THEN n.t = 0 ELSE Opening(n.s) \notin wnet'
      BY <1>4 DEF NetInv, Tasks, TaskKinds, Opening, Task
    <3>1. CASE n \in wnet
      BY <3>1, <2>4 DEF EngineInv, NetInv
    <3>2. CASE n \in Tasks /\ n.s \in WinSessions /\ n.kind # "opened" /\ Opening(n.s) \notin wnet
      BY <3>2, <2>4
    <3> QED
      BY <3>1, <3>2, <2>3
  <2> QED
    BY <2>2, <2>3, <2>5, <2>6, <2>7 DEF EngineInv, EngineTypes
<1> QED
  BY <1>5, <1>6 DEF Opened

(* A step that drops links and gives everything back.                        *)
LEMMA DroppingStep ==
  ASSUME EngineInv, NEW shut, local(shut, wnet), wof' = wof, SessionTypes',
         \A p \in WinPeers : wlinks'[p] = 0 \/ (wlinks'[p] = wlinks[p] /\ (wlinks[p] # 0 => p \in wconfig'.peers)),
         \A p \in WinPeers : wlinks'[p] = 0 => wlinks[p] \in shut \/ wlinks[p] \notin walive
  PROVE EngineInv'
<1>1. wnet \subseteq wnet
  OBVIOUS
<1>2. /\ OwnerTypes' /\ InjectorTypes'
      /\ UsersInv' /\ WindowsOneOwner' /\ WindowsKeyIsOwned' /\ WinDesksInv'
      /\ walive' \subseteq walive \ shut
      /\ \A m \in wnet' : m \in wnet \/ (/\ m \in Tasks /\ m.s \in WinSessions
                                       /\ m.kind # "opened" /\ Opening(m.s) \notin wnet)
      /\ wnet \subseteq wnet'
  BY <1>1, LocalGivesBack
<1>3. walive' \subseteq walive /\ \A p \in WinPeers : wlinks'[p] = 0 => wlinks[p] \notin walive'
  BY <1>2
<1>4. LinkedInv' /\ AliveInv' /\ NetInv'
  BY <1>2, <1>3, LinksAreDropped
<1> QED
  BY <1>2, <1>4 DEF EngineInv, EngineTypes

LEMMA ClosedStep ==
  ASSUME EngineInv, NEW s \in WinSessions, Closed(s)
  PROVE EngineInv'
<1> DEFINE p == peer_of(s)
<1>1. /\ UNCHANGED <<world, wof, wtok>> /\ current(s) /\ s \notin walive
      /\ wlinks' = [wlinks EXCEPT ![p] = 0]
  BY DEF Closed
<1>2. p \in WinPeers /\ wof[s].p = p /\ wlinks[p] = s /\ s # 0
  BY <1>1, CurrentIsLinked, SessionsHavePeers DEF EngineInv
<1>3. wlinks' \in [WinPeers -> Nat] /\ wlinks'[p] = 0 /\ \A q \in WinPeers \ {p} : wlinks'[q] = wlinks[q]
  BY <1>1, <1>2 DEF EngineInv, EngineTypes, SessionTypes
<1>4. SessionTypes' /\ wconfig' = wconfig /\ wof' = wof
  BY <1>1, <1>3 DEF EngineInv, EngineTypes, SessionTypes, world
<1> HIDE DEF p
<1>5. \A q \in WinPeers : wlinks'[q] = 0 \/ (wlinks'[q] = wlinks[q] /\ (wlinks[q] # 0 => q \in wconfig'.peers))
  BY <1>3, <1>4 DEF EngineInv, LinkedInv
<1>6. 0 \notin walive
  BY DEF EngineInv, AliveInv, WinSessions
<1>7. \A q \in WinPeers : wlinks'[q] = 0 => wlinks[q] \notin walive
  BY <1>1, <1>2, <1>3, <1>6
<1>8. CASE local({}, wnet)
  BY <1>4, <1>5, <1>7, <1>8, DroppingStep
<1>9. CASE /\ wlease.s # s /\ \A u \in {winbound, wout.s, warming.s} \ {0} : peer_of(u) # p
           /\ UNCHANGED <<wnet, owner_vars, injector_vars, walive, wdesks>>
  <2>1. ASSUME NEW r \in {winbound, wlease.s, wout.s, warming.s} \ {0} PROVE wof[r].p # p
    <3>1. CASE r # wlease.s
      BY <3>1, <1>9 DEF peer_of
    <3>2. CASE r = wlease.s
      <4>1. wlinks[wof[r].p] = r
        BY <3>2 DEF EngineInv, UsersInv, WinUser
      <4> QED
        BY <4>1, <3>2, <1>2, <1>9
    <3> QED
      BY <3>1, <3>2
  <2>2. OwnerTypes' /\ UsersInv' /\ WindowsOneOwner'
    BY <2>1, <1>2, <1>3, <1>4, <1>9, UsersKeepLinks
  <2>3. wout' = wout /\ winbound' = winbound
    BY <1>9 DEF owner_vars
  <2>4. InjectorTypes' /\ WindowsKeyIsOwned'
    BY <1>9, <2>3, InjectorStays
  <2>5. WinDesksInv'
    BY <1>4, <1>9, <2>3, DesksAreKept
  <2>6. LinkedInv' /\ AliveInv' /\ NetInv'
    BY <1>4, <1>5, <1>7, <1>9, LinksAreDropped
  <2> QED
    BY <1>4, <2>2, <2>4, <2>5, <2>6 DEF EngineInv, EngineTypes
<1> QED
  BY <1>8, <1>9 DEF Closed, p

LEMMA ForgetStep ==
  ASSUME EngineInv, NEW p \in WinPeers, Forget(p)
  PROVE EngineInv'
<1>1. /\ local({wlinks[p]}, wnet) /\ wlinks' = [wlinks EXCEPT ![p] = 0]
      /\ wconfig' \in {wconfig, [wconfig EXCEPT !.peers = @ \ {p}]} /\ UNCHANGED <<wos, wof, wtok>>
  BY DEF Forget
<1>2. wlinks' \in [WinPeers -> Nat] /\ wlinks'[p] = 0 /\ \A q \in WinPeers \ {p} : wlinks'[q] = wlinks[q]
  BY <1>1 DEF EngineInv, EngineTypes, SessionTypes
<1>3. wconfig' \in [sharing : BOOLEAN, peers : SUBSET WinPeers] /\ wconfig.peers \ {p} \subseteq wconfig'.peers
  BY <1>1 DEF EngineInv, EngineTypes, SessionTypes
<1>4. SessionTypes'
  BY <1>1, <1>2, <1>3 DEF EngineInv, EngineTypes, SessionTypes
<1>5. \A q \in WinPeers : wlinks'[q] = 0 \/ (wlinks'[q] = wlinks[q] /\ (wlinks[q] # 0 => q \in wconfig'.peers))
  BY <1>2, <1>3 DEF EngineInv, LinkedInv
<1>6. 0 \notin walive
  BY DEF EngineInv, AliveInv, WinSessions
<1>7. \A q \in WinPeers : wlinks'[q] = 0 => wlinks[q] \in {wlinks[p]} \/ wlinks[q] \notin walive
  BY <1>2, <1>6
<1> QED
  BY <1>1, <1>4, <1>5, <1>7, DroppingStep

LEMMA SharingStep ==
  ASSUME EngineInv, NEW enabled \in BOOLEAN, Sharing(enabled)
  PROVE EngineInv'
<1>1. wconfig' \in {wconfig, [wconfig EXCEPT !.sharing = enabled]} /\ UNCHANGED <<wos, wof, wtok>>
  BY DEF Sharing
<1>2. wconfig' \in [sharing : BOOLEAN, peers : SUBSET WinPeers] /\ wconfig'.peers = wconfig.peers
  BY <1>1 DEF EngineInv, EngineTypes, SessionTypes
<1>3. CASE UNCHANGED <<wlinks, wnet, owner_vars, injector_vars, walive, wdesks>>
  <2>1. SessionTypes' /\ wout' = wout /\ winbound' = winbound
    BY <1>1, <1>2, <1>3 DEF EngineInv, EngineTypes, SessionTypes, owner_vars
  <2>2. Calm
    BY <1>1, <1>2, <1>3 DEF Calm
  <2>3. OwnerTypes' /\ UsersInv' /\ WindowsOneOwner'
    BY <1>1, <1>3, OwnersStay
  <2>4. InjectorTypes' /\ WindowsKeyIsOwned'
    BY <1>3, <2>1, InjectorStays
  <2>5. WinDesksInv'
    BY <1>1, <1>3, <2>1, DesksAreKept
  <2> QED
    BY <2>1, <2>2, <2>3, <2>4, <2>5, CalmStep
<1>4. CASE local({wlinks[p] : p \in WinPeers}, wnet) /\ wlinks' = [p \in WinPeers |-> 0]
  <2>1. SessionTypes'
    BY <1>1, <1>2, <1>4 DEF EngineInv, EngineTypes, SessionTypes
  <2>2. \A q \in WinPeers : wlinks'[q] = 0 /\ wlinks[q] \in {wlinks[p] : p \in WinPeers}
    BY <1>4
  <2> QED
    BY <1>1, <1>4, <2>1, <2>2, DroppingStep
<1> QED
  BY <1>3, <1>4 DEF Sharing

-----------------------------------------------------------------------------
LEMMA EngineStep == EngineInv /\ WindowsNext => EngineInv'
<1> SUFFICES ASSUME EngineInv, WindowsNext PROVE EngineInv'
  OBVIOUS
<1>1. CASE ComeBack \/ Escape
  BY <1>1, ComeBackSteps
<1>2. CASE PollOut \/ Watchdog
  BY <1>2, OutStep
<1>3. CASE TickLocked \/ TickLease
  BY <1>3, TickSteps
<1>4. CASE Tick \/ Desktop
  BY <1>4, QuietSteps
<1>5. CASE \E b \in BOOLEAN : Sharing(b)
  BY <1>5, SharingStep
<1>6. ASSUME NEW p \in WinPeers,
             \/ dial(p) \/ failed(p) \/ arm(p) \/ Forget(p) \/ Trust(p)
             \/ \E dialed \in BOOLEAN : open(p, dialed)
      PROVE EngineInv'
  <2>1. CASE dial(p) \/ failed(p) \/ Trust(p)
    BY <2>1, QuietSteps
  <2>2. CASE arm(p)
    BY <2>2, ArmStep
  <2>3. CASE Forget(p)
    BY <2>3, ForgetStep
  <2>4. CASE \E dialed \in BOOLEAN : open(p, dialed)
    BY <2>4, OpenStep
  <2> QED
    BY <1>6, <2>1, <2>2, <2>3, <2>4
<1>7. ASSUME NEW s \in WinSessions,
             \/ WinLost(s) \/ Closed(s) \/ EffectsOpen(s) \/ EffectsPress(s) \/ EffectsClose(s)
             \/ Prepare(s) \/ WinPoll(s) \/ WinFinish(s)
      PROVE EngineInv'
  BY <1>7, QuietSteps, ClosedStep, EffectsSteps, DesktopSteps
<1>8. ASSUME NEW m \in wnet, Opened(m) \/ WinAnswered(m) \/ Finished(m) \/ Prepared(m) \/ WinPolled(m)
      PROVE EngineInv'
  BY <1>8, OpenedStep, AnsweredStep, FinishedStep, PreparedStep, PolledStep
<1> QED
  BY <1>1, <1>2, <1>3, <1>4, <1>5, <1>6, <1>7, <1>8 DEF WindowsNext, WinSessions

LEMMA EngineStutter == EngineInv /\ UNCHANGED windowsVars => EngineInv'
<1> SUFFICES ASSUME EngineInv, UNCHANGED windowsVars PROVE EngineInv'
  OBVIOUS
<1>1. /\ UNCHANGED <<world, wof, wlinks, wtok>> /\ UNCHANGED owner_vars /\ UNCHANGED injector_vars
      /\ UNCHANGED <<walive, wnet, wdesks>> /\ wout' = wout /\ winbound' = winbound
  BY DEF windowsVars, session_vars, owner_vars
<1>2. SessionTypes' /\ wconfig'.peers = wconfig.peers
  BY <1>1, WorldStays
<1>3. Calm
  BY <1>1, <1>2 DEF Calm
<1>4. OwnerTypes' /\ UsersInv' /\ WindowsOneOwner' /\ InjectorTypes' /\ WindowsKeyIsOwned'
  BY <1>1, OwnersStay, InjectorStays
<1>5. WinDesksInv'
  BY <1>1, DesksAreKept
<1> QED
  BY <1>2, <1>3, <1>4, <1>5, CalmStep

(* In every reachable state the engine of Windows never both sends and        *)
(* receives, what uses a session uses the current one of a paired peer, no   *)
(* key is down that nobody will release, and a desktop that was prepared for *)
(* this computer is in use or is being given back, however late the answers  *)
(* of its tasks come (Engine::local, Network::Opened, Network::Prepared).    *)
THEOREM EngineStaysConsistent == MCSpec => []EngineIsConsistent
<1>1. MCInit => EngineHolds
  <2>1. MCInit /\ part = "Engine" => WindowsInit
    BY DEF MCInit
  <2> QED
    BY <2>1, EngineInitHolds DEF EngineHolds
<1>2. EngineHolds /\ [MCNext]_screensVars => EngineHolds'
  <2> SUFFICES ASSUME EngineHolds, [MCNext]_screensVars, part' = "Engine" PROVE EngineInv'
    BY DEF EngineHolds
  <2>1. part = "Engine" /\ (WindowsNext \/ UNCHANGED windowsVars)
    BY OneScreenPartRuns
  <2>2. EngineInv
    BY <2>1 DEF EngineHolds
  <2> QED
    BY <2>1, <2>2, EngineStep, EngineStutter
<1>3. EngineHolds => EngineIsConsistent
  <2> SUFFICES ASSUME EngineInv
               PROVE WindowsOneOwner /\ UsersAreLinked /\ WindowsKeyIsOwned /\ PreparedIsGivenBack
    BY DEF EngineHolds, EngineIsConsistent
  <2>1. UsersAreLinked
    <3>1. ASSUME NEW s \in {winbound, wlease.s, wout.s, warming.s} \ {0} PROVE current(s)
      BY SessionsHavePeers DEF EngineInv, UsersInv, WinUser, current
    <3>2. \A p \in WinPeers : wlinks[p] # 0 => p \in wconfig.peers
      BY DEF EngineInv, LinkedInv
    <3> QED
      BY <3>1, <3>2 DEF UsersAreLinked
  <2>2. PreparedIsGivenBack
    BY DEF EngineInv, WinDesksInv, DeskIsHeld, PreparedIsGivenBack
  <2> QED
    BY <2>1, <2>2 DEF EngineInv
<1> QED
  BY <1>1, <1>2, <1>3, PTL DEF MCSpec, screensVars
=============================================================================
