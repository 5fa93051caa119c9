------------------------------ MODULE Handoff ------------------------------
(***************************************************************************)
(* A pointer that pushes against an edge and the handoff it starts:         *)
(* daemon/crossing.rs on the computer whose input it is, session/desktop.rs *)
(* on the session between them, and the Hub of daemon/desktop.rs with its   *)
(* lease and its desktop agent on the computer it enters.  Sources and      *)
(* Targets are different computers; a source can hop from one target to     *)
(* another, and two sources can want the same target.                       *)
(***************************************************************************)
EXTENDS Naturals, Sequences

CONSTANTS
  Sources, Targets,
  Pairings,      \* who may know whom: sets of pairs of a source and a target
  MaxCrossings   \* bound: handoff tokens drawn

ASSUME HandoffAssumption ==
  /\ MaxCrossings \in Nat /\ Pairings \subseteq SUBSET (Sources \X Targets)
  /\ "nobody" \notin Sources   \* the name of Nobody, below

VARIABLES
  known,   \* config.peers: the pairings, which stay as they are here
  step,    \* where a source's cross() stands
  leg,     \* Leg: the target and token its input goes to
  next,    \* the leg a hop prepares, or the one it left
  armed,   \* until_returned saw the runtime arm
  phases,  \* the source's OwnershipPhase
  rcmds,   \* its RuntimeCommand queue
  up,      \* the session between a source and a target
  call,    \* DesktopRelay.waiter: the one request of a source at a target
  lease,   \* Hub.lease of a target
  shell,   \* the token the target's compositor holds a barrier for, 0 for none
  jobs,    \* the desktop agent's job queue
  taker,   \* the target's inbound owner
  tokens   \* tokens drawn so far

handoffVars == <<known, step, leg, next, armed, phases, rcmds, up, call, lease, shell, jobs, taker, tokens>>

Nobody == "nobody"
NoLease == [src |-> Nobody, tok |-> 0]
NoCall == [op |-> "none", tok |-> 0, at |-> "none"]
NoLeg == [to |-> "nowhere", tok |-> 0]

HandoffInit ==
  /\ known \in Pairings
  /\ step = [s \in Sources |-> "idle"] /\ leg = [s \in Sources |-> NoLeg]
  /\ next = [s \in Sources |-> NoLeg] /\ armed = [s \in Sources |-> FALSE]
  /\ phases = [s \in Sources |-> "Idle"] /\ rcmds = [s \in Sources |-> <<>>]
  /\ up = [s \in Sources |-> [t \in Targets |-> <<s, t>> \in known]]
  /\ call = [s \in Sources |-> [t \in Targets |-> NoCall]]
  /\ lease = [t \in Targets |-> NoLease] /\ shell = [t \in Targets |-> 0]
  /\ jobs = [t \in Targets |-> <<>>] /\ taker = [t \in Targets |-> Nobody]
  /\ tokens = 0

-----------------------------------------------------------------------------
(* The session between them.  A request that is answered too late, or not at *)
(* all, closes it.                                                           *)

desktop_request(s, t, op, tok) ==
  call' = [call EXCEPT ![s][t] = IF up[s][t] THEN [op |-> op, tok |-> tok, at |-> "wire"]
                                 ELSE [op |-> op, tok |-> tok, at |-> "failed"]]

Answered(s, t) == call[s][t].at \in {"ok", "home", "hop", "unavailable", "failed"}

Failed(c) == IF c.at \in {"wire", "job"} THEN [c EXCEPT !.at = "failed"] ELSE c

Settle(s, t) == call' = [call EXCEPT ![s][t] = NoCall]

(* Hub::closed, which the Closed event of a session spawns: its lease goes,  *)
(* and a Finish follows on the agent's queue.                                *)
Hub_closed(s, t) ==
  IF lease[t].src = s
  THEN /\ lease' = [lease EXCEPT ![t] = NoLease]
       /\ jobs' = [jobs EXCEPT ![t] = Append(@, [src |-> Nobody, op |-> "Finish", tok |-> lease[t].tok, undo |-> FALSE])]
  ELSE UNCHANGED <<lease, jobs>>

CloseSession(s, t) ==
  /\ up[s][t]
  /\ up' = [up EXCEPT ![s][t] = FALSE]
  /\ call' = [call EXCEPT ![s][t] = Failed(@)]
  /\ taker' = [taker EXCEPT ![t] = IF @ = s THEN Nobody ELSE @]
  /\ Hub_closed(s, t)

(* The network, a REQUEST_TIMEOUT_MS, or a revoked permission. *)
SessionLost(s, t) ==
  /\ CloseSession(s, t)
  /\ UNCHANGED <<known, step, leg, next, armed, phases, rcmds, shell, tokens>>

-----------------------------------------------------------------------------
(* The source: cross, until_returned and hop. *)

sourceRest == <<known, up, lease, shell, jobs, taker>>
SendRuntime(s, cmd) == rcmds' = [rcmds EXCEPT ![s] = Append(@, cmd)]

release_own_input_Forgotten(s) == UNCHANGED rcmds

(* However a crossing failed, input must not stay armed or grabbed for it.   *)
release_own_input(s) == SendRuntime(s, "release")

(* cross: one at a time, from an idle runtime; ensure_session dials.  The    *)
(* input thread, which every command wakes, has taken those of the last      *)
(* crossing by the time its Finish came back.                                *)
Cross(s, t) ==
  /\ step[s] = "idle" /\ phases[s] = "Idle" /\ rcmds[s] = <<>>
  /\ <<s, t>> \in known /\ tokens < MaxCrossings
  /\ tokens' = tokens + 1
  /\ up' = [up EXCEPT ![s][t] = TRUE]
  /\ leg' = [leg EXCEPT ![s] = [to |-> t, tok |-> tokens + 1]]
  /\ armed' = [armed EXCEPT ![s] = FALSE]
  /\ step' = [step EXCEPT ![s] = "prepare"]
  /\ call' = [call EXCEPT ![s][t] = [op |-> "Prepare", tok |-> tokens + 1, at |-> "wire"]]
  /\ UNCHANGED <<known, next, phases, rcmds, lease, shell, jobs, taker>>

Finish(s) == desktop_request(s, leg[s].to, "Finish", leg[s].tok)

(* The answer to Prepare: activate, or finish what Prepare may have taken.   *)
Entered(s) ==
  LET t == leg[s].to IN
  /\ step[s] = "prepare" /\ Answered(s, t)
  /\ \/ /\ call[s][t].at = "ok" /\ up[s][t]
        /\ SendRuntime(s, "activate") /\ Settle(s, t)
        /\ step' = [step EXCEPT ![s] = "look"]
     \/ /\ call[s][t].at # "ok" \/ ~up[s][t]
        /\ Finish(s) /\ UNCHANGED rcmds
        /\ step' = [step EXCEPT ![s] = "finish"]
  /\ UNCHANGED <<leg, next, armed, phases, tokens, sourceRest>>

(* until_returned looks at the runtime and polls, or gives up: the runtime   *)
(* did not start arming (ARMING_START), or a key stayed down (ARMING_LIMIT). *)
Look(s) ==
  /\ step[s] = "look"
  /\ armed' = [armed EXCEPT ![s] = @ \/ phases[s] # "Idle"]
  /\ \/ /\ phases[s] # "Idle" \/ ~armed[s]
        /\ desktop_request(s, leg[s].to, "Poll", leg[s].tok)
        /\ step' = [step EXCEPT ![s] = "poll"] /\ UNCHANGED rcmds
     \/ /\ phases[s] = "Idle" /\ armed[s]
        /\ Finish(s) /\ step' = [step EXCEPT ![s] = "finish"] /\ UNCHANGED rcmds
     \/ /\ phases[s] = "Arming" \/ (phases[s] = "Idle" /\ ~armed[s])
        /\ release_own_input(s) /\ Finish(s)
        /\ step' = [step EXCEPT ![s] = "finish"]
  /\ UNCHANGED <<leg, next, phases, tokens, sourceRest>>

(* The answer to a poll. *)
Polled(s) ==
  LET t == leg[s].to  at == call[s][t].at IN
  /\ step[s] = "poll" /\ Answered(s, t)
  /\ \/ /\ at = "ok" /\ Settle(s, t) /\ UNCHANGED <<next, rcmds, tokens>>
        /\ step' = [step EXCEPT ![s] = "look"]
     \/ /\ at \in {"home", "unavailable", "failed"}
        /\ release_own_input(s) /\ Finish(s) /\ UNCHANGED <<next, tokens>>
        /\ step' = [step EXCEPT ![s] = "finish"]
     \/ /\ at = "hop"  \* a key is held, no session there, or no token: the pointer stays
        /\ Settle(s, t) /\ UNCHANGED <<next, rcmds, tokens>>
        /\ step' = [step EXCEPT ![s] = "look"]
     \/ /\ at = "hop" /\ tokens < MaxCrossings
        /\ \E u \in Targets \ {t} :
             /\ up[s][u] /\ call[s][u] = NoCall
             /\ next' = [next EXCEPT ![s] = [to |-> u, tok |-> tokens + 1]]
             /\ call' = [call EXCEPT ![s][t] = NoCall,
                                     ![s][u] = [op |-> "Prepare", tok |-> tokens + 1, at |-> "wire"]]
        /\ tokens' = tokens + 1 /\ UNCHANGED rcmds
        /\ step' = [step EXCEPT ![s] = "hop"]
  /\ UNCHANGED <<leg, armed, phases, sourceRest>>

(* hop: switch_outbound moves input on and the desktop it left is let go;    *)
(* otherwise what Prepare took goes back and input stays.                    *)
Hopped(s) ==
  LET u == next[s].to IN
  /\ step[s] = "hop" /\ Answered(s, u)
  /\ \/ /\ call[s][u].at = "ok" /\ up[s][u] /\ phases[s] = "Remote"
        /\ leg' = [leg EXCEPT ![s] = next[s]] /\ next' = [next EXCEPT ![s] = leg[s]]
        /\ call' = [call EXCEPT ![s][u] = NoCall,
                                ![s][leg[s].to] = [op |-> "Finish", tok |-> leg[s].tok,
                                                   at |-> IF up[s][leg[s].to] THEN "wire" ELSE "failed"]]
     \/ /\ desktop_request(s, u, "Finish", next[s].tok)
        /\ UNCHANGED <<leg, next>>
  /\ step' = [step EXCEPT ![s] = "letgo"]
  /\ UNCHANGED <<armed, phases, rcmds, tokens, sourceRest>>

LetGo(s) ==
  /\ step[s] = "letgo" /\ Answered(s, next[s].to)
  /\ Settle(s, next[s].to)
  /\ next' = [next EXCEPT ![s] = NoLeg] /\ step' = [step EXCEPT ![s] = "look"]
  /\ UNCHANGED <<leg, armed, phases, rcmds, tokens, sourceRest>>

Crossed(s) ==
  /\ step[s] = "finish" /\ Answered(s, leg[s].to)
  /\ Settle(s, leg[s].to)
  /\ step' = [step EXCEPT ![s] = "idle"] /\ leg' = [leg EXCEPT ![s] = NoLeg]
  /\ UNCHANGED <<next, armed, phases, rcmds, tokens, sourceRest>>

(* The source's input thread and its daemon: arm, grab, come back. *)
RuntimeStep(s) ==
  /\ \/ /\ rcmds[s] # <<>> /\ rcmds' = [rcmds EXCEPT ![s] = Tail(@)]
        /\ phases' = [phases EXCEPT ![s] = IF Head(rcmds[s]) = "release" THEN "Idle"
                                     ELSE IF @ = "Idle" THEN "Arming" ELSE @]
     \/ phases[s] = "Arming" /\ phases' = [phases EXCEPT ![s] = "Remote"] /\ UNCHANGED rcmds
     \/ phases[s] # "Idle" /\ phases' = [phases EXCEPT ![s] = "Idle"] /\ UNCHANGED rcmds
  /\ UNCHANGED <<known, step, leg, next, armed, call, tokens, sourceRest>>

-----------------------------------------------------------------------------
(* The target: desktop::request, its agent and its inbound owner. *)

allows_session_Any(s, t) == TRUE

(* While a lease is held only its session may take this computer. *)
allows_session(s, t) == lease[t].src \in {Nobody, s}

(* Enter and Leave of the source's activation.  A refused Enter ends the     *)
(* session.                                                                  *)
Enters(s) ==
  LET t == leg[s].to IN
  /\ phases[s] = "Remote" /\ leg[s] # NoLeg /\ up[s][t] /\ taker[t] # s
  /\ IF taker[t] = Nobody /\ allows_session(s, t)
     THEN /\ taker' = [taker EXCEPT ![t] = s] /\ UNCHANGED <<up, call, lease, jobs>>
     ELSE CloseSession(s, t)
  /\ UNCHANGED <<known, step, leg, next, armed, phases, rcmds, shell, tokens>>

Leaves(s, t) ==
  /\ taker[t] = s /\ (phases[s] = "Idle" \/ leg[s].to # t)
  /\ taker' = [taker EXCEPT ![t] = Nobody]
  /\ UNCHANGED <<known, step, leg, next, armed, phases, rcmds, up, call, lease, shell, jobs, tokens>>

Reply(s, t, at) == call' = [call EXCEPT ![s][t].at = at]

(* desktop::request under the policy mutex.  DesktopRelay::dispatch holds a  *)
(* Finish back until the activation it follows is closed.                    *)
Request(s, t) ==
  LET c == call[s][t]
      free == /\ taker[t] \in {Nobody, s}
              /\ lease[t] = IF c.op = "Prepare" THEN NoLease ELSE [src |-> s, tok |-> c.tok]
  IN
  /\ c.at = "wire" /\ up[s][t] /\ (c.op = "Finish" => taker[t] # s)
  /\ \/ /\ free
        /\ lease' = [lease EXCEPT ![t] = [src |-> s, tok |-> c.tok]]
        /\ jobs' = [jobs EXCEPT ![t] = Append(@, [src |-> s, op |-> c.op, tok |-> c.tok, undo |-> FALSE])]
        /\ Reply(s, t, "job")
     \/ /\ ~free
        /\ Reply(s, t, "unavailable") /\ UNCHANGED <<lease, jobs>>
  /\ UNCHANGED <<known, step, leg, next, armed, phases, rcmds, up, shell, taker, tokens>>

(* What the compositor does with a job, and the answers it can give. *)
Exchange(job, held) ==
  CASE job.op = "Prepare" /\ ~job.undo -> IF held = 0 THEN {<<job.tok, "ok">>, <<0, "unavailable">>}
                             ELSE {<<held, "unavailable">>}
    [] job.op = "Poll" -> IF held = job.tok
                          THEN {<<held, "ok">>, <<held, "home">>, <<held, "hop">>}
                          ELSE {<<held, "unavailable">>}
    [] OTHER -> {<<IF held = job.tok THEN 0 ELSE held, "ok">>}

(* The agent's answer, if the request it belongs to still waits. *)
Answer(job, t, at) ==
  call' = IF job.src # Nobody /\ call[job.src][t] = [op |-> job.op, tok |-> job.tok, at |-> "job"]
          THEN [call EXCEPT ![job.src][t].at = at] ELSE call

(* broker_job, with what desktop::request does once it has the answer: every *)
(* Finish gives the lease back, and a Prepare that failed first queues one   *)
(* behind the compositor call that may still complete (undo).                *)
BrokerJob(t) ==
  /\ jobs[t] # <<>>
  /\ LET job == Head(jobs[t])  s == job.src
         allowed == s = Nobody \/ job.undo \/ (up[s][t] /\ allows_session(s, t))
     IN \E r \in IF allowed THEN Exchange(job, shell[t]) ELSE {<<shell[t], "unavailable">>} :
          LET undo == job.op = "Prepare" /\ ~job.undo /\ r[2] # "ok"
              ends == job.op = "Finish" \/ job.undo
          IN
          /\ shell' = [shell EXCEPT ![t] = r[1]]
          /\ jobs' = [jobs EXCEPT ![t] = IF undo THEN Append(Tail(@), [job EXCEPT !.undo = TRUE]) ELSE Tail(@)]
          /\ IF undo THEN UNCHANGED call ELSE Answer(job, t, IF job.undo THEN "unavailable" ELSE r[2])
          /\ lease' = IF ends /\ lease[t].tok = job.tok THEN [lease EXCEPT ![t] = NoLease] ELSE lease
  /\ UNCHANGED <<known, step, leg, next, armed, phases, rcmds, up, taker, tokens>>

DropSession(s, t) ==
  /\ up' = [up EXCEPT ![s][t] = FALSE]
  /\ taker' = [taker EXCEPT ![t] = IF @ = s THEN Nobody ELSE @]

(* LEASE_MS passes without a poll: the agent's loop takes the lease and      *)
(* closes its session.                                                       *)
LeaseExpires(t) ==
  /\ lease[t] # NoLease
  /\ LET s == lease[t].src IN
     /\ DropSession(s, t)
     /\ call' = [call EXCEPT ![s][t] = Failed(@)]
  /\ lease' = [lease EXCEPT ![t] = NoLease]
  /\ UNCHANGED <<known, step, leg, next, armed, phases, rcmds, shell, jobs, tokens>>

(* Hub::disconnected: the agent goes with the jobs it was given, its lease   *)
(* and that lease's session; those who waited learn it did not respond.      *)
AgentGone(t) ==
  /\ jobs[t] # <<>>
  /\ jobs' = [jobs EXCEPT ![t] = <<>>] /\ lease' = [lease EXCEPT ![t] = NoLease]
  /\ call' = [s \in Sources |-> [call[s] EXCEPT ![t] =
                IF s = lease[t].src THEN Failed(@) ELSE IF @.at = "job" THEN [@ EXCEPT !.at = "unavailable"] ELSE @]]
  /\ IF lease[t].src \in Sources THEN DropSession(lease[t].src, t) ELSE UNCHANGED <<up, taker>>
  /\ UNCHANGED <<known, step, leg, next, armed, phases, rcmds, shell, tokens>>

(* The compositor's own limit on a barrier nobody polls. *)
ShellExpires(t) ==
  /\ shell[t] # 0 /\ lease[t].tok # shell[t]
  /\ shell' = [shell EXCEPT ![t] = 0]
  /\ UNCHANGED <<known, step, leg, next, armed, phases, rcmds, up, call, lease, jobs, taker, tokens>>

-----------------------------------------------------------------------------
SourceStep(s) ==
  \/ \E t \in Targets : Cross(s, t)
  \/ Entered(s) \/ Look(s) \/ Polled(s) \/ Hopped(s) \/ LetGo(s) \/ Crossed(s)
TargetStep(t) ==
  \/ BrokerJob(t) \/ LeaseExpires(t) \/ AgentGone(t) \/ ShellExpires(t)
SessionStep(s, t) == SessionLost(s, t) \/ Leaves(s, t) \/ Request(s, t)

HandoffNext ==
  \/ \E s \in Sources : SourceStep(s) \/ RuntimeStep(s) \/ Enters(s)
  \/ \E t \in Targets : TargetStep(t)
  \/ \E s \in Sources, t \in Targets : SessionStep(s, t)

-----------------------------------------------------------------------------
(* While a desktop is prepared for one computer, only that computer's input  *)
(* is taken there, whatever order leases expire, sessions end and other      *)
(* computers enter in (allows_session, desktop::request).                    *)
LeaseHolderControls ==
  \A t \in Targets : lease[t] # NoLease /\ taker[t] # Nobody => taker[t] = lease[t].src

(* A crossing that is over leaves no input armed or sent for it: the runtime *)
(* is idle or a release is on its way (until_returned's ARMING_LIMIT against *)
(* a grab that succeeds at the same moment, release_own_input).              *)
NoInputAfterCrossing ==
  \A s \in Sources : step[s] = "idle" /\ phases[s] # "Idle" =>
    \E i \in DOMAIN rcmds[s] : rcmds[s][i] = "release"
=============================================================================
