------------------------------ MODULE Playout -------------------------------
(***************************************************************************)
(* core/playout.rs: the receiver's jitter buffer.  Frames carry cumulative *)
(* totals, so playing the newest one repairs every loss before it.         *)
(*                                                                         *)
(* Abstractions.  Clock mapping, the adaptive delay and the velocity       *)
(* estimate decide WHEN a frame is mature and HOW MUCH of a backlog one    *)
(* poll may inject; both are left open here: any eligible frame may be the *)
(* newest mature one, and a limited backlog moves by any non-empty part.   *)
(* rebase_cutoff never exceeds the target sequence, so the test on the     *)
(* target covers it.  act = 0 stands for `playout: None`.                  *)
(***************************************************************************)
EXTENDS InputTypes

PlayoutState == [act: Nat, mark: Nat, queue: SUBSET MotionFrame, seq: Nat,
                 target: Total, inj: Total]

NoPlayout == [act |-> 0, mark |-> 0, queue |-> {}, seq |-> 0, target |-> 0, inj |-> 0]

NewPlayout(act) == [NoPlayout EXCEPT !.act = act]

(* advance_control_watermark *)
AdvanceWatermark(p, seq) == [p EXCEPT !.mark = seq]

(* ingest_frame: retired frames and duplicates leave the queue alone *)
IngestFrame(p, f) == IF f.seq <= p.seq THEN p ELSE [p EXCEPT !.queue = @ \cup {f}]

(* rebase *)
RebaseAllowed(p, a) == a.through >= p.seq /\ Fits(a.totals - p.inj)

(* Mutant: the injected baseline stays behind. *)
Rebase_KeepsInjected(p, a) ==
  [p EXCEPT !.queue = {f \in @ : f.seq > a.through},
            !.seq = a.through, !.target = a.totals]

Rebase(p, a) ==
  [p EXCEPT !.queue = {f \in @ : f.seq > a.through},
            !.seq = a.through, !.target = a.totals, !.inj = a.totals]

(* select_newest_mature_target: a frame waits for the controls sent before it *)
(* Mutant: frames overtake the controls sent before them. *)
Eligible_AnyMark(p) == p.queue

Eligible(p) == {f \in p.queue : f.mark <= p.mark}

Select(p, f) ==
  [p EXCEPT !.queue = {g \in @ : g.seq > f.seq}, !.seq = f.seq, !.target = f.totals]

(* Totals just before the selected sample, when the frame before it is known *)
OwnSampleStart(p, f) ==
  IF f.seq - 1 = p.seq THEN p.target
  ELSE IF \E g \in p.queue : g.seq = f.seq - 1
    THEN (CHOOSE g \in p.queue : g.seq = f.seq - 1).totals
  ELSE f.totals

(* limit_pair: a backlog is cut to a part of it in the same direction, never *)
(* to nothing.                                                               *)
Limited(backlog) ==
  IF backlog > 0 THEN 1 .. backlog ELSE IF backlog < 0 THEN backlog .. -1 ELSE {0}

(* poll: [p, step] outcomes once the target is selected; `start` is where the *)
(* newest sample begins.                                                      *)
HasStep(p, touch) == p.inj # p.target \/ touch # NoTouch

Steps(p, start, touch) ==
  {[p |-> [p EXCEPT !.inj = @ + b + (p.target - start)],
    step |-> [through |-> p.seq, delta |-> b + (p.target - start), touch |-> touch,
              reached |-> p.inj + b + (p.target - start) = p.target]]
      : b \in Limited(start - p.inj)}
=============================================================================
